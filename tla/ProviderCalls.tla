---- MODULE ProviderCalls ----
(***************************************************************************)
(* Concurrent LLMClient.chat calls over one client (llm_client.py,         *)
(* rate_limiter.py): the T4 routes, the agent loop and the abstract sweep  *)
(* share the endpoints a provider has rejected, the context windows found  *)
(* out, and per endpoint a token bucket whose asyncio.Lock is held while   *)
(* its holder sleeps.  An action is what a call does from one await that   *)
(* suspends it to the next; a cancellation may come at any of them.        *)
(* Providers answer, fail, reject the credentials or stay silent.          *)
(***************************************************************************)
EXTENDS Naturals, Sequences

CONSTANTS
    Calls,              \* the callers; each makes one call after the other
    Endpoints,
    Candidates,         \* what resolve() returns for a caller, in order
    Attempts,           \* resolved_attempts
    RetryAfterTimeout,  \* retry_after_timeout
    Rated,              \* endpoints with a TokenBucket
    Burst,              \* its capacity
    Amount              \* max(estimated_tokens, 1) of a caller's requests

ASSUME ProviderAssumption ==
    /\ Candidates \in [Calls -> Seq(Endpoints)]
    /\ Attempts \in Nat \ {0} /\ RetryAfterTimeout \in BOOLEAN
    /\ Rated \subseteq Endpoints
    /\ Burst \in [Rated -> Nat \ {0}] /\ Amount \in [Calls -> Nat \ {0}]

VARIABLES
    disabled,   \* _disabled_auth_endpoints
    known,      \* endpoints whose context window is cached or not to be had
    tokens,     \* _tokens of the buckets
    queue,      \* holder of the bucket's _lock, then those waiting for it
    pc,         \* the await a call is suspended at
    index,      \* which of its candidates the call is at
    round,      \* attempt + 1
    timedOut,   \* round_timed_out
    late        \* history: requests a caller sent to an endpoint after its rejection

shared == <<disabled, known, tokens, queue>>
vars == <<shared, pc, index, round, timedOut, late>>

Awaits == {"discover", "bucket", "request", "sleep", "closing"}
Failures == {"error", "auth", "timeout"}

TypeOK ==
    /\ disabled \subseteq Endpoints /\ known \subseteq Endpoints
    /\ tokens \in [Rated -> Nat] /\ queue \in [Rated -> Seq(Calls)]
    /\ pc \in [Calls -> Awaits \cup {"idle"}]
    /\ index \in [Calls -> Nat] /\ round \in [Calls -> Nat]
    /\ \A c \in Calls : pc[c] \in {"discover", "bucket", "request"} => index[c] \in DOMAIN Candidates[c]
    /\ timedOut \in [Calls -> BOOLEAN]
    /\ late \in [Calls -> [Endpoints -> Nat]]

Init ==
    /\ disabled = {} /\ known = {}
    /\ tokens = Burst /\ queue = [e \in Rated |-> <<>>]
    /\ pc = [c \in Calls |-> "idle"]
    /\ index = [c \in Calls |-> 0] /\ round = [c \in Calls |-> 0]
    /\ timedOut = [c \in Calls |-> FALSE]
    /\ late = [c \in Calls |-> [e \in Endpoints |-> 0]]

(* The endpoint a call is at.                                              *)
At(c) == Candidates[c][index[c]]

-----------------------------------------------------------------------------
(* EndpointRateLimiter.wait and TokenBucket.acquire.                       *)

Suspend(c, place) == pc' = [pc EXCEPT ![c] = place]

Send(c, e) ==
    /\ Suspend(c, "request")
    /\ late' = [late EXCEPT ![c][e] = IF e \in disabled' THEN @ + 1 ELSE @]

(* The lock is free, or the caller's.                                      *)
TurnOfAny(c, e) == TRUE    \* mutant: the lock is not held while sleeping
Turn(c, e) == queue[e] # <<>> => Head(queue[e]) = c

Limited(c, e) == e \in Rated /\ Amount[c] <= Burst[e]

(* A caller is in line once at most.                                       *)
Without(q, c) ==
    IF \A i \in DOMAIN q : q[i] # c THEN q
    ELSE LET n == CHOOSE i \in DOMAIN q : q[i] = c
         IN  SubSeq(q, 1, n - 1) \o SubSeq(q, n + 1, Len(q))

(* A request larger than the bucket goes past it.                          *)
Bypass(c, e) == ~Limited(c, e) /\ Send(c, e) /\ UNCHANGED <<tokens, queue>>

AdmitEarly(c, e) ==    \* mutant: whatever the bucket holds by now
    /\ Limited(c, e) /\ Turn(c, e)
    /\ tokens' = [tokens EXCEPT ![e] = @ - Amount[c]]
    /\ queue' = [queue EXCEPT ![e] = Without(@, c)]
    /\ Send(c, e)

Admit(c, e) ==
    /\ Limited(c, e) /\ Turn(c, e) /\ tokens[e] >= Amount[c]
    /\ tokens' = [tokens EXCEPT ![e] = @ - Amount[c]]
    /\ queue' = [queue EXCEPT ![e] = Without(@, c)]
    /\ Send(c, e)

LineUp(c, e) ==
    /\ Limited(c, e) /\ ~(Turn(c, e) /\ tokens[e] >= Amount[c])
    /\ queue' = [queue EXCEPT ![e] = Append(@, c)]
    /\ Suspend(c, "bucket")
    /\ UNCHANGED <<tokens, late>>

Ration(c, e) == Bypass(c, e) \/ Admit(c, e) \/ LineUp(c, e)

-----------------------------------------------------------------------------
(* The loop of chat over rounds and candidates.                            *)

(* A candidate that is not disabled: find out its context window if no     *)
(* call has, then to the bucket.                                           *)
Enter(c, e) ==
    \/ e \notin known /\ Suspend(c, "discover") /\ UNCHANGED <<tokens, queue, late>>
    \/ e \in known /\ Ration(c, e)

(* The round is over: break, sleep before the next one, or raise.          *)
EndRound(c, active) ==
    /\ Suspend(c, IF /\ active /\ timedOut'[c] => RetryAfterTimeout
                     /\ round'[c] < Attempts
                  THEN "sleep" ELSE "closing")
    /\ UNCHANGED <<index, tokens, queue, late>>

(* From candidate i on; active: one of this round was tried before.        *)
GoOnUnchecked(c, i, active) ==    \* mutant: rejected endpoints are not skipped
    \/ /\ i < Len(Candidates[c])
       /\ index' = [index EXCEPT ![c] = i + 1]
       /\ Enter(c, Candidates[c][i + 1])
    \/ /\ i >= Len(Candidates[c])
       /\ EndRound(c, active)

GoOn(c, i, active) ==
    \/ \E j \in (i + 1)..Len(Candidates[c]) :
          /\ Candidates[c][j] \notin disabled'
          /\ \A k \in (i + 1)..(j - 1) : Candidates[c][k] \in disabled'
          /\ index' = [index EXCEPT ![c] = j]
          /\ Enter(c, Candidates[c][j])
    \/ /\ \A k \in (i + 1)..Len(Candidates[c]) : Candidates[c][k] \in disabled'
       /\ EndRound(c, active)

(* chat, up to its first await.  The endpoints it drops from the list are  *)
(* those the loop skips.                                                   *)
Start(c) ==
    /\ pc[c] = "idle"
    /\ round' = [round EXCEPT ![c] = 1]
    /\ timedOut' = [timedOut EXCEPT ![c] = FALSE]
    /\ UNCHANGED <<disabled, known>>
    /\ GoOn(c, 0, FALSE)

(* The metadata request ends, with a context window or without.            *)
Discovered(c) ==
    /\ pc[c] = "discover"
    /\ known' = known \cup {At(c)}
    /\ UNCHANGED <<disabled, index, round, timedOut>>
    /\ Ration(c, At(c))

(* The holder of the bucket's lock wakes up and finds tokens enough.       *)
Admitted(c) ==
    /\ pc[c] = "bucket"
    /\ UNCHANGED <<disabled, known, index, round, timedOut>>
    /\ Admit(c, At(c))

(* The provider fails, rejects the credentials, or is given up: its task   *)
(* is cancelled and not waited for.                                        *)
RequestFails(c, failure) ==
    /\ pc[c] = "request"
    /\ disabled' = IF failure = "auth" THEN disabled \cup {At(c)} ELSE disabled
    /\ timedOut' = [timedOut EXCEPT ![c] = @ \/ failure = "timeout"]
    /\ UNCHANGED <<known, round>>
    /\ GoOn(c, index[c], TRUE)

Wake(c) ==
    /\ pc[c] = "sleep"
    /\ round' = [round EXCEPT ![c] = @ + 1]
    /\ timedOut' = [timedOut EXCEPT ![c] = FALSE]
    /\ UNCHANGED <<disabled, known>>
    /\ GoOn(c, 0, FALSE)

(* The answer is returned, through the finally.                            *)
Answered(c) ==
    /\ pc[c] = "request"
    /\ Suspend(c, "closing")
    /\ UNCHANGED <<shared, index, round, timedOut, late>>

(* aclose ends or its deadline passes.                                     *)
Closed(c) ==
    /\ pc[c] = "closing"
    /\ Suspend(c, "idle")
    /\ index' = [index EXCEPT ![c] = 0] /\ round' = [round EXCEPT ![c] = 0]
    /\ timedOut' = [timedOut EXCEPT ![c] = FALSE]
    /\ UNCHANGED <<shared, late>>

(* The caller is cancelled: a lock is released, a place in line given up,  *)
(* a request detached; then the finally.                                   *)
CancelKeepsPlace(c) ==    \* mutant: the lock is not released
    /\ pc[c] \in Awaits \ {"closing"}
    /\ Suspend(c, "closing")
    /\ UNCHANGED <<shared, index, round, timedOut, late>>

Cancel(c) ==
    /\ pc[c] \in Awaits \ {"closing"}
    /\ Suspend(c, "closing")
    /\ queue' = [e \in Rated |-> Without(queue[e], c)]
    /\ UNCHANGED <<disabled, known, tokens, index, round, timedOut, late>>

(* Time passes.                                                            *)
Refill(e) ==
    /\ tokens[e] < Burst[e]
    /\ tokens' = [tokens EXCEPT ![e] = @ + 1]
    /\ UNCHANGED <<disabled, known, queue, pc, index, round, timedOut, late>>

-----------------------------------------------------------------------------
Step(c) == Discovered(c) \/ Admitted(c) \/ Wake(c) \/ Closed(c)

Provider(c) == Answered(c) \/ \E f \in Failures : RequestFails(c, f)

Next == \/ \E c \in Calls : Start(c) \/ Step(c) \/ Provider(c) \/ Cancel(c)
        \/ \E e \in Rated : Refill(e)

Spec == Init /\ [][Next]_vars

(* Timers run and the event loop schedules what is due; a provider may     *)
(* stay silent for ever.                                                   *)
FairSpec ==
    /\ Spec
    /\ \A c \in Calls : WF_vars(Step(c)) /\ WF_vars(RequestFails(c, "timeout"))
    /\ \A e \in Rated : WF_vars(Refill(e))

-----------------------------------------------------------------------------
(* Rejected credentials are not used again: a caller that looked before    *)
(* the rejection, and then waited for metadata or tokens, may send one     *)
(* request after it, in all its calls, rounds and candidates.              *)
RejectedTriedOnce == \A c \in Calls, e \in Endpoints : late[c][e] <= 1

(* Those in line at a bucket are exactly the calls suspended there, each   *)
(* once: whoever was served or cancelled no longer holds the lock.         *)
LineIsWaiting ==
    \A e \in Rated :
        /\ {queue[e][i] : i \in DOMAIN queue[e]} = {c \in Calls : pc[c] = "bucket" /\ At(c) = e}
        /\ \A i, j \in DOMAIN queue[e] : queue[e][i] = queue[e][j] => i = j

(* Every call ends, if no provider ever answers and whatever the others    *)
(* ask of the same bucket: time, not the provider, takes it on.            *)
EveryCallEnds == \A c \in Calls : pc[c] # "idle" ~> pc[c] = "idle"

=============================================================================
