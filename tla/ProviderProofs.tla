---- MODULE ProviderProofs ----
(***************************************************************************)
(* What holds of ProviderCalls for every set of callers and endpoints,     *)
(* every list of candidates and every size of the buckets.                 *)
(***************************************************************************)
EXTENDS ProviderCalls, SequenceTheorems, TLAPS

(* Who stands in a line, each once, and who is suspended there.            *)
Members(q) == {q[i] : i \in DOMAIN q}
Distinct(q) == \A i, j \in DOMAIN q : q[i] = q[j] => i = j
Waiting(e) == {c \in Calls : pc[c] = "bucket" /\ At(c) = e}

(* Before a caller has sent its one request to a rejected endpoint it may  *)
(* be on its way there; afterwards it is not.                              *)
Once ==
    \A c \in Calls, e \in Endpoints :
        /\ late[c][e] <= 1
        /\ late[c][e] = 1 => e \in disabled
        /\ late[c][e] = 1 /\ pc[c] \in {"discover", "bucket"} => At(c) # e

(* A line is those suspended at its bucket: LineIsWaiting, named in parts. *)
Line == \A e \in Rated : Members(queue[e]) = Waiting(e) /\ Distinct(queue[e])

-----------------------------------------------------------------------------
(* Types.                                                                  *)

(* Taking a caller out of a line leaves a line.                            *)
LEMMA WithoutType ==
    ASSUME NEW S, NEW q \in Seq(S), NEW c
    PROVE  Without(q, c) \in Seq(S)
<1>1. CASE \A i \in DOMAIN q : q[i] # c
  BY <1>1 DEF Without
<1>2. CASE ~\A i \in DOMAIN q : q[i] # c
  <2> DEFINE n == CHOOSE i \in DOMAIN q : q[i] = c
  <2>1. n \in DOMAIN q
    BY <1>2
  <2>3. n \in 1..Len(q) /\ Len(q) \in Nat
    BY <2>1
  <2>2. SubSeq(q, 1, n - 1) \in Seq(S) /\ SubSeq(q, n + 1, Len(q)) \in Seq(S)
    <3>1. \A i \in 1..(n - 1) : i \in 1..Len(q)
      BY <2>3
    <3>2. \A i \in (n + 1)..Len(q) : i \in 1..Len(q)
      BY <2>3
    <3> HIDE DEF n
    <3> QED
      BY <2>3, <3>1, <3>2, SubSeqProperties
  <2> QED
    BY <1>2, <2>2, ConcatProperties DEF Without
<1> QED
  BY <1>1, <1>2

(* What the types say of the values a step reads.                          *)
LEMMA Shape ==
    ASSUME TypeOK
    PROVE  /\ \A c \in Calls : Candidates[c] \in Seq(Endpoints) /\ Amount[c] \in Nat \ {0}
           /\ \A e \in Rated : Burst[e] \in Nat \ {0} /\ e \in Endpoints /\ tokens[e] \in Nat
                               /\ queue[e] \in Seq(Calls)
           /\ \A c \in Calls : pc[c] \in {"discover", "bucket", "request"} =>
                 index[c] \in 1..Len(Candidates[c]) /\ At(c) \in Endpoints
BY ProviderAssumption DEF TypeOK, At

(* Sending a request counts in late, and nothing else.                     *)
LEMMA SendType ==
    ASSUME TypeOK, NEW c \in Calls, NEW e \in Endpoints, Send(c, e)
    PROVE  late' \in [Calls -> [Endpoints -> Nat]] /\ pc' = [pc EXCEPT ![c] = "request"]
<1>1. late \in [Calls -> [Endpoints -> Nat]]
  BY DEF TypeOK
<1>2. late[c] \in [Endpoints -> Nat] /\ late[c][e] \in Nat
  BY <1>1
<1>3. late' = [late EXCEPT ![c] = [late[c] EXCEPT ![e] =
                  IF e \in disabled' THEN late[c][e] + 1 ELSE late[c][e]]]
  BY <1>1 DEF Send
<1> QED
  BY <1>1, <1>2, <1>3 DEF Send, Suspend

(* At a bucket a call goes past, is admitted or lines up.                  *)
LEMMA RationType ==
    ASSUME TypeOK, NEW c \in Calls, NEW e \in Endpoints, Ration(c, e)
    PROVE  /\ tokens' \in [Rated -> Nat] /\ queue' \in [Rated -> Seq(Calls)]
           /\ late' \in [Calls -> [Endpoints -> Nat]]
           /\ \E p \in {"request", "bucket"} : pc' = [pc EXCEPT ![c] = p]
<1>1. /\ tokens \in [Rated -> Nat] /\ queue \in [Rated -> Seq(Calls)]
      /\ late \in [Calls -> [Endpoints -> Nat]]
  BY DEF TypeOK
<1>2. CASE Bypass(c, e)
  BY <1>1, <1>2, SendType DEF Bypass
<1>3. CASE Admit(c, e)
  <2>1. e \in Rated /\ tokens[e] >= Amount[c] /\ Send(c, e)
    BY <1>3 DEF Admit, Limited
  <2>2. tokens[e] - Amount[c] \in Nat
    BY <2>1, Shape
  <2>3. Without(queue[e], c) \in Seq(Calls)
    BY <1>1, <2>1, WithoutType
  <2> QED
    BY <1>1, <1>3, <2>1, <2>2, <2>3, SendType DEF Admit
<1>4. CASE LineUp(c, e)
  <2>1. e \in Rated /\ Append(queue[e], c) \in Seq(Calls)
    BY <1>1, <1>4 DEF LineUp, Limited
  <2> QED
    BY <1>1, <1>4, <2>1 DEF LineUp, Suspend
<1> QED
  BY <1>2, <1>3, <1>4 DEF Ration

(* Where the loop takes a call: to a candidate, or out of the round.       *)
ToCandidate(c) ==
    /\ \E p \in {"discover", "request", "bucket"} : pc' = [pc EXCEPT ![c] = p]
    /\ \E j \in DOMAIN Candidates[c] : index' = [index EXCEPT ![c] = j]
OutOfRound(c) ==
    (\E p \in {"sleep", "closing"} : pc' = [pc EXCEPT ![c] = p]) /\ index' = index

(* The loop goes on to a candidate of the list or out of the round.        *)
LEMMA GoOnType ==
    ASSUME TypeOK, NEW c \in Calls, NEW i \in Nat, NEW active \in BOOLEAN, GoOn(c, i, active)
    PROVE  /\ tokens' \in [Rated -> Nat] /\ queue' \in [Rated -> Seq(Calls)]
           /\ late' \in [Calls -> [Endpoints -> Nat]]
           /\ ToCandidate(c) \/ OutOfRound(c)
<1>1. /\ tokens \in [Rated -> Nat] /\ queue \in [Rated -> Seq(Calls)]
      /\ late \in [Calls -> [Endpoints -> Nat]]
  BY DEF TypeOK
<1>2. ASSUME NEW j \in (i + 1)..Len(Candidates[c]), index' = [index EXCEPT ![c] = j],
             Enter(c, Candidates[c][j])
      PROVE  /\ tokens' \in [Rated -> Nat] /\ queue' \in [Rated -> Seq(Calls)]
             /\ late' \in [Calls -> [Endpoints -> Nat]]
             /\ \E p \in {"discover", "request", "bucket"} : pc' = [pc EXCEPT ![c] = p]
             /\ j \in DOMAIN Candidates[c]
  <2>1. j \in DOMAIN Candidates[c] /\ Candidates[c][j] \in Endpoints
    BY Shape
  <2>2. CASE Ration(c, Candidates[c][j])
    BY <2>1, <2>2, RationType
  <2>3. CASE Suspend(c, "discover") /\ UNCHANGED <<tokens, queue, late>>
    BY <1>1, <2>1, <2>3 DEF Suspend
  <2> QED
    BY <1>2, <2>2, <2>3 DEF Enter
<1>3. CASE EndRound(c, active)
  BY <1>1, <1>3 DEF EndRound, Suspend, OutOfRound
<1> QED
  BY <1>2, <1>3 DEF GoOn, ToCandidate

(* Every step keeps the types.                                             *)
LEMMA TypeStep == TypeOK /\ [Next]_vars => TypeOK'
<1> SUFFICES ASSUME TypeOK, [Next]_vars PROVE TypeOK'
  OBVIOUS
<1> USE DEF shared
<1>1. CASE UNCHANGED vars
  BY <1>1 DEF vars, TypeOK
<1>2. ASSUME NEW c \in Calls, Start(c) \/ Wake(c) \/ (\E f \in Failures : RequestFails(c, f))
      PROVE  TypeOK'
  <2>1. PICK i \in Nat, active \in BOOLEAN : GoOn(c, i, active)
    <3>1. pc[c] = "request" => index[c] \in Nat
      BY Shape
    <3>2. CASE Start(c) \/ Wake(c)
      BY <3>2 DEF Start, Wake
    <3>3. CASE \E f \in Failures : RequestFails(c, f)
      BY <3>1, <3>3 DEF RequestFails
    <3> QED
      BY <1>2, <3>2, <3>3
  <2>2. /\ disabled' \subseteq Endpoints /\ known' \subseteq Endpoints
        /\ round' \in [Calls -> Nat] /\ timedOut' \in [Calls -> BOOLEAN]
    <3>1. CASE Start(c)
      BY <3>1 DEF Start, TypeOK
    <3>2. CASE Wake(c)
      BY <3>2 DEF Wake, TypeOK
    <3>3. ASSUME NEW f \in Failures, RequestFails(c, f)
          PROVE  /\ disabled' \subseteq Endpoints /\ known' \subseteq Endpoints
                 /\ round' \in [Calls -> Nat] /\ timedOut' \in [Calls -> BOOLEAN]
      <4>1. disabled' \subseteq Endpoints
        BY <3>3, Shape DEF RequestFails, TypeOK
      <4>2. timedOut' \in [Calls -> BOOLEAN]
        <5>1. (timedOut[c] \/ f = "timeout") \in BOOLEAN /\ timedOut \in [Calls -> BOOLEAN]
          BY DEF TypeOK
        <5> QED
          BY <3>3, <5>1 DEF RequestFails
      <4> QED
        BY <3>3, <4>1, <4>2 DEF RequestFails, TypeOK
    <3> QED
      BY <1>2, <3>1, <3>2, <3>3
  <2>3. /\ pc \in [Calls -> Awaits \cup {"idle"}] /\ index \in [Calls -> Nat]
        /\ \A d \in Calls : pc[d] \in {"discover", "bucket", "request"} =>
              index[d] \in DOMAIN Candidates[d]
    BY DEF TypeOK
  <2>4. CASE ToCandidate(c)
    <3>1. \A j \in DOMAIN Candidates[c] : j \in Nat
      BY Shape
    <3>2. PICK p \in {"discover", "request", "bucket"} : pc' = [pc EXCEPT ![c] = p]
      BY <2>4 DEF ToCandidate
    <3>3. PICK j \in DOMAIN Candidates[c] : index' = [index EXCEPT ![c] = j]
      BY <2>4 DEF ToCandidate
    <3>4. /\ pc' \in [Calls -> Awaits \cup {"idle"}] /\ index' \in [Calls -> Nat]
          /\ \A d \in Calls : pc'[d] \in {"discover", "bucket", "request"} =>
                index'[d] \in DOMAIN Candidates[d]
      BY <2>3, <3>1, <3>2, <3>3 DEF Awaits
    <3> QED
      BY <2>1, <2>2, <3>4, GoOnType DEF TypeOK
  <2>5. CASE OutOfRound(c)
    <3>1. PICK p \in {"sleep", "closing"} : pc' = [pc EXCEPT ![c] = p]
      BY <2>5 DEF OutOfRound
    <3>2. /\ pc' \in [Calls -> Awaits \cup {"idle"}] /\ index' \in [Calls -> Nat]
          /\ \A d \in Calls : pc'[d] \in {"discover", "bucket", "request"} =>
                index'[d] \in DOMAIN Candidates[d]
      BY <2>3, <2>5, <3>1 DEF Awaits, OutOfRound
    <3> QED
      BY <2>1, <2>2, <3>2, GoOnType DEF TypeOK
  <2> QED
    BY <2>1, <2>4, <2>5, GoOnType
<1>3. ASSUME NEW c \in Calls, Discovered(c) \/ Admitted(c)
      PROVE  TypeOK'
  <2>1. At(c) \in Endpoints /\ index[c] \in DOMAIN Candidates[c]
    BY <1>3, Shape DEF Discovered, Admitted, TypeOK
  <2>2. Ration(c, At(c))
    BY <1>3 DEF Discovered, Admitted, Ration
  <2>3. PICK p \in {"request", "bucket"} : pc' = [pc EXCEPT ![c] = p]
    BY <2>1, <2>2, RationType
  <2>4. /\ known' \subseteq Endpoints
        /\ UNCHANGED <<disabled, index, round, timedOut>>
    BY <1>3, <2>1 DEF Discovered, Admitted, TypeOK
  <2> QED
    BY <2>1, <2>2, <2>3, <2>4, RationType DEF TypeOK, Awaits
<1>4. ASSUME NEW c \in Calls, Answered(c) \/ Closed(c)
      PROVE  TypeOK'
  <2>1. CASE Answered(c)
    BY <2>1 DEF Answered, Suspend, TypeOK, Awaits
  <2>2. CASE Closed(c)
    <3>1. /\ pc' = [pc EXCEPT ![c] = "idle"] /\ index' = [index EXCEPT ![c] = 0]
          /\ round' = [round EXCEPT ![c] = 0] /\ timedOut' = [timedOut EXCEPT ![c] = FALSE]
          /\ UNCHANGED <<shared, late>>
      BY <2>2 DEF Closed, Suspend
    <3>2. pc' \in [Calls -> Awaits \cup {"idle"}] /\ index' \in [Calls -> Nat]
      BY <3>1 DEF TypeOK
    <3>3. \A d \in Calls : pc'[d] \in {"discover", "bucket", "request"} =>
             index'[d] \in DOMAIN Candidates[d]
      BY <3>1 DEF TypeOK
    <3> QED
      BY <3>1, <3>2, <3>3 DEF TypeOK
  <2> QED
    BY <1>4, <2>1, <2>2
<1>5. ASSUME NEW c \in Calls, Cancel(c)
      PROVE  TypeOK'
  <2>1. queue' \in [Rated -> Seq(Calls)]
    BY <1>5, Shape, WithoutType DEF Cancel
  <2> QED
    BY <1>5, <2>1 DEF Cancel, Suspend, TypeOK, Awaits
<1>6. ASSUME NEW e \in Rated, Refill(e)
      PROVE  TypeOK'
  BY <1>6 DEF Refill, TypeOK
<1> QED
  BY <1>1, <1>2, <1>3, <1>4, <1>5, <1>6 DEF Next, Step, Provider

(* The type invariant of the client and its callers.                       *)
THEOREM ProviderTypes == Spec => []TypeOK
<1>1. Init => TypeOK
  BY ProviderAssumption DEF Init, TypeOK
<1> QED
  BY <1>1, TypeStep, PTL DEF Spec

-----------------------------------------------------------------------------
(* Rejected credentials.                                                   *)

(* A step of c is the step of nobody else.                                 *)
Others(c) == \A d \in Calls \ {c} : /\ pc'[d] = pc[d] /\ index'[d] = index[d]
                                    /\ late'[d] = late[d]

(* A step of one caller, if it counts no request twice and is not on its   *)
(* way to an endpoint it has already counted.                              *)
LEMMA OnceMove ==
    ASSUME TypeOK, Once, NEW c \in Calls, disabled \subseteq disabled', Others(c),
           \A e \in Endpoints :
              /\ \/ late'[c][e] = late[c][e]
                 \/ late[c][e] = 0 /\ late'[c][e] = 1 /\ e \in disabled'
              /\ late'[c][e] = 1 /\ pc'[c] \in {"discover", "bucket"} => At(c)' # e
    PROVE  Once'
<1> SUFFICES ASSUME NEW d \in Calls, NEW e \in Endpoints
             PROVE  /\ late'[d][e] <= 1
                    /\ late'[d][e] = 1 => e \in disabled'
                    /\ late'[d][e] = 1 /\ pc'[d] \in {"discover", "bucket"} => At(d)' # e
  BY DEF Once
<1>1. CASE d = c
  BY <1>1 DEF Once
<1>2. CASE d # c
  <2>1. pc'[d] = pc[d] /\ At(d)' = At(d) /\ late'[d] = late[d]
    BY <1>2 DEF Others, At
  <2> QED
    BY <2>1 DEF Once
<1> QED
  BY <1>1, <1>2

(* A request is counted at most once where none was, after a rejection.    *)
LEMMA SendOnce ==
    ASSUME TypeOK, NEW c \in Calls, NEW e \in Endpoints, Send(c, e),
           e \notin disabled' \/ late[c][e] = 0
    PROVE  /\ \A d \in Calls \ {c} : late'[d] = late[d]
           /\ \A f \in Endpoints :
                 \/ late'[c][f] = late[c][f]
                 \/ late[c][f] = 0 /\ late'[c][f] = 1 /\ f \in disabled'
<1>1. late \in [Calls -> [Endpoints -> Nat]]
  BY DEF TypeOK
<1>2. late' = [late EXCEPT ![c] = [late[c] EXCEPT ![e] =
                  IF e \in disabled' THEN late[c][e] + 1 ELSE late[c][e]]]
  BY <1>1 DEF Send
<1> QED
  BY <1>1, <1>2

(* The same of all that happens at a bucket.                               *)
LEMMA RationOnce ==
    ASSUME TypeOK, NEW c \in Calls, NEW e \in Endpoints, Ration(c, e),
           e \notin disabled' \/ late[c][e] = 0
    PROVE  /\ pc'[c] = "request" \/ (pc'[c] = "bucket" /\ late' = late)
           /\ \A d \in Calls \ {c} : late'[d] = late[d]
           /\ \A f \in Endpoints :
                 \/ late'[c][f] = late[c][f]
                 \/ late[c][f] = 0 /\ late'[c][f] = 1 /\ f \in disabled'
<1>1. pc \in [Calls -> Awaits \cup {"idle"}]
  BY DEF TypeOK
<1>2. CASE Bypass(c, e) \/ Admit(c, e)
  <2>1. Send(c, e)
    BY <1>2 DEF Bypass, Admit
  <2>2. pc'[c] = "request"
    BY <1>1, <2>1 DEF Send, Suspend
  <2>3. \A d \in Calls \ {c} : late'[d] = late[d]
    BY <2>1, SendOnce
  <2>4. \A f \in Endpoints :
           \/ late'[c][f] = late[c][f]
           \/ late[c][f] = 0 /\ late'[c][f] = 1 /\ f \in disabled'
    BY <2>1, SendOnce
  <2> QED
    BY <2>2, <2>3, <2>4
<1>3. CASE LineUp(c, e)
  BY <1>1, <1>3 DEF LineUp, Suspend
<1> QED
  BY <1>2, <1>3 DEF Ration

(* The loop skips rejected endpoints, the one rejected just now included.  *)
LEMMA GoOnOnce ==
    ASSUME TypeOK, Once, NEW c \in Calls, NEW i \in Nat, NEW active \in BOOLEAN,
           GoOn(c, i, active), disabled \subseteq disabled'
    PROVE  Once'
<1>1. /\ pc \in [Calls -> Awaits \cup {"idle"}] /\ index \in [Calls -> Nat]
      /\ late \in [Calls -> [Endpoints -> Nat]]
  BY DEF TypeOK
<1>2. \A d \in Calls \ {c} : pc'[d] = pc[d] /\ index'[d] = index[d]
  <2>1. CASE ToCandidate(c)
    BY <1>1, <2>1 DEF ToCandidate
  <2>2. CASE OutOfRound(c)
    BY <1>1, <2>2 DEF OutOfRound
  <2> QED
    BY <2>1, <2>2, GoOnType
<1>3. ASSUME NEW j \in (i + 1)..Len(Candidates[c]), Candidates[c][j] \notin disabled',
             index' = [index EXCEPT ![c] = j], Enter(c, Candidates[c][j])
      PROVE  Once'
  <2> DEFINE e == Candidates[c][j]
  <2>1. e \in Endpoints /\ At(c)' = e
    <3>1. j \in DOMAIN Candidates[c]
      BY Shape
    <3> QED
      BY <1>1, <1>3, <3>1, Shape DEF At
  <2>2. late[c][e] # 1
    BY <1>3, <2>1 DEF Once
  <2> HIDE DEF e
  <2>3. CASE Suspend(c, "discover") /\ UNCHANGED <<tokens, queue, late>>
    BY <1>2, <2>1, <2>2, <2>3, OnceMove DEF Others
  <2>4. CASE Ration(c, e)
    <3>1. e \notin disabled'
      BY <1>3 DEF e
    <3>2. /\ pc'[c] = "request" \/ (pc'[c] = "bucket" /\ late' = late)
          /\ \A d \in Calls \ {c} : late'[d] = late[d]
          /\ \A f \in Endpoints :
                \/ late'[c][f] = late[c][f]
                \/ late[c][f] = 0 /\ late'[c][f] = 1 /\ f \in disabled'
      BY <2>1, <2>4, <3>1, RationOnce
    <3> QED
      BY <1>2, <2>1, <2>2, <3>2, OnceMove DEF Others
  <2> QED
    BY <1>3, <2>3, <2>4 DEF Enter, e
<1>4. CASE EndRound(c, active)
  <2>1. late' = late /\ pc'[c] \in {"sleep", "closing"}
    BY <1>1, <1>4 DEF EndRound, Suspend
  <2> QED
    BY <1>2, <2>1, OnceMove DEF Others
<1> QED
  BY <1>3, <1>4 DEF GoOn

(* Every step keeps Once.                                                  *)
LEMMA OnceStep == TypeOK /\ Once /\ [Next]_vars => Once'
<1> SUFFICES ASSUME TypeOK, Once, [Next]_vars PROVE Once'
  OBVIOUS
<1> USE DEF shared
<1>1. CASE UNCHANGED vars
  BY <1>1 DEF vars, Once, At
<1>2. ASSUME NEW c \in Calls, Start(c) \/ Wake(c) \/ (\E f \in Failures : RequestFails(c, f))
      PROVE  Once'
  <2>1. disabled \subseteq disabled'
    BY <1>2 DEF Start, Wake, RequestFails
  <2>2. pc[c] = "request" => index[c] \in Nat
    BY Shape
  <2>3. CASE Start(c) \/ Wake(c)
    BY <2>1, <2>3, GoOnOnce DEF Start, Wake
  <2>4. CASE \E f \in Failures : RequestFails(c, f)
    BY <2>1, <2>2, <2>4, GoOnOnce DEF RequestFails
  <2> QED
    BY <1>2, <2>3, <2>4
<1>3. ASSUME NEW c \in Calls, Discovered(c) \/ Admitted(c)
      PROVE  Once'
  <2>1. At(c) \in Endpoints /\ pc[c] \in {"discover", "bucket"}
    BY <1>3, Shape DEF Discovered, Admitted
  <2>2. Ration(c, At(c)) /\ disabled' = disabled /\ index' = index
    BY <1>3 DEF Discovered, Admitted, Ration
  <2>3. late[c][At(c)] = 0
    BY <2>1 DEF Once, TypeOK
  <2>4. /\ pc'[c] = "request" \/ (pc'[c] = "bucket" /\ late' = late)
        /\ \A d \in Calls \ {c} : late'[d] = late[d]
        /\ \A f \in Endpoints :
              \/ late'[c][f] = late[c][f]
              \/ late[c][f] = 0 /\ late'[c][f] = 1 /\ f \in disabled'
    BY <2>1, <2>2, <2>3, RationOnce
  <2>5. \A d \in Calls \ {c} : pc'[d] = pc[d]
    <3>1. PICK p \in {"request", "bucket"} : pc' = [pc EXCEPT ![c] = p]
      BY <2>1, <2>2, RationType
    <3> QED
      BY <3>1 DEF TypeOK
  <2>6. At(c)' = At(c)
    BY <2>2 DEF At
  <2> QED
    BY <2>2, <2>3, <2>4, <2>5, <2>6, OnceMove DEF Others
<1>4. ASSUME NEW c \in Calls, Answered(c) \/ Closed(c) \/ Cancel(c)
      PROVE  Once'
  <2>1. late' = late /\ disabled' = disabled /\ pc'[c] \in {"closing", "idle"}
    BY <1>4 DEF Answered, Closed, Cancel, Suspend, TypeOK
  <2>2. \A d \in Calls \ {c} : pc'[d] = pc[d] /\ index'[d] = index[d]
    BY <1>4 DEF Answered, Closed, Cancel, Suspend, TypeOK
  <2> QED
    BY <2>1, <2>2, OnceMove DEF Others
<1>5. ASSUME NEW e \in Rated, Refill(e)
      PROVE  Once'
  BY <1>5 DEF Refill, Once, At
<1> QED
  BY <1>1, <1>2, <1>3, <1>4, <1>5 DEF Next, Step, Provider

(* However many callers wait for metadata or tokens when the credentials   *)
(* of an endpoint are rejected, each of them uses those credentials at     *)
(* most once more.                                                         *)
THEOREM RejectedSpent == Spec => []RejectedTriedOnce
<1>1. Init => Once
  BY DEF Init, Once
<1>2. Once => RejectedTriedOnce
  BY DEF Once, RejectedTriedOnce
<1> QED
  BY <1>1, <1>2, OnceStep, ProviderTypes, PTL DEF Spec

-----------------------------------------------------------------------------
(* The line at a bucket.                                                   *)

(* What is left of a line when a caller gives up its place.                *)
LEMMA WithoutAt ==
    ASSUME NEW S, NEW q \in Seq(S), NEW c, \E i \in DOMAIN q : q[i] = c
    PROVE  \E n \in DOMAIN q :
              /\ q[n] = c /\ DOMAIN Without(q, c) = 1..(Len(q) - 1)
              /\ \A i \in 1..(Len(q) - 1) :
                    Without(q, c)[i] = IF i < n THEN q[i] ELSE q[i + 1]
<1> DEFINE n == CHOOSE i \in DOMAIN q : q[i] = c
           w == Without(q, c)
<1>1. n \in DOMAIN q /\ q[n] = c
  OBVIOUS
<1>2. n \in 1..Len(q) /\ Len(q) \in Nat /\ DOMAIN q = 1..Len(q)
  BY <1>1
<1>3. w = SubSeq(q, 1, n - 1) \o SubSeq(q, n + 1, Len(q))
  BY DEF Without
<1> HIDE DEF n, w
<1>4. /\ SubSeq(q, 1, n - 1) \in Seq(S) /\ Len(SubSeq(q, 1, n - 1)) = n - 1
      /\ \A i \in 1..(n - 1) : SubSeq(q, 1, n - 1)[i] = q[i]
  <2>1. \A i \in 1..(n - 1) : q[i] \in S
    BY <1>2
  <2>2. /\ SubSeq(q, 1, n - 1) \in Seq(S)
        /\ Len(SubSeq(q, 1, n - 1)) = IF 1 <= n - 1 THEN n - 1 - 1 + 1 ELSE 0
        /\ \A i \in 1..(n - 1 - 1 + 1) : SubSeq(q, 1, n - 1)[i] = q[1 + i - 1]
    <3>1. 1 \in Int /\ n - 1 \in Int
      BY <1>2
    <3> QED
      BY <2>1, <3>1, SubSeqProperties
  <2>3. n - 1 - 1 + 1 = n - 1 /\ (~(1 <= n - 1) => n - 1 = 0)
    BY <1>2
  <2>4. \A i \in 1..(n - 1) : 1 + i - 1 = i
    BY <1>2
  <2> QED
    BY <2>2, <2>3, <2>4
<1>5. /\ SubSeq(q, n + 1, Len(q)) \in Seq(S)
      /\ Len(SubSeq(q, n + 1, Len(q))) = Len(q) - n
      /\ \A i \in 1..(Len(q) - n) : SubSeq(q, n + 1, Len(q))[i] = q[n + i]
  <2>1. \A i \in (n + 1)..Len(q) : q[i] \in S
    BY <1>2
  <2>2. /\ SubSeq(q, n + 1, Len(q)) \in Seq(S)
        /\ Len(SubSeq(q, n + 1, Len(q))) = IF n + 1 <= Len(q) THEN Len(q) - (n + 1) + 1 ELSE 0
        /\ \A i \in 1..(Len(q) - (n + 1) + 1) : SubSeq(q, n + 1, Len(q))[i] = q[n + 1 + i - 1]
    <3>1. n + 1 \in Int /\ Len(q) \in Int
      BY <1>2
    <3> QED
      BY <2>1, <3>1, SubSeqProperties
  <2>3. \A m \in Nat : n <= m => m - (n + 1) + 1 = m - n /\ (~(n + 1 <= m) => m - n = 0)
    BY <1>2
  <2>4. \A i \in 1..(Len(q) - n) : n + 1 + i - 1 = n + i
    BY <1>2
  <2>5. /\ Len(q) - (n + 1) + 1 = Len(q) - n
        /\ ~(n + 1 <= Len(q)) => Len(q) - n = 0
    <3>1. Len(q) \in Nat /\ n <= Len(q)
      BY <1>2
    <3> QED
      BY <2>3, <3>1
  <2>6. Len(SubSeq(q, n + 1, Len(q))) = Len(q) - n
    BY <2>2, <2>5
  <2>7. ASSUME NEW i \in 1..(Len(q) - n)
        PROVE  SubSeq(q, n + 1, Len(q))[i] = q[n + i]
    BY <2>2, <2>4, <2>5
  <2> QED
    BY <2>2, <2>6, <2>7
<1>6. /\ DOMAIN w = 1..(Len(q) - 1)
      /\ \A i \in 1..(Len(q) - 1) : w[i] = IF i < n THEN q[i] ELSE q[i + 1]
  <2> DEFINE a == SubSeq(q, 1, n - 1)
             b == SubSeq(q, n + 1, Len(q))
  <2>0. /\ w \in Seq(S) /\ Len(w) = Len(a) + Len(b)
        /\ \A i \in 1..(Len(a) + Len(b)) :
              w[i] = IF i <= Len(a) THEN a[i] ELSE b[i - Len(a)]
    <3>1. w = a \o b /\ a \in Seq(S) /\ b \in Seq(S)
      BY <1>3, <1>4, <1>5
    <3> HIDE DEF a, b
    <3>2. /\ a \o b \in Seq(S) /\ Len(a \o b) = Len(a) + Len(b)
          /\ \A i \in 1..(Len(a) + Len(b)) :
                (a \o b)[i] = IF i <= Len(a) THEN a[i] ELSE b[i - Len(a)]
      BY <3>1, ConcatProperties
    <3> QED
      BY <3>1, <3>2
  <2>1. w \in Seq(S) /\ Len(w) = Len(q) - 1
    <3>1. Len(w) = n - 1 + (Len(q) - n)
      BY <1>4, <1>5, <2>0
    <3>2. \A m \in Nat : n - 1 + (m - n) = m - 1
      BY <1>2
    <3>3. Len(q) \in Nat
      BY <1>2
    <3> QED
      BY <2>0, <3>1, <3>2, <3>3
  <2>2. ASSUME NEW i \in 1..(Len(q) - 1)
        PROVE  w[i] = IF i < n THEN q[i] ELSE q[i + 1]
    <3>0. w[i] = IF i <= n - 1 THEN SubSeq(q, 1, n - 1)[i]
                 ELSE SubSeq(q, n + 1, Len(q))[i - (n - 1)]
      <4>1. n - 1 + (Len(q) - n) = Len(q) - 1
        BY <1>2
      <4> QED
        BY <1>4, <1>5, <2>0, <4>1
    <3>1. CASE i < n
      <4>1. i <= n - 1 /\ i \in 1..(n - 1)
        BY <1>2, <3>1
      <4> QED
        BY <1>4, <3>0, <3>1, <4>1
    <3>2. CASE i >= n
      <4>1. /\ ~(i <= n - 1) /\ ~(i < n)
            /\ i - (n - 1) \in 1..(Len(q) - n) /\ n + (i - (n - 1)) = i + 1
        BY <1>2, <3>2
      <4> QED
        BY <1>5, <3>0, <4>1
    <3> QED
      BY <1>2, <3>1, <3>2
  <2> QED
    BY <2>1, <2>2
<1> QED
  BY <1>1, <1>6 DEF w

(* A caller that gives up its place leaves the others theirs.              *)
LEMMA WithoutLine ==
    ASSUME NEW S, NEW q \in Seq(S), NEW c, Distinct(q)
    PROVE  /\ Members(Without(q, c)) = Members(q) \ {c}
           /\ Distinct(Without(q, c))
<1>1. CASE \A i \in DOMAIN q : q[i] # c
  BY <1>1 DEF Without, Members
<1>2. CASE ~\A i \in DOMAIN q : q[i] # c
  <2> DEFINE w == Without(q, c)
  <2>1. PICK n \in DOMAIN q :
           /\ q[n] = c /\ DOMAIN w = 1..(Len(q) - 1)
           /\ \A i \in 1..(Len(q) - 1) : w[i] = IF i < n THEN q[i] ELSE q[i + 1]
    BY <1>2, WithoutAt
  <2>2. n \in 1..Len(q) /\ Len(q) \in Nat /\ DOMAIN q = 1..Len(q)
    BY <2>1
  <2>6. /\ DOMAIN w = 1..(Len(q) - 1)
        /\ \A i \in 1..(Len(q) - 1) : w[i] = IF i < n THEN q[i] ELSE q[i + 1]
    BY <2>1
  <2> HIDE DEF w
  <2>7. Distinct(w)
    <3>1. SUFFICES ASSUME NEW i \in 1..(Len(q) - 1), NEW j \in 1..(Len(q) - 1), w[i] = w[j]
                   PROVE  i = j
      BY <2>6 DEF Distinct
    <3> DEFINE from(k) == IF k < n THEN k ELSE k + 1
    <3>2. \A k \in 1..(Len(q) - 1) : w[k] = q[from(k)] /\ from(k) \in DOMAIN q
      BY <2>2, <2>6
    <3>3. from(i) = from(j)
      BY <3>1, <3>2 DEF Distinct
    <3> QED
      BY <2>2, <3>3
  <2>8. Members(w) = Members(q) \ {c}
    <3>1. ASSUME NEW d \in Members(w)
          PROVE  d \in Members(q) \ {c}
      <4>1. PICK i \in 1..(Len(q) - 1) : w[i] = d
        BY <2>6, <3>1 DEF Members
      <4>2. PICK k \in 1..Len(q) : k # n /\ q[k] = d
        BY <2>2, <2>6, <4>1
      <4> QED
        BY <2>1, <2>2, <4>2 DEF Members, Distinct
    <3>2. ASSUME NEW d \in Members(q) \ {c}
          PROVE  d \in Members(w)
      <4>1. PICK k \in 1..Len(q) : k # n /\ q[k] = d
        BY <2>1, <2>2, <3>2 DEF Members
      <4>2. CASE k < n
        <5>1. k \in 1..(Len(q) - 1) /\ w[k] = d
          BY <2>2, <2>6, <4>1, <4>2
        <5> QED
          BY <2>6, <5>1 DEF Members
      <4>3. CASE k > n
        <5>1. k - 1 \in 1..(Len(q) - 1) /\ w[k - 1] = d
          BY <2>2, <2>6, <4>1, <4>3
        <5> QED
          BY <2>6, <5>1 DEF Members
      <4> QED
        BY <2>2, <4>1, <4>2, <4>3
    <3> QED
      BY <3>1, <3>2
  <2> QED
    BY <2>7, <2>8 DEF w
<1> QED
  BY <1>1, <1>2

(* A caller that lines up stands behind those in line.                     *)
LEMMA AppendLine ==
    ASSUME NEW S, NEW q \in Seq(S), NEW c \in S, Distinct(q), c \notin Members(q)
    PROVE  Members(Append(q, c)) = Members(q) \cup {c} /\ Distinct(Append(q, c))
<1>1. /\ Len(q) \in Nat /\ DOMAIN q = 1..Len(q) /\ DOMAIN Append(q, c) = 1..(Len(q) + 1)
      /\ \A i \in 1..Len(q) : Append(q, c)[i] = q[i]
      /\ Append(q, c)[Len(q) + 1] = c
  BY AppendProperties
<1>2. \A i \in 1..(Len(q) + 1) : i \in 1..Len(q) \/ i = Len(q) + 1
  BY <1>1
<1>3. Distinct(Append(q, c))
  BY <1>1, <1>2 DEF Distinct, Members
<1>4. Members(Append(q, c)) = Members(q) \cup {c}
  <2>1. \A d : d \in Members(Append(q, c)) => d \in Members(q) \cup {c}
    BY <1>1, <1>2 DEF Members
  <2>2. \A i \in 1..Len(q) : i \in 1..(Len(q) + 1)
    BY <1>1
  <2>3. Len(q) + 1 \in 1..(Len(q) + 1)
    BY <1>1
  <2>4. \A d : d \in Members(q) \cup {c} => d \in Members(Append(q, c))
    BY <1>1, <2>2, <2>3 DEF Members
  <2> QED
    BY <2>1, <2>4
<1> QED
  BY <1>3, <1>4

(* A step of one caller that is in no line and joins none.                 *)
LEMMA LineKept ==
    ASSUME Line, NEW c \in Calls, pc[c] # "bucket", pc'[c] # "bucket", queue' = queue,
           \A d \in Calls \ {c} : pc'[d] = pc[d] /\ index'[d] = index[d]
    PROVE  Line'
<1>1. \A e \in Rated : Waiting(e)' = Waiting(e)
  BY DEF Waiting, At
<1> QED
  BY <1>1 DEF Line, Members, Distinct

(* It takes a place, or goes to where there is no line.                    *)
LEMMA LineJoined ==
    ASSUME Line, NEW c \in Calls, pc[c] # "bucket", NEW e, At(c)' = e,
           \A d \in Calls \ {c} : pc'[d] = pc[d] /\ index'[d] = index[d],
           \A f \in Rated :
              /\ Members(queue'[f]) = Members(queue[f]) \cup
                    (IF pc'[c] = "bucket" /\ e = f THEN {c} ELSE {})
              /\ Distinct(queue'[f])
    PROVE  Line'
<1>1. \A f \in Rated : Waiting(f)' = Waiting(f) \cup
         (IF pc'[c] = "bucket" /\ e = f THEN {c} ELSE {})
  <2>1. \A d \in Calls \ {c} : At(d)' = At(d)
    BY DEF At
  <2> QED
    BY <2>1 DEF Waiting
<1>2. \A f \in Rated : Members(queue[f])' = Members(queue'[f]) /\ Distinct(queue[f])' = Distinct(queue'[f])
  BY DEF Members, Distinct
<1> QED
  BY <1>1, <1>2 DEF Line

(* It leaves whatever line it was in.                                      *)
LEMMA LineLeft ==
    ASSUME Line, NEW c \in Calls, pc'[c] # "bucket",
           \A d \in Calls \ {c} : pc'[d] = pc[d] /\ index'[d] = index[d],
           \A f \in Rated : Members(queue'[f]) = Members(queue[f]) \ {c} /\ Distinct(queue'[f])
    PROVE  Line'
<1>1. \A f \in Rated : Waiting(f)' = Waiting(f) \ {c}
  <2>1. \A d \in Calls \ {c} : At(d)' = At(d)
    BY DEF At
  <2> QED
    BY <2>1 DEF Waiting
<1>2. \A f \in Rated : Members(queue[f])' = Members(queue'[f]) /\ Distinct(queue[f])' = Distinct(queue'[f])
  BY DEF Members, Distinct
<1> QED
  BY <1>1, <1>2 DEF Line

(* Lining up and going past: the caller is in no line before.              *)
LEMMA RationLine ==
    ASSUME TypeOK, Line, NEW c \in Calls, NEW e \in Endpoints, Ration(c, e), pc[c] # "bucket"
    PROVE  \A f \in Rated :
              /\ Members(queue'[f]) = Members(queue[f]) \cup
                    (IF pc'[c] = "bucket" /\ e = f THEN {c} ELSE {})
              /\ Distinct(queue'[f])
<1>1. pc \in [Calls -> Awaits \cup {"idle"}] /\ queue \in [Rated -> Seq(Calls)]
  BY DEF TypeOK
<1>2. \A f \in Rated : c \notin Members(queue[f]) /\ Distinct(queue[f])
  BY DEF Line, Waiting
<1>3. CASE Bypass(c, e)
  <2>1. pc'[c] = "request" /\ queue' = queue
    BY <1>1, <1>3 DEF Bypass, Send, Suspend
  <2> QED
    BY <1>2, <2>1
<1>4. CASE Admit(c, e)
  <2>1. pc'[c] = "request" /\ queue' = [queue EXCEPT ![e] = Without(@, c)]
    BY <1>1, <1>4 DEF Admit, Send, Suspend
  <2>2. \A i \in DOMAIN queue[e] : e \in Rated => queue[e][i] # c
    BY <1>2 DEF Members
  <2>3. queue' = queue
    BY <1>1, <2>1, <2>2 DEF Without
  <2> QED
    BY <1>2, <2>1, <2>3
<1>5. CASE LineUp(c, e)
  <2>1. /\ e \in Rated /\ pc'[c] = "bucket"
        /\ queue' = [queue EXCEPT ![e] = Append(queue[e], c)]
    BY <1>1, <1>5 DEF LineUp, Limited, Suspend
  <2>2. /\ Members(Append(queue[e], c)) = Members(queue[e]) \cup {c}
        /\ Distinct(Append(queue[e], c))
    BY <1>1, <1>2, <2>1, AppendLine
  <2> QED
    BY <1>1, <1>2, <2>1, <2>2
<1> QED
  BY <1>3, <1>4, <1>5 DEF Ration

(* From one candidate on.                                                  *)
LEMMA GoOnLine ==
    ASSUME TypeOK, Line, NEW c \in Calls, NEW i \in Nat, NEW active \in BOOLEAN,
           GoOn(c, i, active), pc[c] # "bucket"
    PROVE  Line'
<1>1. /\ pc \in [Calls -> Awaits \cup {"idle"}] /\ index \in [Calls -> Nat]
      /\ queue \in [Rated -> Seq(Calls)]
  BY DEF TypeOK
<1>2. \A d \in Calls \ {c} : pc'[d] = pc[d] /\ index'[d] = index[d]
  <2>1. CASE ToCandidate(c)
    BY <1>1, <2>1 DEF ToCandidate
  <2>2. CASE OutOfRound(c)
    BY <1>1, <2>2 DEF OutOfRound
  <2> QED
    BY <2>1, <2>2, GoOnType
<1>3. ASSUME NEW j \in (i + 1)..Len(Candidates[c]), index' = [index EXCEPT ![c] = j],
             Enter(c, Candidates[c][j])
      PROVE  Line'
  <2> DEFINE e == Candidates[c][j]
  <2>1. e \in Endpoints /\ At(c)' = e
    <3>1. j \in DOMAIN Candidates[c]
      BY Shape
    <3> QED
      BY <1>1, <1>3, <3>1, Shape DEF At
  <2> HIDE DEF e
  <2>2. CASE Suspend(c, "discover") /\ UNCHANGED <<tokens, queue, late>>
    <3>1. pc'[c] # "bucket" /\ queue' = queue
      BY <1>1, <2>2 DEF Suspend
    <3> QED
      BY <1>2, <3>1, LineKept
  <2>3. CASE Ration(c, e)
    <3>1. \A f \in Rated :
             /\ Members(queue'[f]) = Members(queue[f]) \cup
                   (IF pc'[c] = "bucket" /\ e = f THEN {c} ELSE {})
             /\ Distinct(queue'[f])
      BY <2>1, <2>3, RationLine
    <3> QED
      BY <1>2, <2>1, <3>1, LineJoined
  <2> QED
    BY <1>3, <2>2, <2>3 DEF Enter, e
<1>4. CASE EndRound(c, active)
  <2>1. pc'[c] # "bucket" /\ queue' = queue
    BY <1>1, <1>4 DEF EndRound, Suspend
  <2> QED
    BY <1>2, <2>1, LineKept
<1> QED
  BY <1>3, <1>4 DEF GoOn

(* Every step keeps Line.                                                  *)
LEMMA LineStep == TypeOK /\ Line /\ [Next]_vars => Line'
<1> SUFFICES ASSUME TypeOK, Line, [Next]_vars PROVE Line'
  OBVIOUS
<1> USE DEF shared
<1>0. /\ pc \in [Calls -> Awaits \cup {"idle"}] /\ index \in [Calls -> Nat]
      /\ queue \in [Rated -> Seq(Calls)]
  BY DEF TypeOK
<1>1. CASE UNCHANGED vars
  BY <1>1 DEF vars, Line, Waiting, At, Members, Distinct
<1>2. ASSUME NEW c \in Calls, Start(c) \/ Wake(c) \/ (\E f \in Failures : RequestFails(c, f))
      PROVE  Line'
  <2>1. pc[c] = "request" => index[c] \in Nat
    BY Shape
  <2>2. CASE Start(c) \/ Wake(c)
    BY <2>2, GoOnLine DEF Start, Wake
  <2>3. CASE \E f \in Failures : RequestFails(c, f)
    BY <2>1, <2>3, GoOnLine DEF RequestFails
  <2> QED
    BY <1>2, <2>2, <2>3
<1>3. ASSUME NEW c \in Calls, Discovered(c)
      PROVE  Line'
  <2>1. /\ At(c) \in Endpoints /\ pc[c] = "discover" /\ At(c)' = At(c)
        /\ Ration(c, At(c)) /\ index' = index
    BY <1>3, Shape DEF Discovered, At
  <2>2. \A f \in Rated :
           /\ Members(queue'[f]) = Members(queue[f]) \cup
                 (IF pc'[c] = "bucket" /\ At(c) = f THEN {c} ELSE {})
           /\ Distinct(queue'[f])
    BY <2>1, RationLine
  <2>3. \A d \in Calls \ {c} : pc'[d] = pc[d]
    <3>1. PICK p \in {"request", "bucket"} : pc' = [pc EXCEPT ![c] = p]
      BY <2>1, RationType
    <3> QED
      BY <1>0, <3>1
  <2> QED
    BY <2>1, <2>2, <2>3, LineJoined
<1>4. ASSUME NEW c \in Calls, Admitted(c)
      PROVE  Line'
  <2> DEFINE e == At(c)
  <2>1. /\ e \in Rated /\ pc[c] = "bucket" /\ index' = index
        /\ pc' = [pc EXCEPT ![c] = "request"]
        /\ queue' = [queue EXCEPT ![e] = Without(queue[e], c)]
    BY <1>4 DEF Admitted, Admit, Limited, Send, Suspend
  <2>2. /\ Members(Without(queue[e], c)) = Members(queue[e]) \ {c}
        /\ Distinct(Without(queue[e], c))
    BY <1>0, <2>1, WithoutLine DEF Line
  <2>3. \A f \in Rated : f # e => c \notin Members(queue[f]) /\ Distinct(queue[f])
    BY DEF Line, Waiting
  <2> HIDE DEF e
  <2>4. \A f \in Rated : Members(queue'[f]) = Members(queue[f]) \ {c} /\ Distinct(queue'[f])
    BY <1>0, <2>1, <2>2, <2>3
  <2> QED
    BY <1>0, <2>1, <2>4, LineLeft
<1>5. ASSUME NEW c \in Calls, Answered(c) \/ Closed(c)
      PROVE  Line'
  <2>1. /\ queue' = queue /\ pc[c] # "bucket" /\ pc'[c] # "bucket"
        /\ \A d \in Calls \ {c} : pc'[d] = pc[d] /\ index'[d] = index[d]
    BY <1>0, <1>5 DEF Answered, Closed, Suspend
  <2> QED
    BY <2>1, LineKept
<1>6. ASSUME NEW c \in Calls, Cancel(c)
      PROVE  Line'
  <2>1. /\ pc' = [pc EXCEPT ![c] = "closing"] /\ index' = index
        /\ queue' = [f \in Rated |-> Without(queue[f], c)]
    BY <1>6 DEF Cancel, Suspend
  <2>2. \A f \in Rated : Members(queue'[f]) = Members(queue[f]) \ {c} /\ Distinct(queue'[f])
    BY <1>0, <2>1, WithoutLine DEF Line
  <2> QED
    BY <1>0, <2>1, <2>2, LineLeft
<1>7. ASSUME NEW e \in Rated, Refill(e)
      PROVE  Line'
  BY <1>7 DEF Refill, Line, Waiting, At, Members, Distinct
<1> QED
  BY <1>1, <1>2, <1>3, <1>4, <1>5, <1>6, <1>7 DEF Next, Step, Provider

(* Nobody holds the lock of a bucket, or a place in its line, who is not   *)
(* suspended there: those served and those cancelled have left.            *)
THEOREM NobodyLeftInLine == Spec => []LineIsWaiting
<1>1. Init => Line
  BY DEF Init, Line, Members, Waiting, Distinct
<1>2. Line => LineIsWaiting
  BY DEF Line, LineIsWaiting, Members, Waiting, Distinct
<1> QED
  BY <1>1, <1>2, LineStep, ProviderTypes, PTL DEF Spec

-----------------------------------------------------------------------------
(* How a call comes to its end: what EveryCallEnds descends on.            *)

Trying == {"discover", "bucket", "request"}

(* A call is in one of its rounds, sleeps only before another, and not     *)
(* after a timeout unless it is told to.                                   *)
Rounds ==
    \A c \in Calls :
        /\ pc[c] # "idle" => round[c] \in 1..Attempts
        /\ pc[c] = "sleep" => round[c] < Attempts /\ (timedOut[c] => RetryAfterTimeout)

(* Within its round: on with the same candidate, to a later one, out.      *)
Forward(c) ==
    \/ pc[c] = "discover" /\ pc'[c] \in {"bucket", "request"} /\ index'[c] = index[c]
    \/ pc[c] = "bucket" /\ pc'[c] = "request" /\ index'[c] = index[c]
    \/ pc[c] = "request" /\ pc'[c] \in Trying /\ index'[c] > index[c]
    \/ pc[c] \in Trying /\ pc'[c] = "sleep" /\ round[c] < Attempts
    \/ pc[c] \in Trying \cup {"sleep"} /\ pc'[c] = "closing"

Onward(c) ==
    \/ pc'[c] = pc[c] /\ index'[c] = index[c] /\ round'[c] = round[c]
    \/ pc[c] = "closing" /\ pc'[c] = "idle"
    \/ Forward(c) /\ round'[c] = round[c]
    \/ /\ pc[c] = "sleep" /\ pc'[c] \in Trying \cup {"sleep", "closing"}
       /\ round'[c] = round[c] + 1 /\ round'[c] <= Attempts

(* Where the loop takes a call, and that it moves nobody else.             *)
LEMMA GoOnMoves ==
    ASSUME TypeOK, NEW c \in Calls, NEW i \in Nat, NEW active \in BOOLEAN, GoOn(c, i, active)
    PROVE  /\ pc'[c] \in Trying \cup {"sleep", "closing"}
           /\ pc'[c] \in Trying => index'[c] > i
           /\ pc'[c] = "sleep" => round'[c] < Attempts
           /\ \A d \in Calls \ {c} : pc'[d] = pc[d] /\ index'[d] = index[d]
<1>0. pc \in [Calls -> Awaits \cup {"idle"}] /\ index \in [Calls -> Nat]
  BY DEF TypeOK
<1>1. ASSUME NEW j \in (i + 1)..Len(Candidates[c]), index' = [index EXCEPT ![c] = j],
             Enter(c, Candidates[c][j])
      PROVE  /\ pc'[c] \in Trying /\ index'[c] > i
             /\ \A d \in Calls \ {c} : pc'[d] = pc[d] /\ index'[d] = index[d]
  <2>1. Candidates[c][j] \in Endpoints /\ j > i
    BY Shape
  <2>2. \E p \in Trying : pc' = [pc EXCEPT ![c] = p]
    <3>1. CASE Ration(c, Candidates[c][j])
      BY <2>1, <3>1, RationType DEF Trying
    <3>2. CASE Suspend(c, "discover")
      BY <3>2 DEF Suspend, Trying
    <3> QED
      BY <1>1, <3>1, <3>2 DEF Enter
  <2> QED
    BY <1>0, <1>1, <2>1, <2>2
<1>2. CASE EndRound(c, active)
  BY <1>0, <1>2 DEF EndRound, Suspend, Trying
<1> QED
  BY <1>1, <1>2 DEF GoOn, Trying

(* After a round that tried a candidate and timed out there is no sleep.   *)
LEMMA NoSleepAfterTimeout ==
    ASSUME TypeOK, NEW c \in Calls, NEW i \in Nat, GoOn(c, i, TRUE),
           pc'[c] = "sleep", timedOut'[c]
    PROVE  RetryAfterTimeout
<1>0. pc \in [Calls -> Awaits \cup {"idle"}]
  BY DEF TypeOK
<1>1. ASSUME NEW j \in (i + 1)..Len(Candidates[c]), Enter(c, Candidates[c][j])
      PROVE  FALSE
  <2>1. Candidates[c][j] \in Endpoints
    BY Shape
  <2>2. CASE Ration(c, Candidates[c][j])
    <3>1. PICK p \in {"request", "bucket"} : pc' = [pc EXCEPT ![c] = p]
      BY <2>1, <2>2, RationType
    <3> QED
      BY <1>0, <3>1
  <2>3. CASE Suspend(c, "discover")
    BY <1>0, <2>3 DEF Suspend
  <2> QED
    BY <1>1, <2>2, <2>3 DEF Enter
<1>2. CASE EndRound(c, TRUE)
  BY <1>0, <1>2 DEF EndRound, Suspend
<1> QED
  BY <1>1, <1>2 DEF GoOn

(* What a step does with the calls, one case per action.                   *)
LEMMA CallsStep ==
    ASSUME TypeOK, Rounds, [Next]_vars
    PROVE  Rounds' /\ \A c \in Calls : pc[c] # "idle" => Onward(c)
<1> USE DEF shared
<1> DEFINE Goal == Rounds' /\ \A d \in Calls : pc[d] # "idle" => Onward(d)
<1> HIDE DEF Goal
<1>0. /\ pc \in [Calls -> Awaits \cup {"idle"}] /\ index \in [Calls -> Nat]
      /\ round \in [Calls -> Nat] /\ timedOut \in [Calls -> BOOLEAN]
      /\ Attempts \in Nat \ {0}
  BY ProviderAssumption DEF TypeOK
<1>1. ASSUME pc' = pc, index' = index, round' = round, timedOut' = timedOut
      PROVE  Goal
  BY <1>1 DEF Goal, Rounds, Onward
<1>2. ASSUME NEW c \in Calls,
             \A d \in Calls \ {c} : /\ pc'[d] = pc[d] /\ index'[d] = index[d]
                                    /\ round'[d] = round[d] /\ timedOut'[d] = timedOut[d],
             pc'[c] # "idle" => round'[c] \in 1..Attempts,
             pc'[c] = "sleep" => round'[c] < Attempts /\ (timedOut'[c] => RetryAfterTimeout),
             pc[c] # "idle" => Onward(c)
      PROVE  Goal
  <2>1. Rounds'
    BY <1>2 DEF Rounds
  <2>2. \A d \in Calls : pc[d] # "idle" => Onward(d)
    BY <1>2 DEF Onward
  <2> QED
    BY <2>1, <2>2 DEF Goal
<1>3. ASSUME NEW c \in Calls, Start(c)
      PROVE  Goal
  <2>1. /\ GoOn(c, 0, FALSE) /\ pc[c] = "idle"
        /\ round'[c] = 1 /\ timedOut'[c] = FALSE
        /\ \A d \in Calls \ {c} : round'[d] = round[d] /\ timedOut'[d] = timedOut[d]
    BY <1>0, <1>3 DEF Start
  <2>2. /\ pc'[c] \in Trying \cup {"sleep", "closing"}
        /\ pc'[c] = "sleep" => round'[c] < Attempts
        /\ \A d \in Calls \ {c} : pc'[d] = pc[d] /\ index'[d] = index[d]
    <3>1. 0 \in Nat /\ FALSE \in BOOLEAN
      OBVIOUS
    <3> QED
      BY <2>1, <3>1, GoOnMoves
  <2>3. round'[c] \in 1..Attempts
    BY <1>0, <2>1
  <2> QED
    BY <1>2, <2>1, <2>2, <2>3
<1>4. ASSUME NEW c \in Calls, Wake(c)
      PROVE  Goal
  <2>1. /\ GoOn(c, 0, FALSE) /\ pc[c] = "sleep"
        /\ round'[c] = round[c] + 1 /\ timedOut'[c] = FALSE
        /\ \A d \in Calls \ {c} : round'[d] = round[d] /\ timedOut'[d] = timedOut[d]
    BY <1>0, <1>4 DEF Wake
  <2>2. round'[c] \in 1..Attempts
    BY <1>0, <2>1 DEF Rounds
  <2>3. /\ pc'[c] \in Trying \cup {"sleep", "closing"}
        /\ pc'[c] = "sleep" => round'[c] < Attempts
        /\ \A d \in Calls \ {c} : pc'[d] = pc[d] /\ index'[d] = index[d]
    <3>1. 0 \in Nat /\ FALSE \in BOOLEAN
      OBVIOUS
    <3> QED
      BY <2>1, <3>1, GoOnMoves
  <2>4. Onward(c)
    BY <2>1, <2>2, <2>3 DEF Onward
  <2> QED
    BY <1>2, <2>1, <2>2, <2>3, <2>4
<1>5. ASSUME NEW c \in Calls, NEW f \in Failures, RequestFails(c, f)
      PROVE  Goal
  <2>1. /\ GoOn(c, index[c], TRUE) /\ pc[c] = "request" /\ round' = round
        /\ \A d \in Calls \ {c} : timedOut'[d] = timedOut[d]
    BY <1>0, <1>5 DEF RequestFails
  <2>2. index[c] \in Nat /\ round[c] \in 1..Attempts
    BY <1>0, <2>1 DEF Rounds
  <2>3. /\ pc'[c] \in Trying \cup {"sleep", "closing"}
        /\ pc'[c] \in Trying => index'[c] > index[c]
        /\ pc'[c] = "sleep" => round[c] < Attempts
        /\ \A d \in Calls \ {c} : pc'[d] = pc[d] /\ index'[d] = index[d]
    BY <2>1, <2>2, GoOnMoves
  <2>4. Onward(c)
    BY <2>1, <2>3 DEF Onward, Forward, Trying
  <2>5. pc'[c] = "sleep" => round'[c] < Attempts /\ (timedOut'[c] => RetryAfterTimeout)
    BY <2>1, <2>2, <2>3, NoSleepAfterTimeout
  <2> QED
    BY <1>2, <2>1, <2>2, <2>3, <2>4, <2>5
<1>6. ASSUME NEW c \in Calls, Discovered(c) \/ Admitted(c)
      PROVE  Goal
  <2>1. /\ Ration(c, At(c)) /\ pc[c] \in {"discover", "bucket"}
        /\ UNCHANGED <<index, round, timedOut>>
    BY <1>6 DEF Discovered, Admitted, Ration
  <2>2. At(c) \in Endpoints
    BY <2>1, Shape
  <2>3. PICK p \in {"request", "bucket"} : pc' = [pc EXCEPT ![c] = p]
    BY <2>1, <2>2, RationType
  <2>4. Onward(c)
    BY <1>0, <2>1, <2>3 DEF Onward, Forward
  <2>5. pc'[c] # "sleep" /\ round[c] \in 1..Attempts
    BY <1>0, <2>1, <2>3 DEF Rounds
  <2> QED
    BY <1>0, <1>2, <2>1, <2>3, <2>4, <2>5
<1>7. ASSUME NEW c \in Calls, Answered(c) \/ Cancel(c)
      PROVE  Goal
  <2>1. /\ pc' = [pc EXCEPT ![c] = "closing"] /\ pc[c] \in Trying \cup {"sleep"}
        /\ UNCHANGED <<index, round, timedOut>>
    BY <1>7 DEF Answered, Cancel, Suspend, Awaits, Trying
  <2>2. round[c] \in 1..Attempts
    BY <2>1 DEF Rounds, Trying
  <2> QED
    BY <1>0, <1>2, <2>1, <2>2 DEF Onward, Forward
<1>8. ASSUME NEW c \in Calls, Closed(c)
      PROVE  Goal
  <2>1. /\ pc[c] = "closing" /\ pc'[c] = "idle"
        /\ \A d \in Calls \ {c} : /\ pc'[d] = pc[d] /\ index'[d] = index[d]
                                  /\ round'[d] = round[d] /\ timedOut'[d] = timedOut[d]
    BY <1>0, <1>8 DEF Closed, Suspend
  <2> QED
    BY <1>2, <2>1 DEF Onward
<1>9. ASSUME NEW e \in Rated, Refill(e)
      PROVE  Goal
  BY <1>1, <1>9 DEF Refill
<1> QED
  BY <1>1, <1>3, <1>4, <1>5, <1>6, <1>7, <1>8, <1>9 DEF Next, Step, Provider, vars, Goal

(* Every step of a call brings it nearer its end: on with its candidate,   *)
(* to a later one of the list, out of the round, or into another round     *)
(* while there is one left; no step of another call sets it back, whatever *)
(* the providers do and whoever shares its bucket.                         *)
THEOREM CallsMoveOnward == Spec => [][\A c \in Calls : pc[c] # "idle" => Onward(c)]_vars
<1>1. Init => Rounds
  BY DEF Init, Rounds
<1> QED
  BY <1>1, CallsStep, ProviderTypes, PTL DEF Spec

(* No call begins more rounds than it is allowed, and none again after a   *)
(* timeout unless the settings say so.                                     *)
THEOREM RoundsAreBounded == Spec => []Rounds
<1>1. Init => Rounds
  BY DEF Init, Rounds
<1> QED
  BY <1>1, CallsStep, ProviderTypes, PTL DEF Spec

-----------------------------------------------------------------------------
(* Waiting for tokens: who is served, and that there is something to wait  *)
(* for.                                                                    *)

(* A bucket never holds more than its capacity, and nobody stands in line  *)
(* for more than that.                                                     *)
Payable ==
    \A e \in Rated :
        /\ tokens[e] <= Burst[e]
        /\ \A i \in DOMAIN queue[e] : Amount[queue[e][i]] <= Burst[e]

Before(q, c, d) == \E i, j \in DOMAIN q : i < j /\ q[i] = c /\ q[j] = d

Foremost(c, e) == queue[e] # <<>> => Head(queue[e]) = c

(* What a step may do with a line and with the tokens.                     *)
Lined(e) ==
    \/ queue'[e] = queue[e]
    \/ \E c \in Calls : Amount[c] <= Burst[e] /\ queue'[e] = Append(queue[e], c)
    \/ \E c \in Calls :
          /\ queue'[e] = Without(queue[e], c)
          /\ pc'[c] = "closing" \/ (pc'[c] = "request" /\ Foremost(c, e))

Takes(c, e) ==
    /\ pc'[c] = "request" /\ At(c)' = e /\ Foremost(c, e)
    /\ Amount[c] <= tokens[e] /\ tokens'[e] = tokens[e] - Amount[c]

Paid(e) ==
    \/ tokens'[e] = tokens[e]
    \/ tokens[e] < Burst[e] /\ tokens'[e] = tokens[e] + 1
    \/ \E c \in Calls : Takes(c, e)

(* Nobody in line is passed by one behind him, unless he gives up.         *)
InTurn(e) ==
    /\ \A c, d \in Calls : Before(queue[e], c, d) =>
          Before(queue'[e], c, d) \/ pc'[c] \in {"request", "closing"} \/ pc'[d] = "closing"
    /\ tokens'[e] < tokens[e] => \E c \in Calls : Takes(c, e)

(* Giving up a place changes the order of nobody else.                     *)
LEMMA WithoutOrder ==
    ASSUME NEW S, NEW q \in Seq(S), NEW x, NEW c, NEW d, Before(q, c, d), x # c, x # d
    PROVE  Before(Without(q, x), c, d)
<1>1. PICK i \in DOMAIN q, j \in DOMAIN q : i < j /\ q[i] = c /\ q[j] = d
  BY DEF Before
<1>2. CASE \A k \in DOMAIN q : q[k] # x
  BY <1>2 DEF Without
<1>3. CASE \E k \in DOMAIN q : q[k] = x
  <2>1. PICK n \in DOMAIN q :
           /\ q[n] = x /\ DOMAIN Without(q, x) = 1..(Len(q) - 1)
           /\ \A k \in 1..(Len(q) - 1) : Without(q, x)[k] = IF k < n THEN q[k] ELSE q[k + 1]
    BY <1>3, WithoutAt
  <2>2. DOMAIN q = 1..Len(q) /\ Len(q) \in Nat /\ i # n /\ j # n
    BY <1>1, <2>1
  <2> DEFINE to(k) == IF k < n THEN k ELSE k - 1
  <2>3. \A k \in DOMAIN q : k # n => to(k) \in 1..(Len(q) - 1) /\ Without(q, x)[to(k)] = q[k]
    BY <2>1, <2>2
  <2>4. to(i) < to(j)
    BY <1>1, <2>1, <2>2
  <2> HIDE DEF to
  <2> QED
    BY <1>1, <2>1, <2>2, <2>3, <2>4 DEF Before
<1> QED
  BY <1>2, <1>3

(* At a bucket a call goes past, lines up, or is served if it is its turn. *)
LEMMA RationBucket ==
    ASSUME TypeOK, NEW c \in Calls, NEW e \in Endpoints, Ration(c, e), At(c)' = e
    PROVE  \A f \in Rated : Lined(f) /\ Paid(f)
<1>1. /\ pc \in [Calls -> Awaits \cup {"idle"}] /\ queue \in [Rated -> Seq(Calls)]
      /\ tokens \in [Rated -> Nat]
  BY DEF TypeOK
<1>2. CASE Bypass(c, e)
  BY <1>2 DEF Bypass, Lined, Paid
<1>3. CASE Admit(c, e)
  <2>1. /\ e \in Rated /\ pc'[c] = "request" /\ Foremost(c, e) /\ Amount[c] <= tokens[e]
        /\ tokens' = [tokens EXCEPT ![e] = tokens[e] - Amount[c]]
        /\ queue' = [queue EXCEPT ![e] = Without(queue[e], c)]
    BY <1>1, <1>3, Shape DEF Admit, Limited, Send, Suspend, Turn, Foremost
  <2>2. Takes(c, e) /\ queue'[e] = Without(queue[e], c)
    BY <1>1, <2>1 DEF Takes
  <2>3. \A f \in Rated \ {e} : tokens'[f] = tokens[f] /\ queue'[f] = queue[f]
    BY <1>1, <2>1
  <2> QED
    BY <2>1, <2>2, <2>3 DEF Lined, Paid
<1>4. CASE LineUp(c, e)
  <2>1. /\ e \in Rated /\ Amount[c] <= Burst[e] /\ tokens' = tokens
        /\ queue'[e] = Append(queue[e], c)
        /\ \A f \in Rated \ {e} : queue'[f] = queue[f]
    BY <1>1, <1>4 DEF LineUp, Limited
  <2> QED
    BY <2>1 DEF Lined, Paid
<1> QED
  BY <1>2, <1>3, <1>4 DEF Ration

(* From one candidate on.                                                  *)
LEMMA GoOnBucket ==
    ASSUME TypeOK, NEW c \in Calls, NEW i \in Nat, NEW active \in BOOLEAN, GoOn(c, i, active)
    PROVE  \A f \in Rated : Lined(f) /\ Paid(f)
<1>1. index \in [Calls -> Nat]
  BY DEF TypeOK
<1>2. ASSUME NEW j \in (i + 1)..Len(Candidates[c]), index' = [index EXCEPT ![c] = j],
             Enter(c, Candidates[c][j])
      PROVE  \A f \in Rated : Lined(f) /\ Paid(f)
  <2>1. Candidates[c][j] \in Endpoints /\ At(c)' = Candidates[c][j]
    BY <1>1, <1>2, Shape DEF At
  <2>2. CASE UNCHANGED <<tokens, queue, late>>
    BY <2>2 DEF Lined, Paid
  <2> QED
    BY <1>2, <2>1, <2>2, RationBucket DEF Enter
<1>3. CASE EndRound(c, active)
  BY <1>3 DEF EndRound, Lined, Paid
<1> QED
  BY <1>2, <1>3 DEF GoOn

(* Every action, at every bucket.                                          *)
LEMMA BucketStep ==
    ASSUME TypeOK, [Next]_vars
    PROVE  \A f \in Rated : Lined(f) /\ Paid(f)
<1> USE DEF shared
<1> DEFINE Goal == \A f \in Rated : Lined(f) /\ Paid(f)
<1>0. pc \in [Calls -> Awaits \cup {"idle"}] /\ tokens \in [Rated -> Nat]
  BY DEF TypeOK
<1>1. CASE tokens' = tokens /\ queue' = queue
  BY <1>1 DEF Lined, Paid
<1>2. ASSUME NEW c \in Calls, Start(c) \/ Wake(c)
      PROVE  Goal
  BY <1>2, GoOnBucket DEF Start, Wake
<1>3. ASSUME NEW c \in Calls, NEW f \in Failures, RequestFails(c, f)
      PROVE  Goal
  <2>1. index[c] \in Nat
    BY <1>3, Shape DEF RequestFails
  <2> QED
    BY <1>3, <2>1, GoOnBucket DEF RequestFails
<1>4. ASSUME NEW c \in Calls, Discovered(c) \/ Admitted(c)
      PROVE  Goal
  <2>1. Ration(c, At(c)) /\ At(c)' = At(c) /\ At(c) \in Endpoints
    BY <1>4, Shape DEF Discovered, Admitted, Ration, At
  <2> QED
    BY <2>1, RationBucket
<1>5. ASSUME NEW c \in Calls, Cancel(c)
      PROVE  Goal
  <2>1. /\ pc'[c] = "closing" /\ tokens' = tokens
        /\ \A f \in Rated : queue'[f] = Without(queue[f], c)
    BY <1>0, <1>5 DEF Cancel, Suspend
  <2> QED
    BY <2>1 DEF Lined, Paid
<1>6. ASSUME NEW e \in Rated, Refill(e)
      PROVE  Goal
  <2>1. /\ queue' = queue /\ tokens[e] < Burst[e] /\ tokens'[e] = tokens[e] + 1
        /\ \A f \in Rated \ {e} : tokens'[f] = tokens[f]
    BY <1>0, <1>6 DEF Refill
  <2> QED
    BY <2>1 DEF Lined, Paid
<1>7. ASSUME NEW c \in Calls, Answered(c) \/ Closed(c)
      PROVE  Goal
  BY <1>1, <1>7 DEF Answered, Closed
<1> HIDE DEF Goal
<1>8. CASE UNCHANGED vars
  BY <1>1, <1>8 DEF vars
<1>9. ASSUME Next PROVE Goal
  BY <1>2, <1>3, <1>4, <1>5, <1>6, <1>7, <1>9 DEF Next, Step, Provider
<1> QED
  BY <1>8, <1>9 DEF Goal

(* Whoever is in line could be served from a full bucket, step after step. *)
LEMMA PayableStep ==
    ASSUME TypeOK, Line, Payable, [Next]_vars
    PROVE  Payable'
<1> SUFFICES ASSUME NEW e \in Rated
             PROVE  /\ tokens'[e] <= Burst[e]
                    /\ \A i \in DOMAIN queue'[e] : Amount[queue'[e][i]] <= Burst[e]
  BY DEF Payable
<1>1. /\ Lined(e) /\ Paid(e) /\ queue[e] \in Seq(Calls) /\ tokens[e] \in Nat
      /\ tokens[e] <= Burst[e] /\ Burst[e] \in Nat /\ \A c \in Calls : Amount[c] \in Nat
  BY BucketStep, Shape DEF Payable
<1>2. tokens'[e] <= Burst[e]
  BY <1>1 DEF Paid, Takes
<1>3. \A c \in Members(queue[e]) : Amount[c] <= Burst[e]
  BY DEF Payable, Members
<1>4. \A c \in Members(queue'[e]) : Amount[c] <= Burst[e]
  <2>1. CASE queue'[e] = queue[e]
    BY <1>3, <2>1
  <2>2. ASSUME NEW c \in Calls, Amount[c] <= Burst[e], queue'[e] = Append(queue[e], c)
        PROVE  \A d \in Members(queue'[e]) : Amount[d] <= Burst[e]
    <3>1. \A d \in Members(Append(queue[e], c)) : d = c \/ d \in Members(queue[e])
      BY <1>1 DEF Members
    <3> QED
      BY <1>3, <2>2, <3>1
  <2>3. ASSUME NEW c \in Calls, queue'[e] = Without(queue[e], c)
        PROVE  \A d \in Members(queue'[e]) : Amount[d] <= Burst[e]
    <3>1. Members(Without(queue[e], c)) \subseteq Members(queue[e])
      BY <1>1, WithoutLine DEF Line
    <3> QED
      BY <1>3, <2>3, <3>1
  <2> QED
    BY <1>1, <2>1, <2>2, <2>3 DEF Lined
<1> QED
  BY <1>2, <1>4 DEF Members

(* The order of a line, over every action.                                 *)
LEMMA TurnStep ==
    ASSUME TypeOK, Line, [Next]_vars
    PROVE  \A e \in Rated : InTurn(e)
<1> SUFFICES ASSUME NEW e \in Rated PROVE InTurn(e)
  OBVIOUS
<1>1. /\ Lined(e) /\ Paid(e) /\ queue[e] \in Seq(Calls) /\ Distinct(queue[e])
      /\ tokens[e] \in Nat /\ \A c \in Calls : Amount[c] \in Nat
  BY BucketStep, Shape DEF Line
<1>2. tokens'[e] < tokens[e] => \E c \in Calls : Takes(c, e)
  BY <1>1 DEF Paid
<1>3. ASSUME NEW c \in Calls, NEW d \in Calls, Before(queue[e], c, d)
      PROVE  Before(queue'[e], c, d) \/ pc'[c] \in {"request", "closing"} \/ pc'[d] = "closing"
  <2>1. CASE queue'[e] = queue[e]
    BY <1>3, <2>1
  <2>2. ASSUME NEW x \in Calls, queue'[e] = Append(queue[e], x)
        PROVE  Before(queue'[e], c, d)
    <3>1. \A i \in DOMAIN queue[e] : i \in DOMAIN Append(queue[e], x)
                                     /\ Append(queue[e], x)[i] = queue[e][i]
      BY <1>1
    <3> QED
      BY <1>3, <2>2, <3>1 DEF Before
  <2>3. ASSUME NEW x \in Calls, queue'[e] = Without(queue[e], x),
               pc'[x] = "closing" \/ (pc'[x] = "request" /\ Foremost(x, e))
        PROVE  Before(queue'[e], c, d) \/ pc'[c] \in {"request", "closing"} \/ pc'[d] = "closing"
    <3>1. CASE x = c
      BY <2>3, <3>1
    <3>2. CASE x = d
      <4>1. PICK i \in DOMAIN queue[e], j \in DOMAIN queue[e] : i < j /\ queue[e][j] = d
        BY <1>3 DEF Before
      <4>2. queue[e] # <<>> /\ j # 1 /\ 1 \in DOMAIN queue[e] /\ Head(queue[e]) = queue[e][1]
        BY <1>1, <4>1
      <4>3. ~Foremost(d, e)
        BY <1>1, <4>1, <4>2 DEF Foremost, Distinct
      <4> QED
        BY <2>3, <3>2, <4>3
    <3>3. CASE x # c /\ x # d
      BY <1>1, <1>3, <2>3, <3>3, WithoutOrder
    <3> QED
      BY <3>1, <3>2, <3>3
  <2> QED
    BY <1>1, <2>1, <2>2, <2>3 DEF Lined
<1> QED
  BY <1>2, <1>3 DEF InTurn

(* Nobody holds a bucket's lock, or waits for it, for tokens the bucket    *)
(* will never hold: a larger request goes past.                            *)
THEOREM NobodyWaitsInVain == Spec => []Payable
<1>1. Init => Payable
  BY ProviderAssumption DEF Init, Payable
<1>2. Init => Line
  BY DEF Init, Line, Members, Waiting, Distinct
<1> QED
  BY <1>1, <1>2, LineStep, PayableStep, ProviderTypes, PTL DEF Spec

(* A line is served in its order and only its head takes tokens: while a   *)
(* caller waits there, the tokens it waits for only grow, and those before *)
(* it only grow fewer.                                                     *)
THEOREM NobodyIsOvertaken == Spec => [][\A e \in Rated : InTurn(e)]_vars
<1>1. Init => Line
  BY DEF Init, Line, Members, Waiting, Distinct
<1> QED
  BY <1>1, LineStep, TurnStep, ProviderTypes, PTL DEF Spec

=============================================================================
