---- MODULE AgentLoop ----
(***************************************************************************)
(* AgentRunner.run (runtime/orchestrator.py): the loop that asks the model *)
(* for a step, executes the tool calls of its reply side by side, and ends *)
(* only through the validator of the task's outputs, a budget, a provider  *)
(* outage, an input nobody gives, an error or a cancellation; then the     *)
(* finally, which may still turn T2 or T4 into a success and T3 into a     *)
(* pause.                                                                  *)
(* What the run leaves to the state machine is a stop reason, an error     *)
(* text, a recovery signal and whether the researcher chose to stop.       *)
(* An action ends at an await, or where the loop goes on.                  *)
(***************************************************************************)
EXTENDS Naturals, FiniteSets

CONSTANTS
    Kinds,          \* of tasks: "search" (T2), "reading" (T3), "quality" (T4.5, T3.6),
                    \* T4 "selected" (after Gate1's decision) or before it: "native"
                    \* (evolution) or "legacy"; "plain"
    Tools,          \* what a reply may call; "ask" is ask_human, "finish" finish_task
    MaxSteps, Window,           \* steps of the budget, and of one extension
    RetryLimit, RetryIncrease,  \* validation failures allowed, and by one extension
    Extensions,     \* how often either may be extended
    MaxEmpty,       \* max_empty_reply
    MaxNudge,       \* max_nudge_finish
    Batches,        \* provider_retry_batches
    Limit           \* how often the environment may do what is in its domain

Budgets == {"cancel", "fault", "away", "tokens", "retry"}

ASSUME LoopAssumption ==
    /\ {"ask", "finish"} \subseteq Tools
    /\ Kinds \subseteq {"search", "reading", "quality", "native", "legacy", "selected",
                      "plain"}
    /\ MaxSteps \in Nat /\ Window \in Nat \ {0} /\ Extensions \in Nat
    /\ RetryLimit \in Nat /\ RetryIncrease \in Nat \ {0}
    /\ MaxEmpty \in Nat /\ MaxNudge \in Nat /\ Batches \in Nat \ {0}
    /\ Limit \in [Budgets -> Nat]

VARIABLES
    task,       \* kind, whether this is a resumed run, whether ask_human is offered
    pc,
    steps,      \* taken, limit, extensions; over: tokens or time are used up
    checks,     \* validation failures, their limit, extensions
    idle,       \* consecutive replies that were empty, or text only
    batch,      \* provider_failures_this_request
    turn,       \* tool calls of the reply: asked, running, done, paused
    art,        \* the outputs pass the validator, the abstracts are covered,
                \* T4's files for Gate1 (or, after its decision, for T4.5) are
                \* there, sources changed since the last diagnosis
    out,        \* stop_reason, error_msg, the two marks in ctx.extra
    parting,    \* history: "cancel", "stop" or "away", how the researcher ended it
    used        \* what is used up of Limit

loop == <<steps, checks, idle, batch, turn, art>>
vars == <<task, pc, loop, out, parting, used>>

Gates == {"budget_top", "budget_end", "retry", "provider"}
Locations == Gates \cup {"start", "prepare", "step", "llm", "tools", "finish",
                         "wrap", "over", "escaped"}
Stops == {"none", "finished", "interrupted", "error", "budget", "max_steps"}

(* Kinds of recovery signals the state machine turns into a gate.          *)
EveryKind == {"validation", "budget", "max_steps", "provider", "runtime",    \* mutant
              "environment", "human_input", "survey_retrieval", "structured_schema",
              "no_source_progress", "literature_coverage"}
KnownKinds == {"validation", "budget", "max_steps", "provider", "runtime",
               "environment", "human_input", "survey_retrieval"}
Signals == KnownKinds \cup {"none", "structured_schema", "no_source_progress",
                            "literature_coverage"}
Errors == Signals \cup {"hook", "empty", "text", "raised", "cancelled", "no_ask_tool"}

NoTurn == [asked |-> {}, running |-> {}, done |-> {}, paused |-> {}]

Init ==
    /\ task \in [kind : Kinds, resumed : BOOLEAN, asks : BOOLEAN]
    /\ pc = "start"
    /\ steps = [taken |-> 0, limit |-> MaxSteps, ext |-> 0, over |-> FALSE]
    /\ checks = [fails |-> 0, limit |-> RetryLimit, ext |-> 0]
    /\ idle = [empty |-> 0, text |-> 0] /\ batch = 0 /\ turn = NoTurn
    /\ art \in [work : BOOLEAN, cover : BOOLEAN, handover : BOOLEAN, touched : {TRUE}]
    /\ art.handover => task.kind \in {"native", "selected"}
    /\ out = [stop |-> "none", error |-> "none", signal |-> "none", choice |-> FALSE]
    /\ parting = "none" /\ used = [b \in Budgets |-> 0]

Spend(b) == used[b] < Limit[b] /\ used' = [used EXCEPT ![b] = @ + 1]

Go(place) == pc' = place

(* The loop is left: a stop reason, a message, and a signal if one is set. *)
Leave(stop, error, signal) ==
    /\ Go("wrap")
    /\ out' = [out EXCEPT !.stop = stop, !.error = error,
                          !.signal = IF signal = "none" THEN @ ELSE signal]

(* The state machine is told why the run pauses.                           *)
Pause(stop, kind) == Leave(stop, kind, kind)

-----------------------------------------------------------------------------
(* Startup, and the preparation before the first step.                     *)

Started ==
    /\ pc = "start" /\ Go("prepare")
    /\ UNCHANGED <<task, loop, out, parting, used>>

(* _finish_agent_startup_interruption: without the finally.                *)
StartupFails ==
    /\ pc = "start" /\ Spend("fault") /\ Go("over")
    /\ out' = [out EXCEPT !.stop = "interrupted", !.error = "runtime", !.signal = "runtime"]
    /\ UNCHANGED <<task, loop, parting>>

(* Validation as it may find the outputs, after T2's finalization from the *)
(* raw pool or an adjudication of T4.5 and T3.6.                           *)
Verdicts(repairs) == {art.work} \cup (IF repairs THEN {TRUE} ELSE {})

(* One of the _maybe_finalize_*_before_llm: the outputs are there.         *)
PreFinalized ==
    /\ pc = "prepare" /\ task.kind # "native"
    /\ TRUE \in Verdicts(task.kind = "search" /\ task.resumed)
    /\ art' = [art EXCEPT !.work = TRUE]
    /\ Leave("finished", "none", "none")
    /\ UNCHANGED <<task, steps, checks, idle, batch, turn, parting, used>>

(* T4 has checks of its own, narrower than its validator: the pool shown   *)
(* at Gate1 is ready, found so or made so by the evolution; after Gate1's  *)
(* decision the files that T4.5 starts from exist.                         *)
HandOverUnchecked ==    \* mutant: the evolution's result is not looked at
    /\ pc = "prepare" /\ (art.handover \/ task.kind = "native")
    /\ Leave("finished", "none", "none")
    /\ UNCHANGED <<task, loop, parting, used>>

HandOver ==
    /\ pc = "prepare" /\ (art.handover \/ task.kind = "native")
    /\ art' = [art EXCEPT !.handover = TRUE]
    /\ Leave("finished", "none", "none")
    /\ UNCHANGED <<task, steps, checks, idle, batch, turn, parting, used>>

(* A native T4 never asks the model in this loop: without a result, or a   *)
(* confirmation to start from, it pauses.                                  *)
Loopless == task.kind = "native"

RefuseLoop ==
    /\ pc = "prepare" /\ Loopless
    /\ Pause("interrupted", "runtime")
    /\ UNCHANGED <<task, loop, parting, used>>

BeginLoop ==
    /\ pc = "prepare" /\ ~Loopless /\ Go("step")
    /\ UNCHANGED <<task, loop, out, parting, used>>

HookFails ==
    /\ pc = "prepare" /\ Spend("fault")
    /\ Leave("error", "hook", "none")
    /\ UNCHANGED <<task, loop, parting>>

(* RecoverableRuntimePause                                                 *)
PrepareBlocked ==
    /\ pc = "prepare" /\ Spend("fault")
    /\ Pause("interrupted", "runtime")
    /\ UNCHANGED <<task, loop, parting>>

-----------------------------------------------------------------------------
(* The budget and its extension.                                           *)

(* Ask the researcher, or end when nothing may be extended any more.       *)
ExhaustedNever(gate, kind) == Go(gate) /\ UNCHANGED out   \* mutant: always asks
Exhausted(gate, kind) ==
    IF steps.ext < Extensions THEN Go(gate) /\ UNCHANGED out ELSE Pause(kind, kind)

StepForFree ==    \* mutant: the step is not counted
    /\ pc = "step"
    /\ batch' = 0 /\ turn' = NoTurn
    /\ IF steps.taken > steps.limit \/ steps.over
       THEN Exhausted("budget_top", "budget") ELSE Go("llm") /\ UNCHANGED out
    /\ UNCHANGED <<task, steps, checks, idle, art, parting, used>>

Step ==
    /\ pc = "step"
    /\ steps' = [steps EXCEPT !.taken = @ + 1]
    /\ batch' = 0 /\ turn' = NoTurn
    /\ IF steps'.taken > steps.limit \/ steps.over
       THEN Exhausted("budget_top", "budget") ELSE Go("llm") /\ UNCHANGED out
    /\ UNCHANGED <<task, checks, idle, art, parting, used>>

(* The end of an iteration that was not cut short by `continue`.           *)
EndIteration ==
    IF steps.taken >= steps.limit
    THEN Exhausted("budget_end", "max_steps") ELSE Go("step") /\ UNCHANGED out

(* Steps are looked at first, and only what was exceeded is extended.      *)
ExtendBudget ==
    /\ pc \in {"budget_top", "budget_end"} /\ Go("step")
    /\ steps' = IF pc = "budget_end" \/ steps.taken > steps.limit
                THEN [steps EXCEPT !.limit = @ + Window, !.ext = @ + 1]
                ELSE [steps EXCEPT !.over = FALSE, !.ext = @ + 1]
    /\ UNCHANGED <<task, checks, idle, batch, turn, art, out, parting, used>>

(* The researcher stops the run at one of the inline prompts.              *)
Kind(gate) == CASE gate = "budget_top" -> "budget" [] gate = "budget_end" -> "max_steps"
                [] gate = "retry" -> "validation" [] OTHER -> "provider"
StopOf(gate) == IF gate \in {"budget_top", "budget_end"} THEN Kind(gate) ELSE "interrupted"

ChooseStop ==
    /\ pc \in Gates /\ Go("wrap")
    /\ out' = [out EXCEPT !.stop = StopOf(pc), !.error = Kind(pc), !.signal = Kind(pc),
                          !.choice = TRUE]
    /\ parting' = "stop"
    /\ UNCHANGED <<task, loop, used>>

(* Nobody is there: HumanInputUnavailable.                                 *)
NobodyThere ==
    /\ pc \in Gates /\ Spend("away")
    /\ IF pc \in {"budget_top", "budget_end"} THEN Pause("interrupted", "runtime")
       ELSE Pause("interrupted", Kind(pc))
    /\ parting' = "away"
    /\ UNCHANGED <<task, loop>>

-----------------------------------------------------------------------------
(* The request to the model.                                               *)

ProviderFails ==
    /\ pc = "llm" /\ Spend("fault")
    /\ batch' = batch + 1
    /\ IF batch' < Batches THEN UNCHANGED pc ELSE Go("provider")
    /\ UNCHANGED <<task, steps, checks, idle, turn, art, out, parting>>

(* An error that waiting cannot cure.                                      *)
ProviderRefuses ==
    /\ pc = "llm" /\ Spend("fault")
    /\ Leave("error", "provider", "none")
    /\ UNCHANGED <<task, loop, parting>>

RetryProvider ==
    /\ pc = "provider" /\ Spend("retry") /\ Go("llm")
    /\ batch' = 0
    /\ UNCHANGED <<task, steps, checks, idle, turn, art, out, parting>>

(* An answer costs tokens and time.                                        *)
Costs == \/ UNCHANGED <<steps, used>>
         \/ Spend("tokens") /\ steps' = [steps EXCEPT !.over = TRUE]

EmptyReply ==
    /\ pc = "llm" /\ Costs
    /\ idle' = [idle EXCEPT !.empty = @ + 1]
    /\ IF idle'.empty > MaxEmpty THEN Leave("error", "empty", "none")
       ELSE Go("step") /\ UNCHANGED out
    /\ UNCHANGED <<task, checks, batch, turn, art, parting>>

TextReply ==
    /\ pc = "llm" /\ Costs
    /\ idle' = [empty |-> 0, text |-> idle.text + 1]
    /\ IF idle'.text > MaxNudge THEN Leave("error", "text", "none")
       ELSE Go("step") /\ UNCHANGED out
    /\ UNCHANGED <<task, checks, batch, turn, art, parting>>

(* A question goes before everything else in the same reply.               *)
Kept(calls) == IF "ask" \in calls THEN {"ask"} ELSE calls

ToolReply(calls) ==
    /\ pc = "llm" /\ Costs
    /\ "ask" \in calls => task.asks
    /\ idle' = [empty |-> 0, text |-> 0]
    /\ turn' = [NoTurn EXCEPT !.asked = Kept(calls), !.running = Kept(calls)]
    /\ Go("tools")
    /\ UNCHANGED <<task, checks, batch, art, out, parting>>

(* A question in prose, which the runner turns into ask_human if it can.   *)
ProseQuestion ==
    /\ pc = "llm" /\ ~task.asks /\ Costs
    /\ idle' = [idle EXCEPT !.empty = 0]
    /\ Leave("interrupted", "no_ask_tool", "none")
    /\ UNCHANGED <<task, checks, batch, turn, art, parting>>

-----------------------------------------------------------------------------
(* The tool calls of one reply, in any order, also after the run is over.  *)

Works(c) ==    \* what a tool leaves behind
    IF c \in {"ask", "finish"} THEN {art}
    ELSE {[work |-> w, cover |-> art.cover, handover |-> h, touched |-> TRUE] :
             w \in BOOLEAN, h \in IF task.kind = "legacy" THEN BOOLEAN ELSE {art.handover}}

ToolEnds(c) ==
    /\ c \in turn.running
    /\ turn' = [turn EXCEPT !.running = @ \ {c}, !.done = @ \cup {c}]
    /\ art' \in Works(c)
    /\ UNCHANGED <<task, pc, steps, checks, idle, batch, out, parting, used>>

(* An error that is reported to the model.                                 *)
ToolErrs(c) ==
    /\ c \in turn.running /\ Spend("fault")
    /\ turn' = [turn EXCEPT !.running = @ \ {c}]
    /\ UNCHANGED <<task, pc, steps, checks, idle, batch, art, out, parting>>

(* _is_recoverable_tool_pause, and the same invalid structure again.       *)
PauseKind(c) ==
    CASE c = "ask" -> "human_input"
      [] c = "build" /\ task.kind = "plain" -> "environment"
      [] c = "write" /\ task.kind = "plain" -> "survey_retrieval"
      [] c = "write" /\ task.kind = "quality" -> "structured_schema"
      [] OTHER -> "none"

ToolPauses(c) ==
    /\ c \in turn.running /\ PauseKind(c) # "none"
    /\ Spend("away")
    /\ turn' = [turn EXCEPT !.running = @ \ {c}, !.paused = @ \cup {c}]
    /\ UNCHANGED <<task, pc, steps, checks, idle, batch, art, out, parting>>

(* T2's search results cannot be persisted: gather raises at once, and     *)
(* does not stop the other calls.                                          *)
ToolRaises(c) ==
    /\ pc = "tools" /\ c \in turn.running \ {"ask", "finish"} /\ task.kind = "search"
    /\ Spend("fault")
    /\ turn' = [turn EXCEPT !.running = @ \ {c}]
    /\ Leave("error", "raised", "none")
    /\ UNCHANGED <<task, steps, checks, idle, batch, art, parting>>

(* All results are in: a pause goes before a finish.                       *)
Joined == pc = "tools" /\ turn.running = {}

ToolsPaused ==
    /\ Joined /\ turn.paused # {}
    /\ \E c \in turn.paused : Pause("interrupted", PauseKind(c))
    /\ UNCHANGED <<task, loop, parting, used>>

FinishRequested ==
    /\ Joined /\ turn.paused = {} /\ "finish" \in turn.done
    /\ Go("finish")
    /\ UNCHANGED <<task, loop, out, parting, used>>

ToolsDone ==
    /\ Joined /\ turn.paused = {} /\ "finish" \notin turn.done
    /\ EndIteration
    /\ UNCHANGED <<task, loop, parting, used>>

-----------------------------------------------------------------------------
(* finish_task: only the validator can grant it.                           *)

(* _t3_finish_preflight: papers of the queue are unread; not counted.      *)
Defer ==
    /\ pc = "finish" /\ task.kind = "reading" /\ ~art.work
    /\ Go("step")
    /\ UNCHANGED <<task, loop, out, parting, used>>

AcceptOnTrust ==    \* mutant: an accepted adjudication is not validated again
    /\ pc = "finish" /\ (art.work \/ task.kind = "quality")
    /\ Leave("finished", "none", "none")
    /\ UNCHANGED <<task, loop, parting, used>>

Accept ==
    /\ pc = "finish" /\ TRUE \in Verdicts(task.kind \in {"search", "quality"})
    /\ art' = [art EXCEPT !.work = TRUE]
    /\ Leave("finished", "none", "none")
    /\ UNCHANGED <<task, steps, checks, idle, batch, turn, parting, used>>

Rejected ==
    /\ pc = "finish" /\ ~art.work
    /\ checks' = [checks EXCEPT !.fails = @ + 1]
    /\ UNCHANGED <<task, steps, idle, batch, turn, parting, used>>

(* Repairs go on while there is a change, whatever their number.           *)
RepairQuality ==
    /\ task.kind = "quality" /\ Rejected
    /\ art' = [art EXCEPT !.touched = FALSE]
    /\ \/ Go("step") /\ UNCHANGED out
       \/ ~art.touched /\ Pause("interrupted", "no_source_progress")

Repair ==
    /\ task.kind # "quality" /\ Rejected /\ checks'.fails < checks.limit
    /\ EndIteration
    /\ UNCHANGED art

RepairsUsedUp ==
    /\ task.kind # "quality" /\ Rejected /\ checks'.fails >= checks.limit
    /\ IF checks.ext < Extensions THEN Go("retry") /\ UNCHANGED out
       ELSE Pause("interrupted", "validation")
    /\ UNCHANGED art

ExtendRetries ==
    /\ pc = "retry" /\ Go("step")
    /\ checks' = [checks EXCEPT !.limit = @ + RetryIncrease, !.ext = @ + 1]
    /\ UNCHANGED <<task, steps, idle, batch, turn, art, out, parting, used>>

-----------------------------------------------------------------------------
(* The finally.                                                            *)

(* _maybe_finalize_t2_outputs: a resumed T2 that did not finish.           *)
ExitRecovery ==
    /\ task.kind = "search" /\ task.resumed /\ ~art.work
    /\ out.stop \in {"error", "budget", "max_steps"}

RecoverT2 ==
    /\ pc = "wrap" /\ ExitRecovery /\ Go("over")
    /\ art' = [art EXCEPT !.work = TRUE]
    /\ out' = [out EXCEPT !.stop = "finished", !.error = "none"]
    /\ UNCHANGED <<task, steps, checks, idle, batch, turn, parting, used>>

(* _maybe_finalize_t4_gate1_outputs: a pool that a legacy T4 completed     *)
(* makes any end a success, Ctrl+C and a chosen stop included.             *)
CompletedAnyway == task.kind = "legacy" /\ art.handover

FinalizeAnyway ==
    /\ pc = "wrap" /\ CompletedAnyway /\ Go("over")
    /\ out' = [out EXCEPT !.stop = "finished", !.error = "none"]
    /\ UNCHANGED <<task, loop, parting, used>>

(* _maybe_run_t3_abstract_sweep: a success needs the abstracts covered.    *)
SweepAfterFinish ==
    /\ pc = "wrap" /\ task.kind = "reading" /\ out.stop = "finished" /\ Go("over")
    /\ \E covered \in BOOLEAN :
          /\ art' = [art EXCEPT !.cover = covered]
          /\ out' = IF covered THEN out
                    ELSE [out EXCEPT !.stop = "interrupted", !.error = "literature_coverage",
                                     !.signal = "literature_coverage"]
    /\ UNCHANGED <<task, steps, checks, idle, batch, turn, parting, used>>

(* Without the model after any other end: the stop reason stays, the       *)
(* signal does not.                                                        *)
SweepAfterPause ==
    /\ pc = "wrap" /\ task.kind = "reading" /\ Go("over")
    /\ out.stop \in {"interrupted", "budget", "max_steps"}
    /\ \E covered \in {art.cover, TRUE} :
          /\ art' = [art EXCEPT !.cover = covered]
          /\ out' = IF covered THEN out ELSE [out EXCEPT !.signal = "literature_coverage"]
    /\ UNCHANGED <<task, steps, checks, idle, batch, turn, parting, used>>

(* Nothing to recover or to sweep, or the attempt failed.                  *)
WrapUp ==
    /\ pc = "wrap" /\ Go("over")
    /\ ~(task.kind = "reading" /\ out.stop = "finished") /\ ~CompletedAnyway
    /\ UNCHANGED <<task, loop, out, parting, used>>

-----------------------------------------------------------------------------
(* Ctrl+C at an await; in the finally it escapes from run().               *)
CancelStartup ==
    /\ pc = "start" /\ Spend("cancel") /\ parting' = "cancel"
    /\ Go("over")
    /\ out' = [out EXCEPT !.stop = "interrupted", !.error = "cancelled"]
    /\ UNCHANGED <<task, loop>>

Cancel ==
    /\ pc \in Gates \cup {"prepare", "llm", "tools"} \/ (pc = "finish" /\ task.kind \in {"search", "quality"})
    /\ Spend("cancel") /\ parting' = "cancel"
    /\ Leave("interrupted", "cancelled", "none")
    /\ turn' = [turn EXCEPT !.running = {}]
    /\ UNCHANGED <<task, steps, checks, idle, batch, art>>

CancelWrap ==
    /\ pc = "wrap" /\ (ExitRecovery \/ (task.kind = "reading" /\ out.stop = "finished"))
    /\ Spend("cancel") /\ parting' = "cancel"
    /\ Go("escaped")
    /\ UNCHANGED <<task, loop, out>>

Ended == pc \in {"over", "escaped"} /\ turn.running = {} /\ UNCHANGED vars

-----------------------------------------------------------------------------
Internal ==
    \/ Started \/ PreFinalized \/ HandOver \/ RefuseLoop \/ BeginLoop \/ Step
    \/ ToolsPaused \/ FinishRequested \/ ToolsDone
    \/ Defer \/ Accept \/ RepairQuality \/ Repair \/ RepairsUsedUp
    \/ RecoverT2 \/ FinalizeAnyway \/ SweepAfterFinish \/ SweepAfterPause \/ WrapUp

Model ==
    \/ EmptyReply \/ TextReply \/ ProseQuestion
    \/ \E calls \in SUBSET Tools \ {{}} : ToolReply(calls)

Failures ==
    \/ StartupFails \/ HookFails \/ PrepareBlocked \/ ProviderFails \/ ProviderRefuses
    \/ \E c \in Tools : ToolErrs(c) \/ ToolPauses(c) \/ ToolRaises(c)

Researcher ==
    \/ ExtendBudget \/ ExtendRetries \/ RetryProvider \/ ChooseStop \/ NobodyThere
    \/ CancelStartup \/ Cancel \/ CancelWrap

Next == \/ Internal \/ Model \/ Failures \/ Researcher \/ Ended
        \/ \E c \in Tools : ToolEnds(c)

Spec == Init /\ [][Next]_vars

(* The event loop goes on, a request is answered or times out, a tool ends *)
(* or times out; a question or an inline prompt may stay open for ever.    *)
FairSpec ==
    /\ Spec
    /\ WF_vars(Internal) /\ WF_vars(Model)
    /\ \A c \in Tools \ {"ask"} : WF_vars(ToolEnds(c))

-----------------------------------------------------------------------------
TypeOK ==
    /\ task \in [kind : Kinds, resumed : BOOLEAN, asks : BOOLEAN]
    /\ pc \in Locations
    /\ steps \in [taken : Nat, limit : Nat, ext : 0..Extensions, over : BOOLEAN]
    /\ checks \in [fails : Nat, limit : Nat, ext : 0..Extensions]
    /\ idle \in [empty : Nat, text : Nat] /\ batch \in 0..Batches
    /\ turn \in [asked : SUBSET Tools, running : SUBSET Tools, done : SUBSET Tools,
                 paused : SUBSET Tools]
    /\ art \in [work : BOOLEAN, cover : BOOLEAN, handover : BOOLEAN, touched : BOOLEAN]
    /\ out \in [stop : Stops, error : Errors, signal : Signals, choice : BOOLEAN]
    /\ parting \in {"none", "cancel", "stop", "away"} /\ used \in [Budgets -> Nat]

(* What StateMachine.advance makes of the result: one of its Results.      *)
InferableFromNone == {}    \* mutant: only a structured signal counts
InferableFromError == {"validation", "provider"}

GateWanted ==
    \/ out.signal \in KnownKinds
    \/ out.stop \in {"budget", "max_steps"}
    \/ out.stop = "interrupted" /\ out.error \in InferableFromError

PausedSignalFirst ==    \* mutant: the signal is looked at before the choice
    IF GateWanted THEN "stopped_signal" ELSE IF out.choice THEN "paused" ELSE "stopped"
Paused == IF out.choice THEN "paused" ELSE IF GateWanted THEN "stopped_signal" ELSE "stopped"

Outcome ==
    CASE pc = "escaped" -> "stopped"
      [] pc # "escaped" /\ out.stop = "finished" -> "ok"
      [] pc # "escaped" /\ out.stop = "error" -> "failed"
      [] OTHER -> Paused

-----------------------------------------------------------------------------
(* A run is a success only with the outputs its kind of task is granted    *)
(* one for, as they are: passed by the validator, and T3 with its          *)
(* abstracts covered, whichever way it ended: reused, finished,            *)
(* adjudicated or recovered.  T4 may instead have its pool ready for Gate1 *)
(* or its selection for T4.5; by evolution only so.                        *)
OkMeansValidated ==
    [][pc # "over" /\ pc' = "over" /\ out'.stop = "finished" =>
          CASE task.kind = "reading" -> art'.work /\ art'.cover
            [] task.kind = "native" -> art'.handover
            [] task.kind \in {"legacy", "selected"} -> art'.work \/ art'.handover
            [] OTHER -> art'.work]_vars

(* Ctrl+C is an ordinary pause, never a recovery gate, also when the       *)
(* finally goes on to recover T2 or to sweep T3; it is a success only if a *)
(* legacy T4 had completed its pool.                                       *)
CancelIsPlainPause ==
    parting = "cancel" /\ pc \in {"over", "escaped"} =>
        Outcome = "stopped" \/ (Outcome = "ok" /\ CompletedAnyway)

(* A stop chosen at an inline prompt is not followed by a second, generic  *)
(* gate.  It stops the run, unless a resumed T2 completes from what it has *)
(* or a legacy T4 had completed its pool: then it always counts as done.   *)
ChoiceHonoured ==
    parting = "stop" /\ pc = "over" =>
        IF task.kind = "legacy" /\ art.handover THEN Outcome = "ok"
        ELSE Outcome = "paused" \/ (Outcome = "ok" /\ task.kind = "search" /\ task.resumed)

(* A run that ended for its budget, its provider or its validator without  *)
(* a decision leaves the researcher a gate, even when T3's sweep has put   *)
(* its own signal in the place of that one.                                *)
SignalOpensGate ==
    /\ pc = "over" /\ parting # "stop"
    /\ out.stop \in Stops \ {"error", "finished"}
    /\ out.error \in {"budget", "max_steps", "validation", "provider"}
    => Outcome = "stopped_signal"

(* A run ends, if the researcher answers what is asked: repairs that are   *)
(* not counted, deferred finishes and text replies all use up steps.       *)
Asking == pc \in Gates \/ "ask" \in turn.running
RunEnds == <>(pc \in {"over", "escaped"}) \/ <>[]Asking

====
