---- MODULE StateMachine ----
(***************************************************************************)
(* The functional part of orchestration/state_machine.py: what each method *)
(* of StateMachine makes of one StateYaml record.  The runner that decides *)
(* when they are called, and the file system, are in module Pipeline.      *)
(*                                                                         *)
(* A StateYaml is abstracted to the fields control flow reads:             *)
(*   task, status, gate    current_task, status, kind of pending_gate      *)
(*   hist                  history, one [task, status] per agent run       *)
(*   attempts              iteration_history, the identities of the starts *)
(*   iter, rec             task_context human_iteration_directive and      *)
(*                         runtime_recovery: a target and the unique id    *)
(*                         (decision_id, requested_at) of the decision     *)
(*   resumed               task of resumed_human_interaction, if any       *)
(*   err                   last_error has a text from which                *)
(*                         _runtime_recovery_payload_from_error infers a   *)
(*                         recovery kind                                   *)
(***************************************************************************)
EXTENDS Naturals, Sequences, FiniteSets

CONSTANTS
    Tasks,          \* the nodes of state_machine.yaml
    None,
    Initial,        \* initial_state
    Done, Failed,   \* the two terminal nodes
    Gated,          \* nodes with a gate
    Immediate,      \* those with extra.immediate_gate: they never run an agent
    NextOk,         \* next_on_success
    NextFail,       \* next_on_failure
    Branches,       \* the targets of a gate's options
    ReadingTask,    \* T3, the target of return_to_t3_for_reading
    CountFree,      \* the T4.5 family, exempt from the same-parameter count
    SameParamLimit  \* 3 in _check_iteration_deadlock

Terminals == {Done, Failed}
Work == Tasks \ Terminals

ASSUME GraphAssumption ==
    /\ None \notin Tasks
    /\ Initial \in Work /\ ReadingTask \in Work
    /\ Terminals \subseteq Tasks /\ Done # Failed
    /\ Immediate \subseteq Gated /\ Gated \subseteq Work
    /\ NextOk \in [Work -> Tasks] /\ NextFail \in [Work -> Tasks]
    /\ Branches \in [Gated -> SUBSET (Tasks \ {Failed})]
    /\ CountFree \subseteq Tasks
    /\ SameParamLimit \in Nat \ {0}

(* A directive target is a task or None; id 0 is the absent directive.    *)
Directives == [target : Tasks \cup {None}, id : Nat]
NoDirective == [target |-> None, id |-> 0]

Identities == [inputs : Nat, iter : Nat, rec : Nat]
Statuses == {"RUNNING", "WAITING_HUMAN", "PAUSED", "COMPLETED", "FAILED"}
RunStatuses == {"RUNNING", "WAITING_HUMAN", "WAITING_HUMAN_RESOLVED",
                "DONE", "FAILED", "INTERRUPTED"}
Runs == [task : Tasks, status : RunStatuses]
GateKinds == {"none", "node", "runtime", "coverage", "ask"}

States == [task : Tasks, status : Statuses, gate : GateKinds,
           hist : Seq(Runs),
           attempts : [Tasks -> Seq(Identities)],
           iter : Directives, rec : Directives,
           resumed : Tasks \cup {None}, err : BOOLEAN]

InitialState ==
    [task |-> Initial, status |-> "RUNNING", gate |-> "none", hist |-> <<>>,
     attempts |-> [t \in Tasks |-> <<>>], iter |-> NoDirective,
     rec |-> NoDirective, resumed |-> None, err |-> FALSE]

-----------------------------------------------------------------------------
(* History and execution identity.                                         *)

LastIs(s, st) == s.hist # <<>> /\ s.hist[Len(s.hist)].status \in st

(* history[-1].status = st, when there is a history                         *)
WithLast(s, st) ==
    IF s.hist = <<>> THEN s.hist ELSE [s.hist EXCEPT ![Len(s.hist)].status = st]

HasDone(s, t) == \E i \in DOMAIN s.hist : s.hist[i] = [task |-> t, status |-> "DONE"]

(* The id of directive d in the parameters of the current task.            *)
IdFor(s, d) == IF d.target = s.task THEN d.id ELSE 0

(* What a start is counted under: the content of the declared inputs and   *)
(* the human decisions that ask for this very run.                         *)
IdentityOf(s, inputs) ==
    [inputs |-> inputs, iter |-> IdFor(s, s.iter), rec |-> IdFor(s, s.rec)]

SameParam(s, inputs) ==
    Cardinality({i \in DOMAIN s.attempts[s.task] :
                    s.attempts[s.task][i] = IdentityOf(s, inputs)})

(* Mutant: one start too many.                                             *)
DeadlockedLate(s, inputs) ==
    s.task \notin CountFree /\ SameParam(s, inputs) > SameParamLimit

Deadlocked(s, inputs) ==
    s.task \notin CountFree /\ SameParam(s, inputs) >= SameParamLimit

-----------------------------------------------------------------------------
(* start_task, mark_interrupted, _transition_to_next                        *)

StartTask(s, inputs) ==
    [s EXCEPT !.status = "RUNNING", !.gate = "none", !.err = FALSE,
              !.hist = Append(@, [task |-> s.task, status |-> "RUNNING"]),
              !.attempts[s.task] = IF s.task \in CountFree THEN @
                                   ELSE Append(@, IdentityOf(s, inputs))]

MarkInterrupted(s) ==
    [s EXCEPT !.status = "PAUSED",
              !.hist = IF LastIs(s, {"DONE", "FAILED", "INTERRUPTED"}) THEN @
                       ELSE WithLast(s, "INTERRUPTED")]

Transition(s, t) ==
    [s EXCEPT !.task = t,
              !.status = CASE t = Failed -> "FAILED"
                           [] t = Done -> "COMPLETED"
                           [] OTHER -> "RUNNING"]

OpenNodeGate(s) == [s EXCEPT !.gate = "node", !.status = "WAITING_HUMAN"]

-----------------------------------------------------------------------------
(* _pause_for_runtime_recovery_gate: a question an agent of this task left *)
(* unanswered comes before everything else, an integrity error included;   *)
(* otherwise the gate needs an error that is not hard and a recovery kind. *)

RecoveryOpens(s, question, hard, kind) ==
    question = s.task \/ (~hard /\ kind # "none")

RecoveryGate(s, question, kind) ==
    IF question = s.task
    THEN [s EXCEPT !.gate = "ask", !.status = "WAITING_HUMAN", !.err = FALSE]
    ELSE [s EXCEPT !.gate = kind, !.status = "WAITING_HUMAN"]

-----------------------------------------------------------------------------
(* advance: what one agent result makes of the state.  The kinds of result *)
(* are those advance and its helpers tell apart:                           *)
(*   ok               finished, its artifacts valid                        *)
(*   failed           STOP_ERROR without a structured recovery signal      *)
(*   integrity        STOP_ERROR whose text is a hard integrity error      *)
(*   failed_signal    not ok, with a recovery signal in its metadata       *)
(*   stopped          interrupted (a swallowed Ctrl+C), no signal          *)
(*   stopped_signal   interrupted, budget or step limit, with a signal     *)
(*   paused           the researcher chose to pause at an inline prompt    *)

Stops == {"stopped", "stopped_signal", "paused"}
Results == Stops \cup {"ok", "failed", "integrity", "failed_signal"}

Signal(r) == IF r \in {"failed_signal", "stopped_signal"} THEN "runtime" ELSE "none"

(* A single-use directive or answer is consumed by a success of its task.  *)
Consumed(s) ==
    [s EXCEPT !.rec = IF @.target = s.task THEN NoDirective ELSE @,
              !.iter = IF @.target = s.task THEN NoDirective ELSE @,
              !.resumed = IF @ = s.task THEN None ELSE @]

AdvanceOk(s) ==
    LET d == Consumed([s EXCEPT !.hist = WithLast(s, "DONE")])
    IN  IF s.task \in Gated THEN OpenNodeGate(d) ELSE Transition(d, NextOk[s.task])

AdvanceStop(s, r, question, inferable) ==
    LET d == [s EXCEPT !.hist = WithLast(s, "INTERRUPTED"),
                       !.err = r = "paused" /\ inferable]
    IN  IF r # "paused" /\ RecoveryOpens(d, question, FALSE, Signal(r))
        THEN RecoveryGate(d, question, Signal(r))
        ELSE MarkInterrupted(d)

AdvanceFail(s, r, question) ==
    LET d == [s EXCEPT !.hist = WithLast(s, "FAILED")]
    IN  IF RecoveryOpens(d, question, r = "integrity", Signal(r))
        THEN RecoveryGate(d, question, Signal(r))
        ELSE IF NextFail[s.task] \in Terminals
             THEN [d EXCEPT !.task = NextFail[s.task], !.status = "FAILED"]
             ELSE Transition(d, NextFail[s.task])

Advance(s, r, question, inferable) ==
    CASE r = "ok" -> AdvanceOk(s)
      [] r \in Stops -> AdvanceStop(s, r, question, inferable)
      [] OTHER -> AdvanceFail(s, r, question)

-----------------------------------------------------------------------------
(* resolve_pending_gate, per kind of gate; id is the fresh decision id.    *)

(* Mutant: every option takes the default edge.                            *)
ResolveNodeDefault(s, t, id) ==
    Transition([s EXCEPT !.gate = "none",
                         !.iter = IF HasDone(s, t) THEN [target |-> t, id |-> id] ELSE @],
               NextOk[s.task])

(* A gate-only option that leads back to its own gate is an explicit wait. *)
ResolveNode(s, t, id) ==
    LET d == [s EXCEPT !.gate = "none",
                       !.iter = IF HasDone(s, t) THEN [target |-> t, id |-> id] ELSE @]
    IN  IF t = s.task THEN [d EXCEPT !.status = "PAUSED", !.err = FALSE]
        ELSE Transition(d, t)

(* Mutant: a retry without an identity of its own.                         *)
RetryTaskNoId(s, id) ==
    [s EXCEPT !.gate = "none", !.status = "RUNNING", !.err = FALSE]

RetryTask(s, id) ==
    [s EXCEPT !.rec = [target |-> s.task, id |-> id], !.gate = "none",
              !.status = "RUNNING", !.err = FALSE]

(* Mutant: back to the task of the last directive instead of T3.           *)
ReturnToReadingRecorded(s) ==
    [s EXCEPT !.rec = NoDirective, !.gate = "none", !.task = s.rec.target,
              !.status = "RUNNING", !.err = FALSE]

ReturnToReading(s) ==
    [s EXCEPT !.rec = NoDirective, !.gate = "none", !.task = ReadingTask,
              !.status = "RUNNING", !.err = FALSE]

PauseAtGate(s) == [s EXCEPT !.status = "PAUSED", !.err = FALSE]

(* Mutant: the answered question stays pending.                            *)
ResolveAskKeepsGate(s) ==
    [s EXCEPT !.resumed = s.task, !.status = "WAITING_HUMAN", !.err = FALSE]

ResolveAsk(s) ==
    [s EXCEPT !.attempts[s.task] = IF @ = <<>> THEN @ ELSE SubSeq(@, 1, Len(@) - 1),
              !.hist = IF s.hist # <<>> /\ s.hist[Len(s.hist)].task = s.task
                       THEN WithLast(s, "WAITING_HUMAN_RESOLVED") ELSE @,
              !.resumed = s.task, !.gate = "none", !.status = "RUNNING",
              !.err = FALSE]

=============================================================================
