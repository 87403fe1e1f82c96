---- MODULE PipelineProofs ----
(***************************************************************************)
(* What holds of Pipeline for every graph of tasks, every deadlock limit   *)
(* and every budget of the environment.  First the lemmas about the        *)
(* operators of StateMachine: what each method makes of a well-formed      *)
(* StateYaml is well formed; then what relates the file and the process.   *)
(* Last, what no crash, interrupt, resume or failure undoes: the count of  *)
(* the deadlock guard of _check_iteration_deadlock, which bounds the       *)
(* unattended launches of every task, and the questions and gates nobody   *)
(* has answered.                                                           *)
(***************************************************************************)
EXTENDS Pipeline, SequenceTheorems, FiniteSetTheorems, TLAPS

(* The record every method starts from, field by field.                    *)
LEMMA Fields ==
    ASSUME NEW s \in States
    PROVE  /\ s.task \in Tasks /\ s.status \in Statuses /\ s.gate \in GateKinds
           /\ s.hist \in Seq(Runs) /\ s.attempts \in [Tasks -> Seq(Identities)]
           /\ s.iter \in Directives /\ s.rec \in Directives
           /\ s.resumed \in Tasks \cup {None} /\ s.err \in BOOLEAN
BY DEF States

(* A directive never appears or disappears from nowhere.                   *)
LEMMA NoDirectiveType == NoDirective \in Directives
BY DEF NoDirective, Directives

LEMMA InitialStateType == InitialState \in States
<1>1. <<>> \in Seq(Runs) /\ <<>> \in Seq(Identities)
  BY EmptySeq
<1>2. Initial \in Tasks
  BY GraphAssumption DEF Work
<1> QED
  BY <1>1, <1>2, NoDirectiveType DEF InitialState, States, Statuses, GateKinds

(* Rewriting the status of the newest run keeps a history a history.       *)
LEMMA WithLastType ==
    ASSUME NEW s \in States, NEW st \in RunStatuses
    PROVE  /\ WithLast(s, st) \in Seq(Runs)
           /\ Len(WithLast(s, st)) = Len(s.hist)
<1>1. CASE s.hist = <<>>
  BY <1>1, Fields DEF WithLast
<1>2. CASE s.hist # <<>>
  <2>1. Len(s.hist) \in 1 .. Len(s.hist)
    BY <1>2, Fields, EmptySeq
  <2>2. s.hist[Len(s.hist)] \in Runs
    BY <2>1, Fields, ElementOfSeq
  <2>3. [s.hist[Len(s.hist)] EXCEPT !.status = st] \in Runs
    BY <2>2 DEF Runs
  <2>4. WithLast(s, st) = [s.hist EXCEPT ![Len(s.hist)] =
                              [s.hist[Len(s.hist)] EXCEPT !.status = st]]
    BY <1>2 DEF WithLast
  <2> HIDE DEF WithLast
  <2> QED
    BY <2>1, <2>3, <2>4, Fields, ExceptSeq
<1> QED
  BY <1>1, <1>2

LEMMA IdentityType ==
    ASSUME NEW s \in States, NEW ins \in Nat
    PROVE  IdentityOf(s, ins) \in Identities
BY Fields DEF IdentityOf, IdFor, Identities, Directives

LEMMA StartTaskType ==
    ASSUME NEW s \in States, NEW ins \in Nat
    PROVE  StartTask(s, ins) \in States
<1>1. Append(s.hist, [task |-> s.task, status |-> "RUNNING"]) \in Seq(Runs)
  <2>1. [task |-> s.task, status |-> "RUNNING"] \in Runs
    BY Fields DEF Runs, RunStatuses
  <2> QED
    BY <2>1, Fields
<1>2. (IF s.task \in CountFree THEN s.attempts[s.task]
       ELSE Append(s.attempts[s.task], IdentityOf(s, ins))) \in Seq(Identities)
  BY Fields, IdentityType
<1> DEFINE a == [s.attempts EXCEPT ![s.task] =
                    IF s.task \in CountFree THEN s.attempts[s.task]
                    ELSE Append(s.attempts[s.task], IdentityOf(s, ins))]
<1>3. a \in [Tasks -> Seq(Identities)]
  BY <1>2, Fields
<1>4. StartTask(s, ins) =
        [s EXCEPT !.status = "RUNNING", !.gate = "none", !.err = FALSE,
                  !.hist = Append(s.hist, [task |-> s.task, status |-> "RUNNING"]),
                  !.attempts = a]
  BY DEF StartTask, States
<1> HIDE DEF a
<1> QED
  BY <1>1, <1>3, <1>4 DEF States, Statuses, GateKinds

LEMMA MarkInterruptedType ==
    ASSUME NEW s \in States
    PROVE  MarkInterrupted(s) \in States
<1>1. WithLast(s, "INTERRUPTED") \in Seq(Runs)
  BY WithLastType DEF RunStatuses
<1> QED
  BY <1>1, Fields DEF MarkInterrupted, States, Statuses

LEMMA TransitionType ==
    ASSUME NEW s \in States, NEW t \in Tasks
    PROVE  Transition(s, t) \in States
BY DEF Transition, States, Statuses

LEMMA OpenNodeGateType ==
    ASSUME NEW s \in States
    PROVE  OpenNodeGate(s) \in States
BY DEF OpenNodeGate, States, Statuses, GateKinds

LEMMA RecoveryGateType ==
    ASSUME NEW s \in States, NEW q, NEW kind \in GateKinds
    PROVE  RecoveryGate(s, q, kind) \in States
BY DEF RecoveryGate, States, Statuses, GateKinds

-----------------------------------------------------------------------------
(* advance                                                                 *)

LEMMA ConsumedType ==
    ASSUME NEW s \in States
    PROVE  Consumed(s) \in States
BY NoDirectiveType DEF Consumed, States

LEMMA CloseRunType ==
    ASSUME NEW s \in States, NEW st \in RunStatuses, NEW e \in BOOLEAN
    PROVE  /\ [s EXCEPT !.hist = WithLast(s, st)] \in States
           /\ [s EXCEPT !.hist = WithLast(s, st), !.err = e] \in States
BY WithLastType DEF States

LEMMA SignalType == \A r : Signal(r) \in GateKinds
BY DEF Signal, GateKinds

LEMMA AdvanceOkType ==
    ASSUME NEW s \in States, s.task \in Work
    PROVE  AdvanceOk(s) \in States
<1> DEFINE d == Consumed([s EXCEPT !.hist = WithLast(s, "DONE")])
<1>1. d \in States
  BY CloseRunType, ConsumedType DEF RunStatuses
<1>2. NextOk[s.task] \in Tasks
  BY GraphAssumption
<1> HIDE DEF d
<1>3. OpenNodeGate(d) \in States /\ Transition(d, NextOk[s.task]) \in States
  BY <1>1, <1>2, OpenNodeGateType, TransitionType
<1>4. AdvanceOk(s) = IF s.task \in Gated THEN OpenNodeGate(d)
                     ELSE Transition(d, NextOk[s.task])
  BY DEF AdvanceOk, d
<1> QED
  BY <1>3, <1>4

LEMMA AdvanceStopType ==
    ASSUME NEW s \in States, NEW r, NEW q, NEW e \in BOOLEAN
    PROVE  AdvanceStop(s, r, q, e) \in States
<1> DEFINE d == [s EXCEPT !.hist = WithLast(s, "INTERRUPTED"),
                          !.err = r = "paused" /\ e]
<1>1. d \in States
  <2>1. (r = "paused" /\ e) \in BOOLEAN
    OBVIOUS
  <2> QED
    BY <2>1, CloseRunType DEF RunStatuses
<1> HIDE DEF d
<1>2. RecoveryGate(d, q, Signal(r)) \in States /\ MarkInterrupted(d) \in States
  BY <1>1, SignalType, RecoveryGateType, MarkInterruptedType
<1>3. AdvanceStop(s, r, q, e) =
        IF r # "paused" /\ RecoveryOpens(d, q, FALSE, Signal(r))
        THEN RecoveryGate(d, q, Signal(r)) ELSE MarkInterrupted(d)
  BY DEF AdvanceStop, d
<1> QED
  BY <1>2, <1>3

LEMMA AdvanceFailType ==
    ASSUME NEW s \in States, NEW r, NEW q, s.task \in Work
    PROVE  AdvanceFail(s, r, q) \in States
<1> DEFINE d == [s EXCEPT !.hist = WithLast(s, "FAILED")]
           n == NextFail[s.task]
<1>1. d \in States
  BY CloseRunType DEF RunStatuses
<1>2. n \in Tasks
  BY GraphAssumption
<1>3. AdvanceFail(s, r, q) =
        IF RecoveryOpens(d, q, r = "integrity", Signal(r))
        THEN RecoveryGate(d, q, Signal(r))
        ELSE IF n \in Terminals THEN [d EXCEPT !.task = n, !.status = "FAILED"]
             ELSE Transition(d, n)
  BY DEF AdvanceFail, d, n
<1> HIDE DEF d, n
<1>4. RecoveryGate(d, q, Signal(r)) \in States /\ Transition(d, n) \in States
  BY <1>1, <1>2, SignalType, RecoveryGateType, TransitionType
<1>5. [d EXCEPT !.task = n, !.status = "FAILED"] \in States
  BY <1>1, <1>2 DEF States, Statuses
<1> QED
  BY <1>3, <1>4, <1>5

LEMMA AdvanceType ==
    ASSUME NEW s \in States, NEW r, NEW q, NEW e \in BOOLEAN, s.task \in Work
    PROVE  Advance(s, r, q, e) \in States
BY AdvanceOkType, AdvanceStopType, AdvanceFailType DEF Advance

-----------------------------------------------------------------------------
(* resolve_pending_gate                                                    *)

LEMMA ResolveNodeType ==
    ASSUME NEW s \in States, NEW t \in Tasks, NEW id \in Nat
    PROVE  ResolveNode(s, t, id) \in States
<1> DEFINE d == [s EXCEPT !.gate = "none",
                          !.iter = IF HasDone(s, t) THEN [target |-> t, id |-> id]
                                   ELSE s.iter]
<1>1. d \in States
  <2>1. [target |-> t, id |-> id] \in Directives
    BY DEF Directives
  <2> QED
    BY <2>1 DEF States, GateKinds
<1>2. ResolveNode(s, t, id) = IF t = s.task THEN [d EXCEPT !.status = "PAUSED", !.err = FALSE]
                              ELSE Transition(d, t)
  BY DEF ResolveNode, d, States
<1> HIDE DEF d
<1>3. [d EXCEPT !.status = "PAUSED", !.err = FALSE] \in States
  BY <1>1 DEF States, Statuses
<1> QED
  BY <1>1, <1>2, <1>3, TransitionType

LEMMA RetryTaskType ==
    ASSUME NEW s \in States, NEW id \in Nat
    PROVE  RetryTask(s, id) \in States
<1>1. [target |-> s.task, id |-> id] \in Directives
  BY Fields DEF Directives
<1> QED
  BY <1>1 DEF RetryTask, States, Statuses, GateKinds

LEMMA ReturnToReadingType ==
    ASSUME NEW s \in States
    PROVE  ReturnToReading(s) \in States
<1>1. ReadingTask \in Tasks
  BY GraphAssumption DEF Work
<1> QED
  BY <1>1, NoDirectiveType DEF ReturnToReading, States, Statuses, GateKinds

LEMMA PauseAtGateType ==
    ASSUME NEW s \in States
    PROVE  PauseAtGate(s) \in States
BY DEF PauseAtGate, States, Statuses

LEMMA ResolveAskType ==
    ASSUME NEW s \in States
    PROVE  ResolveAsk(s) \in States
<1> DEFINE h == IF s.hist # <<>> /\ s.hist[Len(s.hist)].task = s.task
                THEN WithLast(s, "WAITING_HUMAN_RESOLVED") ELSE s.hist
           b == s.attempts[s.task]
           c == IF b = <<>> THEN b ELSE SubSeq(b, 1, Len(b) - 1)
           a == [s.attempts EXCEPT ![s.task] = c]
<1>1. h \in Seq(Runs)
  BY WithLastType, Fields DEF RunStatuses
<1>2. b \in Seq(Identities)
  BY Fields
<1>3. c \in Seq(Identities)
  <2> HIDE DEF b
  <2>1. CASE b = <<>>
    BY <1>2, <2>1
  <2>2. CASE b # <<>>
    <3>1. Len(b) \in Nat \ {0}
      BY <1>2, <2>2, EmptySeq
    <3>2. \A i \in 1 .. Len(b) - 1 : b[i] \in Identities
      BY <1>2, <3>1, ElementOfSeq
    <3>3. SubSeq(b, 1, Len(b) - 1) \in Seq(Identities)
      BY <3>1, <3>2, SubSeqProperties
    <3> QED
      BY <2>2, <3>3
  <2> QED
    BY <2>1, <2>2
<1> HIDE DEF h, c
<1>4. a \in [Tasks -> Seq(Identities)]
  BY <1>3, Fields
<1> HIDE DEF a
<1>5. ResolveAsk(s) = [s EXCEPT !.attempts = a, !.hist = h, !.resumed = s.task,
                                !.gate = "none", !.status = "RUNNING", !.err = FALSE]
  BY DEF ResolveAsk, h, c, a, States
<1> QED
  BY <1>1, <1>4, <1>5, Fields DEF States, Statuses, GateKinds

-----------------------------------------------------------------------------
InAgent == {"agent", "ask_open", "ask", "ask_close"}

(* While an agent runs or asks, the process is at a task that has one.     *)
AtWork == pc \in InAgent => mem.task \in Work

Typed == TypeOK /\ AtWork

-----------------------------------------------------------------------------
(* The type invariant.                                                     *)

LEMMA TypedInit == Init => Typed
<1> SUFFICES ASSUME Init PROVE Typed
  OBVIOUS
<1>1. left \in [Budgets -> Nat] /\ unattended \in [Tasks -> Nat]
  BY PipelineAssumption DEF Init
<1>2. disk \in States /\ mem \in States
  BY InitialStateType DEF Init
<1>3. pc \in Locations /\ pc \notin InAgent
  BY DEF Init, Locations, Awaits, InAgent
<1> QED
  BY <1>1, <1>2, <1>3 DEF Init, Typed, TypeOK, AtWork

LEMMA SpendType ==
    ASSUME left \in [Budgets -> Nat], NEW b \in Budgets, Spend(b)
    PROVE  left' \in [Budgets -> Nat]
BY DEF Spend

LEMMA CheckpointType ==
    ASSUME NEW s \in States
    PROVE  Checkpoint(s) \in States
<1>1. LitGate[s.task] # None => LitGate[s.task] \in Tasks
  BY Fields, PipelineAssumption, GraphAssumption DEF Work
<1> QED
  BY <1>1 DEF Checkpoint, States, Statuses, GateKinds

LEMMA BlockType ==
    ASSUME TypeOK, mem.task \in Work, NEW kind \in GateKinds, NEW hard \in BOOLEAN,
           Block(kind, hard), left' \in [Budgets -> Nat]
    PROVE  Typed'
<1>1. RecoveryGate(mem, question, kind) \in States
  BY RecoveryGateType DEF TypeOK
<1>2. [mem EXCEPT !.status = "PAUSED", !.err = FALSE] \in States
  BY DEF TypeOK, States, Statuses
<1>3. mem' \in States
  BY <1>1, <1>2 DEF Block
<1> QED
  BY <1>3 DEF Block, Dump, Typed, TypeOK, AtWork, InAgent, Locations, Awaits, ghosts

(* The steps of the CLI and of the runner's start.                         *)
LEMMA TypedEntry ==
    ASSUME Typed
    PROVE  /\ Run => Typed'
           /\ Resume => Typed'
           /\ \A t \in Tasks : ResumeFromTask(t) => Typed'
           /\ Prepared => Typed'
           /\ Loading => Typed'
           /\ ContinueFailed => Typed'
           /\ PauseFailed => Typed'
<1> USE DEF Typed, TypeOK, AtWork, InAgent, Locations, Awaits, durable, ghosts
<1>1. Run => Typed'
  BY DEF Run
<1>2. Resume => Typed'
  BY CheckpointType DEF Resume
<1>3. ASSUME NEW t \in Tasks, ResumeFromTask(t)
      PROVE  Typed'
  <2> DEFINE target == IF LitGate[t] # None THEN LitGate[t] ELSE t
  <2>1. target \in Tasks
    BY PipelineAssumption, GraphAssumption DEF Work
  <2>2. left' \in [Budgets -> Nat]
    BY <1>3, SpendType DEF ResumeFromTask, Budgets
  <2>3. /\ disk' = [disk EXCEPT !.task = target, !.status = "PAUSED",
                                !.gate = "none", !.err = FALSE]
        /\ allowed' = allowed \cup {target}
    BY <1>3 DEF ResumeFromTask
  <2> HIDE DEF target
  <2>4. disk' \in States
    BY <2>1, <2>3 DEF States, Statuses, GateKinds
  <2> QED
    BY <1>3, <2>1, <2>2, <2>3, <2>4 DEF ResumeFromTask
<1>4. Prepared => Typed'
  BY DEF Prepared
<1>5. Loading => Typed'
  <2>1. LoadNew => Typed'
    BY InitialStateType DEF LoadNew
  <2>2. ASSUME LoadStaleRunning
        PROVE  Typed'
    <3>1. [MarkInterrupted(disk) EXCEPT !.err = FALSE] \in States
      BY MarkInterruptedType DEF States
    <3> QED
      BY <2>2, <3>1 DEF LoadStaleRunning, Dump
  <2>3. LoadPaused => Typed'
    BY DEF LoadPaused
  <2>4. ASSUME LoadFailed
        PROVE  Typed'
    <3>1. mem' \in States
      BY <2>4 DEF LoadFailed, States, Statuses
    <3> QED
      BY <2>4, <3>1 DEF LoadFailed, Dump
  <2> QED
    BY <2>1, <2>2, <2>3, <2>4 DEF Loading
<1>6. ASSUME ContinueFailed
      PROVE  Typed'
  <2>1. mem' \in States
    BY <1>6 DEF ContinueFailed, States
  <2> QED
    BY <1>6, <2>1 DEF ContinueFailed, Dump
<1>7. ASSUME PauseFailed
      PROVE  Typed'
  <2>1. mem' \in States
    BY <1>7 DEF PauseFailed, States
  <2>2. left' \in [Budgets -> Nat]
    BY <1>7, SpendType DEF PauseFailed, Budgets
  <2> QED
    BY <1>7, <2>1, <2>2 DEF PauseFailed, Dump
<1> QED
  BY <1>1, <1>2, <1>3, <1>4, <1>5, <1>6, <1>7

(* The steps of the loop: the checks before an agent, and its start.       *)
LEMMA TypedStepping ==
    ASSUME Typed, Stepping
    PROVE  Typed'
<1> USE DEF Typed, TypeOK, AtWork, InAgent, Locations, Awaits, durable, ghosts
<1>1. CASE PendingGate
  BY <1>1 DEF PendingGate
<1>2. CASE AtTerminal
  <2>1. mem' \in States
    BY <1>2 DEF AtTerminal, States, Statuses
  <2> QED
    BY <1>2, <2>1 DEF AtTerminal, Dump
<1>3. CASE OpenGate
  <2>1. mem' \in States
    BY <1>3, RecoveryGateType, OpenNodeGateType DEF OpenGate, GateKinds
  <2> QED
    BY <1>3, <2>1 DEF OpenGate, Dump
<1>4. CASE DeadlockGuard
  BY <1>4, BlockType DEF DeadlockGuard, AtStart, AtStep, GateKinds
<1>5. CASE Start
  <2>1. mem' \in States /\ mem'.task = mem.task /\ mem.task \in Work
    BY <1>5, StartTaskType DEF Start, AtStart, AtStep, StartTask, States
  <2>2. unattended' \in [Tasks -> Nat]
    BY <1>5, Fields DEF Start
  <2> QED
    BY <1>5, <2>1, <2>2 DEF Start, Dump
<1>6. CASE AskOpened
  <2>1. WithLast(disk, "WAITING_HUMAN") \in Seq(Runs)
    BY WithLastType DEF RunStatuses
  <2>2. disk' \in States
    BY <1>6, <2>1 DEF AskOpened, Asking, States, Statuses, GateKinds
  <2> QED
    BY <1>6, <2>2 DEF AskOpened
<1>7. CASE AskClosed
  <2>1. WithLast(disk, "RUNNING") \in Seq(Runs)
    BY WithLastType DEF RunStatuses
  <2>2. disk' \in States
    BY <1>7, <2>1 DEF AskClosed, States, Statuses, GateKinds
  <2> QED
    BY <1>7, <2>2 DEF AskClosed
<1>8. CASE Save
  BY <1>8 DEF Save, Dump
<1>9. CASE Present
  BY <1>9 DEF Present, Dump
<1>10. CASE ResumeAnswered
  <2>1. mem' \in States
    BY <1>10, ResolveAskType DEF ResumeAnswered
  <2> QED
    BY <1>10, <2>1 DEF ResumeAnswered, Decided, Attended
<1> QED
  BY <1>1, <1>2, <1>3, <1>4, <1>5, <1>6, <1>7, <1>8, <1>9, <1>10 DEF Stepping

(* The agent and the researcher.                                           *)
LEMMA TypedAgent ==
    ASSUME Typed, Agent
    PROVE  Typed'
<1> USE DEF Typed, TypeOK, AtWork, InAgent, Locations, Awaits, durable, ghosts
<1>1. CASE AgentAsks
  <2>1. left' \in [Budgets -> Nat]
    BY <1>1, SpendType DEF AgentAsks, Budgets
  <2>2. mem.task \in Tasks
    BY Fields
  <2> QED
    BY <1>1, <2>1, <2>2 DEF AgentAsks
<1>3. CASE AskTimesOut
  BY <1>3 DEF AskTimesOut
<1>2. ASSUME NEW r \in Results, AgentEnds(r)
      PROVE  Typed'
  <2>1. mem' \in States
    BY <1>2, AdvanceType DEF AgentEnds
  <2>2. left' \in [Budgets -> Nat]
    BY <1>2, SpendType DEF AgentEnds, Budgets
  <2>3. unattended' \in [Tasks -> Nat]
    BY <1>2 DEF AgentEnds
  <2> QED
    BY <1>2, <2>1, <2>2, <2>3 DEF AgentEnds
<1> QED
  BY <1>1, <1>2, <1>3 DEF Agent

LEMMA TypedHuman ==
    ASSUME Typed, Human
    PROVE  Typed'
<1> USE DEF Typed, TypeOK, AtWork, InAgent, Locations, Awaits, durable, ghosts
<1>1. CASE AskAnswered
  BY <1>1, Fields DEF AskAnswered
<1>2. CASE AskUnavailable
  <2>1. mem' \in States
    BY <1>2, AdvanceType DEF AskUnavailable
  <2>2. left' \in [Budgets -> Nat]
    BY <1>2, SpendType DEF AskUnavailable, Budgets
  <2> QED
    BY <1>2, <2>1, <2>2 DEF AskUnavailable
<1>3. ASSUME NEW t \in Tasks, DecideNode(t)
      PROVE  Typed'
  <2>1. fresh' \in Nat
    BY <1>3 DEF DecideNode
  <2>2. mem' \in States
    BY <1>3, <2>1, ResolveNodeType DEF DecideNode
  <2>3. left' \in [Budgets -> Nat]
    BY <1>3, SpendType DEF DecideNode, Budgets
  <2> QED
    BY <1>3, <2>1, <2>2, <2>3 DEF DecideNode, Decided, Attended
<1>4. CASE Retry
  <2>1. mem' \in States /\ fresh' \in Nat
    BY <1>4, RetryTaskType DEF Retry
  <2>2. left' \in [Budgets -> Nat]
    BY <1>4, SpendType DEF Retry, Budgets
  <2> QED
    BY <1>4, <2>1, <2>2 DEF Retry, Decided, Attended
<1>5. CASE ReturnForReading
  <2>1. mem' \in States /\ ReadingTask \in Tasks
    BY <1>5, ReturnToReadingType, GraphAssumption DEF ReturnForReading, Work
  <2> QED
    BY <1>5, <2>1 DEF ReturnForReading, Decided, Attended
<1>6. CASE PauseHere
  <2>1. mem' \in States
    BY <1>6, PauseAtGateType DEF PauseHere
  <2>2. left' \in [Budgets -> Nat]
    BY <1>6, SpendType DEF PauseHere, Budgets
  <2> QED
    BY <1>6, <2>1, <2>2 DEF PauseHere
<1>7. CASE HumanUnavailable
  <2>1. mem' \in States
    BY <1>7, PauseAtGateType DEF HumanUnavailable
  <2>2. left' \in [Budgets -> Nat]
    BY <1>7, SpendType DEF HumanUnavailable, Budgets
  <2> QED
    BY <1>7, <2>1, <2>2 DEF HumanUnavailable, Dump
<1>8. CASE GiveAnswer
  BY <1>8, Fields DEF GiveAnswer
<1> QED
  BY <1>1, <1>2, <1>3, <1>4, <1>5, <1>6, <1>7, <1>8, TypedEntry DEF Human

(* What goes wrong, and how a process ends.                                *)
LEMMA TypedTrouble ==
    ASSUME Typed, Close \/ Trouble
    PROVE  Typed'
<1> USE DEF Typed, TypeOK, AtWork, InAgent, Locations, Awaits, durable, ghosts
<1>1. CASE Close
  BY <1>1, InitialStateType DEF Close, Gone
<1>2. CASE MissingPrerequisites
  BY <1>2, BlockType, SpendType DEF MissingPrerequisites, Budgets, GateKinds, AtStep
<1>3. CASE ContextFails
  BY <1>3, BlockType, SpendType DEF ContextFails, Budgets, GateKinds, AtStart, AtStep
<1>4. CASE EditInputs
  <2>1. left' \in [Budgets -> Nat]
    BY <1>4, SpendType DEF EditInputs, Budgets
  <2> QED
    BY <1>4, <2>1 DEF EditInputs, Attended
<1>5. CASE Crash
  <2>1. left' \in [Budgets -> Nat]
    BY <1>5, SpendType DEF Crash, Budgets
  <2> QED
    BY <1>5, <2>1, InitialStateType DEF Crash, Gone
<1>6. CASE InterruptCli
  <2>1. [MarkInterrupted(disk) EXCEPT !.err = FALSE] \in States
    BY MarkInterruptedType DEF States
  <2>2. left' \in [Budgets -> Nat]
    BY <1>6, SpendType DEF InterruptCli, Budgets
  <2> QED
    BY <1>6, <2>1, <2>2, InitialStateType DEF InterruptCli, Gone
<1>7. CASE InterruptAgent
  <2>1. mem' \in States
    BY <1>7, AdvanceType DEF InterruptAgent
  <2>2. left' \in [Budgets -> Nat]
    BY <1>7, SpendType DEF InterruptAgent, Budgets
  <2> QED
    BY <1>7, <2>1, <2>2 DEF InterruptAgent
<1>8. CASE InterruptTask
  <2>1. mem' \in States
    BY <1>8, MarkInterruptedType DEF InterruptTask
  <2>2. left' \in [Budgets -> Nat]
    BY <1>8, SpendType DEF InterruptTask, Budgets
  <2> QED
    BY <1>8, <2>1, <2>2 DEF InterruptTask, Dump
<1> QED
  BY <1>1, <1>2, <1>3, <1>4, <1>5, <1>6, <1>7, <1>8 DEF Trouble

(* TypeOK needs AtWork besides: where an agent runs, advance looks up the  *)
(* edges of a task that has edges.                                         *)
LEMMA TypedStep == Typed /\ [Next]_vars => Typed'
<1> SUFFICES ASSUME Typed, [Next]_vars
             PROVE  Typed'
  OBVIOUS
<1>1. CASE UNCHANGED vars
  BY <1>1 DEF vars, durable, ghosts, Typed, TypeOK, AtWork
<1>2. CASE Process
  BY <1>2, TypedEntry, TypedStepping, TypedTrouble DEF Process
<1>3. CASE Agent
  BY <1>3, TypedAgent
<1>4. CASE Human
  BY <1>4, TypedHuman
<1>5. CASE User
  BY <1>5, TypedEntry DEF User
<1>6. CASE Trouble
  BY <1>6, TypedTrouble
<1> QED
  BY <1>1, <1>2, <1>3, <1>4, <1>5, <1>6 DEF Next

LEMMA TypedAlways == Spec => []Typed
<1>1. Init => Typed
  BY TypedInit
<1>2. Typed /\ [Next]_vars => Typed'
  BY TypedStep
<1> QED
  BY <1>1, <1>2, PTL DEF Spec

(* Every reachable state is well typed: whatever crashes, interrupts,      *)
(* answers and failures come in whatever order, state.yaml and the state   *)
(* the process holds stay StateYaml records of this graph.                 *)
THEOREM TypeCorrect == Spec => []TypeOK
<1>1. Typed => TypeOK
  BY DEF Typed
<1> QED
  BY <1>1, TypedAlways, PTL

(***************************************************************************)
(* How state.yaml, the state the runner holds and the pending question     *)
(* relate, at every point of the process and for every graph of tasks.     *)
(***************************************************************************)

(* The state while an agent works.                                         *)
Open(s) ==
    /\ s.status = "RUNNING" /\ s.gate = "none" /\ s.err = FALSE /\ s.hist # <<>>
    /\ s.hist[Len(s.hist)] = [task |-> s.task, status |-> "RUNNING"]

Settled == {"step", "present", "gate", "answered", "failed_resume", "closing"}

(* Only between a result or a decision and the dump that follows it does   *)
(* the runner know more than the file.  The file still shows a question    *)
(* whose wait timed out until then, also while the agent asks another one. *)
Coherent ==
    /\ ~saved => disk = InitialState
    /\ pc \in {"prepare", "load"} => resume = saved
    /\ pc \in Settled => disk = mem
    /\ pc \in InAgent => saved /\ Open(mem)
    /\ pc = "agent" => disk = IF expired THEN Asking(mem) ELSE mem
    /\ pc = "ask_open" => disk \in {mem, Asking(mem)}
    /\ pc \in {"ask", "ask_close"} => disk = Asking(mem)
    /\ expired => pc \in {"agent", "save"}

Safe == Typed /\ Coherent

-----------------------------------------------------------------------------
(* ask_human undoes exactly what it did.                                   *)

LEMMA WithLastTwice ==
    ASSUME NEW s \in States, NEW r \in States, NEW st \in RunStatuses,
           s.hist # <<>>, s.hist[Len(s.hist)] = [task |-> s.task, status |-> st],
           NEW other \in RunStatuses, r.hist = WithLast(s, other)
    PROVE  WithLast(r, st) = s.hist
<1> DEFINE n == Len(s.hist)
<1>1. n \in DOMAIN s.hist /\ s.hist \in Seq(Runs)
  <2>1. s.hist \in Seq(Runs)
    BY Fields
  <2> QED
    BY <2>1, EmptySeq
<1>2. /\ r.hist = [s.hist EXCEPT ![n] = [s.hist[n] EXCEPT !.status = other]]
      /\ Len(r.hist) = n /\ r.hist # <<>>
  <2>1. r.hist = [s.hist EXCEPT ![n] = [s.hist[n] EXCEPT !.status = other]]
    BY DEF WithLast
  <2>2. Len(r.hist) = n
    BY WithLastType
  <2> QED
    BY <1>1, <2>1, <2>2, EmptySeq
<1>3. WithLast(r, st) = [r.hist EXCEPT ![n] = [r.hist[n] EXCEPT !.status = st]]
  BY <1>2 DEF WithLast
<1>4. [[s.hist[n] EXCEPT !.status = other] EXCEPT !.status = st] = s.hist[n]
  <2>1. s.hist[n] \in Runs
    BY <1>1, ElementOfSeq
  <2>2. s.hist[n].status = st
    OBVIOUS
  <2> HIDE DEF n
  <2> QED
    BY <2>1, <2>2 DEF Runs
<1>5. r.hist[n] = [s.hist[n] EXCEPT !.status = other]
  BY <1>1, <1>2
<1>6. WithLast(r, st) = [r.hist EXCEPT ![n] = s.hist[n]]
  BY <1>3, <1>4, <1>5
<1> HIDE DEF n
<1> QED
  BY <1>1, <1>2, <1>6

LEMMA AskUndone ==
    ASSUME NEW s \in States, Open(s)
    PROVE  /\ Asking(s) \in States
           /\ [Asking(s) EXCEPT !.gate = "none", !.status = "RUNNING",
                                 !.hist = WithLast(Asking(s), "RUNNING")] = s
<1> DEFINE w == Asking(s)
<1>1. w \in States
  BY WithLastType DEF Asking, RunStatuses, States, Statuses, GateKinds
<1>2. w.hist = WithLast(s, "WAITING_HUMAN")
  BY DEF Asking, States
<1>3. WithLast(w, "RUNNING") = s.hist
  BY <1>1, <1>2, WithLastTwice DEF Open, RunStatuses
<1>4. [w EXCEPT !.gate = "none", !.status = "RUNNING", !.hist = s.hist] = s
  BY DEF Asking, States, Open
<1> QED
  BY <1>1, <1>3, <1>4

(* Asking again writes what is there already.                              *)
LEMMA AskTwice ==
    ASSUME NEW s \in States, Open(s)
    PROVE  Asking(Asking(s)) = Asking(s)
<1> DEFINE w == Asking(s)
           n == Len(s.hist)
           x == [s.hist[n] EXCEPT !.status = "WAITING_HUMAN"]
<1>1. n \in DOMAIN s.hist /\ s.hist \in Seq(Runs) /\ s.hist # <<>> /\ w \in States
  <2>1. s.hist \in Seq(Runs) /\ s.hist # <<>>
    BY Fields DEF Open
  <2>2. w \in States
    BY AskUndone
  <2>3. n \in DOMAIN s.hist
    BY <2>1, EmptySeq
  <2> QED
    BY <2>1, <2>2, <2>3
<1>2. w.hist = [s.hist EXCEPT ![n] = x] /\ Len(w.hist) = n /\ w.hist # <<>>
  <2>1. w.hist = WithLast(s, "WAITING_HUMAN")
    BY DEF Asking, States
  <2>2. Len(w.hist) = n
    BY <2>1, WithLastType DEF RunStatuses
  <2>3. w.hist # <<>>
    BY <1>1, <2>2, EmptySeq
  <2>4. WithLast(s, "WAITING_HUMAN") = [s.hist EXCEPT ![n] = x]
    BY <1>1 DEF WithLast
  <2> QED
    BY <2>1, <2>2, <2>3, <2>4
<1>3. w.hist[n] = x /\ [x EXCEPT !.status = "WAITING_HUMAN"] = x
  <2>1. s.hist[n] \in Runs
    BY <1>1, ElementOfSeq
  <2>2. [x EXCEPT !.status = "WAITING_HUMAN"] = x
    BY <2>1 DEF Runs
  <2> HIDE DEF x, n, w
  <2> QED
    BY <1>1, <1>2, <2>2
<1>4. WithLast(w, "WAITING_HUMAN") = [w.hist EXCEPT ![n] = x]
  BY <1>2, <1>3 DEF WithLast
<1>5. WithLast(w, "WAITING_HUMAN") = w.hist
  <2> HIDE DEF x, n, w
  <2> QED
    BY <1>1, <1>2, <1>4
<1>6. w.gate = "ask" /\ w.status = "WAITING_HUMAN" /\ w.err = FALSE
  BY DEF Asking, States
<1> HIDE DEF w
<1>7. Asking(w) = w
  BY <1>1, <1>5, <1>6 DEF Asking, States
<1> QED
  BY <1>7 DEF w

(* What the runner and the file have in common while an agent is at work.  *)
LEMMA AgentAndFile ==
    ASSUME Safe, pc \in InAgent
    PROVE  /\ mem \in States /\ disk \in States /\ saved /\ Open(mem)
           /\ disk = mem \/ disk = Asking(mem)
           /\ disk.task = mem.task /\ disk.attempts = mem.attempts
           /\ disk.iter = mem.iter /\ disk.rec = mem.rec
           /\ disk.gate = "none" <=> disk = mem
           /\ disk.gate # "none" => disk.gate = "ask" /\ disk.status = "WAITING_HUMAN"
           /\ pc = "agent" /\ ~expired => disk = mem
           /\ pc \in {"ask", "ask_close"} \/ expired => disk = Asking(mem)
<1>1. mem \in States /\ disk \in States /\ saved /\ Open(mem)
  BY DEF Safe, Typed, TypeOK, Coherent
<1>2. /\ disk = mem \/ disk = Asking(mem)
      /\ pc = "agent" /\ ~expired => disk = mem
      /\ pc \in {"ask", "ask_close"} \/ expired => disk = Asking(mem)
  BY DEF Safe, Coherent, InAgent
<1>3. /\ Asking(mem).task = mem.task /\ Asking(mem).attempts = mem.attempts
      /\ Asking(mem).iter = mem.iter /\ Asking(mem).rec = mem.rec
      /\ Asking(mem).gate = "ask" /\ Asking(mem).status = "WAITING_HUMAN"
  BY <1>1 DEF Asking, States
<1>4. mem.gate = "none"
  BY <1>1 DEF Open
<1> HIDE DEF Asking
<1> QED
  BY <1>1, <1>2, <1>3, <1>4

LEMMA StartOpens ==
    ASSUME NEW s \in States, NEW i \in Nat
    PROVE  Open(StartTask(s, i))
<1>1. s.hist \in Seq(Runs)
  BY Fields
<1>2. [task |-> s.task, status |-> "RUNNING"] \in Runs
  BY Fields DEF Runs, RunStatuses
<1> DEFINE h == Append(s.hist, [task |-> s.task, status |-> "RUNNING"])
<1>3. h # <<>> /\ h[Len(h)] = [task |-> s.task, status |-> "RUNNING"]
  BY <1>1, <1>2, AppendProperties, EmptySeq
<1>4. /\ StartTask(s, i).hist = h /\ StartTask(s, i).task = s.task
      /\ StartTask(s, i).status = "RUNNING" /\ StartTask(s, i).gate = "none"
      /\ StartTask(s, i).err = FALSE
  BY DEF StartTask, States
<1> HIDE DEF h
<1> QED
  BY <1>3, <1>4 DEF Open

-----------------------------------------------------------------------------
LEMMA CoherentInit == Init => Coherent
BY DEF Init, Coherent, Settled, InAgent

(* One case per action; those that neither dump nor move between an agent  *)
(* and its question only have to be looked at for the place they lead to.  *)
LEMMA CoherentStep == Safe /\ [Next]_vars => Coherent'
<1> SUFFICES ASSUME Safe, [Next]_vars
             PROVE  Coherent'
  OBVIOUS
<1> USE DEF Safe, Coherent, Settled, InAgent, Awaits, durable, ghosts
<1>1. CASE UNCHANGED vars
  BY <1>1 DEF vars, Open, Asking, WithLast
<1>2. CASE User
  <2>1. CASE Run
    BY <2>1 DEF Run, Typed, TypeOK
  <2>2. CASE Resume
    BY <2>2 DEF Resume, Typed, TypeOK
  <2>3. ASSUME NEW t \in Tasks, ResumeFromTask(t)
        PROVE  Coherent'
    <3>1. saved /\ saved' = saved /\ pc' = "prepare" /\ resume' = TRUE /\ ~expired'
      BY <2>3 DEF ResumeFromTask
    <3> QED
      BY <3>1 DEF Typed, TypeOK
  <2> QED
    BY <1>2, <2>1, <2>2, <2>3 DEF User
<1>3. CASE Prepared \/ Loading
  <2>1. CASE Prepared \/ LoadNew \/ LoadPaused
    BY <2>1 DEF Prepared, LoadNew, LoadPaused
  <2>2. CASE LoadStaleRunning \/ LoadFailed
    <3>1. /\ saved' = TRUE /\ disk' = mem' /\ pc' \in {"step", "failed_resume"}
          /\ pc = "load" /\ expired' = expired
      BY <2>2 DEF LoadStaleRunning, LoadFailed, Dump
    <3> QED
      BY <3>1
  <2> QED
    BY <1>3, <2>1, <2>2 DEF Loading
<1>4. CASE Stepping
  <2>1. CASE PendingGate \/ AtTerminal \/ OpenGate \/ Present
    <3>1. /\ pc \in Settled /\ pc' \in Settled /\ expired' = expired
          /\ \/ UNCHANGED <<saved, disk, mem>>
             \/ saved' = TRUE /\ disk' = mem'
      BY <2>1, Zenon DEF PendingGate, AtTerminal, OpenGate, Present, Dump, AtStep
    <3> QED
      BY <3>1
  <2>2. CASE DeadlockGuard
    <3>1. /\ pc = "step" /\ pc' \in Settled /\ expired' = expired
          /\ saved' = TRUE /\ disk' = mem'
      BY <2>2 DEF DeadlockGuard, Block, Dump, AtStart, AtStep
    <3> QED
      BY <3>1
  <2>3. CASE Start
    <3>1. /\ pc = "step" /\ pc' = "agent" /\ expired' = expired
          /\ saved' = TRUE /\ disk' = mem' /\ mem' = StartTask(mem, inputs)
      BY <2>3 DEF Start, Dump, AtStart, AtStep
    <3>2. Open(mem')
      BY <3>1, StartOpens DEF Typed, TypeOK
    <3> QED
      BY <3>1, <3>2
  <2>4. CASE AskOpened
    <3>1. pc = "ask_open" /\ pc' = "ask" /\ disk' = Asking(disk)
          /\ UNCHANGED <<saved, mem, expired>>
      BY <2>4 DEF AskOpened
    <3>2. disk' = Asking(mem)
      BY <3>1, AskTwice DEF Typed, TypeOK
    <3>3. Asking(mem)' = Asking(mem) /\ Open(mem)' = Open(mem)
      BY <3>1 DEF Asking, Open, WithLast
    <3> QED
      BY <3>1, <3>2, <3>3
  <2>5. CASE AskClosed
    <3>1. disk.gate = "ask" /\ disk.task = mem.task
      BY <2>5 DEF AskClosed, Asking, Typed, TypeOK, States
    <3>2. disk' = mem
      BY <2>5, <3>1, AskUndone DEF AskClosed, Typed, TypeOK
    <3> QED
      BY <2>5, <3>2 DEF AskClosed
  <2>6. CASE Save
    BY <2>6 DEF Save, Dump
  <2>7. CASE ResumeAnswered
    BY <2>7 DEF ResumeAnswered, Decided
  <2> QED
    BY <1>4, <2>1, <2>2, <2>3, <2>4, <2>5, <2>6, <2>7 DEF Stepping
<1>5. CASE Agent
  <2>1. CASE AgentAsks \/ AskTimesOut
    <3>1. /\ UNCHANGED <<saved, disk, mem>> /\ pc \in InAgent
          /\ \/ pc = "agent" /\ pc' = "agent" /\ expired' = expired
             \/ pc = "agent" /\ pc' = "ask_open" /\ ~expired'
             \/ pc = "ask" /\ pc' = "agent" /\ expired' = TRUE
      BY <2>1 DEF AgentAsks, AskTimesOut
    <3>2. Asking(mem)' = Asking(mem) /\ Open(mem)' = Open(mem)
      BY <3>1 DEF Asking, Open, WithLast
    <3> HIDE DEF Typed
    <3> QED
      BY <3>1, <3>2
  <2>2. ASSUME NEW r \in Results, AgentEnds(r)
        PROVE  Coherent'
    BY <2>2 DEF AgentEnds
  <2> QED
    BY <1>5, <2>1, <2>2 DEF Agent
<1>6. CASE Human
  <2>1. CASE ContinueFailed \/ PauseFailed \/ HumanUnavailable
    BY <2>1 DEF ContinueFailed, PauseFailed, HumanUnavailable, Dump
  <2>2. CASE AskAnswered
    BY <2>2 DEF AskAnswered
  <2>3. CASE AskUnavailable \/ PauseHere
    BY <2>3 DEF AskUnavailable, PauseHere
  <2>4. CASE (\E t \in Tasks : DecideNode(t)) \/ Retry \/ ReturnForReading
    BY <2>4 DEF DecideNode, Retry, ReturnForReading, Decided
  <2>5. CASE GiveAnswer
    BY <2>5 DEF GiveAnswer, AtGate
  <2> QED
    BY <1>6, <2>1, <2>2, <2>3, <2>4, <2>5 DEF Human
<1>7. CASE Trouble
  <2>1. CASE MissingPrerequisites \/ ContextFails
    <3>1. /\ pc = "step" /\ pc' \in Settled /\ expired' = expired
          /\ saved' = TRUE /\ disk' = mem'
      BY <2>1 DEF MissingPrerequisites, ContextFails, Block, Dump, AtStart, AtStep
    <3> QED
      BY <3>1
  <2>3. CASE EditInputs
    BY <2>3 DEF EditInputs, Open, Asking, WithLast
  <2>4. CASE Crash
    BY <2>4 DEF Crash, Gone
  <2>5. CASE InterruptCli
    BY <2>5 DEF InterruptCli, Gone
  <2>6. CASE InterruptAgent
    BY <2>6 DEF InterruptAgent
  <2>7. CASE InterruptTask
    BY <2>7 DEF InterruptTask, Dump
  <2> QED
    BY <1>7, <2>1, <2>3, <2>4, <2>5, <2>6, <2>7 DEF Trouble
<1>8. CASE Close
  BY <1>8 DEF Close, Gone
<1> QED
  BY <1>1, <1>2, <1>3, <1>4, <1>5, <1>6, <1>7, <1>8 DEF Next, Process

LEMMA SafeAlways == Spec => []Safe
<1>1. Init => Safe
  BY TypedInit, CoherentInit DEF Safe
<1>2. Safe /\ [Next]_vars => Safe'
  BY TypedStep, CoherentStep DEF Safe
<1> QED
  BY <1>1, <1>2, PTL DEF Spec

-----------------------------------------------------------------------------
(* Counting starts.                                                        *)

(* The starts of t on record that a next start of t, on inputs of version  *)
(* v, would repeat.                                                        *)
Repeats(s, t, v) ==
    {i \in DOMAIN s.attempts[t] :
        s.attempts[t][i] = IdentityOf([s EXCEPT !.task = t], v)}

(* A launch that is not covered by a recorded start would escape the       *)
(* guard: a result may forget none, neither on disk nor on its way there.  *)
Counted ==
    \A t \in Tasks \ CountFree :
        /\ unattended[t] <= SameParamLimit
        /\ unattended[t] <= Cardinality(Repeats(disk, t, inputs))
        /\ pc = "save" => unattended[t] <= Cardinality(Repeats(mem, t, inputs))

LEMMA RepeatsFinite ==
    ASSUME NEW s \in States, NEW t \in Tasks, NEW v
    PROVE  IsFiniteSet(Repeats(s, t, v)) /\ Cardinality(Repeats(s, t, v)) \in Nat
<1>1. s.attempts[t] \in Seq(Identities)
  BY Fields
<1>2. IsFiniteSet(DOMAIN s.attempts[t])
  BY <1>1, FS_Interval, LenProperties
<1>3. IsFiniteSet(Repeats(s, t, v))
  BY <1>2, FS_Subset DEF Repeats
<1> QED
  BY <1>3, FS_CardinalityType

(* What leaves the starts and the decisions alone leaves the count alone.  *)
LEMMA RepeatsSame ==
    ASSUME NEW s \in States, NEW r \in States, NEW t \in Tasks, NEW v,
           r.attempts = s.attempts, r.iter = s.iter, r.rec = s.rec
    PROVE  Repeats(r, t, v) = Repeats(s, t, v)
<1>1. IdentityOf([r EXCEPT !.task = t], v) = IdentityOf([s EXCEPT !.task = t], v)
  BY DEF IdentityOf, IdFor, States
<1> QED
  BY <1>1 DEF Repeats

(* A start of t adds itself to what a next start of t would repeat.        *)
LEMMA StartCounts ==
    ASSUME NEW s \in States, NEW v \in Nat, s.task \notin CountFree
    PROVE  Cardinality(Repeats(StartTask(s, v), s.task, v))
             = Cardinality(Repeats(s, s.task, v)) + 1
<1> DEFINE t == s.task
           q == s.attempts[t]
           x == IdentityOf(s, v)
           r == StartTask(s, v)
<1>1. t \in Tasks /\ q \in Seq(Identities) /\ x \in Identities
  BY Fields, IdentityType
<1>2. [s EXCEPT !.task = t] = s
  BY DEF States
<1>3. r.attempts[t] = Append(q, x)
  BY <1>1, Fields DEF StartTask, States
<1>4. IdentityOf([r EXCEPT !.task = t], v) = x
  BY DEF IdentityOf, IdFor, States, StartTask
<1>5. Repeats(s, t, v) = {i \in DOMAIN q : q[i] = x}
  BY <1>2 DEF Repeats
<1>6. Repeats(r, t, v) = {i \in DOMAIN Append(q, x) : Append(q, x)[i] = x}
  BY <1>3, <1>4 DEF Repeats
<1>7. IsFiniteSet(Repeats(s, t, v))
  BY <1>1, RepeatsFinite
<1> HIDE DEF t, q, x, r
<1>8. /\ DOMAIN q = 1 .. Len(q) /\ DOMAIN Append(q, x) = 1 .. Len(q) + 1
      /\ Append(q, x)[Len(q) + 1] = x /\ \A i \in 1 .. Len(q) : Append(q, x)[i] = q[i]
      /\ Len(q) \in Nat
  BY <1>1, AppendProperties, LenProperties
<1>9. Repeats(r, t, v) = Repeats(s, t, v) \cup {Len(q) + 1} /\ Len(q) + 1 \notin Repeats(s, t, v)
  BY <1>5, <1>6, <1>8
<1> QED
  BY <1>7, <1>9, FS_AddElement DEF t, r

(* The guard lets a start pass only below the limit.                       *)
LEMMA GuardLimits ==
    ASSUME NEW s \in States, NEW v, s.task \notin CountFree, ~Deadlocked(s, v)
    PROVE  Cardinality(Repeats(s, s.task, v)) < SameParamLimit
<1>1. [s EXCEPT !.task = s.task] = s
  BY DEF States
<1>2. Repeats(s, s.task, v) = {i \in DOMAIN s.attempts[s.task] :
                              s.attempts[s.task][i] = IdentityOf(s, v)}
  BY <1>1 DEF Repeats
<1>3. Cardinality(Repeats(s, s.task, v)) \in Nat
  BY RepeatsFinite, Fields
<1> QED
  BY <1>2, <1>3, GraphAssumption DEF Deadlocked, SameParam

(* Of another task's run nothing is forgotten, whatever its result.        *)
LEMMA AdvanceCounts ==
    ASSUME NEW s \in States, s.task \in Work, NEW r, NEW q, NEW e \in BOOLEAN,
           NEW t \in Tasks, NEW v, r = "ok" => t # s.task
    PROVE  Repeats(Advance(s, r, q, e), t, v) = Repeats(s, t, v)
<1> DEFINE n == Advance(s, r, q, e)
<1>1. n \in States
  BY AdvanceType
<1>2. CASE r = "ok"
  <2>1. /\ n.attempts = s.attempts
        /\ n.iter = (IF s.iter.target = s.task THEN NoDirective ELSE s.iter)
        /\ n.rec = (IF s.rec.target = s.task THEN NoDirective ELSE s.rec)
    <3> DEFINE d == Consumed([s EXCEPT !.hist = WithLast(s, "DONE")])
    <3>1. /\ d.attempts = s.attempts
          /\ d.iter = (IF s.iter.target = s.task THEN NoDirective ELSE s.iter)
          /\ d.rec = (IF s.rec.target = s.task THEN NoDirective ELSE s.rec)
          /\ d \in States
      <4> DEFINE c == [s EXCEPT !.hist = WithLast(s, "DONE")]
      <4>1. c \in States /\ c.attempts = s.attempts /\ c.iter = s.iter
            /\ c.rec = s.rec /\ c.task = s.task
        BY CloseRunType DEF States, RunStatuses
      <4> HIDE DEF c
      <4>2. d = Consumed(c)
        BY DEF c
      <4> HIDE DEF d
      <4> QED
        BY <4>1, <4>2, ConsumedType DEF Consumed, States
    <3>2. n = IF s.task \in Gated THEN OpenNodeGate(d) ELSE Transition(d, NextOk[s.task])
      <4>1. n = AdvanceOk(s)
        BY <1>2 DEF Advance, Stops
      <4> QED
        BY <4>1 DEF AdvanceOk
    <3> HIDE DEF n, d
    <3> QED
      BY <3>1, <3>2 DEF OpenNodeGate, Transition, States
  <2>2. t # None /\ t # s.task
    BY <1>2, GraphAssumption
  <2> HIDE DEF n
  <2>3. IdentityOf([n EXCEPT !.task = t], v) = IdentityOf([s EXCEPT !.task = t], v)
    BY <1>1, <2>1, <2>2 DEF IdentityOf, IdFor, NoDirective, States
  <2> QED
    BY <2>1, <2>3 DEF Repeats, n
<1>3. CASE r # "ok"
  <2>1. n.attempts = s.attempts /\ n.iter = s.iter /\ n.rec = s.rec
    BY <1>3 DEF Advance, AdvanceStop, AdvanceFail, RecoveryGate, MarkInterrupted,
                Transition, States
  <2> QED
    BY <1>1, <2>1, RepeatsSame
<1> QED
  BY <1>2, <1>3

-----------------------------------------------------------------------------
(* Preservation.                                                           *)

Same(s, r) == r.attempts = s.attempts /\ r.iter = s.iter /\ r.rec = s.rec

LEMMA AdvanceSame ==
    ASSUME NEW s \in States, NEW r, NEW q, NEW e, r # "ok"
    PROVE  Same(s, Advance(s, r, q, e))
BY DEF Same, Advance, AdvanceStop, AdvanceFail, RecoveryGate, MarkInterrupted,
       Transition, States

LEMMA GateSame ==
    ASSUME NEW s \in States, NEW q, NEW kind
    PROVE  Same(s, RecoveryGate(s, q, kind)) /\ Same(s, OpenNodeGate(s))
BY DEF Same, RecoveryGate, OpenNodeGate, States

LEMMA BlockSame ==
    ASSUME Typed, disk = mem, NEW kind, NEW hard, Block(kind, hard)
    PROVE  Same(disk, disk') /\ pc' # "save"
<1>1. mem \in States
  BY DEF Typed, TypeOK
<1>2. Same(mem, [mem EXCEPT !.status = "PAUSED", !.err = FALSE])
  BY <1>1 DEF Same, States
<1>3. Same(mem, RecoveryGate(mem, question, kind))
  BY <1>1, GateSame
<1> QED
  BY <1>2, <1>3 DEF Block, Dump

(* A decision of the researcher, or new inputs.                            *)
LEMMA CountedReset ==
    ASSUME Typed', unattended' = [t \in Tasks |-> 0]
    PROVE  Counted'
<1> SUFFICES ASSUME NEW t \in Tasks \ CountFree
             PROVE  /\ unattended'[t] <= SameParamLimit
                    /\ unattended'[t] <= Cardinality(Repeats(disk', t, inputs'))
                    /\ unattended'[t] <= Cardinality(Repeats(mem', t, inputs'))
  BY DEF Counted
<1>1. unattended'[t] = 0
  OBVIOUS
<1>2. /\ Cardinality(Repeats(disk', t, inputs')) \in Nat
      /\ Cardinality(Repeats(mem', t, inputs')) \in Nat
  BY RepeatsFinite DEF Typed, TypeOK
<1> QED
  BY <1>1, <1>2, GraphAssumption

(* Steps that record no start and forget none.                             *)
LEMMA CountedFrame ==
    ASSUME Typed, Typed', Counted, unattended' = unattended, inputs' = inputs,
           Same(disk, disk') \/ (pc = "save" /\ disk' = mem),
           pc' = "save" => Same(disk, mem')
    PROVE  Counted'
<1> SUFFICES ASSUME NEW t \in Tasks \ CountFree
             PROVE  /\ unattended'[t] <= SameParamLimit
                    /\ unattended'[t] <= Cardinality(Repeats(disk', t, inputs'))
                    /\ pc' = "save" =>
                          unattended'[t] <= Cardinality(Repeats(mem', t, inputs'))
  BY DEF Counted
<1>1. /\ disk \in States /\ disk' \in States /\ mem' \in States
  BY DEF Typed, TypeOK
<1>2. Same(disk, disk') => Repeats(disk', t, inputs') = Repeats(disk, t, inputs)
  BY <1>1, RepeatsSame DEF Same
<1>3. pc' = "save" => Repeats(mem', t, inputs') = Repeats(disk, t, inputs)
  BY <1>1, RepeatsSame DEF Same
<1> QED
  BY <1>2, <1>3 DEF Counted

LEMMA CountedStart ==
    ASSUME Safe, Safe', Counted, Start
    PROVE  Counted'
<1> SUFFICES ASSUME NEW t \in Tasks \ CountFree
             PROVE  /\ unattended'[t] <= SameParamLimit
                    /\ unattended'[t] <= Cardinality(Repeats(disk', t, inputs'))
                    /\ pc' # "save"
  BY DEF Counted
<1> DEFINE r == StartTask(mem, inputs)
<1>1. /\ mem \in States /\ disk' \in States /\ inputs \in Nat /\ disk = mem /\ disk' = r
      /\ inputs' = inputs /\ pc' = "agent" /\ ~Deadlocked(mem, inputs)
      /\ mem.task \in Tasks
      /\ unattended \in [Tasks -> Nat]
      /\ unattended' = [unattended EXCEPT ![mem.task] = @ + 1]
  BY Fields DEF Start, AtStart, AtStep, Dump, Safe, Typed, TypeOK, Coherent, Settled
<1>2. CASE t = mem.task
  <2>1. Cardinality(Repeats(r, t, inputs)) = Cardinality(Repeats(mem, t, inputs)) + 1
    BY <1>1, <1>2, StartCounts
  <2>2. Cardinality(Repeats(mem, t, inputs)) < SameParamLimit
    BY <1>1, <1>2, GuardLimits
  <2>3. unattended[t] <= Cardinality(Repeats(mem, t, inputs))
    BY <1>1 DEF Counted
  <2>4. Cardinality(Repeats(mem, t, inputs)) \in Nat
    BY <1>1, RepeatsFinite
  <2>5. unattended'[t] = unattended[t] + 1 /\ unattended[t] \in Nat
    BY <1>1, <1>2
  <2> HIDE DEF r
  <2> QED
    BY <1>1, <2>1, <2>2, <2>3, <2>4, <2>5, GraphAssumption
<1>3. CASE t # mem.task
  <2>1. r.attempts[t] = mem.attempts[t] /\ r.iter = mem.iter /\ r.rec = mem.rec
    BY <1>1, <1>3 DEF StartTask, States
  <2>2. IdentityOf([r EXCEPT !.task = t], inputs) = IdentityOf([mem EXCEPT !.task = t], inputs)
    BY <2>1 DEF IdentityOf, IdFor, StartTask, States
  <2>3. Repeats(r, t, inputs) = Repeats(mem, t, inputs)
    BY <2>1, <2>2 DEF Repeats
  <2>4. unattended'[t] = unattended[t]
    BY <1>1, <1>3
  <2> HIDE DEF r
  <2> QED
    BY <1>1, <2>3, <2>4 DEF Counted
<1> QED
  BY <1>2, <1>3

LEMMA CountedResult ==
    ASSUME Safe, Safe', Counted, NEW r \in Results, AgentEnds(r)
    PROVE  Counted'
<1>1. /\ mem \in States /\ mem.task \in Work /\ disk' = disk
      /\ inputs' = inputs /\ pc = "agent" /\ unattended \in [Tasks -> Nat]
  BY DEF AgentEnds, Safe, Typed, TypeOK, AtWork, InAgent
<1>5. Same(mem, disk) /\ disk \in States
  BY <1>1, AgentAndFile DEF Same, InAgent
<1>2. PICK e \in BOOLEAN : mem' = Advance(mem, r, question, e)
  BY DEF AgentEnds
<1>3. CASE r # "ok"
  <2>1. Same(mem, mem')
    BY <1>1, <1>2, <1>3, AdvanceSame
  <2>2. unattended' = unattended
    BY <1>3 DEF AgentEnds
  <2> QED
    BY <1>1, <1>5, <2>1, <2>2, CountedFrame DEF Safe, Same
<1>4. CASE r = "ok"
  <2> SUFFICES ASSUME NEW t \in Tasks \ CountFree
               PROVE  /\ unattended'[t] <= SameParamLimit
                      /\ unattended'[t] <= Cardinality(Repeats(disk', t, inputs'))
                      /\ unattended'[t] <= Cardinality(Repeats(mem', t, inputs'))
    BY DEF Counted
  <2>1. unattended' = [unattended EXCEPT ![mem.task] = 0]
    BY <1>4 DEF AgentEnds
  <2>2. CASE t = mem.task
    <3>1. unattended'[t] = 0
      BY <1>1, <2>1, <2>2
    <3>2. /\ Cardinality(Repeats(disk', t, inputs')) \in Nat
          /\ Cardinality(Repeats(mem', t, inputs')) \in Nat
      BY RepeatsFinite DEF Safe, Typed, TypeOK
    <3> QED
      BY <3>1, <3>2, GraphAssumption
  <2>3. CASE t # mem.task
    <3>1. unattended'[t] = unattended[t]
      BY <1>1, <2>1, <2>3
    <3>2. Repeats(mem', t, inputs) = Repeats(mem, t, inputs)
      BY <1>1, <1>2, <2>3, AdvanceCounts
    <3>3. Repeats(mem, t, inputs) = Repeats(disk, t, inputs)
      BY <1>1, <1>5, RepeatsSame DEF Same
    <3> QED
      BY <1>1, <3>1, <3>2, <3>3 DEF Counted
  <2> QED
    BY <2>2, <2>3
<1> QED
  BY <1>3, <1>4

-----------------------------------------------------------------------------
LEMMA CountedInit == Init => Counted
<1> SUFFICES ASSUME Init, NEW t \in Tasks \ CountFree
             PROVE  /\ unattended[t] = 0 /\ pc # "save"
                    /\ Cardinality(Repeats(disk, t, inputs)) \in Nat
  BY GraphAssumption DEF Counted
<1> QED
  BY InitialStateType, RepeatsFinite DEF Init

LEMMA CountedStep ==
    ASSUME Safe, Safe', Counted, [Next]_vars
    PROVE  Counted'
<1> USE DEF durable, ghosts
<1>1. /\ disk \in States /\ mem \in States /\ Typed /\ Typed'
      /\ pc \in Settled => disk = mem
      /\ pc \in InAgent => Same(mem, disk)
  BY AgentAndFile DEF Safe, Typed, TypeOK, Coherent, Same
<1> USE DEF Same
<1>2. CASE UNCHANGED vars
  BY <1>2 DEF vars, Counted
<1>3. CASE User
  <2>1. CASE Run
    BY <1>1, <2>1, CountedFrame DEF Run
  <2>2. CASE Resume
    <3>1. Same(disk, Checkpoint(disk))
      BY <1>1 DEF Checkpoint, States
    <3> QED
      BY <1>1, <2>2, <3>1, CountedFrame DEF Resume
  <2>3. ASSUME NEW t \in Tasks, ResumeFromTask(t)
        PROVE  Counted'
    <3>1. Same(disk, disk') /\ unattended' = unattended /\ inputs' = inputs
          /\ pc' = "prepare"
      BY <1>1, <2>3 DEF ResumeFromTask, States
    <3> QED
      BY <1>1, <3>1, CountedFrame
  <2> QED
    BY <1>3, <2>1, <2>2, <2>3 DEF User
<1>4. CASE Prepared \/ Loading
  <2>1. CASE Prepared \/ LoadNew \/ LoadPaused
    BY <1>1, <2>1, CountedFrame DEF Prepared, LoadNew, LoadPaused
  <2>2. CASE LoadStaleRunning
    <3>1. Same(disk, disk') /\ unattended' = unattended /\ inputs' = inputs /\ pc' # "save"
      BY <1>1, <2>2 DEF LoadStaleRunning, Dump, MarkInterrupted, States
    <3> QED
      BY <1>1, <3>1, CountedFrame
  <2>3. CASE LoadFailed
    <3>1. Same(disk, disk') /\ unattended' = unattended /\ inputs' = inputs /\ pc' # "save"
      BY <1>1, <2>3 DEF LoadFailed, Dump, States
    <3> QED
      BY <1>1, <3>1, CountedFrame
  <2> QED
    BY <1>4, <2>1, <2>2, <2>3 DEF Loading
<1>5. CASE Stepping
  <2>1. CASE PendingGate \/ Present
    BY <1>1, <2>1, CountedFrame DEF PendingGate, Present, Dump, Settled
  <2>7. CASE AtTerminal
    <3>1. Same(disk, disk') /\ unattended' = unattended /\ inputs' = inputs /\ pc' # "save"
      BY <1>1, <2>7 DEF AtTerminal, Dump, AtStep, Settled, States
    <3> QED
      BY <1>1, <3>1, CountedFrame
  <2>8. CASE OpenGate
    <3> HIDE DEF Same
    <3>1. Same(mem, mem')
      BY <1>1, <2>8, GateSame DEF OpenGate
    <3>2. disk = mem /\ disk' = mem' /\ unattended' = unattended /\ inputs' = inputs
          /\ pc' # "save"
      BY <1>1, <2>8 DEF OpenGate, Dump, AtStep, Settled
    <3> QED
      BY <1>1, <3>1, <3>2, CountedFrame DEF Same
  <2>2. CASE DeadlockGuard
    <3>1. /\ Block("runtime", FALSE) /\ pc = "step" /\ unattended' = unattended
          /\ inputs' = inputs
      BY <2>2 DEF DeadlockGuard, Block, AtStart, AtStep
    <3> QED
      BY <1>1, <3>1, BlockSame, CountedFrame DEF Settled
  <2>3. CASE Start
    BY <2>3, CountedStart
  <2>4. CASE AskOpened \/ AskClosed
    <3>1. Same(disk, disk') /\ unattended' = unattended /\ inputs' = inputs /\ pc' # "save"
      BY <1>1, <2>4 DEF AskOpened, AskClosed, Asking, States
    <3> QED
      BY <1>1, <3>1, CountedFrame
  <2>5. CASE Save
    <3>1. disk' = mem /\ pc = "save" /\ unattended' = unattended /\ inputs' = inputs
          /\ pc' # "save"
      BY <2>5 DEF Save, Dump
    <3> QED
      BY <1>1, <3>1, CountedFrame
  <2>6. CASE ResumeAnswered
    BY <1>1, <2>6, CountedReset DEF ResumeAnswered, Decided, Attended
  <2> QED
    BY <1>5, <2>1, <2>2, <2>3, <2>4, <2>5, <2>6, <2>7, <2>8 DEF Stepping
<1>6. CASE Agent
  <2>1. CASE AgentAsks \/ AskTimesOut
    <3>1. disk' = disk /\ unattended' = unattended /\ inputs' = inputs /\ pc' # "save"
      BY <2>1 DEF AgentAsks, AskTimesOut
    <3> QED
      BY <1>1, <3>1, CountedFrame
  <2> QED
    BY <1>6, <2>1, CountedResult DEF Agent
<1>7. CASE Human
  <2>1. CASE ContinueFailed \/ PauseFailed \/ HumanUnavailable \/ AskAnswered \/ GiveAnswer
    <3>1. Same(disk, disk') /\ unattended' = unattended /\ inputs' = inputs /\ pc' # "save"
      BY <1>1, <2>1 DEF ContinueFailed, PauseFailed, HumanUnavailable, AskAnswered,
                        GiveAnswer, PauseAtGate, Dump, Settled, States
    <3> QED
      BY <1>1, <3>1, CountedFrame
  <2>2. CASE AskUnavailable
    <3>1. /\ mem' = Advance(mem, "stopped_signal", question, FALSE) /\ disk' = disk
          /\ unattended' = unattended /\ inputs' = inputs /\ pc = "ask"
      BY <2>2 DEF AskUnavailable
    <3> HIDE DEF Same
    <3>2. Same(mem, mem') /\ Same(mem, disk)
      BY <1>1, <3>1, AdvanceSame DEF InAgent
    <3> QED
      BY <1>1, <3>1, <3>2, CountedFrame DEF Same
  <2>3. CASE PauseHere
    <3>1. Same(mem, mem') /\ disk' = disk /\ unattended' = unattended /\ inputs' = inputs
          /\ pc = "gate"
      BY <1>1, <2>3 DEF PauseHere, PauseAtGate, States
    <3> QED
      BY <1>1, <3>1, CountedFrame DEF Settled
  <2>4. CASE (\E t \in Tasks : DecideNode(t)) \/ Retry \/ ReturnForReading
    BY <1>1, <2>4, CountedReset DEF DecideNode, Retry, ReturnForReading, Decided, Attended
  <2> QED
    BY <1>7, <2>1, <2>2, <2>3, <2>4 DEF Human
<1>8. CASE Trouble
  <2>1. CASE MissingPrerequisites \/ ContextFails
    <3>1. PICK kind \in GateKinds, hard \in BOOLEAN : Block(kind, hard)
      BY <2>1 DEF MissingPrerequisites, ContextFails, GateKinds
    <3>2. pc = "step" /\ unattended' = unattended /\ inputs' = inputs
      BY <2>1 DEF MissingPrerequisites, ContextFails, Block, AtStart, AtStep
    <3> QED
      BY <1>1, <3>1, <3>2, BlockSame, CountedFrame DEF Settled
  <2>2. CASE EditInputs
    BY <1>1, <2>2, CountedReset DEF EditInputs, Attended
  <2>3. CASE Crash
    BY <1>1, <2>3, CountedFrame DEF Crash, Gone
  <2>4. CASE InterruptCli
    <3>1. Same(disk, disk') /\ unattended' = unattended /\ inputs' = inputs /\ pc' # "save"
      BY <1>1, <2>4 DEF InterruptCli, Gone, MarkInterrupted, States
    <3> QED
      BY <1>1, <3>1, CountedFrame
  <2>5. CASE InterruptAgent
    <3>1. /\ mem' = Advance(mem, "stopped", question, FALSE) /\ disk' = disk
          /\ unattended' = unattended /\ inputs' = inputs /\ pc \in {"agent", "ask"}
      BY <2>5 DEF InterruptAgent
    <3> HIDE DEF Same
    <3>2. Same(mem, mem') /\ Same(mem, disk)
      BY <1>1, <3>1, AdvanceSame DEF InAgent
    <3> QED
      BY <1>1, <3>1, <3>2, CountedFrame DEF Same
  <2>6. CASE InterruptTask
    <3>1. Same(mem, disk') /\ unattended' = unattended /\ inputs' = inputs /\ pc' # "save"
          /\ pc = "agent"
      BY <1>1, <2>6 DEF InterruptTask, Dump, MarkInterrupted, States
    <3>2. Same(disk, disk')
      BY <1>1, <3>1 DEF InAgent
    <3> QED
      BY <1>1, <3>1, <3>2, CountedFrame
  <2> QED
    BY <1>8, <2>1, <2>2, <2>3, <2>4, <2>5, <2>6 DEF Trouble
<1>9. CASE Close
  BY <1>1, <1>9, CountedFrame DEF Close, Gone
<1> QED
  BY <1>2, <1>3, <1>4, <1>5, <1>6, <1>7, <1>8, <1>9 DEF Next, Process

(* No agent is launched more than SameParamLimit times without a success,  *)
(* new inputs or a decision of the researcher: the guard of                *)
(* build_execution_context holds across crashes, interrupts, resumes and   *)
(* failure edges because every launch was recorded before it ran.          *)
THEOREM GuardBoundsLaunches == Spec => []UnattendedLaunchesBounded
<1>1. Init => Counted
  BY CountedInit
<1>2. Safe /\ Safe' /\ Counted /\ [Next]_vars => Counted'
  BY CountedStep
<1>3. Counted => UnattendedLaunchesBounded
  BY DEF Counted, UnattendedLaunchesBounded
<1> QED
  BY <1>1, <1>2, <1>3, SafeAlways, PTL DEF Spec

-----------------------------------------------------------------------------
(* Unanswered questions and gates.                                         *)

(* The question file answers for the gate in state.yaml and for the one    *)
(* the runner is about to write, and a gate is only ever gone from what it *)
(* is about to write after an answer, or when its wait timed out; then the *)
(* question still stands.  A failed state has no gate, so that the move to *)
(* the failed task cannot separate a gate from its question.               *)
Kept ==
    /\ disk.gate = "ask" /\ disk.task \notin told => question = disk.task
    /\ pc = "save" /\ mem.gate = "ask" /\ mem.task \notin told => question = mem.task
    /\ pc \in {"ask_open", "ask"} => question = mem.task /\ mem.task \notin told
    /\ expired => disk.gate = "ask" /\ question = disk.task /\ disk.task \notin told
    /\ pc = "answered" => mem.task \in told
    /\ disk.status = "FAILED" => disk.gate = "none"
    /\ pc = "save" /\ mem.status = "FAILED" => mem.gate = "none"
    /\ pc \in {"ask_close", "answered"} => answered
    /\ pc = "save" /\ disk.gate # "none" /\ mem.gate = "none" => answered \/ expired

-----------------------------------------------------------------------------
(* What a result does to a state without a gate.                           *)

(* A recovery gate is the question's only if a question of this task is on *)
(* disk.                                                                   *)
LEMMA RecoveryGateKind ==
    ASSUME NEW s \in States, NEW q, NEW kind \in {"none", "runtime", "coverage"}
    PROVE  LET n == RecoveryGate(s, q, kind) IN
           /\ n.task = s.task /\ n.status = "WAITING_HUMAN"
           /\ n.gate = "ask" <=> q = s.task
BY DEF RecoveryGate, States

LEMMA AdvanceKept ==
    ASSUME NEW s \in States, s.task \in Work, s.gate = "none",
           NEW r, NEW q, NEW e \in BOOLEAN
    PROVE  LET n == Advance(s, r, q, e) IN
           /\ n.gate = "ask" => q = n.task
           /\ n.status = "FAILED" => n.gate = "none"
           /\ r \notin {"ok", "paused"} /\ q = s.task => n.gate = "ask"
<1> DEFINE n == Advance(s, r, q, e)
<1>0. Signal(r) \in {"none", "runtime", "coverage"}
  BY DEF Signal
<1>1. CASE r = "ok"
  <2> DEFINE c == [s EXCEPT !.hist = WithLast(s, "DONE")]
             d == Consumed(c)
  <2>1. c \in States /\ c.gate = "none"
    BY CloseRunType DEF States, RunStatuses
  <2> HIDE DEF c
  <2>2. d \in States /\ d.gate = "none"
    BY <2>1, ConsumedType DEF Consumed, States
  <2>3. n = IF s.task \in Gated THEN OpenNodeGate(d) ELSE Transition(d, NextOk[s.task])
    <3>1. n = AdvanceOk(s)
      BY <1>1 DEF Advance, Stops
    <3> QED
      BY <3>1 DEF AdvanceOk, c
  <2> HIDE DEF d, n
  <2>4. n.gate \in {"none", "node"} /\ (n.status = "FAILED" => n.gate = "none")
    BY <2>2, <2>3 DEF OpenNodeGate, Transition, States
  <2> QED
    BY <1>1, <2>4 DEF n
<1>2. CASE r \in Stops
  <2> DEFINE d == [s EXCEPT !.hist = WithLast(s, "INTERRUPTED"),
                            !.err = r = "paused" /\ e]
             g == RecoveryGate(d, q, Signal(r))
             m == MarkInterrupted(d)
  <2>1. d \in States /\ d.gate = "none" /\ d.task = s.task
    <3>1. (r = "paused" /\ e) \in BOOLEAN
      OBVIOUS
    <3> QED
      BY <3>1, CloseRunType DEF RunStatuses, States
  <2>2. n = IF r # "paused" /\ RecoveryOpens(d, q, FALSE, Signal(r)) THEN g ELSE m
    <3>1. n = AdvanceStop(s, r, q, e)
      BY <1>2 DEF Advance, Stops
    <3> QED
      BY <3>1 DEF AdvanceStop
  <2> HIDE DEF d, n
  <2>3. g.task = d.task /\ g.status = "WAITING_HUMAN" /\ (g.gate = "ask" <=> q = d.task)
    BY <1>0, <2>1, RecoveryGateKind
  <2>4. m.gate = "none" /\ m.status = "PAUSED" /\ m.task = d.task
    BY <2>1 DEF MarkInterrupted, States
  <2>5. r # "paused" /\ q = s.task => n = g
    BY <2>1, <2>2 DEF RecoveryOpens
  <2> HIDE DEF g, m
  <2>6. n = g \/ n = m
    BY <2>2
  <2> QED
    BY <2>1, <2>3, <2>4, <2>5, <2>6 DEF n
<1>3. CASE r # "ok" /\ r \notin Stops
  <2> DEFINE d == [s EXCEPT !.hist = WithLast(s, "FAILED")]
             g == RecoveryGate(d, q, Signal(r))
             t == NextFail[s.task]
  <2>1. d \in States /\ d.gate = "none" /\ d.task = s.task
    BY CloseRunType DEF RunStatuses, States
  <2>2. n = IF RecoveryOpens(d, q, r = "integrity", Signal(r)) THEN g
            ELSE IF t \in Terminals THEN [d EXCEPT !.task = t, !.status = "FAILED"]
                 ELSE Transition(d, t)
    <3>1. n = AdvanceFail(s, r, q)
      BY <1>3 DEF Advance
    <3> QED
      BY <3>1 DEF AdvanceFail
  <2> HIDE DEF d, n, t
  <2>3. g.task = d.task /\ g.status = "WAITING_HUMAN" /\ (g.gate = "ask" <=> q = d.task)
    BY <1>0, <2>1, RecoveryGateKind
  <2> HIDE DEF g
  <2>4. n = g \/ (n.gate = "none" /\ q # s.task)
    BY <2>1, <2>2 DEF RecoveryOpens, Transition, States
  <2> QED
    BY <1>3, <2>1, <2>3, <2>4 DEF n, Stops
<1> QED
  BY <1>1, <1>2, <1>3

-----------------------------------------------------------------------------
LEMMA KeptInit == Init => Kept
BY DEF Init, Kept, InitialState

(* A step that shows the researcher a blocked start.                       *)
LEMMA BlockKept ==
    ASSUME Safe, Kept, AtStep, NEW kind \in {"runtime", "coverage"}, NEW hard \in BOOLEAN,
           Block(kind, hard), told' = told
    PROVE  Kept' /\ disk.gate = "none"
<1>1. mem \in States /\ disk = mem /\ mem.gate = "none"
  BY DEF Safe, Typed, TypeOK, Coherent, Settled, AtStep
<1> DEFINE g == RecoveryGate(mem, question, kind)
           p == [mem EXCEPT !.status = "PAUSED", !.err = FALSE]
<1>2. g.task = mem.task /\ g.status = "WAITING_HUMAN" /\ (g.gate = "ask" <=> question = mem.task)
  BY <1>1, RecoveryGateKind
<1>3. p.gate = "none" /\ p.status = "PAUSED"
  BY <1>1 DEF States
<1>4. /\ disk' = g \/ disk' = p
      /\ question' = question /\ pc' \in {"present", "closing"} /\ ~expired'
  BY DEF Block, Dump, AtStep, Safe, Coherent, ghosts
<1> HIDE DEF g, p
<1> QED
  BY <1>1, <1>2, <1>3, <1>4 DEF Kept

LEMMA KeptStep ==
    ASSUME Safe, Kept, [Next]_vars
    PROVE  Kept'
<1> USE DEF durable, ghosts
<1>1. /\ disk \in States /\ mem \in States /\ told \subseteq Tasks
      /\ question \in Tasks \cup {None}
      /\ pc \in InAgent => mem.task \in Work
  BY DEF Safe, Typed, TypeOK, AtWork
<1>2. /\ pc \in Settled => disk = mem
      /\ pc \in InAgent => /\ mem.gate = "none" /\ disk.task = mem.task
                           /\ disk.gate # "none" => disk.status = "WAITING_HUMAN"
                           /\ disk.status # "FAILED"
      /\ pc \in {"ask", "ask_close"} => disk.gate = "ask"
      /\ pc = "agent" /\ disk.gate # "none" => expired
      /\ expired => pc \in {"agent", "save"}
  <2>1. pc \in InAgent => /\ mem.gate = "none" /\ disk.task = mem.task
                          /\ disk.gate # "none" => disk.status = "WAITING_HUMAN"
                          /\ disk.status # "FAILED"
    BY AgentAndFile DEF Open
  <2>2. /\ pc \in {"ask", "ask_close"} => disk.gate = "ask"
        /\ pc = "agent" /\ disk.gate # "none" => expired
    BY AgentAndFile DEF InAgent, Asking, Open, States
  <2> QED
    BY <2>1, <2>2 DEF Safe, Coherent
<1>3. CASE UNCHANGED vars
  BY <1>3 DEF vars, Kept
<1>4. CASE User
  <2>1. CASE Run
    BY <1>2, <2>1 DEF Run, Kept
  <2>2. CASE Resume
    <3>1. \/ Checkpoint(disk) = disk
          \/ Checkpoint(disk).gate = "none"
      BY <1>1 DEF Checkpoint, States
    <3> QED
      BY <1>2, <2>2, <3>1 DEF Resume, Kept
  <2>3. ASSUME NEW t \in Tasks, ResumeFromTask(t)
        PROVE  Kept'
    <3>1. disk'.gate = "none" /\ pc' = "prepare" /\ ~expired'
      BY <1>1, <1>2, <2>3 DEF ResumeFromTask, States
    <3> QED
      BY <3>1 DEF Kept
  <2> QED
    BY <1>4, <2>1, <2>2, <2>3 DEF User
<1>5. CASE Prepared \/ Loading
  <2>1. CASE Prepared \/ LoadNew \/ LoadPaused
    BY <1>2, <2>1 DEF Prepared, LoadNew, LoadPaused, Kept
  <2>2. CASE LoadStaleRunning
    <3>1. disk'.gate = disk.gate /\ disk'.task = disk.task /\ disk'.status = "PAUSED"
      BY <1>1, <2>2 DEF LoadStaleRunning, Dump, MarkInterrupted, States
    <3> QED
      BY <1>2, <2>2, <3>1 DEF LoadStaleRunning, Kept
  <2>3. CASE LoadFailed
    <3>1. disk.gate = "none" /\ disk'.gate = disk.gate /\ pc' = "failed_resume" /\ ~expired'
      BY <1>1, <1>2, <2>3 DEF LoadFailed, Dump, States, Kept
    <3> QED
      BY <3>1 DEF Kept
  <2> QED
    BY <1>5, <2>1, <2>2, <2>3 DEF Loading
<1>6. CASE Stepping
  <2>1. CASE PendingGate
    BY <1>2, <2>1 DEF PendingGate, AtStep, Kept
  <2>2. CASE AtTerminal
    <3>1. disk'.gate = "none" /\ pc' = "closing" /\ ~expired'
      BY <1>1, <1>2, <2>2 DEF AtTerminal, AtStep, Dump, States
    <3> QED
      BY <3>1 DEF Kept
  <2>3. CASE OpenGate
    <3> DEFINE kind == IF mem.err THEN "runtime" ELSE "none"
    <3>1. kind \in {"none", "runtime", "coverage"}
      OBVIOUS
    <3>2. \/ mem' = RecoveryGate(mem, question, kind)
          \/ mem' = OpenNodeGate(mem)
      BY <2>3 DEF OpenGate
    <3> HIDE DEF kind
    <3>3. /\ mem'.task = mem.task /\ mem'.status = "WAITING_HUMAN"
          /\ mem'.gate = "ask" => question = mem.task
      <4> DEFINE g == RecoveryGate(mem, question, kind)
                 o == OpenNodeGate(mem)
      <4>1. g.task = mem.task /\ g.status = "WAITING_HUMAN" /\ (g.gate = "ask" <=> question = mem.task)
        BY <1>1, <3>1, RecoveryGateKind
      <4>2. o.task = mem.task /\ o.status = "WAITING_HUMAN" /\ o.gate = "node"
        BY <1>1 DEF OpenNodeGate, States
      <4> HIDE DEF g, o
      <4>3. mem' = g \/ mem' = o
        BY <3>2 DEF g, o
      <4> QED
        BY <4>1, <4>2, <4>3
    <3>4. ~expired' /\ disk' = mem' /\ question' = question /\ told' = told /\ pc' = "present"
      BY <1>2, <2>3 DEF OpenGate, AtStep, Dump
    <3> QED
      BY <3>3, <3>4 DEF Kept
  <2>4. CASE DeadlockGuard
    BY <2>4, BlockKept DEF DeadlockGuard, AtStart, Block
  <2>5. CASE Start
    <3>1. disk'.gate = "none" /\ pc' = "agent" /\ ~expired'
      BY <1>1, <1>2, <2>5 DEF Start, AtStart, AtStep, Dump, StartTask, States
    <3> QED
      BY <3>1 DEF Kept
  <2>6. CASE AskOpened
    <3>1. disk'.gate = "ask" /\ disk'.task = disk.task /\ disk'.status = "WAITING_HUMAN"
          /\ disk.task = mem.task
      BY <1>1, <1>2, <2>6 DEF AskOpened, Asking, InAgent, States
    <3>2. /\ pc = "ask_open" /\ pc' = "ask" /\ ~expired'
          /\ UNCHANGED <<question, told, mem>>
      BY <1>2, <2>6 DEF AskOpened
    <3> QED
      BY <3>1, <3>2 DEF Kept
  <2>7. CASE AskClosed
    <3>1. disk'.gate = "none" /\ pc' = "agent" /\ ~expired'
      BY <1>1, <1>2, <2>7 DEF AskClosed, InAgent, States
    <3> QED
      BY <3>1 DEF Kept
  <2>8. CASE Save
    <3>1. disk' = mem /\ pc = "save" /\ pc' \in {"present", "step", "closing"}
          /\ question' = question /\ told' = told /\ ~expired'
      BY <2>8 DEF Save, Dump
    <3> QED
      BY <3>1 DEF Kept
  <2>9. CASE Present
    BY <1>2, <2>9 DEF Present, Dump, Settled, Kept
  <2>10. CASE ResumeAnswered
    <3>1. /\ disk' = disk /\ mem'.gate = "none" /\ mem'.status = "RUNNING" /\ pc' = "save"
          /\ answered' = TRUE /\ told' = told /\ disk = mem /\ mem.task \in told /\ ~expired'
      BY <1>1, <1>2, <2>10 DEF ResumeAnswered, Decided, ResolveAsk, States, Settled, Kept
    <3> QED
      BY <3>1 DEF Kept
  <2> QED
    BY <1>6, <2>1, <2>2, <2>3, <2>4, <2>5, <2>6, <2>7, <2>8, <2>9, <2>10 DEF Stepping
<1>7. CASE Agent
  <2>1. CASE AgentAsks
    <3>1. disk' = disk /\ mem' = mem /\ disk.task = mem.task /\ pc = "agent"
          /\ disk.status # "FAILED"
      BY <1>2, <2>1 DEF AgentAsks, InAgent
    <3>2. CASE UNCHANGED <<question, pc, expired, told>>
      BY <3>1, <3>2 DEF Kept
    <3>3. CASE question' = mem.task /\ told' = told \ {mem.task} /\ ~expired' /\ pc' = "ask_open"
      BY <3>1, <3>3 DEF Kept
    <3> QED
      BY <2>1, <3>2, <3>3 DEF AgentAsks
  <2>2. CASE AskTimesOut
    <3>1. /\ disk' = disk /\ question' = question /\ told' = told /\ pc = "ask" /\ pc' = "agent"
          /\ disk.gate = "ask" /\ disk.task = mem.task
      BY <1>2, <2>2 DEF AskTimesOut, InAgent
    <3> QED
      BY <3>1 DEF Kept
  <2>3. ASSUME NEW r \in Results, AgentEnds(r)
        PROVE  Kept'
    <3>1. PICK e \in BOOLEAN : mem' = Advance(mem, r, question, e)
      BY <2>3 DEF AgentEnds
    <3>2. disk' = disk /\ question' = question /\ told' = told /\ expired' = expired
          /\ (disk.gate # "none" => expired)
          /\ pc' = "save" /\ mem.gate = "none" /\ mem.task \in Work
      BY <1>1, <1>2, <2>3 DEF AgentEnds, InAgent
    <3>3. (mem'.gate = "ask" => question = mem'.task) /\ (mem'.status = "FAILED" => mem'.gate = "none")
      BY <1>1, <3>1, <3>2, AdvanceKept
    <3> QED
      BY <3>2, <3>3 DEF Kept
  <2> QED
    BY <1>7, <2>1, <2>2, <2>3 DEF Agent
<1>8. CASE Human \/ InterruptAgent
  <2>1. CASE ContinueFailed \/ PauseFailed
    <3>1. disk'.gate = disk.gate /\ disk'.task = disk.task /\ disk'.status = disk.status
          /\ pc' \in {"step", "closing"} /\ question' = question /\ told' = told /\ ~expired'
      BY <1>1, <1>2, <2>1 DEF ContinueFailed, PauseFailed, Dump, States, Settled
    <3> QED
      BY <3>1 DEF Kept
  <2>2. CASE AskAnswered
    <3>1. /\ disk' = disk /\ disk.task \in told' /\ pc' = "ask_close" /\ answered' = TRUE
          /\ ~expired' /\ disk.status # "FAILED"
      BY <1>2, <2>2 DEF AskAnswered, InAgent, Kept
    <3> QED
      BY <3>1 DEF Kept
  <2>3. CASE AskUnavailable \/ InterruptAgent
    <3>1. PICK r \in {"stopped", "stopped_signal"}, e \in BOOLEAN :
             mem' = Advance(mem, r, question, e)
      BY <2>3 DEF AskUnavailable, InterruptAgent
    <3>2. /\ disk' = disk /\ question' = question /\ told' = told /\ pc' = "save"
          /\ mem.gate = "none" /\ mem.task \in Work /\ pc \in {"agent", "ask"}
          /\ expired' = expired
      BY <1>1, <1>2, <2>3 DEF AskUnavailable, InterruptAgent, InAgent
    <3>3. (mem'.gate = "ask" => question = mem'.task) /\ (mem'.status = "FAILED" => mem'.gate = "none")
          /\ (question = mem.task => mem'.gate = "ask")
      <4> DEFINE n == Advance(mem, r, question, e)
      <4>1. (n.gate = "ask" => question = n.task) /\ (n.status = "FAILED" => n.gate = "none")
            /\ (question = mem.task => n.gate = "ask")
        BY <1>1, <3>1, <3>2, AdvanceKept
      <4> HIDE DEF n
      <4>2. mem' = n
        BY <3>1 DEF n
      <4> QED
        BY <4>1, <4>2
    <3>4. disk.gate # "none" => expired \/ mem'.gate = "ask"
      BY <1>2, <3>2, <3>3 DEF Kept
    <3> QED
      BY <1>2, <3>2, <3>3, <3>4 DEF Kept
  <2>4. ASSUME NEW t \in Tasks, DecideNode(t)
        PROVE  Kept'
    <3>1. /\ disk' = disk /\ question' = question /\ told' = told /\ pc' = "save"
          /\ answered' = TRUE /\ mem'.gate = "none" /\ ~expired'
      BY <1>1, <1>2, <2>4 DEF DecideNode, AtGate, Decided, ResolveNode, Transition, States
    <3> QED
      BY <3>1 DEF Kept
  <2>5. CASE Retry \/ ReturnForReading
    <3>1. /\ disk' = disk /\ question' = question /\ told' = told /\ pc' = "save"
          /\ answered' = TRUE /\ mem'.gate = "none"
      BY <1>1, <2>5 DEF Retry, ReturnForReading, Decided, RetryTask, ReturnToReading, States
    <3>2. ~expired'
      BY <1>2, <2>5 DEF AtGate, Retry, ReturnForReading
    <3> QED
      BY <3>1, <3>2 DEF Kept
  <2>6. CASE PauseHere
    <3>1. /\ disk' = disk /\ question' = question /\ told' = told /\ pc' = "save"
          /\ mem'.gate \in {"runtime", "coverage"} /\ mem'.status = "PAUSED" /\ ~expired'
      BY <1>1, <1>2, <2>6 DEF PauseHere, PauseAtGate, States
    <3> QED
      BY <3>1 DEF Kept
  <2>7. CASE HumanUnavailable
    <3>1. /\ disk'.gate = disk.gate /\ disk'.task = disk.task /\ disk'.status = "PAUSED"
          /\ question' = question /\ told' = told /\ pc' = "closing" /\ ~expired'
      BY <1>1, <1>2, <2>7 DEF HumanUnavailable, PauseAtGate, Dump, States, Settled
    <3> QED
      BY <3>1 DEF Kept
  <2>8. CASE GiveAnswer
    <3>1. /\ disk' = disk /\ mem' = mem /\ question' = question /\ told \subseteq told'
          /\ mem.task \in told' /\ pc' = "answered" /\ answered' = TRUE /\ ~expired'
      BY <1>2, <2>8 DEF GiveAnswer, AtGate
    <3> QED
      BY <3>1 DEF Kept
  <2> QED
    BY <1>8, <2>1, <2>2, <2>3, <2>4, <2>5, <2>6, <2>7, <2>8 DEF Human
<1>9. CASE Trouble
  <2>1. CASE MissingPrerequisites
    BY <2>1, BlockKept DEF MissingPrerequisites, Block
  <2>2. CASE ContextFails
    BY <2>2, BlockKept DEF ContextFails, Block, AtStart
  <2>3. CASE EditInputs
    BY <1>2, <2>3 DEF EditInputs, Kept
  <2>4. CASE Crash
    BY <2>4 DEF Crash, Gone, Kept
  <2>5. CASE InterruptCli
    <3>1. \/ disk' = disk
          \/ disk'.gate = disk.gate /\ disk'.task = disk.task /\ disk'.status = "PAUSED"
      <4> DEFINE n == [MarkInterrupted(disk) EXCEPT !.err = FALSE]
      <4>1. n.gate = disk.gate /\ n.task = disk.task /\ n.status = "PAUSED"
        BY <1>1 DEF MarkInterrupted, States
      <4> HIDE DEF n
      <4>2. disk' = disk \/ disk' = n
        BY <2>5 DEF InterruptCli, n
      <4> QED
        BY <4>1, <4>2
    <3>2. question' = question /\ told' = told /\ pc' = "down" /\ ~expired'
      BY <1>2, <2>5 DEF InterruptCli, Awaits, Gone
    <3> QED
      BY <3>1, <3>2 DEF Kept
  <2>6. CASE InterruptTask
    <3>1. disk'.gate = "none" /\ pc' = "closing" /\ ~expired'
      BY <1>1, <1>2, <2>6 DEF InterruptTask, Dump, MarkInterrupted, States, InAgent
    <3> QED
      BY <3>1 DEF Kept
  <2> QED
    BY <1>8, <1>9, <2>1, <2>2, <2>3, <2>4, <2>5, <2>6 DEF Trouble
<1>10. CASE Close
  BY <1>2, <1>10 DEF Close, Gone, Kept
<1> QED
  BY <1>3, <1>4, <1>5, <1>6, <1>7, <1>8, <1>9, <1>10 DEF Next, Process

LEMMA KeptAlways == Spec => [](Safe /\ Kept)
<1>1. Init => Kept
  BY KeptInit
<1>2. Safe /\ Kept /\ [Next]_vars => Kept'
  BY KeptStep
<1> QED
  BY <1>1, <1>2, SafeAlways, PTL DEF Spec

(* state.yaml has two writers, the runner and ask_human.  Whenever an      *)
(* agent computes, the file says what the runner believes; after a time-   *)
(* out of ask_human it shows the question besides, and that one is on file *)
(* and unanswered (_persist_pending_interaction, _clear_pending_...).      *)
THEOREM TwoWritersAgree == Spec => []AgentSeesSavedState
<1>1. Safe /\ Kept => AgentSeesSavedState
  BY AgentAndFile DEF Safe, Coherent, Kept, Open, AgentSeesSavedState, InAgent
<1> QED
  BY <1>1, KeptAlways, PTL

(* A question nobody has answered keeps its file, whatever ends the run    *)
(* that asked it and however often the project is resumed.                 *)
THEOREM QuestionsSurvive == Spec => []UnansweredQuestionKept
<1>1. Kept => UnansweredQuestionKept
  BY DEF Kept, UnansweredQuestionKept
<1> QED
  BY <1>1, KeptAlways, PTL

(* A gate nobody has answered goes only where the researcher sends it: no  *)
(* dump of the runner, of the CLI's interrupt handler or of ask_human      *)
(* drops it.  The gate of a question whose wait has timed out goes with    *)
(* the dump of the run that works on, and leaves its question behind.      *)
THEOREM GatesSurvive == Spec => UnansweredGateStays
<1> DEFINE A == disk.gate # "none" /\ disk'.gate = "none" =>
                  \/ answered
                  \/ expired /\ disk.gate = "ask" /\ question' = disk.task
                  \/ pc = "down" /\ disk.gate \in {"runtime", "coverage"}
                  \/ \E t \in Tasks : ResumeFromTask(t)
<1>1. ASSUME Safe, Kept, [Next]_vars
      PROVE  [A]_vars
  <2> USE DEF durable, ghosts
  <2> SUFFICES ASSUME Next, disk.gate # "none", disk'.gate = "none", ~answered,
                      ~(expired /\ disk.gate = "ask" /\ question' = disk.task),
                      ~\E t \in Tasks : ResumeFromTask(t)
               PROVE  pc = "down" /\ disk.gate \in {"runtime", "coverage"}
    BY <1>1 DEF vars
  <2>1. /\ disk \in States /\ mem \in States
        /\ pc \in Settled => disk = mem
        /\ question' # question \/ ~expired
    BY <1>1 DEF Safe, Typed, TypeOK, Coherent, Kept
  <2>12. pc \in InAgent => disk.gate \in {"none", "ask"}
    BY <1>1, AgentAndFile DEF Asking, States, Safe, Typed
  <2>2. CASE Resume
    BY <2>1, <2>2 DEF Resume, Checkpoint, States
  <2>3. CASE LoadStaleRunning
    BY <2>1, <2>3 DEF LoadStaleRunning, Dump, MarkInterrupted, States
  <2>4. CASE LoadFailed
    BY <2>1, <2>4 DEF LoadFailed, Dump, States
  <2>5. CASE AtTerminal \/ OpenGate \/ DeadlockGuard \/ Start \/ MissingPrerequisites \/ ContextFails
    BY <2>1, <2>5 DEF AtTerminal, OpenGate, DeadlockGuard, Start, MissingPrerequisites,
                      ContextFails, Block, AtStart, AtStep, Settled
  <2>6. CASE AskOpened \/ AskClosed
    <3>1. CASE AskOpened
      BY <2>1, <3>1 DEF AskOpened, Asking, States
    <3>2. CASE AskClosed
      BY <1>1, <3>2 DEF AskClosed, Kept
    <3> QED
      BY <2>6, <3>1, <3>2
  <2>7. CASE InterruptTask \/ Save
    <3>1. CASE InterruptTask
      <4>1. pc = "agent" /\ question' = question
        BY <3>1 DEF InterruptTask
      <4>2. expired
        BY <1>1, <4>1, AgentAndFile DEF InAgent
      <4> QED
        BY <2>1, <4>1, <4>2
    <3>2. CASE Save
      BY <1>1, <2>1, <3>2 DEF Save, Dump, Kept
    <3> QED
      BY <2>7, <3>1, <3>2
  <2>8. CASE Present \/ ContinueFailed \/ PauseFailed \/ HumanUnavailable
    BY <2>1, <2>8 DEF Present, ContinueFailed, PauseFailed, HumanUnavailable, PauseAtGate,
                      Dump, Settled, States
  <2>9. CASE InterruptCli
    BY <2>1, <2>9 DEF InterruptCli, MarkInterrupted, States
  <2>10. disk' # disk
    OBVIOUS
  <2>11. ~(Run \/ Prepared \/ LoadNew \/ LoadPaused \/ PendingGate \/ ResumeAnswered \/ Agent
           \/ AskAnswered \/ AskUnavailable \/ (\E t \in Tasks : DecideNode(t)) \/ Retry
           \/ ReturnForReading \/ PauseHere \/ GiveAnswer \/ Close \/ InterruptAgent \/ Crash
           \/ EditInputs)
    BY <2>10 DEF Run, Prepared, LoadNew, LoadPaused, PendingGate, ResumeAnswered, Agent,
                 AgentAsks, AgentEnds, AskTimesOut, AskAnswered, AskUnavailable, DecideNode, Retry,
                 ReturnForReading, PauseHere, GiveAnswer, Close, InterruptAgent, Crash, EditInputs
  <2> QED
    BY <2>2, <2>3, <2>4, <2>5, <2>6, <2>7, <2>8, <2>9, <2>11
       DEF Next, Process, Loading, Stepping, Human, User, Trouble
<1>2. Spec => [][A]_vars
  BY <1>1, KeptAlways, PTL DEF Spec
<1> QED
  BY <1>2 DEF UnansweredGateStays

(***************************************************************************)
(* A process nobody attends to comes to an end or to a question.           *)
(***************************************************************************)

(* The graph of state_machine.yaml has such levels: the success edges of   *)
(* the nodes without a gate have no cycle, and what the guard exempts goes *)
(* on to `failed` when it fails.                                           *)
Ascends(Level) ==
    /\ Level \in [Tasks -> Nat]
    /\ \A t, u \in Tasks : Level[t] = Level[u] => t = u
    /\ \A t \in Work \ Gated : Level[NextOk[t]] > Level[t]
    /\ \A t \in Work \cap CountFree : Level[NextFail[t]] > Level[t]

Resting == {"down", "gate", "failed_resume", "ask"}

(* How far a process is: starting, at its tasks, on its way out.           *)
Phase(p, s) ==
    CASE p = "prepare" -> 0
      [] p = "load" -> 1
      [] p = "save" /\ s.status # "RUNNING" -> 3
      [] p \in {"present", "closing", "ask_open"} -> 4
      [] OTHER -> 2

(* Among its tasks the highest counts first.  While an agent works below   *)
(* them, the launches of the higher tasks stand; those of the lower ones   *)
(* are open again, and are used up once a success has led past them.       *)
Used(t, n) == IF t \in CountFree THEN 0 ELSE n

Height(Level, t, p, s, count) ==
    IF Level[t] > Level[s.task] THEN Used(t, count[t])
    ELSE IF p \in {"agent", "ask_close"}
         THEN IF t # s.task THEN 0 ELSE IF t \in CountFree THEN 1 ELSE count[t]
         ELSE IF t = s.task THEN Used(t, count[t]) ELSE SameParamLimit + 1

(* Within one launch.                                                      *)
Togo(p, r) ==
    CASE p = "ask_close" -> 4
      [] p = "agent" -> IF r # None THEN 3 ELSE 2
      [] p = "save" -> 1
      [] OTHER -> 0

Raised(Level, t) ==
    /\ Height(Level, t, pc, mem, unattended) < Height(Level, t, pc', mem', unattended')
    /\ \A u \in Tasks : Level[u] > Level[t] =>
          Height(Level, u, pc, mem, unattended) <= Height(Level, u, pc', mem', unattended')

Standing(Level) == \A u \in Tasks :
    Height(Level, u, pc, mem, unattended) <= Height(Level, u, pc', mem', unattended')

Closer(Level) ==
    \/ Phase(pc, mem) < Phase(pc', mem')
    \/ /\ Phase(pc, mem) = 2 /\ Phase(pc', mem') = 2
       /\ \/ \E t \in Tasks : Raised(Level, t)
          \/ Standing(Level) /\ Togo(pc', receipt') < Togo(pc, receipt)

WindsDown(Level) ==
    pc \notin Resting \cup {"answered"} /\ pc' \notin Resting /\ inputs' = inputs => Closer(Level)

(* No height exceeds one more than the guard's limit.                      *)
LEMMA HeightBound ==
    ASSUME TypeOK, UnattendedLaunchesBounded, NEW Level, Ascends(Level), NEW t \in Tasks
    PROVE  Height(Level, t, pc, mem, unattended) \in 0..(SameParamLimit + 1)
<1>1. /\ unattended[t] \in Nat /\ SameParamLimit \in Nat \ {0}
      /\ t \notin CountFree => unattended[t] <= SameParamLimit
  BY GraphAssumption DEF TypeOK, UnattendedLaunchesBounded
<1>2. Used(t, unattended[t]) \in 0..(SameParamLimit + 1)
  BY <1>1 DEF Used
<1> QED
  BY <1>1, <1>2 DEF Height

(* The project goes on after a result only along an edge of the task.      *)
LEMMA AdvanceGoesOn ==
    ASSUME NEW s \in States, s.task \in Work, NEW r \in Results, NEW q, NEW i \in BOOLEAN,
           Advance(s, r, q, i).status = "RUNNING"
    PROVE  \/ r = "ok" /\ s.task \notin Gated /\ Advance(s, r, q, i).task = NextOk[s.task]
           \/ r # "ok" /\ Advance(s, r, q, i).task = NextFail[s.task]
<1>1. CASE r = "ok"
  <2> DEFINE d == Consumed([s EXCEPT !.hist = WithLast(s, "DONE")])
  <2>1. Advance(s, r, q, i) = IF s.task \in Gated THEN OpenNodeGate(d)
                              ELSE Transition(d, NextOk[s.task])
    <3>1. Advance(s, r, q, i) = AdvanceOk(s)
      BY <1>1 DEF Advance, Stops
    <3> QED
      BY <3>1 DEF AdvanceOk
  <2>2. d \in States
    <3>1. [s EXCEPT !.hist = WithLast(s, "DONE")] \in States
      BY CloseRunType DEF RunStatuses
    <3> QED
      BY <3>1, ConsumedType
  <2> HIDE DEF d
  <2>3. OpenNodeGate(d).status = "WAITING_HUMAN"
    BY <2>2, Fields DEF OpenNodeGate
  <2>4. Transition(d, NextOk[s.task]).task = NextOk[s.task]
    BY <2>2, Fields DEF Transition
  <2> QED
    BY <1>1, <2>1, <2>3, <2>4
<1>2. CASE r \in Stops
  <2> DEFINE d == [s EXCEPT !.hist = WithLast(s, "INTERRUPTED"), !.err = r = "paused" /\ i]
  <2>1. Advance(s, r, q, i).status \in {"WAITING_HUMAN", "PAUSED"}
    BY <1>2, Fields DEF Advance, AdvanceStop, RecoveryGate, MarkInterrupted, Stops
  <2> QED
    BY <2>1
<1>3. CASE r \notin Stops \cup {"ok"}
  <2> DEFINE d == [s EXCEPT !.hist = WithLast(s, "FAILED")]
  <2>1. Advance(s, r, q, i) = AdvanceFail(s, r, q)
    BY <1>3 DEF Advance
  <2>2. d.task = s.task
    BY Fields
  <2>3. RecoveryGate(d, q, Signal(r)).status = "WAITING_HUMAN"
    BY Fields DEF RecoveryGate
  <2>4. [d EXCEPT !.task = NextFail[s.task], !.status = "FAILED"].status = "FAILED"
    BY Fields
  <2>5. Transition(d, NextFail[s.task]).task = NextFail[s.task]
    BY Fields DEF Transition
  <2> HIDE DEF d
  <2> QED
    BY <1>3, <2>1, <2>3, <2>4, <2>5 DEF AdvanceFail, d
<1> QED
  BY <1>1, <1>2, <1>3

(* A launch raises the task that is started.                               *)
LEMMA StartRaises ==
    ASSUME Typed, NEW Level, Ascends(Level), Start
    PROVE  Closer(Level)
<1> DEFINE c == mem.task
<1>1. /\ mem \in States /\ c \in Tasks /\ unattended \in [Tasks -> Nat]
      /\ Level \in [Tasks -> Nat]
  BY Fields DEF Typed, TypeOK, Ascends
<1>2. /\ pc = "step" /\ pc' = "agent" /\ mem'.task = c
      /\ unattended' = [unattended EXCEPT ![c] = @ + 1]
  BY <1>1, Fields DEF Start, AtStart, AtStep, StartTask
<1> HIDE DEF c
<1>3. Height(Level, c, pc, mem, unattended) < Height(Level, c, pc', mem', unattended')
  BY <1>1, <1>2 DEF Height, Used, c
<1>4. ASSUME NEW u \in Tasks, Level[u] > Level[c]
      PROVE  Height(Level, u, pc, mem, unattended) <= Height(Level, u, pc', mem', unattended')
  BY <1>1, <1>2, <1>4 DEF Height, Used, c
<1>5. Phase(pc, mem) = 2 /\ Phase(pc', mem') = 2
  BY <1>2 DEF Phase
<1> QED
  BY <1>1, <1>3, <1>4, <1>5 DEF Closer, Raised

(* A success uses up what is below the next task; a failure lowers none.   *)
LEMMA EndCloser ==
    ASSUME Typed, UnattendedLaunchesBounded, NEW Level, Ascends(Level),
           NEW r \in Results, AgentEnds(r)
    PROVE  Closer(Level)
<1> DEFINE c == mem.task
           n == mem'.task
           limit == SameParamLimit
           low(t) == Height(Level, t, pc, mem, unattended)
           high(t) == Height(Level, t, pc', mem', unattended')
<1>1. /\ mem \in States /\ c \in Work /\ c \in Tasks /\ unattended \in [Tasks -> Nat]
      /\ Level \in [Tasks -> Nat] /\ limit \in Nat \ {0}
      /\ \A t, u \in Tasks : Level[t] = Level[u] => t = u
  BY GraphAssumption, Fields DEF Typed, TypeOK, Ascends, AgentEnds, AtWork, InAgent
<1>2. /\ pc = "agent" /\ pc' = "save"
      /\ unattended' = IF r = "ok" THEN [unattended EXCEPT ![c] = 0] ELSE unattended
  BY DEF AgentEnds
<1>3. PICK i \in BOOLEAN : mem' = Advance(mem, r, question, i)
  BY DEF AgentEnds
<1>4. CASE mem'.status # "RUNNING"
  BY <1>2, <1>4 DEF Closer, Phase
<1>5. CASE mem'.status = "RUNNING"
  <2>1. \/ r = "ok" /\ c \notin Gated /\ n = NextOk[c]
        \/ r # "ok" /\ n = NextFail[c]
    BY <1>1, <1>3, <1>5, AdvanceGoesOn
  <2>2. Phase(pc, mem) = 2 /\ Phase(pc', mem') = 2
    BY <1>2, <1>5 DEF Phase
  <2>3. n \in Tasks
    BY <1>1, <2>1, GraphAssumption
  <2>4. \A t \in Tasks : low(t) \in 0..(limit + 1)
    BY HeightBound DEF Typed
  <2>5. c \in CountFree \/ r = "ok" => Level[n] > Level[c]
    BY <1>1, <2>1 DEF Ascends
  <2>6. ASSUME NEW t \in Tasks, r # "ok" \/ t # c
        PROVE  low(t) <= high(t)
    <3>1. unattended'[t] = unattended[t] /\ unattended[t] \in Nat
      BY <1>1, <1>2, <2>6
    <3>2. CASE Level[t] > Level[n] /\ Level[t] > Level[c]
      BY <1>1, <3>1, <3>2 DEF Height, Used
    <3>3. CASE Level[t] < Level[n]
      <4>1. high(t) = limit + 1
        BY <1>1, <1>2, <2>3, <3>3 DEF Height
      <4> QED
        BY <1>1, <2>4, <4>1
    <3>4. CASE ~(Level[t] < Level[n]) /\ ~(Level[t] > Level[n] /\ Level[t] > Level[c])
      <4>1. high(t) = Used(t, unattended[t])
        <5>1. t = n \/ Level[t] > Level[n]
          BY <1>1, <2>3, <3>4
        <5> QED
          BY <1>1, <1>2, <2>3, <3>1, <5>1 DEF Height, Used
      <4>2. low(t) = Used(t, unattended[t]) \/ low(t) = 0
        <5>1. CASE Level[t] > Level[c]
          BY <5>1 DEF Height
        <5>2. CASE t # c /\ ~(Level[t] > Level[c])
          BY <1>2, <5>2 DEF Height
        <5>3. CASE t = c
          <6>1. ~(Level[t] > Level[c]) /\ t \notin CountFree
            BY <1>1, <2>3, <2>5, <3>4, <5>3
          <6> QED
            BY <1>2, <5>3, <6>1 DEF Height, Used
        <5> QED
          BY <5>1, <5>2, <5>3
      <4> QED
        BY <3>1, <4>1, <4>2 DEF Used
    <3> QED
      BY <3>2, <3>3, <3>4
  <2>7. CASE r = "ok"
    <3>1. high(c) = limit + 1
      BY <1>1, <1>2, <2>3, <2>5, <2>7 DEF Height
    <3>2. low(c) <= limit
      BY <1>1, <1>2 DEF Height, UnattendedLaunchesBounded
    <3>3. low(c) < high(c)
      BY <1>1, <2>4, <3>1, <3>2
    <3>4. \A u \in Tasks : Level[u] > Level[c] => low(u) <= high(u)
      BY <1>1, <2>6
    <3> QED
      BY <1>1, <2>2, <3>3, <3>4 DEF Closer, Raised
  <2>8. CASE r # "ok"
    <3>1. Standing(Level)
      BY <2>6, <2>8 DEF Standing
    <3>2. Togo(pc', receipt') < Togo(pc, receipt)
      BY <1>2 DEF Togo
    <3> QED
      BY <2>2, <3>1, <3>2 DEF Closer
  <2> QED
    BY <2>7, <2>8
<1> QED
  BY <1>4, <1>5

(* A step within a launch, or between two of them.                         *)
LEMMA SameHeight ==
    ASSUME Typed, UnattendedLaunchesBounded, NEW Level, Ascends(Level),
           unattended' = unattended, mem' = mem,
           Phase(pc, mem) = 2, Phase(pc', mem') = 2,
           pc \in {"agent", "ask_close"} <=> pc' \in {"agent", "ask_close"},
           Togo(pc', receipt') < Togo(pc, receipt)
    PROVE  Closer(Level)
<1>1. \A t \in Tasks : /\ Height(Level, t, pc', mem', unattended') = Height(Level, t, pc, mem, unattended)
                       /\ Height(Level, t, pc, mem, unattended) \in 0..(SameParamLimit + 1)
  BY HeightBound DEF Height, Typed
<1>2. SameParamLimit \in Nat
  BY GraphAssumption
<1> QED
  BY <1>1, <1>2 DEF Closer, Standing

(* Every other action of a process nobody attends to.                      *)
LEMMA WindsDownStep ==
    ASSUME Typed, UnattendedLaunchesBounded, NEW Level, Ascends(Level), [Next]_vars,
           ~UNCHANGED vars
    PROVE  WindsDown(Level)
<1> USE DEF durable, ghosts
<1> SUFFICES ASSUME pc \notin Resting \cup {"answered"}, pc' \notin Resting, inputs' = inputs
             PROVE  Closer(Level)
  BY DEF WindsDown
<1>1. CASE Prepared \/ Loading
  <2>1. (pc = "prepare" /\ pc' = "load") \/ (pc = "load" /\ pc' = "step")
    BY <1>1 DEF Prepared, Loading, LoadNew, LoadStaleRunning, LoadPaused, LoadFailed, Resting
  <2> QED
    BY <2>1 DEF Closer, Phase
<1>2. CASE PendingGate \/ AtTerminal \/ OpenGate
  <2>1. pc = "step" /\ pc' \in {"present", "closing"}
    BY <1>2 DEF PendingGate, AtTerminal, OpenGate, AtStep
  <2> QED
    BY <2>1 DEF Closer, Phase
<1>3. CASE DeadlockGuard \/ MissingPrerequisites \/ ContextFails
  <2>1. pc = "step" /\ pc' \in {"present", "closing"}
    BY <1>3 DEF DeadlockGuard, MissingPrerequisites, ContextFails, Block, AtStart, AtStep
  <2> QED
    BY <2>1 DEF Closer, Phase
<1>4. CASE Start
  BY <1>4, StartRaises
<1>5. CASE AskClosed
  <2>1. /\ pc = "ask_close" /\ pc' = "agent" /\ UNCHANGED <<mem, unattended, receipt>>
    BY <1>5 DEF AskClosed
  <2>2. Phase(pc, mem) = 2 /\ Phase(pc', mem') = 2 /\ Togo(pc', receipt') < Togo(pc, receipt)
    BY <2>1 DEF Phase, Togo
  <2> QED
    BY <2>1, <2>2, SameHeight
<1>6. CASE Save
  <2>1. /\ pc = "save" /\ UNCHANGED <<mem, unattended, receipt>>
        /\ IF mem.status = "RUNNING" THEN pc' = "step" ELSE pc' \in {"present", "closing"}
    BY <1>6 DEF Save
  <2>2. CASE mem.status = "RUNNING"
    <3>1. Phase(pc, mem) = 2 /\ Phase(pc', mem') = 2 /\ Togo(pc', receipt') < Togo(pc, receipt)
      BY <2>1, <2>2 DEF Phase, Togo
    <3> QED
      BY <2>1, <2>2, <3>1, SameHeight
  <2>3. CASE mem.status # "RUNNING"
    BY <2>1, <2>3 DEF Closer, Phase
  <2> QED
    BY <2>2, <2>3
<1>7. CASE AgentAsks
  <2>1. CASE pc' = "ask_open"
    BY <1>7, <2>1 DEF AgentAsks, Closer, Phase
  <2>2. CASE pc' # "ask_open"
    <3>1. /\ pc = "agent" /\ pc' = "agent" /\ UNCHANGED <<mem, unattended>>
          /\ receipt # None /\ receipt' = None
      BY <1>7, <2>2, GraphAssumption, Fields DEF AgentAsks, Typed, TypeOK
    <3>2. Phase(pc, mem) = 2 /\ Phase(pc', mem') = 2 /\ Togo(pc', receipt') < Togo(pc, receipt)
      BY <3>1 DEF Phase, Togo
    <3> QED
      BY <3>1, <3>2, SameHeight
  <2> QED
    BY <2>1, <2>2
<1>8. ASSUME NEW r \in Results, AgentEnds(r)
      PROVE  Closer(Level)
  BY <1>8, EndCloser
<1>9. CASE InterruptAgent \/ InterruptTask
  <2>1. CASE InterruptAgent
    <3>1. /\ pc = "agent" /\ pc' = "save" /\ mem' = Advance(mem, "stopped", question, FALSE)
          /\ mem \in States
      BY <2>1 DEF InterruptAgent, Resting, Typed, TypeOK
    <3>2. mem'.status # "RUNNING"
      BY <3>1, Fields DEF Advance, AdvanceStop, RecoveryGate, MarkInterrupted, Stops
    <3> QED
      BY <3>1, <3>2 DEF Closer, Phase
  <2>2. CASE InterruptTask
    BY <2>2 DEF InterruptTask, Closer, Phase
  <2> QED
    BY <1>9, <2>1, <2>2
<1>10. CASE Close \/ Present \/ AskOpened \/ Crash \/ InterruptCli
  BY <1>10 DEF Close, Gone, Present, AskOpened, Crash, InterruptCli, Resting
<1>11. CASE Human \/ User \/ ResumeAnswered \/ AskTimesOut
  BY <1>11 DEF Human, ContinueFailed, PauseFailed, AskAnswered, AskTimesOut, AskUnavailable, DecideNode,
     Retry, ReturnForReading, PauseHere, HumanUnavailable, GiveAnswer, AtGate, User, Run, Resume,
     ResumeFromTask, ResumeAnswered, Resting
<1>12. CASE EditInputs
  BY <1>12 DEF EditInputs, Typed, TypeOK
<1> QED
  BY <1>1, <1>2, <1>3, <1>4, <1>5, <1>6, <1>7, <1>8, <1>9, <1>10, <1>11, <1>12
     DEF Next, Process, Stepping, Agent, Trouble

(* The ranking behind ProcessSettles, for every graph with such levels:    *)
(* while nobody decides anything and no inputs change, each step brings    *)
(* the process nearer to its end or to a question, however successes and   *)
(* failure edges alternate; the heights that rise are bounded by the       *)
(* deadlock guard.                                                         *)
THEOREM ProcessWindsDown ==
    ASSUME NEW Level, Ascends(Level)
    PROVE  Spec => /\ [](\A t \in Tasks :
                           Height(Level, t, pc, mem, unattended) \in 0..(SameParamLimit + 1))
                   /\ [][WindsDown(Level)]_vars
<1>1. Typed /\ UnattendedLaunchesBounded =>
         \A t \in Tasks : Height(Level, t, pc, mem, unattended) \in 0..(SameParamLimit + 1)
  BY HeightBound DEF Typed
<1>2. Typed /\ UnattendedLaunchesBounded /\ [Next]_vars => [WindsDown(Level)]_vars
  BY WindsDownStep
<1> QED
  BY <1>1, <1>2, TypedAlways, GuardBoundsLaunches, PTL DEF Spec

=============================================================================
