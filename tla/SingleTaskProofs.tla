---- MODULE SingleTaskProofs ----
(***************************************************************************)
(* What holds of a workspace that the pipeline and run-task commands drive *)
(* in turn, for every graph of tasks and every budget: the two writers of  *)
(* state.yaml agree but for a question that timed out, the only gate of    *)
(* its task that a command writes over unanswered; a failed project        *)
(* resumes at its culprit, and only run-task leaves runs open; the         *)
(* pipeline's promises about questions, gates and repeated starts hold     *)
(* with commands in between; and every step is one of Errand.              *)
(***************************************************************************)
EXTENDS SingleTask, LifecycleProofs

(* Typed, with the one place only run-task knows.                          *)
WorkspaceTyped ==
    /\ saved \in BOOLEAN /\ disk \in States /\ mem \in States
    /\ question \in Tasks \cup {None} /\ receipt \in Tasks \cup {None}
    /\ inputs \in Nat /\ fresh \in Nat
    /\ pc \in Locations \cup {"settle"} /\ resume \in BOOLEAN /\ sigint \in BOOLEAN
    /\ left \in [Budgets -> Nat]
    /\ answered \in BOOLEAN /\ expired \in BOOLEAN /\ unattended \in [Tasks -> Nat]
    /\ allowed \subseteq Tasks /\ told \subseteq Tasks
    /\ AtWork /\ solo \in Work \cup {None}

Shown == {"present", "gate", "answered", "failed_resume", "settle"}

(* File and memory, as in Coherent; what run-task makes of the file it     *)
(* loads is not dumped before the agent starts or a gate is presented.     *)
Fitting ==
    /\ ~saved => disk = InitialState
    /\ solo = None => /\ pc # "settle" /\ (pc \in {"prepare", "load"} => resume = saved)
                      /\ pc \in {"step", "closing"} => disk = mem
    /\ solo # None => /\ pc \notin {"down", "failed_resume"}
                      /\ pc = "step" => mem = LoadOrInitState(disk)
    /\ pc \in Shown => disk = mem
    /\ pc \in InAgent => saved /\ Open(mem)
    /\ pc = "agent" => disk = IF expired THEN Asking(mem) ELSE mem
    /\ pc = "ask_open" => disk \in {mem, Asking(mem)}
    /\ pc \in {"ask", "ask_close"} => disk = Asking(mem)
    /\ expired => pc \in {"agent", "save"}

Fit == WorkspaceTyped /\ Fitting

USE GraphAssumption, PipelineAssumption

-----------------------------------------------------------------------------
(* Types, and file against memory.                                         *)

(* Between commands the workspace is the pipeline's.                       *)
LEMMA FitIsSafe == Fit /\ solo = None => Safe
BY DEF Fit, Fitting, WorkspaceTyped, Safe, Typed, TypeOK, Coherent, Settled, Shown

LEMMA SafeIsFit == Safe /\ solo = None => Fit
BY DEF Fit, Fitting, WorkspaceTyped, Safe, Typed, TypeOK, Coherent, Settled, Shown, Locations, Awaits

(* Where a command stands between its own loading and dumping, the         *)
(* workspace looks as the pipeline's does, and most steps are Pipeline's.  *)
Between == {"agent", "ask_open", "ask", "ask_close", "present", "gate", "answered", "save"}

LEMMA BetweenIsSafe ==
    ASSUME Fit, pc \in Between PROVE Safe
BY DEF Between, Fit, Fitting, WorkspaceTyped, Safe, Typed, TypeOK, Coherent, Settled, Shown, InAgent

(* A step of Pipeline that run-task makes, too, keeps the types.           *)
LEMMA TypesKept ==
    ASSUME WorkspaceTyped, pc # "settle", Next, solo' \in Work \cup {None}
    PROVE  WorkspaceTyped'
<1>1. Typed
  BY DEF WorkspaceTyped, Typed, TypeOK
<1>2. Typed'
  BY <1>1, TypedStep
<1> QED
  BY <1>2 DEF WorkspaceTyped, Typed, TypeOK

LEMMA LoadOrInitType ==
    ASSUME NEW s \in States, solo \in Work
    PROVE  LoadOrInitState(s) \in States /\ LoadOrInitState(s).task = solo
<1>1. solo \in Tasks
  BY DEF Work
<1> QED
  BY <1>1 DEF LoadOrInitState, States, GateKinds

LEMMA RecordStartedOpens ==
    ASSUME NEW s \in States, solo \in Work, s.task = solo, s.gate = "none", s.err = FALSE
    PROVE  RecordStarted(s) \in States /\ Open(RecordStarted(s))
<1> DEFINE r == [task |-> solo, status |-> "RUNNING"]
           h == Append(s.hist, r)
           n == RecordStarted(s)
<1>1. s.hist \in Seq(Runs) /\ r \in Runs
  BY Fields DEF Runs, RunStatuses, Work
<1>2. h \in Seq(Runs) /\ h # <<>> /\ h[Len(h)] = r
  BY <1>1, AppendProperties, EmptySeq
<1>3. /\ n.hist = h /\ n.task = s.task /\ n.status = "RUNNING" /\ n.gate = "none"
      /\ n.err = FALSE
  BY DEF RecordStarted, States
<1> HIDE DEF h
<1>4. n = [s EXCEPT !.status = "RUNNING", !.hist = h]
  BY DEF RecordStarted, States, h
<1>5. n \in States
  BY <1>2, <1>4 DEF States, Statuses
<1> QED
  BY <1>2, <1>3, <1>5 DEF Open

LEMMA SuspendedType ==
    ASSUME NEW s \in States
    PROVE  /\ Suspended(s) \in States /\ Suspended(s).task = s.task
           /\ Suspended(s).gate = s.gate /\ Suspended(s).hist = s.hist
           /\ Suspended(s).status = "PAUSED"
BY DEF Suspended, States, Statuses

-----------------------------------------------------------------------------
LEMMA FitInit == SoloInit => Fit
<1>1. SoloInit => Safe /\ solo = None
  BY TypedInit, CoherentInit DEF SoloInit, Safe
<1> QED
  BY <1>1, SafeIsFit

LEMMA FitAlone ==
    ASSUME Fit, Alone(Next)
    PROVE  Fit'
<1>1. Safe /\ Next /\ solo' = None
  BY FitIsSafe DEF Alone, soloVars
<1>2. Safe'
  BY <1>1, TypedStep, CoherentStep DEF Safe
<1> QED
  BY <1>1, <1>2 DEF Fit, Fitting, WorkspaceTyped, Safe, Typed, TypeOK, Coherent, Settled, Shown,
                    Locations, Awaits

(* The steps of run-task that are the pipeline's as well: those that       *)
(* neither load nor start find file and memory as Pipeline would.          *)
Shared == \/ Prepared \/ PendingGate \/ OpenGate \/ AskOpened \/ AskClosed \/ ResumeAnswered
          \/ Close \/ AgentAsks \/ AskTimesOut \/ Human
          \/ Crash \/ InterruptCli \/ InterruptAgent \/ InterruptTask

LEMMA FitAlong ==
    ASSUME Fit, solo # None, Along(Shared)
    PROVE  Fit'
<1> USE DEF durable, ghosts
<1>0. Shared
  BY DEF Along
<1>1. solo' = IF pc' = "down" THEN None ELSE solo
  BY DEF Along
<1>2. /\ WorkspaceTyped /\ Fitting /\ pc \notin {"down", "failed_resume"}
      /\ pc = "step" => mem = LoadOrInitState(disk)
  BY DEF Fit, Fitting
<1>3. Next
  BY <1>0 DEF Shared, Next, Process, Stepping, Agent, Trouble
<1>4. CASE pc = "settle"
  <2>1. CASE Crash
    <3>1. WorkspaceTyped'
      BY <1>1, <1>2, <2>1, InitialStateType, SpendType
         DEF Crash, Gone, WorkspaceTyped, AtWork, InAgent, Locations, Awaits, Budgets
    <3> QED
      BY <1>1, <1>2, <2>1, <3>1 DEF Crash, Gone, Fit, Fitting, Shown, InAgent
  <2> QED
    BY <1>0, <1>4, <2>1
       DEF Shared, Prepared, PendingGate, OpenGate, AtStep, AskOpened, AskClosed, ResumeAnswered, Close,
           AgentAsks, AskTimesOut, Human, ContinueFailed, PauseFailed, AskAnswered, AskUnavailable,
           DecideNode, Retry, ReturnForReading, PauseHere, HumanUnavailable, GiveAnswer, AtGate,
           InterruptCli, InterruptAgent, InterruptTask, Awaits
(* While the agent works, the step is Pipeline's.                          *)
<1>6. CASE pc \in InAgent
  <2>1. Safe'
    BY <1>3, <1>6, BetweenIsSafe, TypedStep, CoherentStep DEF Safe, Between, InAgent
  <2>2. pc' \in InAgent \cup {"save", "closing", "down"}
    BY <1>0, <1>6
       DEF InAgent, Shared, Prepared, PendingGate, OpenGate, AtStep, AskOpened, AskClosed,
           ResumeAnswered, Close, AgentAsks, AskTimesOut, Human, ContinueFailed, PauseFailed,
           AskAnswered, AskUnavailable, DecideNode, Retry, ReturnForReading, PauseHere,
           HumanUnavailable, GiveAnswer, AtGate, Crash, Gone, InterruptCli, InterruptAgent, InterruptTask
  <2>3. solo' \in Work \cup {None} /\ (solo' = None <=> pc' = "down")
    BY <1>1, <1>2 DEF WorkspaceTyped
  <2> QED
    BY <2>1, <2>2, <2>3
       DEF Fit, Fitting, WorkspaceTyped, Safe, Typed, TypeOK, Coherent, Settled, Shown, InAgent,
           Locations, Awaits
<1>5. CASE pc # "settle" /\ pc \notin InAgent
  <2>1. WorkspaceTyped'
    BY <1>1, <1>2, <1>3, <1>5, TypesKept DEF WorkspaceTyped
  <2>2. mem \in States /\ disk \in States
    BY <1>2 DEF WorkspaceTyped
  <2>3. CASE PendingGate
    <3>1. mem.gate # "none" /\ mem = LoadOrInitState(disk)
      BY <1>2, <2>3 DEF PendingGate
    <3>2. mem = disk
      BY <2>2, <3>1 DEF LoadOrInitState, States
    <3> QED
      BY <1>1, <1>2, <2>1, <2>3, <3>2 DEF PendingGate, Fit, Fitting, Shown, InAgent
  <2>4. CASE Prepared \/ OpenGate
    <3>1. CASE Prepared
      BY <1>1, <1>2, <2>1, <3>1 DEF Prepared, Fit, Fitting, Shown, InAgent
    <3>2. CASE OpenGate
      <4>1. pc = "step" /\ pc' = "present" /\ disk' = mem' /\ saved' /\ ~expired'
        BY <1>2, <3>2 DEF OpenGate, AtStep, Dump, Fitting
      <4> QED
        BY <1>1, <1>2, <2>1, <4>1 DEF Fit, Fitting, Shown, InAgent
    <3> QED
      BY <2>4, <3>1, <3>2
  <2>5. CASE ResumeAnswered
    BY <1>1, <1>2, <1>5, <2>1, <2>5 DEF ResumeAnswered, Decided, Fit, Fitting, Shown, InAgent
  <2>6. pc \in InAgent <=> pc \in {"agent", "ask_open", "ask", "ask_close"}
    BY DEF InAgent
  <2>7. CASE Human
    <3>1. CASE ContinueFailed \/ PauseFailed
      BY <1>2, <3>1 DEF ContinueFailed, PauseFailed
    <3>2. CASE AskAnswered \/ AskUnavailable
      BY <1>5, <2>6, <3>2 DEF AskAnswered, AskUnavailable
    <3>3. CASE PauseHere \/ HumanUnavailable
      BY <1>1, <1>2, <2>1, <3>3 DEF PauseHere, HumanUnavailable, Dump, Fit, Fitting, Shown, InAgent
    <3>4. CASE (\E t \in Tasks : DecideNode(t)) \/ Retry \/ ReturnForReading
      BY <1>1, <1>2, <2>1, <3>4
         DEF DecideNode, Retry, ReturnForReading, AtGate, Decided, Fit, Fitting, Shown, InAgent
    <3>5. CASE GiveAnswer
      BY <1>1, <1>2, <2>1, <3>5 DEF GiveAnswer, AtGate, Fit, Fitting, Shown, InAgent
    <3> QED
      BY <2>7, <3>1, <3>2, <3>3, <3>4, <3>5 DEF Human
  <2>8. CASE Close \/ Crash \/ InterruptCli
    BY <1>1, <1>2, <2>1, <2>8 DEF Close, Crash, InterruptCli, Awaits, Gone, Fit, Fitting, Shown, InAgent
  <2>9. ~AskOpened /\ ~AskClosed /\ ~AgentAsks /\ ~AskTimesOut /\ ~InterruptAgent /\ ~InterruptTask
    BY <1>5, <2>6 DEF AskOpened, AskClosed, AgentAsks, AskTimesOut, InterruptAgent, InterruptTask
  <2> QED
    BY <1>0, <2>3, <2>4, <2>5, <2>7, <2>8, <2>9 DEF Shared
<1> QED
  BY <1>4, <1>5, <1>6 DEF InAgent

(* The steps of run-task alone.                                            *)
SoloOwn == \/ SoloLoad \/ SoloStart \/ SoloSaveResult \/ SoloPresent \/ SoloSaveAnswer \/ SoloSettle
           \/ SoloRefused \/ SoloPreflightFails \/ \E r \in Results : SoloEnds(r)

LEMMA SoloSteps ==
    ASSUME SoloNext
    PROVE  SoloOwn \/ Along(Shared)
<1>1. CASE SoloProcess
  BY <1>1 DEF SoloProcess, SoloOwn, Along, Shared
<1>2. CASE SoloAgent \/ Along(Human)
  BY <1>2 DEF SoloAgent, SoloOwn, Along, Shared
<1>3. CASE SoloTrouble
  BY <1>3 DEF SoloTrouble, SoloOwn, Along, Shared
<1> QED
  BY <1>1, <1>2, <1>3 DEF SoloNext

LEMMA FitOwn ==
    ASSUME Fit, solo # None, SoloOwn
    PROVE  Fit'
<1> USE DEF durable, ghosts, soloVars
<1>1. /\ WorkspaceTyped /\ Fitting /\ pc \notin {"down", "failed_resume"} /\ solo \in Work
      /\ pc = "step" => mem = LoadOrInitState(disk)
      /\ mem \in States /\ disk \in States
  BY DEF Fit, Fitting, WorkspaceTyped
<1>2. CASE SoloLoad
  <2>1. mem' = LoadOrInitState(disk)
    BY <1>1, <1>2 DEF SoloLoad, Fitting
  <2>2. mem' \in States
    BY <1>1, <2>1, LoadOrInitType
  <2>3. disk' = disk /\ solo' = solo => LoadOrInitState(disk)' = LoadOrInitState(disk)
    BY DEF LoadOrInitState
  <2> QED
    BY <1>1, <1>2, <2>1, <2>2, <2>3
       DEF SoloLoad, Fit, Fitting, WorkspaceTyped, AtWork, InAgent, Locations, Awaits, Shown
<1>3. CASE SoloStart
  <2>1. mem.gate = "none" /\ mem.task = solo /\ mem.err = FALSE
    <3>1. mem = LoadOrInitState(disk) /\ mem.gate = "none"
      BY <1>1, <1>3 DEF SoloStart, SoloAtStart, AtStep
    <3> QED
      BY <1>1, <3>1, LoadOrInitType DEF LoadOrInitState, States
  <2>2. mem' \in States /\ Open(mem')
    BY <1>1, <1>3, <2>1, RecordStartedOpens DEF SoloStart
  <2>3. mem'.task \in Work
    BY <1>1, <1>3, <2>1 DEF SoloStart, RecordStarted, States
  <2>4. ~expired' /\ expired' \in BOOLEAN /\ pc' = "agent" /\ disk' = mem' /\ saved' = TRUE
    BY <1>1, <1>3 DEF SoloStart, SoloAtStart, AtStep, Dump, Fitting, WorkspaceTyped
  <2>5. WorkspaceTyped'
    BY <1>1, <1>3, <2>2, <2>3, <2>4 DEF SoloStart, WorkspaceTyped, AtWork, Locations, Awaits
  <2>6. solo' = solo
    BY <1>3 DEF SoloStart
  <2> QED
    BY <1>1, <2>2, <2>4, <2>5, <2>6 DEF Fit, Fitting, InAgent, Shown
<1>4. CASE SoloSaveResult
  <2>1. mem' \in States
    BY <1>1, <1>4, SuspendedType DEF SoloSaveResult
  <2>2. /\ ~expired' /\ expired' \in BOOLEAN /\ pc' \in {"present", "closing"}
        /\ disk' = mem' /\ saved' = TRUE /\ solo' = solo
    BY <1>4 DEF SoloSaveResult, Dump
  <2>3. WorkspaceTyped'
    BY <1>1, <1>4, <2>1, <2>2
       DEF SoloSaveResult, WorkspaceTyped, AtWork, InAgent, Locations, Awaits
  <2> QED
    BY <1>1, <2>2, <2>3 DEF Fit, Fitting, InAgent, Shown
<1>5. CASE SoloPresent \/ SoloSaveAnswer
  <2>0. disk' = mem' /\ mem' = mem /\ saved' = TRUE /\ solo' = solo
    BY <1>5 DEF SoloPresent, Present, SoloSaveAnswer, Dump
  <2>1. ~expired' /\ expired' \in BOOLEAN /\ pc' \in {"gate", "closing", "settle", "load"}
    <3>1. CASE SoloPresent
      <4>1. pc = "present" /\ pc' = "gate" /\ expired' = expired
        BY <3>1 DEF SoloPresent, Present
      <4>2. expired \in BOOLEAN /\ (expired => pc \in {"agent", "save"})
        BY <1>1 DEF Fitting, WorkspaceTyped
      <4> QED
        BY <4>1, <4>2
    <3>2. CASE SoloSaveAnswer
      BY <3>2 DEF SoloSaveAnswer
    <3> QED
      BY <1>5, <3>1, <3>2
  <2>2. allowed' \subseteq Tasks /\ answered' \in BOOLEAN
    BY <1>1, <1>5 DEF SoloPresent, Present, SoloSaveAnswer, WorkspaceTyped
  <2>3. UNCHANGED <<question, receipt, inputs, resume, sigint, fresh, left, unattended, told>>
    BY <1>5 DEF SoloPresent, Present, SoloSaveAnswer
  <2>4. WorkspaceTyped'
    BY <1>1, <2>0, <2>1, <2>2, <2>3 DEF WorkspaceTyped, AtWork, InAgent, Locations, Awaits
  <2> QED
    BY <1>1, <2>0, <2>1, <2>4 DEF Fit, Fitting, InAgent, Shown
<1>6. CASE SoloSettle
  BY <1>1, <1>6, SuspendedType
     DEF SoloSettle, Dump, Fit, Fitting, WorkspaceTyped, AtWork, InAgent, Locations, Awaits, Shown
<1>7. CASE SoloRefused
  <2>1. left' \in [Budgets -> Nat]
    BY <1>1, <1>7, SpendType DEF SoloRefused, WorkspaceTyped, Budgets
  <2> QED
    BY <1>1, <1>7, <2>1
       DEF SoloRefused, Fit, Fitting, WorkspaceTyped, AtWork, InAgent, Locations, Awaits, Shown
<1>8. CASE SoloPreflightFails
  <2>1. left' \in [Budgets -> Nat]
    BY <1>1, <1>8, SpendType DEF SoloPreflightFails, WorkspaceTyped, Budgets
  <2>2. TypeOK /\ mem.task \in Work
    BY <1>1, <1>8, LoadOrInitType
       DEF SoloPreflightFails, SoloAtStart, AtStep, WorkspaceTyped, TypeOK, Locations
  <2>3. Typed' /\ pc' \in {"present", "closing"} /\ disk' = mem' /\ saved' = TRUE
    BY <1>8, <2>1, <2>2, BlockType DEF SoloPreflightFails, Block, Dump, GateKinds
  <2>4. ~expired' /\ solo' = solo
    BY <1>1, <1>8 DEF SoloPreflightFails, SoloAtStart, AtStep, Block, Fitting
  <2>5. WorkspaceTyped'
    BY <1>1, <2>3, <2>4 DEF WorkspaceTyped, Typed, TypeOK, Locations, Awaits
  <2> QED
    BY <1>1, <2>3, <2>4, <2>5 DEF Fit, Fitting, InAgent, Shown
<1>9. ASSUME NEW r \in Results, SoloEnds(r)
      PROVE  Fit'
  <2>1. Next /\ pc = "agent" /\ pc' = "save" /\ solo' = solo
    BY <1>9 DEF SoloEnds, AgentEnds, Next, Agent
  <2>2. WorkspaceTyped'
    BY <1>1, <2>1, TypesKept
  <2> QED
    BY <1>1, <1>9, <2>1, <2>2 DEF SoloEnds, AgentEnds, Fit, Fitting, Shown, InAgent
<1> QED
  BY <1>2, <1>3, <1>4, <1>5, <1>6, <1>7, <1>8, <1>9 DEF SoloOwn

LEMMA FitRunTask ==
    ASSUME Fit, NEW t \in Tasks, RunTask(t)
    PROVE  Fit'
<1>1. left' \in [Budgets -> Nat]
  BY SpendType DEF Fit, WorkspaceTyped, RunTask, Budgets
<1> QED
  BY <1>1 DEF RunTask, Fit, Fitting, WorkspaceTyped, AtWork, InAgent, Locations, Awaits, Shown,
              durable

LEMMA FitStep == Fit /\ [WorkspaceNext]_allVars => Fit'
<1> SUFFICES ASSUME Fit, [WorkspaceNext]_allVars
             PROVE  Fit'
  OBVIOUS
<1>1. CASE UNCHANGED allVars
  BY <1>1 DEF allVars, vars, soloVars, durable, ghosts, Fit, Fitting, WorkspaceTyped, AtWork,
              Open, Asking, WithLast, LoadOrInitState
<1>2. CASE solo # None /\ SoloNext
  BY <1>2, SoloSteps, FitOwn, FitAlong
<1> QED
  BY <1>1, <1>2, FitAlone, FitRunTask DEF WorkspaceNext

LEMMA FitAlways == WorkspaceSpec => []Fit
BY FitInit, FitStep, PTL DEF WorkspaceSpec

-----------------------------------------------------------------------------
(* What every record is, in the file or about to be written.               *)

(* A gate waits, in a paused project or one that asks.                     *)
Parked(s) == s.gate # "none" => s.status \in {"PAUSED", "WAITING_HUMAN"}

(* A gate of a node is of the current one, no run is of a terminal node,   *)
(* and a failed project has the run that failed as its newest.             *)
Sane(s) ==
    /\ Parked(s) /\ (s.gate = "node" => s.task \in Gated)
    /\ WorkRuns(s.hist) /\ (SuccessNeverFails => Culprit(s, Tasks))

LEMMA SaneStays ==
    ASSUME NEW s \in States, NEW n \in States, WorkRuns(s.hist), SameRuns(s, n), Parked(n),
           n.status # "FAILED", n.gate = "node" => n.task \in Gated
    PROVE  Sane(n)
BY SameRunsWork DEF Sane, Culprit

LEMMA SaneSame ==
    ASSUME NEW s, NEW n, Sane(s), n.hist = s.hist, n.task = s.task,
           n.status = s.status, n.gate = s.gate
    PROVE  Sane(n)
BY DEF Sane, Culprit, Parked

(* A run that starts is of the task the record stands at.                  *)
LEMMA SaneStarts ==
    ASSUME NEW s \in States, NEW n \in States, WorkRuns(s.hist), s.task \in Work,
           n.gate = "none", n.status # "FAILED",
           n.hist = Append(s.hist, [task |-> s.task, status |-> "RUNNING"])
    PROVE  Sane(n)
<1> DEFINE r == [task |-> s.task, status |-> "RUNNING"]
<1>1. s.hist \in Seq(Runs) /\ r \in Runs
  BY Fields DEF Runs, RunStatuses
<1>2. \A i \in DOMAIN n.hist : n.hist[i].task \in Work
  <2> SUFFICES ASSUME NEW i \in DOMAIN n.hist
               PROVE  n.hist[i].task \in Work
    OBVIOUS
  <2>1. r.task = s.task
    OBVIOUS
  <2> HIDE DEF r
  <2>2. n.hist = Append(s.hist, r)
    BY DEF r
  <2>3. CASE i = Len(s.hist) + 1
    BY <1>1, <2>1, <2>2, <2>3, AppendProperties
  <2>4. CASE i # Len(s.hist) + 1
    <3>1. i \in DOMAIN s.hist /\ n.hist[i] = s.hist[i]
      BY <1>1, <2>2, <2>4, AppendProperties
    <3> QED
      BY <3>1 DEF WorkRuns
  <2> QED
    BY <2>3, <2>4
<1> QED
  BY <1>2 DEF Sane, Culprit, WorkRuns, Parked

(* A result closes the run.                                                *)
LEMMA SaneResult ==
    ASSUME NEW s \in States, Open(s), s.task \in Work, WorkRuns(s.hist),
           NEW r \in Results, NEW q, NEW e \in BOOLEAN
    PROVE  LET n == Advance(s, r, q, e) IN
           /\ n \in States /\ Sane(n)
           /\ \E st \in {"DONE", "INTERRUPTED", "FAILED"} : n.hist = WithLast(s, st)
<1> DEFINE n == Advance(s, r, q, e)
<1>1. n \in States
  BY AdvanceType
<1>2. s.task \in Tasks /\ s.gate = "none" /\ s.status = "RUNNING"
  BY DEF Open, Work
<1>3. Moves(s, n)
  BY <1>2, AdvanceMoves
<1>4. /\ SameRuns(s, n)
      /\ \E st \in {"DONE", "INTERRUPTED", "FAILED"} : n.hist = WithLast(s, st)
  BY AdvanceCloses
<1>5. SuccessNeverFails => Culprit(n, Tasks)
  BY <1>2, AdvanceCulprit
<1> HIDE DEF n
<1>6. Parked(n) /\ (n.gate = "node" => n.task \in Gated)
  BY <1>2, <1>3
     DEF Parked, Moves, Stays, Suspends, Waits, Succeeds, Fails, Decides, Answers, Returns
<1>7. WorkRuns(n.hist)
  BY <1>1, <1>4, SameRunsWork
<1> QED
  BY <1>1, <1>4, <1>5, <1>6, <1>7 DEF Sane, n

LEMMA InterruptedSame ==
    ASSUME NEW s \in States
    PROVE  LET n == MarkInterrupted(s) IN
           /\ n \in States /\ SameRuns(s, n) /\ n.task = s.task /\ n.gate = s.gate
           /\ n.status = "PAUSED"
           /\ [n EXCEPT !.err = FALSE] \in States /\ [n EXCEPT !.err = FALSE].hist = n.hist
           /\ [n EXCEPT !.err = FALSE].task = s.task /\ [n EXCEPT !.err = FALSE].gate = s.gate
           /\ [n EXCEPT !.err = FALSE].status = "PAUSED"
<1> DEFINE h == IF LastIs(s, {"DONE", "FAILED", "INTERRUPTED"}) THEN s.hist
                ELSE WithLast(s, "INTERRUPTED")
           n == MarkInterrupted(s)
<1>1. n \in States
  BY MarkInterruptedType
<1>2. n = [s EXCEPT !.status = "PAUSED", !.hist = h]
  BY DEF MarkInterrupted
<1>3. h = s.hist \/ h = WithLast(s, "INTERRUPTED")
  OBVIOUS
<1> HIDE DEF h
<1>4. n.hist = h /\ n.task = s.task /\ n.gate = s.gate /\ n.status = "PAUSED"
  BY <1>2 DEF States
<1>5. SameRuns(s, n)
  BY <1>3, <1>4 DEF SameRuns, RunStatuses
<1> HIDE DEF n
<1>6. /\ [n EXCEPT !.err = FALSE] \in States /\ [n EXCEPT !.err = FALSE].hist = n.hist
      /\ [n EXCEPT !.err = FALSE].task = n.task /\ [n EXCEPT !.err = FALSE].gate = n.gate
      /\ [n EXCEPT !.err = FALSE].status = n.status
  BY <1>1 DEF States
<1> QED
  BY <1>1, <1>4, <1>5, <1>6 DEF n

LEMMA AnsweredSame ==
    ASSUME NEW s \in States
    PROVE  LET n == ResolveAsk(s) IN
           /\ n \in States /\ SameRuns(s, n) /\ n.task = s.task /\ n.gate = "none"
           /\ n.status = "RUNNING"
           /\ s.hist # <<>> /\ s.hist[Len(s.hist)].task = s.task =>
                n.hist = WithLast(s, "WAITING_HUMAN_RESOLVED")
           /\ ~(s.hist # <<>> /\ s.hist[Len(s.hist)].task = s.task) => n.hist = s.hist
<1> DEFINE h == IF s.hist # <<>> /\ s.hist[Len(s.hist)].task = s.task
                THEN WithLast(s, "WAITING_HUMAN_RESOLVED") ELSE s.hist
           n == ResolveAsk(s)
<1>1. n \in States
  BY ResolveAskType
<1>2. /\ n.hist = h /\ n.task = s.task /\ n.gate = "none" /\ n.status = "RUNNING"
  BY DEF ResolveAsk, States
<1>3. SameRuns(s, n)
  BY <1>2 DEF SameRuns, RunStatuses
<1> QED
  BY <1>1, <1>2, <1>3

-----------------------------------------------------------------------------
(* Open runs.                                                              *)

Excused(s, i, f) == LitGate[s.hist[i].task] # None \/ i \in f

(* Every open run is the newest one, or excused.                           *)
Older(s, f) == \A i \in OpenRuns(s) : i = Len(s.hist) \/ Excused(s, i, f)

(* The newest run is open, and not excused.                                *)
Loose(s, f) ==
    s.hist # <<>> /\ Len(s.hist) \in OpenRuns(s) /\ ~Excused(s, Len(s.hist), f)

LastTask(s) == s.hist[Len(s.hist)].task

(* A run is open without excuse only while it works or asks: in the file,  *)
(* and in what the runner is about to write, where nothing works.          *)
Tidy(s, f) ==
    Older(s, f) /\ (Loose(s, f) => LastTask(s) = s.task /\ (s.gate = "ask" \/ s.status = "RUNNING"))
Swept(s, f) ==
    Older(s, f) /\ (Loose(s, f) => LastTask(s) = s.task /\ s.gate = "ask")

LEMMA OpenSame ==
    ASSUME NEW s, NEW n, NEW f, NEW g, f \subseteq g, n.hist = s.hist
    PROVE  /\ Older(s, f) => Older(n, g)
           /\ Loose(n, g) => Loose(s, f)
           /\ LastTask(n) = LastTask(s)
BY DEF Older, Loose, Excused, OpenRuns, LastTask

(* The newest run gets another status.                                     *)
LEMMA LastChanges ==
    ASSUME NEW s \in States, NEW n \in States, s.hist # <<>>, NEW st \in RunStatuses,
           n.hist = WithLast(s, st)
    PROVE  /\ Len(s.hist) \in DOMAIN s.hist
           /\ DOMAIN n.hist = DOMAIN s.hist /\ Len(n.hist) = Len(s.hist) /\ n.hist # <<>>
           /\ \A i \in DOMAIN s.hist : n.hist[i].task = s.hist[i].task
           /\ \A i \in DOMAIN s.hist : i # Len(s.hist) => n.hist[i] = s.hist[i]
           /\ n.hist[Len(n.hist)].status = st
<1> DEFINE l == Len(s.hist)
           x == [s.hist[l] EXCEPT !.status = st]
<1>1. l \in DOMAIN s.hist /\ l \in Nat /\ s.hist[l] \in Runs
  BY LastRun
<1>2. x.status = st /\ x.task = s.hist[l].task
  BY <1>1 DEF Runs
<1>3. n.hist = [s.hist EXCEPT ![l] = x]
  BY DEF WithLast
<1>4. Len(n.hist) = l /\ n.hist # <<>>
  BY <1>1, WithLastType, LastRun, EmptySeq
<1> HIDE DEF l, x
<1>5. n.hist[l] = x /\ DOMAIN n.hist = DOMAIN s.hist /\ \A i \in DOMAIN s.hist : i # l => n.hist[i] = s.hist[i]
  BY <1>1, <1>3
<1> QED
  BY <1>1, <1>2, <1>4, <1>5 DEF l

LEMMA OpenChanges ==
    ASSUME NEW s \in States, NEW n \in States, s.hist # <<>>, NEW st \in RunStatuses,
           n.hist = WithLast(s, st), NEW f, Older(s, f)
    PROVE  /\ Older(n, f) /\ LastTask(n) = LastTask(s)
           /\ st \notin {"RUNNING", "WAITING_HUMAN"} => ~Loose(n, f)
BY LastChanges DEF Older, Loose, Excused, OpenRuns, LastTask

(* A run is added.                                                         *)
LEMMA OpenAppends ==
    ASSUME NEW s \in States, NEW n \in States, NEW r \in Runs, n.hist = Append(s.hist, r),
           NEW f, Older(s, f), ~Loose(s, f)
    PROVE  Older(n, f) /\ LastTask(n) = r.task
<1>1. s.hist \in Seq(Runs)
  BY Fields
<1>2. /\ Len(n.hist) = Len(s.hist) + 1 /\ n.hist[Len(s.hist) + 1] = r
      /\ \A i \in 1 .. Len(s.hist) : n.hist[i] = s.hist[i]
      /\ DOMAIN n.hist = 1 .. Len(s.hist) + 1 /\ DOMAIN s.hist = 1 .. Len(s.hist)
      /\ Len(s.hist) \in Nat
  BY <1>1, AppendProperties
<1>3. s.hist = <<>> => Len(s.hist) = 0
  BY <1>1, EmptySeq
<1>4. ASSUME NEW i \in OpenRuns(n), i # Len(n.hist)
      PROVE  Excused(n, i, f)
  <2>1. i \in DOMAIN s.hist /\ n.hist[i] = s.hist[i]
    BY <1>2, <1>4 DEF OpenRuns
  <2>2. i \in OpenRuns(s)
    BY <1>4, <2>1 DEF OpenRuns
  <2>3. Excused(s, i, f)
    BY <1>2, <1>3, <2>1, <2>2 DEF Older, Loose
  <2> QED
    BY <2>1, <2>3 DEF Excused
<1> QED
  BY <1>2, <1>4 DEF Older, LastTask

LEMMA OpenInterrupted ==
    ASSUME NEW s \in States, NEW f, Older(s, f)
    PROVE  Older(MarkInterrupted(s), f) /\ ~Loose(MarkInterrupted(s), f)
<1> DEFINE n == MarkInterrupted(s)
<1>1. n \in States
  BY MarkInterruptedType
<1>2. n.hist = IF LastIs(s, {"DONE", "FAILED", "INTERRUPTED"}) THEN s.hist
               ELSE WithLast(s, "INTERRUPTED")
  BY DEF MarkInterrupted, States
<1> HIDE DEF n
<1>3. CASE LastIs(s, {"DONE", "FAILED", "INTERRUPTED"})
  <2>1. ~Loose(s, f)
    BY <1>3 DEF LastIs, Loose, OpenRuns
  <2> QED
    BY <1>2, <1>3, <2>1, OpenSame DEF n
<1>4. CASE ~LastIs(s, {"DONE", "FAILED", "INTERRUPTED"}) /\ s.hist # <<>>
  BY <1>1, <1>2, <1>4, OpenChanges DEF RunStatuses, n
<1>5. CASE s.hist = <<>>
  <2>1. n.hist = s.hist
    BY <1>2, <1>5 DEF WithLast
  <2> QED
    BY <1>5, <2>1, OpenSame DEF n, Loose
<1> QED
  BY <1>3, <1>4, <1>5

LEMMA OpenAnswered ==
    ASSUME NEW s \in States, NEW f, Swept(s, f)
    PROVE  Older(ResolveAsk(s), f) /\ ~Loose(ResolveAsk(s), f)
<1> DEFINE n == ResolveAsk(s)
<1>1. n \in States
  BY ResolveAskType
<1>2. CASE s.hist # <<>> /\ s.hist[Len(s.hist)].task = s.task
  <2>1. n.hist = WithLast(s, "WAITING_HUMAN_RESOLVED")
    BY <1>2, AnsweredSame
  <2> HIDE DEF n
  <2> QED
    BY <1>1, <1>2, <2>1, OpenChanges DEF RunStatuses, Swept, n
<1>3. CASE ~(s.hist # <<>> /\ s.hist[Len(s.hist)].task = s.task)
  <2>1. n.hist = s.hist
    BY <1>3, AnsweredSame
  <2>2. ~Loose(s, f)
    BY <1>3 DEF Swept, Loose, LastTask
  <2> HIDE DEF n
  <2> QED
    BY <2>1, <2>2, OpenSame DEF Swept, n
<1> QED
  BY <1>2, <1>3

-----------------------------------------------------------------------------
(* The inductive invariant: every record is sane, and without re-entries   *)
(* tidy; what run-task works on has no run that is open without excuse.    *)
Orderly ==
    /\ Sane(disk) /\ (pc = "save" => Sane(mem)) /\ (pc \in InAgent => WorkRuns(mem.hist))
    /\ SuccessNeverFails => FailedResumeAtCulprit
    /\ NoReentry =>
         /\ Tidy(disk, found)
         /\ pc \in InAgent => Older(mem, found)
         /\ pc = "save" => Swept(mem, found)
         /\ pc \in {"step"} \cup Shown => Swept(disk, found)
         /\ solo # None /\ pc \in {"prepare", "load", "step"} => ~Loose(disk, found)

(* Where a start, a gate or a block is near, no run is open.               *)
LEMMA NothingLoose ==
    ASSUME Fit, Orderly, AtStep
    PROVE  /\ mem \in States /\ mem.hist = disk.hist /\ WorkRuns(mem.hist)
           /\ NoReentry => Older(mem, found) /\ ~Loose(mem, found)
<1>1. mem \in States /\ disk \in States /\ pc = "step" /\ mem.gate = "none"
  BY DEF Fit, WorkspaceTyped, AtStep
<1>2. solo = None => disk = mem
  BY <1>1 DEF Fit, Fitting
<1>3. solo # None => mem = LoadOrInitState(disk)
  BY <1>1 DEF Fit, Fitting
<1>4. mem.hist = disk.hist
  BY <1>1, <1>2, <1>3 DEF LoadOrInitState, States
<1>5. NoReentry => Older(disk, found) /\ ~Loose(disk, found)
  BY <1>1, <1>2 DEF Orderly, Swept
<1> QED
  BY <1>1, <1>4, <1>5, OpenSame DEF Orderly, Sane

(* A blocked start.                                                        *)
LEMMA OrderlyBlock ==
    ASSUME Fit, Fit', Orderly, AtStep, NEW kind \in {"runtime", "coverage"}, NEW hard \in BOOLEAN,
           Block(kind, hard), found' = found
    PROVE  Orderly'
<1>1. /\ mem \in States /\ mem.hist = disk.hist /\ WorkRuns(mem.hist) /\ mem.gate = "none"
      /\ NoReentry => Older(mem, found) /\ ~Loose(mem, found)
  BY NothingLoose DEF AtStep
<1>2. /\ mem' \in States /\ disk' = mem' /\ pc' \in {"present", "closing"}
  BY DEF Block, Dump, Fit, WorkspaceTyped
<1>3. /\ mem'.hist = mem.hist /\ mem'.status \in {"WAITING_HUMAN", "PAUSED"}
      /\ mem'.gate # "node"
  <2> DEFINE g == RecoveryGate(mem, question, kind)
             p == [mem EXCEPT !.status = "PAUSED", !.err = FALSE]
  <2>1. g.hist = mem.hist /\ g.status = "WAITING_HUMAN" /\ g.gate # "node"
    BY <1>1 DEF RecoveryGate, States
  <2>2. p.hist = mem.hist /\ p.status = "PAUSED" /\ p.gate # "node"
    BY <1>1 DEF States
  <2> HIDE DEF g, p
  <2>3. mem' = g \/ mem' = p
    BY DEF Block, g, p
  <2> QED
    BY <2>1, <2>2, <2>3
<1>4. Sane(mem') /\ mem'.hist = mem.hist
  BY <1>1, <1>2, <1>3, SaneStays DEF SameRuns, Parked
<1>5. NoReentry => Older(mem', found) /\ ~Loose(mem', found)
  BY <1>1, <1>4, OpenSame
<1> QED
  BY <1>2, <1>4, <1>5 DEF Orderly, Tidy, Swept, InAgent, Shown, FailedResumeAtCulprit

(* A result, on its way into the file.                                     *)
LEMMA OrderlyResult ==
    ASSUME Fit, Orderly, pc \in {"agent", "ask"}, NEW r \in Results, NEW q, NEW e \in BOOLEAN,
           mem' = Advance(mem, r, q, e), disk' = disk, pc' = "save", found' = found
    PROVE  Orderly'
<1>1. mem \in States /\ Open(mem) /\ mem.task \in Work /\ WorkRuns(mem.hist) /\ mem.hist # <<>>
  BY DEF Fit, Fitting, WorkspaceTyped, AtWork, InAgent, Orderly, Open
<1>2. /\ mem' \in States /\ Sane(mem')
      /\ \E st \in {"DONE", "INTERRUPTED", "FAILED"} : mem'.hist = WithLast(mem, st)
  <2> DEFINE n == Advance(mem, r, q, e)
  <2>1. /\ n \in States /\ Sane(n)
        /\ \E st \in {"DONE", "INTERRUPTED", "FAILED"} : n.hist = WithLast(mem, st)
    BY <1>1, SaneResult
  <2> HIDE DEF n
  <2>2. mem' = n
    BY DEF n
  <2> QED
    BY <2>1, <2>2
<1>3. NoReentry => Older(mem', found) /\ ~Loose(mem', found)
  BY <1>1, <1>2, OpenChanges DEF Orderly, InAgent, RunStatuses
<1> QED
  BY <1>2, <1>3 DEF Orderly, Swept, InAgent, Shown, FailedResumeAtCulprit

(* Steps that leave the file alone and prepare no other.                   *)
LEMMA OrderlyQuiet ==
    ASSUME Orderly, disk' = disk, found' = found, pc' \notin {"save", "failed_resume"},
           pc' \in InAgent => pc \in InAgent /\ mem' = mem,
           pc' \in {"step"} \cup Shown => pc \in {"step"} \cup Shown,
           solo' # None /\ pc' \in {"prepare", "load", "step"} =>
               solo # None /\ pc \in {"prepare", "load", "step"}
    PROVE  Orderly'
BY DEF Orderly, FailedResumeAtCulprit

LEMMA OrderlyStays ==
    ASSUME Orderly, disk' = disk, mem' = mem, pc' = pc, found' = found, solo' = solo
    PROVE  Orderly'
BY DEF Orderly, FailedResumeAtCulprit

(* The steps pipeline and run-task share.                                  *)
LEMMA OrderlyShared ==
    ASSUME Fit, Fit', Orderly, Shared, found' = found, solo' # None => solo' = solo
    PROVE  Orderly'
<1> USE DEF durable, ghosts
<1>1. /\ mem \in States /\ disk \in States /\ mem' \in States /\ disk' \in States
      /\ Sane(disk) /\ WorkRuns(disk.hist)
      /\ pc \in Shown => disk = mem
      /\ pc = "ask_open" => Asking(disk) = Asking(mem)
      /\ pc \in InAgent => mem.task \in Work /\ Open(mem) /\ mem.gate = "none" /\ mem.hist # <<>>
                          /\ WorkRuns(mem.hist)
  <2>1. pc = "ask_open" => Asking(disk) = Asking(mem)
    BY AskTwice DEF Fit, Fitting, WorkspaceTyped, InAgent
  <2> QED
    BY <2>1 DEF Fit, Fitting, WorkspaceTyped, Orderly, Sane, InAgent, AtWork, Open
<1>2. /\ NoReentry /\ pc \in Shown => Swept(mem, found) /\ Swept(disk, found)
      /\ NoReentry /\ pc \in InAgent => Older(mem, found)
      /\ NoReentry => Tidy(disk, found) /\ Older(disk, found)
  BY <1>1 DEF Orderly, Tidy
<1>3. CASE \/ Prepared \/ PendingGate \/ Close \/ AgentAsks \/ AskTimesOut \/ Crash
           \/ AskAnswered \/ GiveAnswer
  BY <1>3, OrderlyQuiet
     DEF Prepared, PendingGate, Close, AgentAsks, AskTimesOut, Crash, AskAnswered, GiveAnswer, AtGate,
         Gone, InAgent, Shown
<1>4. CASE OpenGate
  <2> DEFINE kind == IF mem.err THEN "runtime" ELSE "none"
             g == RecoveryGate(mem, question, kind)
             o == OpenNodeGate(mem)
  <2>1. /\ mem.hist = disk.hist /\ WorkRuns(mem.hist)
        /\ NoReentry => Older(mem, found) /\ ~Loose(mem, found)
    BY <1>4, NothingLoose DEF OpenGate
  <2>2. mem' = IF mem.status = "PAUSED" /\ RecoveryOpens(mem, question, FALSE, kind) THEN g ELSE o
    BY <1>4 DEF OpenGate
  <2>3. mem' = o => mem.task \in Gated
    <3>1. CASE mem.task \in Immediate
      BY <3>1
    <3>2. CASE mem.status = "PAUSED" /\ mem.err
      <4>1. mem' = g
        <5>1. RecoveryOpens(mem, question, FALSE, kind)
          BY <3>2 DEF RecoveryOpens
        <5> HIDE DEF kind, g, o
        <5> QED
          BY <2>2, <3>2, <5>1
      <4>2. g.gate # "node" /\ o.gate = "node"
        BY <1>1, <3>2 DEF RecoveryGate, OpenNodeGate, States
      <4> HIDE DEF g, o
      <4> QED
        BY <4>1, <4>2
    <3> QED
      BY <1>4, <3>1, <3>2 DEF OpenGate, ShouldPause
  <2>4. g.gate # "node" /\ g.status = "WAITING_HUMAN" /\ g.hist = mem.hist /\ g.task = mem.task
    BY <1>1 DEF RecoveryGate, States
  <2>5. o.status = "WAITING_HUMAN" /\ o.hist = mem.hist /\ o.task = mem.task
    BY <1>1 DEF OpenNodeGate, States
  <2>6. (mem' = g \/ mem' = o) /\ disk' = mem' /\ pc' = "present"
    BY <1>4, <2>2 DEF OpenGate, Dump
  <2> HIDE DEF g, o
  <2>7. /\ mem'.hist = mem.hist /\ mem'.status = "WAITING_HUMAN"
        /\ mem'.gate = "node" => mem'.task \in Gated
    BY <2>3, <2>4, <2>5, <2>6
  <2>8. Sane(mem')
    BY <1>1, <2>1, <2>7, SaneStays DEF SameRuns, Parked
  <2>9. NoReentry => Older(mem', found) /\ ~Loose(mem', found)
    BY <2>1, <2>7, OpenSame
  <2> QED
    BY <2>6, <2>8, <2>9 DEF Orderly, Tidy, Swept, InAgent, Shown, FailedResumeAtCulprit
<1>5. CASE AskOpened
  <2>1. /\ disk' = Asking(mem) /\ mem' = mem /\ pc' = "ask"
    BY <1>1, <1>5 DEF AskOpened
  <2>2. /\ disk'.hist = WithLast(mem, "WAITING_HUMAN") /\ disk'.gate = "ask"
        /\ disk'.status = "WAITING_HUMAN" /\ disk'.task = mem.task
    BY <1>1, <2>1 DEF Asking, States
  <2>3. Sane(disk')
    BY <1>1, <1>5, <2>2, SaneStays DEF AskOpened, InAgent, SameRuns, RunStatuses, Parked
  <2>4. NoReentry => Older(disk', found) /\ LastTask(disk') = mem.task
    <3>1. LastTask(mem) = mem.task
      BY <1>1, <1>5 DEF AskOpened, InAgent, Open, LastTask
    <3>2. "WAITING_HUMAN" \in RunStatuses
      BY DEF RunStatuses
    <3>3. mem.hist # <<>> /\ (NoReentry => Older(mem, found))
      BY <1>1, <1>2, <1>5 DEF AskOpened, InAgent
    <3> QED
      BY <1>1, <2>2, <3>1, <3>2, <3>3, OpenChanges
  <2> QED
    BY <1>1, <1>2, <1>5, <2>1, <2>2, <2>3, <2>4
       DEF AskOpened, Orderly, Tidy, InAgent, Shown, FailedResumeAtCulprit
<1>6. CASE AskClosed
  <2>1. pc = "ask_close" /\ pc' = "agent" /\ mem' = mem /\ disk' = mem
    BY <1>6 DEF AskClosed, Fit, Fitting
  <2>2. Sane(mem)
    BY <1>1, <2>1, SaneStays DEF InAgent, Open, Parked, SameRuns
  <2>3. LastTask(mem) = mem.task /\ mem.status = "RUNNING"
    BY <1>1, <2>1 DEF InAgent, Open, LastTask
  <2> QED
    BY <1>1, <1>2, <2>1, <2>2, <2>3 DEF Orderly, Tidy, InAgent, Shown, FailedResumeAtCulprit
<1>7. CASE ResumeAnswered
  <2>1. pc = "answered" /\ pc' = "save" /\ disk' = disk /\ disk = mem /\ mem' = ResolveAsk(mem)
    BY <1>1, <1>7 DEF ResumeAnswered, Decided, Shown
  <2>2. Sane(mem')
    <3> DEFINE n == ResolveAsk(mem)
    <3>1. n \in States /\ SameRuns(mem, n) /\ n.gate = "none" /\ n.status = "RUNNING"
      BY <1>1, AnsweredSame
    <3> HIDE DEF n
    <3>2. Sane(n)
      BY <1>1, <2>1, <3>1, SaneStays DEF Parked
    <3> QED
      BY <2>1, <3>2 DEF n
  <2>3. NoReentry => Older(mem', found) /\ ~Loose(mem', found)
    BY <1>1, <1>2, <2>1, OpenAnswered DEF Shown
  <2> QED
    BY <1>1, <1>2, <2>1, <2>2, <2>3 DEF Orderly, Swept, InAgent, Shown, FailedResumeAtCulprit
<1>8. CASE AskUnavailable \/ InterruptAgent
  <2>1. PICK r \in {"stopped", "stopped_signal"} : mem' = Advance(mem, r, question, FALSE)
    BY <1>8 DEF AskUnavailable, InterruptAgent
  <2>2. pc \in {"agent", "ask"} /\ disk' = disk /\ pc' = "save"
    BY <1>8 DEF AskUnavailable, InterruptAgent
  <2>3. r \in Results /\ FALSE \in BOOLEAN
    BY DEF Results, Stops
  <2> QED
    BY <2>1, <2>2, <2>3, OrderlyResult
<1>9. CASE ContinueFailed \/ PauseFailed
  <2>1. /\ pc = "failed_resume" /\ disk = mem /\ disk' = mem' /\ mem' = [mem EXCEPT !.err = FALSE]
        /\ pc' \in {"step", "closing"} /\ solo = None
    BY <1>1, <1>9 DEF ContinueFailed, PauseFailed, Dump, Shown, Fit, Fitting
  <2>2. mem'.hist = mem.hist /\ mem'.task = mem.task /\ mem'.status = mem.status /\ mem'.gate = mem.gate
    BY <1>1, <2>1 DEF States
  <2>3. Sane(mem')
    BY <1>1, <2>1, <2>2, SaneSame
  <2>4. NoReentry => Swept(mem', found)
    BY <1>2, <2>1, <2>2, OpenSame DEF Swept, Shown
  <2> QED
    BY <2>1, <2>3, <2>4 DEF Orderly, Tidy, Swept, InAgent, Shown, FailedResumeAtCulprit
<1>10. CASE (\E t \in Tasks : DecideNode(t)) \/ Retry \/ ReturnForReading
  <2>1. /\ pc = "gate" /\ pc' = "save" /\ disk' = disk /\ disk = mem
        /\ mem.gate \in {"node", "runtime", "coverage"}
    BY <1>1, <1>10 DEF DecideNode, Retry, ReturnForReading, AtGate, Decided, Shown
  <2>2. mem'.hist = mem.hist /\ mem'.gate = "none" /\ mem'.status # "FAILED"
    <3>1. ASSUME NEW t \in Tasks, DecideNode(t)
          PROVE  mem'.hist = mem.hist /\ mem'.gate = "none" /\ mem'.status # "FAILED"
      <4>1. mem.task \in Gated /\ t \in Branches[mem.task] /\ mem' = ResolveNode(mem, t, fresh')
        BY <1>1, <2>1, <3>1 DEF DecideNode, AtGate, Sane
      <4>2. t # Failed
        BY <4>1
      <4> QED
        BY <1>1, <4>1, <4>2 DEF ResolveNode, Transition, States
    <3>2. CASE Retry
      BY <1>1, <3>2 DEF Retry, RetryTask, States
    <3>3. CASE ReturnForReading
      BY <1>1, <3>3 DEF ReturnForReading, ReturnToReading, States
    <3> QED
      BY <1>10, <3>1, <3>2, <3>3
  <2>3. Sane(mem')
    BY <1>1, <2>1, <2>2, SaneStays DEF SameRuns, Parked
  <2>4. NoReentry => Older(mem', found) /\ ~Loose(mem', found)
    BY <1>2, <2>1, <2>2, OpenSame DEF Swept, Shown
  <2> QED
    BY <1>1, <1>2, <2>1, <2>3, <2>4 DEF Orderly, Swept, InAgent, Shown, FailedResumeAtCulprit
<1>11. CASE PauseHere \/ HumanUnavailable
  <2>1. /\ pc = "gate" /\ pc' \in {"save", "closing"} /\ disk = mem /\ disk' \in {disk, mem'}
        /\ mem' = PauseAtGate(mem)
    BY <1>1, <1>11 DEF PauseHere, HumanUnavailable, Dump, Shown
  <2>2. /\ mem'.hist = mem.hist /\ mem'.gate = mem.gate /\ mem'.task = mem.task
        /\ mem'.status = "PAUSED"
    BY <1>1, <2>1 DEF PauseAtGate, States
  <2>3. Sane(mem')
    BY <1>1, <2>1, <2>2, SaneStays DEF SameRuns, Parked, Sane
  <2>4. NoReentry => Swept(mem', found)
    BY <1>2, <2>1, <2>2, OpenSame DEF Swept, Shown
  <2> QED
    BY <1>1, <1>2, <2>1, <2>3, <2>4 DEF Orderly, Tidy, Swept, InAgent, Shown, FailedResumeAtCulprit
<1>12. CASE InterruptCli
  <2> DEFINE m == MarkInterrupted(disk)
             n == [m EXCEPT !.err = FALSE]
  <2>1. (disk' = disk \/ disk' = n) /\ pc' = "down"
    BY <1>12 DEF InterruptCli, Gone
  <2>2. CASE disk' = disk
    BY <2>1, <2>2, OrderlyQuiet DEF InAgent, Shown
  <2>3. CASE disk' = n
    <3>1. /\ m \in States /\ SameRuns(disk, m) /\ n \in States /\ n.hist = m.hist
          /\ n.task = disk.task /\ n.gate = disk.gate /\ n.status = "PAUSED"
      BY <1>1, InterruptedSame
    <3>2. NoReentry => Older(m, found) /\ ~Loose(m, found)
      BY <1>1, <1>2, OpenInterrupted
    <3> HIDE DEF n, m
    <3>3. SameRuns(disk, n)
      BY <3>1 DEF SameRuns
    <3>4. Sane(n)
      BY <1>1, <3>1, <3>3, SaneStays DEF Parked, Sane
    <3>5. NoReentry => Older(n, found) /\ ~Loose(n, found)
      BY <3>1, <3>2, OpenSame
    <3> QED
      BY <2>1, <2>3, <3>4, <3>5 DEF Orderly, Tidy, InAgent, Shown, FailedResumeAtCulprit
  <2> QED
    BY <2>1, <2>2, <2>3
<1>13. CASE InterruptTask
  <2>1. pc = "agent" /\ disk' = mem' /\ pc' = "closing" /\ mem' = MarkInterrupted(mem)
    BY <1>13 DEF InterruptTask, Dump
  <2> DEFINE n == MarkInterrupted(mem)
  <2>2. n \in States /\ SameRuns(mem, n) /\ n.gate = mem.gate /\ n.status = "PAUSED"
    BY <1>1, InterruptedSame
  <2>3. NoReentry => Older(n, found) /\ ~Loose(n, found)
    BY <1>1, <1>2, <2>1, OpenInterrupted DEF InAgent
  <2> HIDE DEF n
  <2>4. Sane(n)
    BY <1>1, <2>1, <2>2, SaneStays DEF Parked, InAgent
  <2>5. disk' = n
    BY <2>1 DEF n
  <2> QED
    BY <2>1, <2>3, <2>4, <2>5 DEF Orderly, Tidy, InAgent, Shown, FailedResumeAtCulprit
<1> QED
  BY <1>3, <1>4, <1>5, <1>6, <1>7, <1>8, <1>9, <1>10, <1>11, <1>12, <1>13 DEF Shared, Human

(* What the pipeline alone does.                                           *)
Reentered == \E t \in Tasks : ResumeFromTask(t)

LEMMA OrderlyEntry ==
    ASSUME Fit, Fit', Orderly, NoReentry => ~Reentered, User \/ Loading,
           found' = found, solo = None, solo' = None
    PROVE  Orderly'
<1> USE DEF durable, ghosts
<1>1. /\ mem \in States /\ disk \in States /\ mem' \in States /\ disk' \in States
      /\ Sane(disk) /\ WorkRuns(disk.hist)
      /\ NoReentry => Tidy(disk, found) /\ Older(disk, found)
  BY DEF Fit, WorkspaceTyped, Orderly, Sane, Tidy
<1>2. CASE Run
  BY <1>2, OrderlyQuiet DEF Run, InAgent, Shown
<1>3. CASE Resume
  <2> DEFINE n == Checkpoint(disk)
  <2>1. disk' = n /\ pc' = "prepare"
    BY <1>3 DEF Resume
  <2>2. CASE n = disk
    BY <2>1, <2>2, OrderlyQuiet DEF InAgent, Shown
  <2>3. CASE n # disk
    <3>1. /\ n.status = "PAUSED" /\ n.gate = "none" /\ n.hist = disk.hist
          /\ LitGate[disk.task] # None
      BY <1>1, <2>3, PipelineAssumption DEF Checkpoint, States
    <3> HIDE DEF n
    <3>2. Sane(disk')
      BY <1>1, <2>1, <3>1, SaneStays DEF SameRuns, Parked
    <3>3. NoReentry => ~Loose(disk, found)
      BY <1>1, <3>1 DEF Tidy, Loose, Excused, LastTask
    <3>4. NoReentry => Older(disk', found) /\ ~Loose(disk', found)
      BY <1>1, <2>1, <3>1, <3>3, OpenSame
    <3> QED
      BY <2>1, <3>2, <3>4 DEF Orderly, Tidy, InAgent, Shown, FailedResumeAtCulprit
  <2> QED
    BY <2>2, <2>3
<1>4. ASSUME NEW t \in Tasks, ResumeFromTask(t)
      PROVE  Orderly'
  <2>1. ~NoReentry
    BY <1>4 DEF Reentered
  <2>2. /\ disk'.status = "PAUSED" /\ disk'.gate = "none" /\ disk'.hist = disk.hist
        /\ pc' = "prepare"
    BY <1>1, <1>4 DEF ResumeFromTask, States
  <2>3. Sane(disk')
    BY <1>1, <2>2, SaneStays DEF SameRuns, Parked
  <2> QED
    BY <2>1, <2>2, <2>3 DEF Orderly, InAgent, Shown, FailedResumeAtCulprit, NoReentry
<1>5. CASE LoadNew
  <2>1. disk = InitialState /\ disk' = disk /\ pc' = "step"
    BY <1>5 DEF LoadNew, Fit, Fitting
  <2>2. Swept(disk', found')
    BY <2>1 DEF InitialState, Swept, Older, Loose, OpenRuns
  <2> QED
    BY <1>1, <2>1, <2>2 DEF Orderly, Tidy, Swept, InAgent, Shown, FailedResumeAtCulprit
<1>6. CASE LoadStaleRunning
  <2> DEFINE m == MarkInterrupted(disk)
             n == [m EXCEPT !.err = FALSE]
  <2>1. disk' = n /\ pc' = "step"
    BY <1>6 DEF LoadStaleRunning, Dump
  <2>2. /\ m \in States /\ SameRuns(disk, m) /\ n \in States /\ n.hist = m.hist
        /\ n.task = disk.task /\ n.gate = disk.gate /\ n.status = "PAUSED"
    BY <1>1, InterruptedSame
  <2>3. NoReentry => Older(m, found) /\ ~Loose(m, found)
    BY <1>1, OpenInterrupted
  <2> HIDE DEF n, m
  <2>4. SameRuns(disk, n)
    BY <2>2 DEF SameRuns
  <2>5. Sane(n)
    BY <1>1, <2>2, <2>4, SaneStays DEF Parked, Sane
  <2>6. NoReentry => Older(n, found) /\ ~Loose(n, found)
    BY <2>2, <2>3, OpenSame
  <2> QED
    BY <2>1, <2>5, <2>6 DEF Orderly, Tidy, Swept, InAgent, Shown, FailedResumeAtCulprit
<1>7. CASE LoadPaused
  <2>1. disk' = disk /\ pc' = "step" /\ disk.status # "RUNNING"
    BY <1>7 DEF LoadPaused
  <2> QED
    BY <1>1, <2>1 DEF Orderly, Tidy, Swept, InAgent, Shown, FailedResumeAtCulprit
<1>8. CASE LoadFailed
  <2>1. PICK t \in Tasks, e \in BOOLEAN :
           FailedLast(disk, t) /\ mem' = [disk EXCEPT !.task = t, !.status = "PAUSED", !.err = e]
    BY <1>8, Zenon DEF LoadFailed
  <2>2. /\ disk' = mem' /\ disk.status = "FAILED" /\ pc' = "failed_resume"
    BY <1>8 DEF LoadFailed, Dump
  <2>3. disk.gate = "none"
    BY <1>1, <2>2 DEF Sane, Parked
  <2>4. /\ mem'.task = t /\ mem'.status = "PAUSED" /\ mem'.gate = "none"
        /\ mem'.hist = disk.hist
    BY <1>1, <2>1, <2>3 DEF States
  <2>5. Sane(mem')
    BY <1>1, <2>4, SaneStays DEF SameRuns, Parked
  <2>6. SuccessNeverFails => FailedResumeAtCulprit'
    <3>1. SuccessNeverFails => Traced(disk, Tasks)
      BY <1>1, <2>3, Fields DEF Traced, Sent, Sane
    <3> QED
      BY <1>1, <2>1, <2>2, <2>4, <3>1, FailedFound DEF FailedResumeAtCulprit
  <2>7. NoReentry => Older(mem', found) /\ ~Loose(mem', found)
    BY <1>1, <2>2, <2>3, <2>4, OpenSame DEF Tidy
  <2> QED
    BY <2>2, <2>5, <2>6, <2>7 DEF Orderly, Tidy, Swept, InAgent, Shown
<1> QED
  BY <1>2, <1>3, <1>4, <1>5, <1>6, <1>7, <1>8 DEF User, Loading

LEMMA OrderlyPipeline ==
    ASSUME Fit, Fit', Orderly, NoReentry => ~Reentered, Alone(Next)
    PROVE  Orderly'
<1> USE DEF durable, ghosts
<1>1. Next /\ solo = None /\ solo' = None /\ found' = found
  BY DEF Alone, soloVars
<1>2. /\ mem \in States /\ disk \in States /\ mem' \in States /\ disk' \in States
      /\ Sane(disk) /\ WorkRuns(disk.hist)
      /\ pc \in {"step"} \cup Shown => disk = mem
      /\ NoReentry => Tidy(disk, found)
  BY <1>1 DEF Fit, Fitting, WorkspaceTyped, Orderly, Sane
<1>3. CASE User \/ Loading
  BY <1>1, <1>3, OrderlyEntry
<1>4. CASE Shared
  BY <1>1, <1>4, OrderlyShared
<1>5. CASE DeadlockGuard \/ MissingPrerequisites \/ ContextFails
  <2>1. PICK kind \in {"runtime", "coverage"}, hard \in BOOLEAN : AtStep /\ Block(kind, hard)
    BY <1>5 DEF DeadlockGuard, MissingPrerequisites, ContextFails, AtStart
  <2> QED
    BY <1>1, <2>1, OrderlyBlock
<1>6. CASE AtTerminal
  <2>1. /\ AtStep /\ disk = mem /\ disk' = mem' /\ pc' = "closing"
        /\ mem' = [mem EXCEPT !.status = IF @ = "FAILED" THEN @ ELSE "COMPLETED"]
    BY <1>2, <1>6 DEF AtTerminal, AtStep, Dump
  <2>2. /\ mem'.task = mem.task /\ mem'.gate = "none" /\ mem'.hist = mem.hist
        /\ mem'.status = "FAILED" => mem.status = "FAILED"
    BY <1>2, <2>1 DEF AtStep, States
  <2>3. NoReentry => Older(mem', found) /\ ~Loose(mem', found)
    BY <2>1, <2>2, NothingLoose, OpenSame
  <2>4. Sane(mem')
    BY <1>2, <2>1, <2>2 DEF Sane, Parked, Culprit
  <2> QED
    BY <1>1, <2>1, <2>3, <2>4 DEF Orderly, Tidy, InAgent, Shown, FailedResumeAtCulprit
<1>7. CASE Start
  <2>1. /\ AtStep /\ mem.task \in Work /\ mem' = StartTask(mem, inputs) /\ disk' = mem'
        /\ pc' = "agent"
    BY <1>7 DEF Start, AtStart, Dump
  <2>2. /\ mem'.task = mem.task /\ mem'.status = "RUNNING" /\ mem'.gate = "none"
        /\ mem'.hist = Append(mem.hist, [task |-> mem.task, status |-> "RUNNING"])
    BY <1>2, <2>1 DEF StartTask, States
  <2>3. Sane(mem')
    BY <1>2, <2>1, <2>2, NothingLoose, SaneStarts
  <2>4. NoReentry => Older(mem', found) /\ LastTask(mem') = mem'.task
    <3> DEFINE r == [task |-> mem.task, status |-> "RUNNING"]
    <3>1. r \in Runs /\ r.task = mem.task
      BY <1>2, Fields DEF Runs, RunStatuses
    <3> HIDE DEF r
    <3>2. mem'.hist = Append(mem.hist, r)
      BY <2>2 DEF r
    <3> QED
      BY <1>2, <2>1, <2>2, <3>1, <3>2, NothingLoose, OpenAppends
  <2> QED
    BY <1>1, <2>1, <2>2, <2>3, <2>4 DEF Orderly, Sane, Tidy, InAgent, Shown, FailedResumeAtCulprit
<1>8. CASE Save
  <2>1. pc = "save" /\ disk' = mem /\ mem' = mem /\ pc' \in {"present", "step", "closing"}
    BY <1>8 DEF Save, Dump
  <2> QED
    BY <1>1, <1>2, <2>1 DEF Orderly, Tidy, Swept, InAgent, Shown, FailedResumeAtCulprit
<1>9. CASE Present
  BY <1>1, <1>2, <1>9, OrderlyQuiet DEF Present, Dump, InAgent, Shown
<1>10. ASSUME NEW r \in Results, AgentEnds(r)
       PROVE  Orderly'
  <2>1. PICK e \in BOOLEAN : mem' = Advance(mem, r, question, e)
    BY <1>10 DEF AgentEnds
  <2> QED
    BY <1>1, <1>10, <2>1, OrderlyResult DEF AgentEnds
<1>11. CASE EditInputs
  BY <1>1, <1>11 DEF EditInputs, Orderly, FailedResumeAtCulprit
<1> QED
  BY <1>1, <1>3, <1>4, <1>5, <1>6, <1>7, <1>8, <1>9, <1>10, <1>11
     DEF Next, Process, Stepping, Agent, Trouble, Shared

(* What run-task alone does.                                               *)
LEMMA OrderlyOwn ==
    ASSUME Fit, Fit', Orderly, solo # None, SoloOwn
    PROVE  Orderly'
<1> USE DEF durable, ghosts
<1>1. /\ mem \in States /\ disk \in States /\ mem' \in States /\ disk' \in States
      /\ Sane(disk) /\ WorkRuns(disk.hist) /\ solo \in Work
      /\ pc \in Shown => disk = mem
      /\ pc = "save" => Sane(mem)
      /\ NoReentry => Tidy(disk, found) /\ (pc \in Shown \cup {"save"} => Swept(mem, found))
  BY DEF Fit, Fitting, WorkspaceTyped, Orderly, Sane
<1>2. found' = found /\ solo' = solo
  BY DEF SoloOwn, SoloLoad, SoloStart, SoloSaveResult, SoloPresent, SoloSaveAnswer, SoloSettle,
         SoloRefused, SoloPreflightFails, SoloEnds, soloVars
<1>3. CASE SoloLoad
  <2>1. pc = "load" /\ pc' = "step" /\ disk' = disk
    BY <1>3 DEF SoloLoad
  <2> QED
    BY <1>1, <1>2, <2>1 DEF Orderly, Tidy, Swept, InAgent, Shown, FailedResumeAtCulprit
<1>4. CASE SoloStart
  <2> DEFINE r == [task |-> solo, status |-> "RUNNING"]
  <2>1. /\ AtStep /\ mem = LoadOrInitState(disk) /\ mem' = RecordStarted(mem)
        /\ disk' = mem' /\ pc' = "agent"
    BY <1>4 DEF SoloStart, SoloAtStart, AtStep, Dump, Fit, Fitting
  <2>2. mem.task = solo /\ mem.gate = "none"
    BY <1>1, <2>1, LoadOrInitType DEF AtStep
  <2>3. /\ mem'.task = mem.task /\ mem'.status = "RUNNING" /\ mem'.gate = "none"
        /\ mem'.hist = Append(mem.hist, r)
    BY <1>1, <2>1, <2>2 DEF RecordStarted, States
  <2>4. Sane(mem')
    BY <1>1, <2>1, <2>2, <2>3, NothingLoose, SaneStarts
  <2>5. NoReentry => Older(mem', found) /\ LastTask(mem') = mem'.task
    <3>1. r \in Runs /\ r.task = mem.task
      BY <1>1, <2>2, Fields DEF Runs, RunStatuses
    <3>2. mem'.hist = Append(mem.hist, r) /\ mem'.task = mem.task
      BY <2>3
    <3>3. NoReentry => Older(mem, found) /\ ~Loose(mem, found)
      BY <2>1, NothingLoose
    <3> HIDE DEF r
    <3> QED
      BY <1>1, <3>1, <3>2, <3>3, OpenAppends
  <2> QED
    BY <1>2, <2>1, <2>3, <2>4, <2>5 DEF Orderly, Sane, Tidy, InAgent, Shown, FailedResumeAtCulprit
<1>5. CASE SoloSaveResult
  <2>1. /\ pc = "save" /\ disk' = mem' /\ pc' \in {"present", "closing"}
        /\ mem' = mem \/ mem' = Suspended(mem)
    BY <1>5 DEF SoloSaveResult, Dump
  <2>2. /\ mem'.hist = mem.hist /\ mem'.task = mem.task /\ mem'.gate = mem.gate
        /\ mem' = mem \/ mem'.status = "PAUSED"
    BY <1>1, <2>1, SuspendedType
  <2>3. Sane(mem')
    <3>1. CASE mem' = mem
      BY <1>1, <2>1, <3>1
    <3>2. CASE mem'.status = "PAUSED"
      BY <1>1, <2>1, <2>2, <3>2, SaneStays DEF SameRuns, Parked, Sane
    <3> QED
      BY <2>2, <3>1, <3>2
  <2>4. NoReentry => Swept(mem', found)
    BY <1>1, <2>1, <2>2, OpenSame DEF Swept
  <2> QED
    BY <1>2, <2>1, <2>3, <2>4 DEF Orderly, Tidy, Swept, InAgent, Shown, FailedResumeAtCulprit
<1>6. CASE SoloPresent
  BY <1>1, <1>2, <1>6, OrderlyQuiet DEF SoloPresent, Present, Dump, InAgent, Shown
<1>7. CASE SoloSaveAnswer
  <2>1. /\ pc = "save" /\ disk' = mem /\ mem' = mem /\ pc' \in {"closing", "settle", "load"}
        /\ pc' = "load" => mem.status = "RUNNING"
    BY <1>7 DEF SoloSaveAnswer, Dump
  <2>2. NoReentry /\ mem.status = "RUNNING" => ~Loose(mem, found)
    BY <1>1, <2>1 DEF Swept, Sane, Parked
  <2> QED
    BY <1>1, <1>2, <2>1, <2>2 DEF Orderly, Tidy, Swept, InAgent, Shown, FailedResumeAtCulprit
<1>8. CASE SoloSettle
  <2>1. pc = "settle" /\ disk' = mem' /\ mem' = Suspended(mem) /\ pc' = "closing"
    BY <1>8 DEF SoloSettle, Dump
  <2>2. /\ mem'.hist = mem.hist /\ mem'.task = mem.task /\ mem'.gate = mem.gate
        /\ mem'.status = "PAUSED"
    BY <1>1, <2>1, SuspendedType
  <2>3. Sane(mem')
    BY <1>1, <2>1, <2>2, SaneStays DEF SameRuns, Parked, Sane, Shown
  <2>4. NoReentry => Swept(mem', found)
    BY <1>1, <2>1, <2>2, OpenSame DEF Swept, Shown
  <2> QED
    BY <1>2, <2>1, <2>3, <2>4 DEF Orderly, Tidy, Swept, InAgent, Shown, FailedResumeAtCulprit
<1>9. CASE SoloRefused
  BY <1>2, <1>9, OrderlyQuiet DEF SoloRefused, InAgent, Shown
<1>10. CASE SoloPreflightFails
  BY <1>2, <1>10, OrderlyBlock DEF SoloPreflightFails, SoloAtStart
<1>11. ASSUME NEW r \in Results, SoloEnds(r)
       PROVE  Orderly'
  <2>1. PICK e \in BOOLEAN : mem' = Advance(mem, r, question, e)
    BY <1>11 DEF SoloEnds, AgentEnds
  <2> QED
    BY <1>2, <1>11, <2>1, OrderlyResult DEF SoloEnds, AgentEnds
<1> QED
  BY <1>3, <1>4, <1>5, <1>6, <1>7, <1>8, <1>9, <1>10, <1>11 DEF SoloOwn

(* run-task takes note of what is open when it begins.                     *)
LEMMA OrderlyRunTask ==
    ASSUME Fit, Orderly, NEW t \in Tasks, RunTask(t)
    PROVE  Orderly'
<1>1. /\ disk' = disk /\ pc' = "prepare"
      /\ found' = found \cup IF saved THEN OpenRuns(disk) ELSE {}
  BY DEF RunTask, durable
<1>2. NoReentry => Tidy(disk, found')
  BY <1>1 DEF Orderly, Tidy, Older, Loose, Excused
<1>3. ~Loose(disk, found')
  <2>1. CASE saved
    BY <1>1, <2>1 DEF Loose, Excused
  <2>2. CASE ~saved
    BY <2>2 DEF Fit, Fitting, InitialState, Loose
  <2> QED
    BY <2>1, <2>2
<1> QED
  BY <1>1, <1>2, <1>3 DEF Orderly, InAgent, Shown, FailedResumeAtCulprit

-----------------------------------------------------------------------------
(* Where the environment allows no re-entry, there is none.                *)
Unused == NoReentry => left["reentry"] = 0

LEMMA Spending ==
    ASSUME [WorkspaceNext]_allVars
    PROVE  UNCHANGED left \/ \E b \in Budgets : Spend(b)
<1> DEFINE Goal == UNCHANGED left \/ \E b \in Budgets : Spend(b)
<1> USE DEF durable, ghosts, Budgets
<1>1. CASE UNCHANGED allVars \/ \E t \in Tasks : RunTask(t)
  BY <1>1 DEF allVars, vars, RunTask
<1>2. Agent => Goal
  <2>1. AgentAsks \/ AskTimesOut => Goal
    BY DEF AgentAsks, AskTimesOut
  <2>2. ASSUME NEW r \in Results, AgentEnds(r)
        PROVE  Goal
    BY <2>2 DEF AgentEnds
  <2> QED
    BY <2>1, <2>2 DEF Agent
<1>3. Human => Goal
  <2>1. ContinueFailed \/ PauseFailed \/ AskAnswered \/ AskUnavailable => Goal
    BY DEF ContinueFailed, PauseFailed, AskAnswered, AskUnavailable
  <2>2. (\E t \in Tasks : DecideNode(t)) \/ Retry \/ ReturnForReading => Goal
    BY DEF DecideNode, Retry, ReturnForReading
  <2>3. PauseHere \/ HumanUnavailable \/ GiveAnswer => Goal
    BY DEF PauseHere, HumanUnavailable, GiveAnswer
  <2> QED
    BY <2>1, <2>2, <2>3 DEF Human
<1>4. User => Goal
  BY DEF User, Run, Resume, ResumeFromTask
<1>5. Process => Goal
  <2>1. Prepared \/ Loading \/ Close => Goal
    BY DEF Prepared, Loading, LoadNew, LoadStaleRunning, LoadPaused, LoadFailed, Close
  <2>2. Stepping => Goal
    BY DEF Stepping, PendingGate, AtTerminal, OpenGate, DeadlockGuard, Start, AskOpened, AskClosed,
           Save, Present, ResumeAnswered
  <2> QED
    BY <2>1, <2>2 DEF Process
<1>6. Trouble => Goal
  BY DEF Trouble, MissingPrerequisites, ContextFails, EditInputs, Crash, InterruptCli,
         InterruptAgent, InterruptTask
<1>7. SoloOwn => Goal
  <2>1. SoloLoad \/ SoloStart \/ SoloSaveResult \/ SoloPresent \/ SoloSaveAnswer \/ SoloSettle => Goal
    BY DEF SoloLoad, SoloStart, SoloSaveResult, SoloPresent, Present, SoloSaveAnswer, SoloSettle
  <2>2. SoloRefused \/ SoloPreflightFails => Goal
    BY DEF SoloRefused, SoloPreflightFails
  <2>3. ASSUME NEW r \in Results, SoloEnds(r)
        PROVE  Goal
    BY <2>3 DEF SoloEnds, AgentEnds
  <2> QED
    BY <2>1, <2>2, <2>3 DEF SoloOwn
<1>8. Next => Goal
  BY <1>2, <1>3, <1>4, <1>5, <1>6 DEF Next
<1>9. Along(Shared) => Next
  BY DEF Along, Shared, Next, Process, Stepping, Agent, Trouble
<1> QED
  BY <1>1, <1>7, <1>8, <1>9, SoloSteps DEF WorkspaceNext, Alone

LEMMA UnusedStep ==
    ASSUME left \in [Budgets -> Nat], Unused, [WorkspaceNext]_allVars
    PROVE  Unused'
<1>1. UNCHANGED left \/ \E b \in Budgets : Spend(b)
  BY Spending
<1>2. "reentry" \in Budgets
  BY DEF Budgets
<1>3. ASSUME NoReentry, NEW b \in Budgets, Spend(b)
      PROVE  left'["reentry"] = 0
  <2>1. left["reentry"] = 0 /\ "reentry" \notin Unlimited
    BY <1>3 DEF Unused, NoReentry
  <2>2. CASE b = "reentry"
    BY <1>3, <2>1, <2>2 DEF Spend
  <2>3. CASE b # "reentry"
    BY <1>2, <1>3, <2>1, <2>3 DEF Spend
  <2> QED
    BY <2>2, <2>3
<1>4. NoReentry' = NoReentry
  BY DEF NoReentry
<1> QED
  BY <1>1, <1>3, <1>4 DEF Unused

LEMMA OrderlyInit == SoloInit => Orderly /\ Unused
<1> SUFFICES ASSUME SoloInit PROVE Orderly /\ Unused
  OBVIOUS
<1>1. /\ InitialState.status = "RUNNING" /\ InitialState.gate = "none" /\ InitialState.hist = <<>>
      /\ disk = InitialState /\ pc = "down" /\ solo = None /\ left \in Environments
  BY DEF InitialState, SoloInit, Init
<1>2. Sane(disk) /\ Tidy(disk, found)
  BY <1>1 DEF Sane, Parked, WorkRuns, Culprit, Tidy, Older, Loose, OpenRuns
<1> QED
  BY <1>1, <1>2 DEF Orderly, InAgent, Shown, FailedResumeAtCulprit, Unused, NoReentry

LEMMA OrderlyStep == Fit /\ Orderly /\ Unused /\ [WorkspaceNext]_allVars => Fit' /\ Orderly' /\ Unused'
<1> SUFFICES ASSUME Fit, Orderly, Unused, [WorkspaceNext]_allVars
             PROVE  Fit' /\ Orderly' /\ Unused'
  OBVIOUS
<1>1. Fit' /\ Unused'
  BY FitStep, UnusedStep DEF Fit, WorkspaceTyped
<1>2. NoReentry => ~Reentered
  <2>1. Reentered => Spend("reentry")
    BY DEF Reentered, ResumeFromTask
  <2>2. NoReentry => left["reentry"] = 0 /\ "reentry" \notin Unlimited
    BY DEF Unused, NoReentry
  <2> QED
    BY <2>1, <2>2 DEF Spend
<1>3. CASE UNCHANGED allVars
  <2>1. /\ disk' = disk /\ mem' = mem /\ pc' = pc /\ found' = found /\ solo' = solo
    BY <1>3 DEF allVars, vars, soloVars, durable
  <2> QED
    BY <1>1, <2>1, OrderlyStays
<1>4. CASE solo # None /\ SoloNext
  <2>1. CASE SoloOwn
    BY <1>1, <1>4, <2>1, OrderlyOwn
  <2>2. CASE Along(Shared)
    BY <1>1, <1>4, <2>2, OrderlyShared DEF Along
  <2> QED
    BY <1>4, <2>1, <2>2, SoloSteps
<1> QED
  BY <1>1, <1>2, <1>3, <1>4, OrderlyPipeline, OrderlyRunTask DEF WorkspaceNext

LEMMA OrderlyAlways == WorkspaceSpec => [](Fit /\ Orderly /\ Unused)
BY FitInit, OrderlyInit, OrderlyStep, PTL DEF WorkspaceSpec

(* Without re-entries every run is closed when the next one starts, but    *)
(* for those of the scope gate's tasks: what a crash left open is closed   *)
(* by the pipeline that finds it, and left open by run-task alone.         *)
THEOREM OnlyRunTaskLeaves == WorkspaceSpec => []OnlyRunTaskLeavesOpen
<1>1. Orderly => OnlyRunTaskLeavesOpen
  BY DEF Orderly, Tidy, Older, Excused, OnlyRunTaskLeavesOpen
<1> QED
  BY <1>1, OrderlyAlways, PTL

(* However pipeline and run-task take turns, a failed project is taken up  *)
(* at the run that failed, if no agent's success leads to the failed node. *)
THEOREM WorkspaceFailedTakenUp ==
    ASSUME SuccessNeverFails PROVE WorkspaceSpec => []FailedResumeAtCulprit
<1>1. Orderly => FailedResumeAtCulprit
  BY DEF Orderly
<1> QED
  BY <1>1, OrderlyAlways, PTL

-----------------------------------------------------------------------------
(* The steps of a command, as the records see them.                        *)

Untouched == Prepared \/ SoloLoad \/ SoloRefused \/ PendingGate \/ Close \/ Crash
Taking == OpenGate \/ SoloPreflightFails \/ SoloStart
Saving == SoloSaveResult \/ SoloSaveAnswer \/ SoloSettle
Outside == Untouched \/ Taking \/ Saving \/ InterruptCli

(* The steps of Pipeline a command makes between the two.                  *)
Inside == \/ SoloPresent \/ (\E r \in Results : SoloEnds(r)) \/ AskOpened \/ AskClosed
          \/ ResumeAnswered \/ AgentAsks \/ AskTimesOut \/ Human \/ InterruptAgent \/ InterruptTask

LEMMA CommandSteps ==
    ASSUME Fit, solo # None, SoloNext
    PROVE  Outside \/ (Inside /\ pc \in Between /\ Safe /\ Safe' /\ Next)
<1>1. CASE SoloOwn /\ ~Outside
  <2>1. SoloPresent \/ \E r \in Results : SoloEnds(r)
    BY <1>1 DEF SoloOwn, Outside, Untouched, Taking, Saving
  <2>2. pc \in Between /\ Next
    BY <2>1 DEF SoloPresent, Present, SoloEnds, AgentEnds, Between, Next, Process, Stepping, Agent
  <2> QED
    BY <2>1, <2>2, BetweenIsSafe, TypedStep, CoherentStep DEF Inside, Safe
<1>2. CASE Along(Shared) /\ ~Outside
  <2>1. Shared
    BY <1>2 DEF Along
  <2>2. \/ AskOpened \/ AskClosed \/ ResumeAnswered \/ AgentAsks \/ AskTimesOut \/ Human
        \/ InterruptAgent \/ InterruptTask
    BY <1>2, <2>1 DEF Shared, Outside, Untouched, Taking
  <2>3. ~ContinueFailed /\ ~PauseFailed
    BY DEF ContinueFailed, PauseFailed, Fit, Fitting
  <2>4. pc \in Between
    BY <2>2, <2>3
       DEF AskOpened, AskClosed, ResumeAnswered, AgentAsks, AskTimesOut, Human, AskAnswered,
           AskUnavailable, DecideNode, Retry, ReturnForReading, PauseHere, HumanUnavailable, GiveAnswer, AtGate, InterruptAgent,
           InterruptTask, Between
  <2>5. Next
    BY <2>1 DEF Shared, Next, Process, Stepping, Agent, Trouble
  <2> QED
    BY <2>2, <2>4, <2>5, BetweenIsSafe, TypedStep, CoherentStep DEF Inside, Safe
<1> QED
  BY <1>1, <1>2, SoloSteps

(* Outside its agent a command holds no question that timed out.           *)
LEMMA OutsideRenews ==
    ASSUME Fit, Outside
    PROVE  expired' = FALSE
<1> USE DEF ghosts
<1>1. expired \in BOOLEAN /\ (expired => pc \in {"agent", "save"})
  BY DEF Fit, Fitting, WorkspaceTyped
<1>2. CASE Untouched
  BY <1>1, <1>2 DEF Untouched, Prepared, SoloLoad, SoloRefused, PendingGate, AtStep, Close, Crash
<1>3. CASE Taking \/ Saving \/ InterruptCli
  BY <1>1, <1>3 DEF Taking, OpenGate, SoloPreflightFails, SoloStart, SoloAtStart, AtStep, Block, Saving,
                    SoloSaveResult, SoloSaveAnswer, SoloSettle, InterruptCli, Awaits
<1> QED
  BY <1>2, <1>3 DEF Outside

LEMMA UntouchedLeaves ==
    ASSUME Untouched
    PROVE  /\ UNCHANGED durable /\ pc' \in {"load", "step", "present", "closing", "down"}
           /\ UNCHANGED <<inputs, unattended, allowed, told>>
           /\ mem' = mem \/ mem' = InitialState \/ SoloLoad
           /\ (pc' = "present" => PendingGate) /\ (pc' = "step" => SoloLoad)
BY DEF Untouched, Prepared, SoloLoad, SoloRefused, PendingGate, Close, Crash, Gone, ghosts

(* From wherever the file was, a command comes to its own task: its agent  *)
(* starts, or its gate, or the question an agent of it left, waits.        *)
Comes(s) ==
    /\ s.task = solo
    /\ \/ s.status = "RUNNING" /\ s.gate = "none"
       \/ /\ s.status = "WAITING_HUMAN" /\ s.gate \in {"node", "runtime", "ask"}
          /\ (s.gate = "node" => solo \in Gated) /\ (s.gate = "ask" => question = solo)

LEMMA TakingComes ==
    ASSUME Fit, solo # None, Taking
    PROVE  /\ Comes(mem') /\ disk' = mem' /\ saved' = TRUE /\ AtStep
           /\ pc' = (IF mem'.gate = "none" THEN "agent" ELSE "present")
           /\ Same(disk, mem') /\ UNCHANGED <<question, inputs, unattended, allowed, told>>
<1> USE DEF ghosts, soloVars
<1>1. /\ AtStep /\ mem \in States /\ disk \in States /\ solo \in Work
      /\ mem = LoadOrInitState(disk) /\ mem.gate = "none"
  BY DEF Taking, OpenGate, SoloPreflightFails, SoloStart, SoloAtStart, AtStep, Fit, Fitting, WorkspaceTyped
<1>2. mem.task = solo /\ mem.err = FALSE /\ Same(disk, mem)
  BY <1>1, LoadOrInitType DEF LoadOrInitState, States, Same
<1> DEFINE G(kind) == RecoveryGate(mem, question, kind)
<1>3. ASSUME NEW kind \in {"none", "runtime"}
      PROVE  /\ G(kind).task = solo /\ G(kind).status = "WAITING_HUMAN" /\ Same(disk, G(kind))
             /\ G(kind).gate = IF question = solo THEN "ask" ELSE kind
  BY <1>1, <1>2 DEF RecoveryGate, States, Same
<1> HIDE DEF G
<1>4. CASE OpenGate
  <2> DEFINE o == OpenNodeGate(mem)
  <2>1. mem.task \in Immediate
    BY <1>2, <1>4 DEF OpenGate, ShouldPause
  <2>2. (mem' = G("none") /\ question = solo) \/ mem' = o
    BY <1>2, <1>4 DEF OpenGate, RecoveryOpens, G
  <2>3. o.task = solo /\ o.status = "WAITING_HUMAN" /\ o.gate = "node" /\ Same(disk, o)
    BY <1>1, <1>2 DEF OpenNodeGate, States, Same
  <2>4. solo \in Gated
    BY <1>2, <2>1, GraphAssumption
  <2> HIDE DEF o
  <2>5. Comes(mem') /\ Same(disk, mem') /\ mem'.gate # "none"
    BY <1>3, <2>2, <2>3, <2>4 DEF Comes
  <2> QED
    BY <1>1, <1>4, <2>5 DEF OpenGate, Dump
<1>5. CASE SoloPreflightFails
  <2>1. mem' = G("runtime")
    BY <1>5 DEF SoloPreflightFails, Block, RecoveryOpens, G
  <2>2. Comes(mem') /\ Same(disk, mem') /\ mem'.gate # "none"
    BY <1>3, <2>1 DEF Comes
  <2> QED
    BY <1>1, <1>5, <2>2 DEF SoloPreflightFails, Block, Dump
<1>6. CASE SoloStart
  <2>1. /\ mem' = RecordStarted(mem) /\ mem'.task = mem.task /\ mem'.status = "RUNNING"
        /\ mem'.gate = "none" /\ Same(mem, mem')
    BY <1>1, <1>6 DEF SoloStart, RecordStarted, States, Same
  <2>2. Comes(mem') /\ Same(disk, mem')
    BY <1>2, <2>1 DEF Comes, Same
  <2> QED
    BY <1>1, <1>6, <2>1, <2>2 DEF SoloStart, Dump
<1> QED
  BY <1>4, <1>5, <1>6 DEF Taking

(* What a command dumps is what it holds, but for a pause.                 *)
LEMMA SavingDumps ==
    ASSUME Fit, Saving
    PROVE  /\ disk' = mem' /\ saved' = TRUE /\ pc \in {"save", "settle"}
           /\ mem'.task = mem.task /\ mem'.gate = mem.gate /\ mem'.hist = mem.hist /\ Same(mem, mem')
           /\ mem' = mem \/ mem'.status = "PAUSED"
           /\ pc' \in {"present", "closing", "load", "settle"}
           /\ UNCHANGED <<question, inputs, unattended, allowed, told, solo, presented>>
<1> USE DEF ghosts, soloVars
<1>1. mem \in States
  BY DEF Fit, WorkspaceTyped
<1>2. Same(mem, Suspended(mem)) /\ Same(mem, mem)
  BY <1>1 DEF Suspended, States, Same
<1>3. mem' = mem \/ mem' = Suspended(mem)
  BY DEF Saving, SoloSaveResult, SoloSaveAnswer, SoloSettle
<1>4. /\ mem'.task = mem.task /\ mem'.gate = mem.gate /\ mem'.hist = mem.hist /\ Same(mem, mem')
      /\ mem' = mem \/ mem'.status = "PAUSED"
  BY <1>1, <1>2, <1>3, SuspendedType
<1> QED
  BY <1>4 DEF Saving, SoloSaveResult, SoloSaveAnswer, SoloSettle, Dump

(* An interrupt pauses the project where it finds it.                      *)
LEMMA InterruptPauses ==
    ASSUME Fit, InterruptCli
    PROVE  /\ \/ disk' = disk
              \/ /\ disk'.task = disk.task /\ disk'.gate = disk.gate /\ disk'.status = "PAUSED"
                 /\ SameRuns(disk, disk') /\ Same(disk, disk') /\ disk.status # "COMPLETED" /\ saved
           /\ pc' = "down" /\ mem' = InitialState
           /\ UNCHANGED <<saved, question, inputs, unattended, allowed, told>>
<1> DEFINE n == [MarkInterrupted(disk) EXCEPT !.err = FALSE]
<1>1. disk \in States
  BY DEF Fit, WorkspaceTyped
<1>2. /\ n.task = disk.task /\ n.gate = disk.gate /\ n.status = "PAUSED" /\ Same(disk, n)
      /\ n.hist = disk.hist \/ n.hist = WithLast(disk, "INTERRUPTED")
  BY <1>1 DEF MarkInterrupted, States, Same
<1> HIDE DEF n
<1>3. disk' = disk \/ (disk' = n /\ disk.status # "COMPLETED" /\ saved)
  BY DEF InterruptCli, n
<1> QED
  BY <1>2, <1>3 DEF InterruptCli, Gone, SameRuns, RunStatuses, ghosts

-----------------------------------------------------------------------------
(* The pipeline's promises, with run-task commands in between.             *)

(* A question of the file, or of what the runner is about to write, keeps  *)
(* its file also where a command loads, takes over or ends.                *)
LEMMA KeptOutside ==
    ASSUME Fit, Orderly, Kept, solo # None, Outside
    PROVE  Kept'
<1>1. Sane(disk) /\ expired' = FALSE
  BY OutsideRenews DEF Orderly
<1>2. CASE Untouched
  <2>1. pc' \notin {"save", "ask_open", "ask", "answered", "ask_close"}
    BY <1>2, UntouchedLeaves
  <2> QED
    BY <1>1, <1>2, <2>1, UntouchedLeaves DEF Kept, durable
<1>3. CASE Taking
  <2>1. /\ Comes(mem') /\ disk' = mem' /\ question' = question /\ told' = told
        /\ pc' \in {"agent", "present"}
    BY <1>3, TakingComes
  <2> QED
    BY <1>1, <2>1 DEF Comes, Kept
<1>4. CASE Saving
  <2>1. /\ disk' = mem' /\ question' = question /\ told' = told
        /\ pc' \in {"present", "closing", "load", "settle"}
        /\ mem'.task = mem.task /\ mem'.gate = mem.gate
        /\ mem' = mem \/ mem'.status = "PAUSED"
    BY <1>4, SavingDumps
  <2>2. pc = "save" \/ (pc = "settle" /\ disk = mem)
    BY <1>4, SavingDumps DEF Fit, Fitting, Shown
  <2>3. /\ mem.gate = "ask" /\ mem.task \notin told => question = mem.task
        /\ mem.status = "FAILED" => mem.gate = "none"
    BY <2>2 DEF Kept
  <2> QED
    BY <1>1, <2>1, <2>3 DEF Kept
<1>5. CASE InterruptCli
  <2>1. /\ disk' = disk \/ (disk'.task = disk.task /\ disk'.gate = disk.gate /\ disk'.status = "PAUSED")
        /\ question' = question /\ told' = told /\ pc' = "down"
    BY <1>5, InterruptPauses
  <2> QED
    BY <1>1, <2>1 DEF Kept
<1> QED
  BY <1>2, <1>3, <1>4, <1>5 DEF Outside

LEMMA WorkspaceKeptStep ==
    ASSUME Fit, Orderly, Kept, [WorkspaceNext]_allVars
    PROVE  Kept'
<1>1. CASE UNCHANGED allVars
  BY <1>1 DEF allVars, vars, durable, ghosts, Kept
<1>2. CASE Alone(Next)
  BY <1>2, FitIsSafe, KeptStep DEF Alone
<1>3. CASE \E t \in Tasks : RunTask(t)
  <2>1. UNCHANGED <<durable, told>> /\ pc' = "prepare" /\ ~expired'
    BY <1>3 DEF RunTask, Fit, Fitting
  <2> QED
    BY <2>1 DEF Kept, durable
<1>4. CASE solo # None /\ SoloNext
  BY <1>4, CommandSteps, KeptOutside, KeptStep
<1> QED
  BY <1>1, <1>2, <1>3, <1>4 DEF WorkspaceNext

LEMMA WorkspaceKept == WorkspaceSpec => [](Fit /\ Orderly /\ Kept)
<1>1. SoloInit => Kept
  BY KeptInit DEF SoloInit
<1>2. Fit /\ Orderly /\ Kept /\ [WorkspaceNext]_allVars => Kept'
  BY WorkspaceKeptStep
<1> QED
  BY <1>1, <1>2, OrderlyAlways, PTL DEF WorkspaceSpec

(* What run-task loads has its own task's gate if the file has.            *)
LEMMA NoOwnGate ==
    ASSUME Fit, Orderly, solo # None, AtStep, disk.task = solo
    PROVE  disk.gate = "none"
<1>1. mem = LoadOrInitState(disk) /\ mem.gate = "none" /\ Parked(disk)
  BY DEF Fit, Fitting, Orderly, Sane, AtStep
<1> QED
  BY <1>1 DEF LoadOrInitState, Parked

LEMMA GateStep ==
    ASSUME Fit, Orderly, Kept, solo # None, SoloNext,
           disk.task = solo, disk.gate # "none", disk'.gate = "none"
    PROVE  answered \/ (expired /\ disk.gate = "ask" /\ question' = solo)
<1> USE DEF durable, ghosts
<1>1. /\ mem \in States /\ disk \in States
      /\ pc \in Shown => disk = mem
      /\ ~AtStep
  BY NoOwnGate DEF Fit, Fitting, WorkspaceTyped
<1>2. disk' # disk
  OBVIOUS
<1>5. expired => disk.gate = "ask" /\ question = solo
  BY DEF Kept
<1>3. CASE SoloOwn
  <2>1. SoloSaveResult \/ SoloSaveAnswer \/ SoloSettle
    <3>1. ASSUME NEW r \in Results
          PROVE  ~SoloEnds(r)
      BY <1>2 DEF SoloEnds, AgentEnds
    <3>2. ~SoloLoad /\ ~SoloRefused
      BY <1>2 DEF SoloLoad, SoloRefused
    <3>3. ~SoloStart /\ ~SoloPreflightFails
      BY <1>1 DEF SoloStart, SoloPreflightFails, SoloAtStart
    <3>4. ~SoloPresent
      BY <1>1, <1>2 DEF SoloPresent, Present, Dump, Shown
    <3> QED
      BY <1>3, <3>1, <3>2, <3>3, <3>4 DEF SoloOwn
  <2>2. CASE SoloSaveResult \/ SoloSaveAnswer
    <3>1. pc = "save" /\ disk' \in {mem, Suspended(mem)} /\ question' = question
      BY <2>2 DEF SoloSaveResult, SoloSaveAnswer, Dump
    <3>2. mem.gate = "none"
      BY <1>1, <3>1, SuspendedType
    <3>3. answered \/ expired
      BY <3>1, <3>2 DEF Kept
    <3> QED
      BY <1>5, <3>1, <3>3
  <2>3. CASE SoloSettle
    <3>1. disk' = Suspended(mem) /\ disk = mem
      BY <1>1, <2>3 DEF SoloSettle, Dump, Shown
    <3> QED
      BY <1>1, <3>1, SuspendedType
  <2> QED
    BY <2>1, <2>2, <2>3
<1>4. CASE Shared
  <2>1. AskOpened \/ AskClosed \/ HumanUnavailable \/ InterruptCli \/ InterruptTask
    <3>1. /\ ~Prepared /\ ~PendingGate /\ ~ResumeAnswered /\ ~Close /\ ~AgentAsks /\ ~AskTimesOut
          /\ ~Crash /\ ~InterruptAgent
      BY <1>2 DEF Prepared, PendingGate, ResumeAnswered, Close, AgentAsks, AskTimesOut, Crash,
                  InterruptAgent
    <3>2. ~OpenGate
      BY <1>1 DEF OpenGate
    <3>3. ~ContinueFailed /\ ~PauseFailed
      BY DEF ContinueFailed, PauseFailed, Fit, Fitting
    <3>4. ~AskAnswered /\ ~AskUnavailable /\ ~Retry /\ ~ReturnForReading /\ ~PauseHere /\ ~GiveAnswer
      BY <1>2 DEF AskAnswered, AskUnavailable, Retry, ReturnForReading, PauseHere, GiveAnswer
    <3>5. ~ \E t \in Tasks : DecideNode(t)
      BY <1>2 DEF DecideNode
    <3> QED
      BY <1>4, <3>1, <3>2, <3>3, <3>4, <3>5 DEF Shared, Human
  <2>2. CASE AskOpened
    BY <1>1, <2>2 DEF AskOpened, Asking, States
  <2>3. CASE AskClosed
    BY <2>3 DEF AskClosed, Kept
  <2>4. CASE HumanUnavailable
    BY <1>1, <2>4 DEF HumanUnavailable, Dump, PauseAtGate, States, Shown
  <2>5. CASE InterruptCli
    <3> DEFINE n == [MarkInterrupted(disk) EXCEPT !.err = FALSE]
    <3>1. n.gate = disk.gate
      BY <1>1, InterruptedSame
    <3>2. disk' = n
      BY <1>2, <2>5 DEF InterruptCli
    <3> HIDE DEF n
    <3> QED
      BY <3>1, <3>2
  <2>6. CASE InterruptTask
    <3>1. pc = "agent" /\ question' = question
      BY <2>6 DEF InterruptTask
    <3>2. expired
      BY <3>1, BetweenIsSafe, AgentAndFile DEF Between, InAgent
    <3> QED
      BY <1>5, <3>1, <3>2
  <2> QED
    BY <2>1, <2>2, <2>3, <2>4, <2>5, <2>6
<1> QED
  BY <1>3, <1>4, SoloSteps DEF Along

(* run-task gives up no gate of its own task: until the researcher answers *)
(* it stays in the file, whatever ends the command.  Only the gate of a    *)
(* question that timed out goes with the dump of the run that asked it,    *)
(* and leaves the question behind.                                         *)
THEOREM OwnGateSurvives == WorkspaceSpec => OwnGateKept
<1> DEFINE A == solo # None /\ disk.task = solo /\ disk.gate # "none" /\ disk'.gate = "none"
                  => answered \/ (expired /\ disk.gate = "ask" /\ question' = solo)
<1>1. ASSUME Fit, Orderly, Kept, [WorkspaceNext]_allVars
      PROVE  [A]_allVars
  BY <1>1, GateStep DEF WorkspaceNext, Alone, RunTask, durable
<1>2. WorkspaceSpec => [][A]_allVars
  BY <1>1, WorkspaceKept, PTL DEF WorkspaceSpec
<1> QED
  BY <1>2 DEF OwnGateKept

(* Whoever drives the workspace: while an agent computes, the file and the *)
(* runner's own state say the same, but for a question that timed out; it  *)
(* is on file and unanswered, so that the dump which overwrites its gate   *)
(* does not lose it.                                                       *)
THEOREM WorkspaceWritersAgree == WorkspaceSpec => []AgentSeesSavedState
<1>1. ASSUME Fit, Kept
      PROVE  AgentSeesSavedState
  <2> SUFFICES ASSUME pc = "agent"
               PROVE  AgentSeesSavedState
    BY DEF AgentSeesSavedState
  <2>1. Safe
    BY <1>1, BetweenIsSafe DEF Between
  <2> QED
    BY <1>1, <2>1, AgentAndFile DEF Safe, Coherent, Kept, Open, AgentSeesSavedState, InAgent
<1> QED
  BY <1>1, WorkspaceKept, PTL

(* However pipeline and run-task take turns, a question nobody has         *)
(* answered keeps the file that lets a later run take the answer up: a     *)
(* command that gives the question's gate up gives it up in the state, too. *)
THEOREM WorkspaceQuestionsSurvive == WorkspaceSpec => []UnansweredQuestionKept
<1>1. Kept => UnansweredQuestionKept
  BY DEF Kept, UnansweredQuestionKept
<1> QED
  BY <1>1, WorkspaceKept, PTL

-----------------------------------------------------------------------------
(* A step of a command records no start of the pipeline and forgets none.  *)
LEMMA CountedOutside ==
    ASSUME Fit, Fit', Counted, solo # None, Outside
    PROVE  Counted'
<1>1. /\ disk \in States /\ mem \in States /\ disk' \in States
      /\ pc = "settle" => disk = mem
  BY DEF Fit, Fitting, WorkspaceTyped, Shown
<1>2. /\ UNCHANGED <<inputs, unattended>> /\ pc' # "save"
      /\ Same(disk, disk') \/ (pc = "save" /\ Same(mem, disk'))
  <2>1. CASE Untouched
    BY <2>1, UntouchedLeaves DEF Same, durable
  <2>2. CASE Taking
    BY <2>2, TakingComes
  <2>3. CASE Saving
    BY <1>1, <2>3, SavingDumps
  <2>4. CASE InterruptCli
    BY <2>4, InterruptPauses DEF Same
  <2> QED
    BY <2>1, <2>2, <2>3, <2>4 DEF Outside
<1> SUFFICES ASSUME NEW t \in Tasks \ CountFree
             PROVE  /\ unattended[t] <= SameParamLimit
                    /\ unattended[t] <= Cardinality(Repeats(disk', t, inputs))
  BY <1>2 DEF Counted
<1>3. Same(disk, disk') => Repeats(disk', t, inputs) = Repeats(disk, t, inputs)
  BY <1>1, RepeatsSame DEF Same
<1>4. Same(mem, disk') => Repeats(disk', t, inputs) = Repeats(mem, t, inputs)
  BY <1>1, RepeatsSame DEF Same
<1> QED
  BY <1>2, <1>3, <1>4 DEF Counted

LEMMA WorkspaceCountedStep ==
    ASSUME Fit, Fit', Counted, [WorkspaceNext]_allVars
    PROVE  Counted'
<1>1. CASE UNCHANGED allVars \/ \E t \in Tasks : RunTask(t)
  <2>1. UNCHANGED <<disk, inputs, unattended>> /\ (pc' = "save" => pc = "save" /\ mem' = mem)
    BY <1>1 DEF allVars, vars, RunTask, durable, ghosts
  <2> QED
    BY <2>1 DEF Counted
<1>2. CASE Alone(Next)
  <2>1. Safe /\ Next
    BY <1>2, FitIsSafe DEF Alone
  <2>2. Safe'
    BY <2>1, TypedStep, CoherentStep DEF Safe
  <2> QED
    BY <2>1, <2>2, CountedStep
<1>3. CASE solo # None /\ SoloNext
  BY <1>3, CommandSteps, CountedOutside, CountedStep
<1> QED
  BY <1>1, <1>2, <1>3 DEF WorkspaceNext

(* The pipeline starts no agent more often without a success, new inputs   *)
(* or a decision because a run-task command came in between: a command     *)
(* records no start and forgets none, not even when it takes over a file   *)
(* or settles a decision.                                                  *)
THEOREM WorkspaceGuardBounds == WorkspaceSpec => []UnattendedLaunchesBounded
<1>1. SoloInit => Counted
  BY CountedInit DEF SoloInit
<1>2. Fit /\ Fit' /\ Counted /\ [WorkspaceNext]_allVars => Counted'
  BY WorkspaceCountedStep
<1>3. Counted => UnattendedLaunchesBounded
  BY DEF Counted, UnattendedLaunchesBounded
<1> QED
  BY <1>1, <1>2, <1>3, FitAlways, PTL DEF WorkspaceSpec

-----------------------------------------------------------------------------
(* One move per command.                                                   *)

(* What a result made of the record of the command's task: a success moved *)
(* it along the success edge or opened the gate of its node, also where    *)
(* the run outlived its question.                                          *)
Achieves(d, m) ==
    IF LastIs(m, {"DONE"})
    THEN \/ Succeeds(d, m)
         \/ Waits(d, m) /\ m.gate = "node"
         \/ expired /\ Lapses(d, m) /\ m.status # "PAUSED"
    ELSE \/ Stays(d, m) /\ m.status = "WAITING_HUMAN"
         \/ Suspends(d, m) \/ Waits(d, m) \/ Fails(d, m)
         \/ expired /\ Lapses(d, m) /\ m.status = "PAUSED"

(* As Due, for a live command: what it is about to write is one move away  *)
(* from a file that stands at its task.                                    *)
Owing ==
    solo # None =>
        /\ pc = "step" => presented = "none"
        /\ pc = "save" => /\ saved /\ disk.task = solo /\ Gateless(mem)
                          /\ IF presented = "none" THEN Achieves(disk, mem)
                             ELSE /\ Moves(disk, mem) /\ disk.gate # "none"
                                  /\ mem.status # "WAITING_HUMAN"
        /\ pc \in {"present", "gate", "answered"} => saved /\ disk.task = solo /\ disk.gate # "none"
        /\ pc = "answered" => disk.gate = "ask"
        /\ pc \in {"gate", "answered"} => presented # "none"
        /\ pc \in InAgent => mem.task = solo /\ presented = "none"
        /\ pc = "settle" => saved /\ mem.status = "RUNNING"

Owed == Gateless(disk) /\ (solo = None => Due) /\ Owing

(* In between, what is due to the pipeline is due to a command.            *)
LEMMA OwingIsDue ==
    ASSUME Fit, Owed, solo # None, pc \in Between
    PROVE  Due
<1>1. pc \in Shown => disk = mem
  BY DEF Fit, Fitting
<1> QED
  BY <1>1 DEF Owed, Owing, Due, Between, Shown, Achieves, Moves

LEMMA AdvanceAchieves ==
    ASSUME NEW s \in States, Open(s), s.task \in Work,
           NEW r \in Results, NEW q, NEW e \in BOOLEAN
    PROVE  LET n == Advance(s, r, q, e) IN
           /\ n \in States /\ Gateless(n) /\ Moves(s, n) /\ Achieves(s, n)
           /\ LastIs(n, {"DONE"}) <=> r = "ok"
<1> DEFINE n == Advance(s, r, q, e)
<1>1. n \in States
  BY AdvanceType
<1>2. s.gate = "none" /\ s.status = "RUNNING" /\ s.hist # <<>>
  BY DEF Open
<1>3. Moves(s, n) /\ Gateless(n) /\ Outcome(r, s, n)
  BY <1>2, AdvanceMoves
<1>4. n.hist = WithLast(s, Closing(r)) /\ Closing(r) \in RunStatuses
  BY AdvanceCloses DEF Closing, RunStatuses
<1> HIDE DEF n
<1>5. n.hist # <<>> /\ n.hist[Len(n.hist)].status = Closing(r)
  BY <1>1, <1>2, <1>4, LastChanges
<1>6. LastIs(n, {"DONE"}) <=> r = "ok"
  BY <1>5 DEF LastIs, Closing
<1>7. Achieves(s, n)
  BY <1>3, <1>6 DEF Achieves, Outcome
<1> QED
  BY <1>1, <1>3, <1>6, <1>7 DEF n

(* The same of a run whose question waits on file: it times out before a   *)
(* success or a pause.                                                     *)
LEMMA OutlivedAchieves ==
    ASSUME NEW s \in States, Open(s), s.task \in Work,
           NEW r \in Results, NEW e \in BOOLEAN, r \in {"ok", "paused"} => expired,
           NEW d \in States, d.task = s.task, d.gate = "ask", d.status = "WAITING_HUMAN"
    PROVE  Achieves(d, Advance(s, r, s.task, e))
<1> DEFINE n == Advance(s, r, s.task, e)
<1>1. s.gate = "none" /\ s.status = "RUNNING"
  BY DEF Open
<1>2. Outcome(r, s, n)
  BY <1>1, AdvanceMoves
<1>3. LastIs(n, {"DONE"}) <=> r = "ok"
  BY AdvanceAchieves
<1>4. /\ r \notin {"ok", "paused"} => Stays(d, n)
      /\ Stays(d, n) \/ Lapses(d, n)
  BY <1>1, QuestionOutlived
<1>5. r = "paused" => n.status = "PAUSED"
  BY PauseMarks
<1> HIDE DEF n
<1>6. CASE r = "ok"
  <2>1. n.gate # "ask" /\ n.status # "PAUSED"
    BY <1>2, <1>6 DEF Outcome, Succeeds, Waits, Entered
  <2> QED
    BY <1>3, <1>4, <1>6, <2>1 DEF Achieves, Stays, n
<1>7. CASE r = "paused"
  BY <1>3, <1>4, <1>5, <1>7 DEF Achieves, Stays, n
<1>8. CASE r \notin {"ok", "paused"}
  BY <1>3, <1>4, <1>8 DEF Achieves, Stays, n
<1> QED
  BY <1>6, <1>7, <1>8

(* The command lives as long as its process.                               *)
Living == /\ solo' = IF pc' = "down" THEN None ELSE solo
          /\ presented' = presented \/ SoloLoad \/ SoloPresent

LEMMA CommandLives ==
    ASSUME Fit, SoloNext
    PROVE  Living
<1>1. CASE SoloOwn
  BY <1>1 DEF SoloOwn, SoloLoad, SoloStart, SoloSaveResult, SoloPresent, Present, SoloSaveAnswer, SoloSettle,
              SoloRefused, SoloPreflightFails, Block, SoloEnds, AgentEnds, soloVars, Living
<1> QED
  BY <1>1, SoloSteps DEF Along, Living

(* The gate a command finds at its task is one it presents.                *)
LEMMA PendingIsOwn ==
    ASSUME Fit, Orderly, solo # None, PendingGate
    PROVE  mem = disk /\ disk.task = solo /\ disk.gate # "none" /\ saved
<1>1. /\ mem \in States /\ disk \in States /\ mem = LoadOrInitState(disk) /\ mem.gate # "none"
      /\ ~saved => disk = InitialState
  BY DEF PendingGate, Fit, Fitting, WorkspaceTyped
<1>2. mem = disk /\ disk.task = solo
  BY <1>1 DEF LoadOrInitState, States
<1> QED
  BY <1>1, <1>2 DEF InitialState

(* What a command takes over, dumps or leaves behind.                      *)
LEMMA OwedOutside ==
    ASSUME Fit, Fit', Orderly, Owed, solo # None, Outside, Living
    PROVE  Owed'
<1> USE DEF durable, ghosts, soloVars
<1>1. /\ mem \in States /\ disk \in States /\ Gateless(disk)
      /\ pc \in Shown => disk = mem
      /\ solo \in Work /\ None \notin Tasks /\ pc # "down"
  BY GraphAssumption DEF Fit, Fitting, WorkspaceTyped, Owed
<1>2. solo' = (IF pc' = "down" THEN None ELSE solo)
  BY DEF Living
<1>3. CASE Untouched
  <2>1. /\ UNCHANGED <<saved, disk>> /\ pc' \in {"load", "step", "present", "closing", "down"}
        /\ pc' = "present" => PendingGate
        /\ pc' = "step" => SoloLoad
    BY <1>3, UntouchedLeaves
  <2>2. pc' = "step" => presented' = "none"
    BY <2>1 DEF SoloLoad
  <2>3. pc' = "present" => saved' /\ disk'.task = solo /\ disk'.gate # "none"
    BY <2>1, PendingIsOwn
  <2> QED
    BY <1>1, <1>2, <2>1, <2>2, <2>3 DEF Owed, Owing, Due, InAgent
<1>4. CASE Taking
  <2>1. /\ Comes(mem') /\ disk' = mem' /\ saved' = TRUE /\ AtStep
        /\ pc' = (IF mem'.gate = "none" THEN "agent" ELSE "present")
    BY <1>4, TakingComes
  <2>2. presented' = "none"
    BY <2>1 DEF AtStep, SoloLoad, SoloPresent, Present, Living, Owed, Owing
  <2>3. Gateless(disk')
    BY <2>1 DEF Comes, Gateless
  <2> QED
    BY <1>1, <1>2, <2>1, <2>2, <2>3 DEF Owed, Owing, Due, InAgent, Comes
<1>5. CASE Saving
  <2>1. /\ disk' = mem' /\ saved' = TRUE /\ pc \in {"save", "settle"}
        /\ mem'.task = mem.task /\ mem'.gate = mem.gate
        /\ mem' = mem \/ mem'.status = "PAUSED"
        /\ pc' \in {"present", "closing", "load", "settle"}
    BY <1>5, SavingDumps
  <2>2. Gateless(mem)
    BY <1>1, <2>1 DEF Owed, Owing, Shown
  <2>3. Gateless(disk')
    BY <2>1, <2>2 DEF Gateless
  <2>4. pc' = "present" => mem.gate # "none" /\ mem.task = solo
    <3>1. ASSUME pc' = "present"
          PROVE  /\ pc = "save" /\ presented = "none" /\ mem.status = "WAITING_HUMAN"
                 /\ ~LastIs(mem, {"DONE"})
      BY <1>5, <3>1 DEF Saving, SoloSaveResult, SoloSaveAnswer, SoloSettle
    <3>2. ASSUME pc' = "present"
          PROVE  Achieves(disk, mem) /\ disk.task = solo
      BY <3>1, <3>2 DEF Owed, Owing
    <3> QED
      BY <2>2, <3>1, <3>2, GraphAssumption
         DEF Achieves, Stays, Suspends, Waits, Fails, Gateless
  <2>5. pc' = "settle" => mem'.status = "RUNNING"
    BY <1>5 DEF Saving, SoloSaveResult, SoloSaveAnswer, SoloSettle
  <2>6. solo' = solo /\ pc' \notin InAgent \cup {"step", "save", "gate", "answered"}
    BY <1>2, <2>1 DEF InAgent
  <2>7. pc' = "present" => disk'.task = solo /\ disk'.gate # "none"
    BY <2>1, <2>4
  <2>8. Owing'
    BY <2>1, <2>5, <2>6, <2>7 DEF Owing
  <2> QED
    BY <2>3, <2>6, <2>8 DEF Owed
<1>6. CASE InterruptCli
  <2>1. /\ pc' = "down"
        /\ disk' = disk \/ disk'.status = "PAUSED"
    BY <1>6, InterruptPauses
  <2> QED
    BY <1>1, <1>2, <2>1 DEF Owed, Owing, Due, Gateless
<1> QED
  BY <1>3, <1>4, <1>5, <1>6 DEF Outside

(* Where the command stands at its task, a result or an answer is due.     *)
LEMMA OwedInside ==
    ASSUME Fit, Kept, Owed, solo # None, Inside, pc \in Between, Safe, Safe', Next, Living
    PROVE  Owed'
<1> USE DEF durable, ghosts, soloVars
<1>1. /\ mem \in States /\ disk \in States /\ pc # "failed_resume"
      /\ pc \in Shown => disk = mem
      /\ pc = "agent" => disk = IF expired THEN Asking(mem) ELSE mem
      /\ pc \in {"agent", "ask"} => Open(mem) /\ saved
      /\ pc = "ask" => disk = Asking(mem) /\ question = mem.task
      /\ pc = "agent" /\ expired => question = mem.task
      /\ pc \in {"gate", "answered"} => ~expired
      /\ pc \in InAgent => mem.task = solo /\ presented = "none" /\ mem.task \in Work
  <2>1. /\ mem \in States /\ disk \in States /\ pc # "failed_resume"
        /\ pc \in Shown => disk = mem
        /\ pc = "agent" => disk = IF expired THEN Asking(mem) ELSE mem
        /\ pc \in {"agent", "ask"} => Open(mem) /\ saved
        /\ pc = "ask" => disk = Asking(mem)
        /\ pc \in {"gate", "answered"} => ~expired
    BY DEF Fit, Fitting, WorkspaceTyped, InAgent
  <2>2. pc \in InAgent => mem.task = solo /\ presented = "none" /\ mem.task \in Work
    BY DEF Fit, WorkspaceTyped, AtWork, Owed, Owing
  <2>3. pc = "ask" => question = mem.task
    BY DEF Kept
  <2>4. pc = "agent" /\ expired => disk.task = mem.task
    BY <2>1 DEF Asking, States
  <2>5. pc = "agent" /\ expired => question = mem.task
    BY <2>4 DEF Kept
  <2> QED
    BY <2>1, <2>2, <2>3, <2>5
<1>2. Due'
  BY OwingIsDue, DueStep
<1>3. solo' = (IF pc' = "down" THEN None ELSE solo) /\ (presented' = presented \/ SoloPresent)
  BY DEF Living, SoloLoad, Between
<1> SUFFICES Owing'
  BY <1>2 DEF Owed, Due
<1>4. CASE SoloPresent
  BY <1>1, <1>4 DEF SoloPresent, Present, Dump, Owed, Owing, InAgent, Shown
<1>5. CASE (\E r \in Results : SoloEnds(r)) \/ AskUnavailable \/ InterruptAgent
  <2>1. PICK r \in Results, e \in BOOLEAN :
           /\ mem' = Advance(mem, r, question, e)
           /\ pc = "ask" => r \in {"stopped", "stopped_signal"}
    BY <1>5 DEF SoloEnds, AgentEnds, AskUnavailable, InterruptAgent, Results, Stops
  <2>2. /\ pc \in {"agent", "ask"} /\ pc' = "save" /\ presented' = presented
        /\ UNCHANGED <<saved, disk, expired>>
    BY <1>5 DEF SoloEnds, AgentEnds, AskUnavailable, InterruptAgent, Living, SoloLoad, SoloPresent, Present
  <2>3. Open(mem) /\ mem.task \in Work /\ mem.task = solo /\ presented = "none" /\ saved
    BY <1>1, <2>2 DEF InAgent
  <2>4. Achieves(disk, mem') /\ disk.task = solo
    <3>1. CASE disk = mem
      BY <1>1, <2>1, <2>3, <3>1, AdvanceAchieves
    <3>2. CASE disk # mem
      <4>1. disk = Asking(mem) /\ question = mem.task /\ (pc = "ask" \/ expired)
        BY <1>1, <2>2, <3>2
      <4>2. disk.gate = "ask" /\ disk.status = "WAITING_HUMAN" /\ disk.task = mem.task
        BY <1>1, <4>1 DEF Asking, States
      <4>3. r \in {"ok", "paused"} => expired
        BY <2>1, <4>1
      <4> QED
        BY <1>1, <2>1, <2>3, <4>1, <4>2, <4>3, OutlivedAchieves
    <3> QED
      BY <3>1, <3>2
  <2>6. Achieves(disk, mem)'
    BY <2>2, <2>4 DEF Achieves
  <2>7. Gateless(mem')
    BY <1>2, <2>2 DEF Due
  <2> QED
    BY <1>3, <2>2, <2>3, <2>4, <2>6, <2>7 DEF Owing, InAgent
<1>6. CASE AskOpened \/ AgentAsks \/ AskAnswered \/ AskTimesOut \/ AskClosed
  <2>1. pc \in InAgent /\ pc' \in InAgent /\ mem' = mem
    BY <1>6 DEF AskOpened, AgentAsks, AskAnswered, AskTimesOut, AskClosed, InAgent
  <2>2. ~SoloPresent
    BY <2>1 DEF SoloPresent, Present, InAgent
  <2> QED
    BY <1>1, <1>3, <2>1, <2>2 DEF Owing, InAgent
<1>7. CASE ResumeAnswered \/ (\E t \in Tasks : DecideNode(t)) \/ Retry \/ ReturnForReading \/ PauseHere
  <2>1. /\ pc \in {"gate", "answered"} /\ pc' = "save" /\ disk' = disk /\ disk = mem
        /\ expired' = expired
    BY <1>1, <1>7 DEF ResumeAnswered, DecideNode, Retry, ReturnForReading, PauseHere, AtGate, Decided, Shown
  <2>2. mem'.status # "WAITING_HUMAN"
    <3>1. CASE ResumeAnswered
      BY <1>1, <3>1, AnsweredSame DEF ResumeAnswered
    <3>2. CASE Retry \/ ReturnForReading \/ PauseHere
      BY <1>1, <3>2
         DEF Retry, RetryTask, ReturnForReading, ReturnToReading, PauseHere, PauseAtGate, States
    <3>3. ASSUME NEW t \in Tasks, DecideNode(t)
          PROVE  mem'.status # "WAITING_HUMAN"
      BY <1>1, <3>3 DEF DecideNode, ResolveNode, Transition, States
    <3> QED
      BY <1>7, <3>1, <3>2, <3>3
  <2>3. saved' /\ Gateless(mem') /\ Moves(disk', mem')
    BY <1>1, <1>2, <2>1 DEF Due
  <2>4. ~SoloPresent
    BY <2>1 DEF SoloPresent, Present
  <2>5. disk.task = solo /\ disk.gate # "none" /\ presented # "none"
    BY <2>1 DEF Owed, Owing
  <2> QED
    BY <1>3, <2>1, <2>2, <2>3, <2>4, <2>5 DEF Owing, InAgent
<1>8. CASE GiveAnswer
  <2>1. ~SoloPresent
    BY <1>8 DEF GiveAnswer, AtGate, SoloPresent, Present
  <2> QED
    BY <1>1, <1>3, <1>8, <2>1 DEF GiveAnswer, AtGate, Owed, Owing, InAgent, Shown
<1>9. CASE HumanUnavailable \/ InterruptTask
  <2>1. pc' = "closing"
    BY <1>9 DEF HumanUnavailable, InterruptTask
  <2> QED
    BY <2>1 DEF Owing, InAgent
<1> QED
  BY <1>1, <1>4, <1>5, <1>6, <1>7, <1>8, <1>9 DEF Inside, Human, ContinueFailed, PauseFailed

LEMMA OwedStep ==
    ASSUME Fit, Fit', Orderly, Kept, Owed, [WorkspaceNext]_allVars
    PROVE  Owed'
<1>1. CASE UNCHANGED allVars
  BY <1>1 DEF allVars, vars, soloVars, durable, ghosts, Owed, Owing, Due, Lapses, Gateless, Moves, Stays, Suspends, Waits,
              Succeeds, Fails, Decides, Answers, Returns, Achieves, LastIs
<1>2. CASE Alone(Next)
  <2>1. Safe /\ Due /\ solo' = None
    BY <1>2, FitIsSafe DEF Alone, soloVars, Owed
  <2>2. Due'
    BY <1>2, <2>1, DueStep DEF Alone
  <2> QED
    BY <2>1, <2>2 DEF Owed, Owing, Due
<1>3. CASE \E t \in Tasks : RunTask(t)
  <2>1. UNCHANGED durable /\ pc' = "prepare" /\ solo' # None
    BY <1>3, GraphAssumption DEF RunTask, Work
  <2> QED
    BY <2>1 DEF Owed, Owing, Gateless, InAgent, durable
<1>4. CASE solo # None /\ SoloNext
  BY <1>4, CommandSteps, CommandLives, OwedOutside, OwedInside
<1> QED
  BY <1>1, <1>2, <1>3, <1>4 DEF WorkspaceNext

LEMMA OwedAlways == WorkspaceSpec => [](Fit /\ Orderly /\ Kept /\ Owed)
<1>1. SoloInit => Owed
  BY DueInit DEF SoloInit, Owed, Owing, Due
<1>2. Fit /\ Fit' /\ Orderly /\ Kept /\ Owed /\ [WorkspaceNext]_allVars => Owed'
  BY OwedStep
<1> QED
  BY <1>1, <1>2, WorkspaceKept, PTL DEF WorkspaceSpec

-----------------------------------------------------------------------------
(* Where commands may go without the researcher.                           *)

(* As Guided; on its way to its task a command may hold a record of any    *)
(* place, but it was given a task that it may go to.                       *)
Directed ==
    /\ Traced(disk, allowed)
    /\ solo = None \/ pc \in Between \cup {"settle"} => Traced(mem, allowed)
    /\ solo # None /\ pc \in {"prepare", "load", "step"} /\ solo \in BehindGate \ Immediate
          => solo \in allowed
    /\ pc \in InAgent => mem.task \notin Immediate

LEMMA InitialTraced == \A a : Traced(InitialState, a)
<1>1. /\ InitialState.status = "RUNNING" /\ InitialState.task = Initial
      /\ InitialState.gate = "none" /\ InitialState.hist = <<>>
  BY DEF InitialState
<1> QED
  BY <1>1 DEF Traced, Sent, Culprit, WorkRuns, BehindGate

LEMMA DirectedInside ==
    ASSUME SuccessNeverFails, Fit, Kept, Owed, Directed, solo # None, Inside, pc \in Between,
           Safe, Safe', Next
    PROVE  Directed'
<1>1. Guided /\ Due
  BY OwingIsDue DEF Directed, Guided, FailedResumeAtCulprit, Between
<1>2. Guided'
  BY <1>1, GuidedStep
<1>3. pc' \notin {"prepare", "load", "step"}
  BY DEF Inside, SoloPresent, Present, SoloEnds, AgentEnds, AskOpened, AskClosed, ResumeAnswered, AgentAsks,
         Human, ContinueFailed, PauseFailed, AskAnswered, AskUnavailable, DecideNode, Retry,
         ReturnForReading, PauseHere, HumanUnavailable, GiveAnswer, InterruptAgent, InterruptTask,
         AskTimesOut, Decided, Between
<1> QED
  BY <1>2, <1>3 DEF Guided, Directed

LEMMA DirectedOutside ==
    ASSUME SuccessNeverFails, Fit, Fit', Orderly, Orderly', Directed, solo # None, Outside, Living
    PROVE  Directed'
<1>1. /\ mem \in States /\ disk \in States /\ mem' \in States /\ disk' \in States
      /\ solo \in Work /\ Traced(disk, allowed) /\ Sane(disk')
  BY DEF Fit, WorkspaceTyped, Fitting, Orderly, Directed
<1>2. solo' = (IF pc' = "down" THEN None ELSE solo)
  BY DEF Living
<1>3. CASE Untouched
  <2>1. /\ disk' = disk /\ allowed' = allowed
        /\ pc' \in {"load", "step", "present", "closing", "down"}
        /\ pc' = "present" => PendingGate
    BY <1>3, UntouchedLeaves DEF durable
  <2>2. pc' = "present" => mem' = disk
    BY <2>1, PendingIsOwn DEF PendingGate
  <2>3. pc' = "down" => mem' = InitialState
    BY <1>3 DEF Untouched, Prepared, SoloLoad, SoloRefused, PendingGate, Close, Crash, Gone
  <2>4. pc' \in {"load", "step"} => pc \in {"prepare", "load"}
    BY <1>3 DEF Untouched, Prepared, SoloLoad, SoloRefused, PendingGate, Close, Crash, Gone
  <2> QED
    BY <1>1, <1>2, <2>1, <2>2, <2>3, <2>4, InitialTraced DEF Directed, Between, InAgent
<1>4. CASE Taking
  <2>1. /\ Comes(mem') /\ disk' = mem' /\ AtStep /\ allowed' = allowed
        /\ pc' = (IF mem'.gate = "none" THEN "agent" ELSE "present")
    BY <1>4, TakingComes
  <2>2. Traced(mem', allowed)
    BY <1>1, <2>1 DEF Comes, Traced, Sent, Culprit, Sane, Directed, AtStep
  <2>3. pc' = "agent" => mem'.task \notin Immediate
    <3>1. CASE SoloStart
      BY <1>1, <3>1 DEF SoloStart, SoloAtStart, RecordStarted, States
    <3>2. CASE OpenGate \/ SoloPreflightFails
      <4>1. pc' \in {"present", "closing"}
        BY <3>2 DEF OpenGate, SoloPreflightFails, Block
      <4> QED
        BY <4>1
    <3> QED
      BY <1>4, <3>1, <3>2 DEF Taking
  <2> QED
    BY <1>2, <2>1, <2>2, <2>3 DEF Directed, InAgent
<1>5. CASE Saving
  <2>1. /\ disk' = mem' /\ pc \in {"save", "settle"} /\ allowed' = allowed
        /\ mem'.task = mem.task /\ mem'.gate = mem.gate /\ mem'.hist = mem.hist
        /\ mem' = mem \/ mem'.status = "PAUSED"
        /\ pc' \in {"present", "closing", "load", "settle"}
    BY <1>5, SavingDumps
  <2>2. Traced(mem, allowed)
    BY <2>1 DEF Directed, Between
  <2>3. Traced(mem', allowed)
    BY <2>1, <2>2 DEF Traced, Sent, Culprit
  <2>4. pc' = "load" /\ solo \in BehindGate \ Immediate => solo \in allowed
    <3>1. pc' = "load" => pc = "save" /\ mem.task = solo /\ mem.status = "RUNNING"
      BY <1>5 DEF Saving, SoloSaveResult, SoloSaveAnswer, SoloSettle
    <3>2. pc = "save" /\ mem.status = "RUNNING" => mem.gate = "none"
      BY DEF Orderly, Sane, Parked
    <3> QED
      BY <2>2, <3>1, <3>2 DEF Traced, Sent
  <2> QED
    BY <1>2, <2>1, <2>3, <2>4 DEF Directed, InAgent
<1>6. CASE InterruptCli
  <2>1. /\ pc' = "down" /\ mem' = InitialState /\ allowed' = allowed
        /\ \/ disk' = disk
           \/ /\ disk'.task = disk.task /\ disk'.gate = disk.gate /\ disk'.status = "PAUSED"
              /\ SameRuns(disk, disk')
    BY <1>6, InterruptPauses
  <2>2. Traced(disk', allowed)
    BY <1>1, <2>1, TracedStay
  <2> QED
    BY <1>2, <2>1, <2>2, InitialTraced DEF Directed, InAgent
<1> QED
  BY <1>3, <1>4, <1>5, <1>6 DEF Outside

LEMMA DirectedStep ==
    ASSUME SuccessNeverFails, Fit, Fit', Orderly, Orderly', Kept, Owed, Directed,
           [WorkspaceNext]_allVars
    PROVE  Directed'
<1>1. CASE UNCHANGED allVars
  BY <1>1 DEF allVars, vars, soloVars, durable, ghosts, Directed
<1>2. CASE Alone(Next)
  <2>1. Safe /\ Due /\ Next /\ solo = None /\ solo' = None
    BY <1>2, FitIsSafe DEF Alone, soloVars, Owed
  <2>2. Safe'
    BY <2>1, TypedStep, CoherentStep DEF Safe
  <2>3. Guided
    BY <2>1 DEF Directed, Guided, Orderly
  <2>4. Guided'
    BY <2>1, <2>2, <2>3, GuidedStep
  <2> QED
    BY <2>1, <2>4 DEF Directed, Guided
<1>3. ASSUME NEW t \in Tasks, RunTask(t)
      PROVE  Directed'
  <2>1. /\ UNCHANGED <<disk, mem>> /\ pc' = "prepare" /\ solo' = t /\ t # None
        /\ allowed' = allowed \cup {t}
    BY <1>3, GraphAssumption DEF RunTask, durable
  <2>2. Traced(disk', allowed')
    BY <2>1, TracedMore DEF Directed
  <2> QED
    BY <2>1, <2>2 DEF Directed, InAgent, Between
<1>4. CASE solo # None /\ SoloNext
  BY <1>4, CommandSteps, CommandLives, DirectedOutside, DirectedInside
<1> QED
  BY <1>1, <1>2, <1>3, <1>4 DEF WorkspaceNext

(* Whoever drives the workspace, and whatever is crashed, interrupted,     *)
(* failed or paused in between: a task behind a gate runs only when the    *)
(* researcher's latest answer at the gate, a re-entry or a command given   *)
(* that very task sent the run there.  A command for another task does not *)
(* carry the run past a gate.                                              *)
THEOREM WorkspaceGatesRespected ==
    ASSUME SuccessNeverFails PROVE WorkspaceSpec => []GateRespected
<1>1. SoloInit => Directed
  BY InitialTraced DEF SoloInit, Init, Directed, InAgent
<1>2. Fit /\ Orderly /\ Kept /\ Owed /\ Directed /\ [WorkspaceNext]_allVars
          /\ Fit' /\ Orderly' => Directed'
  BY DirectedStep
<1>3. Fit /\ Directed => GateRespected
  BY DEF Fit, Fitting, Open, Directed, Traced, Sent, GateRespected, InAgent, Between
<1> QED
  BY <1>1, <1>2, <1>3, OwedAlways, PTL DEF WorkspaceSpec

-----------------------------------------------------------------------------
(* Every step is one of Errand, or leaves its view alone.                  *)

FollowsErrand == [Errands!CommandNext]_<<Errands!pos, Errands!duty>>

(* Both modules see the same life cycle.                                   *)
LEMMA OneLifecycle ==
    ASSUME [Position!Next]_Position!pos
    PROVE  [Errands!Next]_Errands!pos
<1> USE DEF Position!Process, Position!At, Position!Work, Position!Terminals, Position!Entered,
            Position!Working, Position!Free, Position!Gates, Position!Enter,
            Errands!Process, Errands!At, Errands!Work, Errands!Terminals, Errands!Entered,
            Errands!Working, Errands!Free, Errands!Gates, Errands!Enter
<1>1. UNCHANGED Position!pos => UNCHANGED Errands!pos
  BY DEF Position!pos, Position!position, Errands!pos, Errands!position
<1>2. Position!Launch \/ Position!Succeed \/ Position!Fail =>
          Errands!Launch \/ Errands!Succeed \/ Errands!Fail
  BY DEF Position!Launch, Position!Succeed, Position!Fail, Position!Lapsed,
         Errands!Launch, Errands!Succeed, Errands!Fail, Errands!Lapsed
<1>3. Position!Answer \/ Position!ReturnForReading \/ Position!Suspend =>
          Errands!Answer \/ Errands!ReturnForReading \/ Errands!Suspend
  BY DEF Position!Answer, Position!ReturnForReading, Position!Suspend,
         Errands!Answer, Errands!ReturnForReading, Errands!Suspend
<1>4. Position!Finish \/ Position!ComeOrGo => Errands!Finish \/ Errands!ComeOrGo
  BY DEF Position!Finish, Position!ComeOrGo, Errands!Finish, Errands!ComeOrGo,
         Position!position, Errands!position
<1>7. Position!Expire \/ Position!Renew \/ Position!Outlive =>
          Errands!Expire \/ Errands!Renew \/ Errands!Outlive
  BY DEF Position!Expire, Position!Renew, Position!Outlive, Position!position, Position!Lapsed,
         Errands!Expire, Errands!Renew, Errands!Outlive, Errands!position, Errands!Lapsed
<1>5. \A g \in Position!Gates : Position!Wait(g) => Errands!Wait(g)
  BY DEF Position!Wait, Errands!Wait
<1>6. \A t \in Tasks : /\ Position!Decide(t) => Errands!Decide(t)
                       /\ Position!Revive(t) => Errands!Revive(t)
                       /\ Position!Reenter(t) => Errands!Reenter(t)
  BY DEF Position!Decide, Position!Revive, Position!Reenter,
         Errands!Decide, Errands!Revive, Errands!Reenter
<1> QED
  BY <1>1, <1>2, <1>3, <1>4, <1>5, <1>6, <1>7 DEF Position!Next, Errands!Next

(* A step of the pipeline.                                                 *)
LEMMA AloneFollows ==
    ASSUME Fit, Fit', Kept, Owed, Alone(Next)
    PROVE  FollowsErrand
<1>1. /\ Safe /\ Due /\ Next /\ solo = None /\ solo' = None
      /\ disk' \in States /\ expired' \in BOOLEAN
  BY FitIsSafe DEF Alone, soloVars, Owed, Fit, WorkspaceTyped
<1>2. [Errands!Next]_Errands!pos
  BY <1>1, StepFollows, OneLifecycle DEF Follows
<1>3. UNCHANGED Errands!duty
  BY <1>1 DEF Errands!duty, Stage
<1> QED
  BY <1>1, <1>2, <1>3 DEF FollowsErrand, Errands!CommandNext

LEMMA RunTaskFollows ==
    ASSUME NEW t \in Tasks, RunTask(t)
    PROVE  FollowsErrand
<1>1. Errands!Order(t)
  BY GraphAssumption
     DEF RunTask, Errands!Order, Errands!Work, Errands!Terminals, Work, Terminals, Stage,
         Errands!position, durable
<1> QED
  BY <1>1 DEF FollowsErrand, Errands!CommandNext

(* What a live command may do.                                             *)
LEMMA CommandFollows ==
    ASSUME \/ Errands!Command
           \/ /\ UNCHANGED <<saved, disk, expired, solo>>
              /\ (pc' # "down") = (pc # "down") /\ Stage' = Stage
    PROVE  FollowsErrand
BY DEF FollowsErrand, Errands!CommandNext, Errands!pos, Errands!position, Errands!duty

(* A step of a live command that goes on.                                  *)
LEMMA GoesOn ==
    ASSUME solo # None, solo' = solo, pc # "down", pc' # "down", NEW a, NEW b, Stage = a, Stage' = b
    PROVE  Errands!Onward(a, b) /\ Errands!Process
BY DEF Errands!Onward, Errands!Process

LEMMA OutsideFollows ==
    ASSUME Fit, Fit', Orderly, Owed, solo # None, Outside, Living
    PROVE  FollowsErrand
<1> USE DEF durable, ghosts, Errands!At, Errands!Gates
<1>1. /\ mem \in States /\ disk \in States /\ pc # "down" /\ solo \in Work
      /\ pc \in Shown => disk = mem
      /\ saved \in BOOLEAN /\ Parked(disk) /\ Gateless(disk)
      /\ expired \in BOOLEAN /\ (expired => pc \in {"agent", "save"})
  BY DEF Fit, Fitting, WorkspaceTyped, Orderly, Sane, Owed
<1>0. expired' = FALSE
  BY OutsideRenews
<1>2. /\ solo' = (IF pc' = "down" THEN None ELSE solo)
      /\ Stage = IF pc \in {"prepare", "load", "step"} THEN "heading"
                 ELSE IF pc \in {"settle", "closing"} THEN "over" ELSE "there"
      /\ Stage' = IF pc' = "down" THEN "out"
                  ELSE IF pc' \in {"prepare", "load", "step"} THEN "heading"
                  ELSE IF pc' \in {"settle", "closing"} THEN "over" ELSE "there"
  BY GraphAssumption DEF Living, Stage, Fit, WorkspaceTyped, Work
<1>3. CASE Untouched
  <2>1. UNCHANGED <<saved, disk>>
    BY <1>3, UntouchedLeaves
  <2>2. CASE Prepared \/ SoloLoad
    BY <1>0, <1>1, <1>2, <2>1, <2>2, CommandFollows DEF Prepared, SoloLoad
  <2>3. CASE SoloRefused
    <3>1. Errands!Onward("heading", "over")
      BY <1>1, <1>2, <2>3, GoesOn DEF SoloRefused
    <3>2. expired' = expired
      BY <1>0, <1>1, <2>3 DEF SoloRefused
    <3> QED
      BY <2>1, <3>1, <3>2, CommandFollows DEF Errands!Refuse, Errands!Command, Errands!position
  <2>4. CASE PendingGate
    <3>1. Errands!Onward("heading", "there")
      BY <1>1, <1>2, <2>4, GoesOn DEF PendingGate
    <3>2. Errands!OwnGate
      BY <2>4, PendingIsOwn DEF Errands!OwnGate
    <3>3. expired' = expired
      BY <1>0, <1>1, <2>4 DEF PendingGate
    <3> QED
      BY <2>1, <3>1, <3>2, <3>3, CommandFollows DEF Errands!TakeUp, Errands!Command, Errands!position
  <2>5. CASE Close \/ Crash
    <3>1. Errands!Go
      BY <1>0, <1>1, <1>2, <2>1, <2>5 DEF Close, Crash, Gone, Errands!Go, Errands!Gone, Errands!position
    <3> QED
      BY <3>1, CommandFollows DEF Errands!Command
  <2> QED
    BY <1>3, <2>2, <2>3, <2>4, <2>5 DEF Untouched
<1>4. CASE Taking
  <2>1. /\ Comes(mem') /\ disk' = mem' /\ saved' = TRUE /\ AtStep /\ pc = "step"
        /\ pc' \in {"agent", "present"}
    BY <1>4, TakingComes DEF AtStep
  <2>2. Errands!Onward("heading", "there")
    BY <1>1, <1>2, <2>1, GoesOn
  <2>3. ~Errands!OwnGate
    BY <2>1, NoOwnGate DEF Errands!OwnGate
  <2>4. Errands!Take
    BY <1>0, <2>1, <2>2, <2>3 DEF Errands!Take, Comes
  <2> QED
    BY <2>4, CommandFollows DEF Errands!Command
<1>5. CASE SoloSettle
  <2>1. /\ disk' = mem' /\ saved' = TRUE /\ mem'.task = mem.task /\ mem'.gate = mem.gate
        /\ mem'.status = "PAUSED" /\ pc = "settle" /\ pc' = "closing" /\ disk = mem
    BY <1>1, <1>5, SuspendedType DEF SoloSettle, Dump, Shown
  <2>2. disk.status # "COMPLETED"
    BY <2>1 DEF Owed, Owing
  <2>3. Errands!Halt
    BY <1>0, <1>1, <1>2, <2>1, <2>2 DEF Errands!Halt, Errands!Suspend
  <2> QED
    BY <2>3, CommandFollows DEF Errands!Command
<1>6. CASE InterruptCli
  <2>1. /\ pc' = "down" /\ saved' = saved
        /\ \/ disk' = disk
           \/ /\ disk'.task = disk.task /\ disk'.gate = disk.gate /\ disk'.status = "PAUSED"
              /\ disk.status # "COMPLETED" /\ saved
    BY <1>6, InterruptPauses
  <2>2. Errands!Gone
    BY <1>0, <1>2, <2>1 DEF Errands!Gone
  <2>3. CASE disk' = disk
    <3>1. Errands!Go
      BY <1>1, <2>1, <2>2, <2>3 DEF Errands!Go, Errands!position
    <3> QED
      BY <3>1, CommandFollows DEF Errands!Command
  <2>4. CASE disk' # disk
    <3>1. Errands!Halt
      BY <1>0, <1>1, <2>1, <2>2, <2>4 DEF Errands!Halt, Errands!Suspend
    <3> QED
      BY <3>1, CommandFollows DEF Errands!Command
  <2> QED
    BY <2>3, <2>4
<1>7. CASE SoloSaveResult
  <2> USE DEF Errands!Process, Errands!Work, Errands!Terminals, Work, Terminals
  <2>1. /\ pc = "save" /\ presented = "none" /\ disk' = mem' /\ saved' = TRUE
        /\ mem' = IF LastIs(mem, {"DONE"}) /\ mem.status = "RUNNING" THEN Suspended(mem) ELSE mem
        /\ pc' = IF mem.status = "WAITING_HUMAN" /\ ~LastIs(mem, {"DONE"}) THEN "present" ELSE "closing"
    BY <1>7 DEF SoloSaveResult, Dump
  <2>2. saved /\ disk.task = solo /\ Achieves(disk, mem)
    BY <2>1 DEF Owed, Owing
  <2>3. mem'.task = mem.task /\ mem'.gate = mem.gate
    BY <1>1, <2>1, SuspendedType
  <2>4. pc' # "down" /\ Errands!Process
    BY <1>1, <2>1 DEF Errands!Process
  <2> DEFINE Advances == \/ Succeeds(disk, mem)
                         \/ /\ expired /\ disk.task \in Work \ Gated /\ disk.gate = "ask"
                            /\ mem.task = NextOk[disk.task] /\ mem.status = Entered(mem.task)
                            /\ mem.gate = "none"
             Opens == \/ Waits(disk, mem) /\ mem.gate = "node"
                      \/ /\ expired /\ disk.task \in Gated /\ disk.gate = "ask"
                         /\ mem.task = disk.task /\ mem.status = "WAITING_HUMAN" /\ mem.gate = "node"
  <2>5. CASE LastIs(mem, {"DONE"}) /\ Advances
    <3>1. pc' = "closing" /\ Errands!Onward("there", "over")
      BY <1>1, <1>2, <2>1, <2>5, GoesOn
    <3>2. /\ disk.task \in Work \ Gated
          /\ \/ disk.status = "RUNNING" /\ disk.gate = "none"
             \/ disk.gate = "ask" /\ expired
          /\ mem.task = NextOk[disk.task] /\ mem.status = Entered(mem.task) /\ mem.gate = "none"
          /\ mem.task \in Tasks
      BY <2>5, GraphAssumption DEF Succeeds
    <3>3. disk'.status = IF mem.task \in Work THEN "PAUSED" ELSE Entered(mem.task)
      <4>1. mem.task \in Work => mem' = Suspended(mem)
        BY <2>1, <2>5, <3>2 DEF Entered
      <4>2. mem.task \notin Work => mem' = mem
        BY <2>1, <3>2 DEF Entered
      <4> QED
        BY <1>1, <2>1, <3>2, <4>1, <4>2, SuspendedType
    <3>4. Errands!SucceedOnce
      BY <1>0, <2>1, <2>2, <2>3, <2>4, <3>2, <3>3
         DEF Errands!SucceedOnce, Errands!Working, Errands!Lapsed, Errands!Entered, Entered
    <3> QED
      BY <2>2, <3>1, <3>4, CommandFollows DEF Errands!Leave, Errands!Command
  <2>6. CASE LastIs(mem, {"DONE"}) /\ Opens
    <3>1. pc' = "closing" /\ mem' = mem
      BY <2>1, <2>6 DEF Waits
    <3>2. Errands!Onward("there", "over")
      BY <1>1, <1>2, <2>1, <3>1, GoesOn
    <3>3. Errands!Wait("node") \/ Errands!Outlive
      BY <1>0, <2>1, <2>2, <2>4, <2>6, <3>1
         DEF Errands!Wait, Errands!Free, Errands!Outlive, Errands!Lapsed, Waits
    <3> QED
      BY <2>2, <3>2, <3>3, CommandFollows DEF Errands!Leave, Errands!Command
  <2>8. LastIs(mem, {"DONE"}) => Advances \/ Opens
    BY <2>2 DEF Achieves, Lapses, Entered
  <2>7. CASE ~LastIs(mem, {"DONE"})
    <3>1. mem' = mem /\ pc' = IF mem.status = "WAITING_HUMAN" THEN "present" ELSE "closing"
      BY <2>1, <2>7
    <3>2. CASE Stays(disk, mem) /\ mem.status = "WAITING_HUMAN"
      <4>1. /\ UNCHANGED <<disk.task, disk.status, disk.gate>> /\ saved' = saved /\ solo' = solo
            /\ pc' = "present" /\ Stage = "there" /\ Stage' = "there"
        BY <1>1, <1>2, <2>1, <2>2, <3>1, <3>2 DEF Stays
      <4>2. CASE expired = FALSE
        BY <1>0, <2>1, <4>1, <4>2 DEF FollowsErrand, Errands!pos, Errands!position, Errands!duty
      <4>3. CASE expired = TRUE
        <5>1. Errands!Onward("there", "there")
          BY <1>1, <2>1, <4>1, GoesOn
        <5>2. Errands!Renew
          BY <1>0, <2>4, <4>1, <4>3 DEF Errands!Renew, Errands!position
        <5> QED
          BY <2>2, <5>1, <5>2, CommandFollows DEF Errands!Stay, Errands!Command
      <4> QED
        BY <1>1, <4>2, <4>3
    <3>3. CASE Suspends(disk, mem)
      <4>1. Errands!Halt
        BY <1>0, <1>1, <1>2, <2>1, <3>1, <3>3 DEF Suspends, Errands!Halt, Errands!Suspend
      <4> QED
        BY <4>1, CommandFollows DEF Errands!Command
    <3>4. CASE Waits(disk, mem)
      <4>1. Errands!Onward("there", "there")
        BY <1>1, <1>2, <2>1, <3>1, <3>4, GoesOn DEF Waits
      <4>2. mem.gate \in Errands!Gates /\ Errands!Wait(mem.gate)
        BY <1>0, <2>1, <2>4, <3>1, <3>4 DEF Errands!Wait, Errands!Free, Waits
      <4> QED
        BY <2>2, <4>1, <4>2, CommandFollows DEF Errands!Stay, Errands!Command
    <3>5. CASE Fails(disk, mem)
      <4>1. pc' = "closing" /\ Errands!Onward("there", "over")
        BY <1>1, <1>2, <2>1, <3>1, <3>5, GoesOn DEF Fails
      <4>2. Errands!Fail
        BY <1>0, <2>1, <2>2, <2>4, <3>1, <3>5 DEF Errands!Fail, Errands!Working, Fails
      <4> QED
        BY <2>2, <4>1, <4>2, CommandFollows DEF Errands!Leave, Errands!Command
    <3>6. CASE expired /\ Lapses(disk, mem) /\ mem.status = "PAUSED"
      <4>1. pc' = "closing" /\ Errands!Onward("there", "over")
        BY <1>1, <1>2, <2>1, <3>1, <3>6, GoesOn
      <4>2. Errands!Outlive
        BY <1>0, <2>1, <2>2, <2>4, <3>1, <3>6
           DEF Errands!Outlive, Errands!Lapsed, Lapses, Entered
      <4> QED
        BY <2>2, <4>1, <4>2, CommandFollows DEF Errands!Leave, Errands!Command
    <3> QED
      BY <2>2, <2>7, <3>2, <3>3, <3>4, <3>5, <3>6 DEF Achieves
  <2> QED
    BY <2>5, <2>6, <2>7, <2>8
<1>8. CASE SoloSaveAnswer
  <2>1. /\ pc = "save" /\ presented # "none" /\ disk' = mem /\ saved' = TRUE
        /\ pc' = IF mem.status # "RUNNING" THEN "closing"
                 ELSE IF mem.task # solo THEN "settle"
                 ELSE IF presented \in {"runtime", "coverage"} THEN "load" ELSE "closing"
    BY <1>8 DEF SoloSaveAnswer, Dump
  <2>2. /\ saved /\ disk.task = solo /\ Moves(disk, mem) /\ disk.gate # "none"
        /\ mem.status # "WAITING_HUMAN"
    BY <2>1 DEF Owed, Owing
  <2>3. pc' # "down" /\ Errands!Process
    BY <1>1, <2>1 DEF Errands!Process
  <2>4. CASE Stays(disk, mem) \/ Suspends(disk, mem)
    <3>1. Suspends(disk, mem)
      BY <1>1, <2>2, <2>4 DEF Stays, Suspends, Parked
    <3>2. Errands!Halt
      BY <1>0, <1>1, <1>2, <2>1, <3>1 DEF Suspends, Errands!Halt, Errands!Suspend
    <3> QED
      BY <3>2, CommandFollows DEF Errands!Command
  <2>5. CASE Decides(disk, mem)
    <3>1. pc' \in {"closing", "settle"}
      BY <2>1, <2>2, <2>5 DEF Decides
    <3>2. Errands!Onward("there", "over")
      BY <1>1, <1>2, <2>1, <3>1, GoesOn
    <3>3. mem.task \in Tasks /\ Errands!Decide(mem.task)
      BY <1>0, <1>1, <2>1, <2>3, <2>5, Fields DEF Decides, Entered, Errands!Decide, Errands!Entered
    <3> QED
      BY <2>2, <3>2, <3>3, CommandFollows DEF Errands!Leave, Errands!Command
  <2>6. CASE Answers(disk, mem) \/ Returns(disk, mem)
    <3>1. Errands!Answer \/ Errands!ReturnForReading
      BY <1>0, <2>1, <2>3, <2>6 DEF Answers, Returns, Errands!Answer, Errands!ReturnForReading
    <3>2. CASE pc' = "load"
      <4>1. Errands!Onward("there", "heading")
        BY <1>1, <1>2, <2>1, <3>2, GoesOn
      <4>2. disk'.task = solo
        BY <2>1, <3>2
      <4>3. Errands!Again
        BY <1>2, <2>1, <2>2, <2>3, <3>1, <4>1, <4>2 DEF Errands!Again
      <4> QED
        BY <4>3, CommandFollows DEF Errands!Command
    <3>3. CASE pc' # "load"
      <4>1. Errands!Onward("there", "over")
        BY <1>1, <1>2, <2>1, <3>3, GoesOn
      <4> QED
        BY <2>2, <3>1, <4>1, CommandFollows DEF Errands!Leave, Errands!Command
    <3> QED
      BY <3>2, <3>3
  <2> QED
    BY <2>2, <2>4, <2>5, <2>6 DEF Moves, Waits, Succeeds, Fails
<1> QED
  BY <1>3, <1>4, <1>5, <1>6, <1>7, <1>8 DEF Outside, Saving

LEMMA InsideFollows ==
    ASSUME Fit, Fit', Kept, Owed, solo # None, Inside, pc \in Between, Living
    PROVE  FollowsErrand
<1> USE DEF durable, ghosts, Errands!At, Errands!Gates, Errands!Process, Errands!Work, Errands!Terminals,
            Work, Terminals
<1>1. /\ mem \in States /\ disk \in States /\ pc \notin {"down", "failed_resume"}
      /\ pc \in Shown => disk = mem
      /\ pc = "agent" => disk = IF expired THEN Asking(mem) ELSE mem
      /\ pc = "ask_open" => disk \in {mem, Asking(mem)}
      /\ pc \in {"ask", "ask_close"} => disk = Asking(mem)
      /\ expired \in BOOLEAN /\ (expired => pc \in {"agent", "save"})
      /\ pc \in InAgent => /\ mem.task = solo /\ solo \in Work /\ saved
                          /\ mem.gate = "none" /\ mem.status = "RUNNING"
      /\ pc = "gate" => saved /\ disk.gate # "none"
      /\ Gateless(disk) /\ saved \in BOOLEAN
  BY DEF Fit, Fitting, WorkspaceTyped, AtWork, InAgent, Open, Owed, Owing, Work
<1>2. /\ solo' = (IF pc' = "down" THEN None ELSE solo)
      /\ Stage = "there"
      /\ Stage' = IF pc' = "down" THEN "out"
                  ELSE IF pc' \in {"prepare", "load", "step"} THEN "heading"
                  ELSE IF pc' \in {"settle", "closing"} THEN "over" ELSE "there"
  BY GraphAssumption DEF Living, Stage, Fit, WorkspaceTyped, Work, Between
<1>3. CASE SoloPresent
  <2>1. disk' = disk /\ saved' = saved /\ pc' = "gate" /\ expired' = expired
    BY <1>1, <1>3 DEF SoloPresent, Present, Dump, Owed, Owing, Shown
  <2> QED
    BY <1>1, <1>2, <2>1, CommandFollows
(* Nothing is written.                                                     *)
<1>4. CASE \/ ResumeAnswered \/ (\E r \in Results : SoloEnds(r)) \/ AskAnswered
           \/ AskUnavailable \/ (\E t \in Tasks : DecideNode(t)) \/ Retry \/ ReturnForReading
           \/ PauseHere \/ GiveAnswer \/ InterruptAgent
  <2>1. UNCHANGED <<saved, disk>> /\ pc' \in {"save", "ask_close", "answered"}
    BY <1>4 DEF ResumeAnswered, SoloEnds, AgentEnds, AskAnswered, AskUnavailable, DecideNode,
                Retry, ReturnForReading, PauseHere, GiveAnswer, InterruptAgent, Decided
  <2>2. expired' = expired
    BY <1>4 DEF ResumeAnswered, SoloEnds, AgentEnds, AskAnswered, AskUnavailable, DecideNode,
                Retry, ReturnForReading, PauseHere, GiveAnswer, InterruptAgent, Decided, Attended
  <2> QED
    BY <1>1, <1>2, <2>1, <2>2, CommandFollows
(* The wait for an answer ends, or the question is put again.              *)
<1>8. CASE AskTimesOut \/ AgentAsks
  <2>1. UNCHANGED <<saved, disk>> /\ pc \in InAgent /\ pc' \in InAgent
    BY <1>8 DEF AskTimesOut, AgentAsks, InAgent
  <2>2. Errands!Onward("there", "there") /\ disk.task = solo
    <3>1. disk.task = mem.task
      BY <1>1, <2>1 DEF InAgent, Asking, States
    <3> QED
      BY <1>1, <1>2, <2>1, <3>1, GoesOn DEF InAgent
  <2>3. CASE expired' = expired
    BY <1>1, <1>2, <2>1, <2>3, CommandFollows DEF InAgent
  <2>4. CASE expired' # expired
    <3>1. Errands!Expire \/ Errands!Renew
      <4>1. CASE AskTimesOut
        <5>1. disk.gate = "ask" /\ ~expired /\ expired' = TRUE
          BY <1>1, <2>4, <4>1 DEF AskTimesOut, Asking, States
        <5> QED
          BY <1>1, <2>1, <5>1 DEF Errands!Expire, Errands!position, InAgent
      <4>2. CASE AgentAsks
        <5>1. expired /\ expired' = FALSE
          BY <1>1, <2>4, <4>2 DEF AgentAsks
        <5> QED
          BY <1>1, <2>1, <5>1 DEF Errands!Renew, Errands!position, InAgent
      <4> QED
        BY <1>8, <4>1, <4>2
    <3> QED
      BY <2>1, <2>2, <3>1, CommandFollows DEF Errands!Stay, Errands!Command
  <2> QED
    BY <2>3, <2>4
(* A question of the agent comes and goes.                                 *)
<1>5. CASE AskOpened
  <2>1. pc = "ask_open" /\ pc' = "ask" /\ expired = FALSE /\ expired' = FALSE /\ saved' = TRUE /\ saved
    BY <1>1, <1>5 DEF AskOpened, InAgent
  <2>2. CASE disk = mem
    <3>1. /\ disk'.task = disk.task /\ disk'.gate = "ask" /\ disk'.status = "WAITING_HUMAN"
          /\ disk.task = solo /\ disk.gate = "none" /\ disk.status = "RUNNING"
      BY <1>1, <1>5, <2>1, <2>2 DEF AskOpened, Asking, InAgent, States
    <3>2. Errands!Onward("there", "there")
      BY <1>1, <1>2, <2>1, GoesOn
    <3>3. Errands!Wait("ask")
      BY <1>1, <2>1, <3>1 DEF InAgent, Errands!Wait, Errands!Free
    <3> QED
      BY <3>1, <3>2, <3>3, CommandFollows DEF Errands!Stay, Errands!Command
  <2>3. CASE disk # mem
    <3>1. disk' = disk
      <4>1. disk = Asking(mem) /\ disk' = Asking(disk)
        BY <1>1, <1>5, <2>1, <2>3 DEF AskOpened
      <4>2. Open(mem) /\ mem \in States
        BY <2>1 DEF Fit, Fitting, WorkspaceTyped, InAgent
      <4> QED
        BY <4>1, <4>2, AskTwice
    <3> QED
      BY <1>1, <1>2, <2>1, <3>1, CommandFollows
  <2> QED
    BY <2>2, <2>3
<1>6. CASE AskClosed
  <2>1. disk.gate = "ask" /\ disk.task = mem.task
    BY <1>1, <1>6 DEF AskClosed, Asking, States
  <2>2. /\ disk'.task = disk.task /\ disk'.gate = "none" /\ disk'.status = "RUNNING"
        /\ saved' = TRUE /\ pc' = "agent" /\ disk.task = solo /\ expired' = FALSE
    BY <1>1, <1>6, <2>1 DEF AskClosed, InAgent, States
  <2>3. Errands!Onward("there", "there")
    BY <1>1, <1>2, <2>2, GoesOn
  <2>4. Errands!Answer
    BY <1>1, <2>1, <2>2 DEF Errands!Answer
  <2> QED
    BY <2>2, <2>3, <2>4, CommandFollows DEF Errands!Stay, Errands!Command
(* The project is paused where it is, or where its run went on without an  *)
(* answer.                                                                 *)
<1>7. CASE HumanUnavailable
  <2>1. /\ disk'.task = disk.task /\ disk'.gate = disk.gate /\ disk'.status = "PAUSED"
        /\ saved' = TRUE /\ pc' = "closing" /\ pc = "gate" /\ disk.gate # "none"
    BY <1>1, <1>7 DEF HumanUnavailable, Dump, PauseAtGate, States, Shown
  <2>2. disk.status # "COMPLETED" /\ expired' = FALSE
    BY <1>1, <1>7, <2>1 DEF HumanUnavailable, Gateless
  <2>3. Errands!Halt
    BY <1>1, <1>2, <2>1, <2>2 DEF Errands!Halt, Errands!Suspend
  <2> QED
    BY <2>3, CommandFollows DEF Errands!Command
<1>9. CASE InterruptTask
  <2>1. /\ disk' = MarkInterrupted(mem) /\ saved' = TRUE /\ pc = "agent" /\ pc' = "closing"
        /\ expired' = FALSE /\ saved /\ mem.task = solo
    BY <1>1, <1>9 DEF InterruptTask, Dump, InAgent
  <2>2. disk'.task = solo /\ disk'.gate = "none" /\ disk'.status = "PAUSED"
    BY <1>1, <2>1, InterruptedSame DEF InAgent
  <2>3. CASE ~expired
    <3>1. disk.task = solo /\ disk.gate = "none" /\ disk.status = "RUNNING"
      BY <1>1, <2>1, <2>3 DEF InAgent
    <3>2. Errands!Halt
      BY <1>1, <1>2, <2>1, <2>2, <3>1 DEF Errands!Halt, Errands!Suspend
    <3> QED
      BY <3>2, CommandFollows DEF Errands!Command
  <2>4. CASE expired
    <3>1. disk.task = solo /\ disk.gate = "ask" /\ solo \in Work
      BY <1>1, <2>1, <2>4 DEF InAgent, Asking, States
    <3>2. Errands!Onward("there", "over")
      BY <1>1, <1>2, <2>1, GoesOn
    <3>3. Errands!Outlive
      BY <1>1, <2>1, <2>2, <2>4, <3>1 DEF Errands!Outlive, Errands!Lapsed
    <3> QED
      BY <3>1, <3>2, <3>3, CommandFollows DEF Errands!Leave, Errands!Command
  <2> QED
    BY <2>3, <2>4
<1> QED
  BY <1>1, <1>3, <1>4, <1>5, <1>6, <1>7, <1>8, <1>9 DEF Inside, Human, ContinueFailed, PauseFailed

LEMMA WorkspaceStepFollows ==
    ASSUME Fit, Fit', Orderly, Kept, Owed, [WorkspaceNext]_allVars
    PROVE  FollowsErrand
<1>1. CASE UNCHANGED allVars
  BY <1>1, CommandFollows DEF allVars, vars, soloVars, durable, ghosts, Stage
<1>2. CASE solo # None /\ SoloNext
  BY <1>2, CommandSteps, CommandLives, OutsideFollows, InsideFollows
<1> QED
  BY <1>1, <1>2, AloneFollows, RunTaskFollows DEF WorkspaceNext

(* However commands and the pipeline take turns, a command moves the       *)
(* project to its own task and makes one move from there: what it finds,   *)
(* what crashes and what is interrupted never makes it two.  Nor does a    *)
(* question whose wait times out: the run's success or pause is written    *)
(* over it as if nothing had been asked.                                   *)
THEOREM WorkspaceFollowsErrand == WorkspaceSpec => OneMovePerCommand
<1>1. SoloInit => Errands!CommandInit
  BY DEF SoloInit, Init, InitialState, Stage, Errands!CommandInit, Errands!Init
<1>2. Fit /\ Fit' /\ Orderly /\ Kept /\ Owed /\ [WorkspaceNext]_allVars
          => [Errands!CommandNext]_<<Errands!pos, Errands!duty>>
  BY WorkspaceStepFollows DEF FollowsErrand
<1>3. WorkspaceSpec => Errands!CommandSpec
  BY <1>1, <1>2, OwedAlways, PTL DEF WorkspaceSpec, Errands!CommandSpec
<1> QED
  BY <1>3 DEF OneMovePerCommand

=============================================================================
