---- MODULE LifecycleProofs ----
(***************************************************************************)
(* Pipeline implements Lifecycle: for every graph of tasks, the position   *)
(* state.yaml records moves along the edges of the graph, or where the     *)
(* researcher or a resume sends it explicitly.  And where it does: no task *)
(* behind a gate runs without the researcher's word, and the resume of a   *)
(* failed project finds the task whose run failed.                         *)
(***************************************************************************)
EXTENDS PipelineProofs

Entered(t) == IF t = Failed THEN "FAILED" ELSE IF t = Done THEN "COMPLETED" ELSE "RUNNING"

(* The record m is one move of Lifecycle away from d, or no move at all.   *)
Stays(d, m) == d.gate # "none" /\ m.task = d.task /\ m.status = d.status /\ m.gate = d.gate
Suspends(d, m) ==
    d.status # "COMPLETED" /\ m.task = d.task /\ m.status = "PAUSED" /\ m.gate = d.gate
Waits(d, m) ==
    /\ d.task \in Work /\ d.gate = "none" /\ d.status \in {"RUNNING", "PAUSED"}
    /\ m.task = d.task /\ m.status = "WAITING_HUMAN"
    /\ m.gate \in {"node", "runtime", "coverage", "ask"}
    /\ m.gate = "node" => m.task \in Gated
Succeeds(d, m) ==
    /\ d.task \in Work \ Gated /\ d.status = "RUNNING" /\ d.gate = "none"
    /\ m.task = NextOk[d.task] /\ m.status = Entered(m.task) /\ m.gate = "none"
Fails(d, m) ==
    /\ d.task \in Work /\ d.status = "RUNNING" /\ d.gate = "none"
    /\ m.task = NextFail[d.task] /\ m.gate = "none"
    /\ m.status = IF m.task \in Terminals THEN "FAILED" ELSE "RUNNING"
Decides(d, m) ==
    /\ d.gate = "node" /\ m.task \in Branches[d.task] /\ m.gate = "none"
    /\ m.status = IF m.task = d.task THEN "PAUSED" ELSE Entered(m.task)
Answers(d, m) ==
    /\ d.gate \in {"ask", "runtime"} /\ m.task = d.task
    /\ m.status = "RUNNING" /\ m.gate = "none"
Returns(d, m) ==
    d.gate = "coverage" /\ m.task = ReadingTask /\ m.status = "RUNNING" /\ m.gate = "none"

(* A run that outlives its unanswered question.                            *)
Lapses(d, m) ==
    /\ d.task \in Work /\ d.gate = "ask"
    /\ \/ /\ d.task \notin Gated
          /\ m.task = NextOk[d.task] /\ m.status = Entered(m.task) /\ m.gate = "none"
       \/ /\ d.task \in Gated
          /\ m.task = d.task /\ m.status = "WAITING_HUMAN" /\ m.gate = "node"
       \/ m.task = d.task /\ m.status = "PAUSED" /\ m.gate = "none"

Moves(d, m) == \/ Stays(d, m) \/ Suspends(d, m) \/ Waits(d, m) \/ Succeeds(d, m)
               \/ Fails(d, m) \/ Decides(d, m) \/ Answers(d, m) \/ Returns(d, m)

(* A state waits exactly when it has a gate to wait at, and a finished one *)
(* has none.                                                               *)
Gateless(s) == /\ s.status \in {"COMPLETED", "FAILED"} => s.gate = "none"
               /\ s.status = "WAITING_HUMAN" => s.gate # "none"

(* What is not dumped yet is one move away from the file.                  *)
Due ==
    /\ Gateless(disk)
    /\ pc = "save" => saved /\ Gateless(mem) /\ (Moves(disk, mem) \/ (expired /\ Lapses(disk, mem)))
    /\ pc = "step" => mem.status \in {"RUNNING", "PAUSED", "WAITING_HUMAN"}
    /\ pc \in {"present", "gate", "answered"} => mem.gate # "none"
    /\ pc = "answered" => mem.gate = "ask"
    /\ pc = "failed_resume" => mem.status = "PAUSED"

-----------------------------------------------------------------------------
(* A result moves the state of the running agent.                          *)

LEMMA RecoveryWaits ==
    ASSUME NEW s \in States, NEW d \in States, NEW q, NEW kind \in {"none", "runtime", "coverage"},
           NEW hard \in BOOLEAN, RecoveryOpens(d, q, hard, kind),
           s.task \in Work, s.gate = "none", s.status \in {"RUNNING", "PAUSED"}, d.task = s.task
    PROVE  Waits(s, RecoveryGate(d, q, kind)) /\ Gateless(RecoveryGate(d, q, kind))
<1> DEFINE n == RecoveryGate(d, q, kind)
<1>1. /\ n.task = d.task /\ n.status = "WAITING_HUMAN"
      /\ n.gate = IF q = d.task THEN "ask" ELSE kind
  BY DEF RecoveryGate, States
<1>2. q = d.task \/ kind \in {"runtime", "coverage"}
  BY DEF RecoveryOpens
<1> HIDE DEF n
<1>3. Waits(s, n) /\ Gateless(n)
  BY <1>1, <1>2 DEF Waits, Gateless
<1> QED
  BY <1>3 DEF n

(* What each kind of result comes to.                                      *)
Outcome(r, d, m) ==
    IF r = "ok" THEN Succeeds(d, m) \/ (Waits(d, m) /\ m.gate = "node")
    ELSE Suspends(d, m) \/ Waits(d, m) \/ (r \notin Stops /\ Fails(d, m))

(* Whatever the agent returns, its task waits, is paused, or moves along   *)
(* its success or failure edge.                                            *)
LEMMA AdvanceMoves ==
    ASSUME NEW s \in States, s.task \in Work, s.gate = "none", s.status = "RUNNING",
           NEW r \in Results, NEW q, NEW e \in BOOLEAN
    PROVE  /\ Moves(s, Advance(s, r, q, e)) /\ Gateless(Advance(s, r, q, e))
           /\ Outcome(r, s, Advance(s, r, q, e))
<1> DEFINE n == Advance(s, r, q, e)
<1>0. Signal(r) \in {"none", "runtime", "coverage"} /\ (r = "integrity") \in BOOLEAN
  BY DEF Signal
<1>1. CASE r = "ok"
  <2> DEFINE c == [s EXCEPT !.hist = WithLast(s, "DONE")]
             d == Consumed(c)
  <2>1. c \in States /\ c.gate = "none" /\ c.task = s.task
    BY CloseRunType DEF States, RunStatuses
  <2> HIDE DEF c
  <2>2. d \in States /\ d.gate = "none" /\ d.task = s.task
    BY <2>1, ConsumedType DEF Consumed, States
  <2>3. n = IF s.task \in Gated THEN OpenNodeGate(d) ELSE Transition(d, NextOk[s.task])
    <3>1. n = AdvanceOk(s)
      BY <1>1 DEF Advance, Stops
    <3> QED
      BY <3>1 DEF AdvanceOk, c
  <2> HIDE DEF d, n
  <2>4. CASE s.task \in Gated
    <3>1. n.task = s.task /\ n.status = "WAITING_HUMAN" /\ n.gate = "node"
      BY <2>2, <2>3, <2>4 DEF OpenNodeGate, States
    <3>2. Waits(s, n) /\ Gateless(n)
      BY <2>4, <3>1 DEF Waits, Gateless
    <3> QED
      BY <1>1, <3>1, <3>2 DEF Moves, Outcome, n
  <2>5. CASE s.task \notin Gated
    <3>1. n.task = NextOk[s.task] /\ n.gate = "none" /\ n.status = Entered(NextOk[s.task])
      BY <2>2, <2>3, <2>5, GraphAssumption DEF Transition, States, Entered
    <3>2. Succeeds(s, n) /\ Gateless(n)
      BY <2>5, <3>1 DEF Succeeds, Gateless, Entered
    <3> QED
      BY <1>1, <3>2 DEF Moves, Outcome, n
  <2> QED
    BY <2>4, <2>5
<1>2. CASE r \in Stops
  <2> DEFINE d == [s EXCEPT !.hist = WithLast(s, "INTERRUPTED"),
                            !.err = r = "paused" /\ e]
             g == RecoveryGate(d, q, Signal(r))
             m == MarkInterrupted(d)
  <2>1. d \in States /\ d.gate = "none" /\ d.task = s.task
    <3>1. (r = "paused" /\ e) \in BOOLEAN
      OBVIOUS
    <3> QED
      BY <3>1, CloseRunType DEF RunStatuses, States
  <2>2. n = IF r # "paused" /\ RecoveryOpens(d, q, FALSE, Signal(r)) THEN g ELSE m
    <3>1. n = AdvanceStop(s, r, q, e)
      BY <1>2 DEF Advance, Stops
    <3> QED
      BY <3>1 DEF AdvanceStop
  <2> HIDE DEF d, n
  <2>3. CASE r # "paused" /\ RecoveryOpens(d, q, FALSE, Signal(r))
    <3>1. PICK hard \in BOOLEAN : RecoveryOpens(d, q, hard, Signal(r))
      BY <2>3
    <3>2. Waits(s, g) /\ Gateless(g)
      BY <1>0, <2>1, <3>1, RecoveryWaits
    <3> QED
      BY <1>2, <2>2, <2>3, <3>2 DEF Moves, Outcome, Stops, n
  <2>4. CASE ~(r # "paused" /\ RecoveryOpens(d, q, FALSE, Signal(r)))
    <3>1. m.gate = "none" /\ m.status = "PAUSED" /\ m.task = s.task
      BY <2>1 DEF MarkInterrupted, States
    <3> HIDE DEF m
    <3>2. Suspends(s, m) /\ Gateless(m)
      BY <3>1 DEF Suspends, Gateless
    <3> QED
      BY <1>2, <2>2, <2>4, <3>2 DEF Moves, Outcome, Stops, n
  <2> QED
    BY <2>3, <2>4
<1>3. CASE r # "ok" /\ r \notin Stops
  <2> DEFINE d == [s EXCEPT !.hist = WithLast(s, "FAILED")]
             g == RecoveryGate(d, q, Signal(r))
             t == NextFail[s.task]
             f == [d EXCEPT !.task = t, !.status = "FAILED"]
             o == Transition(d, t)
  <2>1. d \in States /\ d.gate = "none" /\ d.task = s.task
    BY CloseRunType DEF RunStatuses, States
  <2>2. n = IF RecoveryOpens(d, q, r = "integrity", Signal(r)) THEN g
            ELSE IF t \in Terminals THEN f ELSE o
    <3>1. n = AdvanceFail(s, r, q)
      BY <1>3 DEF Advance
    <3> QED
      BY <3>1 DEF AdvanceFail
  <2>3. t \in Tasks
    BY GraphAssumption
  <2> HIDE DEF d, n
  <2>4. CASE RecoveryOpens(d, q, r = "integrity", Signal(r))
    <3>1. PICK hard \in BOOLEAN : RecoveryOpens(d, q, hard, Signal(r))
      BY <1>0, <2>4
    <3>2. Waits(s, g) /\ Gateless(g)
      BY <1>0, <2>1, <3>1, RecoveryWaits
    <3> QED
      BY <1>3, <2>2, <2>4, <3>2 DEF Moves, Outcome, n
  <2>5. CASE ~RecoveryOpens(d, q, r = "integrity", Signal(r)) /\ t \in Terminals
    <3>1. f.task = NextFail[s.task] /\ f.gate = "none" /\ f.status = "FAILED"
      BY <2>1, <2>3 DEF States
    <3>2. f.task \in Terminals
      BY <2>5, <3>1
    <3> HIDE DEF f
    <3>3. Fails(s, f) /\ Gateless(f)
      BY <3>1, <3>2 DEF Fails, Gateless
    <3> QED
      BY <1>3, <2>2, <2>5, <3>3 DEF Moves, Outcome, n
  <2>6. CASE ~RecoveryOpens(d, q, r = "integrity", Signal(r)) /\ t \notin Terminals
    <3>1. o.task = NextFail[s.task] /\ o.gate = "none" /\ o.status = "RUNNING"
      BY <2>1, <2>3, <2>6 DEF Transition, States, Terminals
    <3>2. o.task \notin Terminals
      BY <2>6, <3>1
    <3> HIDE DEF o
    <3>3. Fails(s, o) /\ Gateless(o)
      BY <3>1, <3>2 DEF Fails, Gateless
    <3> QED
      BY <1>3, <2>2, <2>6, <3>3 DEF Moves, Outcome, n
  <2> QED
    BY <2>4, <2>5, <2>6
<1> QED
  BY <1>1, <1>2, <1>3

-----------------------------------------------------------------------------
(* Nothing is due before the first start.                                  *)
LEMMA DueInit == Init => Due
BY DEF Init, Due, Gateless, InitialState

(* A task that cannot start waits at a recovery gate or is paused.         *)
LEMMA BlockDue ==
    ASSUME Safe, Due, AtStep, NEW kind \in {"runtime", "coverage"}, NEW hard \in BOOLEAN,
           mem.task \in Work, Block(kind, hard)
    PROVE  Due' /\ (Waits(disk, disk') \/ Suspends(disk, disk'))
<1>1. /\ mem \in States /\ disk = mem /\ mem.gate = "none"
      /\ mem.status \in {"RUNNING", "PAUSED"}
  BY DEF Safe, Typed, TypeOK, Coherent, Settled, AtStep, Due, Gateless
<1> DEFINE g == RecoveryGate(mem, question, kind)
           p == [mem EXCEPT !.status = "PAUSED", !.err = FALSE]
<1>2. CASE RecoveryOpens(mem, question, hard, kind)
  <2>1. Waits(mem, g) /\ Gateless(g)
    BY <1>1, <1>2, RecoveryWaits
  <2>2. /\ disk' = g /\ mem' = g /\ pc' \in {"present", "closing"}
        /\ pc' = "present" => g.gate # "none"
    BY <1>2 DEF Block, Dump
  <2> HIDE DEF g
  <2> QED
    BY <1>1, <2>1, <2>2 DEF Due
<1>3. CASE ~RecoveryOpens(mem, question, hard, kind)
  <2>1. p.gate = "none" /\ p.status = "PAUSED" /\ p.task = mem.task
    BY <1>1 DEF States
  <2>2. /\ disk' = p /\ mem' = p /\ pc' \in {"present", "closing"}
        /\ pc' = "present" => p.gate # "none"
    BY <1>3 DEF Block, Dump
  <2> HIDE DEF p
  <2> QED
    BY <1>1, <2>1, <2>2 DEF Due, Suspends, Gateless
<1> QED
  BY <1>2, <1>3

(* An immediate gate, or an inferred recovery, waits for the researcher.   *)
LEMMA OpenGateDue ==
    ASSUME Safe, Due, OpenGate
    PROVE  Due' /\ Waits(disk, disk')
<1>1. /\ mem \in States /\ disk = mem /\ mem.gate = "none" /\ mem.task \in Work
      /\ mem.status \in {"RUNNING", "PAUSED"} /\ disk' = mem' /\ pc' = "present"
  BY DEF Safe, Typed, TypeOK, Coherent, Settled, AtStep, Due, Gateless, OpenGate, Dump
<1> DEFINE kind == IF mem.err THEN "runtime" ELSE "none"
           g == RecoveryGate(mem, question, kind)
           o == OpenNodeGate(mem)
<1>2. CASE mem.status = "PAUSED" /\ RecoveryOpens(mem, question, FALSE, kind)
  <2>1. kind \in {"none", "runtime", "coverage"}
    OBVIOUS
  <2>2. mem' = g
    BY <1>2 DEF OpenGate
  <2>3. PICK hard \in BOOLEAN : RecoveryOpens(mem, question, hard, kind)
    BY <1>2
  <2> HIDE DEF kind
  <2>4. Waits(mem, g) /\ Gateless(g)
    BY <1>1, <2>1, <2>3, RecoveryWaits
  <2> HIDE DEF g
  <2> QED
    BY <1>1, <2>2, <2>4 DEF Due, Waits
<1>3. CASE ~(mem.status = "PAUSED" /\ RecoveryOpens(mem, question, FALSE, kind))
  <2>1. mem' = o
    BY <1>3 DEF OpenGate
  <2>2. mem.task \in Gated
    BY <1>1, <1>3, GraphAssumption DEF OpenGate, ShouldPause, RecoveryOpens
  <2>3. o.task = mem.task /\ o.status = "WAITING_HUMAN" /\ o.gate = "node"
    BY <1>1 DEF OpenNodeGate, States
  <2> HIDE DEF o
  <2> QED
    BY <1>1, <2>1, <2>2, <2>3 DEF Due, Waits, Gateless
<1> QED
  BY <1>2, <1>3

(* A pause of the budget opens no gate.                                    *)
LEMMA PauseMarks ==
    ASSUME NEW s \in States, NEW q, NEW e \in BOOLEAN
    PROVE  Advance(s, "paused", q, e).status = "PAUSED"
<1> DEFINE d == [s EXCEPT !.hist = WithLast(s, "INTERRUPTED"), !.err = e]
<1>1. Advance(s, "paused", q, e) = MarkInterrupted(d)
  BY DEF Advance, AdvanceStop, Stops
<1>2. d \in States
  BY CloseRunType DEF RunStatuses, States
<1> HIDE DEF d
<1> QED
  BY <1>1, <1>2 DEF MarkInterrupted, States

(* The question on file goes on waiting, unless the run that outlived it   *)
(* ends as a success or is paused.                                         *)
LEMMA QuestionOutlived ==
    ASSUME NEW s \in States, s.task \in Work, s.gate = "none", s.status = "RUNNING",
           NEW d \in States, d.task = s.task, d.gate = "ask", d.status = "WAITING_HUMAN",
           NEW r \in Results, NEW e \in BOOLEAN
    PROVE  LET n == Advance(s, r, s.task, e) IN
           /\ Gateless(n)
           /\ r \notin {"ok", "paused"} => Stays(d, n)
           /\ Stays(d, n) \/ Lapses(d, n)
<1> DEFINE n == Advance(s, r, s.task, e)
<1>1. Gateless(n) /\ Outcome(r, s, n)
  BY AdvanceMoves
<1>2. r \notin {"ok", "paused"} => n.gate = "ask"
  BY AdvanceKept
<1>4. n.gate = "ask" => r # "ok"
  <2>1. ASSUME r = "ok"
        PROVE  n.gate \in {"node", "none"}
    BY <1>1, <2>1 DEF Outcome, Succeeds
  <2> HIDE DEF n
  <2> QED
    BY <2>1
<1> HIDE DEF n
<1>3. CASE r \notin {"ok", "paused"}
  <2>1. n.task = s.task /\ n.status = "WAITING_HUMAN"
    BY <1>1, <1>2, <1>3 DEF Outcome, Suspends, Waits, Fails
  <2> QED
    BY <1>1, <1>2, <1>3, <2>1 DEF Stays, n
<1>5. CASE r = "ok"
  <2>1. Lapses(d, n)
    BY <1>1, <1>5 DEF Outcome, Succeeds, Waits, Lapses
  <2> QED
    BY <1>1, <1>5, <2>1 DEF n
<1>6. CASE r = "paused"
  <2>1. CASE Suspends(s, n)
    <3>1. Lapses(d, n)
      BY <2>1 DEF Suspends, Lapses
    <3> QED
      BY <1>1, <1>6, <3>1 DEF n
  <2>2. CASE Waits(s, n)
    <3>1. n.status = "PAUSED"
      BY <1>6, PauseMarks DEF n
    <3> QED
      BY <2>2, <3>1 DEF Waits
  <2> QED
    BY <1>1, <1>6, <2>1, <2>2 DEF Outcome, Stops
<1> QED
  BY <1>3, <1>5, <1>6

(* What a result leaves to be dumped, whether or not the run's question    *)
(* waits on file.                                                          *)
LEMMA AdvanceDue ==
    ASSUME Safe, Kept, pc \in {"agent", "ask"}, NEW r \in Results, NEW e \in BOOLEAN,
           pc = "ask" => r \notin {"ok", "paused"}
    PROVE  LET n == Advance(mem, r, question, e) IN
           Gateless(n) /\ (Moves(disk, n) \/ (expired /\ Lapses(disk, n)))
<1> DEFINE n == Advance(mem, r, question, e)
<1>1. /\ mem \in States /\ disk \in States /\ mem.task \in Work
      /\ mem.gate = "none" /\ mem.status = "RUNNING" /\ disk.task = mem.task
      /\ disk.gate = "none" <=> disk = mem
      /\ disk.gate # "none" => disk.gate = "ask" /\ disk.status = "WAITING_HUMAN"
      /\ disk # mem => pc = "ask" \/ expired
      /\ pc = "ask" \/ expired => question = mem.task
  <2>1. pc \in InAgent
    BY DEF InAgent
  <2>2. /\ mem \in States /\ disk \in States /\ mem.gate = "none" /\ mem.status = "RUNNING"
        /\ disk.task = mem.task
        /\ disk.gate = "none" <=> disk = mem
        /\ disk.gate # "none" => disk.gate = "ask" /\ disk.status = "WAITING_HUMAN"
        /\ pc = "agent" /\ ~expired => disk = mem
    BY <2>1, AgentAndFile DEF Open
  <2>3. mem.task \in Work
    BY <2>1 DEF Safe, Typed, AtWork
  <2>4. pc = "ask" \/ expired => question = mem.task
    BY <2>2 DEF Kept
  <2> QED
    BY <2>2, <2>3, <2>4
<1>2. CASE disk = mem
  BY <1>1, <1>2, AdvanceMoves
<1>3. CASE disk # mem
  <2>1. question = mem.task
    BY <1>1, <1>3
  <2>2. /\ Gateless(n)
        /\ r \notin {"ok", "paused"} => Stays(disk, n)
        /\ Stays(disk, n) \/ Lapses(disk, n)
    BY <1>1, <1>3, <2>1, QuestionOutlived
  <2> HIDE DEF n
  <2>3. Gateless(n) /\ (Moves(disk, n) \/ (expired /\ Lapses(disk, n)))
    BY <1>1, <1>3, <2>2 DEF Moves
  <2> QED
    BY <2>3 DEF n
<1> QED
  BY <1>2, <1>3

(* Every step keeps what is not dumped one move away from the file.        *)
LEMMA DueStep ==
    ASSUME Safe, Kept, Due, [Next]_vars
    PROVE  Due'
<1> USE DEF durable, ghosts
<1>1. /\ disk \in States /\ mem \in States
      /\ pc \in InAgent => mem.task \in Work
      /\ pc \in Settled => disk = mem
      /\ expired => pc \in {"agent", "save"}
  BY DEF Safe, Typed, TypeOK, AtWork, Coherent
<1>0. pc \in InAgent \cup {"gate", "answered"} => saved
  <2>1. disk.gate # "none" => saved
    BY DEF Safe, Coherent, InitialState
  <2> QED
    BY <1>1, <2>1 DEF Safe, Coherent, InAgent, Settled, Due
<1>2. CASE UNCHANGED vars
  BY <1>2 DEF vars, Due
<1>3. CASE User
  <2>1. CASE Run
    BY <2>1 DEF Run, Due
  <2>2. CASE Resume
    <3>1. Checkpoint(disk) = disk \/ Checkpoint(disk).status = "PAUSED"
      BY <1>1 DEF Checkpoint, States
    <3> QED
      BY <2>2, <3>1 DEF Resume, Due, Gateless
  <2>3. ASSUME NEW t \in Tasks, ResumeFromTask(t)
        PROVE  Due'
    <3>1. disk'.status = "PAUSED" /\ pc' = "prepare"
      BY <1>1, <2>3 DEF ResumeFromTask, States
    <3> QED
      BY <3>1 DEF Due, Gateless
  <2> QED
    BY <1>3, <2>1, <2>2, <2>3 DEF User
<1>4. CASE Prepared \/ Loading
  <2>1. CASE Prepared \/ LoadNew \/ LoadPaused
    BY <2>1 DEF Prepared, LoadNew, LoadPaused, Due, InitialState
  <2>2. CASE LoadStaleRunning
    <3>1. disk' = mem' /\ mem'.status = "PAUSED" /\ pc' = "step"
      BY <1>1, <2>2 DEF LoadStaleRunning, Dump, MarkInterrupted, States
    <3> QED
      BY <3>1 DEF Due, Gateless
  <2>3. CASE LoadFailed
    <3>1. disk' = mem' /\ mem'.status = "PAUSED" /\ pc' = "failed_resume"
      BY <1>1, <2>3 DEF LoadFailed, Dump, States
    <3> QED
      BY <3>1 DEF Due, Gateless
  <2> QED
    BY <1>4, <2>1, <2>2, <2>3 DEF Loading
<1>5. CASE Stepping
  <2>1. CASE PendingGate
    BY <2>1 DEF PendingGate, Due
  <2>2. CASE AtTerminal
    <3>1. disk'.gate = "none" /\ disk'.status \in {"FAILED", "COMPLETED"} /\ pc' = "closing"
      BY <1>1, <2>2 DEF AtTerminal, AtStep, Dump, States
    <3> QED
      BY <3>1 DEF Due, Gateless
  <2>3. CASE OpenGate
    BY <2>3, OpenGateDue
  <2>4. CASE DeadlockGuard
    BY <2>4, BlockDue DEF DeadlockGuard, AtStart
  <2>5. CASE Start
    <3>1. disk'.status = "RUNNING" /\ pc' = "agent"
      BY <1>1, <2>5 DEF Start, Dump, StartTask, States
    <3> QED
      BY <3>1 DEF Due, Gateless
  <2>6. CASE AskOpened
    <3>1. disk'.status = "WAITING_HUMAN" /\ disk'.gate = "ask" /\ pc' = "ask"
      BY <1>1, <2>6 DEF AskOpened, Asking, States
    <3> QED
      BY <3>1 DEF Due, Gateless
  <2>7. CASE AskClosed
    <3>1. disk'.status = "RUNNING" /\ pc' = "agent"
      <4>1. disk.gate = "ask" /\ disk.task = mem.task
        BY <2>7, AgentAndFile DEF AskClosed, Asking, InAgent, States
      <4> QED
        BY <1>1, <2>7, <4>1 DEF AskClosed, States
    <3> QED
      BY <3>1 DEF Due, Gateless
  <2>8. CASE Save
    <3>1. /\ disk' = mem /\ mem' = mem /\ pc = "save"
          /\ \/ mem.status = "WAITING_HUMAN" /\ pc' = "present"
             \/ mem.status = "RUNNING" /\ pc' = "step"
             \/ pc' = "closing"
      BY <2>8 DEF Save, Dump
    <3> QED
      BY <3>1 DEF Due, Gateless
  <2>9. CASE Present
    BY <1>1, <2>9 DEF Present, Dump, Due, Settled
  <2>10. CASE ResumeAnswered
    <3>1. /\ disk = mem /\ disk' = disk /\ pc' = "save" /\ pc = "answered"
          /\ mem'.task = mem.task /\ mem'.gate = "none" /\ mem'.status = "RUNNING"
      BY <1>1, <2>10 DEF ResumeAnswered, Decided, ResolveAsk, States, Settled
    <3>2. Answers(disk', mem') /\ Gateless(mem')
      BY <3>1 DEF Answers, Gateless, Due
    <3>3. saved'
      BY <1>0, <3>1, <2>10 DEF ResumeAnswered
    <3> QED
      BY <3>1, <3>2, <3>3 DEF Due, Moves
  <2> QED
    BY <1>5, <2>1, <2>2, <2>3, <2>4, <2>5, <2>6, <2>7, <2>8, <2>9, <2>10 DEF Stepping
<1>6. CASE Agent
  <2>1. CASE AgentAsks
    <3>1. disk' = disk /\ mem' = mem /\ pc' \in {"agent", "ask_open"}
      BY <2>1 DEF AgentAsks
    <3> QED
      BY <3>1 DEF Due
  <2>2. CASE AskTimesOut
    BY <2>2 DEF AskTimesOut, Due
  <2>3. ASSUME NEW r \in Results, AgentEnds(r)
        PROVE  Due'
    <3>1. PICK e \in BOOLEAN : mem' = Advance(mem, r, question, e)
      BY <2>3 DEF AgentEnds
    <3>2. disk' = disk /\ pc' = "save" /\ pc = "agent" /\ expired' = expired
      BY <2>3 DEF AgentEnds
    <3>3. Gateless(mem') /\ (Moves(disk, mem') \/ (expired /\ Lapses(disk, mem')))
      BY <3>1, <3>2, AdvanceDue
    <3>4. saved'
      BY <1>0, <3>2, <2>3 DEF AgentEnds, InAgent
    <3> QED
      BY <3>2, <3>3, <3>4 DEF Due
  <2> QED
    BY <1>6, <2>1, <2>2, <2>3 DEF Agent
<1>7. CASE Human \/ InterruptAgent
  <2>1. CASE ContinueFailed \/ PauseFailed
    <3>1. disk' = mem' /\ mem'.status = "PAUSED" /\ pc' \in {"step", "closing"}
      BY <1>1, <2>1 DEF ContinueFailed, PauseFailed, Dump, States, Due
    <3> QED
      BY <3>1 DEF Due, Gateless
  <2>2. CASE AskAnswered
    BY <2>2 DEF AskAnswered, Due
  <2>3. CASE AskUnavailable \/ InterruptAgent
    <3>1. PICK r \in {"stopped", "stopped_signal"}, e \in BOOLEAN :
             mem' = Advance(mem, r, question, e)
      BY <2>3 DEF AskUnavailable, InterruptAgent
    <3>2. /\ disk' = disk /\ pc' = "save" /\ pc \in {"agent", "ask"} /\ expired' = expired
          /\ r \in Results /\ r \notin {"ok", "paused"}
      BY <2>3 DEF AskUnavailable, InterruptAgent, Results, Stops
    <3>3. saved'
      BY <1>0, <3>2, <2>3 DEF AskUnavailable, InterruptAgent, InAgent
    <3>4. Gateless(mem') /\ (Moves(disk, mem') \/ (expired /\ Lapses(disk, mem')))
      BY <3>1, <3>2, AdvanceDue
    <3> QED
      BY <3>2, <3>3, <3>4 DEF Due
  <2>4. ASSUME NEW t \in Tasks, DecideNode(t)
        PROVE  Due'
    <3> DEFINE n == ResolveNode(mem, t, fresh')
    <3>1. n.task = t /\ n.gate = "none" /\ n.status = IF t = mem.task THEN "PAUSED" ELSE Entered(t)
      <4> DEFINE i == IF HasDone(mem, t) THEN [target |-> t, id |-> fresh'] ELSE mem.iter
                 d == [mem EXCEPT !.gate = "none", !.iter = i]
      <4>1. n = IF t = mem.task THEN [d EXCEPT !.status = "PAUSED", !.err = FALSE]
                ELSE Transition(d, t)
        BY <1>1 DEF ResolveNode, States
      <4>2. d.gate = "none" /\ d.task = mem.task /\ DOMAIN d = DOMAIN mem
        BY <1>1 DEF States
      <4>3. {"task", "status", "gate", "err"} \subseteq DOMAIN mem
        BY <1>1 DEF States
      <4> HIDE DEF d, n
      <4>4. CASE t = mem.task
        BY <4>1, <4>2, <4>3, <4>4
      <4>5. CASE t # mem.task
        BY <4>1, <4>2, <4>3, <4>5, GraphAssumption DEF Transition, Entered
      <4> QED
        BY <4>4, <4>5
    <3>2. /\ mem' = n /\ disk' = disk /\ disk = mem /\ pc' = "save"
          /\ mem.gate = "node" /\ t \in Branches[mem.task]
      BY <1>1, <2>4 DEF DecideNode, Decided, AtGate, Settled
    <3> HIDE DEF n
    <3>3. Decides(disk, n) /\ Gateless(n)
      BY <3>1, <3>2 DEF Decides, Gateless, Entered
    <3>4. saved'
      BY <1>0, <2>4 DEF DecideNode, AtGate
    <3> QED
      BY <3>2, <3>3, <3>4 DEF Due, Moves
  <2>5. CASE Retry \/ ReturnForReading
    <3>1. /\ disk' = disk /\ disk = mem /\ pc' = "save"
          /\ mem'.gate = "none" /\ mem'.status = "RUNNING"
          /\ \/ mem.gate = "runtime" /\ mem'.task = mem.task
             \/ mem.gate = "coverage" /\ mem'.task = ReadingTask
      BY <1>1, <2>5 DEF Retry, ReturnForReading, Decided, AtGate, RetryTask, ReturnToReading,
                        States, Settled
    <3>2. Moves(disk, mem') /\ Gateless(mem')
      BY <3>1 DEF Moves, Answers, Returns, Gateless
    <3>3. saved'
      BY <1>0, <2>5 DEF Retry, ReturnForReading, AtGate
    <3> QED
      BY <3>1, <3>2, <3>3 DEF Due
  <2>6. CASE PauseHere
    <3>1. /\ disk' = disk /\ disk = mem /\ pc' = "save" /\ mem.gate # "none"
          /\ mem'.gate = mem.gate /\ mem'.task = mem.task /\ mem'.status = "PAUSED"
      BY <1>1, <2>6 DEF PauseHere, PauseAtGate, States, Settled
    <3>2. Suspends(disk, mem') /\ Gateless(mem')
      BY <3>1 DEF Suspends, Gateless, Due
    <3>3. saved'
      BY <1>0, <2>6 DEF PauseHere
    <3> QED
      BY <3>1, <3>2, <3>3 DEF Due, Moves
  <2>7. CASE HumanUnavailable
    <3>1. disk'.status = "PAUSED" /\ pc' = "closing"
      BY <1>1, <2>7 DEF HumanUnavailable, PauseAtGate, Dump, States
    <3> QED
      BY <3>1 DEF Due, Gateless
  <2>8. CASE GiveAnswer
    BY <2>8 DEF GiveAnswer, AtGate, Due
  <2> QED
    BY <1>7, <2>1, <2>2, <2>3, <2>4, <2>5, <2>6, <2>7, <2>8 DEF Human
<1>8. CASE Trouble
  <2>1. CASE MissingPrerequisites
    BY <2>1, BlockDue DEF MissingPrerequisites
  <2>2. CASE ContextFails
    BY <2>2, BlockDue DEF ContextFails, AtStart
  <2>3. CASE EditInputs
    BY <2>3 DEF EditInputs, Due
  <2>4. CASE Crash
    BY <2>4 DEF Crash, Gone, Due
  <2>5. CASE InterruptCli
    <3>1. disk' = disk \/ disk'.status = "PAUSED"
      <4> DEFINE n == [MarkInterrupted(disk) EXCEPT !.err = FALSE]
      <4>1. n.status = "PAUSED"
        BY <1>1 DEF MarkInterrupted, States
      <4> HIDE DEF n
      <4>2. disk' = disk \/ disk' = n
        BY <2>5 DEF InterruptCli, n
      <4> QED
        BY <4>1, <4>2
    <3>2. pc' = "down"
      BY <2>5 DEF InterruptCli, Gone
    <3> QED
      BY <3>1, <3>2 DEF Due, Gateless
  <2>6. CASE InterruptTask
    <3>1. disk'.status = "PAUSED" /\ pc' = "closing"
      BY <1>1, <2>6 DEF InterruptTask, Dump, MarkInterrupted, States
    <3> QED
      BY <3>1 DEF Due, Gateless
  <2> QED
    BY <1>7, <1>8, <2>1, <2>2, <2>3, <2>4, <2>5, <2>6 DEF Trouble
<1>9. CASE Close
  BY <1>9 DEF Close, Gone, Due
<1> QED
  BY <1>2, <1>3, <1>4, <1>5, <1>6, <1>7, <1>8, <1>9 DEF Next, Process

(* So it is at every moment of every run.                                  *)
LEMMA DueAlways == Spec => [](Safe /\ Kept /\ Due)
<1>1. Init => Due
  BY DueInit
<1>2. Safe /\ Kept /\ Due /\ [Next]_vars => Due'
  BY DueStep
<1> QED
  BY <1>1, <1>2, KeptAlways, PTL DEF Spec

-----------------------------------------------------------------------------
(* The moves of the record are steps of Lifecycle.                         *)

Follows == [Position!Next]_Position!pos

(* Nothing on disk changes: the process comes, goes or works on, and a     *)
(* question that timed out may be put again.                               *)
LEMMA UnwrittenFollows ==
    ASSUME UNCHANGED <<saved, disk>>, expired \in BOOLEAN, expired' \in BOOLEAN,
           expired => pc # "down", expired' => expired /\ pc' # "down"
    PROVE  Follows
<1>1. CASE (pc' # "down") = (pc # "down") /\ expired' = expired
  BY <1>1 DEF Follows, Position!pos, Position!position
<1>2. CASE (pc' # "down") = ~(pc # "down")
  <2>1. Position!ComeOrGo
    BY <1>2 DEF Position!ComeOrGo, Position!position
  <2> QED
    BY <2>1 DEF Follows, Position!Next
<1>3. CASE (pc' # "down") = (pc # "down") /\ expired' # expired
  <2>1. expired /\ ~expired' /\ pc # "down" /\ pc' # "down"
    BY <1>3
  <2>2. Position!Renew
    BY <2>1 DEF Position!Renew, Position!Process, Position!position
  <2> QED
    BY <2>2 DEF Follows, Position!Next
<1> QED
  BY <1>1, <1>2, <1>3

(* The project is paused where it is, by a process that goes or stays.     *)
LEMMA SuspendFollows ==
    ASSUME pc # "down", saved' = TRUE, expired' = FALSE, Suspends(disk, disk')
    PROVE  Follows
<1>1. Position!Suspend
  BY DEF Suspends, Position!Suspend, Position!At
<1> QED
  BY <1>1 DEF Follows, Position!Next

(* The run's success or pause is written over its unanswered question.     *)
LEMMA LapseFollows ==
    ASSUME pc # "down", pc' # "down", saved = TRUE, saved' = TRUE,
           expired = TRUE, expired' = FALSE, Lapses(disk, disk')
    PROVE  Follows
<1> USE DEF Position!Process, Position!At, Position!Work, Position!Terminals, Work, Terminals
<1>1. Position!Lapsed
  BY DEF Lapses, Position!Lapsed
<1>2. Position!Succeed \/ Position!Outlive
  BY <1>1 DEF Lapses, Entered, Position!Entered, Position!Succeed, Position!Outlive
<1> QED
  BY <1>2 DEF Follows, Position!Next

(* A move written by a process that lives on.                              *)
LEMMA MoveFollows ==
    ASSUME disk' \in States, pc # "down", pc' # "down", saved' = TRUE,
           expired \in BOOLEAN, expired' = FALSE,
           saved = TRUE \/ Waits(disk, disk'), Moves(disk, disk')
    PROVE  Follows
<1> USE DEF Position!Process, Position!At, Position!Work, Position!Terminals, Work, Terminals
<1>1. CASE Stays(disk, disk')
  <2>1. saved = TRUE
    BY <1>1 DEF Waits, Stays
  <2>2. CASE expired = FALSE
    BY <1>1, <2>1, <2>2 DEF Stays, Follows, Position!pos, Position!position
  <2>3. CASE expired = TRUE
    <3>1. Position!Renew
      BY <1>1, <2>1, <2>3 DEF Stays, Position!Renew, Position!position
    <3> QED
      BY <3>1 DEF Follows, Position!Next
  <2> QED
    BY <2>2, <2>3
<1>2. CASE Suspends(disk, disk')
  BY <1>2, SuspendFollows
<1>3. CASE Waits(disk, disk')
  <2>1. disk'.gate \in Position!Gates /\ Position!Wait(disk'.gate)
    BY <1>3 DEF Waits, Position!Gates, Position!Wait, Position!Free
  <2> QED
    BY <2>1 DEF Follows, Position!Next
<1>4. CASE Succeeds(disk, disk')
  <2>1. Position!Succeed
    BY <1>4 DEF Succeeds, Waits, Entered, Position!Succeed, Position!Working, Position!Entered
  <2> QED
    BY <2>1 DEF Follows, Position!Next
<1>5. CASE Fails(disk, disk')
  <2>1. Position!Fail
    BY <1>5 DEF Fails, Waits, Position!Fail, Position!Working
  <2> QED
    BY <2>1 DEF Follows, Position!Next
<1>6. CASE Decides(disk, disk')
  <2>1. disk'.task \in Tasks
    BY DEF States
  <2>2. Position!Decide(disk'.task)
    BY <1>6 DEF Decides, Entered, Position!Decide, Position!Entered
  <2> QED
    BY <2>1, <2>2 DEF Follows, Position!Next
<1>7. CASE Answers(disk, disk')
  <2>1. Position!Answer
    BY <1>7 DEF Answers, Position!Answer
  <2> QED
    BY <2>1 DEF Follows, Position!Next
<1>8. CASE Returns(disk, disk')
  <2>1. Position!ReturnForReading
    BY <1>8 DEF Returns, Position!ReturnForReading
  <2> QED
    BY <2>1 DEF Follows, Position!Next
<1> QED
  BY <1>1, <1>2, <1>3, <1>4, <1>5, <1>6, <1>7, <1>8 DEF Moves

(* A workspace without state.yaml is one Lifecycle starts from.            *)
LEMMA InitFollows == Init => Position!Init
BY DEF Init, InitialState, Position!Init

(* Every step of Pipeline is a step of Lifecycle or leaves its view alone. *)
LEMMA StepFollows ==
    ASSUME Safe, Kept, Due, [Next]_vars, disk' \in States, expired' \in BOOLEAN
    PROVE  Follows
<1> USE DEF durable, ghosts
<1>1. /\ disk \in States /\ mem \in States /\ expired \in BOOLEAN
      /\ pc \in Settled => disk = mem
      /\ pc = "agent" /\ ~expired => disk = mem
      /\ expired => pc \in {"agent", "save"}
  BY DEF Safe, Typed, TypeOK, Coherent
<1>17. pc \in InAgent => /\ mem.task \in Work /\ mem.gate = "none" /\ mem.status = "RUNNING"
                         /\ disk.task = mem.task /\ disk.status # "COMPLETED"
                         /\ disk.gate = "none" <=> disk = mem
                         /\ disk.gate # "none" => disk.gate = "ask" /\ disk = Asking(mem)
                         /\ pc \in {"ask", "ask_close"} => disk.gate = "ask"
  <2> SUFFICES ASSUME pc \in InAgent
               PROVE  /\ mem.task \in Work /\ mem.gate = "none" /\ mem.status = "RUNNING"
                      /\ disk.task = mem.task /\ disk.status # "COMPLETED"
                      /\ disk.gate = "none" <=> disk = mem
                      /\ disk.gate # "none" => disk.gate = "ask" /\ disk = Asking(mem)
                      /\ pc \in {"ask", "ask_close"} => disk.gate = "ask"
    OBVIOUS
  <2>1. mem.task \in Work
    BY DEF Safe, Typed, AtWork
  <2>2. /\ mem.gate = "none" /\ mem.status = "RUNNING" /\ disk.task = mem.task
        /\ disk.gate = "none" <=> disk = mem
        /\ disk.gate # "none" => disk.gate = "ask" /\ disk.status = "WAITING_HUMAN"
        /\ disk = mem \/ disk = Asking(mem)
        /\ pc \in {"ask", "ask_close"} => disk = Asking(mem)
    BY AgentAndFile DEF Open
  <2>3. Asking(mem).gate = "ask"
    BY <1>1 DEF Asking, States
  <2> QED
    BY <2>1, <2>2, <2>3
<1>2. disk.gate # "none" \/ disk.status # "RUNNING" \/ pc \in InAgent => saved = TRUE
  BY DEF Safe, Typed, TypeOK, Coherent, InitialState, InAgent
<1>3. CASE UNCHANGED vars
  BY <1>1, <1>3, UnwrittenFollows DEF vars
(* The process starts.                                                     *)
<1>4. CASE User
  <2> USE DEF Position!Enter, Position!Reenter, Position!At, Position!Work, Position!Terminals,
              Work, Terminals
  <2>1. CASE Run
    BY <1>1, <2>1, UnwrittenFollows DEF Run
  <2>2. CASE Resume /\ disk' # disk
    <3> DEFINE t == LitGate[disk.task]
    <3>1. t \in Work /\ t \in Tasks
      BY <1>1, <2>2, PipelineAssumption, GraphAssumption DEF Resume, Checkpoint, States
    <3>2. disk'.task = t /\ disk'.status = "PAUSED" /\ disk'.gate = "none"
      BY <1>1, <2>2, <3>1 DEF Resume, Checkpoint, States
    <3> HIDE DEF t
    <3>3. Position!Reenter(t)
      BY <2>2, <3>1, <3>2, <1>1 DEF Resume, Safe, Typed, TypeOK
    <3> QED
      BY <3>1, <3>3 DEF Follows, Position!Next
  <2>3. CASE Resume /\ disk' = disk
    BY <1>1, <2>3, UnwrittenFollows DEF Resume
  <2>4. ASSUME NEW s \in Tasks, ResumeFromTask(s)
        PROVE  Follows
    <3> DEFINE t == IF LitGate[s] # None THEN LitGate[s] ELSE s
    <3>1. t \in Work /\ t \in Tasks
      BY <2>4, PipelineAssumption, GraphAssumption DEF ResumeFromTask
    <3>2. /\ disk'.task = t /\ disk'.status = "PAUSED" /\ disk'.gate = "none"
          /\ saved /\ saved' = saved /\ pc = "down" /\ pc' = "prepare"
      BY <1>1, <2>4, <3>1 DEF ResumeFromTask, States
    <3> HIDE DEF t
    <3>4. expired' = FALSE
      BY <1>1, <2>4 DEF ResumeFromTask
    <3>3. Position!Reenter(t)
      BY <3>1, <3>2, <3>4
    <3> QED
      BY <3>1, <3>3 DEF Follows, Position!Next
  <2> QED
    BY <1>4, <2>1, <2>2, <2>3, <2>4 DEF User
(* Nothing is written.                                                     *)
<1>5. CASE \/ Prepared \/ LoadNew \/ LoadPaused \/ PendingGate \/ ResumeAnswered \/ Close
           \/ AgentAsks \/ (\E r \in Results : AgentEnds(r))
           \/ AskAnswered \/ AskUnavailable \/ (\E t \in Tasks : DecideNode(t)) \/ Retry
           \/ ReturnForReading \/ PauseHere \/ GiveAnswer \/ InterruptAgent \/ Crash \/ EditInputs
  <2>1. UNCHANGED <<saved, disk>>
    BY <1>5 DEF Prepared, LoadNew, LoadPaused, PendingGate, ResumeAnswered, Close,
                AgentAsks, AgentEnds, AskAnswered, AskUnavailable, DecideNode, Retry,
                ReturnForReading, PauseHere, GiveAnswer, InterruptAgent, Crash, EditInputs
  <2>2. expired' => expired /\ pc' # "down"
    <3>1. CASE \/ LoadNew \/ LoadPaused \/ PendingGate \/ ResumeAnswered \/ Close \/ Crash
               \/ (\E t \in Tasks : DecideNode(t)) \/ Retry \/ ReturnForReading \/ PauseHere
      BY <1>1, <3>1 DEF LoadNew, LoadPaused, PendingGate, AtStep, ResumeAnswered, Close, Crash,
                        DecideNode, AtGate, Retry, ReturnForReading, PauseHere
    <3>2. CASE \/ Prepared \/ AgentAsks \/ (\E r \in Results : AgentEnds(r)) \/ AskAnswered
               \/ AskUnavailable \/ GiveAnswer \/ InterruptAgent \/ EditInputs
      BY <1>1, <3>2 DEF Prepared, AgentAsks, AgentEnds, AskAnswered, AskUnavailable,
                        GiveAnswer, AtGate, InterruptAgent, EditInputs
    <3> QED
      BY <1>5, <3>1, <3>2
  <2> QED
    BY <1>1, <2>1, <2>2, UnwrittenFollows
(* The wait for an answer ends.                                            *)
<1>18. CASE AskTimesOut
  <2>1. /\ UNCHANGED <<saved, disk>> /\ pc # "down" /\ pc' # "down"
        /\ disk.gate = "ask" /\ expired = FALSE /\ expired' = TRUE
    BY <1>1, <1>17, <1>18 DEF AskTimesOut, InAgent
  <2>2. Position!Expire
    BY <2>1 DEF Position!Expire, Position!Process, Position!position
  <2> QED
    BY <2>2 DEF Follows, Position!Next
(* The position stays, the project is paused.                              *)
<1>6. CASE LoadStaleRunning \/ ContinueFailed \/ PauseFailed \/ HumanUnavailable
  <2>0. \/ disk.status = "RUNNING"
        \/ pc = "failed_resume" /\ disk = mem
        \/ pc = "gate" /\ disk = mem
    BY <1>1, <1>6 DEF LoadStaleRunning, ContinueFailed, PauseFailed, HumanUnavailable, Settled
  <2>3. disk.status # "COMPLETED"
    BY <1>1, <2>0 DEF Due, Gateless
  <2>1. pc # "down" /\ saved' = TRUE /\ expired' = FALSE
    BY <1>1, <1>6 DEF LoadStaleRunning, ContinueFailed, PauseFailed, HumanUnavailable, Dump
  <2>2. disk'.task = disk.task /\ disk'.gate = disk.gate /\ disk'.status = "PAUSED"
    <3>1. CASE LoadStaleRunning
      BY <1>1, <3>1 DEF LoadStaleRunning, Dump, MarkInterrupted, States
    <3>2. CASE ContinueFailed \/ PauseFailed
      BY <1>1, <3>2 DEF ContinueFailed, PauseFailed, Dump, Settled, States, Due
    <3>3. CASE HumanUnavailable
      BY <1>1, <3>3 DEF HumanUnavailable, PauseAtGate, Dump, Settled, States
    <3> QED
      BY <1>6, <3>1, <3>2, <3>3
  <2> QED
    BY <2>1, <2>2, <2>3, SuspendFollows DEF Suspends
<1>19. CASE InterruptTask
  <2>1. /\ disk' = mem' /\ mem' = MarkInterrupted(mem)
        /\ pc = "agent" /\ pc' # "down" /\ saved' = TRUE /\ expired' = FALSE
    BY <1>19 DEF InterruptTask, Dump
  <2>2. disk'.task = mem.task /\ disk'.gate = "none" /\ disk'.status = "PAUSED"
    BY <1>1, <1>17, <2>1 DEF MarkInterrupted, InAgent, States
  <2>3. CASE disk = mem
    BY <1>17, <2>1, <2>2, <2>3, SuspendFollows DEF Suspends, InAgent
  <2>4. CASE disk # mem
    <3>1. Lapses(disk, disk') /\ expired = TRUE /\ saved = TRUE
      BY <1>1, <1>2, <1>17, <2>1, <2>2, <2>4 DEF Lapses, InAgent
    <3> QED
      BY <2>1, <3>1, LapseFollows
  <2> QED
    BY <2>3, <2>4
<1>7. CASE InterruptCli
  <2>1. CASE disk' = disk
    BY <1>1, <1>7, <2>1, UnwrittenFollows DEF InterruptCli, Awaits, Gone
  <2>2. CASE disk' # disk
    <3>1. /\ pc # "down" /\ saved /\ saved' = saved /\ disk.status # "COMPLETED"
          /\ disk' = [MarkInterrupted(disk) EXCEPT !.err = FALSE] /\ expired' = FALSE
      BY <1>1, <1>7, <2>2 DEF InterruptCli, Awaits
    <3>2. disk'.task = disk.task /\ disk'.gate = disk.gate /\ disk'.status = "PAUSED"
      BY <1>1, <3>1 DEF MarkInterrupted, States
    <3>3. saved' = TRUE
      BY <3>1 DEF Safe, Typed, TypeOK
    <3> QED
      BY <3>1, <3>2, <3>3, SuspendFollows DEF Suspends
  <2> QED
    BY <2>1, <2>2
(* A task that cannot start waits or is paused.                            *)
<1>8. CASE DeadlockGuard \/ MissingPrerequisites \/ ContextFails
  <2>1. AtStep /\ mem.task \in Work
    BY <1>8 DEF DeadlockGuard, MissingPrerequisites, ContextFails, AtStart
  <2>2. PICK kind \in {"runtime", "coverage"}, hard \in BOOLEAN : Block(kind, hard)
    BY <1>8 DEF DeadlockGuard, MissingPrerequisites, ContextFails
  <2>3. Waits(disk, disk') \/ Suspends(disk, disk')
    BY <2>1, <2>2, BlockDue
  <2>4. pc = "step" /\ saved' = TRUE /\ pc' \in {"present", "closing"} /\ expired' = FALSE
    <3>1. pc = "step"
      BY <2>1 DEF AtStep
    <3>2. saved' = TRUE
      BY <2>2 DEF Block, Dump
    <3>3. pc' = IF mem'.gate # "none" THEN "present" ELSE "closing"
      BY <2>2 DEF Block
    <3>4. expired' = FALSE
      BY <1>1, <2>2, <3>1 DEF Block
    <3> QED
      BY <3>1, <3>2, <3>3, <3>4
  <2>5. Moves(disk, disk')
    BY <2>3 DEF Moves
  <2>6. CASE Waits(disk, disk')
    BY <1>1, <2>4, <2>5, <2>6, MoveFollows
  <2>7. CASE Suspends(disk, disk')
    BY <2>4, <2>7, SuspendFollows
  <2> QED
    BY <2>3, <2>6, <2>7
<1>9. CASE OpenGate
  <2>1. Waits(disk, disk')
    BY <1>9, OpenGateDue
  <2>2. pc # "down" /\ pc' # "down" /\ saved' = TRUE /\ expired' = FALSE
    BY <1>1, <1>9 DEF OpenGate, AtStep, Dump
  <2> QED
    BY <1>1, <2>1, <2>2, MoveFollows DEF Moves
<1>10. CASE AskOpened
  <2>1. pc = "ask_open" /\ pc' # "down" /\ saved' = saved /\ saved = TRUE /\ expired' = FALSE
    BY <1>1, <1>2, <1>10 DEF AskOpened, InAgent
  <2>2. CASE disk = mem
    <3>1. Waits(disk, disk')
      BY <1>1, <1>10, <1>17, <2>1, <2>2 DEF AskOpened, Asking, Waits, InAgent, States
    <3> QED
      BY <1>1, <2>1, <3>1, MoveFollows DEF Moves
  <2>3. CASE disk # mem
    <3>1. disk' = disk
      <4>1. disk = Asking(mem)
        BY <1>17, <2>1, <2>3 DEF InAgent
      <4>2. disk' = Asking(disk)
        BY <1>10 DEF AskOpened
      <4>3. Open(mem) /\ mem \in States
        BY <2>1, AgentAndFile DEF InAgent
      <4> QED
        BY <4>1, <4>2, <4>3, AskTwice
    <3> QED
      BY <1>1, <2>1, <3>1, UnwrittenFollows
  <2> QED
    BY <2>2, <2>3
<1>11. CASE AskClosed
  <2>1. Answers(disk, disk')
    BY <1>1, <1>11, <1>17 DEF AskClosed, Answers, InAgent, States
  <2>2. pc # "down" /\ pc' # "down" /\ saved = TRUE /\ saved' = TRUE /\ expired' = FALSE
    BY <1>1, <1>2, <1>11 DEF AskClosed, InAgent
  <2> QED
    BY <1>1, <2>1, <2>2, MoveFollows DEF Moves
(* What the runner knew is written.                                        *)
<1>12. CASE Save
  <2>1. (Moves(disk, disk') \/ (expired /\ Lapses(disk, disk'))) /\ saved = TRUE
    BY <1>12 DEF Save, Dump, Due, Safe, Typed, TypeOK
  <2>2. pc # "down" /\ pc' # "down" /\ saved' = TRUE /\ expired' = FALSE
    BY <1>12 DEF Save, Dump
  <2> QED
    BY <1>1, <2>1, <2>2, MoveFollows, LapseFollows
<1>13. CASE Present
  <2>1. disk' = disk /\ saved' = saved
    BY <1>1, <1>2, <1>13 DEF Present, Dump, Due, Settled
  <2>2. expired' = FALSE /\ expired = FALSE
    BY <1>1, <1>13 DEF Present
  <2> QED
    BY <2>1, <2>2, UnwrittenFollows
(* The steps of the process with a name of their own in Lifecycle.         *)
<1>14. CASE Start
  <2>1. /\ disk'.task = disk.task /\ disk'.status = "RUNNING" /\ disk'.gate = "none"
        /\ disk.task \in Work /\ disk.gate = "none" /\ disk.status \in {"RUNNING", "PAUSED"}
        /\ pc # "down" /\ pc' # "down" /\ saved' = TRUE /\ expired' = FALSE
    BY <1>1, <1>14 DEF Start, AtStart, AtStep, StartTask, Dump, Due, Gateless, Settled, States
  <2>2. Position!Launch
    BY <2>1 DEF Position!Launch, Position!Free, Position!Process, Position!At, Position!Work,
                Position!Terminals, Work, Terminals
  <2> QED
    BY <2>2 DEF Follows, Position!Next
<1>15. CASE AtTerminal
  <2>1. /\ disk'.task = disk.task /\ disk'.gate = "none" /\ disk.gate = "none"
        /\ disk'.status = (IF disk.status = "FAILED" THEN "FAILED" ELSE "COMPLETED")
        /\ disk.task \in Terminals /\ pc # "down" /\ pc' # "down" /\ saved' = TRUE
        /\ expired = FALSE /\ expired' = FALSE
    BY <1>1, <1>15 DEF AtTerminal, AtStep, Dump, Settled, States
  <2>2. CASE disk.status = "FAILED"
    BY <1>2, <2>1, <2>2 DEF Follows, Position!pos, Position!position
  <2>3. CASE disk.status # "FAILED"
    <3>1. Position!Finish
      BY <2>1, <2>3 DEF Position!Finish, Position!Process, Position!At, Position!Terminals,
                        Terminals
    <3> QED
      BY <3>1 DEF Follows, Position!Next
  <2> QED
    BY <2>2, <2>3
<1>16. CASE LoadFailed
  <2>1. PICK t \in Tasks, e \in BOOLEAN :
           mem' = [disk EXCEPT !.task = t, !.status = "PAUSED", !.err = e]
    BY <1>16, Zenon DEF LoadFailed
  <2>2. /\ disk' = mem' /\ disk.status = "FAILED" /\ disk.gate = "none"
        /\ pc # "down" /\ pc' # "down" /\ saved' = TRUE /\ expired' = FALSE
    BY <1>1, <1>16 DEF LoadFailed, Dump, Kept
  <2>3. disk'.task = t /\ disk'.status = "PAUSED" /\ disk'.gate = "none"
    BY <1>1, <2>1, <2>2 DEF States
  <2>4. Position!Revive(t)
    BY <2>2, <2>3 DEF Position!Revive, Position!Process, Position!At
  <2> QED
    BY <2>4 DEF Follows, Position!Next
<1> QED
  BY <1>3, <1>4, <1>5, <1>6, <1>7, <1>8, <1>9, <1>10, <1>11, <1>12, <1>13, <1>14, <1>15, <1>16,
     <1>18, <1>19 DEF Next, Process, Loading, Stepping, Agent, Human, Trouble

(* Pipeline implements Lifecycle: whatever crashes, is interrupted, lost   *)
(* or re-entered, state.yaml moves only as the life cycle allows.  Only a  *)
(* run whose question timed out may succeed or be paused from a position   *)
(* that waits, and no gate of a node is passed that way.                   *)
THEOREM PipelineFollowsLifecycle == Spec => FollowsLifecycle
<1>1. Init => Position!Init
  BY InitFollows
<1>2. Safe /\ Kept /\ Due /\ [Next]_vars /\ Safe' => [Position!Next]_Position!pos
  <2>1. Safe' => disk' \in States /\ expired' \in BOOLEAN
    BY DEF Safe, Typed, TypeOK
  <2> QED
    BY <2>1, StepFollows DEF Follows
<1>3. Spec => Position!Spec
  BY <1>1, <1>2, DueAlways, PTL DEF Spec, Position!Spec
<1> QED
  BY <1>3 DEF FollowsLifecycle

-----------------------------------------------------------------------------
(* Where the position may go without the researcher.                       *)

(* No agent's success leads to the failed node.                            *)
SuccessNeverFails == \A t \in Work \ Gated : NextOk[t] # Failed

(* The researcher sent the run to where s stands, if only a gate leads     *)
(* there; while s waits at the gate of its node, that decision is open.    *)
Sent(s, a) == IF s.gate = "node" THEN s.task \in Gated
              ELSE s.task \in BehindGate \ Immediate => s.task \in a

(* A failed record stands at a terminal node, and its newest run is the    *)
(* failed one: an agent that had been sent to its task.                    *)
Culprit(s, a) ==
    s.status = "FAILED" =>
        /\ s.task \in Terminals /\ s.hist # <<>>
        /\ s.hist[Len(s.hist)].status = "FAILED"
        /\ s.hist[Len(s.hist)].task \in BehindGate => s.hist[Len(s.hist)].task \in a

WorkRuns(h) == \A i \in DOMAIN h : h[i].task \in Work

Traced(s, a) == Sent(s, a) /\ Culprit(s, a) /\ WorkRuns(s.hist)

(* The inductive invariant: what a resume may take up again is traced, and *)
(* no agent runs at a gate-only task.                                      *)
Guided ==
    /\ Traced(disk, allowed) /\ Traced(mem, allowed)
    /\ pc \in InAgent => mem.task \notin Immediate
    /\ FailedResumeAtCulprit

SameRuns(s, n) == n.hist = s.hist \/ \E st \in RunStatuses : n.hist = WithLast(s, st)

LEMMA LastRun ==
    ASSUME NEW s \in States, s.hist # <<>>
    PROVE  /\ s.hist \in Seq(Runs) /\ Len(s.hist) \in DOMAIN s.hist
           /\ Len(s.hist) \in Nat /\ DOMAIN s.hist = 1 .. Len(s.hist)
           /\ s.hist[Len(s.hist)] \in Runs
<1>1. s.hist \in Seq(Runs)
  BY Fields
<1>2. Len(s.hist) \in Nat \ {0}
  BY <1>1, EmptySeq
<1>3. Len(s.hist) \in 1 .. Len(s.hist)
  BY <1>2
<1>4. s.hist[Len(s.hist)] \in Runs
  BY <1>1, <1>3, ElementOfSeq
<1> QED
  BY <1>1, <1>2, <1>3, <1>4

(* Closing a run changes no run's task.                                    *)
LEMMA SameRunsWork ==
    ASSUME NEW s \in States, NEW n \in States, SameRuns(s, n), WorkRuns(s.hist)
    PROVE  WorkRuns(n.hist)
<1>1. CASE n.hist = s.hist \/ s.hist = <<>>
  BY <1>1 DEF SameRuns, WithLast
<1>2. CASE n.hist # s.hist /\ s.hist # <<>>
  <2>1. PICK st \in RunStatuses : n.hist = WithLast(s, st)
    BY <1>2 DEF SameRuns
  <2> DEFINE l == Len(s.hist)
             e == [s.hist[l] EXCEPT !.status = st]
  <2>2. n.hist = [s.hist EXCEPT ![l] = e]
    BY <1>2, <2>1 DEF WithLast
  <2>3. e.task = s.hist[l].task
    <3>1. s.hist[l] \in Runs
      BY <1>2, LastRun
    <3> HIDE DEF l
    <3> QED
      BY <3>1 DEF Runs
  <2>4. l \in DOMAIN s.hist
    BY <1>2, LastRun
  <2> HIDE DEF l, e
  <2>5. \A i \in DOMAIN s.hist : n.hist[i].task = s.hist[i].task
    BY <2>2, <2>3, <2>4
  <2>6. DOMAIN n.hist = DOMAIN s.hist
    BY <2>2
  <2> QED
    BY <2>5, <2>6 DEF WorkRuns
<1> QED
  BY <1>1, <1>2

(* Wherever a record that has not failed is sent, it is traced.            *)
LEMMA TracedMove ==
    ASSUME NEW s \in States, NEW n \in States, NEW a, NEW b, Traced(s, a),
           SameRuns(s, n), Sent(n, b), n.status # "FAILED"
    PROVE  Traced(n, b)
<1>1. WorkRuns(n.hist)
  BY SameRunsWork DEF Traced
<1> QED
  BY <1>1 DEF Traced, Culprit

(* A record that stays where it is, or that lost nothing, stays traced.    *)
LEMMA TracedStay ==
    ASSUME NEW s \in States, NEW n \in States, NEW a, NEW b, a \subseteq b, Traced(s, a),
           SameRuns(s, n), n.task = s.task, s.gate = "node" <=> n.gate = "node",
           n.status # "FAILED"
    PROVE  Traced(n, b)
BY TracedMove DEF Traced, Sent

LEMMA TracedMore ==
    ASSUME NEW s, NEW a, NEW b, a \subseteq b, Traced(s, a)
    PROVE  Traced(s, b)
BY DEF Traced, Sent, Culprit

-----------------------------------------------------------------------------
(* How a result closes the run of its agent.                               *)
Closing(r) == IF r = "ok" THEN "DONE" ELSE IF r \in Stops THEN "INTERRUPTED" ELSE "FAILED"

(* The history a result leaves: the agent's run is closed, as failed if    *)
(* the record has failed.                                                  *)
LEMMA AdvanceCloses ==
    ASSUME NEW s \in States, Open(s), s.task \in Work,
           NEW r \in Results, NEW q, NEW e \in BOOLEAN
    PROVE  LET n == Advance(s, r, q, e) IN
           /\ n.hist = WithLast(s, Closing(r))
           /\ \E st \in {"DONE", "INTERRUPTED", "FAILED"} : n.hist = WithLast(s, st)
           /\ SameRuns(s, n)
           /\ SuccessNeverFails /\ n.status = "FAILED" => n.hist = WithLast(s, "FAILED")
<1> DEFINE n == Advance(s, r, q, e)
<1>0. s.hist # <<>>
  BY DEF Open
<1>1. CASE r = "ok"
  <2> DEFINE c == [s EXCEPT !.hist = WithLast(s, "DONE")]
             d == Consumed(c)
  <2>1. c \in States /\ c.hist = WithLast(s, "DONE")
    BY CloseRunType DEF States, RunStatuses
  <2> HIDE DEF c
  <2>2. d \in States /\ d.hist = WithLast(s, "DONE")
    BY <2>1, ConsumedType DEF Consumed, States
  <2>3. n = IF s.task \in Gated THEN OpenNodeGate(d) ELSE Transition(d, NextOk[s.task])
    <3>1. n = AdvanceOk(s)
      BY <1>1 DEF Advance, Stops
    <3> QED
      BY <3>1 DEF AdvanceOk, c
  <2> HIDE DEF d, n
  <2>4. n.hist = WithLast(s, "DONE")
    BY <2>2, <2>3 DEF OpenNodeGate, Transition, States
  <2>5. SuccessNeverFails => n.status # "FAILED"
    BY <2>2, <2>3 DEF OpenNodeGate, Transition, States, SuccessNeverFails
  <2> QED
    BY <1>1, <2>4, <2>5 DEF SameRuns, RunStatuses, Closing, n
<1>2. CASE r \in Stops
  <2> DEFINE d == [s EXCEPT !.hist = WithLast(s, "INTERRUPTED"),
                            !.err = r = "paused" /\ e]
             g == RecoveryGate(d, q, Signal(r))
             m == MarkInterrupted(d)
  <2>1. d \in States /\ d.hist = WithLast(s, "INTERRUPTED")
    <3>1. (r = "paused" /\ e) \in BOOLEAN
      OBVIOUS
    <3> QED
      BY <3>1, CloseRunType DEF RunStatuses, States
  <2>2. n = g \/ n = m
    <3>1. n = AdvanceStop(s, r, q, e)
      BY <1>2 DEF Advance, Stops
    <3> QED
      BY <3>1 DEF AdvanceStop
  <2>3. LastIs(d, {"DONE", "FAILED", "INTERRUPTED"})
    <3> DEFINE l == Len(s.hist)
               x == [s.hist[l] EXCEPT !.status = "INTERRUPTED"]
    <3>1. l \in DOMAIN s.hist /\ l \in Nat /\ s.hist[l] \in Runs
      BY <1>0, LastRun
    <3>2. x.status = "INTERRUPTED"
      BY <3>1 DEF Runs
    <3>3. d.hist = [s.hist EXCEPT ![l] = x]
      BY <1>0, <2>1 DEF WithLast
    <3>4. Len(d.hist) = l /\ d.hist # <<>>
      BY <1>0, <2>1, WithLastType, LastRun, EmptySeq DEF RunStatuses
    <3> HIDE DEF d, l, x
    <3>5. d.hist[l] = x
      BY <3>1, <3>3
    <3> QED
      BY <3>2, <3>4, <3>5 DEF LastIs
  <2> HIDE DEF d, n
  <2>4. m.hist = d.hist /\ m.status = "PAUSED"
    BY <2>1, <2>3 DEF MarkInterrupted, States
  <2>5. g.hist = d.hist /\ g.status = "WAITING_HUMAN"
    BY <2>1 DEF RecoveryGate, States
  <2> HIDE DEF g, m
  <2>6. n.hist = WithLast(s, "INTERRUPTED") /\ n.status # "FAILED"
    BY <2>1, <2>2, <2>4, <2>5
  <2> QED
    BY <1>2, <2>6 DEF SameRuns, RunStatuses, Closing, Stops, n
<1>3. CASE r # "ok" /\ r \notin Stops
  <2> DEFINE d == [s EXCEPT !.hist = WithLast(s, "FAILED")]
             g == RecoveryGate(d, q, Signal(r))
             t == NextFail[s.task]
             f == [d EXCEPT !.task = t, !.status = "FAILED"]
             o == Transition(d, t)
  <2>1. d \in States /\ d.hist = WithLast(s, "FAILED")
    BY CloseRunType DEF RunStatuses, States
  <2>2. n = g \/ n = f \/ n = o
    <3>1. n = AdvanceFail(s, r, q)
      BY <1>3 DEF Advance
    <3> QED
      BY <3>1 DEF AdvanceFail
  <2> HIDE DEF d, n, t
  <2>3. g.hist = d.hist /\ f.hist = d.hist /\ o.hist = d.hist
    BY <2>1 DEF RecoveryGate, Transition, States
  <2> HIDE DEF f, g, o
  <2>4. n.hist = WithLast(s, "FAILED")
    BY <2>1, <2>2, <2>3
  <2> QED
    BY <1>3, <2>4 DEF SameRuns, RunStatuses, Closing, n
<1> QED
  BY <1>1, <1>2, <1>3

(* If the project fails, the agent's run is the culprit.                   *)
LEMMA AdvanceCulprit ==
    ASSUME SuccessNeverFails, NEW s \in States, Open(s), s.task \in Work,
           NEW a, s.task \in BehindGate => s.task \in a,
           NEW r \in Results, NEW q, NEW e \in BOOLEAN
    PROVE  Culprit(Advance(s, r, q, e), a)
<1> DEFINE n == Advance(s, r, q, e)
<1> SUFFICES ASSUME n.status = "FAILED"
             PROVE  Culprit(n, a)
  BY DEF Culprit
<1>1. /\ s.gate = "none" /\ s.status = "RUNNING" /\ s.hist # <<>>
      /\ s.hist[Len(s.hist)] = [task |-> s.task, status |-> "RUNNING"]
  BY DEF Open
<1>2. Moves(s, n) /\ n.hist = WithLast(s, "FAILED")
  BY <1>1, AdvanceMoves, AdvanceCloses
<1> HIDE DEF n
<1> DEFINE l == Len(s.hist)
           x == [s.hist[l] EXCEPT !.status = "FAILED"]
<1>3. n.task \in Terminals
  <2>1. Succeeds(s, n) \/ Fails(s, n)
    BY <1>1, <1>2, GraphAssumption
       DEF Moves, Stays, Suspends, Waits, Decides, Answers, Returns, Entered
  <2> QED
    BY <2>1 DEF Succeeds, Fails, Entered, Terminals
<1>4. x.task = s.task /\ x.status = "FAILED"
  BY <1>1
<1>5. l \in DOMAIN s.hist /\ l \in Nat /\ n.hist = [s.hist EXCEPT ![l] = x]
  BY <1>1, <1>2, LastRun DEF WithLast
<1>6. Len(n.hist) = l /\ n.hist # <<>>
  BY <1>1, <1>2, WithLastType, LastRun, EmptySeq DEF RunStatuses
<1> HIDE DEF l, x
<1>7. n.hist[Len(n.hist)] = x
  BY <1>5, <1>6
<1> QED
  BY <1>3, <1>4, <1>6, <1>7 DEF Culprit

(* An agent's result leads only to tasks that are open to agents, or back  *)
(* to its own.                                                             *)
LEMMA AdvanceTraced ==
    ASSUME SuccessNeverFails, NEW s \in States, Open(s), s.task \in Work \ Immediate,
           NEW a, Traced(s, a), NEW r \in Results, NEW q, NEW e \in BOOLEAN
    PROVE  Traced(Advance(s, r, q, e), a)
<1> DEFINE n == Advance(s, r, q, e)
<1>1. n \in States
  BY AdvanceType
<1>2. Moves(s, n)
  BY AdvanceMoves DEF Open
<1>3. SameRuns(s, n)
  BY AdvanceCloses
<1>4. /\ s.gate = "none" /\ s.status = "RUNNING" /\ s.hist # <<>>
      /\ s.hist[Len(s.hist)] = [task |-> s.task, status |-> "RUNNING"]
  BY DEF Open
<1> HIDE DEF n
<1>5. Sent(n, a)
  <2>1. CASE n.task = s.task
    <3>1. n.gate = "node" => n.task \in Gated
      BY <1>2, <1>4 DEF Moves, Stays, Suspends, Waits, Succeeds, Fails, Decides, Answers, Returns
    <3> QED
      BY <1>4, <2>1, <3>1 DEF Traced, Sent
  <2>2. CASE n.task # s.task
    <3>1. Succeeds(s, n) \/ Fails(s, n)
      BY <1>2, <1>4, <2>2 DEF Moves, Stays, Suspends, Waits, Decides, Answers, Returns
    <3>2. n.task \notin BehindGate /\ n.gate = "none"
      BY <3>1 DEF Succeeds, Fails, BehindGate
    <3> QED
      BY <3>2 DEF Sent
  <2> QED
    BY <2>1, <2>2
<1>6. Culprit(n, a)
  <2>1. s.task \in BehindGate => s.task \in a
    BY <1>4 DEF Traced, Sent
  <2> QED
    BY <2>1, AdvanceCulprit DEF n
<1>7. WorkRuns(n.hist)
  BY <1>1, <1>3, SameRunsWork DEF Traced
<1> QED
  BY <1>5, <1>6, <1>7 DEF Traced, n

(* The task whose run failed last is the one _last_failed_task_history     *)
(* finds, since no run is a terminal node's.                               *)
LEMMA FailedFound ==
    ASSUME NEW s \in States, NEW a, Traced(s, a), s.status = "FAILED",
           NEW t \in Tasks, FailedLast(s, t)
    PROVE  /\ s.hist # <<>> /\ s.hist[Len(s.hist)] = [task |-> t, status |-> "FAILED"]
           /\ t \in BehindGate => t \in a
<1> DEFINE h == s.hist
           l == Len(h)
<1>1. /\ s.task \in Terminals /\ h # <<>> /\ h[l].status = "FAILED"
      /\ h[l].task \in BehindGate => h[l].task \in a
  BY DEF Traced, Culprit
<1>2. l \in DOMAIN h /\ l \in Nat /\ DOMAIN h = 1 .. l /\ h[l] \in Runs
  BY <1>1, LastRun
<1>3. FailedRuns(s) = {i \in DOMAIN h : h[i].status = "FAILED"}
  <2>1. \A i \in DOMAIN h : h[i].task # s.task
    BY <1>1 DEF Traced, WorkRuns, Work
  <2> QED
    BY <1>1, <2>1 DEF FailedRuns
<1> HIDE DEF l
<1>4. l \in FailedRuns(s)
  BY <1>1, <1>2, <1>3
<1>5. PICK i \in FailedRuns(s) : h[i].task = t /\ \A j \in FailedRuns(s) : j <= i
  BY <1>4 DEF FailedLast
<1>6. i = l
  <2>1. i \in 1 .. l
    BY <1>2, <1>3
  <2>2. l <= i
    BY <1>4, <1>5
  <2> QED
    BY <1>2, <2>1, <2>2
<1>7. h[l] = [task |-> t, status |-> "FAILED"]
  <2>1. h[l].task = t /\ h[l].status = "FAILED"
    BY <1>1, <1>5, <1>6
  <2> HIDE DEF h
  <2> QED
    BY <1>2, <2>1 DEF Runs
<1> QED
  BY <1>1, <1>5, <1>6, <1>7 DEF l

-----------------------------------------------------------------------------
LEMMA GuidedInit == Init => Guided
<1> SUFFICES ASSUME Init PROVE Guided
  OBVIOUS
<1>1. /\ InitialState.status = "RUNNING" /\ InitialState.task = Initial
      /\ InitialState.gate = "none" /\ InitialState.hist = <<>>
  BY DEF InitialState
<1>2. Traced(InitialState, allowed)
  BY <1>1 DEF Traced, Sent, Culprit, WorkRuns, BehindGate
<1> QED
  BY <1>2 DEF Init, Guided, InAgent, FailedResumeAtCulprit

(* A task that cannot start stays where it is.                             *)
LEMMA BlockTraced ==
    ASSUME Safe, Guided, AtStep, NEW kind \in {"runtime", "coverage"}, NEW hard \in BOOLEAN,
           Block(kind, hard), mem' \in States
    PROVE  Traced(mem', allowed)
<1> DEFINE g == RecoveryGate(mem, question, kind)
           p == [mem EXCEPT !.status = "PAUSED", !.err = FALSE]
<1>1. mem \in States /\ mem.gate = "none"
  BY DEF Safe, Typed, TypeOK, AtStep
<1>2. g.task = mem.task /\ g.status = "WAITING_HUMAN" /\ g.hist = mem.hist /\ g.gate # "node"
  BY <1>1 DEF RecoveryGate, States
<1>3. p.task = mem.task /\ p.status = "PAUSED" /\ p.hist = mem.hist /\ p.gate # "node"
  BY <1>1 DEF States
<1>4. mem' = g \/ mem' = p
  BY DEF Block
<1> HIDE DEF g, p
<1>5. /\ mem'.task = mem.task /\ mem'.status # "FAILED" /\ mem'.gate # "node"
      /\ SameRuns(mem, mem')
  BY <1>2, <1>3, <1>4 DEF SameRuns
<1> QED
  BY <1>1, <1>5, TracedStay DEF Guided

(* What a resume, a re-entry and the start of the runner make of the file. *)
LEMMA GuidedEntry ==
    ASSUME Safe, Kept, Guided, User \/ Prepared \/ Loading, disk' \in States, mem' \in States
    PROVE  Guided'
<1> USE DEF durable, ghosts
<1>1. disk \in States /\ mem \in States /\ Traced(disk, allowed) /\ Traced(mem, allowed)
  BY DEF Safe, Typed, TypeOK, Guided
<1>2. CASE Run \/ Prepared
  BY <1>2 DEF Run, Prepared, Guided, InAgent, FailedResumeAtCulprit
<1>3. CASE Resume
  <2> DEFINE n == Checkpoint(disk)
  <2>1. CASE n = disk
    BY <1>3, <2>1 DEF Resume, Guided, InAgent, FailedResumeAtCulprit
  <2>2. CASE n # disk
    <3>1. /\ n.task \in Immediate /\ n.status = "PAUSED" /\ n.gate = "none"
          /\ n.hist = disk.hist
      BY <1>1, <2>2, PipelineAssumption DEF Checkpoint, States
    <3>2. disk' = n /\ mem' = mem /\ allowed' = allowed /\ pc' = "prepare"
      BY <1>3 DEF Resume
    <3> HIDE DEF n
    <3>3. Traced(disk', allowed)
      BY <1>1, <3>1, <3>2, TracedMove DEF Sent, SameRuns
    <3> QED
      BY <1>1, <3>2, <3>3 DEF Guided, InAgent, FailedResumeAtCulprit
  <2> QED
    BY <2>1, <2>2
<1>4. ASSUME NEW t \in Tasks, ResumeFromTask(t)
      PROVE  Guided'
  <2> DEFINE target == IF LitGate[t] # None THEN LitGate[t] ELSE t
  <2>1. target \in Tasks
    BY PipelineAssumption, GraphAssumption DEF Work
  <2>2. /\ disk'.task = target /\ disk'.status = "PAUSED" /\ disk'.gate = "none"
        /\ disk'.hist = disk.hist
    BY <1>1, <1>4, <2>1 DEF ResumeFromTask, States
  <2>3. mem' = mem /\ allowed' = allowed \cup {target} /\ pc' = "prepare"
    BY <1>4 DEF ResumeFromTask
  <2> HIDE DEF target
  <2>4. Traced(disk', allowed')
    BY <1>1, <2>2, <2>3, TracedMove DEF Sent, SameRuns
  <2>5. Traced(mem', allowed')
    BY <1>1, <2>3, TracedMore
  <2> QED
    BY <2>3, <2>4, <2>5 DEF Guided, InAgent, FailedResumeAtCulprit
<1>5. CASE LoadNew \/ LoadPaused
  <2>1. mem' = disk
    BY <1>5 DEF LoadNew, LoadPaused, Safe, Coherent
  <2> QED
    BY <1>5, <2>1 DEF LoadNew, LoadPaused, Guided, InAgent, FailedResumeAtCulprit
<1>6. CASE LoadStaleRunning
  <2> DEFINE m == MarkInterrupted(disk)
             n == [m EXCEPT !.err = FALSE]
  <2>1. m.task = disk.task /\ m.gate = disk.gate /\ m.status = "PAUSED" /\ SameRuns(disk, m)
    BY <1>1 DEF MarkInterrupted, States, SameRuns, RunStatuses
  <2> HIDE DEF m
  <2>2. n.task = m.task /\ n.gate = m.gate /\ n.status = m.status /\ n.hist = m.hist
    OBVIOUS
  <2>3. disk' = mem' /\ mem' = n /\ allowed' = allowed /\ pc' = "step"
    BY <1>6 DEF LoadStaleRunning, Dump, m
  <2> HIDE DEF n
  <2>4. SameRuns(disk, n)
    BY <2>1, <2>2 DEF SameRuns
  <2>5. Traced(n, allowed)
    BY <1>1, <2>1, <2>2, <2>3, <2>4, TracedStay
  <2> QED
    BY <2>3, <2>5 DEF Guided, InAgent, FailedResumeAtCulprit
<1>7. CASE LoadFailed
  <2>1. PICK t \in Tasks, e \in BOOLEAN :
           FailedLast(disk, t) /\ mem' = [disk EXCEPT !.task = t, !.status = "PAUSED", !.err = e]
    BY <1>7, Zenon DEF LoadFailed
  <2>2. /\ disk' = mem' /\ disk.status = "FAILED" /\ disk.gate = "none"
        /\ allowed' = allowed /\ pc' = "failed_resume"
    BY <1>7 DEF LoadFailed, Dump, Kept
  <2>3. /\ mem'.task = t /\ mem'.status = "PAUSED" /\ mem'.gate = "none"
        /\ mem'.hist = disk.hist
    BY <1>1, <2>1, <2>2 DEF States
  <2>4. /\ disk.hist # <<>>
        /\ disk.hist[Len(disk.hist)] = [task |-> t, status |-> "FAILED"]
        /\ t \in BehindGate => t \in allowed
    BY <1>1, <2>1, <2>2, FailedFound
  <2>5. Traced(mem', allowed)
    BY <1>1, <2>3, <2>4, TracedMove DEF Sent, SameRuns
  <2> QED
    BY <2>2, <2>3, <2>4, <2>5 DEF Guided, InAgent, FailedResumeAtCulprit
<1> QED
  BY <1>2, <1>3, <1>4, <1>5, <1>6, <1>7 DEF User, Loading

(* What the process does by itself.                                        *)
LEMMA GuidedStepping ==
    ASSUME Safe, Kept, Due, Guided, Stepping, disk' \in States, mem' \in States
    PROVE  Guided'
<1> USE DEF durable, ghosts
<1>1. /\ disk \in States /\ mem \in States /\ Traced(disk, allowed) /\ Traced(mem, allowed)
      /\ pc \in Settled => disk = mem
      /\ pc \in InAgent => mem.task \notin Immediate
  BY DEF Safe, Typed, TypeOK, Coherent, Guided
<1>2. CASE PendingGate
  BY <1>2 DEF PendingGate, Guided, InAgent, FailedResumeAtCulprit
<1>3. CASE AtTerminal
  <2>1. /\ mem'.task = mem.task /\ mem'.gate = mem.gate /\ mem'.hist = mem.hist
        /\ mem'.status = (IF mem.status = "FAILED" THEN "FAILED" ELSE "COMPLETED")
    BY <1>1, <1>3 DEF AtTerminal, States
  <2>2. disk' = mem' /\ allowed' = allowed /\ pc' = "closing"
    BY <1>3 DEF AtTerminal, Dump
  <2>3. Traced(mem', allowed)
    BY <1>1, <2>1 DEF Traced, Sent, Culprit
  <2> QED
    BY <2>2, <2>3 DEF Guided, InAgent, FailedResumeAtCulprit
<1>4. CASE OpenGate
  <2> DEFINE kind == IF mem.err THEN "runtime" ELSE "none"
             g == RecoveryGate(mem, question, kind)
             o == OpenNodeGate(mem)
  <2>1. mem' = g \/ mem' = o
    BY <1>4 DEF OpenGate
  <2>2. disk' = mem' /\ allowed' = allowed /\ pc' = "present" /\ mem.gate = "none"
    BY <1>4 DEF OpenGate, Dump, AtStep
  <2>3. g.task = mem.task /\ g.status = "WAITING_HUMAN" /\ g.hist = mem.hist
    <3> HIDE DEF kind
    <3> QED
      BY <1>1 DEF RecoveryGate, States
  <2>4. o.task = mem.task /\ o.status = "WAITING_HUMAN" /\ o.hist = mem.hist
    BY <1>1 DEF OpenNodeGate, States
  <2> HIDE DEF g, o
  <2>5. mem'.task = mem.task /\ mem'.status # "FAILED" /\ SameRuns(mem, mem')
    BY <2>1, <2>3, <2>4 DEF SameRuns
  <2>6. mem'.gate = "node" => mem'.task \in Gated
    BY <1>4, <2>2, OpenGateDue DEF Waits
  <2>7. Sent(mem', allowed)
    BY <1>1, <2>2, <2>5, <2>6 DEF Traced, Sent
  <2>8. Traced(mem', allowed)
    BY <1>1, <2>5, <2>7, TracedMove
  <2> QED
    BY <2>2, <2>8 DEF Guided, InAgent, FailedResumeAtCulprit
<1>5. CASE DeadlockGuard
  <2>1. AtStep /\ Block("runtime", FALSE)
    BY <1>5 DEF DeadlockGuard, AtStart
  <2>2. Traced(mem', allowed)
    BY <2>1, BlockTraced
  <2>3. disk' = mem' /\ allowed' = allowed /\ pc' \in {"present", "closing"}
    BY <2>1 DEF Block, Dump
  <2> QED
    BY <2>2, <2>3 DEF Guided, InAgent, FailedResumeAtCulprit
<1>6. CASE Start
  <2> DEFINE run == [task |-> mem.task, status |-> "RUNNING"]
  <2>1. mem.task \in Work \ Immediate /\ mem.gate = "none"
    BY <1>6 DEF Start, AtStart, AtStep, ShouldPause
  <2>2. /\ mem' = StartTask(mem, inputs) /\ disk' = mem' /\ allowed' = allowed
        /\ pc' = "agent"
    BY <1>6 DEF Start, Dump
  <2>3. /\ mem'.task = mem.task /\ mem'.status = "RUNNING" /\ mem'.gate = "none"
        /\ mem'.hist = Append(mem.hist, run)
    BY <1>1, <2>2 DEF StartTask, States
  <2>4. WorkRuns(mem'.hist)
    <3>1. mem.hist \in Seq(Runs) /\ run \in Runs
      BY <1>1, Fields DEF Runs, RunStatuses
    <3>2. WorkRuns(mem.hist) /\ run.task \in Work
      BY <1>1, <2>1 DEF Traced
    <3> HIDE DEF run
    <3>3. DOMAIN mem.hist = 1 .. Len(mem.hist) /\ Len(mem.hist) \in Nat
      BY <3>1
    <3>4. DOMAIN mem'.hist = 1 .. Len(mem.hist) + 1
      BY <2>3, <3>1
    <3>5. ASSUME NEW i \in DOMAIN mem'.hist
          PROVE  mem'.hist[i].task \in Work
      <4>1. CASE i = Len(mem.hist) + 1
        BY <2>3, <3>1, <3>2, <4>1, AppendProperties
      <4>2. CASE i \in 1 .. Len(mem.hist)
        BY <2>3, <3>1, <3>2, <3>3, <4>2, AppendProperties DEF WorkRuns
      <4> QED
        BY <3>3, <3>4, <4>1, <4>2
    <3> QED
      BY <3>5 DEF WorkRuns
  <2>5. Traced(mem', allowed)
    BY <1>1, <2>1, <2>3, <2>4 DEF Traced, Sent, Culprit
  <2> QED
    BY <2>1, <2>2, <2>3, <2>5 DEF Guided, FailedResumeAtCulprit
<1>7. CASE AskOpened
  <2>1. /\ disk'.task = disk.task /\ disk'.status = "WAITING_HUMAN" /\ disk'.gate = "ask"
        /\ disk.gate \in {"none", "ask"}
        /\ disk'.hist = WithLast(disk, "WAITING_HUMAN")
    BY <1>1, <1>7, AgentAndFile DEF AskOpened, Asking, InAgent, States
  <2>2. mem' = mem /\ allowed' = allowed /\ pc = "ask_open" /\ pc' = "ask"
    BY <1>7 DEF AskOpened
  <2>3. Traced(disk', allowed)
    BY <1>1, <2>1, TracedStay DEF SameRuns, RunStatuses
  <2> QED
    BY <1>1, <2>2, <2>3 DEF Guided, InAgent, FailedResumeAtCulprit
<1>8. CASE AskClosed
  <2>1. disk' = mem
    <3>1. disk = Asking(mem) /\ Open(mem)
      BY <1>8, AgentAndFile DEF AskClosed, InAgent
    <3>2. disk.gate = "ask" /\ disk.task = mem.task
      BY <1>1, <3>1 DEF Asking, States
    <3> QED
      BY <1>1, <1>8, <3>1, <3>2, AskUndone DEF AskClosed
  <2>2. mem' = mem /\ allowed' = allowed /\ pc = "ask_close" /\ pc' = "agent"
    BY <1>8 DEF AskClosed
  <2> QED
    BY <1>1, <2>1, <2>2 DEF Guided, InAgent, FailedResumeAtCulprit
<1>9. CASE Save
  <2>1. disk' = mem /\ mem' = mem /\ allowed' = allowed /\ pc' \in {"present", "step", "closing"}
    BY <1>9 DEF Save, Dump
  <2> QED
    BY <1>1, <2>1 DEF Guided, InAgent, FailedResumeAtCulprit
(* The gate is put to the researcher: the record waits at it.              *)
<1>10. CASE Present
  <2>1. disk' = mem /\ mem' = mem /\ disk = mem /\ pc' = "gate"
    BY <1>1, <1>10 DEF Present, Dump, Settled
  <2>2. allowed' = IF mem.gate = "node" THEN allowed \ Branches[mem.task] ELSE allowed
    BY <1>10 DEF Present
  <2>3. CASE mem.gate = "node"
    <3>1. mem.status # "FAILED"
      BY <2>1, <2>3 DEF Kept
    <3>2. Traced(mem, allowed')
      BY <1>1, <2>3, <3>1 DEF Traced, Sent, Culprit
    <3> QED
      BY <2>1, <3>2 DEF Guided, InAgent, FailedResumeAtCulprit
  <2>4. CASE mem.gate # "node"
    BY <1>1, <2>1, <2>2, <2>4 DEF Guided, InAgent, FailedResumeAtCulprit
  <2> QED
    BY <2>3, <2>4
<1>11. CASE ResumeAnswered
  <2>1. mem' = ResolveAsk(mem) /\ disk' = disk /\ allowed' = allowed /\ pc' = "save"
    BY <1>11 DEF ResumeAnswered, Decided
  <2>2. mem.gate = "ask"
    BY <1>11 DEF ResumeAnswered, Due
  <2>3. /\ mem'.task = mem.task /\ mem'.status = "RUNNING" /\ mem'.gate = "none"
        /\ SameRuns(mem, mem')
    <3>1. mem'.task = mem.task /\ mem'.status = "RUNNING" /\ mem'.gate = "none"
      BY <1>1, <2>1 DEF ResolveAsk, States
    <3>2. mem'.hist = mem.hist \/ mem'.hist = WithLast(mem, "WAITING_HUMAN_RESOLVED")
      BY <1>1, <2>1 DEF ResolveAsk, States
    <3> QED
      BY <3>1, <3>2 DEF SameRuns, RunStatuses
  <2>4. Traced(mem', allowed)
    BY <1>1, <2>2, <2>3, TracedStay
  <2> QED
    BY <1>1, <2>1, <2>4 DEF Guided, InAgent, FailedResumeAtCulprit
<1> QED
  BY <1>2, <1>3, <1>4, <1>5, <1>6, <1>7, <1>8, <1>9, <1>10, <1>11 DEF Stepping

(* What the agent, the researcher and the environment do.                  *)
LEMMA GuidedOutside ==
    ASSUME SuccessNeverFails, Safe, Kept, Due, Guided, Agent \/ Human \/ Trouble \/ Close,
           disk' \in States, mem' \in States
    PROVE  Guided'
<1> USE DEF durable, ghosts
<1>1. /\ disk \in States /\ mem \in States /\ Traced(disk, allowed) /\ Traced(mem, allowed)
      /\ pc \in Settled => disk = mem
      /\ pc \in InAgent => mem.task \in Work \ Immediate
      /\ pc \in {"agent", "ask"} => Open(mem)
  <2>1. pc \in {"agent", "ask"} => Open(mem)
    BY AgentAndFile DEF InAgent
  <2> QED
    BY <2>1 DEF Safe, Typed, TypeOK, AtWork, Coherent, Guided
<1>2. CASE AgentAsks \/ AskTimesOut
  BY <1>2 DEF AgentAsks, AskTimesOut, Guided, InAgent, FailedResumeAtCulprit
<1>3. CASE (\E r \in Results : AgentEnds(r)) \/ AskUnavailable \/ InterruptAgent
  <2>1. PICK r \in Results, e \in BOOLEAN : mem' = Advance(mem, r, question, e)
    BY <1>3 DEF AgentEnds, AskUnavailable, InterruptAgent, Results, Stops
  <2>2. pc \in {"agent", "ask"} /\ disk' = disk /\ allowed' = allowed /\ pc' = "save"
    BY <1>3 DEF AgentEnds, AskUnavailable, InterruptAgent
  <2>3. Traced(mem', allowed)
    BY <1>1, <2>1, <2>2, AdvanceTraced DEF InAgent
  <2> QED
    BY <1>1, <2>2, <2>3 DEF Guided, InAgent, FailedResumeAtCulprit
(* The record is paused where it is, or not touched at all.                *)
<1>4. CASE ContinueFailed \/ PauseFailed \/ PauseHere \/ HumanUnavailable
  <2>1. /\ mem'.task = mem.task /\ mem'.gate = mem.gate /\ mem'.hist = mem.hist
        /\ mem'.status = mem.status \/ mem'.status = "PAUSED"
    BY <1>1, <1>4 DEF ContinueFailed, PauseFailed, PauseHere, HumanUnavailable, PauseAtGate, States
  <2>2. /\ disk' = disk \/ disk' = mem'
        /\ allowed' = allowed /\ pc' \in {"step", "closing", "save"}
    BY <1>4 DEF ContinueFailed, PauseFailed, PauseHere, HumanUnavailable, Dump
  <2>3. Traced(mem', allowed)
    BY <1>1, <2>1 DEF Traced, Sent, Culprit
  <2> QED
    BY <1>1, <2>2, <2>3 DEF Guided, InAgent, FailedResumeAtCulprit
<1>5. CASE AskAnswered \/ GiveAnswer \/ EditInputs
  BY <1>5 DEF AskAnswered, GiveAnswer, EditInputs, Guided, InAgent, FailedResumeAtCulprit
(* The researcher sends the run somewhere.                                 *)
<1>6. ASSUME NEW t \in Tasks, DecideNode(t)
      PROVE  Guided'
  <2> DEFINE n == ResolveNode(mem, t, fresh')
  <2>1. /\ mem' = n /\ disk' = disk /\ allowed' = allowed \cup {t} /\ pc' = "save"
        /\ t # Failed
    <3>1. mem.gate = "node" /\ t \in Branches[mem.task]
      BY <1>6 DEF DecideNode, AtGate
    <3>2. mem.task \in Gated
      BY <1>1, <3>1 DEF Traced, Sent
    <3> QED
      BY <1>6, <3>1, <3>2, GraphAssumption DEF DecideNode, Decided
  <2>2. n.task = t /\ n.status # "FAILED" /\ n.gate = "none" /\ n.hist = mem.hist
    <3> DEFINE i == IF HasDone(mem, t) THEN [target |-> t, id |-> fresh'] ELSE mem.iter
               d == [mem EXCEPT !.gate = "none", !.iter = i]
    <3>1. n = IF t = mem.task THEN [d EXCEPT !.status = "PAUSED", !.err = FALSE]
              ELSE Transition(d, t)
      BY <1>1 DEF ResolveNode, States
    <3>2. /\ d.task = mem.task /\ d.gate = "none" /\ d.hist = mem.hist
          /\ DOMAIN d = DOMAIN mem
      BY <1>1 DEF States
    <3>3. {"task", "status", "gate", "err", "hist"} \subseteq DOMAIN mem
      BY <1>1 DEF States
    <3> HIDE DEF d, n
    <3>4. CASE t = mem.task
      BY <3>1, <3>2, <3>3, <3>4
    <3>5. CASE t # mem.task
      BY <2>1, <3>1, <3>2, <3>3, <3>5 DEF Transition
    <3> QED
      BY <3>4, <3>5
  <2> HIDE DEF n
  <2>3. Traced(mem', allowed')
    BY <1>1, <2>1, <2>2, TracedMove DEF Sent, SameRuns
  <2>4. Traced(disk', allowed')
    BY <1>1, <2>1, TracedMore
  <2> QED
    BY <2>1, <2>3, <2>4 DEF Guided, InAgent, FailedResumeAtCulprit
<1>7. CASE Retry
  <2>1. /\ mem'.task = mem.task /\ mem'.status = "RUNNING" /\ mem'.gate = "none"
        /\ mem'.hist = mem.hist
    BY <1>1, <1>7 DEF Retry, RetryTask, States
  <2>2. mem.gate = "runtime" /\ disk' = disk /\ allowed' = allowed /\ pc' = "save"
    BY <1>7 DEF Retry, AtGate, Decided
  <2>3. Traced(mem', allowed)
    BY <1>1, <2>1, <2>2, TracedStay DEF SameRuns
  <2> QED
    BY <1>1, <2>2, <2>3 DEF Guided, InAgent, FailedResumeAtCulprit
<1>8. CASE ReturnForReading
  <2>1. /\ mem'.task = ReadingTask /\ mem'.status = "RUNNING" /\ mem'.gate = "none"
        /\ mem'.hist = mem.hist
    BY <1>1, <1>8 DEF ReturnForReading, ReturnToReading, States
  <2>2. disk' = disk /\ allowed' = allowed \cup {ReadingTask} /\ pc' = "save"
    BY <1>8 DEF ReturnForReading, Decided
  <2>3. Traced(mem', allowed')
    BY <1>1, <2>1, <2>2, TracedMove DEF Sent, SameRuns
  <2>4. Traced(disk', allowed')
    BY <1>1, <2>2, TracedMore
  <2> QED
    BY <2>2, <2>3, <2>4 DEF Guided, InAgent, FailedResumeAtCulprit
(* Something goes wrong.                                                   *)
<1>9. CASE MissingPrerequisites \/ ContextFails
  <2>1. AtStep
    BY <1>9 DEF MissingPrerequisites, ContextFails, AtStart
  <2>2. PICK kind \in {"runtime", "coverage"}, hard \in BOOLEAN : Block(kind, hard)
    BY <1>9 DEF MissingPrerequisites, ContextFails
  <2>3. Traced(mem', allowed)
    BY <2>1, <2>2, BlockTraced
  <2>4. disk' = mem' /\ allowed' = allowed /\ pc' \in {"present", "closing"}
    BY <2>2 DEF Block, Dump
  <2> QED
    BY <2>3, <2>4 DEF Guided, InAgent, FailedResumeAtCulprit
<1>10. ASSUME NEW s \in States, Traced(s, allowed)
       PROVE  LET m == MarkInterrupted(s) IN
              /\ m \in States
              /\ m.task = s.task /\ m.gate = s.gate /\ m.status = "PAUSED" /\ SameRuns(s, m)
  <2>1. MarkInterrupted(s) \in States
    BY <1>10, MarkInterruptedType
  <2> QED
    BY <1>10, <2>1 DEF MarkInterrupted, States, SameRuns, RunStatuses
<1>11. CASE InterruptTask
  <2> DEFINE m == MarkInterrupted(mem)
  <2>1. m.task = mem.task /\ m.gate = mem.gate /\ m.status = "PAUSED" /\ SameRuns(mem, m)
    BY <1>1, <1>10
  <2>2. mem' = m /\ disk' = mem' /\ allowed' = allowed /\ pc' = "closing"
    BY <1>11 DEF InterruptTask, Dump
  <2> HIDE DEF m
  <2>3. Traced(mem', allowed)
    BY <1>1, <2>1, <2>2, TracedStay
  <2> QED
    BY <2>2, <2>3 DEF Guided, InAgent, FailedResumeAtCulprit
<1>12. CASE Crash \/ Close \/ InterruptCli
  <2>1. mem' = InitialState /\ allowed' = allowed /\ pc' = "down"
    BY <1>12 DEF Crash, Close, InterruptCli, Gone
  <2>2. Traced(mem', allowed)
    <3>1. /\ InitialState.status = "RUNNING" /\ InitialState.task = Initial
          /\ InitialState.gate = "none" /\ InitialState.hist = <<>>
      BY DEF InitialState
    <3> QED
      BY <2>1, <3>1 DEF Traced, Sent, Culprit, WorkRuns, BehindGate
  <2> DEFINE m == MarkInterrupted(disk)
             n == [m EXCEPT !.err = FALSE]
  <2>3. /\ m \in States /\ m.task = disk.task /\ m.gate = disk.gate
        /\ m.status = "PAUSED" /\ SameRuns(disk, m)
    BY <1>1, <1>10
  <2>4. disk' = disk \/ disk' = n
    BY <1>12 DEF Crash, Close, InterruptCli
  <2> HIDE DEF m
  <2>5. n.task = m.task /\ n.gate = m.gate /\ n.status = m.status /\ n.hist = m.hist
    BY <2>3
  <2> HIDE DEF n
  <2>6. CASE disk' = n
    <3>1. Traced(disk', allowed)
      BY <1>1, <2>3, <2>5, <2>6, TracedStay DEF SameRuns
    <3> QED
      BY <2>1, <2>2, <3>1 DEF Guided, InAgent, FailedResumeAtCulprit
  <2> QED
    BY <1>1, <2>1, <2>2, <2>4, <2>6 DEF Guided, InAgent, FailedResumeAtCulprit
<1> QED
  BY <1>2, <1>3, <1>4, <1>5, <1>6, <1>7, <1>8, <1>9, <1>11, <1>12 DEF Agent, Human, Trouble

LEMMA GuidedStep ==
    ASSUME SuccessNeverFails, Safe, Kept, Due, Guided, [Next]_vars, Safe'
    PROVE  Guided'
<1>1. disk' \in States /\ mem' \in States
  BY DEF Safe, Typed, TypeOK
<1>2. CASE UNCHANGED vars
  BY <1>2 DEF vars, durable, ghosts, Guided, FailedResumeAtCulprit
<1> QED
  BY <1>1, <1>2, GuidedEntry, GuidedStepping, GuidedOutside DEF Next, Process

LEMMA GuidedAlways == ASSUME SuccessNeverFails PROVE Spec => []Guided
<1>1. Init => Guided
  BY GuidedInit
<1>2. Safe /\ Kept /\ Due /\ Guided /\ [Next]_vars /\ Safe' => Guided'
  BY GuidedStep
<1> QED
  BY <1>1, <1>2, DueAlways, PTL DEF Spec

(* A task behind a gate runs only when the researcher's latest answer at   *)
(* the gate, or an explicit re-entry, sent the run there, whatever is      *)
(* crashed, interrupted, failed or paused in between.                      *)
THEOREM GatesAreRespected == ASSUME SuccessNeverFails PROVE Spec => []GateRespected
<1>1. Safe /\ Guided => GateRespected
  BY DEF Safe, Coherent, Open, Guided, Traced, Sent, GateRespected, InAgent
<1> QED
  BY <1>1, DueAlways, GuidedAlways, PTL

(* The resume of a failed project takes up the task whose run failed last. *)
THEOREM FailedTakenUp == ASSUME SuccessNeverFails PROVE Spec => []FailedResumeAtCulprit
<1>1. Guided => FailedResumeAtCulprit
  BY DEF Guided
<1> QED
  BY <1>1, GuidedAlways, PTL

=============================================================================
