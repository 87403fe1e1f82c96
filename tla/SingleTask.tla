---- MODULE SingleTask ----
(***************************************************************************)
(* A workspace driven by the complete pipeline (module Pipeline) and by    *)
(* `researchos run-task t` commands, one process at a time.  run-task      *)
(* (cli.py, cli_runners/single_task.py) moves state.yaml to the task it is *)
(* given, presents a gate pending there, runs its agent once, applies one  *)
(* transition of the state machine and stops before the next task; the     *)
(* pipeline goes on from whatever it left, crashed or not.                 *)
(*                                                                         *)
(* The agent's questions, the gates and their answers, Ctrl+C and crashes  *)
(* are those of Pipeline: the code is shared.  Left out is what the runner *)
(* does for T4 alone, which goes on into its gate T4-GATE1.                *)
(***************************************************************************)
EXTENDS Pipeline

VARIABLES
    solo,       \* the task of the live run-task process, or None
    presented,  \* kind of the gate it presented last, "none" before any
    \* history variable, read by properties only
    found       \* the runs open in the history when a run-task began

soloVars == <<solo, presented>>
allVars == <<vars, soloVars, found>>

SoloInit == Init /\ solo = None /\ presented = "none" /\ found = {}

(* run_task_command, up to the await of _prepare_runtime.                  *)
RunTask(t) ==
    /\ pc = "down" /\ t \in Work /\ Spend("runtask")
    /\ solo' = t /\ presented' = "none"
    /\ pc' = "prepare" /\ resume' = FALSE
    /\ allowed' = allowed \cup {t}
    /\ found' = found \cup IF saved THEN OpenRuns(disk) ELSE {}
    /\ UNCHANGED <<durable, inputs, mem, sigint, fresh, answered, expired, unattended, told>>

-----------------------------------------------------------------------------
(* SingleTaskRunner.run, up to the start of the agent.                     *)

LoadOrInitStateDropsGate(s) ==    \* mutant: no gate survives
    [s EXCEPT !.task = solo, !.gate = "none", !.err = FALSE]

(* _load_or_init_state: the gate stays only if it is this task's.          *)
LoadOrInitState(s) ==
    IF s.task = solo /\ s.status \in {"PAUSED", "WAITING_HUMAN"} /\ s.gate # "none"
    THEN s ELSE [s EXCEPT !.task = solo, !.gate = "none", !.err = FALSE]

SoloLoad ==
    /\ pc = "load"
    /\ mem' = LoadOrInitState(IF saved THEN disk ELSE InitialState)
    /\ pc' = "step" /\ presented' = "none"
    /\ UNCHANGED <<durable, inputs, resume, sigint, fresh, left, ghosts, solo, found>>

(* validate_prerequisites fails: state.yaml is not even read.              *)
SoloRefused ==
    /\ pc = "load" /\ Spend("block")
    /\ pc' = "closing"
    /\ UNCHANGED <<durable, inputs, resume, mem, sigint, fresh, ghosts, soloVars, found>>

SoloAtStart == AtStep /\ mem.task \notin Immediate

(* The LaTeX preflight fails.                                              *)
SoloPreflightFails ==
    /\ SoloAtStart /\ Spend("block")
    /\ Block("runtime", FALSE)
    /\ UNCHANGED <<soloVars, found>>

RecordStarted(s) ==
    [s EXCEPT !.status = "RUNNING",
              !.hist = Append(@, [task |-> solo, status |-> "RUNNING"])]

(* No attempt is counted: the deadlock guard does not see this start.      *)
SoloStart ==
    /\ SoloAtStart
    /\ mem' = RecordStarted(mem)
    /\ Dump(mem')
    /\ pc' = "agent"
    /\ UNCHANGED <<question, receipt, inputs, resume, sigint, fresh, left, ghosts, soloVars, found>>

-----------------------------------------------------------------------------
(* One transition, and what run-task makes of it.                          *)

(* Mutant: the command's success is taken for the project's.               *)
SuspendedForGood(s) == [s EXCEPT !.status = "COMPLETED", !.err = FALSE]

Suspended(s) == [s EXCEPT !.status = "PAUSED", !.err = FALSE]

SoloEnds(r) ==
    /\ AgentEnds(r)
    /\ UNCHANGED <<soloVars, found>>

(* After a success the state is saved before the next task, paused; a gate *)
(* the success opened is left to the pipeline.  After a stop or a failure  *)
(* a gate is presented at once.                                            *)
SoloSaveResult ==
    /\ pc = "save" /\ presented = "none"
    /\ mem' = IF LastIs(mem, {"DONE"}) /\ mem.status = "RUNNING" THEN Suspended(mem) ELSE mem
    /\ Dump(mem')
    /\ answered' = FALSE /\ expired' = FALSE
    /\ pc' = IF mem.status = "WAITING_HUMAN" /\ ~LastIs(mem, {"DONE"}) THEN "present" ELSE "closing"
    /\ UNCHANGED <<question, receipt, inputs, resume, sigint, fresh, left, unattended, allowed,
                   told, soloVars, found>>

(* _present_pending_gate_task, up to its prompt.                           *)
SoloPresent ==
    /\ Present
    /\ presented' = mem.gate
    /\ UNCHANGED <<solo, found>>

SoloSaveAnswerGoesOn ==    \* mutant: the command goes on wherever the answer leads
    /\ pc = "save" /\ presented # "none"
    /\ Dump(mem)
    /\ answered' = FALSE /\ expired' = FALSE
    /\ pc' = IF mem.status # "RUNNING" THEN "closing" ELSE "load"
    /\ UNCHANGED <<question, receipt, inputs, resume, mem, sigint, fresh, left, unattended, allowed,
                   told, soloVars, found>>

(* After an answer: at a retry of this very task the runner starts over; a *)
(* choice that left the task is settled; anything else ends the command.   *)
SoloSaveAnswer ==
    /\ pc = "save" /\ presented # "none"
    /\ Dump(mem)
    /\ answered' = FALSE /\ expired' = FALSE
    /\ pc' = IF mem.status # "RUNNING" THEN "closing"
             ELSE IF mem.task # solo THEN "settle"
             ELSE IF presented \in {"runtime", "coverage"} THEN "load" ELSE "closing"
    /\ UNCHANGED <<question, receipt, inputs, resume, mem, sigint, fresh, left, unattended, allowed,
                   told, soloVars, found>>

SoloSettle ==
    /\ pc = "settle"
    /\ mem' = Suspended(mem)
    /\ Dump(mem')
    /\ pc' = "closing"
    /\ UNCHANGED <<question, receipt, inputs, resume, sigint, fresh, left, ghosts, soloVars, found>>

-----------------------------------------------------------------------------
(* The process ends when Pipeline's does; solo is its command line.        *)
Along(A) ==
    /\ A
    /\ solo' = IF pc' = "down" THEN None ELSE solo
    /\ UNCHANGED <<presented, found>>

SoloProcess ==
    \/ SoloLoad \/ SoloStart \/ SoloSaveResult \/ SoloPresent \/ SoloSaveAnswer \/ SoloSettle
    \/ Along(Prepared) \/ Along(PendingGate) \/ (mem.task \in Immediate /\ Along(OpenGate))
    \/ Along(AskOpened) \/ Along(AskClosed) \/ Along(ResumeAnswered) \/ Along(Close)

SoloAgent == Along(AgentAsks) \/ Along(AskTimesOut) \/ \E r \in Results : SoloEnds(r)

(* Inputs edited while run-task works are left to Pipeline.                *)
SoloTrouble == SoloRefused \/ SoloPreflightFails \/ Along(Crash)
               \/ Along(InterruptCli) \/ Along(InterruptAgent) \/ Along(InterruptTask)

SoloNext == SoloProcess \/ SoloAgent \/ Along(Human) \/ SoloTrouble

(* A step of the complete pipeline, or of nobody.                          *)
Alone(A) == solo = None /\ A /\ UNCHANGED <<soloVars, found>>

WorkspaceNext == \/ Alone(Next)
                 \/ \E t \in Tasks : RunTask(t)
                 \/ solo # None /\ SoloNext

WorkspaceSpec == SoloInit /\ [][WorkspaceNext]_allVars

(* The fairness of Pipeline for the pipeline; for run-task as well that    *)
(* the process goes on, an agent's run ends and the researcher answers.    *)
(* Nobody is obliged to use run-task.                                      *)
WorkspaceFairness ==
    /\ WF_allVars(Alone(Process))
    /\ WF_allVars(Alone(Run)) /\ WF_allVars(Alone(Resume))
    /\ WF_allVars(Alone(ContinueFailed)) /\ WF_allVars(Alone(AskAnswered))
    /\ WF_allVars(Alone(GiveAnswer)) /\ WF_allVars(Alone(Retry))
    /\ WF_allVars(Alone(ReturnForReading))
    /\ SF_allVars(mem.task \in Gated /\ Alone(DecideNode(NextOk[mem.task])))
    /\ SF_allVars(Alone(AgentEnds("ok")))
    /\ WF_allVars(solo # None /\ SoloProcess)
    /\ WF_allVars(solo # None /\ \E r \in Results : SoloEnds(r))
    /\ WF_allVars(solo # None /\ Along(Human))

WorkspaceFairSpec == WorkspaceSpec /\ WorkspaceFairness

-----------------------------------------------------------------------------
(* A gate that waits at the task run-task is given survives the command:   *)
(* only an answer to it takes it away, whatever Ctrl+C, lost input or      *)
(* crash ends the process.  The exception is a question of the command's   *)
(* own agent that timed out: its gate goes with the next dump, while the   *)
(* question stays on file.  A gate of another task is given up.            *)
OwnGateKept ==
    [][solo # None /\ disk.task = solo /\ disk.gate # "none" /\ disk'.gate = "none"
          => answered \/ (expired /\ disk.gate = "ask" /\ question' = solo)]_allVars

(* A run left open in the history is the newest one, or was open when a    *)
(* run-task began: the pipeline closes what it finds, run-task, whose own  *)
(* runs are closed likewise, leaves the run of a crashed process open.     *)
OnlyRunTaskLeavesOpen ==
    NoReentry =>
        \A i \in OpenRuns(disk) :
            i = Len(disk.hist) \/ LitGate[disk.hist[i].task] # None \/ i \in found

(* How far the live command got.                                           *)
Stage == IF solo = None THEN "out"
         ELSE IF pc \in {"prepare", "load", "step"} THEN "heading"
         ELSE IF pc \in {"settle", "closing"} THEN "over" ELSE "there"

(* A command takes the project to its task and makes one move from there:  *)
(* see module Errand, which this module implements.                        *)
Errands == INSTANCE Errand WITH live <- pc # "down", overdue <- expired,
               exists <- saved, task <- disk.task, status <- disk.status, gate <- disk.gate,
               errand <- solo, stage <- Stage
OneMovePerCommand == Errands!CommandSpec

=============================================================================
