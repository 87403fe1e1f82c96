---- MODULE Pipeline ----
(***************************************************************************)
(* One workspace driven by the researchos CLI: the entry of `run` and      *)
(* `resume` (cli.py), CompletePipelineRunner's loop, the AskHumanTool that *)
(* writes state.yaml behind the runner's back, the researcher, and the two *)
(* ways a process ends early: Ctrl+C, delivered at an await, and a crash   *)
(* (or a second Ctrl+C), possible between any two steps.                   *)
(*                                                                         *)
(* Durable state is what is on disk: state.yaml, the pending question, the *)
(* receipt of an answer given after a resume.  mem is the StateYaml object *)
(* of the live process; whatever it holds is lost with the process.        *)
(***************************************************************************)
EXTENDS StateMachine

CONSTANTS
    LitGate,    \* the T2/T3 scope gate an ordinary resume re-opens, by task
    Environments,   \* each: how often the environment may do what in a run
    Unlimited       \* what it may do without limit

Budgets == {"crash", "signal", "fault", "block", "ask", "edit", "pause",
            "reentry", "back", "retry", "runtask"}

ASSUME PipelineAssumption ==
    /\ LitGate \in [Tasks -> Immediate \cup {None}]
    /\ Environments \subseteq [Budgets -> Nat] /\ Unlimited \subseteq Budgets

VARIABLES
    saved,      \* state.yaml exists
    disk,       \* its content
    question,   \* task of pending_human_interaction.json, or None
    receipt,    \* task of resumed_human_answer.json, or None
    inputs,     \* version of the declared inputs' content
    pc,         \* where the process is, "down" when there is none
    resume,     \* the process was started by `resume`
    mem,        \* the process's StateYaml
    sigint,     \* this process has received its first Ctrl+C
    fresh,      \* last id handed out to a human decision
    left,       \* how often the environment may still do what is limited
    \* history variables, read by properties only
    answered,   \* the researcher answered a question not yet saved
    expired,    \* the wait for the question that state.yaml shows has timed
                \* out: the agent works on without an answer
    unattended, \* agent launches per task since it succeeded, its inputs
                \* changed, or the researcher last decided at a gate
    allowed,    \* tasks the researcher's current decisions sent the run to
    told        \* tasks whose latest question the researcher has answered

durable == <<saved, disk, question, receipt>>
ghosts == <<answered, expired, unattended, allowed, told>>
vars == <<durable, inputs, pc, resume, mem, sigint, fresh, left, ghosts>>

Awaits == {"prepare", "failed_resume", "gate", "agent", "ask", "closing"}
Locations == Awaits \cup {"down", "load", "step", "present", "save",
                          "ask_open", "ask_close", "answered"}

TypeOK ==
    /\ saved \in BOOLEAN /\ disk \in States /\ mem \in States
    /\ question \in Tasks \cup {None} /\ receipt \in Tasks \cup {None}
    /\ inputs \in Nat /\ fresh \in Nat
    /\ pc \in Locations /\ resume \in BOOLEAN /\ sigint \in BOOLEAN
    /\ left \in [Budgets -> Nat]
    /\ answered \in BOOLEAN /\ expired \in BOOLEAN /\ unattended \in [Tasks -> Nat]
    /\ allowed \subseteq Tasks /\ told \subseteq Tasks

Init ==
    /\ saved = FALSE /\ disk = InitialState /\ mem = InitialState
    /\ question = None /\ receipt = None
    /\ inputs = 0 /\ fresh = 0
    /\ pc = "down" /\ resume = FALSE /\ sigint = FALSE
    /\ left \in Environments
    /\ answered = FALSE /\ expired = FALSE /\ unattended = [t \in Tasks |-> 0]
    /\ allowed = {} /\ told = {}

Spend(b) == IF b \in Unlimited THEN UNCHANGED left
            ELSE left[b] > 0 /\ left' = [left EXCEPT ![b] = @ - 1]

(* state.dump_yaml: one atomic rename.                                     *)
Dump(s) == saved' = TRUE /\ disk' = s

(* The researcher decides, or new inputs arrive: the count starts over.    *)
Attended == unattended' = [t \in Tasks |-> 0]

-----------------------------------------------------------------------------
(* Entry of the CLI: _validate_pipeline_workspace_entry and the re-entry   *)
(* preparation of run_command, then the await of _prepare_runtime.         *)

Run ==
    /\ pc = "down" /\ ~saved
    /\ pc' = "prepare" /\ resume' = FALSE
    /\ UNCHANGED <<durable, inputs, mem, sigint, fresh, left, ghosts>>

(* An ordinary resume at T2 or T3 re-opens the scope gate, unless another  *)
(* gate than a recovery gate is pending.                                   *)
CheckpointAnyGate(s) ==    \* mutant: any gate is dropped
    IF LitGate[s.task] # None
    THEN [s EXCEPT !.task = LitGate[s.task], !.status = "PAUSED",
                   !.gate = "none", !.err = FALSE]
    ELSE s

Checkpoint(s) ==
    IF LitGate[s.task] # None /\ s.gate \in {"none", "runtime", "coverage"}
    THEN [s EXCEPT !.task = LitGate[s.task], !.status = "PAUSED",
                   !.gate = "none", !.err = FALSE]
    ELSE s

Resume ==
    /\ pc = "down" /\ saved /\ disk.status # "COMPLETED"
    /\ disk' = Checkpoint(disk)
    /\ pc' = "prepare" /\ resume' = TRUE
    /\ UNCHANGED <<saved, question, receipt, inputs, mem, sigint, fresh, left, ghosts>>

(* resume --from-task t, with T2 and T3 replaced by their scope gate.      *)
ResumeFromTaskKeepsGate(t) ==    \* mutant: the pending gate is carried along
    LET target == IF LitGate[t] # None THEN LitGate[t] ELSE t IN
    /\ pc = "down" /\ saved /\ t \in Work
    /\ Spend("reentry")
    /\ disk' = [disk EXCEPT !.task = target, !.status = "PAUSED", !.err = FALSE]
    /\ pc' = "prepare" /\ resume' = TRUE
    /\ allowed' = allowed \cup {target}
    /\ UNCHANGED <<saved, question, receipt, inputs, mem, sigint, fresh, answered, expired, unattended, told>>

ResumeFromTask(t) ==
    LET target == IF LitGate[t] # None THEN LitGate[t] ELSE t IN
    /\ pc = "down" /\ saved /\ t \in Work
    /\ Spend("reentry")
    /\ disk' = [disk EXCEPT !.task = target, !.status = "PAUSED",
                            !.gate = "none", !.err = FALSE]
    /\ pc' = "prepare" /\ resume' = TRUE
    /\ allowed' = allowed \cup {target}
    /\ UNCHANGED <<saved, question, receipt, inputs, mem, sigint, fresh, answered, expired, unattended, told>>

Prepared ==
    /\ pc = "prepare"
    /\ pc' = "load"
    /\ UNCHANGED <<durable, inputs, resume, mem, sigint, fresh, left, ghosts>>

-----------------------------------------------------------------------------
(* CompletePipelineRunner.run, up to its loop.                             *)

LoadNew ==
    /\ pc = "load" /\ ~resume
    /\ mem' = InitialState
    /\ pc' = "step"
    /\ UNCHANGED <<durable, inputs, resume, sigint, fresh, left, ghosts>>

LoadStaleRunningForgets ==    \* mutant: the stale run is not closed
    /\ pc = "load" /\ resume /\ disk.status = "RUNNING"
    /\ mem' = [disk EXCEPT !.status = "PAUSED", !.err = FALSE]
    /\ Dump(mem')
    /\ pc' = "step"
    /\ UNCHANGED <<question, receipt, inputs, resume, sigint, fresh, left, ghosts>>

LoadStaleRunning ==
    /\ pc = "load" /\ resume /\ disk.status = "RUNNING"
    /\ mem' = [MarkInterrupted(disk) EXCEPT !.err = FALSE]
    /\ Dump(mem')
    /\ pc' = "step"
    /\ UNCHANGED <<question, receipt, inputs, resume, sigint, fresh, left, ghosts>>

LoadPaused ==
    /\ pc = "load" /\ resume /\ disk.status \in {"PAUSED", "WAITING_HUMAN"}
    /\ mem' = disk
    /\ pc' = "step"
    /\ UNCHANGED <<durable, inputs, resume, sigint, fresh, left, ghosts>>

(* _last_failed_task_history: the newest FAILED run of the current task,   *)
(* or of any task when the state stands at a terminal node.                *)
FailedRunsOwn(s) ==    \* mutant: at a terminal node too
    {i \in DOMAIN s.hist : s.hist[i] = [task |-> s.task, status |-> "FAILED"]}

FailedRuns(s) ==
    LET failed == {i \in DOMAIN s.hist : s.hist[i].status = "FAILED"}
        own == {i \in failed : s.hist[i].task = s.task}
    IN  IF own = {} /\ s.task \in Terminals THEN failed ELSE own

FailedLast(s, t) ==
    IF FailedRuns(s) = {} THEN t = s.task
    ELSE \E i \in FailedRuns(s) : s.hist[i].task = t /\ \A j \in FailedRuns(s) : j <= i

(* _prepare_failed_resume, up to its question.  The quoted error summary   *)
(* may be one a recovery kind is inferred from.                            *)
LoadFailed ==
    /\ pc = "load" /\ resume /\ disk.status = "FAILED"
    /\ \E t \in Tasks, e \in BOOLEAN :
          /\ FailedLast(disk, t)
          /\ mem' = [disk EXCEPT !.task = t, !.status = "PAUSED", !.err = e]
    /\ Dump(mem')
    /\ pc' = "failed_resume"
    /\ UNCHANGED <<question, receipt, inputs, resume, sigint, fresh, left, ghosts>>

(* continue_keep, archive_outputs: the task's outputs stay or are moved.   *)
ContinueFailed ==
    /\ pc = "failed_resume"
    /\ mem' = [mem EXCEPT !.err = FALSE]
    /\ Dump(mem')
    /\ pc' = "step"
    /\ UNCHANGED <<question, receipt, inputs, resume, sigint, fresh, left, ghosts>>

(* pause_review, or no usable input.                                       *)
PauseFailed ==
    /\ pc = "failed_resume" /\ Spend("pause")
    /\ mem' = [mem EXCEPT !.err = FALSE]
    /\ Dump(mem')
    /\ pc' = "closing"
    /\ UNCHANGED <<question, receipt, inputs, resume, sigint, fresh, ghosts>>

-----------------------------------------------------------------------------
(* _run_one_step, from its top to the start of an agent.                   *)

AtStep == pc = "step" /\ mem.gate = "none"

PendingGate ==
    /\ pc = "step" /\ mem.gate # "none"
    /\ pc' = "present"
    /\ UNCHANGED <<durable, inputs, resume, mem, sigint, fresh, left, ghosts>>

AtTerminal ==
    /\ AtStep /\ mem.task \in Terminals
    /\ mem' = [mem EXCEPT !.status = IF @ = "FAILED" THEN @ ELSE "COMPLETED"]
    /\ Dump(mem')
    /\ pc' = "closing"
    /\ UNCHANGED <<question, receipt, inputs, resume, sigint, fresh, left, ghosts>>

(* No agent can be started: ask the researcher, or pause when the error is *)
(* an integrity error and no question is pending.                          *)
Block(kind, hard) ==
    /\ mem' = IF RecoveryOpens(mem, question, hard, kind)
              THEN RecoveryGate(mem, question, kind)
              ELSE [mem EXCEPT !.status = "PAUSED", !.err = FALSE]
    /\ Dump(mem')
    /\ pc' = IF mem'.gate # "none" THEN "present" ELSE "closing"
    /\ UNCHANGED <<question, receipt, inputs, resume, sigint, fresh, ghosts>>

MissingPrerequisites ==
    /\ AtStep /\ mem.task \in Work
    /\ Spend("block")
    /\ \E kind \in {"runtime", "coverage"}, hard \in BOOLEAN : Block(kind, hard)

(* should_pause_for_immediate_gate                                          *)
ShouldPause == mem.task \in Immediate \/ (mem.status = "PAUSED" /\ mem.err)

(* pause_for_immediate_gate                                                 *)
OpenGate ==
    /\ AtStep /\ mem.task \in Work /\ ShouldPause
    /\ LET kind == IF mem.err THEN "runtime" ELSE "none" IN
       mem' = IF mem.status = "PAUSED" /\ RecoveryOpens(mem, question, FALSE, kind)
              THEN RecoveryGate(mem, question, kind)
              ELSE OpenNodeGate(mem)
    /\ Dump(mem')
    /\ pc' = "present"
    /\ UNCHANGED <<question, receipt, inputs, resume, sigint, fresh, left, ghosts>>

AtStart == AtStep /\ mem.task \in Work /\ ~ShouldPause

(* build_execution_context raises: the deadlock guard, or anything else.   *)
DeadlockGuardGoesOn ==    \* mutant: paused, but no return from the loop
    /\ AtStart /\ Deadlocked(mem, inputs)
    /\ mem' = [mem EXCEPT !.status = "PAUSED", !.err = FALSE]
    /\ Dump(mem')
    /\ UNCHANGED <<pc, question, receipt, inputs, resume, sigint, fresh, left, ghosts>>

DeadlockGuard ==
    /\ AtStart /\ Deadlocked(mem, inputs)
    /\ Block("runtime", FALSE)
    /\ UNCHANGED left

ContextFails ==
    /\ AtStart /\ ~Deadlocked(mem, inputs)
    /\ Spend("block")
    /\ \E hard \in BOOLEAN : Block("runtime", hard)

Start ==
    /\ AtStart /\ ~Deadlocked(mem, inputs)
    /\ mem' = StartTask(mem, inputs)
    /\ Dump(mem')
    /\ pc' = "agent"
    /\ unattended' = [unattended EXCEPT ![mem.task] = @ + 1]
    /\ UNCHANGED <<question, receipt, inputs, resume, sigint, fresh, left, answered, expired, allowed, told>>

-----------------------------------------------------------------------------
(* The agent, as the runner sees it.                                       *)

(* Its result goes through advance; a success also removes the receipt of  *)
(* an answer given to this task.                                           *)
AgentEnds(r) ==
    /\ pc = "agent"
    /\ IF r = "ok" THEN UNCHANGED left
       ELSE IF r = "paused" THEN Spend("pause") ELSE Spend("fault")
    /\ \E inferable \in BOOLEAN : mem' = Advance(mem, r, question, inferable)
    /\ receipt' = IF r = "ok" /\ mem.resumed = mem.task THEN None ELSE receipt
    /\ unattended' = IF r = "ok" THEN [unattended EXCEPT ![mem.task] = 0] ELSE unattended
    /\ pc' = "save"
    /\ UNCHANGED <<saved, disk, question, inputs, resume, sigint, fresh, answered, expired, allowed, told>>

(* AskHumanTool.execute: an answer waiting for this question is consumed;  *)
(* the agent may as well ask something else than before the resume.        *)
AgentAsks ==
    /\ pc = "agent" /\ Spend("ask")
    /\ \/ receipt = mem.task /\ receipt' = None /\ UNCHANGED <<question, pc, expired, told>>
       \/ /\ question' = mem.task /\ told' = told \ {mem.task}
          /\ expired' = FALSE
          /\ pc' = "ask_open" /\ UNCHANGED receipt
    /\ UNCHANGED <<saved, disk, inputs, resume, mem, sigint, fresh, answered, unattended, allowed>>

(* _persist_pending_interaction edits state.yaml, not the runner's state.  *)
Asking(s) == [s EXCEPT !.gate = "ask", !.status = "WAITING_HUMAN", !.err = FALSE,
                       !.hist = WithLast(s, "WAITING_HUMAN")]

AskOpened ==
    /\ pc = "ask_open"
    /\ disk' = Asking(disk)
    /\ pc' = "ask"
    /\ UNCHANGED <<saved, question, receipt, inputs, resume, mem, sigint, fresh, left, ghosts>>

AskAnswered ==
    /\ pc = "ask"
    /\ question' = None
    /\ answered' = TRUE /\ told' = told \cup {mem.task}
    /\ pc' = "ask_close"
    /\ UNCHANGED <<saved, disk, receipt, inputs, resume, mem, sigint, fresh, left, expired, unattended, allowed>>

(* The runtime's wait_for cancels the prompt.  For the agent that is a     *)
(* tool error like any other, so it works on; the question and what it     *)
(* made of state.yaml stay behind, until the runner's next dump.           *)
AskTimesOutCloses ==    \* mutant: the question is withdrawn with its prompt
    /\ pc = "ask"
    /\ question' = None
    /\ expired' = TRUE
    /\ pc' = "agent"
    /\ UNCHANGED <<saved, disk, receipt, inputs, resume, mem, sigint, fresh, left, answered, unattended, allowed, told>>

AskTimesOut ==
    /\ pc = "ask"
    /\ expired' = TRUE
    /\ pc' = "agent"
    /\ UNCHANGED <<durable, inputs, resume, mem, sigint, fresh, left, answered, unattended, allowed, told>>

(* _clear_pending_interaction restores what it overwrote.                  *)
AskClosedKeepsWait ==    \* mutant: the history entry is not restored
    /\ pc = "ask_close"
    /\ disk' = IF disk.gate = "ask" /\ disk.task = mem.task
               THEN [disk EXCEPT !.gate = "none", !.status = "RUNNING"] ELSE disk
    /\ answered' = FALSE
    /\ pc' = "agent"
    /\ UNCHANGED <<saved, question, receipt, inputs, resume, mem, sigint, fresh, left, expired, unattended, allowed, told>>

AskClosed ==
    /\ pc = "ask_close"
    /\ disk' = IF disk.gate = "ask" /\ disk.task = mem.task
               THEN [disk EXCEPT !.gate = "none", !.status = "RUNNING",
                                 !.hist = WithLast(disk, "RUNNING")]
               ELSE disk
    /\ answered' = FALSE
    /\ pc' = "agent"
    /\ UNCHANGED <<saved, question, receipt, inputs, resume, mem, sigint, fresh, left, expired, unattended, allowed, told>>

(* No usable input: the agent stops with a human_input signal.             *)
AskUnavailableClears ==    \* mutant: the question is removed with the prompt
    /\ pc = "ask" /\ Spend("pause")
    /\ question' = None
    /\ mem' = Advance(mem, "stopped_signal", question', FALSE)
    /\ pc' = "save"
    /\ UNCHANGED <<saved, disk, receipt, inputs, resume, sigint, fresh, ghosts>>

AskUnavailable ==
    /\ pc = "ask" /\ Spend("pause")
    /\ mem' = Advance(mem, "stopped_signal", question, FALSE)
    /\ pc' = "save"
    /\ UNCHANGED <<durable, inputs, resume, sigint, fresh, ghosts>>

(* The dump after advance or resolve_pending_gate, and the runner's choice *)
(* of what comes next.                                                     *)
Save ==
    /\ pc = "save"
    /\ Dump(mem)
    /\ answered' = FALSE /\ expired' = FALSE
    /\ pc' = CASE mem.status = "WAITING_HUMAN" -> "present"
               [] mem.status = "RUNNING" -> "step"
               [] OTHER -> "closing"
    /\ UNCHANGED <<question, receipt, inputs, resume, mem, sigint, fresh, left, unattended, allowed, told>>

-----------------------------------------------------------------------------
(* _present_pending_gate.                                                  *)

(* A gate of a node is put to the researcher: what it allowed is undone.   *)
Present ==
    /\ pc = "present"
    /\ Dump(mem)
    /\ allowed' = IF mem.gate = "node" THEN allowed \ Branches[mem.task] ELSE allowed
    /\ pc' = "gate"
    /\ UNCHANGED <<question, receipt, inputs, resume, mem, sigint, fresh, left, answered, expired, unattended, told>>

AtGate(g) == pc = "gate" /\ mem.gate = g

Decided == answered' = TRUE /\ Attended /\ pc' = "save"

DecideNode(t) ==
    /\ AtGate("node") /\ t \in Branches[mem.task]
    /\ IF t # NextOk[mem.task] THEN Spend("back") ELSE UNCHANGED left
    /\ fresh' = IF HasDone(mem, t) THEN fresh + 1 ELSE fresh
    /\ mem' = ResolveNode(mem, t, fresh')
    /\ allowed' = allowed \cup {t}
    /\ Decided
    /\ UNCHANGED <<durable, inputs, resume, sigint, expired, told>>

(* retry_targeted_repair, extend_recovery_window                            *)
Retry ==
    /\ AtGate("runtime") /\ Spend("retry")
    /\ fresh' = fresh + 1
    /\ mem' = RetryTask(mem, fresh')
    /\ Decided
    /\ UNCHANGED <<durable, inputs, resume, sigint, expired, allowed, told>>

(* return_to_t3_for_reading                                                 *)
ReturnForReading ==
    /\ AtGate("coverage")
    /\ mem' = ReturnToReading(mem)
    /\ allowed' = allowed \cup {ReadingTask}
    /\ Decided
    /\ UNCHANGED <<durable, inputs, resume, sigint, fresh, left, expired, told>>

(* inspect_then_pause, exit                                                 *)
PauseHere ==
    /\ pc = "gate" /\ mem.gate \in {"runtime", "coverage"} /\ Spend("pause")
    /\ mem' = PauseAtGate(mem)
    /\ pc' = "save"
    /\ UNCHANGED <<durable, inputs, resume, sigint, fresh, ghosts>>

(* HumanInputUnavailable: the gate stays, the project is paused.           *)
HumanUnavailableDefault ==    \* mutant: no answer counts as the default
    /\ pc = "gate" /\ Spend("pause")
    /\ mem' = IF mem.gate = "node" THEN ResolveNode(mem, NextOk[mem.task], fresh)
              ELSE PauseAtGate(mem)
    /\ pc' = "save"
    /\ UNCHANGED <<durable, inputs, resume, sigint, fresh, ghosts>>

HumanUnavailable ==
    /\ pc = "gate" /\ Spend("pause")
    /\ mem' = PauseAtGate(mem)
    /\ Dump(mem')
    /\ pc' = "closing"
    /\ UNCHANGED <<question, receipt, inputs, resume, sigint, fresh, ghosts>>

(* An answer to a question an earlier run left: the receipt is written,    *)
(* then the question removed, then (Save) the state dumped.                *)
GiveAnswer ==
    /\ AtGate("ask")
    /\ receipt' = mem.task
    /\ answered' = TRUE /\ told' = told \cup {mem.task}
    /\ pc' = "answered"
    /\ UNCHANGED <<saved, disk, question, inputs, resume, mem, sigint, fresh, left, expired, unattended, allowed>>

ResumeAnswered ==
    /\ pc = "answered"
    /\ question' = None
    /\ mem' = ResolveAsk(mem)
    /\ Decided
    /\ UNCHANGED <<saved, disk, receipt, inputs, resume, sigint, fresh, left, expired, allowed, told>>

-----------------------------------------------------------------------------
(* How a process ends: prepared.aclose(), a first Ctrl+C, a crash.         *)

Gone == pc' = "down" /\ mem' = InitialState /\ resume' = FALSE /\ sigint' = FALSE

Close ==
    /\ pc = "closing"
    /\ Gone
    /\ UNCHANGED <<durable, inputs, fresh, left, ghosts>>

(* Cancelled outside an agent: everything unwinds to _persist_cli_interrupt *)
(* which marks what it finds on disk.                                       *)
InterruptCliClears ==    \* mutant: the pending gate is dropped
    /\ pc \in Awaits \ {"agent", "ask"} /\ ~sigint /\ Spend("signal")
    /\ disk' = IF saved /\ disk.status # "COMPLETED"
               THEN [MarkInterrupted(disk) EXCEPT !.err = FALSE, !.gate = "none"] ELSE disk
    /\ Gone
    /\ UNCHANGED <<saved, question, receipt, inputs, fresh, ghosts>>

InterruptCli ==
    /\ pc \in Awaits \ {"agent", "ask"} /\ ~sigint /\ Spend("signal")
    /\ disk' = IF saved /\ disk.status # "COMPLETED"
               THEN [MarkInterrupted(disk) EXCEPT !.err = FALSE] ELSE disk
    /\ Gone
    /\ UNCHANGED <<saved, question, receipt, inputs, fresh, ghosts>>

(* Cancelled in the agent loop: AgentRunner.run catches it and returns an  *)
(* interrupted result, so the runner goes on to advance.  (T4, which in    *)
(* legacy mode may return a success instead, is in AgentLoop only.)        *)
InterruptAgentClears ==    \* mutant: cancellation removes the question
    /\ pc \in {"agent", "ask"} /\ ~sigint /\ Spend("signal")
    /\ question' = None
    /\ mem' = Advance(mem, "stopped", question', FALSE)
    /\ sigint' = TRUE
    /\ pc' = "save"
    /\ UNCHANGED <<saved, disk, receipt, inputs, resume, fresh, ghosts>>

InterruptAgent ==
    /\ pc \in {"agent", "ask"} /\ ~sigint /\ Spend("signal")
    /\ mem' = Advance(mem, "stopped", question, FALSE)
    /\ sigint' = TRUE
    /\ pc' = "save"
    /\ UNCHANGED <<durable, inputs, resume, fresh, ghosts>>

(* Cancelled where no AgentRunner catches it (a deterministic task).       *)
InterruptTask ==
    /\ pc = "agent" /\ ~sigint /\ Spend("signal")
    /\ mem' = MarkInterrupted(mem)
    /\ Dump(mem')
    /\ sigint' = TRUE /\ expired' = FALSE
    /\ pc' = "closing"
    /\ UNCHANGED <<question, receipt, inputs, resume, fresh, answered, unattended, allowed, told>>

(* The process is killed, or receives a second Ctrl+C.                     *)
Crash ==
    /\ pc # "down" /\ Spend("crash")
    /\ Gone
    /\ answered' = FALSE /\ expired' = FALSE
    /\ UNCHANGED <<durable, inputs, fresh, unattended, allowed, told>>

(* The researcher, or another tool, changes what the tasks read.           *)
EditInputs ==
    /\ Spend("edit")
    /\ inputs' = inputs + 1
    /\ Attended
    /\ UNCHANGED <<durable, pc, resume, mem, sigint, fresh, answered, expired, allowed, told>>

-----------------------------------------------------------------------------
Loading == LoadNew \/ LoadStaleRunning \/ LoadPaused \/ LoadFailed

Stepping == \/ PendingGate \/ AtTerminal \/ OpenGate \/ DeadlockGuard \/ Start
            \/ AskOpened \/ AskClosed \/ Save \/ Present \/ ResumeAnswered

(* What the process does by itself.                                        *)
Process == Prepared \/ Loading \/ Stepping \/ Close

Agent == AgentAsks \/ AskTimesOut \/ \E r \in Results : AgentEnds(r)

Human == \/ ContinueFailed \/ PauseFailed \/ AskAnswered \/ AskUnavailable
         \/ \E t \in Tasks : DecideNode(t)
         \/ Retry \/ ReturnForReading \/ PauseHere \/ HumanUnavailable \/ GiveAnswer

User == Run \/ Resume \/ \E t \in Tasks : ResumeFromTask(t)

Trouble == \/ MissingPrerequisites \/ ContextFails \/ EditInputs \/ Crash
           \/ InterruptCli \/ InterruptAgent \/ InterruptTask

Next == Process \/ Agent \/ Human \/ User \/ Trouble

Spec == Init /\ [][Next]_vars

(* The process keeps running, the user restarts it, the researcher answers *)
(* and time and again takes the way forward, an agent that is started time *)
(* and again succeeds.                                                     *)
Fairness ==
    /\ WF_vars(Process)
    /\ WF_vars(Run) /\ WF_vars(Resume)
    /\ WF_vars(ContinueFailed) /\ WF_vars(AskAnswered) /\ WF_vars(GiveAnswer)
    /\ WF_vars(Retry) /\ WF_vars(ReturnForReading)
    /\ SF_vars(mem.task \in Gated /\ DecideNode(NextOk[mem.task]))
    /\ SF_vars(AgentEnds("ok"))

FairSpec == Spec /\ Fairness

(* Of the agent only that a run ends, as it may: AgentRunner bounds its    *)
(* steps and its budget.  The researcher may be away.                      *)
UnattendedSpec ==
    Spec /\ WF_vars(Process) /\ WF_vars(\E r \in Results : AgentEnds(r))

-----------------------------------------------------------------------------
(* Safety.                                                                 *)

(* state.yaml has two writers, the runner and the ask_human tool of the    *)
(* agent it runs.  Whenever the agent computes, the file says what the     *)
(* runner believes: this task is RUNNING, as the newest history entry, and *)
(* no gate is pending.  After a question whose wait timed out it still     *)
(* shows the question.  So all that the runner's next dump may overwrite   *)
(* is the gate of a question which nobody answered and which is on file.   *)
AgentSeesSavedState ==
    pc = "agent" =>
        /\ saved /\ disk = IF expired THEN Asking(mem) ELSE mem
        /\ expired => question = mem.task /\ mem.task \notin told
        /\ mem.status = "RUNNING" /\ mem.gate = "none" /\ mem.hist # <<>>
        /\ mem.hist[Len(mem.hist)] = [task |-> mem.task, status |-> "RUNNING"]

(* No agent is started more than SameParamLimit times without a success,   *)
(* new inputs or a decision of the researcher at a gate, whatever crashes, *)
(* interrupts, resumes and failure edges happen in between.                *)
UnattendedLaunchesBounded ==
    \A t \in Tasks \ CountFree : unattended[t] <= SameParamLimit

(* Tasks only a gate leads to: no success and no failure of an agent does. *)
BehindGate ==
    {t \in Work \ {Initial} :
        \A u \in Work \ Immediate : NextFail[u] # t /\ (u \notin Gated => NextOk[u] # t)}

(* A task behind a gate runs only when the researcher's latest answer at   *)
(* its gate, or an explicit re-entry, sent the run there: not after an     *)
(* interrupt, a crash, an unusable input or a recovery gate.               *)
GateRespected ==
    pc = "agent" /\ mem.task \in BehindGate => mem.task \in allowed

(* Open history entries: a run that no one closed.                         *)
OpenRuns(s) == {i \in DOMAIN s.hist : s.hist[i].status \in {"RUNNING", "WAITING_HUMAN"}}

(* No budget lets the researcher re-enter at a task of his choice.         *)
NoReentry == "reentry" \notin Unlimited /\ \A e \in Environments : e["reentry"] = 0

(* A failed project resumes at the task whose run failed last.             *)
FailedResumeAtCulprit ==
    pc = "failed_resume" =>
        mem.hist # <<>> /\ mem.hist[Len(mem.hist)] = [task |-> mem.task, status |-> "FAILED"]

(* A question an agent asked stays on disk, in the file that lets a later  *)
(* run take the answer up, for as long as the researcher has not answered  *)
(* it: through a lost input, Ctrl+C, a crash and a resume.                 *)
UnansweredQuestionKept ==
    saved /\ disk.gate = "ask" /\ disk.task \notin told => question = disk.task

(* An unanswered gate on disk is taken away by an answer, by an explicit   *)
(* re-entry or, if it is a recovery gate, by the scope gate that a resume  *)
(* at T2/T3 re-opens: never by a crash, an interrupt or a lost input.  The *)
(* gate of an agent's question goes as well when the agent worked on after *)
(* the time-out of ask_human; the question itself then stays on file.      *)
UnansweredGateStays ==
    [][disk.gate # "none" /\ disk'.gate = "none" =>
          \/ answered
          \/ expired /\ disk.gate = "ask" /\ question' = disk.task
          \/ pc = "down" /\ disk.gate \in {"runtime", "coverage"}
          \/ \E t \in Tasks : ResumeFromTask(t)]_vars

(* The position on disk moves only along the edges of the graph: see       *)
(* module Lifecycle, which this module implements.                         *)
Position == INSTANCE Lifecycle WITH live <- pc # "down", overdue <- expired,
                exists <- saved, task <- disk.task, status <- disk.status,
                gate <- disk.gate
FollowsLifecycle == Position!Spec

(* After its first Ctrl+C a process asks the researcher nothing more.      *)
NoPromptAfterInterrupt == sigint => pc # "gate"

(* A project that failed does not become a completed one.                  *)
FailedNeverCompletes == disk.status = "COMPLETED" => disk.task # Failed

-----------------------------------------------------------------------------
(* Liveness.                                                               *)

(* An unattended process does not go on for ever: it ends or waits for the *)
(* researcher.                                                             *)
ProcessSettles == pc = "step" ~> pc \in {"down", "gate", "failed_resume", "ask"}

(* The project gets done: no crash, interrupt, failure or deadlock guard   *)
(* leaves it in a state that resuming and answering cannot lead out of.    *)
(* After an agent failed it may be completed at `failed`, as found below   *)
(* FailedNeverCompletes, and then stays there.                             *)
EventuallyDone ==
    <>(/\ saved /\ disk.status = "COMPLETED"
       /\ disk.task = Done \/ \E i \in DOMAIN disk.hist : disk.hist[i].status = "FAILED")

=============================================================================
