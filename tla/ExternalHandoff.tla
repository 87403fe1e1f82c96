---- MODULE ExternalHandoff ----
(***************************************************************************)
(* T5 to T8: the workspace hands an experiment to an external executor and *)
(* takes its results back.  Three parties share the workspace without a    *)
(* lock: the researcher's session ("shell"), the executor, and the session *)
(* the executor starts at its end with run-task T8 ("skill").  An action   *)
(* ends at every file another party, or a restart, may read.  The tasks    *)
(* between the ones named here (protocol and material gates, executor      *)
(* skills, bounded resource preparation) and T8 after its resource index   *)
(* are left out; a compiled pack is ready to be executed.                  *)
(***************************************************************************)
EXTENDS Naturals, FiniteSets, TLC

CONSTANTS
    None,
    Controls,   \* the files a compile publishes beside the handoff pack
    Runs,       \* how often the executor may be started
    Events,     \* what else the environment may do, each once,
    Most        \* and how many of them

Sessions == {"shell", "skill"}
T8 == {"T8-STYLE-GATE", "T8-RESOURCE", "T8-WRITE"}
BeforeWait == {"T4-GATE1", "T5-REBOOST-GATE", "T5-EXECUTOR-GATE"}
Tasks == T8 \cup BeforeWait \cup {"T5-DRY-RUN", "T5-EXTERNAL-WAIT"}

States == [at : Tasks, parked : BOOLEAN, delegated : BOOLEAN]
AllEvents == {"reselect", "crash", "fault", "handler", "dry", "revise", "leave"}

ASSUME HandoffAssumption ==
    /\ Controls # {} /\ IsFiniteSet(Controls)
    /\ None \notin States
    /\ Runs \in Nat /\ Events \subseteq AllEvents /\ Most \in Nat

VARIABLES
    ws,     \* the files of the hand-off
    yaml,   \* state.yaml
    proc,   \* the two ResearchOS sessions
    exec,   \* the external executor
    used,   \* history: the drafts T8 has indexed, for which candidate
    spent   \* the events that have happened

vars == <<ws, yaml, proc, exec, used, spent>>

\* A session outside the runner has no state in memory.
Closed == [pc |-> "down", mem |-> None, acc |-> None, data |-> None, todo |-> {}]

Init ==
    /\ ws = [contract |-> 1,  \* which candidate the T4 and T4.5 files are for
             pack |-> [status |-> "none", of |-> 0],
             controls |-> [c \in Controls |-> 0],  \* 0: absent
             selection |-> None,
             result |-> None, facts |-> None, validation |-> None,
             drafts |-> [d \in {"receipt", "evidence", "claims"} |-> None]]
    /\ yaml = [at |-> "T5-REBOOST-GATE", parked |-> FALSE, delegated |-> FALSE]
    /\ proc = [p \in Sessions |-> Closed]
    /\ exec = [pc |-> "idle", run |-> 0, of |-> 0]
    /\ used = None
    /\ spent = {}

Spend(e) ==
    /\ e \in Events \ spent /\ Cardinality(spent) < Most
    /\ spent' = spent \cup {e}

(***************************************************************************)
(* Checks of the files                                                     *)
(***************************************************************************)

\* The core files, by content: the results of a run and the facts drawn
\* from them.  The executor's validation records a hash of each.
Core == [result |-> ws.result, facts |-> ws.facts]

\* validate_modern_t5_handoff: the hashes, but not for which candidate.
Acceptable ==
    /\ ws.validation # None
    /\ ws.validation = Core
    /\ ws.result.kind = "real"

\* validate_t8_ingest_artifacts: the three drafts carry the accepted hashes
\* and what is normalised from the current files.
Ingested(acc) ==
    /\ ws.drafts["receipt"] # None
    /\ ws.drafts["receipt"].acc = acc
    /\ \A d \in DOMAIN ws.drafts : ws.drafts[d] = [acc |-> acc, data |-> Core]

(***************************************************************************)
(* A session and state.yaml                                                *)
(***************************************************************************)

Goto(p, l) == proc' = [proc EXCEPT ![p].pc = l]
At(p, l) == proc[p].pc = l
Task(p, t) == At(p, "step") /\ proc[p].mem.at = t

\* The next task, in memory; Save writes the whole of it.
Advance(p, t) ==
    proc' = [proc EXCEPT ![p] = [Closed EXCEPT !.pc = "save",
                !.mem = [proc[p].mem EXCEPT !.at = t, !.parked = FALSE]]]

Save(p) ==
    /\ At(p, "save")
    /\ yaml' = proc[p].mem
    /\ Goto(p, "step")
    /\ UNCHANGED <<ws, exec, used, spent>>

\* A pause: the task stays, the session ends or shows the panel of the wait.
Park(p, l) ==
    LET state == [proc[p].mem EXCEPT !.parked = TRUE] IN
    /\ yaml' = state
    /\ proc' = [proc EXCEPT ![p] = [Closed EXCEPT !.pc = l,
                                    !.mem = IF l = "panel" THEN state ELSE None]]

Load(p) ==
    proc' = [proc EXCEPT ![p] = [Closed EXCEPT !.mem = yaml,
        !.pc = IF yaml.at = "T5-EXTERNAL-WAIT" /\ yaml.parked THEN "panel" ELSE "step"]]

\* The researcher does not open a session beside one already in T8.
NoSecondSession == proc["skill"].mem = None /\ ~At("skill", "load")

\* resume: by the researcher, and as the last call of run-task T8.
Resume(p) ==
    /\ \/ /\ p = "shell" /\ At(p, "down") /\ NoSecondSession
          /\ yaml.at # "T8-WRITE"
       \/ At(p, "load")
    /\ Load(p)
    /\ UNCHANGED <<ws, yaml, exec, used, spent>>

\* The researcher goes back to choose another candidate.  The executor has
\* been stopped, but a run-task T8 it started may be under way.
Reselect ==
    /\ Spend("reselect")
    /\ At("shell", "down") /\ yaml.at # "T4-GATE1"
    /\ exec.pc = "idle" /\ NoSecondSession
    /\ yaml' = [yaml EXCEPT !.at = "T4-GATE1", !.parked = FALSE]
    /\ UNCHANGED <<ws, proc, exec, used>>

\* T8 has refused its drafts: the researcher goes back to the wait, whose
\* prerequisites are there.
Reingest ==
    /\ At("shell", "down") /\ NoSecondSession
    /\ yaml.at = "T8-RESOURCE" /\ yaml.parked
    /\ ws.pack.status # "none" /\ ws.selection # None
    /\ \A c \in Controls : ws.controls[c] # 0
    /\ yaml' = [yaml EXCEPT !.at = "T5-EXTERNAL-WAIT", !.parked = FALSE]
    /\ UNCHANGED <<ws, proc, exec, used, spent>>

Crash(p) ==
    /\ Spend("crash")
    /\ ~At(p, "down")
    /\ proc' = [proc EXCEPT ![p] = Closed]
    /\ UNCHANGED <<ws, yaml, exec, used>>

(***************************************************************************)
(* T4-GATE1 and T5-REBOOST-GATE: a candidate and its handoff               *)
(***************************************************************************)

Select(p) ==
    /\ Task(p, "T4-GATE1")
    /\ ws' = [ws EXCEPT !.contract = @ + 1]
    /\ Advance(p, "T5-REBOOST-GATE")
    /\ UNCHANGED <<yaml, exec, used, spent>>

\* Both runners compile anew, without an agent.
\* mutant: a completed pack is reused
ReboostReuses(p) ==
    /\ Task(p, "T5-REBOOST-GATE")
    /\ IF ws.pack.status = "completed" THEN Advance(p, "T5-EXECUTOR-GATE") ELSE Goto(p, "block")
    /\ UNCHANGED <<ws, yaml, exec, used, spent>>
Reboost(p) ==
    /\ Task(p, "T5-REBOOST-GATE")
    /\ Goto(p, "block")
    /\ UNCHANGED <<ws, yaml, exec, used, spent>>

Compiling == {"block", "remove", "build", "publish", "commit"}

\* The old authorization is revoked before anything is touched.
\* mutant: only the files are removed
RemoveFirst(p) ==
    /\ At(p, "block")
    /\ proc' = [proc EXCEPT ![p].pc = "remove", ![p].todo = Controls]
    /\ UNCHANGED <<ws, yaml, exec, used, spent>>
Block(p) ==
    /\ At(p, "block")
    /\ ws' = [ws EXCEPT !.pack = [status |-> "blocked", of |-> 0]]
    /\ proc' = [proc EXCEPT ![p].pc = "remove", ![p].todo = Controls]
    /\ UNCHANGED <<yaml, exec, used, spent>>

\* One file after the other, then on to l.
Each(p, c, value, l) ==
    /\ c \in proc[p].todo
    /\ ws' = [ws EXCEPT !.controls[c] = value]
    /\ proc' = [proc EXCEPT ![p].todo = @ \ {c},
                            ![p].pc = IF proc[p].todo = {c} THEN l ELSE @]

Remove(p) ==
    /\ At(p, "remove")
    /\ \E c \in Controls : Each(p, c, 0, "build")
    /\ UNCHANGED <<yaml, exec, used, spent>>

\* The staged pack is validated; refused, it is marked blocked once more.
\* mutant: the pack takes its final place before the files
CommitFirst(p) ==
    /\ At(p, "build")
    /\ ws' = [ws EXCEPT !.pack = [status |-> "completed", of |-> ws.contract]]
    /\ proc' = [proc EXCEPT ![p].pc = "publish", ![p].todo = Controls]
    /\ UNCHANGED <<yaml, exec, used, spent>>
Build(p) ==
    /\ At(p, "build")
    /\ proc' = [proc EXCEPT ![p].pc = "publish", ![p].todo = Controls]
    /\ UNCHANGED <<ws, yaml, exec, used, spent>>
Refused(p) ==
    /\ At(p, "build") /\ Spend("fault")
    /\ ws' = [ws EXCEPT !.pack = [status |-> "blocked", of |-> 0],
                        !.controls = [c \in Controls |-> 0]]
    /\ Park(p, "down")
    /\ UNCHANGED <<exec, used>>

Publish(p) ==
    /\ At(p, "publish")
    /\ \E c \in Controls : Each(p, c, ws.contract, "commit")
    /\ UNCHANGED <<yaml, exec, used, spent>>

Commit(p) ==
    /\ At(p, "commit")
    /\ ws' = [ws EXCEPT !.pack = [status |-> "completed", of |-> ws.contract]]
    /\ Advance(p, "T5-EXECUTOR-GATE")
    /\ UNCHANGED <<yaml, exec, used, spent>>

\* An exception: the handler revokes what it can, and may fail as well.
Raise(p) ==
    /\ proc[p].pc \in Compiling /\ Spend("fault")
    /\ Goto(p, "revoke")
    /\ UNCHANGED <<ws, yaml, exec, used>>

Revoke(p) ==
    /\ At(p, "revoke")
    /\ ws' = [ws EXCEPT !.pack = [status |-> "blocked", of |-> 0]]
    /\ proc' = [proc EXCEPT ![p].pc = "undo", ![p].todo = Controls]
    /\ UNCHANGED <<yaml, exec, used, spent>>

Undo(p) ==
    /\ At(p, "undo")
    /\ \E c \in Controls : Each(p, c, 0, "failed")
    /\ UNCHANGED <<yaml, exec, used, spent>>

CompileFailed(p) ==
    /\ \/ At(p, "failed") /\ UNCHANGED spent
       \/ proc[p].pc \in {"revoke", "undo"} /\ Spend("handler")
    /\ Park(p, "down")
    /\ UNCHANGED <<ws, exec, used>>

(***************************************************************************)
(* T5-EXECUTOR-GATE and T5-DRY-RUN                                         *)
(***************************************************************************)

Choose(p, option, t) ==
    /\ Task(p, "T5-EXECUTOR-GATE")
    /\ ws' = [ws EXCEPT !.selection = option]
    /\ Advance(p, t)
    /\ UNCHANGED <<yaml, exec, used>>

ExecutorGate(p) ==
    \/ Choose(p, "real", "T5-EXTERNAL-WAIT") /\ UNCHANGED spent
    \/ Choose(p, "mock", "T5-DRY-RUN") /\ Spend("dry")
    \/ Choose(p, "deferred", "T5-REBOOST-GATE") /\ Spend("revise")

DryRun(p) ==
    /\ Task(p, "T5-DRY-RUN")
    /\ ws' = [ws EXCEPT !.result = [run |-> 0, of |-> ws.contract, kind |-> "mock"]]
    /\ Advance(p, "T5-EXECUTOR-GATE")
    /\ UNCHANGED <<yaml, exec, used, spent>>


(***************************************************************************)
(* T5-EXTERNAL-WAIT and run-task T8                                        *)
(***************************************************************************)

\* run-task T8 ends with an exit code; the runner shows the panel.
NotAccepted(p) ==
    IF proc[p].mem = None
    THEN yaml' = yaml /\ proc' = [proc EXCEPT ![p] = Closed]
    ELSE Park(p, "panel")

\* validate_t8_entry_state reads state.yaml, not the session's memory.
Authorized == yaml.at = "T5-EXTERNAL-WAIT"

Entry(p) ==
    /\ Task(p, "T5-EXTERNAL-WAIT") \/ At(p, "entry")
    /\ IF Authorized THEN Goto(p, "validate") /\ UNCHANGED yaml ELSE NotAccepted(p)
    /\ UNCHANGED <<ws, exec, used, spent>>

Validate(p) ==
    /\ At(p, "validate")
    /\ IF Acceptable
       THEN /\ proc' = [proc EXCEPT ![p].pc = "normalise", ![p].acc = Core]
            /\ UNCHANGED yaml
       ELSE NotAccepted(p)
    /\ UNCHANGED <<ws, exec, used, spent>>

\* build_t8_ingest_artifacts reads the core files once more.
Normalise(p) ==
    /\ At(p, "normalise")
    /\ proc' = [proc EXCEPT ![p].pc = "receipt", ![p].data = Core]
    /\ UNCHANGED <<ws, yaml, exec, used, spent>>

After == [receipt |-> "evidence", evidence |-> "claims", claims |-> "published"]

\* mutant: a draft that is there is kept
WriteDraftOnce(p) ==
    /\ proc[p].pc \in DOMAIN After
    /\ ws' = IF ws.drafts[proc[p].pc] # None THEN ws ELSE
        [ws EXCEPT !.drafts[proc[p].pc] = [acc |-> proc[p].acc, data |-> proc[p].data]]
    /\ Goto(p, After[proc[p].pc])
    /\ UNCHANGED <<yaml, exec, used, spent>>
WriteDraft(p) ==
    /\ proc[p].pc \in DOMAIN After
    /\ ws' = [ws EXCEPT !.drafts[proc[p].pc] = [acc |-> proc[p].acc, data |-> proc[p].data]]
    /\ Goto(p, After[proc[p].pc])
    /\ UNCHANGED <<yaml, exec, used, spent>>

\* The runner compares the drafts with the acceptance it has just used.
Recheck(p) ==
    /\ At(p, "published") /\ proc[p].mem # None
    /\ IF Ingested(proc[p].acc)
       THEN Advance(p, "T8-STYLE-GATE") /\ UNCHANGED yaml
       ELSE NotAccepted(p)
    /\ UNCHANGED <<ws, exec, used, spent>>

\* prepare_t8_state checks the entry again; the runner then starts by
\* loading what is on the disk by that time.
\* mutant: the entry is not checked again
PrepareUnchecked(p) ==
    /\ At(p, "published") /\ proc[p].mem = None
    /\ yaml' = [at |-> "T8-STYLE-GATE", parked |-> TRUE, delegated |-> TRUE]
    /\ proc' = [proc EXCEPT ![p] = [Closed EXCEPT !.pc = "load"]]
    /\ UNCHANGED <<ws, exec, used, spent>>
\* mutant: the runner starts on what the process had, which is nothing
PrepareUnloaded(p) ==
    /\ At(p, "published") /\ proc[p].mem = None /\ Authorized
    /\ yaml' = [at |-> "T8-STYLE-GATE", parked |-> TRUE, delegated |-> TRUE]
    /\ Goto(p, "step")
    /\ UNCHANGED <<ws, exec, used, spent>>
Prepare(p) ==
    /\ At(p, "published") /\ proc[p].mem = None
    /\ IF Authorized
       THEN /\ yaml' = [at |-> "T8-STYLE-GATE", parked |-> TRUE, delegated |-> TRUE]
            /\ proc' = [proc EXCEPT ![p] = [Closed EXCEPT !.pc = "load"]]
       ELSE NotAccepted(p)
    /\ UNCHANGED <<ws, exec, used, spent>>

\* The panel: look for results now, or leave it.  Both write the state the
\* session has had in memory since the panel opened.
Check(p) ==
    /\ At(p, "panel")
    /\ Advance(p, "T5-EXTERNAL-WAIT")
    /\ UNCHANGED <<ws, yaml, exec, used, spent>>

Leave(p) ==
    /\ At(p, "panel") /\ Spend("leave")
    /\ Park(p, "down")
    /\ UNCHANGED <<ws, exec, used>>

(***************************************************************************)
(* T8: the style is confirmed, the resources are indexed                   *)
(***************************************************************************)

StyleGate(p) ==
    /\ Task(p, "T8-STYLE-GATE")
    /\ Advance(p, "T8-RESOURCE")
    /\ UNCHANGED <<ws, yaml, exec, used, spent>>

\* The package is validated afresh, then the drafts are compared with it.
\* mutant: the receipt stands for its own acceptance
TrustReceipt(p) ==
    /\ Task(p, "T8-RESOURCE")
    /\ proc' = [proc EXCEPT ![p].pc = "compare", ![p].acc = ws.drafts["receipt"].acc]
    /\ UNCHANGED <<ws, yaml, exec, used, spent>>
Resource(p) ==
    /\ Task(p, "T8-RESOURCE")
    /\ IF Acceptable
       THEN /\ proc' = [proc EXCEPT ![p].pc = "compare", ![p].acc = Core]
            /\ UNCHANGED yaml
       ELSE Park(p, "down")
    /\ UNCHANGED <<ws, exec, used, spent>>

Compare(p) ==
    /\ At(p, "compare")
    /\ IF Ingested(proc[p].acc)
       THEN /\ Advance(p, "T8-WRITE")
            /\ used' = [drafts |-> ws.drafts, for |-> ws.contract]
            /\ UNCHANGED yaml
       ELSE Park(p, "down") /\ UNCHANGED used
    /\ UNCHANGED <<ws, exec, spent>>

WriteUp(p) ==
    /\ Task(p, "T8-WRITE")
    /\ proc' = [proc EXCEPT ![p] = Closed]
    /\ UNCHANGED <<ws, yaml, exec, used, spent>>

(***************************************************************************)
(* The external executor                                                   *)
(***************************************************************************)

\* Started by the researcher while the workspace waits, perhaps again after
\* a package that was complete; it is not free while its run-task T8 lasts.
BeginRun ==
    /\ exec.run < Runs
    /\ exec.pc = "idle" /\ At("skill", "down")
    /\ Authorized /\ ws.selection = "real"
    /\ exec' = [pc |-> "run", run |-> exec.run + 1, of |-> ws.pack.of]
    /\ UNCHANGED <<ws, yaml, proc, used, spent>>

WriteResult ==
    /\ exec.pc = "run"
    /\ \E kind \in {"real", "failed"} :
        /\ ws' = [ws EXCEPT !.result = [run |-> exec.run, of |-> exec.of, kind |-> kind]]
        /\ IF kind = "failed" THEN Spend("fault") ELSE UNCHANGED spent
    /\ exec' = [exec EXCEPT !.pc = "facts"]
    /\ UNCHANGED <<yaml, proc, used>>

WriteFacts ==
    /\ exec.pc = "facts"
    /\ ws' = [ws EXCEPT !.facts = ws.result]
    /\ exec' = [exec EXCEPT !.pc = "validate"]
    /\ UNCHANGED <<yaml, proc, used, spent>>

ValidateWriterHandoff ==
    /\ exec.pc = "validate"
    /\ ws' = [ws EXCEPT !.validation = Core]
    /\ exec' = [exec EXCEPT !.pc = "route"]
    /\ UNCHANGED <<yaml, proc, used, spent>>

AlreadyDelegated == ws.drafts["receipt"] # None /\ (yaml.at \in T8 \/ yaml.delegated)

\* route_next_skill: launch-t8, once, unless T8 has been entered before.
Route ==
    /\ exec.pc = "route"
    /\ proc' = IF ws.result.kind = "real" /\ ~AlreadyDelegated /\ At("skill", "down")
               THEN [proc EXCEPT !["skill"].pc = "entry"] ELSE proc
    /\ exec' = [exec EXCEPT !.pc = "idle"]
    /\ UNCHANGED <<ws, yaml, used, spent>>

Rest ==
    /\ \A p \in Sessions : At(p, "down")
    /\ exec.pc = "idle" /\ yaml.at = "T8-WRITE"
    /\ UNCHANGED vars

Compile(p) ==
    \/ Reboost(p) \/ Block(p) \/ Remove(p) \/ Build(p) \/ Publish(p) \/ Commit(p)
    \/ Revoke(p) \/ Undo(p) \/ CompileFailed(p)

Accept(p) ==
    \/ Entry(p) \/ Validate(p) \/ Normalise(p) \/ WriteDraft(p)
    \/ Recheck(p) \/ Prepare(p)

Session(p) ==
    \/ Save(p) \/ Select(p) \/ Compile(p) \/ ExecutorGate(p) \/ DryRun(p)
    \/ Accept(p) \/ StyleGate(p) \/ Resource(p) \/ Compare(p) \/ WriteUp(p)

Executor == WriteResult \/ WriteFacts \/ ValidateWriterHandoff \/ Route

Next ==
    \/ \E p \in Sessions :
        Session(p) \/ Resume(p) \/ Check(p) \/ Leave(p)
            \/ Refused(p) \/ Raise(p) \/ Crash(p)
    \/ Reselect \/ Reingest \/ BeginRun \/ Executor \/ Rest

Spec == Init /\ [][Next]_vars

\* A session and the executor go on; the researcher resumes, chooses an
\* executor, answers the panel, and goes back when T8 keeps refusing.
Fairness ==
    /\ \A p \in Sessions : WF_vars(Session(p)) /\ WF_vars(Resume(p)) /\ WF_vars(Check(p))
    /\ WF_vars(Executor)
    /\ SF_vars(Reingest)

FairSpec == Spec /\ Fairness

(***************************************************************************)
(* Properties                                                              *)
(***************************************************************************)

TypeOK ==
    /\ yaml \in States
    /\ ws.pack \in [status : {"none", "blocked", "completed"}, of : Nat]
    /\ ws.controls \in [Controls -> Nat]
    /\ ws.selection \in {None, "real", "mock", "deferred"}
    /\ DOMAIN ws.drafts = DOMAIN After
    /\ \A p \in Sessions :
        /\ proc[p].pc \in Compiling \cup {"down", "load", "step", "save", "panel", "revoke",
             "undo", "failed", "entry", "validate", "normalise", "published", "compare"}
             \cup DOMAIN After
        /\ proc[p].todo \subseteq Controls
        /\ proc[p].pc \in Compiling \cup {"step", "save", "panel", "compare"} =>
             proc[p].mem # None
    /\ exec.pc \in {"idle", "run", "facts", "validate", "route"}

\* The pack is the commit signal: while it says completed, every file
\* published with it is there and was compiled with it, whatever compile was
\* cut short or failed since, its exception handler included.
PublishedBeforeCommit ==
    ws.pack.status = "completed" =>
        \A c \in Controls : ws.controls[c] = ws.pack.of

\* Whenever the workspace lets an executor work, the handoff is complete and
\* is the one of the candidate now chosen.
NoStaleAuthorization ==
    yaml.at \in {"T5-EXECUTOR-GATE", "T5-DRY-RUN", "T5-EXTERNAL-WAIT"} =>
        ws.pack = [status |-> "completed", of |-> ws.contract]

\* What T8 writes from comes from one real run, read once: neither a run
\* that replaced its files while they were accepted, nor two sessions that
\* published at the same time, mixes two runs in it.
NoTornEvidence ==
    used # None =>
        \E run \in {used.drafts["receipt"].acc.result} :
            /\ run.kind = "real"
            /\ \A d \in DOMAIN used.drafts :
                LET core == [result |-> run, facts |-> run]
                IN  used.drafts[d] = [acc |-> core, data |-> core]

\* While another candidate is being chosen and prepared, no session moves
\* the workspace into T8, not even a run-task T8 that passed its entry check
\* before.
ReselectionNotOvertaken ==
    [][yaml.at \in BeforeWait => yaml'.at \notin T8]_vars

\* Once the executor has stopped and its package stays acceptable, T8 is
\* reached and written up, also when a session with an older state has
\* written it over, and when T8 refused drafts made from an earlier package.
EventuallyWritten ==
    <>[](exec.pc = "idle" /\ Acceptable) => <>[](yaml.at = "T8-WRITE")

\* What a new candidate is written up from was measured for it.
EvidenceForCurrentCandidate ==
    used # None => used.drafts["receipt"].acc.result.of = used.for

====
