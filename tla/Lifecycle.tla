---- MODULE Lifecycle ----
(***************************************************************************)
(* What a workspace promises to its researcher: the position state.yaml    *)
(* records (task, status, kind of pending gate) moves along the edges of   *)
(* the graph and nowhere else.  An agent's result moves a RUNNING task, a  *)
(* gate moves on its own answer, a re-entry happens as a process starts,   *)
(* and what goes wrong (Ctrl+C, a crash, a lost input) can only pause the  *)
(* position where it is.  Only a question of the running agent may lapse   *)
(* when its wait times out: then a success or a pause of the run counts as *)
(* if nothing had been asked, while a failure puts the question again.     *)
(* Pipeline implements this for the file on disk.                          *)
(***************************************************************************)
CONSTANTS Tasks, Done, Failed, Initial, Gated, NextOk, NextFail, Branches,
          ReadingTask

VARIABLES live,                         \* a process works on the workspace
          overdue,                      \* it does not wait for an answer any more
          exists, task, status, gate    \* what the file says, once it exists

position == <<exists, task, status, gate>>
pos == <<live, overdue, position>>

Terminals == {Done, Failed}
Work == Tasks \ Terminals
Gates == {"node", "runtime", "coverage", "ask"}

At(t, st, g) ==
    exists' = TRUE /\ task' = t /\ status' = st /\ gate' = g /\ overdue' = FALSE

(* A step of the process, which lives on.                                  *)
Process == live /\ live'

Init == ~live /\ ~overdue /\ ~exists /\ task = Initial /\ status = "RUNNING" /\ gate = "none"

(* The status a task is entered with.                                      *)
Entered(t) == IF t = Failed THEN "FAILED" ELSE IF t = Done THEN "COMPLETED" ELSE "RUNNING"

Free == Process /\ task \in Work /\ gate = "none" /\ status \in {"RUNNING", "PAUSED"}

(* The task's agent starts, or starts again.                               *)
Launch == Free /\ At(task, "RUNNING", "none")

(* The task waits for the researcher.                                      *)
Wait(g) == Free /\ (g = "node" => task \in Gated) /\ At(task, "WAITING_HUMAN", g)

Working == Process /\ exists /\ task \in Work /\ status = "RUNNING" /\ gate = "none"

(* The wait for the agent's question ends without an answer, or the        *)
(* question is put again: by the agent, or because its run failed.         *)
Expire == Process /\ gate = "ask" /\ ~overdue /\ overdue' /\ UNCHANGED position

Renew == Process /\ overdue /\ ~overdue' /\ UNCHANGED position

Lapsed == Process /\ exists /\ task \in Work /\ gate = "ask" /\ overdue

(* A success moves on, unless the task has a gate: then only an answer can. *)
Succeed == (Working \/ Lapsed) /\ task \notin Gated /\ At(NextOk[task], Entered(NextOk[task]), "none")

Fail == /\ Working
        /\ At(NextFail[task],
              IF NextFail[task] \in Terminals THEN "FAILED" ELSE "RUNNING", "none")

(* What else a run that outlives its question may do: a success opens the  *)
(* gate of its task, a pause leaves none.                                  *)
Outlive == /\ Lapsed
           /\ \/ task \in Gated /\ At(task, "WAITING_HUMAN", "node")
              \/ At(task, "PAUSED", "none")

Decide(t) ==
    /\ Process /\ gate = "node" /\ t \in Branches[task]
    /\ At(t, IF t = task THEN "PAUSED" ELSE Entered(t), "none")

Answer == Process /\ gate \in {"ask", "runtime"} /\ At(task, "RUNNING", "none")

ReturnForReading == Process /\ gate = "coverage" /\ At(ReadingTask, "RUNNING", "none")

(* Interrupted, out of input, or blocked: the position stays.              *)
Suspend == live /\ live' \in BOOLEAN /\ status # "COMPLETED" /\ At(task, "PAUSED", gate)

(* Arrived at the end; a terminal node reached any other way than by a     *)
(* failure counts as the end of a completed project.                       *)
Finish == /\ Process /\ task \in Terminals /\ gate = "none" /\ status # "FAILED"
          /\ At(task, "COMPLETED", "none")

(* A failed project goes back to a task it ran.                            *)
Revive(t) == Process /\ status = "FAILED" /\ At(t, "PAUSED", "none")

(* Re-entry as a process starts, whatever the file says: chosen by the     *)
(* researcher, or at the scope gate of T2/T3.                              *)
Enter == ~live /\ live'

Reenter(t) == Enter /\ exists /\ t \in Work /\ At(t, "PAUSED", "none")

(* A process starts or goes away and leaves the position alone.            *)
ComeOrGo == live' = ~live /\ overdue' = FALSE /\ UNCHANGED position

Next == \/ Launch \/ Succeed \/ Fail \/ Answer \/ ReturnForReading \/ Suspend \/ Finish
        \/ Expire \/ Renew \/ Outlive \/ ComeOrGo
        \/ \E g \in Gates : Wait(g)
        \/ \E t \in Tasks : Decide(t) \/ Revive(t) \/ Reenter(t)

Spec == Init /\ [][Next]_pos

=============================================================================
