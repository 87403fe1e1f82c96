---- MODULE Errand ----
(***************************************************************************)
(* What a workspace promises when, beside the pipeline, `researchos        *)
(* run-task t` commands work on it: the pipeline's processes move the      *)
(* position as Lifecycle says; a command takes it to its own task, unless  *)
(* that task's gate already waits there, and from there makes one move.    *)
(* If the move leads to another task, the project is paused before it.     *)
(* SingleTask implements this for the file on disk.                        *)
(***************************************************************************)
EXTENDS Lifecycle

CONSTANT None
VARIABLES errand,   \* the task of the live command, or None
          stage     \* how far it got: heading for its task, there, over

duty == <<errand, stage>>

CommandInit == Init /\ errand = None /\ stage = "out"

(* A command starts, wherever the project stands.                          *)
Order(t) ==
    /\ ~live /\ live' /\ t \in Work /\ errand' = t /\ stage' = "heading"
    /\ UNCHANGED <<overdue, position>>

Onward(from, to) ==
    Process /\ errand # None /\ stage = from /\ stage' = to /\ UNCHANGED errand

OwnGate == task = errand /\ gate # "none"

(* A gate of its task is taken up as it is; without one the task's agent   *)
(* starts or the task comes to wait; or the command is refused.            *)
TakeUp == Onward("heading", "there") /\ OwnGate /\ UNCHANGED <<overdue, position>>

Take ==
    /\ Onward("heading", "there") /\ ~OwnGate
    /\ \/ At(errand, "RUNNING", "none")
       \/ \E g \in Gates : (g = "node" => errand \in Gated) /\ At(errand, "WAITING_HUMAN", g)

Refuse == Onward("heading", "over") /\ UNCHANGED <<overdue, position>>

(* At the task: a question or a recovery gate comes and goes, and the wait *)
(* for an answer may end without one.                                      *)
Stay == /\ Onward("there", "there") /\ task = errand
        /\ Answer \/ Expire \/ Renew \/ \E g \in Gates : Wait(g)

Again == Onward("there", "heading") /\ task = errand /\ task' = errand
         /\ (Answer \/ ReturnForReading)

(* The one move; a success that leads to a task is paused before it.       *)
SucceedOnce ==
    /\ Working \/ Lapsed
    /\ task \notin Gated
    /\ LET t == NextOk[task] IN
       At(t, IF t \in Work THEN "PAUSED" ELSE Entered(t), "none")

Leave == /\ Onward("there", "over") /\ task = errand
         /\ \/ SucceedOnce \/ Outlive \/ Fail \/ Answer \/ ReturnForReading \/ Wait("node")
            \/ \E t \in Tasks : Decide(t)

Gone == ~live' /\ ~overdue' /\ errand' = None /\ stage' = "out"

(* Interrupted, out of input, or paused before the next task; on its way   *)
(* only by the end of the process.                                         *)
Halt == /\ errand # None /\ Suspend
        /\ Gone \/ (live' /\ stage # "heading" /\ stage' = "over" /\ UNCHANGED errand)

Go == live /\ errand # None /\ Gone /\ UNCHANGED position

Command == TakeUp \/ Take \/ Refuse \/ Stay \/ Again \/ Leave \/ Halt \/ Go

CommandNext == \/ errand = None /\ Next /\ UNCHANGED duty
               \/ \E t \in Tasks : Order(t)
               \/ Command

CommandSpec == CommandInit /\ [][CommandNext]_<<pos, duty>>

=============================================================================
