---- MODULE Gate1Dialogue ----
(***************************************************************************)
(* The conversation at Gate1 of T4 (state_machine.py): the researcher's    *)
(* request is restated as a plan, confirmed or cancelled, carried out, and *)
(* remembered across crashes.  Three places remember it: the plan that     *)
(* waits in state.yaml (t4_pending_directive), the confirmations, which    *)
(* are files nobody removes, and the replay guard in state.yaml            *)
(* (t4_resumed_confirmed_directive).  How T4 makes a population is module  *)
(* EvolutionRun; here a population is there or it is not.                  *)
(***************************************************************************)
EXTENDS Naturals, Sequences

CONSTANTS
    None,
    Requests,   \* what the researcher may ask for, once each
    Kind,       \* of a request, see below
    Limit       \* how often the environment may do what is in its domain

\* "local" is an operation that only reopens the gate: a candidate that is
\* not ready, too many of them, nothing to compose.
Queued == {"evolve", "reprofile", "check"}
Kinds == Queued \cup {"rollback", "select", "local"}
Budgets == {"request", "word", "crash", "away", "reentry"}

ASSUME DialogueAssumption ==
    None \notin Requests /\ Kind \in [Requests -> Kinds] /\ Limit \in [Budgets -> Nat]

VARIABLES
    store,  \* populations, the active one, and whether its cards are current
    files,  \* what requests were about, what was said to them, the selection
    disk,   \* state.yaml
    mem,    \* the same in the process
    pc, run,    \* where the process is; the request it carries out
    used,
    \* history: how often a request took effect; the requests whose effect
    \* was saved; what was said before the last explicit re-entry
    effects, settled, before

ghosts == <<effects, settled, before>>
vars == <<store, files, disk, mem, pc, run, used, ghosts>>

\* Populations in the order of their numbers, from P0 on, each with its
\* orientation and whether its scores have the name a rollback looks for.
\* The deck is current, to be compiled, or torn from its population.
Init ==
    /\ store = [pops |-> <<[cfg |-> 0, scored |-> TRUE]>>, active |-> 1, deck |-> "current",
                by |-> None]
    /\ files = [about |-> [r \in Requests |-> 0], said |-> <<>>, chosen |-> 0]
    /\ disk = [at |-> "gate", open |-> TRUE, pending |-> None, guard |-> None, op |-> None,
               since |-> 0]
    /\ mem = disk
    /\ pc = "down" /\ run = None
    /\ used = [b \in Budgets |-> 0]
    /\ effects = [r \in Requests |-> 0] /\ settled = {} /\ before = 0

Spend(b) == used[b] < Limit[b] /\ used' = [used EXCEPT ![b] = @ + 1]
Takes(r) == effects' = [effects EXCEPT ![r] = @ + 1]
Active == store.pops[store.active]

(***************************************************************************)
(* Processes                                                               *)
(***************************************************************************)

\* The process is gone, and what it had in memory.
Gone == pc' = "down" /\ run' = None /\ mem' = disk

Resume ==
    /\ pc = "down" /\ disk.at # "past"
    /\ pc' = "step"
    /\ UNCHANGED <<store, files, disk, mem, run, used, ghosts>>

Crash ==
    /\ pc # "down" /\ Spend("crash")
    /\ Gone
    /\ UNCHANGED <<store, files, disk, ghosts>>

\* resume --from-task T4: the selection is archived, then the plan, the guard
\* and the queued operation are forgotten; confirmations so far no longer count.
Reenter ==
    /\ pc = "down" /\ Spend("reentry")
    /\ pc' = "reenter"
    /\ files' = [files EXCEPT !.chosen = 0]
    /\ UNCHANGED <<store, disk, mem, run, ghosts>>

\* mutant: the boundary is not recorded
ReentryUnbounded(s) ==
    [s EXCEPT !.at = "gate", !.open = FALSE, !.pending = None, !.guard = None, !.op = None]
Reentry(s) ==
    [s EXCEPT !.at = "gate", !.open = FALSE, !.pending = None, !.guard = None, !.op = None,
              !.since = Len(files.said)]

SaveReentry ==
    /\ pc = "reenter"
    /\ disk' = Reentry(mem) /\ mem' = disk' /\ pc' = "step"
    /\ before' = Len(files.said)
    /\ UNCHANGED <<store, files, run, used, effects, settled>>

(***************************************************************************)
(* The gate                                                                *)
(***************************************************************************)

Selected == files.chosen = store.active
Ready == store.deck = "current" /\ ~Selected

\* An incomplete deck: the recovery gate, whose retry goes to T4.
Redirected(s) == [s EXCEPT !.at = "T4", !.open = FALSE]
Reopened(s) == IF Ready THEN s ELSE Redirected(s)

FastForward ==
    /\ pc = "step" /\ mem.at = "gate" /\ mem.open /\ Selected
    /\ mem' = [mem EXCEPT !.at = "past", !.open = FALSE] /\ disk' = mem' /\ pc' = "down"
    /\ UNCHANGED <<store, files, run, used, ghosts>>

OpenGate ==
    /\ pc = "step" /\ mem.at = "gate" /\ ~mem.open
    /\ mem' = IF Ready THEN [mem EXCEPT !.open = TRUE] ELSE Redirected(mem)
    /\ disk' = mem' /\ pc' = IF Ready THEN "present" ELSE "step"
    /\ UNCHANGED <<store, files, run, used, ghosts>>

PendingGate ==
    /\ pc = "step" /\ mem.at = "gate" /\ mem.open /\ ~Selected
    /\ pc' = "present"
    /\ UNCHANGED <<store, files, disk, mem, run, used, ghosts>>

\* The newest accepted confirmation since the last re-entry, whatever was
\* said later of the same request.
Accepted == {i \in DOMAIN files.said : files.said[i].yes /\ i > mem.since}
Newest(r) == \E i \in Accepted : files.said[i].req = r /\ \A j \in Accepted : j <= i

Replayable(r) ==
    /\ mem.pending = None /\ ~Selected
    /\ Newest(r) /\ r # mem.guard
    /\ files.about[r] = store.active

\* _resume_confirmed_native_t4_directive, when the gate is refreshed.
Replay(r) ==
    /\ pc = "present" /\ Replayable(r)
    /\ mem' = [mem EXCEPT !.guard = r]
    /\ pc' = "apply" /\ run' = r
    /\ UNCHANGED <<store, files, disk, used, ghosts>>

Prompt ==
    /\ pc = "present" /\ ~\E r \in Requests : Replayable(r)
    /\ mem' = IF mem.pending # None \/ Ready THEN mem ELSE Redirected(mem)
    /\ disk' = mem'
    /\ pc' = IF mem.pending # None \/ Ready THEN "prompt" ELSE "step"
    /\ UNCHANGED <<store, files, run, used, ghosts>>

\* An answer to a gate that has become incomplete is not looked at.
AnswerTooLate ==
    /\ pc = "prompt" /\ ~Ready
    /\ mem' = Redirected(mem) /\ pc' = "save"
    /\ UNCHANGED <<store, files, disk, run, used, ghosts>>

Submit(r) ==
    /\ pc = "prompt" /\ Ready /\ mem.pending = None /\ files.about[r] = 0
    /\ Spend("request")
    /\ files' = [files EXCEPT !.about[r] = store.active]
    /\ mem' = [mem EXCEPT !.pending = r] /\ pc' = "save"
    /\ UNCHANGED <<store, disk, run, ghosts>>

Say(r, yes) == files' = [files EXCEPT !.said = Append(@, [req |-> r, yes |-> yes])]

\* mutant: a confirmed request is not guarded against its replay
ConfirmUnguarded(r) ==
    /\ pc = "prompt" /\ Ready /\ mem.pending = r
    /\ Say(r, TRUE) /\ Spend("word")
    /\ mem' = [mem EXCEPT !.pending = None]
    /\ pc' = "apply" /\ run' = r
    /\ UNCHANGED <<store, disk, ghosts>>
Confirm(r) ==
    /\ pc = "prompt" /\ Ready /\ mem.pending = r
    /\ Say(r, TRUE) /\ Spend("word")
    /\ mem' = [mem EXCEPT !.pending = None, !.guard = r]
    /\ pc' = "apply" /\ run' = r
    /\ UNCHANGED <<store, disk, ghosts>>

Cancel(r) ==
    /\ pc = "prompt" /\ Ready /\ mem.pending = r
    /\ Say(r, FALSE) /\ Spend("word")
    /\ mem' = [mem EXCEPT !.pending = None] /\ pc' = "save"
    /\ UNCHANGED <<store, disk, run, ghosts>>

Away ==
    /\ pc = "prompt" /\ Spend("away")
    /\ disk' = mem /\ pc' = "down"
    /\ UNCHANGED <<store, files, mem, run, ghosts>>

(***************************************************************************)
(* _apply_native_t4_directive                                              *)
(***************************************************************************)

ApplyLocal ==
    /\ pc = "apply" /\ Kind[run] = "local"
    /\ Takes(run)
    /\ mem' = Reopened(mem) /\ pc' = "save"
    /\ UNCHANGED <<store, files, disk, run, used, settled, before>>

ApplySelect ==
    /\ pc = "apply" /\ Kind[run] = "select"
    /\ files' = [files EXCEPT !.chosen = store.active] /\ Takes(run)
    /\ mem' = [mem EXCEPT !.at = "past", !.open = FALSE] /\ pc' = "save"
    /\ UNCHANGED <<store, disk, run, used, settled, before>>

ApplyQueued ==
    /\ pc = "apply" /\ Kind[run] \in Queued
    /\ mem' = [mem EXCEPT !.at = "T4", !.open = FALSE, !.op = run] /\ pc' = "save"
    /\ UNCHANGED <<store, files, disk, run, used, ghosts>>

\* P0 is the earliest; a population of another orientation is refused by
\* activate_population with an exception, which ends the process.
ApplyRollback ==
    /\ pc = "apply" /\ Kind[run] = "rollback"
    /\ \/ /\ store.active = 1
          /\ mem' = Reopened(mem) /\ pc' = "save"
          /\ UNCHANGED <<store, run, effects>>
       \/ /\ store.active > 1 /\ store.pops[store.active - 1].cfg # Active.cfg
          /\ Gone
          /\ UNCHANGED <<store, effects>>
       \/ /\ store.active > 1 /\ store.pops[store.active - 1].cfg = Active.cfg
          /\ store' = [store EXCEPT !.active = @ - 1, !.deck = "torn"] /\ Takes(run)
          /\ pc' = "rollback"
          /\ UNCHANGED <<mem, run>>
    /\ UNCHANGED <<files, disk, used, settled, before>>

\* The scores of a revised profile are not found: another exception.
RollbackDeck ==
    /\ pc = "rollback"
    /\ IF Active.scored
       THEN /\ store' = [store EXCEPT !.deck = "stale"] /\ mem' = Redirected(mem)
            /\ pc' = "save" /\ UNCHANGED run
       ELSE Gone /\ UNCHANGED store
    /\ UNCHANGED <<files, disk, used, ghosts>>

\* The gate goes on in this process unless the project has left it.
Save ==
    /\ pc = "save"
    /\ disk' = mem
    /\ settled' = settled \cup ({run} \ {None, mem.op}) /\ run' = None
    /\ pc' = CASE mem.at = "past" -> "down"
               [] mem.at = "gate" /\ mem.open -> "present"
               [] OTHER -> "step"
    /\ UNCHANGED <<store, files, mem, used, effects, before>>

(***************************************************************************)
(* T4, as far as the gate can tell                                         *)
(***************************************************************************)

Populated(cfg, scored) ==
    store' = [pops |-> Append(store.pops, [cfg |-> cfg, scored |-> scored]),
              active |-> Len(store.pops) + 1, deck |-> "current", by |-> mem.op]

\* The receipt keeps T4 from making the population of one operation twice.
T4Makes ==
    /\ pc = "step" /\ mem.at = "T4" /\ mem.op # None
    /\ Kind[mem.op] # "check" /\ store.by # mem.op
    /\ IF Kind[mem.op] = "evolve"
       THEN Populated(Active.cfg, TRUE) ELSE Populated(Len(store.pops), FALSE)
    /\ Takes(mem.op)
    /\ UNCHANGED <<files, disk, mem, pc, run, used, settled, before>>

\* An evolution may also end without a new population, a check always does.
T4Ends ==
    /\ pc = "step" /\ mem.at = "T4" /\ mem.op # None
    /\ Kind[mem.op] # "reprofile" \/ store.by = mem.op
    /\ IF Kind[mem.op] = "check" THEN Takes(mem.op) ELSE UNCHANGED effects
    /\ mem' = [mem EXCEPT !.at = "gate", !.op = None] /\ pc' = "save" /\ run' = mem.op
    /\ UNCHANGED <<store, files, disk, used, settled, before>>

\* Cards for the restored population; without its portfolio there are none,
\* and the recovery gate stays.
T4Repairs ==
    /\ pc = "step" /\ mem.at = "T4" /\ mem.op = None
    /\ IF store.deck = "torn"
       THEN pc' = "down" /\ UNCHANGED <<store, mem>>
       ELSE /\ store' = [store EXCEPT !.deck = "current"]
            /\ mem' = [mem EXCEPT !.at = "gate"] /\ pc' = "save"
    /\ UNCHANGED <<files, disk, run, used, ghosts>>

Runner ==
    \/ SaveReentry \/ FastForward \/ OpenGate \/ PendingGate \/ Prompt \/ AnswerTooLate
    \/ \E r \in Requests : Replay(r)
    \/ ApplyLocal \/ ApplySelect \/ ApplyQueued \/ ApplyRollback \/ RollbackDeck \/ Save
    \/ T4Makes \/ T4Ends \/ T4Repairs

Researcher ==
    \/ \E r \in Requests : Submit(r) \/ Confirm(r) \/ Cancel(r)
    \/ Away \/ Reenter

Next == Runner \/ Researcher \/ Resume \/ Crash

Spec == Init /\ [][Next]_vars

(***************************************************************************)
(* Properties                                                              *)
(***************************************************************************)

\* What was said of r since the last explicit re-entry.
Words(r) == {i \in DOMAIN files.said : i > before /\ files.said[i].req = r}

\* Nothing takes effect on the strength of an older decision: after
\* --from-task T4 every selection, rollback and new population has been
\* confirmed since, although the confirmations before it are still there.
EffectsConsented ==
    [][\A r \in Requests : effects'[r] # effects[r] =>
          \E i \in Words(r) : files.said[i].yes]_vars

\* A request whose result was saved does not take effect again, from
\* whichever of the three places that remember it.
EffectsOnce ==
    [][\A r \in Requests : effects'[r] # effects[r] => r \notin settled]_vars

\* A cancelled request is not taken up again.
CancelledStays ==
    [][\A r \in Requests : pc # "apply" /\ pc' = "apply" /\ run' = r =>
          \A i \in Words(r)' : (\A j \in Words(r)' : j <= i) => files'.said[i].yes]_vars

====
