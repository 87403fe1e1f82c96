---- MODULE DialogueProofs ----
(***************************************************************************)
(* What holds of Gate1Dialogue for any requests and any budgets: nothing   *)
(* takes effect without a confirmation that still counts, nor twice.       *)
(***************************************************************************)
EXTENDS Gate1Dialogue, SequenceTheorems, TLAPS

States == [at : {"gate", "T4", "past"}, open : BOOLEAN, pending : Requests \cup {None},
           guard : Requests \cup {None}, op : Requests \cup {None}, since : Nat]

Stored ==
    /\ store \in [pops : Seq([cfg : Nat, scored : BOOLEAN]), active : Nat \ {0},
                  deck : {"current", "stale", "torn"}, by : Requests \cup {None}]
    /\ store.active <= Len(store.pops)
Filed ==
    files \in [about : [Requests -> Nat], said : Seq([req : Requests, yes : BOOLEAN]), chosen : Nat]
Counted ==
    /\ effects \in [Requests -> Nat] /\ settled \subseteq Requests
    /\ \A r \in settled : files.about[r] # 0
    /\ before \in 0 .. Len(files.said)
Shaped == Stored /\ Filed /\ disk \in States /\ mem \in States /\ run \in Requests \cup {None} /\ Counted

\* r was confirmed since the last re-entry.
Consented(r) == \E i \in Words(r) : files.said[i].yes

\* What a state.yaml remembers is still to be done: the plan, the operation,
\* and, unless the guard names it, the newest accepted confirmation.
LatestYes(i) ==
    /\ i \in DOMAIN files.said /\ files.said[i].yes /\ i > before
    /\ \A j \in DOMAIN files.said : files.said[j].yes /\ j > before => j <= i
PlanDue(s) == s.pending # None => s.pending \notin settled /\ files.about[s.pending] # 0
OperationDue(s) ==
    s.op # None => /\ s.at = "T4" /\ s.pending = None /\ s.guard = s.op
                   /\ s.op \notin settled /\ files.about[s.op] # 0 /\ Consented(s.op)
Guarded(s) ==
    \A i \in DOMAIN files.said :
        LatestYes(i) /\ files.said[i].req \in settled => s.guard = files.said[i].req
Due(s) == s.since = before /\ PlanDue(s) /\ OperationDue(s) /\ Guarded(s)

\* The request being carried out is one of them.
AtWork ==
    /\ pc = "apply" => run # None
    /\ pc \in {"present", "prompt", "apply", "rollback"} => mem.op = None
    /\ run # None => /\ pc \in {"apply", "rollback", "save"}
                     /\ mem.pending = None /\ mem.guard = run
                     /\ run \notin settled /\ files.about[run] # 0 /\ Consented(run)

GInv == Shaped /\ Due(disk) /\ Due(mem) /\ AtWork

USE DialogueAssumption

\* A new project has nothing to remember.
LEMMA DialogueStarts == Init => GInv
<1> SUFFICES ASSUME Init PROVE GInv
  OBVIOUS
<1>1. Shaped
  BY DEF Init, Shaped, Stored, Filed, Counted, States
<1>2. Due(disk) /\ Due(mem) /\ AtWork
  BY DEF Init, Due, PlanDue, OperationDue, Guarded, AtWork
<1> QED
  BY <1>1, <1>2 DEF GInv

\* What was said stays; Due and AtWork depend on nothing else that a step
\* which leaves these variables alone could change.
LEMMA SameWords ==
    ASSUME files'.said = files.said, before' = before
    PROVE  /\ \A r : Consented(r)' <=> Consented(r)
           /\ \A i : LatestYes(i)' <=> LatestYes(i)
BY DEF Consented, Words, LatestYes

\* Who writes which variable.
LEMMA StoreWritten ==
    ASSUME [Next]_vars
    PROVE  UNCHANGED store \/ ApplyRollback \/ RollbackDeck \/ T4Makes \/ T4Repairs
BY DEF Next, Runner, Researcher, vars, ghosts, Resume, Crash, Gone, Reenter, SaveReentry,
       FastForward, OpenGate, PendingGate, Replay, Prompt, AnswerTooLate, Submit, Confirm, Say,
       Cancel, Away, ApplyLocal, ApplySelect, ApplyQueued, ApplyRollback, RollbackDeck, Save,
       T4Makes, T4Ends, T4Repairs

\* The files are written by requests, answers, a selection and a re-entry.
LEMMA FilesWritten ==
    ASSUME [Next]_vars
    PROVE  \/ UNCHANGED files
           \/ Reenter \/ ApplySelect \/ \E r \in Requests : Submit(r) \/ Confirm(r) \/ Cancel(r)
BY DEF Next, Runner, Researcher, vars, ghosts, Resume, Crash, Gone, Reenter, SaveReentry,
       FastForward, OpenGate, PendingGate, Replay, Prompt, AnswerTooLate, Submit, Confirm, Say,
       Cancel, Away, ApplyLocal, ApplySelect, ApplyQueued, ApplyRollback, RollbackDeck, Save,
       T4Makes, T4Ends, T4Repairs

\* Populations keep their shape, and the active one exists.
LEMMA StoredStep == ASSUME GInv, [Next]_vars PROVE Stored'
<1>1. Stored /\ AtWork /\ mem \in States /\ run \in Requests \cup {None}
  BY DEF GInv, Shaped
<1>2. CASE UNCHANGED store
  BY <1>1, <1>2 DEF Stored
<1>3. CASE ApplyRollback
  <2>1. CASE store' = [store EXCEPT !.active = store.active - 1, !.deck = "torn"] /\ store.active > 1
    <3>1. store.active - 1 \in Nat \ {0} /\ Len(store.pops) \in Nat /\ store.active <= Len(store.pops)
      BY <1>1, <2>1 DEF Stored
    <3>2. store'.active = store.active - 1 /\ store'.pops = store.pops
      BY <1>1, <2>1 DEF Stored
    <3>3. store'.active <= Len(store'.pops)
      BY <1>1, <3>1, <3>2 DEF Stored
    <3> QED
      BY <1>1, <2>1, <3>1, <3>3 DEF Stored
  <2> QED
    BY <1>2, <1>3, <2>1 DEF ApplyRollback, Gone
<1>4. CASE RollbackDeck
  BY <1>1, <1>4 DEF Stored, RollbackDeck, Gone
<1>5. CASE T4Makes
  <2>1. mem.op \in Requests
    BY <1>1, <1>5 DEF T4Makes, States
  <2>2. PICK cfg, scored : Populated(cfg, scored) /\ scored \in BOOLEAN
                           /\ cfg \in {Active.cfg, Len(store.pops)}
    BY <1>5 DEF T4Makes
  <2>3. store.pops[store.active] \in [cfg : Nat, scored : BOOLEAN] /\ Len(store.pops) \in Nat
    <3>1. /\ store.pops \in Seq([cfg : Nat, scored : BOOLEAN])
          /\ store.active \in Nat \ {0} /\ store.active <= Len(store.pops)
      BY <1>1 DEF Stored
    <3>2. Len(store.pops) \in Nat
      BY <3>1
    <3>3. store.active \in 1 .. Len(store.pops)
      BY <3>1, <3>2
    <3> QED
      BY <3>1, <3>2, <3>3, ElementOfSeq
  <2>4. cfg \in Nat
    BY <2>2, <2>3 DEF Active
  <2> DEFINE more == Append(store.pops, [cfg |-> cfg, scored |-> scored])
  <2>5. more \in Seq([cfg : Nat, scored : BOOLEAN]) /\ Len(more) = Len(store.pops) + 1
    BY <1>1, <2>2, <2>4 DEF Stored
  <2>6. store' = [pops |-> more, active |-> Len(store.pops) + 1, deck |-> "current", by |-> mem.op]
    BY <2>2 DEF Populated
  <2> HIDE DEF more
  <2> QED
    BY <2>1, <2>3, <2>5, <2>6 DEF Stored
<1>6. CASE T4Repairs
  BY <1>1, <1>6 DEF Stored, T4Repairs
<1> QED
  BY <1>2, <1>3, <1>4, <1>5, <1>6, StoreWritten

\* So do the files.
LEMMA FiledStep == ASSUME GInv, [Next]_vars PROVE Filed'
<1>1. Filed /\ store.active \in Nat /\ files.about \in [Requests -> Nat]
  BY DEF GInv, Shaped, Stored, Filed
<1>2. CASE UNCHANGED files
  BY <1>1, <1>2 DEF Filed
<1>3. ASSUME NEW c \in Nat, files' = [files EXCEPT !.chosen = c] PROVE Filed'
  BY <1>1, <1>3 DEF Filed
<1>4. ASSUME NEW r \in Requests, Submit(r) PROVE Filed'
  BY <1>1, <1>4 DEF Filed, Submit
<1>5. ASSUME NEW r \in Requests, NEW yes \in BOOLEAN, Say(r, yes) PROVE Filed'
  <2>1. Append(files.said, [req |-> r, yes |-> yes]) \in Seq([req : Requests, yes : BOOLEAN])
    BY <1>1 DEF Filed
  <2> QED
    BY <1>1, <1>5, <2>1 DEF Filed, Say
<1>6. ASSUME NEW r \in Requests, Confirm(r) \/ Cancel(r) PROVE Filed'
  <2>1. CASE Say(r, TRUE)
    BY <1>5, <2>1
  <2>2. CASE Say(r, FALSE)
    BY <1>5, <2>2
  <2> QED
    BY <1>6, <2>1, <2>2 DEF Confirm, Cancel
<1>7. CASE Reenter
  BY <1>3, <1>7 DEF Reenter
<1>8. CASE ApplySelect
  BY <1>1, <1>3, <1>8 DEF ApplySelect
<1> QED
  BY <1>2, <1>4, <1>6, <1>7, <1>8, FilesWritten

\* What a state.yaml may become: the same, another's, or a changed one.
LEMMA StatesStep == ASSUME GInv, [Next]_vars PROVE disk' \in States /\ mem' \in States
<1>1. /\ disk \in States /\ mem \in States /\ run \in Requests \cup {None}
      /\ Len(files.said) \in Nat /\ (pc = "apply" => run # None)
  BY DEF GInv, Shaped, Filed, AtWork
<1>2. CASE UNCHANGED <<disk, mem>>
  BY <1>1, <1>2
<1>3. CASE Gone /\ disk' = disk
  BY <1>1, <1>3 DEF Gone
<1>4. CASE SaveReentry
  BY <1>1, <1>4 DEF SaveReentry, Reentry, States
<1>5. CASE ApplyLocal \/ ApplySelect \/ ApplyQueued
  BY <1>1, <1>5 DEF ApplyLocal, ApplySelect, ApplyQueued, Reopened, Redirected, States
<1>6. CASE ApplyRollback \/ RollbackDeck
  <2>1. CASE UNCHANGED <<disk, mem>> \/ (Gone /\ disk' = disk)
    BY <1>2, <1>3, <2>1
  <2>2. CASE disk' = disk /\ mem' \in {mem, Redirected(mem)}
    BY <1>1, <2>2 DEF Redirected, States
  <2> QED
    BY <1>6, <2>1, <2>2 DEF ApplyRollback, RollbackDeck, Reopened
<1>10. CASE FastForward
  BY <1>1, <1>10 DEF FastForward, States
<1>12. CASE OpenGate \/ Prompt
  <2>1. mem' \in {mem, [mem EXCEPT !.open = TRUE], Redirected(mem)} /\ disk' = mem'
    BY <1>12 DEF OpenGate, Prompt
  <2> QED
    BY <1>1, <2>1 DEF Redirected, States
<1>11. CASE AnswerTooLate \/ Away \/ Save
  BY <1>1, <1>11 DEF AnswerTooLate, Away, Save, Redirected, States
<1>7. ASSUME NEW r \in Requests, Replay(r) \/ Submit(r) \/ Confirm(r) \/ Cancel(r)
      PROVE  disk' \in States /\ mem' \in States
  BY <1>1, <1>7 DEF Replay, Submit, Confirm, Cancel, States
<1>8. CASE T4Makes \/ T4Ends \/ T4Repairs
  BY <1>1, <1>8 DEF T4Makes, T4Ends, T4Repairs, States
<1>9. CASE UNCHANGED vars
  BY <1>2, <1>9 DEF vars
<1> QED
  BY <1>2, <1>3, <1>4, <1>5, <1>6, <1>7, <1>8, <1>9, <1>10, <1>11, <1>12
  DEF Next, Runner, Researcher, Resume, Crash, Reenter, PendingGate

\* What is carried out is a request.
LEMMA RunStep == ASSUME GInv, [Next]_vars PROVE run' \in Requests \cup {None}
<1>1. run \in Requests \cup {None} /\ mem \in States
  BY DEF GInv, Shaped
<1>2. run' \in {run, None, mem.op} \/ \E r \in Requests : run' = r
  BY DEF Next, Runner, Researcher, vars, ghosts, Resume, Crash, Gone, Reenter, SaveReentry,
         FastForward, OpenGate, PendingGate, Replay, Prompt, AnswerTooLate, Submit, Confirm, Say,
         Cancel, Away, ApplyLocal, ApplySelect, ApplyQueued, ApplyRollback, RollbackDeck, Save,
         T4Makes, T4Ends, T4Repairs
<1> QED
  BY <1>1, <1>2 DEF States

\* What was said stays said: at most one word is added, by an answer.
LEMMA SaidGrows ==
    ASSUME GInv, [Next]_vars
    PROVE  /\ files.said \in Seq([req : Requests, yes : BOOLEAN])
           /\ \/ files'.said = files.said
              \/ \E r \in Requests : Confirm(r) /\ files'.said = Append(files.said, [req |-> r, yes |-> TRUE])
              \/ \E r \in Requests : Cancel(r) /\ files'.said = Append(files.said, [req |-> r, yes |-> FALSE])
<1>1. Filed
  BY DEF GInv, Shaped
<1> QED
  BY <1>1, FilesWritten DEF Filed, Reenter, ApplySelect, Submit, Confirm, Cancel, Say

\* Confirmations are files nobody removes.
LEMMA WordsKept ==
    ASSUME GInv, [Next]_vars
    PROVE  /\ Len(files.said) \in Nat /\ Len(files'.said) \in {Len(files.said), Len(files.said) + 1}
           /\ DOMAIN files.said = 1 .. Len(files.said) /\ DOMAIN files'.said = 1 .. Len(files'.said)
           /\ \A i \in DOMAIN files.said : files'.said[i] = files.said[i]
<1>1. files.said \in Seq([req : Requests, yes : BOOLEAN])
  BY SaidGrows
<1>2. CASE files'.said = files.said
  BY <1>1, <1>2
<1>3. ASSUME NEW w \in [req : Requests, yes : BOOLEAN], files'.said = Append(files.said, w)
      PROVE  /\ Len(files'.said) = Len(files.said) + 1
             /\ DOMAIN files'.said = 1 .. Len(files'.said)
             /\ \A i \in DOMAIN files.said : files'.said[i] = files.said[i]
  BY <1>1, <1>3
<1>4. CASE \E r \in Requests : \/ files'.said = Append(files.said, [req |-> r, yes |-> TRUE])
                               \/ files'.said = Append(files.said, [req |-> r, yes |-> FALSE])
  <2>1. PICK r \in Requests, yes \in BOOLEAN : files'.said = Append(files.said, [req |-> r, yes |-> yes])
    BY <1>4
  <2> QED
    BY <1>1, <1>3, <2>1
<1> QED
  BY <1>1, <1>2, <1>4, SaidGrows

\* A request stays about the population it was made about.
LEMMA AboutKept ==
    ASSUME GInv, [Next]_vars, NEW r \in Requests, files.about[r] # 0
    PROVE  files'.about[r] # 0
<1>1. Filed
  BY DEF GInv, Shaped
<1>2. CASE UNCHANGED files
  BY <1>2
<1>3. CASE Reenter \/ ApplySelect
  BY <1>1, <1>3 DEF Filed, Reenter, ApplySelect
<1>4. ASSUME NEW q \in Requests, Submit(q) PROVE files'.about[r] # 0
  BY <1>1, <1>4 DEF Filed, Submit, GInv, Shaped, Stored
<1>5. ASSUME NEW q \in Requests, Confirm(q) \/ Cancel(q) PROVE files'.about[r] # 0
  BY <1>1, <1>5 DEF Filed, Confirm, Cancel, Say
<1> QED
  BY <1>2, <1>3, <1>4, <1>5, FilesWritten

\* What takes effect is the request being carried out, or the operation T4
\* was given.
LEMMA TakesEffect ==
    ASSUME [Next]_vars
    PROVE  \/ effects' = effects
           \/ pc = "apply" /\ effects' = [effects EXCEPT ![run] = @ + 1]
           \/ mem.op # None /\ effects' = [effects EXCEPT ![mem.op] = @ + 1]
BY DEF Next, Runner, Researcher, vars, ghosts, Takes, Resume, Crash, Gone, Reenter, SaveReentry,
       FastForward, OpenGate, PendingGate, Replay, Prompt, AnswerTooLate, Submit, Confirm, Say,
       Cancel, Away, ApplyLocal, ApplySelect, ApplyQueued, ApplyRollback, RollbackDeck, Save,
       T4Makes, T4Ends, T4Repairs

\* Effects are counted, and what is settled had been requested.
LEMMA CountedStep == ASSUME GInv, [Next]_vars PROVE Counted'
<1>1. Filed /\ Counted /\ AtWork /\ mem \in States /\ run \in Requests \cup {None}
  BY DEF GInv, Shaped
<1>3. settled' \in SUBSET Requests /\ \A r \in settled' : r \in settled \/ r = run
  <2>1. settled' = settled \/ settled' = settled \cup ({run} \ {None, mem.op})
    BY DEF Next, Runner, Researcher, vars, ghosts, Resume, Crash, Gone, Reenter, SaveReentry,
           FastForward, OpenGate, PendingGate, Replay, Prompt, AnswerTooLate, Submit, Confirm, Say,
           Cancel, Away, ApplyLocal, ApplySelect, ApplyQueued, ApplyRollback, RollbackDeck, Save,
           T4Makes, T4Ends, T4Repairs
  <2> QED
    BY <1>1, <2>1 DEF Counted
<1>4. \A r \in settled' : files'.about[r] # 0
  <2>1. None \notin settled'
    BY <1>3
  <2> QED
    BY <1>1, AboutKept, <1>3, <2>1 DEF Counted, AtWork
<1>5. effects' \in [Requests -> Nat]
  <2>1. \/ effects' = effects
        \/ pc = "apply" /\ effects' = [effects EXCEPT ![run] = @ + 1]
        \/ mem.op # None /\ effects' = [effects EXCEPT ![mem.op] = @ + 1]
    BY TakesEffect
  <2> QED
    BY <1>1, <2>1 DEF Counted, AtWork, States
<1>6. before' \in 0 .. Len(files'.said)
  <2>2. before' = before \/ before' = Len(files.said)
    BY DEF Next, Runner, Researcher, vars, ghosts, Resume, Crash, Gone, Reenter, SaveReentry,
           FastForward, OpenGate, PendingGate, Replay, Prompt, AnswerTooLate, Submit, Confirm, Say,
           Cancel, Away, ApplyLocal, ApplySelect, ApplyQueued, ApplyRollback, RollbackDeck, Save,
           T4Makes, T4Ends, T4Repairs
  <2> QED
    BY <1>1, <2>2, WordsKept DEF Counted
<1> QED
  BY <1>3, <1>4, <1>5, <1>6 DEF Counted

\* Everything keeps its shape.
LEMMA ShapedStep == ASSUME GInv, [Next]_vars PROVE Shaped'
BY StoredStep, FiledStep, StatesStep, RunStep, CountedStep DEF Shaped

\* The newest confirmation is the one before the step, or was given by it,
\* to a request that had not been carried out.
LEMMA LatestKept ==
    ASSUME GInv, [Next]_vars, before' = before, NEW i \in DOMAIN files'.said, LatestYes(i)'
    PROVE  \/ i \in DOMAIN files.said /\ LatestYes(i) /\ files'.said[i] = files.said[i]
           \/ files'.said[i].req \notin settled
<1>1. /\ files.said \in Seq([req : Requests, yes : BOOLEAN]) /\ before \in Nat
      /\ before <= Len(files.said) /\ PlanDue(mem)
  BY DEF GInv, Shaped, Filed, Counted, Due
<1>2. CASE i \in DOMAIN files.said
  BY <1>2, WordsKept DEF LatestYes
<1>3. CASE i \notin DOMAIN files.said
  <2>1. i = Len(files.said) + 1 /\ files'.said[i].yes /\ files'.said # files.said
    BY <1>3, WordsKept DEF LatestYes
  <2>2. ASSUME NEW r \in Requests, NEW yes \in BOOLEAN,
               files'.said = Append(files.said, [req |-> r, yes |-> yes])
        PROVE  files'.said[i] = [req |-> r, yes |-> yes]
    BY <1>1, <2>1, <2>2
  <2>3. ASSUME NEW r \in Requests, Cancel(r), files'.said = Append(files.said, [req |-> r, yes |-> FALSE])
        PROVE  FALSE
    BY <2>1, <2>2, <2>3
  <2>4. ASSUME NEW r \in Requests, Confirm(r), files'.said = Append(files.said, [req |-> r, yes |-> TRUE])
        PROVE  files'.said[i].req \notin settled
    <3>1. files'.said[i] = [req |-> r, yes |-> TRUE]
      BY <1>1, <2>1, <2>4
    <3>2. mem.pending = r /\ r # None
      BY <2>4, DialogueAssumption DEF Confirm
    <3> QED
      BY <1>1, <3>1, <3>2 DEF PlanDue
  <2> QED
    BY <2>1, <2>3, <2>4, SaidGrows
<1> QED
  BY <1>2, <1>3

\* Without a re-entry a confirmation goes on counting.
LEMMA ConsentedKept ==
    ASSUME GInv, [Next]_vars, before' = before, NEW r, Consented(r)
    PROVE  Consented(r)'
BY WordsKept DEF Consented, Words

\* What stays due: a record t that came from s by forgetting a plan or an
\* operation, or by moving.
LEMMA StillDue ==
    ASSUME GInv, [Next]_vars, before' = before, settled' = settled,
           NEW s \in States, Due(s), NEW t,
           t.since = s.since, t.pending \in {s.pending, None}, t.guard = s.guard,
           t.op # None => t.op = s.op /\ t.at = s.at
    PROVE  /\ t.since = before'
           /\ t.pending # None => t.pending \notin settled' /\ files'.about[t.pending] # 0
           /\ t.op # None => /\ t.at = "T4" /\ t.pending = None /\ t.guard = t.op
                             /\ t.op \notin settled' /\ files'.about[t.op] # 0 /\ Consented(t.op)'
           /\ \A i \in DOMAIN files'.said :
                 LatestYes(i)' /\ files'.said[i].req \in settled' => t.guard = files'.said[i].req
<1>1. t.pending # None => t.pending \notin settled' /\ files'.about[t.pending] # 0
  BY AboutKept DEF Due, PlanDue, States
<1>2. t.op # None => /\ t.at = "T4" /\ t.pending = None /\ t.guard = t.op
                     /\ t.op \notin settled' /\ files'.about[t.op] # 0 /\ Consented(t.op)'
  BY AboutKept, ConsentedKept DEF Due, OperationDue, States
<1>3. ASSUME NEW i \in DOMAIN files'.said, LatestYes(i)', files'.said[i].req \in settled'
      PROVE  t.guard = files'.said[i].req
  BY <1>3, LatestKept DEF Due, Guarded
<1> QED
  BY <1>1, <1>2, <1>3 DEF Due

\* After an explicit re-entry nothing is due.
LEMMA DueAfterReentry == ASSUME GInv, SaveReentry PROVE Due(disk)' /\ Due(mem)'
<1>1. mem \in States /\ files.said \in Seq([req : Requests, yes : BOOLEAN]) /\ files' = files
  BY DEF GInv, Shaped, Filed, SaveReentry
<1>2. \A i \in DOMAIN files'.said : ~LatestYes(i)'
  BY <1>1 DEF LatestYes, SaveReentry
<1>3. /\ mem'.since = before' /\ mem'.pending = None /\ mem'.op = None /\ disk' = mem'
  BY <1>1 DEF SaveReentry, Reentry, States
<1> QED
  BY <1>2, <1>3 DEF Due, PlanDue, OperationDue, Guarded

\* Only an explicit re-entry moves the boundary.
LEMMA BeforeKept == ASSUME [Next]_vars, ~SaveReentry PROVE before' = before
BY DEF Next, Runner, Researcher, vars, ghosts, Resume, Crash, Reenter, FastForward, OpenGate,
       PendingGate, Replay, Prompt, AnswerTooLate, Submit, Confirm, Say, Cancel, Away, ApplyLocal,
       ApplySelect, ApplyQueued, ApplyRollback, RollbackDeck, Save, T4Makes, T4Ends, T4Repairs

\* Only a save settles a request.
LEMMA SettledKept == ASSUME [Next]_vars, ~Save PROVE settled' = settled
BY DEF Next, Runner, Researcher, vars, ghosts, Resume, Crash, Reenter, SaveReentry, FastForward,
       OpenGate, PendingGate, Replay, Prompt, AnswerTooLate, Submit, Confirm, Say, Cancel, Away,
       ApplyLocal, ApplySelect, ApplyQueued, ApplyRollback, RollbackDeck, T4Makes, T4Ends, T4Repairs

\* The file is left alone, or becomes what the process has in memory.
LEMMA DiskWritten == ASSUME [Next]_vars PROVE disk' = disk \/ disk' = mem'
BY DEF Next, Runner, Researcher, vars, ghosts, Resume, Crash, Gone, Reenter, SaveReentry,
       FastForward, OpenGate, PendingGate, Replay, Prompt, AnswerTooLate, Submit, Confirm, Say,
       Cancel, Away, ApplyLocal, ApplySelect, ApplyQueued, ApplyRollback, RollbackDeck, Save,
       T4Makes, T4Ends, T4Repairs

\* What the process remembers is still to be done.
LEMMA DueInMemory == ASSUME GInv, [Next]_vars PROVE Due(mem)'
<1> USE DEF Due, PlanDue, OperationDue, Guarded
<1>1. CASE SaveReentry
  BY <1>1, DueAfterReentry
<1>2. CASE Save
  <2>1. mem' = mem /\ files' = files /\ before' = before
    BY <1>2 DEF Save
  <2>2. settled' = settled \cup ({run} \ {None, mem.op})
    BY <1>2 DEF Save
  <2>3. Due(mem) /\ AtWork /\ mem \in States
    BY DEF GInv, Shaped
  <2> QED
    BY <2>1, <2>2, <2>3, SameWords DEF AtWork
<1> SUFFICES ASSUME ~SaveReentry, ~Save PROVE Due(mem)'
  BY <1>1, <1>2
<1>3. before' = before /\ settled' = settled
  BY BeforeKept, SettledKept
<1>4. disk \in States /\ mem \in States /\ Due(disk) /\ Due(mem) /\ AtWork
  BY DEF GInv, Shaped
<1>5. CASE mem' = mem
  BY <1>3, <1>4, <1>5, StillDue
<1>6. CASE mem' = disk
  BY <1>3, <1>4, <1>6, StillDue
<1>7. ASSUME mem'.op = None, mem'.since = mem.since, mem'.pending \in {mem.pending, None},
             mem'.guard = mem.guard
      PROVE  Due(mem)'
  BY <1>3, <1>4, <1>7, StillDue
<1>8. CASE mem' = [mem EXCEPT !.at = "past", !.open = FALSE] /\ mem.op = None
  BY <1>4, <1>7, <1>8 DEF States
<1>9. CASE mem' = Redirected(mem) /\ mem.op = None
  BY <1>4, <1>7, <1>9 DEF States, Redirected
<1>10. mem.at = "gate" => mem.op = None
  BY <1>4
<1>11. CASE FastForward
  BY <1>8, <1>10, <1>11 DEF FastForward
<1>12. CASE OpenGate
  <2>1. CASE mem' = [mem EXCEPT !.open = TRUE]
    BY <1>4, <1>7, <1>10, <1>12, <2>1 DEF OpenGate, States
  <2> QED
    BY <1>9, <1>10, <1>12, <2>1 DEF OpenGate
<1>13. CASE Prompt \/ AnswerTooLate
  BY <1>4, <1>5, <1>9, <1>13 DEF Prompt, AnswerTooLate, AtWork
<1>14. CASE ApplyLocal \/ ApplySelect
  BY <1>4, <1>5, <1>8, <1>9, <1>14 DEF ApplyLocal, ApplySelect, Reopened, AtWork
<1>15. CASE ApplyRollback \/ RollbackDeck
  BY <1>4, <1>5, <1>6, <1>9, <1>15 DEF ApplyRollback, RollbackDeck, Gone, Reopened, AtWork
<1>16. CASE ApplyQueued
  <2>1. /\ mem'.op = run /\ mem'.at = "T4" /\ mem'.pending = None /\ mem'.guard = run
        /\ mem'.since = mem.since
    BY <1>4, <1>16 DEF ApplyQueued, States, AtWork
  <2>2. run # None /\ run \notin settled /\ files.about[run] # 0 /\ Consented(run)
    BY <1>4, <1>16 DEF ApplyQueued, AtWork
  <2>3. files' = files /\ mem.guard = run
    BY <1>4, <1>16 DEF ApplyQueued, AtWork
  <2> QED
    BY <1>3, <1>4, <2>1, <2>2, <2>3, SameWords
<1>17. CASE T4Makes \/ T4Ends \/ T4Repairs
  <2>1. CASE mem' = [mem EXCEPT !.at = "gate", !.op = None]
    BY <1>4, <1>7, <2>1 DEF States
  <2>2. CASE mem' = [mem EXCEPT !.at = "gate"] /\ mem.op = None
    BY <1>4, <1>7, <2>2 DEF States
  <2> QED
    BY <1>5, <1>17, <2>1, <2>2 DEF T4Makes, T4Ends, T4Repairs
<1>18. ASSUME NEW r \in Requests, Replay(r) PROVE Due(mem)'
  <2>1. mem' = [mem EXCEPT !.guard = r] /\ files' = files /\ mem.op = None /\ Newest(r)
    BY <1>4, <1>18 DEF Replay, Replayable, AtWork
  <2>2. mem'.op = None /\ mem'.since = mem.since /\ mem'.pending = mem.pending /\ mem'.guard = r
    BY <1>4, <2>1 DEF States
  <2>3. ASSUME NEW i \in DOMAIN files.said, LatestYes(i) PROVE files.said[i].req = r
    <3>1. PICK k \in Accepted : files.said[k].req = r /\ \A j \in Accepted : j <= k
      BY <2>1 DEF Newest
    <3>2. i \in Accepted /\ i <= k /\ k <= i /\ i \in Nat /\ k \in Nat
      BY <1>4, <2>3, <3>1, WordsKept DEF LatestYes, Accepted
    <3> QED
      BY <3>1, <3>2
  <2> QED
    BY <1>3, <1>4, <2>1, <2>2, <2>3, SameWords
<1>19. ASSUME NEW r \in Requests, Submit(r) PROVE Due(mem)'
  <2>1. r \notin settled /\ files'.about[r] # 0 /\ files'.said = files.said
    BY <1>19 DEF Submit, GInv, Shaped, Counted, Filed, Stored
  <2>2. mem.op = None /\ mem' = [mem EXCEPT !.pending = r]
    BY <1>4, <1>19 DEF Submit, AtWork
  <2>3. mem'.op = None /\ mem'.since = mem.since /\ mem'.pending = r /\ mem'.guard = mem.guard
    BY <1>4, <2>2 DEF States
  <2> QED
    BY <1>3, <1>4, <2>1, <2>3, SameWords
<1>20. ASSUME NEW r \in Requests, Cancel(r) PROVE Due(mem)'
  BY <1>4, <1>7, <1>20 DEF Cancel, AtWork, States
<1>21. ASSUME NEW r \in Requests, Confirm(r) PROVE Due(mem)'
  <2>1. mem' = [mem EXCEPT !.pending = None, !.guard = r] /\ mem.op = None
    BY <1>4, <1>21 DEF Confirm, AtWork
  <2>2. mem'.op = None /\ mem'.since = mem.since /\ mem'.pending = None
    BY <1>4, <2>1 DEF States
  <2>3. ASSUME NEW i \in DOMAIN files'.said, LatestYes(i)' PROVE files'.said[i].req \notin settled
    <3>1. /\ files.said \in Seq([req : Requests, yes : BOOLEAN]) /\ Len(files.said) \in Nat
          /\ before \in Nat /\ before <= Len(files.said)
      BY DEF GInv, Shaped, Filed, Counted
    <3>2. files'.said = Append(files.said, [req |-> r, yes |-> TRUE])
      BY <1>21 DEF Confirm, Say, GInv, Shaped, Filed
    <3>3. /\ Len(files.said) + 1 \in DOMAIN files'.said
          /\ files'.said[Len(files.said) + 1] = [req |-> r, yes |-> TRUE]
      BY <3>1, <3>2
    <3>4. Len(files.said) + 1 <= i
      BY <1>3, <2>3, <3>1, <3>3 DEF LatestYes
    <3>5. i \notin DOMAIN files.said
      BY <3>4, WordsKept
    <3> QED
      BY <1>3, <2>3, <3>5, LatestKept
  <2> QED
    BY <1>3, <2>2, <2>3, <1>4
<1> QED
  BY <1>5, <1>6, <1>11, <1>12, <1>13, <1>14, <1>15, <1>16, <1>17, <1>18, <1>19, <1>20, <1>21
  DEF Next, Runner, Researcher, Resume, Crash, Gone, Reenter, PendingGate, Away, vars

\* So is what state.yaml remembers, whenever the process dies.
LEMMA DueOnDisk == ASSUME GInv, [Next]_vars PROVE Due(disk)'
<1> USE DEF Due, PlanDue, OperationDue, Guarded
<1>1. CASE disk' = mem'
  BY <1>1, DueInMemory
<1>2. CASE SaveReentry \/ Save
  BY <1>1, <1>2 DEF SaveReentry, Save
<1>3. CASE disk' = disk /\ ~SaveReentry /\ ~Save
  <2>1. disk \in States /\ Due(disk)
    BY DEF GInv, Shaped
  <2>2. before' = before /\ settled' = settled
    BY <1>3, BeforeKept, SettledKept
  <2> QED
    BY <1>3, <2>1, <2>2, StillDue
<1> QED
  BY <1>1, <1>2, <1>3, DiskWritten

\* What is being carried out is confirmed and was not carried out before.
LEMMA AtWorkStep == ASSUME GInv, [Next]_vars PROVE AtWork'
<1>1. /\ Due(disk) /\ Due(mem) /\ AtWork /\ mem \in States /\ run \in Requests \cup {None}
      /\ store.active # 0 /\ files.said \in Seq([req : Requests, yes : BOOLEAN])
  BY DEF GInv, Shaped, Stored, Filed
<1>2. mem.at = "gate" => mem.op = None
  BY <1>1 DEF Due, OperationDue
\* Nothing is being carried out.
<1>3. ASSUME run' = None, pc' # "apply", pc' \in {"present", "prompt", "rollback"} => mem'.op = None
      PROVE  AtWork'
  BY <1>3 DEF AtWork
\* The same request is.
<1>4. ASSUME run # None, run' = run, pc' \in {"rollback", "save"}, mem'.pending = None, mem'.guard = run,
             pc' = "rollback" => mem'.op = None,
             before' = before, settled' = settled
      PROVE  AtWork'
  BY <1>1, <1>4, ConsentedKept, AboutKept DEF AtWork
\* Another one is.
<1>5. ASSUME NEW r \in Requests, run' = r, pc' \in {"apply", "save"}, mem'.pending = None, mem'.guard = r,
             pc' = "apply" => mem'.op = None,
             r \notin settled', files'.about[r] # 0, Consented(r)'
      PROVE  AtWork'
  BY <1>5, DialogueAssumption DEF AtWork
<1>6. run # None => pc \in {"apply", "rollback", "save"} /\ mem.pending = None /\ mem.guard = run
  BY <1>1 DEF AtWork
<1>7. CASE Resume \/ Crash \/ Reenter \/ SaveReentry \/ FastForward
  BY <1>3, <1>6, <1>7 DEF Resume, Crash, Gone, Reenter, SaveReentry, FastForward
<1>8. CASE OpenGate
  BY <1>1, <1>2, <1>3, <1>6, <1>8 DEF OpenGate, States
<1>9. CASE PendingGate
  BY <1>2, <1>3, <1>6, <1>9 DEF PendingGate
<1>10. CASE Prompt \/ AnswerTooLate \/ Away
  <2>1. CASE Prompt
    BY <1>1, <1>3, <1>6, <2>1 DEF Prompt, AtWork
  <2>2. CASE AnswerTooLate \/ Away
    BY <1>3, <1>6, <2>2 DEF AnswerTooLate, Away
  <2> QED
    BY <1>10, <2>1, <2>2
<1>11. ASSUME NEW r \in Requests, Submit(r) \/ Cancel(r) PROVE AtWork'
  BY <1>3, <1>6, <1>11 DEF Submit, Cancel
<1>12. ASSUME NEW r \in Requests, Replay(r) PROVE AtWork'
  <2>1. /\ run' = r /\ pc' = "apply" /\ mem' = [mem EXCEPT !.guard = r] /\ mem.pending = None
        /\ mem.op = None /\ files' = files /\ before' = before /\ settled' = settled
        /\ Newest(r) /\ r # mem.guard /\ files.about[r] = store.active
    BY <1>1, <1>12 DEF Replay, Replayable, AtWork, ghosts
  <2>2. mem'.pending = None /\ mem'.guard = r /\ mem'.op = None
    BY <1>1, <2>1 DEF States
  <2>3. PICK k \in Accepted : files.said[k].req = r /\ \A l \in Accepted : l <= k
    BY <2>1 DEF Newest
  <2>4. k \in DOMAIN files.said /\ LatestYes(k)
    BY <1>1, <2>3 DEF Accepted, LatestYes, Due
  <2>5. r \notin settled
    BY <1>1, <2>1, <2>3, <2>4 DEF Due, Guarded
  <2>6. Consented(r)
    BY <2>3, <2>4 DEF Consented, Words, LatestYes
  <2> QED
    BY <1>1, <1>5, <2>1, <2>2, <2>5, <2>6, SameWords
<1>13. ASSUME NEW r \in Requests, Confirm(r) PROVE AtWork'
  <2>1. /\ run' = r /\ pc' = "apply" /\ mem' = [mem EXCEPT !.pending = None, !.guard = r]
        /\ mem.pending = r /\ mem.op = None /\ before' = before /\ settled' = settled
    BY <1>1, <1>13 DEF Confirm, AtWork, ghosts
  <2>2. mem'.pending = None /\ mem'.guard = r /\ mem'.op = None
    BY <1>1, <2>1 DEF States
  <2>3. r \notin settled /\ files'.about[r] # 0
    BY <1>1, <2>1, AboutKept, DialogueAssumption DEF Due, PlanDue
  <2>4. before \in Nat /\ before <= Len(files.said) /\ Len(files.said) \in Nat
    BY WordsKept DEF GInv, Shaped, Counted
  <2>5. files'.said = Append(files.said, [req |-> r, yes |-> TRUE])
    BY <1>13 DEF Confirm, Say, GInv, Shaped, Filed
  <2>6. /\ Len(files.said) + 1 \in DOMAIN files'.said /\ Len(files.said) + 1 > before'
        /\ files'.said[Len(files.said) + 1] = [req |-> r, yes |-> TRUE]
    BY <1>1, <2>1, <2>4, <2>5
  <2>7. Consented(r)'
    BY <2>6 DEF Consented, Words
  <2> QED
    BY <1>5, <2>1, <2>2, <2>3, <2>7
<1>14. CASE ApplyLocal \/ ApplySelect \/ ApplyQueued
  <2>1. run # None /\ run' = run /\ pc' = "save" /\ before' = before /\ settled' = settled
    BY <1>1, <1>14 DEF ApplyLocal, ApplySelect, ApplyQueued, AtWork, ghosts
  <2>2. mem'.pending = mem.pending /\ mem'.guard = mem.guard
    BY <1>1, <1>14 DEF ApplyLocal, ApplySelect, ApplyQueued, Reopened, Redirected, States
  <2> QED
    BY <1>4, <1>6, <2>1, <2>2
<1>15. CASE ApplyRollback \/ RollbackDeck
  <2>1. CASE Gone
    BY <1>3, <2>1 DEF Gone
  <2>2. CASE ~Gone
    <3>1. run' = run /\ pc' \in {"rollback", "save"} /\ before' = before /\ settled' = settled
      BY <1>15, <2>2 DEF ApplyRollback, RollbackDeck, ghosts
    <3>2. /\ mem'.pending = mem.pending /\ mem'.guard = mem.guard
          /\ pc' = "rollback" => mem' = mem /\ mem.op = None
      BY <1>1, <1>15, <2>2 DEF ApplyRollback, RollbackDeck, Reopened, Redirected, States, AtWork
    <3>3. CASE run # None
      BY <1>4, <1>6, <3>1, <3>2, <3>3
    <3>4. CASE run = None
      BY <1>3, <3>1, <3>2, <3>4
    <3> QED
      BY <3>3, <3>4
  <2> QED
    BY <2>1, <2>2
<1>16. CASE Save
  BY <1>2, <1>3, <1>16 DEF Save
<1>17. CASE T4Makes \/ T4Repairs
  BY <1>3, <1>6, <1>17 DEF T4Makes, T4Repairs
<1>18. CASE T4Ends
  <2>1. /\ mem.op \in Requests /\ run' = mem.op /\ pc' = "save" /\ files' = files
        /\ before' = before /\ settled' = settled
    BY <1>1, <1>18 DEF T4Ends, States
  <2>2. mem' = [mem EXCEPT !.at = "gate", !.op = None]
    BY <1>18 DEF T4Ends
  <2>3. mem'.pending = mem.pending /\ mem'.guard = mem.guard
    BY <1>1, <2>2 DEF States
  <2>4. /\ mem.pending = None /\ mem.guard = mem.op /\ mem.op \notin settled
        /\ files.about[mem.op] # 0 /\ Consented(mem.op)
    BY <1>1, <1>18 DEF T4Ends, Due, OperationDue
  <2> QED
    BY <1>5, <2>1, <2>3, <2>4, SameWords
<1>19. CASE UNCHANGED vars
  BY <1>1, <1>19, SameWords DEF vars, ghosts, AtWork
<1> QED
  BY <1>7, <1>8, <1>9, <1>10, <1>11, <1>12, <1>13, <1>14, <1>15, <1>16, <1>17, <1>18, <1>19
  DEF Next, Runner, Researcher

\* In every reachable state, also right after a crash, the three places that
\* remember a request agree on what is still to be done.
THEOREM DialogueInvariant == Spec => []GInv
<1>1. Init => GInv
  BY DialogueStarts
<1>2. GInv /\ [Next]_vars => GInv'
  BY ShapedStep, DueInMemory, DueOnDisk, AtWorkStep DEF GInv
<1> QED
  BY <1>1, <1>2, PTL DEF Spec

\* A step by which r takes effect finds it confirmed and not yet settled.
LEMMA EffectStep ==
    ASSUME GInv, [Next]_vars, NEW r \in Requests, effects'[r] # effects[r]
    PROVE  Consented(r) /\ r \notin settled
<1>1. /\ effects \in [Requests -> Nat] /\ mem \in States /\ run \in Requests \cup {None}
      /\ Due(mem) /\ AtWork
  BY DEF GInv, Shaped, Counted
<1>2. CASE pc = "apply" /\ effects' = [effects EXCEPT ![run] = @ + 1]
  <2>1. r = run
    BY <1>1, <1>2
  <2> QED
    BY <1>1, <1>2, <2>1 DEF AtWork
<1>3. CASE mem.op # None /\ effects' = [effects EXCEPT ![mem.op] = @ + 1]
  <2>1. r = mem.op
    BY <1>1, <1>3
  <2> QED
    BY <1>1, <1>3, <2>1 DEF Due, OperationDue
<1> QED
  BY <1>2, <1>3, TakesEffect

\* Every selection, rollback, check and new population was confirmed after the
\* last explicit re-entry of T4, whatever crashed or was answered in between.
THEOREM NothingUnconfirmed == Spec => EffectsConsented
<1>1. GInv /\ [Next]_vars =>
        [\A r \in Requests : effects'[r] # effects[r] => \E i \in Words(r) : files.said[i].yes]_vars
  BY EffectStep DEF Consented
<1> QED
  BY <1>1, DialogueInvariant, PTL DEF Spec, EffectsConsented

\* A request whose result was saved takes no effect again: neither the plan,
\* nor the queued operation, nor the replay of its confirmation repeats it.
THEOREM NothingTwice == Spec => EffectsOnce
<1>1. GInv /\ [Next]_vars =>
        [\A r \in Requests : effects'[r] # effects[r] => r \notin settled]_vars
  BY EffectStep
<1> QED
  BY <1>1, DialogueInvariant, PTL DEF Spec, EffectsOnce
====
