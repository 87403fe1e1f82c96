---- MODULE HandoffProofs ----
(***************************************************************************)
(* What the hand-off to an external executor keeps, for any set of control *)
(* files, any number of executor runs and whatever the environment does.   *)
(***************************************************************************)
EXTENDS ExternalHandoff, TLAPS

Waiting == {"entry", "validate", "normalise", "published"} \cup DOMAIN After
Pcs == Compiling \cup Waiting
        \cup {"down", "load", "step", "save", "panel", "revoke", "undo", "failed", "compare"}

Contents == [run : Nat, of : Nat, kind : {"real", "failed", "mock"}]
Cores == [result : Contents \cup {None}, facts : Contents \cup {None}]
Drafts == [acc : Cores \cup {None}, data : Cores \cup {None}]
Files == [contract : Nat,
          pack : [status : {"none", "blocked", "completed"}, of : Nat],
          controls : [Controls -> Nat],
          selection : {None, "real", "mock", "deferred"},
          result : Contents \cup {None}, facts : Contents \cup {None},
          validation : Cores \cup {None},
          drafts : [{"receipt", "evidence", "claims"} -> Drafts \cup {None}]]
Procs == [pc : Pcs, mem : States \cup {None},
          acc : Cores \cup {None}, data : Cores \cup {None}, todo : SUBSET Controls]

Typed ==
    /\ ws \in Files
    /\ yaml \in States
    /\ proc \in [Sessions -> Procs]
    /\ exec \in [pc : {"idle", "run", "facts", "validate", "route"}, run : Nat, of : Nat]

(* The step a session is at fits the task it has in memory.                *)
PlacedAt(s) ==
    /\ s.pc \in Compiling \cup {"revoke", "undo", "failed"} =>
         s.mem # None /\ s.mem.at = "T5-REBOOST-GATE"
    /\ s.pc \in Waiting /\ s.mem # None => s.mem.at = "T5-EXTERNAL-WAIT"
    /\ s.pc = "panel" => s.mem # None /\ s.mem.at = "T5-EXTERNAL-WAIT"
    /\ s.pc = "compare" => s.mem # None /\ s.mem.at = "T8-RESOURCE"
    /\ s.pc \in {"step", "save"} => s.mem # None
    /\ s.pc \in {"down", "load"} => s.mem = None
Placed ==
    /\ \A p \in Sessions : PlacedAt(proc[p])
    /\ proc["shell"].mem = None => proc["shell"].pc = "down"

Late == T8 \cup {"T5-EXTERNAL-WAIT"}

(* While the session of run-task T8 is in the runner, everyone is at the   *)
(* wait or after it.                                                       *)
Behind ==
    ~NoSecondSession =>
        /\ yaml.at \in Late
        /\ proc["skill"].mem # None => proc["skill"].mem.at \in Late
        /\ proc["shell"].mem # None => proc["shell"].mem.at \in Late

(* Before the wait the researcher's session is the only one, so state.yaml *)
(* is what it last saved.                                                  *)
CoherentWith(s) ==
    s.mem # None =>
        /\ s.pc # "save" /\ s.mem.at \notin Late => yaml.at = s.mem.at
        /\ yaml.at = "T5-EXTERNAL-WAIT" => s.mem.at \in Late
        /\ s.mem.at \in Late /\ ~(s.pc = "save" /\ s.mem.at = "T5-EXTERNAL-WAIT") =>
             yaml.at \in Late
Coherent == CoherentWith(proc["shell"])

(* How far a compile has got; the skill's session never compiles.          *)
CompiledBy(s, w) ==
    /\ s.pc \in {"remove", "build", "publish", "commit", "undo", "failed"} =>
         w.pack.status # "completed"
    /\ s.pc = "publish" => \A c \in Controls \ s.todo : w.controls[c] = w.contract
    /\ s.pc = "commit" => \A c \in Controls : w.controls[c] = w.contract
Compiled == CompiledBy(proc["shell"], ws) /\ PublishedBeforeCommit

Authorizing == Tasks \ {"T4-GATE1", "T5-REBOOST-GATE"}
Current == ws.pack = [status |-> "completed", of |-> ws.contract]
Kept ==
    /\ yaml.at \in Authorizing => Current
    /\ \A p \in Sessions : proc[p].mem # None /\ proc[p].mem.at \in Authorizing => Current

HInv == Typed /\ Placed /\ Behind /\ Coherent /\ Compiled /\ Kept

-----------------------------------------------------------------------------
(* What the updates of a session come to.                                  *)

Only(p) == \A q \in Sessions \ {p} : proc'[q] = proc[q]
SameHandoff ==
    ws'.pack = ws.pack /\ ws'.controls = ws.controls /\ ws'.contract = ws.contract

LEMMA GotoFacts ==
    ASSUME Typed, NEW p \in Sessions, NEW l \in Pcs, Goto(p, l)
    PROVE  /\ proc' \in [Sessions -> Procs] /\ Only(p)
           /\ proc'[p].pc = l /\ proc'[p].mem = proc[p].mem
           /\ proc'[p].todo = proc[p].todo
BY DEF Typed, Goto, Procs, Only

LEMMA AdvanceFacts ==
    ASSUME Typed, NEW p \in Sessions, proc[p].mem # None, NEW t \in Tasks, Advance(p, t)
    PROVE  /\ proc' \in [Sessions -> Procs] /\ Only(p)
           /\ proc'[p].pc = "save" /\ proc'[p].mem # None /\ proc'[p].mem.at = t
<1> DEFINE m == [proc[p].mem EXCEPT !.at = t, !.parked = FALSE]
           s == [Closed EXCEPT !.pc = "save", !.mem = m]
<1>1. proc[p].mem \in States
  BY DEF Typed, Procs
<1>2. m \in States /\ m.at = t
  BY <1>1 DEF States
<1>3. m # None
  BY <1>2, HandoffAssumption
<1> HIDE DEF m
<1>4. s \in Procs /\ s.pc = "save" /\ s.mem = m
  BY <1>2 DEF Procs, Closed, Pcs
<1>5. proc' = [proc EXCEPT ![p] = s]
  BY DEF Advance, m
<1> HIDE DEF s
<1> QED
  BY <1>2, <1>3, <1>4, <1>5 DEF Typed, Only

LEMMA ParkFacts ==
    ASSUME Typed, NEW p \in Sessions, proc[p].mem # None,
           NEW l \in {"down", "panel"}, Park(p, l)
    PROVE  /\ proc' \in [Sessions -> Procs] /\ Only(p) /\ proc'[p].pc = l
           /\ yaml' \in States /\ yaml'.at = proc[p].mem.at
           /\ proc'[p].mem = IF l = "panel" THEN yaml' ELSE None
<1> DEFINE m == [proc[p].mem EXCEPT !.parked = TRUE]
           n == IF l = "panel" THEN m ELSE None
           s == [Closed EXCEPT !.pc = l, !.mem = n]
<1>1. proc[p].mem \in States
  BY DEF Typed, Procs
<1>2. m \in States /\ m.at = proc[p].mem.at
  BY <1>1 DEF States
<1>3. yaml' = m /\ proc' = [proc EXCEPT ![p] = s]
  BY DEF Park
<1> HIDE DEF m
<1>4. n \in States \cup {None} /\ n = IF l = "panel" THEN m ELSE None
  BY <1>2
<1> HIDE DEF n
<1>5. s \in Procs /\ s.pc = l /\ s.mem = n
  BY <1>4 DEF Procs, Closed, Pcs
<1> HIDE DEF s
<1> QED
  BY <1>2, <1>3, <1>4, <1>5 DEF Typed, Only

LEMMA LoadFacts ==
    ASSUME Typed, NEW p \in Sessions, Load(p)
    PROVE  /\ proc' \in [Sessions -> Procs] /\ Only(p)
           /\ proc'[p].mem = yaml /\ proc'[p].pc \in {"panel", "step"}
           /\ proc'[p].pc = "panel" => yaml.at = "T5-EXTERNAL-WAIT"
<1> DEFINE l == IF yaml.at = "T5-EXTERNAL-WAIT" /\ yaml.parked THEN "panel" ELSE "step"
           s == [Closed EXCEPT !.mem = yaml, !.pc = l]
<1>1. l \in {"panel", "step"} /\ (l = "panel" => yaml.at = "T5-EXTERNAL-WAIT")
  OBVIOUS
<1>2. proc' = [proc EXCEPT ![p] = s]
  BY DEF Load
<1> HIDE DEF l
<1>3. s \in Procs /\ s.pc = l /\ s.mem = yaml
  BY <1>1 DEF Procs, Closed, Pcs, Typed
<1> HIDE DEF s
<1> QED
  BY <1>1, <1>2, <1>3 DEF Typed, Only

LEMMA ClosedFacts ==
    ASSUME Typed, NEW p \in Sessions, NEW l \in {"down", "load"},
           proc' = [proc EXCEPT ![p] = [Closed EXCEPT !.pc = l]]
    PROVE  /\ proc' \in [Sessions -> Procs] /\ Only(p)
           /\ proc'[p].pc = l /\ proc'[p].mem = None
<1> DEFINE s == [Closed EXCEPT !.pc = l]
<1>1. s \in Procs /\ s.pc = l /\ s.mem = None
  BY DEF Procs, Closed, Pcs
<1> HIDE DEF s
<1> QED
  BY <1>1 DEF Typed, Only, s

LEMMA EachFacts ==
    ASSUME Typed, NEW p \in Sessions, NEW c \in Controls, NEW v \in Nat, NEW l \in Pcs,
           Each(p, c, v, l)
    PROVE  /\ ws' \in Files /\ ws'.pack = ws.pack /\ ws'.contract = ws.contract
           /\ ws'.controls[c] = v
           /\ \A d \in Controls \ {c} : ws'.controls[d] = ws.controls[d]
           /\ proc' \in [Sessions -> Procs] /\ Only(p)
           /\ c \in proc[p].todo /\ proc'[p].mem = proc[p].mem
           /\ proc'[p].todo = proc[p].todo \ {c}
           /\ proc'[p].pc = IF proc[p].todo = {c} THEN l ELSE proc[p].pc
<1> DEFINE k == IF proc[p].todo = {c} THEN l ELSE proc[p].pc
           s == [proc[p] EXCEPT !.todo = @ \ {c}, !.pc = k]
           m == [ws.controls EXCEPT ![c] = v]
<1>1. proc[p] \in Procs /\ ws \in Files
  BY DEF Typed
<1>2. k \in Pcs
  BY <1>1 DEF Procs
<1>3. m \in [Controls -> Nat] /\ m[c] = v /\ \A d \in Controls \ {c} : m[d] = ws.controls[d]
  BY <1>1 DEF Files
<1>4. c \in proc[p].todo /\ ws' = [ws EXCEPT !.controls = m]
  BY DEF Each
<1>5. proc' = [proc EXCEPT ![p] = s]
  BY DEF Each
<1> HIDE DEF k, m
<1>6. /\ s \in Procs /\ s.pc = k /\ s.mem = proc[p].mem /\ s.todo = proc[p].todo \ {c}
  BY <1>1, <1>2 DEF Procs
<1> HIDE DEF s
<1>7. ws' \in Files /\ ws'.controls = m /\ ws'.pack = ws.pack /\ ws'.contract = ws.contract
  BY <1>1, <1>3, <1>4 DEF Files
<1> QED
  BY <1>3, <1>4, <1>5, <1>6, <1>7 DEF Typed, Only, k

-----------------------------------------------------------------------------
(* The kinds of steps, and that each keeps the invariant.                  *)

(* Whoever has a task before the wait in memory is the researcher's        *)
(* session, and it is alone.                                               *)
LEMMA AloneBeforeWait ==
    ASSUME HInv, NEW p \in Sessions, proc[p].mem # None, proc[p].mem.at \notin Late
    PROVE  /\ p = "shell" /\ NoSecondSession /\ proc["skill"].mem = None
           /\ proc[p].pc # "save" => yaml.at = proc[p].mem.at
BY DEF HInv, Behind, Coherent, CoherentWith, NoSecondSession, Sessions

(* A step inside a task.                                                   *)
LEMMA WalkInv ==
    ASSUME HInv, Typed', SameHandoff, yaml' = yaml, NEW p \in Sessions, Only(p),
           proc'[p].mem = proc[p].mem, proc[p].pc # "save", proc'[p].pc # "save",
           proc'[p].pc # "load", proc[p].pc # "down" \/ p = "skill",
           proc[p].pc # "load", PlacedAt(proc'[p]), CompiledBy(proc'[p], ws)
    PROVE  HInv'
<1>1. Placed'
  BY DEF HInv, Placed, PlacedAt, Only, Sessions
<1>2. Behind'
  BY DEF HInv, Behind, NoSecondSession, At, Only, Sessions
<1>3. Coherent'
  BY DEF HInv, Coherent, CoherentWith, Only, Sessions
<1>4. Compiled'
  BY DEF HInv, Compiled, CompiledBy, PublishedBeforeCommit, Only, Sessions, SameHandoff
<1>5. Kept'
  BY DEF HInv, Kept, Current, Only, Sessions, SameHandoff
<1> QED
  BY <1>1, <1>2, <1>3, <1>4, <1>5 DEF HInv

(* A task is done; the next one is to be saved.                            *)
LEMMA AdvanceInv ==
    ASSUME HInv, Typed', SameHandoff, yaml' = yaml, NEW p \in Sessions, Only(p),
           proc[p].mem # None, proc[p].pc # "save",
           proc'[p].pc = "save", proc'[p].mem # None, proc'[p].mem.at \in Tasks,
           proc[p].mem.at \in Late => proc'[p].mem.at \in Late,
           proc'[p].mem.at \in T8 => proc[p].mem.at \in Late,
           proc'[p].mem.at \in Authorizing => Current
    PROVE  HInv'
<1>1. Placed'
  BY DEF HInv, Placed, PlacedAt, Only, Sessions, Compiling, Waiting, After
<1>2. Behind'
  BY DEF HInv, Behind, NoSecondSession, At, Only, Sessions
<1>3. Coherent'
  BY DEF HInv, Coherent, CoherentWith, Only, Sessions, Late, Behind, NoSecondSession
<1>4. Compiled'
  BY DEF HInv, Compiled, CompiledBy, PublishedBeforeCommit, Only, Sessions, SameHandoff
<1>5. Kept'
  BY DEF HInv, Kept, Current, Only, Sessions, SameHandoff
<1> QED
  BY <1>1, <1>2, <1>3, <1>4, <1>5 DEF HInv

(* A pause.                                                                *)
LEMMA ParkInv ==
    ASSUME HInv, Typed', SameHandoff, NEW p \in Sessions, Only(p),
           proc[p].mem # None, proc[p].pc # "save", yaml'.at = proc[p].mem.at,
           \/ proc'[p].pc = "down" /\ proc'[p].mem = None
           \/ /\ proc'[p].pc = "panel" /\ proc'[p].mem # None
              /\ proc'[p].mem.at = proc[p].mem.at
              /\ proc[p].mem.at = "T5-EXTERNAL-WAIT"
    PROVE  HInv'
<1>1. Placed'
  BY DEF HInv, Placed, PlacedAt, Only, Sessions, Compiling, Waiting, After
<1>2. Behind'
  BY DEF HInv, Behind, NoSecondSession, At, Only, Sessions, Late
<1>3. Coherent'
  BY DEF HInv, Coherent, CoherentWith, Only, Sessions, Late, Behind, NoSecondSession
<1>4. Compiled'
  BY DEF HInv, Compiled, CompiledBy, PublishedBeforeCommit, Only, Sessions, SameHandoff
<1>5. Kept'
  BY DEF HInv, Kept, Current, Only, Sessions, SameHandoff
<1> QED
  BY <1>1, <1>2, <1>3, <1>4, <1>5 DEF HInv

(* A process ends without a trace.                                         *)
LEMMA CloseInv ==
    ASSUME HInv, Typed', SameHandoff, yaml' = yaml, NEW p \in Sessions, Only(p),
           proc'[p].pc = "down", proc'[p].mem = None
    PROVE  HInv'
<1>1. Placed'
  BY DEF HInv, Placed, PlacedAt, Only, Sessions, Compiling, Waiting, After
<1>2. Behind'
  BY DEF HInv, Behind, NoSecondSession, At, Only, Sessions
<1>3. Coherent'
  BY DEF HInv, Coherent, CoherentWith, Only, Sessions
<1>4. Compiled'
  BY DEF HInv, Compiled, CompiledBy, PublishedBeforeCommit, Only, Sessions, SameHandoff
<1>5. Kept'
  BY DEF HInv, Kept, Current, Only, Sessions, SameHandoff
<1> QED
  BY <1>1, <1>2, <1>3, <1>4, <1>5 DEF HInv

(* A step of a compile, which may change the handoff.                      *)
LEMMA CompileInv ==
    ASSUME HInv, Typed', yaml' = yaml, NEW p \in Sessions, Only(p),
           ws'.contract = ws.contract,
           proc[p].mem # None, proc[p].mem.at = "T5-REBOOST-GATE", proc[p].pc # "save",
           proc'[p].mem = proc[p].mem,
           proc'[p].pc \in Compiling \cup {"revoke", "undo", "failed"},
           CompiledBy(proc'[p], ws'), PublishedBeforeCommit'
    PROVE  HInv'
<1>0. /\ p = "shell" /\ NoSecondSession /\ proc["skill"].mem = None
      /\ yaml.at = "T5-REBOOST-GATE" /\ proc'["skill"] = proc["skill"]
  BY AloneBeforeWait DEF Late, T8, Only, Sessions
<1>1. Placed'
  BY <1>0 DEF HInv, Placed, PlacedAt, Only, Sessions, Compiling, Waiting, After
<1>2. Behind'
  BY <1>0 DEF Behind, NoSecondSession, At
<1>3. Coherent'
  BY <1>0 DEF Coherent, CoherentWith, Late, T8
<1>4. Compiled'
  BY <1>0 DEF Compiled
<1>5. Kept'
  BY <1>0 DEF Kept, Authorizing, Sessions
<1> QED
  BY <1>1, <1>2, <1>3, <1>4, <1>5 DEF HInv

-----------------------------------------------------------------------------
(* The steps of a session.                                                 *)

(* A session at a step of the runner has a task in memory.                 *)
LEMMA HasTask ==
    ASSUME HInv, NEW p \in Sessions,
           proc[p].pc \notin Waiting \cup {"down", "load"}
    PROVE  /\ proc[p].mem # None /\ proc[p].mem \in States
           /\ proc[p].pc \in Compiling \cup {"revoke", "undo", "failed"} =>
                proc[p].mem.at = "T5-REBOOST-GATE"
           /\ proc[p].pc = "panel" => proc[p].mem.at = "T5-EXTERNAL-WAIT"
           /\ proc[p].pc = "compare" => proc[p].mem.at = "T8-RESOURCE"
BY DEF HInv, Typed, Procs, Pcs, Placed, PlacedAt

LEMMA SaveInv == ASSUME HInv, NEW p \in Sessions, Save(p) PROVE HInv'
<1>1. proc[p].pc = "save" /\ proc[p].mem # None /\ proc[p].mem \in States
  BY HasTask DEF Save, At, Waiting, After
<1>2. /\ proc' \in [Sessions -> Procs] /\ Only(p) /\ proc'[p].pc = "step"
      /\ proc'[p].mem = proc[p].mem /\ yaml' = proc[p].mem /\ UNCHANGED <<ws, exec>>
  BY GotoFacts DEF HInv, Save, Pcs
<1>3. Typed'
  BY <1>1, <1>2 DEF HInv, Typed
<1>4. Placed'
  BY <1>1, <1>2 DEF HInv, Placed, PlacedAt, Only, Sessions, Compiling, Waiting, After
<1>5. Behind'
  BY <1>1, <1>2 DEF HInv, Behind, NoSecondSession, At, Only, Sessions
<1>6. Coherent'
  BY <1>1, <1>2 DEF HInv, Coherent, CoherentWith, Behind, NoSecondSession, Only, Sessions, Late
<1>7. Compiled'
  BY <1>1, <1>2 DEF HInv, Compiled, CompiledBy, PublishedBeforeCommit, Only, Sessions
<1>8. Kept'
  BY <1>1, <1>2 DEF HInv, Kept, Current, Only, Sessions
<1> QED
  BY <1>3, <1>4, <1>5, <1>6, <1>7, <1>8 DEF HInv

LEMMA ResumeInv == ASSUME HInv, NEW p \in Sessions, Resume(p) PROVE HInv'
<1>1. /\ proc' \in [Sessions -> Procs] /\ Only(p)
      /\ proc'[p].mem = yaml /\ proc'[p].pc \in {"panel", "step"}
      /\ proc'[p].pc = "panel" => yaml.at = "T5-EXTERNAL-WAIT"
      /\ UNCHANGED <<ws, yaml, exec>>
  BY LoadFacts DEF HInv, Resume
<1>2. \/ p = "shell" /\ proc[p].pc = "down" /\ NoSecondSession
      \/ p = "skill" /\ proc[p].pc = "load"
  BY DEF Resume, At, HInv, Placed, PlacedAt, Sessions
<1>3. yaml # None /\ yaml \in States
  BY HandoffAssumption DEF HInv, Typed
<1>4. Typed'
  BY <1>1 DEF HInv, Typed
<1>5. Placed'
  BY <1>1, <1>2, <1>3 DEF HInv, Placed, PlacedAt, Only, Sessions, Compiling, Waiting, After
<1>6. Behind'
  BY <1>1, <1>2, <1>3 DEF HInv, Behind, NoSecondSession, At, Only, Sessions
<1>7. Coherent'
  BY <1>1, <1>2, <1>3 DEF HInv, Coherent, CoherentWith, Only, Sessions, Late
<1>8. Compiled'
  BY <1>1, <1>2 DEF HInv, Compiled, CompiledBy, PublishedBeforeCommit, Only, Sessions
<1>9. Kept'
  BY <1>1, <1>2, <1>3 DEF HInv, Kept, Current, Only, Sessions
<1> QED
  BY <1>4, <1>5, <1>6, <1>7, <1>8, <1>9 DEF HInv

LEMMA CrashInv == ASSUME HInv, NEW p \in Sessions, Crash(p) PROVE HInv'
<1>1. /\ proc' \in [Sessions -> Procs] /\ Only(p) /\ proc'[p].pc = "down"
      /\ proc'[p].mem = None
  <2>1. proc' = [proc EXCEPT ![p] = [Closed EXCEPT !.pc = "down"]]
    BY DEF Crash, Closed
  <2> QED
    BY <2>1, ClosedFacts DEF HInv
<1>2. UNCHANGED <<ws, yaml, exec>>
  BY DEF Crash
<1>3. Typed' /\ SameHandoff
  BY <1>1, <1>2 DEF HInv, Typed, SameHandoff
<1> QED
  BY <1>1, <1>2, <1>3, CloseInv

LEMMA WriteUpInv == ASSUME HInv, NEW p \in Sessions, WriteUp(p) PROVE HInv'
<1>1. /\ proc' \in [Sessions -> Procs] /\ Only(p) /\ proc'[p].pc = "down"
      /\ proc'[p].mem = None
  <2>1. proc' = [proc EXCEPT ![p] = [Closed EXCEPT !.pc = "down"]]
    BY DEF WriteUp, Closed
  <2> QED
    BY <2>1, ClosedFacts DEF HInv
<1>2. UNCHANGED <<ws, yaml, exec>>
  BY DEF WriteUp
<1>3. Typed' /\ SameHandoff
  BY <1>1, <1>2 DEF HInv, Typed, SameHandoff
<1> QED
  BY <1>1, <1>2, <1>3, CloseInv

LEMMA SelectInv == ASSUME HInv, NEW p \in Sessions, Select(p) PROVE HInv'
<1>1. /\ proc[p].pc = "step" /\ proc[p].mem # None /\ proc[p].mem.at = "T4-GATE1"
  BY HasTask DEF Select, Task, At, Waiting, After
<1>2. /\ p = "shell" /\ NoSecondSession /\ proc["skill"].mem = None
      /\ yaml.at = "T4-GATE1"
  BY <1>1, AloneBeforeWait DEF Late, T8
<1>3. /\ proc' \in [Sessions -> Procs] /\ Only(p)
      /\ proc'[p].pc = "save" /\ proc'[p].mem # None
      /\ proc'[p].mem.at = "T5-REBOOST-GATE"
  BY <1>1, AdvanceFacts DEF HInv, Select, Tasks, BeforeWait
<1>4. /\ ws' \in Files /\ ws'.pack = ws.pack /\ ws'.controls = ws.controls
      /\ UNCHANGED <<yaml, exec>>
  BY DEF HInv, Typed, Files, Select
<1>5. Typed'
  BY <1>3, <1>4 DEF HInv, Typed
<1>6. Placed'
  BY <1>2, <1>3 DEF HInv, Placed, PlacedAt, Only, Sessions, Compiling, Waiting, After
<1>7. Behind'
  BY <1>2, <1>3 DEF Behind, NoSecondSession, At, Only, Sessions
<1>8. Coherent'
  BY <1>2, <1>3, <1>4 DEF Coherent, CoherentWith, Late, T8
<1>9. Compiled'
  BY <1>2, <1>3, <1>4 DEF HInv, Compiled, CompiledBy, PublishedBeforeCommit
<1>10. Kept'
  BY <1>2, <1>3, <1>4 DEF Kept, Authorizing, Only, Sessions
<1> QED
  BY <1>5, <1>6, <1>7, <1>8, <1>9, <1>10 DEF HInv

(* A move to the next task that leaves the handoff alone.                  *)
LEMMA MoveInv ==
    ASSUME HInv, NEW p \in Sessions, NEW t \in Tasks, Advance(p, t),
           ws' \in Files, SameHandoff, UNCHANGED <<yaml, exec>>,
           proc[p].mem # None, proc[p].pc # "save",
           proc[p].mem.at \in Late => t \in Late,
           t \in T8 => proc[p].mem.at \in Late,
           t \in Authorizing => Current
    PROVE  HInv'
<1>1. /\ proc' \in [Sessions -> Procs] /\ Only(p)
      /\ proc'[p].pc = "save" /\ proc'[p].mem # None /\ proc'[p].mem.at = t
  BY AdvanceFacts DEF HInv
<1>2. Typed'
  BY <1>1 DEF HInv, Typed
<1> QED
  BY <1>1, <1>2, AdvanceInv

(* A pause that leaves the handoff alone.                                  *)
LEMMA PauseInv ==
    ASSUME HInv, NEW p \in Sessions, NEW l \in {"down", "panel"}, Park(p, l),
           UNCHANGED <<ws, exec>>, proc[p].mem # None, proc[p].pc # "save",
           l = "panel" => proc[p].mem.at = "T5-EXTERNAL-WAIT"
    PROVE  HInv'
<1>1. /\ proc' \in [Sessions -> Procs] /\ Only(p) /\ proc'[p].pc = l
      /\ yaml' \in States /\ yaml'.at = proc[p].mem.at
      /\ proc'[p].mem = IF l = "panel" THEN yaml' ELSE None
  BY ParkFacts DEF HInv
<1>2. Typed' /\ SameHandoff
  BY <1>1 DEF HInv, Typed, SameHandoff
<1>3. yaml' # None
  BY <1>1, HandoffAssumption
<1>4. CASE l = "panel"
  BY <1>1, <1>2, <1>3, <1>4, ParkInv
<1>5. CASE l = "down"
  BY <1>1, <1>2, <1>5, ParkInv
<1> QED
  BY <1>4, <1>5

(* A step inside a task that leaves the handoff alone.                     *)
LEMMA StayInv ==
    ASSUME HInv, Typed', SameHandoff, UNCHANGED yaml, NEW p \in Sessions, Only(p),
           proc'[p].mem = proc[p].mem,
           proc[p].pc \in Waiting \cup {"step"}, proc'[p].pc \in Waiting \cup {"compare"},
           proc[p].mem # None /\ proc'[p].pc \in Waiting =>
             proc[p].mem.at = "T5-EXTERNAL-WAIT",
           proc'[p].pc = "compare" => proc[p].mem # None /\ proc[p].mem.at = "T8-RESOURCE"
    PROVE  HInv'
<1>1. PlacedAt(proc'[p]) /\ CompiledBy(proc'[p], ws)
  BY DEF PlacedAt, CompiledBy, Waiting, After, Compiling
<1>2. /\ proc[p].pc \notin {"save", "load", "down"}
      /\ proc'[p].pc \notin {"save", "load"}
  BY DEF Waiting, After
<1> QED
  BY <1>1, <1>2, WalkInv

(* A session gives up the ingest.                                          *)
LEMMA NotAcceptedInv ==
    ASSUME HInv, NEW p \in Sessions, NotAccepted(p), UNCHANGED <<ws, exec>>,
           proc[p].pc \in Waiting \/ Task(p, "T5-EXTERNAL-WAIT")
    PROVE  HInv'
<1>1. CASE proc[p].mem = None
  <2>1. UNCHANGED yaml /\ proc' = [proc EXCEPT ![p] = [Closed EXCEPT !.pc = "down"]]
    BY <1>1 DEF NotAccepted, Closed
  <2>2. /\ proc' \in [Sessions -> Procs] /\ Only(p) /\ proc'[p].pc = "down"
        /\ proc'[p].mem = None
    BY <2>1, ClosedFacts DEF HInv
  <2>3. Typed' /\ SameHandoff
    BY <2>1, <2>2 DEF HInv, Typed, SameHandoff
  <2> QED
    BY <2>1, <2>2, <2>3, CloseInv
<1>2. CASE proc[p].mem # None
  <2>1. Park(p, "panel")
    BY <1>2 DEF NotAccepted
  <2>2. proc[p].mem.at = "T5-EXTERNAL-WAIT" /\ proc[p].pc # "save"
    BY <1>2 DEF HInv, Placed, PlacedAt, Task, At, Waiting, After
  <2> QED
    BY <1>2, <2>1, <2>2, PauseInv
<1> QED
  BY <1>1, <1>2

-----------------------------------------------------------------------------
(* The compile of a handoff.                                               *)

LEMMA ReboostInv == ASSUME HInv, NEW p \in Sessions, Reboost(p) PROVE HInv'
<1>1. /\ proc[p].pc = "step" /\ proc[p].mem # None
      /\ proc[p].mem.at = "T5-REBOOST-GATE" /\ UNCHANGED <<ws, yaml, exec>>
  BY HasTask DEF Reboost, Task, At, Waiting, After
<1>2. /\ proc' \in [Sessions -> Procs] /\ Only(p) /\ proc'[p].pc = "block"
      /\ proc'[p].mem = proc[p].mem
  BY GotoFacts DEF HInv, Reboost, Pcs, Compiling
<1>3. Typed' /\ CompiledBy(proc'[p], ws') /\ PublishedBeforeCommit'
  BY <1>1, <1>2 DEF HInv, Typed, Compiled, CompiledBy, PublishedBeforeCommit
<1> QED
  BY <1>1, <1>2, <1>3, CompileInv DEF Compiling

(* A session at a step of the compile.                                     *)
LEMMA CompilerFacts ==
    ASSUME HInv, NEW p \in Sessions, proc[p].pc \in Compiling \cup {"revoke", "undo", "failed"}
    PROVE  /\ p = "shell" /\ proc[p].mem # None /\ proc[p].mem \in States
           /\ proc[p].mem.at = "T5-REBOOST-GATE" /\ proc[p].pc # "save"
           /\ CompiledBy(proc[p], ws) /\ proc[p] \in Procs /\ ws \in Files
           /\ NoSecondSession /\ proc["skill"].mem = None
           /\ yaml.at = "T5-REBOOST-GATE"
<1>1. proc[p].pc \notin Waiting \cup {"down", "load", "save"}
  BY DEF Waiting, After, Compiling
<1>2. /\ proc[p].mem # None /\ proc[p].mem \in States
      /\ proc[p].mem.at = "T5-REBOOST-GATE"
  BY <1>1, HasTask
<1> QED
  BY <1>1, <1>2, AloneBeforeWait DEF HInv, Compiled, Typed, Late, T8

(* The pack is blocked, and all files are to be removed.                   *)
LEMMA BlockFacts ==
    ASSUME HInv, NEW p \in Sessions, NEW l \in {"remove", "undo"},
           proc[p].pc \in Compiling \cup {"revoke", "undo", "failed"},
           ws' = [ws EXCEPT !.pack = [status |-> "blocked", of |-> 0]],
           proc' = [proc EXCEPT ![p].pc = l, ![p].todo = Controls],
           UNCHANGED <<yaml, exec>>
    PROVE  HInv'
<1>1. /\ proc[p] \in Procs /\ ws \in Files /\ proc[p].mem # None
      /\ proc[p].mem.at = "T5-REBOOST-GATE" /\ proc[p].pc # "save"
  BY CompilerFacts
<1>2. /\ proc' \in [Sessions -> Procs] /\ Only(p) /\ proc'[p].pc = l
      /\ proc'[p].mem = proc[p].mem
  BY <1>1 DEF HInv, Typed, Procs, Pcs, Compiling, Only
<1>3. /\ ws' \in Files /\ ws'.contract = ws.contract /\ ws'.pack.status = "blocked"
  BY <1>1 DEF Files
<1>4. Typed' /\ CompiledBy(proc'[p], ws') /\ PublishedBeforeCommit'
  BY <1>2, <1>3 DEF HInv, Typed, CompiledBy, PublishedBeforeCommit
<1> QED
  BY <1>1, <1>2, <1>3, <1>4, CompileInv DEF Compiling

LEMMA BlockInv == ASSUME HInv, NEW p \in Sessions, Block(p) PROVE HInv'
BY BlockFacts DEF Block, At, Compiling

LEMMA RevokeInv == ASSUME HInv, NEW p \in Sessions, Revoke(p) PROVE HInv'
BY BlockFacts DEF Revoke, At

(* A file is removed while the pack does not say completed.                *)
LEMMA RemoveFacts ==
    ASSUME HInv, NEW p \in Sessions, NEW c \in Controls,
           NEW k \in {"remove", "undo"}, proc[p].pc = k,
           NEW l \in {"build", "failed"}, Each(p, c, 0, l), UNCHANGED <<yaml, exec>>
    PROVE  HInv'
<1>1. /\ proc[p].mem # None /\ proc[p].mem.at = "T5-REBOOST-GATE"
      /\ CompiledBy(proc[p], ws) /\ proc[p].pc # "save"
  BY CompilerFacts DEF Compiling
<1>2. l \in Pcs /\ Typed
  BY DEF HInv, Pcs, Compiling
<1>3. /\ ws' \in Files /\ ws'.pack = ws.pack /\ ws'.contract = ws.contract
      /\ proc' \in [Sessions -> Procs] /\ Only(p) /\ proc'[p].mem = proc[p].mem
      /\ proc'[p].pc \in {k, l}
  BY <1>2, EachFacts
<1>4. ws.pack.status # "completed"
  BY <1>1 DEF CompiledBy
<1>5. Typed' /\ CompiledBy(proc'[p], ws') /\ PublishedBeforeCommit'
  BY <1>3, <1>4 DEF HInv, Typed, CompiledBy, PublishedBeforeCommit
<1>6. proc'[p].pc \in Compiling \cup {"revoke", "undo", "failed"}
  BY <1>3 DEF Compiling
<1> QED
  BY <1>1, <1>3, <1>5, <1>6, CompileInv

LEMMA RemoveInv == ASSUME HInv, NEW p \in Sessions, Remove(p) PROVE HInv'
BY RemoveFacts DEF Remove, At

LEMMA UndoInv == ASSUME HInv, NEW p \in Sessions, Undo(p) PROVE HInv'
BY RemoveFacts DEF Undo, At

LEMMA BuildInv == ASSUME HInv, NEW p \in Sessions, Build(p) PROVE HInv'
<1>1. /\ proc[p].pc = "build" /\ UNCHANGED <<ws, yaml, exec>>
      /\ proc' = [proc EXCEPT ![p].pc = "publish", ![p].todo = Controls]
  BY DEF Build, At
<1>2. /\ proc[p] \in Procs /\ proc[p].mem # None
      /\ proc[p].mem.at = "T5-REBOOST-GATE" /\ CompiledBy(proc[p], ws)
  BY <1>1, CompilerFacts DEF Compiling
<1>3. /\ proc' \in [Sessions -> Procs] /\ Only(p) /\ proc'[p].pc = "publish"
      /\ proc'[p].mem = proc[p].mem /\ proc'[p].todo = Controls
  BY <1>1, <1>2 DEF HInv, Typed, Procs, Pcs, Compiling, Only
<1>4. Typed' /\ CompiledBy(proc'[p], ws') /\ PublishedBeforeCommit'
  BY <1>1, <1>2, <1>3 DEF HInv, Typed, Compiled, CompiledBy, PublishedBeforeCommit
<1> QED
  BY <1>1, <1>2, <1>3, <1>4, CompileInv DEF Compiling

LEMMA PublishInv == ASSUME HInv, NEW p \in Sessions, Publish(p) PROVE HInv'
<1>1. PICK c \in Controls : Each(p, c, ws.contract, "commit")
  BY DEF Publish
<1>2. proc[p].pc = "publish" /\ UNCHANGED <<yaml, exec>>
  BY DEF Publish, At
<1>3. /\ proc[p].mem # None /\ proc[p].mem.at = "T5-REBOOST-GATE"
      /\ CompiledBy(proc[p], ws) /\ ws \in Files /\ proc[p] \in Procs
  BY <1>2, CompilerFacts DEF Compiling
<1>4. ws.contract \in Nat /\ "commit" \in Pcs /\ Typed /\ proc[p].todo \subseteq Controls
  BY <1>3 DEF HInv, Files, Pcs, Compiling, Procs
<1>5. /\ ws' \in Files /\ ws'.pack = ws.pack /\ ws'.contract = ws.contract
      /\ ws'.controls[c] = ws.contract
      /\ \A d \in Controls \ {c} : ws'.controls[d] = ws.controls[d]
      /\ proc' \in [Sessions -> Procs] /\ Only(p)
      /\ c \in proc[p].todo /\ proc'[p].mem = proc[p].mem
      /\ proc'[p].todo = proc[p].todo \ {c}
      /\ proc'[p].pc = IF proc[p].todo = {c} THEN "commit" ELSE "publish"
  BY <1>1, <1>2, <1>4, EachFacts
<1>6. ws.pack.status # "completed" /\ \A d \in Controls \ proc[p].todo : ws.controls[d] = ws.contract
  BY <1>2, <1>3 DEF CompiledBy
<1>7. \A d \in Controls \ proc'[p].todo : ws'.controls[d] = ws'.contract
  BY <1>5, <1>6
<1>8. proc'[p].pc = "commit" => \A d \in Controls : ws'.controls[d] = ws'.contract
  BY <1>5, <1>7
<1>9. Typed' /\ CompiledBy(proc'[p], ws') /\ PublishedBeforeCommit'
  BY <1>2, <1>5, <1>6, <1>7, <1>8 DEF HInv, Typed, CompiledBy, PublishedBeforeCommit
<1>10. proc'[p].pc \in Compiling
  BY <1>5 DEF Compiling
<1> QED
  BY <1>2, <1>3, <1>5, <1>9, <1>10, CompileInv

LEMMA RaiseInv == ASSUME HInv, NEW p \in Sessions, Raise(p) PROVE HInv'
<1>1. /\ proc[p].mem # None /\ proc[p].mem.at = "T5-REBOOST-GATE" /\ proc[p].pc # "save"
      /\ UNCHANGED <<ws, yaml, exec>>
  BY CompilerFacts DEF Raise
<1>2. /\ proc' \in [Sessions -> Procs] /\ Only(p) /\ proc'[p].pc = "revoke"
      /\ proc'[p].mem = proc[p].mem
  BY GotoFacts DEF HInv, Raise, Pcs
<1>3. Typed' /\ CompiledBy(proc'[p], ws') /\ PublishedBeforeCommit'
  BY <1>1, <1>2 DEF HInv, Typed, Compiled, CompiledBy, PublishedBeforeCommit
<1> QED
  BY <1>1, <1>2, <1>3, CompileInv

LEMMA CompileFailedInv == ASSUME HInv, NEW p \in Sessions, CompileFailed(p) PROVE HInv'
<1>1. /\ proc[p].pc \in {"revoke", "undo", "failed"}
      /\ Park(p, "down") /\ UNCHANGED <<ws, exec>>
  BY DEF CompileFailed, At
<1>2. proc[p].mem # None /\ proc[p].pc # "save"
  BY <1>1, CompilerFacts
<1> QED
  BY <1>1, <1>2, PauseInv

(* The handoff changes, and everyone is before the executor gate.          *)
LEMMA RefusedInv == ASSUME HInv, NEW p \in Sessions, Refused(p) PROVE HInv'
<1>1. /\ proc[p].pc = "build" /\ Park(p, "down") /\ UNCHANGED exec
      /\ ws' = [ws EXCEPT !.pack = [status |-> "blocked", of |-> 0],
                          !.controls = [c \in Controls |-> 0]]
  BY DEF Refused, At
<1>2. /\ p = "shell" /\ proc[p].mem # None /\ proc[p].mem.at = "T5-REBOOST-GATE"
      /\ ws \in Files /\ NoSecondSession /\ proc["skill"].mem = None
  BY <1>1, CompilerFacts DEF Compiling
<1>3. /\ proc' \in [Sessions -> Procs] /\ Only(p) /\ proc'[p].pc = "down"
      /\ yaml' \in States /\ yaml'.at = "T5-REBOOST-GATE" /\ proc'[p].mem = None
  BY <1>1, <1>2, ParkFacts DEF HInv
<1>4. ws' \in Files /\ ws'.pack.status = "blocked"
  BY <1>1, <1>2 DEF Files
<1>5. Typed'
  BY <1>1, <1>3, <1>4 DEF HInv, Typed
<1>6. Placed'
  BY <1>2, <1>3 DEF HInv, Placed, PlacedAt, Only, Sessions, Compiling, Waiting, After
<1>7. Behind'
  BY <1>2, <1>3 DEF Behind, NoSecondSession, At, Only, Sessions
<1>8. Coherent' /\ Compiled'
  BY <1>2, <1>3, <1>4 DEF Coherent, CoherentWith, Compiled, CompiledBy, PublishedBeforeCommit
<1>9. Kept'
  BY <1>2, <1>3 DEF Kept, Authorizing, Only, Sessions
<1> QED
  BY <1>5, <1>6, <1>7, <1>8, <1>9 DEF HInv

LEMMA CommitInv == ASSUME HInv, NEW p \in Sessions, Commit(p) PROVE HInv'
<1>1. /\ proc[p].pc = "commit" /\ Advance(p, "T5-EXECUTOR-GATE") /\ UNCHANGED <<yaml, exec>>
      /\ ws' = [ws EXCEPT !.pack = [status |-> "completed", of |-> ws.contract]]
  BY DEF Commit, At
<1>2. /\ p = "shell" /\ proc[p].mem # None /\ ws \in Files /\ CompiledBy(proc[p], ws)
      /\ NoSecondSession /\ proc["skill"].mem = None /\ yaml.at = "T5-REBOOST-GATE"
  BY <1>1, CompilerFacts DEF Compiling
<1>3. /\ proc' \in [Sessions -> Procs] /\ Only(p) /\ proc'[p].pc = "save"
      /\ proc'[p].mem # None /\ proc'[p].mem.at = "T5-EXECUTOR-GATE"
  BY <1>1, <1>2, AdvanceFacts DEF HInv, Tasks, BeforeWait
<1>4. /\ ws' \in Files /\ ws'.contract = ws.contract /\ ws'.controls = ws.controls
      /\ ws'.pack = [status |-> "completed", of |-> ws.contract]
  BY <1>1, <1>2 DEF Files
<1>5. Typed'
  BY <1>1, <1>3, <1>4 DEF HInv, Typed
<1>6. Placed'
  BY <1>2, <1>3 DEF HInv, Placed, PlacedAt, Only, Sessions, Compiling, Waiting, After
<1>7. Behind'
  BY <1>2, <1>3 DEF Behind, NoSecondSession, At, Only, Sessions
<1>8. Coherent'
  BY <1>1, <1>2, <1>3 DEF Coherent, CoherentWith, Late, T8
<1>9. Compiled'
  BY <1>1, <1>2, <1>3, <1>4 DEF Compiled, CompiledBy, PublishedBeforeCommit
<1>10. Kept'
  BY <1>4 DEF Kept, Current
<1> QED
  BY <1>5, <1>6, <1>7, <1>8, <1>9, <1>10 DEF HInv

-----------------------------------------------------------------------------
(* The executor gate, the dry run, the wait and T8.                        *)

LEMMA ExecutorGateInv == ASSUME HInv, NEW p \in Sessions, ExecutorGate(p) PROVE HInv'
<1>1. PICK option \in {"real", "mock", "deferred"},
           t \in {"T5-EXTERNAL-WAIT", "T5-DRY-RUN", "T5-REBOOST-GATE"} :
        Choose(p, option, t)
  BY DEF ExecutorGate
<1>2. /\ proc[p].pc = "step" /\ proc[p].mem # None /\ proc[p].mem.at = "T5-EXECUTOR-GATE"
      /\ ws' = [ws EXCEPT !.selection = option] /\ Advance(p, t) /\ UNCHANGED <<yaml, exec>>
  BY <1>1, HasTask DEF Choose, Task, At, Waiting, After
<1>3. ws' \in Files /\ SameHandoff
  BY <1>2 DEF HInv, Typed, Files, SameHandoff
<1>4. Current /\ t \in Tasks
  BY <1>2 DEF HInv, Kept, Authorizing, Tasks, BeforeWait
<1> QED
  BY <1>2, <1>3, <1>4, MoveInv DEF Late, T8

LEMMA DryRunInv == ASSUME HInv, NEW p \in Sessions, DryRun(p) PROVE HInv'
<1>1. /\ proc[p].pc = "step" /\ proc[p].mem # None /\ proc[p].mem.at = "T5-DRY-RUN"
      /\ ws' = [ws EXCEPT !.result = [run |-> 0, of |-> ws.contract, kind |-> "mock"]]
      /\ Advance(p, "T5-EXECUTOR-GATE") /\ UNCHANGED <<yaml, exec>>
  BY HasTask DEF DryRun, Task, At, Waiting, After
<1>2. ws' \in Files /\ SameHandoff
  BY <1>1 DEF HInv, Typed, Files, Contents, SameHandoff
<1>3. Current /\ "T5-EXECUTOR-GATE" \in Tasks
  BY <1>1 DEF HInv, Kept, Authorizing, Tasks, BeforeWait
<1> QED
  BY <1>1, <1>2, <1>3, MoveInv DEF Late, T8

LEMMA EntryInv == ASSUME HInv, NEW p \in Sessions, Entry(p) PROVE HInv'
<1>1. UNCHANGED <<ws, exec>> /\ (Task(p, "T5-EXTERNAL-WAIT") \/ proc[p].pc = "entry")
  BY DEF Entry, At
<1>2. CASE Authorized
  <2>1. /\ proc' \in [Sessions -> Procs] /\ Only(p) /\ proc'[p].pc = "validate"
        /\ proc'[p].mem = proc[p].mem /\ UNCHANGED yaml
    BY <1>2, GotoFacts DEF HInv, Entry, Pcs, Waiting
  <2>2. Typed' /\ SameHandoff
    BY <1>1, <2>1 DEF HInv, Typed, SameHandoff
  <2>3. proc[p].mem # None => proc[p].mem.at = "T5-EXTERNAL-WAIT"
    BY <1>1 DEF HInv, Placed, PlacedAt, Task, Waiting
  <2> QED
    BY <1>1, <2>1, <2>2, <2>3, StayInv DEF Task, At, Waiting
<1>3. CASE ~Authorized
  BY <1>1, <1>3, NotAcceptedInv DEF Entry, Waiting
<1> QED
  BY <1>2, <1>3

LEMMA ValidateInv == ASSUME HInv, NEW p \in Sessions, Validate(p) PROVE HInv'
<1>1. UNCHANGED <<ws, exec>> /\ proc[p].pc = "validate" /\ proc[p] \in Procs
      /\ ws \in Files
  BY DEF Validate, At, HInv, Typed
<1>2. CASE Acceptable
  <2>1. proc' = [proc EXCEPT ![p].pc = "normalise", ![p].acc = Core] /\ UNCHANGED yaml
    BY <1>2 DEF Validate
  <2>2. Core \in Cores
    BY <1>1 DEF Core, Cores, Files
  <2>3. /\ proc' \in [Sessions -> Procs] /\ Only(p) /\ proc'[p].pc = "normalise"
        /\ proc'[p].mem = proc[p].mem
    BY <1>1, <2>1, <2>2 DEF HInv, Typed, Procs, Pcs, Waiting, Only
  <2>4. Typed' /\ SameHandoff
    BY <1>1, <2>1, <2>3 DEF HInv, Typed, SameHandoff
  <2>5. proc[p].mem # None => proc[p].mem.at = "T5-EXTERNAL-WAIT"
    BY <1>1 DEF HInv, Placed, PlacedAt, Waiting
  <2> QED
    BY <1>1, <2>1, <2>3, <2>4, <2>5, StayInv DEF Waiting
<1>3. CASE ~Acceptable
  BY <1>1, <1>3, NotAcceptedInv DEF Validate, Waiting
<1> QED
  BY <1>2, <1>3

LEMMA NormaliseInv == ASSUME HInv, NEW p \in Sessions, Normalise(p) PROVE HInv'
<1>1. /\ UNCHANGED <<ws, yaml, exec>> /\ proc[p].pc = "normalise" /\ proc[p] \in Procs
      /\ ws \in Files /\ proc' = [proc EXCEPT ![p].pc = "receipt", ![p].data = Core]
  BY DEF Normalise, At, HInv, Typed
<1>2. Core \in Cores
  BY <1>1 DEF Core, Cores, Files
<1>3. /\ proc' \in [Sessions -> Procs] /\ Only(p) /\ proc'[p].pc = "receipt"
      /\ proc'[p].mem = proc[p].mem
  BY <1>1, <1>2 DEF HInv, Typed, Procs, Pcs, Waiting, After, Only
<1>4. Typed' /\ SameHandoff
  BY <1>1, <1>3 DEF HInv, Typed, SameHandoff
<1>5. proc[p].mem # None => proc[p].mem.at = "T5-EXTERNAL-WAIT"
  BY <1>1 DEF HInv, Placed, PlacedAt, Waiting
<1> QED
  BY <1>1, <1>3, <1>4, <1>5, StayInv DEF Waiting, After

LEMMA WriteDraftInv == ASSUME HInv, NEW p \in Sessions, WriteDraft(p) PROVE HInv'
<1>1. /\ UNCHANGED <<yaml, exec>> /\ proc[p].pc \in {"receipt", "evidence", "claims"}
      /\ ws \in Files /\ proc[p] \in Procs /\ Goto(p, After[proc[p].pc])
      /\ ws' = [ws EXCEPT !.drafts[proc[p].pc] = [acc |-> proc[p].acc, data |-> proc[p].data]]
  BY DEF WriteDraft, HInv, Typed, After
<1>2. After[proc[p].pc] \in {"evidence", "claims", "published"}
  BY <1>1 DEF After
<1>3. /\ proc' \in [Sessions -> Procs] /\ Only(p)
      /\ proc'[p].pc \in {"evidence", "claims", "published"} /\ proc'[p].mem = proc[p].mem
  BY <1>1, <1>2, GotoFacts DEF HInv, Pcs, Waiting, After
<1>4. [acc |-> proc[p].acc, data |-> proc[p].data] \in Drafts
  BY <1>1 DEF Procs, Drafts
<1>5. ws' \in Files /\ SameHandoff
  BY <1>1, <1>4 DEF Files, SameHandoff
<1>6. Typed'
  BY <1>1, <1>3, <1>5 DEF HInv, Typed
<1>7. proc[p].mem # None => proc[p].mem.at = "T5-EXTERNAL-WAIT"
  BY <1>1 DEF HInv, Placed, PlacedAt, Waiting, After
<1> QED
  BY <1>1, <1>3, <1>5, <1>6, <1>7, StayInv DEF Waiting, After

LEMMA RecheckInv == ASSUME HInv, NEW p \in Sessions, Recheck(p) PROVE HInv'
<1>1. /\ UNCHANGED <<ws, exec>> /\ proc[p].pc = "published" /\ proc[p].mem # None
      /\ proc[p].mem.at = "T5-EXTERNAL-WAIT" /\ ws \in Files /\ SameHandoff
  BY DEF Recheck, At, HInv, Typed, Placed, PlacedAt, Waiting, SameHandoff
<1>2. CASE Ingested(proc[p].acc)
  <2>1. Advance(p, "T8-STYLE-GATE") /\ UNCHANGED yaml
    BY <1>2 DEF Recheck
  <2>2. Current
    BY <1>1 DEF HInv, Kept, Authorizing, Tasks
  <2>3. "T8-STYLE-GATE" \in Tasks /\ "T8-STYLE-GATE" \in Late
        /\ "T5-EXTERNAL-WAIT" \in Late
    BY DEF Tasks, T8, Late
  <2> QED
    BY <1>1, <2>1, <2>2, <2>3, MoveInv
<1>3. CASE ~Ingested(proc[p].acc)
  BY <1>1, <1>3, NotAcceptedInv DEF Recheck, Waiting
<1> QED
  BY <1>2, <1>3

LEMMA PrepareInv == ASSUME HInv, NEW p \in Sessions, Prepare(p) PROVE HInv'
<1>1. /\ UNCHANGED <<ws, exec>> /\ proc[p].pc = "published" /\ proc[p].mem = None
  BY DEF Prepare, At
<1>2. p = "skill"
  BY <1>1 DEF HInv, Placed, Sessions
<1>3. CASE ~Authorized
  BY <1>1, <1>3, NotAcceptedInv DEF Prepare, Waiting
<1>4. CASE Authorized
  <2>1. /\ yaml' = [at |-> "T8-STYLE-GATE", parked |-> TRUE, delegated |-> TRUE]
        /\ proc' = [proc EXCEPT ![p] = [Closed EXCEPT !.pc = "load"]]
    BY <1>4 DEF Prepare
  <2>2. /\ proc' \in [Sessions -> Procs] /\ Only(p) /\ proc'[p].pc = "load"
        /\ proc'[p].mem = None
    BY <2>1, ClosedFacts DEF HInv
  <2>3. yaml' \in States /\ yaml'.at = "T8-STYLE-GATE"
    BY <2>1 DEF States, Tasks, T8
  <2>4. yaml.at = "T5-EXTERNAL-WAIT" /\ Current
    BY <1>4 DEF HInv, Kept, Authorized, Authorizing, Tasks
  <2>5. Typed'
    BY <1>1, <2>2, <2>3 DEF HInv, Typed
  <2>6. Placed'
    BY <1>2, <2>2 DEF HInv, Placed, PlacedAt, Only, Sessions, Compiling, Waiting, After
  <2>7. proc["shell"].mem # None => proc["shell"].mem.at \in Late
    BY <2>4 DEF HInv, Coherent, CoherentWith
  <2>8. Behind' /\ Coherent'
    BY <1>2, <2>2, <2>3, <2>7
       DEF Behind, Coherent, CoherentWith, Only, Sessions, Late, T8
  <2>9. Compiled'
    BY <1>1, <1>2, <2>2 DEF HInv, Compiled, CompiledBy, PublishedBeforeCommit, Only, Sessions
  <2>10. Kept'
    BY <1>1, <2>4 DEF Kept, Current
  <2> QED
    BY <2>5, <2>6, <2>8, <2>9, <2>10 DEF HInv
<1> QED
  BY <1>3, <1>4

LEMMA CheckInv == ASSUME HInv, NEW p \in Sessions, Check(p) PROVE HInv'
<1>1. /\ UNCHANGED <<ws, yaml, exec>> /\ proc[p].pc = "panel" /\ proc[p].mem # None
      /\ proc[p].mem.at = "T5-EXTERNAL-WAIT" /\ ws \in Files /\ SameHandoff
      /\ Advance(p, "T5-EXTERNAL-WAIT")
  BY DEF Check, At, HInv, Typed, Placed, PlacedAt, SameHandoff
<1>2. "T5-EXTERNAL-WAIT" \in Tasks /\ "T5-EXTERNAL-WAIT" \notin T8 /\ Current
  BY <1>1 DEF HInv, Kept, Authorizing, Tasks, T8
<1> QED
  BY <1>1, <1>2, MoveInv

LEMMA LeaveInv == ASSUME HInv, NEW p \in Sessions, Leave(p) PROVE HInv'
<1>1. /\ proc[p].pc = "panel" /\ proc[p].mem # None /\ Park(p, "down")
      /\ UNCHANGED <<ws, exec>>
  BY DEF Leave, At, HInv, Placed, PlacedAt
<1> QED
  BY <1>1, PauseInv

LEMMA StyleGateInv == ASSUME HInv, NEW p \in Sessions, StyleGate(p) PROVE HInv'
<1>1. /\ proc[p].pc = "step" /\ proc[p].mem # None /\ proc[p].mem.at = "T8-STYLE-GATE"
      /\ Advance(p, "T8-RESOURCE") /\ UNCHANGED <<ws, yaml, exec>>
      /\ ws \in Files /\ SameHandoff
  BY HasTask DEF StyleGate, Task, At, Waiting, After, HInv, Typed, SameHandoff
<1>2. /\ Current /\ "T8-RESOURCE" \in Tasks /\ "T8-RESOURCE" \in Late
      /\ "T8-STYLE-GATE" \in Late
  BY <1>1 DEF HInv, Kept, Authorizing, Tasks, T8, Late
<1> QED
  BY <1>1, <1>2, MoveInv

LEMMA ResourceInv == ASSUME HInv, NEW p \in Sessions, Resource(p) PROVE HInv'
<1>1. /\ proc[p].pc = "step" /\ proc[p].mem # None /\ proc[p].mem.at = "T8-RESOURCE"
      /\ UNCHANGED <<ws, exec>> /\ ws \in Files /\ proc[p] \in Procs
  BY HasTask DEF Resource, Task, At, Waiting, After, HInv, Typed
<1>2. CASE Acceptable
  <2>1. proc' = [proc EXCEPT ![p].pc = "compare", ![p].acc = Core] /\ UNCHANGED yaml
    BY <1>2 DEF Resource
  <2>2. Core \in Cores
    BY <1>1 DEF Core, Cores, Files
  <2>3. /\ proc' \in [Sessions -> Procs] /\ Only(p) /\ proc'[p].pc = "compare"
        /\ proc'[p].mem = proc[p].mem
    BY <1>1, <2>1, <2>2 DEF HInv, Typed, Procs, Pcs, Only
  <2>4. Typed' /\ SameHandoff
    BY <1>1, <2>1, <2>3 DEF HInv, Typed, SameHandoff
  <2> QED
    BY <1>1, <2>1, <2>3, <2>4, StayInv DEF Waiting, After
<1>3. CASE ~Acceptable
  BY <1>1, <1>3, PauseInv DEF Resource
<1> QED
  BY <1>2, <1>3

LEMMA CompareInv == ASSUME HInv, NEW p \in Sessions, Compare(p) PROVE HInv'
<1>1. /\ proc[p].pc = "compare" /\ proc[p].mem # None /\ proc[p].mem.at = "T8-RESOURCE"
      /\ UNCHANGED <<ws, exec>> /\ ws \in Files /\ SameHandoff
  BY DEF Compare, At, HInv, Typed, Placed, PlacedAt, SameHandoff
<1>2. CASE Ingested(proc[p].acc)
  <2>1. Advance(p, "T8-WRITE") /\ UNCHANGED yaml
    BY <1>2 DEF Compare
  <2>2. /\ Current /\ "T8-WRITE" \in Tasks /\ "T8-WRITE" \in Late
        /\ "T8-RESOURCE" \in Late
    BY <1>1 DEF HInv, Kept, Authorizing, Tasks, T8, Late
  <2> QED
    BY <1>1, <2>1, <2>2, MoveInv
<1>3. CASE ~Ingested(proc[p].acc)
  BY <1>1, <1>3, PauseInv DEF Compare
<1> QED
  BY <1>2, <1>3

-----------------------------------------------------------------------------
(* The researcher and the executor.                                        *)

(* state.yaml is moved while nobody has it in memory.                      *)
LEMMA MovedByHand ==
    ASSUME HInv, NoSecondSession, proc["shell"].mem = None, NEW t \in Tasks,
           yaml' = [yaml EXCEPT !.at = t, !.parked = FALSE],
           UNCHANGED <<ws, proc, exec>>, t \in Authorizing => Current
    PROVE  HInv'
<1>1. yaml' \in States /\ yaml'.at = t
  BY DEF HInv, Typed, States
<1>2. Typed' /\ Placed' /\ Behind' /\ Coherent' /\ Compiled'
  BY <1>1 DEF HInv, Typed, Placed, PlacedAt, Behind, NoSecondSession, At, Coherent,
              CoherentWith, Compiled, CompiledBy, PublishedBeforeCommit
<1>3. Kept'
  BY <1>1 DEF HInv, Kept, Current
<1> QED
  BY <1>2, <1>3 DEF HInv

LEMMA ReselectInv == ASSUME HInv, Reselect PROVE HInv'
<1>1. proc["shell"].mem = None /\ NoSecondSession
  BY DEF Reselect, At, HInv, Placed, PlacedAt, Sessions
<1>2. "T4-GATE1" \in Tasks /\ "T4-GATE1" \notin Authorizing
  BY DEF Tasks, BeforeWait, Authorizing
<1> QED
  BY <1>1, <1>2, MovedByHand DEF Reselect

LEMMA ReingestInv == ASSUME HInv, Reingest PROVE HInv'
<1>1. proc["shell"].mem = None /\ NoSecondSession
  BY DEF Reingest, At, HInv, Placed, PlacedAt, Sessions
<1>2. "T5-EXTERNAL-WAIT" \in Tasks /\ Current
  BY DEF Reingest, HInv, Kept, Authorizing, Tasks, T8
<1> QED
  BY <1>1, <1>2, MovedByHand DEF Reingest

(* The executor writes nothing the sessions' part of the invariant reads.  *)
LEMMA ExecutorInv ==
    ASSUME HInv, ws' \in Files, SameHandoff, UNCHANGED <<yaml, proc>>,
           exec' \in [pc : {"idle", "run", "facts", "validate", "route"}, run : Nat, of : Nat]
    PROVE  HInv'
BY DEF HInv, Typed, Placed, PlacedAt, Behind, NoSecondSession, At, Coherent,
       CoherentWith, Compiled, CompiledBy, PublishedBeforeCommit, Kept, Current, SameHandoff

LEMMA BeginRunInv == ASSUME HInv, BeginRun PROVE HInv'
<1>1. ws' = ws /\ UNCHANGED <<yaml, proc>> /\ SameHandoff /\ ws \in Files
  BY DEF BeginRun, SameHandoff, HInv, Typed
<1>2. exec' \in [pc : {"idle", "run", "facts", "validate", "route"}, run : Nat, of : Nat]
  BY <1>1 DEF BeginRun, HInv, Typed, Files
<1> QED
  BY <1>1, <1>2, ExecutorInv

LEMMA WriteResultInv == ASSUME HInv, WriteResult PROVE HInv'
<1>1. PICK kind \in {"real", "failed"} :
        ws' = [ws EXCEPT !.result = [run |-> exec.run, of |-> exec.of, kind |-> kind]]
  BY DEF WriteResult
<1>2. ws' \in Files /\ SameHandoff
  BY <1>1 DEF HInv, Typed, Files, Contents, SameHandoff
<1>3. exec' \in [pc : {"idle", "run", "facts", "validate", "route"}, run : Nat, of : Nat]
  BY DEF WriteResult, HInv, Typed
<1> QED
  BY <1>2, <1>3, ExecutorInv DEF WriteResult

LEMMA WriteFactsInv == ASSUME HInv, WriteFacts PROVE HInv'
<1>1. ws' \in Files /\ SameHandoff
  BY DEF WriteFacts, HInv, Typed, Files, SameHandoff
<1>2. exec' \in [pc : {"idle", "run", "facts", "validate", "route"}, run : Nat, of : Nat]
  BY DEF WriteFacts, HInv, Typed
<1> QED
  BY <1>1, <1>2, ExecutorInv DEF WriteFacts

LEMMA ValidateHandoffInv == ASSUME HInv, ValidateWriterHandoff PROVE HInv'
<1>1. ws \in Files /\ Core \in Cores
  BY DEF HInv, Typed, Files, Core, Cores
<1>2. ws' \in Files /\ SameHandoff
  BY <1>1 DEF ValidateWriterHandoff, Files, SameHandoff
<1>3. exec' \in [pc : {"idle", "run", "facts", "validate", "route"}, run : Nat, of : Nat]
  BY DEF ValidateWriterHandoff, HInv, Typed
<1> QED
  BY <1>2, <1>3, ExecutorInv DEF ValidateWriterHandoff

LEMMA RouteInv == ASSUME HInv, Route PROVE HInv'
<1>1. /\ UNCHANGED <<ws, yaml>> /\ SameHandoff /\ ws \in Files
      /\ exec' \in [pc : {"idle", "run", "facts", "validate", "route"}, run : Nat, of : Nat]
  BY DEF Route, SameHandoff, HInv, Typed
<1>2. CASE proc' = proc
  BY <1>1, <1>2, ExecutorInv
<1>3. CASE At("skill", "down") /\ proc' = [proc EXCEPT !["skill"].pc = "entry"]
  <2>1. proc["skill"].mem = None /\ "skill" \in Sessions
    BY <1>3 DEF HInv, Placed, PlacedAt, At, Sessions
  <2>2. /\ proc' \in [Sessions -> Procs] /\ Only("skill")
        /\ proc'["skill"].pc = "entry" /\ proc'["skill"].mem = None
    BY <1>3, <2>1 DEF HInv, Typed, Procs, Pcs, Waiting, Only
  <2>3. Typed'
    BY <1>1, <2>2 DEF HInv, Typed
  <2>4. PlacedAt(proc'["skill"]) /\ CompiledBy(proc'["skill"], ws)
    BY <2>2 DEF PlacedAt, CompiledBy, Waiting, After, Compiling
  <2> QED
    BY <1>1, <1>3, <2>1, <2>2, <2>3, <2>4, WalkInv DEF At
<1> QED
  BY <1>2, <1>3 DEF Route

-----------------------------------------------------------------------------
(* The invariant.                                                          *)

LEMMA HInit == ASSUME Init PROVE HInv
<1>1. \A p \in Sessions : proc[p] = Closed
  BY DEF Init
<1>2. Closed \in Procs
  BY DEF Closed, Procs, Pcs
<1>3. ws \in Files /\ yaml \in States
  BY DEF Init, Files, States, Tasks, BeforeWait
<1>4. Typed
  BY <1>2, <1>3 DEF Init, Typed
<1>5. Placed
  BY <1>1 DEF Placed, PlacedAt, Closed, Sessions, Compiling, Waiting, After
<1>6. Behind /\ Coherent /\ Kept
  BY <1>1 DEF Init, Behind, NoSecondSession, At, Coherent, CoherentWith, Kept, Closed,
              Sessions, Authorizing
<1>7. Compiled
  BY <1>1 DEF Init, Compiled, CompiledBy, PublishedBeforeCommit, Closed, Sessions
<1> QED
  BY <1>4, <1>5, <1>6, <1>7 DEF HInv

LEMMA HNext == ASSUME HInv, [Next]_vars PROVE HInv'
<1>1. CASE UNCHANGED vars
  BY <1>1 DEF HInv, vars, Typed, Placed, PlacedAt, Behind, NoSecondSession, At, Coherent,
       CoherentWith, Compiled, CompiledBy, PublishedBeforeCommit, Kept, Current
<1>2. ASSUME NEW p \in Sessions, Session(p) PROVE HInv'
  BY <1>2, SaveInv, SelectInv, ReboostInv, BlockInv, RemoveInv, BuildInv, PublishInv,
     CommitInv, RevokeInv, UndoInv, CompileFailedInv, ExecutorGateInv, DryRunInv,
     EntryInv, ValidateInv, NormaliseInv, WriteDraftInv, RecheckInv, PrepareInv,
     StyleGateInv, ResourceInv, CompareInv, WriteUpInv
  DEF Session, Compile, Accept
<1>3. ASSUME NEW p \in Sessions,
             Resume(p) \/ Check(p) \/ Leave(p) \/ Refused(p) \/ Raise(p) \/ Crash(p)
      PROVE  HInv'
  BY <1>3, ResumeInv, CheckInv, LeaveInv, RefusedInv, RaiseInv, CrashInv
<1>4. CASE Reselect \/ Reingest \/ BeginRun \/ Executor
  BY <1>4, ReselectInv, ReingestInv, BeginRunInv, WriteResultInv, WriteFactsInv,
     ValidateHandoffInv, RouteInv DEF Executor
<1>5. CASE Rest
  BY <1>1, <1>5 DEF Rest
<1> QED
  BY <1>1, <1>2, <1>3, <1>4, <1>5 DEF Next

THEOREM HandoffInvariant == Spec => []HInv
BY HInit, HNext, PTL DEF Spec

(* The state of the hand-off is well formed, and a session is never at a   *)
(* step that needs a task without having one (the runner's loop over       *)
(* state.current_task).                                                    *)
THEOREM HandoffTypeCorrect == Spec => []TypeOK
<1>1. ASSUME HInv PROVE TypeOK
  <2>1. /\ ws.pack \in [status : {"none", "blocked", "completed"}, of : Nat]
        /\ ws.controls \in [Controls -> Nat]
        /\ ws.selection \in {None, "real", "mock", "deferred"}
        /\ DOMAIN ws.drafts = DOMAIN After
    BY <1>1 DEF HInv, Typed, Files, After
  <2>2. yaml \in States /\ exec.pc \in {"idle", "run", "facts", "validate", "route"}
    BY <1>1 DEF HInv, Typed
  <2>3. ASSUME NEW p \in Sessions
        PROVE  /\ proc[p].pc \in Pcs /\ proc[p].todo \subseteq Controls
               /\ proc[p].pc \in Compiling \cup {"step", "save", "panel", "compare"} =>
                    proc[p].mem # None
    BY <1>1 DEF HInv, Typed, Procs, Placed, PlacedAt
  <2> QED
    BY <2>1, <2>2, <2>3 DEF TypeOK, Pcs, Waiting
<1> QED
  BY <1>1, HandoffInvariant, PTL

(* A handoff pack that says completed stands for the files published with  *)
(* it, whatever compile was cut short before (compile_experiment_handoff). *)
THEOREM CommittedIsPublished == Spec => []PublishedBeforeCommit
<1>1. HInv => PublishedBeforeCommit
  BY DEF HInv, Compiled
<1> QED
  BY <1>1, HandoffInvariant, PTL

(* An executor is only let in on a complete handoff of the candidate       *)
(* chosen (T5-REBOOST-GATE to T5-EXTERNAL-WAIT).                           *)
THEOREM AuthorizationCurrent == Spec => []NoStaleAuthorization
<1>1. HInv => NoStaleAuthorization
  BY DEF HInv, Kept, NoStaleAuthorization, Current, Authorizing, Tasks, BeforeWait
<1> QED
  BY <1>1, HandoffInvariant, PTL

-----------------------------------------------------------------------------
(* Nobody has T8 in memory while state.yaml is before the wait.            *)
LEMMA MemoryBehind ==
    ASSUME HInv, NEW p \in Sessions, proc[p].mem # None, proc[p].mem.at \in T8
    PROVE  yaml.at \notin BeforeWait
BY DEF HInv, Behind, Coherent, CoherentWith, NoSecondSession, Sessions, Late, T8, BeforeWait

NotOvertaken == yaml.at \in BeforeWait => yaml'.at \notin T8

LEMMA ParkNotOvertaken ==
    ASSUME HInv, NEW p \in Sessions, proc[p].mem # None,
           NEW l \in {"down", "panel"}, Park(p, l)
    PROVE  NotOvertaken
<1>1. yaml'.at = proc[p].mem.at
  BY ParkFacts DEF HInv
<1> QED
  BY <1>1, MemoryBehind DEF NotOvertaken

LEMMA GivenUpNotOvertaken ==
    ASSUME HInv, NEW p \in Sessions, NotAccepted(p)
    PROVE  NotOvertaken
<1>1. CASE proc[p].mem = None
  BY <1>1 DEF NotAccepted, NotOvertaken, BeforeWait, T8
<1>2. CASE proc[p].mem # None
  BY <1>2, ParkNotOvertaken DEF NotAccepted
<1> QED
  BY <1>1, <1>2

LEMMA StepNotOvertaken == ASSUME HInv, Next PROVE NotOvertaken
<1>0. yaml' = yaml => NotOvertaken
  BY DEF NotOvertaken, BeforeWait, T8
<1>1. ASSUME NEW p \in Sessions, Session(p) PROVE NotOvertaken
  <2>1. CASE Save(p)
    <3>1. proc[p].mem # None /\ yaml' = proc[p].mem
      BY <2>1, HasTask DEF Save, At, Waiting, After
    <3> QED
      BY <3>1, MemoryBehind DEF NotOvertaken
  <2>2. CASE CompileFailed(p)
    <3>1. Park(p, "down") /\ proc[p].pc \in {"revoke", "undo", "failed"}
      BY <2>2 DEF CompileFailed, At
    <3> QED
      BY <3>1, CompilerFacts, ParkNotOvertaken
  <2>3. CASE Entry(p) \/ Validate(p) \/ Recheck(p)
    BY <1>0, <2>3, GivenUpNotOvertaken DEF Entry, Validate, Recheck
  <2>4. CASE Prepare(p)
    <3>1. CASE Authorized
      BY <3>1 DEF Authorized, NotOvertaken, BeforeWait
    <3>2. CASE ~Authorized
      BY <2>4, <3>2, GivenUpNotOvertaken DEF Prepare
    <3> QED
      BY <3>1, <3>2
  <2>5. CASE Resource(p) \/ Compare(p)
    <3>1. proc[p].mem # None
      BY <2>5, HasTask DEF Resource, Compare, Task, At, Waiting, After
    <3>2. yaml' = yaml \/ Park(p, "down")
      BY <2>5 DEF Resource, Compare
    <3> QED
      BY <1>0, <3>1, <3>2, ParkNotOvertaken
  <2>6. CASE \/ Select(p) \/ ExecutorGate(p) \/ DryRun(p) \/ Normalise(p) \/ WriteDraft(p)
             \/ StyleGate(p) \/ WriteUp(p)
    BY <1>0, <2>6 DEF Select, ExecutorGate, Choose, DryRun, Normalise, WriteDraft,
                      StyleGate, WriteUp
  <2>7. CASE \/ Reboost(p) \/ Block(p) \/ Remove(p) \/ Build(p) \/ Publish(p) \/ Commit(p)
             \/ Revoke(p) \/ Undo(p)
    BY <1>0, <2>7 DEF Reboost, Block, Remove, Build, Publish, Commit, Revoke, Undo
  <2> QED
    BY <1>1, <2>1, <2>2, <2>3, <2>4, <2>5, <2>6, <2>7 DEF Session, Compile, Accept
<1>2. ASSUME NEW p \in Sessions, Leave(p) \/ Refused(p) PROVE NotOvertaken
  <2>1. proc[p].mem # None
    BY <1>2, HasTask DEF Leave, Refused, At, Waiting, After
  <2>2. Park(p, "down")
    BY <1>2 DEF Leave, Refused
  <2> QED
    BY <2>1, <2>2, ParkNotOvertaken
<1>3. ASSUME NEW p \in Sessions, Resume(p) \/ Check(p) \/ Raise(p) \/ Crash(p)
      PROVE  NotOvertaken
  BY <1>0, <1>3 DEF Resume, Check, Raise, Crash
<1>4. CASE Reselect \/ Reingest
  <2>1. yaml'.at \in {"T4-GATE1", "T5-EXTERNAL-WAIT"}
    BY <1>4 DEF HInv, Typed, States, Reselect, Reingest
  <2> QED
    BY <2>1 DEF NotOvertaken, T8
<1>5. CASE BeginRun \/ Executor \/ Rest
  BY <1>0, <1>5 DEF BeginRun, Executor, WriteResult, WriteFacts, ValidateWriterHandoff,
                    Route, Rest, vars
<1> QED
  BY <1>1, <1>2, <1>3, <1>4, <1>5 DEF Next

(* A re-selected candidate is prepared undisturbed: no step, not even of a *)
(* run-task T8 that passed its entry check before (prepare_t8_state checks *)
(* again), takes the workspace from before the wait into T8.               *)
THEOREM ReselectionKept == Spec => ReselectionNotOvertaken
<1>1. HInv /\ [Next]_vars => [NotOvertaken]_vars
  BY StepNotOvertaken
<1>2. [NotOvertaken]_vars <=> [yaml.at \in BeforeWait => yaml'.at \notin T8]_vars
  BY DEF NotOvertaken
<1> QED
  BY <1>1, <1>2, HandoffInvariant, PTL DEF Spec, ReselectionNotOvertaken

-----------------------------------------------------------------------------
(* What is accepted is one whole real run; a later one is no longer it.    *)
Holding == {"normalise", "published", "compare"} \cup DOMAIN After
Accepted(a) ==
    /\ a = [result |-> a.result, facts |-> a.result]
    /\ a.result \in Contents /\ a.result.kind = "real" /\ a.result.run <= exec.run
    /\ exec.pc = "run" => a.result.run < exec.run
    /\ ws.result = a.result => ws.facts = a.result

(* Files read after an acceptance differ from it only once it is over.     *)
ReadAfter(a, d) == d # a => ws.result # a.result

Executed ==
    /\ exec.pc \in {"facts", "validate"} \/ ws.validation # None =>
        /\ ws.result \in Contents
        /\ ws.result.kind = "real" =>
             ws.result.run <= exec.run /\ (exec.pc = "run" => ws.result.run < exec.run)
    /\ exec.pc = "validate" /\ ws.result.kind = "real" => ws.facts = ws.result
    /\ ws.validation # None /\ ws.validation.result.kind = "real" =>
         ws.validation = [result |-> ws.validation.result, facts |-> ws.validation.result]
    /\ proc["skill"].pc # "down" => exec.pc = "idle"

Held ==
    /\ \A p \in Sessions :
        /\ proc[p].pc \in Holding => Accepted(proc[p].acc)
        /\ proc[p].pc \in DOMAIN After => ReadAfter(proc[p].acc, proc[p].data)
    /\ \A d \in DOMAIN After : ws.drafts[d] # None =>
        Accepted(ws.drafts[d].acc) /\ ReadAfter(ws.drafts[d].acc, ws.drafts[d].data)

(* Once a session compares, its acceptance is only joined by the same data. *)
Undisturbed ==
    \A p \in Sessions : proc[p].pc = "compare" =>
        /\ \A d \in DOMAIN After : ws.drafts[d] # None /\ ws.drafts[d].acc = proc[p].acc =>
             ws.drafts[d].data = proc[p].acc
        /\ \A q \in Sessions : proc[q].acc = proc[p].acc =>
             /\ proc[q].pc = "normalise" => Core = proc[p].acc
             /\ proc[q].pc \in DOMAIN After => proc[q].data = proc[p].acc

EInv == HInv /\ Executed /\ Held /\ Undisturbed /\ NoTornEvidence

EvidenceSame ==
    /\ ws'.result = ws.result /\ ws'.facts = ws.facts
    /\ ws'.validation = ws.validation /\ ws'.drafts = ws.drafts

(* What a step must respect that accepts, reads or drafts nothing.         *)
LEMMA EvidenceFrame ==
    ASSUME EInv, HInv', Executed', ws'.drafts = ws.drafts, used' = used,
           \A a : Accepted(a) =>
                    Accepted(a)' /\ (ws.result # a.result => ws'.result # a.result),
           Core' = Core \/ \E s \in Sessions : proc'[s].pc \notin {"compare", "normalise"},
           \A p \in Sessions : proc'[p].pc \in Holding =>
                /\ proc'[p].pc = proc[p].pc
                /\ proc'[p].acc = proc[p].acc /\ proc'[p].data = proc[p].data
    PROVE  EInv'
<1>1. DOMAIN After \subseteq Holding /\ "compare" \in Holding /\ "normalise" \in Holding
  BY DEF Holding
<1>2. Held'
  BY <1>1 DEF EInv, Held, ReadAfter
<1>3. Undisturbed'
  <2> SUFFICES ASSUME NEW p \in Sessions, proc'[p].pc = "compare"
               PROVE  /\ \A d \in DOMAIN After :
                            ws'.drafts[d] # None /\ ws'.drafts[d].acc = proc'[p].acc =>
                              ws'.drafts[d].data = proc'[p].acc
                      /\ \A q \in Sessions : proc'[q].acc = proc'[p].acc =>
                            /\ proc'[q].pc = "normalise" => Core' = proc'[p].acc
                            /\ proc'[q].pc \in DOMAIN After => proc'[q].data = proc'[p].acc
    BY DEF Undisturbed
  <2>1. proc[p].pc = "compare" /\ proc'[p].acc = proc[p].acc
    BY <1>1
  <2>2. \A d \in DOMAIN After :
            ws'.drafts[d] # None /\ ws'.drafts[d].acc = proc'[p].acc =>
              ws'.drafts[d].data = proc'[p].acc
    BY <2>1 DEF EInv, Undisturbed
  <2>3. ASSUME NEW q \in Sessions, proc'[q].acc = proc'[p].acc, proc'[q].pc \in DOMAIN After
        PROVE  proc'[q].data = proc'[p].acc
    BY <1>1, <2>1, <2>3 DEF EInv, Undisturbed
  <2>4. ASSUME NEW q \in Sessions, proc'[q].acc = proc'[p].acc, proc'[q].pc = "normalise"
        PROVE  Core' = proc'[p].acc
    <3>1. Core = proc[p].acc
      BY <1>1, <2>1, <2>4 DEF EInv, Undisturbed
    <3>2. q # p
      BY <2>4
    <3>3. \A s \in Sessions : s = p \/ s = q
      BY <3>2 DEF Sessions
    <3>4. Core' = Core
      BY <2>4, <3>3
    <3> QED
      BY <2>1, <3>1, <3>4
  <2> QED
    BY <2>2, <2>3, <2>4
<1>4. NoTornEvidence'
  BY DEF EInv, NoTornEvidence
<1> QED
  BY <1>2, <1>3, <1>4 DEF EInv

(* A step of a session that ends where it holds no acceptance.             *)
LEMMA QuietInv ==
    ASSUME EInv, HInv', EvidenceSame, exec' = exec, used' = used,
           NEW p \in Sessions, Only(p), proc'[p].pc \notin Holding,
           p = "shell" \/ proc[p].pc # "down"
    PROVE  EInv'
<1>1. Core' = Core /\ \A a : Accepted(a)' <=> Accepted(a)
  BY DEF EvidenceSame, Core, Accepted
<1>2. Executed'
  BY DEF EInv, Executed, EvidenceSame, Only, Sessions
<1>3. \A q \in Sessions : q = p \/ proc'[q] = proc[q]
  BY DEF Only
<1> QED
  BY <1>1, <1>2, <1>3, EvidenceFrame DEF EvidenceSame

(* The same, from what the steps of a session come to.                     *)
LEMMA MoveQuiet ==
    ASSUME EInv, HInv', EvidenceSame, exec' = exec, used' = used,
           NEW p \in Sessions, proc[p].pc # "down", proc[p].mem # None,
           \/ \E t \in Tasks : Advance(p, t)
           \/ \E l \in {"down", "panel"} : Park(p, l)
           \/ \E l \in Pcs \ Holding : Goto(p, l)
    PROVE  EInv'
<1>1. "save" \notin Holding /\ "down" \notin Holding /\ "panel" \notin Holding
  BY DEF Holding, After
<1> QED
  BY <1>1, QuietInv, AdvanceFacts, ParkFacts, GotoFacts DEF EInv, HInv

LEMMA CloseQuiet ==
    ASSUME EInv, HInv', EvidenceSame, exec' = exec, used' = used,
           NEW p \in Sessions, proc[p].pc # "down",
           NEW l \in {"down", "load"}, proc' = [proc EXCEPT ![p] = [Closed EXCEPT !.pc = l]]
    PROVE  EInv'
<1>1. l \notin Holding
  BY DEF Holding, After
<1> QED
  BY <1>1, QuietInv, ClosedFacts DEF EInv, HInv

LEMMA NotAcceptedQuiet ==
    ASSUME EInv, HInv', UNCHANGED <<ws, exec, used>>, NEW p \in Sessions,
           proc[p].pc # "down", NotAccepted(p)
    PROVE  EInv'
<1>1. EvidenceSame
  BY DEF EvidenceSame
<1>2. CASE proc[p].mem = None
  <2>1. proc' = [proc EXCEPT ![p] = [Closed EXCEPT !.pc = "down"]]
    BY <1>2 DEF NotAccepted, Closed
  <2> QED
    BY <1>1, <2>1, CloseQuiet
<1>3. CASE proc[p].mem # None
  BY <1>1, <1>3, MoveQuiet DEF NotAccepted
<1> QED
  BY <1>2, <1>3

(* Compiling a handoff does not touch the evidence.                        *)
LEMMA CompileQuiet == ASSUME EInv, HInv', NEW p \in Sessions, Compile(p) PROVE EInv'
<1> DEFINE Inside == Compiling \cup {"revoke", "undo", "failed"}
<1>1. ws \in Files /\ Typed /\ proc \in [Sessions -> Procs]
  BY DEF EInv, HInv, Typed
<1>2. Inside \cap Holding = {} /\ Inside \subseteq Pcs /\ "down" \notin Inside /\ "step" \notin Inside
  BY DEF Holding, After, Compiling, Pcs
<1>3. ASSUME proc[p].pc \in Inside
      PROVE  p = "shell" /\ proc[p].mem # None /\ proc[p].pc # "down"
  BY <1>2, <1>3, CompilerFacts DEF EInv
<1>4. ASSUME proc[p].pc \in Inside, EvidenceSame, exec' = exec, used' = used, Only(p),
             proc'[p].pc \in Inside
      PROVE  EInv'
  BY <1>2, <1>3, <1>4, QuietInv
<1>5. CASE Reboost(p)
  <2>1. /\ proc[p].pc = "step" /\ proc[p].mem # None /\ EvidenceSame
        /\ exec' = exec /\ used' = used
    BY <1>5, HasTask DEF Reboost, Task, At, Waiting, After, EInv, EvidenceSame
  <2>2. \E l \in Pcs \ Holding : Goto(p, l)
    BY <1>2, <1>5 DEF Reboost, Compiling
  <2> QED
    BY <2>1, <2>2, MoveQuiet
<1>6. CASE Block(p) \/ Revoke(p)
  <2>1. PICK l \in {"remove", "undo"} :
            /\ ws' = [ws EXCEPT !.pack = [status |-> "blocked", of |-> 0]]
            /\ proc' = [proc EXCEPT ![p].pc = l, ![p].todo = Controls]
            /\ exec' = exec /\ used' = used /\ proc[p].pc \in Inside
    BY <1>6 DEF Block, Revoke, At, Compiling
  <2>2. EvidenceSame
    BY <1>1, <2>1 DEF EvidenceSame, Files
  <2>3. Only(p) /\ proc'[p].pc = l
    BY <1>1, <2>1 DEF Only, Procs
  <2> QED
    BY <1>4, <2>1, <2>2, <2>3 DEF Compiling
<1>7. CASE Remove(p) \/ Publish(p) \/ Undo(p)
  <2>1. PICK c \in Controls, v \in Nat, l \in Inside : Each(p, c, v, l)
    BY <1>1, <1>7 DEF Remove, Publish, Undo, Compiling, Files
  <2>2. proc[p].pc \in Inside /\ exec' = exec /\ used' = used
    BY <1>7 DEF Remove, Publish, Undo, At, Compiling
  <2>3. EvidenceSame
    BY <1>1, <2>1 DEF Each, EvidenceSame, Files
  <2>4. Only(p) /\ proc'[p].pc \in Inside
    BY <1>1, <1>2, <2>1, <2>2, EachFacts
  <2> QED
    BY <1>4, <2>2, <2>3, <2>4
<1>8. CASE Build(p)
  <2>1. /\ proc' = [proc EXCEPT ![p].pc = "publish", ![p].todo = Controls]
        /\ EvidenceSame /\ exec' = exec /\ used' = used /\ proc[p].pc \in Inside
    BY <1>8 DEF Build, At, Compiling, EvidenceSame
  <2>2. Only(p) /\ proc'[p].pc = "publish"
    BY <1>1, <2>1 DEF Only, Procs
  <2> QED
    BY <1>4, <2>1, <2>2 DEF Compiling
<1>9. CASE Commit(p) \/ CompileFailed(p)
  <2>1. proc[p].pc \in Inside /\ exec' = exec /\ used' = used
    BY <1>9 DEF Commit, CompileFailed, At, Compiling
  <2>2. EvidenceSame
    BY <1>1, <1>9 DEF Commit, CompileFailed, EvidenceSame, Files
  <2>3. (\E t \in Tasks : Advance(p, t)) \/ Park(p, "down")
    BY <1>9 DEF Commit, CompileFailed, Tasks, BeforeWait
  <2> QED
    BY <1>3, <2>1, <2>2, <2>3, MoveQuiet
<1> QED
  BY <1>5, <1>6, <1>7, <1>8, <1>9 DEF Compile

(* Nor does anything else a session does before and beside the ingest.     *)
LEMMA BesideQuiet ==
    ASSUME EInv, HInv', NEW p \in Sessions,
           \/ Save(p) \/ Select(p) \/ ExecutorGate(p) \/ StyleGate(p) \/ WriteUp(p)
           \/ Resume(p) \/ Check(p) \/ Leave(p) \/ Refused(p) \/ Raise(p) \/ Crash(p)
    PROVE  EInv'
<1>1. ws \in Files /\ Typed
  BY DEF EInv, HInv, Typed
<1>2. EvidenceSame /\ exec' = exec /\ used' = used
  BY <1>1 DEF Save, Select, ExecutorGate, Choose, StyleGate, WriteUp, Resume, Check, Leave,
              Refused, Raise, Crash, EvidenceSame, Files
<1>3. CASE Resume(p)
  <2>1. p = "shell" \/ proc[p].pc # "down"
    BY <1>3 DEF Resume, At
  <2>2. Only(p) /\ proc'[p].pc \in {"panel", "step"}
    BY <1>1, <1>3, LoadFacts DEF Resume
  <2> QED
    BY <1>2, <2>1, <2>2, QuietInv DEF Holding, After
<1>4. CASE WriteUp(p) \/ Crash(p)
  <2>1. proc[p].pc # "down" /\ proc' = [proc EXCEPT ![p] = [Closed EXCEPT !.pc = "down"]]
    BY <1>4 DEF WriteUp, Crash, Task, At, Closed
  <2> QED
    BY <1>2, <2>1, CloseQuiet
<1>5. ASSUME proc[p].pc \in Compiling \cup {"step", "save", "panel"}
      PROVE  proc[p].pc # "down" /\ proc[p].mem # None
  BY <1>5, HasTask DEF EInv, Waiting, After, Compiling
<1>6. CASE Save(p) \/ Raise(p)
  <2>1. \E l \in Pcs \ Holding : Goto(p, l)
    BY <1>6 DEF Save, Raise, Pcs, Holding, After
  <2> QED
    BY <1>2, <1>5, <1>6, <2>1, MoveQuiet DEF Save, Raise, At
<1>7. CASE Select(p) \/ ExecutorGate(p) \/ StyleGate(p) \/ Check(p)
  <2>1. \E t \in Tasks : Advance(p, t)
    BY <1>7 DEF Select, ExecutorGate, Choose, StyleGate, Check, Tasks, BeforeWait, T8
  <2> QED
    BY <1>2, <1>5, <1>7, <2>1, MoveQuiet
    DEF Select, ExecutorGate, Choose, StyleGate, Check, Task, At
<1>8. CASE Leave(p) \/ Refused(p)
  <2>1. Park(p, "down") /\ proc[p].pc \in Compiling \cup {"panel"}
    BY <1>8 DEF Leave, Refused, At, Compiling
  <2> QED
    BY <1>2, <1>5, <2>1, MoveQuiet
<1> QED
  BY <1>3, <1>4, <1>6, <1>7, <1>8

(* A rehearsal replaces the results by mock ones, which nobody accepts.    *)
LEMMA DryRunKeeps == ASSUME EInv, HInv', NEW p \in Sessions, DryRun(p) PROVE EInv'
<1>1. /\ ws \in Files /\ Typed /\ proc[p].pc = "step" /\ proc[p].mem # None
      /\ Advance(p, "T5-EXECUTOR-GATE") /\ exec' = exec /\ used' = used
  BY HasTask DEF EInv, HInv, Typed, DryRun, Task, At, Waiting, After
<1>2. /\ ws'.result = [run |-> 0, of |-> ws.contract, kind |-> "mock"]
      /\ ws'.facts = ws.facts /\ ws'.validation = ws.validation /\ ws'.drafts = ws.drafts
  BY <1>1 DEF DryRun, Files
<1>3. Only(p) /\ proc'[p].pc = "save"
  BY <1>1, AdvanceFacts DEF Tasks, BeforeWait
<1>4. ws'.result \in Contents /\ ws'.result.kind = "mock"
  BY <1>1, <1>2 DEF Contents, Files
<1>5. ASSUME NEW a, Accepted(a) PROVE Accepted(a)' /\ ws'.result # a.result
  BY <1>1, <1>4, <1>5 DEF Accepted
<1>6. Executed'
  BY <1>1, <1>2, <1>3, <1>4 DEF EInv, Executed, Only, Sessions
<1>7. proc'[p].pc \notin Holding /\ \A q \in Sessions : q = p \/ proc'[q] = proc[q]
  BY <1>3 DEF Only, Holding, After
<1> QED
  BY <1>1, <1>2, <1>3, <1>5, <1>6, <1>7, EvidenceFrame

(* The checks of an ingest that end it, or go on without reading.          *)
LEMMA EndsQuiet ==
    ASSUME EInv, HInv', NEW p \in Sessions,
           \/ Entry(p) \/ Recheck(p) \/ Prepare(p)
           \/ Validate(p) /\ ~Acceptable
           \/ Resource(p) /\ ~Acceptable
           \/ Compare(p) /\ ~Ingested(proc[p].acc)
    PROVE  EInv'
<1>1. UNCHANGED <<ws, exec, used>> /\ EvidenceSame /\ proc[p].pc # "down"
  BY DEF Entry, Recheck, Prepare, Validate, Resource, Compare, Task, At, EvidenceSame
<1>2. CASE NotAccepted(p)
  BY <1>1, <1>2, NotAcceptedQuiet
<1>3. CASE Entry(p) /\ Goto(p, "validate")
  <2>1. "validate" \in Pcs \ Holding
    BY DEF Pcs, Waiting, Holding, After
  <2>2. Only(p) /\ proc'[p].pc = "validate"
    BY <1>3, <2>1, GotoFacts DEF EInv, HInv
  <2> QED
    BY <1>1, <2>1, <2>2, QuietInv
<1>4. CASE Recheck(p) /\ Advance(p, "T8-STYLE-GATE")
  BY <1>1, <1>4, MoveQuiet DEF Recheck, Tasks, T8
<1>5. CASE Prepare(p) /\ Authorized
  BY <1>1, <1>5, CloseQuiet DEF Prepare
<1>6. CASE (Resource(p) \/ Compare(p)) /\ Park(p, "down")
  <2>1. proc[p].mem # None
    BY <1>6, HasTask DEF EInv, Resource, Compare, Task, At, Waiting, After
  <2> QED
    BY <1>1, <1>6, <2>1, MoveQuiet
<1> QED
  BY <1>2, <1>3, <1>4, <1>5, <1>6 DEF Entry, Recheck, Prepare, Validate, Resource, Compare

(* What is acceptable now is one whole real run.                           *)
LEMMA AcceptableNow == ASSUME EInv, Acceptable PROVE Accepted(Core)
BY DEF EInv, Executed, Acceptable, Accepted, Core

(* An acceptance is joined by no other data as long as it stands.          *)
LEMMA AcceptInv ==
    ASSUME EInv, HInv', NEW p \in Sessions, Acceptable, Validate(p) \/ Resource(p)
    PROVE  EInv'
<1>1. /\ UNCHANGED <<ws, exec, used>> /\ proc[p].pc # "down"
      /\ \E l \in {"normalise", "compare"} :
            proc' = [proc EXCEPT ![p].pc = l, ![p].acc = Core]
  BY DEF Validate, Resource, Task, At
<1>2. PICK l \in {"normalise", "compare"} : proc' = [proc EXCEPT ![p].pc = l, ![p].acc = Core]
  BY <1>1
<1>3. /\ proc'[p].pc = l /\ proc'[p].acc = Core /\ proc'[p].data = proc[p].data
      /\ \A q \in Sessions : q = p \/ proc'[q] = proc[q]
  BY <1>2 DEF EInv, HInv, Typed, Procs
<1>4. Core' = Core /\ \A a : Accepted(a)' <=> Accepted(a)
  BY <1>1 DEF Core, Accepted
<1>5. l \in Holding /\ l \notin DOMAIN After /\ DOMAIN After \subseteq Holding
      /\ "compare" \in Holding /\ "normalise" \in Holding /\ "normalise" \notin DOMAIN After
  BY DEF Holding, After
<1>6. Accepted(Core)
  BY AcceptableNow
<1>7. Executed'
  BY <1>1, <1>3 DEF EInv, Executed, Sessions
<1>8. Held'
  BY <1>1, <1>3, <1>4, <1>5, <1>6 DEF EInv, Held, ReadAfter
<1>9. Undisturbed'
  <2>1. Core = [result |-> ws.result, facts |-> ws.facts] /\ Core.result = ws.result
    BY DEF Core
  <2> SUFFICES ASSUME NEW q \in Sessions, proc'[q].pc = "compare"
               PROVE  /\ \A d \in DOMAIN After :
                            ws.drafts[d] # None /\ ws.drafts[d].acc = proc'[q].acc =>
                              ws.drafts[d].data = proc'[q].acc
                      /\ \A s \in Sessions : proc'[s].acc = proc'[q].acc =>
                            /\ proc'[s].pc = "normalise" => Core = proc'[q].acc
                            /\ proc'[s].pc \in DOMAIN After => proc'[s].data = proc'[q].acc
    BY <1>1, <1>4 DEF Undisturbed
  <2>2. CASE q = p
    <3>1. proc'[q].acc = Core
      BY <1>3, <2>2
    <3>2. \A d \in DOMAIN After :
             ws.drafts[d] # None /\ ws.drafts[d].acc = Core => ws.drafts[d].data = Core
      BY <2>1 DEF EInv, Held, ReadAfter
    <3>3. ASSUME NEW s \in Sessions, proc'[s].acc = Core, proc'[s].pc \in DOMAIN After
          PROVE  proc'[s].data = Core
      <4>1. s # p /\ proc'[s] = proc[s]
        BY <1>3, <1>5, <3>3
      <4> QED
        BY <2>1, <3>3, <4>1 DEF EInv, Held, ReadAfter
    <3> QED
      BY <3>1, <3>2, <3>3
  <2>3. CASE q # p
    <3>1. proc'[q] = proc[q]
      BY <1>3, <2>3
    <3>2. ASSUME NEW s \in Sessions, proc'[s].acc = proc[q].acc
          PROVE  /\ proc'[s].pc = "normalise" => Core = proc[q].acc
                 /\ proc'[s].pc \in DOMAIN After => proc'[s].data = proc[q].acc
      <4>1. CASE s = p
        BY <1>3, <1>5, <3>2, <4>1
      <4>2. CASE s # p
        BY <1>3, <3>1, <3>2, <4>2 DEF EInv, Undisturbed
      <4> QED
        BY <4>1, <4>2
    <3> QED
      BY <3>1, <3>2 DEF EInv, Undisturbed
  <2> QED
    BY <2>2, <2>3
<1>10. NoTornEvidence'
  BY <1>1 DEF EInv, NoTornEvidence
<1> QED
  BY <1>7, <1>8, <1>9, <1>10 DEF EInv

(* The files are read once more, after the acceptance.                     *)
LEMMA NormaliseReads == ASSUME EInv, HInv', NEW p \in Sessions, Normalise(p) PROVE EInv'
<1>1. /\ UNCHANGED <<ws, exec, used>> /\ proc[p].pc = "normalise"
      /\ proc' = [proc EXCEPT ![p].pc = "receipt", ![p].data = Core]
  BY DEF Normalise, At
<1>2. /\ proc'[p].pc = "receipt" /\ proc'[p].acc = proc[p].acc /\ proc'[p].data = Core
      /\ \A q \in Sessions : q = p \/ proc'[q] = proc[q]
  BY <1>1 DEF EInv, HInv, Typed, Procs
<1>3. Core' = Core /\ \A a : Accepted(a)' <=> Accepted(a)
  BY <1>1 DEF Core, Accepted
<1>4. "normalise" \in Holding /\ "receipt" \in DOMAIN After /\ DOMAIN After \subseteq Holding
      /\ "compare" \in Holding /\ "compare" \notin DOMAIN After
  BY DEF Holding, After
<1>5. Accepted(proc[p].acc)
  BY <1>1, <1>4 DEF EInv, Held
<1>6. ReadAfter(proc[p].acc, Core)
  BY <1>5 DEF Accepted, ReadAfter, Core
<1>7. Executed'
  BY <1>1, <1>2 DEF EInv, Executed, Sessions
<1>8. Held'
  BY <1>1, <1>2, <1>3, <1>4, <1>5, <1>6 DEF EInv, Held, ReadAfter
<1>9. Undisturbed'
  <2> SUFFICES ASSUME NEW q \in Sessions, proc'[q].pc = "compare"
               PROVE  /\ \A d \in DOMAIN After :
                            ws.drafts[d] # None /\ ws.drafts[d].acc = proc'[q].acc =>
                              ws.drafts[d].data = proc'[q].acc
                      /\ \A s \in Sessions : proc'[s].acc = proc'[q].acc =>
                            /\ proc'[s].pc = "normalise" => Core = proc'[q].acc
                            /\ proc'[s].pc \in DOMAIN After => proc'[s].data = proc'[q].acc
    BY <1>1, <1>3 DEF Undisturbed
  <2>1. proc'[q] = proc[q]
    BY <1>2
  <2>2. proc[p].acc = proc[q].acc => Core = proc[q].acc
    BY <1>1, <2>1 DEF EInv, Undisturbed
  <2>3. ASSUME NEW s \in Sessions, proc'[s].acc = proc[q].acc
        PROVE  /\ proc'[s].pc = "normalise" => Core = proc[q].acc
               /\ proc'[s].pc \in DOMAIN After => proc'[s].data = proc[q].acc
    <3>1. CASE s = p
      BY <1>2, <2>2, <2>3, <3>1
    <3>2. CASE s # p
      BY <1>2, <2>1, <2>3, <3>2 DEF EInv, Undisturbed
    <3> QED
      BY <3>1, <3>2
  <2> QED
    BY <2>1, <2>3 DEF EInv, Undisturbed
<1>10. NoTornEvidence'
  BY <1>1 DEF EInv, NoTornEvidence
<1> QED
  BY <1>7, <1>8, <1>9, <1>10 DEF EInv

(* A draft pairs the acceptance of its session with what it read.          *)
LEMMA DraftWritten == ASSUME EInv, HInv', NEW p \in Sessions, WriteDraft(p) PROVE EInv'
<1> DEFINE k == proc[p].pc
           draft == [acc |-> proc[p].acc, data |-> proc[p].data]
<1>1. /\ k \in DOMAIN After /\ UNCHANGED <<exec, used>>
      /\ ws' = [ws EXCEPT !.drafts[k] = draft] /\ Goto(p, After[k])
  BY DEF WriteDraft
<1>2. /\ ws'.result = ws.result /\ ws'.facts = ws.facts /\ ws'.validation = ws.validation
      /\ ws'.drafts[k] = draft
      /\ \A d \in DOMAIN After : d = k \/ ws'.drafts[d] = ws.drafts[d]
  BY <1>1 DEF EInv, HInv, Typed, Files, After
<1>3. /\ After[k] \in {"evidence", "claims", "published"} /\ After[k] \in Holding
      /\ After[k] # "compare" /\ After[k] # "normalise" /\ k # "down"
      /\ DOMAIN After \subseteq Holding /\ k \in Holding
  BY <1>1 DEF After, Holding
<1>4. /\ proc'[p].pc = After[k] /\ proc'[p].acc = proc[p].acc /\ proc'[p].data = proc[p].data
      /\ \A q \in Sessions : q = p \/ proc'[q] = proc[q]
  BY <1>1 DEF EInv, HInv, Typed, Procs, Goto
<1>5. Core' = Core /\ \A a : Accepted(a)' <=> Accepted(a)
  BY <1>1, <1>2 DEF Core, Accepted
<1>6. Accepted(proc[p].acc) /\ ReadAfter(proc[p].acc, proc[p].data)
  BY <1>1, <1>3 DEF EInv, Held
<1>7. Executed'
  BY <1>1, <1>2, <1>3, <1>4 DEF EInv, Executed, Sessions
<1>8. Held'
  <2>1. \A q \in Sessions :
          /\ proc'[q].pc \in Holding => Accepted(proc'[q].acc)
          /\ proc'[q].pc \in DOMAIN After => ReadAfter(proc'[q].acc, proc'[q].data)
    BY <1>4, <1>6 DEF EInv, Held
  <2>2. \A d \in DOMAIN After : ws'.drafts[d] # None =>
          Accepted(ws'.drafts[d].acc) /\ ReadAfter(ws'.drafts[d].acc, ws'.drafts[d].data)
    <3>1. draft.acc = proc[p].acc /\ draft.data = proc[p].data
      OBVIOUS
    <3> QED
      BY <1>2, <1>6, <3>1 DEF EInv, Held
  <2> QED
    BY <1>2, <1>5, <2>1, <2>2 DEF Held, ReadAfter
<1>9. Undisturbed'
  <2> SUFFICES ASSUME NEW q \in Sessions, proc'[q].pc = "compare"
               PROVE  /\ \A d \in DOMAIN After :
                            ws'.drafts[d] # None /\ ws'.drafts[d].acc = proc'[q].acc =>
                              ws'.drafts[d].data = proc'[q].acc
                      /\ \A s \in Sessions : proc'[s].acc = proc'[q].acc =>
                            /\ proc'[s].pc = "normalise" => Core = proc'[q].acc
                            /\ proc'[s].pc \in DOMAIN After => proc'[s].data = proc'[q].acc
    BY <1>5 DEF Undisturbed
  <2>1. proc'[q] = proc[q] /\ q # p
    BY <1>3, <1>4
  <2>2. proc[p].acc = proc[q].acc => proc[p].data = proc[q].acc
    BY <1>1, <2>1 DEF EInv, Undisturbed
  <2>3. \A d \in DOMAIN After : ws'.drafts[d] # None /\ ws'.drafts[d].acc = proc[q].acc =>
                              ws'.drafts[d].data = proc[q].acc
    <3>1. draft.acc = proc[p].acc /\ draft.data = proc[p].data
      OBVIOUS
    <3> QED
      BY <1>2, <2>1, <2>2, <3>1 DEF EInv, Undisturbed
  <2>4. ASSUME NEW s \in Sessions, proc'[s].acc = proc[q].acc
        PROVE  /\ proc'[s].pc = "normalise" => Core = proc[q].acc
               /\ proc'[s].pc \in DOMAIN After => proc'[s].data = proc[q].acc
    <3>1. CASE s = p
      BY <1>3, <1>4, <2>2, <2>4, <3>1
    <3>2. CASE s # p
      BY <1>4, <2>1, <2>4, <3>2 DEF EInv, Undisturbed
    <3> QED
      BY <3>1, <3>2
  <2> QED
    BY <2>1, <2>3, <2>4
<1>10. NoTornEvidence'
  BY <1>1 DEF EInv, NoTornEvidence
<1> QED
  BY <1>7, <1>8, <1>9, <1>10 DEF EInv

(* T8 indexes drafts that are the acceptance it has just made.             *)
LEMMA IndexInv ==
    ASSUME EInv, HInv', NEW p \in Sessions, Compare(p), Ingested(proc[p].acc)
    PROVE  EInv'
<1>1. /\ proc[p].pc = "compare" /\ UNCHANGED <<ws, exec>> /\ Advance(p, "T8-WRITE")
      /\ used' = [drafts |-> ws.drafts, for |-> ws.contract]
      /\ proc[p].mem # None /\ ws \in Files
  BY HasTask DEF Compare, At, EInv, HInv, Typed, Waiting, After
<1>2. Only(p) /\ proc'[p].pc = "save"
  BY <1>1, AdvanceFacts DEF EInv, HInv, Tasks, T8
<1>3. "save" \notin Holding /\ DOMAIN After \subseteq Holding /\ "compare" \in Holding
      /\ "normalise" \in Holding /\ DOMAIN After = DOMAIN ws.drafts /\ "receipt" \in DOMAIN After
  BY <1>1 DEF Holding, After, Files
<1>4. \A q \in Sessions : q = p \/ proc'[q] = proc[q]
  BY <1>2 DEF Only
<1>5. Accepted(proc[p].acc)
  BY <1>1, <1>3 DEF EInv, Held
<1>6. Core = proc[p].acc /\ \A d \in DOMAIN After : ws.drafts[d] = [acc |-> proc[p].acc, data |-> proc[p].acc]
  <2>1. /\ ws.drafts["receipt"] # None /\ ws.drafts["receipt"].acc = proc[p].acc
        /\ ws.drafts["receipt"].data = Core
        /\ \A d \in DOMAIN After : ws.drafts[d] = [acc |-> proc[p].acc, data |-> Core]
    BY <1>3 DEF Ingested
  <2>2. Core = proc[p].acc
    BY <1>1, <1>3, <2>1 DEF EInv, Undisturbed
  <2> QED
    BY <2>1, <2>2
<1>7. Core' = Core /\ \A a : Accepted(a)' <=> Accepted(a)
  BY <1>1 DEF Core, Accepted
<1>8. Executed'
  BY <1>1, <1>2, <1>4 DEF EInv, Executed, Sessions
<1>9. Held'
  BY <1>1, <1>2, <1>3, <1>4, <1>7 DEF EInv, Held, ReadAfter
<1>10. Undisturbed'
  BY <1>1, <1>2, <1>3, <1>4, <1>7 DEF EInv, Undisturbed
<1>11. NoTornEvidence'
  <2> DEFINE a == proc[p].acc
  <2>1. /\ used'.drafts = ws.drafts /\ a = [result |-> a.result, facts |-> a.result]
        /\ a.result.kind = "real"
    BY <1>1, <1>5 DEF Accepted
  <2>2. used'.drafts["receipt"].acc.result = a.result
    BY <1>3, <1>6, <2>1
  <2>3. \A d \in DOMAIN used'.drafts : used'.drafts[d] = [acc |-> a, data |-> a]
    BY <1>3, <1>6, <2>1
  <2> QED
    BY <2>1, <2>2, <2>3 DEF NoTornEvidence
<1> QED
  BY <1>8, <1>9, <1>10, <1>11 DEF EInv

-----------------------------------------------------------------------------
(* The executor writes a run's files one after the other.                  *)

LEMMA RunBegun == ASSUME EInv, HInv', BeginRun PROVE EInv'
<1>1. /\ ws' = ws /\ proc' = proc /\ used' = used /\ exec.pc = "idle"
      /\ exec' = [pc |-> "run", run |-> exec.run + 1, of |-> ws.pack.of]
      /\ proc["skill"].pc = "down" /\ exec.run \in Nat
  BY DEF BeginRun, At, EInv, HInv, Typed
<1>2. Executed'
  BY <1>1 DEF EInv, Executed, Contents
<1>3. ASSUME NEW a, Accepted(a) PROVE Accepted(a)'
  BY <1>1, <1>3 DEF Accepted, Contents
<1>4. Core' = Core
  BY <1>1 DEF Core
<1> QED
  BY <1>1, <1>2, <1>3, <1>4, EvidenceFrame

LEMMA ResultWritten == ASSUME EInv, HInv', WriteResult PROVE EInv'
<1>1. PICK kind \in {"real", "failed"} :
        ws' = [ws EXCEPT !.result = [run |-> exec.run, of |-> exec.of, kind |-> kind]]
  BY DEF WriteResult
<1>2. /\ proc' = proc /\ used' = used /\ exec.pc = "run" /\ exec' = [exec EXCEPT !.pc = "facts"]
      /\ exec.run \in Nat /\ exec.of \in Nat /\ ws \in Files
      /\ exec'.pc = "facts" /\ exec'.run = exec.run
  BY DEF WriteResult, EInv, HInv, Typed
<1>3. /\ ws'.result = [run |-> exec.run, of |-> exec.of, kind |-> kind]
      /\ ws'.facts = ws.facts /\ ws'.validation = ws.validation /\ ws'.drafts = ws.drafts
  BY <1>1, <1>2 DEF Files
<1>4. ws'.result \in Contents /\ ws'.result.run = exec.run
  BY <1>2, <1>3 DEF Contents
<1>5. proc["skill"].pc = "down" /\ "skill" \in Sessions
  BY <1>2 DEF EInv, Executed, Sessions
<1>6. ASSUME NEW a, Accepted(a) PROVE Accepted(a)' /\ ws'.result # a.result
  <2>1. a.result.run < exec.run /\ a.result.run \in Nat
    BY <1>2, <1>6 DEF Accepted, Contents
  <2>2. ws'.result # a.result
    BY <1>2, <1>4, <2>1
  <2> QED
    BY <1>2, <1>6, <2>2 DEF Accepted
<1>7. Executed'
  BY <1>2, <1>3, <1>4, <1>5 DEF EInv, Executed
<1> QED
  BY <1>2, <1>3, <1>5, <1>6, <1>7, EvidenceFrame

LEMMA FactsWritten == ASSUME EInv, HInv', WriteFacts PROVE EInv'
<1>1. /\ proc' = proc /\ used' = used /\ exec.pc = "facts" /\ ws \in Files
      /\ exec'.pc = "validate" /\ exec'.run = exec.run
  BY DEF WriteFacts, EInv, HInv, Typed
<1>2. /\ ws'.result = ws.result /\ ws'.facts = ws.result
      /\ ws'.validation = ws.validation /\ ws'.drafts = ws.drafts
  BY <1>1 DEF WriteFacts, Files
<1>3. proc["skill"].pc = "down" /\ "skill" \in Sessions
  BY <1>1 DEF EInv, Executed, Sessions
<1>4. ASSUME NEW a, Accepted(a)
      PROVE  Accepted(a)' /\ (ws.result # a.result => ws'.result # a.result)
  BY <1>1, <1>2, <1>4 DEF Accepted
<1>5. Executed'
  BY <1>1, <1>2, <1>3 DEF EInv, Executed
<1> QED
  BY <1>1, <1>2, <1>3, <1>4, <1>5, EvidenceFrame

LEMMA ValidationWritten == ASSUME EInv, HInv', ValidateWriterHandoff PROVE EInv'
<1>1. /\ proc' = proc /\ used' = used /\ exec.pc = "validate" /\ ws \in Files
      /\ exec'.pc = "route" /\ exec'.run = exec.run
  BY DEF ValidateWriterHandoff, EInv, HInv, Typed
<1>2. /\ ws'.result = ws.result /\ ws'.facts = ws.facts
      /\ ws'.validation = Core /\ ws'.drafts = ws.drafts
  BY <1>1 DEF ValidateWriterHandoff, Files
<1>3. proc["skill"].pc = "down"
  BY <1>1 DEF EInv, Executed
<1>4. Core' = Core /\ \A a : Accepted(a) => Accepted(a)'
  BY <1>1, <1>2 DEF Core, Accepted
<1>5. Executed'
  BY <1>1, <1>2, <1>3 DEF EInv, Executed, Core
<1> QED
  BY <1>1, <1>2, <1>4, <1>5, EvidenceFrame

LEMMA Routed == ASSUME EInv, HInv', Route PROVE EInv'
<1>1. /\ UNCHANGED <<ws, used>> /\ exec.pc = "route"
      /\ exec'.pc = "idle" /\ exec'.run = exec.run
  BY DEF Route, EInv, HInv, Typed
<1>2. proc' = proc \/ proc' = [proc EXCEPT !["skill"].pc = "entry"]
  BY DEF Route
<1>3. \A p \in Sessions : proc'[p].pc \in Holding =>
         proc'[p].pc = proc[p].pc /\ proc'[p].acc = proc[p].acc /\ proc'[p].data = proc[p].data
  BY <1>2 DEF EInv, HInv, Typed, Procs, Sessions, Holding, After
<1>4. Core' = Core /\ \A a : Accepted(a) => Accepted(a)'
  BY <1>1 DEF Core, Accepted
<1>5. Executed'
  BY <1>1 DEF EInv, Executed
<1> QED
  BY <1>1, <1>3, <1>4, <1>5, EvidenceFrame

LEMMA EvidenceStarts == ASSUME Init, HInv PROVE EInv
<1>1. /\ \A p \in Sessions : proc[p].pc = "down"
      /\ ws.validation = None /\ exec.pc = "idle" /\ used = None
      /\ \A d \in DOMAIN After : ws.drafts[d] = None
  BY DEF Init, Closed, After
<1>2. "skill" \in Sessions /\ "down" \notin Holding /\ "down" \notin DOMAIN After
  BY DEF Sessions, Holding, After
<1> QED
  BY <1>1, <1>2 DEF EInv, Executed, Held, Undisturbed, NoTornEvidence

LEMMA EvidenceStep == ASSUME EInv, HInv', [Next]_vars PROVE EInv'
<1>1. CASE \/ UNCHANGED vars \/ Reselect \/ Reingest \/ Rest
  <2>1. UNCHANGED <<ws, proc, exec, used>>
    BY <1>1 DEF vars, Reselect, Reingest, Rest
  <2>2. Core' = Core /\ \A a : Accepted(a) => Accepted(a)'
    BY <2>1 DEF Core, Accepted
  <2>3. Executed'
    BY <2>1 DEF EInv, Executed
  <2> QED
    BY <2>1, <2>2, <2>3, EvidenceFrame
<1>2. ASSUME NEW p \in Sessions, Session(p) PROVE EInv'
  BY <1>2, CompileQuiet, BesideQuiet, DryRunKeeps, EndsQuiet, AcceptInv, NormaliseReads,
     DraftWritten, IndexInv DEF Session, Accept
<1>3. ASSUME NEW p \in Sessions,
             Resume(p) \/ Check(p) \/ Leave(p) \/ Refused(p) \/ Raise(p) \/ Crash(p)
      PROVE  EInv'
  BY <1>3, BesideQuiet
<1>4. CASE BeginRun \/ Executor
  BY <1>4, RunBegun, ResultWritten, FactsWritten, ValidationWritten, Routed DEF Executor
<1> QED
  BY <1>1, <1>2, <1>3, <1>4 DEF Next

(* What T8 is written from comes from one real run, read once, however many *)
(* sessions ingest at the same time and whatever is executed beside them   *)
(* (validate_t8_ingest_artifacts at T8-RESOURCE).                          *)
THEOREM EvidenceIsWhole == Spec => []NoTornEvidence
<1>1. Init => EInv
  BY HInit, EvidenceStarts
<1>2. EInv /\ [Next]_vars => EInv'
  BY HNext, EvidenceStep DEF EInv
<1>3. EInv => NoTornEvidence
  BY DEF EInv
<1> QED
  BY <1>1, <1>2, <1>3, PTL DEF Spec

-----------------------------------------------------------------------------
(* How far a session can go without the researcher.                        *)

Resting == {"down", "panel"}

(* The tasks in the order a session can take them; it goes back only by a  *)
(* choice the environment makes once.                                      *)
Place(t) ==
    CASE t = "T4-GATE1" -> 1
      [] t = "T5-REBOOST-GATE" -> 2
      [] t = "T5-DRY-RUN" -> 3
      [] t = "T5-EXECUTOR-GATE" -> 4
      [] t = "T5-EXTERNAL-WAIT" -> 5
      [] t = "T8-STYLE-GATE" -> 6
      [] t = "T8-RESOURCE" -> 7
      [] OTHER -> 8
Rank(m) == IF m = None THEN 0 ELSE Place(m.at)

(* The steps inside a task, in the order they are taken.                   *)
Stage ==
    [save |-> 0, step |-> 1, entry |-> 1, block |-> 2, validate |-> 2, compare |-> 2,
     remove |-> 3, normalise |-> 3, build |-> 4, receipt |-> 4, publish |-> 5, evidence |-> 5,
     commit |-> 6, claims |-> 6, published |-> 7, revoke |-> 7, undo |-> 8, load |-> 8,
     failed |-> 9]

(* An event is used up, or the session is further on.                      *)
Further(p) ==
    LET s == proc[p]
        n == proc'[p]
    IN  \/ spent' # spent
        \/ Rank(s.mem) < Rank(n.mem)
        \/ Rank(s.mem) = Rank(n.mem) /\ Stage[s.pc] < Stage[n.pc]
        \/ /\ Rank(s.mem) = Rank(n.mem) /\ n.pc = s.pc
           /\ n.todo # s.todo /\ n.todo \subseteq s.todo

(* The researcher's session is opened by the researcher; run-task T8 is    *)
(* started by the last step of an executor run.                            *)
Opened(p) ==
    \/ p = "shell" /\ proc'[p].pc \in {"step", "panel"} /\ NoSecondSession
    \/ p = "skill" /\ proc'[p].pc = "entry" /\ exec.pc = "route" /\ exec'.pc = "idle"

Turn == [run |-> 0, facts |-> 1, validate |-> 2, route |-> 3, idle |-> 4]

ComesToRest(p) ==
    \/ proc'[p].pc \in Resting
    \/ proc[p].pc = "panel" /\ proc'[p].pc = "save"
    \/ proc[p].pc = "down" /\ Opened(p)
    \/ proc[p].pc \notin Resting /\ Further(p)
RunGoesOn ==
    \/ exec'.run = exec.run + 1 /\ exec'.run <= Runs
    \/ exec'.run = exec.run /\ Turn[exec.pc] < Turn[exec'.pc]
OnlyForward ==
    /\ spent \subseteq spent' /\ spent' \subseteq spent \cup Events
    /\ \A p \in Sessions : proc'[p] # proc[p] => ComesToRest(p)
    /\ exec' # exec => RunGoesOn

LEMMA OneMoves ==
    ASSUME NEW p \in Sessions, Only(p), ComesToRest(p)
    PROVE  \A q \in Sessions : proc'[q] # proc[q] => ComesToRest(q)
BY DEF Only

(* To a later step of the same task.                                       *)
LEMMA LaterStep ==
    ASSUME HInv, NEW p \in Sessions, NEW l \in DOMAIN Stage,
           proc[p].pc \in DOMAIN Stage, Stage[proc[p].pc] < Stage[l],
           Only(p), proc'[p].pc = l, proc'[p].mem = proc[p].mem
    PROVE  Only(p) /\ ComesToRest(p)
<1>1. proc[p].pc \notin Resting
  BY DEF Resting, Stage
<1> QED
  BY <1>1 DEF ComesToRest, Further

(* To a later task, or to any task when an event is used up.               *)
LEMMA LaterTask ==
    ASSUME HInv, NEW p \in Sessions, proc[p].mem # None, NEW t \in Tasks, Advance(p, t),
           proc[p].pc \notin Resting,
           spent' # spent \/ Place(proc[p].mem.at) < Place(t)
    PROVE  Only(p) /\ ComesToRest(p)
<1>1. Only(p) /\ proc'[p].mem # None /\ proc'[p].mem.at = t
  BY AdvanceFacts DEF HInv
<1>2. Rank(proc[p].mem) = Place(proc[p].mem.at) /\ Rank(proc'[p].mem) = Place(t)
  BY <1>1 DEF Rank
<1> QED
  BY <1>1, <1>2 DEF ComesToRest, Further

LEMMA EndsAtRest ==
    ASSUME HInv, NEW p \in Sessions,
           \/ NotAccepted(p)
           \/ proc[p].mem # None /\ Park(p, "down")
           \/ proc' = [proc EXCEPT ![p] = Closed]
    PROVE  Only(p) /\ ComesToRest(p)
<1>1. Closed = [Closed EXCEPT !.pc = "down"]
  BY DEF Closed
<1>2. CASE proc' = [proc EXCEPT ![p] = Closed]
  <2>1. Only(p) /\ proc'[p].pc = "down"
    BY <1>1, <1>2, ClosedFacts DEF HInv
  <2> QED
    BY <2>1 DEF ComesToRest, Resting
<1>3. ASSUME NEW l \in Resting, proc[p].mem # None, Park(p, l)
      PROVE  Only(p) /\ ComesToRest(p)
  <2>1. Only(p) /\ proc'[p].pc = l
    BY <1>3, ParkFacts DEF HInv, Resting
  <2> QED
    BY <2>1 DEF ComesToRest
<1>4. {"down", "panel"} \subseteq Resting
  BY DEF Resting
<1> QED
  BY <1>2, <1>3, <1>4 DEF NotAccepted

(* One file after the other.                                               *)
LEMMA NextFile ==
    ASSUME HInv, NEW p \in Sessions, NEW c \in Controls, NEW v \in Nat, NEW l \in DOMAIN Stage,
           Each(p, c, v, l), proc[p].pc \in DOMAIN Stage, Stage[proc[p].pc] < Stage[l]
    PROVE  Only(p) /\ ComesToRest(p)
<1>1. l \in Pcs /\ proc[p].pc \notin Resting
  BY DEF Stage, Pcs, Waiting, Compiling, After, Resting
<1>2. /\ Only(p) /\ c \in proc[p].todo /\ proc'[p].mem = proc[p].mem
      /\ proc'[p].todo = proc[p].todo \ {c}
      /\ proc'[p].pc = IF proc[p].todo = {c} THEN l ELSE proc[p].pc
  BY <1>1, EachFacts DEF HInv
<1>3. proc'[p].todo # proc[p].todo /\ proc'[p].todo \subseteq proc[p].todo
  BY <1>2
<1>4. proc'[p].pc = l \/ proc'[p].pc = proc[p].pc
  BY <1>2
<1>5. Further(p)
  BY <1>2, <1>3, <1>4 DEF Further
<1> QED
  BY <1>1, <1>2, <1>5 DEF ComesToRest

LEMMA CompileForward ==
    ASSUME HInv, NEW p \in Sessions, Compile(p) PROVE Only(p) /\ ComesToRest(p)
<1>1. CASE Reboost(p)
  <2>1. proc[p].pc = "step" /\ proc[p].mem # None /\ proc[p].mem.at = "T5-REBOOST-GATE"
    BY <1>1, HasTask DEF Reboost, Task, At, Waiting, After
  <2>2. Only(p) /\ proc'[p].pc = "block" /\ proc'[p].mem = proc[p].mem
    BY <1>1, GotoFacts DEF HInv, Reboost, Pcs, Compiling
  <2> QED
    BY <2>1, <2>2, LaterStep DEF Stage
<1>2. CASE Block(p) \/ Build(p) \/ Revoke(p)
  <2>1. \E l \in {"remove", "publish", "undo"} :
          /\ proc[p].pc \in DOMAIN Stage /\ Stage[proc[p].pc] < Stage[l]
          /\ proc' = [proc EXCEPT ![p].pc = l, ![p].todo = Controls]
    BY <1>2 DEF Block, Build, Revoke, At, Stage
  <2>2. PICK l \in {"remove", "publish", "undo"} :
          /\ proc[p].pc \in DOMAIN Stage /\ Stage[proc[p].pc] < Stage[l]
          /\ proc' = [proc EXCEPT ![p].pc = l, ![p].todo = Controls]
    BY <2>1
  <2>3. Only(p) /\ proc'[p].pc = l /\ proc'[p].mem = proc[p].mem
    BY <2>2 DEF HInv, Typed, Procs, Only
  <2>4. l \in DOMAIN Stage
    BY DEF Stage
  <2> QED
    BY <2>2, <2>3, <2>4, LaterStep
<1>3. CASE Remove(p)
  <2>1. PICK c \in Controls : Each(p, c, 0, "build") /\ proc[p].pc = "remove"
    BY <1>3 DEF Remove, At
  <2> QED
    BY <2>1, NextFile DEF Stage
<1>4. CASE Publish(p)
  <2>1. PICK c \in Controls : Each(p, c, ws.contract, "commit") /\ proc[p].pc = "publish"
    BY <1>4 DEF Publish, At
  <2>2. ws.contract \in Nat
    BY DEF HInv, Typed, Files
  <2> QED
    BY <2>1, <2>2, NextFile DEF Stage
<1>5. CASE Undo(p)
  <2>1. PICK c \in Controls : Each(p, c, 0, "failed") /\ proc[p].pc = "undo"
    BY <1>5 DEF Undo, At
  <2> QED
    BY <2>1, NextFile DEF Stage
<1>6. CASE Commit(p)
  <2>1. /\ proc[p].pc = "commit" /\ proc[p].mem # None /\ proc[p].mem.at = "T5-REBOOST-GATE"
        /\ Advance(p, "T5-EXECUTOR-GATE")
    BY <1>6, HasTask DEF Commit, At, Waiting, After, Compiling
  <2>2. Place(proc[p].mem.at) < Place("T5-EXECUTOR-GATE")
    BY <2>1 DEF Place
  <2> QED
    BY <2>1, <2>2, LaterTask DEF Tasks, BeforeWait, Resting
<1>7. CASE CompileFailed(p)
  <2>1. Park(p, "down") /\ proc[p].mem # None
    BY <1>7, HasTask DEF CompileFailed, At, Waiting, After
  <2> QED
    BY <2>1, EndsAtRest
<1> QED
  BY <1>1, <1>2, <1>3, <1>4, <1>5, <1>6, <1>7 DEF Compile

LEMMA AcceptForward ==
    ASSUME HInv, NEW p \in Sessions, Accept(p) PROVE Only(p) /\ ComesToRest(p)
<1>1. CASE NotAccepted(p)
  BY <1>1, EndsAtRest
<1>2. CASE Entry(p) /\ Goto(p, "validate")
  <2>1. proc[p].pc \in {"step", "entry"}
    BY <1>2 DEF Entry, Task, At
  <2>2. Only(p) /\ proc'[p].pc = "validate" /\ proc'[p].mem = proc[p].mem
    BY <1>2, GotoFacts DEF HInv, Pcs, Waiting
  <2> QED
    BY <2>1, <2>2, LaterStep DEF Stage
<1>3. CASE Validate(p) /\ proc' = [proc EXCEPT ![p].pc = "normalise", ![p].acc = Core]
  <2>1. proc[p].pc = "validate" /\ Only(p) /\ proc'[p].pc = "normalise"
        /\ proc'[p].mem = proc[p].mem
    BY <1>3 DEF Validate, At, HInv, Typed, Procs, Only
  <2> QED
    BY <2>1, LaterStep DEF Stage
<1>4. CASE Normalise(p)
  <2>1. proc[p].pc = "normalise" /\ Only(p) /\ proc'[p].pc = "receipt"
        /\ proc'[p].mem = proc[p].mem
    BY <1>4 DEF Normalise, At, HInv, Typed, Procs, Only
  <2> QED
    BY <2>1, LaterStep DEF Stage
<1>5. CASE WriteDraft(p)
  <2>1. proc[p].pc \in DOMAIN After /\ Goto(p, After[proc[p].pc])
    BY <1>5 DEF WriteDraft
  <2>2. /\ After[proc[p].pc] \in Pcs /\ After[proc[p].pc] \in DOMAIN Stage
        /\ proc[p].pc \in DOMAIN Stage /\ Stage[proc[p].pc] < Stage[After[proc[p].pc]]
    BY <2>1 DEF After, Pcs, Waiting, Stage
  <2>3. /\ Only(p) /\ proc'[p].pc = After[proc[p].pc] /\ proc'[p].mem = proc[p].mem
    BY <2>1, <2>2, GotoFacts DEF HInv
  <2> QED
    BY <2>2, <2>3, LaterStep
<1>6. CASE Recheck(p) /\ Advance(p, "T8-STYLE-GATE")
  <2>1. proc[p].pc = "published" /\ proc[p].mem # None /\ proc[p].mem.at = "T5-EXTERNAL-WAIT"
    BY <1>6 DEF Recheck, At, HInv, Placed, PlacedAt, Waiting
  <2>2. Place(proc[p].mem.at) < Place("T8-STYLE-GATE")
    BY <2>1 DEF Place
  <2> QED
    BY <1>6, <2>1, <2>2, LaterTask DEF Tasks, T8, Resting
<1>7. CASE Prepare(p) /\ Authorized
  <2>1. /\ proc[p].pc = "published" /\ proc[p].mem = None
        /\ proc' = [proc EXCEPT ![p] = [Closed EXCEPT !.pc = "load"]]
    BY <1>7 DEF Prepare, At
  <2>2. Only(p) /\ proc'[p].pc = "load" /\ proc'[p].mem = proc[p].mem
    BY <2>1, ClosedFacts DEF HInv
  <2> QED
    BY <2>1, <2>2, LaterStep DEF Stage
<1> QED
  BY <1>1, <1>2, <1>3, <1>4, <1>5, <1>6, <1>7 DEF Accept, Entry, Validate, Recheck, Prepare

LEMMA SessionForward ==
    ASSUME HInv, NEW p \in Sessions, Session(p) PROVE Only(p) /\ ComesToRest(p)
<1>1. CASE Save(p)
  <2>1. proc[p].pc = "save" /\ Only(p) /\ proc'[p].pc = "step" /\ proc'[p].mem = proc[p].mem
    BY <1>1, GotoFacts DEF Save, At, HInv, Pcs
  <2> QED
    BY <2>1, LaterStep DEF Stage
<1>2. ASSUME NEW t \in Tasks, NEW u \in Tasks, Task(p, t), Advance(p, u),
             spent' # spent \/ Place(t) < Place(u)
      PROVE  Only(p) /\ ComesToRest(p)
  <2>1. proc[p].pc = "step" /\ proc[p].mem # None /\ proc[p].mem.at = t
    BY <1>2, HasTask DEF Task, At, Waiting, After
  <2>2. spent' # spent \/ Place(proc[p].mem.at) < Place(u)
    BY <1>2, <2>1
  <2> QED
    BY <1>2, <2>1, <2>2, LaterTask DEF Resting
<1>3. CASE Select(p)
  BY <1>2, <1>3 DEF Select, Place, Tasks, BeforeWait
<1>4. CASE ExecutorGate(p)
  <2>1. PICK t \in {"T5-EXTERNAL-WAIT", "T5-DRY-RUN", "T5-REBOOST-GATE"} :
          /\ Task(p, "T5-EXECUTOR-GATE") /\ Advance(p, t)
          /\ t = "T5-EXTERNAL-WAIT" \/ Spend("dry") \/ Spend("revise")
    BY <1>4 DEF ExecutorGate, Choose
  <2>2. spent' # spent \/ Place("T5-EXECUTOR-GATE") < Place(t)
    BY <2>1 DEF Spend, Place
  <2>3. {"T5-EXECUTOR-GATE", "T5-EXTERNAL-WAIT", "T5-DRY-RUN", "T5-REBOOST-GATE"} \subseteq Tasks
    BY DEF Tasks, BeforeWait
  <2> QED
    BY <1>2, <2>1, <2>2, <2>3
<1>5. CASE DryRun(p)
  BY <1>2, <1>5 DEF DryRun, Place, Tasks, BeforeWait
<1>6. CASE StyleGate(p)
  BY <1>2, <1>6 DEF StyleGate, Place, Tasks, T8
<1>7. CASE Resource(p) \/ Compare(p)
  <2>1. proc[p].mem # None /\ proc[p].pc \in {"step", "compare"}
    BY <1>7, HasTask DEF Resource, Compare, Task, At, Waiting, After
  <2>2. CASE Park(p, "down")
    BY <2>1, <2>2, EndsAtRest
  <2>3. CASE Resource(p) /\ proc' = [proc EXCEPT ![p].pc = "compare", ![p].acc = Core]
    <3>1. proc[p].pc = "step" /\ Only(p) /\ proc'[p].pc = "compare"
          /\ proc'[p].mem = proc[p].mem
      BY <2>3 DEF Resource, Task, At, HInv, Typed, Procs, Only
    <3> QED
      BY <3>1, LaterStep DEF Stage
  <2>4. CASE Compare(p) /\ Advance(p, "T8-WRITE")
    <3>1. proc[p].mem.at = "T8-RESOURCE" /\ proc[p].pc = "compare"
      BY <2>4, HasTask DEF Compare, At, Waiting, After
    <3> QED
      BY <2>1, <2>4, <3>1, LaterTask DEF Place, Tasks, T8, Resting
  <2> QED
    BY <1>7, <2>2, <2>3, <2>4 DEF Resource, Compare
<1>8. CASE WriteUp(p)
  BY <1>8, EndsAtRest DEF WriteUp
<1> QED
  BY <1>1, <1>3, <1>4, <1>5, <1>6, <1>7, <1>8, CompileForward, AcceptForward DEF Session

(* The researcher's steps, and what befalls a session.                     *)
LEMMA BesideForward ==
    ASSUME HInv, NEW p \in Sessions,
           Resume(p) \/ Check(p) \/ Leave(p) \/ Refused(p) \/ Raise(p) \/ Crash(p)
    PROVE  Only(p) /\ ComesToRest(p)
<1>1. CASE Resume(p)
  <2>1. Only(p) /\ proc'[p].mem = yaml /\ proc'[p].pc \in {"panel", "step"}
    BY <1>1, LoadFacts DEF HInv, Resume
  <2>2. CASE p = "shell" /\ proc[p].pc = "down" /\ NoSecondSession
    BY <2>1, <2>2 DEF ComesToRest, Opened
  <2>3. CASE proc[p].pc = "load"
    <3>1. proc[p].mem = None /\ yaml # None /\ proc[p].pc \notin Resting
      BY <2>3, HandoffAssumption DEF HInv, Typed, Placed, PlacedAt, Resting
    <3>2. Rank(proc[p].mem) < Rank(proc'[p].mem)
      BY <2>1, <3>1 DEF Rank, Place
    <3> QED
      BY <2>1, <3>1, <3>2 DEF ComesToRest, Further
  <2> QED
    BY <1>1, <2>2, <2>3 DEF Resume, At
<1>2. CASE Check(p)
  <2>1. proc[p].pc = "panel" /\ proc[p].mem # None /\ Advance(p, "T5-EXTERNAL-WAIT")
    BY <1>2, HasTask DEF Check, At, Waiting, After
  <2>2. Only(p) /\ proc'[p].pc = "save"
    BY <2>1, AdvanceFacts DEF HInv, Tasks
  <2> QED
    BY <2>1, <2>2 DEF ComesToRest
<1>3. CASE Leave(p) \/ Refused(p)
  <2>1. proc[p].mem # None /\ Park(p, "down")
    BY <1>3, HasTask DEF Leave, Refused, At, Waiting, After
  <2> QED
    BY <2>1, EndsAtRest
<1>4. CASE Raise(p)
  <2>1. proc[p].pc \notin Resting /\ spent' # spent /\ Goto(p, "revoke")
    BY <1>4 DEF Raise, Spend, Compiling, Resting
  <2>2. Only(p)
    BY <2>1, GotoFacts DEF HInv, Pcs
  <2> QED
    BY <2>1, <2>2 DEF ComesToRest, Further
<1>5. CASE Crash(p)
  BY <1>5, EndsAtRest DEF Crash
<1> QED
  BY <1>1, <1>2, <1>3, <1>4, <1>5

(* The executor takes one file after the other and starts at most one      *)
(* session, at the end of its run.                                         *)
LEMMA ExecutorForward ==
    ASSUME HInv, BeginRun \/ Executor
    PROVE  /\ \A p \in Sessions : proc'[p] # proc[p] => ComesToRest(p)
           /\ RunGoesOn
<1>1. /\ exec \in [pc : {"idle", "run", "facts", "validate", "route"}, run : Nat, of : Nat]
      /\ proc \in [Sessions -> Procs]
  BY DEF HInv, Typed
<1>2. CASE BeginRun
  <2>1. proc' = proc /\ exec'.run = exec.run + 1 /\ exec.run < Runs
    BY <1>2 DEF BeginRun
  <2> QED
    BY <1>1, <2>1, HandoffAssumption DEF RunGoesOn
<1>3. CASE WriteResult \/ WriteFacts \/ ValidateWriterHandoff
  <2>1. proc' = proc /\ exec'.run = exec.run /\ Turn[exec.pc] < Turn[exec'.pc]
    BY <1>1, <1>3 DEF WriteResult, WriteFacts, ValidateWriterHandoff, Turn
  <2> QED
    BY <2>1 DEF RunGoesOn
<1>4. CASE Route
  <2>1. /\ exec.pc = "route" /\ exec' = [exec EXCEPT !.pc = "idle"]
        /\ \/ proc' = proc
           \/ proc["skill"].pc = "down" /\ proc' = [proc EXCEPT !["skill"].pc = "entry"]
    BY <1>4 DEF Route, At
  <2>2. exec'.pc = "idle" /\ exec'.run = exec.run
    BY <1>1, <2>1
  <2>3. RunGoesOn
    BY <2>1, <2>2 DEF RunGoesOn, Turn
  <2>4. ASSUME NEW p \in Sessions, proc'[p] # proc[p] PROVE ComesToRest(p)
    <3>1. p = "skill" /\ proc[p].pc = "down" /\ proc'[p].pc = "entry"
      BY <1>1, <2>1, <2>4 DEF Procs, Sessions
    <3> QED
      BY <2>1, <2>2, <3>1 DEF ComesToRest, Opened
  <2> QED
    BY <2>3, <2>4
<1> QED
  BY <1>2, <1>3, <1>4 DEF Executor

LEMMA EventsForward == ASSUME Next PROVE spent \subseteq spent' /\ spent' \subseteq spent \cup Events
<1>1. CASE \E e : Spend(e)
  BY <1>1 DEF Spend
<1>2. CASE spent' = spent
  BY <1>2
<1>3. ASSUME NEW p \in Sessions, Session(p) PROVE spent' = spent \/ \E e : Spend(e)
  BY <1>3 DEF Session, Compile, Accept, Save, Select, Reboost, Block, Remove, Build, Publish,
     Commit, Revoke, Undo, CompileFailed, ExecutorGate, Choose, DryRun, Entry, Validate,
     Normalise, WriteDraft, Recheck, Prepare, StyleGate, Resource, Compare, WriteUp
<1>4. ASSUME NEW p \in Sessions,
             Resume(p) \/ Check(p) \/ Leave(p) \/ Refused(p) \/ Raise(p) \/ Crash(p)
      PROVE  spent' = spent \/ \E e : Spend(e)
  BY <1>4 DEF Resume, Check, Leave, Refused, Raise, Crash
<1>5. CASE Reselect \/ Reingest \/ BeginRun \/ Executor \/ Rest
  BY <1>1, <1>2, <1>5 DEF Reselect, Reingest, BeginRun, Executor, WriteResult, WriteFacts,
     ValidateWriterHandoff, Route, Rest, vars
<1> QED
  BY <1>1, <1>2, <1>3, <1>4, <1>5 DEF Next

LEMMA StepOnlyForward == ASSUME HInv, Next PROVE OnlyForward
<1>1. ASSUME NEW p \in Sessions,
             \/ Session(p) \/ Resume(p) \/ Check(p) \/ Leave(p) \/ Refused(p)
             \/ Raise(p) \/ Crash(p)
      PROVE  /\ \A q \in Sessions : proc'[q] # proc[q] => ComesToRest(q)
             /\ exec' = exec
  <2>1. Only(p) /\ ComesToRest(p)
    BY <1>1, SessionForward, BesideForward
  <2>2. Session(p) => exec' = exec
    BY DEF Session, Compile, Accept, Save, Select, Reboost, Block, Remove, Build, Publish,
       Commit, Revoke, Undo, CompileFailed, ExecutorGate, Choose, DryRun, Entry, Validate,
       Normalise, WriteDraft, Recheck, Prepare, StyleGate, Resource, Compare, WriteUp
  <2>3. Resume(p) \/ Check(p) \/ Leave(p) \/ Refused(p) \/ Raise(p) \/ Crash(p) => exec' = exec
    BY DEF Resume, Check, Leave, Refused, Raise, Crash
  <2> QED
    BY <1>1, <2>1, <2>2, <2>3, OneMoves
<1>2. CASE Reselect \/ Reingest \/ Rest
  BY <1>2, EventsForward DEF Reselect, Reingest, Rest, vars, OnlyForward
<1>3. CASE BeginRun \/ Executor
  BY <1>3, EventsForward, ExecutorForward DEF OnlyForward
<1> QED
  BY <1>1, <1>2, <1>3, EventsForward DEF Next, OnlyForward

(* No session works for ever by itself.  From the moment the researcher    *)
(* opens one, or answers its panel, or an executor run starts run-task T8, *)
(* every step of it uses up an event of the environment, or takes it to a  *)
(* later task, to a later step of the same task, or to the next of the     *)
(* files of a compile, until it is down or waits at its panel again; an    *)
(* executor run takes one step after the other and starts run-task T8 at   *)
(* most once, in its last (the CLI's resume, handle_external_wait and      *)
(* route_next_skill).  Events are finite in number and each happens once.  *)
THEOREM SessionsComeToRest == Spec => [][OnlyForward]_vars
<1>1. HInv /\ [Next]_vars => [OnlyForward]_vars
  BY StepOnlyForward
<1> QED
  BY <1>1, HandoffInvariant, PTL DEF Spec
====
