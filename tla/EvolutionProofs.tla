---- MODULE EvolutionProofs ----
(***************************************************************************)
(* What T4 keeps across crashes, failures and rollbacks, for any routes,   *)
(* any operations and any number of faults.                                *)
(***************************************************************************)
EXTENDS EvolutionRun, FiniteSetTheorems, TLAPS

First == {"routes", "p0", "p0_state", "p0_marker", "formed"}
Making == {"population", "portfolio", "activate"}
Science == {"evolve", "reprofile", "rescore", "check", "marker"} \cup Making
Finishing == {"cards", "compiled", "project", "close"}
InT4 == {"begin", "receipt", "verify", "finish"} \cup First \cup Science \cup Finishing
Rolling == {"rollback_portfolio", "rollback_deck", "rollback_receipt", "rollback_view"}

Populated == [cfg : Nat, by : Ops \cup {None}]
Populations == UNION {[0 .. n - 1 -> Populated] : n \in Nat}
Numbers == Nat \cup {None}
Stores == [rounds : Nat, cfg : Nat, routes : [Routes -> {"none", "empty", "filled"}],
           pops : Populations, formed : BOOLEAN, closed : SUBSET Nat,
           state : [pop : Numbers, cfg : Nat], portfolio : Numbers,
           deck : [pop : Numbers, cfg : Nat, done : BOOLEAN],
           view : [pop : Numbers, fresh : BOOLEAN], receipt : Receipts]
Runs == [op : Ops \cup {None}, gen : Nat, last : Nat, left : SUBSET Routes,
         busy : SUBSET Routes, refused : BOOLEAN]

Typed ==
    /\ store \in Stores
    /\ yaml \in [at : {"T4", "gate1", "recovery", "past"}, op : Ops \cup {None}]
    /\ run \in Runs /\ asked \subseteq Ops /\ used \in [Budgets -> Nat] /\ made \in [Ops -> Nat]

(* What the files refer to exists, and they agree on the orientation.      *)
Referring ==
    /\ store.rounds \in RoundChoices
    /\ store.closed \subseteq Generations
    /\ {store.state.pop, store.portfolio, store.deck.pop, store.view.pop} \subseteq Generations \cup {None}
    /\ store.formed => 0 \in Generations
    /\ store.state.pop # None => store.state.cfg = store.pops[store.state.pop].cfg
    /\ store.deck.done => /\ store.deck.pop \in Generations
                          /\ store.deck.cfg = store.pops[store.deck.pop].cfg
    /\ store.view.fresh => store.view.pop = store.deck.pop
    /\ store.view.pop # None => Active # None
    /\ \A g \in Generations : store.pops[g].by \in asked \cup {None}

(* Until the first projection there is one orientation and no operation.   *)
Unprojected ==
    store.view.pop = None =>
        /\ yaml.op = None /\ yaml.at \in {"T4", "recovery"} /\ asked = {}
        /\ pc \notin {"gate", "over", "staged", "finish"} \cup Rolling
        /\ store.cfg = 0 /\ store.state.cfg = 0
        /\ \A g \in Generations : store.pops[g] = [cfg |-> 0, by |-> None]

(* The routes of P0: nobody generates a route that has candidates.         *)
Routed ==
    /\ run.busy \subseteq run.left /\ IsFiniteSet(run.busy) /\ Cardinality(run.busy) <= Width
    /\ pc = "routes" => \A r \in run.left : store.routes[r] # "filled"

(* Where the process is fits what it works on.                             *)
Operating ==
    /\ pc = "begin" => run = [NoRun EXCEPT !.op = yaml.op] /\ (run.op = None => ~Ready)
    /\ pc \in InT4 => run.op = yaml.op
    /\ pc \in First => run.op = None /\ run.gen = 0
    /\ pc \in First \cup Science /\ run.op = None => store.view.pop = None
    /\ pc \in Science /\ run.op # None =>
         /\ run.last = run.gen
         /\ Kind[run.op] \in CASE pc \in {"evolve", "reprofile", "rescore", "check"} -> {pc}
                               [] OTHER -> {"evolve", "reprofile"}
    /\ pc \in {"reprofile", "check"} => run.op # None
    /\ pc \in {"p0_state", "p0_marker"} => 0 \in Generations
    /\ pc = "formed" => store.formed

(* The population being made is a new one, or the same as before.          *)
Numbered ==
    /\ pc \in {"evolve", "reprofile", "population"} =>
         /\ run.gen > 0 /\ run.gen - 1 \in Generations
         /\ run.op # None => run.gen \notin Generations
         /\ run.op # None /\ Kind[run.op] = "evolve" => store.state.cfg = store.cfg
    /\ pc \in {"rescore", "portfolio", "activate"} => run.gen \in Generations
    /\ pc \in {"portfolio", "activate"} =>
         /\ store.pops[run.gen] = [cfg |-> store.cfg, by |-> run.op]
         /\ run.op # None => Active # run.gen /\ store.deck.pop # run.gen
    /\ pc = "activate" /\ run.op # None => store.portfolio = run.gen
    /\ pc = "rescore" /\ run.op # None => Active = run.gen /\ store.state.cfg = store.cfg
    /\ pc \in {"marker", "receipt"} \cup Finishing => Active = run.gen /\ store.state.cfg = store.cfg
    /\ pc \in {"compiled", "project"} => store.deck.pop = run.gen
    /\ pc \in Rolling => Active # None

(* state.yaml and the operation.                                           *)
Queued ==
    /\ yaml.op \in asked \cup {None}
    /\ yaml.at \in {"gate1", "past"} => yaml.op = None
    /\ pc \in {"gate", "over", "staged"} \cup Rolling => yaml.op = None
    /\ pc = "staged" => /\ run.op \in asked /\ Kind[run.op] = "reprofile"
                        /\ store.state.cfg # store.cfg
                        /\ \A g \in Generations : store.pops[g].by # run.op
    /\ yaml.op # None =>
         \/ CardsReady \/ store.portfolio # Active \/ ~InputsValid
         \/ store.pops[Active].by = yaml.op \/ Kind[yaml.op] = "rescore"

(* The receipt.                                                            *)
Binds(rc, o) == rc.by = o /\ rc.pop = Active /\ rc.status # "none"
NamedBy(rc) ==
    rc.by \in Ops => /\ rc.pop \in Generations
                     /\ Kind[rc.by] = "rescore" \/ store.pops[rc.pop].by = rc.by
Receipted ==
    /\ NamedBy(store.receipt)
    /\ pc \in {"marker", "receipt"} \cup Finishing /\ run.op # None =>
         Kind[run.op] = "rescore" \/ store.pops[Active].by = run.op
    /\ pc \in Finishing /\ run.op # None => Binds(store.receipt, run.op)

(* What has been made for the queued operation.                            *)
Honoured ==
    /\ \A o \in Ops : made[o] > 0 => o \in asked
    /\ yaml.op # None /\ Active # None =>
         (store.pops[Active].by = yaml.op => made[yaml.op] > 0)
    /\ pc \in {"marker", "verify", "finish"} /\ run.op # None =>
         made[run.op] > 0 \/ run.refused \/ Kind[run.op] \in {"check", "rescore"}
    /\ yaml.op # None /\ Kind[yaml.op] = "evolve" /\ made[yaml.op] > 0 =>
         /\ Active # None /\ store.pops[Active].by = yaml.op
         /\ \/ Binds(store.receipt, yaml.op)
            \/ ~CardsReady /\ InputsValid /\ store.portfolio = Active
         /\ pc \in Making \cup {"evolve"} => Binds(store.receipt, yaml.op)

Shown == pc \in {"gate", "over"} => Ready

VInv ==
    /\ Typed /\ Referring /\ Unprojected /\ Routed /\ Operating /\ Numbered
    /\ Queued /\ Receipted /\ Honoured /\ Shown

USE EvolutionAssumption

-----------------------------------------------------------------------------
(* Populations.                                                            *)

LEMMA PopulationsFacts ==
    ASSUME Typed
    PROVE  \E n \in Nat : Generations = 0 .. n - 1 /\ store.pops \in [0 .. n - 1 -> Populated]
BY DEF Typed, Stores, Populations, Generations

LEMMA GenerationFacts ==
    ASSUME Typed
    PROVE  /\ Generations \subseteq Nat
           /\ \A g \in Generations : store.pops[g] \in Populated
BY PopulationsFacts

(* A file more, or one replaced.                                           *)
LEMMA WriteFacts ==
    ASSUME Typed, NEW g \in Nat, NEW cfg \in Nat,
           g = 0 \/ g \in Generations \/ g - 1 \in Generations
    PROVE  /\ Write(g, cfg) \in Populations
           /\ DOMAIN Write(g, cfg) = Generations \cup {g}
           /\ Write(g, cfg)[g] = [cfg |-> cfg, by |-> run.op]
           /\ \A h \in Generations : h # g => Write(g, cfg)[h] = store.pops[h]
<1> DEFINE w == Write(g, cfg)
           new == [cfg |-> cfg, by |-> run.op]
<1>1. PICK n \in Nat : Generations = 0 .. n - 1 /\ store.pops \in [0 .. n - 1 -> Populated]
  BY PopulationsFacts
<1>2. new \in Populated
  BY DEF Typed, Runs, Populated
<1>3. w = [x \in {g} \cup Generations |-> IF x \in {g} THEN new ELSE store.pops[x]]
  BY DEF Write
<1>4. \E m \in Nat : {g} \cup Generations = 0 .. m - 1
  <2>1. CASE g \in Generations
    BY <1>1, <2>1
  <2>2. CASE g \notin Generations
    <3>1. g = n
      BY <1>1, <2>2
    <3>2. {g} \cup Generations = 0 .. (n + 1) - 1
      BY <1>1, <3>1
    <3> QED
      BY <3>2
  <2> QED
    BY <2>1, <2>2
<1>5. PICK m \in Nat : {g} \cup Generations = 0 .. m - 1
  BY <1>4
<1> HIDE DEF w, new
<1>6. w \in [0 .. m - 1 -> Populated]
  <2>1. w = [x \in 0 .. m - 1 |-> IF x \in {g} THEN new ELSE store.pops[x]]
    BY <1>3, <1>5
  <2>2. \A x \in 0 .. m - 1 : (IF x \in {g} THEN new ELSE store.pops[x]) \in Populated
    BY <1>1, <1>2, <1>5
  <2> QED
    BY <2>1, <2>2
<1>7. w \in Populations
  BY <1>6 DEF Populations
<1> QED
  BY <1>3, <1>7 DEF w, new

(* _next_available_generation                                              *)
LEMMA NextIsNew ==
    ASSUME Typed, Generations # {}
    PROVE  /\ NextGeneration \in Nat \ {0} /\ NextGeneration \notin Generations
           /\ NextGeneration - 1 \in Generations
<1>1. PICK n \in Nat : Generations = 0 .. n - 1
  BY PopulationsFacts
<1>2. n - 1 \in Generations /\ \A h \in Generations : h <= n - 1
  BY <1>1
<1>3. Newest \in Generations /\ \A h \in Generations : h <= Newest
  BY <1>2 DEF Newest
<1>4. Newest = n - 1
  BY <1>1, <1>2, <1>3
<1> QED
  BY <1>1, <1>2, <1>4 DEF NextGeneration

-----------------------------------------------------------------------------
(* The receipt.                                                            *)

(* What a reconciled receipt says is as true as what the old one said.     *)
LEMMA EnsuredFacts ==
    ASSUME VInv, NEW o \in Ops \cup {None}, o = yaml.op \/ o = None
    PROVE  /\ Ensured(o) \in Receipts /\ NamedBy(Ensured(o))
           /\ CardsReady => Ensured(o) = store.receipt
           /\ Binds(store.receipt, o) => Binds(Ensured(o), o)
           /\ ~CardsReady /\ InputsValid /\ store.portfolio = Active /\ o # None
                /\ Scored(Active) => Binds(Ensured(o), o)
<1>1. /\ Typed /\ NamedBy(store.receipt) /\ store.receipt \in Receipts
      /\ Active \in Generations \cup {None} /\ Active \in Numbers
  BY DEF VInv, Receipted, Referring, Typed, Stores, Active
<1>2. ~CardsReady /\ InputsValid /\ store.portfolio = Active /\ o # None =>
         Kind[o] = "rescore" \/ store.pops[Active].by = o
  BY DEF VInv, Queued
<1>3. CASE CardsReady
  BY <1>1, <1>3 DEF Ensured
<1>4. CASE ~CardsReady /\ Current(store.receipt, o)
  <2>1. Ensured(o) \in {store.receipt, [store.receipt EXCEPT !.status = "repair"]}
    BY <1>4 DEF Ensured
  <2>2. /\ Ensured(o) \in Receipts /\ Ensured(o).by = store.receipt.by
        /\ Ensured(o).pop = store.receipt.pop /\ Ensured(o).status # "none"
    BY <1>1, <1>4, <2>1 DEF Receipts, Current, Open
  <2>3. o # None => store.receipt.by = o /\ store.receipt.pop = Active
    BY <1>4 DEF Current
  <2> QED
    BY <1>1, <1>4, <2>2, <2>3 DEF NamedBy, Binds
<1>5. CASE ~CardsReady /\ ~Current(store.receipt, o)
  <2>1. ~Binds(store.receipt, o)
    BY <1>5 DEF Binds, Current
  <2>2. CASE InputsValid /\ store.portfolio = Active /\ Scored(Active)
    <3>1. Ensured(o) = [pop |-> Active, by |-> o, status |-> "pending"]
      BY <1>5, <2>2 DEF Ensured
    <3>2. Active \in Generations
      BY <1>1, <2>2 DEF InputsValid
    <3>3. Ensured(o) \in Receipts
      BY <1>1, <3>1 DEF Receipts, Numbers, Open
    <3> QED
      BY <1>2, <1>5, <2>1, <2>2, <3>1, <3>2, <3>3 DEF NamedBy, Binds
  <2>3. CASE ~(InputsValid /\ store.portfolio = Active /\ Scored(Active))
    BY <1>1, <1>5, <2>1, <2>3 DEF Ensured
  <2> QED
    BY <2>2, <2>3
<1> QED
  BY <1>3, <1>4, <1>5

-----------------------------------------------------------------------------
(* Steps that leave the store alone.                                       *)

LEMMA StoreKept ==
    ASSUME store' = store
    PROVE  /\ Active' = Active /\ Generations' = Generations
           /\ CardsReady' = CardsReady /\ InputsValid' = InputsValid /\ Ready' = Ready
           /\ \A rc, o : (Binds(rc, o)' <=> Binds(rc, o)) /\ (NamedBy(rc)' <=> NamedBy(rc))
BY DEF Active, Generations, CardsReady, InputsValid, Ready, ProjectionReady, Binds, NamedBy

(* A ready gate has a projection.                                          *)
LEMMA ReadyIsProjected == ASSUME Ready PROVE store.view.pop # None
BY DEF Ready, ProjectionReady

(* The runner between two agents, and a process that comes or goes.        *)
Yamls == [at : {"T4", "gate1", "recovery", "past"}, op : Ops \cup {None}]
Idle ==
    /\ UNCHANGED <<store, asked, made>> /\ used' \in [Budgets -> Nat]
    /\ yaml' \in Yamls /\ run' \in {run, NoRun}
    /\ yaml'.op = yaml.op \/ (yaml'.op = None /\ store.view.pop # None)
    /\ yaml'.at \in {"gate1", "past"} => yaml'.op = None /\ store.view.pop # None
    /\ pc' \in {"down", "step", "recovery", "gate", "over"}
    /\ pc' \in {"gate", "over"} => Ready /\ yaml'.op = None

LEMMA IdleInv == ASSUME VInv, Idle PROVE VInv'
<1> USE DEF Idle, Yamls
<1>1. /\ Typed /\ Referring /\ Unprojected /\ Routed /\ Queued /\ Receipted /\ Honoured
      /\ NoRun \in Runs
  BY DEF VInv, NoRun, Runs
<1>2. pc' \notin InT4 /\ pc' \notin First /\ pc' \notin Science /\ pc' \notin Finishing
      /\ pc' \notin Making /\ pc' \notin Rolling
  BY DEF InT4, First, Science, Finishing, Making, Rolling
<1>3. Typed'
  BY <1>1 DEF Typed
<1>4. Referring'
  BY <1>1, StoreKept DEF Referring
<1>5. Unprojected'
  <2> SUFFICES ASSUME store.view.pop = None PROVE Unprojected'
    BY DEF Unprojected
  <2>1. yaml'.op = None /\ yaml'.at \in {"T4", "recovery"} /\ pc' \notin {"gate", "over"}
    BY <1>1, ReadyIsProjected DEF Unprojected
  <2>2. pc' \notin {"gate", "over", "staged", "finish"} \cup Rolling
    BY <1>2, <2>1
  <2> QED
    BY <1>1, <2>1, <2>2, StoreKept DEF Unprojected
<1>6. Routed'
  <2>1. \/ run'.busy = run.busy /\ run'.left = run.left
        \/ run'.busy = {} /\ run'.left = {}
    BY DEF NoRun
  <2>2. store' = store /\ pc' # "routes"
    OBVIOUS
  <2> HIDE DEF Idle
  <2> QED
    BY <1>1, <2>1, <2>2, FS_EmptySet DEF Routed
<1>7. Operating' /\ Numbered'
  BY <1>2 DEF Operating, Numbered, First, Science, Making, Finishing, InT4
<1>8. Queued'
  BY <1>1, <1>2, StoreKept DEF Queued, Rolling
<1>9. Receipted'
  BY <1>1, <1>2, StoreKept DEF Receipted
<1>10. Honoured'
  BY <1>1, <1>2, StoreKept DEF Honoured
<1>11. Shown'
  BY StoreKept DEF Shown
<1> QED
  BY <1>3, <1>4, <1>5, <1>6, <1>7, <1>8, <1>9, <1>10, <1>11 DEF VInv

LEMMA SpendTyped ==
    ASSUME Typed, NEW b \in Budgets, Spend(b) PROVE used' \in [Budgets -> Nat]
BY DEF Typed, Spend

LEMMA RunnerIdle ==
    ASSUME VInv,
           \/ Resume \/ OpenGate1 \/ RecoveryResolved \/ RetryT4 \/ PauseRecovery
           \/ Crash \/ SelectCandidate \/ Finish
    PROVE  VInv'
<1> SUFFICES Idle
  BY IdleInv
<1>1. /\ Typed /\ yaml \in Yamls /\ used \in [Budgets -> Nat]
      /\ yaml.at \in {"gate1", "past"} => yaml.op = None /\ store.view.pop # None
      /\ pc = "gate" => Ready /\ yaml.op = None
      /\ pc = "finish" => store.view.pop # None
      /\ "crash" \in Budgets /\ "pause" \in Budgets
  <2>1. /\ Typed /\ Queued /\ Unprojected /\ Shown /\ Operating /\ Numbered /\ Receipted
    BY DEF VInv
  <2>2. yaml \in Yamls /\ used \in [Budgets -> Nat]
    BY <2>1 DEF Typed, Yamls
  <2>3. yaml.at \in {"gate1", "past"} => yaml.op = None /\ store.view.pop # None
    BY <2>1 DEF Queued, Unprojected
  <2>4. pc = "gate" => Ready /\ yaml.op = None
    BY <2>1 DEF Queued, Shown
  <2>5. pc = "finish" => store.view.pop # None
    BY <2>1 DEF Unprojected
  <2> QED
    BY <2>1, <2>2, <2>3, <2>4, <2>5 DEF Budgets
<1>2. Ready => store.view.pop # None
  BY ReadyIsProjected
<1>3. CASE Resume
  BY <1>1, <1>3 DEF Resume, Idle
<1>4. CASE OpenGate1
  <2>1. Ready /\ yaml' = [yaml EXCEPT !.at = "gate1"] /\ yaml.op = None
    BY <1>1, <1>4 DEF OpenGate1
  <2>2. yaml' \in Yamls /\ yaml'.op = None
    BY <1>1, <2>1 DEF Yamls
  <2> QED
    BY <1>1, <1>2, <1>4, <2>1, <2>2 DEF OpenGate1, Idle
<1>5. CASE RecoveryResolved \/ RetryT4
  BY <1>1, <1>5 DEF RecoveryResolved, RetryT4, Idle, Yamls
<1>6. CASE PauseRecovery
  <2>1. used' \in [Budgets -> Nat] /\ yaml' = [yaml EXCEPT !.at = "T4"]
    BY <1>1, <1>6, SpendTyped DEF PauseRecovery
  <2>2. yaml' \in Yamls /\ yaml'.op = yaml.op /\ yaml'.at = "T4"
    BY <1>1, <2>1 DEF Yamls
  <2> QED
    BY <1>6, <2>1, <2>2 DEF PauseRecovery, Idle
<1>7. CASE Crash
  <2>1. used' \in [Budgets -> Nat]
    BY <1>1, <1>7, SpendTyped DEF Crash
  <2> QED
    BY <1>1, <1>7, <2>1 DEF Crash, Idle
<1>8. CASE SelectCandidate
  <2>1. yaml' = [yaml EXCEPT !.at = "past"] /\ yaml.op = None /\ Ready
    BY <1>1, <1>8 DEF SelectCandidate
  <2>2. yaml' \in Yamls /\ yaml'.op = None
    BY <1>1, <2>1 DEF Yamls
  <2> QED
    BY <1>1, <1>2, <1>8, <2>1, <2>2 DEF SelectCandidate, Idle
<1>9. CASE Finish
  BY <1>1, <1>9 DEF Finish, Idle, Yamls
<1> QED
  BY <1>3, <1>4, <1>5, <1>6, <1>7, <1>8, <1>9

(***************************************************************************)
(* T4 stops: the recovery gate, with the receipt reconciled                *)
(***************************************************************************)

\* What a step that stops may have changed before: the deck and the view.
Stopped(st) ==
    /\ st = [store EXCEPT !.deck = st.deck, !.view = st.view]
    /\ st.deck \in [pop : Generations \cup {None}, cfg : Nat, done : BOOLEAN]
    /\ st.view \in [pop : Generations \cup {None}, fresh : BOOLEAN]
    /\ store.view.pop # None => st.view.pop # None
    /\ st.view.pop # None => Active # None
    /\ st.deck = store.deck \/ ~st.deck.done
    /\ st = store \/ (~st.view.fresh /\ (yaml.op = None \/ ~CardsReady))

LEMMA StopInv ==
    ASSUME VInv, NEW st, Stopped(st), StopWith(st, yaml.op),
           UNCHANGED <<asked, made>>, used' \in [Budgets -> Nat]
    PROVE  VInv'
<1> DEFINE o == yaml.op
           rc == Ensured(o)
<1>1. /\ Typed /\ Referring /\ Unprojected /\ Routed /\ Queued /\ Receipted /\ Honoured
      /\ NoRun \in Runs
  BY DEF VInv, NoRun, Runs
<1>2. /\ store' = [st EXCEPT !.receipt = rc] /\ yaml' = [at |-> "recovery", op |-> o]
      /\ pc' = "recovery" /\ run' = NoRun
  BY DEF StopWith
<1>3. /\ pc' \notin InT4 /\ pc' \notin First /\ pc' \notin Science /\ pc' \notin Finishing
      /\ pc' \notin Making /\ pc' \notin {"gate", "over", "staged", "finish"} \cup Rolling
  BY <1>2 DEF InT4, First, Science, Finishing, Making, Rolling
<1>4. /\ rc \in Receipts /\ NamedBy(rc) /\ o \in Ops \cup {None}
      /\ Binds(store.receipt, o) => Binds(rc, o)
      /\ ~CardsReady /\ InputsValid /\ store.portfolio = Active /\ o # None
           /\ Scored(Active) => Binds(rc, o)
  <2>1. o \in Ops \cup {None}
    BY <1>1 DEF Typed
  <2> QED
    BY <2>1, EnsuredFacts
<1> HIDE DEF rc
<1>5. store' = [store EXCEPT !.deck = st.deck, !.view = st.view, !.receipt = rc]
  BY <1>1, <1>2 DEF Stopped, Typed, Stores
<1>6. /\ store'.rounds = store.rounds /\ store'.cfg = store.cfg /\ store'.routes = store.routes
      /\ store'.pops = store.pops /\ store'.formed = store.formed /\ store'.closed = store.closed
      /\ store'.state = store.state /\ store'.portfolio = store.portfolio
      /\ store'.deck = st.deck /\ store'.view = st.view /\ store'.receipt = rc
  BY <1>1, <1>5 DEF Typed, Stores
<1>7. /\ Generations' = Generations /\ Active' = Active /\ InputsValid' = InputsValid
      /\ \A q : (NamedBy(q)' <=> NamedBy(q)) /\ (Binds(q, o)' <=> Binds(q, o))
      /\ Generations \subseteq Nat
  <2>1. Generations' = Generations /\ Active' = Active /\ InputsValid' = InputsValid
    BY <1>6 DEF Generations, Active, InputsValid
  <2>2. \A q : (NamedBy(q)' <=> NamedBy(q)) /\ (Binds(q, o)' <=> Binds(q, o))
    BY <1>2, <1>6, <2>1 DEF NamedBy, Binds
  <2> QED
    BY <1>1, <2>1, <2>2, GenerationFacts
<1>8. Typed'
  <2>1. store' \in Stores
    BY <1>1, <1>4, <1>5, <1>7 DEF Stopped, Typed, Stores, Numbers
  <2> QED
    BY <1>1, <1>2, <1>4, <2>1 DEF Typed
<1>9. Referring'
  BY <1>1, <1>6, <1>7 DEF Referring, Stopped
<1>10. Unprojected'
  BY <1>1, <1>2, <1>3, <1>6, <1>7 DEF Unprojected, Stopped
<1>11. Routed'
  BY <1>1, <1>2, FS_EmptySet DEF Routed, NoRun
<1>12. Operating' /\ Numbered' /\ Shown'
  BY <1>2, <1>3 DEF Operating, Numbered, Shown, First, Science, Making, Finishing
<1>13. Queued'
  <2>1. yaml.op # None /\ CardsReady => CardsReady'
    BY <1>6, <1>7 DEF Stopped, CardsReady
  <2> QED
    BY <1>1, <1>2, <1>3, <1>6, <1>7, <2>1 DEF Queued
<1>14. Receipted'
  BY <1>2, <1>3, <1>4, <1>6, <1>7 DEF Receipted
<1>15. Honoured'
  <2>1. yaml.op # None /\ Kind[yaml.op] = "evolve" /\ made[yaml.op] > 0 =>
           /\ Active # None /\ store.pops[Active].by = yaml.op
           /\ Binds(rc, o)
    BY <1>1, <1>4 DEF Honoured, Scored
  <2> QED
    BY <1>1, <1>2, <1>3, <1>6, <1>7, <2>1 DEF Honoured
<1> QED
  BY <1>8, <1>9, <1>10, <1>11, <1>12, <1>13, <1>14, <1>15 DEF VInv

-----------------------------------------------------------------------------
(* Steps of T4 that write no file.                                         *)

Places == InT4 \cup First \cup Science \cup Making \cup Finishing

LEMMA WalkInv ==
    ASSUME VInv, UNCHANGED <<store, yaml, asked, used, made>>, run' \in Runs, pc' \in InT4,
           pc' = "finish" => store.view.pop # None,
           Routed', Operating', Numbered', Receipted', Honoured'
    PROVE  VInv'
<1>1. Typed /\ Referring /\ Unprojected /\ Queued
  BY DEF VInv
<1>2. pc' \notin {"gate", "over", "staged"} \cup Rolling
  BY DEF InT4, First, Science, Making, Finishing, Rolling
<1>3. Typed'
  BY <1>1 DEF Typed
<1>4. Referring'
  BY <1>1, StoreKept DEF Referring
<1>5. Unprojected'
  BY <1>1, <1>2, StoreKept DEF Unprojected
<1>6. Queued'
  BY <1>1, <1>2, StoreKept DEF Queued
<1>7. Shown'
  BY <1>2 DEF Shown
<1> QED
  BY <1>3, <1>4, <1>5, <1>6, <1>7 DEF VInv

LEMMA WalkSteps ==
    ASSUME VInv, UNCHANGED <<store, yaml, asked, used, made>>,
           \/ StartT4 \/ \E r \in Routes : StartRoute(r)
           \/ (JoinRoutes /\ pc' = "p0") \/ AfterFormation \/ Evolve \/ Reprofile
           \/ Rescore \/ Check \/ Refuse \/ ReuseCards \/ (Verify /\ pc' = "finish")
    PROVE  VInv'
<1>1. /\ Typed /\ Referring /\ Unprojected /\ Routed /\ Operating /\ Numbered
      /\ Queued /\ Receipted /\ Honoured
      /\ run \in Runs /\ yaml.op \in Ops \cup {None}
  BY DEF VInv, Typed
<1> USE DEF InT4, First, Science, Making, Finishing, Rolling
<1> SUFFICES /\ run' \in Runs /\ pc' \in InT4 /\ (pc' = "finish" => store.view.pop # None)
             /\ Routed' /\ Operating' /\ Numbered' /\ Receipted' /\ Honoured'
  BY WalkInv
<1>2. CASE StartT4
  <2>1. run' \in Runs /\ pc' \in InT4 /\ (pc' = "finish" => store.view.pop # None)
    BY <1>1, <1>2 DEF StartT4, Runs, NoRun
  <2>2. Routed'
    <3>1. run'.busy = {} /\ run'.left = {}
      BY <1>2 DEF StartT4, NoRun
    <3>2. pc' # "routes"
      BY <1>2 DEF StartT4
    <3> QED
      BY <1>1, <3>1, <3>2, FS_EmptySet DEF Routed
  <2>3. Operating'
    BY <1>1, <1>2, StoreKept DEF StartT4, Operating, NoRun
  <2>4. Numbered'
    BY <1>1, <1>2, StoreKept DEF StartT4, Numbered, Operating, Runs
  <2>5. Receipted'
    BY <1>1, <1>2, StoreKept DEF StartT4, Receipted, Operating, Runs
  <2>6. Honoured'
    BY <1>1, <1>2, StoreKept DEF StartT4, Honoured, Operating, Runs
  <2> QED
    BY <2>1, <2>2, <2>3, <2>4, <2>5, <2>6
<1>3. CASE \E r \in Routes : StartRoute(r)
  <2>1. run' \in Runs /\ pc' \in InT4 /\ (pc' = "finish" => store.view.pop # None)
    BY <1>1, <1>3 DEF StartRoute, Runs, Operating, Unprojected
  <2>2. Routed'
    <3>1. PICK r \in run.left \ run.busy :
             /\ run'.busy = run.busy \cup {r} /\ run'.left = run.left
             /\ Cardinality(run.busy) < Width /\ pc = "routes"
      BY <1>1, <1>3 DEF StartRoute, Runs
    <3>2. IsFiniteSet(run.busy) /\ Cardinality(run.busy) \in Nat
      BY <1>1, FS_CardinalityType DEF Routed
    <3> DEFINE b == run.busy
    <3>3. IsFiniteSet(b \cup {r}) /\ Cardinality(b \cup {r}) = Cardinality(b) + 1
      <4>1. r \notin b /\ IsFiniteSet(b)
        BY <3>1, <3>2
      <4> HIDE DEF b
      <4> QED
        BY <4>1, FS_AddElement
    <3>4. Cardinality(run'.busy) <= Width
      BY <3>1, <3>2, <3>3
    <3> QED
      BY <1>1, <3>1, <3>3, <3>4 DEF Routed
  <2>3. Operating'
    BY <1>1, <1>3, StoreKept DEF StartRoute, Operating, Runs
  <2>4. Numbered'
    BY <1>1, <1>3, StoreKept DEF StartRoute, Numbered, Operating, Runs
  <2>5. Receipted'
    BY <1>1, <1>3, StoreKept DEF StartRoute, Receipted, Operating, Runs
  <2>6. Honoured'
    BY <1>1, <1>3, StoreKept DEF StartRoute, Honoured, Operating, Runs
  <2> QED
    BY <2>1, <2>2, <2>3, <2>4, <2>5, <2>6
<1> USE DEF Stop, StopWith
<1>4. CASE JoinRoutes /\ pc' = "p0"
  <2>1. run' \in Runs /\ pc' \in InT4 /\ (pc' = "finish" => store.view.pop # None)
    BY <1>1, <1>4 DEF JoinRoutes, Runs, Operating, Unprojected
  <2>2. Routed'
    BY <1>1, <1>4 DEF JoinRoutes, Routed
  <2>3. Operating'
    BY <1>1, <1>4, StoreKept DEF JoinRoutes, Operating, Runs
  <2>4. Numbered'
    BY <1>1, <1>4, StoreKept DEF JoinRoutes, Numbered, Operating, Runs
  <2>5. Receipted'
    BY <1>1, <1>4, StoreKept DEF JoinRoutes, Receipted, Operating, Runs
  <2>6. Honoured'
    BY <1>1, <1>4, StoreKept DEF JoinRoutes, Honoured, Operating, Runs
  <2> QED
    BY <2>1, <2>2, <2>3, <2>4, <2>5, <2>6
<1>5. CASE AfterFormation
  <2>1. run' \in Runs /\ pc' \in InT4 /\ (pc' = "finish" => store.view.pop # None)
    BY <1>1, <1>5 DEF AfterFormation, Runs, Operating, Unprojected
  <2>2. Routed'
    BY <1>1, <1>5 DEF AfterFormation, Routed, Runs
  <2>3. Operating'
    BY <1>1, <1>5, StoreKept DEF AfterFormation, Operating, Runs
  <2>4. Numbered'
    BY <1>1, <1>5, StoreKept DEF AfterFormation, Numbered, Operating, Referring, Runs
  <2>5. Receipted'
    BY <1>1, <1>5, StoreKept DEF AfterFormation, Receipted, Operating, Runs
  <2>6. Honoured'
    BY <1>1, <1>5, StoreKept DEF AfterFormation, Honoured, Operating, Runs
  <2> QED
    BY <2>1, <2>2, <2>3, <2>4, <2>5, <2>6
<1>6. CASE Evolve
  <2>1. run' \in Runs /\ pc' \in InT4 /\ (pc' = "finish" => store.view.pop # None)
    BY <1>1, <1>6 DEF Evolve, Runs, Operating, Unprojected
  <2>2. Routed'
    BY <1>1, <1>6 DEF Evolve, Routed
  <2>3. Operating'
    BY <1>1, <1>6, StoreKept DEF Evolve, Operating, Runs
  <2>4. Numbered'
    BY <1>1, <1>6, StoreKept DEF Evolve, Numbered, Operating, Referring, Unprojected, Runs
  <2>5. Receipted'
    BY <1>1, <1>6, StoreKept DEF Evolve, Receipted, Operating, Runs
  <2>6. Honoured'
    BY <1>1, <1>6, StoreKept DEF Evolve, Honoured, Operating, Runs
  <2> QED
    BY <2>1, <2>2, <2>3, <2>4, <2>5, <2>6
<1>7. CASE Reprofile
  <2>1. run' \in Runs /\ pc' \in InT4 /\ (pc' = "finish" => store.view.pop # None)
    BY <1>1, <1>7 DEF Reprofile, Runs, Operating, Unprojected
  <2>2. Routed'
    BY <1>1, <1>7 DEF Reprofile, Routed
  <2>3. Operating'
    BY <1>1, <1>7, StoreKept DEF Reprofile, Operating, Runs
  <2>4. Numbered'
    BY <1>1, <1>7, StoreKept DEF Reprofile, Numbered, Operating, Runs
  <2>5. Receipted'
    BY <1>1, <1>7, StoreKept DEF Reprofile, Receipted, Operating, Runs
  <2>6. Honoured'
    BY <1>1, <1>7, StoreKept DEF Reprofile, Honoured, Operating, Runs
  <2> QED
    BY <2>1, <2>2, <2>3, <2>4, <2>5, <2>6
<1>8. CASE Rescore
  <2>1. run' \in Runs /\ pc' \in InT4 /\ (pc' = "finish" => store.view.pop # None)
    BY <1>1, <1>8 DEF Rescore, Runs, Operating, Unprojected
  <2>2. Routed'
    BY <1>1, <1>8 DEF Rescore, Routed
  <2>3. Operating'
    BY <1>1, <1>8, StoreKept DEF Rescore, Operating, Runs
  <2>4. Numbered'
    BY <1>1, <1>8, StoreKept DEF Rescore, Numbered, Operating, Unprojected, Runs
  <2>5. Receipted'
    BY <1>1, <1>8, StoreKept DEF Rescore, Receipted, Operating, Runs
  <2>6. Honoured'
    BY <1>1, <1>8, StoreKept DEF Rescore, Honoured, Operating, Runs
  <2> QED
    BY <2>1, <2>2, <2>3, <2>4, <2>5, <2>6
<1>9. CASE Check
  <2>1. run' \in Runs /\ pc' \in InT4 /\ (pc' = "finish" => store.view.pop # None)
    BY <1>1, <1>9 DEF Check, Runs, Operating, Unprojected
  <2>2. Routed'
    BY <1>1, <1>9 DEF Check, Routed
  <2>3. Operating'
    BY <1>1, <1>9, StoreKept DEF Check, Operating, Runs
  <2>4. Numbered'
    BY <1>1, <1>9, StoreKept DEF Check, Numbered, Operating, Runs
  <2>5. Receipted'
    BY <1>1, <1>9, StoreKept DEF Check, Receipted, Operating, Runs
  <2>6. Honoured'
    BY <1>1, <1>9, StoreKept DEF Check, Honoured, Operating, Runs
  <2> QED
    BY <2>1, <2>2, <2>3, <2>4, <2>5, <2>6
<1>10. CASE Refuse
  <2>1. run' \in Runs /\ pc' \in InT4 /\ (pc' = "finish" => store.view.pop # None)
    BY <1>1, <1>10 DEF Refuse, Runs, Operating, Unprojected
  <2>2. Routed'
    BY <1>1, <1>10 DEF Refuse, Routed
  <2>3. Operating'
    BY <1>1, <1>10, StoreKept DEF Refuse, Operating, Runs
  <2>4. Numbered'
    BY <1>1, <1>10, StoreKept DEF Refuse, Numbered, Operating, Runs
  <2>5. Receipted'
    BY <1>1, <1>10, StoreKept DEF Refuse, Receipted, Operating, Runs
  <2>6. Honoured'
    BY <1>1, <1>10, StoreKept DEF Refuse, Honoured, Operating, Runs
  <2> QED
    BY <2>1, <2>2, <2>3, <2>4, <2>5, <2>6
<1>11. CASE ReuseCards
  <2>1. run' \in Runs /\ pc' \in InT4 /\ (pc' = "finish" => store.view.pop # None)
    BY <1>1, <1>11 DEF ReuseCards, Runs, Operating, Unprojected
  <2>2. Routed'
    BY <1>1, <1>11 DEF ReuseCards, Routed
  <2>3. Operating'
    BY <1>1, <1>11, StoreKept DEF ReuseCards, Operating, Runs
  <2>4. Numbered'
    BY <1>1, <1>11, StoreKept DEF ReuseCards, Numbered, Operating, CardsReady, Runs
  <2>5. Receipted'
    BY <1>1, <1>11, StoreKept DEF ReuseCards, Receipted, Operating, Runs
  <2>6. Honoured'
    BY <1>1, <1>11, StoreKept DEF ReuseCards, Honoured, Operating, Runs
  <2> QED
    BY <2>1, <2>2, <2>3, <2>4, <2>5, <2>6
<1>12. CASE Verify /\ pc' = "finish"
  <2>1. run' \in Runs /\ pc' \in InT4 /\ (pc' = "finish" => store.view.pop # None)
    BY <1>1, <1>12, ReadyIsProjected DEF Verify
  <2>2. Routed'
    BY <1>1, <1>12 DEF Verify, Routed
  <2>3. Operating'
    BY <1>1, <1>12, StoreKept DEF Verify, Operating, Runs
  <2>4. Numbered'
    BY <1>1, <1>12, StoreKept DEF Verify, Numbered, Operating, Runs
  <2>5. Receipted'
    BY <1>1, <1>12, StoreKept DEF Verify, Receipted, Operating, Runs
  <2>6. Honoured'
    BY <1>1, <1>12, StoreKept DEF Verify, Honoured, Operating, Runs
  <2> QED
    BY <2>1, <2>2, <2>3, <2>4, <2>5, <2>6
<1> QED
  BY <1>2, <1>3, <1>4, <1>5, <1>6, <1>7, <1>8, <1>9, <1>10, <1>11, <1>12
-----------------------------------------------------------------------------
(* Steps that stop.                                                        *)

LEMMA StopHere ==
    ASSUME VInv, StopWith(store, yaml.op), UNCHANGED <<asked, made>>, used' \in [Budgets -> Nat]
    PROVE  VInv'
<1>1. Typed /\ Referring
  BY DEF VInv
<1>2. store = [store EXCEPT !.deck = store.deck, !.view = store.view]
  BY <1>1 DEF Typed, Stores
<1>3. /\ store.deck \in [pop : Generations \cup {None}, cfg : Nat, done : BOOLEAN]
      /\ store.view \in [pop : Generations \cup {None}, fresh : BOOLEAN]
  BY <1>1 DEF Typed, Stores, Referring
<1>4. Stopped(store)
  BY <1>1, <1>2, <1>3 DEF Stopped, Referring
<1> QED
  BY <1>4, StopInv

LEMMA StopSteps ==
    ASSUME VInv,
           \/ (Stop /\ pc \in InT4 /\ UNCHANGED <<asked, made>> /\ used' \in [Budgets -> Nat])
           \/ ReopenRecovery \/ CardsFail \/ RollbackView
    PROVE  VInv'
<1>1. /\ Typed /\ Referring /\ Operating /\ Queued /\ Unprojected /\ Numbered
      /\ used \in [Budgets -> Nat] /\ store \in Stores /\ run \in Runs
  BY DEF VInv, Typed
<1>2. CASE Stop /\ pc \in InT4 /\ UNCHANGED <<asked, made>> /\ used' \in [Budgets -> Nat]
  <2>1. run.op = yaml.op
    BY <1>1, <1>2 DEF Operating
  <2>2. StopWith(store, yaml.op)
    BY <1>2, <2>1 DEF Stop
  <2> QED
    BY <1>2, <2>2, StopHere
<1>3. CASE ReopenRecovery
  BY <1>1, <1>3, StopHere DEF ReopenRecovery
<1>4. CASE CardsFail
  <2> DEFINE st == [store EXCEPT !.deck = [pop |-> run.gen, cfg |-> store.cfg, done |-> FALSE],
                                 !.view.fresh = FALSE]
  <2>1. /\ pc = "cards" /\ ~CardsReady /\ Spend("fault") /\ StopWith(st, run.op)
        /\ UNCHANGED <<asked, made>>
    BY <1>4 DEF CardsFail
  <2>2. run.op = yaml.op /\ Active = run.gen
    BY <1>1, <2>1 DEF Operating, Numbered, InT4, Finishing
  <2>3. used' \in [Budgets -> Nat]
    BY <1>1, <2>1, SpendTyped DEF Budgets
  <2>4. /\ st.deck = [pop |-> run.gen, cfg |-> store.cfg, done |-> FALSE]
        /\ st.view = [store.view EXCEPT !.fresh = FALSE]
        /\ st = [store EXCEPT !.deck = st.deck, !.view = st.view]
    BY <1>1 DEF Stores
  <2>5. run.gen \in Generations
    BY <1>1, <2>2 DEF Referring, Active, Runs
  <2> HIDE DEF st
  <2>6. /\ st.view \in [pop : Generations \cup {None}, fresh : BOOLEAN]
        /\ st.view.pop = store.view.pop /\ ~st.view.fresh
    BY <1>1, <2>4 DEF Stores, Referring
  <2>7. /\ st.deck \in [pop : Generations \cup {None}, cfg : Nat, done : BOOLEAN]
        /\ ~st.deck.done
    BY <1>1, <2>4, <2>5 DEF Stores
  <2>8. Stopped(st)
    BY <1>1, <2>1, <2>4, <2>6, <2>7 DEF Stopped, Referring
  <2> QED
    BY <2>1, <2>2, <2>3, <2>8, StopInv
<1>5. CASE RollbackView
  <2> DEFINE st == [store EXCEPT !.view = [pop |-> Active, fresh |-> FALSE]]
  <2>1. pc = "rollback_view" /\ StopWith(st, None) /\ UNCHANGED <<asked, used, made>>
    BY <1>5 DEF RollbackView
  <2>2. yaml.op = None /\ store.view.pop # None
    BY <1>1, <2>1 DEF Queued, Unprojected, Rolling
  <2>3. Active \in Generations /\ Active # None
    BY <1>1, <2>1 DEF Numbered, Rolling, Referring, Active
  <2>4. /\ st.deck = store.deck
        /\ st.view = [pop |-> Active, fresh |-> FALSE]
        /\ st = [store EXCEPT !.deck = st.deck, !.view = st.view]
    BY <1>1 DEF Stores
  <2> HIDE DEF st
  <2>5. Stopped(st)
    <3>1. /\ st.deck \in [pop : Generations \cup {None}, cfg : Nat, done : BOOLEAN]
          /\ st.view \in [pop : Generations \cup {None}, fresh : BOOLEAN]
      BY <1>1, <2>3, <2>4 DEF Stores, Referring
    <3> QED
      BY <2>2, <2>3, <2>4, <3>1 DEF Stopped
  <2>6. StopWith(st, yaml.op) /\ used' \in [Budgets -> Nat]
    BY <1>1, <2>1, <2>2 DEF StopWith
  <2> QED
    BY <2>1, <2>5, <2>6, StopInv
<1> QED
  BY <1>2, <1>3, <1>4, <1>5
-----------------------------------------------------------------------------
(* Steps that change the receipt and no other file.                        *)

Receipt(rc) == rc \in Receipts /\ NamedBy(rc) /\ store' = [store EXCEPT !.receipt = rc]

LEMMA ReceiptKept ==
    ASSUME VInv, NEW rc, Receipt(rc)
    PROVE  /\ store' \in Stores /\ store'.receipt = rc
           /\ store'.rounds = store.rounds /\ store'.cfg = store.cfg /\ store'.routes = store.routes
           /\ store'.pops = store.pops /\ store'.formed = store.formed
           /\ store'.closed = store.closed /\ store'.state = store.state
           /\ store'.portfolio = store.portfolio /\ store'.deck = store.deck
           /\ store'.view = store.view
           /\ Active' = Active /\ Generations' = Generations
           /\ CardsReady' = CardsReady /\ InputsValid' = InputsValid /\ Ready' = Ready
           /\ \A q, o : (Binds(q, o)' <=> Binds(q, o)) /\ (NamedBy(q)' <=> NamedBy(q))
<1>1. store \in Stores /\ rc \in Receipts /\ store' = [store EXCEPT !.receipt = rc]
  BY DEF VInv, Typed, Receipt
<1>2. /\ store' \in Stores /\ store'.receipt = rc
      /\ store'.rounds = store.rounds /\ store'.cfg = store.cfg /\ store'.routes = store.routes
      /\ store'.pops = store.pops /\ store'.formed = store.formed
      /\ store'.closed = store.closed /\ store'.state = store.state
      /\ store'.portfolio = store.portfolio /\ store'.deck = store.deck
      /\ store'.view = store.view
  BY <1>1 DEF Stores
<1>3. /\ Active' = Active /\ Generations' = Generations
      /\ CardsReady' = CardsReady /\ InputsValid' = InputsValid /\ Ready' = Ready
  BY <1>2 DEF Active, Generations, CardsReady, InputsValid, Ready, ProjectionReady
<1>4. \A q, o : (Binds(q, o)' <=> Binds(q, o)) /\ (NamedBy(q)' <=> NamedBy(q))
  BY <1>2, <1>3 DEF Binds, NamedBy
<1> QED
  BY <1>2, <1>3, <1>4

LEMMA ReceiptInv ==
    ASSUME VInv, NEW rc, Receipt(rc), UNCHANGED <<yaml, asked, used, made>>, run' \in Runs,
           pc' \notin {"gate", "over", "staged", "finish"},
           pc' \in Rolling => pc \in Rolling,
           Routed', Operating', Numbered', Receipted', Honoured'
    PROVE  VInv'
<1>1. Typed /\ Referring /\ Unprojected /\ Queued
  BY DEF VInv
<1>2. Typed'
  BY <1>1, ReceiptKept DEF Typed
<1>3. Referring'
  BY <1>1, ReceiptKept DEF Referring
<1>4. Unprojected'
  BY <1>1, ReceiptKept DEF Unprojected
<1>5. Queued'
  BY <1>1, ReceiptKept DEF Queued
<1>6. Shown'
  BY DEF Shown
<1> QED
  BY <1>2, <1>3, <1>4, <1>5, <1>6 DEF VInv

(* What was made for the queued operation is still bound to it.            *)
LEMMA HonouredByEnsured ==
    ASSUME VInv, yaml.op # None, Kind[yaml.op] = "evolve", made[yaml.op] > 0
    PROVE  Binds(Ensured(yaml.op), yaml.op)
<1>1. Honoured /\ yaml.op \in Ops
  BY DEF VInv, Typed
<1> QED
  BY <1>1, EnsuredFacts DEF Honoured, Scored

LEMMA ReceiptSteps ==
    ASSUME VInv,
           \/ (BeginCards /\ Loadable) \/ (BeginOperation /\ Executable(run.op)) \/ BeginRun
           \/ WriteReceipt \/ CardsCompiled \/ CloseReceipt \/ RollbackReceipt
    PROVE  VInv'
<1>1. /\ Typed /\ Referring /\ Unprojected /\ Routed /\ Operating /\ Numbered
      /\ Queued /\ Receipted /\ Honoured
      /\ run \in Runs /\ yaml.op \in Ops \cup {None} /\ store \in Stores
      /\ store.receipt \in Receipts
  BY DEF VInv, Typed, Stores
<1> USE DEF InT4, First, Science, Making, Finishing, Rolling
<1>2. CASE /\ pc = "begin"
            /\ \/ (BeginCards /\ Loadable) \/ (BeginOperation /\ Executable(run.op)) \/ BeginRun
  <2>1. run = [NoRun EXCEPT !.op = yaml.op] /\ run.op = yaml.op
    BY <1>1, <1>2 DEF Operating, NoRun
  <2>2. /\ run.gen = 0 /\ run.busy = {} /\ run.left = {} /\ run.refused = FALSE
        /\ (run.op = None => ~Ready)
    BY <1>1, <1>2, <2>1 DEF NoRun, Operating
  <2> DEFINE rc == Ensured(run.op)
  <2>3. /\ rc \in Receipts /\ NamedBy(rc) /\ run.op \in Ops \cup {None}
        /\ Binds(store.receipt, run.op) => Binds(rc, run.op)
    BY <1>1, <2>1, EnsuredFacts
  <2>4. run.op # None /\ Kind[run.op] = "evolve" /\ made[run.op] > 0 => Binds(rc, run.op)
    BY <2>1, HonouredByEnsured
  <2>5. IsFiniteSet({}) /\ Cardinality({}) = 0
    BY FS_EmptySet
  <2> HIDE DEF rc
  <2>6. CASE BeginCards /\ Loadable
    <3>1. /\ store' = [store EXCEPT !.receipt = rc] /\ run' = [run EXCEPT !.gen = Active]
          /\ pc' = IF Pending(rc, run.op) THEN "cards" ELSE "receipt"
          /\ CardsOnly(rc) /\ UNCHANGED <<yaml, asked, used, made>>
      BY <2>6 DEF BeginCards, rc
    <3>2. Receipt(rc)
      BY <2>3, <3>1 DEF Receipt
    <3>3. Active \in Generations /\ Active \in Nat /\ store.state.cfg = store.cfg
      BY <1>1, <2>6, GenerationFacts DEF Loadable, InputsValid, Referring, Active
    <3>4. /\ run' \in Runs /\ run'.op = run.op /\ run'.gen = Active /\ run'.busy = {}
          /\ run'.left = {} /\ run'.refused = FALSE
      BY <1>1, <2>2, <3>1, <3>3 DEF Runs
    <3>5. Routed'
      BY <1>1, <2>5, <3>1, <3>4 DEF Routed
    <3>6. Operating'
      BY <2>1, <3>1, <3>4 DEF Operating
    <3>7. Numbered'
      BY <3>1, <3>2, <3>3, <3>4, ReceiptKept DEF Numbered
    <3>8. run.op # None => Binds(rc, run.op)
      BY <3>1 DEF CardsOnly, Pending, Current, Binds
    <3>9. Receipted'
      <4>1. run.op # None => Kind[run.op] = "rescore" \/ store.pops[Active].by = run.op
        BY <1>1, <2>1, <2>3, <3>8 DEF NamedBy, Binds
      <4> QED
        BY <2>3, <3>1, <3>2, <3>4, <3>8, <4>1, ReceiptKept DEF Receipted
    <3>10. Honoured'
      BY <1>1, <2>1, <2>4, <3>1, <3>2, <3>4, ReceiptKept DEF Honoured
    <3> QED
      BY <3>1, <3>2, <3>4, <3>5, <3>6, <3>7, <3>9, <3>10, ReceiptInv
  <2>7. CASE BeginOperation /\ Executable(run.op)
    <3> DEFINE gen == IF Kind[run.op] \in {"evolve", "reprofile"} THEN NextGeneration ELSE Active
    <3>1. /\ store' = [store EXCEPT !.receipt = rc]
          /\ run' = [run EXCEPT !.gen = gen, !.last = gen]
          /\ pc' = Kind[run.op] /\ run.op # None /\ Kind[run.op] \in Kinds
          /\ UNCHANGED <<yaml, asked, used, made>>
      BY <1>1, <2>1, <2>7 DEF BeginOperation, rc
    <3>2. Receipt(rc)
      BY <2>3, <3>1 DEF Receipt
    <3>3. store.view.pop # None /\ Generations # {} /\ Generations \subseteq Nat
      BY <1>1, <2>1, <3>1, GenerationFacts DEF Unprojected, Referring
    <3>4. /\ Active \in Generations /\ Active \in Nat
          /\ Kind[run.op] \in {"evolve", "reprofile"} =>
               gen \in Nat \ {0} /\ gen \notin Generations /\ gen - 1 \in Generations
          /\ Kind[run.op] \notin {"evolve", "reprofile"} => gen = Active
      BY <1>1, <3>3, NextIsNew DEF Referring, Active
    <3>5. Kind[run.op] \in {"evolve", "rescore"} => store.state.cfg = store.cfg
      BY <2>7 DEF Executable, InputsValid, Loadable
    <3> HIDE DEF gen
    <3>6. /\ run' \in Runs /\ run'.op = run.op /\ run'.gen = gen /\ run'.last = gen
          /\ run'.busy = {} /\ run'.left = {} /\ run'.refused = FALSE
      BY <1>1, <2>2, <3>1, <3>4 DEF Runs
    <3>7. Routed'
      BY <1>1, <2>5, <3>1, <3>6 DEF Routed, Kinds
    <3>8. Operating'
      BY <2>1, <3>1, <3>6 DEF Operating, Kinds
    <3>9. Numbered'
      BY <3>1, <3>2, <3>4, <3>5, <3>6, ReceiptKept DEF Numbered, Kinds
    <3>10. Receipted'
      BY <2>3, <3>1, <3>2, <3>6, ReceiptKept DEF Receipted, Kinds
    <3>11. Honoured'
      BY <1>1, <2>1, <2>4, <3>1, <3>2, <3>6, ReceiptKept DEF Honoured, Kinds
    <3>12. pc' \notin {"gate", "over", "staged", "finish"} \cup Rolling
      BY <3>1 DEF Kinds
    <3> QED
      BY <3>1, <3>2, <3>6, <3>7, <3>8, <3>9, <3>10, <3>11, <3>12, ReceiptInv
  <2>8. CASE BeginRun
    <3>1. /\ store' = [store EXCEPT !.receipt = rc] /\ run.op = None /\ ~CardsOnly(rc)
          /\ IF store.formed
             THEN run' = [run EXCEPT !.last = store.rounds] /\ pc' = "formed"
             ELSE /\ run' = [run EXCEPT !.last = store.rounds, !.left = RoutesToRun]
                  /\ pc' = "routes"
          /\ UNCHANGED <<yaml, asked, used, made>>
      <4>1. rc = Ensured(None) /\ run.op = None
        BY <2>8 DEF BeginRun, rc
      <4> QED
        BY <2>8, <4>1 DEF BeginRun
    <3>2. Receipt(rc)
      BY <2>3, <3>1 DEF Receipt
    <3>3. store.view.pop = None
      BY <2>2, <3>1 DEF CardsOnly, ProjectionReady, Ready
    <3>4. /\ run' \in Runs /\ run'.op = None /\ run'.gen = 0 /\ run'.busy = {}
          /\ run'.left \in {{}, RoutesToRun}
      <4>1. RoutesToRun \subseteq Routes /\ store.rounds \in Nat
        BY <1>1 DEF RoutesToRun, Stores
      <4>2. CASE store.formed
        BY <1>1, <2>2, <3>1, <4>1, <4>2 DEF Runs
      <4>3. CASE ~store.formed
        <5>1. run' = [run EXCEPT !.last = store.rounds, !.left = RoutesToRun]
          BY <3>1, <4>3
        <5> QED
          BY <1>1, <2>2, <3>1, <4>1, <5>1 DEF Runs
      <4> QED
        BY <4>2, <4>3
    <3>5. \A r \in run'.left : store.routes[r] # "filled"
      BY <3>4 DEF RoutesToRun
    <3>6. Routed'
      BY <1>1, <2>5, <3>1, <3>2, <3>4, <3>5, ReceiptKept DEF Routed
    <3>7. Operating'
      BY <2>1, <3>1, <3>2, <3>3, <3>4, ReceiptKept DEF Operating
    <3>8. Numbered' /\ Receipted' /\ Honoured'
      BY <1>1, <2>1, <2>3, <3>1, <3>2, <3>4, ReceiptKept DEF Numbered, Receipted, Honoured
    <3> QED
      BY <3>1, <3>2, <3>4, <3>6, <3>7, <3>8, ReceiptInv
  <2> QED
    BY <1>2, <2>6, <2>7, <2>8
<1>3. CASE WriteReceipt
  <2> DEFINE rc == [pop |-> run.gen, by |-> run.op, status |-> "pending"]
  <2>1. /\ pc = "receipt" /\ store' = [store EXCEPT !.receipt = rc] /\ pc' = "cards"
        /\ UNCHANGED <<yaml, run, asked, used, made>>
    BY <1>3 DEF WriteReceipt
  <2>2. Active = run.gen /\ run.op = yaml.op /\ Active # None /\ Active \in Generations
    BY <1>1, <2>1 DEF Numbered, Operating, Referring, Active, Runs
  <2>3. rc \in Receipts /\ NamedBy(rc)
    BY <1>1, <2>1, <2>2 DEF Receipts, Runs, Open, NamedBy, Receipted
  <2>4. Binds(rc, run.op)
    BY <2>2 DEF Binds
  <2> HIDE DEF rc
  <2>5. Receipt(rc)
    BY <2>1, <2>3 DEF Receipt
  <2>6. Routed' /\ Operating' /\ Numbered'
    BY <1>1, <2>1, <2>2, <2>5, ReceiptKept DEF Routed, Operating, Numbered
  <2>7. Receipted'
    BY <1>1, <2>1, <2>3, <2>4, <2>5, ReceiptKept DEF Receipted
  <2>8. Honoured'
    BY <1>1, <2>1, <2>2, <2>4, <2>5, ReceiptKept DEF Honoured
  <2> QED
    BY <1>1, <2>1, <2>5, <2>6, <2>7, <2>8, ReceiptInv
<1>4. CASE CardsCompiled \/ CloseReceipt
  <2> DEFINE rc == store'.receipt
  <2>1. PICK status \in {"projection", "completed"} :
          /\ store' = [store EXCEPT !.receipt.status = status]
          /\ \/ pc = "compiled" /\ pc' = "project"
             \/ pc = "close" /\ pc' = "verify"
          /\ UNCHANGED <<yaml, run, asked, used, made>>
    BY <1>4 DEF CardsCompiled, CloseReceipt
  <2>2. rc = [store.receipt EXCEPT !.status = status] /\ store' = [store EXCEPT !.receipt = rc]
    BY <1>1, <2>1 DEF Stores
  <2>3. /\ rc \in Receipts /\ rc.by = store.receipt.by /\ rc.pop = store.receipt.pop
        /\ rc.status # "none"
    BY <1>1, <2>1, <2>2 DEF Receipts, Open
  <2>4. /\ NamedBy(rc) /\ \A o : Binds(store.receipt, o) => Binds(rc, o)
    BY <1>1, <2>3 DEF NamedBy, Binds, Receipted
  <2> HIDE DEF rc
  <2>5. Receipt(rc)
    BY <2>2, <2>3, <2>4 DEF Receipt
  <2>6. Routed' /\ Operating'
    BY <1>1, <2>1, <2>5, ReceiptKept DEF Routed, Operating
  <2>7. Numbered'
    BY <1>1, <2>1, <2>5, ReceiptKept DEF Numbered
  <2>8. Receipted'
    BY <1>1, <2>1, <2>4, <2>5, ReceiptKept DEF Receipted
  <2>9. Honoured'
    <3>1. pc = "close" /\ run.op # None => made[run.op] > 0 \/ Kind[run.op] = "rescore"
      BY <1>1 DEF Receipted, Honoured, Operating, Numbered, Runs
    <3> QED
      BY <1>1, <2>1, <2>4, <2>5, <3>1, ReceiptKept DEF Honoured
  <2> QED
    BY <1>1, <2>1, <2>5, <2>6, <2>7, <2>8, <2>9, ReceiptInv
<1>5. CASE RollbackReceipt
  <2> DEFINE rc == [pop |-> Active, by |-> "rollback", status |-> "repair"]
  <2>1. /\ pc = "rollback_receipt" /\ store' = [store EXCEPT !.receipt = rc]
        /\ pc' = "rollback_view" /\ UNCHANGED <<yaml, run, asked, used, made>>
    BY <1>5 DEF RollbackReceipt
  <2>2. yaml.op = None /\ Active \in Nat
    BY <1>1, <2>1 DEF Queued, Numbered, Active, Stores, Numbers
  <2>3. rc \in Receipts /\ NamedBy(rc)
    BY <2>2 DEF Receipts, Open, NamedBy
  <2> HIDE DEF rc
  <2>4. Receipt(rc)
    BY <2>1, <2>3 DEF Receipt
  <2>5. Routed' /\ Operating' /\ Numbered'
    BY <1>1, <2>1, <2>4, ReceiptKept DEF Routed, Operating, Numbered
  <2>6. Receipted' /\ Honoured'
    BY <1>1, <2>1, <2>2, <2>3, <2>4, ReceiptKept DEF Receipted, Honoured
  <2> QED
    BY <1>1, <2>1, <2>4, <2>5, <2>6, ReceiptInv
<1> QED
  BY <1>2, <1>3, <1>4, <1>5 DEF BeginCards, BeginOperation, BeginRun
-----------------------------------------------------------------------------
(* Steps that change one of the other files.                               *)

LEMMA FilesKept ==
    ASSUME store'.pops = store.pops, store'.state = store.state, store'.cfg = store.cfg,
           store'.portfolio = store.portfolio, store'.deck = store.deck, store'.view = store.view
    PROVE  /\ Active' = Active /\ Generations' = Generations
           /\ CardsReady' = CardsReady /\ InputsValid' = InputsValid /\ Ready' = Ready
           /\ \A q, o : (Binds(q, o)' <=> Binds(q, o)) /\ (NamedBy(q)' <=> NamedBy(q))
BY DEF Active, Generations, CardsReady, InputsValid, Ready, ProjectionReady, Binds, NamedBy

LEMMA MarkSteps ==
    ASSUME VInv,
           \/ \E r \in Routes : RouteSucceeds(r) \/ RouteFails(r)
           \/ MarkFormation \/ MarkSurvival
    PROVE  VInv'
<1>1. /\ Typed /\ Referring /\ Unprojected /\ Routed /\ Operating /\ Numbered
      /\ Queued /\ Receipted /\ Honoured
      /\ run \in Runs /\ store \in Stores /\ used \in [Budgets -> Nat]
      /\ Generations \subseteq Nat
  BY GenerationFacts DEF VInv, Typed
<1> USE DEF InT4, First, Science, Making, Finishing, Rolling
<1>2. CASE \E r \in Routes : RouteSucceeds(r) \/ RouteFails(r)
  <2>1. PICK r \in run.busy, outcome \in {"filled", "empty"} :
           /\ pc = "routes" /\ r \in Routes
           /\ store' = [store EXCEPT !.routes[r] = outcome]
           /\ run' = [run EXCEPT !.busy = @ \ {r}, !.left = @ \ {r}]
           /\ UNCHANGED <<yaml, pc, asked, made>> /\ used' \in [Budgets -> Nat]
    <3>1. "fault" \in Budgets
      BY DEF Budgets
    <3> QED
      BY <1>1, <1>2, <3>1, SpendTyped DEF RouteSucceeds, RouteFails, RouteEnds
  <2>2. /\ store' \in Stores /\ store'.routes = [store.routes EXCEPT ![r] = outcome]
        /\ store'.rounds = store.rounds /\ store'.cfg = store.cfg /\ store'.pops = store.pops
        /\ store'.formed = store.formed /\ store'.closed = store.closed /\ store'.state = store.state /\ store'.portfolio = store.portfolio
        /\ store'.deck = store.deck /\ store'.view = store.view /\ store'.receipt = store.receipt
    BY <1>1, <2>1 DEF Stores
  <2>3. /\ run' \in Runs /\ run'.op = run.op /\ run'.gen = run.gen /\ run'.last = run.last
        /\ run'.busy = run.busy \ {r} /\ run'.left = run.left \ {r}
        /\ run'.refused = run.refused
    BY <1>1, <2>1 DEF Runs
  <2>51. Typed'
    BY <1>1, <2>1, <2>2, <2>3, FilesKept DEF Typed
  <2>52. Referring'
    BY <1>1, <2>1, <2>2, <2>3, FilesKept DEF Referring
  <2>53. Unprojected'
    BY <1>1, <2>1, <2>2, <2>3, FilesKept DEF Unprojected
  <2>9. IsFiniteSet(run.busy \ {r}) /\ Cardinality(run.busy \ {r}) <= Width
    <3> DEFINE b == run.busy
    <3>1. IsFiniteSet(b) /\ r \in b /\ Cardinality(b) <= Width /\ Cardinality(b) \in Nat
      BY <1>1, <2>1, FS_CardinalityType DEF Routed
    <3> HIDE DEF b
    <3>2. IsFiniteSet(b \ {r}) /\ Cardinality(b \ {r}) = Cardinality(b) - 1
      BY <3>1, FS_RemoveElement
    <3> QED
      BY <3>1, <3>2 DEF b
  <2>54. Routed'
    BY <1>1, <2>1, <2>2, <2>3, <2>9 DEF Routed, Stores
  <2>55. Operating'
    BY <1>1, <2>1, <2>2, <2>3, FilesKept DEF Operating
  <2>56. Numbered'
    BY <1>1, <2>1, <2>2, <2>3, FilesKept DEF Numbered
  <2>57. Queued'
    BY <1>1, <2>1, <2>2, <2>3, FilesKept DEF Queued
  <2>58. Receipted'
    BY <1>1, <2>1, <2>2, <2>3, FilesKept DEF Receipted
  <2>59. Honoured'
    BY <1>1, <2>1, <2>2, <2>3, FilesKept DEF Honoured
  <2>60. Shown'
    BY <1>1, <2>1, <2>2, <2>3, FilesKept DEF Shown
  <2> QED
    BY <2>51, <2>52, <2>53, <2>54, <2>55, <2>56, <2>57, <2>58, <2>59, <2>60 DEF VInv
<1>3. CASE MarkFormation
  <2>1. /\ pc = "p0_marker" /\ store' = [store EXCEPT !.formed = TRUE] /\ pc' = "formed"
        /\ UNCHANGED <<yaml, run, asked, used, made>>
    BY <1>3 DEF MarkFormation
  <2>2. /\ store' \in Stores /\ store'.formed
        /\ store'.rounds = store.rounds /\ store'.cfg = store.cfg /\ store'.routes = store.routes /\ store'.pops = store.pops
        /\ store'.closed = store.closed /\ store'.state = store.state /\ store'.portfolio = store.portfolio
        /\ store'.deck = store.deck /\ store'.view = store.view /\ store'.receipt = store.receipt
    BY <1>1, <2>1 DEF Stores
  <2>51. Typed'
    BY <1>1, <2>1, <2>2, FilesKept DEF Typed
  <2>52. Referring'
    BY <1>1, <2>1, <2>2, FilesKept DEF Referring, Operating
  <2>53. Unprojected'
    BY <1>1, <2>1, <2>2, FilesKept DEF Unprojected
  <2>54. Routed'
    BY <1>1, <2>1, <2>2, FilesKept DEF Routed
  <2>55. Operating'
    BY <1>1, <2>1, <2>2, FilesKept DEF Operating
  <2>56. Numbered'
    BY <1>1, <2>1, <2>2, FilesKept DEF Numbered
  <2>57. Queued'
    BY <1>1, <2>1, <2>2, FilesKept DEF Queued
  <2>58. Receipted'
    BY <1>1, <2>1, <2>2, FilesKept DEF Receipted
  <2>59. Honoured'
    BY <1>1, <2>1, <2>2, FilesKept DEF Honoured
  <2>60. Shown'
    BY <1>1, <2>1, <2>2, FilesKept DEF Shown
  <2> QED
    BY <2>51, <2>52, <2>53, <2>54, <2>55, <2>56, <2>57, <2>58, <2>59, <2>60 DEF VInv
<1>4. CASE MarkSurvival
  <2>1. /\ pc = "marker" /\ store' = [store EXCEPT !.closed = @ \cup {run.gen}]
        /\ UNCHANGED <<yaml, asked, used, made>>
        /\ \/ run.gen < run.last /\ pc' = "evolve" /\ run' = [run EXCEPT !.gen = @ + 1]
           \/ run.gen >= run.last /\ pc' = "receipt" /\ run' = run
    BY <1>1, <1>4 DEF MarkSurvival, Runs
  <2>2. /\ store' \in Stores /\ store'.closed = store.closed \cup {run.gen}
        /\ store'.rounds = store.rounds /\ store'.cfg = store.cfg /\ store'.routes = store.routes /\ store'.pops = store.pops
        /\ store'.formed = store.formed /\ store'.state = store.state /\ store'.portfolio = store.portfolio
        /\ store'.deck = store.deck /\ store'.view = store.view /\ store'.receipt = store.receipt
    BY <1>1, <2>1 DEF Stores, Runs
  <2>3. /\ run' \in Runs /\ run'.op = run.op /\ run'.last = run.last
        /\ run'.busy = run.busy /\ run'.left = run.left /\ run'.refused = run.refused
        /\ \/ run'.gen = run.gen /\ pc' = "receipt"
           \/ run'.gen = run.gen + 1 /\ pc' = "evolve" /\ run.op = None
    BY <1>1, <2>1 DEF Runs, Operating
  <2>4. Active = run.gen /\ Active \in Generations /\ run.gen \in Nat
    BY <1>1, <2>1 DEF Numbered, Referring, Active, Runs
  <2>51. Typed'
    BY <1>1, <2>1, <2>2, <2>3, <2>4, FilesKept DEF Typed
  <2>52. Referring'
    BY <1>1, <2>1, <2>2, <2>3, <2>4, FilesKept DEF Referring
  <2>53. Unprojected'
    BY <1>1, <2>1, <2>2, <2>3, <2>4, FilesKept DEF Unprojected
  <2>54. Routed'
    BY <1>1, <2>1, <2>2, <2>3, <2>4, FilesKept DEF Routed
  <2>55. Operating'
    BY <1>1, <2>1, <2>2, <2>3, <2>4, FilesKept DEF Operating
  <2>56. Numbered'
    BY <1>1, <2>1, <2>2, <2>3, <2>4, FilesKept DEF Numbered
  <2>57. Queued'
    BY <1>1, <2>1, <2>2, <2>3, <2>4, FilesKept DEF Queued
  <2>58. Receipted'
    BY <1>1, <2>1, <2>2, <2>3, <2>4, FilesKept DEF Receipted
  <2>59. Honoured'
    BY <1>1, <2>1, <2>2, <2>3, <2>4, FilesKept DEF Honoured, Operating
  <2>60. Shown'
    BY <1>1, <2>1, <2>2, <2>3, <2>4, FilesKept DEF Shown
  <2> QED
    BY <2>51, <2>52, <2>53, <2>54, <2>55, <2>56, <2>57, <2>58, <2>59, <2>60 DEF VInv
<1> QED
  BY <1>2, <1>3, <1>4
-----------------------------------------------------------------------------
(* The populations and what refers to them.                                *)

\* A population file more: those that were there say what they said.
Joined(g) ==
    /\ Generations' = Generations \cup {g} /\ store'.pops[g].by = run.op
    /\ \A h \in Generations : store'.pops[h] = store.pops[h]

LEMMA PopulationSteps ==
    ASSUME VInv, WriteP0 \/ WritePopulation
    PROVE  VInv' /\ Joined(run.gen)
<1>1. /\ Typed /\ Referring /\ Unprojected /\ Routed /\ Operating /\ Numbered
      /\ Queued /\ Receipted /\ Honoured /\ Shown
      /\ run \in Runs /\ store \in Stores /\ used \in [Budgets -> Nat]
      /\ yaml \in Yamls /\ Generations \subseteq Nat
  BY GenerationFacts DEF VInv, Typed, Yamls
<1> USE DEF InT4, First, Science, Making, Finishing, Rolling
<1> DEFINE cfg == IF pc = "p0" THEN store.cfg ELSE Orientation
<1>2. /\ \/ pc = "p0" /\ pc' = "p0_state"
         \/ pc = "population" /\ pc' = "portfolio"
      /\ store' = [store EXCEPT !.pops = Write(run.gen, cfg)]
      /\ UNCHANGED <<yaml, run, asked, used, made>>
  <2>1. CASE WriteP0
    <3>1. pc = "p0" /\ run.gen = 0
      BY <1>1, <2>1 DEF WriteP0, Operating
    <3> QED
      BY <2>1, <3>1 DEF WriteP0, Write
  <2>2. CASE WritePopulation
    BY <2>2 DEF WritePopulation
  <2> QED
    BY <2>1, <2>2
<1>3. /\ run.gen \in Nat /\ (run.gen = 0 \/ run.gen - 1 \in Generations)
      /\ run.op # None => run.gen \notin Generations
      /\ run.op = None => store.view.pop = None
      /\ run.op = yaml.op
  BY <1>1, <1>2 DEF Operating, Numbered, Runs
<1>4. cfg = store.cfg /\ cfg \in Nat
  BY <1>1, <1>2, <1>3 DEF Orientation, Operating, Numbered, Unprojected, Stores
<1> HIDE DEF cfg
<1>5. /\ Write(run.gen, cfg) \in Populations
      /\ DOMAIN Write(run.gen, cfg) = Generations \cup {run.gen}
      /\ Write(run.gen, cfg)[run.gen] = [cfg |-> store.cfg, by |-> run.op]
      /\ \A h \in Generations : h # run.gen => Write(run.gen, cfg)[h] = store.pops[h]
  BY <1>1, <1>3, <1>4, WriteFacts
<1>6. /\ store' \in Stores /\ store'.pops = Write(run.gen, cfg)
      /\ store'.rounds = store.rounds /\ store'.cfg = store.cfg /\ store'.routes = store.routes
      /\ store'.formed = store.formed /\ store'.closed = store.closed /\ store'.state = store.state /\ store'.portfolio = store.portfolio
      /\ store'.deck = store.deck /\ store'.view = store.view /\ store'.receipt = store.receipt
  BY <1>1, <1>2, <1>5 DEF Stores
<1>7. /\ Generations' = Generations \cup {run.gen}
      /\ store'.pops[run.gen] = [cfg |-> store.cfg, by |-> run.op]
      /\ \A h \in Generations : store'.pops[h] = store.pops[h]
      /\ store.view.pop = None =>
           \A h \in Generations' : store'.pops[h] = [cfg |-> 0, by |-> None]
  <2>1. Generations' = Generations \cup {run.gen}
    BY <1>5, <1>6 DEF Generations
  <2>2. run.gen \in Generations => store.pops[run.gen] = [cfg |-> store.cfg, by |-> run.op]
    BY <1>1, <1>3 DEF Unprojected
  <2>3. store.view.pop = None => run.op = None /\ store.cfg = 0
    BY <1>1, <1>3 DEF Unprojected
  <2> QED
    BY <1>1, <1>5, <1>6, <2>1, <2>2, <2>3 DEF Unprojected
<1> HIDE DEF First, Science, Making, Finishing, Rolling, InT4
<1>8. /\ Active' = Active /\ (CardsReady' <=> CardsReady) /\ (InputsValid' <=> InputsValid)
      /\ Active \in Generations \cup {None}
      /\ \A q, o : (Binds(q, o)' <=> Binds(q, o)) /\ (NamedBy(q) => NamedBy(q)')
  <2>1. /\ Active' = Active /\ CardsReady' = CardsReady /\ InputsValid' = InputsValid
        /\ Active \in Generations \cup {None}
    BY <1>1, <1>6 DEF Active, CardsReady, InputsValid, Referring
  <2>2. \A q, o : (Binds(q, o)' <=> Binds(q, o)) /\ (NamedBy(q) => NamedBy(q)')
    BY <1>6, <1>7, <2>1 DEF Binds, NamedBy
  <2> QED
    BY <2>1, <2>2
<1> USE DEF First, Science, Making, Finishing, Rolling, InT4
<1>11. Typed'
  BY <1>1, <1>2, <1>3, <1>6, <1>7, <1>8 DEF Typed
<1>12. Referring'
  BY <1>1, <1>2, <1>3, <1>6, <1>7, <1>8 DEF Referring, Queued, Active
<1>13. Unprojected'
  BY <1>1, <1>2, <1>3, <1>6, <1>7, <1>8 DEF Unprojected
<1>14. Routed'
  BY <1>1, <1>2, <1>3, <1>6, <1>7, <1>8 DEF Routed
<1>15. Operating'
  BY <1>1, <1>2, <1>3, <1>6, <1>7, <1>8 DEF Operating
<1>16. Numbered'
  <2>1. run.op # None => Active # run.gen /\ store.deck.pop # run.gen
    BY <1>1, <1>3, <1>8 DEF Referring
  <2>2. CASE pc' = "p0_state"
    BY <2>2 DEF Numbered
  <2>3. CASE pc' = "portfolio"
    BY <1>2, <1>6, <1>7, <1>8, <2>1, <2>3 DEF Numbered
  <2> QED
    BY <1>2, <2>2, <2>3
<1>17. Queued'
  BY <1>1, <1>2, <1>3, <1>6, <1>7, <1>8 DEF Queued, InputsValid
<1>18. Receipted'
  BY <1>1, <1>2, <1>3, <1>6, <1>7, <1>8 DEF Receipted
<1>19. Honoured'
  BY <1>1, <1>2, <1>3, <1>6, <1>7, <1>8 DEF Honoured, Operating
<1>20. Shown'
  BY <1>1, <1>2, <1>3, <1>6, <1>7, <1>8 DEF Shown
<1> QED
  BY <1>7, <1>11, <1>12, <1>13, <1>14, <1>15, <1>16, <1>17, <1>18, <1>19, <1>20 DEF VInv, Joined
-----------------------------------------------------------------------------
(* The pointers to the active population, the cards and the projection.    *)

LEMMA PointerSteps ==
    ASSUME VInv,
           InitializeState \/ WritePortfolio \/ Activate \/ CompileCards \/ Project
    PROVE  VInv'
<1>1. /\ Typed /\ Referring /\ Unprojected /\ Routed /\ Operating /\ Numbered
      /\ Queued /\ Receipted /\ Honoured /\ Shown
      /\ run \in Runs /\ store \in Stores /\ used \in [Budgets -> Nat]
      /\ yaml \in Yamls /\ Generations \subseteq Nat
  BY GenerationFacts DEF VInv, Typed, Yamls
<1> USE DEF InT4, First, Science, Making, Finishing, Rolling
<1>2. CASE InitializeState
  <2>1. /\ pc = "p0_state" /\ pc' = "p0_marker"
        /\ store' = [store EXCEPT !.state = [pop |-> 0, cfg |-> store.cfg]]
        /\ UNCHANGED <<yaml, run, asked, used, made>>
    BY <1>1, <1>2 DEF InitializeState
  <2>2. /\ store' \in Stores /\ store'.state = [pop |-> 0, cfg |-> store.cfg]
        /\ store'.rounds = store.rounds /\ store'.cfg = store.cfg /\ store'.routes = store.routes /\ store'.pops = store.pops
        /\ store'.formed = store.formed /\ store'.closed = store.closed /\ store'.portfolio = store.portfolio
        /\ store'.deck = store.deck /\ store'.view = store.view /\ store'.receipt = store.receipt
    BY <1>1, <2>1 DEF Stores, Numbers
  <2>3. /\ 0 \in Generations /\ Generations' = Generations /\ Active' = 0 /\ yaml.op = None
        /\ store.view.pop = None /\ run.op = None
        /\ \A q : NamedBy(q)' <=> NamedBy(q)
    BY <1>1, <2>1, <2>2 DEF Operating, Generations, Active, NamedBy
  <2>51. Typed'
    BY <1>1, <2>1, <2>2, <2>3 DEF Typed
  <2>52. Referring'
    BY <1>1, <2>1, <2>2, <2>3 DEF Referring, Unprojected
  <2>53. Unprojected'
    BY <1>1, <2>1, <2>2, <2>3 DEF Unprojected
  <2>54. Routed'
    BY <1>1, <2>1, <2>2, <2>3 DEF Routed
  <2>55. Operating'
    BY <1>1, <2>1, <2>2, <2>3 DEF Operating
  <2>56. Numbered'
    BY <1>1, <2>1, <2>2, <2>3 DEF Numbered
  <2>57. Queued'
    BY <1>1, <2>1, <2>2, <2>3 DEF Queued
  <2>58. Receipted'
    BY <1>1, <2>1, <2>2, <2>3 DEF Receipted
  <2>59. Honoured'
    BY <1>1, <2>1, <2>2, <2>3 DEF Honoured
  <2>60. Shown'
    BY <1>1, <2>1, <2>2, <2>3 DEF Shown
  <2> QED
    BY <2>51, <2>52, <2>53, <2>54, <2>55, <2>56, <2>57, <2>58, <2>59, <2>60 DEF VInv
<1>3. CASE WritePortfolio
  <2>1. /\ pc = "portfolio" /\ pc' = "activate"
        /\ store' = [store EXCEPT !.portfolio = run.gen]
        /\ UNCHANGED <<yaml, run, asked, used, made>>
    BY <1>1, <1>3 DEF WritePortfolio
  <2>2. /\ store' \in Stores /\ store'.portfolio = run.gen
        /\ store'.rounds = store.rounds /\ store'.cfg = store.cfg /\ store'.routes = store.routes /\ store'.pops = store.pops
        /\ store'.formed = store.formed /\ store'.closed = store.closed /\ store'.state = store.state
        /\ store'.deck = store.deck /\ store'.view = store.view /\ store'.receipt = store.receipt
    BY <1>1, <2>1 DEF Stores, Numbers, Runs
  <2>3. /\ run.gen \in Generations /\ Generations' = Generations /\ Active' = Active
        /\ InputsValid' = InputsValid /\ yaml.op = run.op
        /\ \A q : NamedBy(q)' <=> NamedBy(q)
        /\ \A q, o : Binds(q, o)' <=> Binds(q, o)
    BY <1>1, <2>1, <2>2 DEF Operating, Numbered, Generations, Active, NamedBy, Binds, InputsValid
  <2>51. Typed'
    BY <1>1, <2>1, <2>2, <2>3 DEF Typed
  <2>52. Referring'
    BY <1>1, <2>1, <2>2, <2>3 DEF Referring
  <2>53. Unprojected'
    BY <1>1, <2>1, <2>2, <2>3 DEF Unprojected
  <2>54. Routed'
    BY <1>1, <2>1, <2>2, <2>3 DEF Routed
  <2>55. Operating'
    BY <1>1, <2>1, <2>2, <2>3 DEF Operating
  <2>56. Numbered'
    BY <1>1, <2>1, <2>2, <2>3 DEF Numbered
  <2>57. Queued'
    BY <1>1, <2>1, <2>2, <2>3 DEF Queued, Numbered
  <2>58. Receipted'
    BY <1>1, <2>1, <2>2, <2>3 DEF Receipted
  <2>59. Honoured'
    BY <1>1, <2>1, <2>2, <2>3 DEF Honoured
  <2>60. Shown'
    BY <1>1, <2>1, <2>2, <2>3 DEF Shown
  <2> QED
    BY <2>51, <2>52, <2>53, <2>54, <2>55, <2>56, <2>57, <2>58, <2>59, <2>60 DEF VInv
<1>4. CASE Activate
  <2>1. /\ pc = "activate" /\ pc' \in {"receipt", "marker"}
        /\ store' = [store EXCEPT !.state = [pop |-> run.gen, cfg |-> store.pops[run.gen].cfg]]
        /\ made' = IF run.op = None THEN made ELSE [made EXCEPT ![run.op] = @ + 1]
        /\ UNCHANGED <<yaml, run, asked, used>>
    BY <1>1, <1>4 DEF Activate
  <2>2. /\ store' \in Stores /\ store'.state = [pop |-> run.gen, cfg |-> store.cfg]
        /\ store'.rounds = store.rounds /\ store'.cfg = store.cfg /\ store'.routes = store.routes /\ store'.pops = store.pops
        /\ store'.formed = store.formed /\ store'.closed = store.closed /\ store'.portfolio = store.portfolio
        /\ store'.deck = store.deck /\ store'.view = store.view /\ store'.receipt = store.receipt
    BY <1>1, <2>1 DEF Stores, Numbers, Runs, Numbered
  <2>3. /\ run.gen \in Generations /\ Generations' = Generations /\ Active' = run.gen
        /\ run.gen # None /\ yaml.op = run.op
        /\ store.pops[run.gen] = [cfg |-> store.cfg, by |-> run.op]
        /\ run.op # None => /\ store.deck.pop # run.gen /\ store.portfolio = run.gen
                            /\ run.op \in asked /\ run.op \in Ops
        /\ run.op = None => store.view.pop = None
        /\ \A q : NamedBy(q)' <=> NamedBy(q)
    BY <1>1, <2>1, <2>2 DEF Operating, Numbered, Generations, Active, NamedBy, Runs, Queued
  <2>4. /\ made' \in [Ops -> Nat]
        /\ run.op # None => made'[run.op] > 0
        /\ \A o \in Ops \ {run.op} : made'[o] = made[o]
    BY <1>1, <2>1, <2>3 DEF Typed
  <2>5. /\ InputsValid' /\ store'.portfolio = store.portfolio
        /\ run.op # None => ~CardsReady' /\ store'.portfolio = Active'
    BY <2>2, <2>3 DEF InputsValid, CardsReady
  <2>51. Typed'
    BY <1>1, <2>1, <2>2, <2>3, <2>4, <2>5 DEF Typed
  <2>52. Referring'
    BY <1>1, <2>1, <2>2, <2>3, <2>4, <2>5 DEF Referring, Active
  <2>53. Unprojected'
    BY <1>1, <2>1, <2>2, <2>3, <2>4, <2>5 DEF Unprojected
  <2>54. Routed'
    BY <1>1, <2>1, <2>2, <2>3, <2>4, <2>5 DEF Routed
  <2>55. Operating'
    BY <1>1, <2>1, <2>2, <2>3, <2>4, <2>5 DEF Operating
  <2>56. Numbered'
    BY <1>1, <2>1, <2>2, <2>3, <2>4, <2>5 DEF Numbered
  <2>57. Queued'
    BY <1>1, <2>1, <2>2, <2>3, <2>4, <2>5 DEF Queued
  <2>58. Receipted'
    BY <1>1, <2>1, <2>2, <2>3, <2>4, <2>5 DEF Receipted
  <2>59. Honoured'
    BY <1>1, <2>1, <2>2, <2>3, <2>4, <2>5 DEF Honoured
  <2>60. Shown'
    BY <1>1, <2>1, <2>2, <2>3, <2>4, <2>5 DEF Shown
  <2> QED
    BY <2>51, <2>52, <2>53, <2>54, <2>55, <2>56, <2>57, <2>58, <2>59, <2>60 DEF VInv
<1>5. CASE CompileCards
  <2>1. /\ pc = "cards" /\ pc' = "compiled" /\ ~CardsReady
        /\ store' = [store EXCEPT !.deck = [pop |-> run.gen, cfg |-> store.cfg, done |-> TRUE],
                                  !.view.fresh = FALSE]
        /\ UNCHANGED <<yaml, run, asked, used, made>>
    BY <1>1, <1>5 DEF CompileCards
  <2>2. /\ store' \in Stores /\ store'.deck = [pop |-> run.gen, cfg |-> store.cfg, done |-> TRUE]
        /\ store'.view.pop = store.view.pop /\ store'.view.fresh = FALSE
        /\ store'.rounds = store.rounds /\ store'.cfg = store.cfg /\ store'.routes = store.routes /\ store'.pops = store.pops
        /\ store'.formed = store.formed /\ store'.closed = store.closed /\ store'.state = store.state /\ store'.portfolio = store.portfolio
        /\ store'.receipt = store.receipt
    BY <1>1, <2>1 DEF Stores, Numbers, Runs
  <2>3. /\ Active = run.gen /\ Active' = Active /\ Generations' = Generations
        /\ Active \in Generations /\ store.state.cfg = store.cfg /\ Active # None
        /\ ~CardsReady' /\ InputsValid' = InputsValid
        /\ \A q : NamedBy(q)' <=> NamedBy(q)
        /\ \A q, o : Binds(q, o)' <=> Binds(q, o)
    BY <1>1, <2>1, <2>2 DEF Numbered, Referring, Active, Generations, NamedBy, Binds,
                            InputsValid, CardsReady, Runs
  <2>51. Typed'
    BY <1>1, <2>1, <2>2, <2>3 DEF Typed
  <2>52. Referring'
    BY <1>1, <2>1, <2>2, <2>3 DEF Referring, Active
  <2>53. Unprojected'
    BY <1>1, <2>1, <2>2, <2>3 DEF Unprojected
  <2>54. Routed'
    BY <1>1, <2>1, <2>2, <2>3 DEF Routed
  <2>55. Operating'
    BY <1>1, <2>1, <2>2, <2>3 DEF Operating
  <2>56. Numbered'
    BY <1>1, <2>1, <2>2, <2>3 DEF Numbered
  <2>57. Queued'
    BY <1>1, <2>1, <2>2, <2>3 DEF Queued
  <2>58. Receipted'
    BY <1>1, <2>1, <2>2, <2>3 DEF Receipted
  <2>59. Honoured'
    BY <1>1, <2>1, <2>2, <2>3 DEF Honoured
  <2>60. Shown'
    BY <1>1, <2>1, <2>2, <2>3 DEF Shown
  <2> QED
    BY <2>51, <2>52, <2>53, <2>54, <2>55, <2>56, <2>57, <2>58, <2>59, <2>60 DEF VInv
<1>6. CASE Project
  <2>1. /\ pc = "project" /\ pc' = "close"
        /\ store' = [store EXCEPT !.view = [pop |-> run.gen, fresh |-> store.deck.done]]
        /\ UNCHANGED <<yaml, run, asked, used, made>>
    BY <1>1, <1>6 DEF Project
  <2>2. /\ store' \in Stores /\ store'.view = [pop |-> run.gen, fresh |-> store.deck.done]
        /\ store'.rounds = store.rounds /\ store'.cfg = store.cfg /\ store'.routes = store.routes /\ store'.pops = store.pops
        /\ store'.formed = store.formed /\ store'.closed = store.closed /\ store'.state = store.state /\ store'.portfolio = store.portfolio
        /\ store'.deck = store.deck /\ store'.receipt = store.receipt
    BY <1>1, <2>1 DEF Stores, Numbers, Runs
  <2>3. /\ Active = run.gen /\ Active' = Active /\ Generations' = Generations
        /\ Active \in Generations /\ Active # None /\ store.deck.pop = run.gen
        /\ run.op = yaml.op
        /\ run.op # None => /\ Kind[run.op] = "rescore" \/ store.pops[Active].by = run.op
                            /\ Binds(store.receipt, run.op)
        /\ \A q : NamedBy(q)' <=> NamedBy(q)
        /\ \A q, o : Binds(q, o)' <=> Binds(q, o)
    BY <1>1, <2>1, <2>2 DEF Numbered, Operating, Receipted, Referring, Active, Generations,
                            NamedBy, Binds, Runs
  <2>51. Typed'
    BY <1>1, <2>1, <2>2, <2>3 DEF Typed
  <2>52. Referring'
    BY <1>1, <2>1, <2>2, <2>3 DEF Referring
  <2>53. Unprojected'
    BY <1>1, <2>1, <2>2, <2>3 DEF Unprojected
  <2>54. Routed'
    BY <1>1, <2>1, <2>2, <2>3 DEF Routed
  <2>55. Operating'
    BY <1>1, <2>1, <2>2, <2>3 DEF Operating
  <2>56. Numbered'
    BY <1>1, <2>1, <2>2, <2>3 DEF Numbered
  <2>57. Queued'
    BY <1>1, <2>1, <2>2, <2>3 DEF Queued
  <2>58. Receipted'
    BY <1>1, <2>1, <2>2, <2>3 DEF Receipted
  <2>59. Honoured'
    BY <1>1, <2>1, <2>2, <2>3 DEF Honoured
  <2>60. Shown'
    BY <1>1, <2>1, <2>2, <2>3 DEF Shown
  <2> QED
    BY <2>51, <2>52, <2>53, <2>54, <2>55, <2>56, <2>57, <2>58, <2>59, <2>60 DEF VInv
<1> QED
  BY <1>2, <1>3, <1>4, <1>5, <1>6
-----------------------------------------------------------------------------
(* What the researcher asks for at Gate1, and the rollback.                *)

LEMMA GateSteps ==
    ASSUME VInv,
           \/ \E o \in Ops : QueueOperation(o) \/ StageProfile(o)
           \/ QueueProfile \/ Rollback \/ RollbackPortfolio \/ RollbackDeck
    PROVE  VInv'
<1>1. /\ Typed /\ Referring /\ Unprojected /\ Routed /\ Operating /\ Numbered
      /\ Queued /\ Receipted /\ Honoured /\ Shown
      /\ run \in Runs /\ store \in Stores /\ used \in [Budgets -> Nat]
      /\ yaml \in Yamls /\ Generations \subseteq Nat
  BY GenerationFacts DEF VInv, Typed, Yamls
<1> USE DEF InT4, First, Science, Making, Finishing, Rolling
<1>2. pc = "gate" => /\ Active = store.portfolio /\ Active \in Generations /\ Active # None
                     /\ CardsReady /\ store.state.cfg = store.cfg /\ yaml.op = None
                     /\ store.view.pop # None
  BY <1>1 DEF Shown, Ready, ProjectionReady, CardsReady, Referring, Active, Queued
<1>3. /\ \A o \in Ops \ asked : made[o] = 0 /\ \A g \in Generations : store.pops[g].by # o
      /\ made \in [Ops -> Nat] /\ asked \subseteq Ops /\ None \notin Ops
  BY <1>1 DEF Honoured, Referring, Typed
<1>4. CASE \E o \in Ops : QueueOperation(o)
  <2>1. PICK o \in Ops \ asked :
           /\ pc = "gate" /\ pc' = "step"
           /\ yaml' = [at |-> "T4", op |-> o] /\ asked' = asked \cup {o}
           /\ UNCHANGED <<store, run, used, made>>
    BY <1>4 DEF QueueOperation
  <2>51. Typed'
    BY <1>1, <1>2, <1>3, <2>1, StoreKept DEF Typed
  <2>52. Referring'
    BY <1>1, <1>2, <1>3, <2>1, StoreKept DEF Referring
  <2>53. Unprojected'
    BY <1>1, <1>2, <1>3, <2>1, StoreKept DEF Unprojected
  <2>54. Routed'
    BY <1>1, <1>2, <1>3, <2>1, StoreKept DEF Routed
  <2>55. Operating'
    BY <1>1, <1>2, <1>3, <2>1, StoreKept DEF Operating
  <2>56. Numbered'
    BY <1>1, <1>2, <1>3, <2>1, StoreKept DEF Numbered
  <2>57. Queued'
    BY <1>1, <1>2, <1>3, <2>1, StoreKept DEF Queued
  <2>58. Receipted'
    BY <1>1, <1>2, <1>3, <2>1, StoreKept DEF Receipted
  <2>59. Honoured'
    BY <1>1, <1>2, <1>3, <2>1, StoreKept DEF Honoured, Active
  <2>60. Shown'
    BY <1>1, <1>2, <1>3, <2>1, StoreKept DEF Shown
  <2> QED
    BY <2>51, <2>52, <2>53, <2>54, <2>55, <2>56, <2>57, <2>58, <2>59, <2>60 DEF VInv
<1>5. CASE \E o \in Ops : StageProfile(o)
  <2>1. PICK o \in Ops \ asked :
           /\ pc = "gate" /\ pc' = "staged" /\ Kind[o] = "reprofile"
           /\ store' = [store EXCEPT !.cfg = @ + 1] /\ asked' = asked \cup {o}
           /\ run' = [NoRun EXCEPT !.op = o]
           /\ UNCHANGED <<yaml, used, made>>
    BY <1>5 DEF StageProfile
  <2>2. /\ store' \in Stores /\ store'.cfg = store.cfg + 1
        /\ store'.rounds = store.rounds /\ store'.routes = store.routes /\ store'.pops = store.pops
        /\ store'.formed = store.formed /\ store'.closed = store.closed /\ store'.state = store.state /\ store'.portfolio = store.portfolio
        /\ store'.deck = store.deck /\ store'.view = store.view /\ store'.receipt = store.receipt
    BY <1>1, <2>1 DEF Stores
  <2>3. /\ run' \in Runs /\ run'.op = o /\ run'.busy = {} /\ run'.left = {}
        /\ IsFiniteSet({}) /\ Cardinality({}) = 0
    BY <1>1, <2>1, FS_EmptySet DEF Runs, NoRun
  <2>4. /\ Active' = Active /\ Generations' = Generations /\ store.cfg \in Nat
        /\ \A q : NamedBy(q)' <=> NamedBy(q)
    BY <1>1, <2>2 DEF Active, Generations, NamedBy, Stores
  <2>51. Typed'
    BY <1>1, <1>2, <1>3, <2>1, <2>2, <2>3, <2>4 DEF Typed
  <2>52. Referring'
    BY <1>1, <1>2, <1>3, <2>1, <2>2, <2>3, <2>4 DEF Referring
  <2>53. Unprojected'
    BY <1>1, <1>2, <1>3, <2>1, <2>2, <2>3, <2>4 DEF Unprojected
  <2>54. Routed'
    <3>1. Cardinality(run'.busy) = 0 /\ IsFiniteSet(run'.busy)
      BY <2>3
    <3> QED
      BY <2>1, <2>3, <3>1 DEF Routed
  <2>55. Operating'
    BY <1>1, <1>2, <1>3, <2>1, <2>2, <2>3, <2>4 DEF Operating
  <2>56. Numbered'
    BY <1>1, <1>2, <1>3, <2>1, <2>2, <2>3, <2>4 DEF Numbered
  <2>57. Queued'
    BY <1>1, <1>2, <1>3, <2>1, <2>2, <2>3, <2>4 DEF Queued
  <2>58. Receipted'
    BY <1>1, <1>2, <1>3, <2>1, <2>2, <2>3, <2>4 DEF Receipted
  <2>59. Honoured'
    BY <1>1, <1>2, <1>3, <2>1, <2>2, <2>3, <2>4 DEF Honoured
  <2>60. Shown'
    BY <1>1, <1>2, <1>3, <2>1, <2>2, <2>3, <2>4 DEF Shown
  <2> QED
    BY <2>51, <2>52, <2>53, <2>54, <2>55, <2>56, <2>57, <2>58, <2>59, <2>60 DEF VInv
<1>6. CASE QueueProfile
  <2>1. /\ pc = "staged" /\ pc' = "step" /\ run' = NoRun
        /\ yaml' = [at |-> "T4", op |-> run.op]
        /\ UNCHANGED <<store, asked, used, made>>
    BY <1>6 DEF QueueProfile
  <2>2. /\ run.op \in asked /\ run.op \in Ops /\ Kind[run.op] = "reprofile"
        /\ ~InputsValid /\ store.view.pop # None
        /\ \A g \in Generations : store.pops[g].by # run.op
    BY <1>1, <1>3, <2>1 DEF Queued, InputsValid, Unprojected
  <2>3. /\ NoRun \in Runs /\ NoRun.busy = {} /\ NoRun.left = {}
        /\ IsFiniteSet({}) /\ Cardinality({}) = 0
    BY FS_EmptySet DEF Runs, NoRun
  <2>51. Typed'
    BY <1>1, <2>1, <2>2, <2>3, StoreKept DEF Typed
  <2>52. Referring'
    BY <1>1, <2>1, <2>2, <2>3, StoreKept DEF Referring
  <2>53. Unprojected'
    BY <1>1, <2>1, <2>2, <2>3, StoreKept DEF Unprojected
  <2>54. Routed'
    BY <1>1, <2>1, <2>2, <2>3, StoreKept DEF Routed
  <2>55. Operating'
    BY <1>1, <2>1, <2>2, <2>3, StoreKept DEF Operating
  <2>56. Numbered'
    BY <1>1, <2>1, <2>2, <2>3, StoreKept DEF Numbered
  <2>57. Queued'
    BY <1>1, <2>1, <2>2, <2>3, StoreKept DEF Queued
  <2>58. Receipted'
    BY <1>1, <2>1, <2>2, <2>3, StoreKept DEF Receipted
  <2>59. Honoured'
    BY <1>1, <2>1, <2>2, <2>3, StoreKept DEF Honoured, Referring, Active
  <2>60. Shown'
    BY <1>1, <2>1, <2>2, <2>3, StoreKept DEF Shown
  <2> QED
    BY <2>51, <2>52, <2>53, <2>54, <2>55, <2>56, <2>57, <2>58, <2>59, <2>60 DEF VInv
<1>7. CASE Rollback
  <2>1. /\ pc = "gate" /\ pc' = "rollback_portfolio" /\ Active > 0
        /\ store.pops[Active - 1].cfg = store.state.cfg
        /\ store' = [store EXCEPT !.state.pop = Active - 1]
        /\ used' \in [Budgets -> Nat]
        /\ UNCHANGED <<yaml, run, asked, made>>
    <3>1. "rollback" \in Budgets
      BY DEF Budgets
    <3> QED
      BY <1>1, <1>7, <3>1, SpendTyped DEF Rollback
  <2>2. Active - 1 \in Generations /\ Active - 1 \in Nat
    <3>1. PICK n \in Nat : Generations = 0 .. n - 1
      BY <1>1, PopulationsFacts
    <3>2. Active \in 0 .. n - 1
      BY <1>2, <2>1, <3>1
    <3> QED
      BY <2>1, <3>1, <3>2
  <2>3. /\ store' \in Stores /\ store'.state = [store.state EXCEPT !.pop = Active - 1]
        /\ store'.rounds = store.rounds /\ store'.cfg = store.cfg /\ store'.routes = store.routes /\ store'.pops = store.pops
        /\ store'.formed = store.formed /\ store'.closed = store.closed /\ store'.portfolio = store.portfolio
        /\ store'.deck = store.deck /\ store'.view = store.view /\ store'.receipt = store.receipt
    BY <1>1, <2>1, <2>2 DEF Stores, Numbers
  <2>4. /\ Active' = Active - 1 /\ store'.state.pop = Active - 1
        /\ store'.state.cfg = store.state.cfg /\ Generations' = Generations
        /\ Active - 1 # None
        /\ \A q : NamedBy(q)' <=> NamedBy(q)
    BY <1>1, <2>2, <2>3 DEF Active, Generations, NamedBy, Stores
  <2>51. Typed'
    BY <1>1, <1>2, <2>1, <2>2, <2>3, <2>4 DEF Typed
  <2>52. Referring'
    BY <1>1, <1>2, <2>1, <2>2, <2>3, <2>4 DEF Referring
  <2>53. Unprojected'
    BY <1>1, <1>2, <2>1, <2>2, <2>3, <2>4 DEF Unprojected
  <2>54. Routed'
    BY <1>1, <1>2, <2>1, <2>2, <2>3, <2>4 DEF Routed
  <2>55. Operating'
    BY <1>1, <1>2, <2>1, <2>2, <2>3, <2>4 DEF Operating
  <2>56. Numbered'
    BY <1>1, <1>2, <2>1, <2>2, <2>3, <2>4 DEF Numbered
  <2>57. Queued'
    BY <1>1, <1>2, <2>1, <2>2, <2>3, <2>4 DEF Queued
  <2>58. Receipted'
    BY <1>1, <1>2, <2>1, <2>2, <2>3, <2>4 DEF Receipted
  <2>59. Honoured'
    BY <1>1, <1>2, <2>1, <2>2, <2>3, <2>4 DEF Honoured
  <2>60. Shown'
    BY <1>1, <1>2, <2>1, <2>2, <2>3, <2>4 DEF Shown
  <2> QED
    BY <2>51, <2>52, <2>53, <2>54, <2>55, <2>56, <2>57, <2>58, <2>59, <2>60 DEF VInv
<1>8. CASE RollbackPortfolio
  <2>1. /\ pc = "rollback_portfolio" /\ UNCHANGED <<yaml, run, asked, used, made>>
        /\ \/ store' = store /\ pc' = "down"
           \/ store' = [store EXCEPT !.portfolio = Active] /\ pc' = "rollback_deck"
    BY <1>8 DEF RollbackPortfolio
  <2>2. yaml.op = None /\ Active # None /\ Active \in Generations /\ store.view.pop # None
    BY <1>1, <2>1 DEF Queued, Numbered, Referring, Active, Unprojected
  <2>3. /\ store' \in Stores /\ store'.portfolio \in {store.portfolio, Active}
        /\ store'.rounds = store.rounds /\ store'.cfg = store.cfg /\ store'.routes = store.routes /\ store'.pops = store.pops
        /\ store'.formed = store.formed /\ store'.closed = store.closed /\ store'.state = store.state
        /\ store'.deck = store.deck /\ store'.view = store.view /\ store'.receipt = store.receipt
    BY <1>1, <2>1, <2>2 DEF Stores, Numbers
  <2>4. /\ Active' = Active /\ Generations' = Generations
        /\ \A q : NamedBy(q)' <=> NamedBy(q)
    BY <1>1, <2>3 DEF Active, Generations, NamedBy
  <2>51. Typed'
    BY <1>1, <2>1, <2>2, <2>3, <2>4 DEF Typed
  <2>52. Referring'
    BY <1>1, <2>1, <2>2, <2>3, <2>4 DEF Referring
  <2>53. Unprojected'
    BY <1>1, <2>1, <2>2, <2>3, <2>4 DEF Unprojected
  <2>54. Routed'
    BY <1>1, <2>1, <2>2, <2>3, <2>4 DEF Routed
  <2>55. Operating'
    BY <1>1, <2>1, <2>2, <2>3, <2>4 DEF Operating
  <2>56. Numbered'
    BY <1>1, <2>1, <2>2, <2>3, <2>4 DEF Numbered
  <2>57. Queued'
    BY <1>1, <2>1, <2>2, <2>3, <2>4 DEF Queued
  <2>58. Receipted'
    BY <1>1, <2>1, <2>2, <2>3, <2>4 DEF Receipted
  <2>59. Honoured'
    BY <1>1, <2>1, <2>2, <2>3, <2>4 DEF Honoured
  <2>60. Shown'
    BY <1>1, <2>1, <2>2, <2>3, <2>4 DEF Shown
  <2> QED
    BY <2>51, <2>52, <2>53, <2>54, <2>55, <2>56, <2>57, <2>58, <2>59, <2>60 DEF VInv
<1>9. CASE RollbackDeck
  <2>1. /\ pc = "rollback_deck" /\ pc' = "rollback_receipt"
        /\ store' = [store EXCEPT !.deck = [pop |-> Active, cfg |-> store.cfg, done |-> FALSE],
                                  !.view.fresh = FALSE]
        /\ UNCHANGED <<yaml, run, asked, used, made>>
    BY <1>9 DEF RollbackDeck
  <2>2. yaml.op = None /\ Active # None /\ Active \in Generations /\ store.view.pop # None
    BY <1>1, <2>1 DEF Queued, Numbered, Referring, Active, Unprojected
  <2>3. /\ store' \in Stores
        /\ store'.deck = [pop |-> Active, cfg |-> store.cfg, done |-> FALSE]
        /\ store'.view.pop = store.view.pop /\ store'.view.fresh = FALSE
        /\ store'.rounds = store.rounds /\ store'.cfg = store.cfg /\ store'.routes = store.routes /\ store'.pops = store.pops
        /\ store'.formed = store.formed /\ store'.closed = store.closed /\ store'.state = store.state /\ store'.portfolio = store.portfolio
        /\ store'.receipt = store.receipt
    BY <1>1, <2>1, <2>2 DEF Stores, Numbers
  <2>4. /\ Active' = Active /\ Generations' = Generations
        /\ \A q : NamedBy(q)' <=> NamedBy(q)
    BY <1>1, <2>3 DEF Active, Generations, NamedBy
  <2>51. Typed'
    BY <1>1, <2>1, <2>2, <2>3, <2>4 DEF Typed
  <2>52. Referring'
    BY <1>1, <2>1, <2>2, <2>3, <2>4 DEF Referring
  <2>53. Unprojected'
    BY <1>1, <2>1, <2>2, <2>3, <2>4 DEF Unprojected
  <2>54. Routed'
    BY <1>1, <2>1, <2>2, <2>3, <2>4 DEF Routed
  <2>55. Operating'
    BY <1>1, <2>1, <2>2, <2>3, <2>4 DEF Operating
  <2>56. Numbered'
    BY <1>1, <2>1, <2>2, <2>3, <2>4 DEF Numbered
  <2>57. Queued'
    BY <1>1, <2>1, <2>2, <2>3, <2>4 DEF Queued
  <2>58. Receipted'
    BY <1>1, <2>1, <2>2, <2>3, <2>4 DEF Receipted
  <2>59. Honoured'
    BY <1>1, <2>1, <2>2, <2>3, <2>4 DEF Honoured
  <2>60. Shown'
    BY <1>1, <2>1, <2>2, <2>3, <2>4 DEF Shown
  <2> QED
    BY <2>51, <2>52, <2>53, <2>54, <2>55, <2>56, <2>57, <2>58, <2>59, <2>60 DEF VInv
<1> QED
  BY <1>4, <1>5, <1>6, <1>7, <1>8, <1>9
-----------------------------------------------------------------------------
(* The invariant.                                                          *)

LEMMA InitInv == ASSUME Init PROVE VInv
<1>1. PICK n \in RoundChoices :
        store = [rounds |-> n, cfg |-> 0, routes |-> [r \in Routes |-> "none"],
                 pops |-> <<>>, formed |-> FALSE, closed |-> {},
                 state |-> [pop |-> None, cfg |-> 0], portfolio |-> None,
                 deck |-> [pop |-> None, cfg |-> 0, done |-> FALSE],
                 view |-> [pop |-> None, fresh |-> FALSE],
                 receipt |-> [pop |-> None, by |-> None, status |-> "none"]]
  BY DEF Init
<1>2. /\ yaml = [at |-> "T4", op |-> None] /\ pc = "down" /\ run = NoRun /\ asked = {}
      /\ used = [b \in Budgets |-> 0] /\ made = [o \in Ops |-> 0]
  BY DEF Init
<1>3. <<>> \in Populations /\ DOMAIN <<>> = {}
  <2>1. <<>> \in [0 .. 0 - 1 -> Populated]
    OBVIOUS
  <2>2. 0 \in Nat
    OBVIOUS
  <2> QED
    BY <2>1, <2>2 DEF Populations
<1>4. Generations = {} /\ Active = None
  BY <1>1, <1>3 DEF Generations, Active
<1>5. NoRun \in Runs /\ store.receipt \in Receipts
  BY <1>1 DEF NoRun, Runs, Receipts
<1>6. store \in Stores
  BY <1>1, <1>3, <1>5 DEF Stores, Numbers
<1>7. Typed
  BY <1>2, <1>5, <1>6 DEF Typed
<1>8. Referring
  BY <1>1, <1>4 DEF Referring
<1>9. Unprojected
  BY <1>1, <1>2, <1>4 DEF Unprojected, Rolling
<1>10. Routed
  <2>1. run.busy = {} /\ run.left = {} /\ pc # "routes"
    BY <1>2 DEF NoRun
  <2>2. IsFiniteSet(run.busy) /\ Cardinality(run.busy) = 0
    BY <2>1, FS_EmptySet
  <2> QED
    BY <2>1, <2>2 DEF Routed
<1>11. Operating /\ Numbered /\ Shown
  BY <1>2 DEF Operating, Numbered, Shown, InT4, First, Science, Making, Finishing, Rolling
<1>12. Queued
  BY <1>2 DEF Queued, Rolling
<1>13. Receipted
  BY <1>1, <1>2 DEF Receipted, NamedBy, Finishing
<1>14. Honoured
  BY <1>2 DEF Honoured
<1> QED
  BY <1>7, <1>8, <1>9, <1>10, <1>11, <1>12, <1>13, <1>14 DEF VInv

LEMMA StutterInv == ASSUME VInv, UNCHANGED vars PROVE VInv'
<1> USE DEF vars
<1>1. Typed' /\ Referring' /\ Unprojected' /\ Routed'
  BY StoreKept DEF VInv, Typed, Referring, Unprojected, Routed
<1>2. Operating' /\ Numbered'
  BY StoreKept DEF VInv, Operating, Numbered
<1>3. Queued' /\ Receipted' /\ Honoured' /\ Shown'
  BY StoreKept DEF VInv, Queued, Receipted, Honoured, Shown
<1> QED
  BY <1>1, <1>2, <1>3 DEF VInv

\* The steps by what they do to the files.
Stops ==
    \/ (Stop /\ pc \in InT4 /\ UNCHANGED <<asked, made>> /\ used' \in [Budgets -> Nat])
    \/ ReopenRecovery \/ CardsFail \/ RollbackView
Begins == (BeginCards /\ Loadable) \/ (BeginOperation /\ Executable(run.op)) \/ BeginRun
WritesReceipt == Begins \/ WriteReceipt \/ CardsCompiled \/ CloseReceipt \/ RollbackReceipt
Walks ==
    /\ UNCHANGED <<store, yaml, asked, used, made>>
    /\ \/ StartT4 \/ \E r \in Routes : StartRoute(r)
       \/ (JoinRoutes /\ pc' = "p0") \/ AfterFormation \/ Evolve \/ Reprofile
       \/ Rescore \/ Check \/ Refuse \/ ReuseCards \/ (Verify /\ pc' = "finish")
Idles ==
    \/ Resume \/ OpenGate1 \/ RecoveryResolved \/ RetryT4 \/ PauseRecovery
    \/ Crash \/ SelectCandidate \/ Finish
Marks == (\E r \in Routes : RouteSucceeds(r) \/ RouteFails(r)) \/ MarkFormation \/ MarkSurvival
Points == InitializeState \/ WritePortfolio \/ Activate \/ CompileCards \/ Project
AtGate ==
    \/ \E o \in Ops : QueueOperation(o) \/ StageProfile(o)
    \/ QueueProfile \/ Rollback \/ RollbackPortfolio \/ RollbackDeck

LEMMA StepKinds ==
    ASSUME VInv, Next
    PROVE  \/ Stops \/ WritesReceipt \/ Walks \/ Idles \/ Marks
           \/ (WriteP0 \/ WritePopulation) \/ Points \/ AtGate \/ UNCHANGED vars
<1>1. used \in [Budgets -> Nat] /\ Typed
  BY DEF VInv, Typed
<1>2. CASE BeginCards \/ BeginOperation \/ JoinRoutes \/ Verify
  <2>1. pc \in InT4
    BY <1>2 DEF BeginCards, BeginOperation, JoinRoutes, Verify, InT4, First
  <2>2. CASE BeginCards
    BY <1>1, <2>1, <2>2 DEF BeginCards, Stops, WritesReceipt, Begins
  <2>3. CASE BeginOperation
    BY <1>1, <2>1, <2>3 DEF BeginOperation, Stops, WritesReceipt, Begins
  <2>4. CASE JoinRoutes
    BY <1>1, <2>1, <2>4 DEF JoinRoutes, Stops, Walks
  <2>5. CASE Verify
    BY <1>1, <2>1, <2>5 DEF Verify, Stops, Walks
  <2> QED
    BY <1>2, <2>2, <2>3, <2>4, <2>5
<1>3. CASE RoleFails
  <2>1. "fault" \in Budgets
    BY DEF Budgets
  <2>2. pc \in InT4 /\ Stop /\ UNCHANGED <<asked, made>> /\ Spend("fault")
    BY <1>3 DEF RoleFails, InT4, Science
  <2>3. used' \in [Budgets -> Nat]
    BY <1>1, <2>1, <2>2, SpendTyped
  <2> QED
    BY <2>2, <2>3 DEF Stops
<1>4. CASE BeginRun \/ WriteReceipt \/ CardsCompiled \/ CloseReceipt \/ RollbackReceipt
  BY <1>4 DEF WritesReceipt, Begins
<1>5. CASE \/ StartT4 \/ \E r \in Routes : StartRoute(r)
           \/ AfterFormation \/ Evolve \/ Reprofile \/ Rescore \/ Check \/ Refuse \/ ReuseCards
  BY <1>5 DEF Walks, StartT4, StartRoute, AfterFormation, Evolve, Reprofile, Rescore, Check,
              Refuse, ReuseCards
<1>6. CASE Idles \/ Marks \/ Points \/ AtGate \/ Over
  BY <1>6 DEF Over
<1>7. CASE ReopenRecovery \/ CardsFail \/ RollbackView
  BY <1>7 DEF Stops
<1> QED
  BY <1>2, <1>3, <1>4, <1>5, <1>6, <1>7
     DEF Next, T4Step, RunnerStep, Researcher, Idles, Marks, Points, AtGate

LEMMA NextInv == ASSUME VInv, [Next]_vars PROVE VInv'
<1>1. CASE UNCHANGED vars
  BY <1>1, StutterInv
<1>2. CASE Next
  <2>1. Stops => VInv'
    BY StopSteps DEF Stops
  <2>2. WritesReceipt => VInv'
    BY ReceiptSteps DEF WritesReceipt, Begins
  <2>3. Walks => VInv'
    BY WalkSteps DEF Walks
  <2>4. Idles => VInv'
    BY RunnerIdle DEF Idles
  <2>5. Marks => VInv'
    BY MarkSteps DEF Marks
  <2>6. WriteP0 \/ WritePopulation => VInv'
    BY PopulationSteps
  <2>7. Points => VInv'
    BY PointerSteps DEF Points
  <2>8. AtGate => VInv'
    BY GateSteps DEF AtGate
  <2> QED
    BY <1>2, <2>1, <2>2, <2>3, <2>4, <2>5, <2>6, <2>7, <2>8, StutterInv, StepKinds
<1> QED
  BY <1>1, <1>2

LEMMA EvolutionInvariant == Spec => []VInv
<1>1. Init => VInv
  BY InitInv
<1>2. VInv /\ [Next]_vars => VInv'
  BY NextInv
<1> QED
  BY <1>1, <1>2, PTL DEF Spec
-----------------------------------------------------------------------------
(* What follows for the properties.                                        *)

\* The files, state.yaml and the process stay well typed, and what refers to
\* a population refers to one that is on disk.
THEOREM EvolutionTypeCorrect == Spec => []TypeOK
<1>1. VInv => TypeOK
  <2> SUFFICES ASSUME VInv PROVE TypeOK
    OBVIOUS
  <2>1. /\ Typed /\ Referring /\ Routed /\ store \in Stores /\ run \in Runs
        /\ \A g \in Generations : store.pops[g] \in Populated
    BY GenerationFacts DEF VInv, Typed
  <2>2. /\ store.rounds \in RoundChoices /\ store.cfg \in Nat
        /\ store.routes \in [Routes -> {"none", "empty", "filled"}]
        /\ \A g \in Generations : store.pops[g] \in [cfg : Nat, by : Ops \cup {None}]
        /\ store.formed \in BOOLEAN /\ store.closed \subseteq Generations
        /\ store.receipt \in Receipts /\ store.portfolio \in Generations \cup {None}
    BY <2>1 DEF Referring, Stores, Populated
  <2>3. /\ store.state \in [pop : Generations \cup {None}, cfg : Nat]
        /\ store.deck \in [pop : Generations \cup {None}, cfg : Nat, done : BOOLEAN]
        /\ store.view \in [pop : Generations \cup {None}, fresh : BOOLEAN]
    BY <2>1 DEF Referring, Stores
  <2>4. /\ run.op \in Ops \cup {None} /\ run.busy \subseteq run.left
        /\ Cardinality(run.busy) <= Width
    BY <2>1 DEF Runs, Routed
  <2> QED
    BY <2>1, <2>2, <2>3, <2>4 DEF TypeOK, Typed
<1> QED
  BY <1>1, EvolutionInvariant, PTL

\* What the researcher decides on at Gate1 is the active population in its
\* current orientation, however T4 was interrupted.
THEOREM GateIsActive == Spec => []GateShowsActive
<1>1. VInv => GateShowsActive
  <2> SUFFICES ASSUME VInv, pc \in {"gate", "over"} PROVE GateShowsActive
    BY DEF GateShowsActive
  <2>1. Referring /\ Ready
    BY DEF VInv, Shown
  <2>2. /\ store.deck.done /\ store.deck.pop = store.portfolio /\ Active = store.portfolio
        /\ store.deck.cfg = store.cfg /\ store.view.fresh /\ Active # None
    BY <2>1 DEF Ready, CardsReady
  <2>3. store.view.pop = store.deck.pop /\ store.state.cfg = store.cfg
    BY <2>1, <2>2 DEF Referring, Active
  <2> QED
    BY <2>2, <2>3 DEF GateShowsActive
<1> QED
  BY <1>1, EvolutionInvariant, PTL

\* A receipt that names an operation names the one its population is the
\* result of, reconstructed or not.
THEOREM ReceiptIsMakers == Spec => []ReceiptNamesMaker
<1>1. VInv => ReceiptNamesMaker
  BY DEF VInv, Receipted, NamedBy, ReceiptNamesMaker
<1> QED
  BY <1>1, EvolutionInvariant, PTL

LEMMA PopulationsStep ==
    ASSUME VInv, [Next]_vars
    PROVE  \A g \in Generations : store'.pops[g] = store.pops[g]
<1>1. store \in Stores
  BY DEF VInv, Typed
<1>2. WriteP0 \/ WritePopulation => \A g \in Generations : store'.pops[g] = store.pops[g]
  BY PopulationSteps DEF Joined
<1>3. Stops => store'.pops = store.pops
  BY <1>1 DEF Stops, Stop, StopWith, ReopenRecovery, CardsFail, RollbackView, Stores
<1>4. WritesReceipt => store'.pops = store.pops
  <2>1. Begins => store'.pops = store.pops
    <3>1. Begins => store' = store \/ \E rc : store' = [store EXCEPT !.receipt = rc]
      BY DEF Begins, BeginCards, BeginOperation, BeginRun
    <3> QED
      BY <1>1, <3>1 DEF Stores
  <2> QED
    BY <1>1, <2>1 DEF WritesReceipt, WriteReceipt, CardsCompiled, CloseReceipt, RollbackReceipt,
                      Stores
<1>5. Walks => store'.pops = store.pops
  BY DEF Walks
<1>6. Idles => store'.pops = store.pops
  BY DEF Idles, Resume, OpenGate1, RecoveryResolved, RetryT4, PauseRecovery, Crash,
         SelectCandidate, Finish
<1>7. Marks => store'.pops = store.pops
  BY <1>1 DEF Marks, RouteSucceeds, RouteFails, RouteEnds, MarkFormation, MarkSurvival, Stores
<1>8. Points => store'.pops = store.pops
  BY <1>1 DEF Points, InitializeState, WritePortfolio, Activate, CompileCards, Project, Stores
<1>9. AtGate => store'.pops = store.pops
  BY <1>1 DEF AtGate, QueueOperation, StageProfile, QueueProfile, Rollback, RollbackPortfolio,
              RollbackDeck, Stores
<1>10. UNCHANGED vars => store'.pops = store.pops
  BY DEF vars
<1> QED
  BY <1>2, <1>3, <1>4, <1>5, <1>6, <1>7, <1>8, <1>9, <1>10, StepKinds

\* No population file is ever overwritten with something else, whatever is
\* active, however often a formation or an operation is interrupted
\* (_next_available_generation).
THEOREM PopulationsAreKept == Spec => [][\A g \in Generations : store'.pops[g] = store.pops[g]]_vars
<1> DEFINE Kept == \A g \in Generations : store'.pops[g] = store.pops[g]
<1>1. VInv /\ [Next]_vars => [Kept]_vars
  BY PopulationsStep
<1> HIDE DEF Kept
<1>2. Spec => [][Kept]_vars
  BY <1>1, EvolutionInvariant, PTL DEF Spec
<1> QED
  BY <1>2 DEF Kept

LEMMA RoutesStep ==
    ASSUME VInv, [Next]_vars, NEW r \in Routes, store.routes[r] = "filled"
    PROVE  store'.routes[r] = "filled"
<1>1. store \in Stores /\ store.routes \in [Routes -> {"none", "empty", "filled"}]
  BY DEF VInv, Typed, Stores
<1>2. Stops => store'.routes = store.routes
  BY <1>1 DEF Stops, Stop, StopWith, ReopenRecovery, CardsFail, RollbackView, Stores
<1>3. WritesReceipt => store'.routes = store.routes
  <2>1. Begins => store'.routes = store.routes
    <3>1. Begins => store' = store \/ \E rc : store' = [store EXCEPT !.receipt = rc]
      BY DEF Begins, BeginCards, BeginOperation, BeginRun
    <3> QED
      BY <1>1, <3>1 DEF Stores
  <2> QED
    BY <1>1, <2>1 DEF WritesReceipt, WriteReceipt, CardsCompiled, CloseReceipt, RollbackReceipt,
                      Stores
<1>4. Walks \/ Idles => store'.routes = store.routes
  BY DEF Walks, Idles, Resume, OpenGate1, RecoveryResolved, RetryT4, PauseRecovery, Crash,
         SelectCandidate, Finish
<1>5. Marks => store'.routes[r] = "filled"
  <2>1. ASSUME NEW q \in Routes, RouteSucceeds(q) \/ RouteFails(q)
        PROVE  store'.routes[r] = "filled"
    <3>1. PICK outcome : /\ pc = "routes" /\ q \in run.busy
                         /\ store' = [store EXCEPT !.routes[q] = outcome]
      BY <2>1 DEF RouteSucceeds, RouteFails, RouteEnds
    <3>2. q \in run.left /\ store.routes[q] # "filled"
      BY <3>1 DEF VInv, Routed
    <3>3. store'.routes = [store.routes EXCEPT ![q] = outcome]
      BY <1>1, <3>1 DEF Stores
    <3> QED
      BY <1>1, <3>2, <3>3
  <2>2. MarkFormation \/ MarkSurvival => store'.routes = store.routes
    BY <1>1 DEF MarkFormation, MarkSurvival, Stores
  <2> QED
    BY <2>1, <2>2 DEF Marks
<1>6. WriteP0 \/ WritePopulation => store'.routes = store.routes
  BY <1>1 DEF WriteP0, WritePopulation, Stores
<1>7. Points => store'.routes = store.routes
  BY <1>1 DEF Points, InitializeState, WritePortfolio, Activate, CompileCards, Project, Stores
<1>8. AtGate => store'.routes = store.routes
  BY <1>1 DEF AtGate, QueueOperation, StageProfile, QueueProfile, Rollback, RollbackPortfolio,
              RollbackDeck, Stores
<1>9. UNCHANGED vars => store'.routes = store.routes
  BY DEF vars
<1> QED
  BY <1>2, <1>3, <1>4, <1>5, <1>6, <1>7, <1>8, <1>9, StepKinds

\* A route with candidates is never generated again, for any number of
\* routes, of concurrent ones, of failures and of crashes.
THEOREM RoutesAreKept == Spec => RoutesKept
<1> DEFINE Kept == \A r \in Routes : store.routes[r] = "filled" => store'.routes[r] = "filled"
<1>1. VInv /\ [Next]_vars => [Kept]_vars
  BY RoutesStep
<1> HIDE DEF Kept
<1>2. Spec => [][Kept]_vars
  BY <1>1, EvolutionInvariant, PTL DEF Spec
<1> QED
  BY <1>2 DEF Kept, RoutesKept

LEMMA HonouredStep ==
    ASSUME VInv, [Next]_vars, yaml.op # None, yaml'.op # yaml.op
    PROVE  made[yaml.op] > 0 \/ run.refused \/ Kind[yaml.op] \in {"check", "rescore"}
<1>1. /\ Operating /\ Queued /\ Honoured
      /\ yaml \in Yamls
  BY DEF VInv, Typed, Yamls
<1>2. ~Stops
  <2>1. ASSUME Stop, pc \in InT4 PROVE FALSE
    BY <1>1, <2>1 DEF Stop, StopWith, Operating
  <2>2. ~(ReopenRecovery \/ CardsFail)
    BY <1>1 DEF ReopenRecovery, CardsFail, StopWith, Operating, InT4, Finishing
  <2>3. ~RollbackView
    BY <1>1 DEF RollbackView, Queued, Rolling
  <2> QED
    BY <2>1, <2>2, <2>3 DEF Stops
<1>3. ~WritesReceipt
  BY DEF WritesReceipt, Begins, BeginCards, BeginOperation, BeginRun, WriteReceipt, CardsCompiled,
         CloseReceipt, RollbackReceipt
<1>4. ~Walks /\ ~Marks /\ ~Points /\ ~WriteP0 /\ ~WritePopulation /\ ~UNCHANGED vars
  BY DEF Walks, Marks, RouteSucceeds, RouteFails, RouteEnds, MarkFormation, MarkSurvival, Points,
         InitializeState, WritePortfolio, Activate, CompileCards, Project, WriteP0,
         WritePopulation, vars
<1>5. ~AtGate
  BY <1>1 DEF AtGate, QueueOperation, StageProfile, QueueProfile, Rollback, RollbackPortfolio,
              RollbackDeck, Queued, Rolling
<1>6. Idles => Finish
  BY <1>1 DEF Idles, Resume, OpenGate1, RecoveryResolved, RetryT4, PauseRecovery, Crash,
              SelectCandidate, Yamls
<1>7. Finish
  BY <1>2, <1>3, <1>4, <1>5, <1>6, StepKinds
<1>8. pc = "finish" /\ run.op = yaml.op
  BY <1>1, <1>7 DEF Finish, Operating, InT4
<1> QED
  BY <1>1, <1>8 DEF Honoured

\* state.yaml does not forget an operation before its population was
\* activated, unless it makes none or was refused.
THEOREM OperationsHonoured == Spec => OperationHonoured
<1> DEFINE Kept == yaml.op # None /\ yaml'.op # yaml.op =>
                      made[yaml.op] > 0 \/ run.refused \/ Kind[yaml.op] \in {"check", "rescore"}
<1>1. VInv /\ [Next]_vars => [Kept]_vars
  BY HonouredStep
<1> HIDE DEF Kept
<1>2. Spec => [][Kept]_vars
  BY <1>1, EvolutionInvariant, PTL DEF Spec
<1> QED
  BY <1>2 DEF Kept, OperationHonoured

LEMMA RepeatStep ==
    ASSUME VInv, [Next]_vars, pc = "begin", pc' = "evolve", run.op # None, made[run.op] > 0
    PROVE  store.receipt.by = run.op /\ store.receipt.status = "completed"
<1> DEFINE rc == Ensured(run.op)
<1>1. /\ BeginOperation /\ Executable(run.op)
  <2>1. ~(Stops \/ Walks \/ Idles \/ Marks \/ WriteP0 \/ WritePopulation \/ Points \/ AtGate)
    BY DEF Stops, Stop, StopWith, ReopenRecovery, CardsFail, RollbackView, Walks, StartT4,
           StartRoute, JoinRoutes, AfterFormation, Evolve, Reprofile, Rescore, Check, Refuse,
           ReuseCards, Verify, Idles, Resume, OpenGate1, RecoveryResolved, RetryT4,
           PauseRecovery, Crash, SelectCandidate, Finish, Marks, RouteSucceeds, RouteFails,
           RouteEnds, MarkFormation, MarkSurvival, WriteP0, WritePopulation, Points,
           InitializeState, WritePortfolio, Activate, CompileCards, Project, AtGate,
           QueueOperation, StageProfile, QueueProfile, Rollback, RollbackPortfolio, RollbackDeck
  <2>2. WritesReceipt
    BY <2>1, StepKinds DEF vars
  <2> QED
    BY <2>2 DEF WritesReceipt, Begins, BeginCards, BeginRun, WriteReceipt, CardsCompiled,
                CloseReceipt, RollbackReceipt
<1>2. /\ Kind[run.op] = "evolve" /\ run.op = yaml.op /\ run.op \in Ops \cup {None}
      /\ store.receipt \in Receipts
  BY <1>1 DEF BeginOperation, VInv, Operating, InT4, Typed, Stores
<1>3. ~Pending(rc, run.op)
  BY <1>1 DEF BeginOperation, CardsOnly
<1>4. Binds(rc, run.op) /\ rc \in Receipts
  <2>1. Binds(Ensured(yaml.op), yaml.op)
    BY <1>2, HonouredByEnsured
  <2>2. Ensured(run.op) \in Receipts
    BY <1>2, EnsuredFacts
  <2>3. Ensured(run.op) = Ensured(yaml.op)
    BY <1>2
  <2> QED
    BY <1>2, <2>1, <2>2, <2>3 DEF Binds
<1>5. rc.by = run.op /\ rc.status = "completed"
  BY <1>3, <1>4 DEF Binds, Pending, Current, Receipts
<1>6. rc = store.receipt
  <2>1. CASE ~CardsReady /\ Current(store.receipt, run.op)
    <3>1. rc = IF store.receipt.status = "completed"
               THEN [store.receipt EXCEPT !.status = "repair"] ELSE store.receipt
      BY <2>1 DEF Ensured
    <3> QED
      BY <1>2, <1>5, <3>1 DEF Receipts
  <2>2. CASE ~CardsReady /\ ~Current(store.receipt, run.op)
    BY <1>5, <2>2 DEF Ensured
  <2>3. CASE CardsReady
    BY <2>3 DEF Ensured
  <2> QED
    BY <2>1, <2>2, <2>3
<1> QED
  BY <1>5, <1>6

\* An evolution that was activated starts again only after its receipt had
\* been closed: no crash, failure or repair before that repeats it.
THEOREM ReceiptsPreventRepeat == Spec => ReceiptPreventsRepeat
<1> DEFINE Kept == pc = "begin" /\ pc' = "evolve" /\ run.op # None /\ made[run.op] > 0 =>
                      store.receipt.by = run.op /\ store.receipt.status = "completed"
<1>1. VInv /\ [Next]_vars => [Kept]_vars
  BY RepeatStep
<1> HIDE DEF Kept
<1>2. Spec => [][Kept]_vars
  BY <1>1, EvolutionInvariant, PTL DEF Spec
<1> QED
  BY <1>2 DEF Kept, ReceiptPreventsRepeat

-----------------------------------------------------------------------------
(* T4 as module Ideation promises it.                                      *)

FollowsPromise == [Promise!IdeationNext]_<<Promise!archived, Promise!waiting, Promise!shown>>

Past == yaml.at = "past" => pc = "over"
Onward == FollowsPromise /\ Past'

Gated == {"gate", "staged", "over"}

(* A step the researcher does not see, or the end of a process.            *)
LEMMA QuietStep ==
    ASSUME yaml.at # "past", yaml'.at # "past", yaml'.op = yaml.op,
           store'.pops = store.pops, Active' = Active, made' = made,
           (store'.view.pop # None) = (store.view.pop # None),
           run'.refused \in {run.refused, FALSE}, Offered' \in {Offered, None}
    PROVE  Onward
<1>1. Promise!Leave
  BY DEF Promise!Leave, Promise!Forgets, Promise!archived, Generations
<1> QED
  BY <1>1 DEF Onward, FollowsPromise, Past, Promise!IdeationNext

(* T5 has its candidate: nothing happens any more.                         *)
LEMMA OverStep == ASSUME VInv, Past, yaml.at = "past", Next PROVE Onward
<1>1. pc = "over"
  BY DEF Past
<1> USE <1>1 DEF InT4, First, Science, Making, Finishing
<1>2. ~Stops
  BY DEF Stops, ReopenRecovery, CardsFail, RollbackView
<1>3. ~WritesReceipt
  BY DEF WritesReceipt, Begins, BeginCards, BeginOperation, BeginRun, WriteReceipt, CardsCompiled,
         CloseReceipt, RollbackReceipt
<1>4. ~Walks
  BY DEF Walks, StartT4, StartRoute, JoinRoutes, AfterFormation, Evolve, Reprofile, Rescore,
         Check, Refuse, ReuseCards, Verify
<1>5. ~Idles
  BY DEF Idles, Resume, OpenGate1, RecoveryResolved, RetryT4, PauseRecovery, Crash,
         SelectCandidate, Finish
<1>6. ~Marks /\ ~WriteP0 /\ ~WritePopulation
  BY DEF Marks, RouteSucceeds, RouteFails, RouteEnds, MarkFormation, MarkSurvival, WriteP0,
         WritePopulation
<1>7. ~Points /\ ~AtGate
  BY DEF Points, InitializeState, WritePortfolio, Activate, CompileCards, Project, AtGate,
         QueueOperation, StageProfile, QueueProfile, Rollback, RollbackPortfolio, RollbackDeck
<1>8. UNCHANGED vars
  BY <1>2, <1>3, <1>4, <1>5, <1>6, <1>7, StepKinds
<1>9. UNCHANGED <<Promise!archived, Promise!waiting, Promise!shown>>
  BY <1>8 DEF vars, Promise!archived, Promise!waiting, Promise!shown, Active, Generations, Offered
<1> QED
  BY <1>8, <1>9 DEF Onward, FollowsPromise, Past, vars

(* The recovery gate.                                                      *)
LEMMA StopsQuiet == ASSUME VInv, yaml.at # "past", Stops PROVE Onward
<1>1. /\ store \in Stores /\ yaml \in Yamls /\ run \in Runs
      /\ Operating /\ Queued /\ Unprojected /\ Numbered
  BY DEF VInv, Typed, Yamls
<1>2. ASSUME NEW st \in Stores, NEW o \in Ops \cup {None}, StopWith(st, o), o = yaml.op,
             st.pops = store.pops, st.state = store.state, made' = made,
             (st.view.pop # None) = (store.view.pop # None)
      PROVE  Onward
  <2>1. /\ store'.pops = store.pops /\ Active' = Active /\ store'.view = st.view
        /\ yaml'.at = "recovery" /\ yaml'.op = yaml.op /\ run'.refused = FALSE /\ pc' = "recovery"
    BY <1>2 DEF StopWith, Stores, NoRun, Active
  <2> QED
    BY <1>2, <2>1, QuietStep DEF Offered
<1>3. CASE Stop /\ pc \in InT4 /\ made' = made
  BY <1>1, <1>2, <1>3 DEF Stop, Operating, Runs
<1>4. CASE ReopenRecovery
  BY <1>1, <1>2, <1>4 DEF ReopenRecovery, Yamls
<1>5. CASE CardsFail
  <2> DEFINE st == [store EXCEPT !.deck = [pop |-> run.gen, cfg |-> store.cfg, done |-> FALSE],
                                 !.view.fresh = FALSE]
  <2>1. /\ st \in Stores /\ st.pops = store.pops /\ st.state = store.state
        /\ st.view.pop = store.view.pop
    BY <1>1 DEF Stores, Runs, Numbers
  <2>2. StopWith(st, run.op) /\ made' = made /\ run.op = yaml.op /\ run.op \in Ops \cup {None}
    BY <1>1, <1>5 DEF CardsFail, Operating, InT4, Finishing, Runs
  <2> QED
    BY <1>2, <2>1, <2>2
<1>6. CASE RollbackView
  <2> DEFINE st == [store EXCEPT !.view = [pop |-> Active, fresh |-> FALSE]]
  <2>1. /\ pc \in Rolling /\ StopWith(st, None) /\ made' = made
    BY <1>6 DEF RollbackView, Rolling
  <2>2. Active # None /\ store.view.pop # None /\ yaml.op = None
    BY <1>1, <2>1 DEF Numbered, Unprojected, Queued
  <2>3. /\ st \in Stores /\ st.pops = store.pops /\ st.state = store.state
        /\ st.view.pop = Active
    BY <1>1 DEF Stores, Active
  <2> QED
    BY <1>2, <2>1, <2>2, <2>3
<1> QED
  BY <1>3, <1>4, <1>5, <1>6 DEF Stops

(* The receipt, routes and markers.                                        *)
LEMMA ReceiptQuiet == ASSUME VInv, yaml.at # "past", WritesReceipt \/ Marks PROVE Onward
<1>1. /\ store \in Stores /\ run \in Runs /\ Kind \in [Ops -> Kinds]
  BY DEF VInv, Typed
<1>2. /\ store'.pops = store.pops /\ store'.state = store.state /\ store'.view = store.view
      /\ run'.refused = run.refused /\ pc' \notin Gated
      /\ UNCHANGED <<yaml, made>>
  <2>1. CASE BeginCards /\ Loadable
    BY <1>1, <2>1 DEF BeginCards, Stores, Runs, Gated
  <2>2. CASE BeginOperation /\ Executable(run.op)
    <3>1. run.op \in Ops
      BY <1>1, <2>2 DEF BeginOperation, Runs
    <3>2. Kind[run.op] \notin Gated
      BY <3>1 DEF Kinds, Gated
    <3> QED
      BY <1>1, <2>2, <3>2 DEF BeginOperation, Stores, Runs
  <2>3. CASE BeginRun
    <3>1. /\ pc' \in {"formed", "routes"} /\ UNCHANGED <<yaml, made>>
          /\ \E rc : store' = [store EXCEPT !.receipt = rc]
      BY <2>3 DEF BeginRun
    <3>2. run'.refused = run.refused
      <4>1. CASE store.formed
        BY <1>1, <2>3, <4>1 DEF BeginRun, Runs
      <4>2. CASE ~store.formed
        BY <1>1, <2>3, <4>2 DEF BeginRun, Runs
      <4> QED
        BY <4>1, <4>2
    <3> QED
      BY <1>1, <3>1, <3>2 DEF Stores, Gated
  <2>4. CASE WriteReceipt \/ CardsCompiled \/ CloseReceipt \/ RollbackReceipt
    <3>1. \E rc : store' = [store EXCEPT !.receipt = rc]
      BY <1>1, <2>4 DEF WriteReceipt, CardsCompiled, CloseReceipt, RollbackReceipt, Stores
    <3>2. /\ UNCHANGED <<yaml, run, made>>
          /\ pc' \in {"cards", "project", "verify", "rollback_view"}
      BY <2>4 DEF WriteReceipt, CardsCompiled, CloseReceipt, RollbackReceipt
    <3> QED
      BY <1>1, <3>1, <3>2 DEF Stores, Gated
  <2>5. CASE \E r \in Routes : RouteSucceeds(r) \/ RouteFails(r)
    <3>1. PICK r \in Routes, outcome \in {"filled", "empty"} : RouteEnds(r, outcome)
      BY <2>5 DEF RouteSucceeds, RouteFails
    <3> QED
      BY <1>1, <3>1 DEF RouteEnds, Stores, Runs, Gated
  <2>6. CASE MarkFormation \/ MarkSurvival
    <3>1. CASE MarkFormation
      BY <1>1, <3>1 DEF MarkFormation, Stores, Gated
    <3>2. CASE MarkSurvival
      BY <1>1, <3>2 DEF MarkSurvival, Stores, Runs, Gated
    <3> QED
      BY <2>6, <3>1, <3>2
  <2> QED
    BY <2>1, <2>2, <2>3, <2>4, <2>5, <2>6 DEF WritesReceipt, Begins, Marks
<1> QED
  BY <1>2, QuietStep DEF Offered, Gated, Active

(* Steps in memory; a refusal is one the researcher is told of.            *)
LEMMA WalksOnward == ASSUME VInv, yaml.at # "past", Walks PROVE Onward
<1>1. run \in Runs /\ Operating
  BY DEF VInv, Typed
<1>2. /\ store'.pops = store.pops /\ Active' = Active /\ store'.view = store.view
      /\ UNCHANGED <<yaml, made>>
  BY DEF Walks, Active
<1>3. CASE Refuse
  <2>1. /\ pc = "evolve" /\ pc' = "verify" /\ run.op = yaml.op /\ run.op # None
        /\ Kind[run.op] = "evolve" /\ run'.refused = TRUE
    BY <1>1, <1>3 DEF Refuse, Operating, InT4, Science, Runs
  <2>2. Promise!Refuse
    BY <1>2, <2>1 DEF Promise!Refuse, Promise!Closed, Promise!archived, Promise!shown,
                      Generations, Offered
  <2> QED
    BY <1>2, <2>2 DEF Onward, FollowsPromise, Past, Promise!IdeationNext
<1>4. CASE ~Refuse
  <2>1. pc' \notin Gated
    BY <1>4 DEF Walks, StartT4, StartRoute, JoinRoutes, AfterFormation, Evolve, Reprofile,
                Rescore, Check, ReuseCards, Verify, Gated
  <2>2. run'.refused \in {run.refused, FALSE}
    <3>1. CASE StartT4
      BY <3>1 DEF StartT4, NoRun
    <3>2. CASE (\E r \in Routes : StartRoute(r)) \/ AfterFormation
      BY <1>1, <3>2 DEF StartRoute, AfterFormation, Runs
    <3>3. CASE JoinRoutes /\ pc' = "p0"
      BY <3>3 DEF JoinRoutes, Stop, StopWith
    <3>4. CASE Evolve \/ Reprofile \/ Rescore \/ Check \/ ReuseCards
      BY <3>4 DEF Evolve, Reprofile, Rescore, Check, ReuseCards
    <3>5. CASE Verify /\ pc' = "finish"
      BY <3>5 DEF Verify, Stop, StopWith
    <3> QED
      BY <1>4, <3>1, <3>2, <3>3, <3>4, <3>5 DEF Walks
  <2> QED
    BY <1>2, <2>1, <2>2, QuietStep DEF Offered, Gated
<1> QED
  BY <1>3, <1>4

(* What is ready shows the active population.                              *)
LEMMA ReadyShowsActive ==
    ASSUME VInv, Ready
    PROVE  store.view.pop = Active /\ Active \in Generations /\ Active \in Nat
BY GenerationFacts DEF VInv, Ready, ProjectionReady, CardsReady, Referring, Active

(* Between two agents; the gate opens, or the researcher chooses.          *)
LEMMA IdlesOnward == ASSUME VInv, yaml.at # "past", Idles PROVE Onward
<1>1. /\ run \in Runs /\ yaml \in Yamls /\ made \in [Ops -> Nat]
      /\ Operating /\ Queued /\ Honoured /\ Shown
  BY DEF VInv, Typed, Yamls
<1>2. /\ UNCHANGED <<store, made>> /\ Active' = Active /\ Generations' = Generations
      /\ None \notin Nat
  BY DEF Idles, Resume, OpenGate1, RecoveryResolved, RetryT4, PauseRecovery, Crash,
         SelectCandidate, Finish, Active, Generations
<1>3. CASE Resume \/ RecoveryResolved \/ RetryT4 \/ PauseRecovery \/ Crash
  <2>1. /\ pc' \in {"step", "down"} /\ yaml'.op = yaml.op /\ yaml'.at # "past"
        /\ run'.refused \in {run.refused, FALSE}
    <3>1. CASE Resume \/ Crash
      <4>1. UNCHANGED yaml /\ pc' \in {"step", "down"} /\ run' \in {run, NoRun}
        BY <3>1 DEF Resume, Crash
      <4> QED
        <5>1. NoRun.refused = FALSE
          BY DEF NoRun
        <5>2. run'.refused = run.refused \/ run'.refused = NoRun.refused
          BY <4>1
        <5> QED
          BY <4>1, <5>1, <5>2
    <3>2. CASE RecoveryResolved \/ RetryT4 \/ PauseRecovery
      <4>1. /\ yaml' = [yaml EXCEPT !.at = "T4"] /\ UNCHANGED run
            /\ pc' \in {"step", "down"}
        BY <3>2 DEF RecoveryResolved, RetryT4, PauseRecovery
      <4> QED
        BY <1>1, <4>1 DEF Yamls
    <3> QED
      BY <1>3, <3>1, <3>2
  <2> QED
    BY <1>2, <2>1, QuietStep DEF Offered
<1>4. CASE OpenGate1
  <2>1. /\ pc = "step" /\ pc' = "gate" /\ Ready /\ yaml.op = None /\ UNCHANGED run
        /\ yaml'.at = "gate1" /\ yaml'.op = yaml.op
    BY <1>1, <1>4 DEF OpenGate1, Queued, Yamls
  <2>2. store.view.pop = Active /\ Active # None
    BY <1>2, <2>1, ReadyShowsActive
  <2>3. Promise!Open
    BY <1>2, <2>1, <2>2 DEF Promise!Open, Promise!Closed, Promise!archived, Promise!waiting, Offered
  <2> QED
    BY <2>1, <2>3 DEF Onward, FollowsPromise, Past, Promise!IdeationNext
<1>5. CASE SelectCandidate
  <2>1. /\ pc = "gate" /\ pc' = "over" /\ Ready /\ yaml.op = None /\ UNCHANGED run
        /\ yaml'.at = "past" /\ yaml'.op = yaml.op
    BY <1>1, <1>5 DEF SelectCandidate, Queued, Shown, Yamls
  <2>2. store.view.pop = Active /\ Active # None
    BY <1>2, <2>1, ReadyShowsActive
  <2>3. Promise!Choose
    BY <1>2, <2>1, <2>2 DEF Promise!Choose, Promise!Closed, Promise!archived, Promise!waiting,
                            Offered
  <2> QED
    BY <2>1, <2>3 DEF Onward, FollowsPromise, Past, Promise!IdeationNext
<1>6. CASE Finish
  <2>1. /\ pc = "finish" /\ pc' = "step" /\ run.op = yaml.op /\ run'.refused = FALSE
        /\ yaml'.at = "gate1" /\ yaml'.op = None
    BY <1>1, <1>6 DEF Finish, Operating, InT4, NoRun
  <2>2. CASE yaml.op = None
    BY <1>2, <2>1, <2>2, QuietStep DEF Offered
  <2>3. CASE yaml.op # None
    <3>1. yaml.op \in Ops
      BY <1>1, <2>3 DEF Yamls
    <3>2. made[yaml.op] > 0 \/ run.refused \/ Kind[yaml.op] \in {"check", "rescore"}
      BY <1>1, <2>1, <2>3 DEF Honoured
    <3>3. Promise!Settle
      BY <1>2, <2>1, <2>3, <3>1, <3>2
         DEF Promise!Settle, Promise!Closed, Promise!Forgets, Promise!archived, Promise!shown, Offered
    <3> QED
      BY <2>1, <3>3 DEF Onward, FollowsPromise, Past, Promise!IdeationNext
  <2> QED
    BY <2>2, <2>3
<1> QED
  BY <1>3, <1>4, <1>5, <1>6 DEF Idles

(* A population is archived for the operation that waits, or written again *)
(* as it was.                                                              *)
LEMMA PopulationOnward ==
    ASSUME VInv, yaml.at # "past", WriteP0 \/ WritePopulation
    PROVE  Onward
<1>1. /\ Generations' = Generations \cup {run.gen} /\ store'.pops[run.gen].by = run.op
      /\ \A h \in Generations : store'.pops[h] = store.pops[h]
  BY PopulationSteps DEF Joined
<1>2. /\ pc \in {"p0", "population"} /\ pc' \in {"p0_state", "portfolio"}
      /\ UNCHANGED <<yaml, run, made>> /\ store \in Stores
      /\ \E g, cfg : store' = [store EXCEPT !.pops = Write(g, cfg)]
  BY DEF WriteP0, WritePopulation, VInv, Typed
<1>3. /\ Active' = Active /\ store'.view = store.view
      /\ store'.pops = [h \in Generations' |-> store'.pops[h]]
  <2>1. PICK g, cfg : store' = [store EXCEPT !.pops = Write(g, cfg)]
    BY <1>2
  <2>2. Write(g, cfg) = [h \in DOMAIN Write(g, cfg) |-> Write(g, cfg)[h]]
    BY DEF Write
  <2> QED
    BY <1>2, <2>1, <2>2 DEF Stores, Active, Generations
<1>4. run.op = yaml.op
  BY <1>2 DEF VInv, Operating, InT4, First, Science, Making
<1>5. Offered = None /\ Offered' = None
  BY <1>2 DEF Offered
<1>6. CASE run.gen \notin Generations
  <2>1. Promise!Draft
    BY <1>1, <1>2, <1>3, <1>4, <1>5, <1>6
       DEF Generations, Promise!Draft, Promise!Closed, Promise!waiting, Promise!shown
  <2> QED
    BY <1>2, <2>1 DEF Onward, FollowsPromise, Past, Promise!IdeationNext
<1>7. CASE run.gen \in Generations
  <2>1. store.pops = [h \in Generations |-> store.pops[h]]
    BY PopulationsFacts DEF VInv
  <2>2. store'.pops = store.pops
    BY <1>1, <1>3, <1>7, <2>1
  <2>3. Promise!Leave
    BY <1>2, <1>3, <1>5, <2>2 DEF Promise!Leave, Promise!Forgets, Promise!archived
  <2> QED
    BY <1>2, <2>3 DEF Onward, FollowsPromise, Past, Promise!IdeationNext
<1> QED
  BY <1>6, <1>7

(* The pointers.  A population becomes the active one for the operation    *)
(* that waits, or before anything was shown.                               *)
LEMMA PointsOnward == ASSUME VInv, yaml.at # "past", Points PROVE Onward
<1>1. /\ run \in Runs /\ store \in Stores /\ made \in [Ops -> Nat]
      /\ Operating /\ Numbered /\ Unprojected /\ None \notin Nat
      /\ Generations \subseteq Nat
  BY GenerationFacts DEF VInv, Typed
<1>2. UNCHANGED <<yaml, run>> /\ pc \notin Gated /\ pc' \notin Gated
  BY DEF Points, InitializeState, WritePortfolio, Activate, CompileCards, Project, Gated
<1>3. store'.pops = store.pops /\ Generations' = Generations
  BY <1>1 DEF Points, InitializeState, WritePortfolio, Activate, CompileCards, Project, Stores,
              Generations
<1>4. Offered = None /\ Offered' = None
  BY <1>2 DEF Offered, Gated
<1>5. CASE WritePortfolio \/ CompileCards
  <2>1. Active' = Active /\ store'.view.pop = store.view.pop /\ made' = made
    <3>1. CASE WritePortfolio
      BY <1>1, <3>1 DEF WritePortfolio, Stores, Active
    <3>2. CASE CompileCards
      BY <1>1, <3>2 DEF CompileCards, Stores, Active
    <3> QED
      BY <1>5, <3>1, <3>2
  <2> QED
    BY <1>2, <1>3, <1>4, <2>1, QuietStep
<1>6. CASE InitializeState
  <2>1. /\ pc = "p0_state" /\ Active' = 0 /\ store'.view = store.view /\ made' = made
    BY <1>1, <1>6 DEF InitializeState, Stores, Active
  <2>2. store.view.pop = None /\ run.op = None /\ yaml.op = None /\ 0 \in Generations
    BY <1>1, <2>1 DEF Operating, InT4, First
  <2>3. store.pops[0].by = None
    BY <1>1, <2>2 DEF Unprojected
  <2>4. Promise!Grow
    BY <1>2, <1>3, <1>4, <2>1, <2>2, <2>3
       DEF Generations, Promise!Grow, Promise!Closed, Promise!waiting, Promise!shown
  <2> QED
    BY <1>2, <2>4 DEF Onward, FollowsPromise, Past, Promise!IdeationNext
<1>7. CASE Activate
  <2>1. /\ pc = "activate" /\ Active' = run.gen /\ store'.view = store.view
        /\ made' = IF run.op = None THEN made ELSE [made EXCEPT ![run.op] = @ + 1]
    BY <1>1, <1>7 DEF Activate, Stores, Active
  <2>2. /\ run.gen \in Generations /\ store.pops[run.gen].by = run.op /\ run.op = yaml.op
        /\ run.op # None => /\ Active # run.gen
                            /\ Kind[run.op] \in {"evolve", "reprofile"}
        /\ run.op = None => store.view.pop = None
    BY <1>1, <2>1 DEF Operating, Numbered, InT4, Science, Making
  <2>3. CASE run.op = None
    <3>1. Promise!Grow
      BY <1>2, <1>3, <1>4, <2>1, <2>2, <2>3
         DEF Generations, Promise!Grow, Promise!Closed, Promise!waiting, Promise!shown
    <3> QED
      BY <1>2, <3>1 DEF Onward, FollowsPromise, Past, Promise!IdeationNext
  <2>4. CASE run.op # None
    <3>1. run.op \in Ops
      BY <1>1, <2>4 DEF Runs
    <3>2. {o \in Ops : made'[o] > 0} = {o \in Ops : made[o] > 0} \cup {run.op}
      BY <1>1, <2>1, <2>4, <3>1
    <3>3. Promise!Adopt
      BY <1>2, <1>3, <1>4, <2>1, <2>2, <2>4, <3>2
         DEF Generations, Promise!Adopt, Promise!Closed, Promise!shown
    <3> QED
      BY <1>2, <3>3 DEF Onward, FollowsPromise, Past, Promise!IdeationNext
  <2> QED
    BY <2>3, <2>4
<1>8. CASE Project
  <2>1. /\ pc = "project" /\ Active' = Active /\ store'.view.pop = run.gen /\ made' = made
    BY <1>1, <1>8 DEF Project, Stores, Active
  <2>2. Active = run.gen /\ run.gen \in Nat
    BY <1>1, <2>1 DEF Numbered, Finishing, Runs
  <2>3. Promise!Present
    BY <1>1, <1>2, <1>3, <1>4, <2>1, <2>2
       DEF Promise!Present, Promise!Closed, Promise!archived, Promise!waiting
  <2> QED
    BY <1>2, <2>3 DEF Onward, FollowsPromise, Past, Promise!IdeationNext
<1> QED
  BY <1>5, <1>6, <1>7, <1>8 DEF Points

(* The answers at the gate.                                                *)
LEMMA GateOnward == ASSUME VInv, yaml.at # "past", AtGate PROVE Onward
<1>1. /\ run \in Runs /\ store \in Stores /\ yaml \in Yamls /\ asked \subseteq Ops
      /\ Numbered /\ Unprojected /\ Queued /\ Shown /\ None \notin Nat \cup Ops
  BY DEF VInv, Typed, Yamls
<1>2. yaml.op = None /\ store.view.pop # None
  BY <1>1 DEF AtGate, QueueOperation, StageProfile, QueueProfile, Rollback, RollbackPortfolio,
              RollbackDeck, Queued, Unprojected, Rolling
<1>3. store'.pops = store.pops /\ Generations' = Generations /\ made' = made
  BY <1>1 DEF AtGate, QueueOperation, StageProfile, QueueProfile, Rollback, RollbackPortfolio,
              RollbackDeck, Stores, Generations
<1>4. ASSUME NEW o \in Ops, QueueOperation(o) \/ (QueueProfile /\ o = run.op)
      PROVE  Onward
  <2>1. /\ pc \in {"gate", "staged"} /\ pc' = "step" /\ UNCHANGED store
        /\ yaml'.at = "T4" /\ yaml'.op = o /\ run'.refused \in {run.refused, FALSE}
    <3>1. yaml' = [at |-> "T4", op |-> o] /\ run' \in {run, NoRun}
      BY <1>4 DEF QueueOperation, QueueProfile
    <3>2. pc \in {"gate", "staged"} /\ pc' = "step" /\ UNCHANGED store
      BY <1>4 DEF QueueOperation, QueueProfile
    <3>3. NoRun.refused = FALSE
      BY DEF NoRun
    <3>4. run'.refused = run.refused \/ run'.refused = NoRun.refused
      BY <3>1
    <3> QED
      BY <3>1, <3>2, <3>3, <3>4
  <2>2. Offered # None /\ Offered' = None
    BY <1>2, <2>1 DEF Offered
  <2>3. Promise!Ask
    BY <1>1, <1>2, <1>3, <2>1, <2>2
       DEF Promise!Ask, Promise!Closed, Promise!Forgets, Promise!archived, Active
  <2> QED
    BY <2>1, <2>3 DEF Onward, FollowsPromise, Past, Promise!IdeationNext
<1>5. ASSUME NEW o \in Ops, StageProfile(o) PROVE Onward
  <2>1. /\ pc = "gate" /\ pc' = "staged" /\ UNCHANGED yaml /\ run'.refused = FALSE
        /\ store'.view = store.view /\ Active' = Active
    BY <1>1, <1>5 DEF StageProfile, Stores, Active, NoRun
  <2> QED
    BY <1>3, <2>1, QuietStep DEF Offered
<1>6. CASE QueueProfile
  <2>1. run.op \in Ops
    BY <1>1, <1>6 DEF QueueProfile, Queued
  <2> QED
    BY <1>4, <1>6, <2>1
<1>7. CASE Rollback
  <2>1. /\ pc = "gate" /\ pc' = "rollback_portfolio" /\ Active > 0 /\ Active' = Active - 1
        /\ store'.view = store.view /\ UNCHANGED <<yaml, run>> /\ Ready
    BY <1>1, <1>7 DEF Rollback, Stores, Active, Shown
  <2>2. store.view.pop = Active /\ Active \in Generations /\ Active \in Nat
    BY <2>1, ReadyShowsActive
  <2>3. Active - 1 \in Generations
    BY <2>1, <2>2, PopulationsFacts DEF VInv
  <2>4. Offered = Active /\ Offered # None /\ Offered' = None
    BY <1>1, <2>1, <2>2 DEF Offered
  <2>5. Promise!Undo
    BY <1>2, <1>3, <2>1, <2>2, <2>3, <2>4
       DEF Generations, Promise!Undo, Promise!Closed, Promise!waiting
  <2> QED
    BY <2>1, <2>5 DEF Onward, FollowsPromise, Past, Promise!IdeationNext
<1>8. CASE RollbackPortfolio \/ RollbackDeck
  <2>1. /\ pc' \notin Gated /\ UNCHANGED <<yaml, run>> /\ Active' = Active
        /\ store'.view.pop = store.view.pop
    <3>1. CASE RollbackPortfolio
      BY <1>1, <3>1 DEF RollbackPortfolio, Stores, Active, Gated
    <3>2. CASE RollbackDeck
      BY <1>1, <3>2 DEF RollbackDeck, Stores, Active, Gated
    <3> QED
      BY <1>8, <3>1, <3>2
  <2> QED
    BY <1>3, <2>1, QuietStep DEF Offered, Gated
<1> QED
  BY <1>4, <1>5, <1>6, <1>7, <1>8 DEF AtGate

LEMMA StepOnward == ASSUME VInv, Past, [Next]_vars PROVE Onward
<1>1. CASE UNCHANGED vars
  BY <1>1 DEF vars, Onward, FollowsPromise, Past, Promise!archived, Promise!waiting,
              Promise!shown, Active, Generations, Offered
<1>2. CASE Next /\ yaml.at = "past"
  BY <1>2, OverStep
<1>3. CASE Next /\ yaml.at # "past"
  BY <1>1, <1>3, StepKinds, StopsQuiet, ReceiptQuiet, WalksOnward, IdlesOnward,
     PopulationOnward, PointsOnward, GateOnward
<1> QED
  BY <1>1, <1>2, <1>3

\* Whatever is interrupted, fails or is rolled back, T4 keeps what module
\* Ideation promises the researcher: no population is lost or passed off as
\* another operation's, after the first presentation only what was asked for
\* becomes active, a request is not dropped, and T5 starts from what was
\* shown.
THEOREM EvolutionKeepsPromise == Spec => FollowsIdeation
<1>1. Init => Promise!IdeationInit /\ Past
  <2> SUFFICES ASSUME Init PROVE Promise!IdeationInit /\ Past
    OBVIOUS
  <2>1. /\ store.pops = <<>> /\ store.state.pop = None /\ store.view.pop = None
        /\ yaml.op = None /\ yaml.at = "T4" /\ pc = "down" /\ run.refused = FALSE
        /\ \A o \in Ops : made[o] = 0
    BY DEF Init, NoRun
  <2>2. DOMAIN <<>> = {}
    OBVIOUS
  <2>3. Generations = {} /\ Active = None /\ Offered = None /\ {o \in Ops : made[o] > 0} = {}
    BY <2>1, <2>2 DEF Generations, Active, Offered
  <2> QED
    BY <2>1, <2>3 DEF Promise!IdeationInit, Past
<1>2. VInv /\ Past /\ [Next]_vars => Onward
  BY StepOnward
<1>3. Spec => Promise!IdeationSpec
  BY <1>1, <1>2, EvolutionInvariant, PTL DEF Spec, Onward, FollowsPromise, Promise!IdeationSpec
<1> QED
  BY <1>3 DEF FollowsIdeation

-----------------------------------------------------------------------------
(* A start of T4 comes to an end.                                          *)

Resting == {"down", "recovery", "gate", "over"}

(* The steps of a process in their order; between two agents it depends on *)
(* state.yaml what comes next.                                             *)
Stage ==
    [staged |-> 0, rollback_portfolio |-> 1, rollback_deck |-> 2, rollback_receipt |-> 3,
     rollback_view |-> 4, begin |-> 7, routes |-> 8, p0 |-> 9, p0_state |-> 10,
     p0_marker |-> 11, formed |-> 12, evolve |-> 13, reprofile |-> 13, rescore |-> 13,
     check |-> 13, population |-> 14, portfolio |-> 15, activate |-> 16, marker |-> 17,
     receipt |-> 18, cards |-> 19, compiled |-> 20, project |-> 21, close |-> 22,
     verify |-> 23, finish |-> 24]
Between == [recovery |-> 5, T4 |-> 6, gate1 |-> 25, past |-> 25]
Reached == IF pc = "step" THEN Between[yaml.at] ELSE Stage[pc]

(* A later step, the next of the rounds, or one route more started or done. *)
Advances ==
    \/ Reached < Reached'
    \/ /\ pc = "marker" /\ pc' = "evolve"
       /\ run.gen < run'.gen /\ run'.gen <= run'.last /\ run'.last = run.last
    \/ /\ pc = "routes" /\ pc' = "routes"
       /\ run'.left \subseteq run.left /\ run'.busy \subseteq run'.left
       /\ \/ run'.left # run.left
          \/ run.busy \subseteq run'.busy /\ run'.busy # run.busy
GoesOn == pc \notin Resting /\ pc' \notin Resting => Advances

(* From one step to a later one.                                           *)
LEMMA LaterStep ==
    ASSUME pc \in DOMAIN Stage, pc' \in DOMAIN Stage, Stage[pc] < Stage[pc']
    PROVE  GoesOn
BY DEF GoesOn, Advances, Reached, Stage

LEMMA T4GoesOn == ASSUME VInv, T4Step PROVE GoesOn
<1>1. run \in Runs /\ yaml \in Yamls /\ Kind \in [Ops -> Kinds] /\ Routed
  BY DEF VInv, Typed, Yamls
<1>2. CASE pc' \in Resting
  BY <1>2 DEF GoesOn
<1> SUFFICES ASSUME pc' \notin Resting PROVE GoesOn
  BY <1>2
<1> USE DEF Resting
<1>3. CASE BeginCards \/ BeginRun
  <2>1. pc = "begin" /\ pc' \in {"cards", "receipt", "formed", "routes"}
    BY <1>3 DEF BeginCards, BeginRun, Stop, StopWith
  <2> QED
    BY <2>1, LaterStep DEF Stage
<1>4. CASE BeginOperation
  <2>1. run.op \in Ops
    BY <1>1, <1>4 DEF BeginOperation, Runs
  <2>2. pc = "begin" /\ pc' \in Kinds
    BY <1>1, <1>4, <2>1 DEF BeginOperation, Stop, StopWith
  <2> QED
    BY <2>2, LaterStep DEF Stage, Kinds
<1>5. CASE \E r \in Routes : StartRoute(r) \/ RouteSucceeds(r) \/ RouteFails(r)
  <2>1. PICK r \in Routes : StartRoute(r) \/ RouteSucceeds(r) \/ RouteFails(r)
    BY <1>5
  <2>2. run.busy \subseteq run.left /\ pc = "routes" /\ pc' = "routes"
    BY <1>1, <2>1 DEF Routed, StartRoute, RouteSucceeds, RouteFails, RouteEnds
  <2>3. CASE StartRoute(r)
    <3>1. /\ r \in run.left \ run.busy /\ run'.left = run.left
          /\ run'.busy = run.busy \cup {r}
      BY <1>1, <2>3 DEF StartRoute, Runs
    <3> QED
      BY <2>2, <3>1 DEF GoesOn, Advances
  <2>4. CASE RouteSucceeds(r) \/ RouteFails(r)
    <3>1. /\ r \in run.busy /\ run'.left = run.left \ {r} /\ run'.busy = run.busy \ {r}
      BY <1>1, <2>4 DEF RouteSucceeds, RouteFails, RouteEnds, Runs
    <3> QED
      BY <2>2, <3>1 DEF GoesOn, Advances
  <2> QED
    BY <2>1, <2>3, <2>4
<1>6. CASE JoinRoutes \/ WriteP0 \/ InitializeState \/ MarkFormation \/ AfterFormation
  <2>1. \/ pc = "routes" /\ pc' = "p0"
        \/ pc = "p0" /\ pc' = "p0_state"
        \/ pc = "p0_state" /\ pc' = "p0_marker"
        \/ pc = "p0_marker" /\ pc' = "formed"
        \/ pc = "formed" /\ pc' \in {"rescore", "evolve"}
    BY <1>6 DEF JoinRoutes, WriteP0, InitializeState, MarkFormation, AfterFormation, Stop, StopWith
  <2> QED
    BY <2>1, LaterStep DEF Stage
<1>7. CASE Evolve \/ Reprofile \/ Rescore \/ Check \/ Refuse \/ RoleFails
  <2>1. /\ pc \in {"evolve", "reprofile", "rescore", "check"}
        /\ pc' \in {"activate", "population", "portfolio", "receipt", "finish", "verify"}
    BY <1>7 DEF Evolve, Reprofile, Rescore, Check, Refuse, RoleFails, Stop, StopWith
  <2> QED
    BY <2>1, LaterStep DEF Stage
<1>8. CASE WritePopulation \/ WritePortfolio \/ Activate \/ WriteReceipt
  <2>1. \/ pc = "population" /\ pc' = "portfolio"
        \/ pc = "portfolio" /\ pc' = "activate"
        \/ pc = "activate" /\ pc' \in {"receipt", "marker"}
        \/ pc = "receipt" /\ pc' = "cards"
    BY <1>8 DEF WritePopulation, WritePortfolio, Activate, WriteReceipt
  <2> QED
    BY <2>1, LaterStep DEF Stage
<1>9. CASE MarkSurvival
  <2>1. CASE run.gen < run.last
    <3>1. /\ pc = "marker" /\ pc' = "evolve" /\ run'.gen = run.gen + 1 /\ run'.last = run.last
          /\ run.gen \in Nat /\ run.last \in Nat
      BY <1>1, <1>9, <2>1 DEF MarkSurvival, Runs
    <3> QED
      BY <2>1, <3>1 DEF GoesOn, Advances
  <2>2. CASE ~(run.gen < run.last)
    BY <1>9, <2>2, LaterStep DEF MarkSurvival, Stage
  <2> QED
    BY <2>1, <2>2
<1>10. CASE ReuseCards \/ CompileCards \/ CardsFail \/ CardsCompiled \/ Project \/ CloseReceipt
            \/ Verify
  <2>1. \/ pc = "cards" /\ pc' \in {"project", "compiled"}
        \/ pc = "compiled" /\ pc' = "project"
        \/ pc = "project" /\ pc' = "close"
        \/ pc = "close" /\ pc' = "verify"
        \/ pc = "verify" /\ pc' = "finish"
    BY <1>10 DEF ReuseCards, CompileCards, CardsFail, CardsCompiled, Project, CloseReceipt, Verify,
                 Stop, StopWith
  <2> QED
    BY <2>1, LaterStep DEF Stage
<1>11. CASE Finish
  <2>1. pc = "finish" /\ pc' = "step" /\ yaml'.at = "gate1"
    BY <1>11 DEF Finish
  <2> QED
    BY <2>1 DEF GoesOn, Advances, Reached, Stage, Between
<1> QED
  BY <1>3, <1>4, <1>5, <1>6, <1>7, <1>8, <1>9, <1>10, <1>11 DEF T4Step

LEMMA ProcessGoesOn == ASSUME VInv, [Next]_vars PROVE [GoesOn]_vars
<1>1. CASE UNCHANGED vars
  BY <1>1
<1>2. CASE T4Step
  BY <1>2, T4GoesOn
<1>3. CASE RunnerStep
  <2>1. CASE StartT4
    BY <2>1 DEF StartT4, GoesOn, Advances, Reached, Between, Stage
  <2>2. CASE RecoveryResolved
    <3>1. pc \in {"step", "recovery"} /\ pc' = "step" /\ yaml.at = "recovery" /\ yaml'.at = "T4"
      BY <2>2 DEF RecoveryResolved, VInv, Typed
    <3> QED
      BY <3>1 DEF GoesOn, Advances, Reached, Between, Resting
  <2>3. CASE QueueProfile
    BY <2>3 DEF QueueProfile, GoesOn, Advances, Reached, Between, Stage
  <2>4. CASE OpenGate1 \/ ReopenRecovery \/ RollbackView
    BY <2>4 DEF OpenGate1, ReopenRecovery, RollbackView, StopWith, GoesOn, Resting
  <2>5. CASE RollbackPortfolio
    <3>1. pc = "rollback_portfolio" /\ pc' \in {"rollback_deck", "down"}
      BY <2>5 DEF RollbackPortfolio
    <3>2. CASE pc' = "down"
      BY <3>2 DEF GoesOn, Resting
    <3> QED
      BY <3>1, <3>2, LaterStep DEF Stage
  <2>6. CASE RollbackDeck \/ RollbackReceipt
    BY <2>6, LaterStep DEF RollbackDeck, RollbackReceipt, Stage
  <2> QED
    BY <1>3, <2>1, <2>2, <2>3, <2>4, <2>5, <2>6 DEF RunnerStep
<1>4. CASE Researcher \/ Resume \/ RetryT4 \/ Crash \/ Over
  <2>1. pc \in Resting \/ pc' \in Resting
    BY <1>4 DEF Researcher, QueueOperation, StageProfile, Rollback, SelectCandidate, PauseRecovery,
                Resume, RetryT4, Crash, Over, Resting
  <2> QED
    BY <2>1 DEF GoesOn
<1> QED
  BY <1>1, <1>2, <1>3, <1>4 DEF Next

\* The ranking behind BackAtGate: without the researcher and without a crash,
\* every step of a process takes it on: to a later step of the runner or of
\* T4, to the next of the confirmed rounds, or to one more route of P0 started
\* or done, until it is at Gate1 or at the recovery gate, or has ended
\* (_run_loop, _maybe_run_t4_evolution_before_llm, IdeaEvolutionController).
THEOREM ProcessComesToRest == Spec => [][GoesOn]_vars
<1>1. VInv /\ [Next]_vars => [GoesOn]_vars
  BY ProcessGoesOn
<1> QED
  BY <1>1, EvolutionInvariant, PTL DEF Spec

-----------------------------------------------------------------------------
(* T4 gives up only for a reason.                                          *)

Whole == Ready \/ Stranded

(* What the last check of a start of T4 finds has been there since the     *)
(* cards were projected, or since the gate if nothing was made.            *)
Settled ==
    /\ pc \in {"evolve", "check"} /\ run.op # None => Whole
    /\ pc \in {"compiled", "project"} => store.deck.done /\ store.deck.cfg = store.cfg
    /\ pc \in {"close", "verify", "finish"} => Whole /\ ProjectionReady

(* Before the first projection a receipt, or a marker of the last round,   *)
(* is written for the active population with its portfolio; once it is     *)
(* there the science is not started again.                                 *)
Numbering ==
    /\ store.receipt.status # "none" =>
         /\ store.receipt.pop = Active /\ store.portfolio = Active /\ Active # None
         /\ pc \notin First \cup Science \cup {"receipt"}
    /\ store.rounds \in store.closed =>
         /\ Active = store.rounds /\ store.portfolio = store.rounds
         /\ pc \notin First \cup Science
    /\ pc \in First \cup Science => run.last = store.rounds /\ run.gen <= run.last
    /\ pc \in {"activate", "marker"} /\ run.gen \in {run.last, 0} => store.portfolio = run.gen
    /\ pc = "receipt" => store.portfolio = run.gen
    /\ pc \in Finishing => store.receipt.status # "none"
FirstTime == store.view.pop = None => Numbering

SInv == VInv /\ Settled /\ FirstTime

(* An unfinished deck leaves no completed receipt.                         *)
LEMMA EnsuredOpen ==
    ASSUME VInv, NEW o, ~CardsReady, Current(Ensured(o), o)
    PROVE  Pending(Ensured(o), o)
<1>1. store.receipt \in Receipts
  BY DEF VInv, Typed, Stores
<1>2. Ensured(o).status \in Open
  <2>1. CASE Current(store.receipt, o) /\ store.receipt.status = "completed"
    <3>1. Ensured(o) = [store.receipt EXCEPT !.status = "repair"]
      BY <2>1 DEF Ensured
    <3> QED
      BY <1>1, <3>1 DEF Receipts, Open
  <2>2. CASE Current(store.receipt, o) /\ store.receipt.status # "completed"
    <3>1. Ensured(o) = store.receipt
      BY <2>2 DEF Ensured
    <3> QED
      BY <1>1, <2>2, <3>1 DEF Receipts, Open, Current
  <2>3. CASE ~Current(store.receipt, o)
    <3>1. Ensured(o) # store.receipt
      BY <2>3
    <3>2. Ensured(o) = [pop |-> Active, by |-> o, status |-> "pending"]
      BY <2>3, <3>1 DEF Ensured
    <3> QED
      BY <3>2 DEF Open
  <2> QED
    BY <2>1, <2>2, <2>3
<1> QED
  BY <1>2 DEF Pending

(* Without a projection the cards are not ready.                           *)
LEMMA NotReadyYet == ASSUME VInv, store.view.pop = None PROVE ~CardsReady
BY DEF VInv, Referring, CardsReady

(* The receipt that T4 begins or stops with, before the first projection.  *)
LEMMA EnsuredFirst ==
    ASSUME SInv, store.view.pop = None, Ensured(None).status # "none"
    PROVE  /\ Ensured(None).pop = Active /\ store.portfolio = Active /\ Active # None
           /\ Pending(Ensured(None), None) /\ Loadable
<1>1. VInv /\ Numbering /\ ~CardsReady
  BY NotReadyYet DEF SInv, FirstTime
<1>2. store.receipt \in Receipts /\ store.state.cfg = 0 /\ store.cfg = 0
  BY <1>1 DEF VInv, Typed, Stores, Unprojected
<1>3. Ensured(None).pop = Active /\ store.portfolio = Active /\ Active # None
  <2>1. CASE Current(store.receipt, None)
    <3>1. Ensured(None) \in {store.receipt, [store.receipt EXCEPT !.status = "repair"]}
      BY <1>1, <2>1 DEF Ensured
    <3>2. Ensured(None).pop = store.receipt.pop /\ store.receipt.status # "none"
      BY <1>2, <2>1, <3>1 DEF Receipts, Current
    <3> QED
      BY <1>1, <3>2 DEF Numbering
  <2>2. CASE ~Current(store.receipt, None) /\ InputsValid /\ store.portfolio = Active /\ Scored(Active)
    <3>1. Ensured(None) = [pop |-> Active, by |-> None, status |-> "pending"]
      BY <1>1, <2>2 DEF Ensured
    <3> QED
      BY <2>2, <3>1 DEF InputsValid
  <2>3. CASE /\ ~Current(store.receipt, None)
             /\ ~(InputsValid /\ store.portfolio = Active /\ Scored(Active))
    <3>1. Ensured(None) = store.receipt
      BY <1>1, <2>3 DEF Ensured
    <3> QED
      BY <1>1, <3>1 DEF Numbering
  <2> QED
    BY <2>1, <2>2, <2>3
<1>4. Current(Ensured(None), None)
  BY <1>3 DEF Current
<1> QED
  BY <1>1, <1>2, <1>3, <1>4, EnsuredOpen DEF Loadable, InputsValid

(* A process that begins anew has no round left behind it that was the     *)
(* last, or it would find its receipt.                                     *)
LEMMA BeginsEarly ==
    ASSUME SInv, store.view.pop = None, ~CardsOnly(Ensured(None)), run.op = None
    PROVE  Ensured(None).status = "none" /\ store.rounds \notin store.closed
<1>1. VInv /\ Numbering /\ ~CardsReady
  BY NotReadyYet DEF SInv, FirstTime
<1>2. ~Pending(Ensured(None), None)
  BY DEF CardsOnly
<1>3. Ensured(None).status = "none"
  BY <1>2, EnsuredFirst
<1>4. ASSUME store.rounds \in store.closed PROVE FALSE
  <2>1. Active = store.rounds /\ store.portfolio = store.rounds /\ store.rounds \in Nat
    BY <1>1, <1>4 DEF Numbering, VInv, Typed, Stores
  <2>2. Active # None /\ Active \in Generations
    BY <1>1, <2>1 DEF VInv, Referring, Active
  <2>3. InputsValid /\ Scored(Active)
    BY <1>1, <2>2 DEF VInv, Unprojected, InputsValid, Scored
  <2>4. Ensured(None).status # "none"
    <3>1. CASE Current(store.receipt, None)
      <4>1. Ensured(None) \in {store.receipt, [store.receipt EXCEPT !.status = "repair"]}
        BY <1>1, <3>1 DEF Ensured
      <4> QED
        BY <1>1, <3>1, <4>1 DEF Current, VInv, Typed, Stores, Receipts
    <3>2. CASE ~Current(store.receipt, None)
      <4>1. Ensured(None) = [pop |-> Active, by |-> None, status |-> "pending"]
        BY <1>1, <2>1, <2>3, <3>2 DEF Ensured
      <4> QED
        BY <4>1
    <3> QED
      BY <3>1, <3>2
  <2> QED
    BY <1>3, <2>4
<1> QED
  BY <1>3, <1>4

(* An operation begins on a population that is whole, or stranded.         *)
LEMMA BeginsWhole ==
    ASSUME SInv, pc = "begin", run.op # None, ~CardsOnly(Ensured(run.op)),
           Kind[run.op] # "rescore", Kind[run.op] # "reprofile"
    PROVE  Whole
<1>1. VInv /\ run.op = yaml.op /\ run.op \in Ops /\ store.view.pop # None
  BY DEF SInv, VInv, Operating, InT4, Typed, Runs, Unprojected
<1>2. CASE CardsReady
  BY <1>1, <1>2 DEF Whole, Ready, ProjectionReady
<1>3. CASE ~CardsReady /\ ~Stranded
  <2>1. store.portfolio = Active /\ Active # None /\ InputsValid
    BY <1>1, <1>3 DEF Stranded, VInv, Referring, Active, InputsValid
  <2>2. store.pops[Active].by = run.op
    BY <1>1, <1>3, <2>1 DEF VInv, Queued
  <2>3. Binds(Ensured(run.op), run.op)
    BY <1>1, <1>3, <2>1, <2>2, EnsuredFacts DEF Scored
  <2>4. Current(Ensured(run.op), run.op)
    BY <2>3 DEF Binds, Current
  <2> QED
    BY <1>1, <1>3, <2>4, EnsuredOpen DEF CardsOnly
<1> QED
  BY <1>2, <1>3 DEF Whole

LEMMA WholeKept ==
    ASSUME store'.portfolio = store.portfolio, store'.state = store.state, store'.cfg = store.cfg,
           store'.deck = store.deck, store'.view = store.view
    PROVE  Whole' = Whole /\ ProjectionReady' = ProjectionReady
BY DEF Whole, Ready, ProjectionReady, CardsReady, Stranded, Active

Settling == {"evolve", "check", "compiled", "project", "close", "verify", "finish"}

LEMMA SettledElsewhere == ASSUME pc' \notin Settling PROVE Settled'
BY DEF Settled, Settling

LEMMA StopsSettled == ASSUME Stops PROVE Settled'
<1>1. pc' = "recovery"
  BY DEF Stops, Stop, ReopenRecovery, CardsFail, RollbackView, StopWith
<1> QED
  BY <1>1, SettledElsewhere DEF Settling

LEMMA ReceiptSettled == ASSUME SInv, WritesReceipt PROVE Settled'
<1>1. /\ store \in Stores /\ run \in Runs /\ Settled /\ Kind \in [Ops -> Kinds]
      /\ Operating /\ VInv
  BY DEF SInv, VInv, Typed
<1>2. CASE (BeginCards /\ Loadable) \/ BeginRun \/ WriteReceipt \/ RollbackReceipt
  <2>1. pc' \in {"cards", "receipt", "formed", "routes", "rollback_view"}
    BY <1>2 DEF BeginCards, BeginRun, WriteReceipt, RollbackReceipt
  <2> QED
    BY <2>1, SettledElsewhere DEF Settling
<1>3. CASE BeginOperation /\ Executable(run.op)
  <2>1. /\ pc = "begin" /\ run.op \in Ops /\ pc' = Kind[run.op] /\ ~CardsOnly(Ensured(run.op))
        /\ store' = [store EXCEPT !.receipt = Ensured(run.op)] /\ Kind[run.op] \in Kinds
    BY <1>1, <1>3 DEF BeginOperation, Runs
  <2>2. CASE Kind[run.op] \in {"evolve", "check"}
    <3>1. Whole
      BY <2>1, <2>2, BeginsWhole
    <3>2. Whole'
      BY <1>1, <2>1, <3>1, WholeKept DEF Stores
    <3> QED
      BY <2>1, <2>2, <3>2 DEF Settled
  <2>3. CASE Kind[run.op] \in {"rescore", "reprofile"}
    BY <2>1, <2>3, SettledElsewhere DEF Settling
  <2> QED
    BY <2>1, <2>2, <2>3 DEF Kinds
<1>4. CASE CardsCompiled
  BY <1>1, <1>4 DEF CardsCompiled, Settled, Stores
<1>5. CASE CloseReceipt
  <2>1. pc = "close" /\ pc' = "verify" /\ store' = [store EXCEPT !.receipt.status = "completed"]
    BY <1>5 DEF CloseReceipt
  <2>2. Whole' /\ ProjectionReady'
    BY <1>1, <2>1, WholeKept DEF Settled, Stores
  <2> QED
    BY <2>1, <2>2 DEF Settled
<1> QED
  BY <1>2, <1>3, <1>4, <1>5 DEF WritesReceipt, Begins

LEMMA WalksSettled == ASSUME SInv, Walks PROVE Settled'
<1>1. store' = store /\ Settled /\ Operating /\ Unprojected /\ run \in Runs
  BY DEF SInv, VInv, Typed, Walks
<1>2. Whole' = Whole /\ ProjectionReady' = ProjectionReady
  BY <1>1, WholeKept
<1>3. CASE Refuse \/ Check
  <2>1. run.op # None /\ pc \in {"evolve", "check"} /\ pc' \in {"verify", "finish"}
    BY <1>1, <1>3 DEF Refuse, Check, Operating
  <2>2. run.op = yaml.op
    BY <1>1, <2>1 DEF Operating, InT4, Science
  <2>3. ProjectionReady
    BY <1>1, <2>1, <2>2 DEF Unprojected, ProjectionReady
  <2> QED
    BY <1>1, <1>2, <2>1, <2>3 DEF Settled
<1>4. CASE Verify /\ pc' = "finish"
  <2>1. Ready
    BY <1>4 DEF Verify, Stop, StopWith
  <2> QED
    BY <1>2, <1>4, <2>1 DEF Settled, Whole, Ready
<1>5. CASE ReuseCards
  <2>1. pc' = "project" /\ CardsReady
    BY <1>5 DEF ReuseCards
  <2> QED
    BY <1>1, <2>1 DEF Settled, CardsReady
<1>6. CASE AfterFormation
  <2>1. pc' \in {"rescore", "evolve"} /\ run.op = None
    BY <1>1, <1>6 DEF AfterFormation, Operating, First
  <2>2. run'.op = None
    BY <1>1, <1>6, <2>1 DEF AfterFormation, Runs
  <2> QED
    BY <2>1, <2>2 DEF Settled
<1>7. CASE StartT4 \/ (\E r \in Routes : StartRoute(r)) \/ (JoinRoutes /\ pc' = "p0")
           \/ Evolve \/ Reprofile \/ Rescore
  <2>1. pc' \notin Settling
    BY <1>7 DEF StartT4, StartRoute, Evolve, Reprofile, Rescore, Settling
  <2> QED
    BY <2>1, SettledElsewhere
<1> QED
  BY <1>3, <1>4, <1>5, <1>6, <1>7 DEF Walks

LEMMA PointsSettled == ASSUME SInv, Points PROVE Settled'
<1>1. store \in Stores /\ run \in Runs /\ Settled /\ Numbered /\ None \notin Nat
  BY DEF SInv, VInv, Typed
<1>2. CASE InitializeState \/ WritePortfolio \/ Activate
  <2>1. pc' \in {"p0_marker", "activate", "receipt", "marker"}
    BY <1>2 DEF InitializeState, WritePortfolio, Activate
  <2> QED
    BY <2>1, SettledElsewhere DEF Settling
<1>3. CASE CompileCards
  <2>1. /\ pc' = "compiled" /\ store'.cfg = store.cfg
        /\ store'.deck = [pop |-> run.gen, cfg |-> store.cfg, done |-> TRUE]
    BY <1>1, <1>3 DEF CompileCards, Stores
  <2> QED
    BY <2>1 DEF Settled
<1>4. CASE Project
  <2>1. /\ pc = "project" /\ pc' = "close" /\ store.deck.done /\ store.deck.cfg = store.cfg
        /\ store.deck.pop = run.gen /\ Active = run.gen /\ run.gen \in Nat
    BY <1>1, <1>4 DEF Project, Settled, Numbered, Finishing, Runs
  <2>2. /\ store'.view = [pop |-> run.gen, fresh |-> store.deck.done]
        /\ store'.deck = store.deck /\ store'.cfg = store.cfg /\ store'.state = store.state
        /\ store'.portfolio = store.portfolio
    BY <1>1, <1>4 DEF Project, Stores
  <2>3. ProjectionReady'
    BY <1>1, <2>1, <2>2 DEF ProjectionReady
  <2>4. ~Stranded' => CardsReady'
    BY <1>1, <2>1, <2>2 DEF Stranded, CardsReady, Active
  <2> QED
    BY <2>1, <2>3, <2>4 DEF Settled, Whole, Ready
<1> QED
  BY <1>2, <1>3, <1>4 DEF Points

LEMMA SettledStep == ASSUME SInv, [Next]_vars PROVE Settled'
<1>1. Settled /\ VInv /\ Operating /\ run \in Runs
  BY DEF SInv, VInv, Typed
<1>2. CASE UNCHANGED vars
  <2>1. store' = store /\ pc' = pc /\ run' = run
    BY <1>2 DEF vars
  <2>2. Whole' = Whole /\ ProjectionReady' = ProjectionReady
    BY <2>1, WholeKept
  <2> QED
    BY <1>1, <2>1, <2>2 DEF Settled
<1>3. CASE MarkSurvival
  <2>1. CASE run.gen < run.last
    <3>1. pc = "marker" /\ pc' = "evolve" /\ run' = [run EXCEPT !.gen = @ + 1]
      BY <1>3, <2>1 DEF MarkSurvival
    <3>2. run.op = None
      BY <1>1, <2>1, <3>1 DEF Operating, Science, Runs
    <3>3. run'.op = None
      BY <1>1, <3>1, <3>2 DEF Runs
    <3> QED
      BY <3>1, <3>3 DEF Settled
  <2>2. CASE ~(run.gen < run.last)
    BY <1>3, <2>2, SettledElsewhere DEF MarkSurvival, Settling
  <2> QED
    BY <2>1, <2>2
<1>4. CASE (\E r \in Routes : RouteSucceeds(r) \/ RouteFails(r)) \/ MarkFormation
           \/ WriteP0 \/ WritePopulation \/ Idles \/ AtGate
  <2>1. pc' \notin Settling
    BY <1>4 DEF RouteSucceeds, RouteFails, RouteEnds, MarkFormation, WriteP0, WritePopulation, Idles,
       Resume, OpenGate1, RecoveryResolved, RetryT4, PauseRecovery, Crash, SelectCandidate, Finish,
       AtGate, QueueOperation, StageProfile, QueueProfile, Rollback, RollbackPortfolio,
       RollbackDeck, Settling
  <2> QED
    BY <2>1, SettledElsewhere
<1> QED
  BY <1>1, <1>2, <1>3, <1>4, StepKinds, StopsSettled, ReceiptSettled, WalksSettled, PointsSettled
     DEF Marks

(* A step that touches neither portfolio, active population nor markers,   *)
(* and starts no science.                                                  *)
LEMMA FirstFrame ==
    ASSUME SInv, store'.view.pop = None => store.view.pop = None,
           store'.portfolio = store.portfolio, Active' = Active,
           store'.rounds = store.rounds, store'.closed = store.closed,
           store'.receipt.status # "none" =>
             store.receipt.status # "none" /\ store'.receipt.pop = store.receipt.pop,
           pc' \notin {"activate", "marker", "receipt"},
           pc' \in First \cup Science =>
             pc \in First \cup Science /\ run'.last = run.last /\ run'.gen <= run'.last,
           pc' \in Finishing => store'.receipt.status # "none"
    PROVE  FirstTime'
<1> SUFFICES ASSUME store'.view.pop = None PROVE Numbering'
  BY DEF FirstTime
<1>1. Numbering
  BY DEF SInv, FirstTime
<1> QED
  BY <1>1 DEF Numbering, First, Science, Making, Finishing

(* A step after which no agent is at work, with the receipt as it is.      *)
LEMMA FirstOutside ==
    ASSUME SInv, store' = store, pc' \notin First \cup Science \cup Finishing \cup {"receipt"}
    PROVE  FirstTime'
BY FirstFrame DEF Active, Science, Making

(* The receipt is reconciled, and no science is started.                   *)
LEMMA FirstReconciled ==
    ASSUME SInv, store.view.pop = None, store'.view.pop = None,
           store'.receipt = Ensured(None), store'.portfolio = store.portfolio,
           Active' = Active, store'.rounds = store.rounds, store'.closed = store.closed,
           pc' \notin First \cup Science \cup {"receipt"},
           pc' \in Finishing => Ensured(None).status # "none"
    PROVE  FirstTime'
<1>1. Numbering
  BY DEF SInv, FirstTime
<1>2. Numbering'
  BY <1>1, EnsuredFirst DEF Numbering, First, Science, Making, Finishing
<1> QED
  BY <1>2 DEF FirstTime

LEMMA FirstStops == ASSUME SInv, Stops PROVE FirstTime'
<1>1. /\ store \in Stores /\ run \in Runs /\ Operating /\ Unprojected /\ Numbered /\ Queued
      /\ Referring
  BY DEF SInv, VInv, Typed
<1> SUFFICES ASSUME store'.view.pop = None PROVE FirstTime'
  BY DEF FirstTime
<1>2. ASSUME NEW st \in Stores, NEW o, StopWith(st, o), store.view.pop = None => o = None,
             st.view.pop = None => store.view.pop = None,
             st.state = store.state, st.portfolio = store.portfolio, st.rounds = store.rounds,
             st.closed = store.closed
      PROVE  FirstTime'
  <2>1. /\ store'.view = st.view /\ store'.receipt = Ensured(o)
        /\ store'.portfolio = store.portfolio /\ Active' = Active
        /\ store'.rounds = store.rounds /\ store'.closed = store.closed /\ pc' = "recovery"
    BY <1>2 DEF StopWith, Stores, Active
  <2>2. store.view.pop = None /\ o = None
    BY <1>2, <2>1
  <2> QED
    BY <2>1, <2>2, FirstReconciled DEF First, Science, Making, Finishing
<1>3. CASE Stop /\ pc \in InT4
  <2>1. StopWith(store, run.op) /\ run.op = yaml.op
    BY <1>1, <1>3 DEF Stop, Operating
  <2> QED
    BY <1>1, <1>2, <2>1 DEF Unprojected
<1>4. CASE ReopenRecovery
  BY <1>1, <1>2, <1>4 DEF ReopenRecovery, Unprojected
<1>5. CASE CardsFail
  <2> DEFINE st == [store EXCEPT !.deck = [pop |-> run.gen, cfg |-> store.cfg, done |-> FALSE],
                                 !.view.fresh = FALSE]
  <2>1. /\ st \in Stores /\ st.view.pop = store.view.pop /\ st.state = store.state
        /\ st.portfolio = store.portfolio /\ st.rounds = store.rounds /\ st.closed = store.closed
    BY <1>1 DEF Stores, Runs, Numbers
  <2>2. StopWith(st, run.op) /\ run.op = yaml.op
    BY <1>1, <1>5 DEF CardsFail, Operating, InT4, Finishing
  <2> HIDE DEF st
  <2> QED
    BY <1>1, <1>2, <2>1, <2>2 DEF Unprojected
<1>6. CASE RollbackView
  <2>1. /\ pc \in Rolling /\ store'.view.pop = Active
    BY <1>1, <1>6 DEF RollbackView, Rolling, StopWith, Stores
  <2> QED
    BY <1>1, <2>1 DEF Numbered
<1> QED
  BY <1>3, <1>4, <1>5, <1>6 DEF Stops

LEMMA FirstReceipts == ASSUME SInv, WritesReceipt PROVE FirstTime'
<1>1. /\ store \in Stores /\ run \in Runs /\ Operating /\ Unprojected /\ Numbered /\ VInv
      /\ None \notin Nat
  BY DEF SInv, VInv, Typed
<1>2. \E rc : store' = [store EXCEPT !.receipt = rc]
  BY <1>1 DEF WritesReceipt, Begins, BeginCards, BeginOperation, BeginRun, WriteReceipt,
              CardsCompiled, CloseReceipt, RollbackReceipt, Stores
<1>3. /\ store'.view = store.view /\ store'.portfolio = store.portfolio
      /\ store'.state = store.state /\ Active' = Active
      /\ store'.rounds = store.rounds /\ store'.closed = store.closed
  BY <1>1, <1>2 DEF Stores, Active
<1> SUFFICES ASSUME store.view.pop = None PROVE FirstTime'
  BY <1>3 DEF FirstTime
<1>4. Numbering /\ yaml.op = None
  BY <1>1 DEF SInv, FirstTime, Unprojected
<1>5. pc \in InT4 => run.op = None
  BY <1>1, <1>4 DEF Operating
<1>6. CASE BeginCards /\ Loadable
  <2>1. /\ store'.receipt = Ensured(None) /\ CardsOnly(Ensured(None))
        /\ pc' = IF Pending(Ensured(None), None) THEN "cards" ELSE "receipt"
    BY <1>1, <1>5, <1>6 DEF BeginCards, Stores, InT4
  <2>2. Pending(Ensured(None), None) /\ pc' = "cards"
    BY <1>5, <1>6, <2>1 DEF CardsOnly, ProjectionReady, BeginCards, InT4
  <2>3. Ensured(None).status # "none"
    BY <2>2 DEF Pending, Current
  <2> QED
    BY <1>3, <2>1, <2>2, <2>3, FirstReconciled DEF First, Science, Making
<1>7. CASE BeginOperation
  BY <1>5, <1>7 DEF BeginOperation, InT4
<1>8. CASE BeginRun
  <2>1. /\ store'.receipt = Ensured(None) /\ ~CardsOnly(Ensured(None)) /\ run.op = None
        /\ pc' \in {"formed", "routes"} /\ pc = "begin"
    BY <1>1, <1>8 DEF BeginRun, Stores
  <2>2. Ensured(None).status = "none" /\ store.rounds \notin store.closed
    BY <2>1, BeginsEarly
  <2>3. run.gen = 0
    BY <1>1, <2>1 DEF Operating, NoRun
  <2>4. run'.last = store.rounds /\ run'.gen = 0 /\ store.rounds \in Nat
    <3>1. CASE store.formed
      BY <1>1, <1>8, <2>3, <3>1 DEF BeginRun, Runs, Stores
    <3>2. CASE ~store.formed
      BY <1>1, <1>8, <2>3, <3>2 DEF BeginRun, Runs, Stores
    <3> QED
      BY <3>1, <3>2
  <2> QED
    BY <1>3, <2>1, <2>2, <2>4 DEF FirstTime, Numbering, Finishing
<1>9. CASE WriteReceipt
  <2>1. /\ pc = "receipt" /\ pc' = "cards" /\ store'.receipt.pop = run.gen
        /\ store'.receipt.status = "pending" /\ Active = run.gen /\ run.gen \in Nat
    BY <1>1, <1>9 DEF WriteReceipt, Stores, Numbered, Runs
  <2>2. store.portfolio = run.gen
    BY <1>4, <2>1 DEF Numbering
  <2> QED
    BY <1>1, <1>3, <1>4, <2>1, <2>2 DEF FirstTime, Numbering, First, Science, Making
<1>10. CASE CardsCompiled \/ CloseReceipt
  <2>1. /\ pc \in Finishing /\ pc' \in {"project", "verify"} /\ store'.receipt.pop = store.receipt.pop
        /\ store'.receipt.status # "none"
    BY <1>1, <1>10 DEF CardsCompiled, CloseReceipt, Finishing, Stores, Receipts
  <2>2. store.receipt.status # "none"
    BY <1>4, <2>1 DEF Numbering
  <2> QED
    BY <1>3, <2>1, <2>2, FirstFrame DEF First, Science, Making
<1>11. CASE RollbackReceipt
  BY <1>1, <1>11 DEF RollbackReceipt, Unprojected, Rolling
<1> QED
  BY <1>6, <1>7, <1>8, <1>9, <1>10, <1>11 DEF WritesReceipt, Begins

LEMMA FirstWalks == ASSUME SInv, Walks PROVE FirstTime'
<1>1. store' = store /\ run \in Runs /\ Numbered /\ Operating
  BY DEF SInv, VInv, Typed, Walks
<1>2. Active' = Active
  BY <1>1 DEF Active
<1> SUFFICES ASSUME store.view.pop = None PROVE FirstTime'
  BY <1>1 DEF FirstTime
<1>3. Numbering
  BY DEF SInv, FirstTime
<1>4. CASE StartT4 \/ Check \/ Refuse \/ (Verify /\ pc' = "finish")
  <2>1. pc' \in {"begin", "finish", "verify"}
    BY <1>4 DEF StartT4, Check, Refuse
  <2> QED
    BY <1>1, <2>1, FirstOutside DEF First, Science, Making, Finishing
<1>5. CASE (\E r \in Routes : StartRoute(r)) \/ (JoinRoutes /\ pc' = "p0")
  <2>1. pc = "routes" /\ pc' \in {"routes", "p0"} /\ run'.last = run.last /\ run'.gen = run.gen
    BY <1>1, <1>5 DEF StartRoute, JoinRoutes, Stop, StopWith, Runs
  <2>2. run'.gen <= run'.last
    BY <1>3, <2>1 DEF Numbering, First
  <2> QED
    BY <1>1, <1>2, <2>1, <2>2, FirstFrame DEF First, Finishing
<1>6. CASE AfterFormation
  <2>1. pc = "formed" /\ pc' \in {"rescore", "evolve"} /\ run.gen \in Nat /\ run.last \in Nat
    BY <1>1, <1>6 DEF AfterFormation, Runs
  <2>2. run'.last = run.last /\ (run'.gen = run.gen \/ (run'.gen = 1 /\ run.last # 0))
    BY <1>1, <1>6 DEF AfterFormation, Runs
  <2>3. run'.gen <= run'.last
    BY <1>3, <2>1, <2>2 DEF Numbering, First
  <2> QED
    BY <1>1, <1>2, <2>1, <2>2, <2>3, FirstFrame DEF First, Science, Finishing, Making
<1>7. CASE Evolve
  <2>1. /\ pc = "evolve" /\ run' = run
        /\ pc' = IF run.gen \in store.closed THEN "activate" ELSE "population"
    BY <1>7 DEF Evolve
  <2>2. /\ pc \in Science /\ run.last = store.rounds /\ store.rounds \notin store.closed
        /\ run.gen > 0
    BY <1>1, <1>3, <2>1 DEF Numbering, Science, Numbered
  <2>3. CASE pc' = "activate"
    <3>1. run.gen # run.last /\ run.gen # 0
      BY <1>1, <2>1, <2>2, <2>3 DEF Runs
    <3> QED
      BY <1>1, <1>2, <1>3, <2>1, <2>2, <2>3, <3>1 DEF FirstTime, Numbering, First, Science, Making, Finishing
  <2>4. CASE pc' = "population"
    BY <1>1, <1>2, <1>3, <2>1, <2>2, <2>4, FirstFrame DEF Numbering, Science, Making, Finishing
  <2> QED
    BY <2>1, <2>3, <2>4
<1>8. CASE Rescore
  <2>1. pc = "rescore" /\ run' = run /\ pc' = "portfolio"
    <3>1. pc = "rescore" /\ run.op = yaml.op
      BY <1>1, <1>8 DEF Rescore, Operating, InT4, Science
    <3> QED
      BY <1>8, <3>1 DEF Rescore, SInv, VInv, Unprojected
  <2> QED
    BY <1>1, <1>2, <1>3, <2>1, FirstFrame DEF Numbering, Science, Making, Finishing
<1>9. CASE Reprofile
  BY <1>9 DEF Reprofile, SInv, VInv, Unprojected, Operating, InT4, Science
<1>10. CASE ReuseCards
  <2>1. pc = "cards" /\ pc' = "project" /\ store.receipt.status # "none"
    BY <1>3, <1>10 DEF ReuseCards, Numbering, Finishing
  <2> QED
    BY <1>1, <1>2, <2>1, FirstFrame DEF First, Science, Making
<1> QED
  BY <1>4, <1>5, <1>6, <1>7, <1>8, <1>9, <1>10 DEF Walks

LEMMA FirstMarks ==
    ASSUME SInv, Marks \/ WriteP0 \/ WritePopulation PROVE FirstTime'
<1>1. /\ store \in Stores /\ run \in Runs /\ Numbered
  BY DEF SInv, VInv, Typed
<1>2. /\ store'.view = store.view /\ store'.portfolio = store.portfolio
      /\ store'.state = store.state /\ Active' = Active
      /\ store'.rounds = store.rounds /\ store'.receipt = store.receipt
  <2>1. CASE \E r \in Routes : RouteSucceeds(r) \/ RouteFails(r)
    <3>1. PICK r \in Routes, outcome \in {"filled", "empty"} : RouteEnds(r, outcome)
      BY <2>1 DEF RouteSucceeds, RouteFails
    <3> QED
      BY <1>1, <3>1 DEF RouteEnds, Stores, Active
  <2>2. CASE MarkFormation
    BY <1>1, <2>2 DEF MarkFormation, Stores, Active
  <2>3. CASE MarkSurvival
    BY <1>1, <2>3 DEF MarkSurvival, Stores, Active
  <2>4. CASE WriteP0 \/ WritePopulation
    <3>1. \E w : store' = [store EXCEPT !.pops = w]
      BY <2>4 DEF WriteP0, WritePopulation
    <3> QED
      BY <1>1, <3>1 DEF Stores, Active
  <2> QED
    BY <2>1, <2>2, <2>3, <2>4 DEF Marks
<1> SUFFICES ASSUME store.view.pop = None PROVE FirstTime'
  BY <1>2 DEF FirstTime
<1>3. Numbering
  BY DEF SInv, FirstTime
<1>4. CASE \/ \E r \in Routes : RouteSucceeds(r) \/ RouteFails(r)
           \/ MarkFormation \/ WriteP0 \/ WritePopulation
  <2>1. store'.closed = store.closed /\ run'.last = run.last /\ run'.gen = run.gen
    BY <1>1, <1>4 DEF RouteSucceeds, RouteFails, RouteEnds, MarkFormation, WriteP0, WritePopulation,
       Stores, Runs
  <2>2. /\ pc \in First \cup Science
        /\ pc' \in {"routes", "formed", "p0_state", "portfolio"}
    BY <1>4 DEF RouteSucceeds, RouteFails, RouteEnds, MarkFormation, WriteP0, WritePopulation,
       First, Science, Making
  <2>3. run'.gen <= run'.last
    BY <1>3, <2>1, <2>2 DEF Numbering
  <2> QED
    BY <1>2, <2>1, <2>2, <2>3, FirstFrame DEF Finishing
<1>5. CASE MarkSurvival
  <2>1. /\ pc = "marker" /\ store'.closed = store.closed \cup {run.gen} /\ Active = run.gen
        /\ run.gen \in Nat /\ run.last \in Nat
    BY <1>1, <1>5 DEF MarkSurvival, Stores, Numbered, Runs
  <2>2. /\ run.last = store.rounds /\ run.gen <= run.last /\ store.receipt.status = "none"
        /\ store.rounds \notin store.closed /\ (run.gen = run.last => store.portfolio = run.gen)
    BY <1>3, <2>1 DEF Numbering, Science
  <2>3. CASE run.gen < run.last
    <3>1. pc' = "evolve" /\ run'.last = run.last /\ run'.gen = run.gen + 1
      BY <1>1, <1>5, <2>3 DEF MarkSurvival, Runs
    <3>2. store.rounds \notin store'.closed
      BY <2>1, <2>2, <2>3
    <3> QED
      BY <1>2, <2>1, <2>2, <2>3, <3>1, <3>2 DEF FirstTime, Numbering, First, Science, Making, Finishing
  <2>4. CASE ~(run.gen < run.last)
    <3>1. pc' = "receipt" /\ run' = run /\ run.gen = run.last
      BY <1>5, <2>1, <2>2, <2>4 DEF MarkSurvival
    <3> QED
      BY <1>2, <2>1, <2>2, <3>1 DEF FirstTime, Numbering, First, Science, Making, Finishing
  <2> QED
    BY <2>3, <2>4
<1> QED
  BY <1>4, <1>5 DEF Marks

LEMMA FirstPoints == ASSUME SInv, Points PROVE FirstTime'
<1>1. /\ store \in Stores /\ run \in Runs /\ Numbered /\ Operating /\ Unprojected /\ None \notin Nat
  BY DEF SInv, VInv, Typed
<1>2. /\ run' = run /\ store'.closed = store.closed /\ store'.rounds = store.rounds
      /\ store'.receipt = store.receipt
  BY <1>1 DEF Points, InitializeState, WritePortfolio, Activate, CompileCards, Project, Stores
<1> SUFFICES ASSUME store'.view.pop = None PROVE FirstTime'
  BY DEF FirstTime
<1>3. ~Project /\ store.view.pop = None
  <2>1. ~Project
    BY <1>1 DEF Project, Stores, Runs
  <2>2. InitializeState \/ WritePortfolio \/ Activate => store.view.pop = None
    BY <1>1 DEF InitializeState, WritePortfolio, Activate, Stores
  <2>3. CompileCards => store.view.pop = None
    BY <1>1 DEF CompileCards, Stores
  <2> QED
    BY <2>1, <2>2, <2>3 DEF Points
<1>4. Numbering
  BY <1>3 DEF SInv, FirstTime
<1>5. pc \in First \cup Science =>
        /\ store.receipt.status = "none" /\ store.rounds \notin store.closed
        /\ run.last = store.rounds /\ run.gen <= run.last
  BY <1>4 DEF Numbering
<1>6. CASE InitializeState
  <2>1. pc \in First /\ pc' = "p0_marker"
    BY <1>6 DEF InitializeState, First
  <2> QED
    BY <1>2, <1>5, <2>1 DEF FirstTime, Numbering, First, Finishing
<1>7. CASE WritePortfolio
  <2>1. pc \in Science /\ pc' = "activate" /\ store'.portfolio = run.gen
    BY <1>1, <1>7 DEF WritePortfolio, Science, Making, Stores
  <2> QED
    BY <1>2, <1>5, <2>1 DEF FirstTime, Numbering, Science, Making, First, Finishing
<1>8. CASE Activate
  <2>1. /\ pc = "activate" /\ pc' = IF run.gen = 0 \/ ~Scored(run.gen) THEN "receipt" ELSE "marker"
        /\ store'.portfolio = store.portfolio
    BY <1>1, <1>8 DEF Activate, Stores
  <2>2. pc \in Science /\ pc \in InT4
    BY <2>1 DEF InT4, Science, Making
  <2>3. run.op = None
    BY <1>1, <1>3, <2>2 DEF Operating, Unprojected
  <2>4. Scored(run.gen)
    BY <1>1, <2>1, <2>3 DEF Numbered, Scored
  <2>5. run.gen \in {run.last, 0} => store.portfolio = run.gen
    BY <1>4, <2>1 DEF Numbering
  <2> QED
    BY <1>2, <1>5, <2>1, <2>2, <2>4, <2>5 DEF FirstTime, Numbering, First, Science, Making, Finishing
<1>9. CASE CompileCards
  <2>1. /\ pc = "cards" /\ pc' = "compiled" /\ store'.portfolio = store.portfolio
        /\ Active' = Active
    BY <1>1, <1>9 DEF CompileCards, Stores, Active
  <2>2. store.receipt.status # "none"
    BY <1>4, <2>1 DEF Numbering, Finishing
  <2> QED
    BY <1>2, <1>3, <2>1, <2>2, FirstFrame DEF First, Science, Making
<1> QED
  BY <1>3, <1>6, <1>7, <1>8, <1>9 DEF Points

LEMMA FirstRunner == ASSUME SInv, Idles \/ AtGate PROVE FirstTime'
<1>1. CASE Idles
  <2>1. store' = store /\ pc' \in {"down", "step", "gate", "over"}
    BY <1>1 DEF Idles, Resume, OpenGate1, RecoveryResolved, RetryT4, PauseRecovery, Crash,
       SelectCandidate, Finish
  <2> QED
    BY <2>1, FirstOutside DEF First, Science, Making, Finishing
<1>2. CASE AtGate
  <2>1. pc \in {"gate", "staged"} \cup Rolling
    BY <1>2 DEF AtGate, QueueOperation, StageProfile, QueueProfile, Rollback, RollbackPortfolio,
       RollbackDeck, Rolling
  <2>2. store.view.pop # None /\ store \in Stores
    BY <2>1 DEF SInv, VInv, Typed, Unprojected
  <2>3. store'.view.pop = store.view.pop
    <3>1. CASE (\E o \in Ops : QueueOperation(o) \/ StageProfile(o)) \/ QueueProfile
      BY <2>2, <3>1 DEF QueueOperation, StageProfile, QueueProfile, Stores
    <3>2. CASE Rollback
      BY <2>2, <3>2 DEF Rollback, Stores
    <3>3. CASE RollbackPortfolio
      BY <2>2, <3>3 DEF RollbackPortfolio, Stores
    <3>4. CASE RollbackDeck
      BY <2>2, <3>4 DEF RollbackDeck, Stores
    <3> QED
      BY <1>2, <3>1, <3>2, <3>3, <3>4 DEF AtGate
  <2> QED
    BY <2>2, <2>3 DEF FirstTime
<1> QED
  BY <1>1, <1>2

LEMMA FirstStep == ASSUME SInv, [Next]_vars PROVE FirstTime'
<1>1. VInv
  BY DEF SInv
<1>2. CASE UNCHANGED vars
  BY <1>2 DEF SInv, FirstTime, Numbering, vars, Active
<1> QED
  BY <1>1, <1>2, StepKinds, FirstStops, FirstReceipts, FirstWalks, FirstMarks, FirstPoints,
     FirstRunner

LEMMA SInvariant == Spec => []SInv
<1>1. Init => SInv
  <2> SUFFICES ASSUME Init PROVE SInv
    OBVIOUS
  <2>1. /\ VInv /\ pc = "down" /\ store.receipt.status = "none" /\ store.closed = {}
    <3>1. pc = "down" /\ store.receipt.status = "none"
      BY DEF Init
    <3>2. store.closed = {}
      BY DEF Init
    <3> QED
      BY <3>1, <3>2, InitInv
  <2>2. Settled /\ Numbering
    BY <2>1 DEF Settled, Numbering, First, Science, Making, Finishing
  <2> QED
    BY <2>1, <2>2 DEF SInv, FirstTime
<1>2. SInv /\ [Next]_vars => SInv'
  BY NextInv, SettledStep, FirstStep DEF SInv
<1> QED
  BY <1>1, <1>2, PTL DEF Spec

(* Nothing can be loaded only where the active population is stranded.     *)
LEMMA NotLoadable ==
    ASSUME SInv, store.view.pop # None, ~Loadable
    PROVE  Stranded /\ ProjectionReady
BY DEF SInv, VInv, Referring, Active, Loadable, InputsValid, Stranded, ProjectionReady

NoCandidates == \A r \in Routes : store.routes[r] # "filled"
ForAReason ==
    /\ pc \in InT4 /\ pc' = "recovery" =>
         \/ used' # used
         \/ Stranded /\ ProjectionReady
         \/ pc = "routes" /\ NoCandidates
    /\ pc = "finish" /\ pc' = "step" => Ready \/ Stranded

LEMMA SpendSpends == ASSUME Typed, Spend("fault") PROVE used' # used
BY DEF Typed, Spend, Budgets

LEMMA StopsForAReason ==
    ASSUME SInv, T4Step, pc' = "recovery"
    PROVE  \/ used' # used
           \/ Stranded /\ ProjectionReady
           \/ pc = "routes" /\ NoCandidates
<1>1. /\ Typed /\ Operating /\ Unprojected /\ Settled /\ run \in Runs /\ Kind \in [Ops -> Kinds]
  BY DEF SInv, VInv, Typed
<1>2. CASE BeginCards
  <2>1. ~Loadable /\ CardsOnly(Ensured(run.op)) /\ run.op = yaml.op
    BY <1>1, <1>2 DEF BeginCards, Operating, InT4
  <2>2. store.view.pop # None
    <3> SUFFICES ASSUME store.view.pop = None PROVE FALSE
      OBVIOUS
    <3>1. run.op = None /\ Pending(Ensured(None), None)
      BY <1>1, <2>1 DEF Unprojected, CardsOnly, ProjectionReady
    <3>2. Ensured(None).status # "none"
      BY <3>1 DEF Pending, Current
    <3> QED
      BY <2>1, <3>2, EnsuredFirst
  <2> QED
    BY <2>1, <2>2, NotLoadable
<1>3. CASE BeginOperation
  <2>1. run.op \in Ops /\ run.op = yaml.op
    BY <1>1, <1>3 DEF BeginOperation, Operating, InT4, Runs
  <2>2. store.view.pop # None
    BY <1>1, <2>1 DEF Unprojected
  <2>3. ~Executable(run.op)
    BY <1>1, <1>3, <2>1 DEF BeginOperation, Kinds
  <2>4. ~Loadable
    BY <2>3 DEF Executable, Loadable
  <2> QED
    BY <2>2, <2>4, NotLoadable
<1>4. CASE JoinRoutes
  BY <1>4 DEF JoinRoutes, NoCandidates
<1>5. CASE RoleFails \/ CardsFail
  BY <1>1, <1>5, SpendSpends DEF RoleFails, CardsFail
<1>6. CASE Verify
  <2>1. pc = "verify" /\ ~Ready
    BY <1>6 DEF Verify
  <2> QED
    BY <1>1, <2>1 DEF Settled, Whole
<1>7. CASE BeginRun \/ \E r \in Routes : StartRoute(r) \/ RouteSucceeds(r) \/ RouteFails(r)
  BY <1>7 DEF BeginRun, StartRoute, RouteSucceeds, RouteFails, RouteEnds
<1>8. CASE WriteP0 \/ InitializeState \/ MarkFormation \/ AfterFormation \/ Evolve \/ Reprofile
           \/ Rescore \/ Check \/ Refuse \/ WritePopulation \/ WritePortfolio \/ Activate
           \/ MarkSurvival \/ WriteReceipt \/ ReuseCards \/ CompileCards \/ CardsCompiled
           \/ Project \/ CloseReceipt \/ Finish
  BY <1>8 DEF WriteP0, InitializeState, MarkFormation, AfterFormation, Evolve, Reprofile, Rescore,
     Check, Refuse, WritePopulation, WritePortfolio, Activate, MarkSurvival, WriteReceipt,
     ReuseCards, CompileCards, CardsCompiled, Project, CloseReceipt, Finish
<1> QED
  BY <1>2, <1>3, <1>4, <1>5, <1>6, <1>7, <1>8 DEF T4Step

LEMMA StepForAReason == ASSUME SInv, [Next]_vars PROVE [ForAReason]_vars
<1>1. pc = "finish" => Ready \/ Stranded
  BY DEF SInv, Settled, Whole
<1>2. CASE UNCHANGED vars
  BY <1>2
<1>3. CASE T4Step
  BY <1>1, <1>3, StopsForAReason DEF ForAReason
<1>4. CASE RunnerStep \/ Researcher \/ Resume \/ RetryT4 \/ Crash \/ Over
  <2>1. pc' = "recovery" => pc \notin InT4
    BY <1>4 DEF RunnerStep, StartT4, OpenGate1, ReopenRecovery, RecoveryResolved, QueueProfile,
       RollbackPortfolio, RollbackDeck, RollbackReceipt, RollbackView, Researcher, QueueOperation,
       StageProfile, Rollback, SelectCandidate, PauseRecovery, Resume, RetryT4, Crash, Over,
       InT4, First, Science, Making, Finishing
  <2> QED
    BY <1>1, <2>1 DEF ForAReason
<1> QED
  BY <1>2, <1>3, <1>4 DEF Next

\* The other half of BackAtGate: T4 ends at the recovery gate only when a
\* call has failed, when no route of P0 has brought a candidate, or when the
\* active population has lost its portfolio or its orientation; it reports
\* success only with cards ready for Gate1, or for such a population.  Crashes
\* between any two writes, reconstructed receipts and refused crossovers never
\* lead to a stop the researcher's retry could not get over
\* (_maybe_run_t4_evolution_before_llm, ensure_final_card_repair_state).
THEOREM T4StopsForAReason == Spec => [][ForAReason]_vars
<1>1. SInv /\ [Next]_vars => [ForAReason]_vars
  BY StepForAReason
<1> QED
  BY <1>1, SInvariant, PTL DEF Spec
====
