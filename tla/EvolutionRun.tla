---- MODULE EvolutionRun ----
(***************************************************************************)
(* T4 idea evolution across crashes: the runner and the T4 facade          *)
(* (runtime/orchestrator.py), the controller (ideation/                    *)
(* evolution_controller.py), the artifact store (ideation/state.py) and    *)
(* the Gate1 side of the state machine.  Each artifact is a file that is   *)
(* replaced atomically; an operation is a series of such writes, so an     *)
(* action ends at every write and at every LLM call, and a crash may come  *)
(* between any two of them.  What survives is the store and state.yaml.    *)
(* The upstream inputs of T4 do not change; the Publication Orientation    *)
(* may (cfg counts its revisions).                                         *)
(***************************************************************************)
EXTENDS Naturals, FiniteSets

CONSTANTS
    None,
    Routes,         \* the generation routes requested for P0
    Width,          \* route_max_concurrency
    RoundChoices,   \* the confirmed number of rounds is one of these
    Ops,            \* the operations the researcher may request at Gate1
    Kind,           \* "evolve", "reprofile", "check" or "rescore"
    Limit           \* how often the environment may do what is in its domain

Kinds == {"evolve", "reprofile", "check", "rescore"}
Budgets == {"crash", "fault", "pause", "rollback"}

ASSUME EvolutionAssumption ==
    /\ None \notin Ops \cup Nat /\ "rollback" \notin Ops /\ Kind \in [Ops -> Kinds]
    /\ Width \in Nat \ {0} /\ RoundChoices \subseteq 0..3
    /\ Limit \in [Budgets -> Nat]

VARIABLES
    store,  \* the files under ideation/
    yaml,   \* state.yaml: where the pipeline is, the queued operation
    pc,     \* where the process is
    run,    \* what the T4 agent holds in memory
    asked,  \* operations requested so far
    used,   \* what is used up of Limit
    made    \* history: populations activated for an operation

vars == <<store, yaml, pc, run, asked, used, made>>

\* The receipt is final_card_repair_state.json: it says which operation the
\* active population is the result of, and what is left to do for it.
Open == {"pending", "repair", "projection"}
Receipts == [pop : Nat \cup {None}, by : Ops \cup {None, "rollback"},
             status : Open \cup {"none", "completed"}]
NoRun == [op |-> None, gen |-> 0, last |-> 0, left |-> {}, busy |-> {}, refused |-> FALSE]

Init ==
    /\ \E n \in RoundChoices :
        store = [rounds |-> n, cfg |-> 0, routes |-> [r \in Routes |-> "none"],
                 pops |-> <<>>, formed |-> FALSE, closed |-> {},
                 state |-> [pop |-> None, cfg |-> 0], portfolio |-> None,
                 deck |-> [pop |-> None, cfg |-> 0, done |-> FALSE],
                 view |-> [pop |-> None, fresh |-> FALSE],
                 receipt |-> [pop |-> None, by |-> None, status |-> "none"]]
    /\ yaml = [at |-> "T4", op |-> None]
    /\ pc = "down" /\ run = NoRun /\ asked = {}
    /\ used = [b \in Budgets |-> 0]
    /\ made = [o \in Ops |-> 0]

Spend(b) == used[b] < Limit[b] /\ used' = [used EXCEPT ![b] = @ + 1]

Active == store.state.pop
Generations == DOMAIN store.pops
Newest == CHOOSE g \in Generations : \A h \in Generations : h <= g

\* Generation numbers are never handed out twice, whatever is active.
\* mutant: one more than the active generation
NextAfterActive == Active + 1
NextGeneration == Newest + 1

(***************************************************************************)
(* What the checks of the store conclude                                   *)
(***************************************************************************)

\* The cards are complete and the same deck, for the active population, is
\* what the Gate1 projection shows.
\* mutant: the deck is compared with the portfolio only
CardsOfPortfolio ==
    /\ store.portfolio # None
    /\ store.deck.done /\ store.deck.pop = store.portfolio
    /\ store.deck.cfg = store.cfg
CardsReady ==
    /\ store.portfolio # None
    /\ store.deck.done /\ store.deck.pop = store.portfolio
    /\ Active = store.portfolio
    /\ store.deck.cfg = store.cfg
    /\ store.view.fresh

ProjectionReady == store.view.pop # None
Ready == ProjectionReady /\ CardsReady

InputsValid == Active # None /\ store.state.cfg = store.cfg

\* A profile revision writes its scores under another name than a round.
Scored(g) == store.pops[g].by = None \/ Kind[store.pops[g].by] # "reprofile"

\* A queued operation must be the one the receipt names; with none queued
\* any receipt of the active population will do.
\* mutant: the operation is not compared
CurrentForAny(rc, op) == rc.status # "none" /\ rc.pop = Active
Current(rc, op) ==
    /\ rc.status # "none" /\ rc.pop = Active
    /\ op # None => rc.by = op
\* mutant: only a receipt that was never worked on
PendingUntouched(rc, op) == Current(rc, op) /\ rc.status = "pending"
Pending(rc, op) == Current(rc, op) /\ rc.status \in Open

\* A receipt is reconstructed for a population that is complete on disk.
\* mutant: without validating the state inputs
EnsuredUnvalidated(op) ==
    IF CardsReady THEN store.receipt
    ELSE IF Current(store.receipt, op) THEN
        IF store.receipt.status = "completed"
        THEN [store.receipt EXCEPT !.status = "repair"] ELSE store.receipt
    ELSE IF store.portfolio # None /\ store.portfolio = Active /\ Scored(Active)
        THEN [pop |-> Active, by |-> op, status |-> "pending"]
        ELSE store.receipt
Ensured(op) ==
    IF CardsReady THEN store.receipt
    ELSE IF Current(store.receipt, op) THEN
        IF store.receipt.status = "completed"
        THEN [store.receipt EXCEPT !.status = "repair"] ELSE store.receipt
    ELSE IF InputsValid /\ store.portfolio = Active /\ Scored(Active)
        THEN [pop |-> Active, by |-> op, status |-> "pending"]
        ELSE store.receipt

\* load_active_result_for_final_card_repair raises otherwise
Loadable == InputsValid /\ store.portfolio = Active

(***************************************************************************)
(* The runner between two agents                                           *)
(***************************************************************************)

\* T4 could not reach Gate1: the recovery gate, and the receipt reconciled.
StopWith(st, op) ==
    /\ store' = [st EXCEPT !.receipt = Ensured(op)]
    /\ yaml' = [at |-> "recovery", op |-> op]
    /\ pc' = "recovery" /\ run' = NoRun
Stop == StopWith(store, run.op)

\* A process is started (resume), or the runner takes its next step.
Resume ==
    /\ pc = "down" /\ pc' = "step"
    /\ UNCHANGED <<store, yaml, run, asked, used, made>>

StartT4 ==
    /\ pc = "step" /\ yaml.at = "T4"
    /\ yaml.op # None \/ ~Ready
    /\ pc' = "begin" /\ run' = [NoRun EXCEPT !.op = yaml.op]
    /\ UNCHANGED <<store, yaml, asked, used, made>>

\* pause_for_immediate_gate; refresh_pending_gate_presentation keeps a gate
\* that is ready and turns one that is not into the recovery gate.
OpenGate1 ==
    /\ pc = "step" /\ Ready
    /\ yaml.at = "gate1" \/ (yaml.at = "T4" /\ yaml.op = None)
    /\ yaml' = [yaml EXCEPT !.at = "gate1"] /\ pc' = "gate"
    /\ UNCHANGED <<store, run, asked, used, made>>

ReopenRecovery ==
    /\ pc = "step" /\ ~Ready /\ yaml.at \in {"gate1", "recovery"}
    /\ StopWith(store, yaml.op)
    /\ UNCHANGED <<asked, used, made>>

\* A recovery panel for artifacts that have become ready is dropped.
RecoveryResolved ==
    /\ pc \in {"step", "recovery"} /\ yaml.at = "recovery" /\ Ready
    /\ yaml' = [yaml EXCEPT !.at = "T4"] /\ pc' = "step"
    /\ UNCHANGED <<store, run, asked, used, made>>

RetryT4 ==
    /\ pc = "recovery" /\ ~Ready
    /\ yaml' = [yaml EXCEPT !.at = "T4"] /\ pc' = "step"
    /\ UNCHANGED <<store, run, asked, used, made>>

PauseRecovery ==
    /\ pc = "recovery" /\ ~Ready /\ Spend("pause")
    /\ yaml' = [yaml EXCEPT !.at = "T4"] /\ pc' = "down"
    /\ UNCHANGED <<store, run, asked, made>>

Crash ==
    /\ pc \notin {"down", "over"} /\ Spend("crash")
    /\ pc' = "down" /\ run' = NoRun
    /\ UNCHANGED <<store, yaml, asked, made>>

(***************************************************************************)
(* Gate1: operations, rollback and the selection                           *)
(***************************************************************************)

QueueOperation(o) ==
    /\ pc = "gate" /\ o \notin asked /\ Kind[o] # "reprofile"
    /\ yaml' = [at |-> "T4", op |-> o] /\ asked' = asked \cup {o}
    /\ pc' = "step"
    /\ UNCHANGED <<store, run, used, made>>

\* The new orientation is in the run configuration before it is queued.
StageProfile(o) ==
    /\ pc = "gate" /\ o \notin asked /\ Kind[o] = "reprofile"
    /\ store' = [store EXCEPT !.cfg = @ + 1]
    /\ asked' = asked \cup {o}
    /\ pc' = "staged" /\ run' = [NoRun EXCEPT !.op = o]
    /\ UNCHANGED <<yaml, used, made>>

QueueProfile ==
    /\ pc = "staged"
    /\ yaml' = [at |-> "T4", op |-> run.op] /\ pc' = "step" /\ run' = NoRun
    /\ UNCHANGED <<store, asked, used, made>>

\* The previous generation by number; activate_population refuses one of
\* another run configuration before anything is written.
Rollback ==
    /\ pc = "gate" /\ Active > 0 /\ Spend("rollback")
    /\ store.pops[Active - 1].cfg = store.state.cfg
    /\ store' = [store EXCEPT !.state.pop = Active - 1]
    /\ pc' = "rollback_portfolio"
    /\ UNCHANGED <<yaml, run, asked, made>>

\* _native_population_scores reads U<g>.json alone: the exception ends the
\* process with the population already activated.
RollbackPortfolio ==
    /\ pc = "rollback_portfolio"
    /\ IF Scored(Active)
       THEN store' = [store EXCEPT !.portfolio = Active] /\ pc' = "rollback_deck"
       ELSE UNCHANGED store /\ pc' = "down"
    /\ UNCHANGED <<yaml, run, asked, used, made>>

RollbackDeck ==
    /\ pc = "rollback_deck"
    /\ store' = [store EXCEPT !.deck = [pop |-> Active, cfg |-> store.cfg, done |-> FALSE],
                              !.view.fresh = FALSE]
    /\ pc' = "rollback_receipt"
    /\ UNCHANGED <<yaml, run, asked, used, made>>

RollbackReceipt ==
    /\ pc = "rollback_receipt"
    /\ store' = [store EXCEPT !.receipt = [pop |-> Active, by |-> "rollback", status |-> "repair"]]
    /\ pc' = "rollback_view"
    /\ UNCHANGED <<yaml, run, asked, used, made>>

\* The projection without cards, and the gate reopens as a recovery gate.
RollbackView ==
    /\ pc = "rollback_view"
    /\ StopWith([store EXCEPT !.view = [pop |-> Active, fresh |-> FALSE]], None)
    /\ UNCHANGED <<asked, used, made>>

SelectCandidate ==
    /\ pc = "gate"
    /\ yaml' = [yaml EXCEPT !.at = "past"] /\ pc' = "over"
    /\ UNCHANGED <<store, run, asked, used, made>>

(***************************************************************************)
(* _maybe_run_t4_evolution_before_llm decides what is left to do           *)
(***************************************************************************)

\* Cards only: the science is done, the receipt or the projection proves it.
CardsOnly(rc) ==
    \/ Pending(rc, run.op)
    \/ run.op = None /\ ProjectionReady /\ ~CardsReady

BeginCards ==
    LET rc == Ensured(run.op) IN
    /\ pc = "begin" /\ CardsOnly(rc)
    /\ IF Loadable
       THEN /\ store' = [store EXCEPT !.receipt = rc]
            /\ run' = [run EXCEPT !.gen = Active]
            /\ pc' = IF Pending(rc, run.op) THEN "cards" ELSE "receipt"
            /\ UNCHANGED yaml
       ELSE Stop
    /\ UNCHANGED <<asked, used, made>>

\* The queued operation, on the active population.
Executable(o) ==
    /\ Kind[o] = "evolve" => InputsValid
    /\ Kind[o] = "rescore" => Loadable

BeginOperation ==
    LET makes == Kind[run.op] \in {"evolve", "reprofile"}
        gen == IF makes THEN NextGeneration ELSE Active
        rc == Ensured(run.op)
    IN
    /\ pc = "begin" /\ run.op # None /\ ~CardsOnly(rc)
    /\ IF Executable(run.op)
       THEN /\ store' = [store EXCEPT !.receipt = rc]
            /\ run' = [run EXCEPT !.gen = gen, !.last = gen]
            /\ pc' = Kind[run.op]
            /\ UNCHANGED yaml
       ELSE Stop
    /\ UNCHANGED <<asked, used, made>>

\* A route whose checkpoint holds candidates is not generated again, one
\* that was archived as unsupported is.
\* mutant: every route is generated again
EveryRoute == Routes
\* mutant: an archived failure counts as a result
UntriedRoutes == {r \in Routes : store.routes[r] = "none"}
RoutesToRun == {r \in Routes : store.routes[r] # "filled"}

\* IdeaEvolutionController.run: P0, then the configured rounds.
BeginRun ==
    LET rc == Ensured(None) IN
    /\ pc = "begin" /\ run.op = None /\ ~CardsOnly(rc)
    /\ IF store.formed
       THEN run' = [run EXCEPT !.last = store.rounds] /\ pc' = "formed"
       ELSE run' = [run EXCEPT !.last = store.rounds, !.left = RoutesToRun] /\ pc' = "routes"
    /\ store' = [store EXCEPT !.receipt = rc]
    /\ UNCHANGED <<yaml, asked, used, made>>

(***************************************************************************)
(* Formation of P0: the routes run concurrently, at most Width at a time,  *)
(* each writes its checkpoint when it ends                                 *)
(***************************************************************************)

StartRoute(r) ==
    /\ pc = "routes" /\ r \in run.left \ run.busy
    /\ Cardinality(run.busy) < Width
    /\ run' = [run EXCEPT !.busy = @ \cup {r}]
    /\ UNCHANGED <<store, yaml, pc, asked, used, made>>

\* mutant: the semaphore is not released
RouteEndsHolding(r, outcome) ==
    /\ pc = "routes" /\ r \in run.busy
    /\ store' = [store EXCEPT !.routes[r] = outcome]
    /\ run' = [run EXCEPT !.left = @ \ {r}]
    /\ UNCHANGED <<yaml, pc, asked, made>>
RouteEnds(r, outcome) ==
    /\ pc = "routes" /\ r \in run.busy
    /\ store' = [store EXCEPT !.routes[r] = outcome]
    /\ run' = [run EXCEPT !.busy = @ \ {r}, !.left = @ \ {r}]
    /\ UNCHANGED <<yaml, pc, asked, made>>

RouteSucceeds(r) == RouteEnds(r, "filled") /\ UNCHANGED used

\* An exception is archived as an unsupported route without candidates.
RouteFails(r) == Spend("fault") /\ RouteEnds(r, "empty")

JoinRoutes ==
    /\ pc = "routes" /\ run.left = {}
    /\ IF \E r \in Routes : store.routes[r] = "filled"
       THEN pc' = "p0" /\ UNCHANGED <<store, yaml, run>>
       ELSE Stop
    /\ UNCHANGED <<asked, used, made>>

\* A file P<g>.json; one that is already there is replaced.
Write(g, cfg) ==
    [h \in Generations \cup {g} |->
        IF h = g THEN [cfg |-> cfg, by |-> run.op] ELSE store.pops[h]]

WriteP0 ==
    /\ pc = "p0"
    /\ store' = [store EXCEPT !.pops = Write(0, store.cfg)]
    /\ pc' = "p0_state"
    /\ UNCHANGED <<yaml, run, asked, used, made>>

InitializeState ==
    /\ pc = "p0_state"
    /\ store' = [store EXCEPT !.state = [pop |-> 0, cfg |-> store.cfg]]
    /\ pc' = "p0_marker"
    /\ UNCHANGED <<yaml, run, asked, used, made>>

MarkFormation ==
    /\ pc = "p0_marker"
    /\ store' = [store EXCEPT !.formed = TRUE]
    /\ pc' = "formed"
    /\ UNCHANGED <<yaml, run, asked, used, made>>

AfterFormation ==
    /\ pc = "formed"
    /\ IF run.last = 0
       THEN pc' = "rescore" /\ UNCHANGED run
       ELSE pc' = "evolve" /\ run' = [run EXCEPT !.gen = 1]
    /\ UNCHANGED <<store, yaml, asked, used, made>>

(***************************************************************************)
(* The calls of the scientific roles, and the population they lead to      *)
(***************************************************************************)

\* A round that is marked complete is taken from disk.
Evolve ==
    /\ pc = "evolve"
    /\ pc' = IF run.gen \in store.closed THEN "activate" ELSE "population"
    /\ UNCHANGED <<store, yaml, run, asked, used, made>>

Reprofile ==
    /\ pc = "reprofile" /\ pc' = "population"
    /\ UNCHANGED <<store, yaml, run, asked, used, made>>

\* Scores of P0 when no round is configured, or of the selected candidate.
Rescore ==
    /\ pc = "rescore"
    /\ pc' = IF run.op = None THEN "portfolio" ELSE "receipt"
    /\ UNCHANGED <<store, yaml, run, asked, used, made>>

\* The composition check leaves the population alone; so does a crossover
\* that is judged incompatible and a route without a new candidate.
Check ==
    /\ pc = "check" /\ pc' = "finish"
    /\ UNCHANGED <<store, yaml, run, asked, used, made>>

Refuse ==
    /\ pc = "evolve" /\ run.op # None
    /\ run' = [run EXCEPT !.refused = TRUE] /\ pc' = "verify"
    /\ UNCHANGED <<store, yaml, asked, used, made>>

RoleFails ==
    /\ pc \in {"evolve", "reprofile", "rescore", "check"} /\ Spend("fault")
    /\ Stop
    /\ UNCHANGED <<asked, made>>

\* A round inherits the run configuration of its parents.
Orientation == IF run.op # None /\ Kind[run.op] = "reprofile" THEN store.cfg ELSE store.state.cfg

WritePopulation ==
    /\ pc = "population"
    /\ store' = [store EXCEPT !.pops = Write(run.gen, Orientation)]
    /\ pc' = "portfolio"
    /\ UNCHANGED <<yaml, run, asked, used, made>>

WritePortfolio ==
    /\ pc = "portfolio"
    /\ store' = [store EXCEPT !.portfolio = run.gen]
    /\ pc' = "activate"
    /\ UNCHANGED <<yaml, run, asked, used, made>>

Activate ==
    /\ pc = "activate"
    /\ store' = [store EXCEPT !.state = [pop |-> run.gen, cfg |-> store.pops[run.gen].cfg]]
    /\ made' = IF run.op = None THEN made ELSE [made EXCEPT ![run.op] = @ + 1]
    /\ pc' = IF run.gen = 0 \/ ~Scored(run.gen) THEN "receipt" ELSE "marker"
    /\ UNCHANGED <<yaml, run, asked, used>>

MarkSurvival ==
    /\ pc = "marker"
    /\ store' = [store EXCEPT !.closed = @ \cup {run.gen}]
    /\ IF run.gen < run.last
       THEN pc' = "evolve" /\ run' = [run EXCEPT !.gen = @ + 1]
       ELSE pc' = "receipt" /\ UNCHANGED run
    /\ UNCHANGED <<yaml, asked, used, made>>

(***************************************************************************)
(* The receipt, the final cards, the Gate1 projection                      *)
(***************************************************************************)

WriteReceipt ==
    /\ pc = "receipt"
    /\ store' = [store EXCEPT !.receipt = [pop |-> run.gen, by |-> run.op, status |-> "pending"]]
    /\ pc' = "cards"
    /\ UNCHANGED <<yaml, run, asked, used, made>>

ReuseCards ==
    /\ pc = "cards" /\ CardsReady /\ pc' = "project"
    /\ UNCHANGED <<store, yaml, run, asked, used, made>>

CompileCards ==
    /\ pc = "cards" /\ ~CardsReady
    /\ store' = [store EXCEPT !.deck = [pop |-> run.gen, cfg |-> store.cfg, done |-> TRUE],
                              !.view.fresh = FALSE]
    /\ pc' = "compiled"
    /\ UNCHANGED <<yaml, run, asked, used, made>>

\* The attempts are used up: the deck asks for a repair, then the receipt.
CardsFail ==
    /\ pc = "cards" /\ ~CardsReady /\ Spend("fault")
    /\ StopWith([store EXCEPT !.deck = [pop |-> run.gen, cfg |-> store.cfg, done |-> FALSE],
                              !.view.fresh = FALSE], run.op)
    /\ UNCHANGED <<asked, made>>

CardsCompiled ==
    /\ pc = "compiled"
    /\ store' = [store EXCEPT !.receipt.status = "projection"]
    /\ pc' = "project"
    /\ UNCHANGED <<yaml, run, asked, used, made>>

Project ==
    /\ pc = "project"
    /\ store' = [store EXCEPT !.view = [pop |-> run.gen, fresh |-> store.deck.done]]
    /\ pc' = "close"
    /\ UNCHANGED <<yaml, run, asked, used, made>>

CloseReceipt ==
    /\ pc = "close"
    /\ store' = [store EXCEPT !.receipt.status = "completed"]
    /\ pc' = "verify"
    /\ UNCHANGED <<yaml, run, asked, used, made>>

Verify ==
    /\ pc = "verify"
    /\ IF Ready THEN pc' = "finish" /\ UNCHANGED <<store, yaml, run>> ELSE Stop
    /\ UNCHANGED <<asked, used, made>>

\* advance: only now does state.yaml forget the operation.
Finish ==
    /\ pc = "finish"
    /\ yaml' = [at |-> "gate1", op |-> None] /\ pc' = "step" /\ run' = NoRun
    /\ UNCHANGED <<store, asked, used, made>>

Over == pc = "over" /\ UNCHANGED vars

T4Step ==
    \/ BeginCards \/ BeginOperation \/ BeginRun
    \/ \E r \in Routes : StartRoute(r) \/ RouteSucceeds(r) \/ RouteFails(r)
    \/ JoinRoutes \/ WriteP0 \/ InitializeState \/ MarkFormation \/ AfterFormation
    \/ Evolve \/ Reprofile \/ Rescore \/ Check \/ Refuse \/ RoleFails
    \/ WritePopulation \/ WritePortfolio \/ Activate \/ MarkSurvival
    \/ WriteReceipt \/ ReuseCards \/ CompileCards \/ CardsFail \/ CardsCompiled
    \/ Project \/ CloseReceipt \/ Verify \/ Finish

RunnerStep ==
    \/ StartT4 \/ OpenGate1 \/ ReopenRecovery \/ RecoveryResolved
    \/ QueueProfile
    \/ RollbackPortfolio \/ RollbackDeck \/ RollbackReceipt \/ RollbackView

Researcher ==
    \/ \E o \in Ops : QueueOperation(o) \/ StageProfile(o)
    \/ Rollback \/ SelectCandidate \/ PauseRecovery

Next == T4Step \/ RunnerStep \/ Researcher \/ Resume \/ RetryT4 \/ Crash \/ Over

Spec == Init /\ [][Next]_vars

\* The process goes on, it is started again after it has ended, and the
\* researcher answers a recovery gate; nobody has to answer Gate1.
FairSpec == Spec /\ WF_vars(T4Step \/ RunnerStep) /\ WF_vars(Resume) /\ WF_vars(RetryT4)

(***************************************************************************)
(* Properties                                                              *)
(***************************************************************************)

TypeOK ==
    /\ store.rounds \in RoundChoices /\ store.cfg \in Nat
    /\ store.routes \in [Routes -> {"none", "empty", "filled"}]
    /\ \A g \in Generations : store.pops[g] \in [cfg : Nat, by : Ops \cup {None}]
    /\ store.formed \in BOOLEAN /\ store.closed \subseteq Generations
    /\ store.state \in [pop : Generations \cup {None}, cfg : Nat]
    /\ store.portfolio \in Generations \cup {None}
    /\ store.deck \in [pop : Generations \cup {None}, cfg : Nat, done : BOOLEAN]
    /\ store.view \in [pop : Generations \cup {None}, fresh : BOOLEAN]
    /\ store.receipt \in Receipts
    /\ yaml \in [at : {"T4", "gate1", "recovery", "past"}, op : Ops \cup {None}]
    /\ run.op \in Ops \cup {None} /\ run.busy \subseteq run.left
    /\ Cardinality(run.busy) <= Width
    /\ asked \subseteq Ops /\ used \in [Budgets -> Nat] /\ made \in [Ops -> Nat]

\* What the researcher decides on at Gate1 describes one population, the
\* active one, in its current orientation: the portfolio, the cards, the
\* projection and state.json agree however T4 was interrupted.
GateShowsActive ==
    pc \in {"gate", "over"} =>
        /\ store.portfolio = Active /\ store.deck.pop = Active /\ store.view.pop = Active
        /\ store.state.cfg = store.cfg

\* The receipt in state final_card_repair_state.json names the operation its
\* population was made by: a reconstructed one is never bound to an operation
\* that is queued but has not run.
ReceiptNamesMaker ==
    store.receipt.status # "none" /\ store.receipt.by \in Ops =>
        \/ Kind[store.receipt.by] = "rescore"
        \/ store.pops[store.receipt.pop].by = store.receipt.by

\* A route that has contributed candidates keeps them: a later failure, a
\* crash or a resume never generates it again.
RoutesKept ==
    [][\A r \in Routes : store.routes[r] = "filled" => store'.routes[r] = "filled"]_vars

\* state.yaml forgets an operation only after the population it asked for
\* was activated, unless it asks for none or was refused.
OperationHonoured ==
    [][yaml.op # None /\ yaml'.op # yaml.op =>
          made[yaml.op] > 0 \/ run.refused \/ Kind[yaml.op] \in {"check", "rescore"}]_vars

\* An evolution that has been activated is executed again only when its
\* receipt had been closed: no crash before that point repeats it.
ReceiptPreventsRepeat ==
    [][pc = "begin" /\ pc' = "evolve" /\ run.op # None /\ made[run.op] > 0 =>
          store.receipt.by = run.op /\ store.receipt.status = "completed"]_vars

\* T4 is stuck for good only where the active population lost its portfolio
\* or its orientation: in every other case it comes back to Gate1.
Stranded == store.portfolio # Active \/ store.state.cfg # store.cfg
BackAtGate == []<>(pc \in {"gate", "over"}) \/ <>[](Stranded /\ ProjectionReady)

\* What the open gate is about; a new orientation is staged from there.
Offered == IF pc \in {"gate", "staged", "over"} THEN store.view.pop ELSE None

\* Every step of T4, its crashes, failures, retries and rollbacks, is one the
\* researcher may rely on: see module Ideation, which this module implements.
Promise == INSTANCE Ideation WITH
    archive <- store.pops, current <- Active,
    request <- yaml.op, refused <- run.refused, honoured <- {o \in Ops : made[o] > 0},
    presented <- store.view.pop # None, offered <- Offered,
    chosen <- IF yaml.at = "past" THEN store.view.pop ELSE None
FollowsIdeation == Promise!IdeationSpec

====
