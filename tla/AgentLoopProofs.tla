---- MODULE AgentLoopProofs ----
(***************************************************************************)
(* What a run of an agent may report, for every set of tools, every limit  *)
(* and extension of its budgets and any number of faults and Ctrl+C.       *)
(***************************************************************************)
EXTENDS AgentLoop, TLAPS

Reports == [stop : Stops, error : Errors, signal : Signals, choice : BOOLEAN]
ArtType == [work : BOOLEAN, cover : BOOLEAN, handover : BOOLEAN, touched : BOOLEAN]

(* The loop goes on; only afterwards is there anything to report.          *)
Running == Locations \ {"wrap", "over", "escaped"}

(* An inline prompt is only shown while its extension is left, a request   *)
(* only sent while its batches are.                                        *)
Bounded ==
    /\ pc \in {"budget_top", "budget_end"} => steps.ext < Extensions
    /\ pc = "retry" => checks.ext < Extensions
    /\ pc = "llm" => batch < Batches

Typed == TypeOK /\ Bounded

-----------------------------------------------------------------------------
(* The type invariant.                                                     *)

LEMMA Literals ==
    /\ KnownKinds \subseteq Signals /\ Signals \subseteq Errors
    /\ {"none", "structured_schema", "no_source_progress", "literature_coverage"}
         \subseteq Signals
    /\ {"hook", "empty", "text", "raised", "cancelled", "no_ask_tool"} \subseteq Errors
    /\ {"validation", "budget", "max_steps", "provider", "runtime", "human_input"}
         \subseteq KnownKinds
    /\ {"none", "finished", "interrupted", "error", "budget", "max_steps"} = Stops
BY DEF KnownKinds, Signals, Errors, Stops

LEMMA SpendType ==
    ASSUME used \in [Budgets -> Nat], NEW b \in Budgets, Spend(b)
    PROVE  used' \in [Budgets -> Nat]
BY DEF Spend

LEMMA LeaveType ==
    ASSUME TypeOK, NEW stop \in Stops, NEW error \in Errors, NEW signal \in Signals,
           Leave(stop, error, signal)
    PROVE  pc' = "wrap"
           /\ out' \in Reports
BY DEF TypeOK, Leave, Go, Reports

LEMMA ExhaustedType ==
    ASSUME TypeOK, NEW gate \in {"budget_top", "budget_end"},
           NEW kind \in {"budget", "max_steps"}, Exhausted(gate, kind)
    PROVE  /\ out' \in Reports
           /\ pc' = "wrap" \/ (pc' = gate /\ steps.ext < Extensions)
<1>1. CASE steps.ext < Extensions
  BY <1>1 DEF Exhausted, Go, TypeOK, Reports
<1>2. CASE ~(steps.ext < Extensions)
  <2>1. Leave(kind, kind, kind) /\ kind \in Stops /\ kind \in Errors /\ kind \in Signals
    BY <1>2 DEF Exhausted, Pause, Stops, Errors, Signals, KnownKinds
  <2> QED
    BY <2>1, LeaveType
<1> QED
  BY <1>1, <1>2

LEMMA CostsType ==
    ASSUME TypeOK, Costs
    PROVE  /\ used' \in [Budgets -> Nat]
           /\ steps' \in [taken : Nat, limit : Nat, ext : 0..Extensions, over : BOOLEAN]
           /\ steps'.ext = steps.ext
BY SpendType DEF TypeOK, Costs, Budgets

LEMMA TypedInit == Init => Typed
<1> SUFFICES ASSUME Init PROVE Typed
  OBVIOUS
<1>1. /\ steps \in [taken : Nat, limit : Nat, ext : 0..Extensions, over : BOOLEAN]
      /\ checks \in [fails : Nat, limit : Nat, ext : 0..Extensions]
      /\ idle \in [empty : Nat, text : Nat] /\ batch \in 0..Batches
  BY LoopAssumption DEF Init
<1>2. /\ turn \in [asked : SUBSET Tools, running : SUBSET Tools, done : SUBSET Tools,
                   paused : SUBSET Tools]
      /\ art \in ArtType
      /\ used \in [Budgets -> Nat]
  BY DEF Init, NoTurn, ArtType
<1>3. out \in [stop : Stops, error : Errors, signal : Signals, choice : BOOLEAN]
  BY DEF Init, Stops, Errors, Signals
<1> QED
  BY <1>1, <1>2, <1>3 DEF Init, Typed, TypeOK, ArtType, Bounded, Locations

(* The steps of the loop, of its finally and of the model.                 *)
LEMMA TypedInternal == ASSUME Typed, Internal PROVE Typed'
<1> USE LoopAssumption DEF Typed, Bounded, Reports, ArtType, loop, Go
<1>1. CASE Started \/ BeginLoop \/ FinishRequested \/ Defer
  BY <1>1 DEF Started, BeginLoop, FinishRequested, Defer, TypeOK, Locations
<1>2. CASE PreFinalized \/ HandOver \/ RefuseLoop \/ Accept
  <2>1. Leave("finished", "none", "none") \/ Leave("interrupted", "runtime", "runtime")
    BY <1>2 DEF PreFinalized, HandOver, RefuseLoop, Pause, Accept
  <2>2. pc' = "wrap"
        /\ out' \in Reports
    <3>1. /\ "finished" \in Stops /\ "none" \in Errors /\ "none" \in Signals
          /\ "interrupted" \in Stops /\ "runtime" \in Errors /\ "runtime" \in Signals
      BY Literals
    <3>2. CASE Leave("finished", "none", "none")
      BY <3>1, <3>2, LeaveType
    <3>3. CASE Leave("interrupted", "runtime", "runtime")
      BY <3>1, <3>3, LeaveType
    <3> QED
      BY <2>1, <3>2, <3>3
  <2>3. /\ art' \in ArtType
        /\ UNCHANGED <<task, steps, checks, idle, batch, turn, parting, used>>
    <3>1. /\ UNCHANGED <<task, steps, checks, idle, batch, turn, parting, used>>
          /\ \/ art' = art \/ art' = [art EXCEPT !.work = TRUE]
             \/ art' = [art EXCEPT !.handover = TRUE]
      BY <1>2, Zenon DEF PreFinalized, HandOver, RefuseLoop, Accept
    <3>2. art' \in ArtType
      <4>1. art \in ArtType
        BY DEF TypeOK
      <4>2. CASE art' = [art EXCEPT !.work = TRUE]
        BY <4>1, <4>2
      <4>3. CASE art' = [art EXCEPT !.handover = TRUE]
        BY <4>1, <4>3
      <4> QED
        BY <3>1, <4>1, <4>2, <4>3
    <3> QED
      BY <3>1, <3>2
  <2> QED
    BY <2>2, <2>3 DEF TypeOK, Locations
<1>3. CASE Step
  <2>1. steps' \in [taken : Nat, limit : Nat, ext : 0..Extensions, over : BOOLEAN]
        /\ steps'.ext = steps.ext
    BY <1>3 DEF Step, TypeOK
  <2>2. CASE Exhausted("budget_top", "budget")
    <3>1. /\ out' \in Reports
          /\ pc' = "wrap" \/ (pc' = "budget_top" /\ steps.ext < Extensions)
      BY <2>2, ExhaustedType
    <3> QED
      BY <1>3, <2>1, <3>1 DEF Step, TypeOK, NoTurn, Locations, Gates
  <2>3. CASE pc' = "llm" /\ UNCHANGED out
    BY <1>3, <2>1, <2>3 DEF Step, TypeOK, NoTurn, Locations
  <2> QED
    BY <1>3, <2>2, <2>3 DEF Step
<1>4. CASE ToolsPaused
  <2>1. PICK c \in turn.paused : Pause("interrupted", PauseKind(c))
    BY <1>4 DEF ToolsPaused
  <2>2. PauseKind(c) \in Errors /\ PauseKind(c) \in Signals
    BY DEF PauseKind, Errors, Signals, KnownKinds
  <2>3. pc' = "wrap"
        /\ out' \in Reports
    BY <2>1, <2>2, LeaveType DEF Pause, Stops
  <2> QED
    BY <1>4, <2>3 DEF ToolsPaused, TypeOK, Locations
<1>5. CASE ToolsDone \/ Repair
  <2>1. checks' \in [fails : Nat, limit : Nat, ext : 0..Extensions]
    BY <1>5 DEF ToolsDone, Repair, Rejected, TypeOK
  <2>2. CASE Exhausted("budget_end", "max_steps")
    <3>1. /\ out' \in Reports
          /\ pc' = "wrap" \/ (pc' = "budget_end" /\ steps.ext < Extensions)
      BY <2>2, ExhaustedType
    <3> QED
      BY <1>5, <2>1, <3>1 DEF ToolsDone, Repair, Rejected, TypeOK, Locations, Gates
  <2>3. CASE pc' = "step" /\ UNCHANGED out
    BY <1>5, <2>1, <2>3 DEF ToolsDone, Repair, Rejected, TypeOK, Locations
  <2> QED
    BY <1>5, <2>2, <2>3 DEF ToolsDone, Repair, EndIteration
<1>6. CASE RepairQuality
  <2>0. /\ checks' \in [fails : Nat, limit : Nat, ext : 0..Extensions]
        /\ art' \in ArtType
        /\ UNCHANGED <<task, steps, idle, batch, turn, parting, used>>
    <3>1. /\ checks' = [checks EXCEPT !.fails = @ + 1]
          /\ UNCHANGED <<task, steps, idle, batch, turn, parting, used>>
          /\ art' = [art EXCEPT !.touched = FALSE]
      BY <1>6, Zenon DEF RepairQuality, Rejected
    <3>2. checks' \in [fails : Nat, limit : Nat, ext : 0..Extensions]
      BY <3>1 DEF TypeOK
    <3>3. art' \in ArtType
      BY <3>1 DEF TypeOK
    <3> QED
      BY <3>1, <3>2, <3>3
  <2>1. CASE pc' = "step" /\ UNCHANGED out
    BY <2>0, <2>1 DEF TypeOK, Locations
  <2>2. CASE Pause("interrupted", "no_source_progress")
    <3>0. /\ "interrupted" \in Stops
          /\ "no_source_progress" \in Errors /\ "no_source_progress" \in Signals
      BY Literals
    <3>1. pc' = "wrap"
          /\ out' \in Reports
      BY <2>2, <3>0, LeaveType DEF Pause
    <3> QED
      BY <2>0, <3>1 DEF TypeOK, Locations
  <2> QED
    BY <1>6, <2>1, <2>2 DEF RepairQuality
<1>7. CASE RepairsUsedUp
  <2>1. /\ checks' \in [fails : Nat, limit : Nat, ext : 0..Extensions]
        /\ checks'.ext = checks.ext
    BY <1>7 DEF RepairsUsedUp, Rejected, TypeOK
  <2>2. CASE checks.ext < Extensions
    BY <1>7, <2>1, <2>2 DEF RepairsUsedUp, Rejected, TypeOK, Locations, Gates
  <2>3. CASE ~(checks.ext < Extensions)
    <3>1. pc' = "wrap"
          /\ out' \in Reports
      BY <1>7, <2>3, LeaveType DEF RepairsUsedUp, Pause, Stops, Errors, Signals, KnownKinds
    <3> QED
      BY <1>7, <2>1, <3>1 DEF RepairsUsedUp, Rejected, TypeOK, Locations
  <2> QED
    BY <2>2, <2>3
<1>8. CASE RecoverT2 \/ FinalizeAnyway \/ WrapUp
  <2>1. /\ out' \in Reports /\ pc' = "over"
        /\ art' \in ArtType
        /\ UNCHANGED <<task, steps, checks, idle, batch, turn, parting, used>>
    <3>1. "finished" \in Stops /\ "none" \in Errors
      BY Literals
    <3>2. out' = out \/ out' = [out EXCEPT !.stop = "finished", !.error = "none"]
      BY <1>8 DEF RecoverT2, FinalizeAnyway, WrapUp
    <3>3. out' \in Reports
      BY <3>1, <3>2 DEF TypeOK
    <3>4. art' = art \/ art' = [art EXCEPT !.work = TRUE]
      BY <1>8 DEF RecoverT2, FinalizeAnyway, WrapUp
    <3>5. art' \in ArtType
      BY <3>4 DEF TypeOK
    <3>6. pc' = "over" /\ UNCHANGED <<task, steps, checks, idle, batch, turn, parting, used>>
      BY <1>8, Zenon DEF RecoverT2, FinalizeAnyway, WrapUp
    <3> QED
      BY <3>3, <3>5, <3>6
  <2> QED
    BY <2>1 DEF TypeOK, Locations
<1>9. CASE SweepAfterFinish \/ SweepAfterPause
  <2>1. PICK covered \in BOOLEAN :
             /\ art' = [art EXCEPT !.cover = covered]
             /\ \/ out' = out
                \/ out' = [out EXCEPT !.signal = "literature_coverage"]
                \/ out' = [out EXCEPT !.stop = "interrupted", !.error = "literature_coverage",
                                      !.signal = "literature_coverage"]
    BY <1>9, Zenon DEF SweepAfterFinish, SweepAfterPause, TypeOK
  <2>2. art' \in ArtType
    BY <2>1 DEF TypeOK
  <2>3. out' \in Reports
    <3>1. /\ "interrupted" \in Stops
          /\ "literature_coverage" \in Errors /\ "literature_coverage" \in Signals
      BY Literals
    <3>2. out \in Reports
      BY DEF TypeOK
    <3> HIDE DEF Typed
    <3>3. CASE out' = [out EXCEPT !.signal = "literature_coverage"]
      BY <3>1, <3>2, <3>3
    <3>4. CASE out' = [out EXCEPT !.stop = "interrupted", !.error = "literature_coverage",
                                  !.signal = "literature_coverage"]
      BY <3>1, <3>2, <3>4
    <3> QED
      BY <2>1, <3>2, <3>3, <3>4
  <2> QED
    BY <1>9, <2>2, <2>3 DEF SweepAfterFinish, SweepAfterPause, TypeOK, Locations
<1> QED
  BY <1>1, <1>2, <1>3, <1>4, <1>5, <1>6, <1>7, <1>8, <1>9 DEF Internal

LEMMA TypedModel == ASSUME Typed, Model PROVE Typed'
<1> USE LoopAssumption DEF Typed, Bounded, Reports, Go
<1>0. Costs /\ UNCHANGED <<task, checks, batch, parting>>
  BY DEF Model, EmptyReply, TextReply, ProseQuestion, ToolReply
<1>1. /\ used' \in [Budgets -> Nat]
      /\ steps' \in [taken : Nat, limit : Nat, ext : 0..Extensions, over : BOOLEAN]
      /\ steps'.ext = steps.ext
  BY <1>0, CostsType
<1>2. CASE EmptyReply \/ TextReply \/ ProseQuestion
  <2>1. idle' \in [empty : Nat, text : Nat]
    BY <1>2 DEF EmptyReply, TextReply, ProseQuestion, TypeOK
  <2>2. CASE pc' = "step" /\ UNCHANGED out
    BY <1>0, <1>1, <1>2, <2>1, <2>2 DEF EmptyReply, TextReply, ProseQuestion, TypeOK, Locations
  <2>3. CASE \/ Leave("error", "empty", "none") \/ Leave("error", "text", "none")
             \/ Leave("interrupted", "no_ask_tool", "none")
    <3>1. pc' = "wrap"
          /\ out' \in Reports
      BY <2>3, LeaveType DEF Stops, Errors, Signals, KnownKinds
    <3> QED
      BY <1>0, <1>1, <1>2, <2>1, <3>1
         DEF EmptyReply, TextReply, ProseQuestion, TypeOK, Locations
  <2> QED
    BY <1>2, <2>2, <2>3 DEF EmptyReply, TextReply, ProseQuestion
<1>3. ASSUME NEW calls \in SUBSET Tools \ {{}}, ToolReply(calls)
      PROVE  Typed'
  <2>1. Kept(calls) \subseteq Tools
    BY DEF Kept
  <2>2. turn' = [asked |-> Kept(calls), running |-> Kept(calls), done |-> {}, paused |-> {}]
    BY <1>3 DEF ToolReply, NoTurn
  <2>3. idle' = [empty |-> 0, text |-> 0] /\ pc' = "tools" /\ UNCHANGED <<art, out>>
    BY <1>3 DEF ToolReply
  <2> QED
    BY <1>0, <1>1, <2>1, <2>2, <2>3 DEF TypeOK, Locations
<1> QED
  BY <1>2, <1>3 DEF Model

LEMMA TypedFailures == ASSUME Typed, Failures PROVE Typed'
<1> USE LoopAssumption DEF Typed, Bounded, Reports, loop, Go
<1>1. CASE StartupFails
  <2>1. "interrupted" \in Stops /\ "runtime" \in Errors /\ "runtime" \in Signals
    BY Literals
  <2>2. out' \in Reports
    BY <1>1, <2>1 DEF StartupFails, TypeOK
  <2>3. used' \in [Budgets -> Nat]
    BY <1>1, SpendType DEF StartupFails, TypeOK, Budgets
  <2> QED
    BY <1>1, <2>2, <2>3 DEF StartupFails, TypeOK, Locations
<1>2. CASE HookFails \/ PrepareBlocked \/ ProviderRefuses
  <2>1. /\ {"error", "interrupted"} \subseteq Stops
        /\ {"hook", "runtime", "provider"} \subseteq Errors
        /\ {"none", "runtime"} \subseteq Signals
    BY Literals
  <2>2. pc' = "wrap" /\ out' \in Reports
    BY <1>2, <2>1, LeaveType DEF HookFails, PrepareBlocked, ProviderRefuses, Pause
  <2>3. used' \in [Budgets -> Nat]
    BY <1>2, SpendType DEF HookFails, PrepareBlocked, ProviderRefuses, TypeOK, Budgets
  <2> QED
    BY <1>2, <2>2, <2>3 DEF HookFails, PrepareBlocked, ProviderRefuses, TypeOK, Locations
<1>3. CASE ProviderFails
  <2>1. used' \in [Budgets -> Nat]
    BY <1>3, SpendType DEF ProviderFails, TypeOK, Budgets
  <2>2. batch' \in 0..Batches /\ ((pc' = "llm" /\ batch' < Batches) \/ pc' = "provider")
    BY <1>3 DEF ProviderFails, TypeOK
  <2> QED
    BY <1>3, <2>1, <2>2 DEF ProviderFails, TypeOK, Locations, Gates
<1>4. ASSUME NEW c \in Tools, ToolErrs(c) \/ ToolPauses(c)
      PROVE  Typed'
  <2>1. used' \in [Budgets -> Nat]
    BY <1>4, SpendType DEF ToolErrs, ToolPauses, TypeOK, Budgets
  <2>2. CASE ToolErrs(c)
    <3>1. turn' \in [asked : SUBSET Tools, running : SUBSET Tools, done : SUBSET Tools,
                     paused : SUBSET Tools]
      BY <2>2 DEF ToolErrs, TypeOK
    <3> QED
      BY <2>1, <2>2, <3>1 DEF ToolErrs, TypeOK
  <2>3. CASE ToolPauses(c)
    <3>1. turn' \in [asked : SUBSET Tools, running : SUBSET Tools, done : SUBSET Tools,
                     paused : SUBSET Tools]
      BY <2>3 DEF ToolPauses, TypeOK
    <3> QED
      BY <2>1, <2>3, <3>1 DEF ToolPauses, TypeOK
  <2> QED
    BY <1>4, <2>2, <2>3
<1>5. ASSUME NEW c \in Tools, ToolRaises(c)
      PROVE  Typed'
  <2>1. used' \in [Budgets -> Nat]
    BY <1>5, SpendType DEF ToolRaises, TypeOK, Budgets
  <2>2. turn' \in [asked : SUBSET Tools, running : SUBSET Tools, done : SUBSET Tools,
                   paused : SUBSET Tools]
    BY <1>5 DEF ToolRaises, TypeOK
  <2>3. "error" \in Stops /\ "raised" \in Errors /\ "none" \in Signals
    BY Literals
  <2>4. pc' = "wrap" /\ out' \in Reports
    BY <1>5, <2>3, LeaveType DEF ToolRaises
  <2> QED
    BY <1>5, <2>1, <2>2, <2>4 DEF ToolRaises, TypeOK, Locations
<1> QED
  BY <1>1, <1>2, <1>3, <1>4, <1>5 DEF Failures

LEMMA TypedResearcher == ASSUME Typed, Researcher PROVE Typed'
<1> USE LoopAssumption DEF Typed, Bounded, Reports, loop, Go
<1>1. CASE ExtendBudget
  <2>1. steps' \in [taken : Nat, limit : Nat, ext : 0..Extensions, over : BOOLEAN]
    <3>0. /\ steps \in [taken : Nat, limit : Nat, ext : 0..Extensions, over : BOOLEAN]
          /\ steps.ext < Extensions
      BY <1>1 DEF ExtendBudget, TypeOK
    <3>1. steps.ext + 1 \in 0..Extensions
      BY <3>0
    <3>2. steps.limit + Window \in Nat
      BY <3>0
    <3>3. \/ steps' = [steps EXCEPT !.limit = steps.limit + Window, !.ext = steps.ext + 1]
          \/ steps' = [steps EXCEPT !.over = FALSE, !.ext = steps.ext + 1]
      BY <1>1, Zenon DEF ExtendBudget
    <3> DEFINE e == steps.ext + 1
               l == steps.limit + Window
    <3> HIDE DEF e, l, Typed
    <3>4. CASE steps' = [steps EXCEPT !.limit = l, !.ext = e]
      BY <3>0, <3>1, <3>2, <3>4 DEF e, l
    <3>5. CASE steps' = [steps EXCEPT !.over = FALSE, !.ext = e]
      BY <3>0, <3>1, <3>5 DEF e
    <3> QED
      BY <3>3, <3>4, <3>5 DEF e, l
  <2> QED
    BY <1>1, <2>1 DEF ExtendBudget, TypeOK, Locations
<1>2. CASE ExtendRetries
  <2>1. checks' \in [fails : Nat, limit : Nat, ext : 0..Extensions]
    <3>0. /\ checks \in [fails : Nat, limit : Nat, ext : 0..Extensions]
          /\ checks.ext < Extensions
      BY <1>2 DEF ExtendRetries, TypeOK
    <3>1. checks.ext + 1 \in 0..Extensions
      BY <3>0
    <3>2. checks.limit + RetryIncrease \in Nat
      BY <3>0
    <3>3. checks' = [checks EXCEPT !.limit = checks.limit + RetryIncrease, !.ext = checks.ext + 1]
      BY <1>2 DEF ExtendRetries
    <3> HIDE DEF Typed
    <3> QED
      BY <3>0, <3>1, <3>2, <3>3
  <2> QED
    BY <1>2, <2>1 DEF ExtendRetries, TypeOK, Locations
<1>3. CASE RetryProvider
  <2>1. used' \in [Budgets -> Nat]
    BY <1>3, SpendType DEF RetryProvider, TypeOK, Budgets
  <2> QED
    BY <1>3, <2>1 DEF RetryProvider, TypeOK, Locations
<1>4. CASE ChooseStop
  <2>1. /\ Kind(pc) \in Stops \/ StopOf(pc) = "interrupted"
        /\ Kind(pc) \in {"validation", "budget", "max_steps", "provider"}
    BY <1>4 DEF ChooseStop, Gates, Kind, StopOf, Stops
  <2>2. StopOf(pc) \in Stops /\ Kind(pc) \in Errors /\ Kind(pc) \in Signals
    BY <2>1, Literals DEF StopOf
  <2>3. out' \in Reports
    BY <1>4, <2>2 DEF ChooseStop, TypeOK
  <2> QED
    BY <1>4, <2>3 DEF ChooseStop, TypeOK, Locations
<1>5. CASE NobodyThere
  <2>1. used' \in [Budgets -> Nat]
    BY <1>5, SpendType DEF NobodyThere, TypeOK, Budgets
  <2>2. Kind(pc) \in {"validation", "budget", "max_steps", "provider"}
    BY <1>5 DEF NobodyThere, Gates, Kind
  <2>3. /\ "interrupted" \in Stops /\ "runtime" \in Errors /\ "runtime" \in Signals
        /\ Kind(pc) \in Errors /\ Kind(pc) \in Signals
    BY <2>2, Literals
  <2>4. pc' = "wrap" /\ out' \in Reports
    BY <1>5, <2>3, LeaveType DEF NobodyThere, Pause
  <2> QED
    BY <1>5, <2>1, <2>4 DEF NobodyThere, TypeOK, Locations
<1>6. CASE CancelStartup
  <2>1. used' \in [Budgets -> Nat]
    BY <1>6, SpendType DEF CancelStartup, TypeOK, Budgets
  <2>2. "interrupted" \in Stops /\ "cancelled" \in Errors
    BY Literals
  <2>3. out' \in Reports
    BY <1>6, <2>2 DEF CancelStartup, TypeOK
  <2> QED
    BY <1>6, <2>1, <2>3 DEF CancelStartup, TypeOK, Locations
<1>7. CASE Cancel
  <2>1. used' \in [Budgets -> Nat]
    BY <1>7, SpendType DEF Cancel, TypeOK, Budgets
  <2>2. "interrupted" \in Stops /\ "cancelled" \in Errors /\ "none" \in Signals
    BY Literals
  <2>3. pc' = "wrap" /\ out' \in Reports
    BY <1>7, <2>2, LeaveType DEF Cancel
  <2>4. turn' \in [asked : SUBSET Tools, running : SUBSET Tools, done : SUBSET Tools,
                   paused : SUBSET Tools]
    BY <1>7 DEF Cancel, TypeOK
  <2> QED
    BY <1>7, <2>1, <2>3, <2>4 DEF Cancel, TypeOK, Locations
<1>8. CASE CancelWrap
  <2>1. used' \in [Budgets -> Nat]
    BY <1>8, SpendType DEF CancelWrap, TypeOK, Budgets
  <2> QED
    BY <1>8, <2>1 DEF CancelWrap, TypeOK, Locations
<1> QED
  BY <1>1, <1>2, <1>3, <1>4, <1>5, <1>6, <1>7, <1>8 DEF Researcher

LEMMA TypedTool == ASSUME Typed, NEW c \in Tools, ToolEnds(c) PROVE Typed'
<1>1. turn' \in [asked : SUBSET Tools, running : SUBSET Tools, done : SUBSET Tools,
                 paused : SUBSET Tools]
  BY DEF ToolEnds, Typed, TypeOK
<1>2. art' \in ArtType
  <2>1. art \in ArtType /\ art.cover \in BOOLEAN /\ art.handover \in BOOLEAN
    BY DEF Typed, TypeOK, ArtType
  <2>2. CASE c \in {"ask", "finish"}
    BY <2>1, <2>2 DEF ToolEnds, Works
  <2>3. CASE c \notin {"ask", "finish"}
    <3>1. PICK w \in BOOLEAN, h \in BOOLEAN :
            art' = [work |-> w, cover |-> art.cover, handover |-> h, touched |-> TRUE]
      BY <2>1, <2>3 DEF ToolEnds, Works
    <3> QED
      BY <2>1, <3>1 DEF ArtType
  <2> QED
    BY <2>2, <2>3
<1> QED
  BY <1>1, <1>2 DEF ToolEnds, Typed, TypeOK, Bounded, ArtType

LEMMA TypedStep == ASSUME Typed, [Next]_vars PROVE Typed'
<1>1. CASE UNCHANGED vars
  BY <1>1 DEF vars, loop, Typed, TypeOK, Bounded
<1>2. CASE Ended
  BY <1>1, <1>2 DEF Ended
<1> QED
  BY <1>1, <1>2, TypedInternal, TypedModel, TypedFailures, TypedResearcher, TypedTool DEF Next

THEOREM LoopInvariant == Spec => []Typed
BY TypedInit, TypedStep, PTL DEF Spec

(* The runner's counters and report are well formed: an extension counter  *)
(* never passes its limit, however the loop is driven (AgentRunner.run).   *)
THEOREM LoopTypes == Spec => []TypeOK
<1>1. Typed => TypeOK
  BY DEF Typed
<1> QED
  BY <1>1, LoopInvariant, PTL

-----------------------------------------------------------------------------
(* What the run reports.                                                   *)

Report(stop, error, signal, choice) ==
    [stop |-> stop, error |-> error, signal |-> signal, choice |-> choice]

(* While the loop goes on nothing is decided, and nobody has ended it.     *)
Undecided ==
    pc \in Running => out = Report("none", "none", "none", FALSE) /\ parting = "none"

(* Tools only run while their reply is worked on; only in T2 does a run    *)
(* leave them behind.                                                      *)
Idle ==
    /\ pc \in Running \ {"tools"} => turn.running = {}
    /\ pc \in {"wrap", "over"} => turn.running = {} \/ task.kind = "search"

(* Only T4 hands a pool or a selection over.                               *)
Handed == art.handover => task.kind \in {"native", "legacy", "selected"}

(* Without a turn of the model nothing is asked of the researcher.         *)
Unlooped ==
    Loopless => /\ pc \in {"start", "prepare", "wrap", "over", "escaped"}
                /\ parting # "stop"

(* What a task of this kind is granted a success for, before T3's sweep.   *)
Presented(kind, a) ==
    CASE kind = "native" -> a.handover
      [] kind \in {"legacy", "selected"} -> a.work \/ a.handover
      [] OTHER -> a.work

(* The outputs are there: no tool is left to change them.                  *)
Granted ==
    pc = "wrap" /\ out.stop = "finished" =>
        Presented(task.kind, art) /\ turn.running = {}

(* How the report tells a choice, a cancellation and a used-up budget      *)
(* apart.                                                                  *)
Told(report, how) ==
    /\ report.stop # "none"
    /\ report.choice <=> how = "stop"
    /\ report.error \in {"budget", "max_steps"} => report.stop \in {"budget", "max_steps"}
    /\ how = "cancel" => /\ report.signal \notin KnownKinds
                         /\ \/ report.stop = "finished"
                            \/ report.stop = "interrupted" /\ report.error = "cancelled"
    /\ how = "stop" => report.stop \in {"interrupted", "budget", "max_steps", "finished"}

(* Only the finally makes a success of a cancellation or of a choice, and  *)
(* of the choice always, once the legacy T4's pool is there.               *)
Parted ==
    pc \in {"wrap", "over"} =>
        /\ Told(out, parting)
        /\ parting \in {"cancel", "stop"} /\ out.stop = "finished" =>
             /\ pc = "over"
             /\ \/ CompletedAnyway
                \/ parting = "stop" /\ task.kind = "search" /\ task.resumed
        /\ pc = "over" /\ parting = "stop" /\ CompletedAnyway => out.stop = "finished"

LInv == Typed /\ Undecided /\ Idle /\ Handed /\ Unlooped /\ Granted /\ Parted

LEMMA ReportInit == Init => LInv
<1>1. Init => Undecided /\ Idle /\ Handed /\ Unlooped /\ Granted /\ Parted
  BY DEF Init, Undecided, Report, Idle, NoTurn, Handed, Unlooped, Loopless, Granted,
         Parted
<1> QED
  BY <1>1, TypedInit DEF LInv

LEMMA HandedStep == ASSUME LInv, Typed', [Next]_vars PROVE Handed'
<1>0. art \in ArtType /\ Handed
  BY DEF LInv, Typed, TypeOK, ArtType
<1>1. CASE HandOver
  BY <1>0, <1>1 DEF HandOver, Handed, ArtType
<1>2. ASSUME NEW c \in Tools, ToolEnds(c)
      PROVE  Handed'
  <2>1. \/ art' = art
        \/ \E w \in BOOLEAN :
              art' = [work |-> w, cover |-> art.cover, handover |-> art.handover,
                      touched |-> TRUE]
        \/ task.kind = "legacy"
    BY <1>2 DEF ToolEnds, Works
  <2>2. UNCHANGED task
    BY <1>2 DEF ToolEnds
  <2> QED
    BY <1>0, <2>1, <2>2 DEF Handed
<1>3. UNCHANGED task
      /\ \/ art'.handover = art.handover \/ HandOver
         \/ \E c \in Tools : ToolEnds(c)
  <2>1. CASE Internal
    <3>1. CASE PreFinalized \/ Accept \/ RecoverT2
      <4>1. art' = [art EXCEPT !.work = TRUE] /\ UNCHANGED task
        BY <3>1 DEF PreFinalized, Accept, RecoverT2
      <4> QED
        BY <1>0, <4>1 DEF ArtType
    <3>2. CASE RepairQuality
      BY <1>0, <3>2 DEF RepairQuality, Rejected, ArtType
    <3>3. CASE SweepAfterFinish \/ SweepAfterPause
      <4>1. PICK covered : art' = [art EXCEPT !.cover = covered] /\ UNCHANGED task
        BY <3>3, Zenon DEF SweepAfterFinish, SweepAfterPause
      <4> QED
        BY <1>0, <4>1 DEF ArtType
    <3>4. CASE HandOver
      BY <3>4 DEF HandOver
    <3>5. CASE \/ Started \/ RefuseLoop \/ BeginLoop \/ Step \/ ToolsPaused \/ FinishRequested
               \/ ToolsDone \/ Defer \/ Repair \/ RepairsUsedUp \/ FinalizeAnyway \/ WrapUp
      BY <3>5 DEF Started, RefuseLoop, BeginLoop, Step, ToolsPaused, FinishRequested,
         ToolsDone, Defer, Repair, RepairsUsedUp, Rejected, FinalizeAnyway, WrapUp, loop
    <3> QED
      BY <2>1, <3>1, <3>2, <3>3, <3>4, <3>5 DEF Internal
  <2>2. CASE Model
    BY <2>2 DEF Model, EmptyReply, TextReply, ProseQuestion, ToolReply
  <2>3. CASE Failures
    BY <2>3 DEF Failures, StartupFails, HookFails, PrepareBlocked, ProviderFails,
       ProviderRefuses, ToolErrs, ToolPauses, ToolRaises, loop
  <2>4. CASE Researcher
    BY <2>4 DEF Researcher, ExtendBudget, ExtendRetries, RetryProvider, ChooseStop,
       NobodyThere, CancelStartup, Cancel, CancelWrap, loop
  <2>5. ASSUME NEW c \in Tools, ToolEnds(c)
        PROVE  UNCHANGED task
    BY <2>5 DEF ToolEnds
  <2> QED
    BY <2>1, <2>2, <2>3, <2>4, <2>5 DEF Next, Ended, vars, loop
<1> QED
  BY <1>0, <1>1, <1>2, <1>3 DEF Handed

(* The three kinds of steps: the loop goes on, it is left, a tool ends.    *)
LEMMA GoesOn ==
    ASSUME LInv, Typed', Handed', pc \in Running, pc' \in Running, UNCHANGED <<task, out, parting>>,
           pc' = "tools" \/ turn'.running = {}, Loopless => pc' = "prepare"
    PROVE  LInv'
BY DEF LInv, Undecided, Idle, Handed, Unlooped, Loopless, Granted, Parted, Running

LEMMA IsLeft ==
    ASSUME LInv, Typed', Handed', pc \in Running, NEW stop, NEW error, NEW signal,
           Leave(stop, error, signal), UNCHANGED task,
           Told(Report(stop, error, signal, FALSE), parting'),
           turn'.running = {} \/ task.kind = "search",
           stop = "finished" =>
             Presented(task.kind, art') /\ turn'.running = {} /\ parting' = "none"
    PROVE  LInv'
<1>1. out = Report("none", "none", "none", FALSE)
  BY DEF LInv, Undecided
<1>2. out' = Report(stop, error, signal, FALSE) /\ pc' = "wrap"
  BY <1>1 DEF Leave, Go, Report
<1>3. out'.stop = stop /\ out'.choice = FALSE
  BY <1>2 DEF Report
<1>4. Undecided' /\ Idle' /\ Granted'
  BY <1>2, <1>3 DEF Undecided, Idle, Granted, Running
<1>5. parting' # "stop"
  BY DEF Told, Report
<1>6. Parted'
  BY <1>2, <1>3, <1>5 DEF Parted
<1>7. Unlooped'
  BY <1>2, <1>5 DEF Unlooped, Loopless
<1> QED
  BY <1>4, <1>6, <1>7 DEF LInv

LEMMA EndsAtOnce ==
    ASSUME LInv, Typed', Handed', pc' = "over", UNCHANGED task, Told(out', parting'),
           out'.stop # "finished", parting' # "stop", turn'.running = {}
    PROVE  LInv'
BY DEF LInv, Undecided, Idle, Handed, Unlooped, Loopless, Granted, Parted, Running

LEMMA ToolStops ==
    ASSUME LInv, Typed', Handed', NEW c \in turn.running, turn'.running = turn.running \ {c},
           UNCHANGED <<task, pc, out, parting>>
    PROVE  LInv'
BY DEF LInv, Undecided, Idle, Handed, Unlooped, Loopless, Granted, Parted, CompletedAnyway

(* A run without a decision of the researcher's.                           *)
LEMMA ToldAlone ==
    ASSUME NEW stop \in Stops \ {"none"}, NEW error, NEW signal,
           error \in {"budget", "max_steps"} => stop \in {"budget", "max_steps"}
    PROVE  /\ Told(Report(stop, error, signal, FALSE), "none")
           /\ Told(Report(stop, error, signal, FALSE), "away")
BY DEF Told, Report

LEMMA Quiet ==
    ASSUME LInv, pc \in Running
    PROVE  /\ parting = "none" /\ out = Report("none", "none", "none", FALSE)
           /\ pc # "tools" => turn.running = {}
           /\ pc \notin {"start", "prepare"} => ~Loopless
BY DEF LInv, Undecided, Idle, Handed, Unlooped, Running

LEMMA ExhaustedKeeps ==
    ASSUME LInv, Typed', Handed', pc \in Running, NEW gate \in {"budget_top", "budget_end"},
           NEW kind \in {"budget", "max_steps"}, Exhausted(gate, kind),
           pc \notin {"start", "prepare"}, UNCHANGED <<task, parting>>, turn'.running = {}
    PROVE  LInv'
<1>1. CASE Go(gate) /\ UNCHANGED out
  BY <1>1, Quiet, GoesOn DEF Go, Running, Locations, Gates
<1>2. CASE Leave(kind, kind, kind)
  <2>1. Told(Report(kind, kind, kind, FALSE), parting')
    BY ToldAlone, Quiet, Literals
  <2> QED
    BY <1>2, <2>1, IsLeft
<1> QED
  BY <1>1, <1>2 DEF Exhausted, Pause

-----------------------------------------------------------------------------
(* The steps keep it.                                                      *)

LEMMA EndsKeep ==
    ASSUME LInv, Typed', Handed',
           RecoverT2 \/ FinalizeAnyway \/ SweepAfterFinish \/ SweepAfterPause \/ WrapUp
    PROVE  LInv'
<1>0. pc = "wrap" /\ pc' = "over" /\ UNCHANGED <<task, turn, parting>>
  BY DEF RecoverT2, FinalizeAnyway, SweepAfterFinish, SweepAfterPause, WrapUp, Go, loop
<1>1. Undecided' /\ Idle' /\ Handed' /\ Unlooped' /\ Granted'
  BY <1>0 DEF LInv, Undecided, Idle, Handed, Unlooped, Loopless, Granted, Running
<1>2. /\ Told(out, parting) /\ out \in Reports
      /\ ~(parting \in {"cancel", "stop"} /\ out.stop = "finished")
  BY <1>0 DEF LInv, Parted, Typed, TypeOK, Reports
<1>7. CASE FinalizeAnyway
  <2>1. /\ out' = [out EXCEPT !.stop = "finished", !.error = "none"]
        /\ CompletedAnyway /\ CompletedAnyway'
    BY <1>7 DEF FinalizeAnyway, CompletedAnyway, loop
  <2>2. /\ out'.stop = "finished" /\ out'.error = "none"
        /\ out'.choice = out.choice /\ out'.signal = out.signal
    BY <1>2, <2>1 DEF Reports
  <2>3. Parted'
    BY <1>0, <1>2, <2>1, <2>2 DEF Parted, Told
  <2> QED
    BY <1>1, <2>3 DEF LInv
<1>3. CASE RecoverT2
  <2>1. /\ out' = [out EXCEPT !.stop = "finished", !.error = "none"]
        /\ task.kind = "search" /\ task.resumed /\ out.stop # "interrupted"
        /\ ~CompletedAnyway'
    BY <1>0, <1>3 DEF RecoverT2, ExitRecovery, CompletedAnyway
  <2>2. out'.stop = "finished" /\ out'.error = "none" /\ out'.choice = out.choice
    BY <1>2, <2>1 DEF Reports
  <2>3. Parted'
    BY <1>0, <1>2, <2>1, <2>2 DEF Parted, Told
  <2> QED
    BY <1>1, <2>3 DEF LInv
<1>4. CASE SweepAfterFinish
  <2>1. \/ out' = out
        \/ out' = [out EXCEPT !.stop = "interrupted", !.error = "literature_coverage",
                              !.signal = "literature_coverage"]
    BY <1>4, Zenon DEF SweepAfterFinish
  <2>2. out.stop = "finished" /\ parting \notin {"stop", "cancel"}
    BY <1>2, <1>4 DEF SweepAfterFinish
  <2>3. Parted'
    BY <1>0, <1>2, <2>1, <2>2 DEF Parted, Told, Reports
  <2> QED
    BY <1>1, <2>3 DEF LInv
<1>5. CASE SweepAfterPause
  <2>1. out' = out \/ out' = [out EXCEPT !.signal = "literature_coverage"]
    BY <1>5, Zenon DEF SweepAfterPause
  <2>2. /\ out'.stop = out.stop /\ out'.error = out.error /\ out'.choice = out.choice
        /\ out'.signal = out.signal \/ out'.signal \notin KnownKinds
    BY <1>2, <2>1 DEF Reports, KnownKinds
  <2>3. ~CompletedAnyway'
    BY <1>0, <1>5 DEF SweepAfterPause, CompletedAnyway
  <2>4. Parted'
    BY <1>0, <1>2, <2>2, <2>3 DEF Parted, Told
  <2> QED
    BY <1>1, <2>4 DEF LInv
<1>6. CASE WrapUp
  BY <1>0, <1>1, <1>2, <1>6 DEF WrapUp, LInv, Parted, CompletedAnyway, loop
<1> QED
  BY <1>3, <1>4, <1>5, <1>6, <1>7

LEMMA InternalKeeps == ASSUME LInv, Typed', Handed', Internal PROVE LInv'
<1> USE DEF Go, loop
<1>1. CASE Started \/ BeginLoop \/ FinishRequested \/ Defer
  <2>1. pc \in Running /\ pc' \in Running \ {"tools"} /\ UNCHANGED <<out, parting, turn>>
    BY <1>1 DEF Started, BeginLoop, FinishRequested, Joined, Defer, Running, Locations
  <2>2. turn.running = {} /\ (Loopless => pc' = "prepare") /\ UNCHANGED task
    BY <1>1, <2>1, Quiet DEF Started, BeginLoop, FinishRequested, Joined, Defer
  <2> QED
    BY <2>1, <2>2, GoesOn
<1>2. CASE PreFinalized \/ HandOver \/ Accept
  <2>1. /\ pc \in Running \ {"tools"} /\ Leave("finished", "none", "none")
        /\ UNCHANGED <<task, turn, parting>>
    BY <1>2 DEF PreFinalized, HandOver, Accept, Running, Locations
  <2>2. Presented(task.kind, art')
    <3>1. CASE PreFinalized
      BY <3>1 DEF PreFinalized, Presented, LInv, Typed, TypeOK
    <3>2. CASE HandOver
      <4>1. task.kind \in {"native", "legacy", "selected"}
        BY <3>2 DEF HandOver, LInv, Handed
      <4> QED
        BY <3>2, <4>1 DEF HandOver, Presented, LInv, Typed, TypeOK
    <3>3. CASE Accept
      <4>1. ~Loopless
        BY <3>3, Quiet, <2>1 DEF Accept
      <4> QED
        BY <3>3, <4>1 DEF Accept, Presented, Loopless, LInv, Typed, TypeOK
    <3> QED
      BY <1>2, <3>1, <3>2, <3>3
  <2>3. /\ turn'.running = {} /\ parting' = "none"
        /\ Told(Report("finished", "none", "none", FALSE), parting')
    BY <2>1, Quiet, ToldAlone, Literals
  <2> QED
    BY <2>1, <2>2, <2>3, IsLeft
<1>7. CASE RefuseLoop
  <2>1. /\ pc \in Running \ {"tools"} /\ Leave("interrupted", "runtime", "runtime")
        /\ UNCHANGED <<task, turn, parting>>
    BY <1>7 DEF RefuseLoop, Pause, Running, Locations
  <2>2. /\ Told(Report("interrupted", "runtime", "runtime", FALSE), parting')
        /\ turn'.running = {}
    BY <2>1, Quiet, ToldAlone, Literals
  <2> QED
    BY <2>1, <2>2, IsLeft
<1>3. CASE Step
  <2>1. /\ pc \in Running /\ pc = "step" /\ turn'.running = {} /\ UNCHANGED <<task, parting>>
        /\ Exhausted("budget_top", "budget") \/ (pc' = "llm" /\ UNCHANGED out)
    BY <1>3 DEF Step, NoTurn, Running, Locations
  <2>2. CASE Exhausted("budget_top", "budget")
    BY <2>1, <2>2, ExhaustedKeeps
  <2>3. CASE pc' = "llm" /\ UNCHANGED out
    BY <2>1, <2>3, Quiet, GoesOn DEF Running, Locations
  <2> QED
    BY <2>1, <2>2, <2>3
<1>4. CASE ToolsPaused
  <2>1. PICK c \in turn.paused : Leave("interrupted", PauseKind(c), PauseKind(c))
    BY <1>4 DEF ToolsPaused, Pause
  <2>2. /\ pc \in Running /\ UNCHANGED <<task, parting>> /\ turn'.running = {}
        /\ PauseKind(c) \notin {"budget", "max_steps"}
    BY <1>4 DEF ToolsPaused, Joined, Running, Locations, PauseKind
  <2>3. Told(Report("interrupted", PauseKind(c), PauseKind(c), FALSE), parting')
    BY <2>2, Quiet, ToldAlone, Literals
  <2> QED
    BY <2>1, <2>2, <2>3, IsLeft
<1>5. CASE ToolsDone \/ Repair
  <2>1. /\ pc \in Running \ {"start", "prepare"} /\ UNCHANGED <<task, turn, parting>>
        /\ Exhausted("budget_end", "max_steps") \/ (pc' = "step" /\ UNCHANGED out)
    BY <1>5 DEF ToolsDone, Joined, Repair, Rejected, EndIteration, Running, Locations
  <2>2. turn.running = {}
    BY <1>5, <2>1, Quiet DEF ToolsDone, Joined, Repair, Rejected
  <2>3. CASE Exhausted("budget_end", "max_steps")
    BY <2>1, <2>2, <2>3, ExhaustedKeeps
  <2>4. CASE pc' = "step" /\ UNCHANGED out
    BY <2>1, <2>2, <2>4, Quiet, GoesOn DEF Running, Locations
  <2> QED
    BY <2>1, <2>3, <2>4
<1>6. CASE RepairQuality \/ RepairsUsedUp
  <2>1. /\ pc \in Running \ {"start", "prepare", "tools"} /\ UNCHANGED <<task, turn, parting>>
        /\ \/ pc' \in {"step", "retry"} /\ UNCHANGED out
           \/ Leave("interrupted", "no_source_progress", "no_source_progress")
           \/ Leave("interrupted", "validation", "validation")
    BY <1>6 DEF RepairQuality, RepairsUsedUp, Rejected, Pause, Running, Locations
  <2>2. /\ Told(Report("interrupted", "no_source_progress", "no_source_progress", FALSE),
              parting')
        /\ Told(Report("interrupted", "validation", "validation", FALSE), parting')
        /\ turn.running = {} /\ ~Loopless
    BY <2>1, Quiet, ToldAlone, Literals
  <2>3. CASE pc' \in {"step", "retry"} /\ UNCHANGED out
    BY <2>1, <2>2, <2>3, GoesOn DEF Running, Locations, Gates
  <2> QED
    BY <2>1, <2>2, <2>3, IsLeft
<1> QED
  BY <1>1, <1>2, <1>3, <1>4, <1>5, <1>6, <1>7, EndsKeep DEF Internal

LEMMA ModelKeeps == ASSUME LInv, Typed', Handed', Model PROVE LInv'
<1>1. /\ pc \in Running \ {"start", "prepare", "tools"} /\ UNCHANGED <<task, parting>>
      /\ \/ pc' = "step" /\ UNCHANGED <<out, turn>>
         \/ pc' = "tools" /\ UNCHANGED out
         \/ /\ UNCHANGED turn
            /\ \/ Leave("error", "empty", "none") \/ Leave("error", "text", "none")
               \/ Leave("interrupted", "no_ask_tool", "none")
  BY DEF Model, EmptyReply, TextReply, ProseQuestion, ToolReply, Go, Running, Locations
<1>2. /\ Told(Report("error", "empty", "none", FALSE), parting')
      /\ Told(Report("error", "text", "none", FALSE), parting')
      /\ Told(Report("interrupted", "no_ask_tool", "none", FALSE), parting')
      /\ turn.running = {} /\ ~Loopless
  BY <1>1, Quiet, ToldAlone, Literals
<1>3. CASE (pc' = "step" /\ UNCHANGED <<out, turn>>) \/ (pc' = "tools" /\ UNCHANGED out)
  BY <1>1, <1>2, <1>3, GoesOn DEF Running, Locations
<1> QED
  BY <1>1, <1>2, <1>3, IsLeft

LEMMA FailuresKeep == ASSUME LInv, Typed', Handed', Failures PROVE LInv'
<1> USE DEF Go, loop
<1>1. CASE StartupFails
  <2>1. /\ pc = "start" /\ pc' = "over" /\ UNCHANGED <<task, parting, turn>>
        /\ out' = [out EXCEPT !.stop = "interrupted", !.error = "runtime",
                              !.signal = "runtime"]
    BY <1>1 DEF StartupFails
  <2>2. /\ parting = "none" /\ out = Report("none", "none", "none", FALSE)
        /\ turn.running = {}
    BY <2>1, Quiet DEF Running, Locations
  <2>3. out' = Report("interrupted", "runtime", "runtime", FALSE)
    BY <2>1, <2>2 DEF Report
  <2>4. Told(out', parting')
    <3>1. "interrupted" \in Stops \ {"none"}
      BY Literals
    <3>2. Told(Report("interrupted", "runtime", "runtime", FALSE), "none")
      BY <3>1, ToldAlone
    <3>3. parting' = "none"
      BY <2>1, <2>2
    <3> QED
      BY <2>3, <3>2, <3>3
  <2>5. out'.stop # "finished" /\ parting' # "stop" /\ turn'.running = {}
    BY <2>1, <2>2, <2>3 DEF Report
  <2> QED
    BY <2>1, <2>4, <2>5, EndsAtOnce
<1>2. CASE HookFails \/ PrepareBlocked \/ ProviderRefuses
  <2>1. /\ pc \in Running \ {"tools"} /\ UNCHANGED <<task, turn, parting>>
        /\ \/ Leave("error", "hook", "none") \/ Leave("interrupted", "runtime", "runtime")
           \/ Leave("error", "provider", "none")
    BY <1>2 DEF HookFails, PrepareBlocked, ProviderRefuses, Pause, Running, Locations
  <2>2. /\ Told(Report("error", "hook", "none", FALSE), parting')
        /\ Told(Report("interrupted", "runtime", "runtime", FALSE), parting')
        /\ Told(Report("error", "provider", "none", FALSE), parting')
        /\ turn.running = {}
    BY <2>1, Quiet, ToldAlone, Literals
  <2> QED
    BY <2>1, <2>2, IsLeft
<1>3. CASE ProviderFails
  <2>1. /\ pc \in Running \ {"start", "prepare", "tools"} /\ pc' \in Running
        /\ UNCHANGED <<task, out, parting, turn>>
    BY <1>3 DEF ProviderFails, Running, Locations, Gates
  <2> QED
    BY <2>1, Quiet, GoesOn
<1>4. ASSUME NEW c \in Tools, ToolErrs(c) \/ ToolPauses(c)
      PROVE  LInv'
  <2>1. /\ c \in turn.running /\ UNCHANGED <<task, pc, out, parting>>
        /\ turn'.running = turn.running \ {c}
    BY <1>4 DEF ToolErrs, ToolPauses, LInv, Typed, TypeOK
  <2> QED
    BY <2>1, ToolStops
<1>5. ASSUME NEW c \in Tools, ToolRaises(c)
      PROVE  LInv'
  <2>1. /\ pc \in Running /\ Leave("error", "raised", "none") /\ UNCHANGED <<task, parting>>
        /\ task.kind = "search"
    BY <1>5 DEF ToolRaises, Running, Locations
  <2>2. Told(Report("error", "raised", "none", FALSE), parting')
    BY <2>1, Quiet, ToldAlone, Literals
  <2> QED
    BY <2>1, <2>2, IsLeft
<1> QED
  BY <1>1, <1>2, <1>3, <1>4, <1>5 DEF Failures

LEMMA ResearcherKeeps == ASSUME LInv, Typed', Handed', Researcher PROVE LInv'
<1> USE DEF Go, loop
<1>1. CASE ExtendBudget \/ ExtendRetries \/ RetryProvider
  <2>1. /\ pc \in Running \ {"start", "prepare", "tools"} /\ pc' \in Running
        /\ UNCHANGED <<task, out, parting, turn>>
    BY <1>1 DEF ExtendBudget, ExtendRetries, RetryProvider, Running, Locations, Gates
  <2> QED
    BY <2>1, Quiet, GoesOn
<1>2. CASE ChooseStop
  <2>1. /\ pc \in Gates /\ pc' = "wrap" /\ parting' = "stop" /\ UNCHANGED <<task, turn>>
        /\ out' = [out EXCEPT !.stop = StopOf(pc), !.error = Kind(pc), !.signal = Kind(pc),
                              !.choice = TRUE]
    BY <1>2 DEF ChooseStop
  <2>2. /\ out = Report("none", "none", "none", FALSE)
        /\ turn'.running = {} /\ ~Loopless
    BY <2>1, Quiet DEF Running, Locations, Gates
  <2>3. out' = Report(StopOf(pc), Kind(pc), Kind(pc), TRUE)
    BY <2>1, <2>2 DEF Report
  <2>4. /\ StopOf(pc) \in {"interrupted", "budget", "max_steps"}
        /\ Kind(pc) \in {"budget", "max_steps"} => StopOf(pc) \in {"budget", "max_steps"}
    BY <2>1 DEF StopOf, Kind, Gates
  <2>5. Told(out', parting') /\ out'.stop # "finished"
    BY <2>1, <2>3, <2>4 DEF Told, Report
  <2> QED
    BY <2>1, <2>2, <2>5
       DEF LInv, Undecided, Idle, Unlooped, Loopless, Granted, Parted, Running
<1>3. CASE NobodyThere
  <2>1. /\ pc \in Running \ {"tools"} /\ parting' = "away" /\ UNCHANGED <<task, turn>>
        /\ \/ Leave("interrupted", "runtime", "runtime")
           \/ /\ Leave("interrupted", Kind(pc), Kind(pc))
              /\ Kind(pc) \in {"validation", "provider"}
    BY <1>3 DEF NobodyThere, Pause, Kind, Gates, Running, Locations
  <2>2. /\ Told(Report("interrupted", "runtime", "runtime", FALSE), "away")
        /\ Kind(pc) \in {"validation", "provider"} =>
             Told(Report("interrupted", Kind(pc), Kind(pc), FALSE), "away")
        /\ turn'.running = {}
    BY <2>1, Quiet, ToldAlone, Literals
  <2> QED
    BY <2>1, <2>2, IsLeft
<1>4. CASE CancelStartup
  <2>1. /\ pc = "start" /\ pc' = "over" /\ parting' = "cancel" /\ UNCHANGED <<task, turn>>
        /\ out' = [out EXCEPT !.stop = "interrupted", !.error = "cancelled"]
    BY <1>4 DEF CancelStartup
  <2>2. out = Report("none", "none", "none", FALSE) /\ turn'.running = {}
    BY <2>1, Quiet DEF Running, Locations
  <2>3. out' = Report("interrupted", "cancelled", "none", FALSE)
    BY <2>1, <2>2 DEF Report
  <2>4. Told(out', parting') /\ out'.stop # "finished"
    <3>1. Told(Report("interrupted", "cancelled", "none", FALSE), "cancel")
      BY DEF Told, Report, KnownKinds
    <3> QED
      BY <2>1, <2>3, <3>1 DEF Report
  <2> QED
    BY <2>1, <2>2, <2>4, EndsAtOnce
<1>5. CASE Cancel
  <2>1. /\ pc \in Running /\ parting' = "cancel" /\ UNCHANGED task
        /\ Leave("interrupted", "cancelled", "none") /\ turn'.running = {}
    BY <1>5 DEF Cancel, Running, Locations, Gates, LInv, Typed, TypeOK
  <2>2. Told(Report("interrupted", "cancelled", "none", FALSE), "cancel")
    BY DEF Told, Report, KnownKinds
  <2> QED
    BY <2>1, <2>2, IsLeft
<1>6. CASE CancelWrap
  BY <1>6 DEF CancelWrap, LInv, Undecided, Idle, Unlooped, Loopless, Granted, Parted, Running
<1> QED
  BY <1>1, <1>2, <1>3, <1>4, <1>5, <1>6 DEF Researcher

LEMMA LoopStep == ASSUME LInv, [Next]_vars PROVE LInv'
<1>0. Typed' /\ Handed'
  BY TypedStep, HandedStep DEF LInv
<1>1. CASE UNCHANGED vars
  BY <1>0, <1>1 DEF vars, loop, LInv, Undecided, Idle, Unlooped, Loopless, Granted, Parted,
                    CompletedAnyway
<1>2. ASSUME NEW c \in Tools, ToolEnds(c)
      PROVE  LInv'
  <2>1. /\ c \in turn.running /\ UNCHANGED <<task, pc, out, parting>>
        /\ turn'.running = turn.running \ {c}
    BY <1>2 DEF ToolEnds, LInv, Typed, TypeOK
  <2> QED
    BY <1>0, <2>1, ToolStops
<1> QED
  BY <1>0, <1>1, <1>2, InternalKeeps, ModelKeeps, FailuresKeep, ResearcherKeeps
     DEF Next, Ended

THEOREM ReportInvariant == Spec => []LInv
BY ReportInit, LoopStep, PTL DEF Spec

-----------------------------------------------------------------------------
(* What the report is relied on for.                                       *)

(* A run reports a success only with what its kind of task is granted one  *)
(* for: outputs the validator passed, T3 with its abstracts covered, for   *)
(* T4 possibly the pool of Gate1 or the selection that T4.5 starts from.   *)
(* No tool that is still running can undo them (_run_finish_task, the      *)
(* finalizers before the model is asked, the finally of run).              *)
THEOREM OkValidated == Spec => OkMeansValidated
<1> DEFINE Valid == pc # "over" /\ pc' = "over" /\ out'.stop = "finished" =>
                      CASE task.kind = "reading" -> art'.work /\ art'.cover
                        [] task.kind = "native" -> art'.handover
                        [] task.kind \in {"legacy", "selected"} -> art'.work \/ art'.handover
                        [] OTHER -> art'.work
<1>1. ASSUME LInv, Next PROVE Valid
  <2> SUFFICES ASSUME pc # "over", pc' = "over", out'.stop = "finished"
               PROVE  CASE task.kind = "reading" -> art'.work /\ art'.cover
                        [] task.kind = "native" -> art'.handover
                        [] task.kind \in {"legacy", "selected"} -> art'.work \/ art'.handover
                        [] OTHER -> art'.work
    OBVIOUS
  <2>0. /\ art \in ArtType
        /\ out \in Reports
    BY <1>1 DEF LInv, Typed, TypeOK, ArtType, Reports
  <2>1. CASE RecoverT2
    <3>1. art' = [art EXCEPT !.work = TRUE] /\ task.kind = "search"
      BY <2>1 DEF RecoverT2, ExitRecovery
    <3> QED
      BY <2>0, <3>1 DEF ArtType
  <2>2. CASE SweepAfterFinish
    <3>1. PICK covered \in BOOLEAN :
            /\ art' = [art EXCEPT !.cover = covered]
            /\ out' = IF covered THEN out
                      ELSE [out EXCEPT !.stop = "interrupted", !.error = "literature_coverage",
                                       !.signal = "literature_coverage"]
      BY <2>2 DEF SweepAfterFinish
    <3>2. covered
      BY <2>0, <3>1 DEF Reports
    <3>3. art.work /\ task.kind = "reading"
      BY <1>1, <2>2 DEF SweepAfterFinish, LInv, Granted, Presented
    <3> QED
      BY <2>0, <3>1, <3>2, <3>3 DEF ArtType
  <2>3. CASE SweepAfterPause
    <3>1. \/ out' = out
          \/ out' = [out EXCEPT !.signal = "literature_coverage"]
      BY <2>3, Zenon DEF SweepAfterPause
    <3> QED
      BY <2>0, <2>3, <3>1 DEF SweepAfterPause, Reports
  <2>4. CASE WrapUp
    <3>1. /\ UNCHANGED <<art, out>> /\ pc = "wrap"
          /\ ~(task.kind = "reading" /\ out.stop = "finished")
      BY <2>4 DEF WrapUp, loop
    <3>2. Presented(task.kind, art) /\ task.kind # "reading"
      BY <1>1, <3>1 DEF LInv, Granted
    <3> QED
      BY <3>1, <3>2 DEF Presented
  <2>5. CASE StartupFails \/ CancelStartup
    BY <2>0, <2>5 DEF StartupFails, CancelStartup, Reports
  <2>6. CASE FinalizeAnyway
    BY <2>6 DEF FinalizeAnyway, CompletedAnyway, loop
  <2>7. pc' # "over" \/ RecoverT2 \/ FinalizeAnyway \/ SweepAfterFinish \/ SweepAfterPause
        \/ WrapUp \/ StartupFails \/ CancelStartup
    <3>1. ASSUME Internal
          PROVE  pc' # "over" \/ RecoverT2 \/ FinalizeAnyway \/ SweepAfterFinish
                 \/ SweepAfterPause \/ WrapUp
      BY <3>1 DEF Internal, Started, PreFinalized, HandOver, RefuseLoop, BeginLoop, Step,
         ToolsPaused, FinishRequested, ToolsDone, Defer, Accept, RepairQuality, Repair,
         RepairsUsedUp, EndIteration, Exhausted, Pause, Leave, Go
    <3>2. ASSUME Model PROVE pc' # "over"
      BY <3>2 DEF Model, EmptyReply, TextReply, ProseQuestion, ToolReply, Leave, Go
    <3>3. ASSUME Failures PROVE pc' # "over" \/ StartupFails
      BY <3>3 DEF Failures, HookFails, PrepareBlocked, ProviderFails, ProviderRefuses,
         ToolErrs, ToolPauses, ToolRaises, Pause, Leave, Go
    <3>4. ASSUME Researcher PROVE pc' # "over" \/ CancelStartup
      BY <3>4 DEF Researcher, ExtendBudget, ExtendRetries, RetryProvider, ChooseStop,
         NobodyThere, Cancel, CancelWrap, Pause, Leave, Go
    <3> QED
      BY <1>1, <3>1, <3>2, <3>3, <3>4 DEF Next, Ended, ToolEnds, vars
  <2> QED
    BY <2>1, <2>2, <2>3, <2>4, <2>5, <2>6, <2>7
<1>2. LInv /\ [Next]_vars => [Valid]_vars
  BY <1>1
<1>3. OkMeansValidated <=> [][Valid]_vars
  BY PTL DEF OkMeansValidated
<1> QED
  BY <1>2, <1>3, ReportInvariant, PTL DEF Spec

(* Ctrl+C is never made a gate of, whatever the finally does afterwards,   *)
(* and a success only where the finally finds a legacy T4's pool (the      *)
(* CancelledError handler and the finally).                                *)
THEOREM CancelPausesPlainly == Spec => []CancelIsPlainPause
<1>1. LInv => CancelIsPlainPause
  <2> SUFFICES ASSUME LInv, parting = "cancel", pc \in {"over", "escaped"}
               PROVE  Outcome = "stopped" \/ (Outcome = "ok" /\ CompletedAnyway)
    BY DEF CancelIsPlainPause
  <2>1. CASE pc = "escaped"
    BY <2>1 DEF Outcome
  <2>2. CASE pc = "over" /\ out.stop = "finished"
    BY <2>2 DEF LInv, Parted, Outcome
  <2>3. CASE pc = "over" /\ out.stop # "finished"
    <3>1. /\ out.stop = "interrupted" /\ out.error = "cancelled"
          /\ out.signal \notin KnownKinds /\ ~out.choice
      BY <2>3 DEF LInv, Parted, Told
    <3> QED
      BY <2>3, <3>1 DEF Outcome, Paused, GateWanted, InferableFromError
  <2> QED
    BY <2>1, <2>2, <2>3
<1> QED
  BY <1>1, ReportInvariant, PTL

(* A stop chosen at an inline prompt is not asked about again, and a       *)
(* success only where a resumed T2 or a legacy T4 completes all the same   *)
(* (USER_PAUSE_REQUESTED in ctx.extra, the finally of run).                *)
THEOREM ChoiceKept == Spec => []ChoiceHonoured
<1>1. LInv => ChoiceHonoured
  <2> SUFFICES ASSUME LInv, parting = "stop", pc = "over"
               PROVE  ChoiceHonoured
    BY DEF ChoiceHonoured
  <2>1. out.choice /\ out.stop \in {"interrupted", "budget", "max_steps", "finished"}
    BY DEF LInv, Parted, Told
  <2>2. ~Loopless
    BY DEF LInv, Unlooped
  <2>3. CASE out.stop = "finished"
    <3>1. Outcome = "ok"
      BY <2>3 DEF Outcome
    <3>2. CompletedAnyway \/ (task.kind = "search" /\ task.resumed)
      BY <2>3 DEF LInv, Parted
    <3> QED
      BY <2>2, <3>1, <3>2 DEF ChoiceHonoured, CompletedAnyway, Loopless
  <2>4. CASE out.stop # "finished"
    <3>1. Outcome = "paused"
      BY <2>1, <2>4 DEF Outcome, Paused
    <3>2. ~CompletedAnyway
      BY <2>4 DEF LInv, Parted
    <3> QED
      BY <3>1, <3>2 DEF ChoiceHonoured, CompletedAnyway
  <2> QED
    BY <2>3, <2>4
<1> QED
  BY <1>1, ReportInvariant, PTL

(* A used-up budget, an unreachable provider or a validator that rejects   *)
(* too often leaves a gate, also after T3's sweep has replaced the signal  *)
(* (_set_recovery_signal).                                                 *)
THEOREM SignalKept == Spec => []SignalOpensGate
<1>1. LInv => SignalOpensGate
  <2> SUFFICES ASSUME LInv, pc = "over", parting # "stop",
                      out.stop \in Stops \ {"error", "finished"},
                      out.error \in {"budget", "max_steps", "validation", "provider"}
               PROVE  Outcome = "stopped_signal"
    BY DEF SignalOpensGate
  <2>1. Told(out, parting)
    BY DEF LInv, Parted
  <2>2. out.stop \in {"interrupted", "budget", "max_steps"} /\ ~out.choice
    BY <2>1 DEF Told, Stops
  <2>3. GateWanted
    BY <2>1, <2>2 DEF Told, GateWanted, InferableFromError
  <2> QED
    BY <2>2, <2>3 DEF Outcome, Paused
<1> QED
  BY <1>1, ReportInvariant, PTL

-----------------------------------------------------------------------------
(* Nothing in the loop goes on for ever.                                   *)

Looping == {"start", "prepare", "step", "llm", "provider", "tools", "finish", "retry", "budget_end"}

(* One step over the limit is what the check at the top of the loop lets   *)
(* through to its prompt.                                                  *)
Metered ==
    /\ steps.limit <= MaxSteps + Window * steps.ext
    /\ steps.taken <= steps.limit + 1
    /\ pc \in Looping => steps.taken <= steps.limit

(* How far an iteration is from its end; the next one takes another step.  *)
Place(p) == CASE p = "start" -> 9 [] p = "prepare" -> 8 [] p = "llm" -> 7 [] p = "provider" -> 6
              [] p = "tools" -> 5 [] p = "finish" -> 4
              [] p \in {"budget_top", "budget_end", "retry"} -> 3
              [] p = "step" -> 2 [] p = "wrap" -> 1 [] OTHER -> 0

(* What a step of the system uses up, each at most so often as the ones    *)
(* before it allow: steps, retries of the researcher, places of the        *)
(* iteration, failed batches, running tools.                               *)
UsesUp ==
    \/ steps'.taken > steps.taken
    \/ /\ steps'.taken = steps.taken
       /\ \/ used'["retry"] > used["retry"]
          \/ /\ used'["retry"] = used["retry"]
             /\ \/ Place(pc') < Place(pc)
                \/ /\ pc' = pc
                   /\ \/ batch' > batch
                      \/ batch' = batch /\ turn'.running # turn.running
                         /\ turn'.running \subseteq turn.running

LEMMA MeteredInit == Init => Metered
BY LoopAssumption DEF Init, Metered

(* The iteration comes nearer to its end.                                  *)
Falls ==
    /\ steps'.taken = steps.taken /\ steps'.limit = steps.limit /\ steps'.ext = steps.ext
    /\ used'["retry"] = used["retry"]
    /\ Place(pc') < Place(pc)
    /\ pc' \in Looping => pc \in Looping

LEMMA FallsUsesUp == ASSUME Metered, Falls PROVE UsesUp /\ Metered'
BY DEF Metered, Falls, UsesUp

LEMMA Places ==
    /\ Place("start") = 9 /\ Place("prepare") = 8 /\ Place("llm") = 7 /\ Place("provider") = 6
    /\ Place("tools") = 5 /\ Place("finish") = 4
    /\ Place("budget_top") = 3 /\ Place("budget_end") = 3 /\ Place("retry") = 3
    /\ Place("step") = 2 /\ Place("wrap") = 1 /\ Place("over") = 0 /\ Place("escaped") = 0
BY DEF Place

LEMMA SpendsElse ==
    ASSUME Typed, NEW b \in Budgets, Spend(b)
    PROVE  b # "retry" => used'["retry"] = used["retry"]
BY DEF Typed, TypeOK, Spend, Budgets

(* Where every prompt and every end of the loop leaves from.               *)
LEMMA ExhaustedFalls ==
    ASSUME NEW gate \in {"budget_top", "budget_end"}, NEW kind, Exhausted(gate, kind)
    PROVE  pc' \in {gate, "wrap"}
BY DEF Exhausted, Pause, Leave, Go

LEMMA InternalUsesUp == ASSUME Typed, Metered, Internal PROVE UsesUp /\ Metered'
<1> USE DEF loop, Go
<1>1. CASE Started \/ BeginLoop \/ FinishRequested \/ Defer
  <2>1. Falls
    BY <1>1, Places DEF Started, BeginLoop, FinishRequested, Defer, Joined, Falls, Looping
  <2> QED
    BY <2>1, FallsUsesUp
<1>2. CASE PreFinalized \/ HandOver \/ RefuseLoop \/ Accept \/ ToolsPaused
  <2>1. pc \in {"prepare", "finish", "tools"} /\ pc' = "wrap" /\ UNCHANGED <<steps, used>>
    BY <1>2 DEF PreFinalized, HandOver, RefuseLoop, Accept, ToolsPaused, Joined, Pause, Leave
  <2>2. Falls
    BY <2>1, Places DEF Falls, Looping
  <2> QED
    BY <2>2, FallsUsesUp
<1>3. CASE Step
  <2>1. /\ steps' = [steps EXCEPT !.taken = @ + 1]
        /\ steps \in [taken : Nat, limit : Nat, ext : 0..Extensions, over : BOOLEAN]
        /\ pc = "step"
    BY <1>3 DEF Step, Typed, TypeOK
  <2>2. /\ steps'.taken = steps.taken + 1 /\ steps'.limit = steps.limit
        /\ steps'.ext = steps.ext /\ steps.taken <= steps.limit
        /\ steps.taken \in Nat /\ steps.limit \in Nat
    BY <2>1 DEF Metered, Looping
  <2>3. pc' \in {"budget_top", "wrap"} \/ (pc' = "llm" /\ steps'.taken <= steps.limit)
    <3>1. CASE steps'.taken > steps.limit \/ steps.over
      BY <1>3, <3>1, ExhaustedFalls DEF Step
    <3>2. CASE ~(steps'.taken > steps.limit \/ steps.over)
      BY <1>3, <2>2, <3>2 DEF Step
    <3> QED
      BY <3>1, <3>2
  <2> QED
    BY <2>2, <2>3 DEF Metered, UsesUp, Looping
<1>4. CASE ToolsDone \/ Repair
  <2>1. pc \in {"tools", "finish"} /\ UNCHANGED <<steps, used>>
    BY <1>4 DEF ToolsDone, Joined, Repair, Rejected
  <2>2. pc' \in {"budget_end", "wrap", "step"}
    BY <1>4, ExhaustedFalls DEF ToolsDone, Repair, EndIteration
  <2>3. Falls
    BY <2>1, <2>2, Places DEF Falls, Looping
  <2> QED
    BY <2>3, FallsUsesUp
<1>5. CASE RepairQuality \/ RepairsUsedUp
  <2>1. pc = "finish" /\ pc' \in {"step", "retry", "wrap"} /\ UNCHANGED <<steps, used>>
    BY <1>5 DEF RepairQuality, RepairsUsedUp, Rejected, Pause, Leave
  <2>2. Falls
    BY <2>1, Places DEF Falls, Looping
  <2> QED
    BY <2>2, FallsUsesUp
<1>6. CASE RecoverT2 \/ FinalizeAnyway \/ SweepAfterFinish \/ SweepAfterPause \/ WrapUp
  <2>1. pc = "wrap" /\ pc' = "over" /\ UNCHANGED <<steps, used>>
    BY <1>6 DEF RecoverT2, FinalizeAnyway, SweepAfterFinish, SweepAfterPause, WrapUp
  <2>2. Falls
    BY <2>1, Places DEF Falls, Looping
  <2> QED
    BY <2>2, FallsUsesUp
<1> QED
  BY <1>1, <1>2, <1>3, <1>4, <1>5, <1>6 DEF Internal

LEMMA ModelUsesUp == ASSUME Typed, Metered, Model PROVE UsesUp /\ Metered'
<1>1. pc = "llm" /\ Costs /\ pc' \in {"step", "wrap", "tools"}
  BY DEF Model, EmptyReply, TextReply, ProseQuestion, ToolReply, Leave, Go
<1>2. /\ steps'.taken = steps.taken /\ steps'.limit = steps.limit /\ steps'.ext = steps.ext
      /\ used'["retry"] = used["retry"]
  BY <1>1, SpendsElse DEF Costs, Typed, TypeOK, Budgets
<1>3. Falls
  BY <1>1, <1>2, Places DEF Falls, Looping
<1> QED
  BY <1>3, FallsUsesUp

(* A tool of the reply is over, whatever became of it.                     *)
LEMMA ToolUsesUp ==
    ASSUME Typed, Metered, NEW c \in turn.running, UNCHANGED <<pc, steps, batch>>,
           used'["retry"] = used["retry"], turn'.running = turn.running \ {c}
    PROVE  UsesUp /\ Metered'
BY DEF UsesUp, Metered

LEMMA FailuresUseUp == ASSUME Typed, Metered, Failures PROVE UsesUp /\ Metered'
<1> USE DEF loop, Go
<1>1. CASE StartupFails \/ HookFails \/ PrepareBlocked \/ ProviderRefuses
  <2>1. /\ pc \in {"start", "prepare", "llm"} /\ pc' \in {"over", "wrap"} /\ UNCHANGED steps
        /\ Spend("fault")
    BY <1>1 DEF StartupFails, HookFails, PrepareBlocked, ProviderRefuses, Pause, Leave
  <2>2. Falls
    BY <2>1, SpendsElse, Places DEF Falls, Looping, Budgets
  <2> QED
    BY <2>2, FallsUsesUp
<1>2. CASE ProviderFails
  <2>1. /\ pc = "llm" /\ batch' = batch + 1 /\ pc' \in {"llm", "provider"} /\ UNCHANGED steps
        /\ Spend("fault") /\ batch \in Nat
    BY <1>2 DEF ProviderFails, Typed, TypeOK
  <2>2. used'["retry"] = used["retry"]
    BY <2>1, SpendsElse DEF Budgets
  <2>3. CASE pc' = "provider"
    BY <2>1, <2>2, <2>3, FallsUsesUp, Places DEF Falls, Looping
  <2>4. CASE pc' = "llm"
    BY <2>1, <2>2, <2>4 DEF UsesUp, Metered
  <2> QED
    BY <2>1, <2>3, <2>4
<1>3. ASSUME NEW c \in Tools, ToolErrs(c) \/ ToolPauses(c)
      PROVE  UsesUp /\ Metered'
  <2>1. /\ c \in turn.running /\ UNCHANGED <<pc, steps, batch>>
        /\ Spend("fault") \/ Spend("away")
    BY <1>3 DEF ToolErrs, ToolPauses
  <2>2. turn'.running = turn.running \ {c}
    BY <1>3 DEF ToolErrs, ToolPauses, Typed, TypeOK
  <2> QED
    BY <2>1, <2>2, SpendsElse, ToolUsesUp DEF Budgets
<1>4. ASSUME NEW c \in Tools, ToolRaises(c)
      PROVE  UsesUp /\ Metered'
  <2>1. pc = "tools" /\ pc' = "wrap" /\ UNCHANGED steps /\ Spend("fault")
    BY <1>4 DEF ToolRaises, Leave
  <2>2. Falls
    BY <2>1, SpendsElse, Places DEF Falls, Looping, Budgets
  <2> QED
    BY <2>2, FallsUsesUp
<1> QED
  BY <1>1, <1>2, <1>3, <1>4 DEF Failures

LEMMA ResearcherUsesUp == ASSUME Typed, Metered, Researcher PROVE UsesUp /\ Metered'
<1> USE DEF loop, Go
<1>1. CASE ExtendBudget
  <2>1. /\ pc \in {"budget_top", "budget_end"} /\ pc' = "step" /\ used' = used
        /\ steps \in [taken : Nat, limit : Nat, ext : 0..Extensions, over : BOOLEAN]
        /\ steps' = IF pc = "budget_end" \/ steps.taken > steps.limit
                    THEN [steps EXCEPT !.limit = @ + Window, !.ext = @ + 1]
                    ELSE [steps EXCEPT !.over = FALSE, !.ext = @ + 1]
    BY <1>1 DEF ExtendBudget, Typed, TypeOK
  <2>2. Place(pc') < Place(pc)
    BY <2>1, Places
  <2>3. /\ steps'.taken = steps.taken /\ steps'.ext = steps.ext + 1
        /\ \/ steps'.limit = steps.limit + Window
           \/ steps'.limit = steps.limit /\ steps.taken <= steps.limit
    BY <2>1
  <2>4. /\ steps.taken \in Nat /\ steps.limit \in Nat /\ steps.ext \in Nat
        /\ Window \in Nat \ {0} /\ MaxSteps \in Nat
    BY <2>1, LoopAssumption
  <2>5. Window * (steps.ext + 1) = Window * steps.ext + Window
    BY <2>4
  <2>6. Window * steps.ext \in Nat
    BY <2>4
  <2>7. steps.limit <= MaxSteps + Window * steps.ext /\ steps.taken <= steps.limit + 1
    BY DEF Metered
  <2>8. Metered'
    <3>1. steps'.limit <= MaxSteps + Window * steps'.ext
      BY <2>3, <2>4, <2>5, <2>6, <2>7
    <3>2. steps'.taken <= steps'.limit
      BY <2>3, <2>4, <2>7
    <3> QED
      BY <2>3, <2>4, <3>1, <3>2 DEF Metered
  <2> QED
    BY <2>1, <2>2, <2>3, <2>8 DEF UsesUp
<1>2. CASE ExtendRetries
  <2>1. pc = "retry" /\ pc' = "step" /\ UNCHANGED <<steps, used>>
    BY <1>2 DEF ExtendRetries
  <2>2. Falls
    BY <2>1, Places DEF Falls, Looping
  <2> QED
    BY <2>2, FallsUsesUp
<1>3. CASE RetryProvider
  <2>1. pc = "provider" /\ pc' = "llm" /\ UNCHANGED steps /\ used'["retry"] = used["retry"] + 1
        /\ used["retry"] \in Nat
    BY <1>3 DEF RetryProvider, Spend, Typed, TypeOK, Budgets
  <2> QED
    BY <2>1 DEF UsesUp, Metered, Looping
<1>4. CASE ChooseStop \/ NobodyThere
  <2>1. pc \in Gates /\ pc' = "wrap" /\ UNCHANGED steps /\ (used' = used \/ Spend("away"))
    BY <1>4 DEF ChooseStop, NobodyThere, Pause, Leave
  <2>2. Falls
    BY <2>1, SpendsElse, Places DEF Falls, Looping, Gates, Budgets
  <2> QED
    BY <2>2, FallsUsesUp
<1>5. CASE CancelStartup \/ Cancel \/ CancelWrap
  <2>1. /\ UNCHANGED steps /\ Spend("cancel")
        /\ \/ pc = "start" /\ pc' = "over"
           \/ pc \in Gates \cup {"prepare", "llm", "tools", "finish"} /\ pc' = "wrap"
           \/ pc = "wrap" /\ pc' = "escaped"
    BY <1>5 DEF CancelStartup, Cancel, CancelWrap, Leave
  <2>2. Falls
    BY <2>1, SpendsElse, Places DEF Falls, Looping, Gates, Budgets
  <2> QED
    BY <2>2, FallsUsesUp
<1> QED
  BY <1>1, <1>2, <1>3, <1>4, <1>5 DEF Researcher

LEMMA StepUsesUp == ASSUME Typed, Metered, [Next]_vars PROVE [UsesUp]_vars /\ Metered'
<1>1. CASE UNCHANGED vars
  BY <1>1 DEF vars, loop, Metered
<1>2. CASE Ended
  BY <1>2 DEF Ended, vars, loop, Metered
<1>3. ASSUME NEW c \in Tools, ToolEnds(c)
      PROVE  UsesUp /\ Metered'
  <2>1. c \in turn.running /\ UNCHANGED <<pc, steps, batch, used>>
    BY <1>3 DEF ToolEnds
  <2>2. turn'.running = turn.running \ {c}
    BY <1>3 DEF ToolEnds, Typed, TypeOK
  <2> QED
    BY <2>1, <2>2, ToolUsesUp
<1> QED
  BY <1>1, <1>2, <1>3, InternalUsesUp, ModelUsesUp, FailuresUseUp, ResearcherUsesUp DEF Next

LEMMA MeteredAlways == Spec => []Metered
<1> QED
  BY MeteredInit, StepUsesUp, LoopInvariant, PTL DEF Spec

(* However often repairs, deferred finishes, replies of mere text, Ctrl+C  *)
(* and extensions alternate: the loop of run() takes no more steps than    *)
(* the budget and its extensions allow, and one to find out.               *)
THEOREM StepsAreBounded == Spec => [](steps.taken <= MaxSteps + Window * Extensions + 1)
<1>1. Typed /\ Metered => steps.taken <= MaxSteps + Window * Extensions + 1
  <2> SUFFICES ASSUME Typed, Metered
               PROVE  steps.taken <= MaxSteps + Window * Extensions + 1
    OBVIOUS
  <2>1. /\ steps.taken \in Nat /\ steps.limit \in Nat /\ steps.ext \in 0..Extensions
        /\ Window \in Nat /\ MaxSteps \in Nat /\ Extensions \in Nat
    BY LoopAssumption DEF Typed, TypeOK
  <2>2. Window * steps.ext <= Window * Extensions
    BY <2>1
  <2>3. Window * steps.ext \in Nat /\ Window * Extensions \in Nat
    BY <2>1
  <2> QED
    BY <2>1, <2>2, <2>3 DEF Metered
<1> QED
  BY <1>1, MeteredAlways, LoopInvariant, PTL

(* Every step of a run, the tool calls that outlive it included, uses up   *)
(* something there is only so much of; the rest between two steps of the   *)
(* loop grows again only at the researcher's retry of the provider.        *)
THEOREM NothingForEver == Spec => [][UsesUp]_vars
<1> QED
  BY StepUsesUp, MeteredAlways, LoopInvariant, PTL DEF Spec
====
