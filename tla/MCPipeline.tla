---- MODULE MCPipeline ----
(***************************************************************************)
(* Small instances of Pipeline: slices of state_machine.yaml with the      *)
(* shapes the whole graph is made of, and budgets for the environment.     *)
(***************************************************************************)
EXTENDS Pipeline

(* The literature slice: a scope gate, the search, a coverage gate that    *)
(* may lead forward, back or to the scope gate, and the reading.           *)
LitTasks == {"T2-PARAM-GATE", "T2", "T2-COVERAGE-GATE", "T3", "done", "failed"}
LitImmediate == {"T2-PARAM-GATE", "T2-COVERAGE-GATE"}
LitNextOk == [t \in LitTasks \ {"done", "failed"} |->
    CASE t = "T2-PARAM-GATE" -> "T2"
      [] t = "T2" -> "T2-COVERAGE-GATE"
      [] t = "T2-COVERAGE-GATE" -> "T3"
      [] OTHER -> "done"]
LitNextFail == [t \in LitTasks \ {"done", "failed"} |-> "failed"]
LitBranches == [t \in LitImmediate |->
    IF t = "T2-PARAM-GATE" THEN {"T2"} ELSE {"T3", "T2", "T2-PARAM-GATE"}]
LitScope == [t \in LitTasks |->
    CASE t = "T2" -> "T2-PARAM-GATE" [] t = "T3" -> "T2-COVERAGE-GATE" [] OTHER -> "none"]

(* The late slice: a task that fails back to itself, one that fails back   *)
(* to the other, and a task whose success opens a gate (T6).               *)
LateTasks == {"T3", "ASSEMBLE", "COMPILE", "T6", "done", "failed"}
LateGated == {"T6"}
LateNextOk == [t \in LateTasks \ {"done", "failed"} |->
    CASE t = "T3" -> "ASSEMBLE" [] t = "ASSEMBLE" -> "COMPILE"
      [] t = "COMPILE" -> "T6" [] OTHER -> "done"]
LateNextFail == [t \in LateTasks \ {"done", "failed"} |->
    CASE t \in {"ASSEMBLE", "COMPILE"} -> "ASSEMBLE" [] OTHER -> "failed"]
LateBranches == [t \in LateGated |-> {"done", "ASSEMBLE"}]
NoScope == [t \in LateTasks |-> "none"]

(* The repair slice: the two tasks whose failures lead back.               *)
RepairTasks == {"ASSEMBLE", "COMPILE", "done", "failed"}
RepairNextOk == [t \in {"ASSEMBLE", "COMPILE"} |-> IF t = "ASSEMBLE" THEN "COMPILE" ELSE "done"]
RepairNextFail == [t \in {"ASSEMBLE", "COMPILE"} |-> "ASSEMBLE"]
RepairBranches == [t \in {} |-> {}]
RepairScope == [t \in RepairTasks |-> "none"]

(* How often the environment may do each thing: never, but for these.      *)
Budget(l) == [b \in Budgets |-> IF b \in DOMAIN l THEN l[b] ELSE 0]

(* One crash, Ctrl+C, question and the like each: with agents that fail,   *)
(* with lost input, with explicit re-entry and blocked starts, with edits. *)
LitEnvironments == {
    Budget([crash |-> 1, signal |-> 1, fault |-> 1, ask |-> 1, back |-> 1]),
    Budget([crash |-> 1, signal |-> 1, ask |-> 2, pause |-> 1, back |-> 1]),
    Budget([signal |-> 1, fault |-> 1, ask |-> 1, pause |-> 1, reentry |-> 1]),
    Budget([signal |-> 1, block |-> 1, ask |-> 1, reentry |-> 1]),
    Budget([crash |-> 1, signal |-> 1, ask |-> 1, back |-> 1, edit |-> 1])}

GuardEnvironments == {Budget([crash |-> 1, retry |-> 1])}
FailEnvironments == {Budget([signal |-> 1, fault |-> 1])}
AskEnvironments == {Budget([signal |-> 1, ask |-> 1])}
=============================================================================
