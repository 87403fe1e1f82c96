---- MODULE MCSingleTask ----
(* The late slice, with a gate-only node, under pipeline and run-task.     *)
EXTENDS MCPipeline, SingleTask

SoloTasks == LateTasks \cup {"SURVEY-GATE"}
SoloImmediate == {"SURVEY-GATE"}
SoloGated == {"T6", "SURVEY-GATE"}
SoloNextOk == [t \in SoloTasks \ {"done", "failed"} |->
    CASE t = "T3" -> "SURVEY-GATE" [] t = "SURVEY-GATE" -> "ASSEMBLE" [] OTHER -> LateNextOk[t]]
SoloNextFail == [t \in SoloTasks \ {"done", "failed"} |->
    IF t = "SURVEY-GATE" THEN "failed" ELSE LateNextFail[t]]
SoloBranches == [t \in SoloGated |-> IF t = "T6" THEN {"done", "ASSEMBLE"} ELSE {"ASSEMBLE", "T6"}]
SoloScope == [t \in SoloTasks |-> "none"]

(* Without run-task: agents that fail, input that is lost, starts that are *)
(* blocked.  With it: the same around one command.                         *)
SoloEnvironments == {
    Budget([crash |-> 1, signal |-> 1, fault |-> 1, back |-> 1, retry |-> 7]),
    Budget([crash |-> 1, signal |-> 1, fault |-> 1, pause |-> 1, retry |-> 7]),
    Budget([crash |-> 1, fault |-> 2, retry |-> 7]),
    Budget([crash |-> 1, fault |-> 1, block |-> 1, retry |-> 7]),
    Budget([runtask |-> 1, crash |-> 1, fault |-> 1, retry |-> 7]),
    Budget([runtask |-> 1, signal |-> 1, ask |-> 2]),
    Budget([runtask |-> 1, crash |-> 1, ask |-> 1]),
    Budget([runtask |-> 1, signal |-> 1, pause |-> 1, ask |-> 1, retry |-> 7]),
    Budget([runtask |-> 1, signal |-> 1, back |-> 1, retry |-> 7]),
    Budget([runtask |-> 1, crash |-> 1, block |-> 1, retry |-> 7])}
=============================================================================
