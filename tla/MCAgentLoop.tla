---- MODULE MCAgentLoop ----
(* A small instance of AgentLoop. *)
EXTENDS AgentLoop

MCLimit == [b \in Budgets |-> IF b = "fault" THEN 2 ELSE 1]
====
