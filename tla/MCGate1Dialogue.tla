---- MODULE MCGate1Dialogue ----
(* One request of each kind, and a second rollback. *)
EXTENDS Gate1Dialogue

MCKind == [r \in Requests |-> IF r = "rollback2" THEN "rollback" ELSE r]
MCLimit == [b \in Budgets |-> CASE b = "request" -> 3 [] b = "word" -> 4 [] b = "crash" -> 2 [] OTHER -> 1]
CalmLimit == [b \in Budgets |-> IF b \in {"request", "word"} THEN 4 ELSE 0]
====
