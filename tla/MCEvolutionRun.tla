---- MODULE MCEvolutionRun ----
(* Small instances of EvolutionRun. *)
EXTENDS EvolutionRun

MCKind == [o \in Ops |-> CASE o = "D1" -> "evolve" [] o = "D2" -> "reprofile"
                           [] o = "D3" -> "check" [] OTHER -> "rescore"]
MCLimit == [crash |-> 1, fault |-> 2, pause |-> 1, rollback |-> 1]
====
