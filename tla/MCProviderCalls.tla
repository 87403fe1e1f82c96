---- MODULE MCProviderCalls ----
(***************************************************************************)
(* A small instance of ProviderCalls: a caller with a fallback that asks   *)
(* for all a bucket holds, one that asks for little, one for too much.     *)
(***************************************************************************)
EXTENDS ProviderCalls

MCCalls == {"route", "agent", "sweep"}
MCEndpoints == {"main", "spare"}
MCCandidates == [c \in MCCalls |->
    IF c = "route" THEN <<"main", "spare">> ELSE <<"main">>]
MCRated == {"main"}
MCBurst == [e \in MCRated |-> 2]
MCAmount == [c \in MCCalls |-> CASE c = "route" -> 2 [] c = "agent" -> 1 [] OTHER -> 3]

=============================================================================
