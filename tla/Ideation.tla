---- MODULE Ideation ----
(***************************************************************************)
(* What T4 promises the researcher.  Populations are archived, and none is *)
(* lost, altered or given to another operation.  One of them is current:   *)
(* after the first presentation only one that was made for the waiting     *)
(* request takes its place, or the one before it, by the rollback asked    *)
(* for at the gate.  A request waits until it was carried out or refused.  *)
(* The gate is about the current population, and nothing moves while it is *)
(* open.  EvolutionRun implements this with files written one by one.      *)
(***************************************************************************)
EXTENDS Naturals

CONSTANTS None, Ops, Kind

VARIABLES
    archive,    \* the populations, each with the operation it was made for
    current,    \* the active population, or None
    request,    \* the operation that waits to be carried out, or None
    refused,    \* the live process has found that it cannot be
    honoured,   \* operations a population was adopted for
    presented,  \* the researcher has been shown a population
    offered,    \* the population the open gate is about, or None
    chosen      \* the population T5 starts from, or None

archived == <<archive, current>>
waiting == <<request, refused, honoured>>
shown == <<presented, offered, chosen>>

IdeationInit ==
    /\ DOMAIN archive = {} /\ current = None
    /\ request = None /\ refused = FALSE /\ honoured = {}
    /\ presented = FALSE /\ offered = None /\ chosen = None

Closed == offered = None

(* A population is made for the request, under a new number.               *)
Draft ==
    /\ Closed
    /\ \E g \in DOMAIN archive' \ DOMAIN archive :
          /\ archive' = [h \in DOMAIN archive \cup {g} |->
                             IF h = g THEN archive'[g] ELSE archive[h]]
          /\ archive'[g].by = request
    /\ UNCHANGED <<current, waiting, shown>>

(* Before anything was shown, the configured rounds take their course.     *)
Grow ==
    /\ Closed /\ ~presented /\ request = None
    /\ current' \in DOMAIN archive /\ archive[current'].by = None
    /\ UNCHANGED <<archive, waiting, shown>>

Adopt ==
    /\ Closed /\ request # None /\ Kind[request] \in {"evolve", "reprofile"}
    /\ current' \in DOMAIN archive \ {current} /\ archive[current'].by = request
    /\ honoured' = honoured \cup {request}
    /\ UNCHANGED <<archive, request, refused, shown>>

Refuse ==
    /\ Closed /\ request # None /\ Kind[request] = "evolve" /\ refused' = TRUE
    /\ UNCHANGED <<archived, request, honoured, shown>>

(* What a process found out is lost with its memory.                       *)
Forgets == refused' \in {refused, FALSE}

Settle ==
    /\ Closed /\ request # None /\ request' = None /\ Forgets
    /\ request \in honoured \/ refused \/ Kind[request] \in {"check", "rescore"}
    /\ UNCHANGED <<archived, honoured, shown>>

Present ==
    /\ Closed /\ current # None /\ presented' = TRUE
    /\ UNCHANGED <<archived, waiting, offered, chosen>>

(* The gate, and what the researcher does there.                           *)
Open ==
    /\ Closed /\ presented /\ request = None /\ offered' = current
    /\ UNCHANGED <<archived, waiting, presented, chosen>>

Ask ==
    /\ ~Closed /\ request = None /\ request' \in Ops /\ offered' = None /\ Forgets
    /\ UNCHANGED <<archived, honoured, presented, chosen>>

Undo ==
    /\ ~Closed /\ request = None /\ offered = current
    /\ current' \in DOMAIN archive /\ current = current' + 1 /\ offered' = None
    /\ UNCHANGED <<archive, waiting, presented, chosen>>

Choose ==
    /\ ~Closed /\ request = None /\ offered = current /\ chosen' = current
    /\ UNCHANGED <<archived, waiting, presented, offered>>

(* The process ends, or T4 is stopped.                                     *)
Leave ==
    /\ offered' \in {offered, None} /\ Forgets
    /\ UNCHANGED <<archived, request, honoured, presented, chosen>>

IdeationNext ==
    /\ chosen = None
    /\ Draft \/ Grow \/ Adopt \/ Refuse \/ Settle \/ Present \/ Open \/ Ask \/ Undo \/ Choose \/ Leave

IdeationSpec == IdeationInit /\ [][IdeationNext]_<<archived, waiting, shown>>

====
