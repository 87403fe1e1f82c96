---- MODULE MCExternalHandoff ----
(* Small instances of ExternalHandoff. *)
EXTENDS ExternalHandoff
====
