---- MODULE MCSectionResolve ----
(* Reading and replacing through the names of sections. *)
EXTENDS SectionResolve, MCSectionInputs
====
