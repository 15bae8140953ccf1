---- MODULE MCRelocCompare ----
(* compare_relocations on tables of relocations. *)
EXTENDS RelocCompare, MCRelocInputs
====
