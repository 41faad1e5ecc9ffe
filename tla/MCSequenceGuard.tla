---- MODULE MCSequenceGuard ----
(* Every order of offering seven numbers, with repeats, to one guard. *)
EXTENDS SequenceGuard

MCInputs == 0 .. 6
============================
