---- MODULE MCChaos ----
(* One recipient watches two participants. *)
EXTENDS Chaos

CONSTANTS r1, p, q

Knobs(drop, dup, late, window) == [drop |-> drop, dup |-> dup, late |-> late, window |-> window]

\* Loss with delay, duplicates with reordering, and a window too large by one.
MCRequests ==
  {Knobs(TRUE, FALSE, TRUE, 0), Knobs(FALSE, TRUE, FALSE, 1),
   Knobs(FALSE, FALSE, FALSE, MAX_REORDER_WINDOW + 1)}
============================
