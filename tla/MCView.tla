---- MODULE MCView ----
(* Two other participants, and ages of fresh, stale and expired. *)
EXTENDS View
============================
