---- MODULE MCSilence ----
(* One participant on one socket, moving while the clock runs. *)
EXTENDS Silence

MCRooms == Pids \X Sids
MCMoves == {<<"cursor", "a">>}
MCSkews == {0}
============================
