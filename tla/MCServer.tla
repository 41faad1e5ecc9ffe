---- MODULE MCServer ----
(* A small instance of Server: a room of two, and one participant elsewhere. *)
EXTENDS Server, TLC

CONSTANTS p1, p2, p3, s1, s2, a, b

MCRooms == {<<p1, s1>>, <<p2, s1>>, <<p3, s2>>}
MCMoves == {<<"cursor", a>>, <<"cursor", b>>}
MCSkews == {0}
MCSymmetry ==
  Permutations({p1, p2}) \cup Permutations(Socks) \cup Permutations({a, b})

\* All that a step reads; what the last one sent and recorded it does not.
MCView == <<sessions, hub, ctx, ready, tickSeq, settling, now>>
============================
