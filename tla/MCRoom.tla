---- MODULE MCRoom ----
(* Two pages in one room; the first may lose its socket and reconnect. *)
EXTENDS Room, TLC

CONSTANTS p1, p2, c1, c2, c3, c4, a, b, d

MCRooms == Pids \X Sids
\* The cursor moves twice to two places; d is where the page scrolls to.
MCMoves == {<<"cursor", a>>, <<"cursor", b>>, <<"scroll", d>>}
MCSkews == {0}
\* The watched page p1 reconnects once; p2 keeps its one socket.
MCSocketsOf == [p \in Pids |-> IF p = p1 THEN <<c1, c2>> ELSE <<c3>>]
\* What p1 does itself it never draws.
MCMovesOf == [p \in Pids |-> IF p = p1 THEN {} ELSE Moves]
MCLastSeqOf == [p \in Pids |-> IF p = p1 THEN 1 ELSE 2]

\* For the restart: both pages reconnect, and p2 moves its cursor before and after.
RestartMoves == {<<"cursor", a>>, <<"cursor", b>>}
RestartSocketsOf == [p \in Pids |-> IF p = p1 THEN <<c1, c2>> ELSE <<c3, c4>>]
RestartLastSeqOf == [p \in Pids |-> IF p = p1 THEN 1 ELSE 3]

MCSymmetry == Permutations({a, b})

\* Everything a step or an invariant of Room reads: not what the last step sent
\* (it is on the wire), nor leftExplicitly (it decides an audit record only).
MCView == <<sessions, hub, [c \in Socks |-> <<ctx[c].pid, ctx[c].lastSeen>>], ready,
            tickSeq, settling, now, wire, remotes, lastPatchSeq>>
============================
