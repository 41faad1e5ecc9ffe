---- MODULE Silence ----
(***************************************************************************)
(* Server with one history variable: when each participant was last heard  *)
(* from, on any of its sockets and by any accepted frame.                  *)
(***************************************************************************)
EXTENDS Server

VARIABLE heardAt

HeardFrom == {ctx'[c].pid : c \in {d \in Socks : ctx'[d].lastSeen # ctx[d].lastSeen}}

SilenceInit == Init /\ heardAt = [p \in Pids |-> 0]

SilenceNext ==
  /\ Next
  /\ heardAt' = [p \in Pids |-> IF p \in HeardFrom THEN now ELSE heardAt[p]]

SilenceSpec == SilenceInit /\ [][SilenceNext]_<<vars, heardAt>>

\* constants.ts:26, "Silence before the heartbeat reaper drops a participant":
\* one who is reaped has sent nothing at all for longer than the TTL.
OnlySilentReaped ==
  [][ReaperSweep =>
       \A r \in Reaped : now - heardAt[r[2]] > PARTICIPANT_TTL_MS]_<<vars, heardAt>>
============================
