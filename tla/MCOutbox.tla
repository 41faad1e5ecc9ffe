---- MODULE MCOutbox ----
(* A tab that emits and reloads, and a second one that only replays. *)
EXTENDS Outbox

CONSTANTS t1, t2

MCMaxEvents == [t \in Tabs |-> IF t = t1 THEN 2 ELSE 0]
MCMaxFlushes == [t \in Tabs |-> IF t = t1 THEN 2 ELSE 1]
MCMaxSockets == [t \in Tabs |-> IF t = t1 THEN 1 ELSE 0]
============================
