---- MODULE MCTransport ----
(* One page and its connection. *)
EXTENDS Transport

\* flushQueue re-queues what SelectSeq would select.
ASSUME UnsentSelects ==
  LET few == {[t |-> t, seq |-> 1] : t \in {"cursor", "hello", "audit"}} IN
  \A k \in 0 .. 4 : \A items \in [1 .. k -> few] :
    Unsent(items) = SelectSeq(items, KeepsWaiting)
============================
