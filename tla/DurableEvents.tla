---- MODULE DurableEvents ----
(***************************************************************************)
(* What the outbox promises about an audit event: the server sees only     *)
(* what was persisted first, and the page's copy goes away only after the  *)
(* server has the event, or the event is too old or one too many.          *)
(* EntrustingSpec is what is left of that if a copy may also be traded for *)
(* a request that somebody else is to deliver.                             *)
(***************************************************************************)
CONSTANT EventIds

VARIABLES
  pending,    \* persisted and not cleared
  delivered,  \* recorded by the server
  abandoned,  \* cleared for its age or for the lack of space
  entrusted   \* cleared for a request that had not been received

Init == pending = {} /\ delivered = {} /\ abandoned = {} /\ entrusted = {}

Persist(e) ==
  /\ e \notin pending \cup delivered \cup abandoned \cup entrusted
  /\ pending' = pending \cup {e}
  /\ UNCHANGED <<delivered, abandoned, entrusted>>

\* Any number of times, also after the copy is gone, and several at once.
Deliver(es) ==
  /\ es \subseteq pending \cup delivered \cup abandoned \cup entrusted
  /\ delivered' = delivered \cup es
  /\ UNCHANGED <<pending, abandoned, entrusted>>

Acknowledge(e) ==
  /\ e \in pending \cap delivered
  /\ pending' = pending \ {e}
  /\ UNCHANGED <<delivered, abandoned, entrusted>>

Abandon(e) ==
  /\ e \in pending
  /\ pending' = pending \ {e}
  /\ abandoned' = abandoned \cup {e}
  /\ UNCHANGED <<delivered, entrusted>>

Entrust(e) ==
  /\ e \in pending \ delivered
  /\ pending' = pending \ {e}
  /\ entrusted' = entrusted \cup {e}
  /\ UNCHANGED <<delivered, abandoned>>

Next ==
  \/ \E e \in EventIds : Persist(e) \/ Acknowledge(e) \/ Abandon(e)
  \/ \E es \in SUBSET EventIds : Deliver(es)

EntrustingNext == Next \/ \E e \in EventIds : Entrust(e)

Spec == Init /\ [][Next]_<<pending, delivered, abandoned, entrusted>>

EntrustingSpec ==
  Init /\ [][EntrustingNext]_<<pending, delivered, abandoned, entrusted>>
============================
