---- MODULE AuditLog ----
(***************************************************************************)
(* The audit log, the paths that feed it and the reconciliation sweep.     *)
(*                                                                         *)
(* A page emits its events through an outbox that may send each of them    *)
(* late, in any order, several times or never: here every event emitted    *)
(* may be delivered at any time.  The server stamps what arrives with its  *)
(* own clock, so recordedAt is the time of arrival, not of the event.      *)
(*                                                                         *)
(* Out of the model: visibility changes, which the log only stores, the    *)
(* detail of a record, and the count and times of its repeated reports.    *)
(***************************************************************************)
EXTENDS Integers, Sequences, FiniteSets

CONSTANTS
  Members,        \* the <<sid, pid>> pairs
  TTL,            \* ttlMs of the reconciler, in units of the model's clock
  MaxEvents,      \* bounds of the model: events emitted by each member,
  MaxServerEnds,  \* ends noticed by the server itself per member,
  MaxTime         \* and the clock

ASSUME LogAssumption ==
  /\ IsFiniteSet(Members)
  /\ TTL \in Nat

VARIABLES
  records,    \* AuditLog.#records: Map of event id to record
  emitted,    \* kinds of the events each page has emitted, in order
  generated,  \* event ids the server has generated for each member
  now         \* Clock.now()

logVars == <<records, emitted, generated, now>>

Kinds == {"session.start", "session.end"}
Sources == {"client", "socket", "inferred"}

EventIds == {"page", "server"} \X Members \X Nat
PageId(m, n) == <<"page", m, n>>
ServerId(m, n) == <<"server", m, n>>

\* AuditReport, with the id it came under as history, and AuditRecord.
Report == [id : EventIds, source : Sources]
Record == [member : Members, kind : Kinds, source : Sources, at : Nat,
           reports : SUBSET Report]

LogInit ==
  /\ records = << >>
  /\ emitted = [m \in Members |-> << >>]
  /\ generated = [m \in Members |-> 0]
  /\ now = 0

---------------------------------------------------------------------------
(* AuditLog.record().                                                      *)

RecordsOf(log, m, kind) ==
  {id \in DOMAIN log : log[id].member = m /\ log[id].kind = kind}

Starts(log, m) == RecordsOf(log, m, "session.start")
Ends(log, m) == RecordsOf(log, m, "session.end")

\* Slip: an end is taken for reopened by a start of the same instant.
EndsAfterStarts(log, m) ==
  {i \in Ends(log, m) : \A s \in Starts(log, m) : log[s].at < log[i].at}

\* Slip: idempotent on the event id and nothing else.
NoEnds(log, m) == {}

\* The end no start has reopened: #openSessionEnd().  There is at most one, so
\* that it is the latest end.
OpenSessionEnd(log, m) ==
  {i \in Ends(log, m) : \A s \in Starts(log, m) : log[s].at <= log[i].at}

\* The id under which an entry is stored: that of the record it converges on,
\* or its own.
KeyOf(log, e) ==
  IF e.id \notin DOMAIN log /\ e.kind = "session.end" /\ OpenSessionEnd(log, e.member) # {}
  THEN CHOOSE i \in OpenSessionEnd(log, e.member) :
         \A j \in OpenSessionEnd(log, e.member) : log[j].at <= log[i].at
  ELSE e.id

Reports(entries) == {[id |-> e.id, source |-> e.source] : e \in entries}

\* record() called with each of the entries.  They are of different members and
\* record() looks at its own member only, so the calls do not affect each other.
Recorded(log, entries) ==
  [k \in DOMAIN log \cup {KeyOf(log, e) : e \in entries} |->
     IF k \in DOMAIN log
     THEN [log[k] EXCEPT !.reports =
             @ \cup Reports({e \in entries : KeyOf(log, e) = k})]
     ELSE LET e == CHOOSE e \in entries : e.id = k
          IN  [member |-> e.member, kind |-> e.kind, source |-> e.source,
               at |-> now, reports |-> Reports({e})]]

---------------------------------------------------------------------------
(* The paths that feed it.                                                 *)

\* openSession, closeSession.  A page ends only what it has open; it opens
\* again after an end, or after a reload under a pid the host supplies.
Emit(m, kind) ==
  /\ Len(emitted[m]) < MaxEvents[m]
  /\ kind = "session.end" =>
       emitted[m] # << >> /\ emitted[m][Len(emitted[m])] = "session.start"
  /\ emitted' = [emitted EXCEPT ![m] = Append(@, kind)]
  /\ UNCHANGED <<records, generated, now>>

ClientEntry(m, n) ==
  [id |-> PageId(m, n), member |-> m, kind |-> emitted[m][n], source |-> "client"]

\* An event reaches the server over the socket or by POST /audit/beacon.
Deliver(m, n) ==
  /\ n \in DOMAIN emitted[m]
  /\ records' = Recorded(records, {ClientEntry(m, n)})
  /\ UNCHANGED <<emitted, generated, now>>

EndEntry(m, source) ==
  [id |-> ServerId(m, generated[m]), member |-> m, kind |-> "session.end",
   source |-> source]

\* The close of a socket without bye, or a member reaped: at any time, since a
\* member has several sockets over time and the reaper judges by its last hello.
ServerEnd(m, source) ==
  /\ generated[m] < MaxServerEnds
  /\ records' = Recorded(records, {EndEntry(m, source)})
  /\ generated' = [generated EXCEPT ![m] = @ + 1]
  /\ UNCHANGED <<emitted, now>>

\* Slip: an end of the same instant does not count.
OverdueOnTie ==
  {m \in Members : \E s \in Starts(records, m) :
     /\ \A t \in Starts(records, m) : records[t].at <= records[s].at
     /\ \A i \in Ends(records, m) : records[i].at <= records[s].at
     /\ now - records[s].at >= TTL}

\* Slip: any end ever stored counts, as if a member opened once only.
OverdueWithoutEnd ==
  {m \in Members : \E s \in Starts(records, m) :
     /\ \A t \in Starts(records, m) : records[t].at <= records[s].at
     /\ Ends(records, m) = {}
     /\ now - records[s].at >= TTL}

\* The latest start is older than the TTL and no end is as late as it.
Overdue ==
  {m \in Members : \E s \in Starts(records, m) :
     /\ \A t \in Starts(records, m) : records[t].at <= records[s].at
     /\ \A i \in Ends(records, m) : records[i].at < records[s].at
     /\ now - records[s].at >= TTL}

Sweep ==
  /\ Overdue # {}
  /\ records' = Recorded(records, {EndEntry(m, "inferred") : m \in Overdue})
  /\ generated' = [m \in Members |-> IF m \in Overdue THEN generated[m] + 1 ELSE generated[m]]
  /\ UNCHANGED <<emitted, now>>

LogElapse ==
  /\ now < MaxTime
  /\ now' = now + 1
  /\ UNCHANGED <<records, emitted, generated>>

MemberStep(m) ==
  \/ \E kind \in Kinds : Emit(m, kind)
  \/ \E n \in 1 .. MaxEvents[m] : Deliver(m, n)
  \/ \E source \in {"socket", "inferred"} : ServerEnd(m, source)

LogNext ==
  \/ \E m \in Members : MemberStep(m)
  \/ Sweep
  \/ LogElapse

LogSpec == LogInit /\ [][LogNext]_logVars

\* The sweep is a timer of the server, and time passes.
FairLogSpec == LogSpec /\ WF_logVars(Sweep) /\ WF_logVars(LogElapse)

---------------------------------------------------------------------------
(* Properties.                                                             *)

\* Records, and the source of each: "client" for what a page says, whichever way
\* it came, and never for what the server notices (AuditController.ts:30).
LogTypeOK ==
  /\ now \in Nat
  /\ generated \in [Members -> Nat]
  /\ emitted \in [Members -> Seq(Kinds)]
  /\ DOMAIN records \subseteq EventIds
  /\ records \in [DOMAIN records -> Record]
  /\ \A id \in DOMAIN records :
       /\ records[id].at <= now
       /\ records[id].member = id[2]
       /\ records[id].source = "client" <=> id[1] = "page"

\* One close is stored once: between two ends of a member it was started again,
\* after the first and not after the second, whatever paths reported them.
EndsSeparated ==
  \A m \in Members : \A i, j \in Ends(records, m) :
    i = j \/ \E s \in Starts(records, m) :
               \/ records[i].at < records[s].at /\ records[s].at <= records[j].at
               \/ records[j].at < records[s].at /\ records[s].at <= records[i].at

\* The sweep and record() agree on what is open, each with its own comparison:
\* what the sweep writes is never folded into an older end.
OverdueIsOpen == \A m \in Overdue : OpenSessionEnd(records, m) = {}

\* The log stores one end for each engagement: what Engagements specifies.
Phase(m) ==
  IF OpenSessionEnd(records, m) # {} THEN "closed"
  ELSE IF Starts(records, m) # {} THEN "open"
  ELSE "new"

Engagement == INSTANCE Engagements WITH
  phase <- [m \in Members |-> Phase(m)],
  closings <- [m \in Members |-> Cardinality(Ends(records, m))]

EngagementSpec == Engagement!Spec

\* ADR 0013: no session is left with a start and no end, whichever reports are
\* lost.  A start is followed by an end in the end, unless the member starts
\* again so late that the clock of the model stops within the TTL.
ClosedSince(m, t) == \E i \in Ends(records, m) : records[i].at >= t
StartedAt(m, t) == \E s \in Starts(records, m) : records[s].at = t
StartedTooLate(m) == \E t \in MaxTime - TTL + 1 .. MaxTime : StartedAt(m, t)

StartsClosed ==
  \A m \in Members : \A t \in 0 .. MaxTime - TTL :
    StartedAt(m, t) ~> ClosedSince(m, t) \/ StartedTooLate(m)
============================
