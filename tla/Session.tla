---- MODULE Session ----
(***************************************************************************)
(* The pure session model of the server: models/Session.ts,                *)
(* models/PresenceState.ts, models/Participant.ts, the reducer             *)
(* models/applyEvent.ts, and the presenters that read it                   *)
(* (views/presenters.ts).  Nothing here has state; Server.tla keeps one    *)
(* such value per session id in the registry.                              *)
(*                                                                         *)
(* Abstracted: a cursor or scroll position is one member of Points; the    *)
(* viewport, the colour (a function of the pid) and createdAt are dropped, *)
(* because no transition reads them.                                       *)
(***************************************************************************)
EXTENDS Integers, Functions

CONSTANTS Pids,    \* participant ids
          Points   \* positions a cursor or a scroll offset can take

Fields == {"cursor", "scroll"}

\* A JavaScript Map with keys in K, and one with values in V; set and delete.
IsTable(m, K) == DOMAIN m \subseteq K /\ m = [k \in DOMAIN m |-> m[k]]
IsMap(m, K, V) == IsTable(m, K) /\ \A k \in DOMAIN m : m[k] \in V
NoEntries == [k \in {} |-> k]
Put(m, k, v) == [x \in DOMAIN m \cup {k} |-> IF x = k THEN v ELSE m[x]]
Drop(m, K) == Restrict(m, DOMAIN m \ K)

---------------------------------------------------------------------------
(* PresenceState: per field, the last value and the seq that wrote it.     *)

IsPresence(x) == IsMap(x, Fields, [value : Points, seq : Int])
EmptyPresence == NoEntries

\* Slip: an observation with the recorded seq overwrites it.
WithFieldOnTie(presence, f, point, seq) ==
  IF f \in DOMAIN presence /\ seq < presence[f].seq
  THEN presence
  ELSE Put(presence, f, [value |-> point, seq |-> seq])

\* Last writer wins on seq: an observation no newer than the recorded one
\* leaves the state as it is.
WithField(presence, f, point, seq) ==
  IF f \in DOMAIN presence /\ seq <= presence[f].seq
  THEN presence
  ELSE Put(presence, f, [value |-> point, seq |-> seq])

---------------------------------------------------------------------------
(* Session: the roster, and the fields that changed since the last flush.  *)

IsParticipant(x) ==
  /\ x = [presence |-> x.presence, lastSeenAt |-> x.lastSeenAt]
  /\ IsPresence(x.presence)
  /\ x.lastSeenAt \in Int

IsSession(x) ==
  /\ x = [participants |-> x.participants, dirty |-> x.dirty]
  /\ IsTable(x.participants, Pids)
  /\ \A p \in DOMAIN x.participants : IsParticipant(x.participants[p])
  /\ IsMap(x.dirty, Pids, SUBSET Fields)

CreateSession == [participants |-> NoEntries, dirty |-> NoEntries]

Roster(session) == DOMAIN session.participants

CreateParticipant(now) == [presence |-> EmptyPresence, lastSeenAt |-> now]

AddParticipant(session, pid, now) ==
  IF pid \in Roster(session)
  THEN session
  ELSE [session EXCEPT !.participants = Put(@, pid, CreateParticipant(now))]

ClearDirtyFor(session, pids) == [session EXCEPT !.dirty = Drop(@, pids)]

\* Slip: the participant goes, its dirty flags stay.
RemoveKeepingDirty(session, pids) ==
  [session EXCEPT !.participants = Drop(@, pids)]

\* removeParticipant for each of a set of participants; the ones already
\* gone are left alone.
RemoveParticipants(session, pids) ==
  [ClearDirtyFor(session, pids) EXCEPT !.participants = Drop(@, pids)]

Touch(session, pid, now) ==
  IF pid \in Roster(session)
  THEN [session EXCEPT !.participants =
          Put(@, pid, [@[pid] EXCEPT !.lastSeenAt = now])]
  ELSE session

UpdatePresence(session, pid, presence) ==
  [session EXCEPT !.participants =
     Put(@, pid, [@[pid] EXCEPT !.presence = presence])]

DirtyFieldsOf(session, pid) ==
  IF pid \in DOMAIN session.dirty THEN session.dirty[pid] ELSE {}

MarkPresenceDirty(session, pid, f) ==
  [session EXCEPT !.dirty = Put(@, pid, DirtyFieldsOf(session, pid) \cup {f})]

ClearDirty(session) == [session EXCEPT !.dirty = NoEntries]

---------------------------------------------------------------------------
(* applyEvent, one operator per kind of event that changes a session.      *)

\* hello: join if absent, then refresh lastSeenAt; ts is the message's own.
ApplyHello(session, pid, ts) == Touch(AddParticipant(session, pid, ts), pid, ts)

\* cursor and scroll: ignored for an unknown participant and for a stale
\* seq; otherwise the new value is stored and its field marked dirty.
ApplyPresence(session, pid, f, point, seq) ==
  IF pid \notin Roster(session)
  THEN session
  ELSE LET before == session.participants[pid].presence
           after == WithField(before, f, point, seq)
       IN  IF after = before
           THEN session
           ELSE MarkPresenceDirty(UpdatePresence(session, pid, after), pid, f)

---------------------------------------------------------------------------
(* Presenters.                                                             *)

\* What a patch or a snapshot shows: some participants, a point per field.
IsView(v) ==
  /\ IsTable(v, Pids)
  /\ \A p \in DOMAIN v : IsMap(v[p], Fields, Points)

Values(presence, fields) ==
  [f \in DOMAIN presence \cap fields |-> presence[f].value]

\* toPatch: only dirty fields of participants still present.  The empty
\* patch stands for undefined.
ToPatch(session) ==
  [p \in DOMAIN session.dirty \cap Roster(session) |->
     Values(session.participants[p].presence, session.dirty[p])]

\* Slip: only who has a position is listed.
ToSnapshotOfMovers(session) ==
  [p \in {q \in Roster(session) : session.participants[q].presence # EmptyPresence}
     |-> Values(session.participants[p].presence, Fields)]

\* The roster that welcome carries.
ToSnapshot(session) ==
  [p \in Roster(session) |-> Values(session.participants[p].presence, Fields)]

---------------------------------------------------------------------------
\* A dirty flag is never orphaned: it belongs to a participant of the roster
\* and to a field that has a value, so the next flush really carries it
\* (presenters.ts toPatch would skip it silently otherwise).
DirtyIsFlushable(session) ==
  /\ DOMAIN session.dirty \subseteq Roster(session)
  /\ \A p \in DOMAIN session.dirty :
       /\ session.dirty[p] # {}
       /\ session.dirty[p] \subseteq DOMAIN session.participants[p].presence
============================
