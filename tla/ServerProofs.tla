---- MODULE ServerProofs ----
(***************************************************************************)
(* The server, for every number of participants, sessions and sockets: the *)
(* lemmas on the operators of Session, type correctness, what holds of     *)
(* each session by itself (flags, the settle window, sequence numbers),    *)
(* and the consistency of registry, hub and sockets with what is sent.     *)
(***************************************************************************)
EXTENDS Server, TLAPS

---------------------------------------------------------------------------
(* The operators of Session: each takes sessions to sessions, changes the  *)
(* roster as its name says, and orphans no dirty flag.                     *)

\* Map.set adds a key and keeps the other entries.
LEMMA PutTable ==
  ASSUME NEW K, NEW m, IsTable(m, K), NEW k \in K, NEW v
  PROVE  /\ IsTable(Put(m, k, v), K)
         /\ DOMAIN Put(m, k, v) = DOMAIN m \cup {k}
         /\ Put(m, k, v)[k] = v
         /\ \A x \in DOMAIN m : x # k => Put(m, k, v)[x] = m[x]
  BY DEF IsTable, Put

\* Map.delete removes keys and keeps the other entries.
LEMMA DropTable ==
  ASSUME NEW K, NEW m, IsTable(m, K), NEW D
  PROVE  /\ IsTable(Drop(m, D), K)
         /\ DOMAIN Drop(m, D) = DOMAIN m \ D
         /\ \A x \in DOMAIN m \ D : Drop(m, D)[x] = m[x]
  BY DEF IsTable, Drop, Restrict

\* The empty Map is one.
LEMMA EmptyTable ==
  ASSUME NEW K
  PROVE  IsTable(NoEntries, K) /\ DOMAIN NoEntries = {}
  BY DEF IsTable, NoEntries

\* An observation leaves a presence state one, keeps its fields, and gives the
\* observed field a value.
LEMMA WithFieldType ==
  ASSUME NEW presence, IsPresence(presence),
         NEW f \in Fields, NEW point \in Points, NEW seq \in Int
  PROVE  /\ IsPresence(WithField(presence, f, point, seq))
         /\ DOMAIN WithField(presence, f, point, seq) = DOMAIN presence \cup {f}
         /\ \A g \in DOMAIN presence :
              \/ WithField(presence, f, point, seq)[g] = presence[g]
              \/ g = f /\ WithField(presence, f, point, seq)[g].seq > presence[g].seq
<1> DEFINE entry == [value |-> point, seq |-> seq]
<1>1. IsTable(presence, Fields)
  BY DEF IsPresence, IsMap
<1>2. entry \in [value : Points, seq : Int]
  OBVIOUS
<1>3. CASE f \in DOMAIN presence /\ seq <= presence[f].seq
  BY <1>3 DEF WithField
<1>4. CASE ~(f \in DOMAIN presence /\ seq <= presence[f].seq)
  <2> HIDE DEF entry
  <2>1. WithField(presence, f, point, seq) = Put(presence, f, entry)
    BY <1>4 DEF WithField, entry
  <2>2. /\ IsTable(Put(presence, f, entry), Fields)
        /\ DOMAIN Put(presence, f, entry) = DOMAIN presence \cup {f}
        /\ Put(presence, f, entry)[f] = entry
        /\ \A x \in DOMAIN presence : x # f => Put(presence, f, entry)[x] = presence[x]
    BY <1>1 DEF Put, IsTable
  <2>3. IsPresence(Put(presence, f, entry))
    BY <1>2, <2>2 DEF IsPresence, IsMap
  <2>4. f \in DOMAIN presence => entry.seq > presence[f].seq
    BY <1>4 DEF entry, IsPresence, IsMap
  <2> QED BY <2>1, <2>2, <2>3, <2>4
<1> QED BY <1>3, <1>4

\* A session is a record of two Maps.
LEMMA SessionParts ==
  ASSUME NEW session, IsSession(session)
  PROVE  /\ session = [participants |-> session.participants, dirty |-> session.dirty]
         /\ IsTable(session.participants, Pids)
         /\ \A p \in DOMAIN session.participants : IsParticipant(session.participants[p])
         /\ IsTable(session.dirty, Pids)
         /\ \A p \in DOMAIN session.dirty : session.dirty[p] \in SUBSET Fields
  BY DEF IsSession, IsMap

\* A fresh session is one, with nobody in it and nothing dirty.
LEMMA CreateSessionType ==
  /\ IsSession(CreateSession)
  /\ Roster(CreateSession) = {}
  /\ DirtyIsFlushable(CreateSession)
<1>1. /\ CreateSession.participants = NoEntries
      /\ CreateSession.dirty = NoEntries
      /\ CreateSession = [participants |-> NoEntries, dirty |-> NoEntries]
  BY DEF CreateSession
<1> QED BY <1>1, EmptyTable DEF IsSession, IsMap, Roster, DirtyIsFlushable

\* next is session with one participant set.
WithParticipant(session, pid, x, next) ==
  /\ next.participants = Put(session.participants, pid, x)
  /\ next.dirty = session.dirty
  /\ next = [participants |-> next.participants, dirty |-> next.dirty]

\* Replacing one entry of the participants by a participant with the same or
\* more fields.
LEMMA SetParticipant ==
  ASSUME NEW session, IsSession(session),
         NEW pid \in Pids, NEW x, IsParticipant(x),
         NEW next, WithParticipant(session, pid, x, next)
  PROVE  /\ IsSession(next)
         /\ Roster(next) = Roster(session) \cup {pid}
         /\ next.dirty = session.dirty
         /\ next.participants[pid] = x
         /\ \A p \in Roster(session) :
              p # pid => next.participants[p] = session.participants[p]
         /\ /\ DirtyIsFlushable(session)
            /\ pid \in Roster(session) =>
                 DOMAIN session.participants[pid].presence \subseteq DOMAIN x.presence
            => DirtyIsFlushable(next)
<1>1. /\ next.participants = Put(session.participants, pid, x)
      /\ next.dirty = session.dirty
      /\ next = [participants |-> next.participants, dirty |-> next.dirty]
  BY DEF WithParticipant
<1>2. /\ IsTable(next.participants, Pids)
      /\ DOMAIN next.participants = Roster(session) \cup {pid}
      /\ next.participants[pid] = x
      /\ \A p \in Roster(session) :
           p # pid => next.participants[p] = session.participants[p]
  <2>1. IsTable(session.participants, Pids)
    BY SessionParts
  <2> QED BY <1>1, <2>1 DEF Roster, Put, IsTable
<1>3. IsSession(next)
  BY <1>1, <1>2, SessionParts DEF IsSession, IsMap, Roster
<1>4. ASSUME DirtyIsFlushable(session),
             pid \in Roster(session) =>
               DOMAIN session.participants[pid].presence \subseteq DOMAIN x.presence
      PROVE  DirtyIsFlushable(next)
  BY <1>1, <1>2, <1>4 DEF DirtyIsFlushable, Roster
<1> QED BY <1>1, <1>2, <1>3, <1>4 DEF Roster

\* A participant is a record of its presence and the time it was last seen.
LEMMA ParticipantParts ==
  ASSUME NEW x, IsParticipant(x)
  PROVE  /\ x = [presence |-> x.presence, lastSeenAt |-> x.lastSeenAt]
         /\ IsPresence(x.presence)
         /\ x.lastSeenAt \in Int
  BY DEF IsParticipant

\* A new participant has shown nothing yet.
LEMMA CreateParticipantType ==
  ASSUME NEW ts \in Int
  PROVE  /\ IsParticipant(CreateParticipant(ts))
         /\ CreateParticipant(ts).presence = EmptyPresence
         /\ DOMAIN EmptyPresence = {}
<1>1. IsPresence(EmptyPresence) /\ DOMAIN EmptyPresence = {}
  BY EmptyTable DEF EmptyPresence, IsPresence, IsMap
<1> QED BY <1>1 DEF CreateParticipant, IsParticipant

\* hello adds its participant to the roster, and leaves every presence as it is.
LEMMA ApplyHelloType ==
  ASSUME NEW session, IsSession(session), NEW pid \in Pids, NEW ts \in Int,
         NEW next, next = ApplyHello(session, pid, ts)
  PROVE  /\ IsSession(next)
         /\ Roster(next) = Roster(session) \cup {pid}
         /\ next.dirty = session.dirty
         /\ DirtyIsFlushable(session) => DirtyIsFlushable(next)
         /\ \A p \in Roster(next) :
              next.participants[p].presence =
                IF p \in Roster(session) THEN session.participants[p].presence
                ELSE EmptyPresence
<1> DEFINE added == AddParticipant(session, pid, ts)
<1>1. /\ IsSession(added)
      /\ Roster(added) = Roster(session) \cup {pid}
      /\ added.dirty = session.dirty
      /\ DirtyIsFlushable(session) => DirtyIsFlushable(added)
      /\ \A p \in Roster(added) :
           added.participants[p].presence =
             IF p \in Roster(session) THEN session.participants[p].presence
             ELSE EmptyPresence
  <2>1. CASE pid \in Roster(session)
    BY <2>1 DEF AddParticipant
  <2>2. CASE pid \notin Roster(session)
    <3> DEFINE x == CreateParticipant(ts)
    <3>1. IsParticipant(x) /\ x.presence = EmptyPresence
      BY CreateParticipantType
    <3>2. WithParticipant(session, pid, x, added)
      BY <2>2, SessionParts DEF AddParticipant, WithParticipant
    <3> HIDE DEF x, added
    <3> QED BY <2>2, <3>1, <3>2, SetParticipant
  <2> QED BY <2>1, <2>2
<1>2. next = Touch(added, pid, ts)
  BY DEF ApplyHello
<1>3. pid \in Roster(added)
  BY <1>1
<1> HIDE DEF added
<1> DEFINE y == [added.participants[pid] EXCEPT !.lastSeenAt = ts]
<1>4. IsParticipant(added.participants[pid])
  BY <1>1, <1>3 DEF IsSession, Roster
<1>5. IsParticipant(y) /\ y.presence = added.participants[pid].presence
  BY <1>4 DEF IsParticipant
<1>6. WithParticipant(added, pid, y, next)
  BY <1>1, <1>2, <1>3, SessionParts DEF Touch, WithParticipant
<1> HIDE DEF y
<1>7. /\ IsSession(next)
      /\ Roster(next) = Roster(added) \cup {pid}
      /\ next.dirty = added.dirty
      /\ next.participants[pid] = y
      /\ \A p \in Roster(added) :
           p # pid => next.participants[p] = added.participants[p]
      /\ DirtyIsFlushable(added) => DirtyIsFlushable(next)
  BY <1>1, <1>3, <1>5, <1>6, SetParticipant
<1> QED BY <1>1, <1>3, <1>5, <1>7

\* Removing participants takes them off the roster, with their dirty flags.
LEMMA RemoveParticipantsType ==
  ASSUME NEW session, IsSession(session), NEW pids,
         NEW next, next = RemoveParticipants(session, pids)
  PROVE  /\ IsSession(next)
         /\ Roster(next) = Roster(session) \ pids
         /\ DirtyIsFlushable(session) => DirtyIsFlushable(next)
         /\ \A p \in Roster(next) :
              /\ next.participants[p] = session.participants[p]
              /\ DirtyFieldsOf(next, p) = DirtyFieldsOf(session, p)
<1>1. /\ next.participants = Drop(session.participants, pids)
      /\ next.dirty = Drop(session.dirty, pids)
      /\ next = [participants |-> next.participants, dirty |-> next.dirty]
  <2> DEFINE cleared == ClearDirtyFor(session, pids)
  <2>1. cleared = [participants |-> session.participants, dirty |-> Drop(session.dirty, pids)]
    BY SessionParts DEF ClearDirtyFor
  <2>2. next = [cleared EXCEPT !.participants = Drop(cleared.participants, pids)]
    BY DEF RemoveParticipants
  <2> HIDE DEF cleared
  <2> QED BY <2>1, <2>2
<1>2. IsTable(session.participants, Pids) /\ IsTable(session.dirty, Pids)
  BY SessionParts
<1>3. /\ IsTable(next.participants, Pids)
      /\ DOMAIN next.participants = Roster(session) \ pids
      /\ \A p \in DOMAIN next.participants :
           next.participants[p] = session.participants[p]
  BY <1>1, <1>2 DEF Drop, Restrict, IsTable, Roster
<1>4. /\ IsTable(next.dirty, Pids)
      /\ DOMAIN next.dirty = DOMAIN session.dirty \ pids
      /\ \A p \in DOMAIN next.dirty : next.dirty[p] = session.dirty[p]
  BY <1>1, <1>2 DEF Drop, Restrict, IsTable
<1>5. IsSession(next)
  BY <1>1, <1>3, <1>4, SessionParts DEF IsSession, IsMap, Roster
<1>6. DirtyIsFlushable(session) => DirtyIsFlushable(next)
  BY <1>3, <1>4 DEF DirtyIsFlushable, Roster
<1> QED BY <1>3, <1>4, <1>5, <1>6 DEF Roster, DirtyFieldsOf

\* cursor and scroll change one field of one participant: the field is dirty
\* when its value is a new one, and its seq only grows.
LEMMA ApplyPresenceType ==
  ASSUME NEW session, IsSession(session), NEW pid \in Pids,
         NEW f \in Fields, NEW point \in Points, NEW seq \in Int,
         NEW next, next = ApplyPresence(session, pid, f, point, seq)
  PROVE  /\ IsSession(next)
         /\ Roster(next) = Roster(session)
         /\ DirtyIsFlushable(session) => DirtyIsFlushable(next)
         /\ \A p \in Roster(session), g \in Fields :
              LET old == session.participants[p].presence
                  new == next.participants[p].presence
              IN  /\ g \in DOMAIN old =>
                       g \in DOMAIN new /\ (new[g] = old[g] \/ new[g].seq > old[g].seq)
                  /\ g \notin DirtyFieldsOf(next, p) =>
                       /\ g \notin DirtyFieldsOf(session, p)
                       /\ g \in DOMAIN new => g \in DOMAIN old /\ new[g] = old[g]
<1> DEFINE before == session.participants[pid].presence
           after  == WithField(before, f, point, seq)
           x      == [session.participants[pid] EXCEPT !.presence = after]
           moved  == UpdatePresence(session, pid, after)
<1>1. CASE pid \notin Roster(session) \/ after = before
  BY <1>1 DEF ApplyPresence
<1>2. CASE pid \in Roster(session) /\ after # before
  <2>1. IsParticipant(session.participants[pid]) /\ IsPresence(before)
    BY <1>2 DEF IsSession, Roster, IsParticipant
  <2>2. /\ IsPresence(after)
        /\ DOMAIN after = DOMAIN before \cup {f}
        /\ \A g \in DOMAIN before :
             after[g] = before[g] \/ (g = f /\ after[g].seq > before[g].seq)
    BY <2>1, WithFieldType
  <2> HIDE DEF after
  <2>3. \A g \in DOMAIN after : g # f => g \in DOMAIN before /\ after[g] = before[g]
    BY <2>2
  <2>4. IsParticipant(x) /\ x.presence = after
    BY <2>1, <2>2 DEF IsParticipant
  <2>5. WithParticipant(session, pid, x, moved)
    BY SessionParts DEF UpdatePresence, WithParticipant
  <2>6. next = MarkPresenceDirty(moved, pid, f)
    BY <1>2 DEF ApplyPresence, after
  <2> HIDE DEF x, moved
  <2>7. /\ IsSession(moved)
        /\ Roster(moved) = Roster(session)
        /\ moved.dirty = session.dirty
        /\ moved.participants[pid] = x
        /\ \A p \in Roster(session) :
             p # pid => moved.participants[p] = session.participants[p]
        /\ DirtyIsFlushable(session) => DirtyIsFlushable(moved)
    <3>1. DOMAIN session.participants[pid].presence \subseteq DOMAIN x.presence
      BY <2>2, <2>4
    <3>2. Roster(session) \cup {pid} = Roster(session)
      BY <1>2
    <3> HIDE DEF before
    <3> QED BY <2>4, <2>5, <3>1, <3>2, SetParticipant
  <2>8. /\ next.participants = moved.participants
        /\ next.dirty = Put(moved.dirty, pid, DirtyFieldsOf(moved, pid) \cup {f})
        /\ next = [participants |-> next.participants, dirty |-> next.dirty]
    BY <2>6, <2>7, SessionParts DEF MarkPresenceDirty
  <2>9. IsTable(moved.dirty, Pids) /\ \A p \in DOMAIN moved.dirty : moved.dirty[p] \in SUBSET Fields
    BY <2>7, SessionParts
  <2>10. /\ IsTable(next.dirty, Pids)
         /\ DOMAIN next.dirty = DOMAIN moved.dirty \cup {pid}
         /\ next.dirty[pid] = DirtyFieldsOf(moved, pid) \cup {f}
         /\ \A p \in DOMAIN moved.dirty : p # pid => next.dirty[p] = moved.dirty[p]
    BY <2>8, <2>9 DEF Put, IsTable
  <2>11. IsSession(next)
    <3>1. DirtyFieldsOf(moved, pid) \cup {f} \in SUBSET Fields
      BY <2>9 DEF DirtyFieldsOf
    <3>2. \A p \in DOMAIN next.dirty : next.dirty[p] \in SUBSET Fields
      BY <2>9, <2>10, <3>1
    <3> QED BY <2>7, <2>8, <2>10, <3>2, SessionParts DEF IsSession, IsMap
  <2>12. Roster(next) = Roster(session)
    BY <2>7, <2>8 DEF Roster
  <2>13. DirtyIsFlushable(session) => DirtyIsFlushable(next)
    BY <1>2, <2>2, <2>4, <2>7, <2>8, <2>10, <2>12 DEF DirtyIsFlushable, DirtyFieldsOf, Roster
  <2>14. \A p \in Pids : DirtyFieldsOf(next, p) =
           IF p = pid THEN DirtyFieldsOf(session, p) \cup {f} ELSE DirtyFieldsOf(session, p)
    BY <2>7, <2>10 DEF DirtyFieldsOf
  <2>15. Roster(session) \subseteq Pids
    BY SessionParts DEF Roster, IsTable
  <2>16. ASSUME NEW p \in Roster(session), NEW g \in Fields
         PROVE  LET old == session.participants[p].presence
                    new == next.participants[p].presence
                IN  /\ g \in DOMAIN old =>
                         g \in DOMAIN new /\ (new[g] = old[g] \/ new[g].seq > old[g].seq)
                    /\ g \notin DirtyFieldsOf(next, p) =>
                         /\ g \notin DirtyFieldsOf(session, p)
                         /\ g \in DOMAIN new => g \in DOMAIN old /\ new[g] = old[g]
    <3>1. CASE p # pid
      BY <2>7, <2>8, <2>14, <2>15, <3>1
    <3>2. CASE p = pid
      <4>1. next.participants[p].presence = after /\ session.participants[p].presence = before
        BY <2>4, <2>7, <2>8, <3>2
      <4> HIDE DEF before
      <4> QED BY <2>2, <2>3, <2>14, <2>15, <3>2, <4>1
    <3> QED BY <3>1, <3>2
  <2> QED BY <2>11, <2>12, <2>13, <2>16
<1> QED BY <1>1, <1>2

\* A flush leaves the participants as they are and nothing dirty.
LEMMA ClearDirtyType ==
  ASSUME NEW session, IsSession(session),
         NEW next, next = ClearDirty(session)
  PROVE  /\ IsSession(next)
         /\ next.participants = session.participants
         /\ DirtyIsFlushable(next)
<1>1. /\ next.participants = session.participants
      /\ next.dirty = NoEntries
      /\ next = [participants |-> next.participants, dirty |-> next.dirty]
  BY SessionParts DEF ClearDirty
<1> QED BY <1>1, EmptyTable, SessionParts DEF IsSession, IsMap, DirtyIsFlushable

\* What patches and snapshots show of a session are views.
LEMMA ViewTypes ==
  ASSUME NEW session, IsSession(session)
  PROVE  IsView(ToPatch(session)) /\ IsView(ToSnapshot(session))
<1>1. ASSUME NEW p \in Roster(session), NEW F
      PROVE  IsMap(Values(session.participants[p].presence, F), Fields, Points)
  BY <1>1 DEF IsSession, IsParticipant, IsPresence, IsMap, IsTable, Roster, Values
<1>2. Roster(session) \subseteq Pids
  BY SessionParts DEF Roster, IsTable
<1>3. IsView(ToPatch(session))
  BY <1>1, <1>2 DEF IsView, ToPatch, IsTable
<1>4. IsView(ToSnapshot(session))
  BY <1>1, <1>2 DEF IsView, ToSnapshot, IsTable
<1> QED BY <1>3, <1>4

---------------------------------------------------------------------------
(* Type correctness.                                                       *)

\* What the hub sends is always one of the protocol's messages.
LEMMA MessageTypes ==
  /\ \A t \in {"pong", "audit.ack", "error"} : IsMessage(Reply(t))
  /\ \A sid \in Sids, pid \in Pids : IsMessage(Join(sid, pid)) /\ IsMessage(Leave(sid, pid))
  /\ \A sid \in Sids : \A session : IsSession(session) => IsMessage(Welcome(sid, session))
  /\ \A sid \in Sids, seq \in Nat : \A patches :
       IsView(patches) => IsMessage(Patch(sid, seq, patches))
<1>1. \A t \in {"pong", "audit.ack", "error"} : IsMessage(Reply(t))
  BY DEF IsMessage, Reply
<1>2. \A sid \in Sids, pid \in Pids : IsMessage(Join(sid, pid)) /\ IsMessage(Leave(sid, pid))
  BY DEF IsMessage, Join, Leave
<1>3. ASSUME NEW sid \in Sids, NEW session, IsSession(session)
      PROVE  IsMessage(Welcome(sid, session))
  BY <1>3, ViewTypes DEF IsMessage, Welcome
<1>4. \A sid \in Sids, seq \in Nat : \A patches :
        IsView(patches) => IsMessage(Patch(sid, seq, patches))
  BY DEF IsMessage, Patch
<1> QED BY <1>1, <1>2, <1>3, <1>4

\* Registering keeps the hub a pair of Maps.
LEMMA RegisterType ==
  ASSUME NEW h, IsHub(h), NEW pid \in Pids, NEW sid \in Sids, NEW sock \in Socks
  PROVE  IsHub(Register(h, pid, sid, sock))
<1> DEFINE new   == Register(h, pid, sid, sock)
           entry == [sid |-> sid, sock |-> sock]
           peers == ParticipantsOf(h, sid) \cup {pid}
<1>1. new.connections = Put(h.connections, pid, entry) /\ new.bySession = Put(h.bySession, sid, peers)
  BY DEF Register
<1>2. entry \in [sid : Sids, sock : Socks]
  OBVIOUS
<1>3. peers \in SUBSET Pids
  BY DEF ParticipantsOf, IsHub, IsMap
<1>4. new = [connections |-> new.connections, bySession |-> new.bySession]
  BY DEF Register
<1> HIDE DEF entry, peers, new
<1>5. IsMap(new.connections, Pids, [sid : Sids, sock : Socks])
  BY <1>1, <1>2 DEF IsHub, IsMap, IsTable, Put
<1>6. IsMap(new.bySession, Sids, SUBSET Pids)
  BY <1>1, <1>3 DEF IsHub, IsMap, IsTable, Put
<1> QED BY <1>4, <1>5, <1>6 DEF IsHub, new

\* So does unregistering.
LEMMA UnregisterType ==
  ASSUME NEW h, IsHub(h), NEW pids
  PROVE  IsHub(Unregister(h, pids))
<1> DEFINE new == Unregister(h, pids)
<1>1. /\ new = [connections |-> new.connections, bySession |-> new.bySession]
      /\ new.connections = Drop(h.connections, pids)
      /\ new.bySession = [s \in {t \in DOMAIN h.bySession : PeersLeft(h, pids, t) # {}}
                            |-> PeersLeft(h, pids, s)]
  BY DEF Unregister
<1> HIDE DEF new
<1>2. IsMap(new.connections, Pids, [sid : Sids, sock : Socks])
  BY <1>1 DEF IsHub, IsMap, IsTable, Drop, Restrict
<1>3. \A s \in DOMAIN h.bySession : PeersLeft(h, pids, s) \in SUBSET Pids
  BY DEF PeersLeft, IsHub, IsMap
<1>4. IsMap(new.bySession, Sids, SUBSET Pids)
  BY <1>1, <1>3 DEF IsHub, IsMap, IsTable
<1> QED BY <1>1, <1>2, <1>4 DEF IsHub, new

\* Whatever reaches a socket is an envelope.
LEMMA SendToType ==
  ASSUME NEW h, IsHub(h), NEW msg, IsMessage(msg)
  PROVE  /\ \A p, e : e \in SendTo(h, p, msg) => IsEnvelope(e)
         /\ \A sid, exclude, e :
              e \in BroadcastToSession(h, sid, msg, exclude) => IsEnvelope(e)
<1>1. ASSUME NEW p, NEW e, e \in SendTo(h, p, msg)
      PROVE  IsEnvelope(e)
  BY <1>1 DEF SendTo, IsEnvelope, IsHub, IsMap
<1> QED BY <1>1 DEF BroadcastToSession

\* Sending envelopes and recording audit records is an output.
LEMMA OutputType ==
  /\ IsOutput(Silent)
  /\ \A envelopes : (\A e \in envelopes : IsEnvelope(e)) => IsOutput(Sends(envelopes))
  /\ \A envelopes, records :
       (\A e \in envelopes : IsEnvelope(e)) /\ records \subseteq AuditRecord
       => IsOutput([sent |-> envelopes, recorded |-> records])
  BY DEF IsOutput, Silent, Sends

\* The session a handler starts from is one, new or stored.
LEMMA GetOrCreateType ==
  ASSUME StateTypeOK, NEW sid \in Sids
  PROVE  IsSession(GetOrCreate(sid))
  BY CreateSessionType DEF GetOrCreate, StateTypeOK

\* Changing one entry of the registry keeps it a registry.
LEMMA SaveType ==
  ASSUME StateTypeOK, NEW sid \in Sids, NEW session, IsSession(session)
  PROVE  /\ IsTable(Put(sessions, sid, session), Sids)
         /\ \A s \in DOMAIN Put(sessions, sid, session) :
              IsSession(Put(sessions, sid, session)[s])
  BY DEF StateTypeOK, IsTable, Put

\* removeFromSession keeps registry and hub well-formed.
LEMMA RemoveFromSessionType ==
  ASSUME StateTypeOK, NEW sid \in Sids, NEW pid \in Pids,
         NEW records \in SUBSET AuditRecord, RemoveFromSession(sid, pid, records)
  PROVE  /\ IsTable(sessions', Sids)
         /\ \A s \in DOMAIN sessions' : IsSession(sessions'[s])
         /\ IsHub(hub')
         /\ IsOutput(out')
<1> DEFINE hubN == Unregister(hub, {pid})
<1>1. IsHub(hubN) /\ hub' = hubN
  BY UnregisterType DEF RemoveFromSession, StateTypeOK
<1> HIDE DEF hubN
<1>2. /\ IsTable(sessions', Sids)
      /\ \A s \in DOMAIN sessions' : IsSession(sessions'[s])
  <2>1. CASE InSession(sid, pid)
    <3> DEFINE next == RemoveParticipants(sessions[sid], {pid})
    <3>1. IsSession(next)
      BY <2>1, RemoveParticipantsType DEF StateTypeOK, InSession
    <3>2. sessions' = [sessions EXCEPT ![sid] = next]
      BY <2>1 DEF RemoveFromSession
    <3> HIDE DEF next
    <3> QED BY <3>1, <3>2 DEF StateTypeOK, IsTable
  <2>2. CASE ~InSession(sid, pid)
    BY <2>2 DEF RemoveFromSession, StateTypeOK
  <2> QED BY <2>1, <2>2
<1>3. IsOutput(out')
  <2> DEFINE sent == IF InSession(sid, pid)
                     THEN BroadcastToSession(hubN, sid, Leave(sid, pid), {pid})
                     ELSE {}
  <2>1. out' = [sent |-> sent, recorded |-> records]
    BY DEF RemoveFromSession, hubN
  <2>2. \A e \in sent : IsEnvelope(e)
    <3>1. IsMessage(Leave(sid, pid))
      BY MessageTypes
    <3> QED BY <1>1, <3>1, SendToType
  <2> HIDE DEF sent
  <2> QED BY <2>1, <2>2, OutputType
<1> QED BY <1>1, <1>2, <1>3

\* Setting the context of one connection keeps all contexts well-formed.
LEMMA CtxType ==
  ASSUME StateTypeOK, NEW c \in Socks
  PROVE  /\ ctx[c].sid \in Sids
         /\ ctx[c].pid \in Pids \cup {NoPid}
         /\ ctx[c].leftExplicitly \in BOOLEAN
         /\ ctx[c].lastSeen \in Int
         /\ \A sid \in Sids : [ctx EXCEPT ![c].sid = sid] \in [Socks -> Ctx]
         /\ \A seq \in Int : [ctx EXCEPT ![c].lastSeen = seq] \in [Socks -> Ctx]
         /\ \A seq \in Int, pid \in Pids :
              [ctx EXCEPT ![c].pid = pid, ![c].lastSeen = seq] \in [Socks -> Ctx]
         /\ \A seq \in Int :
              [ctx EXCEPT ![c].leftExplicitly = TRUE, ![c].lastSeen = seq] \in [Socks -> Ctx]
  BY DEF StateTypeOK, Ctx

\* A socket that opens only gets its context and its state.
LEMMA ConnectType ==
  ASSUME TypeOK, NEW c \in Socks, NEW sid \in Sids, Connect(c, sid)
  PROVE  TypeOK'
  BY CtxType, OutputType DEF TypeOK, StateTypeOK, Connect

\* A hello stores a session, a registration and an identity of the right types.
LEMMA HelloType ==
  ASSUME TypeOK, NEW c \in Socks, NEW pid \in Pids, NEW seq \in Int, NEW ts \in Int,
         Hello(c, pid, seq, ts)
  PROVE  TypeOK'
<1> DEFINE sid   == ctx[c].sid
           next  == ApplyHello(GetOrCreate(sid), pid, ts)
           hubN  == Register(hub, pid, sid, c)
           joins == IF InSession(sid, pid) THEN {}
                    ELSE BroadcastToSession(hubN, sid, Join(sid, pid), {pid})
           sent  == SendTo(hubN, pid, Welcome(sid, next)) \cup joins
<1>1. sid \in Sids
  BY CtxType DEF TypeOK
<1> HIDE DEF sid
<1>2. IsSession(next)
  BY <1>1, GetOrCreateType, ApplyHelloType DEF TypeOK
<1> HIDE DEF next
<1>3. IsHub(hubN)
  BY <1>1, RegisterType DEF TypeOK, StateTypeOK
<1> HIDE DEF hubN
<1>4. \A e \in sent : IsEnvelope(e)
  <2>1. IsMessage(Welcome(sid, next)) /\ IsMessage(Join(sid, pid))
    BY <1>1, <1>2, MessageTypes
  <2> QED BY <1>3, <2>1, SendToType
<1>5. IsOutput(Sends(sent))
  BY <1>4, OutputType
<1> HIDE DEF sent
<1>6. /\ sessions' = Put(sessions, sid, next)
      /\ hub' = hubN
      /\ ctx' = [ctx EXCEPT ![c].pid = pid, ![c].lastSeen = seq]
      /\ out' = Sends(sent)
      /\ UNCHANGED <<ready, tickSeq, settling, now>>
  BY DEF Hello, sid, next, hubN, sent
<1>7. IsTable(sessions', Sids) /\ \A s \in DOMAIN sessions' : IsSession(sessions'[s])
  BY <1>1, <1>2, <1>6, SaveType DEF TypeOK
<1> QED BY <1>3, <1>5, <1>6, <1>7, CtxType DEF TypeOK, StateTypeOK

\* A cursor or scroll frame changes at most one session, and the guard of its socket.
LEMMA MoveType ==
  ASSUME TypeOK, NEW c \in Socks, NEW pid \in Pids, NEW seq \in Int,
         NEW f \in Fields, NEW point \in Points, Move(c, pid, seq, f, point)
  PROVE  TypeOK'
<1> DEFINE sid  == ctx[c].sid
           next == ApplyPresence(sessions[sid], pid, f, point, seq)
<1>1. /\ sessions' = IF sid \in DOMAIN sessions
                     THEN [sessions EXCEPT ![sid] = next] ELSE sessions
      /\ ctx' = [ctx EXCEPT ![c].lastSeen = seq]
      /\ out' = Silent
      /\ UNCHANGED <<hub, ready, tickSeq, settling, now>>
  BY DEF Move, Accept
<1>2. sid \in DOMAIN sessions => IsSession(next)
  BY ApplyPresenceType DEF TypeOK, StateTypeOK
<1> HIDE DEF sid, next
<1>3. IsTable(sessions', Sids) /\ \A s \in DOMAIN sessions' : IsSession(sessions'[s])
  BY <1>1, <1>2 DEF TypeOK, StateTypeOK, IsTable
<1> QED BY <1>1, <1>3, CtxType, OutputType DEF TypeOK, StateTypeOK

\* Frames the router answers or drops by itself change nothing but the output.
LEMMA RejectType ==
  ASSUME TypeOK, NEW c \in Socks, NEW seq, RejectFrame(c) \/ DropStaleFrame(c, seq)
  PROVE  TypeOK'
<1>1. IsEnvelope(<<c, Reply("error")>>)
  BY MessageTypes DEF IsEnvelope
<1>2. CASE RejectFrame(c)
  BY <1>1, <1>2, OutputType DEF RejectFrame, TypeOK, StateTypeOK
<1>3. CASE DropStaleFrame(c, seq)
  BY <1>3, OutputType DEF DropStaleFrame, TypeOK, StateTypeOK
<1> QED BY <1>2, <1>3

\* So do the frames that are only answered, but for the sequence guard.
LEMMA AnswerType ==
  ASSUME TypeOK, NEW c \in Socks, NEW pid \in Pids, NEW seq \in Int, NEW kind \in Kinds,
         Ping(c, pid, seq) \/ Audit(c, pid, seq, kind)
  PROVE  TypeOK'
<1> DEFINE record == Record(ctx[c].sid, pid, kind, "client")
<1>1. \A t \in {"pong", "audit.ack"} : \A e : e \in SendTo(hub, pid, Reply(t)) => IsEnvelope(e)
  BY MessageTypes, SendToType DEF TypeOK, StateTypeOK
<1>2. {record} \subseteq AuditRecord
  <2>1. ctx[c].sid \in Sids
    BY CtxType DEF TypeOK
  <2> QED BY <2>1 DEF Record, AuditRecord
<1> HIDE DEF record
<1>3. IsOutput(out')
  <2>1. CASE Ping(c, pid, seq)
    BY <1>1, <2>1, OutputType DEF Ping
  <2>2. CASE Audit(c, pid, seq, kind)
    BY <1>1, <1>2, <2>2, OutputType DEF Audit, record
  <2> QED BY <2>1, <2>2
<1>4. /\ ctx' = [ctx EXCEPT ![c].lastSeen = seq]
      /\ UNCHANGED <<sessions, hub, ready, tickSeq, settling, now>>
  BY DEF Ping, Audit, Accept
<1> QED BY <1>3, <1>4, CtxType DEF TypeOK, StateTypeOK

\* bye removes a participant and marks its connection.
LEMMA ByeType ==
  ASSUME TypeOK, NEW c \in Socks, NEW pid \in Pids, NEW seq \in Int, Bye(c, pid, seq)
  PROVE  TypeOK'
<1>1. /\ RemoveFromSession(ctx[c].sid, pid, {})
      /\ ctx[c].sid \in Sids
      /\ ctx' \in [Socks -> Ctx]
  BY CtxType DEF Bye, TypeOK
<1> QED BY <1>1, RemoveFromSessionType DEF Bye, TypeOK, StateTypeOK

\* Neither losing a socket nor handling its close event breaks a type.
LEMMA ClosingType ==
  ASSUME TypeOK, NEW c \in Socks, SocketLost(c) \/ Disconnect(c)
  PROVE  TypeOK'
<1>1. CASE SocketLost(c)
  BY <1>1, OutputType DEF TypeOK, StateTypeOK, SocketLost
<1>2. CASE Disconnect(c)
  <2>1. CASE WasEstablished(c)
    <3> DEFINE records == IF ctx[c].leftExplicitly THEN {}
                          ELSE {Record(ctx[c].sid, ctx[c].pid, "session.end", "socket")}
    <3>1. ctx[c].sid \in Sids /\ ctx[c].pid \in Pids
      BY <2>1, CtxType DEF TypeOK, WasEstablished
    <3>2. records \in SUBSET AuditRecord
      BY <3>1 DEF Record, AuditRecord, Kinds
    <3>3. RemoveFromSession(ctx[c].sid, ctx[c].pid, records)
      BY <1>2, <2>1 DEF Disconnect
    <3> HIDE DEF records
    <3> QED BY <1>2, <3>1, <3>2, <3>3, RemoveFromSessionType
            DEF Disconnect, TypeOK, StateTypeOK
  <2>2. CASE ~WasEstablished(c)
    BY <1>2, <2>2, OutputType DEF Disconnect, TypeOK, StateTypeOK
  <2> QED BY <2>1, <2>2
<1> QED BY <1>1, <1>2

\* A session created over HTTP is an empty one, or the one already there.
LEMMA CreateByHttpType ==
  ASSUME TypeOK, NEW sid \in Sids, CreateByHttp(sid)
  PROVE  TypeOK'
<1>1. IsSession(GetOrCreate(sid))
  BY GetOrCreateType DEF TypeOK
<1>2. IsTable(sessions', Sids) /\ \A s \in DOMAIN sessions' : IsSession(sessions'[s])
  BY <1>1, SaveType DEF CreateByHttp, TypeOK
<1> QED BY <1>2, OutputType DEF CreateByHttp, TypeOK, StateTypeOK

\* Who is flushed, repeated and expired: sessions of the registry.
LEMMA TickSets ==
  /\ Flushed \subseteq DOMAIN sessions
  /\ Settled \subseteq DOMAIN sessions \cap DOMAIN settling
  /\ Expired \subseteq Settled
  BY DEF Flushed, Settled, Expired

\* A tick sends patches that are views, and keeps settle entries well-formed.
LEMMA TickType ==
  ASSUME TypeOK, Tick
  PROVE  TypeOK'
<1> DEFINE emitted(s) == IF s \in Flushed THEN ToPatch(sessions[s]) ELSE settling[s].patches
           patch(s)   == Patch(s, PatchSeq(s), emitted(s))
<1>1. /\ DOMAIN sessions \subseteq Sids
      /\ DOMAIN settling \subseteq Sids
      /\ \A s \in DOMAIN sessions : IsSession(sessions[s])
      /\ \A s \in DOMAIN settling : IsSettleEntry(settling[s])
      /\ tickSeq \in Nat /\ now \in Nat
  BY DEF TypeOK, StateTypeOK, IsTable
<1>2. \A s \in DOMAIN sessions : IsView(ToPatch(sessions[s]))
  BY <1>1, ViewTypes
<1>3. IsTable(sessions', Sids) /\ \A s \in DOMAIN sessions' : IsSession(sessions'[s])
  <2>1. \A s \in DOMAIN sessions : IsSession(ClearDirty(sessions[s]))
    BY <1>1, ClearDirtyType
  <2> QED BY <1>1, <2>1 DEF Tick, IsTable
<1>4. IsTable(settling', Sids) /\ \A s \in DOMAIN settling' : IsSettleEntry(settling'[s])
  <2>1. \A s \in DOMAIN sessions :
          IsSettleEntry([patches |-> ToPatch(sessions[s]),
                         settleUntil |-> now + PATCH_SETTLE_WINDOW_MS])
    BY <1>1, <1>2, ServerAssumption DEF IsSettleEntry
  <2>2. settling' = NextSettling
    BY DEF Tick
  <2> QED BY <1>1, <2>1, <2>2, TickSets DEF NextSettling, IsTable
<1>5. IsOutput(out')
  <2>1. ASSUME NEW s \in Flushed \cup (Settled \ Expired)
        PROVE  IsMessage(patch(s))
    <3>1. IsView(emitted(s))
      BY <1>1, <1>2, TickSets DEF IsSettleEntry
    <3>2. s \in Sids
      BY <1>1, TickSets
    <3>3. PatchSeq(s) \in Nat
      BY <1>1 DEF PatchSeq
    <3> HIDE DEF emitted
    <3> QED BY <3>1, <3>2, <3>3, MessageTypes
  <2> DEFINE sent == UNION {BroadcastToSession(hub, s, patch(s), {}) :
                              s \in Flushed \cup (Settled \ Expired)}
  <2>2. out' = Sends(sent)
    BY DEF Tick
  <2>3. IsHub(hub)
    BY DEF TypeOK, StateTypeOK
  <2> HIDE DEF patch
  <2>4. \A e \in sent : IsEnvelope(e)
    BY <2>1, <2>3, SendToType
  <2> HIDE DEF sent
  <2> QED BY <2>2, <2>4, OutputType
<1> QED BY <1>1, <1>3, <1>4, <1>5 DEF Tick, TypeOK, StateTypeOK

\* The reaper leaves sessions and hub well-formed, in whatever order it broadcasts.
LEMMA ReaperSweepType ==
  ASSUME TypeOK, ReaperSweep
  PROVE  TypeOK'
<1>1. PICK turn \in [Reaped -> 1 .. Cardinality(Reaped)] :
        LET gone(n) == {r[2] : r \in {q \in Reaped : turn[q] <= n}} IN
        /\ sessions' = [s \in {t \in DOMAIN sessions :
                                 \/ StaleIn(t) = {}
                                 \/ StaleIn(t) # Roster(sessions[t])}
                          |-> RemoveParticipants(sessions[s], StaleIn(s))]
        /\ hub' = Unregister(hub, {r[2] : r \in Reaped})
        /\ out' = [sent |-> UNION {BroadcastToSession(Unregister(hub, gone(turn[r])),
                                     r[1], Leave(r[1], r[2]), {r[2]}) : r \in Reaped},
                   recorded |-> {Record(r[1], r[2], "session.end", "inferred") :
                                   r \in Reaped}]
        /\ UNCHANGED <<ctx, ready, tickSeq, settling, now>>
  BY DEF ReaperSweep
<1> DEFINE gone(n) == {r[2] : r \in {q \in Reaped : turn[q] <= n}}
<1>2. IsTable(sessions', Sids) /\ \A s \in DOMAIN sessions' : IsSession(sessions'[s])
  <2>1. \A s \in DOMAIN sessions : IsSession(RemoveParticipants(sessions[s], StaleIn(s)))
    BY RemoveParticipantsType DEF TypeOK, StateTypeOK
  <2> QED BY <1>1, <2>1 DEF TypeOK, StateTypeOK, IsTable
<1>3. IsHub(hub')
  BY <1>1, UnregisterType DEF TypeOK, StateTypeOK
<1>4. \A r \in Reaped : r[1] \in Sids /\ r[2] \in Pids
  BY DEF Reaped
<1>5. IsOutput(out')
  <2> DEFINE told(r)  == BroadcastToSession(Unregister(hub, gone(turn[r])),
                                            r[1], Leave(r[1], r[2]), {r[2]})
             sent     == UNION {told(r) : r \in Reaped}
             recorded == {Record(r[1], r[2], "session.end", "inferred") : r \in Reaped}
  <2>1. ASSUME NEW r \in Reaped, NEW e \in told(r)
        PROVE  IsEnvelope(e)
    <3> HIDE DEF gone
    <3>1. IsHub(Unregister(hub, gone(turn[r])))
      BY UnregisterType DEF TypeOK, StateTypeOK
    <3>2. IsMessage(Leave(r[1], r[2]))
      BY <1>4, MessageTypes
    <3> QED BY <3>1, <3>2, SendToType
  <2>2. recorded \subseteq AuditRecord
    BY <1>4 DEF Record, AuditRecord, Kinds
  <2>3. out' = [sent |-> sent, recorded |-> recorded]
    BY <1>1
  <2> HIDE DEF told, recorded
  <2>4. \A e \in sent : IsEnvelope(e)
    BY <2>1
  <2> HIDE DEF sent
  <2> QED BY <2>2, <2>3, <2>4, OutputType
<1> QED BY <1>1, <1>2, <1>3, <1>5 DEF TypeOK, StateTypeOK

\* A new process starts from a well-formed state.
LEMMA RestartType ==
  ASSUME TypeOK, Restart
  PROVE  TypeOK'
<1>1. IsHub(EmptyHub)
  BY EmptyTable DEF IsHub, IsMap, EmptyHub
<1> QED BY <1>1, EmptyTable, OutputType DEF Restart, TypeOK, StateTypeOK

\* The clock only moves on.
LEMMA ElapseType ==
  ASSUME TypeOK, Elapse
  PROVE  TypeOK'
  BY OutputType DEF Elapse, TypeOK, StateTypeOK

\* The initial state is well-formed.
LEMMA InitType == Init => TypeOK
<1> SUFFICES ASSUME Init PROVE TypeOK
  OBVIOUS
<1>1. IsHub(hub)
  BY EmptyTable DEF Init, IsHub, IsMap, EmptyHub
<1>2. ctx \in [Socks -> Ctx]
  <2>1. (CHOOSE s \in Sids : TRUE) \in Sids
    BY ServerAssumption
  <2> QED BY <2>1 DEF Init, Ctx, NoSeq
<1> QED BY <1>1, <1>2, EmptyTable, OutputType DEF Init, TypeOK, StateTypeOK

\* Every handler and every timer keeps the state well-formed.
LEMMA NextType ==
  ASSUME TypeOK, [Next]_vars
  PROVE  TypeOK'
<1>1. ASSUME NEW c \in Socks, Handle(c)
      PROVE  TypeOK'
  <2>1. ASSUME NEW sid \in Sids, Connect(c, sid)
        PROVE  TypeOK'
    BY <2>1, ConnectType
  <2>2. CASE SocketLost(c) \/ Disconnect(c) \/ RejectFrame(c)
    BY <2>2, ClosingType, RejectType
  <2>3. ASSUME NEW seq \in Seqs,
               DropStaleFrame(c, seq)
               \/ \E pid \in Pids :
                    \/ \E d \in Skews : /\ <<pid, ctx[c].sid>> \in Rooms
                                        /\ Hello(c, pid, seq, now + d)
                    \/ \E m \in Moves : Move(c, pid, seq, m[1], m[2])
                    \/ Ping(c, pid, seq)
                    \/ \E kind \in {"session.start", "session.end"} : Audit(c, pid, seq, kind)
                    \/ Bye(c, pid, seq)
        PROVE  TypeOK'
    <3>1. seq \in Int
      BY DEF Seqs
    <3>2. ASSUME NEW pid \in Pids, NEW d \in Skews, Hello(c, pid, seq, now + d)
          PROVE  TypeOK'
      <4>1. now + d \in Int
        BY ServerAssumption DEF TypeOK, StateTypeOK
      <4> QED BY <3>1, <3>2, <4>1, HelloType
    <3>3. ASSUME NEW pid \in Pids, NEW m \in Moves, Move(c, pid, seq, m[1], m[2])
          PROVE  TypeOK'
      <4>1. m[1] \in Fields /\ m[2] \in Points
        BY ServerAssumption
      <4> QED BY <3>1, <3>3, <4>1, MoveType
    <3>4. ASSUME NEW pid \in Pids, NEW kind \in Kinds,
                 Ping(c, pid, seq) \/ Audit(c, pid, seq, kind)
          PROVE  TypeOK'
      BY <3>1, <3>4, AnswerType
    <3>5. ASSUME NEW pid \in Pids, Bye(c, pid, seq)
          PROVE  TypeOK'
      BY <3>1, <3>5, ByeType
    <3>6. CASE DropStaleFrame(c, seq)
      BY <3>6, RejectType
    <3> QED BY <2>3, <3>2, <3>3, <3>4, <3>5, <3>6 DEF Kinds
  <2> QED BY <1>1, <2>1, <2>2, <2>3 DEF Handle
<1>2. ASSUME NEW sid \in Sids, CreateByHttp(sid)
      PROVE  TypeOK'
  BY <1>2, CreateByHttpType
<1>3. CASE Timers
  BY <1>3, TickType, ReaperSweepType, ElapseType DEF Timers
<1>4. CASE Restart
  BY <1>4, RestartType
<1>5. CASE UNCHANGED vars
  BY <1>5 DEF vars, TypeOK, StateTypeOK, IsOutput
<1> QED BY <1>1, <1>2, <1>3, <1>4, <1>5 DEF Next

\* The server's state, messages and audit records always have their types.
THEOREM TypeCorrect == Spec => []TypeOK
  BY InitType, NextType, PTL DEF Spec

---------------------------------------------------------------------------
(* What a session holds.                                                   *)

\* What one step makes of the session of s: nothing, or one of the operations
\* of the session model; only a tick flushes.
SessionStep(s) ==
  LET new == sessions'[s]
      old == GetOrCreate(s)
  IN  \/ new = old
      \/ \E pid \in Pids, ts \in Int : new = ApplyHello(old, pid, ts)
      \/ \E pid \in Pids, f \in Fields, point \in Points, seq \in Int :
           new = ApplyPresence(old, pid, f, point, seq)
      \/ \E pids \in SUBSET Pids : new = RemoveParticipants(old, pids)
      \/ Tick /\ s \in Flushed /\ new = ClearDirty(old)

\* bye and the close event remove one participant from one session.
LEMMA RemovalStep ==
  ASSUME TypeOK, NEW sid \in Sids, NEW pid \in Pids, NEW records,
         RemoveFromSession(sid, pid, records), NEW s \in DOMAIN sessions'
  PROVE  SessionStep(s)
<1>1. CASE InSession(sid, pid)
  <2>1. sessions' = [sessions EXCEPT ![sid] = RemoveParticipants(@, {pid})]
    BY <1>1 DEF RemoveFromSession
  <2>2. s \in DOMAIN sessions /\ GetOrCreate(s) = sessions[s]
    BY <2>1 DEF GetOrCreate
  <2>3. sessions'[s] = IF s = sid THEN RemoveParticipants(sessions[s], {pid}) ELSE sessions[s]
    BY <2>1, <2>2
  <2>4. {pid} \in SUBSET Pids
    OBVIOUS
  <2> QED BY <2>2, <2>3, <2>4 DEF SessionStep
<1>2. CASE ~InSession(sid, pid)
  BY <1>2 DEF RemoveFromSession, SessionStep, GetOrCreate
<1> QED BY <1>1, <1>2

\* Frames change one session, by the operation of the session model they are for.
LEMMA FrameStep ==
  ASSUME TypeOK, NEW c \in Socks, NEW seq \in Seqs, NEW s \in DOMAIN sessions',
         \E pid \in Pids :
           \/ \E d \in Skews : Hello(c, pid, seq, now + d)
           \/ \E m \in Moves : Move(c, pid, seq, m[1], m[2])
           \/ Bye(c, pid, seq)
  PROVE  SessionStep(s)
<1> seq \in Int
  BY DEF Seqs
<1>1. ASSUME NEW pid \in Pids, NEW d \in Skews, Hello(c, pid, seq, now + d)
      PROVE  SessionStep(s)
  <2>1. now + d \in Int
    BY ServerAssumption DEF TypeOK, StateTypeOK
  <2>2. sessions' = Put(sessions, ctx[c].sid,
                        ApplyHello(GetOrCreate(ctx[c].sid), pid, now + d))
    BY <1>1 DEF Hello
  <2>3. \/ sessions'[s] = ApplyHello(GetOrCreate(s), pid, now + d)
        \/ sessions'[s] = GetOrCreate(s)
    BY <2>2 DEF Put, GetOrCreate
  <2> QED BY <2>1, <2>3 DEF SessionStep
<1>2. ASSUME NEW pid \in Pids, NEW m \in Moves, Move(c, pid, seq, m[1], m[2])
      PROVE  SessionStep(s)
  <2>1. m[1] \in Fields /\ m[2] \in Points
    BY ServerAssumption
  <2>2. sessions' = IF ctx[c].sid \in DOMAIN sessions
                    THEN [sessions EXCEPT ![ctx[c].sid] =
                            ApplyPresence(@, pid, m[1], m[2], seq)]
                    ELSE sessions
    BY <1>2 DEF Move
  <2>3. s \in DOMAIN sessions /\ GetOrCreate(s) = sessions[s]
    BY <2>2 DEF GetOrCreate
  <2>4. sessions'[s] = sessions[s] \/ sessions'[s] = ApplyPresence(sessions[s], pid, m[1], m[2], seq)
    BY <2>2, <2>3
  <2> QED BY <2>1, <2>3, <2>4 DEF SessionStep
<1>3. ASSUME NEW pid \in Pids, Bye(c, pid, seq)
      PROVE  SessionStep(s)
  <2>1. ctx[c].sid \in Sids
    BY CtxType DEF TypeOK
  <2> QED BY <1>3, <2>1, RemovalStep DEF Bye
<1> QED BY <1>1, <1>2, <1>3

\* The timers: a tick clears what it flushes, the reaper removes who is stale.
LEMMA TimerStep ==
  ASSUME TypeOK, Timers, NEW s \in DOMAIN sessions'
  PROVE  SessionStep(s)
<1>1. CASE Tick
  <2>1. s \in DOMAIN sessions /\ GetOrCreate(s) = sessions[s]
    BY <1>1 DEF Tick, GetOrCreate
  <2>2. sessions'[s] = IF s \in Flushed THEN ClearDirty(sessions[s]) ELSE sessions[s]
    BY <1>1, <2>1 DEF Tick
  <2> QED BY <1>1, <2>1, <2>2 DEF SessionStep
<1>2. CASE ReaperSweep
  <2>1. sessions' = [t \in {u \in DOMAIN sessions : \/ StaleIn(u) = {}
                                                   \/ StaleIn(u) # Roster(sessions[u])}
                       |-> RemoveParticipants(sessions[t], StaleIn(t))]
    BY <1>2 DEF ReaperSweep
  <2>2. /\ s \in DOMAIN sessions /\ GetOrCreate(s) = sessions[s]
        /\ sessions'[s] = RemoveParticipants(sessions[s], StaleIn(s))
    BY <2>1 DEF GetOrCreate
  <2>3. StaleIn(s) \in SUBSET Pids
    BY <2>2 DEF StaleIn, TypeOK, StateTypeOK, IsSession, IsTable, Roster
  <2> QED BY <2>2, <2>3 DEF SessionStep
<1>3. CASE Elapse
  BY <1>3 DEF Elapse, SessionStep, GetOrCreate
<1> QED BY <1>1, <1>2, <1>3 DEF Timers

\* Whatever happens, a session that is there afterwards came from the one that was
\* there, or from a new one, by at most one operation of the session model.
LEMMA EveryStep ==
  ASSUME TypeOK, [Next]_vars, NEW s \in DOMAIN sessions'
  PROVE  SessionStep(s)
<1>1. CASE Timers
  BY <1>1, TimerStep
<1>2. ASSUME NEW sid \in Sids, CreateByHttp(sid)
      PROVE  SessionStep(s)
  BY <1>2 DEF CreateByHttp, Put, SessionStep, GetOrCreate
<1>3. CASE Restart
  BY <1>3 DEF Restart, NoEntries
<1>4. ASSUME UNCHANGED sessions
      PROVE  SessionStep(s)
  BY <1>4 DEF SessionStep, GetOrCreate
<1>5. ASSUME NEW c \in Socks, Disconnect(c)
      PROVE  SessionStep(s)
  <2>1. CASE WasEstablished(c)
    <3>1. ctx[c].sid \in Sids /\ ctx[c].pid \in Pids
      BY <2>1, CtxType DEF TypeOK, WasEstablished
    <3>2. PICK records : RemoveFromSession(ctx[c].sid, ctx[c].pid, records)
      BY <1>5, <2>1 DEF Disconnect
    <3> QED BY <3>1, <3>2, RemovalStep
  <2>2. CASE ~WasEstablished(c)
    BY <1>4, <1>5, <2>2 DEF Disconnect
  <2> QED BY <2>1, <2>2
<1>6. ASSUME NEW c \in Socks, Handle(c)
      PROVE  SessionStep(s)
  <2>1. ASSUME NEW sid \in Sids, Connect(c, sid)
        PROVE  UNCHANGED sessions
    BY <2>1 DEF Connect
  <2>2. CASE SocketLost(c) \/ RejectFrame(c)
    BY <1>4, <2>2 DEF SocketLost, RejectFrame
  <2>3. ASSUME NEW seq, NEW pid, NEW kind,
               DropStaleFrame(c, seq) \/ Ping(c, pid, seq) \/ Audit(c, pid, seq, kind)
        PROVE  UNCHANGED sessions
    BY <2>3 DEF DropStaleFrame, Ping, Audit
  <2> QED BY <1>4, <1>5, <1>6, <2>1, <2>2, <2>3, FrameStep DEF Handle
<1>7. CASE UNCHANGED vars
  BY <1>4, <1>7 DEF vars
<1> QED BY <1>1, <1>2, <1>3, <1>6, <1>7 DEF Next

\* What one participant may see of a step: it keeps its flags unless they are
\* flushed, and a field without one keeps its value.
LEMMA StepKeepsPresence ==
  ASSUME TypeOK, [Next]_vars, NEW s \in DOMAIN sessions'
  PROVE  LET old == GetOrCreate(s)
             new == sessions'[s]
         IN  /\ DirtyIsFlushable(old) => DirtyIsFlushable(new)
             /\ \A p \in Roster(old) \cap Roster(new), f \in Fields :
                  LET was == old.participants[p].presence
                      is  == new.participants[p].presence
                  IN  /\ f \in DOMAIN was =>
                           f \in DOMAIN is /\ (is[f] = was[f] \/ is[f].seq > was[f].seq)
                      /\ f \notin DirtyFieldsOf(new, p) =>
                           /\ f \in DOMAIN is => f \in DOMAIN was /\ is[f] = was[f]
                           /\ \/ f \notin DirtyFieldsOf(old, p)
                              \/ Tick /\ s \in Flushed
             /\ \A p \in Roster(new) \ Roster(old) :
                  DOMAIN new.participants[p].presence = {}
<1> DEFINE old == GetOrCreate(s)
           new == sessions'[s]
           Kept == /\ DirtyIsFlushable(old) => DirtyIsFlushable(new)
                   /\ \A p \in Roster(old) \cap Roster(new), f \in Fields :
                        LET was == old.participants[p].presence
                            is  == new.participants[p].presence
                        IN  /\ f \in DOMAIN was =>
                                 f \in DOMAIN is /\ (is[f] = was[f] \/ is[f].seq > was[f].seq)
                            /\ f \notin DirtyFieldsOf(new, p) =>
                                 /\ f \in DOMAIN is => f \in DOMAIN was /\ is[f] = was[f]
                                 /\ \/ f \notin DirtyFieldsOf(old, p)
                                    \/ Tick /\ s \in Flushed
                   /\ \A p \in Roster(new) \ Roster(old) :
                        DOMAIN new.participants[p].presence = {}
<1>1. IsSession(old)
  <2>1. TypeOK'
    BY NextType
  <2>2. s \in Sids
    BY <2>1 DEF TypeOK, StateTypeOK, IsTable
  <2> QED BY <2>2, GetOrCreateType DEF TypeOK
<1>2. SessionStep(s)
  BY EveryStep
<1> SUFFICES Kept
  OBVIOUS
<1>3. \/ new = old
      \/ \E pid \in Pids, ts \in Int : new = ApplyHello(old, pid, ts)
      \/ \E pid \in Pids, f \in Fields, point \in Points, seq \in Int :
           new = ApplyPresence(old, pid, f, point, seq)
      \/ \E pids \in SUBSET Pids : new = RemoveParticipants(old, pids)
      \/ Tick /\ s \in Flushed /\ new = ClearDirty(old)
  BY <1>2 DEF SessionStep
<1> HIDE DEF old, new
<1>4. CASE new = old
  BY <1>4
<1>5. ASSUME NEW pid \in Pids, NEW ts \in Int, new = ApplyHello(old, pid, ts)
      PROVE  Kept
  <2>1. /\ Roster(new) = Roster(old) \cup {pid}
        /\ new.dirty = old.dirty
        /\ DirtyIsFlushable(old) => DirtyIsFlushable(new)
        /\ \A p \in Roster(new) :
             new.participants[p].presence =
               IF p \in Roster(old) THEN old.participants[p].presence ELSE EmptyPresence
    BY <1>1, <1>5, ApplyHelloType
  <2>2. DOMAIN EmptyPresence = {}
    BY DEF EmptyPresence, NoEntries
  <2> QED BY <2>1, <2>2 DEF DirtyFieldsOf
<1>6. ASSUME NEW pid \in Pids, NEW f \in Fields, NEW point \in Points, NEW seq \in Int,
             new = ApplyPresence(old, pid, f, point, seq)
      PROVE  Kept
  BY <1>1, <1>6, ApplyPresenceType
<1>7. ASSUME NEW pids \in SUBSET Pids, new = RemoveParticipants(old, pids)
      PROVE  Kept
  BY <1>1, <1>7, RemoveParticipantsType
<1>8. CASE Tick /\ s \in Flushed /\ new = ClearDirty(old)
  <2>1. new.participants = old.participants /\ DirtyIsFlushable(new)
    BY <1>1, <1>8, ClearDirtyType
  <2> QED BY <1>8, <2>1 DEF Roster
<1> QED BY <1>3, <1>4, <1>5, <1>6, <1>7, <1>8

\* No step orphans a dirty flag.
LEMMA StepKeepsFlags ==
  ASSUME TypeOK, DirtyFlagsFlushable, [Next]_vars
  PROVE  DirtyFlagsFlushable'
<1>1. ASSUME NEW s \in DOMAIN sessions'
      PROVE  DirtyIsFlushable(sessions'[s])
  <2>1. DirtyIsFlushable(GetOrCreate(s))
    BY CreateSessionType DEF GetOrCreate, DirtyFlagsFlushable
  <2> QED BY <2>1, StepKeepsPresence
<1> QED BY <1>1 DEF DirtyFlagsFlushable

\* What a tick flushes is what the session holds.
LEMMA FlushIsCurrent ==
  ASSUME NEW session, NEW p \in DOMAIN ToPatch(session),
         NEW f \in DOMAIN ToPatch(session)[p]
  PROVE  ToPatch(session)[p][f] = session.participants[p].presence[f].value
BY DEF ToPatch, Values

\* A step other than a tick leaves the settle windows alone, unless it is a restart.
LEMMA SettlingSteps ==
  ASSUME [Next]_vars
  PROVE  Tick \/ settling' = settling \/ DOMAIN sessions' = {}
<1>1. ASSUME NEW c \in Socks, Handle(c)
      PROVE  settling' = settling
  BY <1>1 DEF Handle, Connect, SocketLost, RejectFrame, Disconnect, DropStaleFrame, Hello,
              Move, Ping, Audit, Bye
<1>2. CASE Timers
  BY <1>2 DEF Timers, ReaperSweep, Elapse
<1>3. CASE Restart
  BY <1>3 DEF Restart, NoEntries
<1>4. CASE \E sid \in Sids : CreateByHttp(sid)
  BY <1>4 DEF CreateByHttp
<1>5. CASE UNCHANGED vars
  BY <1>5 DEF vars
<1> QED BY <1>1, <1>2, <1>3, <1>4, <1>5 DEF Next

\* The settle window of a session stays current: whatever replaces a value raises
\* the flag of its field, and a flush replaces the window as it lowers the flags.
LEMMA StepKeepsSettle ==
  ASSUME TypeOK, SettleIsCurrent, [Next]_vars
  PROVE  SettleIsCurrent'
<1>1. TypeOK'
  BY NextType
<1> SUFFICES ASSUME NEW s \in DOMAIN settling' \cap DOMAIN sessions',
                    NEW p \in DOMAIN settling'[s].patches \cap Roster(sessions'[s]),
                    NEW f \in (DOMAIN settling'[s].patches[p]
                                 \cap DOMAIN sessions'[s].participants[p].presence)
                               \ DirtyFieldsOf(sessions'[s], p)
             PROVE  settling'[s].patches[p][f] = sessions'[s].participants[p].presence[f].value
  BY DEF SettleIsCurrent
<1> DEFINE old == GetOrCreate(s)
           new == sessions'[s]
<1>2. f \in Fields
  BY <1>1 DEF TypeOK, StateTypeOK, IsSettleEntry, IsView, IsMap, IsTable
<1>3. \A q \in Roster(new) \ Roster(old) : DOMAIN new.participants[q].presence = {}
  BY StepKeepsPresence
<1>4. p \in Roster(old)
  BY <1>3
<1>5. /\ f \in DOMAIN old.participants[p].presence
      /\ new.participants[p].presence[f] = old.participants[p].presence[f]
      /\ f \notin DirtyFieldsOf(old, p) \/ (Tick /\ s \in Flushed)
  BY <1>2, <1>4, StepKeepsPresence
<1>6. s \in DOMAIN sessions /\ old = sessions[s]
  BY <1>4 DEF GetOrCreate, CreateSession, Roster, NoEntries
<1>7. CASE Tick /\ s \in Flushed
  <2>1. settling'[s].patches = ToPatch(sessions[s])
    BY <1>7 DEF Tick, NextSettling
  <2> QED BY <1>5, <1>6, <2>1, FlushIsCurrent
<1>8. CASE ~(Tick /\ s \in Flushed)
  <2>1. s \in DOMAIN settling /\ settling'[s] = settling[s]
    <3>1. CASE Tick
      BY <1>8, <3>1 DEF Tick, NextSettling
    <3>2. CASE ~Tick
      BY <3>2, SettlingSteps
    <3> QED BY <3>1, <3>2
  <2>2. f \notin DirtyFieldsOf(old, p)
    BY <1>5, <1>8
  <2> QED BY <1>4, <1>5, <1>6, <2>1, <2>2 DEF SettleIsCurrent
<1> QED BY <1>7, <1>8

\* The next flush carries every dirty flag: none belongs to a participant that left
\* or to a field without a value, whatever hello, bye, close and reaper did.
THEOREM FlagsAlwaysFlushable == Spec => []DirtyFlagsFlushable
<1>1. Init => TypeOK /\ DirtyFlagsFlushable
  BY InitType DEF Init, NoEntries, DirtyFlagsFlushable
<1>2. (TypeOK /\ DirtyFlagsFlushable) /\ [Next]_vars => (TypeOK /\ DirtyFlagsFlushable)'
  BY NextType, StepKeepsFlags
<1> QED BY <1>1, <1>2, PTL DEF Spec

\* A tick that repeats a flush under a fresh number never repeats an old value: where
\* no newer one waits to be flushed, it repeats the stored one.
THEOREM SettleAlwaysCurrent == Spec => []SettleIsCurrent
<1>1. Init => TypeOK /\ SettleIsCurrent
  BY InitType DEF Init, NoEntries, SettleIsCurrent
<1>2. (TypeOK /\ SettleIsCurrent) /\ [Next]_vars => (TypeOK /\ SettleIsCurrent)'
  BY NextType, StepKeepsSettle
<1> QED BY <1>1, <1>2, PTL DEF Spec

\* A stored value gives way to a newer number only, on whichever socket of the
\* participant it arrives.
LEMMA StepIsLastWriter ==
  ASSUME TypeOK, [Next]_vars
  PROVE  \A s \in DOMAIN sessions \cap DOMAIN sessions' :
           \A p \in Roster(sessions[s]) \cap Roster(sessions'[s]) :
             LET old == sessions[s].participants[p].presence
                 new == sessions'[s].participants[p].presence
             IN  \A f \in DOMAIN old :
                   f \in DOMAIN new /\ (new[f] = old[f] \/ new[f].seq > old[f].seq)
<1> SUFFICES ASSUME NEW s \in DOMAIN sessions \cap DOMAIN sessions',
                    NEW p \in Roster(sessions[s]) \cap Roster(sessions'[s]),
                    NEW f \in DOMAIN sessions[s].participants[p].presence
             PROVE  LET old == sessions[s].participants[p].presence
                        new == sessions'[s].participants[p].presence
                    IN  f \in DOMAIN new /\ (new[f] = old[f] \/ new[f].seq > old[f].seq)
  OBVIOUS
<1>1. GetOrCreate(s) = sessions[s]
  BY DEF GetOrCreate
<1>2. f \in Fields
  BY DEF TypeOK, StateTypeOK, IsSession, IsParticipant, IsPresence, IsMap, IsTable, Roster
<1> QED BY <1>1, <1>2, StepKeepsPresence

\* Frames of several sockets of one participant, in any order: the last writer by
\* number wins, in every step.
THEOREM LastWriterAlwaysWins == Spec => LastWriterWins
<1>1. TypeOK /\ [Next]_vars =>
        [\A s \in DOMAIN sessions \cap DOMAIN sessions' :
           \A p \in Roster(sessions[s]) \cap Roster(sessions'[s]) :
             LET old == sessions[s].participants[p].presence
                 new == sessions'[s].participants[p].presence
             IN  \A f \in DOMAIN old :
                   f \in DOMAIN new /\ (new[f] = old[f] \/ new[f].seq > old[f].seq)]_vars
  BY StepIsLastWriter
<1> QED BY <1>1, TypeCorrect, PTL DEF Spec, LastWriterWins

---------------------------------------------------------------------------
(* The registry and the hub tell the same story, and what they tell the    *)
(* sockets reaches the right ones: proved for participants that keep to    *)
(* one session (OneRoomPerPid), whatever the number of their sockets, the  *)
(* order of their close events and the clocks of the clients.              *)


\* A registration points to a socket of that participant and session whose
\* close event has not been handled yet.
SocketsHeld ==
  \A p \in DOMAIN hub.connections :
    LET conn == hub.connections[p] IN
    /\ ready[conn.sock] \in {"open", "closing"}
    /\ ctx[conn.sock].pid = p
    /\ ctx[conn.sock].sid = conn.sid

\* A connection has an identity only after hello, and then one it may have.
IdentityKept ==
  \A c \in Socks :
    /\ ready[c] = "new" => ctx[c].pid = NoPid
    /\ ctx[c].pid # NoPid => <<ctx[c].pid, ctx[c].sid>> \in Rooms

\* The strengthening that makes the consistency of the two inductive.
ConsistencyInv ==
  /\ TypeOK
  /\ HubIndexed
  /\ RosterMatchesHub
  /\ SocketsHeld
  /\ IdentityKept

---------------------------------------------------------------------------
(* What register and unregister do to an indexed hub.                      *)

\* register adds one pid to one index; it must not be under another session yet.
LEMMA RegisterIndexed ==
  ASSUME NEW h, IsHub(h), IsIndexed(h),
         NEW pid \in Pids, NEW sid \in Sids, NEW sock \in Socks,
         pid \in DOMAIN h.connections => h.connections[pid].sid = sid,
         NEW new, new = Register(h, pid, sid, sock)
  PROVE  /\ IsIndexed(new)
         /\ \A s : ParticipantsOf(new, s) =
                     IF s = sid THEN ParticipantsOf(h, s) \cup {pid} ELSE ParticipantsOf(h, s)
         /\ DOMAIN new.connections = DOMAIN h.connections \cup {pid}
         /\ new.connections[pid].sid = sid /\ new.connections[pid].sock = sock
         /\ \A p \in DOMAIN h.connections : p # pid => new.connections[p] = h.connections[p]
<1> DEFINE entry == [sid |-> sid, sock |-> sock]
           peers == ParticipantsOf(h, sid) \cup {pid}
<1>1. /\ new.connections = Put(h.connections, pid, entry)
      /\ new.bySession = Put(h.bySession, sid, peers)
  BY DEF Register
<1>2. entry.sid = sid /\ entry.sock = sock
  OBVIOUS
<1> HIDE DEF entry, peers
<1>3. /\ DOMAIN new.connections = DOMAIN h.connections \cup {pid}
      /\ new.connections[pid] = entry
      /\ \A p \in DOMAIN h.connections : p # pid => new.connections[p] = h.connections[p]
  BY <1>1 DEF Put
<1>4. /\ DOMAIN new.bySession = DOMAIN h.bySession \cup {sid}
      /\ new.bySession[sid] = peers
      /\ \A s \in DOMAIN h.bySession : s # sid => new.bySession[s] = h.bySession[s]
  BY <1>1 DEF Put
<1>5. \A s : ParticipantsOf(new, s) =
               IF s = sid THEN ParticipantsOf(h, s) \cup {pid} ELSE ParticipantsOf(h, s)
  BY <1>4 DEF ParticipantsOf, peers
<1>6. ASSUME NEW p \in DOMAIN new.connections
      PROVE  p \in ParticipantsOf(new, new.connections[p].sid)
  BY <1>2, <1>3, <1>5 DEF IsIndexed
<1>7. ASSUME NEW s \in DOMAIN new.bySession
      PROVE  /\ new.bySession[s] # {}
             /\ \A p \in new.bySession[s] : /\ p \in DOMAIN new.connections
                                           /\ new.connections[p].sid = s
  <2>1. CASE s = sid
    <3>1. \A p \in ParticipantsOf(h, sid) : p \in DOMAIN h.connections /\ h.connections[p].sid = sid
      BY DEF ParticipantsOf, IsIndexed
    <3> QED BY <1>2, <1>3, <1>4, <2>1, <3>1 DEF peers
  <2>2. CASE s # sid
    <3>1. s \in DOMAIN h.bySession /\ new.bySession[s] = h.bySession[s]
      BY <1>4, <2>2
    <3>2. /\ h.bySession[s] # {}
          /\ \A p \in h.bySession[s] : p \in DOMAIN h.connections /\ h.connections[p].sid = s
      BY <3>1 DEF IsIndexed
    <3> QED BY <1>3, <2>2, <3>1, <3>2
  <2> QED BY <2>1, <2>2
<1> QED BY <1>2, <1>3, <1>5, <1>6, <1>7 DEF IsIndexed

\* unregister takes pids from the connections and from every index alike.
LEMMA UnregisterIndexed ==
  ASSUME NEW h, IsHub(h), IsIndexed(h), NEW pids,
         NEW new, new = Unregister(h, pids)
  PROVE  /\ IsIndexed(new)
         /\ \A s : ParticipantsOf(new, s) = ParticipantsOf(h, s) \ pids
         /\ DOMAIN new.connections = DOMAIN h.connections \ pids
         /\ \A p \in DOMAIN new.connections : new.connections[p] = h.connections[p]
<1>1. /\ new.connections = Drop(h.connections, pids)
      /\ new.bySession = [s \in {t \in DOMAIN h.bySession : PeersLeft(h, pids, t) # {}}
                            |-> PeersLeft(h, pids, s)]
  BY DEF Unregister
<1>2. \A s \in DOMAIN h.bySession : PeersLeft(h, pids, s) = h.bySession[s] \ pids
  BY DEF PeersLeft, IsIndexed
<1>3. /\ DOMAIN new.connections = DOMAIN h.connections \ pids
      /\ \A p \in DOMAIN new.connections : new.connections[p] = h.connections[p]
  BY <1>1 DEF Drop, Restrict
<1>4. /\ DOMAIN new.bySession = {s \in DOMAIN h.bySession : h.bySession[s] \ pids # {}}
      /\ \A s \in DOMAIN new.bySession : new.bySession[s] = h.bySession[s] \ pids
  BY <1>1, <1>2
<1>5. \A s : ParticipantsOf(new, s) = ParticipantsOf(h, s) \ pids
  BY <1>4 DEF ParticipantsOf
<1>6. IsIndexed(new)
  BY <1>3, <1>4, <1>5 DEF IsIndexed
<1> QED BY <1>3, <1>5, <1>6

---------------------------------------------------------------------------
(* What each handler does to the rosters.                                  *)

\* hello adds its participant to the roster of its session, and no one else.
LEMMA HelloRosters ==
  ASSUME TypeOK, NEW c \in Socks, NEW pid \in Pids, NEW seq \in Int, NEW ts \in Int,
         Hello(c, pid, seq, ts)
  PROVE  \A s \in Sids, p \in Pids :
           InSession(s, p)' <=> InSession(s, p) \/ (s = ctx[c].sid /\ p = pid)
<1> DEFINE sid  == ctx[c].sid
           next == ApplyHello(GetOrCreate(sid), pid, ts)
<1>1. sid \in Sids
  BY CtxType DEF TypeOK
<1>2. Roster(next) = Roster(GetOrCreate(sid)) \cup {pid}
  BY <1>1, GetOrCreateType, ApplyHelloType DEF TypeOK
<1>3. \A p : p \in Roster(GetOrCreate(sid)) <=> InSession(sid, p)
  BY CreateSessionType DEF GetOrCreate, InSession
<1>4. sessions' = Put(sessions, sid, next)
  BY DEF Hello
<1> HIDE DEF sid, next
<1> QED BY <1>2, <1>3, <1>4 DEF InSession, Put, sid

\* cursor and scroll change no roster.
LEMMA MoveRosters ==
  ASSUME TypeOK, NEW c \in Socks, NEW pid \in Pids, NEW seq \in Int,
         NEW f \in Fields, NEW point \in Points, Move(c, pid, seq, f, point)
  PROVE  \A s \in Sids, p \in Pids : InSession(s, p)' <=> InSession(s, p)
<1> DEFINE sid  == ctx[c].sid
           next == ApplyPresence(sessions[sid], pid, f, point, seq)
<1>1. sid \in DOMAIN sessions => Roster(next) = Roster(sessions[sid])
  BY ApplyPresenceType DEF TypeOK, StateTypeOK
<1>2. sessions' = IF sid \in DOMAIN sessions
                  THEN [sessions EXCEPT ![sid] = next] ELSE sessions
  BY DEF Move
<1> HIDE DEF sid, next
<1> QED BY <1>1, <1>2 DEF InSession, TypeOK, StateTypeOK, IsTable

\* removeFromSession takes one participant off one roster.
LEMMA RemovalRosters ==
  ASSUME TypeOK, NEW sid \in Sids, NEW pid \in Pids, NEW records,
         RemoveFromSession(sid, pid, records)
  PROVE  \A s \in Sids, p \in Pids :
           InSession(s, p)' <=> InSession(s, p) /\ ~(s = sid /\ p = pid)
<1>1. CASE InSession(sid, pid)
  <2> DEFINE next == RemoveParticipants(sessions[sid], {pid})
  <2>1. Roster(next) = Roster(sessions[sid]) \ {pid}
    BY <1>1, RemoveParticipantsType DEF TypeOK, StateTypeOK, InSession
  <2>2. sessions' = [sessions EXCEPT ![sid] = next]
    BY <1>1 DEF RemoveFromSession
  <2> HIDE DEF next
  <2> QED BY <1>1, <2>1, <2>2 DEF InSession, TypeOK, StateTypeOK, IsTable
<1>2. CASE ~InSession(sid, pid)
  BY <1>2 DEF RemoveFromSession, InSession
<1> QED BY <1>1, <1>2

\* Creating a session over HTTP changes no roster.
LEMMA CreateByHttpRosters ==
  ASSUME TypeOK, NEW sid \in Sids, CreateByHttp(sid)
  PROVE  \A s \in Sids, p \in Pids : InSession(s, p)' <=> InSession(s, p)
<1>1. sessions' = Put(sessions, sid, GetOrCreate(sid))
  BY DEF CreateByHttp
<1>2. \A p : p \in Roster(GetOrCreate(sid)) <=> InSession(sid, p)
  BY CreateSessionType DEF GetOrCreate, InSession
<1> QED BY <1>1, <1>2 DEF InSession, Put

\* A tick changes no roster.
LEMMA TickRosters ==
  ASSUME TypeOK, Tick
  PROVE  \A s \in Sids, p \in Pids : InSession(s, p)' <=> InSession(s, p)
<1>1. \A s \in DOMAIN sessions : Roster(ClearDirty(sessions[s])) = Roster(sessions[s])
  BY ClearDirtyType DEF TypeOK, StateTypeOK, Roster
<1> QED BY <1>1 DEF InSession, Tick

\* The reaper takes exactly the stale participants off their rosters, even where it
\* drops the session altogether.
LEMMA SweepRosters ==
  ASSUME TypeOK, ReaperSweep
  PROVE  \A s \in Sids, p \in Pids :
           InSession(s, p)' <=> InSession(s, p) /\ <<s, p>> \notin Reaped
<1>1. sessions' = [s \in {t \in DOMAIN sessions : \/ StaleIn(t) = {}
                                                 \/ StaleIn(t) # Roster(sessions[t])}
                     |-> RemoveParticipants(sessions[s], StaleIn(s))]
  BY DEF ReaperSweep
<1>2. \A s \in DOMAIN sessions :
        Roster(RemoveParticipants(sessions[s], StaleIn(s))) = Roster(sessions[s]) \ StaleIn(s)
  BY RemoveParticipantsType DEF TypeOK, StateTypeOK
<1>3. \A s \in DOMAIN sessions : StaleIn(s) = {p \in Roster(sessions[s]) : Stale(s, p)}
  BY DEF StaleIn
<1>4. \A s \in Sids, p \in Pids : <<s, p>> \in Reaped <=> InSession(s, p) /\ Stale(s, p)
  BY DEF Reaped
<1>5. ASSUME NEW s \in Sids, NEW p \in Pids
      PROVE  InSession(s, p)' <=> InSession(s, p) /\ <<s, p>> \notin Reaped
  <2>1. CASE s \in DOMAIN sessions'
    <3>1. s \in DOMAIN sessions /\ sessions'[s] = RemoveParticipants(sessions[s], StaleIn(s))
      BY <1>1, <2>1
    <3> QED BY <1>2, <1>3, <1>4, <2>1, <3>1 DEF InSession
  <2>2. CASE s \notin DOMAIN sessions'
    <3>1. s \in DOMAIN sessions => StaleIn(s) = Roster(sessions[s])
      BY <1>1, <2>2
    <3> QED BY <1>3, <1>4, <2>2, <3>1 DEF InSession
  <2> QED BY <2>1, <2>2
<1> QED BY <1>5

---------------------------------------------------------------------------
(* Every step keeps the registry and the hub consistent.                   *)

\* Under OneRoomPerPid a participant is registered under the session its
\* connection is for.
LEMMA SameRoom ==
  ASSUME OneRoomPerPid, ConsistencyInv,
         NEW p \in DOMAIN hub.connections, NEW s \in Sids, <<p, s>> \in Rooms
  PROVE  hub.connections[p].sid = s
<1>1. /\ p \in Pids /\ hub.connections[p].sock \in Socks /\ hub.connections[p].sid \in Sids
      /\ p # NoPid
  BY ServerAssumption DEF ConsistencyInv, TypeOK, StateTypeOK, IsHub, IsMap, IsTable
<1>2. <<p, hub.connections[p].sid>> \in Rooms
  BY <1>1 DEF ConsistencyInv, SocketsHeld, IdentityKept
<1> QED BY <1>1, <1>2 DEF OneRoomPerPid

\* The parts of the invariant that speak of the hub follow from how a step
\* changes the registrations and the rosters.
LEMMA RegisterConsistent ==
  ASSUME OneRoomPerPid, ConsistencyInv, TypeOK',
         NEW c \in Socks, NEW pid \in Pids, NEW seq \in Int, NEW ts \in Int,
         <<pid, ctx[c].sid>> \in Rooms, Hello(c, pid, seq, ts)
  PROVE  ConsistencyInv'
<1> DEFINE sid == ctx[c].sid
<1>1. /\ sid \in Sids /\ IsHub(hub) /\ IsIndexed(hub)
      /\ ready[c] = "open" /\ ctx[c].pid \in {NoPid, pid}
      /\ hub' = Register(hub, pid, sid, c)
      /\ ctx' = [ctx EXCEPT ![c].pid = pid, ![c].lastSeen = seq]
      /\ ready' = ready
  BY CtxType DEF ConsistencyInv, TypeOK, StateTypeOK, HubIndexed, Hello, Accepts
<1>2. pid \in DOMAIN hub.connections => hub.connections[pid].sid = sid
  BY <1>1, SameRoom
<1>3. /\ IsIndexed(hub')
      /\ \A s : ParticipantsOf(hub', s) =
                  IF s = sid THEN ParticipantsOf(hub, s) \cup {pid} ELSE ParticipantsOf(hub, s)
      /\ DOMAIN hub'.connections = DOMAIN hub.connections \cup {pid}
      /\ hub'.connections[pid].sid = sid /\ hub'.connections[pid].sock = c
      /\ \A p \in DOMAIN hub.connections : p # pid => hub'.connections[p] = hub.connections[p]
  <2> HIDE DEF sid
  <2> QED BY <1>1, <1>2, RegisterIndexed
<1>4. HubIndexed'
  BY <1>3 DEF HubIndexed
<1>5. RosterMatchesHub'
  <2>1. \A s \in Sids, p \in Pids : InSession(s, p)' <=> InSession(s, p) \/ (s = sid /\ p = pid)
    BY HelloRosters DEF ConsistencyInv
  <2>2. \A s \in Sids : ParticipantsOf(hub, s) = {p \in Pids : InSession(s, p)}
    BY DEF ConsistencyInv, RosterMatchesHub
  <2>3. ASSUME NEW s \in Sids
        PROVE  ParticipantsOf(hub', s) = {p \in Pids : InSession(s, p)'}
    <3> HIDE DEF sid
    <3> QED BY <1>3, <2>1, <2>2
  <2> QED BY <2>3 DEF RosterMatchesHub
<1>6. ctx' \in [Socks -> Ctx] /\ ctx \in [Socks -> Ctx]
  BY DEF ConsistencyInv, TypeOK, StateTypeOK
<1>7. /\ ctx'[c].pid = pid /\ ctx'[c].sid = sid
      /\ \A d \in Socks : d # c => ctx'[d] = ctx[d]
  BY <1>1, <1>6 DEF Ctx
<1>8. SocketsHeld'
  <2>1. ASSUME NEW p \in DOMAIN hub'.connections
        PROVE  /\ ready'[hub'.connections[p].sock] \in {"open", "closing"}
               /\ ctx'[hub'.connections[p].sock].pid = p
               /\ ctx'[hub'.connections[p].sock].sid = hub'.connections[p].sid
    <3>1. CASE p = pid
      BY <1>1, <1>3, <1>7, <3>1
    <3>2. CASE p # pid
      <4>1. p \in DOMAIN hub.connections /\ hub'.connections[p] = hub.connections[p]
        BY <1>3, <3>2
      <4>2. /\ hub.connections[p].sock \in Socks
            /\ p # NoPid
            /\ ready[hub.connections[p].sock] \in {"open", "closing"}
            /\ ctx[hub.connections[p].sock].pid = p
            /\ ctx[hub.connections[p].sock].sid = hub.connections[p].sid
        BY <1>1, <4>1, ServerAssumption DEF ConsistencyInv, SocketsHeld, IsHub, IsMap, IsTable
      <4>3. hub.connections[p].sock # c
        BY <1>1, <3>2, <4>2
      <4> QED BY <1>1, <1>7, <4>1, <4>2, <4>3
    <3> QED BY <3>1, <3>2
  <2> QED BY <2>1 DEF SocketsHeld
<1>9. IdentityKept'
  BY <1>1, <1>7 DEF ConsistencyInv, IdentityKept
<1> QED BY <1>4, <1>5, <1>8, <1>9 DEF ConsistencyInv

\* A step that touches neither the hub nor the rosters, nor the identity of an
\* established connection, and closes no established socket.
LEMMA QuietConsistent ==
  ASSUME ConsistencyInv, TypeOK', UNCHANGED hub,
         \A s \in Sids, p \in Pids : InSession(s, p)' <=> InSession(s, p),
         \A c \in Socks :
           /\ ctx'[c].pid = ctx[c].pid
           /\ ctx[c].pid # NoPid => ctx'[c].sid = ctx[c].sid
           /\ ready'[c] = "new" => ready[c] = "new"
           /\ ready[c] \in {"open", "closing"} =>
                ready'[c] \in {"open", "closing"} \/ ctx[c].pid = NoPid
  PROVE  ConsistencyInv'
<1>1. HubIndexed' /\ RosterMatchesHub'
  BY DEF ConsistencyInv, HubIndexed, RosterMatchesHub
<1>2. \A p \in DOMAIN hub.connections : hub.connections[p].sock \in Socks /\ p # NoPid
  BY ServerAssumption DEF ConsistencyInv, TypeOK, StateTypeOK, IsHub, IsMap, IsTable
<1>3. SocketsHeld'
  BY <1>2 DEF ConsistencyInv, SocketsHeld
<1>4. IdentityKept'
  BY DEF ConsistencyInv, IdentityKept
<1> QED BY <1>1, <1>3, <1>4 DEF ConsistencyInv

\* Participants leave the rosters and the hub together.  The sockets that lose
\* their place may close in the same step; no others do.
LEMMA LeavingConsistent ==
  ASSUME ConsistencyInv, TypeOK', NEW gone \in SUBSET Pids,
         hub' = Unregister(hub, gone),
         \A s \in Sids, p \in Pids :
           InSession(s, p)' <=> InSession(s, p) /\ p \notin gone,
         \A c \in Socks :
           /\ ctx'[c].pid = ctx[c].pid
           /\ ctx'[c].sid = ctx[c].sid
           /\ ready'[c] = "new" => ready[c] = "new"
           /\ ready[c] \in {"open", "closing"} =>
                ready'[c] \in {"open", "closing"} \/ ctx[c].pid \in gone \/ ctx[c].pid = NoPid
  PROVE  ConsistencyInv'
<1>1. IsHub(hub) /\ IsIndexed(hub)
  BY DEF ConsistencyInv, TypeOK, StateTypeOK, HubIndexed
<1>2. /\ IsIndexed(hub')
      /\ \A s : ParticipantsOf(hub', s) = ParticipantsOf(hub, s) \ gone
      /\ DOMAIN hub'.connections = DOMAIN hub.connections \ gone
      /\ \A p \in DOMAIN hub'.connections : hub'.connections[p] = hub.connections[p]
  BY <1>1, UnregisterIndexed
<1>3. RosterMatchesHub'
  <2>1. \A s \in Sids : ParticipantsOf(hub, s) = {p \in Pids : InSession(s, p)}
    BY DEF ConsistencyInv, RosterMatchesHub
  <2>2. ASSUME NEW s \in Sids
        PROVE  ParticipantsOf(hub', s) = {p \in Pids : InSession(s, p)'}
    BY <1>2, <2>1
  <2> QED BY <2>2 DEF RosterMatchesHub
<1>4. \A p \in DOMAIN hub.connections : hub.connections[p].sock \in Socks /\ p # NoPid
  BY <1>1, ServerAssumption DEF IsHub, IsMap, IsTable
<1>5. SocketsHeld'
  BY <1>2, <1>4 DEF ConsistencyInv, SocketsHeld
<1>6. IdentityKept'
  BY DEF ConsistencyInv, IdentityKept
<1> QED BY <1>2, <1>3, <1>5, <1>6 DEF ConsistencyInv, HubIndexed

\* Whoever is on a roster is registered under that session and no other.
LEMMA RosterRegistered ==
  ASSUME ConsistencyInv, NEW s \in Sids, NEW p \in Pids, InSession(s, p)
  PROVE  p \in DOMAIN hub.connections /\ hub.connections[p].sid = s
<1>1. p \in ParticipantsOf(hub, s)
  BY DEF ConsistencyInv, RosterMatchesHub
<1> QED BY <1>1 DEF ConsistencyInv, HubIndexed, IsIndexed, ParticipantsOf

\* bye and the close event: the participant of the connection leaves.
LEMMA RemovalConsistent ==
  ASSUME OneRoomPerPid, ConsistencyInv, TypeOK',
         NEW c \in Socks, NEW records, ctx[c].pid # NoPid,
         RemoveFromSession(ctx[c].sid, ctx[c].pid, records),
         \A d \in Socks :
           /\ ctx'[d].pid = ctx[d].pid
           /\ ctx'[d].sid = ctx[d].sid
           /\ ready'[d] = "new" => ready[d] = "new"
           /\ ready[d] \in {"open", "closing"} => ready'[d] \in {"open", "closing"} \/ d = c
  PROVE  ConsistencyInv'
<1> DEFINE sid == ctx[c].sid
           pid == ctx[c].pid
<1>1. sid \in Sids /\ pid \in Pids /\ <<pid, sid>> \in Rooms
  BY CtxType DEF ConsistencyInv, TypeOK, IdentityKept
<1>2. \A s \in Sids : InSession(s, pid) => s = sid
  BY <1>1, RosterRegistered, SameRoom
<1>3. \A s \in Sids, p \in Pids :
        InSession(s, p)' <=> InSession(s, p) /\ ~(s = sid /\ p = pid)
  BY <1>1, RemovalRosters DEF ConsistencyInv
<1>4. hub' = Unregister(hub, {pid})
  BY DEF RemoveFromSession
<1>5. \A s \in Sids, p \in Pids : InSession(s, p)' <=> InSession(s, p) /\ p \notin {pid}
  <2> HIDE DEF sid, pid
  <2> QED BY <1>1, <1>2, <1>3
<1>6. {pid} \in SUBSET Pids
  BY <1>1
<1> QED BY <1>4, <1>5, <1>6, LeavingConsistent

\* The reaper: whoever is stale in a session leaves the hub as well.
LEMMA SweepConsistent ==
  ASSUME ConsistencyInv, TypeOK', ReaperSweep
  PROVE  ConsistencyInv'
<1> DEFINE gone == {r[2] : r \in Reaped}
<1>1. /\ hub' = Unregister(hub, gone)
      /\ UNCHANGED <<ctx, ready>>
  BY DEF ReaperSweep
<1>2. \A r \in Reaped : /\ r \in Sids \X Pids
                        /\ InSession(r[1], r[2])
  BY DEF Reaped
<1>3. gone \in SUBSET Pids
  BY <1>2
<1>4. \A s \in Sids, p \in Pids :
        InSession(s, p)' <=> InSession(s, p) /\ <<s, p>> \notin Reaped
  BY SweepRosters DEF ConsistencyInv
<1>5. ASSUME NEW s \in Sids, NEW p \in Pids, InSession(s, p)
      PROVE  p \in gone <=> <<s, p>> \in Reaped
  <2>1. ASSUME NEW r \in Reaped, r[2] = p
        PROVE  r = <<s, p>>
    <3>1. hub.connections[p].sid = s
      BY <1>5, RosterRegistered
    <3>2. r[1] \in Sids /\ InSession(r[1], p)
      BY <1>2, <2>1
    <3>3. hub.connections[p].sid = r[1]
      BY <3>2, RosterRegistered
    <3> QED BY <1>2, <2>1, <3>1, <3>3
  <2> QED BY <2>1
<1>6. \A s \in Sids, p \in Pids : InSession(s, p)' <=> InSession(s, p) /\ p \notin gone
  BY <1>4, <1>5
<1> HIDE DEF gone
<1> QED BY <1>1, <1>3, <1>6, LeavingConsistent

\* A new process starts with both empty, and no socket survives.
LEMMA RestartConsistent ==
  ASSUME ConsistencyInv, TypeOK', Restart
  PROVE  ConsistencyInv'
<1>1. DOMAIN hub'.connections = {} /\ DOMAIN hub'.bySession = {} /\ DOMAIN sessions' = {}
  BY DEF Restart, EmptyHub, NoEntries
<1>2. HubIndexed' /\ RosterMatchesHub' /\ SocketsHeld'
  BY <1>1 DEF HubIndexed, IsIndexed, RosterMatchesHub, ParticipantsOf, InSession, SocketsHeld
<1>3. IdentityKept'
  BY DEF ConsistencyInv, IdentityKept, Restart
<1> QED BY <1>2, <1>3 DEF ConsistencyInv

\* Opening and losing a socket, frames that change no roster, HTTP, the tick and
\* the clock.
LEMMA OtherStepsConsistent ==
  ASSUME ConsistencyInv, TypeOK',
         \/ Tick \/ Elapse \/ UNCHANGED vars
         \/ \E sid \in Sids : CreateByHttp(sid)
         \/ \E c \in Socks :
              \/ \E sid \in Sids : Connect(c, sid)
              \/ SocketLost(c)
              \/ RejectFrame(c)
              \/ Disconnect(c) /\ ~WasEstablished(c)
              \/ \E seq \in Seqs :
                   \/ DropStaleFrame(c, seq)
                   \/ \E pid \in Pids :
                        \/ \E m \in Moves : Move(c, pid, seq, m[1], m[2])
                        \/ Ping(c, pid, seq)
                        \/ \E kind \in Kinds : Audit(c, pid, seq, kind)
  PROVE  ConsistencyInv'
<1> USE DEF ConsistencyInv
<1>1. TypeOK /\ ctx \in [Socks -> Ctx] /\ ready \in [Socks -> {"new", "open", "closing", "closed"}]
  BY DEF TypeOK, StateTypeOK
<1>2. \A c \in Socks : ready[c] = "new" => ctx[c].pid = NoPid
  BY DEF IdentityKept
<1> DEFINE Quiet == /\ UNCHANGED hub
                    /\ \A s \in Sids, p \in Pids : InSession(s, p)' <=> InSession(s, p)
                    /\ \A c \in Socks :
                         /\ ctx'[c].pid = ctx[c].pid
                         /\ ctx[c].pid # NoPid => ctx'[c].sid = ctx[c].sid
                         /\ ready'[c] = "new" => ready[c] = "new"
                         /\ ready[c] \in {"open", "closing"} =>
                              ready'[c] \in {"open", "closing"} \/ ctx[c].pid = NoPid
<1>3. CASE Tick
  <2>1. Quiet
    BY <1>1, <1>3, TickRosters DEF Tick
  <2> QED BY <2>1, QuietConsistent
<1>4. CASE Elapse \/ UNCHANGED vars
  <2>1. Quiet
    BY <1>4 DEF Elapse, vars, InSession
  <2> QED BY <2>1, QuietConsistent
<1>5. ASSUME NEW sid \in Sids, CreateByHttp(sid)
      PROVE  ConsistencyInv'
  <2>1. Quiet
    BY <1>1, <1>5, CreateByHttpRosters DEF CreateByHttp
  <2> QED BY <2>1, QuietConsistent
<1>6. ASSUME NEW c \in Socks, NEW sid \in Sids, Connect(c, sid)
      PROVE  ConsistencyInv'
  <2>1. Quiet
    BY <1>1, <1>2, <1>6 DEF Connect, InSession, Ctx
  <2> QED BY <2>1, QuietConsistent
<1>7. ASSUME NEW c \in Socks, NEW seq,
             \/ SocketLost(c) \/ RejectFrame(c) \/ DropStaleFrame(c, seq)
             \/ Disconnect(c) /\ ~WasEstablished(c)
      PROVE  ConsistencyInv'
  <2>1. Quiet
    BY <1>1, <1>7 DEF SocketLost, RejectFrame, DropStaleFrame, Disconnect, WasEstablished, InSession
  <2> QED BY <2>1, QuietConsistent
<1>8. ASSUME NEW c \in Socks, NEW pid \in Pids, NEW seq \in Seqs, NEW m \in Moves,
             Move(c, pid, seq, m[1], m[2])
      PROVE  ConsistencyInv'
  <2>1. m[1] \in Fields /\ m[2] \in Points /\ seq \in Int
    BY ServerAssumption DEF Seqs
  <2>2. \A s \in Sids, p \in Pids : InSession(s, p)' <=> InSession(s, p)
    BY <1>1, <1>8, <2>1, MoveRosters
  <2>3. Quiet
    BY <1>1, <1>8, <2>2 DEF Move, Accept, Ctx
  <2> QED BY <2>3, QuietConsistent
<1>9. ASSUME NEW c \in Socks, NEW pid, NEW seq, NEW kind,
             Ping(c, pid, seq) \/ Audit(c, pid, seq, kind)
      PROVE  ConsistencyInv'
  <2>1. Quiet
    BY <1>1, <1>9 DEF Ping, Audit, Accept, InSession, Ctx
  <2> QED BY <2>1, QuietConsistent
<1> QED BY <1>3, <1>4, <1>5, <1>6, <1>7, <1>8, <1>9

\* The initial state is consistent: nobody is anywhere.
LEMMA InitConsistent == Init => ConsistencyInv
<1> SUFFICES ASSUME Init PROVE ConsistencyInv
  OBVIOUS
<1>1. DOMAIN hub.connections = {} /\ DOMAIN hub.bySession = {} /\ DOMAIN sessions = {}
  BY DEF Init, EmptyHub, NoEntries
<1>2. HubIndexed /\ RosterMatchesHub /\ SocketsHeld
  BY <1>1 DEF HubIndexed, IsIndexed, RosterMatchesHub, ParticipantsOf, InSession, SocketsHeld
<1>3. IdentityKept
  BY DEF Init, IdentityKept
<1> QED BY <1>2, <1>3, InitType DEF ConsistencyInv

\* Every step keeps the invariant, as long as no participant is in two sessions.
LEMMA NextConsistent ==
  ASSUME OneRoomPerPid, ConsistencyInv, [Next]_vars
  PROVE  ConsistencyInv'
<1>1. TypeOK'
  BY NextType DEF ConsistencyInv
<1>2. ctx \in [Socks -> Ctx] /\ ready \in [Socks -> {"new", "open", "closing", "closed"}]
  BY DEF ConsistencyInv, TypeOK, StateTypeOK
<1>3. ASSUME NEW c \in Socks, NEW pid \in Pids, NEW seq \in Seqs, NEW d \in Skews,
             <<pid, ctx[c].sid>> \in Rooms, Hello(c, pid, seq, now + d)
      PROVE  ConsistencyInv'
  <2>1. seq \in Int /\ now + d \in Int
    BY ServerAssumption DEF Seqs, ConsistencyInv, TypeOK, StateTypeOK
  <2> QED BY <1>1, <1>3, <2>1, RegisterConsistent
<1>4. ASSUME NEW c \in Socks, NEW pid \in Pids, NEW seq, Bye(c, pid, seq)
      PROVE  ConsistencyInv'
  <2>1. /\ ctx[c].pid = pid /\ pid # NoPid
        /\ RemoveFromSession(ctx[c].sid, pid, {})
        /\ ready' = ready
        /\ \A d \in Socks : ctx'[d].pid = ctx[d].pid /\ ctx'[d].sid = ctx[d].sid
    BY <1>2, <1>4, ServerAssumption DEF Bye, Accepts, Ctx
  <2> QED BY <1>1, <2>1, RemovalConsistent
<1>5. ASSUME NEW c \in Socks, Disconnect(c), WasEstablished(c)
      PROVE  ConsistencyInv'
  <2>1. PICK records : RemoveFromSession(ctx[c].sid, ctx[c].pid, records)
    BY <1>5 DEF Disconnect
  <2>2. /\ ctx[c].pid # NoPid
        /\ ctx' = ctx
        /\ ready' = [ready EXCEPT ![c] = "closed"]
    BY <1>5 DEF Disconnect, WasEstablished
  <2> QED BY <1>1, <1>2, <2>1, <2>2, RemovalConsistent
<1>6. CASE ReaperSweep
  BY <1>1, <1>6, SweepConsistent
<1>7. CASE Restart
  BY <1>1, <1>7, RestartConsistent
<1>8. CASE \E c \in Socks : Handle(c)
  BY <1>1, <1>3, <1>4, <1>5, <1>8, OtherStepsConsistent DEF Handle, Kinds
<1>9. CASE (\E sid \in Sids : CreateByHttp(sid)) \/ Timers \/ UNCHANGED vars
  BY <1>1, <1>6, <1>9, OtherStepsConsistent DEF Timers
<1> QED BY <1>7, <1>8, <1>9 DEF Next

\* A participant of a roster is registered, and its registration holds a socket
\* that has still to close.
LEMMA HeldMeansNoOrphan ==
  ASSUME ConsistencyInv
  PROVE  NoOrphanParticipant
<1>1. ASSUME NEW s \in DOMAIN sessions, NEW p \in Roster(sessions[s])
      PROVE  \E c \in Socks : /\ ready[c] \in {"open", "closing"}
                               /\ ctx[c].sid = s
                               /\ ctx[c].pid = p
  <2>1. s \in Sids /\ p \in Pids /\ InSession(s, p)
    BY DEF ConsistencyInv, TypeOK, StateTypeOK, IsTable, IsSession, Roster, InSession
  <2>2. p \in DOMAIN hub.connections /\ hub.connections[p].sid = s
    BY <2>1, RosterRegistered
  <2>3. hub.connections[p].sock \in Socks
    BY <2>2 DEF ConsistencyInv, TypeOK, StateTypeOK, IsHub, IsMap
  <2> QED BY <2>2, <2>3 DEF ConsistencyInv, SocketsHeld
<1> QED BY <1>1 DEF NoOrphanParticipant

\* The strengthened invariant holds in every reachable state.
THEOREM Consistent ==
  ASSUME OneRoomPerPid
  PROVE  Spec => []ConsistencyInv
<1>1. Init => ConsistencyInv
  BY InitConsistent
<1>2. ConsistencyInv /\ [Next]_vars => ConsistencyInv'
  BY NextConsistent
<1> QED BY <1>1, <1>2, PTL DEF Spec

\* The two Maps of the hub always index each other.
THEOREM HubAlwaysIndexed ==
  ASSUME OneRoomPerPid
  PROVE  Spec => []HubIndexed
<1>1. ConsistencyInv => HubIndexed
  BY DEF ConsistencyInv
<1> QED BY <1>1, Consistent, PTL

\* Registry and hub always list the same participants, although hello, bye, a
\* late close event and the reaper each update them separately.
THEOREM RosterAlwaysMatchesHub ==
  ASSUME OneRoomPerPid
  PROVE  Spec => []RosterMatchesHub
<1>1. ConsistencyInv => RosterMatchesHub
  BY DEF ConsistencyInv
<1> QED BY <1>1, Consistent, PTL

\* Nobody stays on a roster once the last close event of its sockets has been
\* handled.
THEOREM NobodyOrphaned ==
  ASSUME OneRoomPerPid
  PROVE  Spec => []NoOrphanParticipant
<1>1. ConsistencyInv => NoOrphanParticipant
  BY HeldMeansNoOrphan
<1> QED BY <1>1, Consistent, PTL

---------------------------------------------------------------------------
(* Who is told what.                                                       *)

\* A hub leads to sockets whose context has the session they are registered for.
LeadsHome(h, of) ==
  \A p \in DOMAIN h.connections :
    /\ h.connections[p].sock \in Socks
    /\ of[h.connections[p].sock].sid = h.connections[p].sid

\* The hub does, and so it does with some participants taken off it.
LEMMA HubLeadsHome ==
  ASSUME ConsistencyInv
  PROVE  /\ IsIndexed(hub) /\ LeadsHome(hub, ctx)
         /\ \A pids : IsIndexed(Unregister(hub, pids)) /\ LeadsHome(Unregister(hub, pids), ctx)
<1>1. IsHub(hub) /\ IsIndexed(hub)
  BY DEF ConsistencyInv, TypeOK, StateTypeOK, HubIndexed
<1>2. LeadsHome(hub, ctx)
  BY <1>1 DEF ConsistencyInv, SocketsHeld, LeadsHome, IsHub, IsMap
<1>3. ASSUME NEW pids
      PROVE  IsIndexed(Unregister(hub, pids)) /\ LeadsHome(Unregister(hub, pids), ctx)
  <2> DEFINE h == Unregister(hub, pids)
  <2>1. /\ IsIndexed(h)
        /\ DOMAIN h.connections = DOMAIN hub.connections \ pids
        /\ \A p \in DOMAIN h.connections : h.connections[p] = hub.connections[p]
    BY <1>1, UnregisterIndexed
  <2> HIDE DEF h
  <2>2. LeadsHome(h, ctx)
    BY <1>2, <2>1 DEF LeadsHome
  <2> QED BY <2>1, <2>2 DEF h
<1> QED BY <1>1, <1>2, <1>3

\* A message to a socket is about the session of the socket, if it is about one.
ToOwnRoom(e, of) == "sid" \in DOMAIN e[2] => e[2].sid = of[e[1]].sid

\* What such a hub broadcasts in a session goes to sockets of the session, as
\* what it sends to one participant does.
LEMMA BroadcastStaysHome ==
  ASSUME NEW h, NEW of, IsIndexed(h), LeadsHome(h, of), NEW msg, NEW sid, msg.sid = sid
  PROVE  /\ \A exclude : \A e \in BroadcastToSession(h, sid, msg, exclude) : ToOwnRoom(e, of)
         /\ \A p \in DOMAIN h.connections :
              h.connections[p].sid = sid => \A e \in SendTo(h, p, msg) : ToOwnRoom(e, of)
<1>1. ASSUME NEW p \in DOMAIN h.connections, h.connections[p].sid = sid,
             NEW e \in SendTo(h, p, msg)
      PROVE  ToOwnRoom(e, of)
  <2>1. e = <<h.connections[p].sock, msg>>
    BY DEF SendTo
  <2> QED BY <1>1, <2>1 DEF ToOwnRoom, LeadsHome
<1>2. \A p \in ParticipantsOf(h, sid) : p \in DOMAIN h.connections /\ h.connections[p].sid = sid
  BY DEF IsIndexed, ParticipantsOf
<1>3. ASSUME NEW exclude, NEW e \in BroadcastToSession(h, sid, msg, exclude)
      PROVE  ToOwnRoom(e, of)
  BY <1>1, <1>2 DEF BroadcastToSession
<1> QED BY <1>1, <1>3

\* Replies are not about a session.
LEMMA RepliesNameNoRoom ==
  ASSUME NEW t, NEW sock, NEW of
  PROVE  /\ ToOwnRoom(<<sock, Reply(t)>>, of)
         /\ \A h, p : \A e \in SendTo(h, p, Reply(t)) : ToOwnRoom(e, of)
<1>1. "sid" \notin DOMAIN Reply(t)
  BY DEF Reply
<1> QED BY <1>1 DEF ToOwnRoom, SendTo


\* Every step sends on the sockets of a session what is about the session.
LEMMA StepStaysHome ==
  ASSUME OneRoomPerPid, ConsistencyInv, OwnRoomOnly, [Next]_vars
  PROVE  OwnRoomOnly'
<1>1. ConsistencyInv'
  BY NextConsistent
<1> DEFINE Home == \A e \in out'.sent : ToOwnRoom(e, ctx')
<1> SUFFICES Home
  BY DEF OwnRoomOnly, ToOwnRoom
<1>2. IsIndexed(hub') /\ LeadsHome(hub', ctx')
  <2>1. IsHub(hub') /\ IsIndexed(hub')
    BY <1>1 DEF ConsistencyInv, TypeOK, StateTypeOK, HubIndexed
  <2> QED BY <1>1, <2>1 DEF ConsistencyInv, SocketsHeld, LeadsHome, IsHub, IsMap
<1>3. /\ IsIndexed(hub) /\ LeadsHome(hub, ctx)
      /\ \A pids : IsIndexed(Unregister(hub, pids)) /\ LeadsHome(Unregister(hub, pids), ctx)
  BY HubLeadsHome
<1>4. ASSUME out' = Silent PROVE Home
  BY <1>4 DEF Silent
<1>5. ASSUME NEW sid, NEW pid, NEW records, RemoveFromSession(sid, pid, records)
      PROVE  Home
  <2>1. Leave(sid, pid).sid = sid
    BY DEF Leave
  <2>2. out'.sent = {} \/ out'.sent = BroadcastToSession(hub', sid, Leave(sid, pid), {pid})
    BY <1>5 DEF RemoveFromSession
  <2> QED BY <1>2, <2>1, <2>2, BroadcastStaysHome
<1>6. ASSUME NEW c \in Socks, NEW pid \in Pids, NEW seq, NEW ts, Hello(c, pid, seq, ts)
      PROVE  Home
  <2> DEFINE sid     == ctx[c].sid
             welcome == Welcome(sid, ApplyHello(GetOrCreate(sid), pid, ts))
  <2>1. welcome.sid = sid /\ Join(sid, pid).sid = sid
    BY DEF Welcome, Join
  <2>2. pid \in DOMAIN hub'.connections /\ hub'.connections[pid].sid = sid
    BY <1>6 DEF Hello, Register, Put
  <2>3. out'.sent = SendTo(hub', pid, welcome) \cup
                    (IF InSession(sid, pid) THEN {}
                     ELSE BroadcastToSession(hub', sid, Join(sid, pid), {pid}))
    BY <1>6 DEF Hello, Sends
  <2> HIDE DEF sid, welcome
  <2> QED BY <1>2, <2>1, <2>2, <2>3, BroadcastStaysHome
<1>7. ASSUME NEW c \in Socks, NEW seq, NEW pid, NEW kind,
             RejectFrame(c) \/ Ping(c, pid, seq) \/ Audit(c, pid, seq, kind)
      PROVE  Home
  <2>1. \/ out'.sent = {<<c, Reply("error")>>}
        \/ out'.sent = SendTo(hub, pid, Reply("pong"))
        \/ out'.sent = SendTo(hub, pid, Reply("audit.ack"))
    BY <1>7 DEF RejectFrame, Ping, Audit, Sends
  <2>2. ToOwnRoom(<<c, Reply("error")>>, ctx')
    BY RepliesNameNoRoom
  <2>3. ASSUME NEW t, NEW e \in SendTo(hub, pid, Reply(t))
        PROVE  ToOwnRoom(e, ctx')
    BY RepliesNameNoRoom
  <2> QED BY <2>1, <2>2, <2>3
<1>8. CASE Tick
  <2> DEFINE patch(s) == Patch(s, PatchSeq(s), IF s \in Flushed THEN ToPatch(sessions[s])
                                              ELSE settling[s].patches)
  <2>1. \A s : patch(s).sid = s
    BY DEF Patch
  <2>2. out'.sent = UNION {BroadcastToSession(hub, s, patch(s), {}) :
                             s \in Flushed \cup (Settled \ Expired)}
    BY <1>8 DEF Tick, Sends
  <2>3. ctx' = ctx
    BY <1>8 DEF Tick
  <2> HIDE DEF patch
  <2> QED BY <1>3, <2>1, <2>2, <2>3, BroadcastStaysHome
<1>9. CASE ReaperSweep
  <2>1. PICK turn \in [Reaped -> 1 .. Cardinality(Reaped)] :
          LET gone(n) == {r[2] : r \in {q \in Reaped : turn[q] <= n}} IN
          out' = [sent |-> UNION {BroadcastToSession(Unregister(hub, gone(turn[r])),
                                    r[1], Leave(r[1], r[2]), {r[2]}) : r \in Reaped},
                  recorded |-> {Record(r[1], r[2], "session.end", "inferred") : r \in Reaped}]
    BY <1>9 DEF ReaperSweep
  <2> DEFINE gone(n) == {r[2] : r \in {q \in Reaped : turn[q] <= n}}
  <2>2. ctx' = ctx
    BY <1>9 DEF ReaperSweep
  <2>3. \A r \in Reaped : Leave(r[1], r[2]).sid = r[1]
    BY DEF Leave
  <2>4. out'.sent = UNION {BroadcastToSession(Unregister(hub, gone(turn[r])),
                             r[1], Leave(r[1], r[2]), {r[2]}) : r \in Reaped}
    BY <2>1
  <2> HIDE DEF gone
  <2>5. ASSUME NEW r \in Reaped,
               NEW e \in BroadcastToSession(Unregister(hub, gone(turn[r])),
                                            r[1], Leave(r[1], r[2]), {r[2]})
        PROVE  ToOwnRoom(e, ctx')
    <3> DEFINE h == Unregister(hub, gone(turn[r]))
    <3>1. IsIndexed(h) /\ LeadsHome(h, ctx')
      BY <1>3, <2>2
    <3> HIDE DEF h
    <3> QED BY <2>3, <2>5, <3>1, BroadcastStaysHome DEF h
  <2> QED BY <2>4, <2>5
<1>10. ASSUME NEW c \in Socks, Handle(c)
       PROVE  Home
  <2>1. CASE Disconnect(c)
    BY <1>4, <1>5, <2>1 DEF Disconnect
  <2>2. ASSUME NEW seq, NEW pid, NEW m,
               \/ SocketLost(c) \/ DropStaleFrame(c, seq) \/ Move(c, pid, seq, m[1], m[2])
               \/ Connect(c, pid)
        PROVE  Home
    BY <1>4, <2>2 DEF SocketLost, DropStaleFrame, Move, Connect
  <2>3. ASSUME NEW seq, NEW pid, Bye(c, pid, seq)
        PROVE  Home
    BY <1>5, <2>3 DEF Bye
  <2> QED BY <1>6, <1>7, <1>10, <2>1, <2>2, <2>3 DEF Handle
<1>11. CASE Elapse \/ Restart \/ \E sid \in Sids : CreateByHttp(sid)
  BY <1>4, <1>11 DEF Elapse, Restart, CreateByHttp
<1>12. CASE UNCHANGED vars
  BY <1>12 DEF vars, OwnRoomOnly, ToOwnRoom
<1> QED BY <1>8, <1>9, <1>10, <1>11, <1>12 DEF Next, Timers

\* Nothing about one session ever goes out on a socket of another.
THEOREM NothingLeaksBetweenRooms ==
  ASSUME OneRoomPerPid
  PROVE  Spec => SentToOwnRoom
<1>1. Init => ConsistencyInv /\ OwnRoomOnly
  BY InitConsistent DEF Init, Silent, OwnRoomOnly
<1>2. (ConsistencyInv /\ OwnRoomOnly) /\ [Next]_vars => (ConsistencyInv /\ OwnRoomOnly)'
  BY NextConsistent, StepStaysHome
<1> QED BY <1>1, <1>2, PTL DEF Spec, SentToOwnRoom

\* Whoever leaves the roster of s in a step, and who is still there to be told.
Left(s, p) == InSession(s, p) /\ ~InSession(s, p)'
Told(s, p) ==
  \A q \in DOMAIN hub'.connections :
    hub'.connections[q].sid = s =>
      \/ ready[hub'.connections[q].sock] # "open"
      \/ <<hub'.connections[q].sock, Leave(s, p)>> \in out'.sent

\* An indexed hub broadcasts to everyone registered in the session over an open
\* socket.
LEMMA BroadcastReaches ==
  ASSUME NEW h, IsIndexed(h), NEW sid, NEW msg, NEW exclude,
         NEW q \in DOMAIN h.connections, h.connections[q].sid = sid, q \notin exclude,
         ready[h.connections[q].sock] = "open"
  PROVE  <<h.connections[q].sock, msg>> \in BroadcastToSession(h, sid, msg, exclude)
<1>1. q \in ParticipantsOf(h, sid) \ exclude
  BY DEF IsIndexed
<1>2. <<h.connections[q].sock, msg>> \in SendTo(h, q, msg)
  BY DEF SendTo
<1> QED BY <1>1, <1>2 DEF BroadcastToSession

\* bye and the close event tell the peers, once the hub has forgotten who leaves.
LEMMA RemovalTells ==
  ASSUME ConsistencyInv, NEW sid \in Sids, NEW pid \in Pids, NEW records,
         RemoveFromSession(sid, pid, records), NEW s \in Sids, NEW p \in Pids, Left(s, p)
  PROVE  Told(s, p)
<1>1. s = sid /\ p = pid /\ InSession(sid, pid)
  BY RemovalRosters DEF Left, ConsistencyInv
<1>2. /\ hub' = Unregister(hub, {pid})
      /\ out'.sent = BroadcastToSession(hub', sid, Leave(sid, pid), {pid})
  BY <1>1 DEF RemoveFromSession
<1>3. IsIndexed(hub') /\ pid \notin DOMAIN hub'.connections
  <2>1. IsHub(hub) /\ IsIndexed(hub)
    BY DEF ConsistencyInv, TypeOK, StateTypeOK, HubIndexed
  <2> QED BY <1>2, <2>1, UnregisterIndexed
<1>4. ASSUME NEW q \in DOMAIN hub'.connections, hub'.connections[q].sid = s,
             ready[hub'.connections[q].sock] = "open"
      PROVE  <<hub'.connections[q].sock, Leave(s, p)>> \in out'.sent
  <2>1. q \notin {pid}
    BY <1>3
  <2>2. <<hub'.connections[q].sock, Leave(sid, pid)>>
          \in BroadcastToSession(hub', sid, Leave(sid, pid), {pid})
    BY <1>1, <1>3, <1>4, <2>1, BroadcastReaches
  <2> QED BY <1>1, <1>2, <2>2
<1> QED BY <1>4 DEF Told

\* So does the reaper, though it tells of each of its victims while the later ones
\* are still registered.
LEMMA SweepTells ==
  ASSUME ConsistencyInv, ReaperSweep, NEW s \in Sids, NEW p \in Pids, Left(s, p)
  PROVE  Told(s, p)
<1>1. PICK turn \in [Reaped -> 1 .. Cardinality(Reaped)] :
        LET gone(n) == {r[2] : r \in {q \in Reaped : turn[q] <= n}} IN
        out' = [sent |-> UNION {BroadcastToSession(Unregister(hub, gone(turn[r])),
                                  r[1], Leave(r[1], r[2]), {r[2]}) : r \in Reaped},
                recorded |-> {Record(r[1], r[2], "session.end", "inferred") : r \in Reaped}]
  BY DEF ReaperSweep
<1> DEFINE victims == {r[2] : r \in Reaped}
           gone    == {r[2] : r \in {q \in Reaped : turn[q] <= turn[<<s, p>>]}}
           then    == Unregister(hub, gone)
<1>2. <<s, p>> \in Reaped
  BY SweepRosters DEF Left, ConsistencyInv
<1>3. hub' = Unregister(hub, victims)
  BY DEF ReaperSweep
<1>4. BroadcastToSession(then, s, Leave(s, p), {p}) \subseteq out'.sent
  <2> DEFINE goneBy(n) == {r[2] : r \in {q \in Reaped : turn[q] <= n}}
             told(r) == BroadcastToSession(Unregister(hub, goneBy(turn[r])),
                                           r[1], Leave(r[1], r[2]), {r[2]})
  <2>1. out'.sent = UNION {told(r) : r \in Reaped}
    BY <1>1
  <2>2. told(<<s, p>>) = BroadcastToSession(then, s, Leave(s, p), {p})
    OBVIOUS
  <2> HIDE DEF told
  <2> QED BY <1>2, <2>1, <2>2
<1>5. gone \subseteq victims /\ p \in victims
  BY <1>2
<1>6. IsHub(hub) /\ IsIndexed(hub)
  BY DEF ConsistencyInv, TypeOK, StateTypeOK, HubIndexed
<1> HIDE DEF victims, gone
<1>7. /\ IsIndexed(then)
      /\ DOMAIN then.connections = DOMAIN hub.connections \ gone
      /\ \A q \in DOMAIN then.connections : then.connections[q] = hub.connections[q]
  BY <1>6, UnregisterIndexed
<1>8. /\ DOMAIN hub'.connections = DOMAIN hub.connections \ victims
      /\ \A q \in DOMAIN hub'.connections : hub'.connections[q] = hub.connections[q]
  BY <1>3, <1>6, UnregisterIndexed
<1> HIDE DEF then
<1>9. ASSUME NEW q \in DOMAIN hub'.connections, hub'.connections[q].sid = s,
             ready[hub'.connections[q].sock] = "open"
      PROVE  <<hub'.connections[q].sock, Leave(s, p)>> \in out'.sent
  <2>1. /\ q \in DOMAIN then.connections /\ q # p
        /\ then.connections[q] = hub'.connections[q]
    BY <1>5, <1>7, <1>8
  <2>2. <<then.connections[q].sock, Leave(s, p)>> \in BroadcastToSession(then, s, Leave(s, p), {p})
    BY <1>7, <1>9, <2>1, BroadcastReaches
  <2> QED BY <1>4, <2>1, <2>2
<1> QED BY <1>9 DEF Told

\* No other step takes anyone off a roster, but for a restart, which leaves nobody to
\* be told.
LEMMA LeavingIsTold ==
  ASSUME ConsistencyInv, [Next]_vars, NEW s \in Sids, NEW p \in Pids, Left(s, p)
  PROVE  Told(s, p)
<1>1. TypeOK
  BY DEF ConsistencyInv
<1>2. ASSUME NEW c \in Socks, Handle(c)
      PROVE  Told(s, p)
  <2>1. CASE Disconnect(c)
    <3>1. CASE WasEstablished(c)
      <4>1. ctx[c].sid \in Sids /\ ctx[c].pid \in Pids
        BY <1>1, <3>1, CtxType DEF TypeOK, WasEstablished
      <4>2. PICK records : RemoveFromSession(ctx[c].sid, ctx[c].pid, records)
        BY <2>1, <3>1 DEF Disconnect
      <4> QED BY <4>1, <4>2, RemovalTells
    <3>2. CASE ~WasEstablished(c)
      BY <2>1, <3>2 DEF Disconnect, Left, InSession
    <3> QED BY <3>1, <3>2
  <2>2. ASSUME NEW seq, NEW pid \in Pids, Bye(c, pid, seq)
        PROVE  Told(s, p)
    <3>1. ctx[c].sid \in Sids
      BY <1>1, CtxType DEF TypeOK
    <3> QED BY <2>2, <3>1, RemovalTells DEF Bye
  <2>3. ASSUME NEW seq, NEW pid, NEW kind,
               \/ SocketLost(c) \/ RejectFrame(c) \/ DropStaleFrame(c, seq) \/ Ping(c, pid, seq)
               \/ Audit(c, pid, seq, kind) \/ Connect(c, pid)
        PROVE  FALSE
    BY <2>3 DEF Left, InSession, SocketLost, RejectFrame, DropStaleFrame, Ping, Audit, Connect
  <2>4. ASSUME NEW seq \in Seqs, NEW pid \in Pids, NEW d \in Skews, Hello(c, pid, seq, now + d)
        PROVE  FALSE
    <3>1. seq \in Int /\ now + d \in Int
      BY <1>1, ServerAssumption DEF Seqs, TypeOK, StateTypeOK
    <3> QED BY <1>1, <2>4, <3>1, HelloRosters DEF Left
  <2>5. ASSUME NEW seq \in Seqs, NEW pid \in Pids, NEW m \in Moves,
               Move(c, pid, seq, m[1], m[2])
        PROVE  FALSE
    <3>1. seq \in Int /\ m[1] \in Fields /\ m[2] \in Points
      BY ServerAssumption DEF Seqs
    <3> QED BY <1>1, <2>5, <3>1, MoveRosters DEF Left
  <2> QED BY <1>2, <2>1, <2>2, <2>3, <2>4, <2>5 DEF Handle
<1>3. CASE Timers
  <2>1. CASE Tick
    BY <1>1, <2>1, TickRosters DEF Left
  <2>2. CASE Elapse
    BY <2>2 DEF Elapse, Left, InSession
  <2> QED BY <1>3, <2>1, <2>2, SweepTells DEF Timers
<1>4. CASE \E sid \in Sids : CreateByHttp(sid)
  BY <1>1, <1>4, CreateByHttpRosters DEF Left
<1>5. CASE Restart
  BY <1>5 DEF Restart, EmptyHub, NoEntries, Told
<1>6. CASE UNCHANGED vars
  BY <1>6 DEF vars, Left, InSession
<1> QED BY <1>2, <1>3, <1>4, <1>5, <1>6 DEF Next

\* Nobody leaves a roster unnoticed, by bye, a late close event or the reaper:
\* everyone else who is there over an open socket is told in that very step.
THEOREM LeavesReachPeers ==
  ASSUME OneRoomPerPid
  PROVE  Spec => LeaveReachesPeers
<1> DEFINE Told1 == \A s \in DOMAIN sessions : \A p \in Roster(sessions[s]) :
             LET left  == ~(s \in DOMAIN sessions' /\ p \in Roster(sessions'[s]))
                 peers == {q \in DOMAIN hub'.connections : hub'.connections[q].sid = s}
             IN  left =>
                   \A q \in peers :
                     \/ ready[hub'.connections[q].sock] # "open"
                     \/ <<hub'.connections[q].sock, Leave(s, p)>> \in out'.sent
<1>1. ConsistencyInv /\ [Next]_vars => [Told1]_vars
  <2> SUFFICES ASSUME ConsistencyInv, [Next]_vars,
                      NEW s \in DOMAIN sessions, NEW p \in Roster(sessions[s]),
                      ~(s \in DOMAIN sessions' /\ p \in Roster(sessions'[s]))
               PROVE  Told(s, p)
    BY DEF Told
  <2>1. s \in Sids /\ p \in Pids
    BY DEF ConsistencyInv, TypeOK, StateTypeOK, IsSession, IsTable, Roster
  <2>2. Left(s, p)
    BY DEF Left, InSession
  <2> QED BY <2>1, <2>2, LeavingIsTold
<1> QED BY <1>1, Consistent, PTL DEF Spec, LeaveReachesPeers
============================
