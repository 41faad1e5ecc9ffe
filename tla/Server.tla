---- MODULE Server ----
(***************************************************************************)
(* The realtime server: the session registry, the broadcast hub, one       *)
(* connection context per WebSocket, the frame router with its             *)
(* controllers, the tick scheduler and the reaper.                         *)
(*                                                                         *)
(* JavaScript runs each handler and each timer callback to completion, so  *)
(* one handler is one action.  What interleaves is the ORDER of the        *)
(* callbacks: frames of several sockets of one participant, late close     *)
(* events, timers, HTTP calls.                                             *)
(*                                                                         *)
(* Out of the model: metrics, logging, and the number of gaps a sequence   *)
(* guard has seen (SequenceGuard.tla), which no handler reads.  The audit  *)
(* log is AuditLog.tla; here "out" shows each record handed to it.         *)
(***************************************************************************)
EXTENDS Session, FiniteSets

CONSTANTS
  Sids,                   \* session ids
  Socks,                  \* WebSocket connections, each used at most once
  NoPid,                  \* ctx.pid before the handshake
  Rooms,                  \* the <<pid, sid>> pairs clients may use
  Moves,                  \* the <<field, point>> pairs clients may send
  Skews,                  \* client clock minus server clock
  PARTICIPANT_TTL_MS,     \* in units of the model's clock
  PATCH_SETTLE_WINDOW_MS,
  MaxSeq, MaxTick, MaxTime \* bounds of the model, not of the program

ASSUME ServerAssumption ==
  /\ NoPid \notin Pids
  /\ Sids # {}
  /\ Rooms \subseteq Pids \X Sids
  /\ Moves \subseteq Fields \X Points
  /\ Skews \subseteq Int
  /\ PARTICIPANT_TTL_MS \in Nat
  /\ PATCH_SETTLE_WINDOW_MS \in Nat

VARIABLES
  sessions,  \* SessionRegistry.#sessions: Map of sid to Session
  hub,       \* BroadcastHub: #connections and #bySession
  ctx,       \* ConnectionContext of each socket
  ready,     \* each socket: "new", "open", "closing", "closed"
  tickSeq,   \* TickScheduler.#seq
  settling,  \* TickScheduler.#settling: Map of sid to SettleEntry
  now,       \* Clock.now()
  out        \* what the last step sent and handed to the audit log

vars == <<sessions, hub, ctx, ready, tickSeq, settling, now, out>>

Times == 0 .. MaxTime
Seqs == 0 .. MaxSeq
NoSeq == -1   \* SequenceGuard.lastSeen() before the first frame

---------------------------------------------------------------------------
(* Messages the hub sends, and audit records, as they appear in "out".     *)

Welcome(sid, session) ==
  [t |-> "welcome", sid |-> sid, roster |-> ToSnapshot(session)]
Join(sid, pid)  == [t |-> "join", sid |-> sid, pid |-> pid]
Leave(sid, pid) == [t |-> "leave", sid |-> sid, pid |-> pid]
Patch(sid, seq, patches) ==
  [t |-> "patch", sid |-> sid, seq |-> seq, patches |-> patches]
Reply(t) == [t |-> t]   \* pong, audit.ack and error: nothing of them is read

Silent == [sent |-> {}, recorded |-> {}]
Sends(envelopes) == [sent |-> envelopes, recorded |-> {}]
Record(sid, pid, kind, source) ==
  [sid |-> sid, pid |-> pid, kind |-> kind, source |-> source]

---------------------------------------------------------------------------
(* BroadcastHub.                                                           *)

EmptyHub == [connections |-> NoEntries, bySession |-> NoEntries]

\* Slip: the hub does not tell sessions apart.
EveryParticipant(h, sid) == DOMAIN h.connections

ParticipantsOf(h, sid) ==
  IF sid \in DOMAIN h.bySession THEN h.bySession[sid] ELSE {}

\* Slip: a new index set at every registration.
RegisterAlone(h, pid, sid, sock) ==
  [connections |-> Put(h.connections, pid, [sid |-> sid, sock |-> sock]),
   bySession   |-> Put(h.bySession, sid, {pid})]

Register(h, pid, sid, sock) ==
  [connections |-> Put(h.connections, pid, [sid |-> sid, sock |-> sock]),
   bySession   |-> Put(h.bySession, sid, ParticipantsOf(h, sid) \cup {pid})]

\* unregister for each pid of a set: each leaves the index of the session it
\* was last registered under; an index left empty is deleted.
PeersLeft(h, pids, sid) ==
  h.bySession[sid] \ {p \in pids \cap DOMAIN h.connections :
                        h.connections[p].sid = sid}

\* Slip: the index keeps who left.
UnregisterConnection(h, pids) == [h EXCEPT !.connections = Drop(@, pids)]

Unregister(h, pids) ==
  [connections |-> Drop(h.connections, pids),
   bySession   |-> [s \in {t \in DOMAIN h.bySession : PeersLeft(h, pids, t) # {}}
                      |-> PeersLeft(h, pids, s)]]

\* sendTo: nothing leaves for an unknown pid or a socket no longer OPEN.
SendTo(h, pid, msg) ==
  IF pid \in DOMAIN h.connections /\ ready[h.connections[pid].sock] = "open"
  THEN {<<h.connections[pid].sock, msg>>}
  ELSE {}

\* Slip: the test on the excluded one inverted.
BroadcastToExcluded(h, sid, msg, exclude) ==
  UNION {SendTo(h, p, msg) : p \in ParticipantsOf(h, sid) \cap exclude}

BroadcastToSession(h, sid, msg, exclude) ==
  UNION {SendTo(h, p, msg) : p \in ParticipantsOf(h, sid) \ exclude}

---------------------------------------------------------------------------
(* SessionRegistry.                                                        *)

GetOrCreate(sid) ==
  IF sid \in DOMAIN sessions THEN sessions[sid] ELSE CreateSession

InSession(sid, pid) == sid \in DOMAIN sessions /\ pid \in Roster(sessions[sid])

Init ==
  /\ sessions = NoEntries
  /\ hub = EmptyHub
  /\ ctx = [c \in Socks |-> [sid |-> CHOOSE s \in Sids : TRUE, pid |-> NoPid,
                             leftExplicitly |-> FALSE, lastSeen |-> NoSeq]]
  /\ ready = [c \in Socks |-> "new"]
  /\ tickSeq = 0
  /\ settling = NoEntries
  /\ now = 0
  /\ out = Silent

---------------------------------------------------------------------------
(* Connections.                                                            *)

\* A WebSocket opens on ?sid=; nothing is registered until hello.
Connect(c, sid) ==
  /\ ready[c] = "new"
  /\ ready' = [ready EXCEPT ![c] = "open"]
  /\ ctx' = [ctx EXCEPT ![c].sid = sid]
  /\ out' = Silent
  /\ UNCHANGED <<sessions, hub, tickSeq, settling, now>>

\* The transport is gone (client close, network, heartbeat terminate): the
\* socket is no longer OPEN but its close event has not been handled yet.
SocketLost(c) ==
  /\ ready[c] = "open"
  /\ ready' = [ready EXCEPT ![c] = "closing"]
  /\ out' = Silent
  /\ UNCHANGED <<sessions, hub, ctx, tickSeq, settling, now>>

\* The router's checks on a frame of pid: established identity, fresh seq.
Accepts(c, pid, seq) ==
  /\ ready[c] = "open"
  /\ ctx[c].pid = pid
  /\ seq > ctx[c].lastSeen

Accept(c, seq) == ctx' = [ctx EXCEPT ![c].lastSeen = seq]

\* A malformed frame, a first frame that is not hello, a foreign pid: answered
\* with an error frame on the same socket, before the sequence guard.
RejectFrame(c) ==
  /\ ready[c] = "open"
  /\ out' = Sends({<<c, Reply("error")>>})
  /\ UNCHANGED <<sessions, hub, ctx, ready, tickSeq, settling, now>>

\* A duplicate or late frame: dropped without an answer.
DropStaleFrame(c, seq) ==
  /\ ready[c] = "open"
  /\ ctx[c].pid # NoPid
  /\ seq <= ctx[c].lastSeen
  /\ out' = Silent
  /\ UNCHANGED <<sessions, hub, ctx, ready, tickSeq, settling, now>>

Hello(c, pid, seq, ts) ==
  LET sid   == ctx[c].sid
      next  == ApplyHello(GetOrCreate(sid), pid, ts)
      hubN  == Register(hub, pid, sid, c)
      joins == IF InSession(sid, pid) THEN {}
               ELSE BroadcastToSession(hubN, sid, Join(sid, pid), {pid})
  IN  /\ Accepts(c, ctx[c].pid, seq)
      /\ ctx[c].pid \in {NoPid, pid}
      /\ sessions' = Put(sessions, sid, next)
      /\ hub' = hubN
      /\ ctx' = [ctx EXCEPT ![c].pid = pid, ![c].lastSeen = seq]
      /\ out' = Sends(SendTo(hubN, pid, Welcome(sid, next)) \cup joins)
      /\ UNCHANGED <<ready, tickSeq, settling, now>>

\* cursor and scroll: folded into the session, nothing is sent.
Move(c, pid, seq, f, point) ==
  LET sid == ctx[c].sid IN
  /\ Accepts(c, pid, seq)
  /\ Accept(c, seq)
  /\ sessions' = IF sid \in DOMAIN sessions
                 THEN [sessions EXCEPT ![sid] = ApplyPresence(@, pid, f, point, seq)]
                 ELSE sessions
  /\ out' = Silent
  /\ UNCHANGED <<hub, ready, tickSeq, settling, now>>

Ping(c, pid, seq) ==
  /\ Accepts(c, pid, seq)
  /\ Accept(c, seq)
  /\ out' = Sends(SendTo(hub, pid, Reply("pong")))
  /\ UNCHANGED <<sessions, hub, ready, tickSeq, settling, now>>

\* A lifecycle event over the socket: recorded, then acknowledged, to the
\* socket the pid is registered on (whichever it is).
Audit(c, pid, seq, kind) ==
  /\ Accepts(c, pid, seq)
  /\ Accept(c, seq)
  /\ out' = [sent |-> SendTo(hub, pid, Reply("audit.ack")),
             recorded |-> {Record(ctx[c].sid, pid, kind, "client")}]
  /\ UNCHANGED <<sessions, hub, ready, tickSeq, settling, now>>

\* Slip: the registry is not told, as if the new session had not been saved.
RemoveUnsaved(sid, pid, records) ==
  LET hubN == Unregister(hub, {pid}) IN
  /\ hub' = hubN
  /\ sessions' = sessions
  /\ out' = [sent |-> IF InSession(sid, pid)
                      THEN BroadcastToSession(hubN, sid, Leave(sid, pid), {pid})
                      ELSE {},
             recorded |-> records]

\* removeFromSession, of bye and of the close event: the hub forgets the pid
\* in any case; the roster and the peers only hear of it if it was there.
RemoveFromSession(sid, pid, records) ==
  LET hubN == Unregister(hub, {pid}) IN
  /\ hub' = hubN
  /\ sessions' = IF InSession(sid, pid)
                 THEN [sessions EXCEPT ![sid] = RemoveParticipants(@, {pid})]
                 ELSE sessions
  /\ out' = [sent |-> IF InSession(sid, pid)
                      THEN BroadcastToSession(hubN, sid, Leave(sid, pid), {pid})
                      ELSE {},
             recorded |-> records]

Bye(c, pid, seq) ==
  /\ Accepts(c, pid, seq)
  /\ ctx' = [ctx EXCEPT ![c].leftExplicitly = TRUE, ![c].lastSeen = seq]
  /\ RemoveFromSession(ctx[c].sid, pid, {})
  /\ UNCHANGED <<ready, tickSeq, settling, now>>

\* Slip: a close is always undone, hello or no hello.
AnyClose(c) == TRUE

\* The handshake completed, so there is something to undo.
WasEstablished(c) == ctx[c].pid # NoPid

\* The close event of a socket, however long after the socket was lost.
Disconnect(c) ==
  LET sid == ctx[c].sid
      pid == ctx[c].pid
  IN  /\ ready[c] = "closing"
      /\ ready' = [ready EXCEPT ![c] = "closed"]
      /\ IF WasEstablished(c)
         THEN RemoveFromSession(sid, pid,
                IF ctx[c].leftExplicitly THEN {}
                ELSE {Record(sid, pid, "session.end", "socket")})
         ELSE /\ out' = Silent
              /\ UNCHANGED <<sessions, hub>>
      /\ UNCHANGED <<ctx, tickSeq, settling, now>>

\* POST /api/sessions and /demo create an empty session ahead of any hello.
CreateByHttp(sid) ==
  /\ sessions' = Put(sessions, sid, GetOrCreate(sid))
  /\ out' = Silent
  /\ UNCHANGED <<hub, ctx, ready, tickSeq, settling, now>>

---------------------------------------------------------------------------
(* Timers.                                                                 *)

Flushed == {s \in DOMAIN sessions : DOMAIN ToPatch(sessions[s]) # {}}
Settled == (DOMAIN sessions \cap DOMAIN settling) \ Flushed
Expired == {s \in Settled : now >= settling[s].settleUntil}

\* Slip: a window that is open stays as it is.
FirstSettling ==
  [s \in (DOMAIN settling \ Expired) \cup Flushed |->
     IF s \in DOMAIN settling
     THEN settling[s]
     ELSE [patches |-> ToPatch(sessions[s]),
           settleUntil |-> now + PATCH_SETTLE_WINDOW_MS]]

\* A flush opens a settle window of its own and replaces the previous one.
NextSettling ==
  [s \in (DOMAIN settling \ Expired) \cup Flushed |->
     IF s \in Flushed
     THEN [patches |-> ToPatch(sessions[s]),
           settleUntil |-> now + PATCH_SETTLE_WINDOW_MS]
     ELSE settling[s]]

\* Slip: a repeat keeps an old number.
OldSeqOnResend(s) == IF s \in Flushed THEN tickSeq + 1 ELSE tickSeq

\* A repeat is numbered like a flush: with this tick.
PatchSeq(s) == tickSeq + 1

\* One tick over every session: send what is dirty; where nothing is, repeat
\* the last flush while its settle window lasts.
Tick ==
  LET emitted(s) == IF s \in Flushed THEN ToPatch(sessions[s])
                    ELSE settling[s].patches
  IN  /\ tickSeq < MaxTick
      /\ tickSeq' = tickSeq + 1
      /\ sessions' = [s \in DOMAIN sessions |->
                        IF s \in Flushed THEN ClearDirty(sessions[s])
                        ELSE sessions[s]]
      /\ settling' = NextSettling
      /\ out' = Sends(UNION {BroadcastToSession(hub, s,
                                Patch(s, PatchSeq(s), emitted(s)), {}) :
                             s \in Flushed \cup (Settled \ Expired)})
      /\ UNCHANGED <<hub, ctx, ready, now>>

Stale(sid, pid) ==
  now - sessions[sid].participants[pid].lastSeenAt > PARTICIPANT_TTL_MS

StaleIn(sid) == {p \in Roster(sessions[sid]) : Stale(sid, p)}

Reaped == {r \in Sids \X Pids : InSession(r[1], r[2]) /\ Stale(r[1], r[2])}

\* reapStale, then for each reaped participant in turn: unregister, record an
\* inferred end, broadcast leave to whoever is still registered at that point.
\* "turn" is the iteration order of the two Maps, left open.
ReaperSweep ==
  \E turn \in [Reaped -> 1 .. Cardinality(Reaped)] :
    LET gone(n) == {r[2] : r \in {q \in Reaped : turn[q] <= n}} IN
    /\ Reaped # {}
    /\ IsInjective(turn)
    /\ sessions' = [s \in {t \in DOMAIN sessions :
                             \/ StaleIn(t) = {}
                             \/ StaleIn(t) # Roster(sessions[t])}
                      |-> RemoveParticipants(sessions[s], StaleIn(s))]
    /\ hub' = Unregister(hub, {r[2] : r \in Reaped})
    /\ out' = [sent |-> UNION {BroadcastToSession(Unregister(hub, gone(turn[r])),
                                 r[1], Leave(r[1], r[2]), {r[2]}) : r \in Reaped},
               recorded |-> {Record(r[1], r[2], "session.end", "inferred") :
                               r \in Reaped}]
    /\ UNCHANGED <<ctx, ready, tickSeq, settling, now>>

\* The process dies and a new one starts: all of this state is in memory.
Restart ==
  /\ sessions' = NoEntries
  /\ hub' = EmptyHub
  /\ ready' = [c \in Socks |-> IF ready[c] = "new" THEN "new" ELSE "closed"]
  /\ tickSeq' = 0
  /\ settling' = NoEntries
  /\ out' = Silent
  /\ UNCHANGED <<ctx, now>>

Elapse ==
  /\ now < MaxTime
  /\ now' = now + 1
  /\ out' = Silent
  /\ UNCHANGED <<sessions, hub, ctx, ready, tickSeq, settling>>

---------------------------------------------------------------------------
Handle(c) ==
  \/ \E sid \in Sids : Connect(c, sid)
  \/ SocketLost(c)
  \/ RejectFrame(c)
  \/ Disconnect(c)
  \/ \E seq \in Seqs :
       \/ DropStaleFrame(c, seq)
       \/ \E pid \in Pids :
            \/ \E d \in Skews : /\ <<pid, ctx[c].sid>> \in Rooms
                                /\ Hello(c, pid, seq, now + d)
            \/ \E m \in Moves : Move(c, pid, seq, m[1], m[2])
            \/ Ping(c, pid, seq)
            \/ \E kind \in {"session.start", "session.end"} : Audit(c, pid, seq, kind)
            \/ Bye(c, pid, seq)

Timers == Tick \/ ReaperSweep \/ Elapse

Next ==
  \/ \E c \in Socks : Handle(c)
  \/ \E sid \in Sids : CreateByHttp(sid)
  \/ Timers
  \/ Restart

Spec == Init /\ [][Next]_vars

---------------------------------------------------------------------------
(* Properties.                                                             *)

Ctx == [sid : Sids, pid : Pids \cup {NoPid}, leftExplicitly : BOOLEAN,
        lastSeen : Int]
IsSettleEntry(x) ==
  /\ x = [patches |-> x.patches, settleUntil |-> x.settleUntil]
  /\ IsView(x.patches)
  /\ x.settleUntil \in Int
Kinds == {"session.start", "session.end"}
AuditRecord == [sid : Sids, pid : Pids, kind : Kinds,
                source : {"client", "socket", "inferred"}]
IsMessage(m) ==
  \/ m \in [t : {"pong", "audit.ack", "error"}]
  \/ m \in [t : {"join", "leave"}, sid : Sids, pid : Pids]
  \/ /\ m.t = "welcome"
     /\ m \in [t : {"welcome"}, sid : Sids, roster : {m.roster}]
     /\ IsView(m.roster)
  \/ /\ m.t = "patch"
     /\ m \in [t : {"patch"}, sid : Sids, seq : Nat, patches : {m.patches}]
     /\ IsView(m.patches)

IsHub(h) ==
  /\ h = [connections |-> h.connections, bySession |-> h.bySession]
  /\ IsMap(h.connections, Pids, [sid : Sids, sock : Socks])
  /\ IsMap(h.bySession, Sids, SUBSET Pids)

StateTypeOK ==
  /\ IsTable(sessions, Sids)
  /\ \A s \in DOMAIN sessions : IsSession(sessions[s])
  /\ IsHub(hub)
  /\ ctx \in [Socks -> Ctx]
  /\ ready \in [Socks -> {"new", "open", "closing", "closed"}]
  /\ tickSeq \in Nat
  /\ IsTable(settling, Sids)
  /\ \A s \in DOMAIN settling : IsSettleEntry(settling[s])
  /\ now \in Nat

IsEnvelope(e) == e = <<e[1], e[2]>> /\ e[1] \in Socks /\ IsMessage(e[2])

IsOutput(o) ==
  /\ o = [sent |-> o.sent, recorded |-> o.recorded]
  /\ \A e \in o.sent : IsEnvelope(e)
  /\ o.recorded \subseteq AuditRecord

\* Every variable has the shape the code gives it, and so has what is sent and
\* recorded.
TypeOK == StateTypeOK /\ IsOutput(out)

\* Every pid in use belongs to one session, as it does when the client makes
\* its own id (client index.ts: crypto.randomUUID()).
OneRoomPerPid ==
  \A p \in Pids : \A s, t \in Sids : <<p, s>> \in Rooms /\ <<p, t>> \in Rooms => s = t

\* No dirty flag is orphaned in any session of the registry, so toPatch never
\* skips one and Tick never clears a flag whose value it did not send.
DirtyFlagsFlushable == \A s \in DOMAIN sessions : DirtyIsFlushable(sessions[s])

IsIndexed(h) ==
  /\ \A p \in DOMAIN h.connections : p \in ParticipantsOf(h, h.connections[p].sid)
  /\ \A s \in DOMAIN h.bySession :
       /\ h.bySession[s] # {}
       /\ \A p \in h.bySession[s] : /\ p \in DOMAIN h.connections
                                    /\ h.connections[p].sid = s

\* The two Maps of the hub index each other: a registration appears under its
\* session, and an index entry is never empty nor without its registration.
HubIndexed == IsIndexed(hub)

\* The registry and the hub are updated separately by hello, bye, close and the
\* reaper, yet always list the same participants for every session.
RosterMatchesHub ==
  \A s \in Sids : ParticipantsOf(hub, s) = {p \in Pids : InSession(s, p)}

\* Every participant of a roster still has a socket of its own in that session
\* whose close event has not been handled: handling the last close always
\* removes the participant (FAILURE-MODES, half-open connection: no ghost).
NoOrphanParticipant ==
  \A s \in DOMAIN sessions : \A p \in Roster(sessions[s]) :
    \E c \in Socks : /\ ready[c] \in {"open", "closing"}
                     /\ ctx[c].sid = s
                     /\ ctx[c].pid = p

\* What the settle window repeats is current: with no newer value waiting to be
\* flushed, it equals the stored one.  A repeat carries a fresh seq, so no
\* client could tell a stale one from news.
SettleIsCurrent ==
  \A s \in DOMAIN settling \cap DOMAIN sessions :
    \A p \in DOMAIN settling[s].patches \cap Roster(sessions[s]) :
      LET presence == sessions[s].participants[p].presence IN
      \A f \in (DOMAIN settling[s].patches[p] \cap DOMAIN presence)
                 \ DirtyFieldsOf(sessions[s], p) :
        settling[s].patches[p][f] = presence[f].value

\* A participant's field is only ever overwritten by a strictly newer seq, on
\* whichever of its sockets that arrives, as long as it stays on the roster.
LastWriterWins ==
  [][\A s \in DOMAIN sessions \cap DOMAIN sessions' :
       \A p \in Roster(sessions[s]) \cap Roster(sessions'[s]) :
         LET old == sessions[s].participants[p].presence
             new == sessions'[s].participants[p].presence
         IN  \A f \in DOMAIN old :
               f \in DOMAIN new /\ (new[f] = old[f] \/ new[f].seq > old[f].seq)]_vars

\* Whenever a participant leaves a roster and the server lives on, everyone
\* still registered there over an open socket is sent its leave in that step.
LeaveReachesPeers ==
  [][\A s \in DOMAIN sessions : \A p \in Roster(sessions[s]) :
       LET left  == ~(s \in DOMAIN sessions' /\ p \in Roster(sessions'[s]))
           peers == {q \in DOMAIN hub'.connections : hub'.connections[q].sid = s}
       IN  left =>
             \A q \in peers :
               \/ ready[hub'.connections[q].sock] # "open"
               \/ <<hub'.connections[q].sock, Leave(s, p)>> \in out'.sent]_vars

OwnRoomOnly ==
  \A e \in out.sent : "sid" \in DOMAIN e[2] => e[2].sid = ctx[e[1]].sid

\* BroadcastHub.ts, #bySession: what a step sends on the sockets of a session is
\* about that session.
SentToOwnRoom == [][OwnRoomOnly']_vars
============================
