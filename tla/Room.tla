---- MODULE Room ----
(***************************************************************************)
(* The server composed with its network and with one browser page that     *)
(* renders what the server sends it: the page's sockets, one after         *)
(* another, and its "remotes" Map (packages/client/src/index.ts).  Pages   *)
(* act on each other through the server only, so watching one page among   *)
(* any number of participants is no restriction.                           *)
(*                                                                         *)
(* The network is TCP: what the server sent on a socket arrives in order   *)
(* and at most once; what is still in flight when the page moves on to its *)
(* next socket is lost.                                                    *)
(***************************************************************************)
EXTENDS Server, Sequences, SequencesExt

CONSTANTS
  Viewer,            \* the participant whose page is watched
  SocketsOf,         \* [Pids -> Seq(Socks)]: the sockets a page opens, in order
  CURSOR_REMOVE_MS,  \* in units of the model's clock
  MovesOf,           \* [Pids -> SUBSET Moves]: what the user of each page does
  LastSeqOf,         \* [Pids -> Nat]: bound on each page's seq counter
  MaxWire            \* bound on messages in flight to the page

ASSUME RoomAssumption ==
  /\ Viewer \in Pids
  /\ IsFiniteSet(Pids)
  /\ 0 \in Skews
  /\ SocketsOf \in [Pids -> Seq(Socks)]
  /\ \A p \in Pids : IsInjective(SocketsOf[p])
  /\ \A p, q \in Pids : p # q => Range(SocketsOf[p]) \cap Range(SocketsOf[q]) = {}
  /\ CURSOR_REMOVE_MS \in Nat
  /\ MaxSeq \in Nat
  /\ MovesOf \in [Pids -> SUBSET Moves]
  /\ LastSeqOf \in [Pids -> Seqs]
  /\ MaxWire \in Nat

VARIABLES
  wire,         \* sent to the page's current socket and not yet received
  remotes,      \* Map of pid to what the page renders of it
  lastPatchSeq  \* highest patch seq applied in this page's lifetime

roomVars == <<vars, wire, remotes, lastPatchSeq>>

RoomInit ==
  /\ Init
  /\ wire = <<>>
  /\ remotes = NoEntries
  /\ lastPatchSeq = NoSeq   \* -Infinity: tick seqs start at 1

\* The socket a page uses: the last one it opened.
Opened(p) == {i \in DOMAIN SocketsOf[p] : ready[SocketsOf[p][i]] # "new"}
HasSocket(p) == Opened(p) # {}
Current(p) == SocketsOf[p][Cardinality(Opened(p))]

---------------------------------------------------------------------------
(* The page.                                                               *)

\* upsertRemote and applyPatch: new values over old ones, heard of just now.
Upserted(q, values) ==
  LET old == IF q \in DOMAIN remotes THEN remotes[q].values ELSE NoEntries IN
  [values |-> [f \in DOMAIN old \cup DOMAIN values |->
                 IF f \in DOMAIN values THEN values[f] ELSE old[f]],
   lastSeenAt |-> now]

\* Slip: the page draws itself too.
UpsertEveryone(kept, view) ==
  [q \in kept \cup DOMAIN view |->
     IF q \in DOMAIN view THEN Upserted(q, view[q]) ELSE remotes[q]]

\* Every participant of a view is upserted, the page's own excepted.
UpsertAll(kept, view) ==
  [q \in kept \cup (DOMAIN view \ {Viewer}) |->
     IF q \in DOMAIN view THEN Upserted(q, view[q]) ELSE remotes[q]]

\* Slip: whoever is drawn already is left as is.
SeedNewcomers(roster) ==
  [q \in DOMAIN roster \ {Viewer} |->
     IF q \in DOMAIN remotes THEN remotes[q] ELSE Upserted(q, roster[q])]

\* seedRoster: forget who is not listed, upsert who is.
SeedRoster(roster) == UpsertAll(DOMAIN remotes \cap DOMAIN roster, roster)

IsNews(msg) == msg.seq > lastPatchSeq

\* routeMessage.  A patch not newer than the last one applied is ignored.
Rendered(msg) ==
  CASE msg.t = "welcome" -> SeedRoster(msg.roster)
    [] msg.t = "join"    -> UpsertAll(DOMAIN remotes, [q \in {msg.pid} |-> NoEntries])
    [] msg.t = "leave"   -> Drop(remotes, {msg.pid})
    [] msg.t = "patch"   -> IF IsNews(msg)
                            THEN UpsertAll(DOMAIN remotes, msg.patches)
                            ELSE remotes

Receive ==
  LET msg == Head(wire) IN
  /\ wire # <<>>
  /\ wire' = Tail(wire)
  /\ remotes' = Rendered(msg)
  /\ lastPatchSeq' = IF msg.t = "patch" /\ IsNews(msg) THEN msg.seq ELSE lastPatchSeq
  /\ UNCHANGED vars

\* renderFrame and the stale sweep: silence removes a remote participant.
Expire(q) ==
  /\ q \in DOMAIN remotes
  /\ now - remotes[q].lastSeenAt >= CURSOR_REMOVE_MS
  /\ remotes' = Drop(remotes, {q})
  /\ UNCHANGED <<vars, wire, lastPatchSeq>>

---------------------------------------------------------------------------
(* The server's steps, with what they send to the page put on the wire.  A *)
(* step sends one socket at most one message, except for the leaves of one *)
(* sweep, in the order of the registry's Maps, which is left open.         *)

ToPage == {e[2] : e \in {d \in out'.sent : HasSocket(Viewer) /\ d[1] = Current(Viewer)}}

Transmit ==
  /\ \E burst \in SetToSeqs(ToPage) : wire' = wire \o burst
  /\ Len(wire') <= MaxWire
  /\ UNCHANGED <<remotes, lastPatchSeq>>

\* A page opens its next socket; what its previous one still held is lost.
PageConnects(p, sid) ==
  \E i \in DOMAIN SocketsOf[p] :
    /\ i = Cardinality(Opened(p)) + 1
    /\ <<p, sid>> \in Rooms
    /\ Connect(SocketsOf[p][i], sid)
    /\ wire' = IF p = Viewer THEN <<>> ELSE wire
    /\ UNCHANGED <<remotes, lastPatchSeq>>

\* wire.ts nextSeq: one counter for the page's lifetime, across its sockets.
NextSeq(p) == 1 + Max({ctx[c].lastSeen : c \in Range(SocketsOf[p])})

\* The server handles the page's next frame.  Frames that a lost socket
\* delivers late are Server's subject; here a page's frames arrive in order.
PageSends(p) ==
  LET c == Current(p) IN
  /\ HasSocket(p)
  /\ \E seq \in 0 .. LastSeqOf[p] :
       /\ seq = NextSeq(p)
       /\ \/ Hello(c, p, seq, now)
          \/ \E m \in MovesOf[p] : Move(c, p, seq, m[1], m[2])
          \/ Bye(c, p, seq)

ServerStep ==
  \/ \E p \in Pids : PageSends(p)
  \/ \E c \in Socks : SocketLost(c) \/ Disconnect(c)
  \/ Tick
  \/ ReaperSweep
  \/ Elapse

RoomNext ==
  \/ \E p \in Pids, sid \in Sids : PageConnects(p, sid)
  \/ ServerStep /\ Transmit
  \/ Receive
  \/ \E q \in Pids : Expire(q)

RoomSpec == RoomInit /\ [][RoomNext]_roomVars

\* The same, with a server that may die and start over under living pages.
RoomRestartSpec ==
  RoomInit /\ [][RoomNext \/ (Restart /\ Transmit)]_roomVars

---------------------------------------------------------------------------
(* Properties.                                                             *)

\* The page has received everything sent to it, and is where the server would
\* send the next message of the session: nothing excuses a wrong view.
CaughtUp ==
  /\ wire = <<>>
  /\ HasSocket(Viewer)
  /\ ready[Current(Viewer)] = "open"
  /\ Viewer \in DOMAIN hub.connections
  /\ hub.connections[Viewer].sock = Current(Viewer)

TheSession == sessions[hub.connections[Viewer].sid]

\* Every variable of the composition has the shape the code gives it.
RoomTypeOK ==
  /\ TypeOK
  /\ \A i \in DOMAIN wire : IsMessage(wire[i])
  /\ Viewer \notin DOMAIN remotes
  /\ IsView([q \in DOMAIN remotes |-> remotes[q].values])
  /\ lastPatchSeq \in Int

\* Since the page last heard of a participant it may have stopped drawing it.
MayHaveFaded == now >= CURSOR_REMOVE_MS

\* FAILURE-MODES, "the reconnecting client converges to current truth": for a
\* participant of its session that it renders, a caught-up page shows in every
\* field with nothing left to flush the value the server holds.  It shows none
\* only for one that faded out and came back by a move of its other field.
ViewMatchesPresence ==
  CaughtUp =>
    \A q \in DOMAIN remotes \cap Roster(TheSession) :
      LET presence == TheSession.participants[q].presence
          shown    == remotes[q].values
      IN  \A f \in DOMAIN presence \ DirtyFieldsOf(TheSession, q) :
            IF f \in DOMAIN shown THEN shown[f] = presence[f].value ELSE MayHaveFaded

\* A caught-up page renders every other participant of its session, unless
\* that one may have faded out for lack of news.
PeersVisible ==
  CaughtUp =>
    \A q \in Roster(TheSession) \ {Viewer} : q \in DOMAIN remotes \/ MayHaveFaded

\* Within one server lifetime the patches on their way to the page are all news
\* to it and in order, over any number of reconnects: its seq guard throws away
\* nothing that was not overtaken.
PatchesInFlightAreNews ==
  \A j \in DOMAIN wire :
    wire[j].t = "patch" =>
      /\ wire[j].seq > lastPatchSeq
      /\ \A i \in 1 .. (j - 1) : wire[i].t = "patch" => wire[i].seq < wire[j].seq
============================
