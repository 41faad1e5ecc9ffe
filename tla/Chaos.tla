---- MODULE Chaos ----
(***************************************************************************)
(* The way of a message from the server's decision to send it to the page: *)
(* ChaosMiddleware.ts with the counters and the convergence tracker that   *)
(* index.ts hangs on its hooks, fed by one session's roster and ticks.     *)
(*                                                                         *)
(* Rates are whether a thing can happen, delays are whether a delivery can *)
(* be put off; a buffer is a set, because what leaves it is drawn at       *)
(* random.  A participant's cursor and scroll are one value, a number that *)
(* grows with every move, 0 when there is none; a page that drew both and  *)
(* removed them for lack of news draws them again one by one (Room.tla).   *)
(***************************************************************************)
EXTENDS Integers, FiniteSets

CONSTANTS
  Recipients,          \* connections that watch
  Subjects,            \* the participants they watch
  MAX_REORDER_WINDOW,
  Requests,            \* configurations the panel asks for, before they are clamped
  MaxMessages,         \* bounds on the messages,
  MaxRoster,           \* those of them that are not patches,
  MaxMoves,            \* the moves,
  MaxUpsets            \* and the uses of the panel, losses of a socket and removals

Config(w) == [drop : BOOLEAN, dup : BOOLEAN, late : BOOLEAN, window : w]

ASSUME ChaosAssumption ==
  /\ MAX_REORDER_WINDOW \in Nat
  /\ Requests \subseteq Config(Nat)

VARIABLES
  config, partitioned,   \* the middleware's knobs
  link,                  \* of each recipient: what is under way and what arrived
  roster, value, dirty,  \* the session: participants, values, dirty flags
  settling,              \* what the settle window repeats; << >> for nothing
  n,                     \* messages so far; the number of a patch is its seq
  rosterMessages, moves, upsets

vars == <<config, partitioned, link, roster, value, dirty, settling, n,
          rosterMessages, moves, upsets>>
source == <<roster, value, dirty, settling, n, rosterMessages, moves>>

Values(vals) == DOMAIN vals \subseteq Subjects /\ \A p \in DOMAIN vals : vals[p] \in Nat
Message(m) == m.n \in 1 .. n /\ m.t \in {"patch", "join", "leave", "welcome"} /\ Values(m.vals)
View(view) == Values(view.seen) /\ view.last \in 0 .. n

\* The page's socket, which the hub takes for open until it has noticed.
Sockets == {"open", "lost", "closed"}

\* held: the reorder buffer; holds: entries whose fallback timer is set; late:
\* deliveries put off, of the message or its duplicate; void: messages sent on a
\* socket that the page no longer has; page and tracker: what each makes of the
\* deliveries; faded: whom the page has removed as idle since a welcome; then the counters of
\* MetricsCollector.ts, and two that the code does not keep.
Link(c) ==
  /\ \A m \in c.held : Message(m)
  /\ c.holds \subseteq c.held
  /\ \A d \in c.late : Message(d[1]) /\ d[2] \in {1, 2}
  /\ c.socket \in Sockets /\ c.void \subseteq 1 .. n
  /\ View(c.page) /\ View(c.tracker) /\ c.faded \subseteq Subjects
  /\ {c.outbound, c.dropped, c.duplicates, c.asked, c.cleared} \subseteq Nat

\* DEFAULT_CHAOS_CONFIG
Clean == [drop |-> FALSE, dup |-> FALSE, late |-> FALSE, window |-> 0]

\* Every connection starts with a welcome that arrived.
Init ==
  /\ config = Clean /\ partitioned = FALSE
  /\ roster \in SUBSET Subjects
  /\ value = [p \in Subjects |-> 0] /\ dirty = {} /\ settling = << >>
  /\ n = 0 /\ rosterMessages = 0 /\ moves = 0 /\ upsets = 0
  /\ LET view == [seen |-> [p \in roster |-> 0], last |-> 0] IN
     link = [r \in Recipients |->
       [held |-> {}, holds |-> {}, late |-> {}, socket |-> "open", void |-> {},
        page |-> view, tracker |-> view, faded |-> {},
        outbound |-> 0, dropped |-> 0, duplicates |-> 0, asked |-> 0, cleared |-> 0]]

---------------------------------------------------------------------------
(* What a delivery does to the page and to the tracker.                    *)

\* Values that are there overwrite, a participant without one keeps its own.
Upserted(seen, vals) ==
  [p \in DOMAIN seen \cup DOMAIN vals |->
     IF p \in DOMAIN vals /\ (vals[p] > 0 \/ p \notin DOMAIN seen) THEN vals[p] ELSE seen[p]]

Only(seen, pids) == [p \in DOMAIN seen \cap pids |-> seen[p]]

\* Slip: each patch counts as news.
AnyIsNews(view, m) == TRUE

\* The seq guard, of page and tracker alike.
IsNews(view, m) == m.n > view.last

\* routeMessage of the page; a welcome keeps what the page has of those on it.
PageAfter(view, m) ==
  CASE m.t = "patch" /\ IsNews(view, m) -> [seen |-> Upserted(view.seen, m.vals), last |-> m.n]
    [] m.t = "patch" /\ ~IsNews(view, m) -> view
    [] m.t = "join" -> [view EXCEPT !.seen = Upserted(@, m.vals)]
    [] m.t = "leave" -> [view EXCEPT !.seen = Only(@, Subjects \ DOMAIN m.vals)]
    [] m.t = "welcome" -> [view EXCEPT !.seen = Upserted(Only(@, DOMAIN m.vals), m.vals)]

\* Slip: a patch is applied in whatever order it arrives.
TrackedUnguarded(view, m) ==
  CASE m.t = "patch" -> [seen |-> Upserted(view.seen, m.vals), last |-> m.n]
    [] m.t = "join" -> [view EXCEPT !.seen = Upserted(@, m.vals)]
    [] m.t = "leave" -> [view EXCEPT !.seen = Only(@, Subjects \ DOMAIN m.vals)]
    [] m.t = "welcome" -> [view EXCEPT !.seen = m.vals]

\* recordDelivery of the tracker; a welcome starts over.
Tracked(view, m) ==
  CASE m.t = "patch" /\ IsNews(view, m) -> [seen |-> Upserted(view.seen, m.vals), last |-> m.n]
    [] m.t = "patch" /\ ~IsNews(view, m) -> view
    [] m.t = "join" -> [view EXCEPT !.seen = Upserted(@, m.vals)]
    [] m.t = "leave" -> [view EXCEPT !.seen = Only(@, Subjects \ DOMAIN m.vals)]
    [] m.t = "welcome" -> [view EXCEPT !.seen = m.vals]

\* rawSend, which is bound to the socket of the moment the message was sent, and
\* onDeliver, which is called whatever has become of that socket.
Arrived(c, m) ==
  LET d == [c EXCEPT !.tracker = Tracked(@, m), !.outbound = @ + 1] IN
  IF m.n \in c.void THEN d
  ELSE [d EXCEPT !.page = PageAfter(@, m), !.faded = IF m.t = "welcome" THEN {} ELSE @]

---------------------------------------------------------------------------
(* The middleware, as the sets of what can become of a link.               *)

\* #deliver
Delivered(c, m, copy) ==
  {Arrived(c, m)} \cup
  (IF config.late THEN {[c EXCEPT !.late = @ \cup {<<m, copy>>}]} ELSE {})

\* Slip: a dropped message is also delivered.
DispatchedAnyway(c, m) ==
  (IF config.drop THEN Delivered([c EXCEPT !.dropped = @ + 1], m, 1) ELSE {}) \cup
  Delivered(c, m, 1) \cup
  (IF config.dup
   THEN UNION {Delivered([d EXCEPT !.duplicates = @ + 1], m, 2) : d \in Delivered(c, m, 1)}
   ELSE {})

\* #dispatch: dropped, delivered, or delivered twice.
Dispatched(c, m) ==
  (IF config.drop THEN {[c EXCEPT !.dropped = @ + 1]} ELSE {}) \cup
  Delivered(c, m, 1) \cup
  (IF config.dup
   THEN UNION {Delivered([d EXCEPT !.duplicates = @ + 1], m, 2) : d \in Delivered(c, m, 1)}
   ELSE {})

Released(c, m) == Dispatched([c EXCEPT !.held = @ \ {m}, !.holds = @ \ {m}], m)

\* Slip: an entry waits for the buffer to overflow, with no timer of its own.
HeldUntilOverflow(c, m) ==
  LET d == [c EXCEPT !.held = @ \cup {m}]
  IN  IF Cardinality(d.held) > config.window
      THEN UNION {Released(d, h) : h \in d.held}
      ELSE {d}

\* Slip: one entry too many is buffered.
HeldByOneMore(c, m) ==
  LET d == [c EXCEPT !.held = @ \cup {m}, !.holds = @ \cup {m}]
  IN  IF Cardinality(d.held) > config.window + 1
      THEN UNION {Released(d, h) : h \in d.held}
      ELSE {d}

\* send(), the buffer: one entry of too many is released, each has a timer.
Held(c, m) ==
  LET d == [c EXCEPT !.held = @ \cup {m}, !.holds = @ \cup {m}]
  IN  IF Cardinality(d.held) > config.window
      THEN UNION {Released(d, h) : h \in d.held}
      ELSE {d}

\* send(), by a hub that takes the socket for open.
Sent(c, m) ==
  LET d == [c EXCEPT !.asked = @ + 1,
                     !.void = IF c.socket = "lost" THEN @ \cup {m.n} ELSE @]
  IN  IF partitioned THEN {[d EXCEPT !.dropped = @ + 1]}
      ELSE IF config.window = 0 THEN Dispatched(d, m)
      ELSE Held(d, m)

---------------------------------------------------------------------------
(* The source: roster messages and ticks.                                  *)

\* A message to those recipients whose socket the hub takes for open; only its
\* number tells it from others.
Send(links, type, vals) ==
  LET m  == [n |-> n + 1, t |-> type, vals |-> vals]
      to == {r \in DOMAIN links : links[r].socket # "closed"}
  IN  /\ n < MaxMessages
      /\ n' = n + 1
      /\ \E next \in [to -> UNION {Sent(links[r], m) : r \in to}] :
           /\ \A r \in to : next[r] \in Sent(links[r], m)
           /\ link' = [r \in Recipients |-> IF r \in to THEN next[r] ELSE link[r]]
      /\ UNCHANGED <<config, partitioned, upsets>>

\* A roster message: join, leave or welcome.
Announce(links, type, vals) ==
  /\ rosterMessages < MaxRoster
  /\ rosterMessages' = rosterMessages + 1
  /\ Send(links, type, vals)

\* hello of a new participant: the others get a join, without values.
Hello(p) ==
  /\ p \notin roster
  /\ roster' = roster \cup {p}
  /\ Announce(link, "join", [q \in {p} |-> 0])
  /\ UNCHANGED <<value, dirty, settling, moves>>

\* hello of a recipient, on the socket it has or on a new one: it gets a welcome.
Resync(r) ==
  /\ Announce([q \in {r} |-> [link[r] EXCEPT !.socket = "open"]],
              "welcome", [p \in roster |-> value[p]])
  /\ UNCHANGED <<roster, value, dirty, settling, moves>>

Leave(p) ==
  /\ p \in roster
  /\ roster' = roster \ {p}
  /\ value' = [value EXCEPT ![p] = 0]
  /\ dirty' = dirty \ {p}
  /\ Announce(link, "leave", [q \in {p} |-> 0])
  /\ UNCHANGED <<settling, moves>>

Move(p) ==
  /\ p \in roster
  /\ moves < MaxMoves
  /\ moves' = moves + 1
  /\ value' = [value EXCEPT ![p] = moves + 1]
  /\ dirty' = dirty \cup {p}
  /\ UNCHANGED <<config, partitioned, link, roster, settling, n, rosterMessages, upsets>>

\* A tick with something dirty ...
Flush ==
  LET vals == [p \in dirty |-> value[p]] IN
  /\ dirty # {}
  /\ Send(link, "patch", vals)
  /\ settling' = vals
  /\ dirty' = {}
  /\ UNCHANGED <<roster, value, rosterMessages, moves>>

\* ... and those after it, as long as the settle window lasts.
Resend ==
  /\ dirty = {} /\ settling # << >>
  /\ Send(link, "patch", settling)
  /\ UNCHANGED <<roster, value, dirty, settling, rosterMessages, moves>>

SettleEnds ==
  /\ dirty = {} /\ settling # << >>
  /\ settling' = << >>
  /\ UNCHANGED <<config, partitioned, link, roster, value, dirty, n, rosterMessages,
                 moves, upsets>>

---------------------------------------------------------------------------
(* Timers, sockets and the panel.                                          *)

\* What happens to the link of one recipient alone.
Becomes(r, c) == link' = [link EXCEPT ![r] = c]

\* #releaseIfStillBuffered
HoldExpires(r, m) ==
  /\ m \in link[r].holds
  /\ \E c \in Released(link[r], m) : Becomes(r, c)
  /\ UNCHANGED <<config, partitioned, source, upsets>>

LateArrives(r, d) ==
  /\ d \in link[r].late
  /\ Becomes(r, Arrived([link[r] EXCEPT !.late = @ \ {d}], d[1]))
  /\ UNCHANGED <<config, partitioned, source, upsets>>

\* Bound, on what users and networks do beside the messages.
Upset == upsets < MaxUpsets /\ upsets' = upsets + 1

\* The page's socket is gone, and what is under way on it will not arrive.
SocketLost(r) ==
  LET c == link[r] IN
  /\ Upset
  /\ c.socket = "open"
  /\ Becomes(r, [c EXCEPT !.socket = "lost",
                          !.void = @ \cup {m.n : m \in c.held \cup {d[1] : d \in c.late}}])
  /\ UNCHANGED <<config, partitioned, source>>

\* The hub's end of a lost socket is no longer OPEN, or its close is handled.
CloseSeen(r) ==
  /\ link[r].socket = "lost"
  /\ Becomes(r, [link[r] EXCEPT !.socket = "closed"])
  /\ UNCHANGED <<config, partitioned, source, upsets>>

\* A page removes a participant it has not heard of for CURSOR_REMOVE_MS: how long
\* ago it last did is not in the model.
Fades(r, p) ==
  /\ Upset
  /\ p \in DOMAIN link[r].page.seen
  /\ Becomes(r, [link[r] EXCEPT !.page.seen = Only(@, Subjects \ {p}),
                                !.faded = @ \cup {p}])
  /\ UNCHANGED <<config, partitioned, source>>

\* Slip: the window is taken as asked for.
Unclamped(w) == w

Clamped(w) == IF w > MAX_REORDER_WINDOW THEN MAX_REORDER_WINDOW ELSE w

Configure ==
  /\ Upset
  /\ \E c \in Requests : config' = [c EXCEPT !.window = Clamped(@)]
  /\ UNCHANGED <<partitioned, link, source>>

Reset ==
  /\ Upset
  /\ config' = Clean /\ partitioned' = FALSE
  /\ link' = [r \in Recipients |->
       [link[r] EXCEPT !.held = {}, !.holds = {},
                       !.cleared = @ + Cardinality(link[r].held)]]
  /\ UNCHANGED source

StartPartition ==
  /\ Upset
  /\ partitioned' = TRUE
  /\ UNCHANGED <<config, link, source>>

PartitionEnds ==
  /\ partitioned
  /\ partitioned' = FALSE
  /\ UNCHANGED <<config, link, source, upsets>>

Next ==
  \/ \E p \in Subjects : Hello(p) \/ Leave(p) \/ Move(p)
  \/ \E r \in Recipients : Resync(r) \/ SocketLost(r) \/ CloseSeen(r)
  \/ \E r \in Recipients : \E p \in Subjects : Fades(r, p)
  \/ Flush \/ Resend \/ SettleEnds
  \/ \E r \in Recipients : \E m \in link[r].holds : HoldExpires(r, m)
  \/ \E r \in Recipients : \E d \in link[r].late : LateArrives(r, d)
  \/ Configure \/ Reset \/ StartPartition \/ PartitionEnds

Spec == Init /\ [][Next]_vars

\* A timer that is set fires.
FairSpec ==
  Spec /\ \A r \in Recipients : \A k \in 1 .. MaxMessages :
            WF_vars(\E m \in link[r].holds : m.n = k /\ HoldExpires(r, m))

---------------------------------------------------------------------------
(* Properties.                                                             *)

\* Every variable has the shape the code gives it.
ChaosTypeOK ==
  /\ config \in Config(0 .. MAX_REORDER_WINDOW) /\ partitioned \in BOOLEAN
  /\ \A r \in Recipients : Link(link[r])
  /\ roster \subseteq Subjects /\ dirty \subseteq roster
  /\ value \in [Subjects -> Nat] /\ Values(settling)
  /\ {n, rosterMessages, moves, upsets} \subseteq Nat

\* MetricsCollector.ts and the hooks of index.ts: through drops, duplicates,
\* buffers, delays, partitions and changes of the knobs, each send is counted as
\* delivered or dropped, or is under way, exactly once; only reset() loses it.
EverySendAccounted ==
  \A r \in Recipients :
    LET c == link[r] IN
    c.asked + c.duplicates =
      c.outbound + c.dropped + c.cleared + Cardinality(c.held) + Cardinality(c.late)

\* ChaosMiddleware.ts, MAX_REORDER_WINDOW: no buffer outgrows the largest window
\* there can be, however the window is turned up and down while it fills.
BufferBounded == \A r \in Recipients : Cardinality(link[r].held) <= MAX_REORDER_WINDOW

\* FAILURE-MODES, reordered patch: whatever order, delay and repetition they
\* arrive in, patches never take a participant that the page shows back to an
\* older value.
PatchesNeverGoBack ==
  [][rosterMessages' = 0 =>
       \A r \in Recipients :
         \A p \in DOMAIN link[r].page.seen \cap DOMAIN link'[r].page.seen :
           link'[r].page.seen[p] >= link[r].page.seen[p]]_vars

\* ConvergenceTracker.ts:29-41: through every order, delay, drop and repetition the
\* tracker lists whom the page lists, and the page shows each value it knows.  Not
\* so for whom the page has removed as idle since a welcome, nor once a message
\* went to a socket the page had left: the tracker is told of neither.
TrackerWithinPage ==
  \A r \in Recipients :
    LET c == link[r]  tracked == c.tracker.seen  shown == c.page.seen IN
    c.void = {} =>
      /\ DOMAIN tracked \ c.faded = DOMAIN shown \ c.faded
      /\ \A p \in DOMAIN tracked \ c.faded : tracked[p] > 0 => shown[p] = tracked[p]

\* FAILURE-MODES, "a reorder-buffered message that never gets picked back up":
\* what is held is released, though no message ever follows it.
HeldIsReleased ==
  \A r \in Recipients : \A k \in 1 .. MaxMessages :
    (\E m \in link[r].held : m.n = k) ~> (\A m \in link[r].held : m.n # k)
============================
