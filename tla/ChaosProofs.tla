---- MODULE ChaosProofs ----
(***************************************************************************)
(* The way of a message through the chaos middleware, for any number of    *)
(* recipients, messages and changes of the knobs: nothing is lost          *)
(* uncounted, no buffer outgrows its limit, the tracker stays within the   *)
(* page and patches never take a page back.                                *)
(***************************************************************************)
EXTENDS Chaos, FiniteSetTheorems, TLAPS

---------------------------------------------------------------------------
(* Links and what becomes of them.                                         *)

\* A link is a record, and so are the views in it.
IsViewRecord(v) == v = [seen |-> v.seen, last |-> v.last]
IsLink(c) ==
  /\ c = [held |-> c.held, holds |-> c.holds, late |-> c.late,
           socket |-> c.socket, void |-> c.void,
           page |-> c.page, tracker |-> c.tracker, faded |-> c.faded,
          outbound |-> c.outbound, dropped |-> c.dropped,
          duplicates |-> c.duplicates, asked |-> c.asked, cleared |-> c.cleared]
  /\ IsViewRecord(c.page) /\ IsViewRecord(c.tracker)

Counted(c) == {c.outbound, c.dropped, c.duplicates, c.asked, c.cleared} \subseteq Nat

\* What a link still has to deliver, and how many sends nobody accounts for.
Underway(c) == c.held \cup {d[1] : d \in c.late}
Due(c) ==
  (c.asked + c.duplicates)
    - (c.outbound + c.dropped + c.cleared + Cardinality(c.held) + Cardinality(c.late))

\* A link whose sets can be counted; a message is held or put off, not both.
Sound(c) ==
  /\ IsLink(c) /\ Counted(c)
  /\ IsFiniteSet(c.held) /\ IsFiniteSet(c.late)
  /\ c.holds \subseteq c.held
  /\ \A d \in c.late : d[2] \in {1, 2} /\ d[1] \notin c.held

\* What page and tracker make of the deliveries, and whom the page has removed.
Views(c) == [page |-> c.page, tracker |-> c.tracker, faded |-> c.faded]

\* The views after m has been delivered, to a socket that is lost or to the page.
Heard(v, m, lost) ==
  [page    |-> IF lost THEN v.page ELSE PageAfter(v.page, m),
   tracker |-> Tracked(v.tracker, m),
   faded   |-> IF ~lost /\ m.t = "welcome" THEN {} ELSE v.faded]

\* The views w are those of v, or those after m has been delivered once, or twice.
Seen(v, m, lost, w) ==
  \/ w = v
  \/ w = Heard(v, m, lost)
  \/ w = Heard(Heard(v, m, lost), m, lost)

\* The socket of e, and what was sent on one that is lost, are those of c.
SameSocket(c, e) == e.socket = c.socket /\ e.void = c.void
Same(c, e) == SameSocket(c, e) /\ Views(e) = Views(c)
Hears(c, m, e) == SameSocket(c, e) /\ Views(e) = Heard(Views(c), m, m.n \in c.void)
Saw(c, m, e) == SameSocket(c, e) /\ Seen(Views(c), m, m.n \in c.void, Views(e))

Typed(m) == m.t \in {"patch", "join", "leave", "welcome"}

\* A message does not change the shape of a view.
LEMMA ViewShapes ==
  ASSUME NEW v, IsViewRecord(v), NEW m, Typed(m)
  PROVE  IsViewRecord(PageAfter(v, m)) /\ IsViewRecord(Tracked(v, m))
<1>1. CASE m.t = "patch"
  BY <1>1 DEF IsViewRecord, PageAfter, Tracked
<1>2. CASE m.t = "join"
  BY <1>2 DEF IsViewRecord, PageAfter, Tracked
<1>3. CASE m.t = "leave"
  BY <1>3 DEF IsViewRecord, PageAfter, Tracked
<1>4. CASE m.t = "welcome"
  BY <1>4 DEF IsViewRecord, PageAfter, Tracked
<1> QED BY <1>1, <1>2, <1>3, <1>4 DEF Typed

\* The counters and sizes of a link are numbers.
LEMMA LinkNumbers ==
  ASSUME NEW c, Sound(c)
  PROVE  /\ c.outbound \in Nat /\ c.dropped \in Nat /\ c.duplicates \in Nat
         /\ c.asked \in Nat /\ c.cleared \in Nat
         /\ Cardinality(c.held) \in Nat /\ Cardinality(c.late) \in Nat
BY FS_CardinalityType DEF Sound, Counted

\* #deliver without delay: counted, and seen by page and tracker.
LEMMA ArrivedLink ==
  ASSUME NEW c, Sound(c), NEW m, Typed(m), NEW e, e = Arrived(c, m)
  PROVE  /\ Sound(e) /\ Due(e) = Due(c) - 1
         /\ e.held = c.held /\ e.holds = c.holds /\ e.late = c.late
         /\ Hears(c, m, e)
<1> DEFINE w == Heard(Views(c), m, m.n \in c.void)
<1>1. e = [held |-> c.held, holds |-> c.holds, late |-> c.late,
           socket |-> c.socket, void |-> c.void,
           page |-> w.page, tracker |-> w.tracker, faded |-> w.faded,
           outbound |-> c.outbound + 1, dropped |-> c.dropped,
           duplicates |-> c.duplicates, asked |-> c.asked, cleared |-> c.cleared]
  <2>1. CASE m.n \in c.void
    BY <2>1 DEF Arrived, Sound, IsLink, Heard, Views
  <2>2. CASE m.n \notin c.void
    BY <2>2 DEF Arrived, Sound, IsLink, Heard, Views
  <2> QED BY <2>1, <2>2
<1>2. IsViewRecord(w.page) /\ IsViewRecord(w.tracker)
  BY ViewShapes DEF Sound, IsLink, Heard, Views
<1>5. Hears(c, m, e)
  <2>1. w = [page |-> w.page, tracker |-> w.tracker, faded |-> w.faded]
    BY DEF Heard
  <2> HIDE DEF w
  <2>2. Views(e) = w /\ SameSocket(c, e)
    BY <1>1, <2>1 DEF Views, SameSocket
  <2> QED BY <2>2 DEF Hears, w
<1> HIDE DEF w
<1>3. Sound(e)
  BY <1>1, <1>2, LinkNumbers DEF Sound, IsLink, Counted
<1>4. Due(e) = Due(c) - 1
  BY <1>1, LinkNumbers DEF Due
<1> QED BY <1>1, <1>3, <1>4, <1>5

\* #deliver: the message has arrived, or its delivery is put off.
LEMMA DeliveredLink ==
  ASSUME NEW c, Sound(c), NEW m, Typed(m), m \notin c.held,
         NEW copy \in {1, 2}, <<m, copy>> \notin c.late,
         NEW e \in Delivered(c, m, copy)
  PROVE  /\ Sound(e) /\ Due(e) = Due(c) - 1
         /\ e.held = c.held /\ e.holds = c.holds
         /\ \/ /\ e.late = c.late
               /\ Hears(c, m, e)
            \/ /\ e.late = c.late \cup {<<m, copy>>}
               /\ Same(c, e)
<1>1. CASE e = Arrived(c, m)
  BY <1>1, ArrivedLink
<1>2. CASE e = [c EXCEPT !.late = @ \cup {<<m, copy>>}]
  <2>1. e = [held |-> c.held, holds |-> c.holds, late |-> c.late \cup {<<m, copy>>},
           socket |-> c.socket, void |-> c.void,
           page |-> c.page, tracker |-> c.tracker, faded |-> c.faded,
             outbound |-> c.outbound, dropped |-> c.dropped,
             duplicates |-> c.duplicates, asked |-> c.asked, cleared |-> c.cleared]
    BY <1>2 DEF Sound, IsLink
  <2>2. IsFiniteSet(e.late) /\ Cardinality(e.late) = Cardinality(c.late) + 1
    BY <2>1, FS_AddElement DEF Sound
  <2>3. Sound(e)
    <3>1. IsLink(e) /\ Counted(e)
      BY <2>1 DEF Sound, IsLink, Counted
    <3>2. \A d \in e.late : d[2] \in {1, 2} /\ d[1] \notin e.held
      BY <2>1 DEF Sound
    <3> QED BY <2>1, <2>2, <3>1, <3>2 DEF Sound
  <2>4. Due(e) = Due(c) - 1
    <3>1. /\ e.outbound = c.outbound /\ e.dropped = c.dropped /\ e.duplicates = c.duplicates
          /\ e.asked = c.asked /\ e.cleared = c.cleared /\ e.held = c.held
      BY <2>1
    <3> QED BY <2>2, <3>1, LinkNumbers DEF Due
  <2> QED BY <2>1, <2>3, <2>4 DEF Same, SameSocket, Views
<1> QED BY <1>1, <1>2 DEF Delivered

\* What becomes of a link when it hands m on: one send fewer is due.
Handed(c, m, e) ==
  /\ Sound(e) /\ Due(e) = Due(c) - 1
  /\ e.held = c.held /\ e.holds = c.holds
  /\ e.late \subseteq c.late \cup {<<m, 1>>, <<m, 2>>}
  /\ Saw(c, m, e)

\* #dispatch: m is dropped, delivered, or delivered twice, and counted as such.
LEMMA DispatchedLink ==
  ASSUME NEW c, Sound(c), NEW m, Typed(m), m \notin c.held,
         <<m, 1>> \notin c.late, <<m, 2>> \notin c.late,
         NEW e \in Dispatched(c, m)
  PROVE  Handed(c, m, e)
<1>1. CASE e = [c EXCEPT !.dropped = @ + 1]
  <2>1. e = [held |-> c.held, holds |-> c.holds, late |-> c.late,
           socket |-> c.socket, void |-> c.void,
           page |-> c.page, tracker |-> c.tracker, faded |-> c.faded,
             outbound |-> c.outbound, dropped |-> c.dropped + 1,
             duplicates |-> c.duplicates, asked |-> c.asked, cleared |-> c.cleared]
    BY <1>1 DEF Sound, IsLink
  <2>2. Sound(e)
    <3>1. IsLink(e)
      BY <2>1 DEF Sound, IsLink
    <3>2. Counted(e)
      BY <2>1, LinkNumbers DEF Counted
    <3> QED BY <2>1, <3>1, <3>2 DEF Sound
  <2>3. Due(e) = Due(c) - 1
    BY <2>1, LinkNumbers DEF Due
  <2> QED BY <2>1, <2>2, <2>3 DEF Handed, Saw, Seen, SameSocket, Views
<1>2. CASE e \in Delivered(c, m, 1)
  BY <1>2, DeliveredLink DEF Handed, Saw, Seen, Same, Hears
<1>3. ASSUME NEW d \in Delivered(c, m, 1),
             e \in Delivered([d EXCEPT !.duplicates = @ + 1], m, 2)
      PROVE  Handed(c, m, e)
  <2> DEFINE b == [d EXCEPT !.duplicates = @ + 1]
  <2>1. /\ Sound(d) /\ Due(d) = Due(c) - 1
        /\ d.held = c.held /\ d.holds = c.holds
        /\ \/ /\ d.late = c.late
              /\ Hears(c, m, d)
           \/ /\ d.late = c.late \cup {<<m, 1>>}
              /\ Same(c, d)
    BY DeliveredLink
  <2>2. b = [held |-> d.held, holds |-> d.holds, late |-> d.late,
           socket |-> d.socket, void |-> d.void,
           page |-> d.page, tracker |-> d.tracker, faded |-> d.faded,
             outbound |-> d.outbound, dropped |-> d.dropped,
             duplicates |-> d.duplicates + 1, asked |-> d.asked, cleared |-> d.cleared]
    BY <2>1 DEF Sound, IsLink
  <2> HIDE DEF b
  <2>3. Sound(b)
    <3>1. IsLink(b)
      BY <2>1, <2>2 DEF Sound, IsLink
    <3>2. Counted(b)
      BY <2>1, <2>2, LinkNumbers DEF Counted
    <3> QED BY <2>1, <2>2, <3>1, <3>2 DEF Sound
  <2>4. Due(b) = Due(d) + 1 /\ Due(d) \in Int /\ Due(c) \in Int
    <3>1. /\ b.outbound = d.outbound /\ b.dropped = d.dropped
          /\ b.duplicates = d.duplicates + 1 /\ b.asked = d.asked /\ b.cleared = d.cleared
          /\ b.held = d.held /\ b.late = d.late
      BY <2>2
    <3>2. Sound(d)
      BY <2>1
    <3>3. Due(b) = Due(d) + 1 /\ Due(d) \in Int
      BY <3>1, <3>2, LinkNumbers DEF Due
    <3>4. Due(c) \in Int
      BY LinkNumbers DEF Due
    <3> QED BY <3>3, <3>4
  <2>5. <<m, 2>> \notin b.late /\ m \notin b.held
    BY <2>1, <2>2
  <2>6. e \in Delivered(b, m, 2)
    BY <1>3 DEF b
  <2>7. /\ b.held = d.held /\ b.holds = d.holds /\ b.late = d.late
        /\ Same(d, b)
    BY <2>2 DEF Same, SameSocket, Views
  <2>8. /\ Sound(e) /\ Due(e) = Due(b) - 1
        /\ e.held = b.held /\ e.holds = b.holds
        /\ \/ /\ e.late = b.late
              /\ Hears(b, m, e)
           \/ /\ e.late = b.late \cup {<<m, 2>>}
              /\ Same(b, e)
    BY <2>3, <2>5, <2>6, DeliveredLink
  <2>9. Saw(c, m, e)
    BY <2>1, <2>7, <2>8 DEF Saw, Seen, Same, Hears, SameSocket
  <2> QED BY <2>1, <2>4, <2>7, <2>8, <2>9 DEF Handed
<1> QED BY <1>1, <1>2, <1>3 DEF Dispatched

---------------------------------------------------------------------------
(* What a send, a timer or the panel makes of a link.                      *)

\* The views w after the page has removed a participant.
Removed(v, p, w) ==
  w = [page    |-> [seen |-> Only(v.page.seen, Subjects \ {p}), last |-> v.page.last],
       tracker |-> v.tracker,
       faded   |-> v.faded \cup {p}]

\* e comes of c, with the messages of F newly sent: nothing else is under way or
\* was sent in vain, one message at most was delivered or one participant removed,
\* and the accounts are as they were.
Follows(c, F, e) ==
  /\ Sound(e) /\ Due(e) = Due(c)
  /\ Cardinality(e.held) <= MAX_REORDER_WINDOW
  /\ Underway(e) \subseteq Underway(c) \cup F
  /\ e.socket \in Sockets
  /\ c.void \subseteq e.void
  /\ \A k \in e.void \ c.void : \E h \in Underway(c) \cup F : k = h.n
  /\ \/ Views(e) = Views(c)
     \/ \E h \in Underway(c) \cup F : Seen(Views(c), h, h.n \in e.void, Views(e))
     \/ \E p \in Subjects : Removed(Views(c), p, Views(e))

\* A link that can be reasoned about: its messages have a type, its buffer a limit.
Fit(c) ==
  /\ Sound(c) /\ c.socket \in Sockets
  /\ \A m \in Underway(c) : Typed(m)
  /\ Cardinality(c.held) <= MAX_REORDER_WINDOW

\* Due is a number.
LEMMA DueIsInt ==
  ASSUME NEW c, Sound(c)
  PROVE  Due(c) \in Int
BY LinkNumbers DEF Due

\* What became of the socket does not matter to the accounts.
LEMMA Relabelled ==
  ASSUME NEW c, Sound(c), NEW s, NEW gone,
         NEW e, e = [held |-> c.held, holds |-> c.holds, late |-> c.late,
                     socket |-> s, void |-> gone,
                     page |-> c.page, tracker |-> c.tracker, faded |-> c.faded,
                     outbound |-> c.outbound, dropped |-> c.dropped,
                     duplicates |-> c.duplicates, asked |-> c.asked, cleared |-> c.cleared]
  PROVE  Sound(e) /\ Due(e) = Due(c) /\ Underway(e) = Underway(c) /\ Views(e) = Views(c)
<1>1. IsLink(e) /\ Counted(e)
  BY DEF Sound, IsLink, Counted
<1>2. Sound(e)
  BY <1>1 DEF Sound
<1> QED BY <1>2 DEF Due, Underway, Views

\* Taking a message out of the buffer leaves one send more to account for.
LEMMA TakenOut ==
  ASSUME NEW c, Sound(c), NEW m \in c.held,
         NEW e, e = [c EXCEPT !.held = @ \ {m}, !.holds = @ \ {m}]
  PROVE  /\ Sound(e) /\ Due(e) = Due(c) + 1
         /\ e.held = c.held \ {m} /\ e.late = c.late
         /\ Same(c, e)
         /\ Cardinality(e.held) = Cardinality(c.held) - 1
<1>1. e = [held |-> c.held \ {m}, holds |-> c.holds \ {m}, late |-> c.late,
           socket |-> c.socket, void |-> c.void,
           page |-> c.page, tracker |-> c.tracker, faded |-> c.faded,
           outbound |-> c.outbound, dropped |-> c.dropped,
           duplicates |-> c.duplicates, asked |-> c.asked, cleared |-> c.cleared]
  BY DEF Sound, IsLink
<1>2. IsFiniteSet(e.held) /\ Cardinality(e.held) = Cardinality(c.held) - 1
  BY <1>1, FS_RemoveElement DEF Sound
<1>3. Sound(e)
  <2>1. IsLink(e)
    BY <1>1 DEF Sound, IsLink
  <2>4. Counted(e)
    BY <1>1, LinkNumbers DEF Counted
  <2>2. \A d \in e.late : d[2] \in {1, 2} /\ d[1] \notin e.held
    BY <1>1 DEF Sound
  <2>3. IsFiniteSet(e.late) /\ e.holds \subseteq e.held
    BY <1>1 DEF Sound
  <2> QED BY <1>2, <2>1, <2>2, <2>3, <2>4 DEF Sound
<1>4. Due(e) = Due(c) + 1
  <2>1. /\ e.outbound = c.outbound /\ e.dropped = c.dropped /\ e.duplicates = c.duplicates
        /\ e.asked = c.asked /\ e.cleared = c.cleared /\ e.late = c.late
    BY <1>1
  <2> QED BY <1>2, <2>1, LinkNumbers DEF Due
<1> QED BY <1>1, <1>2, <1>3, <1>4 DEF Same, SameSocket, Views

\* #releaseIfStillBuffered, and the release of a full buffer.
LEMMA ReleasedLink ==
  ASSUME NEW c, Sound(c), NEW m \in c.held, Typed(m), NEW e \in Released(c, m)
  PROVE  /\ Sound(e) /\ Due(e) = Due(c)
         /\ Cardinality(e.held) = Cardinality(c.held) - 1
         /\ Underway(e) \subseteq Underway(c)
         /\ Saw(c, m, e)
<1> DEFINE d == [c EXCEPT !.held = @ \ {m}, !.holds = @ \ {m}]
<1>1. /\ Sound(d) /\ Due(d) = Due(c) + 1
      /\ d.held = c.held \ {m} /\ d.late = c.late
      /\ Same(c, d)
      /\ Cardinality(d.held) = Cardinality(c.held) - 1
  BY TakenOut
<1>2. e \in Dispatched(d, m)
  BY DEF Released
<1> HIDE DEF d
<1>3. m \notin d.held /\ <<m, 1>> \notin d.late /\ <<m, 2>> \notin d.late
  BY <1>1 DEF Sound
<1>4. Handed(d, m, e)
  BY <1>1, <1>2, <1>3, DispatchedLink
<1>5. Due(e) = Due(c)
  BY <1>1, <1>4, DueIsInt DEF Handed
<1>6. Underway(e) \subseteq Underway(c)
  BY <1>1, <1>4 DEF Handed, Underway
<1>7. Saw(c, m, e)
  BY <1>1, <1>4 DEF Handed, Saw, Same, SameSocket
<1> QED BY <1>1, <1>4, <1>5, <1>6, <1>7 DEF Handed

\* The timer of an entry: the link stays accounted for.
LEMMA ReleaseFollows ==
  ASSUME NEW c, Fit(c), NEW m \in c.held, NEW e \in Released(c, m)
  PROVE  Follows(c, {}, e)
<1>1. Typed(m) /\ m \in Underway(c)
  BY DEF Fit, Underway
<1>2. /\ Sound(e) /\ Due(e) = Due(c)
      /\ Cardinality(e.held) = Cardinality(c.held) - 1
      /\ Underway(e) \subseteq Underway(c)
      /\ Saw(c, m, e)
  BY <1>1, ReleasedLink DEF Fit
<1>3. Cardinality(e.held) <= MAX_REORDER_WINDOW
  BY <1>2, LinkNumbers, ChaosAssumption DEF Fit
<1> QED BY <1>1, <1>2, <1>3 DEF Follows, Fit, Saw, SameSocket

\* Putting a message into the buffer accounts for one send more.
LEMMA PutIn ==
  ASSUME NEW c, Sound(c), NEW m, m \notin Underway(c),
         NEW e, e = [c EXCEPT !.held = @ \cup {m}, !.holds = @ \cup {m}]
  PROVE  /\ Sound(e) /\ Due(e) = Due(c) - 1
         /\ e.held = c.held \cup {m} /\ e.late = c.late
         /\ Same(c, e)
         /\ Cardinality(e.held) = Cardinality(c.held) + 1
<1>1. e = [held |-> c.held \cup {m}, holds |-> c.holds \cup {m}, late |-> c.late,
           socket |-> c.socket, void |-> c.void,
           page |-> c.page, tracker |-> c.tracker, faded |-> c.faded,
           outbound |-> c.outbound, dropped |-> c.dropped,
           duplicates |-> c.duplicates, asked |-> c.asked, cleared |-> c.cleared]
  BY DEF Sound, IsLink
<1>2. m \notin c.held /\ \A x \in c.late : x[1] # m
  BY DEF Underway
<1>3. IsFiniteSet(e.held) /\ Cardinality(e.held) = Cardinality(c.held) + 1
  BY <1>1, <1>2, FS_AddElement DEF Sound
<1>4. Sound(e)
  <2>1. IsLink(e)
    BY <1>1 DEF Sound, IsLink
  <2>2. Counted(e)
    BY <1>1, LinkNumbers DEF Counted
  <2>3. \A x \in e.late : x[2] \in {1, 2} /\ x[1] \notin e.held
    BY <1>1, <1>2 DEF Sound
  <2>4. IsFiniteSet(e.late) /\ e.holds \subseteq e.held
    BY <1>1 DEF Sound
  <2> QED BY <1>3, <2>1, <2>2, <2>3, <2>4 DEF Sound
<1>5. Due(e) = Due(c) - 1
  <2>1. /\ e.outbound = c.outbound /\ e.dropped = c.dropped /\ e.duplicates = c.duplicates
        /\ e.asked = c.asked /\ e.cleared = c.cleared /\ e.late = c.late
    BY <1>1
  <2> QED BY <1>3, <2>1, LinkNumbers DEF Due
<1> QED BY <1>1, <1>3, <1>4, <1>5 DEF Same, SameSocket, Views

\* The buffer: with too many entries it releases one, and is as full as before.
LEMMA HeldFollows ==
  ASSUME NEW c, Fit(c), NEW m, Typed(m), m \notin Underway(c),
         config.window \in 0 .. MAX_REORDER_WINDOW, NEW e \in Held(c, m)
  PROVE  /\ Sound(e) /\ Due(e) = Due(c) - 1
         /\ Cardinality(e.held) <= MAX_REORDER_WINDOW
         /\ Underway(e) \subseteq Underway(c) \cup {m}
         /\ \/ Same(c, e)
            \/ \E h \in Underway(c) \cup {m} : Saw(c, h, e)
<1> DEFINE d == [c EXCEPT !.held = @ \cup {m}, !.holds = @ \cup {m}]
<1>1. /\ Sound(d) /\ Due(d) = Due(c) - 1
      /\ d.held = c.held \cup {m} /\ d.late = c.late
      /\ Same(c, d)
      /\ Cardinality(d.held) = Cardinality(c.held) + 1
  BY PutIn DEF Fit
<1>2. e \in IF Cardinality(d.held) > config.window
            THEN UNION {Released(d, h) : h \in d.held} ELSE {d}
  BY Zenon DEF Held
<1> HIDE DEF d
<1>3. Underway(d) = Underway(c) \cup {m}
  BY <1>1 DEF Underway
<1>4. CASE Cardinality(d.held) > config.window
  <2>1. PICK h \in d.held : e \in Released(d, h)
    BY <1>2, <1>4
  <2>2. Typed(h) /\ h \in Underway(c) \cup {m}
    BY <1>1 DEF Fit, Underway
  <2>3. /\ Sound(e) /\ Due(e) = Due(d)
        /\ Cardinality(e.held) = Cardinality(d.held) - 1
        /\ Underway(e) \subseteq Underway(d)
        /\ Saw(d, h, e)
    BY <1>1, <2>1, <2>2, ReleasedLink
  <2>4. Cardinality(e.held) <= MAX_REORDER_WINDOW
    BY <1>1, <2>3, LinkNumbers, ChaosAssumption DEF Fit
  <2>5. Saw(c, h, e)
    BY <1>1, <2>3 DEF Saw, Same, SameSocket
  <2> QED BY <1>1, <1>3, <2>2, <2>3, <2>4, <2>5
<1>5. CASE ~(Cardinality(d.held) > config.window)
  <2>1. e = d
    BY <1>2, <1>5
  <2>2. Cardinality(d.held) <= MAX_REORDER_WINDOW
    <3>1. \A w, k : w \in 0 .. MAX_REORDER_WINDOW /\ k \in Nat /\ ~(k > w)
                   => k <= MAX_REORDER_WINDOW
      BY ChaosAssumption
    <3>2. Cardinality(d.held) \in Nat
      BY <1>1, LinkNumbers
    <3> QED BY <1>5, <3>1, <3>2
  <2> QED BY <1>1, <1>3, <2>1, <2>2
<1> QED BY <1>4, <1>5

\* send(): whatever the knobs, the new message is accounted for.
LEMMA SendFollows ==
  ASSUME NEW c, Fit(c), NEW m, Typed(m), m \notin Underway(c),
         config.window \in 0 .. MAX_REORDER_WINDOW, NEW e \in Sent(c, m)
  PROVE  Follows(c, {m}, e)
<1> DEFINE d == [c EXCEPT !.asked = @ + 1,
                          !.void = IF c.socket = "lost" THEN @ \cup {m.n} ELSE @]
           void == IF c.socket = "lost" THEN c.void \cup {m.n} ELSE c.void
<1>1. d = [held |-> c.held, holds |-> c.holds, late |-> c.late,
           socket |-> c.socket, void |-> void,
           page |-> c.page, tracker |-> c.tracker, faded |-> c.faded,
           outbound |-> c.outbound, dropped |-> c.dropped,
           duplicates |-> c.duplicates, asked |-> c.asked + 1, cleared |-> c.cleared]
  <2>1. d = [c EXCEPT !.asked = c.asked + 1, !.void = void]
    <3>1. IsLink(c)
      BY DEF Fit, Sound
    <3> QED BY <3>1 DEF IsLink
  <2> HIDE DEF d, void
  <2> QED BY <2>1 DEF Fit, Sound, IsLink
<1>2. e \in IF partitioned THEN {[d EXCEPT !.dropped = @ + 1]}
            ELSE IF config.window = 0 THEN Dispatched(d, m) ELSE Held(d, m)
  BY DEF Sent
<1> HIDE DEF d
<1>3. Sound(d)
  <2>1. IsLink(d)
    BY <1>1 DEF Fit, Sound, IsLink
  <2>2. Counted(d)
    BY <1>1, LinkNumbers DEF Fit, Counted
  <2>3. \A x \in d.late : x[2] \in {1, 2} /\ x[1] \notin d.held
    BY <1>1 DEF Fit, Sound
  <2>4. IsFiniteSet(d.held) /\ IsFiniteSet(d.late) /\ d.holds \subseteq d.held
    BY <1>1 DEF Fit, Sound
  <2> QED BY <2>1, <2>2, <2>3, <2>4 DEF Sound
<1>4. Due(d) = Due(c) + 1
  BY <1>1, LinkNumbers DEF Due, Fit
<1>5. /\ Views(d) = Views(c) /\ d.held = c.held /\ d.late = c.late
      /\ d.holds = c.holds /\ d.socket = c.socket
      /\ c.void \subseteq d.void /\ \A k \in d.void \ c.void : k = m.n
  BY <1>1 DEF Views
<1>6. Underway(d) = Underway(c)
  BY <1>5 DEF Underway
<1>7. Fit(d)
  BY <1>3, <1>5, <1>6 DEF Fit
<1>8. CASE partitioned
  <2>1. e = [held |-> d.held, holds |-> d.holds, late |-> d.late,
           socket |-> d.socket, void |-> d.void,
           page |-> d.page, tracker |-> d.tracker, faded |-> d.faded,
             outbound |-> d.outbound, dropped |-> d.dropped + 1,
             duplicates |-> d.duplicates, asked |-> d.asked, cleared |-> d.cleared]
    BY <1>2, <1>3, <1>8 DEF Sound, IsLink
  <2>2. IsLink(e)
    BY <1>3, <2>1 DEF Sound, IsLink
  <2>3. Counted(e)
    BY <1>3, <2>1, LinkNumbers DEF Counted
  <2>4. Sound(e)
    BY <1>3, <2>1, <2>2, <2>3 DEF Sound
  <2>5. Due(e) = Due(d) - 1
    <3>1. /\ e.outbound = d.outbound /\ e.dropped = d.dropped + 1
          /\ e.duplicates = d.duplicates /\ e.asked = d.asked /\ e.cleared = d.cleared
          /\ e.held = d.held /\ e.late = d.late
      BY <2>1
    <3> QED BY <1>3, <3>1, LinkNumbers DEF Due
  <2>6. Due(e) = Due(c)
    BY <1>4, <2>5, DueIsInt DEF Fit
  <2>7. /\ SameSocket(d, e) /\ Views(e) = Views(d)
        /\ e.held = c.held /\ e.late = c.late
    BY <1>5, <2>1 DEF SameSocket, Views
  <2>8. Underway(e) = Underway(c)
    BY <2>7 DEF Underway
  <2> QED BY <1>5, <2>4, <2>6, <2>7, <2>8 DEF Follows, Fit, SameSocket
<1>9. CASE ~partitioned /\ config.window = 0
  <2>1. m \notin d.held /\ <<m, 1>> \notin d.late /\ <<m, 2>> \notin d.late
    BY <1>6 DEF Underway
  <2>2. Handed(d, m, e)
    BY <1>2, <1>3, <1>9, <2>1, DispatchedLink
  <2>3. Due(e) = Due(c)
    BY <1>4, <2>2, DueIsInt DEF Handed, Fit
  <2>4. Underway(e) \subseteq Underway(c) \cup {m}
    BY <1>5, <2>2 DEF Handed, Underway
  <2>5. SameSocket(d, e) /\ Seen(Views(c), m, m.n \in e.void, Views(e))
    BY <1>5, <2>2 DEF Handed, Saw, SameSocket
  <2> QED BY <1>5, <2>2, <2>3, <2>4, <2>5 DEF Follows, Handed, Fit, SameSocket
<1>10. CASE ~partitioned /\ config.window # 0
  <2>1. e \in Held(d, m)
    BY <1>2, <1>10
  <2>2. /\ Sound(e) /\ Due(e) = Due(d) - 1
        /\ Cardinality(e.held) <= MAX_REORDER_WINDOW
        /\ Underway(e) \subseteq Underway(d) \cup {m}
        /\ \/ Same(d, e)
           \/ \E h \in Underway(d) \cup {m} : Saw(d, h, e)
    BY <1>6, <1>7, <2>1, HeldFollows
  <2>3. Due(e) = Due(c)
    BY <1>4, <2>2, DueIsInt DEF Fit
  <2>4. /\ SameSocket(d, e)
        /\ \/ Views(e) = Views(c)
           \/ \E h \in Underway(c) \cup {m} : Seen(Views(c), h, h.n \in e.void, Views(e))
    BY <1>5, <1>6, <2>2 DEF Same, Saw, SameSocket
  <2> QED BY <1>5, <1>6, <1>7, <2>2, <2>3, <2>4 DEF Follows, Fit, SameSocket
<1> QED BY <1>8, <1>9, <1>10

\* A delivery that was put off arrives.
LEMMA ArrivalFollows ==
  ASSUME NEW c, Fit(c), NEW x \in c.late,
         NEW e, e = Arrived([c EXCEPT !.late = @ \ {x}], x[1])
  PROVE  Follows(c, {}, e)
<1> DEFINE d == [c EXCEPT !.late = @ \ {x}]
<1>0. IsLink(c)
  BY DEF Fit, Sound
<1>1. d = [held |-> c.held, holds |-> c.holds, late |-> c.late \ {x},
           socket |-> c.socket, void |-> c.void,
           page |-> c.page, tracker |-> c.tracker, faded |-> c.faded,
           outbound |-> c.outbound, dropped |-> c.dropped,
           duplicates |-> c.duplicates, asked |-> c.asked, cleared |-> c.cleared]
  BY <1>0 DEF IsLink
<1>2. e = Arrived(d, x[1])
  BY Zenon
<1> HIDE DEF d
<1>3. IsFiniteSet(d.late) /\ Cardinality(d.late) = Cardinality(c.late) - 1
  BY <1>1, FS_RemoveElement DEF Fit, Sound
<1>4. Sound(d)
  <2>1. IsLink(d)
    BY <1>1 DEF Fit, Sound, IsLink
  <2>2. Counted(d)
    BY <1>1 DEF Fit, Sound, Counted
  <2>3. \A y \in d.late : y[2] \in {1, 2} /\ y[1] \notin d.held
    BY <1>1 DEF Fit, Sound
  <2>4. IsFiniteSet(d.held) /\ d.holds \subseteq d.held
    BY <1>1 DEF Fit, Sound
  <2> QED BY <1>3, <2>1, <2>2, <2>3, <2>4 DEF Sound
<1>5. Due(d) = Due(c) + 1
  <2>1. /\ d.outbound = c.outbound /\ d.dropped = c.dropped /\ d.duplicates = c.duplicates
        /\ d.asked = c.asked /\ d.cleared = c.cleared /\ d.held = c.held
    BY <1>1
  <2>2. Sound(c) /\ Cardinality(d.late) = Cardinality(c.late) - 1
    BY <1>3 DEF Fit
  <2> QED BY <2>1, <2>2, LinkNumbers DEF Due
<1>6. Typed(x[1]) /\ x[1] \in Underway(c)
  BY DEF Fit, Underway
<1>7. /\ Sound(e) /\ Due(e) = Due(d) - 1
      /\ e.held = d.held /\ e.late = d.late
      /\ Hears(d, x[1], e)
  BY <1>2, <1>4, <1>6, ArrivedLink
<1>8. Same(c, d) /\ d.held = c.held /\ d.late = c.late \ {x}
  BY <1>1 DEF Same, SameSocket, Views
<1>9. Due(e) = Due(c)
  BY <1>5, <1>7, DueIsInt DEF Fit
<1>10. Underway(e) \subseteq Underway(c)
  BY <1>7, <1>8 DEF Underway
<1>11. Saw(c, x[1], e)
  BY <1>7, <1>8 DEF Saw, Seen, Same, Hears, SameSocket
<1> QED BY <1>6, <1>7, <1>8, <1>9, <1>10, <1>11 DEF Follows, Fit, Saw, SameSocket

\* reset(): what the buffer held is lost, and counted as cleared.
LEMMA ResetFollows ==
  ASSUME NEW c, Fit(c),
         NEW e, e = [c EXCEPT !.held = {}, !.holds = {},
                              !.cleared = @ + Cardinality(c.held)]
  PROVE  Follows(c, {}, e)
<1>1. e = [held |-> {}, holds |-> {}, late |-> c.late,
           socket |-> c.socket, void |-> c.void,
           page |-> c.page, tracker |-> c.tracker, faded |-> c.faded,
           outbound |-> c.outbound, dropped |-> c.dropped,
           duplicates |-> c.duplicates, asked |-> c.asked,
           cleared |-> c.cleared + Cardinality(c.held)]
  BY DEF Fit, Sound, IsLink
<1>2. IsFiniteSet(e.held) /\ Cardinality(e.held) = 0
  BY <1>1, FS_EmptySet
<1>3. Sound(e)
  <2>1. IsLink(e)
    BY <1>1 DEF Fit, Sound, IsLink
  <2>2. Counted(e)
    BY <1>1, LinkNumbers DEF Fit, Counted
  <2>3. \A y \in e.late : y[2] \in {1, 2} /\ y[1] \notin e.held
    BY <1>1 DEF Fit, Sound
  <2>4. IsFiniteSet(e.late) /\ e.holds \subseteq e.held
    BY <1>1 DEF Fit, Sound
  <2> QED BY <1>2, <2>1, <2>2, <2>3, <2>4 DEF Sound
<1>4. Due(e) = Due(c)
  <2>1. /\ e.outbound = c.outbound /\ e.dropped = c.dropped /\ e.duplicates = c.duplicates
        /\ e.asked = c.asked /\ e.cleared = c.cleared + Cardinality(c.held)
        /\ e.late = c.late
    BY <1>1
  <2> QED BY <1>2, <2>1, LinkNumbers DEF Due, Fit
<1>5. Underway(e) \subseteq Underway(c)
  BY <1>1 DEF Underway
<1>6. Same(c, e)
  BY <1>1 DEF Same, SameSocket, Views
<1> QED BY <1>1, <1>2, <1>3, <1>4, <1>5, <1>6, ChaosAssumption
        DEF Follows, Fit, Same, SameSocket

\* What a link is whose socket is lost.
LEMMA LostLink ==
  ASSUME NEW c, IsLink(c), NEW gone, NEW e,
         e = [c EXCEPT !.socket = "lost", !.void = @ \cup gone]
  PROVE  e = [held |-> c.held, holds |-> c.holds, late |-> c.late,
              socket |-> "lost", void |-> c.void \cup gone,
              page |-> c.page, tracker |-> c.tracker, faded |-> c.faded,
              outbound |-> c.outbound, dropped |-> c.dropped,
              duplicates |-> c.duplicates, asked |-> c.asked, cleared |-> c.cleared]
BY DEF IsLink

\* What a link is whose page has removed a participant.
LEMMA FadedLink ==
  ASSUME NEW c, IsLink(c), NEW p, NEW e,
         e = [c EXCEPT !.page.seen = Only(@, Subjects \ {p}), !.faded = @ \cup {p}]
  PROVE  e = [held |-> c.held, holds |-> c.holds, late |-> c.late,
              socket |-> c.socket, void |-> c.void,
              page |-> [seen |-> Only(c.page.seen, Subjects \ {p}), last |-> c.page.last],
              tracker |-> c.tracker, faded |-> c.faded \cup {p},
              outbound |-> c.outbound, dropped |-> c.dropped,
              duplicates |-> c.duplicates, asked |-> c.asked, cleared |-> c.cleared]
BY DEF IsLink, IsViewRecord

\* The page's socket is lost: what is under way on it is sent in vain.
LEMMA LossFollows ==
  ASSUME NEW c, Fit(c), NEW gone, \A k \in gone : \E h \in Underway(c) : k = h.n,
         NEW e, e = [held |-> c.held, holds |-> c.holds, late |-> c.late,
                     socket |-> "lost", void |-> c.void \cup gone,
                     page |-> c.page, tracker |-> c.tracker, faded |-> c.faded,
                     outbound |-> c.outbound, dropped |-> c.dropped,
                     duplicates |-> c.duplicates, asked |-> c.asked, cleared |-> c.cleared]
  PROVE  Follows(c, {}, e)
<1>1. Sound(e) /\ Due(e) = Due(c) /\ Underway(e) = Underway(c) /\ Views(e) = Views(c)
  <2>1. Sound(c)
    BY DEF Fit
  <2> QED BY <2>1, Relabelled
<1>2. e.held = c.held /\ e.socket = "lost" /\ e.void = c.void \cup gone
  OBVIOUS
<1> QED BY <1>1, <1>2 DEF Follows, Fit, Sockets

\* The hub's end of the socket is closed.
LEMMA CloseFollows ==
  ASSUME NEW c, Fit(c), NEW e, e = [c EXCEPT !.socket = "closed"]
  PROVE  Follows(c, {}, e)
<1>1. e = [held |-> c.held, holds |-> c.holds, late |-> c.late,
           socket |-> "closed", void |-> c.void,
           page |-> c.page, tracker |-> c.tracker, faded |-> c.faded,
           outbound |-> c.outbound, dropped |-> c.dropped,
           duplicates |-> c.duplicates, asked |-> c.asked, cleared |-> c.cleared]
  BY DEF Fit, Sound, IsLink
<1>2. Sound(e) /\ Due(e) = Due(c) /\ Underway(e) = Underway(c) /\ Views(e) = Views(c)
  <2>1. Sound(c)
    BY DEF Fit
  <2> QED BY <1>1, <2>1, Relabelled
<1>3. e.held = c.held /\ e.socket = "closed" /\ e.void = c.void
  BY <1>1
<1> QED BY <1>2, <1>3 DEF Follows, Fit, Sockets

\* The page removes a participant, of which the tracker hears nothing.
LEMMA FadeFollows ==
  ASSUME NEW c, Fit(c), NEW p \in Subjects,
         NEW left, left = [seen |-> Only(c.page.seen, Subjects \ {p}), last |-> c.page.last],
         NEW e, e = [held |-> c.held, holds |-> c.holds, late |-> c.late,
                     socket |-> c.socket, void |-> c.void,
                     page |-> left, tracker |-> c.tracker, faded |-> c.faded \cup {p},
                     outbound |-> c.outbound, dropped |-> c.dropped,
                     duplicates |-> c.duplicates, asked |-> c.asked, cleared |-> c.cleared]
  PROVE  Follows(c, {}, e)
<1>1. IsViewRecord(left)
  BY DEF IsViewRecord
<1>2. Removed(Views(c), p, Views(e))
  BY DEF Removed, Views
<1>3. IsLink(e) /\ Counted(e)
  BY <1>1 DEF Fit, Sound, IsLink, Counted
<1>4. Sound(e) /\ Due(e) = Due(c) /\ Underway(e) = Underway(c)
  BY <1>3 DEF Fit, Sound, Due, Underway
<1> QED BY <1>2, <1>4 DEF Follows, Fit

---------------------------------------------------------------------------
(* What a step does to the links.                                          *)

\* Every link can be reasoned about, and its messages are numbered up to n.
Fitting ==
  /\ link = [r \in Recipients |-> link[r]]
  /\ config.window \in 0 .. MAX_REORDER_WINDOW
  /\ n \in Nat
  /\ \A r \in Recipients : Fit(link[r]) /\ \A m \in Underway(link[r]) : m.n \in 1 .. n

\* A message sent in this step: the next number; a patch unless it is announced.
Posted(m) ==
  /\ n' = n + 1 /\ m.n = n + 1
  /\ Typed(m) /\ Values(m.vals)
  /\ \/ rosterMessages' = rosterMessages + 1
     \/ /\ m.t = "patch" /\ UNCHANGED <<value, rosterMessages>>
        /\ \/ m.vals = [p \in dirty |-> value[p]]
           \/ dirty = {} /\ m.vals = settling

\* Each link comes of what it was, with the messages of F newly sent.
LinksFollow(F) ==
  /\ link' = [r \in Recipients |-> link'[r]]
  /\ \A r \in Recipients : Follows(link[r], F, link'[r])

\* A link nothing happens to comes of itself.
LEMMA SameFollows ==
  ASSUME NEW c, Fit(c), NEW F
  PROVE  Follows(c, F, c)
BY DEF Follows, Fit

\* A socket in its place does not matter to what a send makes of a link.
LEMMA ReopenedFollows ==
  ASSUME NEW c, Fit(c), NEW b, b = c \/ b = [c EXCEPT !.socket = "open"]
  PROVE  /\ Fit(b) /\ Underway(b) = Underway(c)
         /\ \A F, e : Follows(b, F, e) => Follows(c, F, e)
<1>1. CASE b = c
  BY <1>1
<1>2. CASE b = [c EXCEPT !.socket = "open"]
  <2>1. b = [held |-> c.held, holds |-> c.holds, late |-> c.late,
             socket |-> "open", void |-> c.void,
             page |-> c.page, tracker |-> c.tracker, faded |-> c.faded,
             outbound |-> c.outbound, dropped |-> c.dropped,
             duplicates |-> c.duplicates, asked |-> c.asked, cleared |-> c.cleared]
    BY <1>2 DEF Fit, Sound, IsLink
  <2>2. Sound(b) /\ Due(b) = Due(c) /\ Underway(b) = Underway(c) /\ Views(b) = Views(c)
    <3>1. Sound(c)
      BY DEF Fit
    <3> QED BY <2>1, <3>1, Relabelled
  <2>3. b.held = c.held /\ b.socket = "open" /\ b.void = c.void
    BY <2>1
  <2> QED BY <2>2, <2>3 DEF Fit, Follows, Sockets
<1> QED BY <1>1, <1>2

\* Send: the new message is accounted for at each recipient.
LEMMA SendStep ==
  ASSUME Fitting, NEW links, DOMAIN links \subseteq Recipients,
         \A r \in DOMAIN links :
           links[r] = link[r] \/ links[r] = [link[r] EXCEPT !.socket = "open"],
         NEW type \in {"patch", "join", "leave", "welcome"}, NEW vals, Values(vals),
         Send(links, type, vals),
         \/ rosterMessages' = rosterMessages + 1
         \/ /\ type = "patch" /\ UNCHANGED <<value, rosterMessages>>
            /\ \/ vals = [p \in dirty |-> value[p]]
               \/ dirty = {} /\ vals = settling
  PROVE  \E F : LinksFollow(F) /\ \A m \in F : Posted(m)
<1> DEFINE m == [n |-> n + 1, t |-> type, vals |-> vals]
           to == {r \in DOMAIN links : links[r].socket # "closed"}
<1>1. PICK next \in [to -> UNION {Sent(links[r], m) : r \in to}] :
        /\ \A r \in to : next[r] \in Sent(links[r], m)
        /\ link' = [r \in Recipients |-> IF r \in to THEN next[r] ELSE link[r]]
  BY DEF Send
<1>2. m = [n |-> n + 1, t |-> type, vals |-> vals] /\ n' = n + 1
  BY DEF Send
<1>0. to \subseteq DOMAIN links
  OBVIOUS
<1> HIDE DEF m, to
<1>3. Typed(m) /\ m.n = n + 1 /\ m.t = type /\ m.vals = vals
  BY <1>2 DEF Typed
<1>4. ASSUME NEW r \in Recipients
      PROVE  Follows(link[r], {m}, link'[r])
  <2>1. Fit(link[r]) /\ m \notin Underway(link[r])
    BY <1>3 DEF Fitting
  <2>2. CASE r \in to
    <3>1. link'[r] \in Sent(links[r], m)
      BY <1>1, <2>2
    <3>2. links[r] = link[r] \/ links[r] = [link[r] EXCEPT !.socket = "open"]
      BY <1>0, <2>2
    <3>3. /\ Fit(links[r]) /\ Underway(links[r]) = Underway(link[r])
          /\ Follows(links[r], {m}, link'[r]) => Follows(link[r], {m}, link'[r])
      BY <2>1, <3>2, ReopenedFollows
    <3>4. Follows(links[r], {m}, link'[r])
      BY <1>3, <2>1, <3>1, <3>3, SendFollows DEF Fitting
    <3> QED BY <3>3, <3>4
  <2>3. CASE r \notin to
    <3>1. link'[r] = link[r]
      BY <1>1, <2>3
    <3> QED BY <2>1, <3>1, SameFollows
  <2> QED BY <2>2, <2>3
<1>5. link' = [r \in Recipients |-> link'[r]]
  BY <1>1
<1>6. Posted(m)
  BY <1>2, <1>3 DEF Posted
<1> QED BY <1>4, <1>5, <1>6 DEF LinksFollow

\* A step of one link alone.
LEMMA BecomesStep ==
  ASSUME Fitting, NEW r \in Recipients, NEW e, Becomes(r, e), Follows(link[r], {}, e)
  PROVE  LinksFollow({})
<1>1. /\ link' = [link EXCEPT ![r] = e]
      /\ DOMAIN link = Recipients
  BY DEF Becomes, Fitting
<1>2. link' = [q \in Recipients |-> IF q = r THEN e ELSE link[q]]
  BY <1>1
<1>3. ASSUME NEW q \in Recipients
      PROVE  Follows(link[q], {}, link'[q])
  BY <1>2, SameFollows DEF Fitting
<1> QED BY <1>2, <1>3 DEF LinksFollow

\* A step that leaves the links alone.
LEMMA IdleStep ==
  ASSUME Fitting, UNCHANGED link
  PROVE  LinksFollow({})
BY SameFollows DEF Fitting, LinksFollow

\* A message to every recipient.
LEMMA BroadcastStep ==
  ASSUME Fitting, NEW type \in {"patch", "join", "leave", "welcome"},
         NEW vals, Values(vals), Send(link, type, vals),
         \/ rosterMessages' = rosterMessages + 1
         \/ /\ type = "patch" /\ UNCHANGED <<value, rosterMessages>>
            /\ \/ vals = [p \in dirty |-> value[p]]
               \/ dirty = {} /\ vals = settling
  PROVE  \E F : LinksFollow(F) /\ \A m \in F : Posted(m)
<1>1. DOMAIN link \subseteq Recipients
  BY DEF Fitting
<1> QED BY <1>1, SendStep

\* Every step sends one message at most, and every link follows.
LEMMA StepFollows ==
  ASSUME ChaosTypeOK, Fitting, [Next]_vars
  PROVE  \E F : LinksFollow(F) /\ \A m \in F : Posted(m)
<1>1. ASSUME NEW p \in Subjects, Hello(p)
      PROVE  \E F : LinksFollow(F) /\ \A m \in F : Posted(m)
  <2>1. /\ Send(link, "join", [q \in {p} |-> 0])
        /\ rosterMessages' = rosterMessages + 1
    BY <1>1 DEF Hello, Announce
  <2>2. Values([q \in {p} |-> 0])
    BY DEF Values
  <2> QED BY <2>1, <2>2, BroadcastStep
<1>2. ASSUME NEW p \in Subjects, Leave(p)
      PROVE  \E F : LinksFollow(F) /\ \A m \in F : Posted(m)
  <2>1. /\ Send(link, "leave", [q \in {p} |-> 0])
        /\ rosterMessages' = rosterMessages + 1
    BY <1>2 DEF Leave, Announce
  <2>2. Values([q \in {p} |-> 0])
    BY DEF Values
  <2> QED BY <2>1, <2>2, BroadcastStep
<1>3. ASSUME NEW r \in Recipients, Resync(r)
      PROVE  \E F : LinksFollow(F) /\ \A m \in F : Posted(m)
  <2> DEFINE links == [q \in {r} |-> [link[r] EXCEPT !.socket = "open"]]
  <2>1. /\ Send(links, "welcome", [p \in roster |-> value[p]])
        /\ rosterMessages' = rosterMessages + 1
    BY <1>3 DEF Resync, Announce
  <2>2. Values([p \in roster |-> value[p]])
    BY DEF Values, ChaosTypeOK
  <2>3. /\ DOMAIN links \subseteq Recipients
        /\ \A q \in DOMAIN links : links[q] = [link[q] EXCEPT !.socket = "open"]
    OBVIOUS
  <2> HIDE DEF links
  <2> QED BY <2>1, <2>2, <2>3, SendStep
<1>4. CASE Flush
  <2>1. /\ Send(link, "patch", [p \in dirty |-> value[p]])
        /\ UNCHANGED <<value, rosterMessages>>
    BY <1>4 DEF Flush
  <2>2. Values([p \in dirty |-> value[p]])
    BY DEF Values, ChaosTypeOK
  <2> QED BY <2>1, <2>2, BroadcastStep
<1>5. CASE Resend
  <2>1. /\ Send(link, "patch", settling) /\ dirty = {}
        /\ UNCHANGED <<value, rosterMessages>>
    BY <1>5 DEF Resend
  <2>2. Values(settling)
    BY DEF ChaosTypeOK
  <2> QED BY <2>1, <2>2, BroadcastStep
<1>6. ASSUME NEW r \in Recipients, NEW m \in link[r].holds, HoldExpires(r, m)
      PROVE  LinksFollow({})
  <2>1. PICK e \in Released(link[r], m) : Becomes(r, e)
    BY <1>6 DEF HoldExpires
  <2>2. Fit(link[r]) /\ m \in link[r].held
    BY DEF Fitting, Fit, Sound
  <2> QED BY <2>1, <2>2, ReleaseFollows, BecomesStep
<1>7. ASSUME NEW r \in Recipients, NEW d \in link[r].late, LateArrives(r, d)
      PROVE  LinksFollow({})
  <2> DEFINE e == Arrived([link[r] EXCEPT !.late = @ \ {d}], d[1])
  <2>1. Becomes(r, e)
    BY <1>7 DEF LateArrives
  <2>2. Fit(link[r])
    BY DEF Fitting
  <2>3. Follows(link[r], {}, e)
    BY <2>2, ArrivalFollows
  <2> HIDE DEF e
  <2> QED BY <2>1, <2>3, BecomesStep
<1>8. CASE Reset
  <2>1. link' = [r \in Recipients |->
          [link[r] EXCEPT !.held = {}, !.holds = {},
                          !.cleared = @ + Cardinality(link[r].held)]]
    BY <1>8 DEF Reset
  <2>2. ASSUME NEW r \in Recipients
        PROVE  Follows(link[r], {}, link'[r])
    <3>1. Fit(link[r])
      BY DEF Fitting
    <3>2. link'[r] = [link[r] EXCEPT !.held = {}, !.holds = {},
                                     !.cleared = @ + Cardinality(link[r].held)]
      BY <2>1
    <3> QED BY <3>1, <3>2, ResetFollows
  <2>3. link' = [r \in Recipients |-> link'[r]]
    BY <2>1
  <2> QED BY <2>2, <2>3 DEF LinksFollow
<1>9. CASE \/ \E p \in Subjects : Move(p)
           \/ SettleEnds \/ Configure \/ StartPartition \/ PartitionEnds
           \/ UNCHANGED vars
  <2>1. UNCHANGED link
    BY <1>9 DEF Move, SettleEnds, Configure, StartPartition, PartitionEnds, vars
  <2> QED BY <2>1, IdleStep
<1>10. ASSUME NEW r \in Recipients, SocketLost(r)
       PROVE  LinksFollow({})
  <2> DEFINE c == link[r]
             gone == {m.n : m \in Underway(c)}
             e == [c EXCEPT !.socket = "lost", !.void = @ \cup gone]
  <2>1. Becomes(r, e)
    BY <1>10 DEF SocketLost, Underway
  <2>2. Fit(c) /\ \A k \in gone : \E h \in Underway(c) : k = h.n
    BY DEF Fitting
  <2> HIDE DEF c, gone
  <2>3. e = [held |-> c.held, holds |-> c.holds, late |-> c.late,
             socket |-> "lost", void |-> c.void \cup gone,
             page |-> c.page, tracker |-> c.tracker, faded |-> c.faded,
             outbound |-> c.outbound, dropped |-> c.dropped,
             duplicates |-> c.duplicates, asked |-> c.asked, cleared |-> c.cleared]
    BY <2>2, LostLink DEF Fit, Sound
  <2> HIDE DEF e
  <2>4. Follows(c, {}, e)
    BY <2>2, <2>3, LossFollows
  <2> USE DEF c
  <2> QED BY <2>1, <2>4, BecomesStep
<1>11. ASSUME NEW r \in Recipients, CloseSeen(r)
       PROVE  LinksFollow({})
  <2> DEFINE e == [link[r] EXCEPT !.socket = "closed"]
  <2>1. Becomes(r, e)
    BY <1>11 DEF CloseSeen
  <2>2. Fit(link[r])
    BY DEF Fitting
  <2>3. Follows(link[r], {}, e)
    BY <2>2, CloseFollows
  <2> HIDE DEF e
  <2> QED BY <2>1, <2>3, BecomesStep
<1>12. ASSUME NEW r \in Recipients, NEW p \in Subjects, Fades(r, p)
       PROVE  LinksFollow({})
  <2> DEFINE c == link[r]
             left == [seen |-> Only(c.page.seen, Subjects \ {p}), last |-> c.page.last]
             e == [c EXCEPT !.page.seen = Only(@, Subjects \ {p}), !.faded = @ \cup {p}]
  <2>1. Becomes(r, e)
    BY <1>12 DEF Fades
  <2>2. Fit(c)
    BY DEF Fitting
  <2> HIDE DEF c
  <2>3. e = [held |-> c.held, holds |-> c.holds, late |-> c.late,
             socket |-> c.socket, void |-> c.void,
             page |-> left, tracker |-> c.tracker, faded |-> c.faded \cup {p},
             outbound |-> c.outbound, dropped |-> c.dropped,
             duplicates |-> c.duplicates, asked |-> c.asked, cleared |-> c.cleared]
    BY <2>2, FadedLink DEF Fit, Sound
  <2>4. left = [seen |-> Only(c.page.seen, Subjects \ {p}), last |-> c.page.last]
    OBVIOUS
  <2> HIDE DEF e, left
  <2>5. Follows(c, {}, e)
    BY <2>2, <2>3, <2>4, FadeFollows
  <2> USE DEF c
  <2> QED BY <2>1, <2>5, BecomesStep
<1> QED BY <1>1, <1>2, <1>3, <1>4, <1>5, <1>6, <1>7, <1>8, <1>9, <1>10, <1>11, <1>12
        DEF Next

---------------------------------------------------------------------------
(* What a message does to page and tracker.                                *)

\* A view whose values are numbers and whose last patch is one of the first k.
ViewUpTo(v, k) == IsViewRecord(v) /\ Values(v.seen) /\ v.last \in 0 .. k

\* A message that is one of the first k.
MessageUpTo(m, k) == Typed(m) /\ Values(m.vals) /\ m.n \in 1 .. k

\* But for whom the page has removed, the tracker lists whom the page lists, and
\* knows no value that is not shown.
Within(page, tracker, faded) ==
  /\ page.last = tracker.last
  /\ DOMAIN tracker.seen \ faded = DOMAIN page.seen \ faded
  /\ \A p \in DOMAIN tracker.seen \ faded :
       tracker.seen[p] > 0 => page.seen[p] = tracker.seen[p]

\* Upserted and Only map participants to numbers.
LEMMA SeenValues ==
  ASSUME NEW seen, Values(seen), NEW vals, Values(vals), NEW pids
  PROVE  Values(Upserted(seen, vals)) /\ Values(Only(seen, pids))
BY DEF Values, Upserted, Only

\* A message keeps page and tracker typed.
LEMMA ViewsTyped ==
  ASSUME NEW k \in Nat, NEW v, ViewUpTo(v, k), NEW m, MessageUpTo(m, k)
  PROVE  ViewUpTo(PageAfter(v, m), k) /\ ViewUpTo(Tracked(v, m), k)
<1> USE DEF ViewUpTo, MessageUpTo
<1>0. IsViewRecord(PageAfter(v, m)) /\ IsViewRecord(Tracked(v, m))
  BY ViewShapes
<1>1. /\ Values(Upserted(v.seen, m.vals))
      /\ Values(Only(v.seen, Subjects \ DOMAIN m.vals))
      /\ Values(Upserted(Only(v.seen, DOMAIN m.vals), m.vals))
  BY SeenValues
<1>2. v = [seen |-> v.seen, last |-> v.last]
  BY DEF IsViewRecord
<1>3. CASE m.t = "patch"
  BY <1>0, <1>1, <1>2, <1>3 DEF PageAfter, Tracked
<1>4. CASE m.t = "join"
  BY <1>0, <1>1, <1>2, <1>4 DEF PageAfter, Tracked
<1>5. CASE m.t = "leave"
  BY <1>0, <1>1, <1>2, <1>5 DEF PageAfter, Tracked
<1>6. CASE m.t = "welcome"
  BY <1>0, <1>1, <1>2, <1>6 DEF PageAfter, Tracked
<1> QED BY <1>3, <1>4, <1>5, <1>6 DEF Typed

\* A message leaves the tracker within the page, whatever it carries.
LEMMA StaysWithin ==
  ASSUME NEW page, IsViewRecord(page), NEW tracker, IsViewRecord(tracker),
         NEW faded, Within(page, tracker, faded), NEW m, Typed(m)
  PROVE  Within(PageAfter(page, m), Tracked(tracker, m),
                IF m.t = "welcome" THEN {} ELSE faded)
<1>1. /\ page = [seen |-> page.seen, last |-> page.last]
      /\ tracker = [seen |-> tracker.seen, last |-> tracker.last]
  BY DEF IsViewRecord
<1>2. ASSUME NEW a, NEW b, DOMAIN b \ faded = DOMAIN a \ faded, NEW vals,
             \A p \in DOMAIN b \ faded : b[p] > 0 => a[p] = b[p]
      PROVE  /\ DOMAIN Upserted(b, vals) \ faded = DOMAIN Upserted(a, vals) \ faded
             /\ \A p \in DOMAIN Upserted(b, vals) \ faded :
                  Upserted(b, vals)[p] > 0 => Upserted(a, vals)[p] = Upserted(b, vals)[p]
  BY <1>2 DEF Upserted
<1>3. ASSUME NEW a, NEW b, DOMAIN b \ faded = DOMAIN a \ faded, NEW pids,
             \A p \in DOMAIN b \ faded : b[p] > 0 => a[p] = b[p]
      PROVE  /\ DOMAIN Only(b, pids) \ faded = DOMAIN Only(a, pids) \ faded
             /\ \A p \in DOMAIN Only(b, pids) \ faded :
                  Only(b, pids)[p] > 0 => Only(a, pids)[p] = Only(b, pids)[p]
  BY <1>3 DEF Only
<1>4. CASE m.t = "patch"
  <2>1. CASE IsNews(page, m)
    <3>1. /\ PageAfter(page, m) = [seen |-> Upserted(page.seen, m.vals), last |-> m.n]
          /\ Tracked(tracker, m) = [seen |-> Upserted(tracker.seen, m.vals), last |-> m.n]
      BY <1>4, <2>1 DEF PageAfter, Tracked, IsNews, Within
    <3> QED BY <1>2, <1>4, <3>1 DEF Within
  <2>2. CASE ~IsNews(page, m)
    BY <1>4, <2>2 DEF PageAfter, Tracked, IsNews, Within
  <2> QED BY <2>1, <2>2
<1>5. CASE m.t = "join"
  <2>1. /\ PageAfter(page, m) = [seen |-> Upserted(page.seen, m.vals), last |-> page.last]
        /\ Tracked(tracker, m) = [seen |-> Upserted(tracker.seen, m.vals),
                                  last |-> tracker.last]
    BY <1>1, <1>5 DEF PageAfter, Tracked
  <2> QED BY <1>2, <1>5, <2>1 DEF Within
<1>6. CASE m.t = "leave"
  <2>1. /\ PageAfter(page, m) = [seen |-> Only(page.seen, Subjects \ DOMAIN m.vals),
                                 last |-> page.last]
        /\ Tracked(tracker, m) = [seen |-> Only(tracker.seen, Subjects \ DOMAIN m.vals),
                                  last |-> tracker.last]
    BY <1>1, <1>6 DEF PageAfter, Tracked
  <2> QED BY <1>3, <1>6, <2>1 DEF Within
<1>7. CASE m.t = "welcome"
  <2> DEFINE kept == Upserted(Only(page.seen, DOMAIN m.vals), m.vals)
  <2>1. /\ PageAfter(page, m) = [seen |-> kept, last |-> page.last]
        /\ Tracked(tracker, m) = [seen |-> m.vals, last |-> tracker.last]
    BY <1>1, <1>7 DEF PageAfter, Tracked
  <2>2. DOMAIN kept = DOMAIN m.vals
    BY DEF Upserted, Only
  <2>3. \A p \in DOMAIN m.vals : m.vals[p] > 0 => kept[p] = m.vals[p]
    BY DEF Upserted, Only
  <2> HIDE DEF kept
  <2> QED BY <1>7, <2>1, <2>2, <2>3 DEF Within
<1> QED BY <1>4, <1>5, <1>6, <1>7 DEF Typed

\* Views that are typed and, as long as nothing was sent in vain, in step.
ViewsOK(v, k, clean) ==
  /\ ViewUpTo(v.page, k) /\ ViewUpTo(v.tracker, k) /\ v.faded \subseteq Subjects
  /\ clean => Within(v.page, v.tracker, v.faded)

\* A delivery keeps them so.
LEMMA HeardIsOK ==
  ASSUME NEW k \in Nat, NEW clean \in BOOLEAN, NEW v, ViewsOK(v, k, clean),
         NEW m, MessageUpTo(m, k), NEW lost \in BOOLEAN, clean => ~lost
  PROVE  ViewsOK(Heard(v, m, lost), k, clean)
<1> DEFINE w == Heard(v, m, lost)
<1>1. /\ w.page = IF lost THEN v.page ELSE PageAfter(v.page, m)
      /\ w.tracker = Tracked(v.tracker, m)
      /\ w.faded = IF ~lost /\ m.t = "welcome" THEN {} ELSE v.faded
  BY DEF Heard
<1> HIDE DEF w
<1>2. ViewUpTo(PageAfter(v.page, m), k) /\ ViewUpTo(w.tracker, k)
  BY <1>1, ViewsTyped DEF ViewsOK
<1>3. ViewUpTo(w.page, k) /\ w.faded \subseteq Subjects
  BY <1>1, <1>2 DEF ViewsOK
<1>4. ASSUME clean PROVE Within(w.page, w.tracker, w.faded)
  <2>1. Within(PageAfter(v.page, m), Tracked(v.tracker, m),
               IF m.t = "welcome" THEN {} ELSE v.faded)
    BY <1>4, StaysWithin DEF ViewsOK, ViewUpTo, MessageUpTo
  <2> QED BY <1>1, <1>4, <2>1
<1>5. ViewsOK(w, k, clean)
  BY <1>2, <1>3, <1>4 DEF ViewsOK
<1> QED BY <1>5 DEF w

\* So does a removal, which is recorded.
LEMMA RemovedIsOK ==
  ASSUME NEW k \in Nat, NEW clean \in BOOLEAN, NEW v, ViewsOK(v, k, clean),
         NEW p \in Subjects, NEW w, Removed(v, p, w)
  PROVE  ViewsOK(w, k, clean)
<1>1. /\ w.page = [seen |-> Only(v.page.seen, Subjects \ {p}), last |-> v.page.last]
      /\ w.tracker = v.tracker /\ w.faded = v.faded \cup {p}
  BY DEF Removed
<1>2. Values(Only(v.page.seen, Subjects \ {p}))
  BY DEF ViewsOK, ViewUpTo, Values, Only
<1>3. ViewUpTo(w.page, k) /\ ViewUpTo(w.tracker, k) /\ w.faded \subseteq Subjects
  BY <1>1, <1>2 DEF ViewsOK, ViewUpTo, IsViewRecord
<1>4. ASSUME clean PROVE Within(w.page, w.tracker, w.faded)
  <2>1. /\ w.page.last = v.page.last
        /\ DOMAIN w.page.seen = DOMAIN v.page.seen \ {p}
        /\ \A q \in DOMAIN w.page.seen : w.page.seen[q] = v.page.seen[q]
    BY <1>1 DEF Only, ViewsOK, ViewUpTo, Values
  <2> QED BY <1>1, <1>4, <2>1 DEF Within, ViewsOK
<1> QED BY <1>3, <1>4 DEF ViewsOK

---------------------------------------------------------------------------
(* The invariant.                                                          *)

\* The knobs, the session and the counters.
SourceOK ==
  /\ config \in Config(0 .. MAX_REORDER_WINDOW) /\ partitioned \in BOOLEAN
  /\ roster \subseteq Subjects /\ dirty \subseteq roster
  /\ value \in [Subjects -> Nat] /\ Values(settling)
  /\ n \in Nat /\ rosterMessages \in Nat /\ moves \in Nat /\ upsets \in Nat

\* A link whose sends are accounted for, among the first k messages.
LinkOK(c, k) ==
  /\ Sound(c) /\ Due(c) = 0
  /\ Cardinality(c.held) <= MAX_REORDER_WINDOW
  /\ \A m \in Underway(c) : MessageUpTo(m, k)
  /\ c.socket \in Sockets /\ c.void \subseteq 1 .. k
  /\ ViewsOK(Views(c), k, c.void = {})

ChaosInv ==
  /\ SourceOK
  /\ link = [r \in Recipients |-> link[r]]
  /\ \A r \in Recipients : LinkOK(link[r], n)

\* The invariant says what the type invariant says, and that links can be
\* reasoned about.
LEMMA InvIsFitting ==
  ASSUME ChaosInv
  PROVE  ChaosTypeOK /\ Fitting
<1>1. ASSUME NEW r \in Recipients
      PROVE  /\ Link(link[r]) /\ Fit(link[r])
             /\ \A m \in Underway(link[r]) : m.n \in 1 .. n
  <2> DEFINE c == link[r]
  <2>1. LinkOK(c, n)
    BY DEF ChaosInv
  <2> HIDE DEF c
  <2>2. \A m \in Underway(c) : Message(m) /\ Typed(m)
    BY <2>1 DEF LinkOK, MessageUpTo, Message, Typed
  <2>3. (\A m \in c.held : Message(m)) /\ \A d \in c.late : Message(d[1])
    BY <2>2 DEF Underway
  <2>4. View(c.page) /\ View(c.tracker) /\ c.faded \subseteq Subjects
    BY <2>1 DEF LinkOK, ViewsOK, Views, ViewUpTo, View
  <2>5. Link(c)
    BY <2>1, <2>3, <2>4 DEF Link, LinkOK, Sound, Counted
  <2>6. Fit(c) /\ \A m \in Underway(c) : m.n \in 1 .. n
    BY <2>1, <2>2 DEF Fit, LinkOK, MessageUpTo
  <2> QED BY <2>5, <2>6 DEF c
<1>2. config.window \in 0 .. MAX_REORDER_WINDOW
  BY DEF ChaosInv, SourceOK, Config
<1> QED BY <1>1, <1>2 DEF ChaosInv, SourceOK, ChaosTypeOK, Fitting

\* What follows a link that is in order is in order.
LEMMA LinkKept ==
  ASSUME NEW k \in Nat, NEW j \in Nat, k <= j, NEW c, LinkOK(c, k),
         NEW F, \A m \in F : MessageUpTo(m, j), NEW e, Follows(c, F, e)
  PROVE  LinkOK(e, j)
<1>1. \A m \in Underway(c) \cup F : MessageUpTo(m, j)
  BY DEF LinkOK, MessageUpTo
<1>2. \A m \in Underway(e) : MessageUpTo(m, j)
  BY <1>1 DEF Follows
<1> DEFINE clean == e.void = {}
           v == Views(c)
<1>3. ViewsOK(v, j, clean)
  <2>1. c.void \subseteq e.void
    BY DEF Follows
  <2>2. ViewUpTo(v.page, k) => ViewUpTo(v.page, j)
    BY DEF ViewUpTo
  <2>3. ViewUpTo(v.tracker, k) => ViewUpTo(v.tracker, j)
    BY DEF ViewUpTo
  <2> HIDE DEF v
  <2> QED BY <2>1, <2>2, <2>3 DEF LinkOK, ViewsOK, v
<1>4. ViewsOK(Views(e), j, clean)
  <2>1. CASE Views(e) = v
    BY <1>3, <2>1
  <2>2. ASSUME NEW h \in Underway(c) \cup F, Seen(v, h, h.n \in e.void, Views(e))
        PROVE  ViewsOK(Views(e), j, clean)
    <3> DEFINE lost == h.n \in e.void
               once == Heard(v, h, lost)
    <3>1. MessageUpTo(h, j) /\ lost \in BOOLEAN /\ clean \in BOOLEAN /\ (clean => ~lost)
      BY <1>1
    <3>2. Views(e) = v \/ Views(e) = once \/ Views(e) = Heard(once, h, lost)
      BY <2>2 DEF Seen
    <3> HIDE DEF lost, clean, v
    <3>3. ViewsOK(once, j, clean)
      BY <1>3, <3>1, HeardIsOK
    <3> HIDE DEF once
    <3>4. ViewsOK(Heard(once, h, lost), j, clean)
      BY <3>1, <3>3, HeardIsOK
    <3> QED BY <1>3, <3>2, <3>3, <3>4
  <2>3. ASSUME NEW p \in Subjects, Removed(v, p, Views(e))
        PROVE  ViewsOK(Views(e), j, clean)
    <3>1. clean \in BOOLEAN
      OBVIOUS
    <3> HIDE DEF v, clean
    <3> QED BY <1>3, <2>3, <3>1, RemovedIsOK
  <2> QED BY <2>1, <2>2, <2>3 DEF Follows
<1>5. e.void \subseteq 1 .. j
  <2> SUFFICES ASSUME NEW x \in e.void PROVE x \in 1 .. j
    OBVIOUS
  <2>1. CASE x \in c.void
    BY <2>1 DEF LinkOK
  <2>2. CASE x \notin c.void
    <3>1. \E h \in Underway(c) \cup F : x = h.n
      BY <2>2 DEF Follows
    <3> QED BY <1>1, <3>1 DEF MessageUpTo
  <2> QED BY <2>1, <2>2
<1> QED BY <1>2, <1>4, <1>5 DEF LinkOK, Follows

\* DEFAULT_CHAOS_CONFIG is a configuration.
LEMMA CleanIsConfig == Clean \in Config(0 .. MAX_REORDER_WINDOW)
<1>1. 0 \in 0 .. MAX_REORDER_WINDOW
  BY ChaosAssumption
<1> QED BY <1>1 DEF Clean, Config

\* The start: nothing is under way, and every view is the welcome's.
LEMMA InitChaos == Init => ChaosInv
<1> SUFFICES ASSUME Init PROVE ChaosInv
  OBVIOUS
<1> DEFINE view == [seen |-> [p \in roster |-> 0], last |-> 0]
           clean == [held |-> {}, holds |-> {}, late |-> {}, socket |-> "open", void |-> {},
                     page |-> view, tracker |-> view, faded |-> {}, outbound |-> 0, dropped |-> 0, duplicates |-> 0, asked |-> 0,
                     cleared |-> 0]
<1>1. link = [r \in Recipients |-> clean]
  BY DEF Init
<1>2. SourceOK
  <2>1. config \in Config(0 .. MAX_REORDER_WINDOW)
    BY CleanIsConfig DEF Init
  <2>2. value \in [Subjects -> Nat] /\ Values(settling)
    BY DEF Init, Values
  <2> QED BY <2>1, <2>2 DEF Init, SourceOK
<1>3. ViewUpTo(view, 0) /\ Within(view, view, {})
  BY <1>2 DEF ViewUpTo, IsViewRecord, Values, Within, SourceOK
<1> HIDE DEF view
<1>4. /\ clean.held = {} /\ clean.holds = {} /\ clean.late = {}
      /\ clean.page = view /\ clean.tracker = view /\ clean.faded = {}
      /\ clean.socket = "open" /\ clean.void = {}
      /\ clean.outbound = 0 /\ clean.dropped = 0 /\ clean.duplicates = 0
      /\ clean.asked = 0 /\ clean.cleared = 0
  OBVIOUS
<1>5. IsLink(clean)
  BY <1>3 DEF IsLink, ViewUpTo
<1> HIDE DEF clean
<1>6. Sound(clean) /\ Underway(clean) = {}
  BY <1>4, <1>5, FS_EmptySet DEF Sound, Counted, Underway
<1>7. Due(clean) = 0 /\ Cardinality(clean.held) <= MAX_REORDER_WINDOW
  BY <1>4, FS_EmptySet, ChaosAssumption DEF Due
<1>8. LinkOK(clean, n)
  BY <1>3, <1>4, <1>6, <1>7 DEF LinkOK, ViewsOK, Views, Sockets, Init
<1> QED BY <1>1, <1>2, <1>8 DEF ChaosInv

\* The source's own variables keep their shapes.
LEMMA SourceStep ==
  ASSUME SourceOK, [Next]_vars
  PROVE  SourceOK' /\ n' \in {n, n + 1}
<1> USE DEF SourceOK
<1>1. ASSUME NEW p \in Subjects, Hello(p) PROVE SourceOK' /\ n' \in {n, n + 1}
  BY <1>1 DEF Hello, Announce, Send
<1>2. ASSUME NEW p \in Subjects, Leave(p) PROVE SourceOK' /\ n' \in {n, n + 1}
  BY <1>2 DEF Leave, Announce, Send
<1>3. ASSUME NEW p \in Subjects, Move(p) PROVE SourceOK' /\ n' \in {n, n + 1}
  BY <1>3 DEF Move
<1>4. ASSUME NEW r \in Recipients, Resync(r) PROVE SourceOK' /\ n' \in {n, n + 1}
  BY <1>4 DEF Resync, Announce, Send
<1>5. CASE Flush
  BY <1>5 DEF Flush, Send, Values
<1>6. CASE Resend
  BY <1>6 DEF Resend, Send
<1>7. CASE SettleEnds
  BY <1>7 DEF SettleEnds, Values
<1>8. ASSUME NEW r \in Recipients, NEW m \in link[r].holds, HoldExpires(r, m)
      PROVE  SourceOK' /\ n' \in {n, n + 1}
  BY <1>8 DEF HoldExpires, source
<1>9. ASSUME NEW r \in Recipients, NEW d \in link[r].late, LateArrives(r, d)
      PROVE  SourceOK' /\ n' \in {n, n + 1}
  BY <1>9 DEF LateArrives, source
<1>10. CASE Configure
  BY <1>10, ChaosAssumption DEF Configure, Upset, source, Config, Clamped
<1>11. CASE Reset
  <2>1. config' \in Config(0 .. MAX_REORDER_WINDOW)
    BY <1>11, CleanIsConfig DEF Reset
  <2>2. /\ partitioned' = FALSE /\ upsets' = upsets + 1
        /\ UNCHANGED <<roster, value, dirty, settling, n, rosterMessages, moves>>
    BY <1>11 DEF Reset, Upset, source
  <2>3. /\ (config \in Config(0 .. MAX_REORDER_WINDOW))'
        /\ (Values(settling))'
    BY <2>1, <2>2
  <2>4. partitioned' \in BOOLEAN
    BY <2>2
  <2>5. (upsets \in Nat)' /\ n' \in {n, n + 1}
    BY <2>2
  <2> QED BY <2>2, <2>3, <2>4, <2>5
<1>12. CASE StartPartition
  BY <1>12 DEF StartPartition, Upset, source
<1>13. CASE PartitionEnds
  BY <1>13 DEF PartitionEnds, source
<1>14. CASE UNCHANGED vars
  BY <1>14 DEF vars
<1>15. ASSUME NEW r \in Recipients, SocketLost(r) \/ CloseSeen(r)
       PROVE  SourceOK' /\ n' \in {n, n + 1}
  BY <1>15 DEF SocketLost, CloseSeen, Upset, source
<1>16. ASSUME NEW r \in Recipients, NEW p \in Subjects, Fades(r, p)
       PROVE  SourceOK' /\ n' \in {n, n + 1}
  BY <1>16 DEF Fades, Upset, source
<1> QED BY <1>1, <1>2, <1>3, <1>4, <1>5, <1>6, <1>7, <1>8, <1>9, <1>10, <1>11, <1>12,
           <1>13, <1>14, <1>15, <1>16 DEF Next

\* Every step keeps the invariant.
LEMMA ChaosStep == ChaosInv /\ [Next]_vars => ChaosInv'
<1> SUFFICES ASSUME ChaosInv, [Next]_vars PROVE ChaosInv'
  OBVIOUS
<1>1. ChaosTypeOK /\ Fitting
  BY InvIsFitting
<1>2. SourceOK' /\ n' \in {n, n + 1}
  BY SourceStep DEF ChaosInv
<1>3. n \in Nat /\ n' \in Nat /\ n <= n'
  BY <1>2 DEF SourceOK, ChaosInv
<1>4. PICK F : LinksFollow(F) /\ \A m \in F : Posted(m)
  BY <1>1, StepFollows
<1>5. \A m \in F : MessageUpTo(m, n')
  <2> SUFFICES ASSUME NEW m \in F PROVE MessageUpTo(m, n')
    OBVIOUS
  <2>1. n' = n + 1 /\ m.n = n + 1 /\ Typed(m) /\ Values(m.vals)
    BY <1>4 DEF Posted
  <2>2. m.n \in 1 .. n'
    BY <1>3, <2>1
  <2> QED BY <2>1, <2>2 DEF MessageUpTo
<1>6. ASSUME NEW r \in Recipients
      PROVE  LinkOK(link'[r], n')
  BY <1>3, <1>4, <1>5, LinkKept DEF ChaosInv, LinksFollow
<1>7. (link = [r \in Recipients |-> link[r]])'
  BY <1>4 DEF LinksFollow
<1> QED BY <1>2, <1>6, <1>7 DEF ChaosInv

\* The invariant holds in every state that can be reached.
THEOREM ChaosInvariant == Spec => []ChaosInv
BY InitChaos, ChaosStep, PTL DEF Spec

\* Every variable of the middleware, the links and the source keeps its shape.
THEOREM ChaosTypeCorrect == Spec => []ChaosTypeOK
<1>1. ChaosInv => ChaosTypeOK
  BY InvIsFitting
<1> QED BY <1>1, ChaosInvariant, PTL

\* ChaosMiddleware.ts: each send is counted as delivered or dropped, or is under
\* way, exactly once, for any number of recipients, messages and settings.
THEOREM EverySendIsAccounted == Spec => []EverySendAccounted
<1>1. ChaosInv => EverySendAccounted
  <2> SUFFICES ASSUME ChaosInv, NEW r \in Recipients
               PROVE  LET c == link[r] IN
                      c.asked + c.duplicates =
                        c.outbound + c.dropped + c.cleared
                          + Cardinality(c.held) + Cardinality(c.late)
    BY DEF EverySendAccounted
  <2>1. Sound(link[r]) /\ Due(link[r]) = 0
    BY DEF ChaosInv, LinkOK
  <2> QED BY <2>1, LinkNumbers DEF Due
<1> QED BY <1>1, ChaosInvariant, PTL

\* MAX_REORDER_WINDOW: no buffer outgrows it, though the window is turned down
\* while more is held.
THEOREM BuffersBounded == Spec => []BufferBounded
<1>1. ChaosInv => BufferBounded
  BY DEF ChaosInv, LinkOK, BufferBounded
<1> QED BY <1>1, ChaosInvariant, PTL

\* ConvergenceTracker.ts: in whatever order, and however often, messages arrive,
\* the tracker lists whom the page lists and credits it with no value it does not
\* show, but for whom the page has removed since a welcome and as long as no
\* message went to a socket that the page had left.
THEOREM TrackerStaysWithinPage == Spec => []TrackerWithinPage
<1>1. ChaosInv => TrackerWithinPage
  BY DEF ChaosInv, LinkOK, ViewsOK, Views, Within, TrackerWithinPage
<1> QED BY <1>1, ChaosInvariant, PTL

---------------------------------------------------------------------------
(* Patches never go back, as long as there is nothing else.                *)

\* Of the messages U on their way to a page: they are patches, a later one is no
\* older, none is newer than the session's values, and one that would count as
\* news is no older than what the page shows.
Ordered(U, page, val) ==
  /\ \A m \in U : m.t = "patch" /\ \A p \in DOMAIN m.vals : m.vals[p] <= val[p]
  /\ \A m1, m2 \in U : m1.n < m2.n =>
       \A p \in DOMAIN m1.vals \cap DOMAIN m2.vals : m1.vals[p] <= m2.vals[p]
  /\ \A p \in DOMAIN page.seen : page.seen[p] <= val[p]
  /\ \A m \in U : m.n > page.last =>
       \A p \in DOMAIN page.seen \cap DOMAIN m.vals : page.seen[p] <= m.vals[p]

\* The session's side: the values count moves, and what the settle window repeats
\* is current but for whom a tick will flush.
PatchOrder ==
  rosterMessages = 0 =>
    /\ \A p \in Subjects : value[p] <= moves
    /\ \A p \in DOMAIN settling \ dirty : settling[p] = value[p]
    /\ \A r \in Recipients : Ordered(Underway(link[r]), link[r].page, value)

\* A page shows nobody older, of those it goes on showing.
Advances(page, next) ==
  \A p \in DOMAIN page.seen \cap DOMAIN next.seen : next.seen[p] >= page.seen[p]

\* A page shows nobody less, or older.
Grows(page, next) ==
  \A p \in DOMAIN page.seen : p \in DOMAIN next.seen /\ next.seen[p] >= page.seen[p]

\* A patch with the current values comes after every other.
LEMMA FreshIsOrdered ==
  ASSUME NEW k \in Nat, NEW U, \A m \in U : MessageUpTo(m, k),
         NEW page, ViewUpTo(page, k), NEW val \in [Subjects -> Nat],
         Ordered(U, page, val), NEW F,
         \A m \in F : /\ m.n = k + 1 /\ m.t = "patch" /\ Values(m.vals)
                      /\ \A p \in DOMAIN m.vals : m.vals[p] = val[p]
  PROVE  Ordered(U \cup F, page, val)
<1> DEFINE all == U \cup F
<1>1. \A m \in all : m.t = "patch" /\ \A p \in DOMAIN m.vals : m.vals[p] <= val[p]
  BY DEF Ordered, Values
<1>2. ASSUME NEW m1 \in all, NEW m2 \in all, m1.n < m2.n,
             NEW p \in DOMAIN m1.vals \cap DOMAIN m2.vals
      PROVE  m1.vals[p] <= m2.vals[p]
  <2>1. CASE m2 \in F
    <3>1. m2.vals[p] = val[p]
      BY <1>2, <2>1
    <3> QED BY <1>1, <1>2, <3>1
  <2>2. CASE m1 \in U /\ m2 \in U
    BY <1>2, <2>2 DEF Ordered
  <2>3. CASE m1 \in F /\ m2 \in U
    <3>1. m1.n = k + 1 /\ m2.n \in 1 .. k
      BY <2>3 DEF MessageUpTo
    <3> QED BY <1>2, <3>1
  <2> QED BY <2>1, <2>2, <2>3
<1>3. ASSUME NEW m \in all, m.n > page.last, NEW p \in DOMAIN page.seen \cap DOMAIN m.vals
      PROVE  page.seen[p] <= m.vals[p]
  <2>1. CASE m \in U
    BY <1>3, <2>1 DEF Ordered
  <2>2. CASE m \in F
    <3>1. m.vals[p] = val[p]
      BY <1>3, <2>2
    <3>2. page.seen[p] <= val[p]
      BY <1>3 DEF Ordered
    <3> QED BY <3>1, <3>2
  <2> QED BY <2>1, <2>2
<1>4. \A p \in DOMAIN page.seen : page.seen[p] <= val[p]
  BY DEF Ordered
<1> QED BY <1>1, <1>2, <1>3, <1>4 DEF Ordered

\* A patch that arrives takes nobody back, and what is still to come stays in order.
LEMMA PatchArrives ==
  ASSUME NEW k \in Nat, NEW U, \A m \in U : MessageUpTo(m, k),
         NEW page, ViewUpTo(page, k), NEW val, Ordered(U, page, val), NEW h \in U
  PROVE  Grows(page, PageAfter(page, h)) /\ Ordered(U, PageAfter(page, h), val)
<1> DEFINE next == PageAfter(page, h)
<1>1. h.t = "patch" /\ h.n \in 1 .. k /\ page.last \in 0 .. k
  BY DEF Ordered, MessageUpTo, ViewUpTo
<1>2. CASE ~(h.n > page.last)
  <2>1. next = page
    BY <1>1, <1>2 DEF PageAfter, IsNews
  <2> HIDE DEF next
  <2>2. Grows(page, page)
    BY DEF Grows, ViewUpTo, Values
  <2> QED BY <2>1, <2>2 DEF next
<1>3. CASE h.n > page.last
  <2>1. next = [seen |-> Upserted(page.seen, h.vals), last |-> h.n]
    BY <1>1, <1>3 DEF PageAfter, IsNews
  <2>2. /\ next.last = h.n
        /\ DOMAIN next.seen = DOMAIN page.seen \cup DOMAIN h.vals
        /\ \A p \in DOMAIN next.seen :
             next.seen[p] = IF p \in DOMAIN h.vals /\ (h.vals[p] > 0 \/ p \notin DOMAIN page.seen)
                            THEN h.vals[p] ELSE page.seen[p]
    BY <2>1 DEF Upserted
  <2> HIDE DEF next
  <2>3. Grows(page, next)
    <3> SUFFICES ASSUME NEW p \in DOMAIN page.seen
                 PROVE  p \in DOMAIN next.seen /\ next.seen[p] >= page.seen[p]
      BY DEF Grows
    <3>1. page.seen[p] \in Nat
      BY DEF ViewUpTo, Values
    <3>2. CASE p \in DOMAIN h.vals
      <4>1. page.seen[p] <= h.vals[p] /\ h.vals[p] \in Nat
        BY <1>3, <3>2 DEF Ordered, MessageUpTo, Values
      <4> QED BY <2>2, <3>1, <4>1
    <3>3. CASE p \notin DOMAIN h.vals
      BY <2>2, <3>1, <3>3
    <3> QED BY <3>2, <3>3
  <2>4. \A p \in DOMAIN next.seen : next.seen[p] <= val[p]
    BY <2>2 DEF Ordered
  <2>5. ASSUME NEW m \in U, m.n > next.last, NEW p \in DOMAIN next.seen \cap DOMAIN m.vals
        PROVE  next.seen[p] <= m.vals[p]
    <3>1. h.n < m.n /\ m.n > page.last
      BY <1>1, <1>3, <2>2, <2>5 DEF MessageUpTo
    <3>2. p \in DOMAIN h.vals => h.vals[p] <= m.vals[p]
      BY <2>5, <3>1 DEF Ordered
    <3>3. p \in DOMAIN page.seen => page.seen[p] <= m.vals[p]
      BY <2>5, <3>1 DEF Ordered
    <3> QED BY <2>2, <2>5, <3>2, <3>3
  <2>6. Ordered(U, next, val)
    BY <2>4, <2>5 DEF Ordered
  <2> QED BY <2>3, <2>6 DEF next
<1> QED BY <1>2, <1>3

\* Growing twice is growing.
LEMMA GrowsOn ==
  ASSUME NEW a, NEW b, NEW d, NEW k, ViewUpTo(a, k), ViewUpTo(b, k), ViewUpTo(d, k),
         Grows(a, b), Grows(b, d)
  PROVE  Grows(a, d)
BY DEF Grows, ViewUpTo, Values

\* What follows a link whose patches are in order has its own in order.
LEMMA OrderKept ==
  ASSUME NEW k \in Nat, NEW c, LinkOK(c, k), NEW val \in [Subjects -> Nat],
         Ordered(Underway(c), c.page, val), NEW F,
         \A m \in F : /\ m.n = k + 1 /\ m.t = "patch" /\ Values(m.vals)
                      /\ \A p \in DOMAIN m.vals : m.vals[p] = val[p],
         NEW e, Follows(c, F, e)
  PROVE  Advances(c.page, e.page) /\ Ordered(Underway(e), e.page, val)
<1> DEFINE U == Underway(c) \cup F
           j == k + 1
<1>1. ViewUpTo(c.page, k) /\ \A m \in Underway(c) : MessageUpTo(m, k)
  BY DEF LinkOK, ViewsOK, Views
<1>2. Ordered(U, c.page, val)
  BY <1>1, FreshIsOrdered
<1>3. \A m \in U : MessageUpTo(m, j)
  <2>1. \A m \in Underway(c) : MessageUpTo(m, j)
    BY <1>1 DEF MessageUpTo
  <2>2. \A m \in F : MessageUpTo(m, j)
    BY DEF MessageUpTo, Typed
  <2> QED BY <2>1, <2>2
<1>4. ViewUpTo(c.page, j)
  BY <1>1 DEF ViewUpTo
<1>5. Underway(e) \subseteq U /\ j \in Nat
  BY DEF Follows
<1> HIDE DEF U, j
<1>6. Advances(c.page, e.page) /\ Ordered(U, e.page, val)
  <2>0. Views(c).page = c.page /\ Views(e).page = e.page
    BY DEF Views
  <2>1. CASE e.page = c.page
    <3>1. Advances(c.page, c.page)
      BY <1>4 DEF Advances, ViewUpTo, Values
    <3> QED BY <1>2, <2>1, <3>1
  <2>2. ASSUME NEW h \in U, NEW lost, Seen(Views(c), h, lost, Views(e))
        PROVE  Advances(c.page, e.page) /\ Ordered(U, e.page, val)
    <3> DEFINE one == PageAfter(c.page, h)
               two == PageAfter(one, h)
    <3>1. Grows(c.page, one) /\ Ordered(U, one, val) /\ ViewUpTo(one, j)
      BY <1>2, <1>3, <1>4, <1>5, PatchArrives, ViewsTyped
    <3>2. e.page = c.page \/ e.page = one \/ e.page = two
      BY <2>0, <2>2 DEF Seen, Heard
    <3> HIDE DEF one
    <3>3. Grows(one, two) /\ Ordered(U, two, val) /\ ViewUpTo(two, j)
      BY <1>3, <1>5, <3>1, PatchArrives, ViewsTyped
    <3> HIDE DEF two
    <3>4. Grows(c.page, two)
      BY <1>4, <3>1, <3>3, GrowsOn
    <3> QED BY <2>1, <3>1, <3>2, <3>3, <3>4 DEF Grows, Advances
  <2>3. ASSUME NEW p \in Subjects, Removed(Views(c), p, Views(e))
        PROVE  Advances(c.page, e.page) /\ Ordered(U, e.page, val)
    <3>1. e.page = [seen |-> Only(c.page.seen, Subjects \ {p}), last |-> c.page.last]
      BY <2>0, <2>3 DEF Removed
    <3>2. /\ e.page.last = c.page.last
          /\ DOMAIN e.page.seen \subseteq DOMAIN c.page.seen
          /\ \A q \in DOMAIN e.page.seen : e.page.seen[q] = c.page.seen[q]
      BY <3>1 DEF Only
    <3>3. \A q \in DOMAIN c.page.seen : c.page.seen[q] \in Nat
      BY <1>4 DEF ViewUpTo, Values
    <3> QED BY <1>2, <3>2, <3>3 DEF Advances, Ordered
  <2> QED BY <2>0, <2>1, <2>2, <2>3 DEF Follows, U
<1> QED BY <1>5, <1>6 DEF Ordered

\* Values that grow leave patches in order.
LEMMA ValuesGrow ==
  ASSUME NEW k, NEW U, \A m \in U : MessageUpTo(m, k), NEW page, ViewUpTo(page, k),
         NEW val \in [Subjects -> Nat], NEW new \in [Subjects -> Nat],
         \A p \in Subjects : val[p] <= new[p], Ordered(U, page, val)
  PROVE  Ordered(U, page, new)
BY DEF Ordered, MessageUpTo, ViewUpTo, Values

\* The session's side: no value goes back unless somebody leaves.
LEMMA SourceOrder ==
  ASSUME SourceOK, PatchOrder, [Next]_vars, rosterMessages' = 0
  PROVE  /\ rosterMessages = 0
         /\ \A p \in Subjects : value[p] <= value'[p] /\ value'[p] <= moves'
         /\ \A p \in DOMAIN settling' \ dirty' : settling'[p] = value'[p]
<1> USE DEF SourceOK, PatchOrder
<1>1. \A p \in Subjects : value[p] \in Nat
  OBVIOUS
<1>2. ASSUME NEW p \in Subjects, Move(p)
      PROVE  /\ rosterMessages = 0
             /\ \A q \in Subjects : value[q] <= value'[q] /\ value'[q] <= moves'
             /\ \A q \in DOMAIN settling' \ dirty' : settling'[q] = value'[q]
  BY <1>1, <1>2 DEF Move, Values
<1>3. CASE Flush
  BY <1>1, <1>3 DEF Flush, Send
<1>4. CASE Resend
  BY <1>1, <1>4 DEF Resend, Send
<1>5. CASE SettleEnds
  BY <1>1, <1>5 DEF SettleEnds
<1>6. CASE \/ \E r \in Recipients : \E m \in link[r].holds : HoldExpires(r, m)
           \/ \E r \in Recipients : \E d \in link[r].late : LateArrives(r, d)
           \/ \E r \in Recipients : SocketLost(r) \/ CloseSeen(r)
           \/ \E r \in Recipients : \E p \in Subjects : Fades(r, p)
           \/ Configure \/ Reset \/ StartPartition \/ PartitionEnds \/ UNCHANGED vars
  <2>1. UNCHANGED source
    BY <1>6 DEF HoldExpires, LateArrives, SocketLost, CloseSeen, Fades, Configure, Reset,
                StartPartition, PartitionEnds, source, vars
  <2> QED BY <1>1, <2>1 DEF source
<1>7. ASSUME \/ \E p \in Subjects : Hello(p) \/ Leave(p)
             \/ \E r \in Recipients : Resync(r)
      PROVE  FALSE
  <2>1. rosterMessages' = rosterMessages + 1
    BY <1>7 DEF Hello, Leave, Resync, Announce
  <2> QED BY <2>1
<1> QED BY <1>2, <1>3, <1>4, <1>5, <1>6, <1>7 DEF Next

\* Every step without a roster message keeps the order and takes no page back.
LEMMA OrderStep ==
  ASSUME ChaosInv, PatchOrder, [Next]_vars
  PROVE  /\ PatchOrder'
         /\ rosterMessages' = 0 =>
              \A r \in Recipients : Advances(link[r].page, link'[r].page)
<1> SUFFICES ASSUME rosterMessages' = 0
             PROVE  /\ PatchOrder'
                    /\ \A r \in Recipients : Advances(link[r].page, link'[r].page)
  BY DEF PatchOrder
<1>1. SourceOK /\ SourceOK'
  BY SourceStep DEF ChaosInv
<1>2. /\ rosterMessages = 0
      /\ \A p \in Subjects : value[p] <= value'[p] /\ value'[p] <= moves'
      /\ \A p \in DOMAIN settling' \ dirty' : settling'[p] = value'[p]
  BY <1>1, SourceOrder
<1>3. PICK F : LinksFollow(F) /\ \A m \in F : Posted(m)
  BY InvIsFitting, StepFollows
<1>4. \A m \in F : /\ m.n = n + 1 /\ m.t = "patch" /\ Values(m.vals)
                   /\ \A p \in DOMAIN m.vals : m.vals[p] = value[p]
  <2> SUFFICES ASSUME NEW m \in F
               PROVE  /\ m.n = n + 1 /\ m.t = "patch" /\ Values(m.vals)
                      /\ \A p \in DOMAIN m.vals : m.vals[p] = value[p]
    OBVIOUS
  <2>1. Posted(m) /\ rosterMessages' # rosterMessages + 1
    BY <1>2, <1>3
  <2>2. \/ m.vals = [p \in dirty |-> value[p]]
        \/ dirty = {} /\ m.vals = settling
    BY <2>1 DEF Posted
  <2>3. \A p \in DOMAIN m.vals : m.vals[p] = value[p]
    BY <1>2, <2>2 DEF PatchOrder
  <2> QED BY <2>1, <2>3 DEF Posted
<1>5. ASSUME NEW r \in Recipients
      PROVE  /\ Advances(link[r].page, link'[r].page)
             /\ Ordered(Underway(link'[r]), link'[r].page, value')
  <2>1. LinkOK(link[r], n) /\ n \in Nat /\ value \in [Subjects -> Nat]
    BY DEF ChaosInv, SourceOK
  <2>2. Ordered(Underway(link[r]), link[r].page, value)
    BY <1>2 DEF PatchOrder
  <2>3. Follows(link[r], F, link'[r])
    BY <1>3 DEF LinksFollow
  <2>4. /\ Advances(link[r].page, link'[r].page)
        /\ Ordered(Underway(link'[r]), link'[r].page, value)
    BY <1>4, <2>1, <2>2, <2>3, OrderKept
  <2>5. LinkOK(link'[r], n') /\ value' \in [Subjects -> Nat]
    <3>1. ChaosInv'
      BY ChaosStep
    <3> QED BY <1>1, <3>1 DEF ChaosInv, SourceOK
  <2>6. /\ \A m \in Underway(link'[r]) : MessageUpTo(m, n')
        /\ ViewUpTo(link'[r].page, n')
    BY <2>5 DEF LinkOK, ViewsOK, Views
  <2>7. Ordered(Underway(link'[r]), link'[r].page, value')
    BY <1>2, <2>1, <2>4, <2>5, <2>6, ValuesGrow
  <2> QED BY <2>4, <2>7
<1>6. PatchOrder'
  BY <1>2, <1>5 DEF PatchOrder
<1> QED BY <1>5, <1>6

\* At the start nothing has moved and nothing is under way.
LEMMA InitOrder == Init => PatchOrder
<1> SUFFICES ASSUME Init PROVE PatchOrder
  OBVIOUS
<1>1. ASSUME NEW r \in Recipients
      PROVE  Ordered(Underway(link[r]), link[r].page, value)
  <2>1. /\ link[r].page = [seen |-> [p \in roster |-> 0], last |-> 0]
        /\ link[r].held = {} /\ link[r].late = {}
        /\ roster \subseteq Subjects /\ value = [p \in Subjects |-> 0]
    BY DEF Init
  <2>2. Underway(link[r]) = {}
    BY <2>1 DEF Underway
  <2> QED BY <2>1, <2>2 DEF Ordered
<1>2. (\A p \in Subjects : value[p] <= moves) /\ DOMAIN settling = {}
  BY DEF Init
<1> QED BY <1>1, <1>2 DEF PatchOrder

\* FAILURE-MODES, reordered patch: through every order, delay, repetition and
\* loss, patches never take a participant that a page shows back to an older value.
THEOREM PatchesOnlyAdvance == Spec => PatchesNeverGoBack
<1> DEFINE Inv == ChaosInv /\ PatchOrder
           Advance == rosterMessages' = 0 =>
             \A r \in Recipients :
               \A p \in DOMAIN link[r].page.seen \cap DOMAIN link'[r].page.seen :
                 link'[r].page.seen[p] >= link[r].page.seen[p]
<1>1. Init => Inv
  BY InitChaos, InitOrder
<1>2. Inv /\ [Next]_vars => Inv'
  BY ChaosStep, OrderStep
<1>3. Inv /\ [Next]_vars => [Advance]_vars
  <2> SUFFICES ASSUME Inv, [Next]_vars PROVE Advance
    OBVIOUS
  <2> QED BY OrderStep DEF Advances
<1> HIDE DEF Inv
<1>4. Spec => [][Advance]_vars
  BY <1>1, <1>2, <1>3, PTL DEF Spec
<1> QED BY <1>4 DEF PatchesNeverGoBack

====
