---- MODULE RoomProofs ----
(***************************************************************************)
(* Server, network and page together: proved for pages that keep to one    *)
(* session, whatever the number of participants, of sockets, of moves and  *)
(* of reconnects, as long as the server lives.                             *)
(***************************************************************************)
EXTENDS Room, ServerProofs, FiniteSetTheorems

---------------------------------------------------------------------------
(* Sequences.                                                              *)

IsQueue(w) == \E S : w \in Seq(S)

\* One queue after another.
LEMMA Joined ==
  ASSUME NEW w, IsQueue(w), NEW b, IsQueue(b)
  PROVE  /\ IsQueue(w \o b)
         /\ Len(w) \in Nat /\ Len(b) \in Nat
         /\ Len(w \o b) = Len(w) + Len(b)
         /\ DOMAIN w = 1 .. Len(w) /\ DOMAIN b = 1 .. Len(b)
         /\ DOMAIN (w \o b) = 1 .. Len(w) + Len(b)
         /\ \A i \in 1 .. Len(w) : (w \o b)[i] = w[i]
         /\ \A i \in Len(w) + 1 .. Len(w) + Len(b) : (w \o b)[i] = b[i - Len(w)]
<1>1. PICK S : w \in Seq(S)
  BY DEF IsQueue
<1>2. PICK T : b \in Seq(T)
  BY DEF IsQueue
<1>3. w \in Seq(S \cup T) /\ b \in Seq(S \cup T)
  BY <1>1, <1>2
<1>4. w \o b \in Seq(S \cup T)
  BY <1>3
<1> QED BY <1>3, <1>4 DEF IsQueue

\* A queue without its first element.
LEMMA Shortened ==
  ASSUME NEW w, IsQueue(w), w # <<>>
  PROVE  /\ Len(w) \in Nat /\ Len(w) >= 1
         /\ DOMAIN w = 1 .. Len(w)
         /\ Head(w) = w[1]
         /\ IsQueue(Tail(w))
         /\ Len(Tail(w)) = Len(w) - 1
         /\ DOMAIN Tail(w) = 1 .. Len(w) - 1
         /\ \A i \in 1 .. Len(w) - 1 : Tail(w)[i] = w[i + 1]
<1>1. PICK S : w \in Seq(S)
  BY DEF IsQueue
<1>2. Tail(w) \in Seq(S)
  BY <1>1
<1> QED BY <1>1, <1>2 DEF IsQueue

\* What is numbered from 1 is a queue.
LEMMA Numbered ==
  ASSUME NEW S, NEW n \in Nat, NEW burst \in [1 .. n -> S]
  PROVE  /\ burst \in Seq(S) /\ Len(burst) = n
         /\ \A i \in 1 .. n : burst[i] \in S
  OBVIOUS

\* No message, or one, makes an empty queue, or one of one message.
LEMMA SmallBursts ==
  ASSUME NEW S, NEW burst \in SetToSeqs(S)
  PROVE  /\ S = {} => IsQueue(burst) /\ Len(burst) = 0
         /\ \A m : S = {m} => IsQueue(burst) /\ Len(burst) = 1 /\ burst[1] = m
<1>1. burst \in [1 .. Cardinality(S) -> S]
  BY DEF SetToSeqs
<1>2. CASE S = {}
  <2>1. Cardinality(S) = 0
    BY <1>2, FS_EmptySet
  <2> QED BY <1>1, <1>2, <2>1, Numbered DEF IsQueue
<1>3. ASSUME NEW m, S = {m}
      PROVE  IsQueue(burst) /\ Len(burst) = 1 /\ burst[1] = m
  <2>1. Cardinality(S) = 1
    BY <1>3, FS_Singleton
  <2>2. burst \in [1 .. 1 -> S]
    BY <1>1, <2>1
  <2>3. burst \in Seq(S) /\ Len(burst) = 1 /\ \A i \in 1 .. 1 : burst[i] \in S
    BY <2>2, Numbered
  <2> QED BY <1>3, <2>3 DEF IsQueue
<1> QED BY <1>2, <1>3

\* Any finite number of messages makes a queue of them.
LEMMA FiniteBursts ==
  ASSUME NEW S, IsFiniteSet(S), NEW burst \in SetToSeqs(S)
  PROVE  IsQueue(burst) /\ \A i \in 1 .. Len(burst) : burst[i] \in S
<1>1. burst \in [1 .. Cardinality(S) -> S]
  BY DEF SetToSeqs
<1>2. Cardinality(S) \in Nat
  BY FS_CardinalityType
<1> QED BY <1>1, <1>2, Numbered DEF IsQueue

---------------------------------------------------------------------------
(* What a message makes of what is drawn.                                  *)

\* The messages of a session are all a page of this model is sent.
Notices == {"welcome", "join", "leave", "patch"}
IsNotice(m) == IsMessage(m) /\ m.t \in Notices

\* What it says of participants: the roster of a welcome, the changes of a patch.
Content(m) ==
  IF m.t = "welcome" THEN m.roster ELSE IF m.t = "patch" THEN m.patches ELSE NoEntries
Speaks(m, q, f) == q \in DOMAIN Content(m) /\ f \in DOMAIN Content(m)[q]
Shows(m, q) == q \in DOMAIN Content(m) \/ (m.t = "join" /\ m.pid = q)
Erases(m, q) ==
  \/ m.t = "welcome" /\ q \notin DOMAIN m.roster
  \/ m.t = "leave" /\ m.pid = q
\* Who is drawn after a message, and how.
LEMMA RenderedShape ==
  ASSUME NEW m, IsNotice(m), m.t = "patch" => IsNews(m), Viewer \notin DOMAIN remotes,
         NEW rem, rem = Rendered(m)
  PROVE  /\ \A q : q \in DOMAIN rem <=>
                     q # Viewer /\ (Shows(m, q) \/ (q \in DOMAIN remotes /\ ~Erases(m, q)))
         /\ \A q \in DOMAIN rem :
              /\ Shows(m, q) =>
                   \E values : /\ rem[q] = Upserted(q, values)
                               /\ IF q \in DOMAIN Content(m) THEN values = Content(m)[q]
                                   ELSE values = NoEntries
              /\ ~Shows(m, q) => rem[q] = remotes[q]
         /\ rem = [q \in DOMAIN rem |-> rem[q]]
<1>1. CASE m.t = "welcome"
  <2>1. rem = SeedRoster(m.roster)
    BY <1>1 DEF Rendered
  <2>2. Content(m) = m.roster
    BY <1>1 DEF Content
  <2> QED BY <1>1, <2>1, <2>2 DEF SeedRoster, UpsertAll, Shows, Erases
<1>2. CASE m.t = "join"
  <2>1. rem = UpsertAll(DOMAIN remotes, [q \in {m.pid} |-> NoEntries])
    BY <1>2 DEF Rendered
  <2>2. DOMAIN Content(m) = {}
    BY <1>2, EmptyTable DEF Content
  <2> QED BY <1>2, <2>1, <2>2 DEF UpsertAll, Shows, Erases
<1>3. CASE m.t = "leave"
  <2>1. rem = Drop(remotes, {m.pid})
    BY <1>3 DEF Rendered
  <2>2. DOMAIN Content(m) = {}
    BY <1>3, EmptyTable DEF Content
  <2> QED BY <1>3, <2>1, <2>2 DEF Drop, Restrict, Shows, Erases
<1>4. CASE m.t = "patch"
  <2>1. rem = UpsertAll(DOMAIN remotes, m.patches)
    BY <1>4 DEF Rendered
  <2>2. Content(m) = m.patches
    BY <1>4 DEF Content
  <2> QED BY <1>4, <2>1, <2>2 DEF UpsertAll, Shows, Erases
<1> QED BY <1>1, <1>2, <1>3, <1>4 DEF IsNotice, Notices

\* The values drawn: those of the message, else those drawn before.
LEMMA RenderedValues ==
  ASSUME NEW m, IsNotice(m), m.t = "patch" => IsNews(m), Viewer \notin DOMAIN remotes,
         NEW rem, rem = Rendered(m), NEW q \in DOMAIN rem, NEW f
  PROVE  /\ f \in DOMAIN rem[q].values <=>
               Speaks(m, q, f) \/ (q \in DOMAIN remotes /\ f \in DOMAIN remotes[q].values)
         /\ Speaks(m, q, f) => rem[q].values[f] = Content(m)[q][f]
         /\ ~Speaks(m, q, f) /\ f \in DOMAIN rem[q].values =>
              rem[q].values[f] = remotes[q].values[f]
<1>1. CASE Shows(m, q)
  <2>1. PICK values : /\ rem[q] = Upserted(q, values)
                      /\ IF q \in DOMAIN Content(m) THEN values = Content(m)[q]
                         ELSE values = NoEntries
    BY <1>1, RenderedShape
  <2> DEFINE old == IF q \in DOMAIN remotes THEN remotes[q].values ELSE NoEntries
  <2>2. rem[q].values = [g \in DOMAIN old \cup DOMAIN values |->
                           IF g \in DOMAIN values THEN values[g] ELSE old[g]]
    BY <2>1 DEF Upserted
  <2>3. f \in DOMAIN values <=> Speaks(m, q, f)
    BY <2>1, EmptyTable DEF Speaks
  <2>4. f \in DOMAIN old <=> q \in DOMAIN remotes /\ f \in DOMAIN remotes[q].values
    BY EmptyTable
  <2>5. q \in DOMAIN remotes => old = remotes[q].values
    OBVIOUS
  <2>6. Speaks(m, q, f) => values = Content(m)[q]
    BY <2>1 DEF Speaks
  <2> HIDE DEF old
  <2> QED BY <2>2, <2>3, <2>4, <2>5, <2>6
<1>2. CASE ~Shows(m, q)
  <2>1. ~Speaks(m, q, f)
    BY <1>2 DEF Shows, Speaks
  <2>2. rem[q] = remotes[q] /\ q \in DOMAIN remotes
    BY <1>2, RenderedShape
  <2> QED BY <2>1, <2>2
<1> QED BY <1>1, <1>2

---------------------------------------------------------------------------
(* What is drawn, or on its way to be drawn.                               *)

\* A message that shows value v in field f of q, or shows no other and does not
\* take it away; "faded" says that the page may have taken it away itself.
Keeps(m, q, f, v, faded) ==
  /\ Speaks(m, q, f) => Content(m)[q][f] = v
  /\ Erases(m, q) => faded
Tells(m, q, f, v, faded) ==
  \/ Speaks(m, q, f) /\ Content(m)[q][f] = v
  \/ Erases(m, q) /\ faded
Drawn(rem, q, f, v, faded) ==
  IF q \in DOMAIN rem /\ f \in DOMAIN rem[q].values THEN rem[q].values[f] = v ELSE faded

\* Once the page has received all of w it draws v: something on the way, or on
\* the page, says so and nothing after it says otherwise.
ComesTrue(w, rem, q, f, v, faded) ==
  \E k \in 0 .. Len(w) :
    /\ IF k = 0 THEN Drawn(rem, q, f, v, faded) ELSE Tells(w[k], q, f, v, faded)
    /\ \A j \in (k + 1) .. Len(w) : Keeps(w[j], q, f, v, faded)

\* Once the page has received all of w it draws q.
ComesUp(w, rem, q, faded) ==
  \/ faded
  \/ \E k \in 0 .. Len(w) :
       /\ IF k = 0 THEN q \in DOMAIN rem ELSE Shows(w[k], q)
       /\ \A j \in (k + 1) .. Len(w) : ~Erases(w[j], q)

\* One message rendered: what it tells is drawn, and what it keeps.
LEMMA RenderedDraws ==
  ASSUME NEW m, IsNotice(m), m.t = "patch" => IsNews(m), Viewer \notin DOMAIN remotes,
         NEW rem, rem = Rendered(m), NEW q, q # Viewer, NEW f, NEW v, NEW faded \in BOOLEAN
  PROVE  /\ Tells(m, q, f, v, faded) => Drawn(rem, q, f, v, faded)
         /\ Drawn(remotes, q, f, v, faded) /\ Keeps(m, q, f, v, faded) =>
              Drawn(rem, q, f, v, faded)
         /\ Shows(m, q) => q \in DOMAIN rem
         /\ q \in DOMAIN remotes /\ ~Erases(m, q) => q \in DOMAIN rem
<1>1. q \in DOMAIN rem <=> Shows(m, q) \/ (q \in DOMAIN remotes /\ ~Erases(m, q))
  BY RenderedShape
<1>2. Speaks(m, q, f) => Shows(m, q)
  BY DEF Speaks, Shows
<1>3. Erases(m, q) => ~Shows(m, q)
  BY EmptyTable DEF Erases, Shows, Content
<1>4. CASE q \in DOMAIN rem
  <2>1. /\ f \in DOMAIN rem[q].values <=>
             Speaks(m, q, f) \/ (q \in DOMAIN remotes /\ f \in DOMAIN remotes[q].values)
        /\ Speaks(m, q, f) => rem[q].values[f] = Content(m)[q][f]
        /\ ~Speaks(m, q, f) /\ f \in DOMAIN rem[q].values =>
             rem[q].values[f] = remotes[q].values[f]
    BY <1>4, RenderedValues
  <2> QED BY <1>1, <1>2, <1>3, <1>4, <2>1 DEF Tells, Keeps, Drawn
<1>5. CASE q \notin DOMAIN rem
  BY <1>1, <1>2, <1>3, <1>5 DEF Tells, Keeps, Drawn
<1> QED BY <1>4, <1>5
\* Receiving the first message changes nothing of what is to come true.
LEMMA ReceivedComesTrue ==
  ASSUME IsQueue(wire), wire # <<>>, IsNotice(wire[1]), wire[1].t = "patch" => IsNews(wire[1]),
         Viewer \notin DOMAIN remotes, NEW rem, rem = Rendered(wire[1]),
         NEW q, q # Viewer, NEW faded \in BOOLEAN
  PROVE  /\ ComesUp(wire, remotes, q, faded) => ComesUp(Tail(wire), rem, q, faded)
         /\ \A f, v : ComesTrue(wire, remotes, q, f, v, faded) =>
                      ComesTrue(Tail(wire), rem, q, f, v, faded)
<1> DEFINE w == Tail(wire)
<1>1. /\ Len(wire) \in Nat /\ Len(wire) >= 1 /\ Len(w) = Len(wire) - 1
      /\ \A i \in 1 .. Len(w) : w[i] = wire[i + 1]
  BY Shortened
<1> HIDE DEF w
<1>2. ASSUME NEW f, NEW v, ComesTrue(wire, remotes, q, f, v, faded)
      PROVE  ComesTrue(w, rem, q, f, v, faded)
  <2>1. PICK k \in 0 .. Len(wire) :
          /\ IF k = 0 THEN Drawn(remotes, q, f, v, faded) ELSE Tells(wire[k], q, f, v, faded)
          /\ \A j \in (k + 1) .. Len(wire) : Keeps(wire[j], q, f, v, faded)
    BY <1>2 DEF ComesTrue
  <2>2. CASE k <= 1
    <3>1. Drawn(rem, q, f, v, faded)
      <4>1. CASE k = 0
        <5>1. Keeps(wire[1], q, f, v, faded)
          BY <1>1, <2>1, <4>1
        <5> QED BY <2>1, <4>1, <5>1, RenderedDraws
      <4>2. CASE k = 1
        BY <2>1, <4>2, RenderedDraws
      <4> QED BY <2>2, <4>1, <4>2
    <3>2. \A j \in 1 .. Len(w) : Keeps(w[j], q, f, v, faded)
      BY <1>1, <2>1, <2>2
    <3> QED BY <1>1, <3>1, <3>2 DEF ComesTrue
  <2>3. CASE k > 1
    <3>1. Tells(w[k - 1], q, f, v, faded)
      BY <1>1, <2>1, <2>3
    <3>2. \A j \in ((k - 1) + 1) .. Len(w) : Keeps(w[j], q, f, v, faded)
      BY <1>1, <2>1, <2>3
    <3> QED BY <1>1, <2>3, <3>1, <3>2 DEF ComesTrue
  <2> QED BY <1>1, <2>2, <2>3
<1>3. ASSUME ComesUp(wire, remotes, q, faded), ~faded
      PROVE  ComesUp(w, rem, q, faded)
  <2>1. PICK k \in 0 .. Len(wire) :
          /\ IF k = 0 THEN q \in DOMAIN remotes ELSE Shows(wire[k], q)
          /\ \A j \in (k + 1) .. Len(wire) : ~Erases(wire[j], q)
    BY <1>3 DEF ComesUp
  <2>2. CASE k <= 1
    <3>1. q \in DOMAIN rem
      <4>1. CASE k = 0
        <5>1. ~Erases(wire[1], q)
          BY <1>1, <2>1, <4>1
        <5> QED BY <2>1, <4>1, <5>1, RenderedDraws
      <4>2. CASE k = 1
        BY <2>1, <4>2, RenderedDraws
      <4> QED BY <2>2, <4>1, <4>2
    <3>2. \A j \in 1 .. Len(w) : ~Erases(w[j], q)
      BY <1>1, <2>1, <2>2
    <3> QED BY <1>1, <3>1, <3>2 DEF ComesUp
  <2>3. CASE k > 1
    <3>1. Shows(w[k - 1], q)
      BY <1>1, <2>1, <2>3
    <3>2. \A j \in ((k - 1) + 1) .. Len(w) : ~Erases(w[j], q)
      BY <1>1, <2>1, <2>3
    <3> QED BY <1>1, <2>3, <3>1, <3>2 DEF ComesUp
  <2> QED BY <1>1, <2>2, <2>3
<1>4. faded => ComesUp(w, rem, q, faded)
  BY DEF ComesUp
<1> QED BY <1>2, <1>3, <1>4 DEF w

\* What is sent makes something come true if it says so and is the last to speak,
\* and leaves true what it does not contradict.
LEMMA SentComesTrue ==
  ASSUME NEW w, IsQueue(w), NEW b, IsQueue(b), NEW rem, NEW q, NEW f, NEW v,
         NEW faded \in BOOLEAN
  PROVE  /\ (\A i \in 1 .. Len(b) : Keeps(b[i], q, f, v, faded))
              => (ComesTrue(w, rem, q, f, v, faded) => ComesTrue(w \o b, rem, q, f, v, faded))
         /\ Len(b) = 1 => (Tells(b[1], q, f, v, faded) => ComesTrue(w \o b, rem, q, f, v, faded))
<1> DEFINE new == w \o b
<1>1. /\ Len(w) \in Nat /\ Len(b) \in Nat /\ Len(new) = Len(w) + Len(b)
      /\ \A i \in 1 .. Len(w) : new[i] = w[i]
      /\ \A i \in Len(w) + 1 .. Len(w) + Len(b) : new[i] = b[i - Len(w)]
  BY Joined
<1> HIDE DEF new
<1>2. ASSUME ComesTrue(w, rem, q, f, v, faded),
             \A i \in 1 .. Len(b) : Keeps(b[i], q, f, v, faded)
      PROVE  ComesTrue(new, rem, q, f, v, faded)
  <2>1. PICK k \in 0 .. Len(w) :
          /\ IF k = 0 THEN Drawn(rem, q, f, v, faded) ELSE Tells(w[k], q, f, v, faded)
          /\ \A j \in (k + 1) .. Len(w) : Keeps(w[j], q, f, v, faded)
    BY <1>2 DEF ComesTrue
  <2>2. ASSUME NEW j \in (k + 1) .. Len(new)
        PROVE  Keeps(new[j], q, f, v, faded)
    <3>1. CASE j <= Len(w)
      BY <1>1, <2>1, <3>1
    <3>2. CASE j > Len(w)
      <4>1. new[j] = b[j - Len(w)] /\ j - Len(w) \in 1 .. Len(b)
        BY <1>1, <3>2
      <4> QED BY <1>2, <4>1
    <3> QED BY <1>1, <3>1, <3>2
  <2>3. IF k = 0 THEN Drawn(rem, q, f, v, faded) ELSE Tells(new[k], q, f, v, faded)
    BY <1>1, <2>1
  <2>4. k \in 0 .. Len(new)
    BY <1>1
  <2> QED BY <2>2, <2>3, <2>4 DEF ComesTrue
<1>3. ASSUME Len(b) = 1, Tells(b[1], q, f, v, faded)
      PROVE  ComesTrue(new, rem, q, f, v, faded)
  <2>1. new[Len(new)] = b[1] /\ Len(new) \in 1 .. Len(new)
    BY <1>1, <1>3
  <2>2. \A j \in (Len(new) + 1) .. Len(new) : Keeps(new[j], q, f, v, faded)
    BY <1>1
  <2>3. Len(new) \in 0 .. Len(new) /\ Len(new) # 0
    BY <2>1
  <2> QED BY <1>3, <2>1, <2>2, <2>3 DEF ComesTrue
<1> QED BY <1>2, <1>3 DEF new

\* The same for who comes up.
LEMMA SentComesUp ==
  ASSUME NEW w, IsQueue(w), NEW b, IsQueue(b), NEW rem, NEW q, NEW faded \in BOOLEAN
  PROVE  /\ (\A i \in 1 .. Len(b) : ~Erases(b[i], q))
              => (ComesUp(w, rem, q, faded) => ComesUp(w \o b, rem, q, faded))
         /\ Len(b) = 1 => (Shows(b[1], q) => ComesUp(w \o b, rem, q, faded))
<1> DEFINE new == w \o b
<1>1. /\ Len(w) \in Nat /\ Len(b) \in Nat /\ Len(new) = Len(w) + Len(b)
      /\ \A i \in 1 .. Len(w) : new[i] = w[i]
      /\ \A i \in Len(w) + 1 .. Len(w) + Len(b) : new[i] = b[i - Len(w)]
  BY Joined
<1> HIDE DEF new
<1>2. ASSUME ComesUp(w, rem, q, faded), \A i \in 1 .. Len(b) : ~Erases(b[i], q), ~faded
      PROVE  ComesUp(new, rem, q, faded)
  <2>1. PICK k \in 0 .. Len(w) :
          /\ IF k = 0 THEN q \in DOMAIN rem ELSE Shows(w[k], q)
          /\ \A j \in (k + 1) .. Len(w) : ~Erases(w[j], q)
    BY <1>2 DEF ComesUp
  <2>2. ASSUME NEW j \in (k + 1) .. Len(new)
        PROVE  ~Erases(new[j], q)
    <3>1. CASE j <= Len(w)
      BY <1>1, <2>1, <3>1
    <3>2. CASE j > Len(w)
      <4>1. new[j] = b[j - Len(w)] /\ j - Len(w) \in 1 .. Len(b)
        BY <1>1, <3>2
      <4> QED BY <1>2, <4>1
    <3> QED BY <1>1, <3>1, <3>2
  <2>3. IF k = 0 THEN q \in DOMAIN rem ELSE Shows(new[k], q)
    BY <1>1, <2>1
  <2>4. k \in 0 .. Len(new)
    BY <1>1
  <2> QED BY <2>2, <2>3, <2>4 DEF ComesUp
<1>3. ASSUME Len(b) = 1, Shows(b[1], q)
      PROVE  ComesUp(new, rem, q, faded)
  <2>1. new[Len(new)] = b[1] /\ Len(new) \in 1 .. Len(new)
    BY <1>1, <1>3
  <2>2. \A j \in (Len(new) + 1) .. Len(new) : ~Erases(new[j], q)
    BY <1>1
  <2>3. Len(new) \in 0 .. Len(new) /\ Len(new) # 0
    BY <2>1
  <2> QED BY <1>3, <2>1, <2>2, <2>3 DEF ComesUp
<1>4. faded => ComesUp(new, rem, q, faded)
  BY DEF ComesUp
<1> QED BY <1>2, <1>3, <1>4 DEF new

\* Time passes, and what has faded goes: neither makes anything untrue.
LEMMA FadingComesTrue ==
  ASSUME NEW w, NEW rem, NEW q, NEW f, NEW v,
         NEW before \in BOOLEAN, NEW after \in BOOLEAN, before => after,
         ComesTrue(w, rem, q, f, v, before)
  PROVE  /\ ComesTrue(w, rem, q, f, v, after)
         /\ \A p : after => ComesTrue(w, Drop(rem, {p}), q, f, v, after)
<1>1. PICK k \in 0 .. Len(w) :
        /\ IF k = 0 THEN Drawn(rem, q, f, v, before) ELSE Tells(w[k], q, f, v, before)
        /\ \A j \in (k + 1) .. Len(w) : Keeps(w[j], q, f, v, before)
  BY DEF ComesTrue
<1>2. \A m : /\ Keeps(m, q, f, v, before) => Keeps(m, q, f, v, after)
             /\ Tells(m, q, f, v, before) => Tells(m, q, f, v, after)
  BY DEF Keeps, Tells
<1>3. Drawn(rem, q, f, v, before) => Drawn(rem, q, f, v, after)
  BY DEF Drawn
<1>4. \A p : after /\ Drawn(rem, q, f, v, after) => Drawn(Drop(rem, {p}), q, f, v, after)
  BY DEF Drawn, Drop, Restrict
<1>5. \A j \in (k + 1) .. Len(w) : Keeps(w[j], q, f, v, after)
  BY <1>1, <1>2
<1>6. IF k = 0 THEN Drawn(rem, q, f, v, after) ELSE Tells(w[k], q, f, v, after)
  BY <1>1, <1>2, <1>3
<1>7. ComesTrue(w, rem, q, f, v, after)
  BY <1>5, <1>6 DEF ComesTrue
<1>8. ASSUME NEW p, after
      PROVE  ComesTrue(w, Drop(rem, {p}), q, f, v, after)
  <2>1. IF k = 0 THEN Drawn(Drop(rem, {p}), q, f, v, after) ELSE Tells(w[k], q, f, v, after)
    BY <1>4, <1>6, <1>8
  <2> QED BY <1>5, <2>1 DEF ComesTrue
<1> QED BY <1>7, <1>8

---------------------------------------------------------------------------
(* The sockets of the pages.                                               *)

\* A page opens its sockets one by one.
DialedInOrder == \A p \in Pids : \E n \in 0 .. Len(SocketsOf[p]) : Opened(p) = 1 .. n

\* Nobody but the page speaks on its sockets, and it dials its own session.
OwnSockets ==
  \A p \in Pids : \A i \in DOMAIN SocketsOf[p] :
    LET c == SocketsOf[p][i] IN
    /\ ctx[c].pid \in {NoPid, p}
    /\ ready[c] # "new" => <<p, ctx[c].sid>> \in Rooms

\* What the user of a page does is among what clients do.
LEMMA UsersMove == \A p \in Pids : MovesOf[p] \subseteq Moves
  BY RoomAssumption

\* Each socket is in one place of one page's list.
LEMMA SocketLists ==
  /\ \A p \in Pids : /\ Len(SocketsOf[p]) \in Nat
                     /\ DOMAIN SocketsOf[p] = 1 .. Len(SocketsOf[p])
                     /\ \A i \in DOMAIN SocketsOf[p] : SocketsOf[p][i] \in Socks
  /\ \A p, q \in Pids : \A i \in DOMAIN SocketsOf[p], j \in DOMAIN SocketsOf[q] :
       SocketsOf[p][i] = SocketsOf[q][j] => p = q /\ i = j
<1>1. ASSUME NEW p \in Pids
      PROVE  /\ Len(SocketsOf[p]) \in Nat
             /\ DOMAIN SocketsOf[p] = 1 .. Len(SocketsOf[p])
             /\ \A i \in DOMAIN SocketsOf[p] : SocketsOf[p][i] \in Socks
  <2>1. SocketsOf[p] \in Seq(Socks)
    BY RoomAssumption
  <2> QED BY <2>1
<1>2. ASSUME NEW p \in Pids, NEW q \in Pids, p # q,
             NEW i \in DOMAIN SocketsOf[p], NEW j \in DOMAIN SocketsOf[q]
      PROVE  SocketsOf[p][i] # SocketsOf[q][j]
  <2>1. Range(SocketsOf[p]) \cap Range(SocketsOf[q]) = {}
    BY <1>2, RoomAssumption
  <2>2. SocketsOf[p][i] \in Range(SocketsOf[p]) /\ SocketsOf[q][j] \in Range(SocketsOf[q])
    BY DEF Range
  <2> QED BY <2>1, <2>2
<1>3. ASSUME NEW p \in Pids, NEW i \in DOMAIN SocketsOf[p], NEW j \in DOMAIN SocketsOf[p],
             SocketsOf[p][i] = SocketsOf[p][j]
      PROVE  i = j
  <2>1. IsInjective(SocketsOf[p])
    BY RoomAssumption
  <2> QED BY <1>3, <2>1 DEF IsInjective
<1> QED BY <1>1, <1>2, <1>3

\* The socket in use is the last one opened.
LEMMA CurrentSocket ==
  ASSUME DialedInOrder, NEW p \in Pids
  PROVE  /\ Cardinality(Opened(p)) \in 0 .. Len(SocketsOf[p])
         /\ Opened(p) = 1 .. Cardinality(Opened(p))
         /\ HasSocket(p) => Cardinality(Opened(p)) \in DOMAIN SocketsOf[p]
<1>1. PICK n \in 0 .. Len(SocketsOf[p]) : Opened(p) = 1 .. n
  BY DEF DialedInOrder
<1>2. Cardinality(1 .. n) = n
  <2>1. Cardinality(1 .. n) = IF 1 > n THEN 0 ELSE n - 1 + 1
    BY FS_Interval
  <2> QED BY <2>1
<1>3. Len(SocketsOf[p]) \in Nat /\ DOMAIN SocketsOf[p] = 1 .. Len(SocketsOf[p])
  BY SocketLists
<1> QED BY <1>1, <1>2, <1>3 DEF HasSocket

\* What each step but a new connection does to the sockets: only hello gives one
\* an identity, and none is new again.
LEMMA SocketsInServerStep ==
  ASSUME TypeOK, ServerStep
  PROVE  \A c \in Socks :
           /\ ready'[c] = "new" <=> ready[c] = "new"
           /\ ctx'[c].sid = ctx[c].sid
           /\ \/ ctx'[c].pid = ctx[c].pid
              \/ \E p \in Pids : HasSocket(p) /\ c = Current(p) /\ ctx'[c].pid = p
<1>1. /\ ctx \in [Socks -> Ctx]
      /\ ready \in [Socks -> {"new", "open", "closing", "closed"}]
  BY DEF TypeOK, StateTypeOK
<1>2. ASSUME NEW p \in Pids, PageSends(p)
      PROVE  \A c \in Socks :
               /\ ready'[c] = "new" <=> ready[c] = "new"
               /\ ctx'[c].sid = ctx[c].sid
               /\ \/ ctx'[c].pid = ctx[c].pid
                  \/ HasSocket(p) /\ c = Current(p) /\ ctx'[c].pid = p
  <2>1. HasSocket(p)
    BY <1>2 DEF PageSends
  <2>2. PICK seq \in 0 .. LastSeqOf[p] :
          \/ Hello(Current(p), p, seq, now)
          \/ \E m \in Moves : Move(Current(p), p, seq, m[1], m[2])
          \/ Bye(Current(p), p, seq)
    BY <1>2, UsersMove DEF PageSends
  <2> DEFINE c == Current(p)
  <2> HIDE DEF c
  <2>3. CASE Hello(c, p, seq, now)
    BY <1>1, <2>1, <2>3 DEF Hello, Ctx, c
  <2>4. ASSUME NEW m \in Moves, Move(c, p, seq, m[1], m[2])
        PROVE  \A d \in Socks : /\ ready'[d] = ready[d]
                                /\ ctx'[d].sid = ctx[d].sid /\ ctx'[d].pid = ctx[d].pid
    BY <1>1, <2>4 DEF Move, Accept, Ctx
  <2>5. CASE Bye(c, p, seq)
    BY <1>1, <2>5 DEF Bye, Ctx
  <2> QED BY <2>2, <2>3, <2>4, <2>5 DEF c
<1>3. ASSUME NEW c \in Socks, SocketLost(c) \/ Disconnect(c)
      PROVE  /\ UNCHANGED ctx
             /\ \A d \in Socks : ready'[d] = "new" <=> ready[d] = "new"
  BY <1>1, <1>3 DEF SocketLost, Disconnect
<1>4. CASE Tick \/ ReaperSweep \/ Elapse
  BY <1>4 DEF Tick, ReaperSweep, Elapse
<1> QED BY <1>2, <1>3, <1>4 DEF ServerStep
\* The socket in use of a page, once it has one.
LEMMA CurrentIsOwn ==
  ASSUME DialedInOrder, OwnSockets, NEW p \in Pids, HasSocket(p)
  PROVE  /\ Current(p) \in Socks
         /\ ready[Current(p)] # "new"
         /\ ctx[Current(p)].pid \in {NoPid, p}
         /\ <<p, ctx[Current(p)].sid>> \in Rooms
         /\ \A q \in Pids : q # p /\ HasSocket(q) => Current(q) # Current(p)
<1> DEFINE n == Cardinality(Opened(p))
<1>1. n \in DOMAIN SocketsOf[p] /\ Opened(p) = 1 .. n /\ DOMAIN SocketsOf[p] = 1 .. Len(SocketsOf[p])
  BY CurrentSocket, SocketLists
<1>2. n \in Opened(p)
  BY <1>1, SocketLists
<1>3. Current(p) = SocketsOf[p][n]
  BY DEF Current
<1>4. ready[Current(p)] # "new"
  BY <1>2, <1>3 DEF Opened
<1>5. \A q \in Pids : HasSocket(q) =>
        \E j \in DOMAIN SocketsOf[q] : Current(q) = SocketsOf[q][j]
  BY CurrentSocket DEF Current
<1> HIDE DEF n
<1> QED BY <1>1, <1>3, <1>4, <1>5, SocketLists DEF OwnSockets

\* A page sends what a client may send.
LEMMA PageSendsIsNext ==
  ASSUME TypeOK, DialedInOrder, OwnSockets, NEW p \in Pids, PageSends(p)
  PROVE  Next
<1> DEFINE c == Current(p)
<1>1. HasSocket(p)
  BY DEF PageSends
<1>2. PICK seq \in 0 .. LastSeqOf[p] :
        \/ Hello(c, p, seq, now)
        \/ \E m \in Moves : Move(c, p, seq, m[1], m[2])
        \/ Bye(c, p, seq)
  BY UsersMove DEF PageSends
<1>3. seq \in Seqs
  <2>1. LastSeqOf[p] \in Seqs /\ MaxSeq \in Nat
    BY RoomAssumption
  <2> QED BY <2>1 DEF Seqs
<1>4. c \in Socks /\ <<p, ctx[c].sid>> \in Rooms
  BY <1>1, CurrentIsOwn
<1> HIDE DEF c
<1>5. CASE Hello(c, p, seq, now)
  <2>1. now + 0 = now /\ 0 \in Skews
    BY RoomAssumption DEF TypeOK, StateTypeOK
  <2>2. \E d \in Skews : /\ <<p, ctx[c].sid>> \in Rooms
                         /\ Hello(c, p, seq, now + d)
    BY <1>4, <1>5, <2>1
  <2>3. \E pid \in Pids :
          \/ \E d \in Skews : /\ <<pid, ctx[c].sid>> \in Rooms
                              /\ Hello(c, pid, seq, now + d)
          \/ \E m \in Moves : Move(c, pid, seq, m[1], m[2])
          \/ Ping(c, pid, seq)
          \/ \E kind \in {"session.start", "session.end"} : Audit(c, pid, seq, kind)
          \/ Bye(c, pid, seq)
    BY <2>2
  <2>4. Handle(c)
    BY <1>3, <2>3 DEF Handle
  <2> QED BY <1>4, <2>4 DEF Next
<1>6. CASE \E m \in Moves : Move(c, p, seq, m[1], m[2])
  BY <1>3, <1>4, <1>6 DEF Handle, Next
<1>7. CASE Bye(c, p, seq)
  BY <1>3, <1>4, <1>7 DEF Handle, Next
<1> QED BY <1>2, <1>5, <1>6, <1>7
\* Every step of the composition is one the server may take, or none of its.
LEMMA RoomStepIsNext ==
  ASSUME TypeOK, DialedInOrder, OwnSockets, [RoomNext]_roomVars
  PROVE  [Next]_vars
<1>1. ASSUME NEW p \in Pids, NEW sid \in Sids, PageConnects(p, sid)
      PROVE  Next
  <2>1. PICK i \in DOMAIN SocketsOf[p] : Connect(SocketsOf[p][i], sid)
    BY <1>1 DEF PageConnects
  <2>2. SocketsOf[p][i] \in Socks
    BY SocketLists
  <2> QED BY <2>1, <2>2 DEF Next, Handle
<1>2. CASE ServerStep
  BY <1>2, PageSendsIsNext DEF ServerStep, Next, Handle, Timers
<1>3. CASE Receive \/ (\E q \in Pids : Expire(q)) \/ UNCHANGED roomVars
  BY <1>3 DEF Receive, Expire, roomVars
<1> QED BY <1>1, <1>2, <1>3 DEF RoomNext

\* Opening a socket, or any other step, keeps the pages dialing in order and on
\* their own.
LEMMA SocketsStayOwn ==
  ASSUME TypeOK, DialedInOrder, OwnSockets, [RoomNext]_roomVars
  PROVE  DialedInOrder' /\ OwnSockets'
<1>1. /\ ctx \in [Socks -> Ctx]
      /\ ready \in [Socks -> {"new", "open", "closing", "closed"}]
  BY DEF TypeOK, StateTypeOK
<1>2. ASSUME NEW p \in Pids, NEW sid \in Sids, PageConnects(p, sid)
      PROVE  DialedInOrder' /\ OwnSockets'
  <2>1. PICK i \in DOMAIN SocketsOf[p] :
          /\ i = Cardinality(Opened(p)) + 1
          /\ <<p, sid>> \in Rooms
          /\ Connect(SocketsOf[p][i], sid)
    BY <1>2 DEF PageConnects
  <2> DEFINE c == SocketsOf[p][i]
  <2>2. c \in Socks
    BY SocketLists
  <2>3. /\ ready[c] = "new" /\ ready'[c] = "open"
        /\ ctx'[c].sid = sid /\ ctx'[c].pid = ctx[c].pid
        /\ \A d \in Socks : d # c => ready'[d] = ready[d] /\ ctx'[d] = ctx[d]
    <3> HIDE DEF c
    <3> QED BY <1>1, <2>1, <2>2 DEF Connect, Ctx, c
  <2>4. ASSUME NEW q \in Pids, NEW j \in DOMAIN SocketsOf[q], ~(q = p /\ j = i)
        PROVE  SocketsOf[q][j] \in Socks /\ SocketsOf[q][j] # c
    BY <2>4, SocketLists
  <2>5. OwnSockets'
    <3> SUFFICES ASSUME NEW q \in Pids, NEW j \in DOMAIN SocketsOf[q]
                 PROVE  /\ ctx'[SocketsOf[q][j]].pid \in {NoPid, q}
                        /\ ready'[SocketsOf[q][j]] # "new" =>
                             <<q, ctx'[SocketsOf[q][j]].sid>> \in Rooms
      BY DEF OwnSockets
    <3>1. CASE q = p /\ j = i
      BY <2>1, <2>3, <3>1 DEF OwnSockets
    <3>2. CASE ~(q = p /\ j = i)
      <4> HIDE DEF c
      <4> QED BY <2>3, <2>4, <3>2 DEF OwnSockets
    <3> QED BY <3>1, <3>2
  <2>6. ASSUME NEW q \in Pids
        PROVE  \E n \in 0 .. Len(SocketsOf[q]) : Opened(q)' = 1 .. n
    <3>1. Opened(q)' = {j \in DOMAIN SocketsOf[q] : ready'[SocketsOf[q][j]] # "new"}
      BY DEF Opened
    <3>2. CASE q # p
      <4>1. Opened(q)' = Opened(q)
        <5> HIDE DEF c
        <5> QED BY <2>3, <2>4, <3>1, <3>2 DEF Opened
      <4> QED BY <4>1 DEF DialedInOrder
    <3>3. CASE q = p
      <4>1. Opened(p)' = Opened(p) \cup {i}
        <5> HIDE DEF c
        <5>1. \A j \in DOMAIN SocketsOf[p] :
                ready'[SocketsOf[p][j]] # "new" <=> ready[SocketsOf[p][j]] # "new" \/ j = i
          BY <2>3, <2>4 DEF c
        <5> QED BY <3>1, <3>3, <5>1 DEF Opened
      <4>2. /\ i \in 1 .. Len(SocketsOf[p]) /\ Len(SocketsOf[p]) \in Nat
            /\ Opened(p) = 1 .. (i - 1)
        BY <2>1, CurrentSocket, SocketLists
      <4>3. Opened(p)' = 1 .. i
        BY <4>1, <4>2
      <4> QED BY <3>3, <4>2, <4>3
    <3> QED BY <3>2, <3>3
  <2> QED BY <2>5, <2>6 DEF DialedInOrder
<1>3. CASE ServerStep
  <2>1. \A c \in Socks :
          /\ ready'[c] = "new" <=> ready[c] = "new"
          /\ ctx'[c].sid = ctx[c].sid
          /\ \/ ctx'[c].pid = ctx[c].pid
             \/ \E p \in Pids : HasSocket(p) /\ c = Current(p) /\ ctx'[c].pid = p
    BY <1>3, SocketsInServerStep
  <2>2. \A q \in Pids : Opened(q)' = Opened(q)
    BY <2>1, SocketLists DEF Opened
  <2>3. DialedInOrder'
    BY <2>2 DEF DialedInOrder
  <2>4. ASSUME NEW q \in Pids, NEW j \in DOMAIN SocketsOf[q]
        PROVE  /\ ctx'[SocketsOf[q][j]].pid \in {NoPid, q}
               /\ ready'[SocketsOf[q][j]] # "new" => <<q, ctx'[SocketsOf[q][j]].sid>> \in Rooms
    <3> DEFINE c == SocketsOf[q][j]
    <3>1. c \in Socks
      BY SocketLists
    <3>2. \A p \in Pids : HasSocket(p) /\ c = Current(p) => p = q
      <4>1. \A p \in Pids : HasSocket(p) =>
              \E k \in DOMAIN SocketsOf[p] : Current(p) = SocketsOf[p][k]
        BY CurrentSocket DEF Current
      <4> QED BY <4>1, SocketLists
    <3>3. ctx[c].pid \in {NoPid, q} /\ (ready[c] # "new" => <<q, ctx[c].sid>> \in Rooms)
      BY DEF OwnSockets
    <3> HIDE DEF c
    <3>4. ctx'[c].pid \in {NoPid, q} /\ (ready'[c] # "new" => <<q, ctx'[c].sid>> \in Rooms)
      BY <2>1, <3>1, <3>2, <3>3
    <3> QED BY <3>4 DEF c
  <2>5. OwnSockets'
    BY <2>4 DEF OwnSockets
  <2> QED BY <2>3, <2>5
<1>4. CASE Receive \/ (\E q \in Pids : Expire(q)) \/ UNCHANGED roomVars
  <2>1. UNCHANGED <<ctx, ready>>
    BY <1>4 DEF Receive, Expire, roomVars, vars
  <2>2. \A q \in Pids : Opened(q)' = Opened(q)
    BY <2>1 DEF Opened
  <2> QED BY <2>1, <2>2 DEF DialedInOrder, OwnSockets
<1> QED BY <1>2, <1>3, <1>4 DEF RoomNext
---------------------------------------------------------------------------
(* What a step of the server sends to the page.                            *)

\* The page is registered on the socket it uses: it is told of its session.
TunedIn ==
  /\ HasSocket(Viewer)
  /\ ready[Current(Viewer)] = "open"
  /\ Viewer \in DOMAIN hub.connections
  /\ hub.connections[Viewer].sock = Current(Viewer)

\* Nobody else is registered on that socket, in a hub that leads to sockets of
\* those it lists.
LEMMA PageAlone ==
  ASSUME DialedInOrder, NEW of,
         \A p \in Pids : \A i \in DOMAIN SocketsOf[p] : of[SocketsOf[p][i]].pid \in {NoPid, p},
         HasSocket(Viewer), NEW h,
         \A p \in DOMAIN h.connections : p # NoPid /\ of[h.connections[p].sock].pid = p
  PROVE  \A p \in DOMAIN h.connections : h.connections[p].sock = Current(Viewer) => p = Viewer
<1>1. of[Current(Viewer)].pid \in {NoPid, Viewer}
  BY RoomAssumption, CurrentSocket DEF Current
<1> QED BY <1>1

\* So the hub reaches the page by broadcasts in the session of its participant
\* only, and each puts one message on the socket at most.
LEMMA BroadcastToPage ==
  ASSUME NEW h, IsIndexed(h), NEW c,
         \A p \in DOMAIN h.connections : h.connections[p].sock = c => p = Viewer,
         NEW sid, NEW msg, NEW exclude
  PROVE  /\ \A e \in BroadcastToSession(h, sid, msg, exclude) :
              e[1] = c => /\ e[2] = msg
                          /\ Viewer \in DOMAIN h.connections /\ Viewer \notin exclude
                          /\ h.connections[Viewer].sid = sid
         /\ \A p : \A e \in SendTo(h, p, msg) : e[1] = c => e[2] = msg /\ p = Viewer
<1>1. \A p : \A e \in SendTo(h, p, msg) :
        /\ p \in DOMAIN h.connections
        /\ e[1] = h.connections[p].sock /\ e[2] = msg
  BY DEF SendTo
<1>2. ASSUME NEW e \in BroadcastToSession(h, sid, msg, exclude), e[1] = c
      PROVE  /\ e[2] = msg
             /\ Viewer \in DOMAIN h.connections /\ Viewer \notin exclude
             /\ h.connections[Viewer].sid = sid
  <2>1. PICK p \in ParticipantsOf(h, sid) \ exclude : e \in SendTo(h, p, msg)
    BY DEF BroadcastToSession
  <2>2. p \in DOMAIN h.connections /\ h.connections[p].sid = sid
    BY <2>1 DEF ParticipantsOf, IsIndexed
  <2> QED BY <1>1, <1>2, <2>1, <2>2
<1> QED BY <1>1, <1>2

\* The three hubs a step broadcasts with: before it, after it, and with some
\* participants taken off.
LEMMA HubsOfPage ==
  ASSUME ConsistencyInv, DialedInOrder, OwnSockets, HasSocket(Viewer)
  PROVE  /\ IsIndexed(hub)
         /\ \A p \in DOMAIN hub.connections : hub.connections[p].sock = Current(Viewer) => p = Viewer
         /\ \A pids :
              /\ IsIndexed(Unregister(hub, pids))
              /\ \A p \in DOMAIN Unregister(hub, pids).connections :
                   /\ p \in DOMAIN hub.connections
                   /\ Unregister(hub, pids).connections[p] = hub.connections[p]
                   /\ hub.connections[p].sock = Current(Viewer) => p = Viewer
<1>1. IsHub(hub) /\ IsIndexed(hub)
  BY DEF ConsistencyInv, HubIndexed, TypeOK, StateTypeOK
<1>2. \A p \in DOMAIN hub.connections : p # NoPid /\ ctx[hub.connections[p].sock].pid = p
  BY <1>1, ServerAssumption DEF ConsistencyInv, SocketsHeld, IsHub, IsMap, IsTable
<1>3. \A p \in DOMAIN hub.connections : hub.connections[p].sock = Current(Viewer) => p = Viewer
  BY <1>2, PageAlone DEF OwnSockets
<1>4. ASSUME NEW pids
      PROVE  /\ IsIndexed(Unregister(hub, pids))
             /\ \A p \in DOMAIN Unregister(hub, pids).connections :
                  /\ p \in DOMAIN hub.connections
                  /\ Unregister(hub, pids).connections[p] = hub.connections[p]
  <2> DEFINE h == Unregister(hub, pids)
  <2>1. /\ IsIndexed(h)
        /\ DOMAIN h.connections = DOMAIN hub.connections \ pids
        /\ \A p \in DOMAIN h.connections : h.connections[p] = hub.connections[p]
    BY <1>1, UnregisterIndexed
  <2> QED BY <2>1
<1> QED BY <1>1, <1>3, <1>4
\* What is sent to the page are messages of a session, and a patch has the number
\* of this tick.
NoticesOnly ==
  \A m \in ToPage :
    IsNotice(m) /\ (m.t = "patch" => m.seq = tickSeq + 1 /\ tickSeq' = tickSeq + 1)

\* One message at most, or the leaves of one sweep.
ShortBurst ==
  \/ ToPage = {}
  \/ \E m : ToPage = {m}
  \/ IsFiniteSet(ToPage) /\ \A m \in ToPage : m.t = "leave"

\* The page is given the whole of its session.
Welcomed ==
  \E m : ToPage = {m} /\ m.t = "welcome" /\ m.roster = ToSnapshot(TheSession')

\* The page was tuned in before, and is told what changed: nobody of the roster is
\* taken away, who is new on it is announced, and each field with nothing left to
\* flush is as it was or in the message, which never says anything else.
ToldWhatChanged(old, new) ==
  \A q \in Roster(new) \ {Viewer} :
    LET was == old.participants[q].presence
        is  == new.participants[q].presence
    IN  /\ \A m \in ToPage : ~Erases(m, q)
        /\ q \in Roster(old) \/ \E m : ToPage = {m} /\ Shows(m, q)
        /\ \A f \in DOMAIN is \ DirtyFieldsOf(new, q) :
             /\ \A m \in ToPage : Speaks(m, q, f) => Content(m)[q][f] = is[f].value
             /\ \/ /\ q \in Roster(old)
                   /\ f \in DOMAIN was \ DirtyFieldsOf(old, q)
                   /\ was[f].value = is[f].value
                \/ \E m : ToPage = {m} /\ Speaks(m, q, f)
Updated == TunedIn /\ ToldWhatChanged(TheSession, TheSession')

\* What each step of the server makes of a page.
PageIsTold == NoticesOnly /\ ShortBurst /\ (TunedIn' => Welcomed \/ Updated)

\* Whoever is registered is on the roster of its session.
LEMMA RegisteredInSession ==
  ASSUME ConsistencyInv, NEW p \in DOMAIN hub.connections
  PROVE  /\ p \in Pids /\ hub.connections[p].sid \in Sids
         /\ hub.connections[p].sid \in DOMAIN sessions
         /\ p \in Roster(sessions[hub.connections[p].sid])
<1>1. p \in Pids /\ hub.connections[p].sid \in Sids
  BY DEF ConsistencyInv, TypeOK, StateTypeOK, IsHub, IsMap, IsTable
<1>2. InSession(hub.connections[p].sid, p)
  BY <1>1 DEF ConsistencyInv, HubIndexed, IsIndexed, RosterMatchesHub
<1> QED BY <1>1, <1>2 DEF InSession

\* The same after a step.
LEMMA StillInSession ==
  ASSUME ConsistencyInv', NEW p \in DOMAIN hub'.connections
  PROVE  /\ p \in Pids /\ hub'.connections[p].sid \in Sids
         /\ hub'.connections[p].sid \in DOMAIN sessions'
         /\ p \in Roster(sessions'[hub'.connections[p].sid])
<1>1. p \in Pids /\ hub'.connections[p].sid \in Sids
  BY DEF ConsistencyInv, TypeOK, StateTypeOK, IsHub, IsMap, IsTable
<1>2. \A s \in Sids : hub'.connections[p].sid = s => InSession(s, p)'
  BY <1>1 DEF ConsistencyInv, HubIndexed, IsIndexed, RosterMatchesHub
<1> QED BY <1>1, <1>2 DEF InSession

\* But for a tick, a field with nothing left to flush had nothing to flush before,
\* and keeps its value.
LEMMA QuietFields ==
  ASSUME TypeOK, [Next]_vars, tickSeq' = tickSeq,
         NEW s \in DOMAIN sessions \cap DOMAIN sessions',
         NEW q \in Roster(sessions'[s]),
         NEW f \in DOMAIN sessions'[s].participants[q].presence \ DirtyFieldsOf(sessions'[s], q)
  PROVE  /\ q \in Roster(sessions[s])
         /\ f \in DOMAIN sessions[s].participants[q].presence \ DirtyFieldsOf(sessions[s], q)
         /\ sessions[s].participants[q].presence[f] = sessions'[s].participants[q].presence[f]
<1>1. ~Tick
  BY DEF Tick, TypeOK, StateTypeOK
<1>2. GetOrCreate(s) = sessions[s]
  BY DEF GetOrCreate
<1>3. TypeOK'
  BY NextType
<1>4. f \in Fields
  BY <1>3 DEF TypeOK, StateTypeOK, IsSession, IsParticipant, IsPresence, IsMap, IsTable, Roster
<1>5. q \in Roster(sessions[s])
  BY <1>2, StepKeepsPresence
<1> QED BY <1>1, <1>2, <1>4, <1>5, StepKeepsPresence

\* So a step that says nothing of fields has only the roster to account for.
LEMMA QuietUpdate ==
  ASSUME ConsistencyInv, ConsistencyInv', [Next]_vars, tickSeq' = tickSeq,
         TunedIn, Viewer \in DOMAIN hub'.connections,
         hub'.connections[Viewer] = hub.connections[Viewer],
         \A m \in ToPage : DOMAIN Content(m) = {},
         \A q \in Roster(TheSession') \ {Viewer} :
           /\ \A m \in ToPage : ~Erases(m, q)
           /\ q \in Roster(TheSession) \/ \E m : ToPage = {m} /\ Shows(m, q)
  PROVE  Updated
<1> DEFINE s == hub.connections[Viewer].sid
<1>1. TheSession = sessions[s] /\ TheSession' = sessions'[s]
  BY DEF TheSession
<1>2. s \in DOMAIN sessions \cap DOMAIN sessions'
  BY RegisteredInSession, StillInSession DEF TunedIn
<1>3. \A m \in ToPage : \A q, f : ~Speaks(m, q, f)
  BY DEF Speaks
<1> HIDE DEF s
<1>4. \A q \in Roster(TheSession') :
        \A f \in DOMAIN TheSession'.participants[q].presence \ DirtyFieldsOf(TheSession', q) :
          /\ q \in Roster(TheSession)
          /\ f \in DOMAIN TheSession.participants[q].presence \ DirtyFieldsOf(TheSession, q)
          /\ TheSession.participants[q].presence[f] = TheSession'.participants[q].presence[f]
  BY <1>1, <1>2, QuietFields DEF ConsistencyInv
<1> QED BY <1>3, <1>4 DEF Updated, ToldWhatChanged
\* What the page is sent are messages.
LEMMA SentAreMessages ==
  ASSUME TypeOK'
  PROVE  \A m \in ToPage : IsMessage(m)
BY DEF TypeOK, IsOutput, IsEnvelope, ToPage

\* The page says hello and is welcomed, or another one does and joins.
LEMMA HelloTellsPage ==
  ASSUME OneRoomPerPid, ConsistencyInv, ConsistencyInv', DialedInOrder, OwnSockets, OwnSockets',
         [Next]_vars, NEW p \in Pids, HasSocket(p), NEW seq \in Int,
         Hello(Current(p), p, seq, now)
  PROVE  PageIsTold
<1> DEFINE c    == Current(p)
           x    == Current(Viewer)
           sid  == ctx[c].sid
           next == ApplyHello(GetOrCreate(sid), p, now)
           hi   == Welcome(sid, next)
<1>1. c \in Socks /\ <<p, sid>> \in Rooms /\ sid \in Sids
  BY CurrentIsOwn, CtxType DEF ConsistencyInv, TypeOK
<1>2. /\ ready' = ready /\ ready[c] = "open" /\ tickSeq' = tickSeq
      /\ hub' = Register(hub, p, sid, c)
      /\ sessions' = Put(sessions, sid, next)
      /\ out'.sent = SendTo(hub', p, hi) \cup
                     (IF InSession(sid, p) THEN {}
                      ELSE BroadcastToSession(hub', sid, Join(sid, p), {p}))
  BY DEF Hello, Accepts, Sends
<1>3. \A s \in Sids, q \in Pids : InSession(s, q)' <=> InSession(s, q) \/ (s = sid /\ q = p)
  <2>1. now \in Int
    BY DEF ConsistencyInv, TypeOK, StateTypeOK
  <2> QED BY <1>1, <2>1, HelloRosters DEF ConsistencyInv
<1>4. sessions'[sid] = next /\ hi.t = "welcome" /\ hi.roster = ToSnapshot(next)
  BY <1>2 DEF Put, Welcome
<1> HIDE DEF c, sid, next, hi
<1>5. /\ DOMAIN hub'.connections = DOMAIN hub.connections \cup {p}
      /\ hub'.connections[p].sid = sid /\ hub'.connections[p].sock = c
      /\ \A q \in DOMAIN hub.connections : q # p => hub'.connections[q] = hub.connections[q]
  <2>1. IsHub(hub) /\ IsIndexed(hub)
    BY DEF ConsistencyInv, HubIndexed, TypeOK, StateTypeOK
  <2>2. p \in DOMAIN hub.connections => hub.connections[p].sid = sid
    BY <1>1, SameRoom
  <2> QED BY <1>1, <1>2, <2>1, <2>2, RegisterIndexed
<1>6. /\ HasSocket(Viewer)' <=> HasSocket(Viewer)
      /\ Current(Viewer)' = x
  BY <1>2 DEF HasSocket, Opened, Current
<1>7. \A m \in ToPage : IsMessage(m)
  BY SentAreMessages DEF ConsistencyInv
<1>8. \A m : m \in ToPage <=> HasSocket(Viewer) /\ \E e \in out'.sent : e[1] = x /\ e[2] = m
  BY DEF ToPage
<1>9. CASE ~HasSocket(Viewer)
  <2>1. ToPage = {} /\ ~TunedIn'
    BY <1>6, <1>8, <1>9 DEF TunedIn
  <2> QED BY <2>1 DEF PageIsTold, NoticesOnly, ShortBurst
<1>10. CASE HasSocket(Viewer)
  <2>1. IsIndexed(hub')
    BY DEF ConsistencyInv, HubIndexed
  <2>2. \A q \in DOMAIN hub'.connections : q # NoPid /\ ctx'[hub'.connections[q].sock].pid = q
    BY ServerAssumption DEF ConsistencyInv, SocketsHeld, TypeOK, StateTypeOK, IsHub, IsMap, IsTable
  <2>3. \A q \in DOMAIN hub'.connections : hub'.connections[q].sock = x => q = Viewer
    BY <1>10, <2>2, PageAlone DEF OwnSockets
  <2> HIDE DEF x
  <2>4. \A e \in SendTo(hub', p, hi) : e[1] = x => e[2] = hi /\ p = Viewer
    BY <2>1, <2>3, BroadcastToPage
  <2>5. \A e \in BroadcastToSession(hub', sid, Join(sid, p), {p}) :
          e[1] = x => /\ e[2] = Join(sid, p)
                      /\ Viewer \in DOMAIN hub'.connections /\ p # Viewer
                      /\ hub'.connections[Viewer].sid = sid
    BY <2>1, <2>3, BroadcastToPage
  <2>6. CASE p = Viewer
    <3>1. c = x
      BY <2>6 DEF c, x
    <3>2. <<x, hi>> \in SendTo(hub', p, hi)
      BY <1>2, <1>5, <3>1 DEF SendTo
    <3>3. ToPage = {hi}
      <4>1. \A m \in ToPage : m = hi
        BY <1>2, <1>8, <2>4, <2>5, <2>6
      <4>2. <<x, hi>>[1] = x /\ <<x, hi>>[2] = hi
        OBVIOUS
      <4>3. hi \in ToPage
        BY <1>2, <1>8, <1>10, <3>2, <4>2
      <4> QED BY <4>1, <4>3
    <3>4. NoticesOnly
      BY <1>4, <1>7, <3>3 DEF NoticesOnly, IsNotice, Notices
    <3>5. TheSession' = next
      BY <1>4, <1>5, <2>6 DEF TheSession
    <3> QED BY <1>4, <3>3, <3>4, <3>5 DEF PageIsTold, ShortBurst, Welcomed
  <2>7. CASE p # Viewer
    <3>1. \A m \in ToPage : /\ m = Join(sid, p) /\ ~InSession(sid, p)
                            /\ hub'.connections[Viewer].sid = sid
      BY <1>2, <1>8, <2>4, <2>5, <2>7
    <3>2. /\ Join(sid, p).t = "join" /\ Join(sid, p).pid = p
          /\ DOMAIN Content(Join(sid, p)) = {}
          /\ \A q : ~Erases(Join(sid, p), q)
          /\ Shows(Join(sid, p), p)
      BY EmptyTable DEF Join, Content, Erases, Shows
    <3>3. NoticesOnly /\ ShortBurst
      BY <1>7, <3>1, <3>2 DEF NoticesOnly, ShortBurst, IsNotice, Notices
    <3>4. ASSUME TunedIn'
          PROVE  Updated
      <4>1. Viewer \in DOMAIN hub'.connections /\ hub'.connections[Viewer].sock = x
        BY <1>6, <3>4 DEF TunedIn
      <4>2. /\ Viewer \in DOMAIN hub.connections
            /\ hub'.connections[Viewer] = hub.connections[Viewer]
        BY <1>5, <2>7, <4>1
      <4>3. TunedIn
        BY <1>2, <1>6, <1>10, <3>4, <4>1, <4>2 DEF TunedIn, x
      <4>4. ASSUME NEW q \in Roster(TheSession') \ {Viewer}, q \notin Roster(TheSession)
            PROVE  \E m : ToPage = {m} /\ Shows(m, q)
        <5> DEFINE s == hub.connections[Viewer].sid
        <5>1. s \in Sids /\ s \in DOMAIN sessions /\ s \in DOMAIN sessions'
          BY <4>1, <4>2, RegisteredInSession, StillInSession
        <5>2. TheSession = sessions[s] /\ TheSession' = sessions'[s]
          BY <4>2 DEF TheSession
        <5>3. q \in Pids
          BY <4>4, <5>1, <5>2 DEF ConsistencyInv, TypeOK, StateTypeOK, IsSession, IsTable, Roster
        <5>4. ~InSession(s, q) /\ \A r \in Sids : r = s => InSession(r, q)'
          BY <4>4, <5>1, <5>2 DEF InSession
        <5> HIDE DEF s
        <5>5. s = sid /\ q = p
          BY <1>3, <5>1, <5>3, <5>4
        <5>6. hub'.connections[Viewer].sid = sid /\ ready[x] = "open"
          BY <1>2, <1>6, <3>4, <4>2, <5>5 DEF s, TunedIn
        <5>7. <<x, Join(sid, p)>> \in BroadcastToSession(hub', sid, Join(sid, p), {p})
          BY <2>1, <2>7, <4>1, <5>6, BroadcastReaches
        <5>8. <<x, Join(sid, p)>>[1] = x /\ <<x, Join(sid, p)>>[2] = Join(sid, p)
          OBVIOUS
        <5>9. Join(sid, p) \in ToPage
          BY <1>2, <1>8, <1>10, <5>4, <5>5, <5>7, <5>8
        <5> QED BY <3>1, <3>2, <5>5, <5>9
      <4> QED BY <1>2, <3>1, <3>2, <4>1, <4>2, <4>3, <4>4, QuietUpdate
    <3> QED BY <3>3, <3>4 DEF PageIsTold
  <2> QED BY <2>6, <2>7
<1> QED BY <1>9, <1>10
\* The sockets of the page stay where they are but for closing.
LEMMA PageStaysPut ==
  ASSUME ConsistencyInv, ConsistencyInv', DialedInOrder,
         \A c \in Socks : /\ ready'[c] = "open" => ready[c] = "open"
                          /\ ready'[c] = "new" <=> ready[c] = "new"
  PROVE  /\ HasSocket(Viewer)' <=> HasSocket(Viewer)
         /\ Current(Viewer)' = Current(Viewer)
         /\ TunedIn' =>
              /\ HasSocket(Viewer) /\ ready[Current(Viewer)] = "open"
              /\ Viewer \in DOMAIN hub'.connections
              /\ hub'.connections[Viewer].sock = Current(Viewer)
<1>1. Viewer \in Pids
  BY RoomAssumption
<1>2. Opened(Viewer)' = Opened(Viewer)
  BY <1>1, SocketLists DEF Opened
<1>3. HasSocket(Viewer)' <=> HasSocket(Viewer)
  BY <1>2 DEF HasSocket
<1>4. Current(Viewer)' = Current(Viewer)
  BY <1>2 DEF Current
<1>5. HasSocket(Viewer) => Current(Viewer) \in Socks
  BY <1>1, CurrentSocket, SocketLists DEF Current
<1> QED BY <1>3, <1>4, <1>5 DEF TunedIn

\* bye and the close event: the page hears that a peer left.
LEMMA RemovalTellsPage ==
  ASSUME ConsistencyInv, ConsistencyInv', DialedInOrder, OwnSockets,
         [Next]_vars, tickSeq' = tickSeq,
         NEW sid \in Sids, NEW pid \in Pids, NEW records, RemoveFromSession(sid, pid, records),
         \A c \in Socks : /\ ready'[c] = "open" => ready[c] = "open"
                          /\ ready'[c] = "new" <=> ready[c] = "new"
  PROVE  PageIsTold
<1> DEFINE x == Current(Viewer)
           leave == Leave(sid, pid)
<1>1. /\ hub' = Unregister(hub, {pid})
      /\ out'.sent = {} \/ out'.sent = BroadcastToSession(hub', sid, leave, {pid})
  BY DEF RemoveFromSession
<1>2. \A s \in Sids, q \in Pids : InSession(s, q)' <=> InSession(s, q) /\ ~(s = sid /\ q = pid)
  BY RemovalRosters DEF ConsistencyInv
<1>3. /\ leave.t = "leave" /\ leave.pid = pid
      /\ DOMAIN Content(leave) = {}
      /\ \A q : Erases(leave, q) => q = pid
  BY EmptyTable DEF Leave, Content, Erases
<1>4. \A m \in ToPage : IsMessage(m)
  BY SentAreMessages DEF ConsistencyInv
<1>5. \A m : m \in ToPage <=> HasSocket(Viewer) /\ \E e \in out'.sent : e[1] = x /\ e[2] = m
  BY DEF ToPage
<1>6. IsHub(hub) /\ IsIndexed(hub)
  BY DEF ConsistencyInv, HubIndexed, TypeOK, StateTypeOK
<1>7. /\ IsIndexed(hub')
      /\ DOMAIN hub'.connections = DOMAIN hub.connections \ {pid}
      /\ \A q \in DOMAIN hub'.connections : hub'.connections[q] = hub.connections[q]
  BY <1>1, <1>6, UnregisterIndexed
<1>8. \A m \in ToPage : m = leave /\ hub'.connections[Viewer].sid = sid
  <2>1. HasSocket(Viewer) =>
          \A p \in DOMAIN hub'.connections : hub'.connections[p].sock = x => p = Viewer
    BY <1>7, HubsOfPage
  <2> HIDE DEF x, leave
  <2>2. HasSocket(Viewer) =>
          \A e \in BroadcastToSession(hub', sid, leave, {pid}) :
            e[1] = x => e[2] = leave /\ hub'.connections[Viewer].sid = sid
    BY <1>7, <2>1, BroadcastToPage
  <2> QED BY <1>1, <1>5, <2>2
<1> HIDE DEF leave
<1>9. NoticesOnly /\ ShortBurst
  BY <1>3, <1>4, <1>8 DEF NoticesOnly, ShortBurst, IsNotice, Notices
<1>10. ASSUME TunedIn'
       PROVE  Updated
  <2>1. /\ HasSocket(Viewer) /\ ready[x] = "open"
        /\ Viewer \in DOMAIN hub'.connections /\ hub'.connections[Viewer].sock = x
    BY <1>10, PageStaysPut
  <2>2. Viewer \in DOMAIN hub.connections /\ hub'.connections[Viewer] = hub.connections[Viewer]
    BY <1>7, <2>1
  <2>3. TunedIn
    BY <2>1, <2>2 DEF TunedIn
  <2>4. ASSUME NEW q \in Roster(TheSession')
        PROVE  q \in Roster(TheSession) /\ \A m \in ToPage : ~Erases(m, q)
    <3> DEFINE s == hub.connections[Viewer].sid
    <3>1. s \in Sids /\ s \in DOMAIN sessions /\ s \in DOMAIN sessions'
      BY <2>1, <2>2, RegisteredInSession, StillInSession
    <3>2. TheSession = sessions[s] /\ TheSession' = sessions'[s]
      BY <2>2 DEF TheSession
    <3>3. q \in Pids
      BY <2>4, <3>1, <3>2 DEF ConsistencyInv, TypeOK, StateTypeOK, IsSession, IsTable, Roster
    <3>4. \A r \in Sids : r = s => InSession(r, q)'
      BY <2>4, <3>1, <3>2 DEF InSession
    <3>5. ToPage # {} => s = sid
      BY <1>8, <2>2
    <3> HIDE DEF s
    <3>6. InSession(s, q) /\ ~(s = sid /\ q = pid)
      BY <1>2, <3>1, <3>3, <3>4
    <3> QED BY <1>3, <1>8, <3>2, <3>5, <3>6 DEF InSession
  <2> QED BY <1>3, <1>8, <2>1, <2>2, <2>3, <2>4, QuietUpdate
<1> QED BY <1>9, <1>10 DEF PageIsTold

\* A step that sends nothing, and leaves hub and rosters alone.
LEMMA QuietTellsPage ==
  ASSUME ConsistencyInv, ConsistencyInv', DialedInOrder, OwnSockets,
         [Next]_vars, tickSeq' = tickSeq, hub' = hub, out' = Silent,
         \A s \in Sids, p \in Pids : InSession(s, p)' <=> InSession(s, p),
         \A c \in Socks : /\ ready'[c] = "open" => ready[c] = "open"
                          /\ ready'[c] = "new" <=> ready[c] = "new"
  PROVE  PageIsTold
<1>1. ToPage = {}
  BY DEF ToPage, Silent
<1>2. ASSUME TunedIn'
      PROVE  Updated
  <2>1. TunedIn
    BY <1>2, PageStaysPut DEF TunedIn
  <2>2. Viewer \in DOMAIN hub'.connections /\ Viewer \in DOMAIN hub.connections
    BY <2>1 DEF TunedIn
  <2>3. ASSUME NEW q \in Roster(TheSession')
        PROVE  q \in Roster(TheSession)
    <3> DEFINE s == hub.connections[Viewer].sid
    <3>1. s \in Sids /\ s \in DOMAIN sessions /\ s \in DOMAIN sessions'
      BY <2>2, RegisteredInSession, StillInSession
    <3>2. TheSession = sessions[s] /\ TheSession' = sessions'[s]
      BY DEF TheSession
    <3>3. q \in Pids
      BY <2>3, <3>1, <3>2 DEF ConsistencyInv, TypeOK, StateTypeOK, IsSession, IsTable, Roster
    <3>4. \A r \in Sids : r = s => InSession(r, q)'
      BY <2>3, <3>1, <3>2 DEF InSession
    <3> HIDE DEF s
    <3> QED BY <3>1, <3>2, <3>3, <3>4 DEF InSession
  <2> QED BY <1>1, <2>1, <2>2, <2>3, QuietUpdate
<1> QED BY <1>1, <1>2 DEF PageIsTold, NoticesOnly, ShortBurst
\* The reaper: the page hears of each victim of its session, and nothing else.
LEMMA SweepTellsPage ==
  ASSUME ConsistencyInv, ConsistencyInv', DialedInOrder, OwnSockets, [Next]_vars, ReaperSweep
  PROVE  PageIsTold
<1> DEFINE x == Current(Viewer)
           victims == {r[2] : r \in Reaped}
<1>1. PICK turn \in [Reaped -> 1 .. Cardinality(Reaped)] :
        LET gone(n) == {r[2] : r \in {q \in Reaped : turn[q] <= n}} IN
        out' = [sent |-> UNION {BroadcastToSession(Unregister(hub, gone(turn[r])),
                                  r[1], Leave(r[1], r[2]), {r[2]}) : r \in Reaped},
                recorded |-> {Record(r[1], r[2], "session.end", "inferred") : r \in Reaped}]
  BY DEF ReaperSweep
<1> DEFINE gone(n) == {r[2] : r \in {q \in Reaped : turn[q] <= n}}
           told(r) == BroadcastToSession(Unregister(hub, gone(turn[r])),
                                         r[1], Leave(r[1], r[2]), {r[2]})
<1>2. out'.sent = UNION {told(r) : r \in Reaped}
  BY <1>1
<1>3. hub' = Unregister(hub, victims) /\ UNCHANGED <<ctx, ready, tickSeq>>
  BY DEF ReaperSweep
<1> HIDE DEF gone, victims
<1>4. \A m \in ToPage : IsMessage(m)
  BY SentAreMessages DEF ConsistencyInv
<1>5. ASSUME NEW m \in ToPage
      PROVE  \E r \in Reaped : m = Leave(r[1], r[2]) /\ hub.connections[Viewer].sid = r[1]
  <2>1. HasSocket(Viewer)
    BY <1>5 DEF ToPage
  <2>2. PICK r \in Reaped : \E e \in told(r) : e[1] = x /\ e[2] = m
    BY <1>2, <1>5 DEF ToPage
  <2> DEFINE h == Unregister(hub, gone(turn[r]))
             leave == Leave(r[1], r[2])
  <2>3. /\ IsIndexed(h)
        /\ \A p \in DOMAIN h.connections :
             /\ h.connections[p] = hub.connections[p]
             /\ h.connections[p].sock = x => p = Viewer
    BY <2>1, HubsOfPage
  <2>4. PICK e \in BroadcastToSession(h, r[1], leave, {r[2]}) : e[1] = x /\ e[2] = m
    BY <2>2
  <2> HIDE DEF h, leave, x
  <2>5. e[2] = leave /\ Viewer \in DOMAIN h.connections /\ h.connections[Viewer].sid = r[1]
    BY <2>3, <2>4, BroadcastToPage
  <2> QED BY <2>3, <2>4, <2>5 DEF leave
<1> HIDE DEF told
<1>6. \A m \in ToPage : /\ m.t = "leave" /\ m.pid \in Pids /\ DOMAIN Content(m) = {}
                        /\ m = Leave(hub.connections[Viewer].sid, m.pid)
                        /\ <<hub.connections[Viewer].sid, m.pid>> \in Reaped
                        /\ \A q : Erases(m, q) => q = m.pid
  <2>1. \A r \in Reaped : r = <<r[1], r[2]>> /\ r[2] \in Pids
    BY DEF Reaped
  <2>2. \A s, p : /\ Leave(s, p).t = "leave" /\ Leave(s, p).pid = p
                  /\ DOMAIN Content(Leave(s, p)) = {}
                  /\ \A q : Erases(Leave(s, p), q) => q = p
    BY EmptyTable DEF Leave, Content, Erases
  <2> QED BY <1>5, <2>1, <2>2
<1>7. IsFiniteSet(ToPage)
  <2> DEFINE pidOf == [m \in ToPage |-> m.pid]
  <2>1. pidOf \in [ToPage -> Pids]
    BY <1>6
  <2>2. \A m, n \in ToPage : m.pid = n.pid => m = n
    BY <1>6
  <2>3. IsInjective(pidOf)
    BY <2>2 DEF IsInjective
  <2>4. pidOf \in Injection(ToPage, Pids)
    BY <2>1, <2>3 DEF Injection
  <2> HIDE DEF pidOf
  <2> QED BY <2>4, FS_Injection, RoomAssumption
<1>8. NoticesOnly /\ ShortBurst
  BY <1>4, <1>6, <1>7 DEF NoticesOnly, ShortBurst, IsNotice, Notices
<1>9. ASSUME TunedIn'
      PROVE  Updated
  <2>1. /\ HasSocket(Viewer) /\ ready[x] = "open"
        /\ Viewer \in DOMAIN hub'.connections /\ hub'.connections[Viewer].sock = x
    BY <1>3, <1>9, PageStaysPut
  <2>2. Viewer \in DOMAIN hub.connections /\ hub'.connections[Viewer] = hub.connections[Viewer]
    <3>1. IsHub(hub) /\ IsIndexed(hub)
      BY DEF ConsistencyInv, HubIndexed, TypeOK, StateTypeOK
    <3> QED BY <1>3, <2>1, <3>1, UnregisterIndexed
  <2>3. TunedIn
    BY <2>1, <2>2 DEF TunedIn
  <2>4. ASSUME NEW q \in Roster(TheSession')
        PROVE  q \in Roster(TheSession) /\ \A m \in ToPage : ~Erases(m, q)
    <3> DEFINE s == hub.connections[Viewer].sid
    <3>1. s \in Sids /\ s \in DOMAIN sessions /\ s \in DOMAIN sessions'
      BY <2>1, <2>2, RegisteredInSession, StillInSession
    <3>2. TheSession = sessions[s] /\ TheSession' = sessions'[s]
      BY <2>2 DEF TheSession
    <3>3. q \in Pids
      BY <2>4, <3>1, <3>2 DEF ConsistencyInv, TypeOK, StateTypeOK, IsSession, IsTable, Roster
    <3>4. \A r \in Sids : r = s => InSession(r, q)'
      BY <2>4, <3>1, <3>2 DEF InSession
    <3>5. InSession(s, q) /\ <<s, q>> \notin Reaped
      <4> HIDE DEF s
      <4>1. \A r \in Sids, p \in Pids :
              InSession(r, p)' <=> InSession(r, p) /\ <<r, p>> \notin Reaped
        BY SweepRosters DEF ConsistencyInv
      <4> QED BY <3>1, <3>3, <3>4, <4>1
    <3>6. \A m \in ToPage : m.pid # q
      BY <1>6, <3>5
    <3> QED BY <1>6, <3>2, <3>5, <3>6 DEF InSession
  <2> QED BY <1>3, <1>6, <2>1, <2>2, <2>3, <2>4, QuietUpdate
<1> QED BY <1>8, <1>9 DEF PageIsTold

\* A tick: one patch of the page's session, which carries every value it flushes
\* and repeats none that is not current.
LEMMA TickTellsPage ==
  ASSUME ConsistencyInv, ConsistencyInv', SettleIsCurrent, DialedInOrder, OwnSockets, Tick
  PROVE  PageIsTold
<1> DEFINE x == Current(Viewer)
           s == hub.connections[Viewer].sid
           emitted(r) == IF r \in Flushed THEN ToPatch(sessions[r]) ELSE settling[r].patches
           patch(r) == Patch(r, PatchSeq(r), emitted(r))
<1>1. /\ UNCHANGED <<hub, ctx, ready>> /\ tickSeq' = tickSeq + 1
      /\ sessions' = [r \in DOMAIN sessions |->
                        IF r \in Flushed THEN ClearDirty(sessions[r]) ELSE sessions[r]]
      /\ out'.sent = UNION {BroadcastToSession(hub, r, patch(r), {}) :
                              r \in Flushed \cup (Settled \ Expired)}
  BY DEF Tick, Sends
<1>2. \A m \in ToPage : IsMessage(m)
  BY SentAreMessages DEF ConsistencyInv
<1>3. \A r : /\ patch(r).t = "patch" /\ patch(r).seq = tickSeq + 1
             /\ Content(patch(r)) = emitted(r)
             /\ \A q : ~Erases(patch(r), q)
  BY <1>1 DEF Patch, PatchSeq, Content, Erases
<1> HIDE DEF patch
<1>4. \A m : m \in ToPage <=> HasSocket(Viewer) /\ \E e \in out'.sent : e[1] = x /\ e[2] = m
  BY DEF ToPage
<1>5. ASSUME NEW m \in ToPage
      PROVE  m = patch(s) /\ s \in Flushed \cup (Settled \ Expired)
  <2>1. PICK r \in Flushed \cup (Settled \ Expired) :
          \E e \in BroadcastToSession(hub, r, patch(r), {}) : e[1] = x /\ e[2] = m
    BY <1>1, <1>4, <1>5
  <2>2. /\ IsIndexed(hub)
        /\ \A p \in DOMAIN hub.connections : hub.connections[p].sock = x => p = Viewer
    BY <1>4, <1>5, HubsOfPage
  <2> HIDE DEF x
  <2> QED BY <2>1, <2>2, BroadcastToPage
<1>6. NoticesOnly /\ ShortBurst
  <2>1. NoticesOnly
    BY <1>1, <1>2, <1>3, <1>5 DEF NoticesOnly, IsNotice, Notices
  <2>2. ToPage = {} \/ ToPage = {patch(s)}
    BY <1>5
  <2> QED BY <2>1, <2>2 DEF ShortBurst
<1>7. ASSUME TunedIn'
      PROVE  Updated
  <2>1. TunedIn
    BY <1>1, <1>7 DEF TunedIn, HasSocket, Opened, Current
  <2>2. s \in DOMAIN sessions /\ TheSession = sessions[s] /\ TheSession' = sessions'[s]
    BY <1>1, <2>1, RegisteredInSession DEF TunedIn, TheSession
  <2>3. /\ TheSession'.participants = TheSession.participants
        /\ s \notin Flushed => TheSession' = TheSession
    <3>1. TheSession' = IF s \in Flushed THEN ClearDirty(sessions[s]) ELSE sessions[s]
      BY <1>1, <2>2
    <3>2. IsSession(sessions[s])
      BY <2>2 DEF ConsistencyInv, TypeOK, StateTypeOK
    <3> HIDE DEF s
    <3> QED BY <2>2, <3>1, <3>2, ClearDirtyType
  <2>4. s \in Flushed => ToPage = {patch(s)}
    <3>1. <<x, patch(s)>> \in BroadcastToSession(hub, s, patch(s), {})
      <4>1. IsIndexed(hub)
        BY DEF ConsistencyInv, HubIndexed
      <4> QED BY <2>1, <4>1, BroadcastReaches DEF TunedIn
    <3>2. <<x, patch(s)>>[1] = x /\ <<x, patch(s)>>[2] = patch(s)
      OBVIOUS
    <3>3. s \in Flushed => patch(s) \in ToPage
      BY <1>1, <1>4, <2>1, <3>1, <3>2 DEF TunedIn
    <3> QED BY <1>5, <3>3
  <2> HIDE DEF s, x
  <2>5. ASSUME NEW q \in Roster(TheSession'),
               NEW f \in DOMAIN TheSession'.participants[q].presence
                           \ DirtyFieldsOf(TheSession', q)
        PROVE  LET is == TheSession'.participants[q].presence IN
               /\ \A m \in ToPage : Speaks(m, q, f) => Content(m)[q][f] = is[f].value
               /\ \/ f \notin DirtyFieldsOf(TheSession, q)
                  \/ \E m : ToPage = {m} /\ Speaks(m, q, f)
    <3>1. CASE s \in Flushed
      <4>1. Content(patch(s)) = ToPatch(TheSession)
        BY <1>3, <2>2, <3>1
      <4>2. Speaks(patch(s), q, f) =>
              Content(patch(s))[q][f] = TheSession.participants[q].presence[f].value
        BY <4>1, FlushIsCurrent DEF Speaks
      <4>3. f \in DirtyFieldsOf(TheSession, q) => Speaks(patch(s), q, f)
        BY <2>3, <4>1, EmptyTable DEF Speaks, ToPatch, Values, DirtyFieldsOf, Roster
      <4> QED BY <2>3, <2>4, <3>1, <4>2, <4>3
    <3>2. CASE s \notin Flushed
      <4>1. Content(patch(s)) = settling[s].patches
        BY <1>3, <3>2
      <4>2. ToPage # {} => s \in DOMAIN settling
        BY <1>5, <3>2 DEF Settled
      <4>3. \A m \in ToPage : Speaks(m, q, f) =>
              Content(m)[q][f] = TheSession'.participants[q].presence[f].value
        BY <1>5, <2>2, <2>3, <3>2, <4>1, <4>2 DEF SettleIsCurrent, Speaks
      <4> QED BY <2>3, <3>2, <4>3
    <3> QED BY <3>1, <3>2
  <2>6. \A q \in Roster(TheSession') : q \in Roster(TheSession) /\ \A m \in ToPage : ~Erases(m, q)
    BY <1>3, <1>5, <2>3 DEF Roster
  <2> QED BY <2>1, <2>3, <2>5, <2>6 DEF Updated, ToldWhatChanged
<1> QED BY <1>6, <1>7 DEF PageIsTold
\* So whatever the server does, the page is told of it.
LEMMA StepTellsPage ==
  ASSUME OneRoomPerPid, ConsistencyInv, ConsistencyInv', SettleIsCurrent,
         DialedInOrder, OwnSockets, OwnSockets', [Next]_vars, ServerStep
  PROVE  PageIsTold
<1>1. TypeOK /\ ready \in [Socks -> {"new", "open", "closing", "closed"}]
  BY DEF ConsistencyInv, TypeOK, StateTypeOK
<1>2. ASSUME NEW p \in Pids, PageSends(p)
      PROVE  PageIsTold
  <2> DEFINE c == Current(p)
  <2>1. HasSocket(p)
    BY <1>2 DEF PageSends
  <2>2. c \in Socks
    BY <2>1, CurrentIsOwn
  <2> HIDE DEF c
  <2> ctx[c].sid \in Sids
    BY <2>2, CtxType DEF ConsistencyInv, TypeOK
  <2>3. PICK seq \in 0 .. LastSeqOf[p] :
          \/ Hello(c, p, seq, now)
          \/ \E m \in Moves : Move(c, p, seq, m[1], m[2])
          \/ Bye(c, p, seq)
    BY <1>2, UsersMove DEF PageSends, c
  <2>4. seq \in Int
    OBVIOUS
  <2>5. CASE Hello(c, p, seq, now)
    BY <2>1, <2>4, <2>5, HelloTellsPage DEF c
  <2>6. ASSUME NEW m \in Moves, Move(c, p, seq, m[1], m[2])
        PROVE  PageIsTold
    <3>1. m[1] \in Fields /\ m[2] \in Points
      BY ServerAssumption
    <3>2. \A s \in Sids, q \in Pids : InSession(s, q)' <=> InSession(s, q)
      BY <1>1, <2>2, <2>4, <2>6, <3>1, MoveRosters
    <3>3. out' = Silent /\ UNCHANGED <<hub, ready, tickSeq>>
      BY <2>6 DEF Move
    <3> QED BY <3>2, <3>3, QuietTellsPage
  <2>7. CASE Bye(c, p, seq)
    <3>1. RemoveFromSession(ctx[c].sid, p, {}) /\ UNCHANGED <<ready, tickSeq>>
      BY <2>7 DEF Bye
    <3> QED BY <2>2, <3>1, RemovalTellsPage
  <2> QED BY <2>3, <2>5, <2>6, <2>7
<1>3. ASSUME NEW c \in Socks, SocketLost(c) \/ Disconnect(c)
      PROVE  PageIsTold
  <2>1. \A d \in Socks : /\ ready'[d] = "open" => ready[d] = "open"
                         /\ ready'[d] = "new" <=> ready[d] = "new"
    BY <1>1, <1>3 DEF SocketLost, Disconnect
  <2>2. tickSeq' = tickSeq
    BY <1>3 DEF SocketLost, Disconnect
  <2>3. CASE Disconnect(c) /\ WasEstablished(c)
    <3>1. ctx[c].sid \in Sids /\ ctx[c].pid \in Pids
      BY <2>3, CtxType DEF WasEstablished, ConsistencyInv, TypeOK
    <3>2. PICK records : RemoveFromSession(ctx[c].sid, ctx[c].pid, records)
      BY <2>3 DEF Disconnect
    <3> QED BY <2>1, <2>2, <3>1, <3>2, RemovalTellsPage
  <2>4. CASE SocketLost(c) \/ ~WasEstablished(c)
    <3>1. out' = Silent /\ UNCHANGED <<hub, sessions>>
      BY <1>3, <2>4 DEF SocketLost, Disconnect
    <3>2. \A s \in Sids, q \in Pids : InSession(s, q)' <=> InSession(s, q)
      BY <3>1 DEF InSession
    <3> QED BY <2>1, <2>2, <3>1, <3>2, QuietTellsPage
  <2> QED BY <1>3, <2>3, <2>4
<1>4. CASE Elapse
  <2>1. out' = Silent /\ UNCHANGED <<hub, sessions, ready, tickSeq>>
    BY <1>4 DEF Elapse
  <2>2. \A s \in Sids, q \in Pids : InSession(s, q)' <=> InSession(s, q)
    BY <2>1 DEF InSession
  <2> QED BY <2>1, <2>2, QuietTellsPage
<1> QED BY <1>2, <1>3, <1>4, TickTellsPage, SweepTellsPage DEF ServerStep

---------------------------------------------------------------------------
(* What holds of page and server together.                                 *)

\* The page's variables, and the numbers of the patches it was sent.
PageOK ==
  /\ IsQueue(wire)
  /\ \A i \in 1 .. Len(wire) : IsNotice(wire[i])
  /\ Viewer \notin DOMAIN remotes
  /\ DOMAIN remotes \subseteq Pids
  /\ \A q \in DOMAIN remotes : /\ IsMap(remotes[q].values, Fields, Points)
                               /\ remotes[q].lastSeenAt \in Nat
  /\ lastPatchSeq \in Int
  /\ lastPatchSeq <= tickSeq
  /\ \A i \in 1 .. Len(wire) : wire[i].t = "patch" => wire[i].seq <= tickSeq

\* A page that is tuned in draws every other participant of its session, and each
\* field of theirs with nothing left to flush as the server holds it, once it has
\* received what is on the way; but for what may have faded out.
ConvergesOn(session, w, rem, faded) ==
  \A q \in Roster(session) \ {Viewer} :
    /\ ComesUp(w, rem, q, faded)
    /\ \A f \in DOMAIN session.participants[q].presence \ DirtyFieldsOf(session, q) :
         ComesTrue(w, rem, q, f, session.participants[q].presence[f].value, faded)
Converging == TunedIn => ConvergesOn(TheSession, wire, remotes, MayHaveFaded)

RoomInv ==
  /\ ConsistencyInv
  /\ SettleIsCurrent
  /\ DialedInOrder
  /\ OwnSockets
  /\ PageOK
  /\ PatchesInFlightAreNews
  /\ Converging
---------------------------------------------------------------------------
(* Every step keeps it.                                                    *)

\* What is put on the wire in one step: in whatever order, no patch but alone.
LEMMA BurstOfStep ==
  ASSUME ShortBurst, NEW burst \in SetToSeqs(ToPage)
  PROVE  /\ IsQueue(burst)
         /\ \A i \in 1 .. Len(burst) : burst[i] \in ToPage
         /\ Len(burst) <= 1 \/ \A i \in 1 .. Len(burst) : burst[i].t = "leave"
<1>1. CASE ToPage = {}
  <2>1. IsQueue(burst) /\ Len(burst) = 0
    BY <1>1, SmallBursts
  <2>2. \A i \in 1 .. Len(burst) : FALSE
    BY <2>1
  <2> QED BY <2>1, <2>2
<1>2. ASSUME NEW m, ToPage = {m}
      PROVE  /\ IsQueue(burst) /\ Len(burst) <= 1
             /\ \A i \in 1 .. Len(burst) : burst[i] \in ToPage
  <2>1. IsQueue(burst) /\ Len(burst) = 1 /\ burst[1] = m
    BY <1>2, SmallBursts
  <2> QED BY <1>2, <2>1
<1>3. ASSUME IsFiniteSet(ToPage), \A m \in ToPage : m.t = "leave"
      PROVE  /\ IsQueue(burst)
             /\ \A i \in 1 .. Len(burst) : burst[i] \in ToPage
             /\ \A i \in 1 .. Len(burst) : burst[i].t = "leave"
  <2>1. IsQueue(burst) /\ \A i \in 1 .. Len(burst) : burst[i] \in ToPage
    BY <1>3, FiniteBursts
  <2> QED BY <1>3, <2>1
<1>4. CASE \E m : ToPage = {m}
  <2>1. PICK m : ToPage = {m}
    BY <1>4
  <2> QED BY <1>2, <2>1
<1>5. CASE IsFiniteSet(ToPage) /\ \A m \in ToPage : m.t = "leave"
  BY <1>3, <1>5
<1> QED BY <1>1, <1>4, <1>5 DEF ShortBurst

\* A page whose session tells it what changed stays on its way to the new one.
LEMMA UpdateConverges ==
  ASSUME NEW old, NEW new, ToldWhatChanged(old, new), IsQueue(wire),
         NEW burst \in SetToSeqs(ToPage), IsQueue(burst),
         \A i \in 1 .. Len(burst) : burst[i] \in ToPage,
         NEW before \in BOOLEAN, NEW after \in BOOLEAN, before => after,
         ConvergesOn(old, wire, remotes, before)
  PROVE  ConvergesOn(new, wire \o burst, remotes, after)
<1> DEFINE w == wire \o burst
<1>1. \A m : ToPage = {m} => Len(burst) = 1 /\ burst[1] = m
  BY SmallBursts
<1> SUFFICES ASSUME NEW q \in Roster(new) \ {Viewer}
             PROVE  /\ ComesUp(w, remotes, q, after)
                    /\ \A f \in DOMAIN new.participants[q].presence \ DirtyFieldsOf(new, q) :
                         ComesTrue(w, remotes, q, f,
                                   new.participants[q].presence[f].value, after)
  BY DEF ConvergesOn
<1>2. \A i \in 1 .. Len(burst) : ~Erases(burst[i], q)
  BY DEF ToldWhatChanged
<1>3. ComesUp(w, remotes, q, after)
  <2>1. CASE q \in Roster(old)
    <3>1. ComesUp(wire, remotes, q, before)
      BY <2>1 DEF ConvergesOn
    <3>2. ComesUp(w, remotes, q, before)
      BY <1>2, <3>1, SentComesUp
    <3> QED BY <3>2 DEF ComesUp
  <2>2. CASE q \notin Roster(old)
    <3>1. PICK m : ToPage = {m} /\ Shows(m, q)
      BY <2>2 DEF ToldWhatChanged
    <3> QED BY <1>1, <3>1, SentComesUp
  <2> QED BY <2>1, <2>2
<1>4. ASSUME NEW f \in DOMAIN new.participants[q].presence \ DirtyFieldsOf(new, q)
      PROVE  ComesTrue(w, remotes, q, f, new.participants[q].presence[f].value, after)
  <2> DEFINE v == new.participants[q].presence[f].value
             was == old.participants[q].presence
  <2>1. /\ \A m \in ToPage : Speaks(m, q, f) => Content(m)[q][f] = v
        /\ \/ /\ q \in Roster(old)
              /\ f \in DOMAIN was \ DirtyFieldsOf(old, q)
              /\ was[f].value = v
           \/ \E m : ToPage = {m} /\ Speaks(m, q, f)
    BY DEF ToldWhatChanged
  <2>2. CASE q \in Roster(old) /\ f \in DOMAIN was \ DirtyFieldsOf(old, q) /\ was[f].value = v
    <3>1. ComesTrue(wire, remotes, q, f, v, before)
      BY <2>2 DEF ConvergesOn
    <3> HIDE DEF v, w
    <3>2. \A i \in 1 .. Len(burst) : Keeps(burst[i], q, f, v, before)
      BY <1>2, <2>1 DEF Keeps
    <3>3. ComesTrue(w, remotes, q, f, v, before)
      BY <3>1, <3>2, SentComesTrue DEF w
    <3> QED BY <3>3, FadingComesTrue DEF v
  <2>3. ASSUME NEW m, ToPage = {m}, Speaks(m, q, f)
        PROVE  ComesTrue(w, remotes, q, f, v, after)
    <3>1. Len(burst) = 1 /\ Tells(burst[1], q, f, v, after)
      BY <1>1, <2>1, <2>3 DEF Tells
    <3> HIDE DEF v
    <3> QED BY <3>1, SentComesTrue
  <2> QED BY <2>1, <2>2, <2>3
<1> QED BY <1>3, <1>4

\* A welcome says it all.
LEMMA WelcomeConverges ==
  ASSUME NEW new, IsSession(new), NEW m, m.t = "welcome", m.roster = ToSnapshot(new),
         IsQueue(wire), NEW burst, IsQueue(burst), Len(burst) = 1, burst[1] = m,
         NEW after \in BOOLEAN
  PROVE  ConvergesOn(new, wire \o burst, remotes, after)
<1> SUFFICES ASSUME NEW q \in Roster(new) \ {Viewer}
             PROVE  /\ ComesUp(wire \o burst, remotes, q, after)
                    /\ \A f \in DOMAIN new.participants[q].presence :
                         ComesTrue(wire \o burst, remotes, q, f,
                                   new.participants[q].presence[f].value, after)
  BY DEF ConvergesOn
<1>1. /\ Content(m) = ToSnapshot(new)
      /\ q \in DOMAIN ToSnapshot(new)
      /\ ToSnapshot(new)[q] = Values(new.participants[q].presence, Fields)
  BY DEF Content, ToSnapshot
<1>2. ComesUp(wire \o burst, remotes, q, after)
  <2>1. Shows(m, q)
    BY <1>1 DEF Shows
  <2> QED BY <2>1, SentComesUp
<1>3. ASSUME NEW f \in DOMAIN new.participants[q].presence
      PROVE  ComesTrue(wire \o burst, remotes, q, f,
                       new.participants[q].presence[f].value, after)
  <2> DEFINE v == new.participants[q].presence[f].value
  <2>1. f \in Fields
    BY DEF IsSession, IsTable, IsParticipant, IsPresence, IsMap, Roster
  <2>2. Speaks(m, q, f) /\ Content(m)[q][f] = v
    BY <1>1, <2>1 DEF Speaks, Values
  <2>3. Tells(burst[1], q, f, v, after)
    BY <2>2 DEF Tells
  <2> HIDE DEF v
  <2>4. ComesTrue(wire \o burst, remotes, q, f, v, after)
    BY <2>3, SentComesTrue
  <2> QED BY <2>4 DEF v
<1> QED BY <1>2, <1>3
\* The server's part of the invariant.
LEMMA ServerPartKept ==
  ASSUME OneRoomPerPid, RoomInv, [RoomNext]_roomVars
  PROVE  /\ [Next]_vars
         /\ ConsistencyInv' /\ SettleIsCurrent' /\ DialedInOrder' /\ OwnSockets'
<1>1. TypeOK
  BY DEF RoomInv, ConsistencyInv
<1>2. [Next]_vars
  BY <1>1, RoomStepIsNext DEF RoomInv
<1>3. ConsistencyInv'
  BY <1>2, NextConsistent DEF RoomInv
<1>4. SettleIsCurrent'
  BY <1>1, <1>2, StepKeepsSettle DEF RoomInv
<1>5. DialedInOrder' /\ OwnSockets'
  BY <1>1, SocketsStayOwn DEF RoomInv
<1> QED BY <1>2, <1>3, <1>4, <1>5

\* The server moves on: what it sends goes to the end of the queue.
LEMMA ServerStepKeepsPage ==
  ASSUME OneRoomPerPid, RoomInv, ServerStep, Transmit
  PROVE  PageOK' /\ PatchesInFlightAreNews' /\ Converging'
<1>1. [Next]_vars /\ ConsistencyInv' /\ OwnSockets'
  BY ServerPartKept DEF RoomNext
<1>2. NoticesOnly /\ ShortBurst /\ (TunedIn' => Welcomed \/ Updated)
  BY <1>1, StepTellsPage DEF RoomInv, PageIsTold
<1>3. PICK burst \in SetToSeqs(ToPage) : wire' = wire \o burst
  BY DEF Transmit
<1>4. /\ IsQueue(burst)
      /\ \A i \in 1 .. Len(burst) : burst[i] \in ToPage
      /\ Len(burst) <= 1 \/ \A i \in 1 .. Len(burst) : burst[i].t = "leave"
  BY <1>2, <1>3, BurstOfStep
<1>5. IsQueue(wire) /\ UNCHANGED <<remotes, lastPatchSeq>>
  BY DEF RoomInv, PageOK, Transmit
<1>6. /\ IsQueue(wire')
      /\ Len(wire) \in Nat /\ Len(burst) \in Nat
      /\ Len(wire') = Len(wire) + Len(burst)
      /\ DOMAIN wire = 1 .. Len(wire)
      /\ DOMAIN wire' = 1 .. Len(wire')
      /\ \A i \in 1 .. Len(wire) : wire'[i] = wire[i]
      /\ \A i \in Len(wire) + 1 .. Len(wire) + Len(burst) : wire'[i] = burst[i - Len(wire)]
  BY <1>3, <1>4, <1>5, Joined
<1>7. ASSUME NEW i \in 1 .. Len(wire'), ~(i \in 1 .. Len(wire))
      PROVE  /\ wire'[i] \in ToPage /\ IsNotice(wire'[i])
             /\ wire'[i].t = "patch" =>
                  /\ i = Len(wire) + 1 /\ Len(wire') = i
                  /\ wire'[i].seq = tickSeq + 1 /\ tickSeq' = tickSeq + 1
  <2>1. wire'[i] = burst[i - Len(wire)] /\ i - Len(wire) \in 1 .. Len(burst)
    BY <1>6, <1>7
  <2>2. wire'[i] \in ToPage
    BY <1>4, <2>1
  <2>3. ASSUME wire'[i].t = "patch"
        PROVE  Len(burst) = 1 /\ i = Len(wire) + 1
    <3> DEFINE k == Len(wire)
               n == Len(burst)
    <3>1. n <= 1
      BY <1>4, <2>1, <2>3
    <3>2. k \in Nat /\ n \in Nat /\ i - k \in 1 .. n /\ i \in Int
      BY <1>6, <2>1
    <3> HIDE DEF k, n
    <3>3. n = 1 /\ i = k + 1
      BY <3>1, <3>2
    <3> QED BY <3>3 DEF k, n
  <2> QED BY <1>2, <1>6, <2>2, <2>3 DEF NoticesOnly
<1>8. tickSeq \in Nat /\ tickSeq' \in {tickSeq, tickSeq + 1}
  <2>1. tickSeq' = tickSeq \/ tickSeq' = tickSeq + 1
    BY DEF ServerStep, PageSends, Hello, Move, Bye, SocketLost, Disconnect, Tick, ReaperSweep, Elapse
  <2> QED BY <2>1 DEF RoomInv, ConsistencyInv, TypeOK, StateTypeOK
<1>9. PageOK'
  <2>1. \A i \in 1 .. Len(wire') : IsNotice(wire'[i])
    BY <1>6, <1>7 DEF RoomInv, PageOK
  <2>2. ASSUME NEW i \in 1 .. Len(wire'), wire'[i].t = "patch"
        PROVE  wire'[i].seq <= tickSeq'
    <3>1. CASE i \in 1 .. Len(wire)
      <4>1. wire[i].t = "patch" /\ wire'[i].seq = wire[i].seq
        BY <1>6, <2>2, <3>1
      <4>2. wire[i].seq <= tickSeq /\ wire[i].seq \in Nat
        BY <3>1, <4>1 DEF RoomInv, PageOK, IsNotice, IsMessage
      <4> QED BY <1>8, <4>1, <4>2
    <3>2. CASE ~(i \in 1 .. Len(wire))
      BY <1>7, <1>8, <2>2, <3>2
    <3> QED BY <3>1, <3>2
  <2>3. lastPatchSeq' <= tickSeq'
    BY <1>5, <1>8 DEF RoomInv, PageOK
  <2> QED BY <1>5, <1>6, <2>1, <2>2, <2>3 DEF RoomInv, PageOK
<1>10. PatchesInFlightAreNews'
  <2> SUFFICES ASSUME NEW j \in 1 .. Len(wire'), wire'[j].t = "patch"
               PROVE  /\ wire'[j].seq > lastPatchSeq
                      /\ \A i \in 1 .. (j - 1) :
                           wire'[i].t = "patch" => wire'[i].seq < wire'[j].seq
    BY <1>5, <1>6 DEF PatchesInFlightAreNews
  <2>1. CASE j \in 1 .. Len(wire)
    <3>1. \A i \in 1 .. j : i \in 1 .. Len(wire) /\ wire'[i] = wire[i]
      BY <1>6, <2>1
    <3> QED BY <1>6, <2>1, <3>1 DEF RoomInv, PatchesInFlightAreNews
  <2>2. CASE ~(j \in 1 .. Len(wire))
    <3>1. j = Len(wire) + 1 /\ wire'[j].seq = tickSeq + 1
      BY <1>7, <2>2
    <3>2. \A i \in 1 .. (j - 1) : i \in 1 .. Len(wire) /\ wire'[i] = wire[i]
      BY <1>6, <3>1
    <3>3. \A i \in 1 .. Len(wire) :
            wire[i].t = "patch" => wire[i].seq \in Nat /\ wire[i].seq <= tickSeq
      BY DEF RoomInv, PageOK, IsNotice, IsMessage
    <3>4. lastPatchSeq \in Int /\ lastPatchSeq <= tickSeq
      BY DEF RoomInv, PageOK
    <3> QED BY <1>8, <3>1, <3>2, <3>3, <3>4
  <2> QED BY <2>1, <2>2
<1>11. ASSUME TunedIn'
       PROVE  ConvergesOn(TheSession', wire', remotes', MayHaveFaded')
  <2> DEFINE before == MayHaveFaded
             after  == MayHaveFaded'
  <2>1. before \in BOOLEAN /\ after \in BOOLEAN /\ (before => after)
    <3>1. now \in Nat /\ CURSOR_REMOVE_MS \in Nat
      BY RoomAssumption DEF RoomInv, ConsistencyInv, TypeOK, StateTypeOK
    <3>2. now' = now \/ now' = now + 1
      BY DEF ServerStep, PageSends, Hello, Move, Bye, SocketLost, Disconnect, Tick, ReaperSweep,
             Elapse
    <3> QED BY <3>1, <3>2 DEF MayHaveFaded
  <2> HIDE DEF before, after
  <2>2. CASE Updated
    <3>1. TunedIn /\ ToldWhatChanged(TheSession, TheSession')
      BY <2>2 DEF Updated
    <3>2. ConvergesOn(TheSession, wire, remotes, before)
      BY <3>1 DEF RoomInv, Converging, before
    <3>3. ConvergesOn(TheSession', wire \o burst, remotes, after)
      BY <1>3, <1>4, <1>5, <2>1, <3>1, <3>2, UpdateConverges
    <3> QED BY <1>3, <1>5, <3>3 DEF after
  <2>3. CASE Welcomed
    <3>1. PICK m : ToPage = {m} /\ m.t = "welcome" /\ m.roster = ToSnapshot(TheSession')
      BY <2>3 DEF Welcomed
    <3>2. Len(burst) = 1 /\ burst[1] = m
      <4>1. \A n : ToPage = {n} => Len(burst) = 1 /\ burst[1] = n
        BY <1>3, SmallBursts
      <4> QED BY <3>1, <4>1
    <3>3. IsSession(TheSession')
      <4>1. Viewer \in DOMAIN hub'.connections
        BY <1>11 DEF TunedIn
      <4>2. hub'.connections[Viewer].sid \in DOMAIN sessions'
        BY <1>1, <4>1, StillInSession
      <4> QED BY <1>1, <4>2 DEF TheSession, ConsistencyInv, TypeOK, StateTypeOK
    <3>4. ConvergesOn(TheSession', wire \o burst, remotes, after)
      BY <1>4, <1>5, <2>1, <3>1, <3>2, <3>3, WelcomeConverges
    <3> QED BY <1>3, <1>5, <3>4 DEF after
  <2> QED BY <1>2, <1>11, <2>2, <2>3
<1> QED BY <1>9, <1>10, <1>11 DEF Converging
\* A page opens a socket.  The watched one is not tuned in before it says hello;
\* the others' do not touch it.
LEMMA ConnectKeepsPage ==
  ASSUME OneRoomPerPid, RoomInv, NEW p \in Pids, NEW sid \in Sids, PageConnects(p, sid)
  PROVE  PageOK' /\ PatchesInFlightAreNews' /\ Converging'
<1>1. ConsistencyInv' /\ DialedInOrder'
  BY ServerPartKept DEF RoomNext
<1>2. PICK i \in DOMAIN SocketsOf[p] :
        /\ i = Cardinality(Opened(p)) + 1
        /\ Connect(SocketsOf[p][i], sid)
        /\ wire' = IF p = Viewer THEN <<>> ELSE wire
        /\ UNCHANGED <<remotes, lastPatchSeq>>
  BY DEF PageConnects
<1> DEFINE c == SocketsOf[p][i]
<1>3. c \in Socks
  BY SocketLists
<1>4. /\ ready[c] = "new" /\ ready' = [ready EXCEPT ![c] = "open"]
      /\ UNCHANGED <<sessions, hub, tickSeq, now>>
  BY <1>2 DEF Connect
<1>5. ready \in [Socks -> {"new", "open", "closing", "closed"}]
  BY DEF RoomInv, ConsistencyInv, TypeOK, StateTypeOK
<1> HIDE DEF c
<1>6. CASE p = Viewer
  <2>1. wire' = <<>> /\ IsQueue(<<>>) /\ Len(<<>>) = 0
    <3>1. <<>> \in Seq({})
      OBVIOUS
    <3> QED BY <1>2, <1>6, <3>1 DEF IsQueue
  <2>2. PageOK'
    BY <1>2, <1>4, <2>1 DEF RoomInv, PageOK
  <2>3. PatchesInFlightAreNews'
    BY <2>1 DEF PatchesInFlightAreNews
  <2>4. ~TunedIn'
    <3> SUFFICES ASSUME TunedIn' PROVE FALSE
      OBVIOUS
    <3>1. Viewer \in DOMAIN hub.connections /\ hub.connections[Viewer].sock = Current(Viewer)'
      BY <1>4 DEF TunedIn
    <3>2. Current(Viewer)' = c
      <4>1. Viewer \in Pids
        BY RoomAssumption
      <4>2. /\ Opened(Viewer) = 1 .. (i - 1)
            /\ i \in 1 .. Len(SocketsOf[Viewer]) /\ Len(SocketsOf[Viewer]) \in Nat
        BY <1>2, <1>6, <4>1, CurrentSocket, SocketLists DEF RoomInv
      <4>3. \A j \in DOMAIN SocketsOf[Viewer] :
              ready'[SocketsOf[Viewer][j]] # "new" <=> ready[SocketsOf[Viewer][j]] # "new" \/ j = i
        BY <1>3, <1>4, <1>5, <1>6, <4>1, SocketLists DEF c
      <4>4. Opened(Viewer)' = Opened(Viewer) \cup {i}
        BY <1>2, <1>6, <4>3 DEF Opened
      <4>5. Opened(Viewer)' = 1 .. i
        BY <4>2, <4>4
      <4>6. Cardinality(1 .. i) = i
        <5>1. Cardinality(1 .. i) = IF 1 > i THEN 0 ELSE i - 1 + 1
          BY <4>2, FS_Interval
        <5> QED BY <4>2, <5>1
      <4> QED BY <1>6, <4>5, <4>6 DEF Current, c
    <3>3. ready[hub.connections[Viewer].sock] \in {"open", "closing"}
      BY <3>1 DEF RoomInv, ConsistencyInv, SocketsHeld
    <3> QED BY <1>4, <3>1, <3>2, <3>3
  <2> QED BY <2>2, <2>3, <2>4 DEF Converging
<1>7. CASE p # Viewer
  <2>1. UNCHANGED <<wire, remotes, lastPatchSeq>>
    BY <1>2, <1>7
  <2>2. Opened(Viewer)' = Opened(Viewer)
    <3>1. \A j \in DOMAIN SocketsOf[Viewer] :
            SocketsOf[Viewer][j] \in Socks /\ SocketsOf[Viewer][j] # c
      BY <1>7, RoomAssumption, SocketLists DEF c
    <3> QED BY <1>4, <1>5, <3>1 DEF Opened
  <2>3. HasSocket(Viewer)' <=> HasSocket(Viewer)
    BY <2>2 DEF HasSocket
  <2>4. Current(Viewer)' = Current(Viewer)
    BY <2>2 DEF Current
  <2>5. ASSUME TunedIn'
        PROVE  TunedIn
    <3>1. HasSocket(Viewer) /\ ready'[Current(Viewer)] = "open"
      BY <2>3, <2>4, <2>5 DEF TunedIn
    <3>2. Current(Viewer) \in Socks /\ Current(Viewer) # c
      <4>1. Viewer \in Pids
        BY RoomAssumption
      <4>2. ready[Current(Viewer)] # "new" /\ Current(Viewer) \in Socks
        BY <3>1, <4>1, CurrentIsOwn DEF RoomInv
      <4> QED BY <1>4, <4>2
    <3>3. ready[Current(Viewer)] = "open"
      BY <1>3, <1>4, <1>5, <3>1, <3>2
    <3> QED BY <1>4, <2>4, <2>5, <3>1, <3>3 DEF TunedIn
  <2>6. TheSession' = TheSession /\ (MayHaveFaded' <=> MayHaveFaded)
    BY <1>4 DEF TheSession, MayHaveFaded
  <2>7. Converging'
    <3> SUFFICES ASSUME TunedIn' PROVE ConvergesOn(TheSession', wire', remotes', MayHaveFaded')
      BY DEF Converging
    <3>1. ConvergesOn(TheSession, wire, remotes, MayHaveFaded)
      BY <2>5 DEF RoomInv, Converging
    <3>2. MayHaveFaded' = MayHaveFaded
      BY <1>4 DEF MayHaveFaded
    <3> QED BY <2>1, <2>6, <3>1, <3>2
  <2> QED BY <1>4, <2>1, <2>7 DEF RoomInv, PageOK, PatchesInFlightAreNews
<1> QED BY <1>6, <1>7

\* The page removes what it has not heard of for long: time enough has passed.
LEMMA ExpireKeepsPage ==
  ASSUME RoomInv, NEW q \in Pids, Expire(q)
  PROVE  PageOK' /\ PatchesInFlightAreNews' /\ Converging'
<1>1. UNCHANGED <<vars, wire, lastPatchSeq>> /\ remotes' = Drop(remotes, {q})
  BY DEF Expire
<1>2. /\ DOMAIN remotes' = DOMAIN remotes \ {q}
      /\ \A r \in DOMAIN remotes' : remotes'[r] = remotes[r]
  BY <1>1 DEF Drop, Restrict
<1>3. MayHaveFaded
  <2>1. now \in Nat /\ remotes[q].lastSeenAt \in Nat /\ CURSOR_REMOVE_MS \in Nat
    BY RoomAssumption DEF RoomInv, PageOK, ConsistencyInv, TypeOK, StateTypeOK, Expire
  <2>2. now - remotes[q].lastSeenAt >= CURSOR_REMOVE_MS
    BY DEF Expire
  <2> QED BY <2>1, <2>2 DEF MayHaveFaded
<1>4. PageOK' /\ PatchesInFlightAreNews'
  BY <1>1, <1>2 DEF RoomInv, PageOK, PatchesInFlightAreNews, vars
<1>5. ASSUME TunedIn'
      PROVE  ConvergesOn(TheSession', wire', remotes', MayHaveFaded')
  <2>1. TunedIn /\ TheSession' = TheSession /\ MayHaveFaded'
    BY <1>1, <1>3, <1>5 DEF TunedIn, HasSocket, Current, Opened, TheSession, MayHaveFaded, vars
  <2> DEFINE faded == MayHaveFaded
             after == MayHaveFaded'
  <2>2. ConvergesOn(TheSession, wire, remotes, faded)
    BY <2>1 DEF RoomInv, Converging
  <2>3. faded \in BOOLEAN /\ after \in BOOLEAN /\ after
    BY <2>1 DEF MayHaveFaded
  <2> HIDE DEF faded, after
  <2>4. \A r : ComesUp(wire, remotes', r, after)
    BY <2>3 DEF ComesUp
  <2>5. \A r, f, v : ComesTrue(wire, remotes, r, f, v, faded) =>
                     ComesTrue(wire, Drop(remotes, {q}), r, f, v, after)
    BY <2>3, FadingComesTrue
  <2>6. ConvergesOn(TheSession, wire, remotes', after)
    BY <1>1, <2>2, <2>4, <2>5 DEF ConvergesOn
  <2> QED BY <1>1, <2>1, <2>6 DEF after
<1> QED BY <1>4, <1>5 DEF Converging
\* A message keeps what is drawn well-formed.
LEMMA RenderedType ==
  ASSUME RoomInv, NEW m, IsNotice(m), m.t = "patch" => IsNews(m), NEW rem, rem = Rendered(m)
  PROVE  /\ Viewer \notin DOMAIN rem /\ DOMAIN rem \subseteq Pids
         /\ \A q \in DOMAIN rem : /\ IsMap(rem[q].values, Fields, Points)
                                  /\ rem[q].lastSeenAt \in Nat
<1>1. Viewer \notin DOMAIN remotes /\ DOMAIN remotes \subseteq Pids
  BY DEF RoomInv, PageOK
<1>2. /\ \A q : q \in DOMAIN rem <=>
                  q # Viewer /\ (Shows(m, q) \/ (q \in DOMAIN remotes /\ ~Erases(m, q)))
      /\ \A q \in DOMAIN rem :
           /\ Shows(m, q) =>
                \E values : /\ rem[q] = Upserted(q, values)
                            /\ IF q \in DOMAIN Content(m) THEN values = Content(m)[q]
                                ELSE values = NoEntries
           /\ ~Shows(m, q) => rem[q] = remotes[q]
  BY <1>1, RenderedShape
<1>3. IsView(Content(m))
  <2>1. IsView(NoEntries)
    BY EmptyTable DEF IsView, IsTable, NoEntries
  <2> QED BY <2>1 DEF Content, IsNotice, IsMessage
<1>4. \A q : Shows(m, q) => q \in Pids
  BY <1>3 DEF Shows, IsNotice, IsMessage, IsView, IsTable
<1>5. ASSUME NEW q \in DOMAIN rem
      PROVE  IsMap(rem[q].values, Fields, Points) /\ rem[q].lastSeenAt \in Nat
  <2>1. CASE ~Shows(m, q)
    BY <1>2, <2>1 DEF RoomInv, PageOK
  <2>2. CASE Shows(m, q)
    <3>1. PICK values : /\ rem[q] = Upserted(q, values)
                        /\ IF q \in DOMAIN Content(m) THEN values = Content(m)[q]
                           ELSE values = NoEntries
      BY <1>2, <2>2
    <3>2. IsMap(values, Fields, Points)
      <4>1. IsMap(NoEntries, Fields, Points)
        BY EmptyTable DEF IsMap, IsTable, NoEntries
      <4> QED BY <1>3, <3>1, <4>1 DEF IsView
    <3> DEFINE old == IF q \in DOMAIN remotes THEN remotes[q].values ELSE NoEntries
    <3>3. IsMap(old, Fields, Points)
      <4>1. IsMap(NoEntries, Fields, Points)
        BY EmptyTable DEF IsMap, IsTable, NoEntries
      <4> QED BY <4>1 DEF RoomInv, PageOK
    <3>4. /\ rem[q].values = [f \in DOMAIN old \cup DOMAIN values |->
                                IF f \in DOMAIN values THEN values[f] ELSE old[f]]
          /\ rem[q].lastSeenAt = now
      BY <3>1 DEF Upserted
    <3>5. now \in Nat
      BY DEF RoomInv, ConsistencyInv, TypeOK, StateTypeOK
    <3> HIDE DEF old
    <3> QED BY <3>2, <3>3, <3>4, <3>5 DEF IsMap, IsTable
  <2> QED BY <2>1, <2>2
<1> QED BY <1>1, <1>2, <1>4, <1>5

\* The page receives a message: what was to come true still is.
LEMMA ReceiveKeepsPage ==
  ASSUME RoomInv, Receive
  PROVE  PageOK' /\ PatchesInFlightAreNews' /\ Converging'
<1> DEFINE m == wire[1]
<1>1. /\ wire # <<>> /\ wire' = Tail(wire) /\ UNCHANGED vars
      /\ remotes' = Rendered(Head(wire))
      /\ lastPatchSeq' = IF Head(wire).t = "patch" /\ IsNews(Head(wire))
                         THEN Head(wire).seq ELSE lastPatchSeq
  BY DEF Receive
<1>2. /\ IsQueue(wire) /\ lastPatchSeq \in Int /\ tickSeq \in Nat
      /\ Viewer \notin DOMAIN remotes
      /\ \A i \in 1 .. Len(wire) : IsNotice(wire[i])
      /\ \A i \in 1 .. Len(wire) : wire[i].t = "patch" => wire[i].seq \in Nat
  BY DEF RoomInv, PageOK, IsNotice, IsMessage, ConsistencyInv, TypeOK, StateTypeOK
<1>3. /\ Len(wire) \in Nat /\ Len(wire) >= 1 /\ DOMAIN wire = 1 .. Len(wire)
      /\ Head(wire) = m
      /\ IsQueue(wire') /\ Len(wire') = Len(wire) - 1 /\ DOMAIN wire' = 1 .. Len(wire')
      /\ \A i \in 1 .. Len(wire') : wire'[i] = wire[i + 1]
  BY <1>1, <1>2, Shortened
<1>4. IsNotice(m) /\ (m.t = "patch" => IsNews(m))
  BY <1>2, <1>3 DEF RoomInv, PatchesInFlightAreNews, IsNews
<1>5. /\ remotes' = Rendered(m)
      /\ lastPatchSeq' = IF m.t = "patch" THEN m.seq ELSE lastPatchSeq
  BY <1>1, <1>3, <1>4
<1> HIDE DEF m
<1>6. PageOK'
  <2>1. /\ Viewer \notin DOMAIN remotes' /\ DOMAIN remotes' \subseteq Pids
        /\ \A q \in DOMAIN remotes' : /\ IsMap(remotes'[q].values, Fields, Points)
                                      /\ remotes'[q].lastSeenAt \in Nat
    BY <1>4, <1>5, RenderedType
  <2>2. /\ \A i \in 1 .. Len(wire') : IsNotice(wire'[i])
        /\ \A i \in 1 .. Len(wire') : wire'[i].t = "patch" => wire'[i].seq <= tickSeq
    BY <1>2, <1>3 DEF RoomInv, PageOK
  <2>3. m.t = "patch" => m.seq \in Nat /\ m.seq <= tickSeq
    BY <1>2, <1>3 DEF RoomInv, PageOK, m
  <2>4. lastPatchSeq' \in Int /\ lastPatchSeq' <= tickSeq
    BY <1>2, <1>5, <2>3 DEF RoomInv, PageOK
  <2>5. tickSeq' = tickSeq
    BY <1>1 DEF vars
  <2> QED BY <1>3, <2>1, <2>2, <2>4, <2>5 DEF PageOK
<1>7. PatchesInFlightAreNews'
  <2> SUFFICES ASSUME NEW j \in 1 .. Len(wire'), wire'[j].t = "patch"
               PROVE  /\ wire'[j].seq > lastPatchSeq'
                      /\ \A i \in 1 .. (j - 1) :
                           wire'[i].t = "patch" => wire'[i].seq < wire'[j].seq
    BY <1>3 DEF PatchesInFlightAreNews
  <2>1. /\ j + 1 \in DOMAIN wire /\ wire'[j] = wire[j + 1] /\ 1 \in 1 .. ((j + 1) - 1)
        /\ \A i \in 1 .. (j - 1) : i + 1 \in 1 .. ((j + 1) - 1) /\ wire'[i] = wire[i + 1]
    BY <1>3
  <2>2. /\ wire[j + 1].seq > lastPatchSeq
        /\ \A i \in 1 .. ((j + 1) - 1) : wire[i].t = "patch" => wire[i].seq < wire[j + 1].seq
    BY <2>1 DEF RoomInv, PatchesInFlightAreNews
  <2>3. m.t = "patch" => m.seq < wire[j + 1].seq
    BY <2>1, <2>2 DEF m
  <2>4. /\ wire[j + 1].seq \in Nat
        /\ m.t = "patch" => m.seq \in Nat
    BY <1>2, <1>3, <2>1 DEF m
  <2>5. wire'[j].seq > lastPatchSeq'
    BY <1>2, <1>5, <2>1, <2>2, <2>3, <2>4
  <2> QED BY <2>1, <2>2, <2>5
<1>8. ASSUME TunedIn'
      PROVE  ConvergesOn(TheSession', wire', remotes', MayHaveFaded')
  <2>1. TunedIn /\ TheSession' = TheSession
    BY <1>1, <1>8 DEF TunedIn, HasSocket, Current, Opened, TheSession, vars
  <2> DEFINE faded == MayHaveFaded
  <2>2. MayHaveFaded' = faded
    BY <1>1 DEF MayHaveFaded, vars
  <2>3. ConvergesOn(TheSession, wire, remotes, faded)
    BY <2>1 DEF RoomInv, Converging
  <2>4. faded \in BOOLEAN
    BY DEF MayHaveFaded
  <2> HIDE DEF faded
  <2>5. \A q : q # Viewer =>
          /\ ComesUp(wire, remotes, q, faded) => ComesUp(wire', remotes', q, faded)
          /\ \A f, v : ComesTrue(wire, remotes, q, f, v, faded) =>
                       ComesTrue(wire', remotes', q, f, v, faded)
    BY <1>1, <1>2, <1>4, <1>5, <2>4, ReceivedComesTrue DEF m
  <2>6. ConvergesOn(TheSession, wire', remotes', faded)
    BY <2>3, <2>5 DEF ConvergesOn
  <2> QED BY <2>1, <2>2, <2>6
<1> QED BY <1>6, <1>7, <1>8 DEF Converging
\* Nothing happened yet.
LEMMA InitRoom == RoomInit => RoomInv
<1> SUFFICES ASSUME RoomInit PROVE RoomInv
  OBVIOUS
<1>1. ConsistencyInv
  BY InitConsistent DEF RoomInit
<1>2. SettleIsCurrent
  BY DEF RoomInit, Init, SettleIsCurrent, NoEntries
<1>3. /\ ready = [c \in Socks |-> "new"] /\ \A c \in Socks : ctx[c].pid = NoPid
      /\ wire = <<>> /\ remotes = NoEntries /\ lastPatchSeq = -1 /\ tickSeq = 0
  BY DEF RoomInit, Init, NoSeq
<1>4. \A p \in Pids : Opened(p) = {}
  BY <1>3, SocketLists DEF Opened
<1>5. DialedInOrder
  <2>1. ASSUME NEW p \in Pids
        PROVE  \E n \in 0 .. Len(SocketsOf[p]) : Opened(p) = 1 .. n
    <3>1. 0 \in 0 .. Len(SocketsOf[p]) /\ 1 .. 0 = {}
      BY SocketLists
    <3> QED BY <1>4, <3>1
  <2> QED BY <2>1 DEF DialedInOrder
<1>6. OwnSockets
  BY <1>3, SocketLists DEF OwnSockets
<1>7. IsQueue(wire) /\ Len(wire) = 0 /\ DOMAIN wire = {}
  <2>1. <<>> \in Seq({})
    OBVIOUS
  <2> QED BY <1>3, <2>1 DEF IsQueue
<1>8. PageOK /\ PatchesInFlightAreNews
  BY <1>3, <1>7, EmptyTable DEF PageOK, PatchesInFlightAreNews
<1>9. ~TunedIn
  BY <1>4, RoomAssumption DEF TunedIn, HasSocket
<1> QED BY <1>1, <1>2, <1>5, <1>6, <1>8, <1>9 DEF RoomInv, Converging

\* Every step of the composition keeps the invariant.
LEMMA NextRoom ==
  ASSUME OneRoomPerPid, RoomInv, [RoomNext]_roomVars
  PROVE  RoomInv'
<1>1. ConsistencyInv' /\ SettleIsCurrent' /\ DialedInOrder' /\ OwnSockets'
  BY ServerPartKept
<1>2. CASE UNCHANGED roomVars
  <2>1. UNCHANGED <<vars, wire, remotes, lastPatchSeq>>
    BY <1>2 DEF roomVars
  <2>2. PageOK' /\ PatchesInFlightAreNews'
    BY <2>1 DEF RoomInv, PageOK, PatchesInFlightAreNews, vars
  <2>3. Converging'
    BY <2>1 DEF RoomInv, Converging, ConvergesOn, TunedIn, HasSocket, Current, Opened,
                TheSession, MayHaveFaded, vars
  <2> QED BY <1>1, <2>2, <2>3 DEF RoomInv
<1>3. CASE RoomNext
  <2>1. PageOK' /\ PatchesInFlightAreNews' /\ Converging'
    BY <1>3, ServerStepKeepsPage, ConnectKeepsPage, ExpireKeepsPage, ReceiveKeepsPage
    DEF RoomNext
  <2> QED BY <1>1, <2>1 DEF RoomInv
<1> QED BY <1>2, <1>3

\* Whatever the pages do, and however often they reconnect, server and page keep the
\* invariant, as long as the server lives and nobody is in two sessions.
THEOREM RoomKept ==
  ASSUME OneRoomPerPid
  PROVE  RoomSpec => []RoomInv
<1>1. RoomInit => RoomInv
  BY InitRoom
<1>2. RoomInv /\ [RoomNext]_roomVars => RoomInv'
  BY NextRoom
<1> QED BY <1>1, <1>2, PTL DEF RoomSpec

\* A caught-up page has nothing on the way, so what is to come true is drawn.
LEMMA CaughtUpShows ==
  ASSUME RoomInv, CaughtUp, NEW q \in Roster(TheSession) \ {Viewer}
  PROVE  /\ q \in DOMAIN remotes \/ MayHaveFaded
         /\ \A f \in DOMAIN TheSession.participants[q].presence \ DirtyFieldsOf(TheSession, q) :
              Drawn(remotes, q, f, TheSession.participants[q].presence[f].value, MayHaveFaded)
<1>1. TunedIn /\ wire = <<>>
  BY DEF CaughtUp, TunedIn
<1> DEFINE faded == MayHaveFaded
<1>2. ConvergesOn(TheSession, wire, remotes, faded)
  BY <1>1 DEF RoomInv, Converging
<1> HIDE DEF faded
<1>3. Len(wire) = 0 /\ \A k \in 0 .. Len(wire) : k = 0
  BY <1>1
<1>4. q \in DOMAIN remotes \/ faded
  BY <1>2, <1>3 DEF ConvergesOn, ComesUp
<1>5. ASSUME NEW f \in DOMAIN TheSession.participants[q].presence \ DirtyFieldsOf(TheSession, q)
      PROVE  Drawn(remotes, q, f, TheSession.participants[q].presence[f].value, faded)
  <2>1. ComesTrue(wire, remotes, q, f, TheSession.participants[q].presence[f].value, faded)
    BY <1>2 DEF ConvergesOn
  <2> QED BY <1>3, <2>1 DEF ComesTrue
<1> QED BY <1>4, <1>5 DEF faded

\* The variables of the composition always have the shapes the code gives them.
THEOREM RoomTypeCorrect ==
  ASSUME OneRoomPerPid
  PROVE  RoomSpec => []RoomTypeOK
<1>1. RoomInv => RoomTypeOK
  <2> SUFFICES ASSUME RoomInv PROVE RoomTypeOK
    OBVIOUS
  <2>1. DOMAIN wire = 1 .. Len(wire)
    <3>1. PICK S : wire \in Seq(S)
      BY DEF RoomInv, PageOK, IsQueue
    <3> QED BY <3>1
  <2>2. IsView([q \in DOMAIN remotes |-> remotes[q].values])
    BY DEF RoomInv, PageOK, IsView, IsTable
  <2> QED BY <2>1, <2>2 DEF RoomInv, PageOK, ConsistencyInv, RoomTypeOK, IsNotice
<1> QED BY <1>1, RoomKept, PTL

\* Nothing on its way to a page is thrown away by its guard but for good reason: over
\* any number of reconnects the patches in flight are in order, and all are news.
THEOREM PatchesAlwaysNews ==
  ASSUME OneRoomPerPid
  PROVE  RoomSpec => []PatchesInFlightAreNews
<1>1. RoomInv => PatchesInFlightAreNews
  BY DEF RoomInv
<1> QED BY <1>1, RoomKept, PTL

\* The reconnecting client converges: a caught-up page draws everyone else on the
\* roster, but for who may have faded out for lack of news.
THEOREM PeersAlwaysVisible ==
  ASSUME OneRoomPerPid
  PROVE  RoomSpec => []PeersVisible
<1>1. RoomInv => PeersVisible
  BY CaughtUpShows DEF PeersVisible
<1> QED BY <1>1, RoomKept, PTL

\* And it shows in every field with nothing left to flush the value the server holds.
THEOREM PageConverges ==
  ASSUME OneRoomPerPid
  PROVE  RoomSpec => []ViewMatchesPresence
<1>1. RoomInv => ViewMatchesPresence
  <2> SUFFICES ASSUME RoomInv, CaughtUp,
                      NEW q \in DOMAIN remotes \cap Roster(TheSession),
                      NEW f \in DOMAIN TheSession.participants[q].presence
                                  \ DirtyFieldsOf(TheSession, q)
               PROVE  IF f \in DOMAIN remotes[q].values
                      THEN remotes[q].values[f] = TheSession.participants[q].presence[f].value
                      ELSE MayHaveFaded
    BY DEF ViewMatchesPresence
  <2>1. q # Viewer
    BY DEF RoomInv, PageOK
  <2>2. Drawn(remotes, q, f, TheSession.participants[q].presence[f].value, MayHaveFaded)
    BY <2>1, CaughtUpShows
  <2> QED BY <2>2 DEF Drawn
<1> QED BY <1>1, RoomKept, PTL
============================
