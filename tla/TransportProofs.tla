---- MODULE TransportProofs ----
(***************************************************************************)
(* What holds of a page's connection however many frames it builds: its    *)
(* sockets and timers agree with its status, a page that has disconnected  *)
(* is quiet, and no lossless frame is lost, repeated or overtaken.         *)
(***************************************************************************)
EXTENDS Transport, SequenceTheorems, WellFoundedInduction, TLAPS

---------------------------------------------------------------------------
(* The socket, the timer and the listeners.                                *)

\* The types that the socket and the listeners depend on.
ConnShape ==
  /\ status \in Statuses /\ sock \in ReadyStates
  /\ timer \in BOOLEAN /\ intentional \in BOOLEAN
  /\ frames \subseteq Lossy

\* index.ts, disconnect(): a page that does not listen captures nothing, has
\* nothing scheduled and no ping timer, and its connection was told to close.
Detached ==
  ~active => /\ ~capturing /\ ~pinging /\ frames = {}
             /\ intentional \/ IsClosed

TransportInv == ConnShape /\ ReconnectArmed /\ Detached

\* A step that touches neither the connection nor the listeners.
LEMMA ConnUnchanged ==
  ASSUME TransportInv, UNCHANGED conn, UNCHANGED <<active, capturing, pinging, frames>>
  PROVE  TransportInv'
BY DEF TransportInv, ConnShape, ReconnectArmed, Detached, IsClosed, conn

LEMMA InitHolds == ASSUME Init PROVE TransportInv
BY DEF Init, TransportInv, ConnShape, ReconnectArmed, Detached, IsClosed, Statuses, ReadyStates

\* The host's calls.
LEMMA HostKeeps ==
  ASSUME TransportInv, Connect \/ Disconnect
  PROVE  TransportInv'
<1> USE DEF TransportInv, ConnShape, ReconnectArmed, Detached, IsClosed, Statuses, ReadyStates
<1>1. CASE Connect
  <2>1. active' = TRUE /\ frames' = frames
    BY <1>1 DEF Connect
  <2>2. CASE /\ IsClosed
             /\ intentional' = FALSE
             /\ OpenSocket
             /\ UNCHANGED timer
    BY <2>1, <2>2 DEF OpenSocket
  <2>3. CASE UNCHANGED conn
    BY <2>1, <2>3 DEF conn
  <2> QED BY <1>1, <2>2, <2>3 DEF Connect
<1>2. CASE Disconnect
  <2>1. frames' = {}
    BY <1>2 DEF Disconnect, Cancelled, Lossy
  <2>2. /\ active' = FALSE /\ capturing' = FALSE /\ pinging' = FALSE
        /\ CloseSocket
    BY <1>2 DEF Disconnect
  <2>3. CASE IsClosed /\ UNCHANGED conn
    BY <2>1, <2>2, <2>3 DEF conn
  <2>4. CASE /\ ~IsClosed
             /\ intentional' = TRUE
             /\ timer' = FALSE
             /\ sock' = IF sock = "none" THEN "none" ELSE "closing"
             /\ status' = IF sock = "none" THEN "closed" ELSE status
    BY <2>1, <2>2, <2>4
  <2> QED BY <2>2, <2>3, <2>4 DEF CloseSocket
<1> QED BY <1>1, <1>2

\* The socket and the reconnect timer.
LEMMA SocketKeeps ==
  ASSUME TransportInv, SocketOpens \/ SocketCloses \/ SocketClosing \/ TimerFires
  PROVE  TransportInv'
<1> USE DEF TransportInv, ConnShape, ReconnectArmed, Detached, IsClosed, Statuses, ReadyStates
<1>1. CASE SocketOpens
  BY <1>1 DEF SocketOpens
<1>2. CASE SocketCloses
  BY <1>2 DEF SocketCloses, AfterClose
<1>3. CASE SocketClosing
  BY <1>3 DEF SocketClosing, page
<1>4. CASE TimerFires
  BY <1>4 DEF TimerFires, OpenSocket, page
<1> QED BY <1>1, <1>2, <1>3, <1>4

\* What the page captures and sends.
LEMMA PageKeeps ==
  ASSUME TransportInv,
         \/ BufferDrains \/ Ping \/ PointerMoves \/ Scrolls
         \/ \E type \in Lossy : Captured(type)
         \/ Hide \/ Show \/ HideOrShowUnnoticed
         \/ \E m \in persisting : Persisted(m)
         \/ UNCHANGED vars
  PROVE  TransportInv'
<1>1. CASE BufferDrains
  BY <1>1, ConnUnchanged DEF BufferDrains, page
<1>2. CASE Ping
  BY <1>2, ConnUnchanged DEF Ping, page
<1>3. CASE PointerMoves
  BY <1>3 DEF PointerMoves, conn, TransportInv, ConnShape, ReconnectArmed, Detached, IsClosed, Lossy
<1>4. CASE Scrolls
  BY <1>4 DEF Scrolls, conn, TransportInv, ConnShape, ReconnectArmed, Detached, IsClosed, Lossy
<1>5. ASSUME NEW type \in Lossy, Captured(type) PROVE TransportInv'
  BY <1>5 DEF Captured, conn, TransportInv, ConnShape, ReconnectArmed, Detached, IsClosed
<1>6. CASE Hide
  BY <1>6 DEF Hide, Cancelled, conn, TransportInv, ConnShape, ReconnectArmed, Detached, IsClosed
<1>7. CASE Show
  BY <1>7 DEF Show, conn, TransportInv, ConnShape, ReconnectArmed, Detached, IsClosed
<1>8. CASE HideOrShowUnnoticed
  BY <1>8, ConnUnchanged DEF HideOrShowUnnoticed
<1>9. ASSUME NEW m \in persisting, Persisted(m) PROVE TransportInv'
  BY <1>9, ConnUnchanged DEF Persisted, page
<1>10. CASE UNCHANGED vars
  BY <1>10, ConnUnchanged DEF vars, page
<1> QED BY <1>1, <1>2, <1>3, <1>4, <1>5, <1>6, <1>7, <1>8, <1>9, <1>10

LEMMA StepKeeps == ASSUME TransportInv, [Next]_vars PROVE TransportInv'
BY HostKeeps, SocketKeeps, PageKeeps DEF Next

\* connection.ts: a connection that is to be up has exactly one of a socket and
\* a timer, never two sockets, whatever the host, the socket and the timer do.
THEOREM AlwaysArmed == Spec => []ReconnectArmed
<1>1. Init => TransportInv
  BY InitHolds
<1>2. TransportInv /\ [Next]_vars => TransportInv'
  BY StepKeeps
<1>3. TransportInv => ReconnectArmed
  BY DEF TransportInv
<1> QED BY <1>1, <1>2, <1>3, PTL DEF Spec

\* A page that has disconnected and stays so builds no frame but another bye.
LEMMA QuietStep ==
  ASSUME TransportInv, [Next]_vars, ~active, ~active'
  PROVE  seq' = seq \/ Disconnect
<1> USE DEF TransportInv, ConnShape, ReconnectArmed, Detached, IsClosed
<1>1. CASE Connect \/ Disconnect
  BY <1>1 DEF Connect
<1>2. CASE SocketOpens
  BY <1>2 DEF SocketOpens
<1>3. CASE SocketCloses \/ SocketClosing \/ TimerFires \/ BufferDrains
  BY <1>3 DEF SocketCloses, SocketClosing, TimerFires, BufferDrains
<1>4. CASE Ping
  BY <1>4 DEF Ping
<1>5. CASE PointerMoves \/ Scrolls \/ \E type \in Lossy : Captured(type)
  BY <1>5 DEF PointerMoves, Scrolls, Captured
<1>6. CASE Hide \/ Show \/ HideOrShowUnnoticed
  BY <1>6 DEF Hide, Show, HideOrShowUnnoticed
<1>7. CASE \E m \in persisting : Persisted(m)
  BY <1>7 DEF Persisted
<1>8. CASE UNCHANGED vars
  BY <1>8 DEF vars
<1> QED BY <1>1, <1>2, <1>3, <1>4, <1>5, <1>6, <1>7, <1>8 DEF Next

\* index.ts: after disconnect() neither a frame or timer scheduled before nor a
\* socket that is still there makes the page build anything; a further call does.
THEOREM AlwaysQuiet == Spec => QuietAfterDisconnect
<1>1. Init => TransportInv
  BY InitHolds
<1>2. TransportInv /\ [Next]_vars => TransportInv'
  BY StepKeeps
<1>3. TransportInv /\ [Next]_vars => [~active /\ ~active' => seq' = seq \/ Disconnect]_vars
  BY QuietStep
<1> QED BY <1>1, <1>2, <1>3, PTL DEF Spec, QuietAfterDisconnect

---------------------------------------------------------------------------
(* What a queue keeps.  Unsent is recursive, so its facts are proved by    *)
(* taking the least number of frames for which one would fail.             *)

\* Of a set of numbers that is not empty one is the least.
LEMMA LeastNumber ==
  ASSUME NEW T \in SUBSET Nat, T # {}
  PROVE  \E n \in T : \A m \in T : n <= m
<1>1. PICK n \in T : \A m \in T : ~(<<m, n>> \in OpToRel(<, Nat))
  BY NatLessThanWellFounded, WFMin, Zenon
<1>2. \A m \in T : ~(m < n)
  BY <1>1 DEF OpToRel
<1> QED BY <1>2

\* The frames seen so far, as a function of their number.
Filters(items, f, k) ==
  f = [i \in 0 .. k |-> IF i = 0 THEN << >>
                        ELSE IF KeepsWaiting(items[i]) THEN Append(f[i - 1], items[i])
                        ELSE f[i - 1]]

LEMMA FilterExists ==
  ASSUME NEW items, NEW k \in Nat
  PROVE  \E f : Filters(items, f, k)
<1> DEFINE T == {n \in Nat : ~ \E f : Filters(items, f, n)}
<1>1. SUFFICES T = {}
  OBVIOUS
<1>2. SUFFICES ASSUME T # {} PROVE FALSE
  OBVIOUS
<1>3. PICK n \in T : \A m \in T : n <= m
  BY <1>2, LeastNumber
<1>4. CASE n = 0
  <2> DEFINE f == [i \in 0 .. 0 |-> << >>]
  <2>1. Filters(items, f, 0)
    BY DEF Filters
  <2> QED BY <1>3, <1>4, <2>1
<1>5. CASE n # 0
  <2>1. n \in Nat /\ n - 1 \in Nat /\ n - 1 \notin T
    BY <1>3, <1>5
  <2>2. PICK f : Filters(items, f, n - 1)
    BY <2>1
  <2> DEFINE g == [i \in 0 .. n |-> IF i < n THEN f[i]
                     ELSE IF KeepsWaiting(items[n]) THEN Append(f[n - 1], items[n])
                     ELSE f[n - 1]]
  <2>3. ASSUME NEW i \in 0 .. n
        PROVE  g[i] = IF i = 0 THEN << >>
                        ELSE IF KeepsWaiting(items[i]) THEN Append(g[i - 1], items[i])
                        ELSE g[i - 1]
    <3>1. CASE i = n
      <4>1. g[n - 1] = f[n - 1]
        BY <2>1
      <4> QED BY <1>5, <2>1, <3>1, <4>1
    <3>2. CASE i # n
      <4>1. i \in 0 .. n - 1 /\ g[i] = f[i] /\ (i # 0 => g[i - 1] = f[i - 1])
        BY <2>1, <3>2
      <4>2. f[i] = IF i = 0 THEN << >>
                        ELSE IF KeepsWaiting(items[i]) THEN Append(f[i - 1], items[i])
                        ELSE f[i - 1]
        BY <2>2, <4>1 DEF Filters
      <4> QED BY <4>1, <4>2
    <3> QED BY <3>1, <3>2
  <2>4. Filters(items, g, n)
    <3>1. g = [i \in 0 .. n |-> g[i]]
      OBVIOUS
    <3> HIDE DEF g
    <3> QED BY <2>3, <3>1 DEF Filters
  <2> QED BY <1>3, <2>1, <2>4
<1> QED BY <1>4, <1>5

\* Kept is one.
LEMMA KeptFilters ==
  ASSUME NEW items, Len(items) \in Nat
  PROVE  Filters(items, Kept(items), Len(items))
<1>1. \E f : Filters(items, f, Len(items))
  BY FilterExists
<1>2. Kept(items) = CHOOSE f : Filters(items, f, Len(items))
  BY DEF Kept, Filters
<1> QED BY <1>1, <1>2

\* The frames that are never dropped.
Lossless == {m \in Frame : KeepsWaiting(m)}

\* A frame appended to the second of two sequences comes last.
LEMMA AppendAfter ==
  ASSUME NEW x \in Seq(Lossless), NEW d \in Seq(Lossless), NEW m \in Lossless
  PROVE  Append(x \o d, m) = x \o Append(d, m)
<1>1. x \o d \in Seq(Lossless) /\ <<m>> \in Seq(Lossless)
  BY ConcatProperties
<1>2. Append(x \o d, m) = (x \o d) \o <<m>> /\ Append(d, m) = d \o <<m>>
  BY <1>1, AppendIsConcat
<1>3. (x \o d) \o <<m>> = x \o (d \o <<m>>)
  BY <1>1, ConcatAssociative
<1> QED BY <1>2, <1>3

\* What is kept after one frame more.
KeptNext(items, i) ==
  IF KeepsWaiting(items[i]) THEN Append(Kept(items)[i - 1], items[i]) ELSE Kept(items)[i - 1]

\* Kept, frame by frame.
LEMMA KeptStep ==
  ASSUME NEW items \in Seq(Frame)
  PROVE  /\ Kept(items)[0] = << >>
         /\ \A i \in 1 .. Len(items) : Kept(items)[i] = KeptNext(items, i)
<1> DEFINE f == Kept(items)
           k == Len(items)
<1>1. k \in Nat
  BY LenProperties
<1>2. f = [i \in 0 .. k |-> IF i = 0 THEN << >>
                        ELSE IF KeepsWaiting(items[i]) THEN Append(f[i - 1], items[i])
                        ELSE f[i - 1]]
  BY <1>1, KeptFilters DEF Filters
<1> HIDE DEF f, k
<1>3. f[0] = << >>
  BY <1>1, <1>2
<1>4. ASSUME NEW i \in 1 .. k
      PROVE  f[i] = IF KeepsWaiting(items[i]) THEN Append(f[i - 1], items[i]) ELSE f[i - 1]
  <2>1. i \in 0 .. k /\ i # 0
    BY <1>1
  <2> QED BY <1>2, <2>1
<1> QED BY <1>3, <1>4 DEF f, k, KeptNext

\* What is kept is lossless frames.
LEMMA KeptLossless ==
  ASSUME NEW items \in Seq(Frame), NEW i \in 0 .. Len(items)
  PROVE  Kept(items)[i] \in Seq(Lossless)
<1> DEFINE f == Kept(items)
           T == {n \in 0 .. Len(items) : f[n] \notin Seq(Lossless)}
<1>1. Len(items) \in Nat
  BY LenProperties
<1>2. SUFFICES ASSUME T # {} PROVE FALSE
  OBVIOUS
<1>3. T \in SUBSET Nat
  BY <1>1
<1>4. PICK n \in T : \A m \in T : n <= m
  BY <1>2, <1>3, LeastNumber
<1>5. n # 0
  BY KeptStep, EmptySeq
<1>6. n \in 1 .. Len(items) /\ n - 1 \in 0 .. Len(items) /\ n - 1 \notin T
  BY <1>1, <1>3, <1>4, <1>5
<1>7. f[n - 1] \in Seq(Lossless) /\ f[n] = KeptNext(items, n)
  BY <1>6, KeptStep
<1>8. items[n] \in Frame
  BY <1>6, ElementOfSeq
<1>9. f[n] \in Seq(Lossless)
  BY <1>7, <1>8, AppendProperties DEF KeptNext, Lossless
<1> QED BY <1>4, <1>9

\* Frames that are both lossy, or the same, mean the same to the queue.
Alike(m1, m2) ==
  \/ m1 = m2
  \/ ~KeepsWaiting(m1) /\ ~KeepsWaiting(m2)

\* k frames of s after the first a are like those of t after the first b.
Stretch(s, a, t, b, k) ==
  /\ s \in Seq(Frame) /\ t \in Seq(Frame) /\ a \in Nat /\ b \in Nat /\ k \in Nat
  /\ a + k <= Len(s) /\ b + k <= Len(t)
  /\ \A i \in 1 .. k : Alike(s[a + i], t[b + i])

\* Stretches of two queues that mean the same add the same to what is kept.
LEMMA SameStretch ==
  ASSUME NEW s, NEW t, NEW a, NEW b, NEW k, Stretch(s, a, t, b, k)
  PROVE  \E d \in Seq(Lossless) : /\ Kept(s)[a + k] = Kept(s)[a] \o d
                                  /\ Kept(t)[b + k] = Kept(t)[b] \o d
<1> USE DEF Stretch
<1> DEFINE f == Kept(s)
           g == Kept(t)
           Adds(n, d) == f[a + n] = f[a] \o d /\ g[b + n] = g[b] \o d
           T == {n \in 0 .. k : ~ \E d \in Seq(Lossless) : Adds(n, d)}
<1>1. Len(s) \in Nat /\ Len(t) \in Nat
  BY LenProperties
<1>2. \A n \in 0 .. k : f[a + n] \in Seq(Lossless) /\ g[b + n] \in Seq(Lossless)
  BY <1>1, KeptLossless
<1>3. SUFFICES ASSUME T # {} PROVE FALSE
  <2>1. k \in 0 .. k
    OBVIOUS
  <2> QED BY <2>1
<1>4. PICK n \in T : \A m \in T : n <= m
  <2>1. T \in SUBSET Nat
    OBVIOUS
  <2> QED BY <1>3, <2>1, LeastNumber
<1>5. f[a] \in Seq(Lossless) /\ g[b] \in Seq(Lossless)
  BY <1>1, KeptLossless
<1>6. n # 0
  <2>1. << >> \in Seq(Lossless) /\ Adds(0, << >>)
    BY <1>5, ConcatEmptySeq, EmptySeq
  <2> QED BY <1>4, <2>1
<1>7. n \in 1 .. k /\ n - 1 \in 0 .. k /\ n - 1 \notin T
  <2>1. n \in 0 .. k
    BY <1>4
  <2>2. n \in 1 .. k /\ n - 1 \in 0 .. k /\ ~(n <= n - 1)
    BY <1>6, <2>1
  <2> QED BY <1>4, <2>2
<1>8. PICK d \in Seq(Lossless) : Adds(n - 1, d)
  BY <1>7
<1>9. /\ a + n \in 1 .. Len(s) /\ b + n \in 1 .. Len(t)
      /\ (a + n) - 1 = a + (n - 1) /\ (b + n) - 1 = b + (n - 1)
  BY <1>1, <1>7
<1>10. f[a + n] = KeptNext(s, a + n) /\ g[b + n] = KeptNext(t, b + n)
  BY <1>9, KeptStep
<1>11. Alike(s[a + n], t[b + n])
  BY <1>7
<1>12. s[a + n] \in Frame
  BY <1>9, ElementOfSeq
<1>13. CASE ~KeepsWaiting(s[a + n])
  <2>1. f[a + n] = f[a + (n - 1)] /\ g[b + n] = g[b + (n - 1)]
    BY <1>9, <1>10, <1>11, <1>13 DEF KeptNext, Alike
  <2> QED BY <1>4, <1>8, <2>1
<1>14. CASE KeepsWaiting(s[a + n])
  <2> DEFINE m == s[a + n]
             e == Append(d, m)
  <2>1. m \in Lossless /\ t[b + n] = m
    BY <1>11, <1>12, <1>14 DEF Alike, Lossless
  <2>2. f[a + n] = Append(f[a] \o d, m) /\ g[b + n] = Append(g[b] \o d, m)
    BY <1>8, <1>9, <1>10, <1>14, <2>1 DEF KeptNext
  <2> HIDE DEF m
  <2>3. \A x \in Seq(Lossless) : Append(x \o d, m) = x \o e
    BY <1>8, <2>1, AppendAfter
  <2>4. e \in Seq(Lossless)
    BY <2>1
  <2> QED BY <1>4, <1>5, <2>2, <2>3, <2>4
<1> QED BY <1>13, <1>14

\* The same, from the start of the second queue.
LEMMA SameStart ==
  ASSUME NEW s, NEW t, NEW a, NEW k, Stretch(s, a, t, 0, k)
  PROVE  \E d \in Seq(Lossless) : Kept(s)[a + k] = Kept(s)[a] \o d /\ Kept(t)[k] = d
<1>1. PICK d \in Seq(Lossless) : /\ Kept(s)[a + k] = Kept(s)[a] \o d
                                 /\ Kept(t)[0 + k] = Kept(t)[0] \o d
  BY SameStretch
<1>2. 0 + k = k
  BY DEF Stretch
<1>3. Kept(t)[0] \o d = d
  BY KeptStep, ConcatEmptySeq DEF Stretch
<1> QED BY <1>1, <1>2, <1>3

\* Unsent keeps lossless frames.
LEMMA UnsentLossless ==
  ASSUME NEW s \in Seq(Frame)
  PROVE  Unsent(s) \in Seq(Lossless)
BY KeptLossless, LenProperties DEF Unsent

\* Lossless frames are frames.
LEMMA LosslessFrames == \A s \in Seq(Lossless) : s \in Seq(Frame)
BY SeqMonotonic DEF Lossless

\* Queues that mean the same frame by frame keep the same.
LEMMA UnsentAlike ==
  ASSUME NEW s \in Seq(Frame), NEW t \in Seq(Frame), Len(s) = Len(t),
         \A i \in 1 .. Len(s) : Alike(s[i], t[i])
  PROVE  Unsent(s) = Unsent(t)
<1> DEFINE k == Len(s)
<1>1. k \in Nat
  BY LenProperties
<1>2. 0 + k = k /\ \A i \in 1 .. k : 0 + i = i
  BY <1>1
<1>3. Stretch(s, 0, t, 0, k)
  BY <1>1, <1>2, LenProperties DEF Stretch, Alike
<1>4. PICK d \in Seq(Lossless) : Kept(s)[0 + k] = Kept(s)[0] \o d /\ Kept(t)[k] = d
  BY <1>3, SameStart
<1>5. Kept(s)[0] \o d = d
  BY <1>4, KeptStep, ConcatEmptySeq
<1> QED BY <1>2, <1>4, <1>5 DEF Unsent

\* What is kept of the first k frames, and of a queue that begins with them.
LEMMA UnsentPrefix ==
  ASSUME NEW s \in Seq(Frame), NEW t \in Seq(Frame), Len(t) <= Len(s),
         \A i \in 1 .. Len(t) : s[i] = t[i]
  PROVE  Kept(s)[Len(t)] = Unsent(t)
<1> DEFINE k == Len(t)
<1>1. k \in Nat
  BY LenProperties
<1>2. 0 + k = k /\ \A i \in 1 .. k : 0 + i = i
  BY <1>1
<1>3. Stretch(s, 0, t, 0, k)
  BY <1>1, <1>2, LenProperties DEF Stretch, Alike
<1>4. PICK d \in Seq(Lossless) : Kept(s)[0 + k] = Kept(s)[0] \o d /\ Kept(t)[k] = d
  BY <1>3, SameStart
<1>5. Kept(s)[0] \o d = d
  BY <1>4, KeptStep, ConcatEmptySeq
<1> QED BY <1>2, <1>4, <1>5 DEF Unsent

\* A queue keeps what its parts keep, in their order.
LEMMA UnsentParts ==
  ASSUME NEW s \in Seq(Frame), NEW t \in Seq(Frame), NEW u \in Seq(Frame),
         Len(s) = Len(t) + Len(u),
         \A i \in 1 .. Len(t) : s[i] = t[i],
         \A i \in 1 .. Len(u) : s[Len(t) + i] = u[i]
  PROVE  Unsent(s) = Unsent(t) \o Unsent(u)
<1> DEFINE a == Len(t)
           k == Len(u)
<1>1. a \in Nat /\ k \in Nat
  BY LenProperties
<1>2. Kept(s)[a] = Unsent(t)
  BY <1>1, UnsentPrefix
<1>3. Stretch(s, a, u, 0, k)
  BY <1>1, LenProperties DEF Stretch, Alike
<1>4. PICK d \in Seq(Lossless) : Kept(s)[a + k] = Kept(s)[a] \o d /\ Kept(u)[k] = d
  BY <1>3, SameStart
<1> QED BY <1>2, <1>4 DEF Unsent

\* A frame appended to the queue is kept unless it is lossy.
LEMMA UnsentAppend ==
  ASSUME NEW s \in Seq(Frame), NEW m \in Frame
  PROVE  Unsent(Append(s, m)) = IF KeepsWaiting(m) THEN Append(Unsent(s), m) ELSE Unsent(s)
<1> DEFINE t == Append(s, m)
           k == Len(s)
<1>1. /\ k \in Nat /\ t \in Seq(Frame) /\ Len(t) = k + 1 /\ t[k + 1] = m
      /\ \A i \in 1 .. k : t[i] = s[i]
  BY LenProperties, AppendProperties
<1> HIDE DEF t
<1>2. Kept(t)[k] = Unsent(s)
  BY <1>1, UnsentPrefix
<1>3. Kept(t)[k + 1] = KeptNext(t, k + 1)
  BY <1>1, KeptStep
<1> QED BY <1>1, <1>2, <1>3 DEF Unsent, KeptNext, t

\* Of lossless frames all are kept.
LEMMA UnsentAll ==
  ASSUME NEW s \in Seq(Lossless)
  PROVE  Unsent(s) = s
<1> DEFINE f == Kept(s)
           T == {n \in 0 .. Len(s) : f[n] # SubSeq(s, 1, n)}
<1>1. s \in Seq(Frame) /\ Len(s) \in Nat
  BY LosslessFrames, LenProperties
<1>2. T = {}
  <2> SUFFICES ASSUME T # {} PROVE FALSE
    OBVIOUS
  <2>1. T \in SUBSET Nat
    BY <1>1
  <2>2. PICK n \in T : \A m \in T : n <= m
    BY <2>1, LeastNumber
  <2>3. n # 0
    <3>1. f[0] = << >> /\ SubSeq(s, 1, 0) = << >>
      BY <1>1, KeptStep, SubSeqEmpty
    <3> QED BY <2>2, <3>1
  <2>4. n \in 0 .. Len(s)
    BY <2>2
  <2>5. n \in 1 .. Len(s) /\ n - 1 \in 0 .. Len(s) /\ ~(n <= n - 1)
    BY <1>1, <2>3, <2>4
  <2>6. f[n - 1] = SubSeq(s, 1, n - 1)
    BY <2>2, <2>5
  <2>7. f[n] = Append(f[n - 1], s[n])
    <3>1. KeepsWaiting(s[n])
      BY <2>5, ElementOfSeq DEF Lossless
    <3> QED BY <1>1, <2>5, <3>1, KeptStep DEF KeptNext
  <2>8. SubSeq(s, 1, n) = SubSeq(s, 1, n - 1) \o << s[n] >>
    <3>1. 1 \in 1 .. Len(s) /\ n \in 1 .. Len(s)
      BY <2>5
    <3> QED BY <3>1, SubSeqRecursiveSecond
  <2>9. SubSeq(s, 1, n - 1) \in Seq(Lossless) /\ s[n] \in Lossless
    BY <1>1, <2>5, SubSeqProperties, ElementOfSeq
  <2>10. f[n] = SubSeq(s, 1, n)
    BY <2>6, <2>7, <2>8, <2>9, AppendIsConcat
  <2> QED BY <2>2, <2>10
<1>3. f[Len(s)] = SubSeq(s, 1, Len(s))
  <2>1. Len(s) \in 0 .. Len(s)
    BY <1>1
  <2> QED BY <1>2, <2>1
<1> QED BY <1>1, <1>3, SubSeqFull DEF Unsent

\* A queue keeps what is kept of its first n frames and of the others.
LEMMA UnsentSplit ==
  ASSUME NEW s \in Seq(Frame), NEW n \in 0 .. Len(s)
  PROVE  LET sentNow == SubSeq(s, 1, n)
             rest == SubSeq(s, n + 1, Len(s))
         IN  /\ sentNow \in Seq(Frame) /\ rest \in Seq(Frame)
             /\ Unsent(s) = Unsent(sentNow) \o Unsent(rest)
<1> DEFINE t == SubSeq(s, 1, n)
           u == SubSeq(s, n + 1, Len(s))
           k == Len(s)
<1>1. k \in Nat /\ n \in Nat /\ n <= k /\ \A i \in 1 .. k : s[i] \in Frame
  BY LenProperties, ElementOfSeq
<1>2. t \in Seq(Frame) /\ Len(t) = n /\ \A i \in 1 .. n : t[i] = s[i]
  BY <1>1, SubSeqProperties
<1>3. u \in Seq(Frame) /\ Len(u) = k - n /\ \A i \in 1 .. k - n : u[i] = s[n + i]
  BY <1>1, SubSeqProperties
<1> HIDE DEF t, u
<1>4. Unsent(s) = Unsent(t) \o Unsent(u)
  <2>1. /\ Len(s) = Len(t) + Len(u)
        /\ \A i \in 1 .. Len(t) : s[i] = t[i]
        /\ \A i \in 1 .. Len(u) : s[Len(t) + i] = u[i]
    BY <1>1, <1>2, <1>3
  <2> QED BY <1>2, <1>3, <2>1, UnsentParts
<1> QED BY <1>2, <1>3, <1>4 DEF t, u

---------------------------------------------------------------------------
(* Lossless frames reach the socket in order, each once.                   *)

\* outboundQueue.ts: a slot that is taken points to the queued frame of its type.
SlotsPoint(items, of) ==
  \A t \in Lossy : of[t] # 0 => of[t] \in 1 .. Len(items) /\ items[of[t]].t = t

\* The queue with what was sent and what was handed on.
QueueOK ==
  /\ queue \in Seq(Frame) /\ slots \in [Lossy -> Nat] /\ full \in BOOLEAN
  /\ SlotsPoint(queue, slots)
  /\ sent \in Seq(Lossless) /\ handed \in Seq(Lossless)
  /\ QueueIsUnsent

\* A page's own variables have their types.
PageTypeOK ==
  /\ status \in Statuses /\ sock \in ReadyStates
  /\ timer \in BOOLEAN /\ intentional \in BOOLEAN
  /\ active \in BOOLEAN /\ visible \in BOOLEAN /\ sessionOpen \in BOOLEAN
  /\ capturing \in BOOLEAN /\ pinging \in BOOLEAN /\ frames \subseteq Lossy
  /\ seq \in Nat /\ persisting \subseteq [t : {"audit"}, seq : 1 .. seq]

\* enqueue: a lossy frame changes nothing of what is kept, another is kept last.
LEMMA EnqueueKeeps ==
  ASSUME QueueOK, NEW m \in Frame
  PROVE  /\ Enqueued(m) \in Seq(Frame) /\ SlotsAfter(m) \in [Lossy -> Nat]
         /\ SlotsPoint(Enqueued(m), SlotsAfter(m))
         /\ Unsent(Enqueued(m)) =
              IF IsLossy(m) THEN Unsent(queue) ELSE Append(Unsent(queue), m)
<1> DEFINE k == Len(queue)
<1>1. /\ queue \in Seq(Frame) /\ slots \in [Lossy -> Nat] /\ SlotsPoint(queue, slots)
      /\ k \in Nat /\ \A i \in 1 .. k : queue[i] \in Frame
  BY LenProperties, ElementOfSeq DEF QueueOK
<1>2. CASE IsLossy(m) /\ slots[m.t] # 0
  <2> DEFINE i == slots[m.t]
             next == [queue EXCEPT ![i] = m]
  <2>1. i \in 1 .. k /\ queue[i].t = m.t /\ m.t \in Lossy
    BY <1>1, <1>2 DEF SlotsPoint, IsLossy
  <2>2. Enqueued(m) = next /\ SlotsAfter(m) = slots
    BY <1>2 DEF Enqueued, SlotsAfter
  <2> HIDE DEF i
  <2>3. /\ next \in Seq(Frame) /\ Len(next) = k
        /\ \A j \in 1 .. k : next[j] = IF j = i THEN m ELSE queue[j]
    BY <1>1, <2>1, ExceptSeq
  <2> HIDE DEF next
  <2>4. \A j \in 1 .. k : Alike(queue[j], next[j])
    BY <2>1, <2>3 DEF Alike, KeepsWaiting, IsLossy
  <2>5. Unsent(next) = Unsent(queue)
    BY <1>1, <2>3, <2>4, UnsentAlike
  <2>6. SlotsPoint(next, slots)
    BY <1>1, <2>1, <2>3 DEF SlotsPoint
  <2> QED BY <1>1, <1>2, <2>2, <2>3, <2>5, <2>6
<1>3. CASE ~(IsLossy(m) /\ slots[m.t] # 0)
  <2> DEFINE next == Append(queue, m)
  <2>1. Enqueued(m) = next
    BY <1>3, Zenon DEF Enqueued
  <2>2. /\ next \in Seq(Frame) /\ Len(next) = k + 1 /\ next[k + 1] = m
        /\ \A j \in 1 .. k : next[j] = queue[j]
    BY <1>1, AppendProperties
  <2>3. Unsent(next) = IF KeepsWaiting(m) THEN Append(Unsent(queue), m) ELSE Unsent(queue)
    BY <1>1, UnsentAppend
  <2> HIDE DEF next
  <2>4. SlotsAfter(m) \in [Lossy -> Nat] /\ SlotsPoint(next, SlotsAfter(m))
    <3>1. CASE IsLossy(m)
      <4>1. SlotsAfter(m) = [slots EXCEPT ![m.t] = k + 1] /\ m.t \in Lossy
        BY <1>3, <3>1 DEF SlotsAfter, IsLossy
      <4> QED BY <1>1, <2>2, <4>1 DEF SlotsPoint
    <3>2. CASE ~IsLossy(m)
      <4>1. SlotsAfter(m) = slots
        BY <3>2 DEF SlotsAfter
      <4> QED BY <1>1, <2>2, <4>1 DEF SlotsPoint
    <3> QED BY <3>1, <3>2
  <2> QED BY <2>1, <2>2, <2>3, <2>4 DEF KeepsWaiting
<1> QED BY <1>2, <1>3

\* flushQueue: what is handed on and what waits is what there was.
LEMMA FlushKeeps ==
  ASSUME NEW items \in Seq(Frame), handed \in Seq(Lossless), Flush(items)
  PROVE  /\ queue' \in Seq(Frame) /\ slots' = NoSlots /\ full' \in BOOLEAN
         /\ handed' \in Seq(Lossless)
         /\ handed' \o Unsent(queue') = handed \o Unsent(items)
<1>1. PICK n \in 0 .. Len(items) :
        /\ full' \in BOOLEAN
        /\ queue' = Unsent(SubSeq(items, n + 1, Len(items)))
        /\ slots' = NoSlots
        /\ handed' = handed \o Unsent(SubSeq(items, 1, n))
  BY DEF Flush, Rest, Drained
<1> DEFINE gone == Unsent(SubSeq(items, 1, n))
           rest == Unsent(SubSeq(items, n + 1, Len(items)))
<1>2. /\ gone \in Seq(Lossless) /\ rest \in Seq(Lossless)
      /\ Unsent(items) = gone \o rest
  BY UnsentSplit, UnsentLossless
<1>3. queue' = rest /\ handed' = handed \o gone
  BY <1>1
<1> HIDE DEF gone, rest
<1>4. Unsent(rest) = rest /\ rest \in Seq(Frame)
  BY <1>2, UnsentAll, LosslessFrames
<1>5. (handed \o gone) \o rest = handed \o (gone \o rest)
  BY <1>2, ConcatAssociative
<1>6. handed \o gone \in Seq(Lossless)
  BY <1>2, ConcatProperties
<1> QED BY <1>1, <1>2, <1>3, <1>4, <1>5, <1>6

\* connection.send: the frame is sent, and waits or is handed on.
LEMMA SendKeeps ==
  ASSUME QueueOK, NEW m \in Frame, NEW s, SendOn(s, m)
  PROVE  QueueOK'
<1> DEFINE items == Enqueued(m)
<1>1. /\ items \in Seq(Frame) /\ SlotsAfter(m) \in [Lossy -> Nat]
      /\ SlotsPoint(items, SlotsAfter(m))
      /\ Unsent(items) = IF IsLossy(m) THEN Unsent(queue) ELSE Append(Unsent(queue), m)
  BY EnqueueKeeps
<1>2. /\ sent' = IF IsLossy(m) THEN sent ELSE Append(sent, m)
      /\ \/ Flush(items)
         \/ /\ queue' = items /\ slots' = SlotsAfter(m)
            /\ UNCHANGED <<full, handed>>
  BY DEF SendOn
<1> HIDE DEF items
<1>3. /\ sent \in Seq(Lossless) /\ handed \in Seq(Lossless) /\ full \in BOOLEAN
      /\ handed \o Unsent(queue) = sent /\ Unsent(queue) \in Seq(Lossless)
  BY UnsentLossless DEF QueueOK, QueueIsUnsent
<1>4. sent' \in Seq(Lossless) /\ handed \o Unsent(items) = sent'
  <2>1. CASE IsLossy(m)
    BY <1>1, <1>2, <1>3, <2>1
  <2>2. CASE ~IsLossy(m)
    <3>1. m \in Lossless
      BY <2>2 DEF Lossless, KeepsWaiting
    <3>2. handed \o Append(Unsent(queue), m) = Append(handed \o Unsent(queue), m)
      BY <1>3, <3>1, AppendAfter
    <3>3. Append(sent, m) \in Seq(Lossless)
      BY <1>3, <3>1, AppendProperties
    <3> QED BY <1>1, <1>2, <1>3, <2>2, <3>2, <3>3
  <2> QED BY <2>1, <2>2
<1>5. /\ queue' \in Seq(Frame) /\ slots' \in [Lossy -> Nat] /\ full' \in BOOLEAN
      /\ handed' \in Seq(Lossless) /\ SlotsPoint(queue', slots')
      /\ handed' \o Unsent(queue') = handed \o Unsent(items)
  <2>1. CASE Flush(items)
    <3>1. /\ queue' \in Seq(Frame) /\ slots' = NoSlots /\ full' \in BOOLEAN
          /\ handed' \in Seq(Lossless)
          /\ handed' \o Unsent(queue') = handed \o Unsent(items)
      BY <1>1, <1>3, <2>1, FlushKeeps
    <3>2. NoSlots \in [Lossy -> Nat] /\ SlotsPoint(queue', NoSlots)
      BY DEF NoSlots, SlotsPoint
    <3> QED BY <3>1, <3>2
  <2>2. CASE /\ queue' = items /\ slots' = SlotsAfter(m)
             /\ UNCHANGED <<full, handed>>
    BY <1>1, <1>3, <2>2
  <2> QED BY <1>2, <2>1, <2>2
<1>6. QueueIsUnsent'
  BY <1>4, <1>5 DEF QueueIsUnsent
<1> QED BY <1>4, <1>5, <1>6 DEF QueueOK

\* A step that leaves the queue alone.
LEMMA QueueUnchanged ==
  ASSUME QueueOK, UNCHANGED <<queue, slots, sent, handed>>, full' \in BOOLEAN
  PROVE  QueueOK'
<1>1. QueueIsUnsent'
  BY DEF QueueOK, QueueIsUnsent
<1> QED BY <1>1 DEF QueueOK

\* A frame built with the next number is one.
LEMMA BuiltFrames ==
  ASSUME PageTypeOK, NEW type \in Lossy \cup {"hello", "bye", "ping", "audit"}
  PROVE  Build(type) \in Frame
BY DEF PageTypeOK, Build, Frame

\* Audit frames draw the numbers that come next.
LEMMA EmitTypes ==
  ASSUME PageTypeOK, NEW last \in Nat, seq <= last, NEW count \in Nat, Emit(last, count)
  PROVE  (seq \in Nat)' /\ (persisting \subseteq [t : {"audit"}, seq : 1 .. seq])'
<1>1. /\ seq' = last + count
      /\ persisting' = persisting \cup [t : {"audit"}, seq : last + 1 .. last + count]
  BY DEF Emit
<1>2. seq' \in Nat /\ seq <= seq' /\ seq \in Nat
  BY <1>1 DEF PageTypeOK
<1>3. 1 .. seq \subseteq 1 .. seq' /\ last + 1 .. last + count \subseteq 1 .. seq'
  BY <1>1, <1>2
<1>4. persisting' \subseteq [t : {"audit"}, seq : 1 .. seq']
  BY <1>1, <1>3 DEF PageTypeOK
<1> QED BY <1>2, <1>4

\* A number that is drawn leaves the audit frames under way what they are.
LEMMA DrawTypes ==
  ASSUME PageTypeOK, seq' = seq + 1, persisting' = persisting
  PROVE  (seq \in Nat)' /\ (persisting \subseteq [t : {"audit"}, seq : 1 .. seq])'
<1>1. seq' \in Nat /\ 1 .. seq \subseteq 1 .. seq'
  BY DEF PageTypeOK
<1> QED BY <1>1 DEF PageTypeOK

\* The host's calls keep the types.
LEMMA HostTypes ==
  ASSUME PageTypeOK, QueueOK, Connect \/ Disconnect
  PROVE  PageTypeOK' /\ QueueOK'
<1>1. CASE Connect
  <2>1. (seq \in Nat)' /\ (persisting \subseteq [t : {"audit"}, seq : 1 .. seq])'
    <3>1. Emit(seq, IF visible /\ ~sessionOpen THEN 1 ELSE 0)
      BY <1>1 DEF Connect
    <3> QED BY <3>1, EmitTypes DEF PageTypeOK
  <2>2. QueueOK'
    BY <1>1, QueueUnchanged DEF Connect, out, QueueOK
  <2>3. /\ status' \in Statuses /\ sock' \in ReadyStates
        /\ timer' \in BOOLEAN /\ intentional' \in BOOLEAN
    BY <1>1 DEF Connect, OpenSocket, conn, PageTypeOK, Statuses, ReadyStates
  <2>4. /\ active' = TRUE /\ capturing' = TRUE /\ sessionOpen' = (sessionOpen \/ visible)
        /\ UNCHANGED <<visible, pinging, frames>>
    BY <1>1 DEF Connect
  <2> QED BY <2>1, <2>2, <2>3, <2>4 DEF PageTypeOK
<1>2. CASE Disconnect
  <2>1. Submit("bye") /\ persisting' = persisting
    BY <1>2 DEF Disconnect
  <2>2. (seq \in Nat)' /\ (persisting \subseteq [t : {"audit"}, seq : 1 .. seq])'
    BY <2>1, DrawTypes DEF Submit
  <2>3. QueueOK'
    BY <2>1, BuiltFrames, SendKeeps DEF Submit
  <2>4. /\ status' \in Statuses /\ sock' \in ReadyStates
        /\ timer' \in BOOLEAN /\ intentional' \in BOOLEAN
    BY <1>2 DEF Disconnect, CloseSocket, conn, PageTypeOK, Statuses, ReadyStates
  <2>5. /\ active' = FALSE /\ capturing' = FALSE /\ pinging' = FALSE
        /\ frames' = frames \ {"cursor", "scroll"} /\ UNCHANGED <<visible, sessionOpen>>
    BY <1>2 DEF Disconnect, Cancelled
  <2> QED BY <2>2, <2>3, <2>4, <2>5 DEF PageTypeOK
<1> QED BY <1>1, <1>2

\* The socket, the timer and the buffer keep the types.
LEMMA SocketTypes ==
  ASSUME PageTypeOK, QueueOK,
         SocketOpens \/ SocketCloses \/ SocketClosing \/ TimerFires \/ BufferDrains
  PROVE  PageTypeOK' /\ QueueOK'
<1>1. CASE SocketOpens
  <2>1. /\ SendOn("open", Build("hello")) /\ seq' = seq + 1 /\ persisting' = persisting
        /\ status' = "open" /\ sock' = "open" /\ pinging' = TRUE
        /\ UNCHANGED <<timer, intentional, active, visible, sessionOpen, capturing, frames>>
    BY <1>1 DEF SocketOpens
  <2>2. QueueOK'
    BY <2>1, BuiltFrames, SendKeeps
  <2>3. (seq \in Nat)' /\ (persisting \subseteq [t : {"audit"}, seq : 1 .. seq])'
    BY <2>1, DrawTypes
  <2> QED BY <2>1, <2>2, <2>3 DEF PageTypeOK, Statuses, ReadyStates
<1>2. CASE SocketCloses
  <2>1. QueueOK'
    BY <1>2, QueueUnchanged DEF SocketCloses
  <2> QED BY <1>2, <2>1 DEF SocketCloses, AfterClose, PageTypeOK, Statuses, ReadyStates
<1>3. CASE SocketClosing
  <2>1. QueueOK'
    BY <1>3, QueueUnchanged DEF SocketClosing, out, QueueOK
  <2> QED BY <1>3, <2>1 DEF SocketClosing, page, PageTypeOK, ReadyStates
<1>4. CASE TimerFires
  <2>1. QueueOK'
    BY <1>4, QueueUnchanged DEF TimerFires, out, QueueOK
  <2> QED BY <1>4, <2>1 DEF TimerFires, OpenSocket, page, PageTypeOK, Statuses, ReadyStates
<1>5. CASE BufferDrains
  <2>1. QueueOK'
    BY <1>5, QueueUnchanged DEF BufferDrains
  <2> QED BY <1>5, <2>1 DEF BufferDrains, conn, page, PageTypeOK
<1> QED BY <1>1, <1>2, <1>3, <1>4, <1>5

\* What the page captures and sends keeps the types.
LEMMA CaptureTypes ==
  ASSUME PageTypeOK, QueueOK,
         Ping \/ PointerMoves \/ Scrolls \/ \E type \in Lossy : Captured(type)
  PROVE  PageTypeOK' /\ QueueOK'
<1>1. CASE Ping
  <2>1. Submit("ping") /\ UNCHANGED <<conn, page, persisting>>
    BY <1>1 DEF Ping
  <2>2. QueueOK'
    BY <2>1, BuiltFrames, SendKeeps DEF Submit
  <2>3. (seq \in Nat)' /\ (persisting \subseteq [t : {"audit"}, seq : 1 .. seq])'
    BY <2>1, DrawTypes DEF Submit
  <2> QED BY <2>1, <2>2, <2>3 DEF conn, page, PageTypeOK
<1>2. CASE PointerMoves \/ Scrolls
  <2>1. QueueOK'
    BY <1>2, QueueUnchanged DEF PointerMoves, Scrolls, out, QueueOK
  <2> QED BY <1>2, <2>1 DEF PointerMoves, Scrolls, conn, PageTypeOK, Lossy
<1>3. ASSUME NEW type \in Lossy, Captured(type)
      PROVE  PageTypeOK' /\ QueueOK'
  <2>1. UNCHANGED <<conn, active, visible, sessionOpen, capturing, pinging, persisting>>
    BY <1>3 DEF Captured
  <2>2. frames' \subseteq Lossy
    BY <1>3 DEF Captured, PageTypeOK
  <2>3. CASE Submit(type)
    <3>1. QueueOK'
      BY <2>3, BuiltFrames, SendKeeps DEF Submit
    <3>2. (seq \in Nat)' /\ (persisting \subseteq [t : {"audit"}, seq : 1 .. seq])'
      BY <2>1, <2>3, DrawTypes DEF Submit
    <3> QED BY <2>1, <2>2, <3>1, <3>2 DEF conn, PageTypeOK
  <2>4. CASE UNCHANGED <<out, seq>>
    <3>1. QueueOK'
      BY <2>4, QueueUnchanged DEF out, QueueOK
    <3> QED BY <2>1, <2>2, <2>4, <3>1 DEF conn, PageTypeOK
  <2> QED BY <1>3, <2>3, <2>4 DEF Captured
<1> QED BY <1>1, <1>2, <1>3

\* Hiding and showing the page, and the audit frames they build, keep the types.
LEMMA VisibilityTypes ==
  ASSUME PageTypeOK, QueueOK,
         Hide \/ Show \/ HideOrShowUnnoticed \/ \E m \in persisting : Persisted(m)
  PROVE  PageTypeOK' /\ QueueOK'
<1>1. CASE Hide
  <2>1. QueueOK'
    BY <1>1, QueueUnchanged DEF Hide, out, QueueOK
  <2>2. (seq \in Nat)' /\ (persisting \subseteq [t : {"audit"}, seq : 1 .. seq])'
    <3>1. Emit(seq, IF sessionOpen THEN 2 ELSE 1)
      BY <1>1 DEF Hide
    <3> QED BY <3>1, EmitTypes DEF PageTypeOK
  <2>3. /\ visible' = FALSE /\ capturing' = FALSE /\ sessionOpen' = FALSE
        /\ frames' \subseteq frames /\ UNCHANGED <<conn, active, pinging>>
    BY <1>1 DEF Hide, Cancelled
  <2> QED BY <2>1, <2>2, <2>3 DEF conn, PageTypeOK
<1>2. CASE Show
  <2> DEFINE audits == IF sessionOpen THEN 1 ELSE 2
  <2>1. audits \in Nat /\ seq \in Nat /\ seq + 1 \in Nat
    BY DEF PageTypeOK
  <2>2. /\ visible' = TRUE /\ capturing' = TRUE /\ sessionOpen' = TRUE
        /\ UNCHANGED <<conn, active, pinging, frames>>
        /\ \/ SendOn(sock, Build("hello")) /\ Emit(seq + 1, audits)
           \/ UNCHANGED out /\ Emit(seq, audits)
    BY <1>2 DEF Show
  <2> HIDE DEF audits
  <2>3. QueueOK' /\ (seq \in Nat)' /\ (persisting \subseteq [t : {"audit"}, seq : 1 .. seq])'
    <3>1. CASE SendOn(sock, Build("hello")) /\ Emit(seq + 1, audits)
      BY <2>1, <3>1, BuiltFrames, SendKeeps, EmitTypes
    <3>2. CASE UNCHANGED out /\ Emit(seq, audits)
      <4>1. QueueOK'
        BY <3>2, QueueUnchanged DEF out, QueueOK
      <4> QED BY <2>1, <3>2, <4>1, EmitTypes
    <3> QED BY <2>2, <3>1, <3>2
  <2> QED BY <2>2, <2>3 DEF conn, PageTypeOK
<1>3. CASE HideOrShowUnnoticed
  <2>1. QueueOK'
    BY <1>3, QueueUnchanged DEF HideOrShowUnnoticed, out, QueueOK
  <2> QED BY <1>3, <2>1 DEF HideOrShowUnnoticed, conn, PageTypeOK
<1>4. ASSUME NEW m \in persisting, Persisted(m)
      PROVE  PageTypeOK' /\ QueueOK'
  <2>1. /\ persisting' = persisting \ {m} /\ UNCHANGED <<conn, page, seq>>
        /\ SendOn(sock, m) \/ UNCHANGED out
    BY <1>4 DEF Persisted
  <2>2. m \in Frame
    BY DEF PageTypeOK, Frame
  <2>3. QueueOK'
    <3>1. CASE SendOn(sock, m)
      BY <2>2, <3>1, SendKeeps
    <3>2. CASE UNCHANGED out
      BY <3>2, QueueUnchanged DEF out, QueueOK
    <3> QED BY <2>1, <3>1, <3>2
  <2> QED BY <2>1, <2>3 DEF conn, page, PageTypeOK
<1> QED BY <1>1, <1>2, <1>3, <1>4

\* At the start nothing waits.
LEMMA InitTypes == Init => PageTypeOK /\ QueueOK
<1> SUFFICES ASSUME Init PROVE PageTypeOK /\ QueueOK
  OBVIOUS
<1>1. PageTypeOK
  BY DEF Init, PageTypeOK, Statuses, ReadyStates
<1>2. /\ << >> \in Seq(Frame) /\ << >> \in Seq(Lossless)
      /\ NoSlots \in [Lossy -> Nat] /\ SlotsPoint(<< >>, NoSlots)
  BY EmptySeq DEF NoSlots, SlotsPoint
<1>3. << >> \o Unsent(<< >>) = << >>
  BY <1>2, UnsentAll, ConcatEmptySeq
<1>4. QueueIsUnsent
  BY <1>3 DEF Init, QueueIsUnsent
<1> QED BY <1>1, <1>2, <1>4 DEF Init, QueueOK

\* Every step keeps the types and the queue.
LEMMA StepTypes == PageTypeOK /\ QueueOK /\ [Next]_vars => PageTypeOK' /\ QueueOK'
<1> SUFFICES ASSUME PageTypeOK, QueueOK, [Next]_vars PROVE PageTypeOK' /\ QueueOK'
  OBVIOUS
<1>1. CASE UNCHANGED vars
  <2>1. QueueOK'
    BY <1>1, QueueUnchanged DEF vars, out, QueueOK
  <2> QED BY <1>1, <2>1 DEF vars, conn, page, PageTypeOK
<1> QED BY <1>1, HostTypes, SocketTypes, CaptureTypes, VisibilityTypes DEF Next

\* The invariant on the queue holds in every state that can be reached.
THEOREM TransportTypes == Spec => [](PageTypeOK /\ QueueOK)
BY InitTypes, StepTypes, PTL DEF Spec

\* Every variable of the page's connection keeps its shape.
THEOREM TransportTypeCorrect == Spec => []TransportTypeOK
<1>1. PageTypeOK /\ QueueOK => TransportTypeOK
  BY LosslessFrames DEF PageTypeOK, QueueOK, TransportTypeOK
<1> QED BY <1>1, TransportTypes, PTL

\* outboundQueue.ts and flushQueue: through disconnects, full buffers and
\* coalescing, lossless frames reach the socket in order, each once, however
\* many frames there are and wherever a flush has to stop.
THEOREM QueueLosesNothing == Spec => []QueueIsUnsent
<1>1. QueueOK => QueueIsUnsent
  BY DEF QueueOK
<1> QED BY <1>1, TransportTypes, PTL
============================
