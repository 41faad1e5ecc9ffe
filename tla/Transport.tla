---- MODULE Transport ----
(***************************************************************************)
(* One page's end of the connection: transport/connection.ts and           *)
(* outboundQueue.ts with what drives them in index.ts, that is the host's  *)
(* connect and disconnect, capture, the ping timer and the audit frames of *)
(* lifecycle.ts.                                                           *)
(*                                                                         *)
(* A handler runs to its end, so each is one action; the socket, timers,   *)
(* animation frames and storage call back in any order.  A frame is its    *)
(* type and seq.  Delays and buffer sizes are left out: the timer fires at *)
(* any time, and how much the socket takes before it is full is open.      *)
(***************************************************************************)
EXTENDS Integers, Sequences

CONSTANT MaxSeq   \* bound on the frames built

ASSUME TransportAssumption == MaxSeq \in Nat

VARIABLES
  \* connection.ts
  status,       \* currentStatus
  sock,         \* the socket, if there is one, and its readyState
  timer,        \* the reconnect timer is set
  intentional,  \* intentionalDisconnect
  queue, slots, \* items and lossySlot of outboundQueue.ts
  full,         \* the socket's bufferedAmount is beyond the threshold
  \* index.ts, lifecycle.ts, wire.ts and capture
  active,       \* between connect() and disconnect(): listeners are installed
  visible, sessionOpen,
  capturing,    \* pointerCaptureActive
  pinging,      \* the ping timer is set
  frames,       \* what is scheduled for the next animation frame
  seq,          \* the last number drawn
  persisting,   \* audit frames built, in the hands of outbox.add()
  \* history
  sent,         \* all but lossy frames, in the order of their send()
  handed        \* those of them handed to a socket

conn == <<status, sock, timer, intentional>>
out  == <<queue, slots, full, sent, handed>>
page == <<active, visible, sessionOpen, capturing, pinging, frames>>
vars == <<conn, out, page, seq, persisting>>

Statuses == {"idle", "connecting", "open", "reconnecting", "closed"}
\* "closing": no longer OPEN, its close event still to come.
ReadyStates == {"none", "connecting", "open", "closing"}
Lossy == {"cursor", "scroll"}
Frame == [t : Lossy \cup {"hello", "bye", "ping", "audit"}, seq : Nat]

NoSlots == [t \in Lossy |-> 0]

Init ==
  /\ status = "idle" /\ sock = "none" /\ timer = FALSE /\ intentional = FALSE
  /\ queue = << >> /\ slots = NoSlots /\ full = FALSE
  /\ active = FALSE /\ visible \in BOOLEAN /\ sessionOpen = FALSE
  /\ capturing = FALSE /\ pinging = FALSE /\ frames = {}
  /\ seq = 0 /\ persisting = {}
  /\ sent = << >> /\ handed = << >>

---------------------------------------------------------------------------
(* The outbound queue.                                                     *)

IsLossy(m) == m.t \in Lossy
KeepsWaiting(m) == ~IsLossy(m)

\* The loops of flushQueue over frames, by how many it has seen.
Kept(items) ==
  LET kept[i \in 0 .. Len(items)] ==
        IF i = 0 THEN << >>
        ELSE IF KeepsWaiting(items[i]) THEN Append(kept[i - 1], items[i])
        ELSE kept[i - 1]
  IN  kept

Unsent(items) == Kept(items)[Len(items)]

\* enqueue: a lossy frame takes the place of the one of its type.
Enqueued(m) ==
  IF IsLossy(m) /\ slots[m.t] # 0 THEN [queue EXCEPT ![slots[m.t]] = m] ELSE Append(queue, m)

SlotsAfter(m) ==
  IF IsLossy(m) /\ slots[m.t] = 0 THEN [slots EXCEPT ![m.t] = Len(queue) + 1] ELSE slots

\* Slip: the frame at which the buffer was found full is skipped.
RestAfterNext(items, n) == Unsent(SubSeq(items, n + 2, Len(items)))

\* What a flush re-queues after the first n frames.
Rest(items, n) == Unsent(SubSeq(items, n + 1, Len(items)))

\* drain: the Map is cleared with the items.
Drained == NoSlots

\* flushQueue on an open socket: frames go out until it is full, if ever.
Flush(items) ==
  \E n \in 0 .. Len(items) :
    /\ IF full THEN n = 0 ELSE n > 0
    /\ full' \in BOOLEAN
    /\ full \/ n < Len(items) => full'
    /\ queue' = Rest(items, n)
    /\ slots' = Drained
    /\ handed' = handed \o Unsent(SubSeq(items, 1, n))

\* connection.send(m), with the socket in state s.
SendOn(s, m) ==
  /\ sent' = IF IsLossy(m) THEN sent ELSE Append(sent, m)
  /\ \/ s = "open" /\ Flush(Enqueued(m))
     \/ /\ s # "open"
        /\ queue' = Enqueued(m) /\ slots' = SlotsAfter(m)
        /\ UNCHANGED <<full, handed>>

Build(type) == [t |-> type, seq |-> seq + 1]

\* A frame built and sent in one go.
Submit(type) ==
  /\ seq < MaxSeq
  /\ seq' = seq + 1
  /\ SendOn(sock, Build(type))

\* Slip: audit frames draw numbers that others draw again.
EmitUncounted(last, count) ==
  /\ last + count <= MaxSeq
  /\ seq' = last
  /\ persisting' = persisting \cup [t : {"audit"}, seq : last + 1 .. last + count]

\* lifecycle.emit, up to its await: audit frames draw the numbers after `last`.
Emit(last, count) ==
  /\ last + count <= MaxSeq
  /\ seq' = last + count
  /\ persisting' = persisting \cup [t : {"audit"}, seq : last + 1 .. last + count]

---------------------------------------------------------------------------
(* The host: connect() and disconnect() of index.ts.                       *)

OpenSocket ==
  /\ status' = IF status = "idle" THEN "connecting" ELSE "reconnecting"
  /\ sock' = "connecting"

\* Slip: a connection that waits to reconnect counts as idle.
IsIdle == status \notin {"connecting", "open"}

\* connection.connect() does something only in these.
IsClosed == status \in {"idle", "closed"}

Connect ==
  /\ \/ /\ IsClosed
        /\ intentional' = FALSE
        /\ OpenSocket
        /\ UNCHANGED timer
     \/ ~IsClosed /\ UNCHANGED conn
  /\ active' = TRUE /\ capturing' = TRUE
  /\ Emit(seq, IF visible /\ ~sessionOpen THEN 1 ELSE 0)
  /\ sessionOpen' = (sessionOpen \/ visible)
  /\ UNCHANGED <<out, visible, pinging, frames>>

\* connection.disconnect()
CloseSocket ==
  \/ IsClosed /\ UNCHANGED conn
  \/ /\ ~IsClosed
     /\ intentional' = TRUE
     /\ timer' = FALSE
     /\ sock' = IF sock = "none" THEN "none" ELSE "closing"
     /\ status' = IF sock = "none" THEN "closed" ELSE status

\* Slip: a frame that is scheduled still comes.
NotCancelled(types) == frames' = frames

\* pointerCapture.stop() and scrollCapture.stop(): scheduled frames are cancelled.
Cancelled(types) == frames' = frames \ types

\* Of a page that is not connected as well: each call builds a bye.
Disconnect ==
  /\ Submit("bye")
  /\ CloseSocket
  /\ active' = FALSE /\ capturing' = FALSE /\ pinging' = FALSE
  /\ Cancelled({"cursor", "scroll"})
  /\ UNCHANGED <<visible, sessionOpen, persisting>>

---------------------------------------------------------------------------
(* The socket and the reconnect timer.                                     *)

\* handleOpen: what waited goes out, then the hello.
SocketOpens ==
  /\ sock = "connecting"
  /\ seq < MaxSeq
  /\ status' = "open" /\ sock' = "open"
  /\ seq' = seq + 1
  /\ SendOn("open", Build("hello"))
  /\ pinging' = TRUE
  /\ UNCHANGED <<timer, intentional, active, visible, sessionOpen, capturing, frames,
                 persisting>>

\* Slip: no timer is set.
NoReconnect ==
  /\ status' = IF intentional THEN "closed" ELSE "reconnecting"
  /\ pinging' = (pinging /\ ~intentional)
  /\ UNCHANGED timer

\* scheduleReconnect, or the end of it.
AfterClose ==
  /\ status' = IF intentional THEN "closed" ELSE "reconnecting"
  /\ timer' = ~intentional
  /\ pinging' = (pinging /\ ~intentional)

\* handleClose, on close or error.
SocketCloses ==
  /\ sock # "none"
  /\ sock' = "none" /\ full' = FALSE
  /\ AfterClose
  /\ UNCHANGED <<intentional, queue, slots, sent, handed, active, visible, sessionOpen,
                 capturing, frames, seq, persisting>>

\* The socket stops being OPEN before the page hears of it.
SocketClosing ==
  /\ sock = "open"
  /\ sock' = "closing"
  /\ UNCHANGED <<status, timer, intentional, out, page, seq, persisting>>

TimerFires ==
  /\ timer
  /\ timer' = FALSE
  /\ OpenSocket
  /\ UNCHANGED <<intentional, out, page, seq, persisting>>

BufferDrains ==
  /\ full
  /\ full' = FALSE
  /\ UNCHANGED <<conn, queue, slots, sent, handed, page, seq, persisting>>

---------------------------------------------------------------------------
(* What the page sends.                                                    *)

Ping ==
  /\ pinging
  /\ Submit("ping")
  /\ UNCHANGED <<conn, page, persisting>>

PointerMoves ==
  /\ capturing
  /\ frames' = frames \cup {"cursor"}
  /\ UNCHANGED <<conn, out, active, visible, sessionOpen, capturing, pinging, seq, persisting>>

Scrolls ==
  /\ active
  /\ frames' = frames \cup {"scroll"}
  /\ UNCHANGED <<conn, out, active, visible, sessionOpen, capturing, pinging, seq, persisting>>

\* An animation frame; a cursor within the dead band is not sent.
Captured(type) ==
  /\ type \in frames /\ visible
  /\ frames' = frames \ {type}
  /\ \/ Submit(type)
     \/ type = "cursor" /\ UNCHANGED <<out, seq>>
  /\ UNCHANGED <<conn, active, visible, sessionOpen, capturing, pinging, persisting>>

\* handleVisibilityChange of index.ts, then onVisibilityChange of lifecycle.ts.
Hide ==
  /\ active /\ visible
  /\ visible' = FALSE /\ capturing' = FALSE /\ sessionOpen' = FALSE
  /\ Cancelled(IF capturing THEN {"cursor"} ELSE {})
  /\ Emit(seq, IF sessionOpen THEN 2 ELSE 1)
  /\ UNCHANGED <<conn, out, active, pinging>>

Show ==
  /\ active /\ ~visible
  /\ visible' = TRUE /\ capturing' = TRUE /\ sessionOpen' = TRUE
  /\ LET audits == IF sessionOpen THEN 1 ELSE 2 IN
     IF status = "open"
     THEN SendOn(sock, Build("hello")) /\ Emit(seq + 1, audits)
     ELSE UNCHANGED out /\ Emit(seq, audits)
  /\ UNCHANGED <<conn, active, pinging, frames>>

\* Nothing listens.
HideOrShowUnnoticed ==
  /\ ~active
  /\ visible' = ~visible
  /\ UNCHANGED <<conn, out, active, sessionOpen, capturing, pinging, frames, seq, persisting>>

\* outbox.add() is done: over the connection if its status is open, else by fetch.
Persisted(m) ==
  /\ m \in persisting
  /\ persisting' = persisting \ {m}
  /\ IF status = "open" THEN SendOn(sock, m) ELSE UNCHANGED out
  /\ UNCHANGED <<conn, page, seq>>

Next ==
  \/ Connect \/ Disconnect
  \/ SocketOpens \/ SocketCloses \/ SocketClosing \/ TimerFires \/ BufferDrains
  \/ Ping \/ PointerMoves \/ Scrolls
  \/ \E type \in Lossy : Captured(type)
  \/ Hide \/ Show \/ HideOrShowUnnoticed
  \/ \E m \in persisting : Persisted(m)

Spec == Init /\ [][Next]_vars

\* A timer that is set fires.
FairSpec == Spec /\ WF_vars(TimerFires)

---------------------------------------------------------------------------
(* Properties.                                                             *)

\* Every variable has the shape the code gives it.
TransportTypeOK ==
  /\ status \in Statuses /\ sock \in ReadyStates
  /\ timer \in BOOLEAN /\ intentional \in BOOLEAN /\ full \in BOOLEAN
  /\ queue \in Seq(Frame) /\ slots \in [Lossy -> Nat]
  /\ active \in BOOLEAN /\ visible \in BOOLEAN /\ sessionOpen \in BOOLEAN
  /\ capturing \in BOOLEAN /\ pinging \in BOOLEAN /\ frames \subseteq Lossy
  /\ seq \in Nat /\ persisting \subseteq [t : {"audit"}, seq : 1 .. seq]
  /\ sent \in Seq(Frame) /\ handed \in Seq(Frame)

\* FAILURE-MODES, slow consumer, and outboundQueue.ts, "never replaced or
\* dropped": through disconnects, full buffers and coalescing, lossless, control
\* and audit frames reach the socket in the order of their send(), each once.
QueueIsUnsent == handed \o Unsent(queue) = sent

\* connection.ts: a connection that is to be up has either one socket or one
\* timer that will open it, and one that was told to close has no timer.
ReconnectArmed ==
  /\ status \in {"connecting", "reconnecting"} => (timer = (sock = "none"))
  /\ status = "open" => ~timer /\ sock \in {"open", "closing"}
  /\ status \in {"idle", "closed"} => ~timer /\ sock = "none"
  /\ intentional => ~timer /\ sock \in {"none", "closing"}

\* index.ts: a page that has disconnected builds no frame but the bye of a further
\* disconnect(), neither from a frame or timer that was scheduled before nor from
\* a socket that is still there.
QuietAfterDisconnect == [][~active /\ ~active' => seq' = seq \/ Disconnect]_vars

\* ADR 0011 and FAILURE-MODES, reconnection: without a socket the client tries
\* again, unless the host disconnects.
KeepsTrying ==
  (status = "reconnecting" /\ sock = "none") ~> (sock = "connecting" \/ status = "closed")
============================
