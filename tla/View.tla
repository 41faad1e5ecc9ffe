---- MODULE View ----
(***************************************************************************)
(* What a page shows of the others and how it follows one of them:         *)
(* packages/client/src/index.ts with render/ and capture/scrollCapture.ts. *)
(* Messages arrive, frames are drawn, timers fire, the user scrolls and    *)
(* the host connects, disconnects and follows, in any order.               *)
(*                                                                         *)
(* What the messages say is Room's business: any may come, patches being   *)
(* those that pass the seq guard, of one participant each.  Where a cursor *)
(* is drawn and where the page is scrolled to are left out; time is the    *)
(* age of what was last heard of a participant.                            *)
(***************************************************************************)
EXTENDS Integers

CONSTANTS
  Self,                \* the page's own participant,
  Peers,               \* the others,
  NoPeer,              \* and nobody
  CURSOR_STALE_MS, CURSOR_REMOVE_MS

ASSUME ViewAssumption ==
  /\ Self \notin Peers /\ NoPeer \notin Peers
  /\ CURSOR_STALE_MS \in Nat /\ CURSOR_REMOVE_MS \in Nat
  /\ 0 < CURSOR_STALE_MS /\ CURSOR_STALE_MS <= CURSOR_REMOVE_MS

VARIABLES
  status, socket, intentional,   \* of connection.ts
  hidden,                        \* the page gets no frames
  remotes,                       \* [age, cursor: its position is known]
  cursors,                       \* the elements drawn: whether they are faded
  rendering, sweeping,           \* renderHandle and staleSweepTimer are set
  following, programmatic,       \* of scrollFollow.ts
  capturing,                     \* scrollCapture listens
  moved, captured,               \* scrolls with no event yet, and with no frame yet
  insisted                       \* history: the user scrolled since following began

connection == <<status, socket, intentional>>
drawn == <<remotes, cursors>>
follow == <<following, programmatic, insisted>>
scrolls == <<capturing, moved, captured>>
timers == <<rendering, sweeping>>
vars == <<connection, hidden, drawn, follow, scrolls, timers>>

Statuses == {"idle", "connecting", "open", "reconnecting", "closed"}
Causes == {"user", "follow"}
Remote == [age : 0 .. CURSOR_REMOVE_MS, cursor : BOOLEAN]

Init ==
  /\ status = "idle" /\ socket = FALSE /\ intentional = FALSE
  /\ hidden \in BOOLEAN
  /\ remotes = << >> /\ cursors = << >>
  /\ rendering = FALSE /\ sweeping = FALSE
  /\ following = NoPeer /\ programmatic = FALSE
  /\ capturing = FALSE /\ moved = {} /\ captured = {}
  /\ insisted = FALSE

---------------------------------------------------------------------------
(* The host, the connection and the timers they start and stop.            *)

\* connect(): a connection that is not closed for good stays as it is.
Connect ==
  /\ IF status \in {"idle", "closed"}
     THEN /\ status' = IF status = "idle" THEN "connecting" ELSE "reconnecting"
          /\ socket' = TRUE /\ intentional' = FALSE
     ELSE UNCHANGED connection
  /\ capturing' = TRUE /\ rendering' = TRUE
  /\ UNCHANGED <<hidden, drawn, follow, moved, captured, sweeping>>

\* disconnect(): a socket there is closes later.
Disconnect ==
  /\ IF status \in {"idle", "closed"} THEN UNCHANGED connection
     ELSE /\ intentional' = TRUE
          /\ status' = IF socket THEN status ELSE "closed"
          /\ UNCHANGED socket
  /\ capturing' = FALSE /\ captured' = {}
  /\ rendering' = FALSE /\ sweeping' = FALSE
  /\ insisted' = FALSE
  /\ UNCHANGED <<hidden, drawn, following, programmatic, moved>>

\* Slip: the sweep is left to the frames.
NoSweep == sweeping

\* startStaleSweep()
StartStaleSweep == TRUE

SocketOpens ==
  /\ socket /\ status \in {"connecting", "reconnecting"} /\ ~intentional
  /\ status' = "open"
  /\ sweeping' = StartStaleSweep
  /\ UNCHANGED <<socket, intentional, hidden, drawn, follow, scrolls, rendering>>

\* handleClose: the sweep goes on while the connection is to come back.
SocketCloses ==
  /\ socket
  /\ socket' = FALSE
  /\ IF intentional THEN status' = "closed" /\ sweeping' = FALSE
     ELSE status' = "reconnecting" /\ UNCHANGED sweeping
  /\ UNCHANGED <<intentional, hidden, drawn, follow, scrolls, rendering>>

Reconnect ==
  /\ status = "reconnecting" /\ ~socket
  /\ socket' = TRUE
  /\ UNCHANGED <<status, intentional, hidden, drawn, follow, scrolls, timers>>

HideOrShow ==
  /\ hidden' = ~hidden
  /\ UNCHANGED <<connection, drawn, follow, scrolls, timers>>

---------------------------------------------------------------------------
(* What is known of the others and what is drawn of them.                  *)

Without(f, ps) == [p \in DOMAIN f \ ps |-> f[p]]

\* remotes.delete with cursorLayer.remove
Forget(gone) ==
  /\ remotes' = Without(remotes, gone)
  /\ cursors' = Without(cursors, gone)

\* Slip: the page takes itself for one of the others.
AndSelf(entries) == entries

Others(entries) == Without(entries, {Self})

\* upsertRemote and applyPatch, of the participants that entries names; it says
\* which of them come with a position.
Heard(known, entries) ==
  [p \in DOMAIN known \cup DOMAIN Others(entries) |->
     IF p \in DOMAIN entries
     THEN [age |-> 0, cursor |-> entries[p] \/ (p \in DOMAIN known /\ known[p].cursor)]
     ELSE known[p]]

\* Slip: those missing from a welcome leave the roster, not the screen.
DroppedFromRoster(gone) == {}

\* seedRoster: the elements of those who are gone.
Dropped(gone) == gone

\* A socket that is closing still delivers.
Receives == socket /\ status = "open"

Welcome(entries) ==
  LET gone == DOMAIN remotes \ DOMAIN entries IN
  /\ Receives
  /\ remotes' = Heard(Without(remotes, gone), entries)
  /\ cursors' = Without(cursors, Dropped(gone))
  /\ UNCHANGED <<connection, hidden, follow, scrolls, timers>>

Join(p, cursor) ==
  /\ Receives
  /\ remotes' = Heard(remotes, [q \in {p} |-> cursor])
  /\ UNCHANGED <<connection, hidden, cursors, follow, scrolls, timers>>

Leave(p) ==
  /\ Receives
  /\ Forget({p})
  /\ UNCHANGED <<connection, hidden, follow, scrolls, timers>>

\* Slip: the flag of a followed scroll is left set.
StillProgrammatic == TRUE

\* endProgrammaticScroll(), in the same turn as the scrollTo.
EndProgrammatic == FALSE

\* applyPatch; followScrollTo moves the page unless it is there already.
Patch(p, cursor, scrolled) ==
  /\ Receives
  /\ remotes' = Heard(remotes, [q \in {p} |-> cursor])
  /\ IF scrolled /\ following = p
     THEN programmatic' = EndProgrammatic /\ moved' \in {moved, moved \cup {"follow"}}
     ELSE UNCHANGED <<programmatic, moved>>
  /\ UNCHANGED <<connection, hidden, cursors, following, insisted, capturing, captured, timers>>

Expired(p) == p \in DOMAIN remotes /\ remotes[p].age >= CURSOR_REMOVE_MS
Stale(p) == remotes[p].age >= CURSOR_STALE_MS

TimePasses ==
  /\ remotes' = [p \in DOMAIN remotes |->
       [remotes[p] EXCEPT !.age = IF @ < CURSOR_REMOVE_MS THEN @ + 1 ELSE @]]
  /\ UNCHANGED <<connection, hidden, cursors, follow, scrolls, timers>>

\* cursorLayer's upsert for those with a position, setOpacity for all with an
\* element: stale ones fade.
Drawn(left, gone) ==
  [p \in (DOMAIN cursors \ gone) \cup {q \in left : remotes[q].cursor} |->
     IF p \in left THEN Stale(p) ELSE cursors[p]]

\* renderFrame()
RenderFrame ==
  LET left == {p \in DOMAIN remotes : ~Expired(p)}
      gone == DOMAIN remotes \ left
  IN  /\ rendering /\ ~hidden
      /\ remotes' = Without(remotes, gone)
      /\ cursors' = Drawn(left, gone)
      /\ UNCHANGED <<connection, hidden, follow, scrolls, timers>>

\* The interval of startStaleSweep().
StaleSweep ==
  /\ sweeping
  /\ Forget({p \in DOMAIN remotes : Expired(p)})
  /\ UNCHANGED <<connection, hidden, follow, scrolls, timers>>

---------------------------------------------------------------------------
(* Following, and scrolls of the user and of the page itself.              *)

FollowParticipant(p) ==
  /\ following' = p
  /\ insisted' = FALSE
  /\ UNCHANGED <<connection, hidden, drawn, programmatic, scrolls, timers>>

StopFollowing ==
  /\ following' = NoPeer
  /\ UNCHANGED <<connection, hidden, drawn, programmatic, insisted, scrolls, timers>>

UserScrolls ==
  /\ ~hidden
  /\ moved' = moved \cup {"user"}
  /\ insisted' = (insisted \/ (capturing /\ following # NoPeer))
  /\ UNCHANGED <<connection, hidden, drawn, following, programmatic, capturing, captured, timers>>

\* The browser's scroll event, for all that moved since the last one; if there
\* is a listener, it schedules a frame.
ScrollEvent ==
  /\ moved # {} /\ ~hidden
  /\ moved' = {}
  /\ captured' = IF capturing THEN captured \cup moved ELSE captured
  /\ UNCHANGED <<connection, hidden, drawn, follow, capturing, timers>>

\* onCapture with notifyScrollEvent()
CaptureFrame ==
  /\ captured # {} /\ ~hidden
  /\ captured' = {}
  /\ following' = IF programmatic THEN following ELSE NoPeer
  /\ UNCHANGED <<connection, hidden, drawn, programmatic, insisted, capturing, moved, timers>>

---------------------------------------------------------------------------
\* The recipient is in the rosters and patches that reach it.
Everyone == Peers \cup {Self}
Rosters == UNION {[ps \cup {Self} -> BOOLEAN] : ps \in SUBSET Peers}

Message ==
  \/ \E entries \in Rosters : Welcome(entries)
  \/ \E p \in Peers : Leave(p)
  \/ \E p \in Peers, cursor \in BOOLEAN : Join(p, cursor)
  \/ \E p \in Everyone, cursor, scrolled \in BOOLEAN : Patch(p, cursor, scrolled)

Next ==
  \/ Connect \/ Disconnect \/ SocketOpens \/ SocketCloses \/ Reconnect \/ HideOrShow
  \/ Message
  \/ TimePasses \/ RenderFrame \/ StaleSweep
  \/ \E p \in Peers : FollowParticipant(p)
  \/ StopFollowing \/ UserScrolls \/ ScrollEvent \/ CaptureFrame

Spec == Init /\ [][Next]_vars

\* The interval fires.  Nothing is assumed of frames: a hidden page has none.
FairSpec == Spec /\ WF_vars(StaleSweep)

---------------------------------------------------------------------------
(* Properties.                                                             *)

\* Every variable has the shape the code gives it.
ViewTypeOK ==
  /\ status \in Statuses /\ socket \in BOOLEAN /\ intentional \in BOOLEAN
  /\ hidden \in BOOLEAN /\ rendering \in BOOLEAN /\ sweeping \in BOOLEAN
  /\ DOMAIN remotes \subseteq Peers /\ DOMAIN cursors \subseteq Peers
  /\ \A p \in DOMAIN remotes : remotes[p] \in Remote
  /\ \A p \in DOMAIN cursors : cursors[p] \in BOOLEAN
  /\ following \in Peers \cup {NoPeer} /\ programmatic \in BOOLEAN
  /\ capturing \in BOOLEAN /\ moved \subseteq Causes /\ captured \subseteq Causes
  /\ insisted \in BOOLEAN

\* index.ts, remotes and cursorLayer: no cursor stays on the screen of someone
\* the page no longer knows, whom neither frame nor sweep would ever remove.
NoGhostCursor == \A p \in DOMAIN cursors : p \in DOMAIN remotes /\ remotes[p].cursor

\* README, "breaks on local scroll intent within one frame": once the user has
\* scrolled, the page follows nobody beyond the frame that sees that scroll,
\* whatever patches, followed scrolls and frames come in between.
FollowYieldsToUser ==
  following # NoPeer /\ insisted => "user" \in moved \cup captured

\* index.ts, "a safety net that does not depend on rAF": once connected, the
\* cursor of someone silent for too long goes even from a page that gets no
\* frames and loses its socket, unless there is word of its owner or the host
\* disconnects.
SilentVanish ==
  \A p \in Peers :
    (p \in DOMAIN cursors /\ Expired(p) /\ status = "open" /\ ~intentional)
    ~> (p \notin DOMAIN cursors \/ ~Expired(p) \/ intentional)

\* scrollFollow.ts, "so the scroll event that call itself provokes is not
\* mistaken for the user's own input": following ends when the host ends it or
\* the frame is due to a scroll of the user's.
OnlyUserReleases ==
  [][following # NoPeer /\ following' = NoPeer => "user" \in captured \/ StopFollowing]_vars
============================
