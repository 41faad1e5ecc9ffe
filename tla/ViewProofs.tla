---- MODULE ViewProofs ----
(***************************************************************************)
(* What holds of a page's view of the others, for every set of them.       *)
(***************************************************************************)
EXTENDS View, TLAPS

\* scrollFollow.ts: the flag is cleared in the turn that sets it, and only a
\* listener can see the user insist.
FollowHelper == programmatic = FALSE /\ (insisted => capturing)

ViewInv == ViewTypeOK /\ NoGhostCursor /\ FollowYieldsToUser /\ FollowHelper

\* A page without participants, cursors or timers to begin with.
LEMMA ViewInit == ASSUME Init PROVE ViewInv
<1>1. DOMAIN remotes = {} /\ DOMAIN cursors = {}
  BY DEF Init
<1>2. ViewTypeOK
  BY <1>1 DEF Init, ViewTypeOK, Statuses
<1>3. NoGhostCursor /\ FollowYieldsToUser /\ FollowHelper
  BY <1>1 DEF Init, NoGhostCursor, FollowYieldsToUser, FollowHelper
<1> QED BY <1>2, <1>3 DEF ViewInv

\* Word of some of the others: it ages from zero, and a known position stays.
LEMMA HeardShape ==
  ASSUME ViewTypeOK, NoGhostCursor,
         NEW known, DOMAIN known \subseteq DOMAIN remotes,
         \A p \in DOMAIN known : known[p] = remotes[p],
         NEW entries, DOMAIN entries \subseteq Peers \cup {Self},
         \A p \in DOMAIN entries : entries[p] \in BOOLEAN,
         remotes' = Heard(known, entries)
  PROVE  /\ DOMAIN known \subseteq DOMAIN remotes'
         /\ DOMAIN remotes' \subseteq Peers
         /\ \A p \in DOMAIN remotes' : remotes'[p] \in Remote
         /\ \A p \in DOMAIN known : remotes[p].cursor => remotes'[p].cursor
<1>1. DOMAIN Others(entries) = DOMAIN entries \ {Self}
  BY DEF Others, Without
<1>2. DOMAIN remotes' = DOMAIN known \cup (DOMAIN entries \ {Self})
  BY <1>1 DEF Heard
<1>3. \A p \in DOMAIN remotes' : remotes'[p] =
        IF p \in DOMAIN entries
        THEN [age |-> 0, cursor |-> entries[p] \/ (p \in DOMAIN known /\ known[p].cursor)]
        ELSE known[p]
  BY <1>1 DEF Heard
<1>4. DOMAIN remotes \subseteq Peers /\ DOMAIN remotes' \subseteq Peers
  BY <1>2 DEF ViewTypeOK
<1>5. ASSUME NEW p \in DOMAIN remotes', p \in DOMAIN entries
      PROVE  /\ remotes'[p] \in Remote
             /\ p \in DOMAIN known /\ known[p].cursor => remotes'[p].cursor
  <2>1. remotes'[p] = [age |-> 0, cursor |-> entries[p] \/ (p \in DOMAIN known /\ known[p].cursor)]
    BY <1>3, <1>5
  <2>2. 0 \in 0 .. CURSOR_REMOVE_MS
    BY ViewAssumption
  <2>3. remotes'[p].cursor = (entries[p] \/ (p \in DOMAIN known /\ known[p].cursor))
    BY <2>1
  <2>4. (entries[p] \/ (p \in DOMAIN known /\ known[p].cursor)) \in BOOLEAN
    OBVIOUS
  <2>5. ASSUME p \in DOMAIN known, known[p].cursor PROVE remotes'[p].cursor
    BY <2>3, <2>5
  <2>6. remotes'[p] \in Remote
    BY <2>1, <2>2, <2>4 DEF Remote
  <2> QED BY <2>5, <2>6
<1>6. ASSUME NEW p \in DOMAIN remotes', p \notin DOMAIN entries
      PROVE  p \in DOMAIN known /\ remotes'[p] = remotes[p]
  BY <1>2, <1>3, <1>6
<1> QED BY <1>2, <1>4, <1>5, <1>6 DEF ViewTypeOK

\* The part of the invariant that is about the others: what the lemmas above keep.
OthersShape ==
  /\ DOMAIN remotes \subseteq Peers /\ DOMAIN cursors \subseteq Peers
  /\ \A p \in DOMAIN remotes : remotes[p] \in Remote
  /\ \A p \in DOMAIN cursors : cursors[p] \in BOOLEAN
  /\ NoGhostCursor

\* Welcomes, joins and patches, whomever they name.
LEMMA HeardKeeps ==
  ASSUME ViewTypeOK, NoGhostCursor,
         NEW entries, DOMAIN entries \subseteq Peers \cup {Self},
         \A p \in DOMAIN entries : entries[p] \in BOOLEAN,
         remotes' = Heard(remotes, entries), cursors' = cursors
  PROVE  OthersShape'
<1>1. /\ DOMAIN remotes \subseteq DOMAIN remotes'
      /\ DOMAIN remotes' \subseteq Peers
      /\ \A p \in DOMAIN remotes' : remotes'[p] \in Remote
      /\ \A p \in DOMAIN remotes : remotes[p].cursor => remotes'[p].cursor
  BY HeardShape
<1> QED BY <1>1 DEF OthersShape, ViewTypeOK, NoGhostCursor

LEMMA WelcomeKeeps ==
  ASSUME ViewTypeOK, NoGhostCursor,
         NEW entries, DOMAIN entries \subseteq Peers \cup {Self},
         \A p \in DOMAIN entries : entries[p] \in BOOLEAN,
         Welcome(entries)
  PROVE  OthersShape'
<1> DEFINE gone == DOMAIN remotes \ DOMAIN entries
           known == Without(remotes, gone)
<1>1. /\ DOMAIN known = DOMAIN remotes \ gone
      /\ \A p \in DOMAIN known : known[p] = remotes[p]
  BY DEF Without
<1>2. remotes' = Heard(known, entries) /\ cursors' = Without(cursors, gone)
  BY DEF Welcome, Dropped
<1>3. /\ DOMAIN cursors' = DOMAIN cursors \ gone
      /\ \A p \in DOMAIN cursors' : cursors'[p] = cursors[p]
  BY <1>2 DEF Without
<1> HIDE DEF known
<1>4. /\ DOMAIN known \subseteq DOMAIN remotes'
      /\ DOMAIN remotes' \subseteq Peers
      /\ \A p \in DOMAIN remotes' : remotes'[p] \in Remote
      /\ \A p \in DOMAIN known : remotes[p].cursor => remotes'[p].cursor
  BY <1>1, <1>2, HeardShape
<1> HIDE DEF gone
<1> QED BY <1>1, <1>3, <1>4 DEF OthersShape, ViewTypeOK, NoGhostCursor

\* renderFrame draws those it knows the position of, and none that it drops.
LEMMA FrameKeeps ==
  ASSUME ViewTypeOK, NoGhostCursor, RenderFrame
  PROVE  OthersShape'
<1> DEFINE left == {p \in DOMAIN remotes : ~Expired(p)}
           gone == DOMAIN remotes \ left
<1>1. /\ DOMAIN remotes' = left
      /\ \A p \in DOMAIN remotes' : remotes'[p] = remotes[p]
  BY DEF RenderFrame, Without
<1>2. cursors' = Drawn(left, gone)
  BY DEF RenderFrame
<1>3. DOMAIN cursors' = (DOMAIN cursors \ gone) \cup {q \in left : remotes[q].cursor}
  BY <1>2 DEF Drawn
<1>4. \A p \in DOMAIN cursors' : p \in left /\ remotes[p].cursor
  BY <1>3 DEF NoGhostCursor
<1>5. \A p \in DOMAIN cursors' : cursors'[p] = Stale(p)
  BY <1>2, <1>4 DEF Drawn
<1>6. \A p : Stale(p) \in BOOLEAN
  BY DEF Stale
<1>7. left \subseteq DOMAIN remotes
  OBVIOUS
<1> HIDE DEF left, gone
<1> QED BY <1>1, <1>4, <1>5, <1>6, <1>7 DEF OthersShape, ViewTypeOK, NoGhostCursor

LEMMA AgeingKeeps ==
  ASSUME ViewTypeOK, NoGhostCursor, TimePasses
  PROVE  OthersShape'
<1>1. /\ DOMAIN remotes' = DOMAIN remotes /\ cursors' = cursors
      /\ \A p \in DOMAIN remotes : remotes'[p] =
           [remotes[p] EXCEPT !.age = IF @ < CURSOR_REMOVE_MS THEN @ + 1 ELSE @]
  BY DEF TimePasses
<1>2. ASSUME NEW p \in DOMAIN remotes
      PROVE  remotes'[p] \in Remote
  BY <1>1, ViewAssumption DEF ViewTypeOK, Remote
<1>3. \A p \in DOMAIN remotes : remotes'[p].cursor = remotes[p].cursor
  BY <1>1 DEF ViewTypeOK, Remote
<1> QED BY <1>1, <1>2, <1>3 DEF OthersShape, ViewTypeOK, NoGhostCursor

\* What is forgotten leaves the screen with the roster.
LEMMA ForgetKeeps ==
  ASSUME ViewTypeOK, NoGhostCursor, NEW gone, Forget(gone)
  PROVE  OthersShape'
BY DEF ViewTypeOK, NoGhostCursor, OthersShape, Forget, Without

LEMMA DrawnUnchanged ==
  ASSUME ViewTypeOK, NoGhostCursor, UNCHANGED drawn
  PROVE  OthersShape'
BY DEF ViewTypeOK, NoGhostCursor, OthersShape, drawn

\* Every step keeps who is known, who is drawn and how they relate.
LEMMA OthersKept ==
  ASSUME ViewTypeOK, NoGhostCursor, [Next]_vars
  PROVE  OthersShape'
<1>1. CASE Message
  <2>1. ASSUME NEW entries \in Rosters, Welcome(entries) PROVE OthersShape'
    <3>1. DOMAIN entries \subseteq Peers \cup {Self} /\ \A p \in DOMAIN entries : entries[p] \in BOOLEAN
      BY DEF Rosters
    <3> QED BY <2>1, <3>1, WelcomeKeeps
  <2>2. ASSUME NEW p \in Peers, Leave(p) PROVE OthersShape'
    BY <2>2, ForgetKeeps DEF Leave
  <2>3. ASSUME NEW p \in Peers, NEW cursor \in BOOLEAN, Join(p, cursor) PROVE OthersShape'
    <3> DEFINE entries == [q \in {p} |-> cursor]
    <3>1. DOMAIN entries \subseteq Peers \cup {Self} /\ \A q \in DOMAIN entries : entries[q] \in BOOLEAN
      OBVIOUS
    <3>2. remotes' = Heard(remotes, entries) /\ cursors' = cursors
      BY <2>3 DEF Join
    <3> HIDE DEF entries
    <3> QED BY <3>1, <3>2, HeardKeeps
  <2>4. ASSUME NEW p \in Everyone, NEW cursor \in BOOLEAN, NEW scrolled \in BOOLEAN,
               Patch(p, cursor, scrolled)
        PROVE  OthersShape'
    <3> DEFINE entries == [q \in {p} |-> cursor]
    <3>1. DOMAIN entries \subseteq Peers \cup {Self} /\ \A q \in DOMAIN entries : entries[q] \in BOOLEAN
      BY DEF Everyone
    <3>2. remotes' = Heard(remotes, entries) /\ cursors' = cursors
      BY <2>4 DEF Patch
    <3> HIDE DEF entries
    <3> QED BY <3>1, <3>2, HeardKeeps
  <2> QED BY <1>1, <2>1, <2>2, <2>3, <2>4 DEF Message
<1>2. CASE TimePasses
  BY <1>2, AgeingKeeps
<1>3. CASE RenderFrame
  BY <1>3, FrameKeeps
<1>4. CASE StaleSweep
  BY <1>4, ForgetKeeps DEF StaleSweep
<1>5. CASE UNCHANGED drawn
  BY <1>5, DrawnUnchanged
<1>6. CASE Connect \/ Disconnect \/ SocketOpens \/ SocketCloses \/ Reconnect \/ HideOrShow
  BY <1>5, <1>6 DEF Connect, Disconnect, SocketOpens, SocketCloses, Reconnect, HideOrShow
<1>7. CASE \/ \E p \in Peers : FollowParticipant(p)
           \/ StopFollowing \/ UserScrolls \/ ScrollEvent \/ CaptureFrame
  BY <1>5, <1>7 DEF FollowParticipant, StopFollowing, UserScrolls, ScrollEvent, CaptureFrame
<1>8. CASE UNCHANGED vars
  BY <1>5, <1>8 DEF vars
<1> QED BY <1>1, <1>2, <1>3, <1>4, <1>6, <1>7, <1>8 DEF Next

\* The rest of the type invariant, with what is said of following.
PageShape ==
  /\ status \in Statuses /\ socket \in BOOLEAN /\ intentional \in BOOLEAN
  /\ hidden \in BOOLEAN /\ rendering \in BOOLEAN /\ sweeping \in BOOLEAN
  /\ following \in Peers \cup {NoPeer} /\ programmatic \in BOOLEAN
  /\ capturing \in BOOLEAN /\ moved \subseteq Causes /\ captured \subseteq Causes
  /\ insisted \in BOOLEAN
  /\ FollowYieldsToUser /\ FollowHelper

\* Every step keeps it: a patch scrolls with the flag cleared again, the user's
\* scroll stays in sight until a frame releases.
LEMMA PageKept ==
  ASSUME PageShape, [Next]_vars
  PROVE  PageShape'
<1> USE DEF PageShape, FollowYieldsToUser, FollowHelper
<1>1. CASE Connect
  BY <1>1 DEF Connect, connection, drawn, follow, Statuses
<1>2. CASE Disconnect
  BY <1>2 DEF Disconnect, connection, drawn, Statuses
<1>3. CASE SocketOpens
  BY <1>3 DEF SocketOpens, StartStaleSweep, drawn, follow, scrolls, Statuses
<1>4. CASE SocketCloses
  BY <1>4 DEF SocketCloses, drawn, follow, scrolls, Statuses
<1>5. CASE Reconnect
  BY <1>5 DEF Reconnect, drawn, follow, scrolls, timers
<1>6. CASE HideOrShow
  BY <1>6 DEF HideOrShow, connection, drawn, follow, scrolls, timers
<1>7. CASE Message
  <2>1. ASSUME NEW entries \in Rosters, Welcome(entries) PROVE PageShape'
    BY <2>1 DEF Welcome, connection, follow, scrolls, timers
  <2>2. ASSUME NEW p \in Peers, Leave(p) PROVE PageShape'
    BY <2>2 DEF Leave, connection, follow, scrolls, timers
  <2>3. ASSUME NEW p \in Peers, NEW cursor \in BOOLEAN, Join(p, cursor) PROVE PageShape'
    BY <2>3 DEF Join, connection, follow, scrolls, timers
  <2>4. ASSUME NEW p \in Everyone, NEW cursor \in BOOLEAN, NEW scrolled \in BOOLEAN,
               Patch(p, cursor, scrolled)
        PROVE  PageShape'
    BY <2>4 DEF Patch, EndProgrammatic, connection, timers, Causes
  <2> QED BY <1>7, <2>1, <2>2, <2>3, <2>4 DEF Message
<1>8. CASE TimePasses
  BY <1>8 DEF TimePasses, connection, follow, scrolls, timers
<1>9. CASE RenderFrame
  BY <1>9 DEF RenderFrame, connection, follow, scrolls, timers
<1>10. CASE StaleSweep
  BY <1>10 DEF StaleSweep, connection, follow, scrolls, timers
<1>11. ASSUME NEW p \in Peers, FollowParticipant(p) PROVE PageShape'
  BY <1>11 DEF FollowParticipant, connection, scrolls, timers
<1>12. CASE StopFollowing
  BY <1>12 DEF StopFollowing, connection, scrolls, timers
<1>13. CASE UserScrolls
  BY <1>13 DEF UserScrolls, connection, timers, Causes
<1>14. CASE ScrollEvent
  BY <1>14 DEF ScrollEvent, connection, follow, timers
<1>15. CASE CaptureFrame
  BY <1>15 DEF CaptureFrame, connection, timers
<1>16. CASE UNCHANGED vars
  BY <1>16 DEF vars, connection, follow, scrolls, timers
<1> QED BY <1>1, <1>2, <1>3, <1>4, <1>5, <1>6, <1>7, <1>8, <1>9, <1>10, <1>11, <1>12,
           <1>13, <1>14, <1>15, <1>16 DEF Next

\* The invariant is the two together.
LEMMA Parts == ViewInv <=> ViewTypeOK /\ OthersShape /\ PageShape
BY DEF ViewInv, ViewTypeOK, OthersShape, PageShape

\* index.ts and scrollFollow.ts: types, no cursor that outlives its participant,
\* and following that yields to the user, after any history of messages, frames,
\* timers and scrolls, for any number of participants and any two ages.
THEOREM ViewInvariant == Spec => [](ViewTypeOK /\ NoGhostCursor /\ FollowYieldsToUser)
<1>1. Init => ViewInv
  BY ViewInit
<1>2. ViewInv /\ [Next]_vars => ViewInv'
  <2> SUFFICES ASSUME ViewInv, [Next]_vars PROVE ViewInv'
    OBVIOUS
  <2>1. ViewTypeOK /\ NoGhostCursor /\ PageShape
    BY Parts DEF OthersShape
  <2>2. OthersShape' /\ PageShape'
    BY <2>1, OthersKept, PageKept
  <2>3. ViewTypeOK'
    BY <2>2 DEF ViewTypeOK, OthersShape, PageShape
  <2> QED BY <2>2, <2>3 DEF ViewInv, OthersShape, PageShape
<1>3. ViewInv => ViewTypeOK /\ NoGhostCursor /\ FollowYieldsToUser
  BY DEF ViewInv
<1> QED BY <1>1, <1>2, <1>3, PTL DEF Spec

\* index.ts, seedRoster, routeMessage and the two sweeps.
THEOREM NoGhosts == Spec => []NoGhostCursor
BY ViewInvariant, PTL

\* scrollFollow.ts, notifyScrollEvent.
THEOREM UserWins == Spec => []FollowYieldsToUser
BY ViewInvariant, PTL
====
