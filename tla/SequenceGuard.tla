---- MODULE SequenceGuard ----
(***************************************************************************)
(* models/SequenceGuard.ts: the guard each connection keeps over the seq   *)
(* numbers of its inbound frames.  Server.tla uses one as the single       *)
(* number lastSeen, because no handler reads the gaps; here the gaps are   *)
(* the subject.                                                            *)
(***************************************************************************)
EXTENDS Integers

CONSTANTS
  Inputs,               \* the numbers offered to accept()
  NonFinite,            \* NaN or an infinity, offered as well
  Undefined,            \* #lastSeen before the first accepted number
  MAX_TRACKED_GAP_SPAN

ASSUME GuardAssumption ==
  /\ Inputs \subseteq Int
  /\ {NonFinite, Undefined} \cap Int = {}
  /\ NonFinite # Undefined
  /\ MAX_TRACKED_GAP_SPAN \in Nat

VARIABLES
  lastSeen,  \* #lastSeen
  gaps,      \* #gaps
  result,    \* what the last call of accept() returned
  first,     \* history: the first number accepted
  arrived,   \* history: every finite number offered so far
  untracked  \* history: numbers jumped over by a span too large to enumerate

guardVars == <<lastSeen, gaps, result, first, arrived, untracked>>

GuardInit ==
  /\ lastSeen = Undefined
  /\ gaps = {}
  /\ result = FALSE
  /\ first = Undefined
  /\ arrived = {}
  /\ untracked = {}

---------------------------------------------------------------------------
(* accept(seq), by its early returns.                                      *)

\* Slip: the isFinite check forgotten.
AnyIsFinite(seq) == TRUE

IsFinite(seq) == seq # NonFinite

\* Slip: an exact duplicate taken for news.
IsOlder(seq) == seq < lastSeen

\* Slip: no regression check at all.
NothingIsLate(seq) == FALSE

IsLate(seq) == seq <= lastSeen

Ignore(seq) ==
  /\ ~IsFinite(seq)
  /\ result' = FALSE
  /\ UNCHANGED <<lastSeen, gaps, first, arrived, untracked>>

First(seq) ==
  /\ IsFinite(seq)
  /\ lastSeen = Undefined
  /\ lastSeen' = seq
  /\ result' = TRUE
  /\ first' = seq
  /\ arrived' = arrived \cup {seq}
  /\ UNCHANGED <<gaps, untracked>>

\* A duplicate or a late arrival is refused, but fills the gap it left.
Late(seq) ==
  /\ IsFinite(seq)
  /\ lastSeen # Undefined
  /\ IsLate(seq)
  /\ gaps' = gaps \ {seq}
  /\ result' = FALSE
  /\ arrived' = arrived \cup {seq}
  /\ UNCHANGED <<lastSeen, first, untracked>>

\* Slip: the number that just arrived is listed as missing.
MissedThrough(seq) == lastSeen + 1 .. seq

Missed(seq) == lastSeen + 1 .. seq - 1
Tracked(seq) == seq - lastSeen <= MAX_TRACKED_GAP_SPAN

Newer(seq) ==
  /\ IsFinite(seq)
  /\ lastSeen # Undefined
  /\ ~IsLate(seq)
  /\ gaps' = IF Tracked(seq) THEN gaps \cup Missed(seq) ELSE gaps
  /\ lastSeen' = seq
  /\ result' = TRUE
  /\ arrived' = arrived \cup {seq}
  /\ untracked' = IF Tracked(seq) THEN untracked ELSE untracked \cup Missed(seq)
  /\ UNCHANGED first

Accept(seq) == Ignore(seq) \/ First(seq) \/ Late(seq) \/ Newer(seq)

GuardNext == \E seq \in Inputs \cup {NonFinite} : Accept(seq)

GuardSpec == GuardInit /\ [][GuardNext]_guardVars

---------------------------------------------------------------------------
(* Properties.                                                             *)

\* Every variable holds numbers: nothing non-finite is ever recorded.
GuardTypeOK ==
  /\ lastSeen \in Int \cup {Undefined}
  /\ first \in Int \cup {Undefined}
  /\ gaps \subseteq Int
  /\ arrived \subseteq Int
  /\ untracked \subseteq Int
  /\ result \in BOOLEAN

\* SequenceGuard.test.ts, "gap exactness", for every call order: the gaps are
\* the numbers between the first and the last accepted one that never arrived,
\* late arrivals included, minus what a jump beyond the span left untracked.
GapsExact ==
  lastSeen # Undefined => gaps = (first .. lastSeen) \ (arrived \cup untracked)

\* lastSeen() is the greatest of everything offered since the first accepted
\* number, whatever the order of arrival.
LastSeenIsGreatest ==
  lastSeen # Undefined =>
    /\ lastSeen \in arrived
    /\ \A n \in arrived : n <= lastSeen

\* accept() returns true exactly for what is newer than all that came before:
\* a duplicate is refused however late it comes, and nothing newer ever is.
AcceptsOnlyNews ==
  [][IF result'
     THEN lastSeen' \in arrived' /\ \A n \in arrived : n < lastSeen'
     ELSE lastSeen' = lastSeen /\ \A n \in arrived' : n <= lastSeen]_guardVars
============================
