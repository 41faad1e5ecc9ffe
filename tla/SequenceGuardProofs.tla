---- MODULE SequenceGuardProofs ----
(***************************************************************************)
(* What SequenceGuard promises, for every set of inputs and every span.    *)
(***************************************************************************)
EXTENDS SequenceGuard, TLAPS

\* The strengthening: the history variables agree with lastSeen, so that a jump
\* can only add numbers that have not arrived.
GuardInv ==
  /\ GuardTypeOK
  /\ lastSeen = Undefined <=> first = Undefined
  /\ lastSeen = Undefined => gaps = {} /\ arrived = {}
  /\ lastSeen # Undefined => first <= lastSeen
  /\ \A n \in untracked : lastSeen # Undefined /\ n < lastSeen
  /\ GapsExact
  /\ LastSeenIsGreatest

\* A number offered is an integer, unless it is the non-finite one.
LEMMA FiniteInput ==
  ASSUME NEW seq \in Inputs \cup {NonFinite}, IsFinite(seq)
  PROVE  seq \in Int
  BY GuardAssumption DEF IsFinite

\* Undefined is none of the numbers lastSeen can hold.
LEMMA DefinedIsNumber ==
  ASSUME GuardTypeOK
  PROVE  /\ lastSeen # Undefined => lastSeen \in Int
         /\ first # Undefined => first \in Int
         /\ \A n \in Int : n # Undefined
  BY GuardAssumption DEF GuardTypeOK

\* Every call of accept() preserves the invariant, whatever it is given.
LEMMA GuardStep ==
  ASSUME GuardInv, [GuardNext]_guardVars
  PROVE  GuardInv'
<1> USE DEF GuardInv
<1>1. CASE UNCHANGED guardVars
  BY <1>1 DEF guardVars, GuardTypeOK, GapsExact, LastSeenIsGreatest
<1>2. ASSUME NEW seq \in Inputs \cup {NonFinite}, Accept(seq)
      PROVE  GuardInv'
  <2>1. CASE Ignore(seq)
    BY <2>1 DEF Ignore, GuardTypeOK, GapsExact, LastSeenIsGreatest
  <2>2. CASE First(seq)
    <3>1. seq \in Int /\ lastSeen' = seq /\ first' = seq /\ arrived' = {seq}
      BY <2>2, FiniteInput DEF First
    <3>2. gaps' = {} /\ untracked' = {}
      BY <2>2 DEF First
    <3>3. GuardTypeOK'
      BY <2>2, <3>1, <3>2 DEF First, GuardTypeOK
    <3>4. GapsExact' /\ LastSeenIsGreatest'
      BY <3>1, <3>2 DEF GapsExact, LastSeenIsGreatest
    <3>5. lastSeen' # Undefined /\ first' # Undefined
      BY <3>1, GuardAssumption
    <3> QED BY <3>1, <3>2, <3>3, <3>4, <3>5
  <2>3. CASE Late(seq)
    <3>1. /\ seq \in Int /\ lastSeen \in Int /\ first \in Int
          /\ seq <= lastSeen
          /\ UNCHANGED <<lastSeen, first, untracked>>
          /\ gaps' = gaps \ {seq}
          /\ arrived' = arrived \cup {seq}
      BY <2>3, FiniteInput, DefinedIsNumber DEF Late, IsLate
    <3>2. GuardTypeOK'
      BY <2>3, <3>1 DEF Late, GuardTypeOK
    <3>3. GapsExact'
      BY <3>1 DEF GapsExact
    <3>4. LastSeenIsGreatest'
      BY <3>1 DEF LastSeenIsGreatest
    <3> QED BY <2>3, <3>1, <3>2, <3>3, <3>4 DEF Late
  <2>4. CASE Newer(seq)
    <3>1. /\ seq \in Int /\ lastSeen \in Int /\ first \in Int
          /\ lastSeen < seq
          /\ lastSeen' = seq
          /\ first' = first
          /\ arrived' = arrived \cup {seq}
          /\ lastSeen' # Undefined
      BY <2>4, FiniteInput, DefinedIsNumber, GuardAssumption DEF Newer, IsLate
    <3>2. /\ \A n \in Missed(seq) : n \in Int /\ lastSeen < n /\ n < seq
          /\ \A n \in Int : lastSeen < n /\ n < seq => n \in Missed(seq)
      BY <3>1 DEF Missed
    <3>3. GuardTypeOK'
      BY <2>4, <3>1, <3>2 DEF Newer, GuardTypeOK
    <3>4. LastSeenIsGreatest'
      BY <2>4, <3>1 DEF Newer, LastSeenIsGreatest, GuardTypeOK
    <3>5. \A n \in untracked' : n < lastSeen'
      BY <2>4, <3>1, <3>2 DEF Newer, GuardTypeOK
    <3>6. GapsExact'
      <4>1. gaps = (first .. lastSeen) \ (arrived \cup untracked)
        BY <2>4 DEF Newer, GapsExact
      <4>2. first .. seq = (first .. lastSeen) \cup Missed(seq) \cup {seq}
        BY <3>1, <3>2, <2>4 DEF Newer
      <4>3. Missed(seq) \cap (arrived \cup untracked) = {}
        BY <3>1, <3>2, <2>4 DEF LastSeenIsGreatest, Newer, GuardTypeOK
      <4>4. seq \notin gaps /\ seq \notin Missed(seq)
        BY <3>1, <3>2, <4>1
      <4>5. CASE Tracked(seq)
        BY <2>4, <4>1, <4>2, <4>3, <4>4, <4>5, <3>1 DEF Newer, GapsExact
      <4>6. CASE ~Tracked(seq)
        <5>1. (first .. lastSeen) \cap Missed(seq) = {}
          BY <3>1, <3>2
        <5> QED BY <2>4, <4>1, <4>2, <4>4, <4>6, <5>1, <3>1 DEF Newer, GapsExact
      <4> QED BY <4>5, <4>6
    <3> QED BY <2>4, <3>1, <3>3, <3>4, <3>5, <3>6, DefinedIsNumber DEF Newer
  <2> QED BY <1>2, <2>1, <2>2, <2>3, <2>4 DEF Accept
<1> QED BY <1>1, <1>2 DEF GuardNext

\* The guard records nothing but numbers, tells its gaps exactly and never
\* regresses, in every state it can reach.
THEOREM GuardInvariant ==
  GuardSpec => [](GuardTypeOK /\ GapsExact /\ LastSeenIsGreatest)
<1>1. GuardInit => GuardInv
  BY GuardAssumption DEF GuardInit, GuardInv, GuardTypeOK, GapsExact, LastSeenIsGreatest
<1>2. GuardInv => GuardTypeOK /\ GapsExact /\ LastSeenIsGreatest
  BY DEF GuardInv
<1> QED BY <1>1, <1>2, GuardStep, PTL DEF GuardSpec

\* SequenceGuard.ts: lastSeen, the gap list and the history keep their types.
THEOREM GuardTypeCorrect == GuardSpec => []GuardTypeOK
  BY GuardInvariant, PTL

\* accept() returns true for news and for news only.
THEOREM GuardAcceptsOnlyNews == GuardSpec => AcceptsOnlyNews
<1>1. GuardInit => GuardInv
  BY GuardAssumption DEF GuardInit, GuardInv, GuardTypeOK, GapsExact, LastSeenIsGreatest
<1> DEFINE NewsStep == IF result'
                       THEN lastSeen' \in arrived' /\ \A n \in arrived : n < lastSeen'
                       ELSE lastSeen' = lastSeen /\ \A n \in arrived' : n <= lastSeen
<1>2. ASSUME GuardInv, [GuardNext]_guardVars
      PROVE  [NewsStep]_guardVars
  <2>1. ASSUME NEW seq \in Inputs \cup {NonFinite}, Accept(seq)
        PROVE  NewsStep
    <3>1. CASE Ignore(seq)
      BY <1>2, <3>1, DefinedIsNumber DEF Ignore, GuardInv, LastSeenIsGreatest
    <3>2. CASE First(seq)
      BY <1>2, <3>2 DEF First, GuardInv
    <3>3. CASE Late(seq)
      BY <1>2, <3>3 DEF Late, IsLate, GuardInv, LastSeenIsGreatest
    <3>4. CASE Newer(seq)
      <4>1. seq \in Int /\ lastSeen \in Int /\ lastSeen < seq
        BY <1>2, <3>4, FiniteInput, DefinedIsNumber DEF Newer, IsLate, GuardInv
      <4>2. \A n \in arrived : n \in Int /\ n <= lastSeen
        BY <1>2, <3>4 DEF Newer, GuardInv, LastSeenIsGreatest, GuardTypeOK
      <4> QED BY <3>4, <4>1, <4>2 DEF Newer
    <3> QED BY <2>1, <3>1, <3>2, <3>3, <3>4 DEF Accept
  <2> QED BY <1>2, <2>1 DEF GuardNext
<1> QED BY <1>1, <1>2, GuardStep, PTL DEF GuardSpec, AcceptsOnlyNews
============================
