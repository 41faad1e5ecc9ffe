---- MODULE AuditLogProofs ----
(***************************************************************************)
(* What the audit log promises, for every number of members, every TTL and *)
(* every order in which reports arrive.                                    *)
(***************************************************************************)
EXTENDS AuditLog, FiniteSetTheorems, TLAPS

Entry == [id : EventIds, member : Members, kind : Kinds, source : Sources]

\* What record() may be called with in one step.
Batch(entries) ==
  /\ entries \subseteq Entry
  /\ IsFiniteSet(entries)
  /\ \A e, f \in entries : e.member = f.member \/ e.id = f.id => e = f
  /\ \A e \in entries : e.member = e.id[2] /\ (e.source = "client" <=> e.id[1] = "page")

\* The inductive invariant: the Map is finite, so that its ends can be counted.
LogInv ==
  /\ LogTypeOK
  /\ IsFiniteSet(DOMAIN records)
  /\ EndsSeparated

\* An end that no start has reopened is the only one of its member.
LEMMA OneOpenEnd ==
  ASSUME LogTypeOK, EndsSeparated, NEW m \in Members,
         NEW i \in OpenSessionEnd(records, m), NEW j \in OpenSessionEnd(records, m)
  PROVE  i = j
<1>1. i \in Ends(records, m) /\ j \in Ends(records, m)
  BY DEF OpenSessionEnd
<1>2. /\ records[i].at \in Nat /\ records[j].at \in Nat
      /\ \A s \in Starts(records, m) :
           records[s].at \in Nat /\ records[s].at <= records[i].at /\ records[s].at <= records[j].at
  BY <1>1 DEF OpenSessionEnd, LogTypeOK, Record, Ends, Starts, RecordsOf
<1> QED BY <1>1, <1>2 DEF EndsSeparated

\* An entry is stored under a new id only if it is its own, and an end only if
\* its member has no end that is still open to it.
LEMMA NewKey ==
  ASSUME LogTypeOK, EndsSeparated, NEW e \in Entry
  PROVE  \/ KeyOf(records, e) \in DOMAIN records
         \/ /\ KeyOf(records, e) = e.id
            /\ e.kind = "session.end" => OpenSessionEnd(records, e.member) = {}
<1>1. CASE e.id \notin DOMAIN records /\ e.kind = "session.end" /\ OpenSessionEnd(records, e.member) # {}
  <2>1. e.member \in Members
    BY DEF Entry
  <2>2. PICK i \in OpenSessionEnd(records, e.member) : TRUE
    BY <1>1
  <2>3. i \in Ends(records, e.member)
    BY <2>2 DEF OpenSessionEnd
  <2>4. i \in DOMAIN records /\ records[i].at \in Nat
    BY <2>3 DEF Ends, RecordsOf, LogTypeOK, Record
  <2>5. \A j \in OpenSessionEnd(records, e.member) : j = i
    BY <2>1, <2>2, OneOpenEnd
  <2>6. \A j \in OpenSessionEnd(records, e.member) : records[j].at <= records[i].at
    BY <2>4, <2>5
  <2>7. KeyOf(records, e) \in OpenSessionEnd(records, e.member)
    BY <1>1, <2>2, <2>6 DEF KeyOf
  <2> QED BY <2>4, <2>5, <2>7
<1>2. CASE ~(e.id \notin DOMAIN records /\ e.kind = "session.end" /\ OpenSessionEnd(records, e.member) # {})
  BY <1>2 DEF KeyOf
<1> QED BY <1>1, <1>2

\* A batch leaves the member, kind, source and time of every stored record, and
\* what it adds are entries of its own, stamped with the present.
LEMMA RecordedShape ==
  ASSUME LogInv, NEW entries, Batch(entries), records' = Recorded(records, entries)
  PROVE  /\ DOMAIN records \subseteq DOMAIN records'
         /\ IsFiniteSet(DOMAIN records')
         /\ \A k \in DOMAIN records :
              /\ records'[k] \in Record
              /\ records'[k].member = records[k].member
              /\ records'[k].kind = records[k].kind
              /\ records'[k].source = records[k].source
              /\ records'[k].at = records[k].at
         /\ \A k \in DOMAIN records' \ DOMAIN records :
              \E e \in entries :
                /\ k = e.id
                /\ records'[k] \in Record
                /\ records'[k].member = e.member
                /\ records'[k].kind = e.kind
                /\ records'[k].source = e.source
                /\ records'[k].at = now
                /\ e.kind = "session.end" => OpenSessionEnd(records, e.member) = {}
<1> DEFINE Keys == {KeyOf(records, e) : e \in entries}
<1>1. DOMAIN records' = DOMAIN records \cup Keys
  BY DEF Recorded
<1>2. IsFiniteSet(DOMAIN records')
  <2> DEFINE key == [e \in entries |-> KeyOf(records, e)]
  <2>1. key \in Surjection(entries, Keys)
    BY DEF Surjection
  <2>2. IsFiniteSet(Keys)
    BY <2>1, FS_Surjection DEF Batch
  <2> QED BY <1>1, <2>2, FS_Union DEF LogInv
<1>3. \A E \in SUBSET entries : Reports(E) \subseteq Report
  BY DEF Reports, Report, Batch, Entry
<1>4. ASSUME NEW k \in DOMAIN records
      PROVE  /\ records'[k] \in Record
             /\ records'[k].member = records[k].member
             /\ records'[k].kind = records[k].kind
             /\ records'[k].source = records[k].source
             /\ records'[k].at = records[k].at
  <2> DEFINE new == Reports({e \in entries : KeyOf(records, e) = k})
  <2>1. records'[k] = [records[k] EXCEPT !.reports = @ \cup new]
    BY <1>4 DEF Recorded
  <2>2. records[k] \in Record
    BY <1>4 DEF LogInv, LogTypeOK
  <2>3. new \subseteq Report
    BY <1>3
  <2> HIDE DEF new
  <2> QED BY <2>1, <2>2, <2>3 DEF Record
<1>5. ASSUME NEW k \in DOMAIN records' \ DOMAIN records
      PROVE  \E e \in entries :
                /\ k = e.id
                /\ records'[k] \in Record
                /\ records'[k].member = e.member
                /\ records'[k].kind = e.kind
                /\ records'[k].source = e.source
                /\ records'[k].at = now
                /\ e.kind = "session.end" => OpenSessionEnd(records, e.member) = {}
  <2>1. PICK e \in entries : k = KeyOf(records, e)
    BY <1>1
  <2>2. /\ e \in Entry
        /\ \A f \in entries : f.id = e.id => f = e
    BY DEF Batch
  <2>3. k = e.id /\ (e.kind = "session.end" => OpenSessionEnd(records, e.member) = {})
    BY <2>1, <2>2, NewKey DEF LogInv
  <2>4. (CHOOSE f \in entries : f.id = k) = e
    BY <2>2, <2>3
  <2> DEFINE given == Reports({e})
  <2>5. records'[k] = [member |-> e.member, kind |-> e.kind, source |-> e.source,
                       at |-> now, reports |-> given]
    BY <1>1, <2>4 DEF Recorded
  <2>6. given \subseteq Report
    BY <1>3
  <2>7. e.member \in Members /\ e.kind \in Kinds /\ e.source \in Sources /\ now \in Nat
    BY <2>2 DEF Entry, LogInv, LogTypeOK
  <2> HIDE DEF given
  <2>8. records'[k] \in Record
    BY <2>5, <2>6, <2>7 DEF Record
  <2> QED BY <2>3, <2>5, <2>8
<1> QED BY <1>1, <1>2, <1>4, <1>5

\* What the server writes is a batch: one delivered event, one end it noticed,
\* or one end for each overdue member.
LEMMA BatchOfDelivery ==
  ASSUME LogTypeOK, NEW m \in Members, NEW n \in DOMAIN emitted[m]
  PROVE  Batch({ClientEntry(m, n)})
<1>1. n \in Nat /\ emitted[m][n] \in Kinds
  BY DEF LogTypeOK
<1>2. ClientEntry(m, n) \in Entry
  BY <1>1 DEF ClientEntry, PageId, Entry, EventIds, Sources
<1>3. /\ ClientEntry(m, n).member = ClientEntry(m, n).id[2]
      /\ ClientEntry(m, n).source = "client" <=> ClientEntry(m, n).id[1] = "page"
  BY DEF ClientEntry, PageId
<1> QED BY <1>2, <1>3, FS_Singleton DEF Batch

LEMMA BatchOfEnds ==
  ASSUME LogTypeOK, NEW S \in SUBSET Members, NEW source \in {"socket", "inferred"}
  PROVE  /\ Batch({EndEntry(m, source) : m \in S})
         /\ \A e \in {EndEntry(m, source) : m \in S} : e.kind = "session.end"
<1> DEFINE entries == {EndEntry(m, source) : m \in S}
           entry == [m \in S |-> EndEntry(m, source)]
<1>1. \A m \in S : /\ EndEntry(m, source) \in Entry
                   /\ EndEntry(m, source).member = m
                   /\ EndEntry(m, source).id = <<"server", m, generated[m]>>
                   /\ EndEntry(m, source).source = source
                   /\ EndEntry(m, source).kind = "session.end"
  BY DEF EndEntry, ServerId, Entry, EventIds, Sources, Kinds, LogTypeOK
<1>2. entry \in Surjection(S, entries)
  BY DEF Surjection
<1>3. IsFiniteSet(S)
  BY FS_Subset, LogAssumption
<1>4. IsFiniteSet(entries)
  BY <1>2, <1>3, FS_Surjection
<1> QED BY <1>1, <1>4 DEF Batch

\* A batch preserves the invariant.
LEMMA RecordedKeepsInv ==
  ASSUME LogInv, NEW entries, Batch(entries), records' = Recorded(records, entries),
         now' = now, generated' \in [Members -> Nat], emitted' \in [Members -> Seq(Kinds)]
  PROVE  LogInv'
<1> DEFINE Old == DOMAIN records
           New == DOMAIN records' \ DOMAIN records
<1>1. /\ Old \subseteq DOMAIN records'
      /\ IsFiniteSet(DOMAIN records')
      /\ \A k \in Old :
              /\ records'[k] \in Record
              /\ records'[k].member = records[k].member
              /\ records'[k].kind = records[k].kind
              /\ records'[k].source = records[k].source
              /\ records'[k].at = records[k].at
  BY RecordedShape
<1>2. \A k \in New :
        \E e \in entries :
                /\ k = e.id
                /\ records'[k] \in Record
                /\ records'[k].member = e.member
                /\ records'[k].kind = e.kind
                /\ records'[k].source = e.source
                /\ records'[k].at = now
                /\ e.kind = "session.end" => OpenSessionEnd(records, e.member) = {}
  BY RecordedShape
<1>3. LogTypeOK'
  <2>1. DOMAIN records' \subseteq EventIds
    BY <1>1, <1>2 DEF LogInv, LogTypeOK, Batch, Entry
  <2>2. records' \in [DOMAIN records' -> Record]
    <3>1. records' = [k \in DOMAIN records' |-> records'[k]]
      BY DEF Recorded
    <3> QED BY <3>1, <1>1, <1>2
  <2>3. now \in Nat
    BY DEF LogInv, LogTypeOK
  <2>4. ASSUME NEW k \in DOMAIN records'
        PROVE  /\ records'[k].at <= now
               /\ records'[k].member = k[2]
               /\ records'[k].source = "client" <=> k[1] = "page"
    <3>1. CASE k \in Old
      BY <3>1, <1>1 DEF LogInv, LogTypeOK
    <3>2. CASE k \in New
      BY <3>2, <1>2, <2>3 DEF Batch
    <3> QED BY <3>1, <3>2
  <2> QED BY <2>1, <2>2, <2>3, <2>4 DEF LogTypeOK
<1>4. ASSUME NEW m \in Members, NEW i \in Ends(records', m), NEW j \in Ends(records', m), i # j
      PROVE  \E s \in Starts(records', m) :
               \/ records'[i].at < records'[s].at /\ records'[s].at <= records'[j].at
               \/ records'[j].at < records'[s].at /\ records'[s].at <= records'[i].at
  <2>1. Starts(records, m) \subseteq Starts(records', m)
    BY <1>1 DEF Starts, RecordsOf
  <2>2. \A k \in Old : k \in Ends(records', m) => k \in Ends(records, m)
    BY <1>1 DEF Ends, RecordsOf
  <2>3. \A k \in Starts(records, m) \cup Ends(records, m) :
          k \in Old /\ records[k].at \in Nat /\ records'[k].at = records[k].at /\ records[k].at <= now
    BY <1>1 DEF Starts, Ends, RecordsOf, LogInv, LogTypeOK, Record
  <2>4. ASSUME NEW k \in Ends(records', m), k \in New
        PROVE  /\ \E e \in entries : e.id = k /\ e.member = m
               /\ records'[k].at = now
               /\ OpenSessionEnd(records, m) = {}
    <3>1. records'[k].member = m /\ records'[k].kind = "session.end"
      BY DEF Ends, RecordsOf
    <3>2. PICK e \in entries :
             /\ k = e.id
             /\ records'[k].member = e.member
             /\ records'[k].kind = e.kind
             /\ records'[k].at = now
             /\ e.kind = "session.end" => OpenSessionEnd(records, e.member) = {}
      BY <1>2, <2>4
    <3> QED BY <3>1, <3>2
  <2>5. now \in Nat
    BY DEF LogInv, LogTypeOK
  <2>6. ASSUME NEW a \in Ends(records', m), NEW b \in Ends(records', m), a \in Old, b \in New
        PROVE  \E s \in Starts(records', m) :
                 records'[a].at < records'[s].at /\ records'[s].at <= records'[b].at
    <3>1. a \in Ends(records, m) /\ a \notin OpenSessionEnd(records, m)
      BY <2>2, <2>4, <2>6
    <3>2. PICK s \in Starts(records, m) : ~(records[s].at <= records[a].at)
      BY <3>1 DEF OpenSessionEnd
    <3> QED BY <3>1, <3>2, <2>1, <2>3, <2>4, <2>5, <2>6
  <2>7. CASE i \in Old /\ j \in Old
    <3>1. PICK s \in Starts(records, m) :
               \/ records[i].at < records[s].at /\ records[s].at <= records[j].at
               \/ records[j].at < records[s].at /\ records[s].at <= records[i].at
      BY <1>4, <2>2, <2>7 DEF LogInv, EndsSeparated
    <3> QED BY <3>1, <2>1, <2>2, <2>3, <2>7
  <2>8. CASE i \in Old /\ j \in New
    BY <2>6, <2>8
  <2>9. CASE i \in New /\ j \in Old
    BY <2>6, <2>9
  <2>10. CASE i \in New /\ j \in New
    <3>1. PICK e \in entries : e.id = i /\ e.member = m
      BY <2>4, <2>10
    <3>2. PICK f \in entries : f.id = j /\ f.member = m
      BY <2>4, <2>10
    <3>3. e = f
      BY <3>1, <3>2 DEF Batch
    <3> QED BY <1>4, <3>1, <3>2, <3>3
  <2>11. i \in DOMAIN records' /\ j \in DOMAIN records'
    BY DEF Ends, RecordsOf
  <2> QED BY <2>7, <2>8, <2>9, <2>10, <2>11
<1> QED BY <1>1, <1>3, <1>4 DEF LogInv, EndsSeparated

\* Every step preserves the invariant.
LEMMA LogStep ==
  ASSUME LogInv, [LogNext]_logVars
  PROVE  LogInv'
<1> USE DEF LogInv
<1>1. ASSUME NEW m \in Members, NEW kind \in Kinds, Emit(m, kind)
      PROVE  LogInv'
  <2>1. emitted' \in [Members -> Seq(Kinds)]
    BY <1>1 DEF Emit, LogTypeOK
  <2>2. records' = records /\ generated' = generated /\ now' = now
    BY <1>1 DEF Emit
  <2> QED BY <2>1, <2>2 DEF LogTypeOK, EndsSeparated
<1>2. ASSUME NEW m \in Members, NEW n \in 1 .. MaxEvents[m], Deliver(m, n)
      PROVE  LogInv'
  <2>1. Batch({ClientEntry(m, n)})
    BY <1>2, BatchOfDelivery DEF Deliver
  <2>2. generated' \in [Members -> Nat] /\ emitted' \in [Members -> Seq(Kinds)]
    BY <1>2 DEF Deliver, LogTypeOK
  <2> QED BY <1>2, <2>1, <2>2, RecordedKeepsInv DEF Deliver
<1>3. ASSUME NEW m \in Members, NEW source \in {"socket", "inferred"}, ServerEnd(m, source)
      PROVE  LogInv'
  <2>1. Batch({EndEntry(x, source) : x \in {m}})
    BY BatchOfEnds
  <2>2. {EndEntry(x, source) : x \in {m}} = {EndEntry(m, source)}
    OBVIOUS
  <2>3. generated' \in [Members -> Nat] /\ emitted' \in [Members -> Seq(Kinds)]
    BY <1>3 DEF ServerEnd, LogTypeOK
  <2> QED BY <1>3, <2>1, <2>2, <2>3, RecordedKeepsInv DEF ServerEnd
<1>4. CASE Sweep
  <2>1. Overdue \in SUBSET Members
    BY DEF Overdue
  <2>2. Batch({EndEntry(m, "inferred") : m \in Overdue})
    BY <2>1, BatchOfEnds
  <2>3. generated' \in [Members -> Nat] /\ emitted' \in [Members -> Seq(Kinds)]
    BY <1>4 DEF Sweep, LogTypeOK
  <2> QED BY <1>4, <2>2, <2>3, RecordedKeepsInv DEF Sweep
<1>5. CASE LogElapse
  <2>1. now' \in Nat /\ now < now'
    BY <1>5 DEF LogElapse, LogTypeOK
  <2>2. records' = records /\ generated' = generated /\ emitted' = emitted
    BY <1>5 DEF LogElapse
  <2>3. \A id \in DOMAIN records : records[id].at \in Nat
    BY DEF LogTypeOK, Record
  <2> QED BY <2>1, <2>2, <2>3 DEF LogTypeOK, EndsSeparated
<1>6. CASE UNCHANGED logVars
  BY <1>6 DEF logVars, LogTypeOK, EndsSeparated
<1> QED BY <1>1, <1>2, <1>3, <1>4, <1>5, <1>6 DEF LogNext, MemberStep

\* The log starts empty.
LEMMA LogStart == LogInit => LogInv
<1> SUFFICES ASSUME LogInit PROVE LogInv
  OBVIOUS
<1>1. DOMAIN records = {}
  BY DEF LogInit
<1>2. records \in [DOMAIN records -> Record]
  BY <1>1 DEF LogInit
<1>3. LogTypeOK
  BY <1>1, <1>2 DEF LogInit, LogTypeOK
<1>4. EndsSeparated
  BY <1>1 DEF EndsSeparated, Ends, RecordsOf
<1> QED BY <1>1, <1>3, <1>4, FS_EmptySet DEF LogInv

LEMMA LogInvariant == LogSpec => []LogInv
  BY LogStart, LogStep, PTL DEF LogSpec

\* One close is stored once, whatever reports arrive and in whatever order.
THEOREM CloseStoredOnce == LogSpec => [](LogTypeOK /\ EndsSeparated)
<1>1. LogInv => LogTypeOK /\ EndsSeparated
  BY DEF LogInv
<1> QED BY <1>1, LogInvariant, PTL

\* The sweep never writes an end that record() would fold into an older one.
THEOREM SweepAgreesWithLog == LogSpec => []OverdueIsOpen
<1>1. LogInv => OverdueIsOpen
  <2> SUFFICES ASSUME LogInv, NEW m \in Overdue, NEW i \in OpenSessionEnd(records, m)
               PROVE  FALSE
    BY DEF OverdueIsOpen
  <2>1. PICK s \in Starts(records, m) : \A k \in Ends(records, m) : records[k].at < records[s].at
    BY DEF Overdue
  <2>2. /\ records[i].at < records[s].at
        /\ records[s].at <= records[i].at
        /\ records[i].at \in Nat /\ records[s].at \in Nat
    BY <2>1 DEF OpenSessionEnd, Ends, Starts, RecordsOf, LogInv, LogTypeOK, Record
  <2> QED BY <2>2
<1> QED BY <1>1, LogInvariant, PTL

---------------------------------------------------------------------------
(* The log implements Engagements.                                         *)

Added == DOMAIN records' \ DOMAIN records
AddedFor(m) == {k \in Added : records'[k].member = m}

\* A stored record keeps what the phase of its member is computed from.
Kept ==
  /\ DOMAIN records \subseteq DOMAIN records'
  /\ \A k \in DOMAIN records :
       /\ records'[k].member = records[k].member
       /\ records'[k].kind = records[k].kind
       /\ records'[k].at = records[k].at

\* A member without a new record is where it was.
LEMMA Untouched ==
  ASSUME Kept, NEW m \in Members, AddedFor(m) = {}
  PROVE  /\ Starts(records', m) = Starts(records, m)
         /\ Ends(records', m) = Ends(records, m)
         /\ OpenSessionEnd(records', m) = OpenSessionEnd(records, m)
         /\ Phase(m)' = Phase(m)
<1>1. /\ Starts(records', m) = Starts(records, m)
      /\ Ends(records', m) = Ends(records, m)
  BY DEF Kept, AddedFor, Added, Starts, Ends, RecordsOf
<1>2. \A k \in Starts(records, m) \cup Ends(records, m) : records'[k].at = records[k].at
  BY DEF Kept, Starts, Ends, RecordsOf
<1>3. OpenSessionEnd(records', m) = OpenSessionEnd(records, m)
  BY <1>1, <1>2 DEF OpenSessionEnd
<1> QED BY <1>1, <1>3 DEF Phase

\* What a batch does to the ends and starts of one member it adds a record for.
LEMMA AddedOne ==
  ASSUME LogInv, NEW entries, Batch(entries), records' = Recorded(records, entries),
         NEW m \in Members, NEW k \in AddedFor(m)
  PROVE  /\ AddedFor(m) = {k}
         /\ \E e \in entries : e.member = m /\ e.kind = records'[k].kind
         /\ records'[k].at = now
         /\ records'[k].kind \in Kinds
         /\ records'[k].kind = "session.end" => OpenSessionEnd(records, m) = {}
<1>1. \A j \in AddedFor(m) :
         \E e \in entries :
           /\ j = e.id
           /\ records'[j] \in Record
           /\ records'[j].kind = e.kind
           /\ records'[j].at = now
           /\ e.member = m
           /\ e.kind = "session.end" => OpenSessionEnd(records, m) = {}
  <2> SUFFICES ASSUME NEW j \in AddedFor(m)
               PROVE  \E e \in entries :
           /\ j = e.id
           /\ records'[j] \in Record
           /\ records'[j].kind = e.kind
           /\ records'[j].at = now
           /\ e.member = m
           /\ e.kind = "session.end" => OpenSessionEnd(records, m) = {}
    OBVIOUS
  <2>1. j \in DOMAIN records' \ DOMAIN records /\ records'[j].member = m
    BY DEF AddedFor, Added
  <2> QED BY <2>1, RecordedShape
<1>2. PICK e \in entries :
           /\ k = e.id
           /\ records'[k] \in Record
           /\ records'[k].kind = e.kind
           /\ records'[k].at = now
           /\ e.member = m
           /\ e.kind = "session.end" => OpenSessionEnd(records, m) = {}
  BY <1>1
<1>3. \A j \in AddedFor(m) : j = k
  BY <1>1, <1>2 DEF Batch
<1> QED BY <1>2, <1>3 DEF Record

\* The ends of a member are finitely many.
LEMMA EndsFinite ==
  ASSUME LogInv, NEW m \in Members
  PROVE  IsFiniteSet(Ends(records, m))
<1>1. Ends(records, m) \in SUBSET DOMAIN records
  BY DEF Ends, RecordsOf
<1> QED BY <1>1, FS_Subset DEF LogInv

\* A batch of ends is a Close of the members it stores an end for.
LEMMA EndsClose ==
  ASSUME LogInv, NEW entries, Batch(entries), records' = Recorded(records, entries),
         \A e \in entries : e.kind = "session.end"
  PROVE  \E S \in SUBSET Members : Engagement!Close(S)
<1> DEFINE S == {m \in Members : AddedFor(m) # {}}
<1>1. Kept
  BY RecordedShape DEF Kept
<1>2. ASSUME NEW m \in Members, m \notin S
      PROVE  /\ Phase(m)' = Phase(m)
             /\ Cardinality(Ends(records', m)) = Cardinality(Ends(records, m))
  BY <1>1, <1>2, Untouched
<1>3. ASSUME NEW m \in S
      PROVE  /\ Phase(m) # "closed"
             /\ Phase(m)' = "closed"
             /\ Cardinality(Ends(records', m)) = Cardinality(Ends(records, m)) + 1
  <2>1. PICK k : k \in AddedFor(m)
    OBVIOUS
  <2>2. /\ AddedFor(m) = {k}
        /\ records'[k].at = now
        /\ records'[k].kind = "session.end"
        /\ OpenSessionEnd(records, m) = {}
    BY <2>1, AddedOne
  <2>3. k \in DOMAIN records' /\ k \notin DOMAIN records /\ records'[k].member = m
    BY <2>1 DEF AddedFor, Added
  <2>4. /\ Ends(records', m) = Ends(records, m) \cup {k}
        /\ Starts(records', m) = Starts(records, m)
        /\ k \notin Ends(records, m)
    BY <1>1, <2>2, <2>3 DEF Kept, AddedFor, Added, Ends, Starts, RecordsOf
  <2>5. \A s \in Starts(records, m) : records'[s].at <= now
    BY <1>1 DEF Kept, Starts, RecordsOf, LogInv, LogTypeOK
  <2>6. k \in OpenSessionEnd(records', m)
    BY <2>2, <2>4, <2>5 DEF OpenSessionEnd
  <2>7. Phase(m) # "closed" /\ Phase(m)' = "closed"
    BY <2>2, <2>6 DEF Phase
  <2>8. Cardinality(Ends(records', m)) = Cardinality(Ends(records, m)) + 1
    BY <2>4, EndsFinite, FS_AddElement
  <2> QED BY <2>7, <2>8
<1>4. S \in SUBSET Members
  OBVIOUS
<1> HIDE DEF S
<1>5. Engagement!Close(S)
  BY <1>2, <1>3, <1>4 DEF Engagement!Close
<1> QED BY <1>4, <1>5

\* A start opens its member, or changes nothing: it was known, the member was
\* open, or an end of the same instant keeps it closed.
LEMMA StartOpens ==
  ASSUME LogInv, NEW e \in Entry, Batch({e}), records' = Recorded(records, {e}),
         e.kind = "session.start"
  PROVE  \/ \E m \in Members : Engagement!Open(m)
         \/ UNCHANGED <<[m \in Members |-> Phase(m)],
                        [m \in Members |-> Cardinality(Ends(records, m))]>>
<1> DEFINE a == e.member
<1>1. Kept
  BY RecordedShape DEF Kept
<1>2. a \in Members
  BY DEF Entry
<1>3. ASSUME NEW m \in Members, AddedFor(m) = {}
      PROVE  /\ Phase(m)' = Phase(m)
             /\ Cardinality(Ends(records', m)) = Cardinality(Ends(records, m))
  BY <1>1, <1>3, Untouched
<1>4. \A m \in Members : m # a => AddedFor(m) = {}
  BY AddedOne
<1> HIDE DEF a
<1>5. CASE AddedFor(a) = {}
  BY <1>3, <1>4, <1>5
<1>6. CASE AddedFor(a) # {}
  <2>1. PICK k : k \in AddedFor(a)
    BY <1>6
  <2>2. /\ AddedFor(a) = {k}
        /\ records'[k].at = now
        /\ records'[k].kind = "session.start"
    BY <1>2, <2>1, AddedOne
  <2>3. k \in DOMAIN records' /\ k \notin DOMAIN records /\ records'[k].member = a
    BY <2>1 DEF AddedFor, Added
  <2>4. /\ Ends(records', a) = Ends(records, a)
        /\ Starts(records', a) = Starts(records, a) \cup {k}
    BY <1>1, <2>2, <2>3 DEF Kept, AddedFor, Added, Ends, Starts, RecordsOf
  <2>5. OpenSessionEnd(records', a) \subseteq OpenSessionEnd(records, a)
    <3>1. \A i \in Starts(records, a) \cup Ends(records, a) : records'[i].at = records[i].at
      BY <1>1 DEF Kept, Starts, Ends, RecordsOf
    <3> QED BY <2>4, <3>1 DEF OpenSessionEnd
  <2>6. \/ Phase(a)' = Phase(a)
        \/ Phase(a) # "open" /\ Phase(a)' = "open"
    <3>1. Starts(records', a) # {}
      BY <2>4
    <3> QED BY <2>5, <3>1 DEF Phase
  <2>7. \A m \in Members : Cardinality(Ends(records', m)) = Cardinality(Ends(records, m))
    BY <1>3, <1>4, <2>4
  <2>8. \A m \in Members : m # a => Phase(m)' = Phase(m)
    BY <1>3, <1>4
  <2>9. CASE Phase(a)' = Phase(a)
    BY <2>7, <2>8, <2>9
  <2>10. CASE Phase(a) # "open" /\ Phase(a)' = "open"
    <3>1. Engagement!Open(a)
      BY <1>2, <2>7, <2>8, <2>10 DEF Engagement!Open
    <3> QED BY <1>2, <3>1
  <2> QED BY <2>6, <2>9, <2>10
<1> QED BY <1>5, <1>6

\* The audit log stores one end for each engagement.
THEOREM LogImplementsEngagements == LogSpec => EngagementSpec
<1> DEFINE E == <<[m \in Members |-> Phase(m)],
                  [m \in Members |-> Cardinality(Ends(records, m))]>>
<1>1. LogInit => Engagement!Init
  <2> SUFFICES ASSUME LogInit, NEW m \in Members
               PROVE  Phase(m) = "new" /\ Cardinality(Ends(records, m)) = 0
    BY DEF Engagement!Init
  <2>1. DOMAIN records = {}
    BY DEF LogInit
  <2>2. Ends(records, m) = {} /\ Starts(records, m) = {} /\ OpenSessionEnd(records, m) = {}
    BY <2>1 DEF Ends, Starts, RecordsOf, OpenSessionEnd
  <2> QED BY <2>2, FS_EmptySet DEF Phase
<1>2. ASSUME LogInv, [LogNext]_logVars
      PROVE  [Engagement!Next]_E
  <2>1. CASE records' = records
    BY <2>1 DEF Phase
  <2>2. ASSUME NEW m \in Members, NEW n \in 1 .. MaxEvents[m], Deliver(m, n)
        PROVE  [Engagement!Next]_E
    <3>1. Batch({ClientEntry(m, n)})
      BY <1>2, <2>2, BatchOfDelivery DEF Deliver, LogInv
    <3>2. ClientEntry(m, n) \in Entry
      BY <3>1 DEF Batch
    <3>3. ClientEntry(m, n).kind = "session.start" \/ ClientEntry(m, n).kind = "session.end"
      BY <3>2 DEF Entry, Kinds
    <3>4. records' = Recorded(records, {ClientEntry(m, n)})
      BY <2>2 DEF Deliver
    <3>5. CASE ClientEntry(m, n).kind = "session.start"
      BY <1>2, <3>1, <3>2, <3>4, <3>5, StartOpens DEF Engagement!Next
    <3>6. CASE ClientEntry(m, n).kind = "session.end"
      BY <1>2, <3>1, <3>4, <3>6, EndsClose DEF Engagement!Next
    <3> QED BY <3>3, <3>5, <3>6
  <2>3. ASSUME NEW m \in Members, NEW source \in {"socket", "inferred"}, ServerEnd(m, source)
        PROVE  [Engagement!Next]_E
    <3>1. {EndEntry(x, source) : x \in {m}} = {EndEntry(m, source)}
      OBVIOUS
    <3>2. /\ Batch({EndEntry(x, source) : x \in {m}})
          /\ \A e \in {EndEntry(x, source) : x \in {m}} : e.kind = "session.end"
      BY <1>2, BatchOfEnds DEF LogInv
    <3>3. records' = Recorded(records, {EndEntry(m, source)})
      BY <2>3 DEF ServerEnd
    <3>4. \E S \in SUBSET Members : Engagement!Close(S)
      BY <1>2, <3>1, <3>2, <3>3, EndsClose
    <3> QED BY <3>4 DEF Engagement!Next
  <2>4. CASE Sweep
    <3>1. /\ Batch({EndEntry(m, "inferred") : m \in Overdue})
          /\ \A e \in {EndEntry(m, "inferred") : m \in Overdue} : e.kind = "session.end"
      <4>1. Overdue \in SUBSET Members
        BY DEF Overdue
      <4> QED BY <1>2, <4>1, BatchOfEnds DEF LogInv
    <3>2. records' = Recorded(records, {EndEntry(m, "inferred") : m \in Overdue})
      BY <2>4 DEF Sweep
    <3>3. \E S \in SUBSET Members : Engagement!Close(S)
      BY <1>2, <3>1, <3>2, EndsClose
    <3> QED BY <3>3 DEF Engagement!Next
  <2> QED BY <1>2, <2>1, <2>2, <2>3, <2>4
          DEF LogNext, MemberStep, Emit, LogElapse, logVars
<1> QED BY <1>1, <1>2, LogInvariant, PTL DEF LogSpec, EngagementSpec, Engagement!Spec
============================
