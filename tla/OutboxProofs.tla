---- MODULE OutboxProofs ----
(***************************************************************************)
(* The outbox implements DurableEvents, and its store is bounded, for any  *)
(* number of tabs, events and async calls under way and any limit.         *)
(***************************************************************************)
EXTENDS Outbox, FiniteSetTheorems, TLAPS

\* The events that have been persisted at some time.
Known == store \cup received \cup givenUp \cup entrusted

\* What a task may count on: an emit that has not written yet alone has its
\* event, any other names events that were persisted, and the entry it clears is
\* recorded, unless a sendBeacon had queued it.
Sound(t) ==
  /\ t \in Task
  /\ (t.id = NoEvent) <=> Unnamed(t)
  /\ t.at = "put" => /\ t.id \notin Known
                     /\ t = EmitTask(t.id[1], t.id[2])
                     /\ t.id[2] <= page[t.id[1]].events
  /\ t.at # "put" => t.id \in Known \cup {NoEvent}
  /\ t.todo \subseteq Known
  /\ t.at = "evict" => t.job = "emit"
  /\ t.at = "clear" /\ t.job # "bestEffort" => t.id \in received

\* Events are numbered by the tab that emits them, links hold persisted ones.
Data ==
  /\ page \in [Tabs -> Page]
  /\ store \subseteq EventIds /\ received \subseteq EventIds /\ givenUp \cup entrusted \subseteq EventIds
  /\ link \in [Tabs -> SUBSET EventIds]
  /\ \A tab \in Tabs : link[tab] \subseteq Known
  /\ \A e \in Known : e[2] <= page[e[1]].events

OutboxInv == Data /\ \A t \in tasks : Sound(t)

LEMMA EventIdsType ==
  /\ \A e \in EventIds : e[1] \in Tabs /\ e[2] \in Nat /\ e = <<e[1], e[2]>> /\ e # NoEvent
  /\ \A tab \in Tabs : \A k \in Nat : 1 <= k /\ k <= MaxEvents[tab] => <<tab, k>> \in EventIds
BY OutboxAssumption DEF EventIds

LEMMA InitHolds == ASSUME Init PROVE OutboxInv
BY DEF Init, OutboxInv, Data, Known, Page, Phases

\* A task that a step leaves alone stays sound.
LEMMA StaysSound ==
  ASSUME OutboxInv, NEW t, Sound(t), page' \in [Tabs -> Page],
         Known \subseteq Known', received \subseteq received',
         \A tab \in Tabs : page[tab].events <= page'[tab].events,
         t.at = "put" => t.id \notin Known'
  PROVE  Sound(t)'
<1>1. ASSUME t.at = "put" PROVE t.id[2] <= page'[t.id[1]].events
  <2>1. t.id \in EventIds /\ t.id[2] <= page[t.id[1]].events
    BY <1>1 DEF Sound, Task, Unnamed
  <2>2. t.id[1] \in Tabs /\ t.id[2] \in Nat
    BY <2>1, EventIdsType
  <2>3. page[t.id[1]].events \in Nat /\ page'[t.id[1]].events \in Nat
    BY <2>2 DEF OutboxInv, Data, Page
  <2> QED BY <2>1, <2>2, <2>3
<1> QED BY <1>1 DEF Sound

\* So does the data that a step leaves alone.
LEMMA NumbersStay ==
  ASSUME Data, page' \in [Tabs -> Page], Known' = Known,
         \A tab \in Tabs : page[tab].events <= page'[tab].events
  PROVE  \A e \in Known' : e[2] <= page'[e[1]].events
<1> SUFFICES ASSUME NEW e \in Known PROVE e[2] <= page'[e[1]].events
  OBVIOUS
<1>1. e[1] \in Tabs /\ e[2] \in Nat
  BY EventIdsType DEF Data, Known
<1>2. page[e[1]].events \in Nat /\ page'[e[1]].events \in Nat
  BY <1>1 DEF Data, Page
<1> QED BY <1>1, <1>2 DEF Data

\* A step that changes no more than some tasks, links and what becomes of what
\* was persisted.
LEMMA TasksStep ==
  ASSUME OutboxInv, Known' = Known, received \subseteq received',
         store' \subseteq EventIds, received' \subseteq EventIds, givenUp' \cup entrusted' \subseteq EventIds,
         page' \in [Tabs -> Page],
         \A tab \in Tabs : page[tab].events <= page'[tab].events,
         link' \in [Tabs -> SUBSET EventIds], \A tab \in Tabs : link'[tab] \subseteq Known,
         NEW new, tasks' \subseteq tasks \cup new, \A t \in new : Sound(t)'
  PROVE  OutboxInv'
<1>1. \A e \in Known' : e[2] <= page'[e[1]].events
  BY NumbersStay DEF OutboxInv
<1>2. Data'
  BY <1>1 DEF Data
<1>3. ASSUME NEW t \in tasks PROVE Sound(t)'
  <2>1. Sound(t)
    BY DEF OutboxInv
  <2>2. t.at = "put" => t.id \notin Known'
    BY <2>1 DEF Sound
  <2> QED BY <2>1, <2>2, StaysSound
<1> QED BY <1>2, <1>3 DEF OutboxInv

\* The events a handler emits are new.
LEMMA EmittedSound ==
  ASSUME OutboxInv, NEW tab \in Tabs, NEW count \in Nat,
         page[tab].events + count <= MaxEvents[tab],
         Known' = Known, page'[tab].events = page[tab].events + count,
         NEW t \in Emitted(tab, count)
  PROVE  Sound(t)'
<1>1. PICK i \in 1 .. count : t = EmitTask(tab, page[tab].events + i)
  BY DEF Emitted
<1> DEFINE k == page[tab].events + i
<1>2. page[tab].events \in Nat /\ MaxEvents[tab] \in Nat
  BY OutboxAssumption DEF OutboxInv, Data, Page
<1>3. k \in Nat /\ 1 <= k /\ k <= MaxEvents[tab] /\ k > page[tab].events
      /\ k <= page'[tab].events
  BY <1>2
<1>4. /\ t.tab = tab /\ t.job = "emit" /\ t.key = <<tab, k>> /\ t.at = "put"
      /\ t.id = <<tab, k>> /\ t.todo = {}
  BY <1>1 DEF EmitTask
<1>5. <<tab, k>> \in EventIds /\ <<tab, k>> # NoEvent
  BY <1>3, EventIdsType
<1>6. <<tab, k>> \notin Known
  BY <1>2, <1>3 DEF OutboxInv, Data
<1>7. t \in Task
  BY <1>1, <1>3, <1>5 DEF EmitTask, Task, Jobs, Steps
<1>8. t = EmitTask(t.id[1], t.id[2])
  BY <1>1, <1>4
<1>9. t.id[2] <= page'[t.id[1]].events
  BY <1>3, <1>4
<1> HIDE DEF k
<1> QED BY <1>4, <1>5, <1>6, <1>7, <1>8, <1>9 DEF Sound, Unnamed

\* A flush names no event yet.
LEMMA FlushSound ==
  ASSUME OutboxInv, NEW tab \in Tabs, NEW job \in {"replay", "bestEffort"},
         NEW t, t = FlushTask(tab, job)
  PROVE  Sound(t)'
<1>1. page[tab].flushes \in Nat
  BY DEF OutboxInv, Data, Page
<1>2. t = [tab |-> tab, job |-> job, key |-> <<tab, page[tab].flushes + 1>>, at |-> "list",
           id |-> NoEvent, todo |-> {}]
  BY DEF FlushTask
<1>3. t \in Task
  BY <1>1, <1>2 DEF Task, Jobs, Steps
<1>4. t.job = job /\ t.at = "list" /\ t.id = NoEvent /\ t.todo = {}
  BY <1>2
<1> QED BY <1>3, <1>4 DEF Sound, Unnamed

\* The data but for the page is as it was.
StoreUnchanged == UNCHANGED <<store, received, givenUp, entrusted>>

LEMMA StartKeeps == ASSUME OutboxInv, NEW tab \in Tabs, Start(tab) PROVE OutboxInv' /\ StoreUnchanged
<1>1. PICK visible \in BOOLEAN :
        LET opens == visible /\ ~page[tab].sessionOpen
            count == IF opens THEN 1 ELSE 0
        IN  /\ page[tab].events + count <= MaxEvents[tab]
            /\ page' = [page EXCEPT ![tab].phase = "live", ![tab].visible = visible,
                                    ![tab].sessionOpen = @ \/ opens,
                                    ![tab].events = @ + count, ![tab].flushes = @ + 1]
            /\ tasks' = tasks \cup {FlushTask(tab, "replay")} \cup Emitted(tab, count)
            /\ UNCHANGED <<store, link, received, givenUp, entrusted>>
  BY DEF Start
<1> DEFINE opens == visible /\ ~page[tab].sessionOpen
           count == IF opens THEN 1 ELSE 0
           new   == {FlushTask(tab, "replay")} \cup Emitted(tab, count)
<1>2. Known' = Known /\ StoreUnchanged
  BY <1>1 DEF Known, StoreUnchanged
<1>3. page[tab] \in Page /\ count \in Nat /\ opens \in BOOLEAN
  BY DEF OutboxInv, Data
<1>4. page' \in [Tabs -> Page]
  <2> DEFINE s == page[tab].sessionOpen \/ opens
             k == page[tab].events + count
             f == page[tab].flushes + 1
  <2>1. k \in Nat /\ f \in Nat /\ s \in BOOLEAN
    BY <1>3 DEF Page
  <2>2. page' = [page EXCEPT ![tab] =
          [page[tab] EXCEPT !.phase = "live", !.visible = visible, !.sessionOpen = s,
                            !.events = k, !.flushes = f]]
    BY <1>1
  <2> HIDE DEF s, k, f
  <2>3. [page[tab] EXCEPT !.phase = "live", !.visible = visible, !.sessionOpen = s,
                          !.events = k, !.flushes = f] \in Page
    BY <1>3, <2>1 DEF Page, Phases
  <2> QED BY <2>2, <2>3 DEF OutboxInv, Data
<1>5. page'[tab].events = page[tab].events + count
  BY <1>1, <1>3 DEF OutboxInv, Data, Page
<1>6. \A u \in Tabs : page[u].events <= page'[u].events
  BY <1>1, <1>3 DEF OutboxInv, Data, Page
<1>7. \A t \in new : Sound(t)'
  BY <1>1, <1>2, <1>3, <1>5, FlushSound, EmittedSound
<1>8. tasks' \subseteq tasks \cup new
  BY <1>1
<1>9. /\ received \subseteq received' /\ store' \subseteq EventIds
      /\ received' \subseteq EventIds /\ givenUp' \cup entrusted' \subseteq EventIds
      /\ link' \in [Tabs -> SUBSET EventIds] /\ \A u \in Tabs : link'[u] \subseteq Known
  BY <1>1 DEF OutboxInv, Data
<1> HIDE DEF new
<1> QED BY <1>2, <1>4, <1>6, <1>7, <1>8, <1>9, TasksStep

LEMMA VisibilityKeeps ==
  ASSUME OutboxInv, NEW tab \in Tabs, VisibilityChange(tab) PROVE OutboxInv' /\ StoreUnchanged
<1> DEFINE visible == ~page[tab].visible
           count   == IF visible = page[tab].sessionOpen THEN 1 ELSE 2
<1>1. /\ page[tab].events + count <= MaxEvents[tab]
      /\ page' = [page EXCEPT ![tab].visible = visible, ![tab].sessionOpen = visible,
                              ![tab].events = @ + count]
      /\ tasks' = tasks \cup Emitted(tab, count)
      /\ UNCHANGED <<store, link, received, givenUp, entrusted>>
  BY DEF VisibilityChange
<1>2. Known' = Known /\ StoreUnchanged
  BY <1>1 DEF Known, StoreUnchanged
<1>3. page[tab] \in Page /\ count \in Nat /\ visible \in BOOLEAN
  BY DEF OutboxInv, Data
<1> HIDE DEF visible, count
<1>4. page' \in [Tabs -> Page]
  <2> DEFINE k == page[tab].events + count
  <2>1. k \in Nat
    BY <1>3 DEF Page
  <2>2. page' = [page EXCEPT ![tab] =
          [page[tab] EXCEPT !.visible = visible, !.sessionOpen = visible, !.events = k]]
    BY <1>1
  <2> HIDE DEF k
  <2>3. [page[tab] EXCEPT !.visible = visible, !.sessionOpen = visible, !.events = k] \in Page
    BY <1>3, <2>1 DEF Page
  <2> QED BY <2>2, <2>3 DEF OutboxInv, Data
<1>5. page'[tab].events = page[tab].events + count
  BY <1>1, <1>3 DEF OutboxInv, Data, Page
<1>6. \A u \in Tabs : page[u].events <= page'[u].events
  BY <1>1, <1>3 DEF OutboxInv, Data, Page
<1>7. \A t \in Emitted(tab, count) : Sound(t)'
  BY <1>1, <1>2, <1>3, <1>5, EmittedSound
<1>9. /\ received \subseteq received' /\ store' \subseteq EventIds
      /\ received' \subseteq EventIds /\ givenUp' \cup entrusted' \subseteq EventIds
      /\ link' \in [Tabs -> SUBSET EventIds] /\ \A u \in Tabs : link'[u] \subseteq Known
  BY <1>1 DEF OutboxInv, Data
<1> QED BY <1>1, <1>2, <1>4, <1>6, <1>7, <1>9, TasksStep

LEMMA PageHideKeeps ==
  ASSUME OutboxInv, NEW tab \in Tabs, NEW job \in {"replay", "bestEffort"}, PageHide(tab, job)
  PROVE  OutboxInv' /\ StoreUnchanged
<1> DEFINE t == FlushTask(tab, job)
<1>1. /\ page' = [page EXCEPT ![tab].phase = IF job = "replay" THEN "frozen" ELSE "unloading",
                              ![tab].flushes = @ + 1]
      /\ tasks' = tasks \cup {t}
      /\ UNCHANGED <<store, link, received, givenUp, entrusted>>
  BY DEF PageHide
<1>2. Known' = Known /\ StoreUnchanged
  BY <1>1 DEF Known, StoreUnchanged
<1>3. page' \in [Tabs -> Page] /\ \A u \in Tabs : page[u].events <= page'[u].events
  BY <1>1 DEF OutboxInv, Data, Page, Phases
<1>4. PICK new : new = {t}
  OBVIOUS
<1>5. \A u \in new : Sound(u)'
  BY <1>4, FlushSound
<1>6. tasks' \subseteq tasks \cup new
  BY <1>1, <1>4
<1>7. /\ received \subseteq received' /\ store' \subseteq EventIds
      /\ received' \subseteq EventIds /\ givenUp' \cup entrusted' \subseteq EventIds
      /\ link' \in [Tabs -> SUBSET EventIds] /\ \A u \in Tabs : link'[u] \subseteq Known
  BY <1>1 DEF OutboxInv, Data
<1> QED BY <1>2, <1>3, <1>5, <1>6, <1>7, TasksStep

\* The host, the back/forward cache and the socket move no event.
LEMMA PhaseKeeps ==
  ASSUME OutboxInv, NEW tab \in Tabs,
         Resume(tab) \/ Stop(tab) \/ SocketOpens(tab) \/ SocketLost(tab)
  PROVE  OutboxInv' /\ StoreUnchanged
<1>1. UNCHANGED <<store, tasks, received, givenUp, entrusted>>
  BY DEF Resume, Stop, SocketOpens, SocketLost
<1>2. Known' = Known /\ StoreUnchanged
  BY <1>1 DEF Known, StoreUnchanged
<1>3. page' \in [Tabs -> Page] /\ \A u \in Tabs : page[u].events <= page'[u].events
  <2>1. CASE Resume(tab)
    BY <2>1 DEF Resume, OutboxInv, Data, Page, Phases
  <2>2. CASE Stop(tab)
    BY <2>2 DEF Stop, OutboxInv, Data, Page, Phases
  <2>3. CASE SocketOpens(tab)
    <3> DEFINE k == page[tab].sockets + 1
    <3>1. k \in Nat /\ page[tab] \in Page
      BY DEF OutboxInv, Data, Page
    <3>2. page' = [page EXCEPT ![tab] = [page[tab] EXCEPT !.socketOpen = TRUE, !.sockets = k]]
      BY <2>3 DEF SocketOpens
    <3> HIDE DEF k
    <3>3. /\ [page[tab] EXCEPT !.socketOpen = TRUE, !.sockets = k] \in Page
          /\ [page[tab] EXCEPT !.socketOpen = TRUE, !.sockets = k].events = page[tab].events
      BY <3>1 DEF Page
    <3>4. page' \in [Tabs -> Page]
      BY <3>2, <3>3 DEF OutboxInv, Data
    <3>5. \A u \in Tabs : page'[u].events = page[u].events /\ page[u].events \in Nat
      BY <3>2, <3>3 DEF OutboxInv, Data, Page
    <3> QED BY <3>4, <3>5
  <2>4. CASE SocketLost(tab)
    <3>1. page' = [page EXCEPT ![tab] = [page[tab] EXCEPT !.socketOpen = FALSE]]
      BY <2>4 DEF SocketLost
    <3>2. /\ [page[tab] EXCEPT !.socketOpen = FALSE] \in Page
          /\ [page[tab] EXCEPT !.socketOpen = FALSE].events = page[tab].events
      BY DEF OutboxInv, Data, Page
    <3>3. page' \in [Tabs -> Page]
      BY <3>1, <3>2 DEF OutboxInv, Data
    <3>4. \A u \in Tabs : page'[u].events = page[u].events /\ page[u].events \in Nat
      BY <3>1, <3>2 DEF OutboxInv, Data, Page
    <3> QED BY <3>3, <3>4
  <2> QED BY <2>1, <2>2, <2>3, <2>4
<1>4. link' \in [Tabs -> SUBSET EventIds] /\ \A u \in Tabs : link'[u] \subseteq Known
  <2>1. CASE UNCHANGED link
    BY <2>1 DEF OutboxInv, Data
  <2>2. CASE SocketLost(tab)
    BY <2>2 DEF SocketLost, OutboxInv, Data
  <2> QED BY <2>1, <2>2 DEF Resume, Stop, SocketOpens
<1>5. /\ received \subseteq received' /\ store' \subseteq EventIds
      /\ received' \subseteq EventIds /\ givenUp' \cup entrusted' \subseteq EventIds
  BY <1>1 DEF OutboxInv, Data
<1> DEFINE new == {}
<1>6. tasks' \subseteq tasks \cup new /\ \A t \in new : Sound(t)'
  BY <1>1
<1> HIDE DEF new
<1> QED BY <1>2, <1>3, <1>4, <1>5, <1>6, TasksStep

\* What a step does to the store is one that DurableEvents allows.
MailStep == [Mail!EntrustingNext]_<<store, received, givenUp, entrusted>>

LEMMA DeliverStep ==
  ASSUME NEW es, es \subseteq Known, es \subseteq EventIds,
         received' = received \cup es, UNCHANGED <<store, givenUp, entrusted>>
  PROVE  MailStep /\ Known' = Known
BY DEF MailStep, Mail!EntrustingNext, Mail!Next, Mail!Deliver, Known

\* A request that goes on without its page carries an event of the store's.
LEMMA NamedKnown ==
  ASSUME OutboxInv, NEW t \in tasks, t.at \in {"post", "clear", "evict"}
  PROVE  t.id \in Known /\ t.id \in EventIds /\ t.id # NoEvent
BY DEF OutboxInv, Data, Known, Sound, Unnamed

LEMMA DieKeeps == ASSUME OutboxInv, NEW tab \in Tabs, Die(tab) PROVE OutboxInv' /\ MailStep
<1> DEFINE own == {t \in tasks : t.tab = tab}
           new == {[t EXCEPT !.at = "killed", !.todo = {}] : t \in {u \in own : Unpruned(u)}}
<1>1. PICK arrive \in SUBSET {t.id : t \in {u \in own : u.at = "post"}} :
        received' = received \cup arrive
  BY DEF Die
<1>2. /\ page' = [page EXCEPT ![tab].phase = "none", ![tab].visible = FALSE,
                              ![tab].sessionOpen = FALSE, ![tab].socketOpen = FALSE]
      /\ link' = [link EXCEPT ![tab] = {}]
      /\ tasks' \subseteq tasks \cup new
      /\ UNCHANGED <<store, givenUp, entrusted>>
  BY DEF Die
<1>3. arrive \subseteq Known /\ arrive \subseteq EventIds
  BY <1>1, NamedKnown
<1>4. MailStep /\ Known' = Known
  BY <1>1, <1>2, <1>3, DeliverStep
<1>5. page' \in [Tabs -> Page] /\ \A u \in Tabs : page[u].events <= page'[u].events
  <2>1. page' = [page EXCEPT ![tab] =
          [page[tab] EXCEPT !.phase = "none", !.visible = FALSE, !.sessionOpen = FALSE,
                            !.socketOpen = FALSE]]
    BY <1>2
  <2>2. /\ [page[tab] EXCEPT !.phase = "none", !.visible = FALSE, !.sessionOpen = FALSE,
                             !.socketOpen = FALSE] \in Page
        /\ [page[tab] EXCEPT !.phase = "none", !.visible = FALSE, !.sessionOpen = FALSE,
                             !.socketOpen = FALSE].events = page[tab].events
    BY DEF OutboxInv, Data, Page, Phases
  <2>3. page' \in [Tabs -> Page]
    BY <2>1, <2>2 DEF OutboxInv, Data
  <2>4. \A u \in Tabs : page'[u].events = page[u].events /\ page[u].events \in Nat
    BY <2>1, <2>2 DEF OutboxInv, Data, Page
  <2> QED BY <2>3, <2>4
<1>6. \A u \in new : Sound(u)'
  <2> SUFFICES ASSUME NEW t \in tasks, Unpruned(t),
                      NEW u, u = [t EXCEPT !.at = "killed", !.todo = {}]
               PROVE  Sound(u)'
    OBVIOUS
  <2>1. t \in Task /\ t.job = "emit" /\ t.at \in {"list", "evict", "killed"}
    BY DEF Unpruned, OutboxInv, Sound
  <2>2. u \in Task /\ u.job = "emit" /\ u.at = "killed" /\ u.id = t.id /\ u.todo = {}
    BY <2>1 DEF Task, Steps
  <2>3. t.id \in Known \cup {NoEvent} /\ t.id # NoEvent
    BY <2>1 DEF OutboxInv, Sound, Unnamed
  <2> QED BY <1>4, <2>2, <2>3 DEF Sound, Unnamed
<1>7. /\ received \subseteq received' /\ store' \subseteq EventIds
      /\ received' \subseteq EventIds /\ givenUp' \cup entrusted' \subseteq EventIds
      /\ link' \in [Tabs -> SUBSET EventIds] /\ \A u \in Tabs : link'[u] \subseteq Known
  BY <1>1, <1>2, <1>3 DEF OutboxInv, Data
<1> HIDE DEF new
<1> QED BY <1>2, <1>4, <1>5, <1>6, <1>7, TasksStep

\* A step of one task.
LEMMA TaskMoves ==
  ASSUME OutboxInv, NEW t \in tasks, NEW u, Sound(u)',
         Becomes(t, u) \/ Finishes(t),
         Known' = Known, received \subseteq received',
         store' \subseteq EventIds, received' \subseteq EventIds, givenUp' \cup entrusted' \subseteq EventIds,
         page' = page,
         link' \in [Tabs -> SUBSET EventIds], \A tab \in Tabs : link'[tab] \subseteq Known
  PROVE  OutboxInv'
<1>1. page' \in [Tabs -> Page] /\ \A tab \in Tabs : page[tab].events <= page'[tab].events
  BY DEF OutboxInv, Data, Page
<1> DEFINE new == {u}
<1>2. tasks' \subseteq tasks \cup new /\ \A v \in new : Sound(v)'
  BY DEF Becomes, Finishes
<1> HIDE DEF new
<1> QED BY <1>1, <1>2, TasksStep

\* The first write of an event: no other task has it.
LEMMA PutKeeps == ASSUME OutboxInv, NEW t \in tasks, Put(t) PROVE OutboxInv' /\ MailStep
<1> DEFINE u == [t EXCEPT !.at = "list"]
<1>1. /\ t.at = "put" /\ store' = store \cup {t.id}
      /\ tasks' = (tasks \ {t}) \cup {u}
      /\ UNCHANGED <<page, link, received, givenUp, entrusted>>
  BY DEF Put, Becomes
<1>2. /\ t \in Task /\ t.id \notin Known /\ t = EmitTask(t.id[1], t.id[2])
      /\ t.id[2] <= page[t.id[1]].events /\ t.todo \subseteq Known
  BY <1>1 DEF OutboxInv, Sound
<1>3. t.id \in EventIds /\ t.job = "emit"
  <2>1. t.id # NoEvent
    BY <1>1 DEF OutboxInv, Sound, Unnamed
  <2>2. t.job = "emit"
    BY <1>2 DEF EmitTask
  <2> QED BY <1>2, <2>1, <2>2 DEF Task
<1>4. Known' = Known \cup {t.id}
  BY <1>1 DEF Known
<1>5. MailStep
  BY <1>1, <1>2, <1>3 DEF MailStep, Mail!EntrustingNext, Mail!Next, Mail!Persist, Known
<1>6. Data'
  <2>1. store' \subseteq EventIds
    BY <1>1, <1>3 DEF OutboxInv, Data
  <2>2. \A tab \in Tabs : link'[tab] \subseteq Known'
    BY <1>1, <1>4 DEF OutboxInv, Data
  <2>3. \A e \in Known' : e[2] <= page'[e[1]].events
    BY <1>1, <1>2, <1>4 DEF OutboxInv, Data
  <2> QED BY <1>1, <2>1, <2>2, <2>3 DEF OutboxInv, Data
<1>7. Sound(u)'
  <2>1. u \in Task /\ u.at = "list" /\ u.id = t.id /\ u.job = "emit" /\ u.todo = t.todo
    BY <1>2, <1>3 DEF Task, Steps
  <2>2. t.id # NoEvent
    BY <1>3, EventIdsType
  <2> HIDE DEF u
  <2> QED BY <1>2, <1>4, <2>1, <2>2 DEF Sound, Unnamed
<1>8. ASSUME NEW v \in tasks, v # t PROVE Sound(v)'
  <2>1. Sound(v)
    BY DEF OutboxInv
  <2>2. v.at = "put" => v.id \notin Known'
    <3>1. SUFFICES ASSUME v.at = "put" PROVE v.id # t.id /\ v.id \notin Known
      BY <1>4
    <3>2. v = EmitTask(v.id[1], v.id[2]) /\ v.id \notin Known
      BY <2>1, <3>1 DEF Sound
    <3>3. v.id = t.id => v = t
      BY <1>2, <3>2
    <3> QED BY <1>8, <3>2, <3>3
  <2>3. page' \in [Tabs -> Page] /\ \A tab \in Tabs : page[tab].events <= page'[tab].events
    BY <1>1 DEF OutboxInv, Data, Page
  <2>4. Known \subseteq Known' /\ received \subseteq received'
    BY <1>1, <1>4
  <2> QED BY <2>1, <2>2, <2>3, <2>4, StaysSound
<1> HIDE DEF u
<1> QED BY <1>1, <1>5, <1>6, <1>7, <1>8 DEF OutboxInv

\* A task that ends is as sound as it was.
LEMMA EndSound ==
  ASSUME OutboxInv, NEW t \in tasks, Known' = Known, received \subseteq received', page' = page
  PROVE  Sound(t)'
<1>1. page' \in [Tabs -> Page] /\ \A tab \in Tabs : page[tab].events <= page'[tab].events
  BY DEF OutboxInv, Data, Page
<1>2. Sound(t)
  BY DEF OutboxInv
<1>3. t.at = "put" => t.id \notin Known'
  BY <1>2 DEF Sound
<1> QED BY <1>1, <1>2, <1>3, StaysSound

\* What a task that has written its event may become.
LEMMA NextSound ==
  ASSUME OutboxInv, NEW t \in tasks, t.at # "put", Known' = Known, received \subseteq received',
         NEW u, u \in Task, u.job = t.job, u.at # "put",
         (u.id = NoEvent) <=> Unnamed(u), u.id \in Known \cup {NoEvent}, u.todo \subseteq Known,
         u.at = "evict" => u.job = "emit",
         u.at = "clear" /\ u.job # "bestEffort" => u.id \in received'
  PROVE  Sound(u)'
BY DEF Sound

LEMMA GoesOnSound ==
  ASSUME OutboxInv, NEW t \in tasks, t.at \in {"post", "clear"}, GoesOn(t),
         Known' = Known, received \subseteq received', page' = page
  PROVE  \E u : Sound(u)' /\ (Becomes(t, u) \/ Finishes(t))
<1>1. CASE Finishes(t)
  BY <1>1, EndSound
<1>2. CASE t.job \in {"replay", "bestEffort"}
  <2> DEFINE u == [t EXCEPT !.at = "pick", !.id = NoEvent]
  <2>1. t \in Task /\ t.todo \subseteq Known
    BY DEF OutboxInv, Sound
  <2>2. u \in Task /\ u.job = t.job /\ u.at = "pick" /\ u.id = NoEvent /\ u.todo = t.todo
    BY <2>1 DEF Task, Steps
  <2>3. Becomes(t, u)
    BY <1>2 DEF GoesOn
  <2> HIDE DEF u
  <2>4. Sound(u)'
    BY <1>2, <2>1, <2>2, NextSound DEF Unnamed
  <2> QED BY <2>3, <2>4
<1> QED BY <1>1, <1>2 DEF GoesOn

\* An emit whose event is stored and whose prune is done.
LEMMA RouteSound ==
  ASSUME OutboxInv, NEW t \in tasks, t.at \in {"list", "evict"}, t.job = "emit", Route(t),
         Known' = Known, received' = received, page' = page
  PROVE  /\ \E u : Sound(u)' /\ (Becomes(t, u) \/ Finishes(t))
         /\ link' \in [Tabs -> SUBSET EventIds]
         /\ \A tab \in Tabs : link'[tab] \subseteq Known
<1>1. t \in Task /\ t.tab \in Tabs /\ t.id \in Known /\ t.id \in EventIds /\ t.id # NoEvent
  BY DEF OutboxInv, Data, Known, Sound, Unnamed, Task
<1>2. CASE /\ link' = [link EXCEPT ![t.tab] = @ \cup {t.id}]
           /\ Finishes(t)
  BY <1>1, <1>2, EndSound DEF OutboxInv, Data
<1>3. CASE /\ Becomes(t, [t EXCEPT !.at = "post", !.todo = {}])
           /\ UNCHANGED link
  <2> DEFINE u == [t EXCEPT !.at = "post", !.todo = {}]
  <2>1. u \in Task /\ u.job = t.job /\ u.at = "post" /\ u.id = t.id /\ u.todo = {}
    BY <1>1 DEF Task, Steps
  <2>2. Becomes(t, u)
    BY <1>3
  <2> HIDE DEF u
  <2>3. Sound(u)'
    BY <1>1, <2>1, NextSound DEF Unnamed
  <2> QED BY <1>3, <2>2, <2>3 DEF OutboxInv, Data
<1> QED BY <1>2, <1>3 DEF Route

\* An entry that is deleted by the cap or for its age, or is gone already.
LEMMA GiveUpStep ==
  ASSUME OutboxInv, NEW e \in EventIds, store' = store \ {e}, GiveUp(e), received' = received
  PROVE  /\ MailStep /\ Known' = Known
         /\ store' \subseteq EventIds /\ received' \subseteq EventIds /\ givenUp' \cup entrusted' \subseteq EventIds
<1>1. givenUp' = givenUp \cup ({e} \cap store) /\ entrusted' = entrusted
  BY DEF GiveUp
<1>2. Known' = Known
  BY <1>1 DEF Known
<1>3. MailStep
  <2>1. CASE e \in store
    BY <1>1, <2>1 DEF MailStep, Mail!EntrustingNext, Mail!Next, Mail!Abandon
  <2>2. CASE e \notin store
    <3>1. UNCHANGED <<store, givenUp, entrusted>>
      BY <1>1, <2>2
    <3> QED BY <3>1 DEF MailStep
  <2> QED BY <2>1, <2>2
<1> QED BY <1>1, <1>2, <1>3 DEF OutboxInv, Data

\* An entry that is deleted for a queued sendBeacon, arrived or not.
LEMMA EntrustStep ==
  ASSUME OutboxInv, NEW e \in EventIds, store' = store \ {e}, Entrust(e), received' = received
  PROVE  /\ MailStep /\ Known' = Known
         /\ store' \subseteq EventIds /\ received' \subseteq EventIds
         /\ givenUp' \cup entrusted' \subseteq EventIds
<1>1. entrusted' = entrusted \cup ((store \cap {e}) \ received) /\ givenUp' = givenUp
  BY DEF Entrust
<1>2. Known' = Known
  BY <1>1 DEF Known
<1>3. MailStep
  <2>1. CASE e \in store \ received
    <3>1. entrusted' = entrusted \cup {e}
      BY <1>1, <2>1
    <3> QED BY <1>1, <2>1, <3>1 DEF MailStep, Mail!EntrustingNext, Mail!Entrust
  <2>2. CASE e \in store \cap received
    <3>1. entrusted' = entrusted
      BY <1>1, <2>2
    <3> QED BY <1>1, <2>2, <3>1 DEF MailStep, Mail!EntrustingNext, Mail!Next, Mail!Acknowledge
  <2>3. CASE e \notin store
    <3>1. UNCHANGED <<store, givenUp, entrusted>>
      BY <1>1, <2>3
    <3> QED BY <3>1 DEF MailStep
  <2> QED BY <2>1, <2>2, <2>3
<1> QED BY <1>1, <1>2, <1>3 DEF OutboxInv, Data

LEMMA PruneKeeps == ASSUME OutboxInv, NEW t \in tasks, Prune(t) PROVE OutboxInv' /\ MailStep
<1>1. /\ t.at = "list" /\ t.job = "emit"
      /\ UNCHANGED <<page, store, received, givenUp, entrusted>>
  BY DEF Prune
<1>2. PICK d \in Excess(store) :
        IF d = {} THEN Route(t)
        ELSE Becomes(t, [t EXCEPT !.at = "evict", !.todo = d]) /\ UNCHANGED link
  BY DEF Prune
<1>3. MailStep /\ Known' = Known
  BY <1>1 DEF MailStep, Known
<1>4. d \subseteq store
  BY DEF Excess
<1>5. /\ \E u : Sound(u)' /\ (Becomes(t, u) \/ Finishes(t))
      /\ link' \in [Tabs -> SUBSET EventIds]
      /\ \A tab \in Tabs : link'[tab] \subseteq Known
  <2>1. CASE d = {}
    BY <1>1, <1>2, <1>3, <2>1, RouteSound
  <2>2. CASE d # {}
    <3> DEFINE u == [t EXCEPT !.at = "evict", !.todo = d]
    <3>1. t \in Task /\ t.id \in Known \cup {NoEvent} /\ t.id # NoEvent
      BY <1>1 DEF OutboxInv, Sound, Unnamed
    <3>2. u \in Task /\ u.job = t.job /\ u.at = "evict" /\ u.id = t.id /\ u.todo = d
      <4>1. d \subseteq EventIds
        BY <1>4 DEF OutboxInv, Data
      <4> QED BY <3>1, <4>1 DEF Task, Steps
    <3>3. Becomes(t, u) /\ UNCHANGED link
      BY <1>2, <2>2
    <3>4. d \subseteq Known
      BY <1>4 DEF Known
    <3> HIDE DEF u
    <3>5. Sound(u)'
      BY <1>1, <1>3, <3>1, <3>2, <3>4, NextSound DEF Unnamed
    <3> QED BY <3>3, <3>5 DEF OutboxInv, Data
  <2> QED BY <2>1, <2>2
<1>6. /\ store' \subseteq EventIds /\ received' \subseteq EventIds /\ givenUp' \cup entrusted' \subseteq EventIds
  BY <1>1 DEF OutboxInv, Data
<1> QED BY <1>1, <1>3, <1>5, <1>6, TaskMoves

LEMMA EvictKeeps ==
  ASSUME OutboxInv, NEW t \in tasks, Evict(t) PROVE OutboxInv' /\ MailStep
<1>1. t.at = "evict" /\ t.job = "emit" /\ UNCHANGED <<page, received>>
  BY DEF Evict, OutboxInv, Sound
<1>2. PICK e \in t.todo :
        /\ store' = store \ {e}
        /\ GiveUp(e)
        /\ IF t.todo = {e} THEN Route(t)
           ELSE Becomes(t, [t EXCEPT !.todo = @ \ {e}]) /\ UNCHANGED link
  BY DEF Evict
<1>3. t \in Task /\ t.todo \subseteq Known /\ t.todo \subseteq EventIds
  BY DEF OutboxInv, Sound, Task
<1>4. /\ MailStep /\ Known' = Known
      /\ store' \subseteq EventIds /\ received' \subseteq EventIds /\ givenUp' \cup entrusted' \subseteq EventIds
  BY <1>1, <1>2, <1>3, GiveUpStep
<1>5. /\ \E u : Sound(u)' /\ (Becomes(t, u) \/ Finishes(t))
      /\ link' \in [Tabs -> SUBSET EventIds]
      /\ \A tab \in Tabs : link'[tab] \subseteq Known
  <2>1. CASE t.todo = {e}
    BY <1>1, <1>2, <1>4, <2>1, RouteSound
  <2>2. CASE t.todo # {e}
    <3> DEFINE u == [t EXCEPT !.todo = @ \ {e}]
    <3>1. t.id \in Known /\ t.id # NoEvent
      BY <1>1, NamedKnown
    <3>2. u \in Task /\ u.job = t.job /\ u.at = "evict" /\ u.id = t.id /\ u.todo \subseteq Known
      BY <1>1, <1>3 DEF Task, Steps
    <3>3. Becomes(t, u) /\ UNCHANGED link
      BY <1>2, <2>2
    <3> HIDE DEF u
    <3>4. Sound(u)'
      BY <1>1, <1>4, <3>1, <3>2, NextSound DEF Unnamed
    <3> QED BY <3>3, <3>4 DEF OutboxInv, Data
  <2> QED BY <2>1, <2>2
<1> QED BY <1>1, <1>4, <1>5, TaskMoves

LEMMA ListKeeps == ASSUME OutboxInv, NEW t \in tasks, List(t) PROVE OutboxInv' /\ MailStep
<1>0. PICK u : u = [t EXCEPT !.at = "pick", !.todo = store]
  OBVIOUS
<1>1. /\ t.at = "list" /\ t.job # "emit"
      /\ Becomes(t, u)
      /\ UNCHANGED <<page, store, link, received, givenUp, entrusted>>
  BY <1>0 DEF List
<1>2. MailStep /\ Known' = Known
  BY <1>1 DEF MailStep, Known
<1>3. t \in Task /\ t.id \in Known \cup {NoEvent} /\ ((t.id = NoEvent) <=> Unnamed(t))
  BY <1>1 DEF OutboxInv, Sound
<1>4. store \in SUBSET EventIds /\ store \subseteq Known
  BY DEF OutboxInv, Data, Known
<1>5. u \in Task /\ u.job = t.job /\ u.at = "pick" /\ u.id = t.id /\ u.todo = store
  <2>1. PICK d \in SUBSET EventIds : d = store
    BY <1>4
  <2> QED BY <1>0, <1>3, <2>1 DEF Task, Steps
<1>6. Sound(u)'
  <2>1. (u.id = NoEvent) <=> Unnamed(u)
    BY <1>1, <1>3, <1>5 DEF Unnamed
  <2>2. t.at # "put" /\ received \subseteq received'
    BY <1>1
  <2> QED BY <1>2, <1>3, <1>4, <1>5, <2>1, <2>2, NextSound
<1>7. /\ received \subseteq received' /\ store' \subseteq EventIds
      /\ received' \subseteq EventIds /\ givenUp' \cup entrusted' \subseteq EventIds
      /\ link' \in [Tabs -> SUBSET EventIds] /\ \A tab \in Tabs : link'[tab] \subseteq Known
  BY <1>1 DEF OutboxInv, Data
<1> QED BY <1>1, <1>2, <1>6, <1>7, TaskMoves

\* A flush goes through entries that were persisted.
LEMMA PickKeeps ==
  ASSUME OutboxInv, NEW t \in tasks, Pick(t) PROVE OutboxInv' /\ MailStep
<1>1. t.at = "pick" /\ UNCHANGED <<page, link>>
  BY DEF Pick
<1>2. /\ t \in Task /\ t.todo \subseteq Known /\ t.todo \subseteq EventIds
      /\ t.id \in Known \cup {NoEvent} /\ ((t.id = NoEvent) <=> Unnamed(t))
  BY <1>1 DEF OutboxInv, Sound, Task
<1>3. /\ link' \in [Tabs -> SUBSET EventIds] /\ \A tab \in Tabs : link'[tab] \subseteq Known
      /\ store \subseteq EventIds /\ received \subseteq EventIds /\ givenUp \cup entrusted \subseteq EventIds
  BY <1>1 DEF OutboxInv, Data
<1>4. CASE Finishes(t) /\ UNCHANGED <<store, received, givenUp, entrusted>>
  <2>1. MailStep /\ Known' = Known
    BY <1>4 DEF MailStep, Known
  <2>2. Sound(t)'
    BY <1>1, <1>4, <2>1, EndSound
  <2> QED BY <1>1, <1>3, <1>4, <2>1, <2>2, TaskMoves
<1>5. ASSUME NEW e \in t.todo, Expire(t, e) PROVE OutboxInv' /\ MailStep
  <2> DEFINE u == [t EXCEPT !.todo = @ \ {e}]
  <2>1. store' = store \ {e} /\ GiveUp(e) /\ Becomes(t, u) /\ UNCHANGED received
    BY <1>5 DEF Expire
  <2>2. /\ MailStep /\ Known' = Known
        /\ store' \subseteq EventIds /\ received' \subseteq EventIds /\ givenUp' \cup entrusted' \subseteq EventIds
    BY <1>2, <2>1, GiveUpStep
  <2>3. u \in Task /\ u.job = t.job /\ u.at = "pick" /\ u.id = t.id /\ u.todo \subseteq Known
    BY <1>1, <1>2 DEF Task
  <2> HIDE DEF u
  <2>4. Sound(u)'
    BY <1>1, <1>2, <2>1, <2>2, <2>3, NextSound DEF Unnamed
  <2> QED BY <1>1, <1>3, <2>1, <2>2, <2>4, TaskMoves
<1>6. ASSUME NEW e \in t.todo, Send(t, e) PROVE OutboxInv' /\ MailStep
  <2>1. e \in Known /\ e \in EventIds /\ e # NoEvent /\ UNCHANGED <<store, givenUp, entrusted>>
    BY <1>2, <1>6, EventIdsType DEF Send
  <2>2. received' \in {received, received \cup {e}}
    BY <1>6 DEF Send
  <2>3. /\ MailStep /\ Known' = Known /\ received' \subseteq EventIds
        /\ received \subseteq received'
    <3>1. CASE received' = received
      BY <1>3, <2>1, <3>1 DEF MailStep, Known
    <3>2. CASE received' = received \cup {e}
      <4>1. PICK es : es = {e}
        OBVIOUS
      <4> QED BY <1>3, <2>1, <3>2, <4>1, DeliverStep
    <3> QED BY <2>2, <3>1, <3>2
  <2>4. CASE t.job = "replay" /\ Becomes(t, [t EXCEPT !.at = "post", !.id = e, !.todo = @ \ {e}])
    <3> DEFINE u == [t EXCEPT !.at = "post", !.id = e, !.todo = @ \ {e}]
    <3>1. u \in Task /\ u.job = t.job /\ u.at = "post" /\ u.id = e /\ u.todo \subseteq Known
      BY <1>2, <2>1 DEF Task, Steps
    <3>2. Becomes(t, u)
      BY <2>4
    <3> HIDE DEF u
    <3>3. Sound(u)'
      BY <1>1, <2>1, <2>3, <3>1, NextSound DEF Unnamed
    <3> QED BY <1>1, <1>3, <2>1, <2>3, <3>2, <3>3, TaskMoves
  <2>5. CASE t.job = "bestEffort" /\ Becomes(t, [t EXCEPT !.at = "clear", !.id = e, !.todo = @ \ {e}])
    <3> DEFINE u == [t EXCEPT !.at = "clear", !.id = e, !.todo = @ \ {e}]
    <3>1. u \in Task /\ u.job = "bestEffort" /\ u.job = t.job /\ u.at = "clear" /\ u.id = e
          /\ u.todo \subseteq Known
      BY <1>2, <2>1, <2>5 DEF Task, Steps
    <3>2. Becomes(t, u)
      BY <2>5
    <3> HIDE DEF u
    <3>3. Sound(u)'
      BY <1>1, <2>1, <2>3, <3>1, NextSound DEF Unnamed
    <3> QED BY <1>1, <1>3, <2>1, <2>3, <3>2, <3>3, TaskMoves
  <2>6. CASE Becomes(t, [t EXCEPT !.todo = @ \ {e}])
    <3> DEFINE u == [t EXCEPT !.todo = @ \ {e}]
    <3>1. u \in Task /\ u.job = t.job /\ u.at = "pick" /\ u.id = t.id /\ u.todo \subseteq Known
      BY <1>1, <1>2 DEF Task
    <3>2. Becomes(t, u)
      BY <2>6
    <3> HIDE DEF u
    <3>3. Sound(u)'
      BY <1>1, <1>2, <2>3, <3>1, NextSound DEF Unnamed
    <3> QED BY <1>1, <1>3, <2>1, <2>3, <3>2, <3>3, TaskMoves
  <2> QED BY <1>6, <2>4, <2>5, <2>6 DEF Send
<1> QED BY <1>4, <1>5, <1>6 DEF Pick

\* A request that arrives, or does not.
LEMMA PostKeeps ==
  ASSUME OutboxInv, NEW t \in tasks, PostArrives(t) \/ PostFails(t) PROVE OutboxInv' /\ MailStep
<1>1. /\ t.at = "post" /\ UNCHANGED <<page, store, link, givenUp, entrusted>>
      /\ received' = received \cup {t.id} \/ received' = received
  BY DEF PostArrives, PostFails
<1>2. t.id \in Known /\ t.id \in EventIds /\ t.id # NoEvent /\ t \in Task /\ t.todo \subseteq Known
  BY <1>1, NamedKnown DEF OutboxInv, Sound
<1>3. /\ link' \in [Tabs -> SUBSET EventIds] /\ \A tab \in Tabs : link'[tab] \subseteq Known
      /\ store' \subseteq EventIds /\ received \subseteq EventIds /\ givenUp' \cup entrusted' \subseteq EventIds
  BY <1>1 DEF OutboxInv, Data
<1>4. /\ MailStep /\ Known' = Known /\ received' \subseteq EventIds
      /\ received \subseteq received'
  <2>1. CASE received' = received
    BY <1>1, <1>3, <2>1 DEF MailStep, Known
  <2>2. CASE received' = received \cup {t.id}
    <3>1. PICK es : es = {t.id}
      OBVIOUS
    <3> QED BY <1>1, <1>2, <1>3, <2>2, <3>1, DeliverStep
  <2> QED BY <1>1, <2>1, <2>2
<1>5. CASE GoesOn(t)
  <2>1. \E u : Sound(u)' /\ (Becomes(t, u) \/ Finishes(t))
    BY <1>1, <1>4, <1>5, GoesOnSound
  <2> QED BY <1>1, <1>3, <1>4, <2>1, TaskMoves
<1>6. CASE received' = received \cup {t.id} /\ Becomes(t, [t EXCEPT !.at = "clear"])
  <2> DEFINE u == [t EXCEPT !.at = "clear"]
  <2>1. u \in Task /\ u.job = t.job /\ u.at = "clear" /\ u.id = t.id /\ u.todo = t.todo
    BY <1>2 DEF Task, Steps
  <2>2. Becomes(t, u)
    BY <1>6
  <2> HIDE DEF u
  <2>3. Sound(u)'
    BY <1>1, <1>2, <1>4, <1>6, <2>1, NextSound DEF Unnamed
  <2> QED BY <1>1, <1>3, <1>4, <2>2, <2>3, TaskMoves
<1> QED BY <1>5, <1>6 DEF PostArrives, PostFails

\* What is cleared is recorded, or a sendBeacon had queued it.
LEMMA ClearKeeps ==
  ASSUME OutboxInv, NEW t \in tasks, Clear(t) PROVE OutboxInv' /\ MailStep
<1>1. /\ t.at = "clear" /\ store' = store \ {t.id}
      /\ IF t.job = "bestEffort" THEN Entrust(t.id) ELSE UNCHANGED <<givenUp, entrusted>>
      /\ GoesOn(t)
      /\ UNCHANGED <<page, link, received>>
  BY DEF Clear
<1>2. t.id \in Known /\ t.id \in EventIds
  BY <1>1, NamedKnown
<1>3. /\ MailStep /\ Known' = Known
      /\ store' \subseteq EventIds /\ received' \subseteq EventIds /\ givenUp' \cup entrusted' \subseteq EventIds
  <2>1. CASE t.job = "bestEffort"
    BY <1>1, <1>2, <2>1, EntrustStep
  <2>2. CASE t.job # "bestEffort"
    <3>1. t.id \in received
      BY <1>1, <2>2 DEF OutboxInv, Sound
    <3>2. Known' = Known
      BY <1>1, <2>2, <3>1 DEF Known
    <3>3. MailStep
      <4>1. CASE t.id \in store
        BY <1>1, <1>2, <2>2, <3>1, <4>1 DEF MailStep, Mail!EntrustingNext, Mail!Next, Mail!Acknowledge
      <4>2. CASE t.id \notin store
        <5>1. store' = store
          BY <1>1, <4>2
        <5> QED BY <1>1, <2>2, <5>1 DEF MailStep
      <4> QED BY <4>1, <4>2
    <3> QED BY <1>1, <2>2, <3>2, <3>3 DEF OutboxInv, Data
  <2> QED BY <2>1, <2>2
<1>4. \E u : Sound(u)' /\ (Becomes(t, u) \/ Finishes(t))
  BY <1>1, <1>3, GoesOnSound
<1>5. link' \in [Tabs -> SUBSET EventIds] /\ \A tab \in Tabs : link'[tab] \subseteq Known
  BY <1>1 DEF OutboxInv, Data
<1> QED BY <1>1, <1>3, <1>4, <1>5, TaskMoves

\* A frame that is handled is recorded and may be acknowledged, one that is
\* dropped leaves the event in the store.
LEMMA FrameKeeps ==
  ASSUME OutboxInv, NEW tab \in Tabs, NEW e \in link[tab],
         FrameHandled(tab, e) \/ FrameDropped(tab, e)
  PROVE  OutboxInv' /\ MailStep
<1>1. /\ link' = [link EXCEPT ![tab] = @ \ {e}] /\ UNCHANGED <<page, store, givenUp, entrusted>>
      /\ received' = received \cup {e} \/ received' = received
  BY DEF FrameHandled, FrameDropped
<1>2. e \in Known /\ e \in EventIds /\ e # NoEvent /\ e \in Tabs \X Nat
  BY EventIdsType DEF OutboxInv, Data
<1>3. /\ link' \in [Tabs -> SUBSET EventIds] /\ \A u \in Tabs : link'[u] \subseteq Known
      /\ store' \subseteq EventIds /\ received \subseteq EventIds /\ givenUp' \cup entrusted' \subseteq EventIds
  BY <1>1 DEF OutboxInv, Data
<1>4. /\ MailStep /\ Known' = Known /\ received' \subseteq EventIds
      /\ received \subseteq received'
  <2>1. CASE received' = received
    BY <1>1, <1>3, <2>1 DEF MailStep, Known
  <2>2. CASE received' = received \cup {e}
    <3>1. PICK es : es = {e}
      OBVIOUS
    <3> QED BY <1>1, <1>2, <1>3, <2>2, <3>1, DeliverStep
  <2> QED BY <1>1, <2>1, <2>2
<1>5. page' \in [Tabs -> Page] /\ \A u \in Tabs : page[u].events <= page'[u].events
  BY <1>1 DEF OutboxInv, Data, Page
<1>6. CASE tasks' = tasks
  <2> DEFINE new == {}
  <2>1. tasks' \subseteq tasks \cup new /\ \A v \in new : Sound(v)'
    BY <1>6
  <2> HIDE DEF new
  <2> QED BY <1>3, <1>4, <1>5, <2>1, TasksStep
<1>7. CASE FrameHandled(tab, e) /\ tasks' = tasks \cup {AckTask(tab, e)}
  <2> DEFINE t == AckTask(tab, e)
  <2>1. /\ t.job = "ack" /\ t.at = "clear" /\ t.id = e /\ t.todo = {} /\ t \in Task
    BY <1>2 DEF AckTask, Task, Jobs, Steps
  <2>2. e \in received'
    BY <1>7 DEF FrameHandled
  <2> HIDE DEF t
  <2>3. Sound(t)'
    BY <1>2, <1>4, <2>1, <2>2 DEF Sound, Unnamed
  <2> DEFINE new == {t}
  <2>4. tasks' \subseteq tasks \cup new
    BY <1>7 DEF t
  <2>5. \A v \in new : Sound(v)'
    BY <2>3
  <2> HIDE DEF new
  <2> QED BY <1>3, <1>4, <1>5, <2>4, <2>5, TasksStep
<1>8. tasks' = tasks \/ (FrameHandled(tab, e) /\ tasks' = tasks \cup {AckTask(tab, e)})
  BY DEF FrameHandled, FrameDropped
<1> QED BY <1>6, <1>7, <1>8

\* A step that changes nothing.
LEMMA StutterKeeps == ASSUME OutboxInv, UNCHANGED vars PROVE OutboxInv' /\ MailStep
<1>1. UNCHANGED <<page, store, tasks, link, received, givenUp, entrusted>>
  BY DEF vars
<1>2. MailStep /\ Known' = Known
  BY <1>1 DEF MailStep, Known
<1>3. Data'
  BY <1>1, <1>2 DEF OutboxInv, Data
<1>4. ASSUME NEW t \in tasks PROVE Sound(t)'
  BY <1>1, <1>2, EndSound
<1> QED BY <1>1, <1>2, <1>3, <1>4 DEF OutboxInv

\* Every step keeps the invariant and is one of DurableEvents or a stutter.
LEMMA StepKeeps == ASSUME OutboxInv, [Next]_vars PROVE OutboxInv' /\ MailStep
<1>1. StoreUnchanged => MailStep
  BY DEF StoreUnchanged, MailStep
<1>2. ASSUME NEW tab \in Tabs, PageStep(tab) PROVE OutboxInv' /\ MailStep
  BY <1>1, <1>2, StartKeeps, VisibilityKeeps, PhaseKeeps, PageHideKeeps, DieKeeps DEF PageStep
<1>3. ASSUME NEW t \in tasks, TaskStep(t) PROVE OutboxInv' /\ MailStep
  BY <1>3, PutKeeps, PruneKeeps, EvictKeeps, ListKeeps, PickKeeps, ClearKeeps, PostKeeps DEF TaskStep
<1>4. ASSUME NEW tab \in Tabs, NEW e \in link[tab], FrameHandled(tab, e) \/ FrameDropped(tab, e)
      PROVE  OutboxInv' /\ MailStep
  BY <1>4, FrameKeeps
<1>5. CASE UNCHANGED vars
  BY <1>5, StutterKeeps
<1> QED BY <1>2, <1>3, <1>4, <1>5 DEF Next

\* lifecycle.ts, outbox.ts and beacon.ts: whatever tabs, crashes, lost requests
\* and answers, prunes and flushes there are, an event reaches the server only
\* after it was persisted, and its entry goes only once the server has it, by
\* the cap, for its age, or for a sendBeacon that had queued it.
THEOREM OutboxImplementsMail == Spec => EntrustingMailSpec
<1>1. Init => OutboxInv
  BY InitHolds
<1>2. OutboxInv /\ [Next]_vars => OutboxInv'
  BY StepKeeps
<1>3. OutboxInv /\ [Next]_vars => [Mail!EntrustingNext]_<<store, received, givenUp, entrusted>>
  BY StepKeeps DEF MailStep
<1>4. Init => Mail!Init
  BY DEF Init, Mail!Init
<1> QED BY <1>1, <1>2, <1>3, <1>4, PTL DEF Spec, EntrustingMailSpec,
  Mail!EntrustingSpec

\* lifecycle.ts, emit, with flushPending and handleAck: the types of all of it,
\* and which tasks name an event.
THEOREM OutboxTypeCorrect == Spec => []OutboxTypeOK
<1>1. Init => OutboxInv
  BY InitHolds
<1>2. OutboxInv /\ [Next]_vars => OutboxInv'
  BY StepKeeps
<1>3. OutboxInv => OutboxTypeOK
  BY DEF OutboxInv, Data, Sound, OutboxTypeOK
<1> QED BY <1>1, <1>2, <1>3, PTL DEF Spec

---------------------------------------------------------------------------
(* The bound of the store.                                                 *)

\* The writes whose prune has not come to its end, and those that evict.
Pending == {t \in tasks : Unpruned(t)}
Evicting == {t \in tasks : t.at = "evict"}

\* What some of the prunes under way will leave of the store.
Left(T) == store \ UNION {t.todo : t \in T}

\* Each event has one emit.
Distinct ==
  \A t, u \in tasks : t.job = "emit" /\ u.job = "emit" /\ t.id = u.id => t = u

\* Whichever prunes are taken to have come to their end, the rest of the writes
\* account for what they leave beyond the limit.
PrunesSuffice ==
  \A T \in SUBSET Evicting :
    Cardinality(Left(T)) <= OUTBOX_MAX_ENTRIES + Cardinality(Pending \ T)

StoreInv == IsFiniteSet(tasks) /\ IsFiniteSet(store) /\ Distinct /\ PrunesSuffice

\* Nothing is stored and nothing runs at first.
LEMMA StoreInit == ASSUME Init PROVE StoreInv
<1>1. tasks = {} /\ store = {}
  BY DEF Init
<1>2. \A T : Left(T) = {}
  BY <1>1 DEF Left
<1>3. \A T : Pending \ T = {}
  BY <1>1 DEF Pending
<1> QED BY <1>1, <1>2, <1>3, FS_EmptySet, OutboxAssumption DEF StoreInv, Distinct, PrunesSuffice

\* What the sets of prunes amount to is a number.
LEMMA Finite ==
  ASSUME StoreInv, NEW T
  PROVE  /\ IsFiniteSet(Left(T)) /\ Cardinality(Left(T)) \in Nat
         /\ IsFiniteSet(Pending) /\ IsFiniteSet(Pending \ T) /\ Cardinality(Pending \ T) \in Nat
         /\ Left(T) \subseteq store /\ Cardinality(Left(T)) <= Cardinality(store)
<1>1. Left(T) \in SUBSET store
  BY DEF Left
<1>2. IsFiniteSet(Left(T)) /\ Cardinality(Left(T)) <= Cardinality(store)
  BY <1>1, FS_Subset DEF StoreInv
<1>3. Pending \in SUBSET tasks /\ Pending \ T \in SUBSET tasks
  BY DEF Pending
<1>4. IsFiniteSet(Pending) /\ IsFiniteSet(Pending \ T)
  BY <1>3, FS_Subset DEF StoreInv
<1> QED BY <1>1, <1>2, <1>4, FS_CardinalityType

\* A step that begins and ends no prune and adds nothing to the store.
LEMMA QuietStep ==
  ASSUME StoreInv, store' \subseteq store, Pending' = Pending, Evicting' = Evicting,
         IsFiniteSet(tasks'), Distinct'
  PROVE  StoreInv'
<1>1. IsFiniteSet(store')
  BY FS_Subset DEF StoreInv
<1>2. ASSUME NEW T \in SUBSET Evicting'
      PROVE  Cardinality(Left(T)') <= OUTBOX_MAX_ENTRIES + Cardinality(Pending' \ T)
  <2>1. Cardinality(Left(T)) <= OUTBOX_MAX_ENTRIES + Cardinality(Pending \ T)
    BY DEF StoreInv, PrunesSuffice
  <2>2. Left(T)' \in SUBSET Left(T)
    BY DEF Left
  <2>3. Cardinality(Left(T)') <= Cardinality(Left(T)) /\ IsFiniteSet(Left(T)')
    BY <2>2, Finite, FS_Subset
  <2>4. Cardinality(Left(T)') \in Nat
    BY <2>3, FS_CardinalityType
  <2> QED BY <2>1, <2>3, <2>4, Finite, OutboxAssumption
<1> QED BY <1>1, <1>2 DEF StoreInv, PrunesSuffice

\* A task that goes on keeps its event.
LEMMA MoveDistinct ==
  ASSUME IsFiniteSet(tasks), Distinct, NEW t \in tasks, NEW u,
         Finishes(t) \/ (Becomes(t, u) /\ u.job = t.job /\ (t.job = "emit" => u.id = t.id))
  PROVE  IsFiniteSet(tasks') /\ Distinct'
<1>1. IsFiniteSet(tasks \ {t}) /\ IsFiniteSet((tasks \ {t}) \cup {u})
  BY FS_RemoveElement, FS_AddElement
<1>2. CASE Finishes(t)
  BY <1>1, <1>2 DEF Finishes, Distinct
<1>3. CASE Becomes(t, u) /\ u.job = t.job /\ (t.job = "emit" => u.id = t.id)
  BY <1>1, <1>3 DEF Becomes, Distinct
<1> QED BY <1>2, <1>3

\* A task that is no prune goes on.
LEMMA OtherTask ==
  ASSUME StoreInv, NEW t \in tasks, ~Unpruned(t), t.at # "evict", store' \subseteq store,
         NEW u, ~Unpruned(u), u.at # "evict",
         Finishes(t) \/ (Becomes(t, u) /\ u.job = t.job /\ (t.job = "emit" => u.id = t.id))
  PROVE  StoreInv'
<1>1. IsFiniteSet(tasks') /\ Distinct'
  BY MoveDistinct DEF StoreInv
<1>2. tasks' = tasks \ {t} \/ tasks' = (tasks \ {t}) \cup {u}
  BY DEF Finishes, Becomes
<1>3. Pending' = Pending
  BY <1>2 DEF Pending, Unpruned
<1>4. Evicting' = Evicting
  BY <1>2 DEF Evicting
<1> QED BY <1>1, <1>3, <1>4, QuietStep

\* New tasks, none of which prunes yet.
LEMMA NewTasks ==
  ASSUME StoreInv, store' = store, NEW new, IsFiniteSet(new), tasks' = tasks \cup new, Distinct',
         \A t \in new : ~Unpruned(t) /\ t.at # "evict"
  PROVE  StoreInv'
<1>1. IsFiniteSet(tasks')
  BY FS_Union DEF StoreInv
<1>2. Pending' = Pending
  BY DEF Pending, Unpruned
<1>3. Evicting' = Evicting
  BY DEF Evicting
<1> QED BY <1>1, <1>2, <1>3, QuietStep

\* The event of an emit is one that its tab has counted.
LEMMA EmitsKnown ==
  ASSUME OutboxInv, NEW t \in tasks, t.job = "emit"
  PROVE  t.id \in EventIds /\ t.id[1] \in Tabs /\ t.id[2] \in Nat
         /\ t.id[2] <= page[t.id[1]].events
<1>1. t.id \in EventIds /\ t.id # NoEvent
  BY DEF OutboxInv, Sound, Task, Unnamed
<1>2. t.id[2] <= page[t.id[1]].events
  BY <1>1 DEF OutboxInv, Data, Sound
<1> QED BY <1>1, <1>2, EventIdsType

\* The events of a handler are new, so each still has one emit.
LEMMA EmittedDistinct ==
  ASSUME OutboxInv, Distinct, NEW tab \in Tabs, NEW count \in Nat, NEW more,
         \A t \in more : t.job # "emit",
         tasks' = tasks \cup more \cup Emitted(tab, count)
  PROVE  Distinct'
<1> DEFINE last == page[tab].events
<1>1. last \in Nat
  BY DEF OutboxInv, Data, Page
<1>2. ASSUME NEW t \in Emitted(tab, count)
      PROVE  \E i \in 1 .. count : t = EmitTask(tab, last + i) /\ t.id = <<tab, last + i>>
  BY DEF Emitted, EmitTask
<1>3. ASSUME NEW t \in Emitted(tab, count), NEW u \in tasks, u.job = "emit" PROVE t.id # u.id
  <2>1. PICK i \in 1 .. count : t.id = <<tab, last + i>>
    BY <1>2
  <2>2. CASE u.id[1] = tab
    BY <1>1, <1>3, <2>1, <2>2, EmitsKnown
  <2>3. CASE u.id[1] # tab
    BY <2>1, <2>3
  <2> QED BY <2>2, <2>3
<1>4. ASSUME NEW t \in Emitted(tab, count), NEW u \in Emitted(tab, count), t.id = u.id PROVE t = u
  <2>1. PICK i \in 1 .. count : t = EmitTask(tab, last + i) /\ t.id = <<tab, last + i>>
    BY <1>2
  <2>2. PICK j \in 1 .. count : u = EmitTask(tab, last + j) /\ u.id = <<tab, last + j>>
    BY <1>2
  <2>3. last + i = last + j
    BY <1>4, <2>1, <2>2
  <2> QED BY <2>1, <2>2, <2>3
<1> QED BY <1>3, <1>4 DEF Distinct

\* A handler emits finitely many.
LEMMA EmittedFinite ==
  ASSUME NEW tab, NEW count \in Nat PROVE IsFiniteSet(Emitted(tab, count))
<1> DEFINE f == [i \in 1 .. count |-> EmitTask(tab, page[tab].events + i)]
<1>1. f \in Surjection(1 .. count, Emitted(tab, count))
  BY DEF Surjection, Emitted
<1>2. IsFiniteSet(1 .. count)
  BY FS_Interval
<1> QED BY <1>1, <1>2, FS_Surjection

\* What the page starts.
LEMMA StartStore ==
  ASSUME OutboxInv, StoreInv, NEW tab \in Tabs, NEW count \in Nat, NEW more, IsFiniteSet(more),
         \A t \in more : t.job # "emit" /\ t.at # "evict",
         tasks' = tasks \cup more \cup Emitted(tab, count), store' = store
  PROVE  StoreInv'
<1> DEFINE new == more \cup Emitted(tab, count)
<1>1. IsFiniteSet(new)
  BY EmittedFinite, FS_Union
<1>2. Distinct'
  BY EmittedDistinct DEF StoreInv
<1>3. \A t \in new : ~Unpruned(t) /\ t.at # "evict"
  BY DEF Unpruned, Emitted, EmitTask
<1>4. tasks' = tasks \cup new
  OBVIOUS
<1> HIDE DEF new
<1> QED BY <1>1, <1>2, <1>3, <1>4, NewTasks

\* One task is a finite set of tasks.
LEMMA FewTasks == \A x : IsFiniteSet({x})
BY FS_Singleton

\* A put, and the first step of a prune.
LEMMA PutStore == ASSUME OutboxInv, StoreInv, NEW t \in tasks, Put(t) PROVE StoreInv'
<1> DEFINE u == [t EXCEPT !.at = "list"]
<1>1. /\ t.at = "put" /\ store' = store \cup {t.id} /\ Becomes(t, u)
      /\ t \in Task /\ t.job = "emit" /\ t.id \notin Known
  BY DEF Put, OutboxInv, Sound, EmitTask
<1>2. u.job = t.job /\ u.id = t.id /\ u.at = "list"
  BY <1>1 DEF Task
<1>3. u \notin tasks
  BY <1>1, <1>2 DEF StoreInv, Distinct
<1> HIDE DEF u
<1>4. IsFiniteSet(tasks') /\ Distinct'
  BY <1>1, <1>2, MoveDistinct DEF StoreInv
<1>5. tasks' = (tasks \ {t}) \cup {u}
  BY <1>1 DEF Becomes
<1>6. Pending' = Pending \cup {u} /\ u \notin Pending
  BY <1>1, <1>2, <1>3, <1>5 DEF Pending, Unpruned
<1>7. Evicting' = Evicting
  BY <1>1, <1>2, <1>5 DEF Evicting
<1>8. IsFiniteSet(store')
  BY <1>1, FS_AddElement DEF StoreInv
<1>9. ASSUME NEW T \in SUBSET Evicting'
      PROVE  Cardinality(Left(T)') <= OUTBOX_MAX_ENTRIES + Cardinality(Pending' \ T)
  <2>0. /\ IsFiniteSet(Left(T)) /\ Cardinality(Left(T)) \in Nat
        /\ IsFiniteSet(Pending \ T) /\ Cardinality(Pending \ T) \in Nat
    BY Finite
  <2>1. Cardinality(Left(T)) <= OUTBOX_MAX_ENTRIES + Cardinality(Pending \ T)
    BY <1>7, <1>9 DEF StoreInv, PrunesSuffice
  <2>2. Left(T)' \in SUBSET (Left(T) \cup {t.id})
    BY <1>1 DEF Left
  <2>3. /\ IsFiniteSet(Left(T) \cup {t.id})
        /\ Cardinality(Left(T) \cup {t.id}) <= Cardinality(Left(T)) + 1
    BY <2>0, FS_AddElement
  <2>4. /\ Cardinality(Left(T)') <= Cardinality(Left(T) \cup {t.id})
        /\ IsFiniteSet(Left(T)')
    BY <2>2, <2>3, FS_Subset
  <2>5. Cardinality(Left(T)') \in Nat /\ Cardinality(Left(T) \cup {t.id}) \in Nat
    BY <2>3, <2>4, FS_CardinalityType
  <2>6. u \notin T
    BY <1>3, <1>7, <1>9 DEF Evicting
  <2>7. Pending' \ T = (Pending \ T) \cup {u} /\ u \notin Pending \ T
    BY <1>6, <2>6
  <2>8. Cardinality(Pending' \ T) = Cardinality(Pending \ T) + 1
    BY <2>0, <2>7, FS_AddElement
  <2> QED BY <2>0, <2>1, <2>3, <2>4, <2>5, <2>8, OutboxAssumption
<1> QED BY <1>4, <1>8, <1>9 DEF StoreInv, PrunesSuffice

\* One task in the place of another.
LEMMA SwapCard ==
  ASSUME NEW P, IsFiniteSet(P), NEW t \in P, NEW u, u \notin P
  PROVE  Cardinality((P \ {t}) \cup {u}) = Cardinality(P)
<1>1. IsFiniteSet(P \ {t}) /\ Cardinality(P \ {t}) = Cardinality(P) - 1
  BY FS_RemoveElement
<1>2. Cardinality((P \ {t}) \cup {u}) = Cardinality(P \ {t}) + 1
  BY <1>1, FS_AddElement
<1> QED BY <1>1, <1>2, FS_CardinalityType

\* The end of a prune: the emit goes on to send.
LEMMA RouteTasks ==
  ASSUME OutboxInv, StoreInv, NEW t \in tasks, t.job = "emit", Route(t)
  PROVE  /\ IsFiniteSet(tasks') /\ Distinct'
         /\ Pending' = Pending \ {t} /\ Evicting' = Evicting \ {t}
<1>1. t \in Task
  BY DEF OutboxInv, Sound
<1>2. PICK u : u = [t EXCEPT !.at = "post", !.todo = {}]
  OBVIOUS
<1>3. u.job = t.job /\ u.id = t.id /\ u.at = "post"
  BY <1>1, <1>2 DEF Task
<1>4. Finishes(t) \/ Becomes(t, u)
  BY <1>2 DEF Route
<1>5. IsFiniteSet(tasks') /\ Distinct'
  BY <1>3, <1>4, MoveDistinct DEF StoreInv
<1>6. tasks' = tasks \ {t} \/ tasks' = (tasks \ {t}) \cup {u}
  BY <1>4 DEF Finishes, Becomes
<1>7. Pending' = Pending \ {t}
  BY <1>3, <1>6 DEF Pending, Unpruned
<1>8. Evicting' = Evicting \ {t}
  BY <1>3, <1>6 DEF Evicting
<1> QED BY <1>5, <1>7, <1>8

\* A prune that goes on, with what it is to evict.
LEMMA EvictingTasks ==
  ASSUME OutboxInv, StoreInv, NEW t \in tasks, t.job = "emit", Unpruned(t),
         NEW u, u.job = "emit", u.at = "evict", u.id = t.id, u # t, Becomes(t, u)
  PROVE  /\ IsFiniteSet(tasks') /\ Distinct' /\ u \notin tasks
         /\ Pending' = (Pending \ {t}) \cup {u} /\ Evicting' = (Evicting \ {t}) \cup {u}
<1>1. IsFiniteSet(tasks') /\ Distinct'
  BY MoveDistinct DEF StoreInv
<1>2. u \notin tasks
  BY DEF StoreInv, Distinct
<1>3. Pending' = (Pending \ {t}) \cup {u}
  BY DEF Becomes, Pending, Unpruned
<1>4. Evicting' = (Evicting \ {t}) \cup {u}
  BY DEF Becomes, Evicting
<1> QED BY <1>1, <1>2, <1>3, <1>4

LEMMA PruneStore == ASSUME OutboxInv, StoreInv, NEW t \in tasks, Prune(t) PROVE StoreInv'
<1>1. t.at = "list" /\ t.job = "emit" /\ store' = store /\ t \in Task /\ t \in Pending
  BY DEF Prune, OutboxInv, Sound, Pending, Unpruned
<1>2. PICK d \in Excess(store) :
        IF d = {} THEN Route(t)
        ELSE Becomes(t, [t EXCEPT !.at = "evict", !.todo = d]) /\ UNCHANGED link
  BY DEF Prune
<1>3. IsFiniteSet(store') /\ Cardinality(store) \in Nat
  BY <1>1, FS_CardinalityType DEF StoreInv
<1>4. \A T : /\ Left(T)' = Left(T) /\ IsFiniteSet(Left(T)) /\ Cardinality(Left(T)) \in Nat
             /\ Cardinality(Left(T)) <= Cardinality(store)
  BY <1>1, Finite DEF Left
<1>5. CASE d = {}
  <2>1. IsFiniteSet(tasks') /\ Distinct' /\ Pending' = Pending \ {t}
    BY <1>1, <1>2, <1>5, RouteTasks
  <2>2. Cardinality(store) <= OUTBOX_MAX_ENTRIES
    <3>1. Cardinality(store \ {}) = OUTBOX_MAX_ENTRIES \/ Cardinality(store) <= OUTBOX_MAX_ENTRIES
      BY <1>2, <1>5 DEF Excess
    <3>2. store \ {} = store
      OBVIOUS
    <3> QED BY <3>1, <3>2, <1>3, OutboxAssumption
  <2>3. ASSUME NEW T PROVE Cardinality(Pending' \ T) \in Nat
    <3>1. Pending' \ T \in SUBSET Pending
      BY <2>1
    <3>2. IsFiniteSet(Pending)
      BY Finite
    <3> QED BY <3>1, <3>2, FS_Subset, FS_CardinalityType
  <2>4. ASSUME NEW T \in SUBSET Evicting'
        PROVE  Cardinality(Left(T)') <= OUTBOX_MAX_ENTRIES + Cardinality(Pending' \ T)
    <3>1. Cardinality(Left(T)) <= Cardinality(store) /\ Cardinality(Left(T)) \in Nat
          /\ Left(T)' = Left(T)
      BY <1>4
    <3>2. Cardinality(Pending' \ T) \in Nat
      BY <2>3
    <3> QED BY <1>3, <2>2, <3>1, <3>2, OutboxAssumption
  <2> QED BY <1>3, <2>1, <2>4 DEF StoreInv, PrunesSuffice
<1>6. CASE d # {}
  <2> DEFINE u == [t EXCEPT !.at = "evict", !.todo = d]
  <2>1. u.job = "emit" /\ u.at = "evict" /\ u.id = t.id /\ u.todo = d /\ u # t
    BY <1>1 DEF Task
  <2>2. Becomes(t, u)
    BY <1>2, <1>6
  <2> HIDE DEF u
  <2>3. /\ IsFiniteSet(tasks') /\ Distinct' /\ u \notin tasks
        /\ Pending' = (Pending \ {t}) \cup {u} /\ Evicting' = (Evicting \ {t}) \cup {u}
    BY <1>1, <2>1, <2>2, EvictingTasks DEF Pending
  <2>4. Cardinality(store \ d) <= OUTBOX_MAX_ENTRIES /\ IsFiniteSet(store \ d)
    <3>1. Cardinality(store \ d) = OUTBOX_MAX_ENTRIES
      BY <1>2, <1>6 DEF Excess
    <3>2. IsFiniteSet(store \ d)
      BY FS_Difference DEF StoreInv
    <3> QED BY <3>1, <3>2, OutboxAssumption
  <2>5. ASSUME NEW T \in SUBSET Evicting'
        PROVE  Cardinality(Left(T)) <= OUTBOX_MAX_ENTRIES + Cardinality(Pending' \ T)
    <3>1. CASE u \in T
      <4>1. Left(T) \in SUBSET (store \ d)
        BY <2>1, <3>1 DEF Left
      <4>2. Cardinality(Left(T)) <= Cardinality(store \ d)
        BY <2>4, <4>1, FS_Subset
      <4>3. IsFiniteSet(Pending) /\ IsFiniteSet((Pending \ {t}) \cup {u})
        BY Finite, FS_RemoveElement, FS_AddElement
      <4>4. Pending' \ T \in SUBSET ((Pending \ {t}) \cup {u})
        BY <2>3
      <4>5. Cardinality(Pending' \ T) \in Nat
        BY <4>3, <4>4, FS_Subset, FS_CardinalityType
      <4>6. Cardinality(Left(T)) \in Nat /\ Cardinality(store \ d) \in Nat
        BY <1>4, <2>4, FS_CardinalityType
      <4> QED BY <2>4, <4>2, <4>5, <4>6, OutboxAssumption
    <3>2. CASE u \notin T
      <4>1. T \in SUBSET Evicting /\ t \notin T
        BY <1>1, <2>3, <3>2 DEF Evicting
      <4>2. t \in Pending \ T /\ u \notin Pending \ T /\ IsFiniteSet(Pending \ T)
        BY <1>1, <2>3, <4>1, Finite DEF Pending
      <4>3. Pending' \ T = ((Pending \ T) \ {t}) \cup {u}
        BY <2>3, <3>2
      <4>4. Cardinality(Pending' \ T) = Cardinality(Pending \ T)
        BY <4>2, <4>3, SwapCard
      <4> QED BY <4>1, <4>4 DEF StoreInv, PrunesSuffice
    <3> QED BY <3>1, <3>2
  <2>6. ASSUME NEW T \in SUBSET Evicting'
        PROVE  Cardinality(Left(T)') <= OUTBOX_MAX_ENTRIES + Cardinality(Pending' \ T)
    BY <1>4, <2>5
  <2> QED BY <1>3, <2>3, <2>6 DEF StoreInv, PrunesSuffice
<1> QED BY <1>5, <1>6

\* An eviction, and the end of a prune: what this prune has taken from the store
\* it no longer has to.
LEMMA EvictStore == ASSUME OutboxInv, StoreInv, NEW t \in tasks, Evict(t) PROVE StoreInv'
<1>1. t.at = "evict" /\ t.job = "emit" /\ t \in Task /\ t \in Pending /\ t \in Evicting
  BY DEF Evict, OutboxInv, Sound, Pending, Evicting, Unpruned
<1>2. PICK e \in t.todo :
        /\ store' = store \ {e}
        /\ IF t.todo = {e} THEN Route(t)
           ELSE Becomes(t, [t EXCEPT !.todo = @ \ {e}]) /\ UNCHANGED link
  BY DEF Evict
<1>3. IsFiniteSet(store')
  BY <1>2, FS_RemoveElement DEF StoreInv
<1>4. ASSUME NEW T \in SUBSET Evicting
      PROVE  /\ Cardinality(Left(T)) <= OUTBOX_MAX_ENTRIES + Cardinality(Pending \ T)
             /\ IsFiniteSet(Left(T)) /\ IsFiniteSet(Pending \ T)
             /\ Cardinality(Left(T)) \in Nat /\ Cardinality(Pending \ T) \in Nat
  BY Finite DEF StoreInv, PrunesSuffice
<1>5. CASE t.todo = {e}
  <2>1. /\ IsFiniteSet(tasks') /\ Distinct'
        /\ Pending' = Pending \ {t} /\ Evicting' = Evicting \ {t}
    BY <1>1, <1>2, <1>5, RouteTasks
  <2>2. ASSUME NEW T \in SUBSET Evicting'
        PROVE  Cardinality(Left(T)') <= OUTBOX_MAX_ENTRIES + Cardinality(Pending' \ T)
    <3>1. T \cup {t} \in SUBSET Evicting
      BY <1>1, <2>1
    <3>2. Left(T)' = Left(T \cup {t})
      BY <1>2, <1>5 DEF Left
    <3>3. Pending' \ T = Pending \ (T \cup {t})
      BY <2>1
    <3> QED BY <1>4, <3>1, <3>2, <3>3
  <2> QED BY <1>3, <2>1, <2>2 DEF StoreInv, PrunesSuffice
<1>6. CASE t.todo # {e}
  <2> DEFINE u == [t EXCEPT !.todo = @ \ {e}]
  <2>1. u.job = "emit" /\ u.at = "evict" /\ u.id = t.id /\ u.todo = t.todo \ {e} /\ u # t
    BY <1>1, <1>2 DEF Task
  <2>2. Becomes(t, u)
    BY <1>2, <1>6
  <2> HIDE DEF u
  <2>3. /\ IsFiniteSet(tasks') /\ Distinct' /\ u \notin tasks
        /\ Pending' = (Pending \ {t}) \cup {u} /\ Evicting' = (Evicting \ {t}) \cup {u}
    BY <1>1, <2>1, <2>2, EvictingTasks DEF Pending
  <2>4. ASSUME NEW T \in SUBSET Evicting'
        PROVE  Cardinality(Left(T)') <= OUTBOX_MAX_ENTRIES + Cardinality(Pending' \ T)
    <3>1. CASE u \in T
      <4> DEFINE R == (T \ {u}) \cup {t}
      <4>1. R \in SUBSET Evicting
        BY <1>1, <2>3
      <4>2. Left(T)' = Left(R)
        BY <1>2, <2>1, <3>1 DEF Left
      <4>3. t \notin T
        BY <2>1, <2>3
      <4>4. Pending' \ T = Pending \ R
        BY <2>3, <3>1, <4>3 DEF Pending
      <4> HIDE DEF R
      <4> QED BY <1>4, <4>1, <4>2, <4>4
    <3>2. CASE u \notin T
      <4>1. T \in SUBSET Evicting /\ t \notin T
        BY <2>1, <2>3, <3>2
      <4>2. t \in Pending \ T /\ u \notin Pending \ T
        BY <1>1, <2>3, <4>1 DEF Pending
      <4>3. Pending' \ T = ((Pending \ T) \ {t}) \cup {u}
        BY <2>3, <3>2
      <4>4. Cardinality(Pending' \ T) = Cardinality(Pending \ T)
        <5>1. IsFiniteSet(Pending \ T)
          BY Finite
        <5> QED BY <4>2, <4>3, <5>1, SwapCard
      <4>5. Left(T)' \in SUBSET Left(T)
        BY <1>2 DEF Left
      <4>6. IsFiniteSet(Left(T)') /\ Cardinality(Left(T)') <= Cardinality(Left(T))
        BY <1>4, <4>1, <4>5, FS_Subset
      <4>7. Cardinality(Left(T)') \in Nat
        BY <4>6, FS_CardinalityType
      <4> QED BY <1>4, <4>1, <4>4, <4>6, <4>7, OutboxAssumption
    <3> QED BY <3>1, <3>2
  <2> QED BY <1>3, <2>3, <2>4 DEF StoreInv, PrunesSuffice
<1> QED BY <1>5, <1>6

\* What becomes of a task when the page of a tab dies, if it stays on record.
Dead(t) == [t EXCEPT !.at = "killed", !.todo = {}]
After(tab, t) == IF t.tab = tab THEN Dead(t) ELSE t

\* A page dies: its prunes stay on record, with nothing left to evict.
LEMMA DieStore == ASSUME OutboxInv, StoreInv, NEW tab \in Tabs, Die(tab) PROVE StoreInv'
<1> DEFINE own == {t \in tasks : t.tab = tab}
           ended == {Dead(t) : t \in {u \in own : Unpruned(u)}}
<1>1. tasks' = (tasks \ own) \cup ended /\ store' = store
  BY DEF Die, Dead
<1>2. ASSUME NEW t \in tasks
      PROVE  /\ t \in Task /\ Dead(t).at = "killed" /\ Dead(t).job = t.job
             /\ Dead(t).id = t.id /\ Dead(t).tab = t.tab
             /\ Unpruned(t) => Unpruned(Dead(t))
             /\ Unpruned(t) => t.job = "emit"
  BY DEF OutboxInv, Sound, Task, Unpruned, Dead
<1>3. \A v \in tasks' : \E t \in tasks :
        /\ v = After(tab, t) /\ v.job = t.job /\ v.id = t.id
        /\ t.tab = tab => Unpruned(t)
  BY <1>1, <1>2 DEF After
<1> HIDE DEF own, ended
<1>4. Distinct'
  <2> SUFFICES ASSUME NEW v \in tasks', NEW w \in tasks', v.job = "emit", w.job = "emit", v.id = w.id
               PROVE  v = w
    BY DEF Distinct
  <2>1. PICK t \in tasks : v = After(tab, t) /\ v.job = t.job /\ v.id = t.id
    BY <1>3
  <2>2. PICK u \in tasks : w = After(tab, u) /\ w.job = u.job /\ w.id = u.id
    BY <1>3
  <2>3. t = u
    BY <2>1, <2>2 DEF StoreInv, Distinct
  <2> QED BY <2>1, <2>2, <2>3
<1>5. ASSUME NEW T \in SUBSET tasks, \A t \in T : t.tab # tab
      PROVE  /\ IsFiniteSet(Pending' \ T)
             /\ Cardinality(Pending' \ T) = Cardinality(Pending \ T)
  <2> DEFINE f == [t \in Pending \ T |-> After(tab, t)]
  <2>1. ASSUME NEW t \in Pending \ T PROVE f[t] \in Pending' \ T
    <3>1. t \in tasks /\ Unpruned(t) /\ t \notin T
      BY DEF Pending
    <3>2. CASE t.tab = tab
      <4>1. Dead(t) \in tasks' /\ Unpruned(Dead(t)) /\ Dead(t).tab = tab
        BY <1>1, <1>2, <3>1, <3>2 DEF own, ended
      <4> QED BY <1>5, <3>2, <4>1 DEF Pending, After
    <3>3. CASE t.tab # tab
      BY <1>1, <3>1, <3>3 DEF Pending, After, own
    <3> QED BY <3>2, <3>3
  <2>2. ASSUME NEW t \in Pending \ T, NEW u \in Pending \ T, f[t] = f[u] PROVE t = u
    <3>1. t \in tasks /\ u \in tasks /\ Unpruned(t) /\ Unpruned(u)
      BY DEF Pending
    <3>2. After(tab, t).id = t.id /\ After(tab, u).id = u.id
      BY <1>2, <3>1 DEF After
    <3>3. t.id = u.id
      BY <2>2, <3>2
    <3> QED BY <1>2, <3>1, <3>3 DEF StoreInv, Distinct
  <2>3. ASSUME NEW v \in Pending' \ T PROVE \E t \in Pending \ T : f[t] = v
    <3>1. v \in tasks' /\ Unpruned(v) /\ v \notin T
      BY DEF Pending, Unpruned
    <3>2. PICK t \in tasks : v = After(tab, t) /\ (t.tab = tab => Unpruned(t))
      BY <1>3, <3>1
    <3>3. Unpruned(t)
      BY <3>1, <3>2 DEF After
    <3>4. t \notin T
      BY <1>5, <3>1, <3>2 DEF After
    <3> QED BY <3>2, <3>3, <3>4 DEF Pending
  <2>4. f \in Bijection(Pending \ T, Pending' \ T)
    BY <2>1, <2>2, <2>3 DEF Bijection, Injection, Surjection, IsInjective
  <2>5. ExistsBijection(Pending \ T, Pending' \ T)
    BY <2>4 DEF ExistsBijection
  <2>6. IsFiniteSet(Pending \ T)
    BY Finite
  <2> HIDE DEF f
  <2> QED BY <2>5, <2>6, FS_Bijection
<1>6. Evicting' \subseteq Evicting /\ \A t \in Evicting' : t.tab # tab /\ t \in tasks
  <2> SUFFICES ASSUME NEW v \in Evicting' PROVE v \in Evicting /\ v.tab # tab /\ v \in tasks
    OBVIOUS
  <2>1. v \in tasks' /\ v.at = "evict"
    BY DEF Evicting
  <2>2. PICK t \in tasks : v = After(tab, t)
    BY <1>3, <2>1
  <2>3. t.tab # tab
    BY <1>2, <2>1, <2>2 DEF After
  <2> QED BY <2>1, <2>2, <2>3 DEF Evicting, After
<1>7. IsFiniteSet(tasks')
  <2>1. IsFiniteSet(Pending')
    <3>1. IsFiniteSet(Pending' \ {})
      BY <1>5
    <3>2. Pending' \ {} = Pending'
      OBVIOUS
    <3> QED BY <3>1, <3>2
  <2>2. ended \subseteq Pending'
    <3> SUFFICES ASSUME NEW v \in ended PROVE v \in Pending'
      OBVIOUS
    <3>1. PICK t \in tasks : v = Dead(t) /\ Unpruned(t)
      BY DEF ended, own
    <3>2. Unpruned(v)
      BY <1>2, <3>1
    <3> QED BY <1>1, <3>2 DEF Pending, Unpruned
  <2>3. IsFiniteSet(tasks \ own) /\ IsFiniteSet(ended)
    <3>1. IsFiniteSet(tasks \ own)
      BY FS_Difference DEF StoreInv
    <3> QED BY <2>1, <2>2, <3>1, FS_Subset
  <2> QED BY <1>1, <2>3, FS_Union
<1>8. ASSUME NEW T \in SUBSET Evicting'
      PROVE  Cardinality(Left(T)') <= OUTBOX_MAX_ENTRIES + Cardinality(Pending' \ T)
  <2>1. T \in SUBSET Evicting /\ T \in SUBSET tasks /\ \A t \in T : t.tab # tab
    BY <1>6
  <2>2. Cardinality(Left(T)) <= OUTBOX_MAX_ENTRIES + Cardinality(Pending \ T)
    BY <2>1 DEF StoreInv, PrunesSuffice
  <2>3. Left(T)' = Left(T)
    BY <1>1 DEF Left
  <2>4. Cardinality(Pending' \ T) = Cardinality(Pending \ T)
    BY <1>5, <2>1
  <2> QED BY <2>2, <2>3, <2>4
<1> QED BY <1>1, <1>4, <1>7, <1>8 DEF StoreInv, PrunesSuffice

\* A page that starts, changes its visibility or is hidden.
LEMMA PageStore ==
  ASSUME OutboxInv, StoreInv, NEW tab \in Tabs,
         Start(tab) \/ VisibilityChange(tab) \/ \E job \in {"replay", "bestEffort"} : PageHide(tab, job)
  PROVE  StoreInv'
<1>1. CASE Start(tab)
  <2>1. PICK visible \in BOOLEAN :
          LET opens == visible /\ ~page[tab].sessionOpen
              count == IF opens THEN 1 ELSE 0
          IN  tasks' = tasks \cup {FlushTask(tab, "replay")} \cup Emitted(tab, count)
    BY <1>1 DEF Start
  <2> DEFINE count == IF visible /\ ~page[tab].sessionOpen THEN 1 ELSE 0
             more == {FlushTask(tab, "replay")}
  <2>2. count \in Nat /\ tasks' = tasks \cup more \cup Emitted(tab, count) /\ store' = store
    BY <1>1, <2>1 DEF Start
  <2>3. IsFiniteSet(more) /\ \A t \in more : t.job # "emit" /\ t.at # "evict"
    <3>1. \A t \in more : t.job = "replay" /\ t.at = "list"
      BY DEF FlushTask
    <3>2. IsFiniteSet(more)
      BY FewTasks
    <3> QED BY <3>1, <3>2
  <2> HIDE DEF count, more
  <2> QED BY <2>2, <2>3, StartStore
<1>2. CASE VisibilityChange(tab)
  <2> DEFINE visible == ~page[tab].visible
             count == IF visible = page[tab].sessionOpen THEN 1 ELSE 2
             more == {}
  <2>1. tasks' = tasks \cup Emitted(tab, count) /\ store' = store
    BY <1>2 DEF VisibilityChange
  <2>3. count \in Nat
    OBVIOUS
  <2>2. IsFiniteSet(more) /\ \A t \in more : t.job # "emit" /\ t.at # "evict"
    <3>1. IsFiniteSet({})
      BY FS_EmptySet
    <3>2. more = {} /\ \A t : t \notin more
      OBVIOUS
    <3> HIDE DEF more
    <3> QED BY <3>1, <3>2
  <2>4. tasks' = tasks \cup more \cup Emitted(tab, count)
    BY <2>1
  <2> HIDE DEF count, more
  <2> QED BY <2>1, <2>2, <2>3, <2>4, StartStore
<1>3. CASE \E job \in {"replay", "bestEffort"} : PageHide(tab, job)
  <2>1. PICK job \in {"replay", "bestEffort"} : PageHide(tab, job)
    BY <1>3
  <2> DEFINE new == {FlushTask(tab, job)}
  <2>2. tasks' = tasks \cup new /\ store' = store
    BY <2>1 DEF PageHide
  <2>3. /\ IsFiniteSet(new)
        /\ \A t \in new : t.job # "emit" /\ ~Unpruned(t) /\ t.at # "evict"
    <3>1. \A t \in new : t.job = job /\ t.at = "list"
      BY DEF FlushTask
    <3>2. IsFiniteSet(new)
      BY FewTasks
    <3> QED BY <3>1, <3>2 DEF Unpruned
  <2> HIDE DEF new
  <2>4. Distinct'
    BY <2>2, <2>3 DEF StoreInv, Distinct
  <2> QED BY <2>2, <2>3, <2>4, NewTasks
<1> QED BY <1>1, <1>2, <1>3

\* Steps that leave store and tasks alone.
LEMMA SameStore == ASSUME StoreInv, store' = store, tasks' = tasks PROVE StoreInv'
<1>1. Pending' = Pending /\ Evicting' = Evicting /\ Distinct'
  BY DEF StoreInv, Pending, Evicting, Distinct
<1> QED BY <1>1, QuietStep DEF StoreInv

\* The steps of a task that neither writes nor prunes.
LEMMA FlushStore ==
  ASSUME OutboxInv, StoreInv, NEW t \in tasks,
         List(t) \/ Pick(t) \/ Clear(t) \/ PostArrives(t) \/ PostFails(t)
  PROVE  StoreInv'
<1>1. /\ t \in Task /\ store' \subseteq store
      /\ ~Unpruned(t) /\ t.at # "evict"
  <2>1. t \in Task
    BY DEF OutboxInv, Sound
  <2>2. t.at \in {"list", "pick", "clear", "post"} /\ (t.at = "list" => t.job # "emit")
    BY DEF List, Pick, Clear, PostArrives, PostFails
  <2>3. store' \subseteq store
    <3>1. CASE Pick(t)
      BY <3>1 DEF Pick, Expire, Send
    <3> QED BY <3>1 DEF List, Clear, PostArrives, PostFails
  <2> QED BY <2>1, <2>2, <2>3 DEF Unpruned
<1>2. ASSUME NEW u, u.job = t.job, u.at \in {"pick", "post", "clear"},
             t.job = "emit" => u.id = t.id, Becomes(t, u)
      PROVE  StoreInv'
  BY <1>1, <1>2, OtherTask DEF Unpruned
<1>3. CASE Finishes(t)
  BY <1>1, <1>3, OtherTask
<1>4. CASE GoesOn(t)
  <2>1. CASE t.job \in {"replay", "bestEffort"}
    <3> DEFINE u == [t EXCEPT !.at = "pick", !.id = NoEvent]
    <3>1. u.job = t.job /\ u.at = "pick" /\ Becomes(t, u) /\ t.job # "emit"
      BY <1>1, <1>4, <2>1 DEF GoesOn, Task
    <3> HIDE DEF u
    <3> QED BY <1>2, <3>1
  <2> QED BY <1>3, <1>4, <2>1 DEF GoesOn
<1>5. CASE List(t)
  <2> DEFINE u == [t EXCEPT !.at = "pick", !.todo = store]
  <2>1. u.job = t.job /\ u.at = "pick" /\ u.id = t.id /\ Becomes(t, u)
    BY <1>1, <1>5 DEF List, Task
  <2> HIDE DEF u
  <2> QED BY <1>2, <2>1
<1>6. CASE PostArrives(t) \/ PostFails(t)
  <2>1. CASE Becomes(t, [t EXCEPT !.at = "clear"])
    <3> DEFINE u == [t EXCEPT !.at = "clear"]
    <3>1. u.job = t.job /\ u.at = "clear" /\ u.id = t.id /\ Becomes(t, u)
      BY <1>1, <2>1 DEF Task
    <3> HIDE DEF u
    <3> QED BY <1>2, <3>1
  <2> QED BY <1>4, <1>6, <2>1 DEF PostArrives, PostFails
<1>7. CASE Pick(t)
  <2>1. CASE Finishes(t)
    BY <1>3, <2>1
  <2>2. ASSUME NEW e \in t.todo, Becomes(t, [t EXCEPT !.todo = @ \ {e}]) PROVE StoreInv'
    <3> DEFINE u == [t EXCEPT !.todo = @ \ {e}]
    <3>1. u.job = t.job /\ u.at = "pick" /\ u.id = t.id /\ Becomes(t, u)
      BY <1>1, <1>7, <2>2 DEF Task, Pick
    <3> HIDE DEF u
    <3> QED BY <1>2, <3>1
  <2>3. ASSUME NEW e \in t.todo, NEW at \in {"post", "clear"}, t.job # "emit",
               Becomes(t, [t EXCEPT !.at = at, !.id = e, !.todo = @ \ {e}])
        PROVE  StoreInv'
    <3> DEFINE u == [t EXCEPT !.at = at, !.id = e, !.todo = @ \ {e}]
    <3>1. u.job = t.job /\ u.at = at /\ Becomes(t, u)
      BY <1>1, <2>3 DEF Task
    <3> HIDE DEF u
    <3> QED BY <1>2, <2>3, <3>1
  <2> QED BY <1>7, <2>1, <2>2, <2>3 DEF Pick, Expire, Send
<1> QED BY <1>4, <1>5, <1>6, <1>7 DEF Clear

\* A frame that is handled may be acknowledged.
LEMMA FrameStore ==
  ASSUME OutboxInv, StoreInv, NEW tab \in Tabs, NEW e \in link[tab],
         FrameHandled(tab, e) \/ FrameDropped(tab, e)
  PROVE  StoreInv'
<1>1. store' = store /\ (tasks' = tasks \/ tasks' = tasks \cup {AckTask(tab, e)})
  BY DEF FrameHandled, FrameDropped
<1>2. CASE tasks' = tasks
  BY <1>1, <1>2, SameStore
<1>3. CASE tasks' = tasks \cup {AckTask(tab, e)}
  <2> DEFINE new == {AckTask(tab, e)}
  <2>1. \A t \in new : t.job = "ack" /\ t.at = "clear"
    BY DEF AckTask
  <2>2. IsFiniteSet(new) /\ tasks' = tasks \cup new
    BY <1>3, FewTasks
  <2> HIDE DEF new
  <2>3. Distinct'
    BY <2>1, <2>2 DEF StoreInv, Distinct
  <2> QED BY <1>1, <2>1, <2>2, <2>3, NewTasks DEF Unpruned
<1> QED BY <1>1, <1>2, <1>3

\* Every step keeps what the prunes suffice for.
LEMMA StoreKept == ASSUME OutboxInv, StoreInv, [Next]_vars PROVE StoreInv'
<1>1. ASSUME NEW tab \in Tabs, PageStep(tab) PROVE StoreInv'
  <2>1. CASE Resume(tab) \/ Stop(tab) \/ SocketOpens(tab) \/ SocketLost(tab)
    BY <2>1, SameStore DEF Resume, Stop, SocketOpens, SocketLost
  <2> QED BY <1>1, <2>1, PageStore, DieStore DEF PageStep
<1>2. ASSUME NEW t \in tasks, TaskStep(t) PROVE StoreInv'
  BY <1>2, PutStore, PruneStore, EvictStore, FlushStore DEF TaskStep
<1>3. ASSUME NEW tab \in Tabs, NEW e \in link[tab], FrameHandled(tab, e) \/ FrameDropped(tab, e)
      PROVE  StoreInv'
  BY <1>3, FrameStore
<1>4. CASE UNCHANGED vars
  BY <1>4, SameStore DEF vars
<1> QED BY <1>1, <1>2, <1>3, <1>4 DEF Next

\* outbox.ts, prune(): whatever tabs write, prune, flush and die at once, the
\* store exceeds its limit by no more than the writes whose prune has not ended.
THEOREM StoreIsBounded == Spec => []StoreBounded
<1>1. Init => OutboxInv /\ StoreInv
  BY InitHolds, StoreInit
<1>2. OutboxInv /\ StoreInv /\ [Next]_vars => (OutboxInv /\ StoreInv)'
  BY StepKeeps, StoreKept
<1>3. StoreInv => StoreBounded
  <2> SUFFICES ASSUME StoreInv PROVE StoreBounded
    OBVIOUS
  <2>1. Cardinality(Left({})) <= OUTBOX_MAX_ENTRIES + Cardinality(Pending \ {})
    BY DEF StoreInv, PrunesSuffice
  <2>2. Left({}) = store /\ Pending \ {} = Pending
    BY DEF Left
  <2> QED BY <2>1, <2>2 DEF StoreBounded, Pending
<1> QED BY <1>1, <1>2, <1>3, PTL DEF Spec
============================
