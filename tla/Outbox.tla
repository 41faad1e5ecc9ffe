---- MODULE Outbox ----
(***************************************************************************)
(* Lifecycle events of the pages of one origin and the outbox they are     *)
(* persisted in: packages/client/src/lifecycle, outbox and beacon.  All    *)
(* tabs of an origin share one IndexedDB store, and a page may die at any  *)
(* await.  What it left in the store is replayed by the next page load, in *)
(* its tab or in another.                                                  *)
(*                                                                         *)
(* An async call is a task that takes one step per awaited operation, so   *)
(* that the steps of all tasks of all pages interleave.  Storage calls do  *)
(* not fail here; requests, frames and acknowledgements may.  createdAt is *)
(* left out: which entries are oldest, and which have expired when a flush *)
(* comes to them, is open (it is the wall clock, and events of one handler *)
(* tie).                                                                   *)
(***************************************************************************)
EXTENDS Integers, FiniteSets

CONSTANTS
  Tabs,                \* each shows one page after another
  NoEvent,             \* the id of a flush that sends nothing yet
  OUTBOX_MAX_ENTRIES,
  MaxEvents,           \* [Tabs -> Nat]: bounds on the events,
  MaxFlushes,          \* [Tabs -> Nat]: the flushes
  MaxSockets,          \* [Tabs -> Nat]: and the connections of a tab,
  MaxTasks             \* and the async calls there are at once

\* The n-th event a tab emits.
EventIds == UNION {{tab} \X (1 .. MaxEvents[tab]) : tab \in Tabs}

ASSUME OutboxAssumption ==
  /\ OUTBOX_MAX_ENTRIES \in Nat
  /\ MaxEvents \in [Tabs -> Nat]
  /\ NoEvent \notin EventIds

VARIABLES
  page,      \* of each tab: its page, that is a phase and the variables of lifecycle.ts
  store,     \* the IndexedDB store: the ids of its entries
  tasks,     \* the async calls under way
  link,      \* of each tab: audit frames its socket or its queue holds
  received,  \* events the server has recorded
  givenUp,   \* history: entries deleted by the cap or for their age
  entrusted  \* history: entries deleted because a sendBeacon had queued them,
             \* which the server had not recorded by then

vars == <<page, store, tasks, link, received, givenUp, entrusted>>

Phases == {"none", "live", "stopped", "frozen", "unloading"}
Page == [phase : Phases, visible : BOOLEAN, sessionOpen : BOOLEAN,
         socketOpen : BOOLEAN, events : Nat, flushes : Nat, sockets : Nat]

\* emit of lifecycle.ts; flushPending by fetch and by sendBeacon; handleAck.
Jobs == {"emit", "replay", "bestEffort", "ack"}
Steps == {"put", "list", "evict", "pick", "post", "clear", "killed"}
Task == [tab : Tabs, job : Jobs, key : Tabs \X Nat, at : Steps,
         id : EventIds \cup {NoEvent}, todo : SUBSET EventIds]

Init ==
  /\ page = [tab \in Tabs |->
       [phase |-> "none", visible |-> FALSE, sessionOpen |-> FALSE,
        socketOpen |-> FALSE, events |-> 0, flushes |-> 0, sockets |-> 0]]
  /\ store = {}
  /\ tasks = {}
  /\ link = [tab \in Tabs |-> {}]
  /\ received = {}
  /\ givenUp = {}
  /\ entrusted = {}

---------------------------------------------------------------------------
(* The page: what starts the tasks.                                        *)

Listens(tab) == page[tab].phase = "live"
Runs(tab) == page[tab].phase \in {"live", "stopped", "unloading"}

EmitTask(tab, n) ==
  [tab |-> tab, job |-> "emit", key |-> <<tab, n>>, at |-> "put", id |-> <<tab, n>>, todo |-> {}]

FlushTask(tab, job) ==
  [tab |-> tab, job |-> job, key |-> <<tab, page[tab].flushes + 1>>, at |-> "list",
   id |-> NoEvent, todo |-> {}]

AckTask(tab, e) ==
  [tab |-> tab, job |-> "ack", key |-> e, at |-> "clear", id |-> e, todo |-> {}]

\* Bound: the calls under way and those to come.
Room(count) ==
  Cardinality({t \in tasks : t.at # "killed"}) + count <= MaxTasks

\* The events numbered from one more than those emitted so far.
Emitted(tab, count) == {EmitTask(tab, page[tab].events + i) : i \in 1 .. count}

\* lifecycle.start(): replay what earlier pages left, open if visible.
Start(tab) ==
  \E visible \in BOOLEAN :
    LET opens == visible /\ ~page[tab].sessionOpen
        count == IF opens THEN 1 ELSE 0
    IN  /\ page[tab].phase \in {"none", "stopped"}
        /\ page[tab].events + count <= MaxEvents[tab]
        /\ page[tab].flushes < MaxFlushes[tab] /\ Room(count + 1)
        /\ page' = [page EXCEPT ![tab].phase = "live", ![tab].visible = visible,
                                ![tab].sessionOpen = @ \/ opens,
                                ![tab].events = @ + count, ![tab].flushes = @ + 1]
        /\ tasks' = tasks \cup {FlushTask(tab, "replay")} \cup Emitted(tab, count)
        /\ UNCHANGED <<store, link, received, givenUp, entrusted>>

\* onVisibilityChange with openSession and closeSession: the change itself,
\* and an end or a start unless the session is in that state already.
VisibilityChange(tab) ==
  LET visible == ~page[tab].visible
      count   == IF visible = page[tab].sessionOpen THEN 1 ELSE 2
  IN  /\ Listens(tab)
      /\ page[tab].events + count <= MaxEvents[tab] /\ Room(count)
      /\ page' = [page EXCEPT ![tab].visible = visible, ![tab].sessionOpen = visible,
                              ![tab].events = @ + count]
      /\ tasks' = tasks \cup Emitted(tab, count)
      /\ UNCHANGED <<store, link, received, givenUp, entrusted>>

\* onPageHide, into the back/forward cache or for good.
PageHide(tab, job) ==
  /\ Listens(tab)
  /\ page[tab].flushes < MaxFlushes[tab] /\ Room(1)
  /\ page' = [page EXCEPT ![tab].phase = IF job = "replay" THEN "frozen" ELSE "unloading",
                          ![tab].flushes = @ + 1]
  /\ tasks' = tasks \cup {FlushTask(tab, job)}
  /\ UNCHANGED <<store, link, received, givenUp, entrusted>>

\* pageshow: nothing listens to it, the tasks go on.
Resume(tab) ==
  /\ page[tab].phase = "frozen"
  /\ page' = [page EXCEPT ![tab].phase = "live"]
  /\ UNCHANGED <<store, tasks, link, received, givenUp, entrusted>>

\* lifecycle.stop(), by the host's disconnect().  Bound: only to start again.
Stop(tab) ==
  /\ Listens(tab) /\ page[tab].flushes < MaxFlushes[tab]
  /\ page' = [page EXCEPT ![tab].phase = "stopped"]
  /\ UNCHANGED <<store, tasks, link, received, givenUp, entrusted>>

\* A crash, an OS kill, or the end of an unload.  A request under way, which
\* has keepalive, may still arrive; an emit killed before the end of its prune
\* stays on record.
Unpruned(t) == t.job = "emit" /\ t.at \in {"list", "evict", "killed"}

Die(tab) ==
  LET own == {t \in tasks : t.tab = tab} IN
  /\ page[tab].phase # "none"
  /\ page' = [page EXCEPT ![tab].phase = "none", ![tab].visible = FALSE,
                          ![tab].sessionOpen = FALSE, ![tab].socketOpen = FALSE]
  /\ link' = [link EXCEPT ![tab] = {}]
  /\ tasks' = (tasks \ own) \cup
        {[t EXCEPT !.at = "killed", !.todo = {}] : t \in {u \in own : Unpruned(u)}}
  /\ \E arrive \in SUBSET {t.id : t \in {u \in own : u.at = "post"}} :
       received' = received \cup arrive
  /\ UNCHANGED <<store, givenUp, entrusted>>

SocketOpens(tab) ==
  /\ Runs(tab) /\ ~page[tab].socketOpen
  /\ page[tab].sockets < MaxSockets[tab]
  /\ page' = [page EXCEPT ![tab].socketOpen = TRUE, ![tab].sockets = @ + 1]
  /\ UNCHANGED <<store, tasks, link, received, givenUp, entrusted>>

\* Frames still in the outbound queue survive the socket, the others do not.
SocketLost(tab) ==
  \E kept \in SUBSET link[tab] :
    /\ page[tab].socketOpen
    /\ page' = [page EXCEPT ![tab].socketOpen = FALSE]
    /\ link' = [link EXCEPT ![tab] = kept]
    /\ UNCHANGED <<store, tasks, received, givenUp, entrusted>>

---------------------------------------------------------------------------
(* The steps of a task.                                                    *)

Becomes(t, u) == tasks' = (tasks \ {t}) \cup {u}
Finishes(t) == tasks' = tasks \ {t}

\* Slip: a flush keeps the id of the entry it dealt with.
GoesOnNamed(t) ==
  IF t.job \in {"replay", "bestEffort"}
  THEN Becomes(t, [t EXCEPT !.at = "pick"])
  ELSE Finishes(t)

\* After an entry was dealt with: an emit or an ack is done, a flush goes on.
GoesOn(t) ==
  IF t.job \in {"replay", "bestEffort"}
  THEN Becomes(t, [t EXCEPT !.at = "pick", !.id = NoEvent])
  ELSE Finishes(t)

\* An entry is deleted by the cap or for its age ...
GiveUp(e) == givenUp' = givenUp \cup ({e} \cap store) /\ UNCHANGED entrusted

\* ... or on the word of a sendBeacon, which is not the server's.
Entrust(e) == entrusted' = entrusted \cup ((store \cap {e}) \ received) /\ UNCHANGED givenUp

\* outbox.add(): the put.
Put(t) ==
  /\ t.at = "put"
  /\ store' = store \cup {t.id}
  /\ Becomes(t, [t EXCEPT !.at = "list"])
  /\ UNCHANGED <<page, link, received, givenUp, entrusted>>

\* Slip: one entry too many is let through.
ExcessByOne(entries) ==
  {d \in SUBSET entries :
     IF Cardinality(entries) <= OUTBOX_MAX_ENTRIES + 1 THEN d = {}
     ELSE Cardinality(entries \ d) = OUTBOX_MAX_ENTRIES}

\* What prune() may find to be the oldest beyond the limit.
Excess(entries) ==
  {d \in SUBSET entries :
     IF Cardinality(entries) <= OUTBOX_MAX_ENTRIES THEN d = {}
     ELSE Cardinality(entries \ d) = OUTBOX_MAX_ENTRIES}

\* emit() after outbox.add(): over the socket if it is open, else by fetch.
Route(t) ==
  IF page[t.tab].socketOpen
  THEN /\ link' = [link EXCEPT ![t.tab] = @ \cup {t.id}]
       /\ Finishes(t)
  ELSE /\ Becomes(t, [t EXCEPT !.at = "post", !.todo = {}])
       /\ UNCHANGED link

\* outbox.add(): prune() reads the store ...
Prune(t) ==
  /\ t.at = "list" /\ t.job = "emit"
  /\ \E d \in Excess(store) :
       IF d = {}
       THEN Route(t)
       ELSE Becomes(t, [t EXCEPT !.at = "evict", !.todo = d]) /\ UNCHANGED link
  /\ UNCHANGED <<page, store, received, givenUp, entrusted>>

\* ... and deletes what it found too many, one by one.
Evict(t) ==
  /\ t.at = "evict"
  /\ \E e \in t.todo :
       /\ store' = store \ {e}
       /\ GiveUp(e)
       /\ IF t.todo = {e}
          THEN Route(t)
          ELSE Becomes(t, [t EXCEPT !.todo = @ \ {e}]) /\ UNCHANGED link
  /\ UNCHANGED <<page, received>>

\* flushPending(): the copy it goes through.
List(t) ==
  /\ t.at = "list" /\ t.job # "emit"
  /\ Becomes(t, [t EXCEPT !.at = "pick", !.todo = store])
  /\ UNCHANGED <<page, store, link, received, givenUp, entrusted>>

\* flushPending(): the next entry is too old to matter ...
Expire(t, e) ==
  /\ store' = store \ {e}
  /\ GiveUp(e)
  /\ Becomes(t, [t EXCEPT !.todo = @ \ {e}])
  /\ UNCHANGED received

\* ... or is sent: by fetch, or by a sendBeacon that returns false, or that queues
\* it: whether it arrives is open, and if so it is taken to at once.
Send(t, e) ==
  /\ \/ /\ t.job = "replay"
        /\ Becomes(t, [t EXCEPT !.at = "post", !.id = e, !.todo = @ \ {e}])
        /\ UNCHANGED received
     \/ /\ t.job = "bestEffort"
        /\ Becomes(t, [t EXCEPT !.at = "clear", !.id = e, !.todo = @ \ {e}])
        /\ received' \in {received, received \cup {e}}
     \/ /\ t.job = "bestEffort"
        /\ Becomes(t, [t EXCEPT !.todo = @ \ {e}])
        /\ UNCHANGED received
  /\ UNCHANGED <<store, givenUp, entrusted>>

Pick(t) ==
  /\ t.at = "pick"
  /\ \/ /\ t.todo = {}
        /\ Finishes(t)
        /\ UNCHANGED <<store, received, givenUp, entrusted>>
     \/ \E e \in t.todo : Expire(t, e) \/ Send(t, e)
  /\ UNCHANGED <<page, link>>

\* POST /audit/beacon: recorded, and the answer arrives or is lost.
PostArrives(t) ==
  /\ t.at = "post"
  /\ received' = received \cup {t.id}
  /\ Becomes(t, [t EXCEPT !.at = "clear"]) \/ GoesOn(t)
  /\ UNCHANGED <<page, store, link, givenUp, entrusted>>

\* Slip: a request that failed counts as answered.
FailedIsAnswered(t) ==
  /\ t.at = "post"
  /\ Becomes(t, [t EXCEPT !.at = "clear"])
  /\ UNCHANGED <<page, store, link, received, givenUp, entrusted>>

\* Slip: a flush gives up at the first request that fails.
FailureEndsFlush(t) ==
  /\ t.at = "post"
  /\ Finishes(t)
  /\ UNCHANGED <<page, store, link, received, givenUp, entrusted>>

\* The request is lost: the entry stays for the next flush.
PostFails(t) ==
  /\ t.at = "post"
  /\ GoesOn(t)
  /\ UNCHANGED <<page, store, link, received, givenUp, entrusted>>

\* outbox.confirm(), or the delete of flushPending().
Clear(t) ==
  /\ t.at = "clear"
  /\ store' = store \ {t.id}
  /\ IF t.job = "bestEffort" THEN Entrust(t.id) ELSE UNCHANGED <<givenUp, entrusted>>
  /\ GoesOn(t)
  /\ UNCHANGED <<page, link, received>>

\* What its page has to run for, and the requests.
TaskStep(t) ==
  \/ /\ Runs(t.tab)
     /\ Put(t) \/ Prune(t) \/ Evict(t) \/ List(t) \/ Pick(t) \/ Clear(t)
  \/ PostArrives(t) \/ PostFails(t)

---------------------------------------------------------------------------
(* The network and the server.                                             *)

\* handleAuditMessage, and audit.ack back to handleAck while the page runs.
FrameHandled(tab, e) ==
  /\ e \in link[tab] /\ page[tab].socketOpen /\ Room(1)
  /\ link' = [link EXCEPT ![tab] = @ \ {e}]
  /\ received' = received \cup {e}
  /\ tasks' \in {tasks} \cup {tasks \cup {AckTask(tab, e)}}
  /\ UNCHANGED <<page, store, givenUp, entrusted>>

\* A frame the server drops: before hello, or with a seq that is not news.
FrameDropped(tab, e) ==
  /\ e \in link[tab] /\ page[tab].socketOpen
  /\ link' = [link EXCEPT ![tab] = @ \ {e}]
  /\ UNCHANGED <<page, store, tasks, received, givenUp, entrusted>>

PageStep(tab) ==
  \/ Start(tab) \/ VisibilityChange(tab) \/ Resume(tab) \/ Stop(tab) \/ Die(tab)
  \/ \E job \in {"replay", "bestEffort"} : PageHide(tab, job)
  \/ SocketOpens(tab) \/ SocketLost(tab)

Next ==
  \/ \E tab \in Tabs : PageStep(tab)
  \/ \E t \in tasks : TaskStep(t)
  \/ \E tab \in Tabs : \E e \in link[tab] : FrameHandled(tab, e) \/ FrameDropped(tab, e)

Spec == Init /\ [][Next]_vars

\* A page that runs completes its storage calls, and its requests come to an
\* end one way or the other.  Nothing is assumed of pages and sockets.
FairSpec ==
  Spec /\ \A tab \in Tabs :
            WF_vars(\E t \in tasks : t.tab = tab /\ TaskStep(t))

---------------------------------------------------------------------------
(* Properties.                                                             *)

Unnamed(t) == t.job \in {"replay", "bestEffort"} /\ t.at \in {"list", "pick"}

\* Every variable has the shape the code gives it; a task names an event unless
\* it is a flush between two entries.
OutboxTypeOK ==
  /\ page \in [Tabs -> Page]
  /\ store \subseteq EventIds
  /\ tasks \subseteq Task
  /\ \A t \in tasks : (t.id = NoEvent) <=> Unnamed(t)
  /\ link \in [Tabs -> SUBSET EventIds]
  /\ received \subseteq EventIds
  /\ givenUp \subseteq EventIds
  /\ entrusted \subseteq EventIds

\* ADR 0012, "caps total storage": the store exceeds its limit by no more than
\* the writes whose prune has not come to its end, whichever tabs write, flush,
\* evict the same entries or die in between.
StoreBounded ==
  Cardinality(store)
    <= OUTBOX_MAX_ENTRIES + Cardinality({t \in tasks : Unpruned(t)})

Mail == INSTANCE DurableEvents
          WITH pending <- store, delivered <- received, abandoned <- givenUp

\* ADR 0012:15, "An entry is removed only when the server has actually
\* acknowledged it [...] A `sendBeacon` call returning `true` is not an
\* acknowledgement", but for the two bounds it sets on age and number.
MailSpec == Mail!Spec

\* lifecycle.ts:99-101 with outbox.ts:58-59: a copy goes only once its event is
\* recorded, or for its age, by the cap, or for a sendBeacon that queued it; no
\* crash, lost request or answer, nor two tabs at once, make it go otherwise.
EntrustingMailSpec == Mail!EntrustingSpec

Replaying(tab, step, e) ==
  \E t \in tasks : t.tab = tab /\ t.job = "replay" /\ t.at = step /\ t.id = e

\* ADR 0012, "On every page load": what the store holds when a load begins its
\* flush is sent by that load, or gone from the store, unless that load stops
\* running first.
ReplayReachesAll ==
  \A tab \in Tabs : \A e \in EventIds :
    (e \in store /\ Replaying(tab, "list", NoEvent))
    ~> (Replaying(tab, "post", e) \/ e \notin store \/ ~Runs(tab))
============================
