--------------------------- MODULE GroupDelivery ---------------------------
(***************************************************************************)
(* Live delivery of group messages: the coordinator's per-group cursor     *)
(* log, the subscribers it publishes to, the queue between a subscriber    *)
(* and the server's stream handler, and that handler with its await        *)
(* points (packages/coordinator/src/coordinator.ts,                        *)
(* packages/server/src/coordinatorMethods.ts).                             *)
(*                                                                         *)
(* The program is single threaded: a synchronous piece of code is one      *)
(* action, and other actions interleave exactly at the awaits of           *)
(* subscribeManyGroupMessages: start(), next(), write(), close().          *)
(***************************************************************************)
EXTENDS Naturals, Sequences, FiniteSets

CONSTANTS Groups,      \* delivery group identifiers
          Streams,     \* open streams, one per subscription request
          MaxCursor    \* bound: messages posted to one group

ASSUME DeliveryAssumption ==
    /\ IsFiniteSet(Groups)
    /\ MaxCursor \in Nat

VARIABLES
    lastMessageCursor,   \* storage: the log of g is 1..lastMessageCursor[g]
    groupSubscribers,    \* groupSubscribers[g]: streams joined to g
    subscriberRefcounts, \* how many groups a subscriber is joined to
    groupIds,            \* groupIds[s]: the groups s asked for
    cursorsByGroup,      \* cursorsByGroup[s][g]: newest cursor emitted to s
    queue,               \* emitted to s and not yet written
    closed,              \* the queue of s was closed
    writerActive,        \* stream.isActive
    phase,               \* where the handler of s stands
    sent                 \* history: newest cursor of g written to s

storageVars == <<lastMessageCursor>>
registryVars == <<groupSubscribers, subscriberRefcounts>>
streamVars == <<groupIds, cursorsByGroup, queue, closed, writerActive, phase, sent>>
vars == <<lastMessageCursor, groupSubscribers, subscriberRefcounts, groupIds,
          cursorsByGroup, queue, closed, writerActive, phase, sent>>

Phases == {"idle", "starting", "waiting", "handed", "writing", "exhausted", "done"}

Record == [group : Groups, cursor : 1..MaxCursor]

\* Phases in which the handler holds the head of the queue: next() has
\* resolved with it, or its write is pending.
Holding == {"handed", "writing"}

Serving(s) == phase[s] \notin {"idle", "done"}

Init ==
    /\ lastMessageCursor = [g \in Groups |-> 0]
    /\ groupSubscribers = [g \in Groups |-> {}]
    /\ subscriberRefcounts = [s \in Streams |-> 0]
    /\ groupIds = [s \in Streams |-> {}]
    /\ cursorsByGroup = [s \in Streams |-> [g \in Groups |-> 0]]
    /\ queue = [s \in Streams |-> <<>>]
    /\ closed = [s \in Streams |-> FALSE]
    /\ writerActive = [s \in Streams |-> FALSE]
    /\ phase = [s \in Streams |-> "idle"]
    /\ sent = [s \in Streams |-> [g \in Groups |-> 0]]

-----------------------------------------------------------------------------
(* The coordinator.  An operator whose name ends in an underscore and a    *)
(* word is a plausible bug: the run's property named beside it in          *)
(* PROJECT.json must fail when it replaces the definition it varies.       *)

\* afterCursor of every group asked for; 0 stands for one left out.
From(asked, after) == [g \in Groups |-> IF g \in asked THEN after[g] ELSE 0]

Due_OffByOne(asked, after) ==
    {r \in [group : asked, cursor : 1..MaxCursor] :
        after[r.group] + 1 < r.cursor /\ r.cursor <= lastMessageCursor[r.group]}

\* The records a subscription owes its reader at the moment it is made.
Due(asked, after) ==
    {r \in [group : asked, cursor : 1..MaxCursor] :
        after[r.group] < r.cursor /\ r.cursor <= lastMessageCursor[r.group]}

\* fetchManyGroupMessages: one group after the other in the order of the
\* request, each group by ascending cursor.
Backlogs(due) ==
    {q \in [1..Cardinality(due) -> due] :
        /\ \A r \in due : \E i \in DOMAIN q : q[i] = r
        /\ \A i, j \in DOMAIN q :
              (i < j /\ q[i].group = q[j].group) =>
                 /\ q[i].cursor < q[j].cursor
                 /\ \A k \in i..j : q[k].group = q[i].group}

Takers_All(S, r) == S

\* emitIfNew: which of the subscribers in S take record r.
Takers(S, r) == {s \in S : cursorsByGroup[s][r.group] < r.cursor}

Woken_Never(p) == p

\* push: a handler waiting in next() is handed the record.
Woken(p) == IF p = "waiting" THEN "handed" ELSE p

\* postGroupMessage: append to the storage, then publish to every subscriber
\* of the group; a closed queue drops the record.
PostGroupMessage(g) ==
    LET r == [group |-> g, cursor |-> lastMessageCursor[g] + 1]
        T == Takers(groupSubscribers[g], r)
        P == {s \in T : ~closed[s]}
    IN  /\ lastMessageCursor[g] < MaxCursor
        /\ lastMessageCursor' = [lastMessageCursor EXCEPT ![g] = r.cursor]
        /\ cursorsByGroup' = [s \in Streams |->
              IF s \in T THEN [cursorsByGroup[s] EXCEPT ![g] = r.cursor]
                         ELSE cursorsByGroup[s]]
        /\ queue' = [s \in Streams |->
              IF s \in P THEN Append(queue[s], r) ELSE queue[s]]
        /\ phase' = [s \in Streams |->
              IF s \in P THEN Woken(phase[s]) ELSE phase[s]]
        /\ UNCHANGED <<registryVars, groupIds, closed, writerActive, sent>>

\* The handler up to its first await: join every group, replay the backlog,
\* go live, and then stream.start().
SubscribeManyGroupMessages(s, asked, after) ==
    /\ ~Serving(s)
    /\ groupIds' = [groupIds EXCEPT ![s] = asked]
    /\ groupSubscribers' = [g \in Groups |->
          IF g \in asked THEN groupSubscribers[g] \cup {s} ELSE groupSubscribers[g]]
    /\ subscriberRefcounts' = [subscriberRefcounts EXCEPT ![s] = Cardinality(asked)]
    /\ cursorsByGroup' = [cursorsByGroup EXCEPT ![s] = [g \in Groups |->
          IF g \in asked /\ after[g] < lastMessageCursor[g]
          THEN lastMessageCursor[g] ELSE From(asked, after)[g]]]
    /\ \E q \in Backlogs(Due(asked, after)) : queue' = [queue EXCEPT ![s] = q]
    /\ closed' = [closed EXCEPT ![s] = FALSE]
    /\ writerActive' = [writerActive EXCEPT ![s] = TRUE]
    /\ phase' = [phase EXCEPT ![s] = "starting"]
    /\ sent' = [sent EXCEPT ![s] = From(asked, after)]
    /\ UNCHANGED storageVars

Unsubscribe_NoDeleteCheck(s) ==
    /\ closed' = [closed EXCEPT ![s] = TRUE]
    /\ groupSubscribers' = [g \in Groups |-> groupSubscribers[g] \ {s}]
    /\ subscriberRefcounts' = [subscriberRefcounts EXCEPT ![s] = @ - Cardinality(groupIds[s])]

\* cleanupSubscriptions -> unsubscribe: close the queue and leave every group.
\* Running it twice changes nothing the second time.
Unsubscribe(s) ==
    /\ closed' = [closed EXCEPT ![s] = TRUE]
    /\ groupSubscribers' = [g \in Groups |->
          IF g \in groupIds[s] THEN groupSubscribers[g] \ {s} ELSE groupSubscribers[g]]
    /\ subscriberRefcounts' = [subscriberRefcounts EXCEPT
          ![s] = @ - Cardinality({g \in groupIds[s] : s \in groupSubscribers[g]})]

-----------------------------------------------------------------------------
(* The server's stream handler.                                            *)

NextAnswer_ForgetsClose(q, isClosed) == IF q # <<>> THEN "handed" ELSE "waiting"

\* What next() answers: a buffered value first, then the end of a closed
\* queue, else a promise that waits.
NextAnswer(q, isClosed) ==
    CASE q # <<>> -> "handed"
      [] q = <<>> /\ isClosed -> "exhausted"
      [] OTHER -> "waiting"

StartResolves(s) ==
    /\ phase[s] = "starting"
    /\ phase' = [phase EXCEPT ![s] = NextAnswer(queue[s], closed[s])]
    /\ UNCHANGED <<storageVars, registryVars, groupIds, cursorsByGroup, queue,
                   closed, writerActive, sent>>

\* The body of the loop on the record next() answered: stop when the stream
\* died meanwhile (complete, then finally), else write it.
RecordArrives(s) ==
    /\ phase[s] = "handed"
    /\ \/ /\ writerActive[s]
          /\ phase' = [phase EXCEPT ![s] = "writing"]
          /\ UNCHANGED <<closed, registryVars>>
       \/ /\ ~writerActive[s]
          /\ phase' = [phase EXCEPT ![s] = "done"]
          /\ Unsubscribe(s)
    /\ UNCHANGED <<storageVars, groupIds, cursorsByGroup, queue, writerActive, sent>>

WriteResolves(s) ==
    /\ phase[s] = "writing"
    /\ sent' = [sent EXCEPT ![s][Head(queue[s]).group] = Head(queue[s]).cursor]
    /\ queue' = [queue EXCEPT ![s] = Tail(@)]
    /\ phase' = [phase EXCEPT ![s] = NextAnswer(Tail(queue[s]), closed[s])]
    /\ UNCHANGED <<storageVars, registryVars, groupIds, cursorsByGroup, closed,
                   writerActive>>

\* start() or write() rejects: the catch aborts the stream, which cleans up.
AwaitRejects(s) ==
    /\ phase[s] \in {"starting", "writing"}
    /\ Unsubscribe(s)
    /\ writerActive' = [writerActive EXCEPT ![s] = FALSE]
    /\ phase' = [phase EXCEPT ![s] = "done"]
    /\ UNCHANGED <<storageVars, groupIds, cursorsByGroup, queue, sent>>

\* next() answered done: "complete" cleans up, and close() ends a stream that
\* is still active.
IterationEnds(s) ==
    /\ phase[s] = "exhausted"
    /\ Unsubscribe(s)
    /\ writerActive' = [writerActive EXCEPT ![s] = FALSE]
    /\ phase' = [phase EXCEPT ![s] = "done"]
    /\ UNCHANGED <<storageVars, groupIds, cursorsByGroup, queue, sent>>

Ended_Never(p) == p

\* close: a handler waiting in next() is told the queue is done.
Ended(p) == IF p = "waiting" THEN "exhausted" ELSE p

StreamTerminates_OnlyAbort(s) ==
    /\ Serving(s) /\ writerActive[s]
    /\ writerActive' = [writerActive EXCEPT ![s] = FALSE]
    /\ UNCHANGED <<storageVars, registryVars, groupIds, cursorsByGroup, queue,
                   closed, phase, sent>>

\* The client disconnects, aborts or is timed out by a probe, at any await:
\* abort override or signal listener, cleanupSubscriptions runs, and closing
\* the queue ends a pending next().
StreamTerminates(s) ==
    /\ Serving(s) /\ writerActive[s]
    /\ writerActive' = [writerActive EXCEPT ![s] = FALSE]
    /\ Unsubscribe(s)
    /\ phase' = [phase EXCEPT ![s] = Ended(@)]
    /\ UNCHANGED <<storageVars, groupIds, cursorsByGroup, queue, sent>>

Handler(s) ==
    \/ StartResolves(s)
    \/ RecordArrives(s)
    \/ WriteResolves(s)
    \/ AwaitRejects(s)
    \/ IterationEnds(s)

Next ==
    \/ \E g \in Groups : PostGroupMessage(g)
    \/ \E s \in Streams :
          \/ \E asked \in SUBSET Groups \ {{}} : \E after \in [asked -> 0..MaxCursor] :
                SubscribeManyGroupMessages(s, asked, after)
          \/ Handler(s)
          \/ StreamTerminates(s)

Spec == Init /\ [][Next]_vars

\* Node runs every settled promise's continuation, and the transport settles
\* start() and write(): it acknowledges them or its probe aborts the stream.
FairSpec == Spec /\ \A s \in Streams : WF_vars(Handler(s))

-----------------------------------------------------------------------------
(* Properties.                                                             *)

TypeOK ==
    /\ lastMessageCursor \in [Groups -> 0..MaxCursor]
    /\ groupSubscribers \in [Groups -> SUBSET Streams]
    /\ subscriberRefcounts \in [Streams -> Nat]
    /\ groupIds \in [Streams -> SUBSET Groups]
    /\ cursorsByGroup \in [Streams -> [Groups -> 0..MaxCursor]]
    /\ queue \in [Streams -> Seq(Record)]
    /\ closed \in [Streams -> BOOLEAN]
    /\ writerActive \in [Streams -> BOOLEAN]
    /\ phase \in [Streams -> Phases]
    /\ sent \in [Streams -> [Groups -> 0..MaxCursor]]

\* What a stream has queued is newer than what was written to it and no newer
\* than what was emitted, ...
QueuedInRange(s) ==
    \A i \in 1..Len(queue[s]) : LET r == queue[s][i] IN
        /\ r.group \in groupIds[s]
        /\ sent[s][r.group] < r.cursor
        /\ r.cursor <= cursorsByGroup[s][r.group]

\* ... ascends in each group, ...
QueuedInOrder(s) ==
    \A i, j \in 1..Len(queue[s]) :
        (i < j /\ queue[s][i].group = queue[s][j].group)
           => queue[s][i].cursor < queue[s][j].cursor

\* ... and holds every cursor in between.
Queues(s, g, upTo) ==
    \A c \in 1..MaxCursor :
        (sent[s][g] < c /\ c <= upTo)
           => \E i \in 1..Len(queue[s]) : queue[s][i] = [group |-> g, cursor |-> c]

QueuedComplete(s) == \A g \in groupIds[s] : Queues(s, g, cursorsByGroup[s][g])

\* Every stream that is being served gets each of its groups without a gap, in
\* order and without duplicates across the replay of the backlog and live
\* pushes: what is queued for a group is exactly the run of cursors that
\* follows the last one written (emitIfNew, AsyncMessageQueue, the write loop).
GapFree ==
    \A s \in Streams :
        Serving(s) => QueuedInRange(s) /\ QueuedInOrder(s) /\ QueuedComplete(s)

\* While its client reads, a stream misses nothing: every message of its groups
\* after the cursor it asked from is written or queued for it, whatever was
\* posted before, during and after the subscription (postGroupMessage against
\* subscribeManyGroupMessages).
NothingMissed ==
    \A s \in Streams : (Serving(s) /\ writerActive[s]) =>
        \A g \in groupIds[s] : Queues(s, g, lastMessageCursor[g])

\* No subscriber outlives its stream and no live stream loses its registration:
\* a stream is joined to exactly its groups while it is served and its client is
\* there, and to none otherwise (cleanupSubscriptions on every way a stream can
\* end: disconnect, failed start or write, completion).
JoinedIffLive ==
    \A s \in Streams, g \in Groups :
        s \in groupSubscribers[g] <=> Serving(s) /\ writerActive[s] /\ g \in groupIds[s]

\* The reference count getActiveSubscriptionCount relies on is the number of
\* groups the subscriber is joined to, so the count of active subscriptions
\* returns to zero (addGroupSubscriber, removeGroupSubscriber).
RefcountsExact ==
    \A s \in Streams :
        subscriberRefcounts[s] = Cardinality({g \in Groups : s \in groupSubscribers[g]})

\* No lost wake-up: a handler waits in next() only on an open, empty queue
\* (the waiter hand-off of push and close).
NoLostWakeup ==
    \A s \in Streams : phase[s] = "waiting" => queue[s] = <<>> /\ ~closed[s]

\* The strengthening that makes the properties above inductive: how a handler's
\* phase, its queue and its writer go together, and how far a live stream's
\* cursors have come.
Lifecycle ==
    \A s \in Streams :
        /\ phase[s] \in Holding => queue[s] # <<>>
        /\ phase[s] \in {"waiting", "exhausted"} => queue[s] = <<>>
        /\ phase[s] = "exhausted" => closed[s]
        /\ phase[s] = "waiting" => ~closed[s]
        /\ Serving(s) => (writerActive[s] <=> ~closed[s])
        /\ writerActive[s] => Serving(s)

CursorsCurrent ==
    \A s \in Streams : Serving(s) =>
        /\ \A g \in groupIds[s] : sent[s][g] <= cursorsByGroup[s][g]
        /\ \A i \in 1..Len(queue[s]) :
              queue[s][i].cursor <= lastMessageCursor[queue[s][i].group]
        /\ writerActive[s] =>
              \A g \in groupIds[s] : lastMessageCursor[g] <= cursorsByGroup[s][g]

DeliveryInv ==
    /\ TypeOK
    /\ GapFree
    /\ JoinedIffLive
    /\ RefcountsExact
    /\ Lifecycle
    /\ CursorsCurrent

\* The whole path implements the promise a client builds on: GroupFeed, with
\* the messages written to the stream as the ones handed over.
Feed == INSTANCE GroupFeed WITH
    last <- lastMessageCursor,
    open <- [s \in Streams |-> Serving(s)],
    live <- writerActive,
    groups <- groupIds,
    position <- sent

FeedSpec == Feed!Spec

\* A message posted to a group of a stream is eventually written to it, unless
\* its client goes away (the pump of subscribeManyGroupMessages never stalls).
EventuallyWritten ==
    \A s \in Streams, g \in Groups : \A c \in 1..MaxCursor :
        (Serving(s) /\ writerActive[s] /\ g \in groupIds[s] /\ c <= lastMessageCursor[g])
           ~> (sent[s][g] >= c \/ ~writerActive[s])

\* When the client of a stream is gone its handler returns; none hangs in next()
\* (the signal listener: "fires on every termination incl. dispose()").
HandlerReturns ==
    \A s \in Streams : (Serving(s) /\ ~writerActive[s]) ~> ~Serving(s)
=============================================================================
