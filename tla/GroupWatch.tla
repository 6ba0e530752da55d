----------------------------- MODULE GroupWatch -----------------------------
(***************************************************************************)
(* A client that follows one group: watchGroup catches up in the group's   *)
(* lane of operations, subscribes, and applies what the stream hands over  *)
(* in the same lane; unwatchGroup stops it; syncGroup and the catch-up     *)
(* before a local operation fetch what a running watch does not bring      *)
(* (session.ts, groupWatch.ts).  A failed or ended watch is started again  *)
(* by the next watchGroup, as the daemon does in every cycle (main.ts).    *)
(*                                                                         *)
(* A stream hands over what GroupFeed promises, and GroupDelivery is shown *)
(* to implement: every message behind its cursor, in order, then new ones. *)
(* A message is a cursor: applying it again is harmless, so `processed`    *)
(* remembers which were applied at least once.  A group the client was     *)
(* removed from, or dropped, stays so here; a re-invite is in              *)
(* WelcomeDelivery, seeding from a document in Documents.                  *)
(***************************************************************************)
EXTENDS Naturals, Sequences, FiniteSetsExt

CONSTANTS
    Removals,     \* where the group may remove this member; 0 for nowhere
    MaxPosted,    \* bound: messages of the group
    MaxTasks,     \* bound: watch tasks ever started
    MaxFailures,  \* bound: fetches, applications and streams that fail or end
    MaxStops      \* bound: calls of unwatchGroup

ASSUME GroupWatchAssumption ==
    /\ Removals \subseteq Nat /\ MaxPosted \in Nat
    /\ MaxTasks \in Nat /\ MaxFailures \in Nat /\ MaxStops \in Nat

Tasks == 1 .. MaxTasks
Sync == 0                  \* a syncGroup in the lane
Send == MaxTasks + 1       \* a local operation, which catches up first
Ops == Tasks \cup {Sync, Send}

VARIABLES
    serial,       \* whether watch and unwatch are called one at a time
    removal,      \* the cursor of the Commit that removes this member, or 0
    posted,       \* the group's log is 1..posted
    active,       \* the store has the group, with status "active"
    fetchCursor,  \* group.fetchCursor
    processed,    \* history: messages applied
    handle,       \* the entry of watchHandles: [task, status]
    phase,        \* where the task runGroupWatch started stands
    position,     \* position[t]: newest message its stream handed over
    aborted,      \* tasks whose subscription was aborted
    lane,         \* groupOperations: the operations, the running one first
    batch,        \* batch[o]: the messages o has in hand, if any
    repairing,    \* tasks a watchGroup waits for before it starts anew
    unwatching,   \* tasks an unwatchGroup waits for
    failures, stops

callVars == <<repairing, unwatching, stops>>
taskVars == <<handle, phase, position, aborted>>
groupVars == <<active, fetchCursor, processed>>
fixed == <<serial, removal>>
vars == <<fixed, posted, groupVars, taskVars, lane, batch, callVars, failures>>

NoHandle == [task |-> 0, status |-> "idle"]
NoBatch == [after |-> 0, upto |-> 0]
Connecting == {"fetching", "catching", "opening"}
Streaming == {"streaming", "handing"}

Init ==
    /\ serial \in BOOLEAN /\ removal \in Removals
    /\ posted = 0 /\ active = TRUE /\ fetchCursor = 0 /\ processed = {}
    /\ handle = NoHandle
    /\ phase = [t \in Tasks |-> "unused"]
    /\ position = [t \in Tasks |-> 0]
    /\ aborted = {}
    /\ lane = <<>> /\ batch = [o \in Ops |-> NoBatch]
    /\ repairing = {} /\ unwatching = {}
    /\ failures = 0 /\ stops = 0

-----------------------------------------------------------------------------
(* Calls.                                                                  *)

Fresh == {t \in Tasks : phase[t] = "unused"}

\* Nobody awaits watchGroup (whose `ready` is open while its task connects) or
\* unwatchGroup.
NobodyWaits ==
    /\ repairing = {} /\ unwatching = {}
    /\ \A t \in Tasks : phase[t] \notin Connecting

Callable == serial => NobodyWaits

\* The second half of watchGroup: a new handle, whatever the entry holds by
\* now, and a new task, which runs to its first fetch at once.
Starts ==
    \E t \in Fresh :
        /\ \A u \in Fresh : t <= u
        /\ handle' = [task |-> t, status |-> "connecting"]
        /\ phase' = [phase EXCEPT ![t] = "fetching"]
        /\ batch' = [batch EXCEPT ![t] = [after |-> fetchCursor, upto |-> fetchCursor]]

AbortedWith_Never(t) == aborted

\* handle.abort: nothing until the task has its subscription.
AbortedWith(t) == IF phase[t] \in Streaming THEN aborted \cup {t} ELSE aborted

\* watchGroup: a live entry is kept, an errored one is first unwatched.
WatchGroup ==
    /\ Callable /\ active /\ Fresh # {}
    /\ handle = NoHandle
    /\ Starts
    /\ UNCHANGED <<fixed, posted, groupVars, position, aborted, lane, callVars, failures>>

WatchErrored ==
    /\ Callable /\ Fresh # {}
    /\ handle.status = "errored"
    /\ handle' = NoHandle
    /\ aborted' = AbortedWith(handle.task)
    /\ repairing' = repairing \cup {handle.task}
    /\ UNCHANGED <<fixed, posted, groupVars, phase, position, lane, batch,
                   unwatching, failures, stops>>

\* ... and when the old task has settled, the watch starts, if the group is
\* still active.
Repaired(t) ==
    /\ t \in repairing /\ phase[t] = "ended"
    /\ repairing' = repairing \ {t}
    /\ IF active /\ Fresh # {} THEN Starts ELSE UNCHANGED <<handle, phase, batch>>
    /\ UNCHANGED <<fixed, posted, groupVars, position, aborted, lane,
                   unwatching, failures, stops>>

UnwatchGroup ==
    /\ Callable /\ stops < MaxStops
    /\ handle # NoHandle
    /\ handle' = NoHandle
    /\ aborted' = AbortedWith(handle.task)
    /\ unwatching' = unwatching \cup {handle.task}
    /\ stops' = stops + 1
    /\ UNCHANGED <<fixed, posted, groupVars, phase, position, lane, batch,
                   repairing, failures>>

Unwatched(t) ==
    /\ t \in unwatching /\ phase[t] = "ended"
    /\ unwatching' = unwatching \ {t}
    /\ UNCHANGED <<fixed, posted, groupVars, taskVars, lane, batch, repairing,
                   failures, stops>>

\* One operation of the user at a time; on a group that is gone it would change
\* nothing.
NoCaller == active /\ \A i \in DOMAIN lane : lane[i] \in Tasks

\* syncGroup looks at the watch when it is called, not when its turn comes.
SyncGroup ==
    /\ NoCaller
    /\ handle.status # "watching"
    /\ lane' = Append(lane, Sync)
    /\ UNCHANGED <<fixed, posted, groupVars, taskVars, batch, callVars, failures>>

\* An operation of the user: it looks at the watch when its turn comes.
Operation ==
    /\ NoCaller
    /\ lane' = Append(lane, Send)
    /\ UNCHANGED <<fixed, posted, groupVars, taskVars, batch, callVars, failures>>

-----------------------------------------------------------------------------
(* The end of a task.                                                      *)

MayFail == failures < MaxFailures

\* The task is gone, and its stream with it.
Ends(t) ==
    /\ phase' = [phase EXCEPT ![t] = "ended"]
    /\ position' = [position EXCEPT ![t] = 0]

Rejected_Unnoticed(h) == h

\* The task rejects: the entry there is by now, whoever's it is, is errored.
Rejected(h) == IF h = NoHandle THEN h ELSE [h EXCEPT !.status = "errored"]

Returned_Unnoticed(h, t) == h

\* The task returns: only its own entry is errored.
Returned(h, t) == IF h.task = t THEN [h EXCEPT !.status = "errored"] ELSE h

-----------------------------------------------------------------------------
(* The lane.                                                               *)

Runs(o) == lane # <<>> /\ Head(lane) = o

\* group.fetchCursor once the messages of b up to k are applied: it follows
\* the message, back too when the message was applied before, unless the
\* message cannot be opened.
CursorAfter(b, k) ==
    IF k = b.after THEN {fetchCursor} ELSE {k, Max({k, fetchCursor})}

\* applyIncomingMessages: some first part of the batch is applied; a message,
\* or a finalizer after the last one, may throw.  The Commit that removes this
\* member makes the group inactive and unwatches it.
Applies(b, ok) ==
    \E k \in b.after .. b.upto :
        /\ ok => k = b.upto
        /\ processed' = processed \cup (b.after + 1 .. k)
        /\ fetchCursor' \in CursorAfter(b, k)
        /\ active' = (active /\ removal \notin b.after + 1 .. k)

\* The entry and the aborts after an application.
Remaining == IF active' THEN handle ELSE NoHandle
AbortsOfRemoval ==
    aborted' = IF active' \/ handle = NoHandle THEN aborted ELSE AbortedWith(handle.task)

Leaves(o) ==
    /\ lane' = Tail(lane)
    /\ batch' = [batch EXCEPT ![o] = NoBatch]

\* syncGroup, and catchUpGroupIfNeeded of a local operation: fetch, ...
FetchRaw(o) ==
    /\ Runs(o) /\ o \in {Sync, Send} /\ batch[o] = NoBatch /\ active
    /\ o = Send => handle.status # "watching"
    /\ fetchCursor < posted
    /\ batch' = [batch EXCEPT ![o] = [after |-> fetchCursor, upto |-> posted]]
    /\ UNCHANGED <<fixed, posted, groupVars, taskVars, lane, callVars, failures>>

\* ... and apply.
ApplyFetched(o) ==
    /\ Runs(o) /\ o \in {Sync, Send} /\ batch[o] # NoBatch
    /\ \E ok \in BOOLEAN :
          /\ ok \/ MayFail
          /\ failures' = IF ok THEN failures ELSE failures + 1
          /\ Applies(batch[o], ok)
    /\ handle' = Remaining
    /\ AbortsOfRemoval
    /\ Leaves(o)
    /\ UNCHANGED <<fixed, posted, phase, position, callVars>>

\* Nothing to fetch, a watch that runs, a removed group, or a fetch that fails.
NothingFetched(o) ==
    /\ Runs(o) /\ o \in {Sync, Send} /\ batch[o] = NoBatch
    /\ \/ (~active \/ fetchCursor = posted \/ (o = Send /\ handle.status = "watching"))
             /\ UNCHANGED failures
       \/ MayFail /\ failures' = failures + 1
    /\ Leaves(o)
    /\ UNCHANGED <<fixed, posted, groupVars, taskVars, callVars>>

-----------------------------------------------------------------------------
(* The task of runGroupWatch.                                              *)

\* The catch-up fetch answers: its batch waits for the lane.
CatchUpFetched(t) ==
    /\ phase[t] = "fetching"
    /\ phase' = [phase EXCEPT ![t] = "catching"]
    /\ batch' = [batch EXCEPT ![t].upto = Max({posted, batch[t].after})]
    /\ lane' = Append(lane, t)
    /\ UNCHANGED <<fixed, posted, groupVars, handle, position, aborted, callVars, failures>>

ResumeFrom_Posted(cursor) == posted
ResumeFrom_Next(cursor) == cursor + 1

\* getAfterCursor, read again right after the catch-up is applied.
ResumeFrom(cursor) == cursor

\* onMessages, in the lane: the catch-up batch, after which the task asks for
\* its subscription, or the message in hand.
OnMessages(t) ==
    /\ Runs(t) /\ phase[t] \in {"catching", "handing"} /\ active
    /\ Applies(batch[t], TRUE)
    /\ \/ /\ phase[t] = "catching"
          /\ phase' = [phase EXCEPT ![t] = "opening"]
          /\ position' = [position EXCEPT ![t] = ResumeFrom(fetchCursor')]
       \/ /\ phase[t] = "handing"
          /\ phase' = [phase EXCEPT ![t] = "streaming"]
          /\ UNCHANGED position
    /\ handle' = Remaining
    /\ AbortsOfRemoval
    /\ Leaves(t)
    /\ UNCHANGED <<fixed, posted, callVars, failures>>

\* ... it throws: part of it is applied, the task rejects.
OnMessagesFails(t) ==
    /\ Runs(t) /\ phase[t] \in {"catching", "handing"}
    /\ IF active
       THEN MayFail /\ failures' = failures + 1 /\ Applies(batch[t], FALSE)
       ELSE UNCHANGED <<groupVars, failures>>
    /\ Ends(t)
    /\ handle' = Rejected(Remaining)
    /\ AbortsOfRemoval
    /\ Leaves(t)
    /\ UNCHANGED <<fixed, posted, callVars>>

\* onWatching: the entry there is by now is "watching".
OnWatching(t) ==
    /\ phase[t] = "opening"
    /\ phase' = [phase EXCEPT ![t] = "streaming"]
    /\ handle' = IF handle = NoHandle THEN handle ELSE [handle EXCEPT !.status = "watching"]
    /\ UNCHANGED <<fixed, posted, groupVars, position, aborted, lane, batch, callVars, failures>>

\* The stream hands over the next message, which waits for the lane.
Deliver(t) ==
    /\ phase[t] = "streaming" /\ position[t] < posted
    /\ position' = [position EXCEPT ![t] = @ + 1]
    /\ batch' = [batch EXCEPT ![t] = [after |-> position[t], upto |-> position[t] + 1]]
    /\ phase' = [phase EXCEPT ![t] = "handing"]
    /\ lane' = Append(lane, t)
    /\ UNCHANGED <<fixed, posted, groupVars, handle, aborted, callVars, failures>>

\* A request of the task fails, or its stream breaks.
TaskRejects(t) ==
    /\ phase[t] \in {"fetching", "opening", "streaming"}
    /\ MayFail /\ failures' = failures + 1
    /\ Ends(t)
    /\ batch' = [batch EXCEPT ![t] = NoBatch]
    /\ handle' = Rejected(handle)
    /\ UNCHANGED <<fixed, posted, groupVars, aborted, lane, callVars>>

\* The stream ends: aborted, or by itself.
TaskReturns(t) ==
    /\ phase[t] = "streaming"
    /\ \/ t \in aborted /\ UNCHANGED failures
       \/ t \notin aborted /\ MayFail /\ failures' = failures + 1
    /\ Ends(t)
    /\ handle' = Returned(handle, t)
    /\ UNCHANGED <<fixed, posted, groupVars, aborted, lane, batch, callVars>>

-----------------------------------------------------------------------------
(* The group is dropped: the entry is unwatched, and nobody waits for that. *)

DropGroup ==
    /\ active' = FALSE
    /\ handle' = NoHandle
    /\ aborted' = IF handle = NoHandle THEN aborted ELSE AbortedWith(handle.task)

\* softDeleteGroup, an operation of the user that takes its turn in the lane.
SoftDeleteGroup ==
    /\ Runs(Send) /\ batch[Send] = NoBatch /\ active
    /\ DropGroup
    /\ Leaves(Send)
    /\ UNCHANGED <<fixed, posted, fetchCursor, processed, phase, position, callVars, failures>>

\* applyDocumentTombstone does not: the operation that runs keeps the group it
\* has in hand.
ApplyDocumentTombstone ==
    /\ active
    /\ DropGroup
    /\ UNCHANGED <<fixed, posted, fetchCursor, processed, phase, position, lane, batch,
                   callVars, failures>>

Post ==
    /\ posted < MaxPosted
    /\ posted' = posted + 1
    /\ UNCHANGED <<fixed, groupVars, taskVars, lane, batch, callVars, failures>>

-----------------------------------------------------------------------------
TaskStep(t) ==
    \/ CatchUpFetched(t) \/ OnMessages(t) \/ OnMessagesFails(t) \/ OnWatching(t)
    \/ Deliver(t) \/ TaskRejects(t) \/ TaskReturns(t)

CallerStep(o) == FetchRaw(o) \/ ApplyFetched(o) \/ NothingFetched(o)

Next ==
    \/ WatchGroup \/ WatchErrored \/ UnwatchGroup \/ SyncGroup \/ Operation \/ Post
    \/ SoftDeleteGroup \/ ApplyDocumentTombstone
    \/ \E t \in Tasks : Repaired(t) \/ Unwatched(t) \/ TaskStep(t)
    \/ \E o \in {Sync, Send} : CallerStep(o)

Spec == Init /\ [][Next]_vars

\* Requests are answered or fail, a lane runs on, a stream hands over what it
\* has and ends when it is aborted, and the daemon watches again what is not
\* watched.  Nobody has to call syncGroup or unwatchGroup.
Fairness ==
    /\ WF_vars(WatchGroup) /\ WF_vars(WatchErrored)
    /\ \A t \in Tasks :
          /\ WF_vars(Repaired(t)) /\ WF_vars(Unwatched(t))
          /\ WF_vars(CatchUpFetched(t)) /\ WF_vars(OnWatching(t))
          /\ WF_vars(OnMessages(t) \/ OnMessagesFails(t))
          /\ WF_vars(Deliver(t) \/ (t \in aborted /\ TaskReturns(t)))
    /\ \A o \in {Sync, Send} : WF_vars(CallerStep(o))

FairSpec == Spec /\ Fairness

-----------------------------------------------------------------------------
(* Properties.                                                             *)

TypeOK ==
    /\ serial \in BOOLEAN /\ removal \in Removals /\ active \in BOOLEAN
    /\ posted \in 0..MaxPosted /\ fetchCursor \in 0..posted
    /\ processed \subseteq 1..posted
    /\ handle \in [task : 0..MaxTasks, status : {"idle", "connecting", "watching", "errored"}]
    /\ phase \in [Tasks -> Connecting \cup Streaming \cup {"unused", "ended"}]
    /\ position \in [Tasks -> 0..posted]
    /\ lane \in Seq(Ops)
    /\ \A o \in Ops : batch[o].after <= batch[o].upto /\ batch[o].upto <= posted
    /\ aborted \cup repairing \cup unwatching \subseteq Tasks

\* The cursor never passes a message that was not applied, however many tasks
\* and syncs feed the lane with batches they fetched earlier, and however the
\* cursor goes back and forth: what it passes is never fetched again
\* (getAfterCursor in watchGroup, applyIncomingMessages).
NothingSkipped == 1..fetchCursor \subseteq processed

Live(t) == phase[t] \in Connecting \cup Streaming

\* While callers wait for each other, an entry that says "connecting" or
\* "watching" has its own task at work: syncGroup and the catch-up of an
\* operation rely on it when they do nothing (syncGroup, catchUpGroupIfNeeded).
WatchingIsLive ==
    (serial /\ handle.status \in {"connecting", "watching"}) => Live(handle.task)

\* unwatchGroup and the repair of an errored watch return: the stream they
\* abort ends, also with a message in hand that waits for the lane.
StopsReturn ==
    /\ (serial /\ unwatching # {}) ~> (unwatching = {})
    /\ (serial /\ repairing # {}) ~> (repairing = {})

\* "Errored watches are retried in later cycles" (docs/DAEMON.md): with a
\* watch that fails, ends or is stopped a bounded number of times, every
\* message of the group is applied, or the member is removed or drops the group.
Reached ==
    \A k \in 1..MaxPosted :
        (serial /\ posted >= k) ~> (k \in processed \/ ~active)
=============================================================================
