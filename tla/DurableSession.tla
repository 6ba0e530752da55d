--------------------------- MODULE DurableSession ---------------------------
(***************************************************************************)
(* What a daemon's session keeps on disk (persistentSession.ts, outbox.ts, *)
(* inbox.ts, localState.ts, main.ts): the encrypted snapshot, the inbox it *)
(* writes, the outbox it sends, and the lock of StateLock around them.  A  *)
(* process may crash between any two of its steps; the next one starts     *)
(* from what is on disk.                                                   *)
(*                                                                         *)
(* A session's state is the cursor up to which it has ingested the group's *)
(* messages and the set of outbox jobs whose sending it has recorded.  A   *)
(* job's name is its number.  An operation of the group's lane is one      *)
(* step, as the snapshot waits for the lanes to be idle.  Only an event of *)
(* the watch has inbox files written: what a sending ingests before it     *)
(* posts is announced to nobody.                                           *)
(***************************************************************************)
EXTENDS StateLock, Sequences, FiniteSetsExt

CONSTANTS
    Messages,     \* the group's inbound messages are 1..Messages
    Jobs,         \* names of outbox jobs, in their lexical order
    Invalid,      \* those whose content is not a job
    MaxQueue,     \* bound: operations in the durable queue
    MaxFailures   \* bound: sends and writes that fail

ASSUME DurableAssumption ==
    /\ Messages \in Nat /\ Jobs \subseteq Nat /\ Invalid \subseteq Jobs
    /\ MaxQueue \in Nat \ {0} /\ MaxFailures \in Nat

VARIABLES
    disk,      \* the snapshot in the state file
    inbox,     \* messages that have a file in the inbox
    file,      \* file[j]: what the outbox holds of job j
    posted,    \* history: jobs the coordinator has taken
    mem,       \* mem[p]: the session's state
    told,      \* history: told[p]: the messages an event of p announced
    queue,     \* queue[p]: the durable queue, the running operation first
    broken,    \* processes with a durabilityError
    round,     \* round[p]: the entries processOutbox has still to handle
    sending,   \* sending[p]: its job: [job, step]
    failures

diskVars == <<disk, inbox, file, posted>>
memVars == <<mem, told, queue, broken, round, sending>>
vars == <<lockVars, diskVars, memVars, failures>>

NoJob == [job |-> 0, step |-> "idle"]
Blank == [cursor |-> 0, sent |-> {}]

Init ==
    /\ LockInit
    /\ disk = Blank /\ inbox = {} /\ posted = {}
    /\ file = [j \in Jobs |-> "none"]
    /\ mem = [p \in Procs |-> Blank] /\ told = [p \in Procs |-> {}]
    /\ queue = [p \in Procs |-> <<>>] /\ broken = {}
    /\ round = [p \in Procs |-> {}] /\ sending = [p \in Procs |-> NoJob]
    /\ failures = 0

MayFail == failures < MaxFailures
Fails == MayFail /\ failures' = failures + 1

-----------------------------------------------------------------------------
(* The durable queue of openPersistentSession.                             *)

\* An operation: the inbox files it writes first, whether the outbox awaits
\* it, and the snapshot once it is taken.
Operation(messages, awaited) ==
    [write |-> messages, awaited |-> awaited, step |-> "write", image |-> Blank]

Persisted(p, op) == queue' = [queue EXCEPT ![p] = Append(@, op)]

\* loadEncryptedState and restoreSnapshot.
Load(p) ==
    /\ proc[p] = "loading"
    /\ Goes(p, "running")
    /\ mem' = [mem EXCEPT ![p] = disk]
    /\ told' = [told EXCEPT ![p] = {}]
    /\ UNCHANGED <<lock, diskVars, queue, broken, round, sending, failures>>

\* A batch of the watch is ingested; its event queues the inbox files and a
\* snapshot.  But the finalizer of a pending operation may throw after the batch
\* was applied (confirmPendingEpochOperations): then there is no event.
Ingest(p) ==
    /\ proc[p] = "running"
    /\ \E k \in mem[p].cursor + 1 .. Messages :
          LET batch == mem[p].cursor + 1 .. k IN
          /\ mem' = [mem EXCEPT ![p].cursor = k]
          /\ \/ /\ Len(queue[p]) < MaxQueue
                /\ told' = [told EXCEPT ![p] = @ \cup batch]
                /\ Persisted(p, Operation(batch, FALSE))
                /\ UNCHANGED failures
             \/ Fails /\ UNCHANGED <<told, queue>>
    /\ UNCHANGED <<lockVars, diskVars, broken, round, sending>>

Running(p) == queue[p] # <<>> /\ proc[p] \in {"running", "closing"}
Op(p) == Head(queue[p])

\* Whoever awaits an operation learns how it went.
Settled(p, ok) ==
    /\ queue' = [queue EXCEPT ![p] = Tail(@)]
    /\ sending' = IF Op(p).awaited
                  THEN [sending EXCEPT ![p].step = IF ok THEN "persisted" ELSE "failed"]
                  ELSE sending

Refused_Never(p) == FALSE

\* The first failure is sticky: every later operation is refused.
Refused(p) == p \in broken

RefuseOp(p) ==
    /\ Running(p) /\ Op(p).step = "write" /\ Refused(p)
    /\ Settled(p, FALSE)
    /\ UNCHANGED <<lockVars, diskVars, mem, told, broken, round, failures>>

\* enqueueInboundMessages: one file after the other, renamed into place.
WriteInbox(p) ==
    /\ Running(p) /\ Op(p).step = "write" /\ ~Refused(p)
    /\ Op(p).write # {}
    /\ inbox' = inbox \cup {Min(Op(p).write)}
    /\ queue' = [queue EXCEPT ![p][1].write = @ \ {Min(@)}]
    /\ UNCHANGED <<lockVars, disk, file, posted, mem, told, broken, round, sending, failures>>

\* exportSnapshotWhenIdle: the state of now, not of when it was queued.
Image(p) == mem[p]

ExportSnapshot(p) ==
    /\ Running(p) /\ Op(p).step = "write" /\ ~Refused(p)
    /\ Op(p).write = {}
    /\ queue' = [queue EXCEPT ![p][1].step = "save", ![p][1].image = Image(p)]
    /\ UNCHANGED <<lockVars, diskVars, mem, told, broken, round, sending, failures>>

\* saveEncryptedState: a temporary file renamed over the old one.
SaveState(p) ==
    /\ Running(p) /\ Op(p).step = "save"
    /\ disk' = Op(p).image
    /\ Settled(p, TRUE)
    /\ UNCHANGED <<lockVars, inbox, file, posted, mem, told, broken, round, failures>>

\* Writing an inbox file or the snapshot throws.
WriteFails(p) ==
    /\ Running(p) /\ ~Refused(p)
    /\ Fails
    /\ broken' = broken \cup {p}
    /\ Settled(p, FALSE)
    /\ UNCHANGED <<lockVars, diskVars, mem, told, round>>

-----------------------------------------------------------------------------
(* The outbox.                                                             *)

\* The application renames a finished job into place.
Produce(j) ==
    /\ file[j] = "none"
    /\ file' = [file EXCEPT ![j] = "queued"]
    /\ UNCHANGED <<lockVars, disk, inbox, posted, memVars, failures>>

\* processOutbox lists the directory once; a leftover .processing file is
\* adopted.
Entries_QueuedOnly == {j \in Jobs : file[j] = "queued"}
Entries == {j \in Jobs : file[j] \in {"queued", "processing"}}

ProcessOutbox(p) ==
    /\ proc[p] = "running" /\ sending[p] = NoJob /\ round[p] = {}
    /\ Entries # {}
    /\ round' = [round EXCEPT ![p] = Entries]
    /\ UNCHANGED <<lockVars, diskVars, mem, told, queue, broken, sending, failures>>

\* The first entry is renamed, read and, if it is no job, set aside.
ClaimJob(p) ==
    /\ proc[p] = "running" /\ sending[p] = NoJob /\ round[p] # {}
    /\ LET j == Min(round[p]) IN
       /\ round' = [round EXCEPT ![p] = @ \ {j}]
       /\ file' = [file EXCEPT ![j] = IF j \in Invalid THEN "invalid" ELSE "processing"]
       /\ sending' = [sending EXCEPT ![p] =
             IF j \in Invalid THEN NoJob ELSE [job |-> j, step |-> "claimed"]]
    /\ UNCHANGED <<lockVars, disk, inbox, posted, mem, told, queue, broken, failures>>

\* Where catchUpGroupIfNeeded leaves the cursor: it ingests what the log has
\* unless the group is watching, and what it received is dropped.
CaughtUp(p) == mem[p].cursor .. Messages

\* sendMessage, which first catches up, and then persist; or the catch-up or the
\* post fails, perhaps after it was taken.  What was caught up stays.
SendJob(p) ==
    /\ proc[p] = "running" /\ sending[p].step = "claimed"
    /\ \E k \in CaughtUp(p) :
          \/ /\ Len(queue[p]) < MaxQueue
             /\ mem' = [mem EXCEPT ![p] =
                   [cursor |-> k, sent |-> @.sent \cup {sending[p].job}]]
             /\ posted' = posted \cup {sending[p].job}
             /\ Persisted(p, Operation({}, TRUE))
             /\ sending' = [sending EXCEPT ![p].step = "persisting"]
             /\ UNCHANGED failures
          \/ /\ Fails
             /\ mem' = [mem EXCEPT ![p].cursor = k]
             /\ posted' \in {posted, posted \cup {sending[p].job}}
             /\ sending' = [sending EXCEPT ![p].step = "failed"]
             /\ UNCHANGED queue
    /\ UNCHANGED <<lockVars, disk, inbox, file, told, broken, round>>

UnlinksAfter_Send == "persisting"

\* The job's file goes once the snapshot with its sending is saved.
UnlinksAfter == "persisted"

UnlinkJob(p) ==
    /\ proc[p] = "running" /\ sending[p].step = UnlinksAfter
    /\ file' = [file EXCEPT ![sending[p].job] = "gone"]
    /\ sending' = [sending EXCEPT ![p] = NoJob]
    /\ UNCHANGED <<lockVars, disk, inbox, posted, mem, told, queue, broken, round, failures>>

\* The failed job is queued again and the rest of the round given up; the
\* daemon stops when the failure was one of the disk.
RequeueJob(p) ==
    /\ proc[p] = "running" /\ sending[p].step = "failed"
    /\ file' = [file EXCEPT ![sending[p].job] = "queued"]
    /\ sending' = [sending EXCEPT ![p] = NoJob]
    /\ round' = [round EXCEPT ![p] = {}]
    /\ IF p \in broken THEN Goes(p, "closing") ELSE UNCHANGED proc
    /\ UNCHANGED <<lock, disk, inbox, posted, mem, told, queue, broken, failures>>

-----------------------------------------------------------------------------
(* The end of a session.                                                   *)

\* The daemon leaves its loop between two cycles, when it was told to stop or
\* a durable write failed.
Stop(p) ==
    /\ proc[p] = "running" /\ sending[p] = NoJob /\ round[p] = {}
    /\ Goes(p, "closing")
    /\ Persisted(p, Operation({}, FALSE))
    /\ UNCHANGED <<lock, diskVars, mem, told, broken, round, sending, failures>>

Drained_NotAwaited(p) == TRUE
Drained(p) == queue[p] = <<>>

\* close: ingestion has stopped, the queue is drained, the last snapshot taken.
Close(p) ==
    /\ proc[p] = "closing" /\ Drained(p)
    /\ Release(p)
    /\ queue' = [queue EXCEPT ![p] = <<>>]
    /\ UNCHANGED <<diskVars, mem, told, broken, round, sending, failures>>

CrashSession(p) ==
    /\ Crash(p)
    /\ queue' = [queue EXCEPT ![p] = <<>>]
    /\ round' = [round EXCEPT ![p] = {}]
    /\ sending' = [sending EXCEPT ![p] = NoJob]
    /\ UNCHANGED <<diskVars, mem, told, broken, failures>>

Next ==
    \/ \E p \in Procs :
          \/ LockStep(p) /\ UNCHANGED <<diskVars, memVars, failures>>
          \/ Load(p) \/ Ingest(p) \/ RefuseOp(p) \/ WriteInbox(p) \/ ExportSnapshot(p)
          \/ SaveState(p) \/ WriteFails(p)
          \/ ProcessOutbox(p) \/ ClaimJob(p) \/ SendJob(p) \/ UnlinkJob(p) \/ RequeueJob(p)
          \/ Stop(p) \/ Close(p) \/ CrashSession(p)
    \/ \E j \in Jobs : Produce(j)

Spec == Init /\ [][Next]_vars

\* The durable queue and the loop of the daemon go on; nobody has to start,
\* stop or feed it.
Fairness ==
    \A p \in Procs :
        /\ WF_vars(RefuseOp(p) \/ WriteInbox(p) \/ ExportSnapshot(p) \/ SaveState(p))
        /\ WF_vars(ProcessOutbox(p)) /\ WF_vars(ClaimJob(p)) /\ WF_vars(SendJob(p))
        /\ WF_vars(UnlinkJob(p)) /\ WF_vars(RequeueJob(p))

FairSpec == Spec /\ Fairness

-----------------------------------------------------------------------------
(* Properties.                                                             *)

State == [cursor : 0..Messages, sent : SUBSET Jobs]

TypeOK ==
    /\ LockTypeOK
    /\ disk \in State /\ mem \in [Procs -> State]
    /\ inbox \subseteq 1..Messages /\ posted \subseteq Jobs /\ broken \subseteq Procs
    /\ file \in [Jobs -> {"none", "queued", "processing", "invalid", "gone"}]
    /\ \A p \in Procs :
          /\ told[p] \subseteq 1..mem[p].cursor
          /\ \A i \in DOMAIN queue[p] :
                /\ queue[p][i].write \subseteq 1..mem[p].cursor
                /\ queue[p][i].step \in (IF i = 1 THEN {"write", "save"} ELSE {"write"})
          /\ round[p] \subseteq Jobs
          /\ sending[p] = NoJob
             \/ /\ sending[p].job \in Jobs \ Invalid
                /\ file[sending[p].job] = "processing"

\* A job leaves the outbox only when the coordinator has taken its message and
\* the snapshot on disk knows it, whatever fails and wherever the process dies
\* in between; up to then it is sent again (processOutbox: "Both directions are
\* at-least-once", docs/QUEUES.md).
DoneIsDurable == \A j \in Jobs : file[j] = "gone" => j \in posted /\ j \in disk.sent

\* A session that closed without a durability failure has left nothing in
\* memory: the snapshot has all it ingested and sent, the inbox a file of every
\* message an event of it announced (the order of steps in close).  Messages it
\* ingested without an event (CaughtUp, a batch that threw) have no file, ever.
CloseKeepsAll ==
    \A p \in Procs :
        (proc[p] = "closed" /\ p \notin broken) =>
            /\ mem[p].cursor <= disk.cursor /\ mem[p].sent \subseteq disk.sent
            /\ told[p] \subseteq inbox

\* The snapshot never goes back, over any sequence of processes: that would
\* use the group's keys a second time.  And once a durable write of a session
\* has failed, it saves nothing more ("rather than advancing volatile MLS
\* state", docs/DAEMON.md).
DiskAdvances ==
    [][/\ disk.cursor <= disk'.cursor /\ disk.sent \subseteq disk'.sent
       /\ (\E p \in broken : proc[p] \in Working) => disk' = disk]_vars

\* A daemon that goes on handles every job, also one that an earlier process
\* had renamed to .processing when it died, or one that was queued again.
Served ==
    \A j \in Jobs, p \in Procs :
        (proc[p] = "running" /\ file[j] \in {"queued", "processing"})
            ~> (proc[p] # "running" \/ file[j] \in {"invalid", "gone"})

\* "An inbound inbox file becomes durable before the corresponding cursor is
\* persisted, preventing permanent notification loss" (docs/DAEMON.md).
NotificationNeverLost == 1 .. disk.cursor \subseteq inbox
=============================================================================
