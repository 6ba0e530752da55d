------------------------ MODULE DurableSessionProofs ------------------------
(***************************************************************************)
(* One writer per state file, and what a daemon's session keeps on disk,   *)
(* for any number of processes, messages and jobs, any queue and any       *)
(* number of failures, as long as no two processes are opening the state   *)
(* file at once.                                                           *)
(***************************************************************************)
EXTENDS DurableSession, SequenceTheorems, WellFoundedInduction, TLAPS

(* The lock file and the processes.                                        *)

\* The lock file is that of every process between its creation and its release.
Holding(p) == proc[p] = "creating" \/ proc[p] \in Working

OneOpens == \A p, q \in Procs : (proc[p] \in Opening /\ proc[q] \in Opening) => p = q

HolderOwns == \A p \in Procs : Holding(p) => lock.owner = p

\* A lock judged stale stays so until it is unlinked: nobody else can open.
StaleIsDead ==
    \A p, q \in Procs : (proc[p] = "stale" /\ lock.owner = q) => ~IsProcessRunning(q)

LockInv == LockTypeOK /\ OneOpens /\ HolderOwns /\ StaleIsDead

\* The steps of DurableSession that leave the lock file alone and move no process
\* from outside Working into it, or out of it.
Keeps ==
    /\ lock' = lock
    /\ \/ proc' = proc
       \/ \E p \in Procs, to \in Working : proc[p] \in Working /\ Goes(p, to)

\* What every step does to the lock file and the processes: a step of StateLock,
\* the release, a crash, or nothing that matters.
LEMMA LockView ==
    ASSUME [Next]_vars
    PROVE  \/ Keeps
           \/ \E p \in Procs : \/ LockStep(p) \/ Crash(p)
                               \/ proc[p] = "closing" /\ Release(p)
<1>1. CASE UNCHANGED vars
  BY <1>1 DEF vars, lockVars, Keeps
<1>2. ASSUME NEW p \in Procs, LockStep(p) \/ Close(p) \/ CrashSession(p)
      PROVE  \E q \in Procs : LockStep(q) \/ Crash(q) \/ (proc[q] = "closing" /\ Release(q))
  BY <1>2 DEF Close, CrashSession
<1>3. ASSUME NEW p \in Procs,
             \/ Ingest(p) \/ RefuseOp(p) \/ WriteInbox(p) \/ ExportSnapshot(p)
             \/ SaveState(p) \/ WriteFails(p) \/ ProcessOutbox(p) \/ ClaimJob(p)
             \/ SendJob(p) \/ UnlinkJob(p)
      PROVE  Keeps
  BY <1>3 DEF Ingest, RefuseOp, WriteInbox, ExportSnapshot, SaveState, WriteFails,
     ProcessOutbox, ClaimJob, SendJob, UnlinkJob, lockVars, Keeps
<1>4. ASSUME NEW p \in Procs, Load(p) \/ Stop(p) \/ RequeueJob(p)
      PROVE  Keeps
  BY <1>4 DEF Load, Stop, RequeueJob, Keeps, Goes, Working
<1>5. ASSUME NEW j \in Jobs, Produce(j)
      PROVE  Keeps
  BY <1>5 DEF Produce, lockVars, Keeps
<1> QED
  BY <1>1, <1>2, <1>3, <1>4, <1>5 DEF Next

LEMMA LockInit1 == Init => LockInv
BY StateLockAssumption
   DEF Init, LockInit, LockInv, LockTypeOK, OneOpens, HolderOwns, StaleIsDead, Holding,
       Opening, Working, NoLock

LEMMA LockKept ==
    ASSUME LockInv, Keeps
    PROVE  LockInv'
BY DEF Keeps, Goes, LockInv, LockTypeOK, OneOpens, HolderOwns, StaleIsDead, Holding,
       IsProcessRunning, Opening, Working, Gone, NoLock

LEMMA LockMoved ==
    ASSUME LockInv, ~Rivals, NEW p \in Procs,
           LockStep(p) \/ Crash(p) \/ (proc[p] = "closing" /\ Release(p))
    PROVE  LockInv'
<1> USE DEF LockInv, LockTypeOK, OneOpens, HolderOwns, StaleIsDead, Holding, Goes,
            IsProcessRunning, Opening, Working, Gone
<1>1. CASE Starts(p)
  BY <1>1 DEF Starts
<1>2. CASE TryCreate(p)
  <2>1. CASE lock = NoLock
    <3>1. \A q \in Procs : ~(proc[q] = "creating" \/ proc[q] \in Working)
      BY <2>1, StateLockAssumption DEF NoLock
    <3>2. /\ lock' = [owner |-> p, pid |-> FALSE]
          /\ proc' = [proc EXCEPT ![p] = "creating"]
          /\ proc[p] = "trying"
      BY <1>2, <2>1 DEF TryCreate
    <3> QED
      BY <3>1, <3>2
  <2>2. CASE lock # NoLock
    BY <1>2, <2>2 DEF TryCreate, NoLock
  <2> QED
    BY <2>1, <2>2
<1>3. CASE WritePid(p)
  BY <1>3 DEF WritePid, NoLock
<1>4. CASE ReadOwner(p)
  BY <1>4, StateLockAssumption DEF ReadOwner, Verdict, NoLock
<1>5. CASE UnlinkStale(p)
  BY <1>5, StateLockAssumption DEF UnlinkStale, NoLock
<1>6. CASE Crash(p)
  BY <1>6 DEF Crash
<1>7. CASE proc[p] = "closing" /\ Release(p)
  BY <1>7, StateLockAssumption DEF Release, NoLock
<1> QED
  BY <1>1, <1>2, <1>3, <1>4, <1>5, <1>6, <1>7 DEF LockStep

\* "Exclusive process lock: one MLS session writer per state file"
\* (acquireStateLock in localState.ts): no two sessions ever work on one state
\* file, however they crash and take over each other's locks, provided that only
\* one process at a time is opening it.
THEOREM OneWriterHolds == ~Rivals => (Spec => []OneWriter)
<1> SUFFICES ASSUME ~Rivals PROVE Spec => []OneWriter
  OBVIOUS
<1>1. Init => LockInv
  BY LockInit1
<1>2. LockInv /\ [Next]_vars => LockInv'
  BY LockView, LockKept, LockMoved
<1>3. LockInv => OneWriter
  BY DEF LockInv, HolderOwns, Holding, OneWriter
<1> QED
  BY <1>1, <1>2, <1>3, PTL DEF Spec

-----------------------------------------------------------------------------
(* The session.                                                            *)

OpRec ==
    [write : SUBSET (1..Messages), awaited : BOOLEAN, step : {"write", "save"}, image : State]

JobRec ==
    {NoJob} \cup [job : Jobs \ Invalid, step : {"claimed", "persisting", "persisted", "failed"}]

DataTypeOK ==
    /\ disk \in State /\ inbox \subseteq 1..Messages /\ posted \subseteq Jobs
    /\ file \in [Jobs -> {"none", "queued", "processing", "invalid", "gone"}]
    /\ mem \in [Procs -> State] /\ told \in [Procs -> SUBSET (1..Messages)]
    /\ queue \in [Procs -> Seq(OpRec)] /\ broken \subseteq Procs
    /\ round \in [Procs -> SUBSET Jobs] /\ sending \in [Procs -> JobRec]

\* One state knows all that another does.
Within(a, b) == a.cursor <= b.cursor /\ a.sent \subseteq b.sent

Active(p) == proc[p] \in {"running", "closing"}

\* Only a session that works has anything queued, only one that runs sends.
IdleOK(p) ==
    /\ ~Active(p) => queue[p] = <<>>
    /\ proc[p] # "running" => sending[p] = NoJob /\ round[p] = {}

\* The disk is never ahead of the session that writes it.
MemOK(p) ==
    /\ told[p] \subseteq 1..mem[p].cursor
    /\ Active(p) => Within(disk, mem[p])

\* The operation the outbox awaits is queued once; only the first operation has
\* an image of the state, taken since the disk was last written.
QueueOK(p) ==
    /\ \A i \in 1..Len(queue[p]) :
          /\ queue[p][i].write \subseteq 1..mem[p].cursor
          /\ i # 1 => queue[p][i].step = "write"
          /\ queue[p][i].awaited => sending[p].step = "persisting"
          /\ \A k \in 1..Len(queue[p]) : queue[p][i].awaited /\ queue[p][k].awaited => i = k
    /\ (queue[p] # <<>> /\ queue[p][1].step = "save") =>
          /\ p \notin broken /\ queue[p][1].write = {}
          /\ Within(disk, queue[p][1].image) /\ Within(queue[p][1].image, mem[p])
          /\ queue[p][1].awaited => sending[p].job \in queue[p][1].image.sent

\* What the coordinator took is in memory first, and then on disk.
SendingOK(p) ==
    sending[p] # NoJob =>
        /\ file[sending[p].job] = "processing"
        /\ sending[p].step = "persisting" => sending[p].job \in posted \cap mem[p].sent
        /\ sending[p].step = "persisted" => sending[p].job \in posted \cap disk.sent

\* What an event announced has a file, or an operation that will write it.
InboxOK(p) ==
    (Active(p) /\ p \notin broken) =>
        \A m \in told[p] :
            m \in inbox \/ \E i \in 1..Len(queue[p]) : m \in queue[p][i].write

\* The last operation of a session that closes saves its last state.
ClosingOK(p) ==
    (proc[p] = "closing" /\ p \notin broken) =>
        /\ queue[p] = <<>> => Within(mem[p], disk)
        /\ (Len(queue[p]) = 1 /\ queue[p][1].step = "save") => queue[p][1].image = mem[p]

ClosedOK(p) ==
    (proc[p] = "closed" /\ p \notin broken) =>
        /\ Within(mem[p], disk)
        /\ told[p] \subseteq inbox

SessionOK(p) ==
    /\ IdleOK(p) /\ MemOK(p) /\ QueueOK(p) /\ SendingOK(p)
    /\ InboxOK(p) /\ ClosingOK(p) /\ ClosedOK(p)

DataInv ==
    /\ DataTypeOK
    /\ \A p \in Procs : SessionOK(p)
    /\ DoneIsDurable

SessionInv == LockInv /\ DataInv

-----------------------------------------------------------------------------
LEMMA MinIsMember ==
    ASSUME NEW S, S \subseteq Nat, S # {}
    PROVE  Min(S) \in S
<1>1. PICK x \in S : \A y \in S : ~(<<y, x>> \in OpToRel(<, Nat))
  BY WFMin, NatLessThanWellFounded
<1>2. \A y \in S : ~(y < x)
  BY <1>1, Zenon DEF OpToRel
<1>3. \A y \in S : x =< y
  BY <1>2
<1> QED
  BY <1>3 DEF Min

LEMMA SessionInit == Init => SessionInv
<1> SUFFICES ASSUME Init PROVE SessionInv
  OBVIOUS
<1>1. LockInv
  BY LockInit1
<1>2. DataTypeOK
  BY DurableAssumption, EmptySeq DEF Init, DataTypeOK, State, Blank, JobRec
<1>3. \A p \in Procs : SessionOK(p)
  BY DEF Init, LockInit, SessionOK, IdleOK, MemOK, QueueOK, SendingOK, InboxOK, ClosingOK,
     ClosedOK, Active, Blank
<1>4. DoneIsDurable
  BY DEF Init, DoneIsDurable
<1> QED
  BY <1>1, <1>2, <1>3, <1>4 DEF SessionInv, DataInv

\* Two sessions never work at once.
LEMMA OthersIdle ==
    ASSUME SessionInv, NEW p \in Procs, Active(p), NEW q \in Procs, q # p
    PROVE  ~Active(q)
BY DEF SessionInv, LockInv, HolderOwns, Holding, Working, Active

\* What is on disk never goes back, nor a file of the inbox away.
Onward == Within(disk, disk') /\ inbox \subseteq inbox'

MineUnchanged(q) ==
    /\ proc'[q] = proc[q] /\ mem'[q] = mem[q] /\ told'[q] = told[q]
    /\ queue'[q] = queue[q] /\ round'[q] = round[q] /\ sending'[q] = sending[q]
    /\ q \in broken' <=> q \in broken

\* The session of a process that is idle while another works.
LEMMA IdleKept ==
    ASSUME SessionInv, DataTypeOK', NEW q \in Procs, ~Active(q), MineUnchanged(q), Onward
    PROVE  SessionOK(q)'
<1> USE DEF MineUnchanged
<1>1. SessionOK(q) /\ queue[q] = <<>> /\ sending[q] = NoJob /\ round[q] = {} /\ ~Active(q)'
  BY DEF SessionInv, DataInv, SessionOK, IdleOK, Active
<1>2. IdleOK(q)' /\ MemOK(q)' /\ QueueOK(q)' /\ SendingOK(q)'
  BY <1>1 DEF IdleOK, MemOK, QueueOK, SendingOK, SessionOK
<1>3. InboxOK(q)' /\ ClosingOK(q)'
  BY <1>1 DEF InboxOK, ClosingOK, Active
<1>4. ClosedOK(q)'
  <2>1. CASE proc[q] = "closed" /\ q \notin broken
    <3>1. Within(mem[q], disk) /\ told[q] \subseteq inbox
      BY <1>1, <2>1 DEF SessionOK, ClosedOK
    <3>2. mem[q] \in State /\ disk \in State /\ disk' \in State
      BY DEF SessionInv, DataInv, DataTypeOK
    <3> QED
      BY <3>1, <3>2 DEF ClosedOK, Onward, Within, State
  <2> QED
    BY <2>1 DEF ClosedOK
<1> QED
  BY <1>2, <1>3, <1>4 DEF SessionOK

\* The session of a process when a step touches nothing it knows.
LEMMA AsideKept ==
    ASSUME SessionInv, NEW q \in Procs, MineUnchanged(q), UNCHANGED <<disk, inbox, posted, file>>
    PROVE  SessionOK(q)'
<1>1. SessionOK(q)
  BY DEF SessionInv, DataInv
<1> QED
  BY <1>1 DEF SessionOK, MineUnchanged, IdleOK, MemOK, QueueOK, SendingOK, InboxOK, ClosingOK,
     ClosedOK, Active

\* The steps of a session that works: what it leaves of the others.
LEMMA OthersKept ==
    ASSUME SessionInv, DataTypeOK', NEW p \in Procs, Active(p), SessionOK(p)', Onward,
           \A q \in Procs \ {p} : MineUnchanged(q)
    PROVE  \A q \in Procs : SessionOK(q)'
BY OthersIdle, IdleKept

LEMMA Stays ==
    ASSUME SessionInv, disk' = disk, inbox \subseteq inbox'
    PROVE  Onward
BY DEF SessionInv, DataInv, DataTypeOK, State, Onward, Within

-----------------------------------------------------------------------------
(* One lemma per kind of step.                                             *)

\* A step of the lock, or a crash: the process has no session, before or after.
LEMMA LockStepKeeps ==
    ASSUME SessionInv, NEW p \in Procs,
           \/ LockStep(p) /\ UNCHANGED <<diskVars, memVars, failures>>
           \/ CrashSession(p)
    PROVE  DataInv'
<1> USE DEF diskVars, memVars
<1>1. DataTypeOK'
  <2>1. DataTypeOK /\ <<>> \in Seq(OpRec) /\ NoJob \in JobRec
    BY EmptySeq DEF SessionInv, DataInv, JobRec
  <2>2. CASE UNCHANGED <<diskVars, memVars>>
    BY <2>1, <2>2 DEF DataTypeOK
  <2>3. CASE CrashSession(p)
    BY <2>1, <2>3 DEF DataTypeOK, CrashSession
  <2> QED
    BY <2>2, <2>3
<1>2. DoneIsDurable'
  BY DEF SessionInv, DataInv, DoneIsDurable, CrashSession
<1>3. /\ proc \in [Procs -> Opening \cup Working \cup Gone \cup {"new"}]
      /\ \A q \in Procs : SessionOK(q)
      /\ queue \in [Procs -> Seq(OpRec)] /\ round \in [Procs -> SUBSET Jobs]
      /\ sending \in [Procs -> JobRec] /\ mem \in [Procs -> State]
  BY DEF SessionInv, DataInv, LockInv, LockTypeOK, DataTypeOK
<1>4. /\ UNCHANGED <<disk, inbox, posted, file, mem, told, broken>>
      /\ \A q \in Procs \ {p} : proc'[q] = proc[q]
      /\ ~Active(p)' /\ proc'[p] # "closed"
  BY <1>3 DEF LockStep, Starts, TryCreate, WritePid, ReadOwner, Verdict, UnlinkStale,
     CrashSession, Crash, Goes, Active
<1>5. \A q \in Procs \ {p} : MineUnchanged(q)
  BY <1>3, <1>4 DEF CrashSession, MineUnchanged
<1>6. queue'[p] = <<>> /\ sending'[p] = NoJob /\ round'[p] = {}
  <2>1. CASE CrashSession(p)
    BY <1>3, <2>1 DEF CrashSession
  <2>2. CASE LockStep(p) /\ UNCHANGED <<diskVars, memVars, failures>>
    <3>1. ~Active(p)
      BY <2>2 DEF LockStep, Starts, TryCreate, WritePid, ReadOwner, UnlinkStale, Active
    <3> QED
      BY <1>3, <2>2, <3>1 DEF SessionOK, IdleOK, Active
  <2> QED
    BY <2>1, <2>2
<1>7. SessionOK(p)'
  BY <1>3, <1>4, <1>6 DEF SessionOK, IdleOK, MemOK, QueueOK, SendingOK, InboxOK, ClosingOK,
     ClosedOK, Active
<1> QED
  BY <1>1, <1>2, <1>4, <1>5, <1>7, AsideKept DEF DataInv

\* The session starts from the snapshot.
LEMMA LoadKeeps ==
    ASSUME SessionInv, NEW p \in Procs, Load(p)
    PROVE  DataInv'
<1> USE DEF diskVars
<1>1. /\ DataTypeOK /\ DoneIsDurable /\ SessionOK(p)
      /\ proc \in [Procs -> Opening \cup Working \cup Gone \cup {"new"}]
  BY DEF SessionInv, DataInv, LockInv, LockTypeOK
<1>2. DataTypeOK' /\ DoneIsDurable'
  BY <1>1 DEF Load, DataTypeOK, State, DoneIsDurable
<1>3. \A q \in Procs \ {p} : SessionOK(q)'
  <2> SUFFICES ASSUME NEW q \in Procs \ {p} PROVE SessionOK(q)'
    OBVIOUS
  <2>1. MineUnchanged(q)
    BY <1>1 DEF Load, Goes, MineUnchanged, DataTypeOK
  <2> QED
    BY <2>1, AsideKept DEF Load
<1>4. /\ proc[p] = "loading" /\ proc'[p] = "running"
      /\ queue'[p] = <<>> /\ sending'[p] = NoJob
      /\ mem'[p] = disk /\ disk' = disk /\ told'[p] = {}
  BY <1>1 DEF Load, Goes, DataTypeOK, SessionOK, IdleOK, Active
<1>5. SessionOK(p)'
  BY <1>1, <1>4 DEF SessionOK, IdleOK, MemOK, QueueOK, SendingOK, InboxOK, ClosingOK,
     ClosedOK, Active, Within, DataTypeOK, State
<1> QED
  BY <1>2, <1>3, <1>5 DEF DataInv

\* A session that works: its queue, its state and its job.
LEMMA Facts ==
    ASSUME SessionInv, NEW p \in Procs
    PROVE  /\ DataTypeOK /\ DoneIsDurable /\ SessionOK(p)
           /\ proc \in [Procs -> Opening \cup Working \cup Gone \cup {"new"}]
           /\ disk \in State /\ mem[p] \in State /\ told[p] \subseteq 1..Messages
           /\ queue[p] \in Seq(OpRec) /\ Len(queue[p]) \in Nat
           /\ \A i \in 1..Len(queue[p]) : queue[p][i] \in OpRec
           /\ queue[p] # <<>> => /\ Len(queue[p]) >= 1 /\ Op(p) = queue[p][1]
                                 /\ Op(p) \in OpRec
           /\ queue[p] = <<>> <=> Len(queue[p]) = 0
           /\ sending[p] \in JobRec
           /\ round[p] \subseteq Jobs
<1>1. /\ DataTypeOK /\ DoneIsDurable /\ SessionOK(p)
      /\ proc \in [Procs -> Opening \cup Working \cup Gone \cup {"new"}]
      /\ disk \in State /\ mem[p] \in State /\ told[p] \subseteq 1..Messages
      /\ queue[p] \in Seq(OpRec) /\ sending[p] \in JobRec /\ round[p] \subseteq Jobs
  BY DEF SessionInv, DataInv, LockInv, LockTypeOK, DataTypeOK
<1>2. Len(queue[p]) \in Nat /\ \A i \in 1..Len(queue[p]) : queue[p][i] \in OpRec
  BY <1>1, LenProperties, ElementOfSeq
<1>3. queue[p] # <<>> => Len(queue[p]) >= 1 /\ Op(p) = queue[p][1]
  BY <1>1 DEF Op
<1> QED
  BY <1>1, <1>2, <1>3

\* The first operation leaves the queue.
LEMMA SettledQueue ==
    ASSUME SessionInv, NEW p \in Procs, queue[p] # <<>>, NEW ok \in BOOLEAN, Settled(p, ok)
    PROVE  /\ queue' \in [Procs -> Seq(OpRec)] /\ sending' \in [Procs -> JobRec]
           /\ \A q \in Procs \ {p} : queue'[q] = queue[q] /\ sending'[q] = sending[q]
           /\ Len(queue'[p]) = Len(queue[p]) - 1
           /\ queue'[p] = <<>> <=> Len(queue[p]) = 1
           /\ \A i \in 1..Len(queue'[p]) : queue'[p][i] = queue[p][i + 1]
           /\ ~queue[p][1].awaited => sending'[p] = sending[p]
           /\ (sending'[p] = NoJob <=> sending[p] = NoJob) /\ sending'[p].job = sending[p].job
           /\ sending'[p].step = "persisting" =>
                  ~queue[p][1].awaited /\ sending'[p] = sending[p]
           /\ sending'[p].step = "persisted" => ok \/ sending'[p] = sending[p]
           /\ (sending'[p].step = "persisted" /\ sending'[p] # sending[p]) =>
                  queue[p][1].awaited /\ sending[p].step = "persisting"
<1>1. /\ queue \in [Procs -> Seq(OpRec)] /\ sending \in [Procs -> JobRec]
      /\ Len(queue[p]) \in Nat /\ Len(queue[p]) >= 1 /\ Op(p) = queue[p][1]
      /\ queue[p] \in Seq(OpRec) /\ sending[p] \in JobRec
  BY Facts DEF DataTypeOK
<1>2. queue[p][1].awaited => sending[p].step = "persisting"
  BY <1>1, Facts DEF SessionOK, QueueOK
<1>3. queue' = [queue EXCEPT ![p] = Tail(queue[p])] /\ queue'[p] = Tail(queue[p])
  BY <1>1 DEF Settled
<1>4. /\ Tail(queue[p]) \in Seq(OpRec) /\ Len(Tail(queue[p])) = Len(queue[p]) - 1
      /\ \A i \in 1..Len(Tail(queue[p])) : Tail(queue[p])[i] = queue[p][i + 1]
      /\ Tail(queue[p]) = <<>> <=> Len(Tail(queue[p])) = 0
  BY <1>1, HeadTailProperties, EmptySeq
<1>5. /\ queue' \in [Procs -> Seq(OpRec)]
      /\ \A q \in Procs \ {p} : queue'[q] = queue[q]
      /\ Len(queue'[p]) = Len(queue[p]) - 1
      /\ queue'[p] = <<>> <=> Len(queue[p]) = 1
      /\ \A i \in 1..Len(queue'[p]) : queue'[p][i] = queue[p][i + 1]
  BY <1>1, <1>3, <1>4
<1>6. CASE ~queue[p][1].awaited
  <2>1. sending' = sending
    BY <1>1, <1>6 DEF Settled
  <2> QED
    BY <1>1, <1>5, <1>6, <2>1
<1>7. CASE queue[p][1].awaited
  <2>1. /\ sending' = [sending EXCEPT ![p].step = IF ok THEN "persisted" ELSE "failed"]
        /\ sending[p].step = "persisting" /\ sending[p] \in JobRec
    BY <1>1, <1>2, <1>7 DEF Settled
  <2>2. /\ sending'[p] = [sending[p] EXCEPT !.step = IF ok THEN "persisted" ELSE "failed"]
        /\ sending[p] # NoJob
        /\ sending[p] \in [job : Jobs \ Invalid, step : {"claimed", "persisting", "persisted", "failed"}]
    BY <1>1, <2>1 DEF NoJob, JobRec
  <2>3. /\ sending'[p] \in JobRec /\ sending'[p] # NoJob /\ sending'[p].job = sending[p].job
        /\ sending'[p].step = IF ok THEN "persisted" ELSE "failed"
    BY <2>2 DEF JobRec, NoJob
  <2>4. sending' \in [Procs -> JobRec] /\ \A q \in Procs \ {p} : sending'[q] = sending[q]
    BY <1>1, <2>1, <2>3
  <2>5. sending'[p].step # "persisting" /\ (sending'[p].step = "persisted" => ok)
    BY <2>3
  <2> QED
    BY <1>5, <1>7, <2>1, <2>2, <2>3, <2>4, <2>5
<1> QED
  BY <1>6, <1>7

LEMMA SettledOK ==
    ASSUME SessionInv, NEW p \in Procs, queue[p] # <<>>, NEW ok \in BOOLEAN, Settled(p, ok),
           mem' = mem
    PROVE  /\ QueueOK(p)'
           /\ \A i \in 1..Len(queue'[p]) : queue'[p][i].step = "write"
<1> USE SettledQueue
<1>1. /\ Len(queue[p]) \in Nat /\ Len(queue[p]) >= 1 /\ QueueOK(p)
      /\ Len(queue'[p]) = Len(queue[p]) - 1
      /\ \A i \in 1..Len(queue'[p]) : queue'[p][i] = queue[p][i + 1]
      /\ ~queue[p][1].awaited => sending'[p] = sending[p]
  BY Facts DEF SessionOK
<1>2. \A i \in 1..Len(queue'[p]) :
          \E j \in 1..Len(queue[p]) : j = i + 1 /\ j # 1 /\ queue'[p][i] = queue[p][j]
  <2> SUFFICES ASSUME NEW i \in 1..Len(queue'[p])
               PROVE  i + 1 \in 1..Len(queue[p]) /\ i + 1 # 1
    BY <1>1
  <2> QED
    BY <1>1
<1>3. \A i \in 1..Len(queue'[p]) :
          queue'[p][i].write \subseteq 1..mem'[p].cursor /\ queue'[p][i].step = "write"
  BY <1>1, <1>2 DEF QueueOK
<1>4. 1 \in 1..Len(queue[p])
  BY <1>1
<1>5. \A i \in 1..Len(queue'[p]) : queue'[p][i].awaited => sending'[p].step = "persisting"
  BY <1>1, <1>2, <1>4 DEF QueueOK
<1>6. \A i, k \in 1..Len(queue'[p]) : queue'[p][i].awaited /\ queue'[p][k].awaited => i = k
  <2> SUFFICES ASSUME NEW i \in 1..Len(queue'[p]), NEW k \in 1..Len(queue'[p]),
                      queue'[p][i].awaited, queue'[p][k].awaited
               PROVE  i = k
    OBVIOUS
  <2>1. PICK j \in 1..Len(queue[p]) : j = i + 1 /\ queue'[p][i] = queue[p][j]
    BY <1>2
  <2>2. PICK l \in 1..Len(queue[p]) : l = k + 1 /\ queue'[p][k] = queue[p][l]
    BY <1>2
  <2>3. j = l
    BY <1>1, <2>1, <2>2 DEF QueueOK
  <2> QED
    BY <2>1, <2>2, <2>3
<1>7. queue'[p] # <<>> => queue'[p][1].step = "write"
  <2>1. queue'[p] # <<>> => Len(queue'[p]) >= 1
    BY <1>1
  <2> QED
    BY <1>1, <1>3, <2>1
<1> QED
  BY <1>3, <1>5, <1>6, <1>7 DEF QueueOK

\* An operation is refused, or its write throws: the session is broken.
LEMMA FailureKeeps ==
    ASSUME SessionInv, NEW p \in Procs, RefuseOp(p) \/ WriteFails(p)
    PROVE  DataInv'
<1>1. /\ queue[p] # <<>> /\ Active(p) /\ Settled(p, FALSE)
      /\ UNCHANGED <<lockVars, diskVars, mem, told, round>>
      /\ broken' = broken \cup {p}
  BY DEF RefuseOp, WriteFails, Running, Active, Refused
<1> USE DEF lockVars, diskVars
<1>2. DataTypeOK'
  BY <1>1, Facts, SettledQueue DEF DataTypeOK
<1>3. DoneIsDurable'
  BY <1>1, Facts DEF DoneIsDurable
<1>4. QueueOK(p)'
  BY <1>1, SettledOK
<1>5. IdleOK(p)' /\ MemOK(p)' /\ InboxOK(p)' /\ ClosingOK(p)' /\ ClosedOK(p)'
  BY <1>1, Facts, SettledQueue
     DEF SessionOK, IdleOK, MemOK, InboxOK, ClosingOK, ClosedOK, Active
<1>6. SendingOK(p)'
  BY <1>1, Facts, SettledQueue DEF SessionOK, SendingOK
<1>7. \A q \in Procs \ {p} : MineUnchanged(q)
  BY <1>1, SettledQueue DEF MineUnchanged
<1>8. Onward
  BY <1>1, Stays
<1> QED
  BY <1>1, <1>2, <1>3, <1>4, <1>5, <1>6, <1>7, <1>8, OthersKept DEF DataInv, SessionOK

\* The snapshot is saved.
LEMMA SaveKeeps ==
    ASSUME SessionInv, NEW p \in Procs, SaveState(p)
    PROVE  DataInv' /\ Onward
<1>1. /\ queue[p] # <<>> /\ Active(p) /\ Settled(p, TRUE)
      /\ UNCHANGED <<lockVars, inbox, file, posted, mem, told, broken, round>>
      /\ queue[p][1].step = "save" /\ disk' = queue[p][1].image
  BY Facts DEF SaveState, Running, Active
<1> USE DEF lockVars
<1>2. /\ disk' \in State /\ Within(disk, disk') /\ Within(disk', mem[p])
      /\ p \notin broken /\ queue[p][1].write = {}
      /\ queue[p][1].awaited => sending[p].job \in disk'.sent
  BY <1>1, Facts DEF SessionOK, QueueOK, OpRec
<1>3. DataTypeOK'
  BY <1>1, <1>2, Facts, SettledQueue DEF DataTypeOK
<1>4. DoneIsDurable' /\ Onward
  BY <1>1, <1>2, Facts DEF DoneIsDurable, Within, Onward
<1>5. QueueOK(p)' /\ \A i \in 1..Len(queue'[p]) : queue'[p][i].step = "write"
  BY <1>1, SettledOK
<1>6. IdleOK(p)' /\ MemOK(p)' /\ ClosedOK(p)'
  BY <1>1, <1>2, Facts, SettledQueue DEF SessionOK, IdleOK, MemOK, ClosedOK, Active
<1>7. SendingOK(p)'
  <2>1. /\ sending[p] # NoJob => file[sending[p].job] = "processing"
        /\ sending[p].step = "persisting" => sending[p].job \in posted \cap mem[p].sent
        /\ sending[p].step = "persisted" => sending[p].job \in posted \cap disk.sent
    BY Facts DEF SessionOK, SendingOK, NoJob
  <2> QED
    BY <1>1, <1>2, <2>1, SettledQueue DEF SendingOK, Within
<1>8. InboxOK(p)'
  <2> SUFFICES ASSUME NEW m \in told[p], m \notin inbox
               PROVE  \E i \in 1..Len(queue'[p]) : m \in queue'[p][i].write
    BY <1>1 DEF InboxOK
  <2>1. PICK i \in 1..Len(queue[p]) : m \in queue[p][i].write
    BY <1>1, <1>2, Facts DEF SessionOK, InboxOK
  <2>2. i # 1
    BY <1>2, <2>1
  <2>3. /\ Len(queue[p]) \in Nat /\ Len(queue'[p]) = Len(queue[p]) - 1
        /\ \A k \in 1..Len(queue'[p]) : queue'[p][k] = queue[p][k + 1]
    BY <1>1, Facts, SettledQueue
  <2>4. i - 1 \in 1..Len(queue'[p]) /\ (i - 1) + 1 = i
    BY <2>2, <2>3
  <2>5. queue'[p][i - 1] = queue[p][i]
    BY <2>3, <2>4
  <2> QED
    BY <2>1, <2>4, <2>5
<1>9. ClosingOK(p)'
  <2>1. queue'[p] = <<>> /\ proc[p] = "closing" => disk' = mem[p]
    BY <1>1, <1>2, Facts, SettledQueue DEF SessionOK, ClosingOK
  <2>2. Within(mem[p], mem[p])
    BY Facts DEF Within, State
  <2>3. Len(queue'[p]) = 1 => queue'[p][1].step = "write"
    BY <1>5
  <2> QED
    BY <1>1, <2>1, <2>2, <2>3 DEF ClosingOK
<1>10. \A q \in Procs \ {p} : MineUnchanged(q)
  BY <1>1, SettledQueue DEF MineUnchanged
<1> QED
  BY <1>1, <1>3, <1>4, <1>5, <1>6, <1>7, <1>8, <1>9, <1>10, OthersKept DEF DataInv, SessionOK

\* The first operation goes on.
LEMMA HeadReplaced ==
    ASSUME SessionInv, NEW p \in Procs, queue[p] # <<>>, NEW e \in OpRec,
           queue' = [queue EXCEPT ![p] = [queue[p] EXCEPT ![1] = e]]
    PROVE  /\ queue' \in [Procs -> Seq(OpRec)]
           /\ \A q \in Procs \ {p} : queue'[q] = queue[q]
           /\ Len(queue'[p]) = Len(queue[p]) /\ queue'[p] # <<>> /\ 1 \in 1..Len(queue[p])
           /\ queue'[p][1] = e
           /\ \A i \in 1..Len(queue[p]) : i # 1 => queue'[p][i] = queue[p][i]
<1>1. /\ queue \in [Procs -> Seq(OpRec)] /\ queue[p] \in Seq(OpRec)
      /\ Len(queue[p]) \in Nat /\ Len(queue[p]) >= 1
  BY Facts DEF DataTypeOK
<1>2. 1 \in 1..Len(queue[p])
  BY <1>1
<1>3. /\ [queue[p] EXCEPT ![1] = e] \in Seq(OpRec)
      /\ Len([queue[p] EXCEPT ![1] = e]) = Len(queue[p])
      /\ \A j \in 1..Len(queue[p]) :
            [queue[p] EXCEPT ![1] = e][j] = IF j = 1 THEN e ELSE queue[p][j]
  BY <1>1, <1>2, ExceptSeq
<1>4. queue'[p] = [queue[p] EXCEPT ![1] = e]
  BY <1>1
<1>5. queue'[p] # <<>>
  BY <1>1, <1>3, <1>4, EmptySeq
<1> QED
  BY <1>1, <1>2, <1>3, <1>4, <1>5

\* An inbox file is written.
LEMMA WriteInboxKeeps ==
    ASSUME SessionInv, NEW p \in Procs, WriteInbox(p)
    PROVE  DataInv' /\ Onward
<1> DEFINE h == queue[p][1]
           e == [h EXCEPT !.write = h.write \ {Min(h.write)}]
<1>1. /\ queue[p] # <<>> /\ Active(p)
      /\ UNCHANGED <<lockVars, disk, file, posted, mem, told, broken, round, sending>>
      /\ h.write # {} /\ h.step = "write" /\ h \in OpRec
      /\ inbox' = inbox \cup {Min(h.write)}
      /\ queue' = [queue EXCEPT ![p] = [queue[p] EXCEPT ![1] = e]]
  BY Facts DEF WriteInbox, Running, Active
<1> USE DEF lockVars
<1>2. Min(h.write) \in h.write /\ h.write \subseteq 1..Messages
  <2>1. h.write \subseteq 1..Messages /\ h.write \subseteq Nat
    BY <1>1, DurableAssumption DEF OpRec
  <2> QED
    BY <1>1, <2>1, MinIsMember
<1>3. e \in OpRec /\ e.write = h.write \ {Min(h.write)} /\ e.step = "write" /\ e.awaited = h.awaited
  BY <1>1, <1>2 DEF OpRec
<1> HIDE DEF h, e
<1>4. /\ queue' \in [Procs -> Seq(OpRec)]
      /\ \A q \in Procs \ {p} : queue'[q] = queue[q]
      /\ Len(queue'[p]) = Len(queue[p]) /\ queue'[p] # <<>> /\ 1 \in 1..Len(queue[p])
      /\ queue'[p][1] = e
      /\ \A i \in 1..Len(queue[p]) : i # 1 => queue'[p][i] = queue[p][i]
  BY <1>1, <1>3, HeadReplaced
<1>5. DataTypeOK'
  BY <1>1, <1>2, <1>4, Facts DEF DataTypeOK
<1>6. DoneIsDurable' /\ Onward
  BY <1>1, Facts, Stays DEF DoneIsDurable
<1>7. IdleOK(p)' /\ MemOK(p)' /\ SendingOK(p)' /\ ClosedOK(p)' /\ ClosingOK(p)'
  BY <1>1, <1>3, <1>4, Facts
     DEF SessionOK, IdleOK, MemOK, SendingOK, ClosedOK, ClosingOK, Active
<1>8. QueueOK(p)'
  <2>1. QueueOK(p)
    BY Facts DEF SessionOK
  <2>2. \A i \in 1..Len(queue'[p]) :
            /\ queue'[p][i].write \subseteq queue[p][i].write
            /\ queue'[p][i].step = queue[p][i].step
            /\ queue'[p][i].awaited = queue[p][i].awaited
    BY <1>1, <1>3, <1>4 DEF h
  <2>3. queue'[p][1].step = "write"
    BY <1>3, <1>4
  <2>4. \A i \in 1..Len(queue'[p]) :
            /\ queue'[p][i].write \subseteq 1..mem'[p].cursor
            /\ i # 1 => queue'[p][i].step = "write"
            /\ queue'[p][i].awaited => sending'[p].step = "persisting"
    BY <1>1, <1>4, <2>1, <2>2 DEF QueueOK
  <2>5. \A i, k \in 1..Len(queue'[p]) : queue'[p][i].awaited /\ queue'[p][k].awaited => i = k
    BY <1>4, <2>1, <2>2 DEF QueueOK
  <2> QED
    BY <2>3, <2>4, <2>5 DEF QueueOK
<1>9. InboxOK(p)'
  <2> SUFFICES ASSUME p \notin broken, NEW m \in told[p], m \notin inbox'
               PROVE  \E i \in 1..Len(queue'[p]) : m \in queue'[p][i].write
    BY <1>1 DEF InboxOK
  <2>1. PICK i \in 1..Len(queue[p]) : m \in queue[p][i].write
    BY <1>1, Facts DEF SessionOK, InboxOK
  <2>2. CASE i = 1
    BY <1>1, <1>3, <1>4, <2>1, <2>2 DEF h
  <2>3. CASE i # 1
    BY <1>4, <2>1, <2>3
  <2> QED
    BY <2>2, <2>3
<1>10. \A q \in Procs \ {p} : MineUnchanged(q)
  BY <1>1, <1>4 DEF MineUnchanged
<1> QED
  BY <1>1, <1>5, <1>6, <1>7, <1>8, <1>9, <1>10, OthersKept DEF DataInv, SessionOK

\* The image is taken of the state of now.
LEMMA ExportKeeps ==
    ASSUME SessionInv, NEW p \in Procs, ExportSnapshot(p)
    PROVE  DataInv' /\ Onward
<1> DEFINE h == queue[p][1]
           e == [h EXCEPT !.step = "save", !.image = mem[p]]
<1>1. /\ queue[p] # <<>> /\ Active(p)
      /\ UNCHANGED <<lockVars, disk, inbox, file, posted, mem, told, broken, round, sending>>
      /\ h.write = {} /\ h \in OpRec /\ p \notin broken
      /\ queue' = [queue EXCEPT ![p] = [queue[p] EXCEPT ![1] = e]]
  BY Facts DEF ExportSnapshot, Running, Active, Image, diskVars, Refused
<1> USE DEF lockVars
<1>2. e \in OpRec /\ e.write = {} /\ e.step = "save" /\ e.awaited = h.awaited /\ e.image = mem[p]
  BY <1>1, Facts DEF OpRec
<1> HIDE DEF h, e
<1>3. /\ queue' \in [Procs -> Seq(OpRec)]
      /\ \A q \in Procs \ {p} : queue'[q] = queue[q]
      /\ Len(queue'[p]) = Len(queue[p]) /\ queue'[p] # <<>> /\ 1 \in 1..Len(queue[p])
      /\ queue'[p][1] = e
      /\ \A i \in 1..Len(queue[p]) : i # 1 => queue'[p][i] = queue[p][i]
  BY <1>1, <1>2, HeadReplaced
<1>4. DataTypeOK'
  BY <1>1, <1>3, Facts DEF DataTypeOK
<1>5. DoneIsDurable' /\ Onward
  BY <1>1, Facts, Stays DEF DoneIsDurable
<1>6. IdleOK(p)' /\ MemOK(p)' /\ SendingOK(p)' /\ ClosedOK(p)' /\ ClosingOK(p)'
  BY <1>1, <1>2, <1>3, Facts
     DEF SessionOK, IdleOK, MemOK, SendingOK, ClosedOK, ClosingOK, Active
<1>7. QueueOK(p)'
  <2>1. QueueOK(p)
    BY Facts DEF SessionOK
  <2>2. \A i \in 1..Len(queue'[p]) :
            /\ queue'[p][i].write = queue[p][i].write
            /\ queue'[p][i].awaited = queue[p][i].awaited
    BY <1>1, <1>2, <1>3 DEF h
  <2>3. \A i \in 1..Len(queue'[p]) :
            /\ queue'[p][i].write \subseteq 1..mem'[p].cursor
            /\ i # 1 => queue'[p][i].step = "write"
            /\ queue'[p][i].awaited => sending'[p].step = "persisting"
    BY <1>1, <1>3, <2>1, <2>2 DEF QueueOK
  <2>4. \A i, k \in 1..Len(queue'[p]) : queue'[p][i].awaited /\ queue'[p][k].awaited => i = k
    BY <1>3, <2>1, <2>2 DEF QueueOK
  <2>5. h.awaited => sending[p].step = "persisting"
    BY <1>3, <2>1 DEF QueueOK, h
  <2>6. h.awaited => sending[p].job \in mem[p].sent
    BY <2>5, Facts DEF SessionOK, SendingOK, NoJob
  <2>7. Within(disk, mem[p]) /\ Within(mem[p], mem[p])
    BY <1>1, Facts DEF SessionOK, MemOK, Within, State
  <2> QED
    BY <1>1, <1>2, <1>3, <2>3, <2>4, <2>6, <2>7 DEF QueueOK
<1>8. InboxOK(p)'
  <2> SUFFICES ASSUME NEW m \in told[p], m \notin inbox
               PROVE  \E i \in 1..Len(queue'[p]) : m \in queue'[p][i].write
    BY <1>1 DEF InboxOK
  <2>1. PICK i \in 1..Len(queue[p]) : m \in queue[p][i].write
    BY <1>1, Facts DEF SessionOK, InboxOK
  <2> QED
    BY <1>1, <1>3, <2>1 DEF h
<1>9. \A q \in Procs \ {p} : MineUnchanged(q)
  BY <1>1, <1>3 DEF MineUnchanged
<1> QED
  BY <1>1, <1>4, <1>5, <1>6, <1>7, <1>8, <1>9, OthersKept DEF DataInv, SessionOK

\* An operation is queued.
LEMMA PersistedQueue ==
    ASSUME SessionInv, NEW p \in Procs, NEW w \in SUBSET (1..Messages), NEW aw \in BOOLEAN,
           Persisted(p, Operation(w, aw))
    PROVE  /\ queue' \in [Procs -> Seq(OpRec)]
           /\ \A q \in Procs \ {p} : queue'[q] = queue[q]
           /\ Len(queue'[p]) = Len(queue[p]) + 1 /\ queue'[p] # <<>>
           /\ \A i \in 1..Len(queue[p]) : queue'[p][i] = queue[p][i]
           /\ queue'[p][Len(queue[p]) + 1] = Operation(w, aw)
<1>1. Operation(w, aw) \in OpRec
  BY DurableAssumption DEF Operation, OpRec, Blank, State
<1>2. /\ queue \in [Procs -> Seq(OpRec)] /\ queue[p] \in Seq(OpRec)
      /\ queue'[p] = Append(queue[p], Operation(w, aw))
      /\ queue' = [queue EXCEPT ![p] = Append(queue[p], Operation(w, aw))]
  BY Facts DEF DataTypeOK, Persisted
<1>3. /\ Append(queue[p], Operation(w, aw)) \in Seq(OpRec)
      /\ Append(queue[p], Operation(w, aw)) # <<>>
      /\ Len(Append(queue[p], Operation(w, aw))) = Len(queue[p]) + 1
      /\ \A i \in 1..Len(queue[p]) : Append(queue[p], Operation(w, aw))[i] = queue[p][i]
      /\ Append(queue[p], Operation(w, aw))[Len(queue[p]) + 1] = Operation(w, aw)
  BY <1>1, <1>2, AppendProperties
<1> QED
  BY <1>2, <1>3

LEMMA PersistedOK ==
    ASSUME SessionInv, NEW p \in Procs, NEW w \in SUBSET (1..Messages), NEW aw \in BOOLEAN,
           Persisted(p, Operation(w, aw)), UNCHANGED <<disk, broken>>,
           mem'[p] \in State, Within(mem[p], mem'[p]), w \subseteq 1..mem'[p].cursor,
           aw => sending[p].step # "persisting" /\ sending'[p].step = "persisting",
           ~aw => sending'[p] = sending[p]
    PROVE  /\ QueueOK(p)'
           /\ Len(queue'[p]) = 1 => queue'[p][1].step = "write"
<1> DEFINE n == Len(queue[p]) + 1
<1>1. /\ Len(queue[p]) \in Nat /\ n \in Nat \ {0} /\ QueueOK(p)
      /\ Len(queue'[p]) = n /\ queue'[p] # <<>>
      /\ \A i \in 1..Len(queue'[p]) : i = n \/ i \in 1..Len(queue[p])
      /\ \A i \in 1..Len(queue[p]) : queue'[p][i] = queue[p][i] /\ i # n
  BY Facts, PersistedQueue DEF SessionOK
<1>2. queue'[p][n].write = w /\ queue'[p][n].step = "write" /\ queue'[p][n].awaited = aw
  BY PersistedQueue DEF Operation
<1>3. /\ disk \in State /\ mem[p] \in State /\ mem'[p] \in State
      /\ \A i \in 1..Len(queue[p]) : queue[p][i] \in OpRec
      /\ queue[p] = <<>> <=> Len(queue[p]) = 0
  BY Facts
<1> HIDE DEF n
<1>4. \A i \in 1..Len(queue[p]) : queue[p][i].write \subseteq 1..mem'[p].cursor
  <2>1. 1..mem[p].cursor \subseteq 1..mem'[p].cursor
    BY <1>3 DEF Within, State
  <2> QED
    BY <1>1, <2>1 DEF QueueOK
<1>5. \A i \in 1..Len(queue'[p]) :
          /\ queue'[p][i].write \subseteq 1..mem'[p].cursor
          /\ i # 1 => queue'[p][i].step = "write"
          /\ queue'[p][i].awaited => sending'[p].step = "persisting"
  BY <1>1, <1>2, <1>4 DEF QueueOK
<1>6. \A i, k \in 1..Len(queue'[p]) : queue'[p][i].awaited /\ queue'[p][k].awaited => i = k
  BY <1>1, <1>2 DEF QueueOK
<1>7. CASE queue[p] = <<>>
  <2>1. queue'[p][1].step = "write"
    BY <1>2, <1>3, <1>7 DEF n
  <2> QED
    BY <1>1, <1>5, <1>6, <2>1 DEF QueueOK
<1>8. CASE queue[p] # <<>>
  <2>1. queue'[p][1] = queue[p][1] /\ 1 \in 1..Len(queue[p])
    BY <1>1, <1>3, <1>8
  <2>2. (queue[p][1].step = "save") =>
          /\ p \notin broken /\ queue[p][1].write = {}
          /\ Within(disk, queue[p][1].image) /\ Within(queue[p][1].image, mem[p])
          /\ queue[p][1].awaited => sending[p].job \in queue[p][1].image.sent
    BY <1>1, <1>8 DEF QueueOK
  <2>3. queue[p][1].image \in State
    BY <1>3, <2>1 DEF OpRec
  <2>4. Within(queue[p][1].image, mem[p]) => Within(queue[p][1].image, mem'[p])
    BY <1>3, <2>3 DEF Within, State
  <2>5. queue[p][1].awaited => sending'[p] = sending[p]
    BY <1>1, <2>1 DEF QueueOK
  <2>6. Len(queue'[p]) # 1
    BY <1>1, <1>3, <1>8 DEF n
  <2> QED
    BY <1>1, <1>5, <1>6, <2>1, <2>2, <2>4, <2>5, <2>6 DEF QueueOK
<1> QED
  BY <1>7, <1>8

\* The cursor moves on, to any message.
LEMMA CursorMoved ==
    ASSUME SessionInv, NEW p \in Procs, NEW k \in mem[p].cursor .. Messages,
           NEW s \in SUBSET Jobs, mem[p].sent \subseteq s,
           mem' = [mem EXCEPT ![p] = [cursor |-> k, sent |-> s]]
    PROVE  /\ mem' \in [Procs -> State] /\ mem'[p] = [cursor |-> k, sent |-> s]
           /\ mem'[p] \in State /\ Within(mem[p], mem'[p])
           /\ \A q \in Procs \ {p} : mem'[q] = mem[q]
<1>1. mem \in [Procs -> State] /\ mem[p] \in State
  BY Facts DEF DataTypeOK
<1>2. k \in 0..Messages /\ mem[p].cursor <= k
  BY <1>1, DurableAssumption DEF State
<1>3. [cursor |-> k, sent |-> s] \in State
  BY <1>2 DEF State
<1>4. /\ mem' \in [Procs -> State] /\ mem'[p] = [cursor |-> k, sent |-> s]
      /\ \A q \in Procs \ {p} : mem'[q] = mem[q]
  BY <1>1, <1>3
<1> QED
  BY <1>2, <1>3, <1>4 DEF Within

\* The disk is still behind the session, which announced nothing it lacks.
LEMMA MemKept ==
    ASSUME SessionInv, NEW p \in Procs, Active(p), Within(mem[p], mem'[p]), mem'[p] \in State,
           disk' = disk, proc' = proc, told'[p] \subseteq 1..mem'[p].cursor
    PROVE  MemOK(p)'
BY Facts DEF SessionOK, MemOK, Within, State, Active

\* The queue is right of a session that ingested more and queued nothing.
LEMMA MovedQueueOK ==
    ASSUME SessionInv, NEW p \in Procs, mem'[p] \in State, Within(mem[p], mem'[p]),
           UNCHANGED <<disk, queue, broken>>,
           \/ sending'[p] = sending[p]
           \/ sending[p].step # "persisting" /\ sending'[p].job = sending[p].job
    PROVE  QueueOK(p)'
<1>1. /\ mem[p] \in State /\ QueueOK(p) /\ Len(queue[p]) \in Nat
      /\ \A i \in 1..Len(queue[p]) : queue[p][i] \in OpRec
      /\ queue[p] # <<>> => 1 \in 1..Len(queue[p])
  BY Facts DEF SessionOK
<1>2. \A i \in 1..Len(queue'[p]) :
          /\ queue'[p][i].write \subseteq 1..mem'[p].cursor
          /\ i # 1 => queue'[p][i].step = "write"
  <2>1. 1..mem[p].cursor \subseteq 1..mem'[p].cursor
    BY <1>1 DEF Within, State
  <2> QED
    BY <1>1, <2>1 DEF QueueOK
<1>3. \A i \in 1..Len(queue'[p]) :
          /\ queue'[p][i].awaited => sending'[p].step = "persisting"
          /\ \A k \in 1..Len(queue'[p]) :
                queue'[p][i].awaited /\ queue'[p][k].awaited => i = k
  BY <1>1 DEF QueueOK
<1>4. CASE queue[p] # <<>> /\ queue[p][1].step = "save"
  <2>1. /\ p \notin broken /\ queue[p][1].write = {}
        /\ Within(disk, queue[p][1].image) /\ Within(queue[p][1].image, mem[p])
        /\ queue[p][1].awaited => sending[p].job \in queue[p][1].image.sent
    BY <1>1, <1>4 DEF QueueOK
  <2>2. queue[p][1].image \in State
    BY <1>1, <1>4 DEF OpRec
  <2>3. Within(queue[p][1].image, mem'[p])
    <3> DEFINE image == queue[p][1].image
    <3>1. image \in State /\ mem[p] \in State /\ Within(image, mem[p])
      BY <1>1, <2>1, <2>2
    <3> HIDE DEF image
    <3>2. Within(image, mem'[p])
      BY <3>1 DEF Within, State
    <3> QED
      BY <3>2 DEF image
  <2>4. sending'[p].job = sending[p].job
    OBVIOUS
  <2> QED
    BY <1>2, <1>3, <2>1, <2>3, <2>4 DEF QueueOK
<1>5. CASE ~(queue[p] # <<>> /\ queue[p][1].step = "save")
  BY <1>2, <1>3, <1>5 DEF QueueOK
<1> QED
  BY <1>4, <1>5

\* A batch is ingested, with an event or without.
LEMMA IngestKeeps ==
    ASSUME SessionInv, NEW p \in Procs, Ingest(p)
    PROVE  DataInv' /\ Onward
<1> USE DEF lockVars, diskVars
<1>1. PICK k \in mem[p].cursor + 1 .. Messages :
          /\ mem' = [mem EXCEPT ![p].cursor = k]
          /\ \/ /\ told' = [told EXCEPT ![p] = @ \cup (mem[p].cursor + 1 .. k)]
                /\ Persisted(p, Operation(mem[p].cursor + 1 .. k, FALSE))
             \/ UNCHANGED <<told, queue>>
  BY DEF Ingest
<1> DEFINE w == mem[p].cursor + 1 .. k
<1>2. /\ proc[p] = "running" /\ Active(p)
      /\ UNCHANGED <<proc, lock, disk, inbox, file, posted, broken, round, sending>>
  BY DEF Ingest, Active
<1>3. /\ mem \in [Procs -> State] /\ mem[p] \in State /\ mem[p].cursor \in Nat /\ Messages \in Nat
      /\ told \in [Procs -> SUBSET (1..Messages)] /\ told[p] \subseteq 1..mem[p].cursor
  BY Facts, DurableAssumption DEF DataTypeOK, State, SessionOK, MemOK
<1>4. /\ k \in mem[p].cursor .. Messages /\ w \in SUBSET (1..Messages) /\ w \subseteq 1..k
      /\ 1..mem[p].cursor \subseteq 1..k
  BY <1>3
<1>5. mem' = [mem EXCEPT ![p] = [cursor |-> k, sent |-> mem[p].sent]]
  <2>1. [mem[p] EXCEPT !.cursor = k] = [cursor |-> k, sent |-> mem[p].sent]
    BY <1>3 DEF State
  <2> QED
    BY <1>1, <1>3, <2>1
<1>6. /\ mem' \in [Procs -> State] /\ mem'[p] = [cursor |-> k, sent |-> mem[p].sent]
      /\ mem'[p] \in State /\ Within(mem[p], mem'[p])
      /\ \A q \in Procs \ {p} : mem'[q] = mem[q]
  <2>1. mem[p].sent \in SUBSET Jobs
    BY <1>3 DEF State
  <2> QED
    BY <1>4, <1>5, <2>1, CursorMoved
<1> HIDE DEF w
<1>7. DoneIsDurable' /\ Onward
  BY <1>2, Facts, Stays DEF DoneIsDurable
<1>8. IdleOK(p)' /\ SendingOK(p)' /\ ClosedOK(p)' /\ ClosingOK(p)'
  BY <1>2, <1>6, Facts DEF SessionOK, IdleOK, SendingOK, ClosedOK, ClosingOK, Active
<1>9. CASE /\ told' = [told EXCEPT ![p] = told[p] \cup w]
           /\ Persisted(p, Operation(w, FALSE))
  <2>1. /\ told'[p] = told[p] \cup w /\ told' \in [Procs -> SUBSET (1..Messages)]
        /\ \A q \in Procs \ {p} : told'[q] = told[q]
    BY <1>3, <1>4, <1>9
  <2>2. MemOK(p)'
    BY <1>2, <1>3, <1>4, <1>6, <2>1, MemKept
  <2>3. DataTypeOK'
    BY <1>2, <1>4, <1>6, <1>9, <2>1, Facts, PersistedQueue DEF DataTypeOK
  <2>4. QueueOK(p)'
    <3>1. w \subseteq 1..mem'[p].cursor
      BY <1>4, <1>6
    <3> QED
      BY <1>2, <1>4, <1>6, <1>9, <3>1, PersistedOK
  <2>5. InboxOK(p)'
    <3> SUFFICES ASSUME p \notin broken, NEW m \in told[p] \cup w, m \notin inbox
                 PROVE  \E i \in 1..Len(queue'[p]) : m \in queue'[p][i].write
      BY <1>2, <2>1 DEF InboxOK
    <3>1. /\ Len(queue[p]) \in Nat /\ Len(queue'[p]) = Len(queue[p]) + 1
          /\ \A i \in 1..Len(queue[p]) : queue'[p][i] = queue[p][i]
          /\ queue'[p][Len(queue[p]) + 1].write = w
      <4>1. Len(queue[p]) \in Nat
        BY Facts
      <4>2. /\ Len(queue'[p]) = Len(queue[p]) + 1
            /\ \A i \in 1..Len(queue[p]) : queue'[p][i] = queue[p][i]
            /\ queue'[p][Len(queue[p]) + 1] = Operation(w, FALSE)
        BY <1>4, <1>9, PersistedQueue
      <4> QED
        BY <4>1, <4>2 DEF Operation
    <3>2. CASE m \in w
      BY <3>1, <3>2
    <3>3. CASE m \in told[p]
      <4>1. PICK i \in 1..Len(queue[p]) : m \in queue[p][i].write
        BY <1>2, <3>3, Facts DEF SessionOK, InboxOK
      <4>2. i \in 1..Len(queue'[p]) /\ queue'[p][i] = queue[p][i]
        BY <3>1
      <4> QED
        BY <4>1, <4>2
    <3> QED
      BY <3>2, <3>3
  <2>6. \A q \in Procs \ {p} : MineUnchanged(q)
    BY <1>2, <1>4, <1>6, <1>9, <2>1, PersistedQueue DEF MineUnchanged
  <2> QED
    BY <1>2, <1>7, <1>8, <2>2, <2>3, <2>4, <2>5, <2>6, OthersKept DEF DataInv, SessionOK
<1>10. CASE UNCHANGED <<told, queue>>
  <2>1. MemOK(p)'
    BY <1>2, <1>3, <1>4, <1>6, <1>10, MemKept
  <2>2. DataTypeOK'
    BY <1>2, <1>6, <1>10, Facts DEF DataTypeOK
  <2>3. QueueOK(p)'
    BY <1>2, <1>6, <1>10, MovedQueueOK
  <2>4. InboxOK(p)'
    BY <1>2, <1>10, Facts DEF SessionOK, InboxOK, Active
  <2>5. \A q \in Procs \ {p} : MineUnchanged(q)
    BY <1>2, <1>6, <1>10 DEF MineUnchanged
  <2> QED
    BY <1>2, <1>7, <1>8, <2>1, <2>2, <2>3, <2>4, <2>5, OthersKept DEF DataInv, SessionOK
<1> QED
  BY <1>1, <1>9, <1>10 DEF w

\* A round of the outbox begins.
LEMMA ProcessOutboxKeeps ==
    ASSUME SessionInv, NEW p \in Procs, ProcessOutbox(p)
    PROVE  DataInv' /\ Onward
<1> USE DEF lockVars, diskVars
<1>1. /\ proc[p] = "running" /\ Active(p)
      /\ UNCHANGED <<proc, lock, disk, inbox, file, posted, mem, told, queue, broken, sending>>
      /\ round' = [round EXCEPT ![p] = Entries]
  BY DEF ProcessOutbox, Active
<1>2. DataTypeOK' /\ \A q \in Procs \ {p} : MineUnchanged(q)
  BY <1>1, Facts DEF DataTypeOK, Entries, MineUnchanged
<1>3. DoneIsDurable' /\ Onward
  BY <1>1, Facts, Stays DEF DoneIsDurable
<1>4. SessionOK(p)'
  BY <1>1, Facts DEF SessionOK, IdleOK, MemOK, QueueOK, SendingOK, InboxOK, ClosingOK,
     ClosedOK, Active
<1> QED
  BY <1>1, <1>2, <1>3, <1>4, OthersKept DEF DataInv

\* An entry is claimed, or set aside.
LEMMA ClaimJobKeeps ==
    ASSUME SessionInv, NEW p \in Procs, ClaimJob(p)
    PROVE  DataInv' /\ Onward
<1> USE DEF lockVars, diskVars
<1> DEFINE j == Min(round[p])
<1>1. /\ proc[p] = "running" /\ Active(p) /\ sending[p] = NoJob /\ round[p] # {}
      /\ UNCHANGED <<proc, lock, disk, inbox, posted, mem, told, queue, broken>>
      /\ round' = [round EXCEPT ![p] = round[p] \ {j}]
      /\ file' = [file EXCEPT ![j] = IF j \in Invalid THEN "invalid" ELSE "processing"]
      /\ sending' = [sending EXCEPT ![p] =
             IF j \in Invalid THEN NoJob ELSE [job |-> j, step |-> "claimed"]]
  BY Facts DEF ClaimJob, Active, DataTypeOK
<1>2. j \in round[p] /\ j \in Jobs
  <2>1. round[p] \subseteq Nat
    BY Facts, DurableAssumption
  <2> QED
    BY <1>1, <2>1, Facts, MinIsMember
<1> HIDE DEF j
<1>3. /\ sending \in [Procs -> JobRec] /\ file \in [Jobs -> {"none", "queued", "processing", "invalid", "gone"}]
      /\ round \in [Procs -> SUBSET Jobs]
  BY Facts DEF DataTypeOK
<1>4. /\ sending'[p] = NoJob \/ (sending'[p].job = j /\ sending'[p].step = "claimed" /\ file'[j] = "processing")
      /\ sending'[p] \in JobRec
  BY <1>1, <1>2, <1>3 DEF JobRec
<1>5. DataTypeOK'
  BY <1>1, <1>2, <1>3, <1>4, Facts DEF DataTypeOK
<1>6. \A q \in Procs \ {p} : MineUnchanged(q)
  BY <1>1, <1>3 DEF MineUnchanged
<1>7. DoneIsDurable'
  BY <1>1, <1>3, Facts DEF DoneIsDurable
<1>8. Onward
  BY <1>1, Stays
<1>9. IdleOK(p)' /\ MemOK(p)' /\ InboxOK(p)' /\ ClosingOK(p)' /\ ClosedOK(p)'
  BY <1>1, Facts DEF SessionOK, IdleOK, MemOK, InboxOK, ClosingOK, ClosedOK, Active
<1>10. SendingOK(p)'
  BY <1>4 DEF SendingOK
<1>11. QueueOK(p)'
  <2>1. \A i \in 1..Len(queue[p]) : ~queue[p][i].awaited
    BY <1>1, Facts DEF SessionOK, QueueOK, NoJob
  <2>2. QueueOK(p) /\ (queue[p] # <<>> => 1 \in 1..Len(queue[p]))
    BY Facts DEF SessionOK
  <2> QED
    BY <1>1, <2>1, <2>2 DEF QueueOK
<1> QED
  BY <1>1, <1>5, <1>6, <1>7, <1>8, <1>9, <1>10, <1>11, OthersKept DEF DataInv, SessionOK

\* A job is sent, and its snapshot awaited; or the post fails.
LEMMA SendJobKeeps ==
    ASSUME SessionInv, NEW p \in Procs, SendJob(p)
    PROVE  DataInv' /\ Onward
<1> USE DEF lockVars, diskVars
<1> DEFINE j == sending[p].job
<1>1. /\ proc[p] = "running" /\ Active(p) /\ sending[p].step = "claimed"
      /\ UNCHANGED <<proc, lock, disk, inbox, file, told, broken, round>>
  BY DEF SendJob, Active
<1>2. sending[p] # NoJob /\ j \in Jobs \ Invalid /\ file[j] = "processing" /\ sending[p] \in JobRec
      /\ sending[p] \in [job : Jobs \ Invalid, step : {"claimed", "persisting", "persisted", "failed"}]
  BY <1>1, Facts DEF SessionOK, SendingOK, NoJob, JobRec
<1>3. mem \in [Procs -> State] /\ sending \in [Procs -> JobRec] /\ posted \subseteq Jobs
  BY Facts DEF DataTypeOK
<1>4. Onward
  BY <1>1, Stays
<1>5. ASSUME NEW k \in CaughtUp(p),
             mem' = [mem EXCEPT ![p] = [cursor |-> k, sent |-> mem[p].sent \cup {j}]],
             posted' = posted \cup {j},
             Persisted(p, Operation({}, TRUE)),
             sending' = [sending EXCEPT ![p].step = "persisting"]
      PROVE  DataInv'
  <2>1. /\ mem'[p] \in State /\ mem'[p].sent = mem[p].sent \cup {j}
        /\ mem' \in [Procs -> State] /\ Within(mem[p], mem'[p])
        /\ \A q \in Procs \ {p} : mem'[q] = mem[q]
    <3>1. mem[p].sent \cup {j} \in SUBSET Jobs /\ mem[p].sent \subseteq mem[p].sent \cup {j}
      BY <1>2, <1>3 DEF State
    <3> QED
      BY <1>5, <3>1, CursorMoved DEF CaughtUp
  <2>2. told[p] \subseteq 1..mem'[p].cursor
    BY <1>3, <2>1, Facts DEF SessionOK, MemOK, Within, State
  <2>3. /\ sending'[p] \in JobRec /\ sending'[p].job = j /\ sending'[p].step = "persisting"
        /\ sending' \in [Procs -> JobRec] /\ \A q \in Procs \ {p} : sending'[q] = sending[q]
    <3>1. sending'[p] = [sending[p] EXCEPT !.step = "persisting"]
      BY <1>3, <1>5
    <3>2. sending'[p] \in JobRec /\ sending'[p].job = j /\ sending'[p].step = "persisting"
      BY <1>2, <3>1 DEF JobRec
    <3> QED
      BY <1>3, <1>5, <3>2
  <2>4. {} \in SUBSET (1..Messages) /\ {} \subseteq 1..mem'[p].cursor
    OBVIOUS
  <2>5. QueueOK(p)'
    BY <1>1, <1>5, <2>1, <2>3, <2>4, PersistedOK
  <2>6. DataTypeOK'
    BY <1>1, <1>2, <1>5, <2>1, <2>3, <2>4, Facts, PersistedQueue DEF DataTypeOK
  <2>7. DoneIsDurable'
    BY <1>1, <1>5, Facts DEF DoneIsDurable
  <2>8. IdleOK(p)' /\ ClosingOK(p)' /\ ClosedOK(p)' /\ MemOK(p)'
    <3>1. MemOK(p)'
      BY <1>1, <2>1, <2>2, MemKept
    <3> QED
      BY <1>1, <3>1, Facts DEF SessionOK, IdleOK, ClosingOK, ClosedOK, Active
  <2>9. SendingOK(p)'
    BY <1>1, <1>2, <1>5, <2>1, <2>3 DEF SendingOK
  <2>10. InboxOK(p)'
    <3> SUFFICES ASSUME p \notin broken, NEW m \in told[p], m \notin inbox
                 PROVE  \E i \in 1..Len(queue'[p]) : m \in queue'[p][i].write
      BY <1>1, <2>1 DEF InboxOK
    <3>1. PICK i \in 1..Len(queue[p]) : m \in queue[p][i].write
      BY <1>1, Facts DEF SessionOK, InboxOK
    <3>2. /\ Len(queue[p]) \in Nat /\ Len(queue'[p]) = Len(queue[p]) + 1
          /\ \A n \in 1..Len(queue[p]) : queue'[p][n] = queue[p][n]
      BY <1>5, <2>4, Facts, PersistedQueue
    <3>3. i \in 1..Len(queue'[p])
      BY <3>2
    <3> QED
      BY <3>1, <3>2, <3>3
  <2>11. \A q \in Procs \ {p} : MineUnchanged(q)
    BY <1>1, <1>5, <2>1, <2>3, <2>4, PersistedQueue DEF MineUnchanged
  <2> QED
    BY <1>1, <1>4, <2>5, <2>6, <2>7, <2>8, <2>9, <2>10, <2>11, OthersKept DEF DataInv, SessionOK
<1>6. ASSUME NEW k \in CaughtUp(p),
             mem' = [mem EXCEPT ![p].cursor = k],
             posted' \in {posted, posted \cup {j}},
             sending' = [sending EXCEPT ![p].step = "failed"],
             UNCHANGED queue
      PROVE  DataInv'
  <2>0. /\ mem'[p] \in State /\ mem'[p].sent = mem[p].sent
        /\ mem' \in [Procs -> State] /\ Within(mem[p], mem'[p])
        /\ \A q \in Procs \ {p} : mem'[q] = mem[q]
    <3>1. mem[p].sent \in SUBSET Jobs /\ mem[p].sent \subseteq mem[p].sent
      BY <1>3 DEF State
    <3>2. [mem[p] EXCEPT !.cursor = k] = [cursor |-> k, sent |-> mem[p].sent]
      BY <1>3 DEF State
    <3>3. mem' = [mem EXCEPT ![p] = [cursor |-> k, sent |-> mem[p].sent]]
      BY <1>3, <1>6, <3>2
    <3> QED
      BY <3>1, <3>3, CursorMoved DEF CaughtUp
  <2>1. /\ sending'[p] \in JobRec /\ sending'[p].job = j /\ sending'[p].step = "failed"
        /\ sending' \in [Procs -> JobRec] /\ \A q \in Procs \ {p} : sending'[q] = sending[q]
    <3>1. sending'[p] = [sending[p] EXCEPT !.step = "failed"]
      BY <1>3, <1>6
    <3>2. sending'[p] \in JobRec /\ sending'[p].job = j /\ sending'[p].step = "failed"
      BY <1>2, <3>1 DEF JobRec
    <3> QED
      BY <1>3, <1>6, <3>2
  <2>2. DataTypeOK'
    BY <1>1, <1>2, <1>6, <2>0, <2>1, Facts DEF DataTypeOK
  <2>3. DoneIsDurable'
    BY <1>1, <1>6, Facts DEF DoneIsDurable
  <2>4. IdleOK(p)' /\ MemOK(p)' /\ InboxOK(p)' /\ ClosingOK(p)' /\ ClosedOK(p)'
    <3>1. told[p] \subseteq 1..mem'[p].cursor
      BY <1>3, <2>0, Facts DEF SessionOK, MemOK, Within, State
    <3>2. MemOK(p)'
      BY <1>1, <2>0, <3>1, MemKept
    <3> QED
      BY <1>1, <1>6, <3>2, Facts DEF SessionOK, IdleOK, InboxOK, ClosingOK, ClosedOK, Active
  <2>5. SendingOK(p)'
    BY <1>1, <1>2, <2>1 DEF SendingOK
  <2>6. QueueOK(p)'
    BY <1>1, <1>6, <2>0, <2>1, MovedQueueOK
  <2>7. \A q \in Procs \ {p} : MineUnchanged(q)
    BY <1>1, <1>6, <2>0, <2>1 DEF MineUnchanged
  <2> QED
    BY <1>1, <1>4, <2>2, <2>3, <2>4, <2>5, <2>6, <2>7, OthersKept DEF DataInv, SessionOK
<1> QED
  BY <1>3, <1>4, <1>5, <1>6 DEF SendJob

\* The file of a job goes, or is queued again.
LEMMA FinishJobKeeps ==
    ASSUME SessionInv, NEW p \in Procs, UnlinkJob(p) \/ RequeueJob(p)
    PROVE  DataInv' /\ Onward
<1> USE DEF lockVars, diskVars
<1> DEFINE j == sending[p].job
<1>1. /\ proc[p] = "running" /\ Active(p) /\ sending[p].step \in {"persisted", "failed"}
      /\ UNCHANGED <<disk, inbox, posted, mem, told, queue, broken>>
      /\ file' = [file EXCEPT ![j] = IF sending[p].step = "persisted" THEN "gone" ELSE "queued"]
      /\ sending' = [sending EXCEPT ![p] = NoJob]
      /\ round' = round \/ round' = [round EXCEPT ![p] = {}]
      /\ proc' = proc \/ (p \in broken /\ Goes(p, "closing") /\ round' = [round EXCEPT ![p] = {}])
  BY DEF UnlinkJob, RequeueJob, UnlinksAfter, Active
<1>2. /\ sending[p] # NoJob /\ j \in Jobs
      /\ sending[p].step = "persisted" => j \in posted /\ j \in disk.sent
  BY <1>1, Facts DEF SessionOK, SendingOK, NoJob, JobRec
<1>3. DataTypeOK'
  <2>1. NoJob \in JobRec
    BY DEF JobRec
  <2> QED
    BY <1>1, <1>2, <2>1, Facts DEF DataTypeOK
<1>4. DoneIsDurable'
  BY <1>1, <1>2, Facts DEF DoneIsDurable, DataTypeOK
<1>5. Onward
  BY <1>1, Stays
<1>6. \A q \in Procs \ {p} : MineUnchanged(q)
  BY <1>1, Facts DEF MineUnchanged, Goes, DataTypeOK
<1>7. sending'[p] = NoJob /\ (proc'[p] = "running" \/ (proc'[p] = "closing" /\ p \in broken /\ round'[p] = {}))
  BY <1>1, Facts DEF DataTypeOK, Goes
<1>8. IdleOK(p)' /\ MemOK(p)' /\ SendingOK(p)' /\ InboxOK(p)' /\ ClosingOK(p)' /\ ClosedOK(p)'
  BY <1>1, <1>7, Facts
     DEF SessionOK, IdleOK, MemOK, SendingOK, InboxOK, ClosingOK, ClosedOK, Active
<1>9. QueueOK(p)'
  <2>1. \A i \in 1..Len(queue[p]) : ~queue[p][i].awaited
    BY <1>1, Facts DEF SessionOK, QueueOK
  <2>2. QueueOK(p) /\ (queue[p] # <<>> => 1 \in 1..Len(queue[p]))
    BY Facts DEF SessionOK
  <2> QED
    BY <1>1, <2>1, <2>2 DEF QueueOK
<1> QED
  BY <1>1, <1>3, <1>4, <1>5, <1>6, <1>8, <1>9, OthersKept DEF DataInv, SessionOK

\* The session begins to close: its last snapshot is queued.
LEMMA StopKeeps ==
    ASSUME SessionInv, NEW p \in Procs, Stop(p)
    PROVE  DataInv' /\ Onward
<1> USE DEF diskVars
<1>1. /\ proc[p] = "running" /\ Active(p) /\ sending[p] = NoJob /\ round[p] = {}
      /\ Goes(p, "closing") /\ proc'[p] = "closing" /\ Persisted(p, Operation({}, FALSE))
      /\ UNCHANGED <<disk, inbox, file, posted, mem, told, broken, round, sending>>
  BY Facts DEF Stop, Active, Goes
<1>2. {} \in SUBSET (1..Messages) /\ Within(mem[p], mem[p]) /\ mem[p] \in State
  BY Facts DEF Within, State
<1>3. /\ queue' \in [Procs -> Seq(OpRec)]
      /\ \A q \in Procs \ {p} : queue'[q] = queue[q]
      /\ Len(queue'[p]) = Len(queue[p]) + 1 /\ queue'[p] # <<>>
      /\ \A i \in 1..Len(queue[p]) : queue'[p][i] = queue[p][i]
  BY <1>1, <1>2, PersistedQueue
<1>4. QueueOK(p)' /\ (Len(queue'[p]) = 1 => queue'[p][1].step = "write")
  BY <1>1, <1>2, PersistedOK
<1>5. DataTypeOK'
  BY <1>1, <1>3, Facts DEF DataTypeOK
<1>6. DoneIsDurable' /\ Onward
  BY <1>1, Facts, Stays DEF DoneIsDurable
<1>7. IdleOK(p)' /\ MemOK(p)' /\ SendingOK(p)' /\ ClosingOK(p)' /\ ClosedOK(p)'
  BY <1>1, <1>3, <1>4, Facts
     DEF SessionOK, IdleOK, MemOK, SendingOK, ClosingOK, ClosedOK, Active
<1>8. InboxOK(p)'
  <2> SUFFICES ASSUME p \notin broken, NEW m \in told[p], m \notin inbox
               PROVE  \E i \in 1..Len(queue'[p]) : m \in queue'[p][i].write
    BY <1>1 DEF InboxOK
  <2>1. PICK i \in 1..Len(queue[p]) : m \in queue[p][i].write
    BY <1>1, Facts DEF SessionOK, InboxOK
  <2>2. i \in 1..Len(queue'[p])
    BY <1>3, Facts
  <2> QED
    BY <1>3, <2>1, <2>2
<1>9. \A q \in Procs \ {p} : MineUnchanged(q)
  BY <1>1, <1>3, Facts DEF MineUnchanged, Goes
<1> QED
  BY <1>1, <1>4, <1>5, <1>6, <1>7, <1>8, <1>9, OthersKept DEF DataInv, SessionOK

\* The session has closed: its queue was drained.
LEMMA CloseKeeps ==
    ASSUME SessionInv, NEW p \in Procs, Close(p)
    PROVE  DataInv' /\ Onward
<1> USE DEF diskVars
<1>1. /\ proc[p] = "closing" /\ Active(p) /\ queue[p] = <<>>
      /\ Goes(p, "closed") /\ proc'[p] = "closed"
      /\ UNCHANGED <<disk, inbox, file, posted, mem, told, broken, round, sending>>
      /\ queue' = [queue EXCEPT ![p] = <<>>] /\ queue' = queue
  BY Facts DEF Close, Release, Active, Goes, Drained, DataTypeOK
<1>2. DataTypeOK' /\ DoneIsDurable' /\ Onward
  BY <1>1, Facts, Stays DEF DataTypeOK, DoneIsDurable
<1>3. sending[p] = NoJob /\ round[p] = {} /\ Len(queue[p]) = 0
  BY <1>1, Facts DEF SessionOK, IdleOK
<1>4. ClosedOK(p)'
  <2> SUFFICES ASSUME p \notin broken
               PROVE  Within(mem[p], disk) /\ told[p] \subseteq inbox
    BY <1>1 DEF ClosedOK
  <2>1. Within(mem[p], disk)
    BY <1>1, Facts DEF SessionOK, ClosingOK
  <2>2. \A m \in told[p] : m \in inbox
    BY <1>1, <1>3, Facts DEF SessionOK, InboxOK
  <2> QED
    BY <2>1, <2>2
<1>5. IdleOK(p)' /\ MemOK(p)' /\ QueueOK(p)' /\ SendingOK(p)' /\ InboxOK(p)' /\ ClosingOK(p)'
  BY <1>1, <1>3, Facts
     DEF SessionOK, IdleOK, MemOK, QueueOK, SendingOK, InboxOK, ClosingOK, Active
<1>6. \A q \in Procs \ {p} : MineUnchanged(q)
  BY <1>1, Facts DEF MineUnchanged, Goes
<1> QED
  BY <1>1, <1>2, <1>4, <1>5, <1>6, OthersKept DEF DataInv, SessionOK

\* The application puts a new job into the outbox.
LEMMA ProduceKeeps ==
    ASSUME SessionInv, NEW j \in Jobs, Produce(j)
    PROVE  DataInv'
<1> USE DEF lockVars, memVars
<1>1. /\ DataTypeOK /\ DoneIsDurable /\ \A p \in Procs : SessionOK(p)
      /\ file[j] = "none" /\ file' = [file EXCEPT ![j] = "queued"]
      /\ UNCHANGED <<proc, lock, disk, inbox, posted, mem, told, queue, broken, round, sending>>
  BY DEF SessionInv, DataInv, Produce
<1>2. DataTypeOK' /\ DoneIsDurable'
  BY <1>1 DEF DataTypeOK, DoneIsDurable
<1>3. ASSUME NEW p \in Procs
      PROVE  SessionOK(p)'
  <2>1. SendingOK(p)'
    <3> SUFFICES ASSUME sending[p] # NoJob PROVE SendingOK(p)'
      BY <1>1 DEF SendingOK
    <3>1. file[sending[p].job] = "processing" /\ sending[p].job \in Jobs
      BY <1>1, Facts DEF SessionOK, SendingOK, JobRec
    <3>2. file'[sending[p].job] = "processing"
      BY <1>1, <3>1 DEF DataTypeOK
    <3> QED
      BY <1>1, <3>2 DEF SessionOK, SendingOK
  <2> QED
    BY <1>1, <2>1 DEF SessionOK, IdleOK, MemOK, QueueOK, InboxOK, ClosingOK, ClosedOK, Active
<1> QED
  BY <1>2, <1>3 DEF DataInv

-----------------------------------------------------------------------------
(* The theorems.                                                           *)

LEMMA SessionPreserved ==
    ASSUME ~Rivals, SessionInv, [Next]_vars
    PROVE  SessionInv'
<1>1. LockInv'
  BY LockView, LockKept, LockMoved DEF SessionInv
<1>2. DataInv'
  <2>1. ASSUME NEW p \in Procs,
               \/ LockStep(p) /\ UNCHANGED <<diskVars, memVars, failures>>
               \/ Load(p) \/ Ingest(p) \/ RefuseOp(p) \/ WriteInbox(p) \/ ExportSnapshot(p)
               \/ SaveState(p) \/ WriteFails(p)
               \/ ProcessOutbox(p) \/ ClaimJob(p) \/ SendJob(p) \/ UnlinkJob(p)
               \/ RequeueJob(p) \/ Stop(p) \/ Close(p) \/ CrashSession(p)
        PROVE  DataInv'
    BY <2>1, LockStepKeeps, LoadKeeps, IngestKeeps, FailureKeeps, WriteInboxKeeps, ExportKeeps,
       SaveKeeps, ProcessOutboxKeeps, ClaimJobKeeps, SendJobKeeps, FinishJobKeeps, StopKeeps,
       CloseKeeps
  <2>2. CASE UNCHANGED vars
    <3>1. \A p \in Procs : MineUnchanged(p)
      BY <2>2 DEF vars, memVars, lockVars, MineUnchanged
    <3>2. \A p \in Procs : SessionOK(p)'
      BY <2>2, <3>1, AsideKept DEF vars, diskVars
    <3> QED
      BY <2>2, <3>2, Facts
         DEF SessionInv, DataInv, vars, diskVars, memVars, DataTypeOK, DoneIsDurable
  <2> QED
    BY <2>1, <2>2, ProduceKeeps DEF Next
<1> QED
  BY <1>1, <1>2 DEF SessionInv

\* The inductive invariant: what a session has in memory, in its queue and in its
\* outbox agrees with what is on disk at every step it can die at, and what an event
\* announced has its inbox file or a queued write (openPersistentSession,
\* processOutbox).  What it ingests without an event has neither.
THEOREM SessionInvariant == ~Rivals => (Spec => []SessionInv)
<1> SUFFICES ASSUME ~Rivals PROVE Spec => []SessionInv
  OBVIOUS
<1>1. Init => SessionInv
  BY SessionInit
<1>2. SessionInv /\ [Next]_vars => SessionInv'
  BY SessionPreserved
<1> QED
  BY <1>1, <1>2, PTL DEF Spec

\* What is on disk, in memory, queued and sent is what the code keeps there; the
\* job a session sends has its .processing file all the while (processOutbox).
THEOREM SessionTypes == ~Rivals => (Spec => []TypeOK)
<1>1. ASSUME SessionInv PROVE TypeOK
  <2>1. /\ LockTypeOK /\ disk \in State /\ mem \in [Procs -> State]
        /\ inbox \subseteq 1..Messages /\ posted \subseteq Jobs /\ broken \subseteq Procs
        /\ file \in [Jobs -> {"none", "queued", "processing", "invalid", "gone"}]
    BY <1>1 DEF SessionInv, DataInv, LockInv, DataTypeOK
  <2>2. ASSUME NEW p \in Procs
        PROVE  /\ told[p] \subseteq 1..mem[p].cursor
               /\ \A i \in DOMAIN queue[p] :
                     /\ queue[p][i].write \subseteq 1..mem[p].cursor
                     /\ queue[p][i].step \in (IF i = 1 THEN {"write", "save"} ELSE {"write"})
               /\ round[p] \subseteq Jobs
    <3>1. DOMAIN queue[p] = 1..Len(queue[p]) /\ SessionOK(p) /\ round[p] \subseteq Jobs
          /\ \A i \in 1..Len(queue[p]) : queue[p][i] \in OpRec
      BY <1>1, Facts, LenProperties
    <3>2. \A i \in 1..Len(queue[p]) : queue[p][i].step \in {"write", "save"}
      BY <3>1 DEF OpRec
    <3> QED
      BY <3>1, <3>2 DEF SessionOK, MemOK, QueueOK
  <2>3. ASSUME NEW p \in Procs, sending[p] # NoJob
        PROVE  sending[p].job \in Jobs \ Invalid /\ file[sending[p].job] = "processing"
    BY <1>1, <2>3, Facts DEF SessionOK, SendingOK, JobRec
  <2> QED
    BY <2>1, <2>2, <2>3 DEF TypeOK
<1> QED
  BY <1>1, SessionInvariant, PTL

\* A job leaves the outbox only when the coordinator has taken its message and
\* the snapshot on disk knows it (processOutbox), whatever fails and wherever the
\* process dies, for any number of processes that take over from each other.
THEOREM JobsAreDurable == ~Rivals => (Spec => []DoneIsDurable)
<1>1. SessionInv => DoneIsDurable
  BY DEF SessionInv, DataInv
<1> QED
  BY <1>1, SessionInvariant, PTL

\* A session that closed without a durability failure has in the snapshot all that it
\* ingested and sent, and an inbox file for every message an event of it announced,
\* whatever sessions came after it (the order of steps in close).
THEOREM ClosedIsSaved == ~Rivals => (Spec => []CloseKeepsAll)
<1>1. SessionInv => CloseKeepsAll
  BY DEF SessionInv, DataInv, SessionOK, ClosedOK, CloseKeepsAll, Within
<1> QED
  BY <1>1, SessionInvariant, PTL

\* The snapshot never goes back, over any sequence of processes, and a session
\* saves nothing more once a durable write of it has failed (the sticky
\* durabilityError of openPersistentSession).
THEOREM SnapshotAdvances == ~Rivals => (Spec => DiskAdvances)
<1> DEFINE Advances ==
        /\ disk.cursor <= disk'.cursor /\ disk.sent \subseteq disk'.sent
        /\ (\E p \in broken : proc[p] \in Working) => disk' = disk
<1>1. ASSUME SessionInv, [Next]_vars
      PROVE  Advances
  <2>1. CASE disk' = disk
    <3>1. disk \in State
      BY <1>1 DEF SessionInv, DataInv, DataTypeOK
    <3> QED
      BY <2>1, <3>1 DEF State
  <2>2. ASSUME NEW p \in Procs, SaveState(p)
        PROVE  Advances
    <3>1. disk.cursor <= disk'.cursor /\ disk.sent \subseteq disk'.sent
      BY <1>1, <2>2, SaveKeeps DEF Onward, Within
    <3>2. Active(p) /\ p \notin broken
      BY <1>1, <2>2, Facts DEF SaveState, Running, Active, SessionOK, QueueOK
    <3>3. \A q \in Procs : proc[q] \in Working => q = p
      BY <1>1, <3>2 DEF SessionInv, LockInv, HolderOwns, Holding, Active, Working
    <3>4. broken \subseteq Procs
      BY <1>1 DEF SessionInv, DataInv, DataTypeOK
    <3> QED
      BY <3>1, <3>2, <3>3, <3>4
  <2>3. disk' = disk \/ \E p \in Procs : SaveState(p)
    BY <1>1 DEF Next, vars, diskVars, Load, Ingest, RefuseOp, WriteInbox, ExportSnapshot,
       WriteFails, ProcessOutbox, ClaimJob, SendJob, UnlinkJob, RequeueJob, Stop, Close,
       CrashSession, Produce
  <2> QED
    BY <2>1, <2>2, <2>3
<1>2. SessionInv /\ [Next]_vars => [Advances]_vars
  BY <1>1
<1> QED
  BY <1>2, SessionInvariant, PTL DEF Spec, DiskAdvances
=============================================================================
