-------------------------- MODULE GroupWatchProofs --------------------------
(***************************************************************************)
(* The cursor of a watched group, for any number of watch tasks, syncs,    *)
(* failures and messages: nothing it passes was left unapplied, and while  *)
(* callers wait for each other an entry that says so has a task at work.   *)
(***************************************************************************)
EXTENDS GroupWatch, SequenceTheorems, TLAPS

\* What every task and every operation has in hand begins where everything
\* before it was applied.
BatchType == batch \in [Ops -> [after : Nat, upto : Nat]]

HandsContiguous ==
    /\ \A o \in Ops : 1 .. batch[o].after \subseteq processed
    /\ \A t \in Tasks :
          /\ phase[t] \in {"opening", "streaming"} => 1 .. position[t] \subseteq processed
          /\ phase[t] = "handing" => position[t] = batch[t].upto

\* An entry is that of a task; a group that is gone has none.
EntryOK ==
    /\ handle = NoHandle \/ (handle.task \in Tasks /\ handle.status # "idle")
    /\ ~active => handle = NoHandle

WatchInv == TypeOK /\ BatchType /\ EntryOK /\ HandsContiguous /\ NothingSkipped

-----------------------------------------------------------------------------
LEMMA MaxOfTwo ==
    ASSUME NEW a \in Nat, NEW b \in Nat
    PROVE  Max({a, b}) = IF a >= b THEN a ELSE b
<1>1. CASE a >= b
  <2>1. \A x \in {a, b} : (\A y \in {a, b} : x >= y) => x = a
    BY <1>1
  <2>2. \A y \in {a, b} : a >= y
    BY <1>1
  <2> QED
    BY <1>1, <2>1, <2>2 DEF Max
<1>2. CASE ~(a >= b)
  <2>1. \A x \in {a, b} : (\A y \in {a, b} : x >= y) => x = b
    BY <1>2
  <2>2. \A y \in {a, b} : b >= y
    BY <1>2
  <2> QED
    BY <1>2, <2>1, <2>2 DEF Max
<1> QED
  BY <1>1, <1>2

LEMMA InitEstablishes == Init => WatchInv
BY GroupWatchAssumption, EmptySeq
   DEF Init, WatchInv, TypeOK, BatchType, EntryOK, HandsContiguous, NothingSkipped,
       NoHandle, NoBatch, Ops, Tasks, Sync, Send

-----------------------------------------------------------------------------
(* One lemma per kind of step.                                             *)

\* An application of a batch leaves no gap below the cursor, whether it goes
\* through, stops half way, or moves the cursor back.
LEMMA AppliesContiguously ==
    ASSUME WatchInv, NEW o \in Ops, NEW ok \in BOOLEAN, Applies(batch[o], ok)
    PROVE  /\ fetchCursor' \in 0 .. posted
           /\ processed \subseteq processed' /\ processed' \subseteq 1 .. posted
           /\ 1 .. fetchCursor' \subseteq processed'
           /\ active' \in BOOLEAN /\ (active' => active)
           /\ ok => 1 .. batch[o].upto \subseteq processed'
<1>1. PICK k \in batch[o].after .. batch[o].upto :
          /\ ok => k = batch[o].upto
          /\ processed' = processed \cup (batch[o].after + 1 .. k)
          /\ fetchCursor' \in CursorAfter(batch[o], k)
          /\ active' = (active /\ removal \notin batch[o].after + 1 .. k)
  BY DEF Applies
<1>2. /\ batch[o].after \in Nat /\ batch[o].upto \in Nat /\ posted \in Nat
      /\ batch[o].upto <= posted /\ fetchCursor \in 0 .. posted
      /\ processed \subseteq 1 .. posted /\ 1 .. fetchCursor \subseteq processed
      /\ 1 .. batch[o].after \subseteq processed /\ active \in BOOLEAN
  BY DEF WatchInv, TypeOK, BatchType, HandsContiguous, NothingSkipped
<1>3. k \in Nat /\ k <= posted /\ 1 .. k \subseteq processed'
  BY <1>1, <1>2
<1>4. fetchCursor' \in {fetchCursor, k}
  BY <1>1, <1>2, <1>3, MaxOfTwo DEF CursorAfter
<1>5. processed' \subseteq 1 .. posted
  <2> SUFFICES ASSUME NEW m \in processed' PROVE m \in 1 .. posted
    OBVIOUS
  <2>1. CASE m \in processed
    BY <2>1, <1>2
  <2>2. CASE m \in batch[o].after + 1 .. k
    BY <2>2, <1>2, <1>3
  <2> QED
    BY <2>1, <2>2, <1>1
<1>6. 1 .. fetchCursor' \subseteq processed' /\ fetchCursor' \in 0 .. posted
  BY <1>1, <1>2, <1>3, <1>4
<1> QED
  BY <1>1, <1>2, <1>3, <1>5, <1>6

\* What a step that drops the entry leaves behind.
LEMMA AbortOK ==
    ASSUME WatchInv, handle # NoHandle
    PROVE  /\ handle.task \in Tasks
           /\ AbortedWith(handle.task) \subseteq Tasks
BY DEF WatchInv, TypeOK, EntryOK, AbortedWith

\* A new task takes the cursor there is.
LEMMA StartsOK ==
    ASSUME WatchInv, Starts, active, UNCHANGED <<fixed, posted, groupVars, position, aborted, lane>>,
           repairing' \cup unwatching' \subseteq Tasks
    PROVE  WatchInv'
<1> USE DEF WatchInv, fixed, groupVars
<1>1. PICK t \in Fresh :
          /\ handle' = [task |-> t, status |-> "connecting"]
          /\ phase' = [phase EXCEPT ![t] = "fetching"]
          /\ batch' = [batch EXCEPT ![t] = [after |-> fetchCursor, upto |-> fetchCursor]]
  BY DEF Starts
<1>2. t \in Tasks /\ t \in 0 .. MaxTasks /\ t \in Ops /\ fetchCursor \in Nat /\ fetchCursor <= posted
  BY GroupWatchAssumption DEF Fresh, Tasks, Ops, TypeOK
<1>3. BatchType' /\ EntryOK'
  BY <1>1, <1>2 DEF BatchType, EntryOK, NoHandle
<1>4. \A o \in Ops : batch'[o].after <= batch'[o].upto /\ batch'[o].upto <= posted
  BY <1>1, <1>2 DEF BatchType, TypeOK
<1>5. TypeOK'
  BY <1>1, <1>2, <1>4 DEF TypeOK, Connecting
<1>6. HandsContiguous' /\ NothingSkipped'
  BY <1>1, <1>2 DEF HandsContiguous, NothingSkipped, BatchType, TypeOK, Ops
<1> QED
  BY <1>3, <1>5, <1>6

LEMMA CallPreserves ==
    ASSUME WatchInv,
           \/ WatchGroup \/ WatchErrored \/ UnwatchGroup \/ SyncGroup \/ Operation \/ Post
           \/ SoftDeleteGroup \/ ApplyDocumentTombstone
           \/ \E t \in Tasks : Repaired(t) \/ Unwatched(t)
    PROVE  WatchInv'
<1> USE DEF WatchInv, fixed, groupVars, taskVars, callVars
<1>1. CASE WatchGroup
  BY <1>1, StartsOK DEF WatchGroup, TypeOK
<1>2. CASE WatchErrored
  <2>1. handle.task \in Tasks /\ handle' = NoHandle
    BY <1>2 DEF WatchErrored, EntryOK, NoHandle
  <2>2. aborted' \subseteq Tasks /\ repairing' \subseteq Tasks
    BY <1>2, <2>1 DEF WatchErrored, TypeOK, AbortedWith
  <2>3. TypeOK'
    BY <1>2, <2>1, <2>2, GroupWatchAssumption DEF WatchErrored, TypeOK, NoHandle
  <2>4. BatchType' /\ EntryOK'
    BY <1>2, <2>1, <2>2 DEF WatchErrored, BatchType, EntryOK
  <2>5. HandsContiguous' /\ NothingSkipped'
    BY <1>2, <2>1, <2>2 DEF WatchErrored, HandsContiguous, NothingSkipped
  <2> QED
    BY <2>3, <2>4, <2>5
<1>3. CASE UnwatchGroup
  BY <1>3, GroupWatchAssumption DEF UnwatchGroup, TypeOK, BatchType, EntryOK, HandsContiguous, NothingSkipped, AbortedWith, NoHandle, Tasks
<1>4. CASE SyncGroup
  BY <1>4 DEF SyncGroup, TypeOK, BatchType, EntryOK, HandsContiguous, NothingSkipped, Ops
<1>5. CASE Operation
  BY <1>5 DEF Operation, TypeOK, BatchType, EntryOK, HandsContiguous, NothingSkipped, Ops
<1>6. CASE Post
  BY <1>6, GroupWatchAssumption DEF Post, TypeOK, BatchType, EntryOK, HandsContiguous, NothingSkipped
<1>7. CASE SoftDeleteGroup \/ ApplyDocumentTombstone
  <2>1. /\ active' = FALSE /\ handle' = NoHandle
        /\ aborted' = IF handle = NoHandle THEN aborted ELSE AbortedWith(handle.task)
        /\ lane' = lane \/ (lane # <<>> /\ lane' = Tail(lane))
        /\ batch' = batch \/ batch' = [batch EXCEPT ![Send] = NoBatch]
        /\ UNCHANGED <<fixed, posted, fetchCursor, processed, phase, position, callVars>>
    BY <1>7 DEF SoftDeleteGroup, ApplyDocumentTombstone, DropGroup, Leaves, Runs
  <2>2. aborted' \subseteq Tasks
    BY <2>1, AbortOK DEF TypeOK
  <2>3. lane' \in Seq(Ops)
    BY <2>1 DEF TypeOK
  <2>4. BatchType' /\ \A o \in Ops : batch'[o] = batch[o] \/ (batch'[o] = NoBatch /\ o \notin Tasks)
    BY <2>1, GroupWatchAssumption DEF BatchType, NoBatch, Send, Tasks
  <2>7. \A o \in Ops : batch'[o].after <= batch'[o].upto /\ batch'[o].upto <= posted
    BY <2>4 DEF TypeOK, NoBatch
  <2>8. handle' \in [task : 0..MaxTasks, status : {"idle", "connecting", "watching", "errored"}]
    BY <2>1, GroupWatchAssumption DEF NoHandle
  <2>5. TypeOK'
    BY <2>1, <2>2, <2>3, <2>7, <2>8, GroupWatchAssumption DEF TypeOK
  <2>6. EntryOK' /\ HandsContiguous' /\ NothingSkipped'
    BY <2>1, <2>4 DEF EntryOK, HandsContiguous, NothingSkipped, NoBatch, Ops
  <2> QED
    BY <2>4, <2>5, <2>6
<1>9. ASSUME NEW t \in Tasks, Repaired(t)
      PROVE  WatchInv'
  <2>1. CASE active /\ Starts
    BY <1>9, <2>1, StartsOK DEF Repaired, TypeOK
  <2>2. CASE UNCHANGED <<handle, phase, batch>>
    BY <1>9, <2>2 DEF Repaired, TypeOK, BatchType, EntryOK, HandsContiguous, NothingSkipped
  <2> QED
    BY <1>9, <2>1, <2>2 DEF Repaired
<1>10. ASSUME NEW t \in Tasks, Unwatched(t)
       PROVE  WatchInv'
  BY <1>10 DEF Unwatched, TypeOK, BatchType, EntryOK, HandsContiguous, NothingSkipped
<1> QED
  BY <1>1, <1>2, <1>3, <1>4, <1>5, <1>6, <1>7, <1>9, <1>10

\* What every application leaves behind, whoever made it.
LEMMA ApplicationOK ==
    ASSUME WatchInv, NEW o \in Ops, NEW ok \in BOOLEAN,
           Runs(o), Applies(batch[o], ok), AbortsOfRemoval, Leaves(o)
    PROVE  /\ Remaining \in [task : 0..MaxTasks, status : {"idle", "connecting", "watching", "errored"}]
           /\ Remaining = NoHandle \/ (Remaining.task \in Tasks /\ Remaining.status # "idle")
           /\ ~active' => Remaining = NoHandle
           /\ aborted' \subseteq Tasks /\ lane' \in Seq(Ops)
           /\ batch' \in [Ops -> [after : Nat, upto : Nat]]
           /\ \A q \in Ops : batch'[q].after <= batch'[q].upto /\ batch'[q].upto <= posted
           /\ \A q \in Ops \ {o} : batch'[q] = batch[q]
           /\ \A q \in Ops : 1 .. batch'[q].after \subseteq processed'
<1> USE DEF WatchInv
<1>1. active' \in BOOLEAN /\ (active' => active) /\ processed \subseteq processed'
  BY AppliesContiguously
<1>2. Remaining = IF active' THEN handle ELSE NoHandle
  BY DEF Remaining
<1>3. NoHandle \in [task : 0..MaxTasks, status : {"idle", "connecting", "watching", "errored"}]
  BY GroupWatchAssumption DEF NoHandle
<1>4. aborted' \subseteq Tasks
  BY AbortOK DEF AbortsOfRemoval, TypeOK
<1>5. lane' \in Seq(Ops)
  BY DEF Leaves, Runs, TypeOK
<1>6. /\ batch' \in [Ops -> [after : Nat, upto : Nat]] /\ batch'[o] = NoBatch
      /\ \A q \in Ops \ {o} : batch'[q] = batch[q]
  BY DEF Leaves, BatchType, NoBatch
<1>7. \A q \in Ops : batch'[q].after <= batch'[q].upto /\ batch'[q].upto <= posted
  <2>1. NoBatch.after <= NoBatch.upto /\ NoBatch.upto <= posted
    BY DEF NoBatch, TypeOK
  <2> QED
    BY <1>6, <2>1 DEF TypeOK
<1>8. \A q \in Ops : 1 .. batch'[q].after \subseteq processed'
  <2>1. 1 .. NoBatch.after = {}
    BY DEF NoBatch
  <2> QED
    BY <1>1, <1>6, <2>1 DEF HandsContiguous
<1> QED
  BY <1>1, <1>2, <1>3, <1>4, <1>5, <1>6, <1>7, <1>8 DEF EntryOK, TypeOK

LEMMA CallerPreserves ==
    ASSUME WatchInv, NEW o \in {Sync, Send}, CallerStep(o)
    PROVE  WatchInv'
<1> USE DEF WatchInv, fixed, groupVars, taskVars, callVars
<1>1. o \in Ops /\ o \notin Tasks
  BY GroupWatchAssumption DEF Ops, Tasks, Sync, Send
<1>2. CASE FetchRaw(o)
  <2>1. batch' = [batch EXCEPT ![o] = [after |-> fetchCursor, upto |-> posted]]
    BY <1>2 DEF FetchRaw
  <2>2. BatchType' /\ \A q \in Ops \ {o} : batch'[q] = batch[q]
    BY <1>1, <2>1 DEF BatchType, TypeOK
  <2>3. \A q \in Ops : batch'[q].after <= batch'[q].upto /\ batch'[q].upto <= posted
    BY <1>1, <1>2, <2>1, <2>2 DEF FetchRaw, BatchType, TypeOK
  <2>4. TypeOK' /\ EntryOK'
    BY <1>2, <2>3 DEF FetchRaw, TypeOK, EntryOK
  <2>5. HandsContiguous' /\ NothingSkipped'
    BY <1>1, <1>2, <2>1, <2>2 DEF FetchRaw, HandsContiguous, NothingSkipped, BatchType, Ops
  <2> QED
    BY <2>2, <2>4, <2>5
<1>3. CASE ApplyFetched(o)
  <2>1. PICK ok \in BOOLEAN : Applies(batch[o], ok)
    BY <1>3 DEF ApplyFetched
  <2>2. /\ Runs(o) /\ AbortsOfRemoval /\ Leaves(o) /\ handle' = Remaining
        /\ UNCHANGED <<fixed, posted, phase, position, callVars>>
    BY <1>3 DEF ApplyFetched
  <2>5. BatchType' /\ EntryOK'
    BY <1>1, <2>1, <2>2, ApplicationOK DEF BatchType, EntryOK
  <2>6. /\ lane' \in Seq(Ops) /\ aborted' \subseteq Tasks
        /\ \A q \in Ops : batch'[q].after <= batch'[q].upto /\ batch'[q].upto <= posted
        /\ handle' \in [task : 0..MaxTasks, status : {"idle", "connecting", "watching", "errored"}]
    BY <1>1, <2>1, <2>2, ApplicationOK
  <2>7. active' \in BOOLEAN /\ fetchCursor' \in 0 .. posted /\ processed' \subseteq 1 .. posted
    BY <1>1, <2>1, AppliesContiguously
  <2>3. TypeOK'
    BY <2>2, <2>6, <2>7 DEF TypeOK
  <2>4. HandsContiguous' /\ NothingSkipped'
    BY <1>1, <2>1, <2>2, AppliesContiguously, ApplicationOK DEF HandsContiguous, NothingSkipped, Ops
  <2> QED
    BY <2>3, <2>4, <2>5
<1>4. CASE NothingFetched(o)
  <2>1. batch' = [batch EXCEPT ![o] = NoBatch] /\ batch[o] = NoBatch /\ lane' = Tail(lane) /\ lane # <<>>
    BY <1>4 DEF NothingFetched, Leaves, Runs
  <2>2. batch' = batch /\ lane' \in Seq(Ops)
    BY <1>1, <2>1 DEF BatchType, TypeOK
  <2> QED
    BY <1>4, <2>2 DEF NothingFetched, TypeOK, BatchType, EntryOK, HandsContiguous, NothingSkipped
<1> QED
  BY <1>2, <1>3, <1>4 DEF CallerStep

LEMMA TaskPreserves ==
    ASSUME WatchInv, NEW t \in Tasks, TaskStep(t)
    PROVE  WatchInv'
<1> USE DEF WatchInv, fixed, groupVars, taskVars, callVars
<1>1. t \in Ops /\ t \in 0 .. MaxTasks
  BY GroupWatchAssumption DEF Ops, Tasks
<1>2. CASE CatchUpFetched(t)
  <2>1. /\ phase' = [phase EXCEPT ![t] = "catching"]
        /\ batch' = [batch EXCEPT ![t].upto = Max({posted, batch[t].after})]
        /\ lane' = Append(lane, t)
    BY <1>2 DEF CatchUpFetched
  <2>2. batch[t].after <= posted /\ batch[t].after \in Nat /\ posted \in Nat
    BY <1>1 DEF TypeOK, BatchType
  <2>3. Max({posted, batch[t].after}) = posted
    BY <2>2, MaxOfTwo
  <2>4. BatchType' /\ \A q \in Ops : batch'[q].after = batch[q].after
    BY <1>1, <2>1, <2>2, <2>3 DEF BatchType
  <2>5. \A q \in Ops : batch'[q].after <= batch'[q].upto /\ batch'[q].upto <= posted
    BY <1>1, <2>1, <2>2, <2>3 DEF TypeOK, BatchType
  <2>6. lane' \in Seq(Ops) /\ phase' \in [Tasks -> Connecting \cup Streaming \cup {"unused", "ended"}]
    BY <1>1, <2>1 DEF TypeOK, Connecting
  <2>7. UNCHANGED <<serial, removal, active, posted, fetchCursor, processed, handle, position,
                    aborted, repairing, unwatching>>
    BY <1>2 DEF CatchUpFetched
  <2>8. TypeOK'
    BY <2>5, <2>6, <2>7 DEF TypeOK
  <2>9. EntryOK' /\ HandsContiguous' /\ NothingSkipped'
    BY <1>1, <1>2, <2>1, <2>4 DEF CatchUpFetched, EntryOK, HandsContiguous, NothingSkipped, TypeOK, BatchType, Ops
  <2> QED
    BY <2>4, <2>8, <2>9
<1>3. CASE OnMessages(t)
  <2>1. /\ Runs(t) /\ Applies(batch[t], TRUE) /\ AbortsOfRemoval /\ Leaves(t) /\ handle' = Remaining
        /\ UNCHANGED <<fixed, posted, callVars, failures>>
    BY <1>3 DEF OnMessages
  <2>2. BatchType' /\ EntryOK'
    BY <1>1, <2>1, ApplicationOK DEF BatchType, EntryOK
  <2>3. /\ lane' \in Seq(Ops) /\ aborted' \subseteq Tasks
        /\ \A q \in Ops : batch'[q].after <= batch'[q].upto /\ batch'[q].upto <= posted
        /\ handle' \in [task : 0..MaxTasks, status : {"idle", "connecting", "watching", "errored"}]
    BY <1>1, <2>1, ApplicationOK
  <2>4. /\ active' \in BOOLEAN /\ fetchCursor' \in 0 .. posted /\ processed' \subseteq 1 .. posted
        /\ processed \subseteq processed' /\ 1 .. fetchCursor' \subseteq processed'
        /\ 1 .. batch[t].upto \subseteq processed'
    BY <1>1, <2>1, AppliesContiguously
  <2>5. \/ /\ phase[t] = "catching"
           /\ phase' = [phase EXCEPT ![t] = "opening"]
           /\ position' = [position EXCEPT ![t] = fetchCursor']
        \/ /\ phase[t] = "handing"
           /\ phase' = [phase EXCEPT ![t] = "streaming"]
           /\ position' = position
    BY <1>3 DEF OnMessages, ResumeFrom
  <2>6. phase' \in [Tasks -> Connecting \cup Streaming \cup {"unused", "ended"}] /\ position' \in [Tasks -> 0 .. posted]
    <3>1. position' \in [Tasks -> 0 .. posted]
      <4>1. position \in [Tasks -> 0 .. posted]
        BY DEF TypeOK
      <4>2. position' = position \/ position' = [position EXCEPT ![t] = fetchCursor']
        BY <2>5
      <4> QED
        BY <2>4, <4>1, <4>2
    <3>2. phase' \in [Tasks -> Connecting \cup Streaming \cup {"unused", "ended"}]
      BY <2>5 DEF TypeOK, Connecting, Streaming
    <3> QED
      BY <3>1, <3>2
  <2>7. TypeOK'
    BY <2>1, <2>3, <2>4, <2>6 DEF TypeOK
  <2>8. \A u \in Tasks : phase'[u] \in {"opening", "streaming"} => 1 .. position'[u] \subseteq processed'
    BY <2>4, <2>5 DEF TypeOK, HandsContiguous
  <2>9. \A u \in Tasks : phase'[u] = "handing" => u # t /\ position'[u] = batch[u].upto
    BY <2>5 DEF TypeOK, HandsContiguous
  <2>10. /\ \A q \in Ops \ {t} : batch'[q] = batch[q]
         /\ \A q \in Ops : 1 .. batch'[q].after \subseteq processed'
    BY <1>1, <2>1, ApplicationOK
  <2>11. HandsContiguous' /\ NothingSkipped'
    BY <2>4, <2>8, <2>9, <2>10 DEF HandsContiguous, NothingSkipped, Ops
  <2> QED
    BY <2>2, <2>7, <2>11
<1>4. CASE OnMessagesFails(t)
  <2>1. /\ Runs(t) /\ AbortsOfRemoval /\ Leaves(t) /\ handle' = Rejected(Remaining)
        /\ phase' = [phase EXCEPT ![t] = "ended"] /\ position' = [position EXCEPT ![t] = 0]
        /\ UNCHANGED <<fixed, posted, callVars>>
    BY <1>4 DEF OnMessagesFails, Ends
  <2>2. Applies(batch[t], FALSE) \/ (~active /\ UNCHANGED groupVars)
    BY <1>4 DEF OnMessagesFails
  <2>3. Applies(batch[t], FALSE)
    <3>1. CASE ~active /\ UNCHANGED groupVars
      BY <1>1, <3>1 DEF Applies, CursorAfter, TypeOK, BatchType
    <3> QED
      BY <2>2, <3>1
  <2>4. /\ Remaining \in [task : 0..MaxTasks, status : {"idle", "connecting", "watching", "errored"}]
        /\ Remaining = NoHandle \/ (Remaining.task \in Tasks /\ Remaining.status # "idle")
        /\ ~active' => Remaining = NoHandle
        /\ aborted' \subseteq Tasks /\ lane' \in Seq(Ops) /\ BatchType'
        /\ \A q \in Ops : batch'[q].after <= batch'[q].upto /\ batch'[q].upto <= posted
        /\ \A q \in Ops \ {t} : batch'[q] = batch[q]
        /\ \A q \in Ops : 1 .. batch'[q].after \subseteq processed'
    BY <1>1, <2>1, <2>3, ApplicationOK DEF BatchType
  <2>5. /\ active' \in BOOLEAN /\ fetchCursor' \in 0 .. posted /\ processed' \subseteq 1 .. posted
        /\ processed \subseteq processed' /\ 1 .. fetchCursor' \subseteq processed'
    BY <1>1, <2>3, AppliesContiguously
  <2>6. /\ handle' \in [task : 0..MaxTasks, status : {"idle", "connecting", "watching", "errored"}]
        /\ EntryOK'
    BY <2>1, <2>4 DEF Rejected, EntryOK
  <2>7. TypeOK'
    BY <2>1, <2>4, <2>5, <2>6 DEF TypeOK
  <2>8. HandsContiguous' /\ NothingSkipped'
    BY <1>1, <2>1, <2>4, <2>5 DEF HandsContiguous, NothingSkipped, TypeOK, Ops
  <2> QED
    BY <2>4, <2>6, <2>7, <2>8
<1>5. CASE OnWatching(t)
  <2>1. phase' = [phase EXCEPT ![t] = "streaming"] /\ phase[t] = "opening"
    BY <1>5 DEF OnWatching
  <2>2. /\ handle' \in [task : 0..MaxTasks, status : {"idle", "connecting", "watching", "errored"}]
        /\ EntryOK'
    BY <1>5 DEF OnWatching, TypeOK, EntryOK, NoHandle
  <2>3. TypeOK' /\ BatchType'
    BY <1>5, <2>1, <2>2 DEF OnWatching, TypeOK, BatchType, Streaming
  <2>4. HandsContiguous' /\ NothingSkipped'
    BY <1>5, <2>1 DEF OnWatching, HandsContiguous, NothingSkipped, TypeOK
  <2> QED
    BY <2>2, <2>3, <2>4
<1>6. CASE Deliver(t)
  <2>1. /\ phase[t] = "streaming" /\ position[t] < posted
        /\ position' = [position EXCEPT ![t] = position[t] + 1]
        /\ batch' = [batch EXCEPT ![t] = [after |-> position[t], upto |-> position[t] + 1]]
        /\ phase' = [phase EXCEPT ![t] = "handing"]
        /\ lane' = Append(lane, t)
    BY <1>6 DEF Deliver
  <2>2. position[t] \in Nat /\ position[t] + 1 <= posted /\ posted \in Nat
    BY <2>1 DEF TypeOK
  <2>3. BatchType' /\ \A q \in Ops \ {t} : batch'[q] = batch[q]
    BY <1>1, <2>1, <2>2 DEF BatchType
  <2>4. \A q \in Ops : batch'[q].after <= batch'[q].upto /\ batch'[q].upto <= posted
    BY <1>1, <2>1, <2>2 DEF TypeOK, BatchType
  <2>5. /\ lane' \in Seq(Ops) /\ phase' \in [Tasks -> Connecting \cup Streaming \cup {"unused", "ended"}]
        /\ position' \in [Tasks -> 0 .. posted]
    BY <1>1, <2>1, <2>2 DEF TypeOK, Streaming
  <2>6. TypeOK' /\ EntryOK'
    BY <1>6, <2>4, <2>5 DEF Deliver, TypeOK, EntryOK
  <2>7. HandsContiguous' /\ NothingSkipped'
    BY <1>1, <1>6, <2>1, <2>2, <2>3 DEF Deliver, HandsContiguous, NothingSkipped, TypeOK, BatchType, Ops
  <2> QED
    BY <2>3, <2>6, <2>7
<1>7. CASE TaskRejects(t) \/ TaskReturns(t)
  <2>1. /\ phase' = [phase EXCEPT ![t] = "ended"] /\ position' = [position EXCEPT ![t] = 0]
        /\ batch' = batch \/ batch' = [batch EXCEPT ![t] = NoBatch]
        /\ handle' \in {handle, [handle EXCEPT !.status = "errored"]}
        /\ handle = NoHandle => handle' = NoHandle
        /\ UNCHANGED <<fixed, posted, groupVars, aborted, lane, callVars>>
    BY <1>7 DEF TaskRejects, TaskReturns, Ends, Rejected, Returned, EntryOK, NoHandle, Tasks
  <2>2. NoBatch.after = 0 /\ NoBatch.upto = 0 /\ NoBatch \in [after : Nat, upto : Nat] /\ posted \in Nat
    BY DEF NoBatch, TypeOK
  <2>3. BatchType' /\ \A q \in Ops : batch'[q] = batch[q] \/ (q = t /\ batch'[q] = NoBatch)
    BY <1>1, <2>1, <2>2 DEF BatchType
  <2>4. \A q \in Ops : batch'[q].after <= batch'[q].upto /\ batch'[q].upto <= posted
    BY <2>2, <2>3 DEF TypeOK
  <2>5. /\ handle' \in [task : 0..MaxTasks, status : {"idle", "connecting", "watching", "errored"}]
        /\ EntryOK'
    BY <2>1 DEF TypeOK, EntryOK
  <2>6. TypeOK'
    BY <2>1, <2>2, <2>4, <2>5 DEF TypeOK
  <2>7. HandsContiguous' /\ NothingSkipped'
    BY <1>1, <2>1, <2>2, <2>3 DEF HandsContiguous, NothingSkipped, TypeOK, Ops
  <2> QED
    BY <2>3, <2>5, <2>6, <2>7
<1> QED
  BY <1>2, <1>3, <1>4, <1>5, <1>6, <1>7 DEF TaskStep

LEMMA StepPreserves == WatchInv /\ [Next]_vars => WatchInv'
<1> SUFFICES ASSUME WatchInv, [Next]_vars PROVE WatchInv'
  OBVIOUS
<1>1. CASE UNCHANGED vars
  BY <1>1 DEF vars, fixed, groupVars, taskVars, callVars, WatchInv, TypeOK, BatchType,
     EntryOK, HandsContiguous, NothingSkipped
<1> QED
  BY <1>1, CallPreserves, CallerPreserves, TaskPreserves DEF Next

\* The inductive invariant: what each task, sync and caller of a client knows of
\* the cursor and of the group's entry at the await it is at (watchGroup,
\* catchUp, runGroupWatch).
THEOREM WatchInvariant == Spec => []WatchInv
BY InitEstablishes, StepPreserves, PTL DEF Spec

\* Types, and that no cursor or batch is beyond the log.
THEOREM TypeCorrect == Spec => []TypeOK
<1>1. WatchInv => TypeOK
  BY DEF WatchInv
<1> QED
  BY <1>1, WatchInvariant, PTL

\* The cursor of a watched group never passes a message that was not applied
\* (getAfterCursor in watchGroup, applyIncomingMessages), for any number of
\* tasks, syncs and failures.
THEOREM CursorSkipsNothing == Spec => []NothingSkipped
<1>1. WatchInv => NothingSkipped
  BY DEF WatchInv
<1> QED
  BY <1>1, WatchInvariant, PTL

-----------------------------------------------------------------------------
(* Callers that wait for each other.                                       *)

\* One task at a time has a caller waiting for its end, and while it does there
\* is no entry; any other task at work is the one of the entry.
CallersInv ==
    serial =>
        /\ repairing = {} \/ unwatching = {}
        /\ \A t, u \in repairing \cup unwatching : t = u
        /\ repairing \cup unwatching # {} => handle = NoHandle
        /\ active => \A t \in Tasks :
              Live(t) => t = handle.task \/ t \in repairing \cup unwatching
        /\ WatchingIsLive

LEMMA CallersInit == Init => CallersInv
BY DEF Init, CallersInv, WatchingIsLive, Live, NoHandle, Connecting, Streaming

\* The start of a new task: there is no entry and no other task at work.
LEMMA CallersStart ==
    ASSUME WatchInv, CallersInv, Starts, active, serial, UNCHANGED <<serial, active>>,
           handle = NoHandle, repairing' = {}, unwatching' = {},
           \A t \in Tasks : ~Live(t)
    PROVE  CallersInv'
<1>1. PICK t \in Fresh :
          /\ handle' = [task |-> t, status |-> "connecting"]
          /\ phase' = [phase EXCEPT ![t] = "fetching"]
  BY DEF Starts
<1>2. t \in Tasks /\ phase \in [Tasks -> Connecting \cup Streaming \cup {"unused", "ended"}]
  BY DEF Fresh, WatchInv, TypeOK
<1>3. \A u \in Tasks : Live(u)' <=> u = t
  BY <1>1, <1>2 DEF Live, Connecting
<1> QED
  BY <1>1, <1>2, <1>3 DEF CallersInv, WatchingIsLive

LEMMA CallersPreserved ==
    ASSUME WatchInv, CallersInv, [Next]_vars
    PROVE  CallersInv'
<1> USE DEF fixed, groupVars, taskVars, callVars
<1>a. serial' = serial
  BY DEF Next, vars, TaskStep, CallerStep, WatchGroup, WatchErrored, UnwatchGroup, SyncGroup,
     Operation, Post, SoftDeleteGroup, ApplyDocumentTombstone, Repaired, Unwatched,
     CatchUpFetched, OnMessages, OnMessagesFails, OnWatching, Deliver, TaskRejects,
     TaskReturns, FetchRaw, ApplyFetched, NothingFetched
<1>b. CASE ~serial
  BY <1>a, <1>b DEF CallersInv
<1> SUFFICES ASSUME serial, serial' PROVE CallersInv'
  BY <1>a, <1>b
<1>0. /\ handle.status = "idle" <=> handle = NoHandle
      /\ handle # NoHandle => handle.task \in Tasks /\ active
      /\ phase \in [Tasks -> Connecting \cup Streaming \cup {"unused", "ended"}]
      /\ NoHandle.task \notin Tasks
      /\ repairing \subseteq Tasks /\ unwatching \subseteq Tasks
  BY DEF WatchInv, TypeOK, EntryOK, NoHandle, Tasks
<1>1. CASE WatchGroup
  <2>1. NobodyWaits /\ active /\ handle = NoHandle /\ Starts /\ UNCHANGED <<serial, active, repairing, unwatching>>
    BY <1>1 DEF WatchGroup, Callable
  <2>2. \A t \in Tasks : ~Live(t)
    BY <1>0, <2>1 DEF CallersInv, NobodyWaits
  <2> QED
    BY <2>1, <2>2, CallersStart DEF NobodyWaits
<1>2. CASE WatchErrored \/ UnwatchGroup
  BY <1>0, <1>2 DEF WatchErrored, UnwatchGroup, Callable, NobodyWaits, CallersInv, WatchingIsLive, Live, NoHandle
<1>3. CASE SyncGroup \/ Operation \/ Post
  BY <1>3 DEF SyncGroup, Operation, Post, CallersInv, WatchingIsLive, Live
<1>4. CASE SoftDeleteGroup \/ ApplyDocumentTombstone
  BY <1>4 DEF SoftDeleteGroup, ApplyDocumentTombstone, DropGroup, CallersInv, WatchingIsLive, NoHandle
<1>5. ASSUME NEW t \in Tasks, Repaired(t)
      PROVE  CallersInv'
  <2>1. /\ t \in repairing /\ phase[t] = "ended" /\ repairing' = repairing \ {t}
        /\ UNCHANGED <<serial, active, unwatching>>
    BY <1>5 DEF Repaired
  <2>2. repairing' = {} /\ unwatching' = {} /\ handle = NoHandle
    BY <2>1 DEF CallersInv
  <2>3. active => \A u \in Tasks : ~Live(u)
    BY <1>0, <2>1, <2>2 DEF CallersInv, Live, Connecting, Streaming
  <2>4. CASE active /\ Starts
    BY <2>1, <2>2, <2>3, <2>4, CallersStart
  <2>5. CASE UNCHANGED <<handle, phase>>
    BY <2>1, <2>2, <2>3, <2>5 DEF CallersInv, WatchingIsLive, Live, NoHandle
  <2> QED
    BY <1>5, <2>4, <2>5 DEF Repaired
<1>6. ASSUME NEW t \in Tasks, Unwatched(t)
      PROVE  CallersInv'
  <2>1. /\ t \in unwatching /\ phase[t] = "ended" /\ unwatching' = unwatching \ {t}
        /\ UNCHANGED <<serial, active, repairing, handle, phase>>
    BY <1>6 DEF Unwatched
  <2>2. unwatching' = {} /\ repairing' = {} /\ handle = NoHandle
    BY <2>1 DEF CallersInv
  <2> QED
    BY <2>1, <2>2 DEF CallersInv, WatchingIsLive, Live, Connecting, Streaming, NoHandle
<1>7. ASSUME NEW o \in {Sync, Send}, CallerStep(o)
      PROVE  CallersInv'
  <2>1. /\ UNCHANGED <<serial, repairing, unwatching, phase>>
        /\ handle' = handle \/ (~active' /\ handle' = NoHandle)
        /\ active' = active \/ ~active'
    BY <1>7, AppliesContiguously DEF CallerStep, FetchRaw, ApplyFetched, NothingFetched, Remaining, Applies
  <2> QED
    BY <2>1 DEF CallersInv, WatchingIsLive, Live, NoHandle
<1>8. ASSUME NEW t \in Tasks, TaskStep(t)
      PROVE  CallersInv'
  <2>1. UNCHANGED <<serial, repairing, unwatching>>
    BY <1>8 DEF TaskStep, CatchUpFetched, OnMessages, OnMessagesFails, OnWatching, Deliver, TaskRejects, TaskReturns
  <2>2. CASE CatchUpFetched(t) \/ Deliver(t)
    <3>1. \A u \in Tasks : Live(u)' <=> Live(u)
      BY <1>0, <2>2 DEF CatchUpFetched, Deliver, Live, Connecting, Streaming
    <3>2. UNCHANGED <<handle, active>>
      BY <2>2 DEF CatchUpFetched, Deliver
    <3> QED
      BY <1>0, <2>1, <3>1, <3>2 DEF CallersInv, WatchingIsLive
  <2>3. CASE OnMessages(t)
    <3>1. \A u \in Tasks : Live(u)' <=> Live(u)
      BY <1>0, <2>3 DEF OnMessages, Live, Connecting, Streaming
    <3>2. CASE active /\ UNCHANGED <<handle, active>>
      BY <1>0, <2>1, <3>1, <3>2 DEF CallersInv, WatchingIsLive
    <3>3. CASE ~active' /\ handle' = NoHandle
      BY <2>1, <3>3 DEF CallersInv, WatchingIsLive, NoHandle
    <3> QED
      BY <2>3, <3>2, <3>3 DEF OnMessages, Remaining, Applies
  <2>4. CASE OnWatching(t)
    <3>1. Live(t) /\ \A u \in Tasks : Live(u)' <=> Live(u)
      BY <1>0, <2>4 DEF OnWatching, Live, Connecting, Streaming
    <3>2. active' = active /\ handle' = IF handle = NoHandle THEN handle ELSE [handle EXCEPT !.status = "watching"]
      BY <2>4 DEF OnWatching
    <3>3. CASE handle = NoHandle
      BY <1>0, <2>1, <3>1, <3>2, <3>3 DEF CallersInv, WatchingIsLive, NoHandle
    <3>4. CASE handle # NoHandle
      <4>1. active /\ handle.task = t
        BY <1>0, <3>1, <3>4 DEF CallersInv
      <4>2. handle'.task = t
        BY <3>2, <3>4, <4>1 DEF WatchInv, TypeOK
      <4> QED
        BY <1>0, <2>1, <3>1, <3>2, <3>4, <4>1, <4>2 DEF CallersInv, WatchingIsLive
    <3> QED
      BY <3>3, <3>4
  <2>5. CASE OnMessagesFails(t) \/ TaskRejects(t)
    <3>1. ~Live(t)' /\ \A u \in Tasks : Live(u)' => Live(u)
      BY <1>0, <2>5 DEF OnMessagesFails, TaskRejects, Ends, Live, Connecting, Streaming
    <3>2. \/ handle' = NoHandle /\ (handle = NoHandle \/ ~active')
          \/ handle # NoHandle /\ handle' = [handle EXCEPT !.status = "errored"]
      BY <2>5 DEF OnMessagesFails, TaskRejects, Rejected, Remaining
    <3>3. active' => active
      BY <2>5 DEF OnMessagesFails, TaskRejects, Applies
    <3>4. CASE handle' = NoHandle /\ ~active'
      BY <2>1, <3>4 DEF CallersInv, WatchingIsLive, NoHandle
    <3>5. CASE handle' = NoHandle /\ handle = NoHandle
      BY <2>1, <3>1, <3>3, <3>5 DEF CallersInv, WatchingIsLive, NoHandle
    <3>6. CASE handle # NoHandle /\ handle' = [handle EXCEPT !.status = "errored"]
      <4>1. handle'.task = handle.task /\ handle'.status = "errored"
        BY <3>6 DEF WatchInv, TypeOK
      <4>2. repairing' \cup unwatching' = {}
        BY <2>1, <3>6 DEF CallersInv
      <4>3. active' => \A u \in Tasks : Live(u)' => u = handle'.task
        BY <2>1, <3>1, <3>3, <4>1, <3>6 DEF CallersInv
      <4> QED
        BY <4>1, <4>2, <4>3 DEF CallersInv, WatchingIsLive
    <3> QED
      BY <3>2, <3>4, <3>5, <3>6
  <2>6. CASE TaskReturns(t)
    <3>1. ~Live(t)' /\ \A u \in Tasks \ {t} : Live(u)' <=> Live(u)
      BY <1>0, <2>6 DEF TaskReturns, Ends, Live, Connecting, Streaming
    <3>2. active' = active /\ handle' = IF handle.task = t THEN [handle EXCEPT !.status = "errored"] ELSE handle
      BY <2>6 DEF TaskReturns, Returned
    <3>3. [handle EXCEPT !.status = "errored"].task = handle.task
          /\ [handle EXCEPT !.status = "errored"].status = "errored"
      BY DEF WatchInv, TypeOK
    <3> QED
      BY <1>0, <2>1, <3>1, <3>2, <3>3 DEF CallersInv, WatchingIsLive
  <2> QED
    BY <1>8, <2>2, <2>3, <2>4, <2>5, <2>6 DEF TaskStep
<1>9. CASE UNCHANGED vars
  BY <1>9 DEF vars, CallersInv, WatchingIsLive, Live
<1> QED
  BY <1>1, <1>2, <1>3, <1>4, <1>5, <1>6, <1>7, <1>8, <1>9 DEF Next

\* While callers wait for each other, an entry that says "connecting" or
\* "watching" has its own task at work, however tasks fail, end and are repaired
\* (watchGroup, the handlers of runGroupWatch's promise).
THEOREM EntriesAreLive == Spec => []WatchingIsLive
<1>1. Init => CallersInv
  BY CallersInit
<1>2. WatchInv /\ CallersInv /\ [Next]_vars => CallersInv'
  BY CallersPreserved
<1>3. CallersInv => WatchingIsLive
  BY DEF CallersInv, WatchingIsLive
<1> QED
  BY <1>1, <1>2, <1>3, WatchInvariant, PTL DEF Spec
=============================================================================
