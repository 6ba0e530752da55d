------------------------ MODULE GroupDeliveryProofs ------------------------
(***************************************************************************)
(* Proofs about GroupDelivery for any finite set of groups, any streams    *)
(* and any bound: the inductive invariant DeliveryInv, the safety          *)
(* properties it implies, and that the delivery path implements GroupFeed. *)
(***************************************************************************)
EXTENDS GroupDelivery, FiniteSetTheorems, SequenceTheorems, TLAPS

LEMMA JoinedFinite ==
  ASSUME NEW s \in Streams
  PROVE  /\ IsFiniteSet({g \in Groups : s \in groupSubscribers[g]})
         /\ Cardinality({g \in Groups : s \in groupSubscribers[g]}) \in Nat
  <1>1. {g \in Groups : s \in groupSubscribers[g]} \in SUBSET Groups
    OBVIOUS
  <1>2. IsFiniteSet({g \in Groups : s \in groupSubscribers[g]})
    BY <1>1, FS_Subset, DeliveryAssumption
  <1> QED BY <1>2, FS_CardinalityType

\* Leaving removes a stream from every group, closes its queue and takes its
\* reference count to zero, whether or not it was still joined.
LEMMA UnsubscribeLeaves ==
  ASSUME DeliveryInv, NEW s \in Streams, Unsubscribe(s)
  PROVE  /\ closed' \in [Streams -> BOOLEAN]
         /\ closed' = [closed EXCEPT ![s] = TRUE]
         /\ groupSubscribers' \in [Groups -> SUBSET Streams]
         /\ \A g \in Groups : groupSubscribers'[g] = groupSubscribers[g] \ {s}
         /\ subscriberRefcounts' \in [Streams -> Nat]
         /\ RefcountsExact'
  <1> DEFINE Joined(t) == {g \in Groups : t \in groupSubscribers[g]}
  <1>0. TypeOK /\ JoinedIffLive /\ RefcountsExact
    BY DEF DeliveryInv
  <1>1. closed' \in [Streams -> BOOLEAN] /\ closed' = [closed EXCEPT ![s] = TRUE]
    BY <1>0 DEF Unsubscribe, TypeOK
  <1>2. \A g \in Groups : s \in groupSubscribers[g] => g \in groupIds[s]
    BY <1>0 DEF JoinedIffLive
  <1>3. \A g \in Groups : groupSubscribers'[g] = groupSubscribers[g] \ {s}
    BY <1>0, <1>2 DEF Unsubscribe, TypeOK
  <1>4. groupSubscribers' \in [Groups -> SUBSET Streams]
    BY <1>0, <1>3 DEF Unsubscribe, TypeOK
  <1>5. {g \in groupIds[s] : s \in groupSubscribers[g]} = Joined(s)
    BY <1>0, <1>2 DEF TypeOK
  <1>6. subscriberRefcounts' = [subscriberRefcounts EXCEPT ![s] = 0]
    <2>1. subscriberRefcounts[s] = Cardinality(Joined(s)) /\ subscriberRefcounts[s] \in Nat
      BY <1>0 DEF RefcountsExact, TypeOK
    <2>2. subscriberRefcounts[s] - Cardinality(Joined(s)) = 0
      BY <2>1
    <2> QED BY <1>5, <2>2, <1>0 DEF Unsubscribe, TypeOK
  <1>7. RefcountsExact'
    <2> SUFFICES ASSUME NEW t \in Streams
                 PROVE  subscriberRefcounts'[t]
                          = Cardinality({g \in Groups : t \in groupSubscribers'[g]})
      BY DEF RefcountsExact
    <2>1. CASE t = s
      <3>1. {g \in Groups : t \in groupSubscribers'[g]} = {}
        BY <2>1, <1>3
      <3> QED BY <3>1, <2>1, <1>6, <1>0, FS_EmptySet DEF TypeOK
    <2>2. CASE t # s
      <3>1. {g \in Groups : t \in groupSubscribers'[g]} = Joined(t)
        BY <2>2, <1>3
      <3> QED BY <3>1, <2>2, <1>6, <1>0 DEF TypeOK, RefcountsExact
    <2> QED BY <2>1, <2>2
  <1> QED BY <1>0, <1>1, <1>3, <1>4, <1>6, <1>7 DEF TypeOK

LEMMA InitEstablishes == Init => DeliveryInv
  <1> SUFFICES ASSUME Init PROVE DeliveryInv
    OBVIOUS
  <1>1. TypeOK
    BY DeliveryAssumption, EmptySeq DEF Init, TypeOK, Phases
  <1>2. \A s \in Streams : ~Serving(s) /\ ~writerActive[s]
    BY DEF Init, Serving
  <1>3. GapFree /\ JoinedIffLive /\ Lifecycle /\ CursorsCurrent
    BY <1>2 DEF Init, GapFree, JoinedIffLive, Lifecycle, CursorsCurrent, Holding, Serving
  <1>4. RefcountsExact
    <2> SUFFICES ASSUME NEW s \in Streams
                 PROVE  subscriberRefcounts[s]
                          = Cardinality({g \in Groups : s \in groupSubscribers[g]})
      BY DEF RefcountsExact
    <2>1. {g \in Groups : s \in groupSubscribers[g]} = {}
      BY DEF Init
    <2> QED BY <2>1, FS_EmptySet DEF Init
  <1> QED BY <1>1, <1>3, <1>4 DEF DeliveryInv

\* The steps of one handler that leave the registry alone.
LEMMA StartResolvesPreserves ==
  ASSUME DeliveryInv, NEW s \in Streams, StartResolves(s)
  PROVE  DeliveryInv'
  <1> USE DEF DeliveryInv, StartResolves, storageVars, registryVars
  <1>1. TypeOK'
    BY DEF TypeOK, Phases, NextAnswer
  <1>2. phase'[s] \in {"handed", "exhausted", "waiting"} /\ \A t \in Streams : Serving(t)' <=> Serving(t)
    BY DEF TypeOK, NextAnswer, Serving
  <1>3. GapFree' /\ JoinedIffLive' /\ CursorsCurrent'
    BY <1>2 DEF GapFree, QueuedInRange, QueuedInOrder, QueuedComplete, Queues,
                JoinedIffLive, CursorsCurrent
  <1>4. RefcountsExact'
    BY DEF RefcountsExact
  <1>5. Lifecycle'
    BY <1>2 DEF Lifecycle, TypeOK, NextAnswer, Holding
  <1> QED BY <1>1, <1>3, <1>4, <1>5

\* The head of a queue that is held is the next message its group owes, so
\* writing it moves sent by exactly one.
LEMMA HeadIsNext ==
  ASSUME DeliveryInv, NEW s \in Streams, Serving(s), queue[s] # <<>>
  PROVE  /\ Len(queue[s]) \in Nat \ {0}
         /\ Head(queue[s]) = queue[s][1]
         /\ Head(queue[s]) \in Record
         /\ Head(queue[s]).group \in groupIds[s]
         /\ Head(queue[s]).cursor = sent[s][Head(queue[s]).group] + 1
         /\ Head(queue[s]).cursor <= lastMessageCursor[Head(queue[s]).group]
  <1> DEFINE r == queue[s][1]
  <1>1. /\ queue[s] \in Seq(Record) /\ Len(queue[s]) \in Nat \ {0}
        /\ Head(queue[s]) = r /\ r \in Record /\ 1 \in 1..Len(queue[s])
    <2>1. queue[s] \in Seq(Record)
      BY DEF DeliveryInv, TypeOK
    <2>2. Len(queue[s]) \in Nat \ {0}
      BY <2>1, EmptySeq
    <2>3. 1 \in 1..Len(queue[s])
      BY <2>2
    <2> QED BY <2>1, <2>2, <2>3, ElementOfSeq
  <1>2. /\ r.group \in Groups /\ r.cursor \in 1..MaxCursor
        /\ sent[s] \in [Groups -> 0..MaxCursor]
        /\ cursorsByGroup[s] \in [Groups -> 0..MaxCursor]
    BY <1>1 DEF Record, DeliveryInv, TypeOK
  <1>3. QueuedInRange(s) /\ QueuedInOrder(s) /\ QueuedComplete(s)
    BY DEF DeliveryInv, GapFree
  <1>4. /\ r.group \in groupIds[s]
        /\ sent[s][r.group] < r.cursor /\ r.cursor <= cursorsByGroup[s][r.group]
    BY <1>1, <1>3 DEF QueuedInRange
  <1>5. r.cursor <= lastMessageCursor[r.group]
    BY <1>1 DEF DeliveryInv, CursorsCurrent
  <1>6. r.cursor = sent[s][r.group] + 1
    <2> DEFINE c == sent[s][r.group] + 1
    <2>1. c \in 1..MaxCursor /\ c <= r.cursor /\ c <= cursorsByGroup[s][r.group] /\ sent[s][r.group] < c
      <3>1. sent[s][r.group] \in Nat /\ r.cursor \in Nat /\ cursorsByGroup[s][r.group] \in Nat
        BY <1>2
      <3>2. r.cursor <= MaxCursor /\ MaxCursor \in Nat
        BY <1>2, DeliveryAssumption
      <3> QED BY <3>1, <3>2, <1>4
    <2>2. PICK i \in 1..Len(queue[s]) : queue[s][i] = [group |-> r.group, cursor |-> c]
      BY <1>3, <1>4, <2>1 DEF QueuedComplete, Queues
    <2>3. CASE i = 1
      BY <2>2, <2>3
    <2>4. CASE i # 1
      <3>1. 1 < i
        BY <2>4, <1>1
      <3>2. queue[s][1].cursor < queue[s][i].cursor
        BY <3>1, <2>2, <1>1, <1>3 DEF QueuedInOrder
      <3> QED BY <3>2, <2>2, <2>1, <1>2
    <2> QED BY <2>3, <2>4
  <1> QED BY <1>1, <1>4, <1>5, <1>6

LEMMA WriteResolvesPreserves ==
  ASSUME DeliveryInv, NEW s \in Streams, WriteResolves(s)
  PROVE  DeliveryInv'
  <1> DEFINE r == Head(queue[s])
  <1> USE DEF storageVars, registryVars
  <1>0. TypeOK /\ GapFree /\ JoinedIffLive /\ RefcountsExact /\ Lifecycle /\ CursorsCurrent
    BY DEF DeliveryInv
  <1>1. phase[s] = "writing" /\ Serving(s) /\ queue[s] # <<>>
    BY <1>0 DEF WriteResolves, Lifecycle, Serving, Holding
  <1>2. /\ Len(queue[s]) \in Nat \ {0} /\ r = queue[s][1] /\ r \in Record
        /\ r.group \in groupIds[s] /\ r.cursor = sent[s][r.group] + 1
    BY <1>1, HeadIsNext
  <1>3. /\ queue[s] \in Seq(Record) /\ Tail(queue[s]) \in Seq(Record)
        /\ Len(Tail(queue[s])) = Len(queue[s]) - 1
        /\ \A i \in 1..Len(Tail(queue[s])) :
              /\ i + 1 \in 1..Len(queue[s])
              /\ Tail(queue[s])[i] = queue[s][i+1]
              /\ queue[s][i+1] \in Record
    <2>1. queue[s] \in Seq(Record)
      BY <1>0 DEF TypeOK
    <2>2. /\ Tail(queue[s]) \in Seq(Record)
          /\ Len(Tail(queue[s])) = Len(queue[s]) - 1
          /\ \A i \in 1..Len(Tail(queue[s])) : Tail(queue[s])[i] = queue[s][i+1]
      BY <2>1, <1>1, HeadTailProperties
    <2>3. \A i \in 1..Len(Tail(queue[s])) : i + 1 \in 1..Len(queue[s])
      BY <2>2, <1>2
    <2> QED BY <2>1, <2>2, <2>3, ElementOfSeq
  <1>4. /\ r.group \in Groups /\ r.cursor \in 1..MaxCursor
        /\ sent' = [sent EXCEPT ![s] = [sent[s] EXCEPT ![r.group] = r.cursor]]
        /\ queue' = [queue EXCEPT ![s] = Tail(queue[s])]
    BY <1>2 DEF WriteResolves, Record
  <1>5. phase' = [phase EXCEPT ![s] = NextAnswer(Tail(queue[s]), closed[s])]
    BY DEF WriteResolves
  <1>6. TypeOK'
    <2>1. phase' \in [Streams -> Phases]
      BY <1>0, <1>5 DEF TypeOK, Phases, NextAnswer
    <2>2. queue' \in [Streams -> Seq(Record)]
      BY <1>0, <1>3, <1>4 DEF TypeOK
    <2>3. sent' \in [Streams -> [Groups -> 0..MaxCursor]]
      <3>1. r.cursor \in 0..MaxCursor /\ sent[s] \in [Groups -> 0..MaxCursor]
        BY <1>0, <1>4 DEF TypeOK
      <3>2. [sent[s] EXCEPT ![r.group] = r.cursor] \in [Groups -> 0..MaxCursor]
        BY <3>1
      <3> QED BY <3>2, <1>0, <1>4 DEF TypeOK
    <2> QED BY <2>1, <2>2, <2>3, <1>0 DEF WriteResolves, TypeOK
  <1>7. phase'[s] \in {"handed", "exhausted", "waiting"} /\ \A t \in Streams : Serving(t)' <=> Serving(t)
    BY <1>0, <1>1, <1>5 DEF TypeOK, NextAnswer, Serving
  <1>8. /\ sent'[s][r.group] = r.cursor /\ queue'[s] = Tail(queue[s])
        /\ \A g \in Groups : g # r.group => sent'[s][g] = sent[s][g]
        /\ \A t \in Streams : t # s => queue'[t] = queue[t] /\ sent'[t] = sent[t]
    BY <1>0, <1>4 DEF TypeOK
  <1>9. QueuedInRange(s)'
    <2> SUFFICES ASSUME NEW i \in 1..Len(Tail(queue[s]))
                 PROVE  LET q == Tail(queue[s])[i] IN
                          /\ q.group \in groupIds[s]
                          /\ sent'[s][q.group] < q.cursor
                          /\ q.cursor <= cursorsByGroup[s][q.group]
      BY <1>8 DEF QueuedInRange, WriteResolves
    <2> DEFINE q == queue[s][i+1]
    <2>1. q = Tail(queue[s])[i] /\ i + 1 \in 1..Len(queue[s]) /\ 1 \in 1..Len(queue[s]) /\ 1 < i + 1
      BY <1>2, <1>3
    <2>2. q.group \in groupIds[s] /\ sent[s][q.group] < q.cursor /\ q.cursor <= cursorsByGroup[s][q.group]
      BY <2>1, <1>0, <1>1 DEF GapFree, QueuedInRange
    <2>3. q.group = r.group => r.cursor < q.cursor
      BY <2>1, <1>0, <1>1, <1>2 DEF GapFree, QueuedInOrder
    <2>4. q.group \in Groups
      BY <2>1, <1>3 DEF Record
    <2> QED BY <2>1, <2>2, <2>3, <2>4, <1>8
  <1>10. QueuedInOrder(s)'
    <2> SUFFICES ASSUME NEW i \in 1..Len(Tail(queue[s])), NEW j \in 1..Len(Tail(queue[s])),
                        i < j, Tail(queue[s])[i].group = Tail(queue[s])[j].group
                 PROVE  Tail(queue[s])[i].cursor < Tail(queue[s])[j].cursor
      BY <1>8 DEF QueuedInOrder
    <2>1. i + 1 < j + 1
      BY <1>3
    <2> QED BY <2>1, <1>0, <1>1, <1>3 DEF GapFree, QueuedInOrder
  <1>11. QueuedComplete(s)'
    <2> SUFFICES ASSUME NEW g \in groupIds[s], NEW c \in 1..MaxCursor,
                        sent'[s][g] < c, c <= cursorsByGroup[s][g]
                 PROVE  \E i \in 1..Len(Tail(queue[s])) :
                           Tail(queue[s])[i] = [group |-> g, cursor |-> c]
      BY <1>8 DEF QueuedComplete, Queues, WriteResolves
    <2>1. g \in Groups /\ sent[s][g] \in Nat
      BY <1>0 DEF TypeOK
    <2>2. sent[s][g] < c
      <3>1. CASE g = r.group
        BY <3>1, <2>1, <1>2, <1>8
      <3>2. CASE g # r.group
        BY <3>2, <2>1, <1>8
      <3> QED BY <3>1, <3>2
    <2>3. QueuedComplete(s) /\ c <= cursorsByGroup[s][g]
      BY <1>0, <1>1, <1>8 DEF GapFree, WriteResolves
    <2>4. PICK i \in 1..Len(queue[s]) : queue[s][i] = [group |-> g, cursor |-> c]
      BY <2>2, <2>3 DEF QueuedComplete, Queues
    <2>5. i # 1
      BY <2>4, <1>2, <1>8
    <2>6. i - 1 \in 1..Len(Tail(queue[s])) /\ Tail(queue[s])[i - 1] = queue[s][i]
      BY <2>5, <1>2, <1>3
    <2> QED BY <2>4, <2>6
  <1>12. GapFree'
    <2> SUFFICES ASSUME NEW t \in Streams, t # s, Serving(t)
                 PROVE  (QueuedInRange(t) /\ QueuedInOrder(t) /\ QueuedComplete(t))'
      BY <1>7, <1>9, <1>10, <1>11 DEF GapFree
    <2>1. QueuedInRange(t) /\ QueuedInOrder(t) /\ QueuedComplete(t)
      BY <1>0 DEF GapFree
    <2>2. /\ queue'[t] = queue[t] /\ sent'[t] = sent[t]
          /\ groupIds' = groupIds /\ cursorsByGroup' = cursorsByGroup
      BY <1>8 DEF WriteResolves
    <2>3. QueuedInRange(t)'
      BY <2>1, <2>2 DEF QueuedInRange
    <2>4. QueuedInOrder(t)'
      BY <2>1, <2>2 DEF QueuedInOrder
    <2>5. QueuedComplete(t)'
      BY <2>1, <2>2 DEF QueuedComplete, Queues
    <2> QED BY <2>3, <2>4, <2>5
  <1>13. JoinedIffLive' /\ RefcountsExact'
    BY <1>0, <1>7 DEF WriteResolves, JoinedIffLive, RefcountsExact
  <1>14. Lifecycle'
    <2>1. /\ closed' = closed /\ writerActive' = writerActive
          /\ \A t \in Streams : t # s => phase'[t] = phase[t] /\ queue'[t] = queue[t]
      BY <1>0, <1>5, <1>8 DEF WriteResolves, TypeOK
    <2>2. phase'[s] = NextAnswer(queue'[s], closed[s])
      BY <1>0, <1>5, <1>8 DEF TypeOK
    <2>3. /\ phase'[s] \in Holding => queue'[s] # <<>>
          /\ phase'[s] \in {"waiting", "exhausted"} => queue'[s] = <<>>
          /\ phase'[s] = "exhausted" => closed[s]
          /\ phase'[s] = "waiting" => ~closed[s]
      BY <2>2 DEF NextAnswer, Holding
    <2> QED BY <2>1, <2>3, <1>0, <1>7 DEF Lifecycle
  <1>15. CursorsCurrent'
    <2>1. \A i \in 1..Len(queue'[s]) :
             queue'[s][i].cursor <= lastMessageCursor[queue'[s][i].group]
      BY <1>0, <1>1, <1>3, <1>8 DEF CursorsCurrent
    <2>2. r.cursor <= cursorsByGroup[s][r.group]
      BY <1>0, <1>1, <1>2 DEF GapFree, QueuedInRange
    <2>3. \A g \in groupIds[s] : sent'[s][g] <= cursorsByGroup[s][g]
      BY <2>2, <1>0, <1>1, <1>8 DEF CursorsCurrent, TypeOK
    <2> QED BY <2>1, <2>3, <1>0, <1>7, <1>8 DEF CursorsCurrent, WriteResolves
  <1> QED BY <1>6, <1>12, <1>13, <1>14, <1>15 DEF DeliveryInv

\* Every way a stream can end goes through Unsubscribe with its writer dead.
LEMMA LeavingPreserves ==
  ASSUME DeliveryInv, NEW s \in Streams, NEW p \in Phases,
         Unsubscribe(s),
         writerActive' = [writerActive EXCEPT ![s] = FALSE],
         phase' = [phase EXCEPT ![s] = p],
         UNCHANGED <<lastMessageCursor, groupIds, cursorsByGroup, queue, sent>>,
         p \notin {"idle", "done"} => Serving(s),
         p \in Holding => queue[s] # <<>>,
         p = "exhausted" => queue[s] = <<>>,
         p # "waiting"
  PROVE  DeliveryInv'
  <1>0. TypeOK /\ GapFree /\ JoinedIffLive /\ RefcountsExact /\ Lifecycle /\ CursorsCurrent
    BY DEF DeliveryInv
  <1>1. /\ closed' \in [Streams -> BOOLEAN]
        /\ closed' = [closed EXCEPT ![s] = TRUE]
        /\ groupSubscribers' \in [Groups -> SUBSET Streams]
        /\ \A g \in Groups : groupSubscribers'[g] = groupSubscribers[g] \ {s}
        /\ subscriberRefcounts' \in [Streams -> Nat]
        /\ RefcountsExact'
    BY UnsubscribeLeaves
  <1>2. /\ closed'[s] /\ ~writerActive'[s] /\ phase'[s] = p
        /\ \A t \in Streams : t # s => /\ phase'[t] = phase[t]
                                       /\ writerActive'[t] = writerActive[t]
                                       /\ closed'[t] = closed[t]
    BY <1>0, <1>1 DEF TypeOK
  <1>3. \A t \in Streams : Serving(t)' => Serving(t)
    BY <1>2 DEF Serving
  <1>4. \A t \in Streams : t # s => (Serving(t)' <=> Serving(t))
    BY <1>2 DEF Serving
  <1>5. TypeOK'
    BY <1>0, <1>1 DEF TypeOK
  <1>6. GapFree'
    BY <1>0, <1>3 DEF GapFree, QueuedInRange, QueuedInOrder, QueuedComplete, Queues
  <1>7. JoinedIffLive'
    BY <1>0, <1>1, <1>2, <1>4 DEF JoinedIffLive
  <1>8. Lifecycle'
    <2>1. \A t \in Streams : t # s =>
             /\ phase'[t] \in Holding => queue'[t] # <<>>
             /\ phase'[t] \in {"waiting", "exhausted"} => queue'[t] = <<>>
             /\ phase'[t] = "exhausted" => closed'[t]
             /\ phase'[t] = "waiting" => ~closed'[t]
             /\ Serving(t)' => (writerActive'[t] <=> ~closed'[t])
             /\ writerActive'[t] => Serving(t)'
      BY <1>0, <1>2, <1>4 DEF Lifecycle
    <2> QED BY <2>1, <1>2 DEF Lifecycle
  <1>9. CursorsCurrent'
    BY <1>0, <1>2, <1>3 DEF CursorsCurrent
  <1> QED BY <1>1, <1>5, <1>6, <1>7, <1>8, <1>9 DEF DeliveryInv

LEMMA RecordArrivesPreserves ==
  ASSUME DeliveryInv, NEW s \in Streams, RecordArrives(s)
  PROVE  DeliveryInv'
  <1> USE DEF storageVars, registryVars
  <1>0. TypeOK /\ GapFree /\ JoinedIffLive /\ RefcountsExact /\ Lifecycle /\ CursorsCurrent
    BY DEF DeliveryInv
  <1>1. CASE writerActive[s]
    <2>1. /\ phase[s] = "handed" /\ phase' = [phase EXCEPT ![s] = "writing"]
          /\ UNCHANGED <<lastMessageCursor, groupSubscribers, subscriberRefcounts, groupIds,
                         cursorsByGroup, queue, closed, writerActive, sent>>
      BY <1>1 DEF RecordArrives
    <2>2. TypeOK'
      BY <1>0, <2>1 DEF TypeOK, Phases
    <2>3. \A t \in Streams : Serving(t)' <=> Serving(t)
      BY <1>0, <2>1 DEF TypeOK, Serving
    <2>4. GapFree' /\ JoinedIffLive' /\ RefcountsExact' /\ CursorsCurrent'
      BY <1>0, <2>1, <2>3 DEF GapFree, QueuedInRange, QueuedInOrder, QueuedComplete, Queues,
                              JoinedIffLive, RefcountsExact, CursorsCurrent
    <2>5. Lifecycle'
      BY <1>0, <2>1, <2>3 DEF Lifecycle, TypeOK, Holding
    <2> QED BY <2>2, <2>4, <2>5 DEF DeliveryInv
  <1>2. CASE ~writerActive[s]
    <2>1. writerActive' = [writerActive EXCEPT ![s] = FALSE]
      BY <1>0, <1>2 DEF RecordArrives, TypeOK
    <2>2. "done" \in Phases /\ "done" \notin Holding
      BY DEF Phases, Holding
    <2> QED BY <1>2, <2>1, <2>2, LeavingPreserves DEF RecordArrives
  <1> QED BY <1>1, <1>2

LEMMA EndingPreserves ==
  ASSUME DeliveryInv, NEW s \in Streams,
         AwaitRejects(s) \/ IterationEnds(s) \/ StreamTerminates(s)
  PROVE  DeliveryInv'
  <1> USE DEF storageVars, registryVars
  <1>1. CASE AwaitRejects(s) \/ IterationEnds(s)
    <2>1. "done" \in Phases /\ "done" \notin Holding
      BY DEF Phases, Holding
    <2> QED BY <1>1, <2>1, LeavingPreserves DEF AwaitRejects, IterationEnds
  <1>2. CASE StreamTerminates(s)
    <2> DEFINE p == Ended(phase[s])
    <2>1. phase' = [phase EXCEPT ![s] = p]
      BY <1>2 DEF StreamTerminates
    <2>2. phase[s] \in Phases /\ Serving(s)
      BY <1>2 DEF DeliveryInv, TypeOK, StreamTerminates
    <2>3. p \in Phases /\ p # "waiting"
      BY <2>2 DEF Phases, Ended
    <2>4. p \in Holding => queue[s] # <<>>
      BY <2>2 DEF Ended, Holding, DeliveryInv, Lifecycle
    <2>5. p = "exhausted" => queue[s] = <<>>
      BY <2>2 DEF Ended, DeliveryInv, Lifecycle
    <2> HIDE DEF p
    <2> QED BY <1>2, <2>1, <2>2, <2>3, <2>4, <2>5, LeavingPreserves DEF StreamTerminates
  <1> QED BY <1>1, <1>2

LEMMA AppendFacts ==
  ASSUME NEW S, NEW q \in Seq(S), NEW r \in S
  PROVE  /\ Append(q, r) \in Seq(S)
         /\ Len(q) \in Nat /\ Len(Append(q, r)) = Len(q) + 1
         /\ \A i \in 1..Len(q) : Append(q, r)[i] = q[i] /\ q[i] \in S
         /\ Append(q, r)[Len(q) + 1] = r
  OBVIOUS

LEMMA PostPreserves ==
  ASSUME DeliveryInv, NEW g \in Groups, PostGroupMessage(g)
  PROVE  DeliveryInv'
  <1> DEFINE r == [group |-> g, cursor |-> lastMessageCursor[g] + 1]
  <1> DEFINE T == Takers(groupSubscribers[g], r)
  <1> DEFINE P == {s \in T : ~closed[s]}
  <1> USE DEF storageVars, registryVars
  <1>0. TypeOK /\ GapFree /\ JoinedIffLive /\ RefcountsExact /\ Lifecycle /\ CursorsCurrent
    BY DEF DeliveryInv
  <1>1. /\ lastMessageCursor[g] < MaxCursor
        /\ lastMessageCursor' = [lastMessageCursor EXCEPT ![g] = r.cursor]
        /\ cursorsByGroup' = [s \in Streams |->
              IF s \in T THEN [cursorsByGroup[s] EXCEPT ![g] = r.cursor] ELSE cursorsByGroup[s]]
        /\ queue' = [s \in Streams |-> IF s \in P THEN Append(queue[s], r) ELSE queue[s]]
        /\ phase' = [s \in Streams |-> IF s \in P THEN Woken(phase[s]) ELSE phase[s]]
        /\ UNCHANGED <<groupSubscribers, subscriberRefcounts, groupIds, closed, writerActive, sent>>
    BY DEF PostGroupMessage
  <1>2. /\ lastMessageCursor[g] \in Nat /\ MaxCursor \in Nat
        /\ r.cursor = lastMessageCursor[g] + 1 /\ r.group = g
        /\ r.cursor \in 1..MaxCursor /\ r \in Record
    BY <1>0, <1>1, DeliveryAssumption DEF TypeOK, Record
  \* A taker is a live stream, open, and its cursor for g is the last one posted.
  <1>3. ASSUME NEW s \in T
        PROVE  /\ s \in Streams /\ Serving(s) /\ writerActive[s] /\ ~closed[s]
               /\ g \in groupIds[s]
               /\ cursorsByGroup[s][g] = lastMessageCursor[g]
    <2>1. s \in Streams /\ s \in groupSubscribers[g] /\ cursorsByGroup[s][g] < r.cursor
      BY <1>0 DEF TypeOK, Takers
    <2>2. Serving(s) /\ writerActive[s] /\ ~closed[s] /\ g \in groupIds[s]
      BY <2>1, <1>0 DEF JoinedIffLive, Lifecycle
    <2>3. lastMessageCursor[g] <= cursorsByGroup[s][g]
      BY <2>1, <2>2, <1>0 DEF CursorsCurrent
    <2>4. cursorsByGroup[s][g] \in Nat
      BY <2>1, <1>0 DEF TypeOK
    <2> QED BY <2>1, <2>2, <2>3, <2>4, <1>2
  \* A live stream of g that does not take the record asked from beyond it.
  <1>4. ASSUME NEW s \in Streams, s \notin T, Serving(s), writerActive[s], g \in groupIds[s]
        PROVE  r.cursor <= cursorsByGroup[s][g]
    <2>1. ~(cursorsByGroup[s][g] < r.cursor)
      BY <1>0, <1>4 DEF JoinedIffLive, Takers
    <2>2. cursorsByGroup[s][g] \in Nat
      BY <1>0 DEF TypeOK
    <2> QED BY <2>1, <2>2, <1>2
  <1>5. P = T
    BY <1>3
  <1>5a. r = [group |-> g, cursor |-> r.cursor]
    OBVIOUS
  <1> HIDE DEF T, P, r
  <1>6. ASSUME NEW s \in T
        PROVE  /\ queue[s] \in Seq(Record) /\ queue'[s] = Append(queue[s], r)
               /\ queue'[s] \in Seq(Record)
               /\ Len(queue[s]) \in Nat /\ Len(queue'[s]) = Len(queue[s]) + 1
               /\ \A i \in 1..Len(queue[s]) : queue'[s][i] = queue[s][i] /\ queue[s][i] \in Record
               /\ queue'[s][Len(queue[s]) + 1] = r
               /\ cursorsByGroup'[s] = [cursorsByGroup[s] EXCEPT ![g] = r.cursor]
               /\ phase'[s] = Woken(phase[s])
    <2>1. s \in Streams /\ queue[s] \in Seq(Record)
      BY <1>0, <1>3 DEF TypeOK
    <2>2. queue'[s] = Append(queue[s], r) /\ phase'[s] = Woken(phase[s])
          /\ cursorsByGroup'[s] = [cursorsByGroup[s] EXCEPT ![g] = r.cursor]
      BY <2>1, <1>1, <1>5
    <2> QED BY <2>1, <2>2, <1>2, AppendFacts
  <1>7. ASSUME NEW s \in Streams, s \notin T
        PROVE  queue'[s] = queue[s] /\ cursorsByGroup'[s] = cursorsByGroup[s] /\ phase'[s] = phase[s]
    BY <1>1, <1>5, <1>7
  <1>8. TypeOK'
    <2>1. lastMessageCursor' \in [Groups -> 0..MaxCursor]
      BY <1>0, <1>1, <1>2 DEF TypeOK
    <2>2. cursorsByGroup' \in [Streams -> [Groups -> 0..MaxCursor]]
      BY <1>0, <1>1, <1>2 DEF TypeOK
    <2>3. queue' \in [Streams -> Seq(Record)]
      BY <1>0, <1>1, <1>5, <1>6, <1>7 DEF TypeOK
    <2>4. phase' \in [Streams -> Phases]
      BY <1>0, <1>1 DEF TypeOK, Phases, Woken
    <2> QED BY <2>1, <2>2, <2>3, <2>4, <1>0, <1>1 DEF TypeOK
  <1>9. \A s \in Streams : Serving(s)' <=> Serving(s)
    <2> SUFFICES ASSUME NEW s \in Streams PROVE Serving(s)' <=> Serving(s)
      OBVIOUS
    <2>1. CASE s \in T
      BY <2>1, <1>6 DEF Serving, Woken
    <2>2. CASE s \notin T
      BY <2>2, <1>7 DEF Serving
    <2> QED BY <2>1, <2>2
  <1>10. GapFree'
    <2> SUFFICES ASSUME NEW s \in Streams, Serving(s)
                 PROVE  (QueuedInRange(s) /\ QueuedInOrder(s) /\ QueuedComplete(s))'
      BY <1>9 DEF GapFree
    <2>0. QueuedInRange(s) /\ QueuedInOrder(s) /\ QueuedComplete(s)
      BY <1>0 DEF GapFree
    <2>1. CASE s \notin T
      <3>1. /\ queue'[s] = queue[s] /\ cursorsByGroup'[s] = cursorsByGroup[s]
            /\ sent' = sent /\ groupIds' = groupIds
        BY <2>1, <1>1, <1>7
      <3>2. QueuedInRange(s)'
        BY <3>1, <2>0 DEF QueuedInRange
      <3>3. QueuedInOrder(s)'
        BY <3>1, <2>0 DEF QueuedInOrder
      <3>4. QueuedComplete(s)'
        BY <3>1, <2>0 DEF QueuedComplete, Queues
      <3> QED BY <3>2, <3>3, <3>4
    <2>2. CASE s \in T
      <3> DEFINE n == Len(queue[s])
      <3>0. /\ n \in Nat /\ Len(queue'[s]) = n + 1
            /\ \A i \in 1..n : queue'[s][i] = queue[s][i] /\ queue[s][i] \in Record
            /\ queue'[s][n + 1] = r
        BY <2>2, <1>6
      <3> HIDE DEF n
      <3>1. /\ cursorsByGroup[s][g] = lastMessageCursor[g] /\ g \in groupIds[s]
            /\ cursorsByGroup'[s][g] = r.cursor
            /\ \A h \in Groups : h # g => cursorsByGroup'[s][h] = cursorsByGroup[s][h]
            /\ \A h \in Groups : cursorsByGroup[s][h] \in Nat /\ sent[s][h] \in Nat
            /\ sent' = sent /\ groupIds' = groupIds
        BY <2>2, <1>0, <1>1, <1>3, <1>6 DEF TypeOK
      <3>2. \A i \in 1..n : /\ queue[s][i].group \in groupIds[s] /\ queue[s][i].group \in Groups
                            /\ queue[s][i].cursor \in Nat
                            /\ sent[s][queue[s][i].group] < queue[s][i].cursor
                            /\ queue[s][i].cursor <= cursorsByGroup[s][queue[s][i].group]
        BY <2>0, <3>0 DEF QueuedInRange, Record, n
      <3>3. sent[s][g] < r.cursor
        BY <3>1, <1>0, <1>2, <1>3, <2>2 DEF CursorsCurrent
      <3>4. QueuedInRange(s)'
        <4> SUFFICES ASSUME NEW i \in 1..(n + 1)
                     PROVE  /\ queue'[s][i].group \in groupIds[s]
                            /\ sent[s][queue'[s][i].group] < queue'[s][i].cursor
                            /\ queue'[s][i].cursor <= cursorsByGroup'[s][queue'[s][i].group]
          BY <3>1, <3>0 DEF QueuedInRange
        <4>1. CASE i = n + 1
          BY <4>1, <3>0, <3>1, <3>3, <1>2
        <4>2. CASE i \in 1..n
          <5>1. /\ queue'[s][i] = queue[s][i] /\ queue[s][i].group \in groupIds[s]
                /\ queue[s][i].group \in Groups /\ queue[s][i].cursor \in Nat
                /\ sent[s][queue[s][i].group] < queue[s][i].cursor
                /\ queue[s][i].cursor <= cursorsByGroup[s][queue[s][i].group]
            BY <4>2, <3>0, <3>2
          <5>2. CASE queue[s][i].group = g
            BY <5>1, <5>2, <3>1, <1>2
          <5>3. CASE queue[s][i].group # g
            BY <5>1, <5>3, <3>1
          <5> QED BY <5>2, <5>3
        <4> QED BY <4>1, <4>2, <3>0
      <3>5. QueuedInOrder(s)'
        <4> SUFFICES ASSUME NEW i \in 1..(n + 1), NEW j \in 1..(n + 1), i < j,
                            queue'[s][i].group = queue'[s][j].group
                     PROVE  queue'[s][i].cursor < queue'[s][j].cursor
          BY <3>0 DEF QueuedInOrder
        <4>1. i \in 1..n /\ queue'[s][i] = queue[s][i]
          BY <3>0
        <4>2. CASE j = n + 1
          BY <4>1, <4>2, <3>0, <3>1, <3>2, <1>2
        <4>3. CASE j \in 1..n
          BY <4>1, <4>3, <2>0, <3>0 DEF QueuedInOrder, n
        <4> QED BY <4>2, <4>3, <3>0
      <3>6. QueuedComplete(s)'
        <4> SUFFICES ASSUME NEW h \in groupIds[s], NEW c \in 1..MaxCursor,
                            sent[s][h] < c, c <= cursorsByGroup'[s][h]
                     PROVE  \E i \in 1..(n + 1) : queue'[s][i] = [group |-> h, cursor |-> c]
          BY <3>0, <3>1 DEF QueuedComplete, Queues
        <4>0. h \in Groups
          BY <1>0, <2>2, <1>3 DEF TypeOK
        <4>1. CASE h = g /\ c = r.cursor
          <5>1. queue'[s][n + 1] = [group |-> h, cursor |-> c] /\ n + 1 \in 1..(n + 1)
            BY <4>1, <3>0, <1>5a
          <5> QED BY <5>1
        <4>2. CASE ~(h = g /\ c = r.cursor)
          <5>1. c <= cursorsByGroup[s][h]
            BY <4>0, <4>2, <3>1, <1>2
          <5>2. PICK i \in 1..n : queue[s][i] = [group |-> h, cursor |-> c]
            BY <5>1, <2>0 DEF QueuedComplete, Queues, n
          <5> QED BY <5>2, <3>0
        <4> QED BY <4>1, <4>2
      <3> QED BY <3>4, <3>5, <3>6
    <2> QED BY <2>1, <2>2
  <1>11. JoinedIffLive' /\ RefcountsExact'
    BY <1>0, <1>1, <1>9 DEF JoinedIffLive, RefcountsExact
  <1>12. Lifecycle'
    <2> SUFFICES ASSUME NEW s \in Streams
                 PROVE  /\ phase'[s] \in Holding => queue'[s] # <<>>
                        /\ phase'[s] \in {"waiting", "exhausted"} => queue'[s] = <<>>
                        /\ phase'[s] = "exhausted" => closed[s]
                        /\ phase'[s] = "waiting" => ~closed[s]
                        /\ Serving(s) => (writerActive[s] <=> ~closed[s])
                        /\ writerActive[s] => Serving(s)
      BY <1>1, <1>9 DEF Lifecycle
    <2>1. CASE s \notin T
      BY <2>1, <1>0, <1>7 DEF Lifecycle
    <2>2. CASE s \in T
      <3>1. queue'[s] # <<>>
        <4>1. Len(queue[s]) \in Nat /\ Len(queue'[s]) = Len(queue[s]) + 1
          BY <2>2, <1>6
        <4>2. Len(queue'[s]) # 0
          BY <4>1
        <4> QED BY <4>2, EmptySeq
      <3>2. phase'[s] \notin {"waiting", "exhausted"}
        BY <2>2, <1>0, <1>3, <1>6 DEF Woken, Lifecycle
      <3> QED BY <3>1, <3>2, <2>2, <1>0, <1>3 DEF Lifecycle
    <2> QED BY <2>1, <2>2
  <1>13. CursorsCurrent'
    <2> SUFFICES ASSUME NEW s \in Streams, Serving(s)
                 PROVE  /\ \A h \in groupIds[s] : sent[s][h] <= cursorsByGroup'[s][h]
                        /\ \A i \in 1..Len(queue'[s]) :
                              queue'[s][i].cursor <= lastMessageCursor'[queue'[s][i].group]
                        /\ writerActive[s] => \A h \in groupIds[s] :
                              lastMessageCursor'[h] <= cursorsByGroup'[s][h]
      BY <1>1, <1>9 DEF CursorsCurrent
    <2>0. /\ \A h \in Groups : /\ lastMessageCursor[h] \in Nat
                               /\ lastMessageCursor[h] <= lastMessageCursor'[h]
                               /\ h # g => lastMessageCursor'[h] = lastMessageCursor[h]
                               /\ sent[s][h] \in Nat /\ cursorsByGroup[s][h] \in Nat
          /\ lastMessageCursor'[g] = r.cursor
          /\ groupIds[s] \subseteq Groups
      BY <1>0, <1>1, <1>2 DEF TypeOK
    <2>1. /\ \A h \in groupIds[s] : sent[s][h] <= cursorsByGroup[s][h]
          /\ \A i \in 1..Len(queue[s]) : /\ queue[s][i] \in Record
                                         /\ queue[s][i].cursor <= lastMessageCursor[queue[s][i].group]
          /\ writerActive[s] => \A h \in groupIds[s] : lastMessageCursor[h] <= cursorsByGroup[s][h]
      BY <1>0 DEF CursorsCurrent, TypeOK
    <2>2. \A i \in 1..Len(queue[s]) : queue[s][i].cursor <= lastMessageCursor'[queue[s][i].group]
      BY <2>0, <2>1, <1>2 DEF Record
    <2>3. CASE s \notin T
      BY <2>0, <2>1, <2>2, <2>3, <1>2, <1>4, <1>7
    <2>4. CASE s \in T
      <3>1. \A h \in Groups : cursorsByGroup'[s][h] = IF h = g THEN r.cursor ELSE cursorsByGroup[s][h]
        <4>1. cursorsByGroup[s] \in [Groups -> 0..MaxCursor]
          BY <1>0 DEF TypeOK
        <4>2. cursorsByGroup'[s] = [cursorsByGroup[s] EXCEPT ![g] = r.cursor]
          BY <2>4, <1>6
        <4> QED BY <4>1, <4>2
      <3>2. \A i \in 1..Len(queue'[s]) : queue'[s][i].cursor <= lastMessageCursor'[queue'[s][i].group]
        <4> DEFINE n == Len(queue[s])
        <4>1. /\ n \in Nat /\ Len(queue'[s]) = n + 1
              /\ \A i \in 1..n : queue'[s][i] = queue[s][i]
              /\ queue'[s][n + 1] = r
          BY <2>4, <1>6
        <4> HIDE DEF n
        <4>2. ASSUME NEW i \in 1..(n + 1)
              PROVE  queue'[s][i].cursor <= lastMessageCursor'[queue'[s][i].group]
          <5>1. CASE i = n + 1
            BY <5>1, <4>1, <2>0, <1>2
          <5>2. CASE i \in 1..n
            BY <5>2, <4>1, <2>2 DEF n
          <5> QED BY <5>1, <5>2, <4>1
        <4> QED BY <4>1, <4>2
      <3>3. cursorsByGroup[s][g] = lastMessageCursor[g]
        BY <2>4, <1>3
      <3> QED BY <3>1, <3>2, <3>3, <2>0, <2>1, <1>2
    <2> QED BY <2>3, <2>4
  <1> QED BY <1>8, <1>10, <1>11, <1>12, <1>13 DEF DeliveryInv

\* A backlog is a finite sequence of exactly the records due, so the queue a
\* subscription starts with is one.
LEMMA DueFinite ==
  ASSUME NEW asked \in SUBSET Groups, NEW after \in [asked -> 0..MaxCursor]
  PROVE  IsFiniteSet(Due(asked, after)) /\ Cardinality(Due(asked, after)) \in Nat
  <1> DEFINE D == Due(asked, after)
  <1> DEFINE pair == [r \in D |-> <<r.group, r.cursor>>]
  <1>1. IsFiniteSet(Groups \X (1..MaxCursor))
    <2>1. 1 \in Int /\ MaxCursor \in Int
      BY DeliveryAssumption
    <2>2. IsFiniteSet(1..MaxCursor)
      BY <2>1, FS_Interval
    <2> QED BY <2>2, DeliveryAssumption, FS_Product
  <1>2. \A r \in D : r \in [group : asked, cursor : 1..MaxCursor]
    BY DEF Due
  <1>3. pair \in [D -> Groups \X (1..MaxCursor)]
    BY <1>2
  <1>4. \A a, b \in D : pair[a] = pair[b] => a = b
    BY <1>2
  <1>5. pair \in Injection(D, Groups \X (1..MaxCursor))
    BY <1>3, <1>4 DEF Injection, IsInjective
  <1> QED BY <1>1, <1>5, FS_Injection, FS_CardinalityType

LEMMA BacklogFacts ==
  ASSUME NEW asked \in SUBSET Groups, NEW after \in [asked -> 0..MaxCursor],
         NEW q \in Backlogs(Due(asked, after))
  PROVE  /\ q \in Seq(Record)
         /\ \A i \in 1..Len(q) : q[i] \in Due(asked, after)
         /\ \A r \in Due(asked, after) : \E i \in 1..Len(q) : q[i] = r
         /\ \A i, j \in 1..Len(q) : (i < j /\ q[i].group = q[j].group) => q[i].cursor < q[j].cursor
  <1> DEFINE D == Due(asked, after)
  <1>1. Cardinality(D) \in Nat
    BY DueFinite
  <1>2. q \in [1..Cardinality(D) -> D]
    BY DEF Backlogs
  <1>3. q \in Seq(D) /\ Len(q) = Cardinality(D) /\ DOMAIN q = 1..Len(q)
    BY <1>1, <1>2
  <1>4. D \subseteq Record
    BY DEF Due, Record
  <1> QED BY <1>2, <1>3, <1>4, SeqMonotonic DEF Backlogs

\* The queue a subscription starts with holds, for every group, the run of
\* cursors from the one asked for to the newest posted.
LEMMA SubscribePreserves ==
  ASSUME DeliveryInv, NEW s \in Streams, NEW asked \in SUBSET Groups,
         NEW after \in [asked -> 0..MaxCursor],
         SubscribeManyGroupMessages(s, asked, after)
  PROVE  DeliveryInv'
  <1> DEFINE D == Due(asked, after)
  <1> USE DEF storageVars
  <1>0. TypeOK /\ GapFree /\ JoinedIffLive /\ RefcountsExact /\ Lifecycle /\ CursorsCurrent
    BY DEF DeliveryInv
  <1>1. PICK q \in Backlogs(D) : queue' = [queue EXCEPT ![s] = q]
    BY DEF SubscribeManyGroupMessages
  <1>2. /\ q \in Seq(Record)
        /\ \A i \in 1..Len(q) : q[i] \in D
        /\ \A r \in D : \E i \in 1..Len(q) : q[i] = r
        /\ \A i, j \in 1..Len(q) : (i < j /\ q[i].group = q[j].group) => q[i].cursor < q[j].cursor
    BY BacklogFacts
  <1>3. /\ queue'[s] = q /\ phase'[s] = "starting" /\ ~closed'[s] /\ writerActive'[s]
        /\ groupIds'[s] = asked /\ sent'[s] = From(asked, after)
        /\ Serving(s)' /\ ~Serving(s)
        /\ \A t \in Streams : t # s =>
              /\ queue'[t] = queue[t] /\ phase'[t] = phase[t] /\ closed'[t] = closed[t]
              /\ writerActive'[t] = writerActive[t] /\ groupIds'[t] = groupIds[t]
              /\ sent'[t] = sent[t] /\ cursorsByGroup'[t] = cursorsByGroup[t]
              /\ Serving(t)' <=> Serving(t)
        /\ lastMessageCursor' = lastMessageCursor
    BY <1>0, <1>1 DEF SubscribeManyGroupMessages, TypeOK, Serving
  <1>4. /\ From(asked, after) \in [Groups -> 0..MaxCursor]
        /\ \A g \in asked : From(asked, after)[g] = after[g]
        /\ MaxCursor \in Nat
        /\ \A g \in Groups : lastMessageCursor[g] \in 0..MaxCursor
    BY <1>0, DeliveryAssumption DEF From, TypeOK
  <1>5. /\ cursorsByGroup'[s] \in [Groups -> 0..MaxCursor]
        /\ \A g \in asked : cursorsByGroup'[s][g]
              = IF after[g] < lastMessageCursor[g] THEN lastMessageCursor[g] ELSE after[g]
    <2> DEFINE c == [g \in Groups |-> IF g \in asked /\ after[g] < lastMessageCursor[g]
                                      THEN lastMessageCursor[g] ELSE From(asked, after)[g]]
    <2>1. cursorsByGroup'[s] = c
      BY <1>0 DEF SubscribeManyGroupMessages, TypeOK
    <2> QED BY <2>1, <1>4
  <1>6. TypeOK'
    <2>1. cursorsByGroup' \in [Streams -> [Groups -> 0..MaxCursor]]
      BY <1>0, <1>5 DEF SubscribeManyGroupMessages, TypeOK
    <2>2. queue' \in [Streams -> Seq(Record)] /\ sent' \in [Streams -> [Groups -> 0..MaxCursor]]
      BY <1>0, <1>1, <1>2, <1>4 DEF SubscribeManyGroupMessages, TypeOK
    <2>3. Cardinality(asked) \in Nat
      BY DeliveryAssumption, FS_Subset, FS_CardinalityType
    <2>4. /\ subscriberRefcounts' \in [Streams -> Nat]
          /\ groupSubscribers' \in [Groups -> SUBSET Streams]
          /\ groupIds' \in [Streams -> SUBSET Groups]
          /\ closed' \in [Streams -> BOOLEAN] /\ writerActive' \in [Streams -> BOOLEAN]
          /\ phase' \in [Streams -> Phases]
          /\ lastMessageCursor' \in [Groups -> 0..MaxCursor]
      BY <1>0, <2>3 DEF SubscribeManyGroupMessages, TypeOK, Phases
    <2> QED BY <2>1, <2>2, <2>4 DEF TypeOK
  <1>7. \A i \in 1..Len(q) : /\ q[i].group \in asked /\ q[i].cursor \in 1..MaxCursor
                             /\ after[q[i].group] < q[i].cursor
                             /\ q[i].cursor <= lastMessageCursor[q[i].group]
    BY <1>2 DEF Due
  <1>8. GapFree'
    <2>1. QueuedInRange(s)'
      <3> SUFFICES ASSUME NEW i \in 1..Len(q)
                   PROVE  /\ q[i].group \in asked
                          /\ From(asked, after)[q[i].group] < q[i].cursor
                          /\ q[i].cursor <= cursorsByGroup'[s][q[i].group]
        BY <1>3 DEF QueuedInRange
      <3>1. /\ q[i].group \in asked /\ q[i].group \in Groups /\ q[i].cursor \in 1..MaxCursor
            /\ after[q[i].group] < q[i].cursor
            /\ q[i].cursor <= lastMessageCursor[q[i].group]
            /\ after[q[i].group] \in Nat /\ lastMessageCursor[q[i].group] \in Nat
        BY <1>4, <1>7
      <3>2. after[q[i].group] < lastMessageCursor[q[i].group]
        BY <3>1
      <3> QED BY <3>1, <3>2, <1>4, <1>5
    <2>2. QueuedInOrder(s)'
      BY <1>2, <1>3 DEF QueuedInOrder
    <2>3. QueuedComplete(s)'
      <3> SUFFICES ASSUME NEW g \in asked, NEW c \in 1..MaxCursor,
                          From(asked, after)[g] < c, c <= cursorsByGroup'[s][g]
                   PROVE  \E i \in 1..Len(q) : q[i] = [group |-> g, cursor |-> c]
        BY <1>3 DEF QueuedComplete, Queues
      <3>1. after[g] < c /\ c <= lastMessageCursor[g]
        BY <1>4, <1>5
      <3>2. [group |-> g, cursor |-> c] \in D
        BY <3>1 DEF Due
      <3> QED BY <3>2, <1>2
    <2>4. ASSUME NEW t \in Streams, t # s, Serving(t)
          PROVE  (QueuedInRange(t) /\ QueuedInOrder(t) /\ QueuedComplete(t))'
      <3>1. QueuedInRange(t) /\ QueuedInOrder(t) /\ QueuedComplete(t)
        BY <1>0, <2>4 DEF GapFree
      <3>2. QueuedInRange(t)'
        BY <3>1, <2>4, <1>3 DEF QueuedInRange
      <3>3. QueuedInOrder(t)'
        BY <3>1, <2>4, <1>3 DEF QueuedInOrder
      <3>4. QueuedComplete(t)'
        BY <3>1, <2>4, <1>3 DEF QueuedComplete, Queues
      <3> QED BY <3>2, <3>3, <3>4
    <2> QED BY <2>1, <2>2, <2>3, <2>4, <1>3 DEF GapFree
  <1>9. \A g \in Groups, t \in Streams :
           t \in groupSubscribers'[g] <=> \/ t \in groupSubscribers[g]
                                          \/ t = s /\ g \in asked
    BY DEF SubscribeManyGroupMessages
  <1>10. \A g \in Groups : s \notin groupSubscribers[g]
    BY <1>0, <1>3 DEF JoinedIffLive
  <1>11. JoinedIffLive'
    BY <1>0, <1>3, <1>9, <1>10 DEF JoinedIffLive
  <1>12. RefcountsExact'
    <2> SUFFICES ASSUME NEW t \in Streams
                 PROVE  subscriberRefcounts'[t]
                          = Cardinality({g \in Groups : t \in groupSubscribers'[g]})
      BY DEF RefcountsExact
    <2>1. CASE t = s
      <3>1. {g \in Groups : t \in groupSubscribers'[g]} = asked
        BY <2>1, <1>9, <1>10
      <3> QED BY <3>1, <2>1, <1>0 DEF SubscribeManyGroupMessages, TypeOK
    <2>2. CASE t # s
      <3>1. {g \in Groups : t \in groupSubscribers'[g]} = {g \in Groups : t \in groupSubscribers[g]}
        BY <2>2, <1>9
      <3> QED BY <3>1, <2>2, <1>0 DEF SubscribeManyGroupMessages, TypeOK, RefcountsExact
    <2> QED BY <2>1, <2>2
  <1>13. Lifecycle'
    BY <1>0, <1>3 DEF Lifecycle, Holding
  <1>14. CursorsCurrent'
    <2>1. \A g \in asked : From(asked, after)[g] <= cursorsByGroup'[s][g]
      BY <1>4, <1>5
    <2>2. \A g \in asked : lastMessageCursor[g] <= cursorsByGroup'[s][g]
      BY <1>4, <1>5
    <2> QED BY <2>1, <2>2, <1>0, <1>3, <1>7 DEF CursorsCurrent
  <1> QED BY <1>6, <1>8, <1>11, <1>12, <1>13, <1>14 DEF DeliveryInv

LEMMA StepPreserves == DeliveryInv /\ [Next]_vars => DeliveryInv'
  <1> SUFFICES ASSUME DeliveryInv, [Next]_vars PROVE DeliveryInv'
    OBVIOUS
  <1>1. ASSUME NEW g \in Groups, PostGroupMessage(g) PROVE DeliveryInv'
    BY <1>1, PostPreserves
  <1>2. ASSUME NEW s \in Streams, NEW asked \in SUBSET Groups \ {{}},
               NEW after \in [asked -> 0..MaxCursor],
               SubscribeManyGroupMessages(s, asked, after)
        PROVE  DeliveryInv'
    BY <1>2, SubscribePreserves
  <1>3. ASSUME NEW s \in Streams, Handler(s) \/ StreamTerminates(s) PROVE DeliveryInv'
    BY <1>3, StartResolvesPreserves, RecordArrivesPreserves, WriteResolvesPreserves,
       EndingPreserves DEF Handler
  <1>4. CASE UNCHANGED vars
    BY <1>4 DEF vars, DeliveryInv, TypeOK, GapFree, QueuedInRange, QueuedInOrder,
                QueuedComplete, Queues, JoinedIffLive, RefcountsExact, Lifecycle,
                CursorsCurrent, Serving
  <1> QED BY <1>1, <1>2, <1>3, <1>4 DEF Next

\* DeliveryInv holds in every state of every behaviour, for any groups, streams
\* and bound: the cursors, queues, registrations and handler phases of
\* coordinator.ts and coordinatorMethods.ts stay consistent across every
\* interleaving of posts, subscriptions, writes and disconnects.
THEOREM DeliveryInvariant == Spec => []DeliveryInv
  <1> QED BY InitEstablishes, StepPreserves, PTL DEF Spec

\* Every variable keeps its type; in particular the reference counts of
\* removeGroupSubscriber never go below zero.
THEOREM TypeCorrect == Spec => []TypeOK
  <1>1. DeliveryInv => TypeOK
    BY DEF DeliveryInv
  <1> QED BY <1>1, DeliveryInvariant, PTL

\* A stream's queue is, for each group, the run of cursors after the last one
\* written: no gap, no duplicate, no reordering between backlog and live pushes.
THEOREM NoGaps == Spec => []GapFree
  <1>1. DeliveryInv => GapFree
    BY DEF DeliveryInv
  <1> QED BY <1>1, DeliveryInvariant, PTL

\* A live stream has every posted message it asked for written or queued.
THEOREM NothingIsMissed == Spec => []NothingMissed
  <1>1. DeliveryInv => NothingMissed
    <2> SUFFICES ASSUME DeliveryInv, NEW s \in Streams, Serving(s), writerActive[s],
                        NEW g \in groupIds[s], NEW c \in 1..MaxCursor,
                        sent[s][g] < c, c <= lastMessageCursor[g]
                 PROVE  \E i \in 1..Len(queue[s]) : queue[s][i] = [group |-> g, cursor |-> c]
      BY DEF NothingMissed, Queues
    <2>1. lastMessageCursor[g] <= cursorsByGroup[s][g]
      BY DEF DeliveryInv, CursorsCurrent
    <2>2. g \in Groups /\ lastMessageCursor[g] \in Nat /\ cursorsByGroup[s][g] \in Nat
      BY DEF DeliveryInv, TypeOK
    <2>3. c <= cursorsByGroup[s][g]
      BY <2>1, <2>2
    <2> QED BY <2>3 DEF DeliveryInv, GapFree, QueuedComplete, Queues
  <1> QED BY <1>1, DeliveryInvariant, PTL

\* A subscriber is registered exactly while its stream lives: no leak on any way
\* a stream can end.
THEOREM NoLeakedSubscriber == Spec => [](JoinedIffLive /\ RefcountsExact)
  <1>1. DeliveryInv => JoinedIffLive /\ RefcountsExact
    BY DEF DeliveryInv
  <1> QED BY <1>1, DeliveryInvariant, PTL

\* A handler never sleeps on a queue that has something for it or is closed.
THEOREM NoWakeupIsLost == Spec => []NoLostWakeup
  <1>1. DeliveryInv => NoLostWakeup
    BY DEF DeliveryInv, Lifecycle, NoLostWakeup
  <1> QED BY <1>1, DeliveryInvariant, PTL

-----------------------------------------------------------------------------
(* The delivery path implements GroupFeed.                                 *)

LEMMA FeedStep ==
  ASSUME DeliveryInv, [Next]_vars
  PROVE  [Feed!Next]_(Feed!vars)
  <1> USE DEF storageVars, registryVars
  <1> DEFINE served == [s \in Streams |-> Serving(s)]
  <1>0. TypeOK /\ Lifecycle
    BY DEF DeliveryInv
  \* A step of one stream's handler changes what is served by its phase alone.
  <1>a. ASSUME NEW s \in Streams, NEW p \in Phases, phase' = [phase EXCEPT ![s] = p]
        PROVE  /\ p = "done" => served' = [served EXCEPT ![s] = FALSE]
               /\ p = "starting" => served' = [served EXCEPT ![s] = TRUE]
               /\ Serving(s) /\ p \notin {"idle", "done"} => served' = served
    <2>1. /\ \A t \in Streams : t # s => (Serving(t)' <=> Serving(t))
          /\ Serving(s)' <=> p \notin {"idle", "done"}
      BY <1>a, <1>0 DEF TypeOK, Serving
    <2>2. ASSUME p \notin {"idle", "done"}, Serving(s) PROVE served' = served
      <3>1. \A t \in Streams : Serving(t)' = Serving(t)
        BY <2>1, <2>2 DEF Serving
      <3> QED BY <3>1
    <2>3. ASSUME p = "done" PROVE served' = [served EXCEPT ![s] = FALSE]
      <3>1. \A t \in Streams : Serving(t)' = IF t = s THEN FALSE ELSE Serving(t)
        BY <2>1, <2>3 DEF Serving
      <3> QED BY <3>1
    <2>4. ASSUME p = "starting" PROVE served' = [served EXCEPT ![s] = TRUE]
      <3>1. \A t \in Streams : Serving(t)' = IF t = s THEN TRUE ELSE Serving(t)
        BY <2>1, <2>4 DEF Serving
      <3> QED BY <3>1
    <2> QED BY <2>2, <2>3, <2>4
  <1>1. ASSUME NEW g \in Groups, PostGroupMessage(g) PROVE Feed!Append(g)
    <2>1. \A s \in Streams : Serving(s)' = Serving(s)
      BY <1>1 DEF PostGroupMessage, Serving, Woken
    <2>2. served' = served
      BY <2>1
    <2> QED BY <1>1, <2>2 DEF PostGroupMessage, Feed!Append
  <1>2. ASSUME NEW s \in Streams, NEW asked \in SUBSET Groups \ {{}},
               NEW after \in [asked -> 0..MaxCursor],
               SubscribeManyGroupMessages(s, asked, after)
        PROVE  Feed!Open(s)
    <2>1. served' = [served EXCEPT ![s] = TRUE]
      BY <1>2, <1>a DEF SubscribeManyGroupMessages, Phases
    <2>2. ~served[s] /\ writerActive' = [writerActive EXCEPT ![s] = TRUE]
          /\ groupIds' = [groupIds EXCEPT ![s] = asked]
          /\ lastMessageCursor' = lastMessageCursor
      BY <1>2 DEF SubscribeManyGroupMessages
    <2>3. From(asked, after) \in [Groups -> Nat] /\ sent' = [sent EXCEPT ![s] = From(asked, after)]
      BY <1>2, DeliveryAssumption DEF SubscribeManyGroupMessages, From
    <2>4. sent'[s] = From(asked, after)
      BY <2>3, <1>0 DEF TypeOK
    <2> QED BY <2>1, <2>2, <2>3, <2>4 DEF Feed!Open
  <1>3. ASSUME NEW s \in Streams, StartResolves(s) PROVE UNCHANGED Feed!vars
    <2> DEFINE p == NextAnswer(queue[s], closed[s])
    <2>1. p \in Phases /\ p \notin {"idle", "done"} /\ Serving(s)
      BY <1>3 DEF StartResolves, NextAnswer, Phases, Serving
    <2>2. phase' = [phase EXCEPT ![s] = p]
      BY <1>3 DEF StartResolves
    <2> HIDE DEF p
    <2>3. served' = served
      BY <2>1, <2>2, <1>a
    <2> QED BY <1>3, <2>3 DEF StartResolves, Feed!vars
  <1>4. ASSUME NEW s \in Streams, RecordArrives(s) PROVE UNCHANGED Feed!vars \/ Feed!Close(s)
    <2>0. Serving(s) /\ "writing" \in Phases /\ "done" \in Phases
      BY <1>4 DEF RecordArrives, Serving, Phases
    <2>1. CASE writerActive[s]
      <3>1. served' = served
        BY <1>4, <2>0, <2>1, <1>a DEF RecordArrives
      <3> QED BY <1>4, <2>1, <3>1 DEF RecordArrives, Feed!vars
    <2>2. CASE ~writerActive[s]
      <3>1. served' = [served EXCEPT ![s] = FALSE]
        BY <1>4, <2>0, <2>2, <1>a DEF RecordArrives
      <3> QED BY <1>4, <2>0, <2>2, <3>1 DEF RecordArrives, Feed!Close
    <2> QED BY <2>1, <2>2
  <1>5. ASSUME NEW s \in Streams, WriteResolves(s) PROVE \E g \in Groups : Feed!Deliver(s, g)
    <2> DEFINE r == Head(queue[s])
    <2> DEFINE p == NextAnswer(Tail(queue[s]), closed[s])
    <2>0. Serving(s) /\ queue[s] # <<>>
      BY <1>5, <1>0 DEF WriteResolves, Serving, Lifecycle, Holding
    <2>1. /\ r \in Record /\ r.group \in groupIds[s]
          /\ r.cursor = sent[s][r.group] + 1 /\ r.cursor <= lastMessageCursor[r.group]
      BY <2>0, HeadIsNext
    <2>2. /\ r.group \in Groups
          /\ sent[s][r.group] \in Nat /\ lastMessageCursor[r.group] \in Nat
          /\ sent[s][r.group] < lastMessageCursor[r.group]
      BY <2>1, <1>0 DEF Record, TypeOK
    <2>3. p \in Phases /\ p \notin {"idle", "done"}
      BY DEF NextAnswer, Phases
    <2>3a. phase' = [phase EXCEPT ![s] = p]
      BY <1>5 DEF WriteResolves
    <2> HIDE DEF p
    <2>4. served' = served
      BY <2>0, <2>3, <2>3a, <1>a
    <2>5. sent' = [sent EXCEPT ![s][r.group] = @ + 1]
      BY <1>5, <2>1, <2>2, <1>0 DEF WriteResolves, TypeOK
    <2> QED BY <1>5, <2>0, <2>1, <2>2, <2>4, <2>5 DEF WriteResolves, Feed!Deliver
  <1>6. ASSUME NEW s \in Streams, AwaitRejects(s) \/ IterationEnds(s)
        PROVE  Feed!Leave(s) \/ Feed!Close(s)
    <2>0. Serving(s) /\ "done" \in Phases /\ writerActive' = [writerActive EXCEPT ![s] = FALSE]
      BY <1>6 DEF AwaitRejects, IterationEnds, Serving, Phases
    <2>1. served' = [served EXCEPT ![s] = FALSE]
      BY <1>6, <2>0, <1>a DEF AwaitRejects, IterationEnds
    <2>2. UNCHANGED <<lastMessageCursor, groupIds, sent>>
      BY <1>6 DEF AwaitRejects, IterationEnds
    <2>3. CASE writerActive[s]
      BY <2>0, <2>1, <2>2, <2>3 DEF Feed!Leave
    <2>4. CASE ~writerActive[s]
      <3>1. writerActive' = writerActive
        BY <2>0, <2>4, <1>0 DEF TypeOK
      <3> QED BY <2>0, <2>1, <2>2, <2>4, <3>1 DEF Feed!Close
    <2> QED BY <2>3, <2>4
  <1>7. ASSUME NEW s \in Streams, StreamTerminates(s) PROVE Feed!Leave(s)
    <2> DEFINE p == Ended(phase[s])
    <2>1. p \in Phases /\ p \notin {"idle", "done"}
      BY <1>0, <1>7 DEF StreamTerminates, Ended, Phases, Serving, TypeOK
    <2>2. phase' = [phase EXCEPT ![s] = p] /\ Serving(s)
      BY <1>7 DEF StreamTerminates
    <2> HIDE DEF p
    <2>3. served' = served
      BY <2>1, <2>2, <1>a
    <2> QED BY <1>7, <2>3 DEF StreamTerminates, Feed!Leave
  <1>8. CASE UNCHANGED vars
    BY <1>8 DEF vars, Feed!vars, Serving
  <1> QED BY <1>1, <1>2, <1>3, <1>4, <1>5, <1>6, <1>7, <1>8 DEF Next, Handler, Feed!Next

\* What a client may rely on, GroupFeed, is what the coordinator and the server
\* do: the messages written to a stream are, per group, the next one each time.
THEOREM ImplementsGroupFeed == Spec => FeedSpec
  <1>1. Init => Feed!Init
    BY DEF Init, Feed!Init, Serving
  <1> QED BY <1>1, FeedStep, DeliveryInvariant, PTL DEF Spec, FeedSpec, Feed!Spec
=============================================================================
