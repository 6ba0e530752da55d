----------------------- MODULE WelcomeDeliveryProofs -----------------------
(***************************************************************************)
(* No invitation is lost and no group rolled back, for any Welcomes, any   *)
(* caps, ages and numbers of calls and crashes.  What is lost rests on two *)
(* hypotheses, each of which a run shows to be needed: an acknowledgement  *)
(* is executed later than the `at` it names (WelcomeRefs), and no group is *)
(* joined again over a single-use key package (WelcomeReinvite).           *)
(***************************************************************************)
EXTENDS WelcomeDelivery, FiniteSetTheorems, WellFoundedInduction, TLAPS

\* A single-use key package serves the first Welcome of a group only.
NoSingleUseReinvite ==
    \A i, j \in Invites :
        (KpRef[i] \notin LastResort /\ GroupOf[i] = GroupOf[j]) => EpochOf[j] >= EpochOf[i]

SavedTypeOK(s) == s \in Session /\ Cardinality(s.accepted) <= MaxAccepted

CoordinatorOK ==
    /\ clock \in 0..MaxClock /\ expired \subseteq Invites
    /\ pending \subseteq stamps /\ stamps \subseteq Welcome
    /\ \A w \in stamps : w.at < MaxClock

InviterOK ==
    /\ invited \subseteq Invites /\ confirmed \subseteq invited
    /\ copies \in [Invites -> 0..MaxCopies]
    /\ \A i \in Invites : copies[i] > 0 => i \in invited

CallOK ==
    /\ call \in {"idle", "sent", "answered"}
    /\ toAck \subseteq Ack /\ answer \subseteq Welcome /\ late \subseteq Ack

DaemonOK ==
    /\ SavedTypeOK(mem) /\ SavedTypeOK(disk)
    /\ unsaved \in BOOLEAN /\ accepting \subseteq Welcome /\ crashes \in 0..MaxCrashes

StateOK == CoordinatorOK /\ InviterOK /\ CallOK /\ DaemonOK

\* A snapshot is never ahead of the session, and level with it once saved.
SavedOK ==
    /\ \A g \in Groups : disk.epoch[g] <= mem.epoch[g]
    /\ ~unsaved => mem.epoch = disk.epoch

\* What anybody holds of the queue was in it.
HeldOK ==
    /\ answer \cup accepting \cup mem.welcomes \cup disk.welcomes \subseteq stamps
    /\ mem.acks \cup disk.acks \cup toAck \cup late \subseteq {WelcomeRef(w) : w \in stamps}

\* What left the queue is older than the clock, so its identifier is not given
\* again.
LeftEarlier == \A w \in stamps \ pending : w.at < clock

\* A session that knows a group joined it by some Welcome, and one that consumed
\* a single-use key package has joined its group.
JoinedOK(s) ==
    /\ \A g \in Groups :
          s.epoch[g] = 0 \/ \E i \in Invites : GroupOf[i] = g /\ s.epoch[g] = EpochOf[i]
    /\ \A i \in Invites :
          KpRef[i] \in s.consumed \ LastResort => Superseded(s.epoch, i)

\* What is acknowledged was joined; what is on its way was joined and saved.
AcksOK ==
    \A w \in stamps :
        /\ WelcomeRef(w) \in mem.acks => Superseded(mem.epoch, w.invite)
        /\ WelcomeRef(w) \in disk.acks \cup toAck \cup late => Superseded(disk.epoch, w.invite)

QueueInv == StateOK /\ SavedOK
RefsInv == HeldOK /\ LeftEarlier /\ WelcomeRefsUnique
InviteInv == JoinedOK(mem) /\ JoinedOK(disk) /\ AcksOK /\ InviteNeverLost

-----------------------------------------------------------------------------
(* What the operators of the model do.                                     *)

LEMMA MaxIsMember ==
    ASSUME NEW b \in Nat, NEW S \in SUBSET (0..b), S # {}
    PROVE  Max(S) \in S /\ \A y \in S : Max(S) >= y
<1> DEFINE T == {n \in 0..b : b - n \in S}
<1>1. T \subseteq Nat /\ T # {}
  <2>1. PICK x \in S : TRUE
    OBVIOUS
  <2>2. b - x \in 0..b /\ b - (b - x) = x
    BY <2>1
  <2> QED
    BY <2>1, <2>2
<1>2. PICK n \in T : \A k \in T : ~(<<k, n>> \in OpToRel(<, Nat))
  BY <1>1, WFMin, NatLessThanWellFounded
<1>3. \A k \in T : ~(k < n)
  BY <1>1, <1>2, Zenon DEF OpToRel
<1>4. b - n \in S /\ \A y \in S : b - n >= y
  <2>1. n \in 0..b /\ b - n \in S
    OBVIOUS
  <2>2. ASSUME NEW y \in S PROVE b - n >= y
    <3>1. b - y \in 0..b /\ b - (b - y) = y
      OBVIOUS
    <3>2. b - y \in T
      BY <3>1
    <3> QED
      BY <1>3, <2>1, <3>1, <3>2
  <2> QED
    BY <2>1, <2>2
<1> QED
  BY <1>4 DEF Max

\* A Welcome is stamped now or later, and past what is pending for its key
\* package.
LEMMA StampIsNew ==
    ASSUME QueueInv, NEW i \in Invites
    PROVE  /\ Stamp(i) \in Nat /\ Stamp(i) >= clock
           /\ \A v \in pending : KpRef[v.invite] = KpRef[i] => Stamp(i) > v.at
<1> DEFINE S == {clock} \cup {w.at + 1 : w \in {v \in pending : KpRef[v.invite] = KpRef[i]}}
<1>1. clock \in 0..MaxClock /\ MaxClock \in Nat
      /\ \A v \in pending : v \in stamps /\ v.at \in Nat /\ v.at < MaxClock
  BY WelcomeAssumption DEF QueueInv, StateOK, CoordinatorOK, Welcome
<1>2. S \in SUBSET (0..MaxClock) /\ S # {}
  BY <1>1
<1>3. Max(S) \in S /\ \A y \in S : Max(S) >= y
  BY <1>1, <1>2, MaxIsMember
<1>4. Stamp(i) = Max(S)
  BY DEF Stamp
<1>5. \A v \in pending : KpRef[v.invite] = KpRef[i] => v.at + 1 \in S
  OBVIOUS
<1>6. clock \in S /\ Max(S) \in Nat
  BY <1>1, <1>2, <1>3
<1> HIDE DEF S
<1>7. Max(S) >= clock
  BY <1>3, <1>6
<1>8. ASSUME NEW v \in pending, KpRef[v.invite] = KpRef[i]
      PROVE  Max(S) > v.at
  <2>1. Max(S) >= v.at + 1
    BY <1>3, <1>5, <1>8
  <2> QED
    BY <1>1, <1>6, <2>1
<1> QED
  BY <1>4, <1>6, <1>7, <1>8

LEMMA WelcomeRefType == \A w \in Welcome : WelcomeRef(w) \in Ack
BY DEF Welcome, WelcomeRef, Ack, Refs

\* A join never takes the epoch back, and supersedes its own Welcome.
LEMMA JoinedForward ==
    ASSUME NEW epoch \in [Groups -> Nat], NEW i \in Invites
    PROVE  /\ Joined(epoch, i) \in [Groups -> Nat]
           /\ \A g \in Groups : epoch[g] <= Joined(epoch, i)[g]
           /\ Superseded(Joined(epoch, i), i)
           /\ \A g \in Groups : \/ Joined(epoch, i)[g] = epoch[g]
                                \/ g = GroupOf[i] /\ Joined(epoch, i)[g] = EpochOf[i]
<1>1. GroupOf[i] \in Groups /\ EpochOf[i] \in Nat /\ epoch[GroupOf[i]] \in Nat
  BY WelcomeAssumption DEF Groups
<1>2. CASE Superseded(epoch, i)
  BY <1>1, <1>2 DEF Joined
<1>3. CASE ~Superseded(epoch, i)
  BY <1>1, <1>3 DEF Joined, Superseded
<1> QED
  BY <1>2, <1>3

LEMMA SupersededStays ==
    ASSUME NEW e \in [Groups -> Nat], NEW f \in [Groups -> Nat], \A g \in Groups : e[g] <= f[g],
           NEW i \in Invites, Superseded(e, i)
    PROVE  Superseded(f, i)
<1>1. GroupOf[i] \in Groups /\ EpochOf[i] \in Nat
  BY WelcomeAssumption DEF Groups
<1> QED
  BY <1>1 DEF Superseded

LEMMA FinishDoes ==
    ASSUME QueueInv, NEW w \in Welcome, Finish(w)
    PROVE  /\ SavedTypeOK(mem')
           /\ \A g \in Groups : mem.epoch[g] <= mem'.epoch[g]
           /\ mem'.consumed = mem.consumed \cup {KpRef[w.invite]}
           /\ mem'.epoch = Joined(mem.epoch, w.invite)
           /\ mem'.acks = mem.acks \cup {WelcomeRef(w)}
           /\ mem'.welcomes = mem.welcomes \ {w}
<1>1. mem \in Session /\ w.invite \in Invites /\ WelcomeRef(w) \in Ack /\ KpRef[w.invite] \in Refs
  BY WelcomeRefType DEF QueueInv, StateOK, DaemonOK, SavedTypeOK, Welcome, Refs
<1>2. PICK ids \in Capped(mem.accepted, {WelcomeRef(w)}) :
        mem' = [Opened(mem, w) EXCEPT
                           !.epoch = Joined(@, w.invite),
                           !.acks = @ \cup {WelcomeRef(w)},
                           !.welcomes = @ \ {w},
                           !.accepted = ids]
  BY DEF Finish
<1>3. ids \subseteq Ack /\ Cardinality(ids) <= MaxAccepted
  BY <1>1, <1>2 DEF Capped, Session
<1>4. mem.epoch \in [Groups -> Nat]
  BY <1>1 DEF Session
<1>5. /\ mem'.consumed = mem.consumed \cup {KpRef[w.invite]}
      /\ mem'.epoch = Joined(mem.epoch, w.invite)
      /\ mem'.acks = mem.acks \cup {WelcomeRef(w)}
      /\ mem'.welcomes = mem.welcomes \ {w}
      /\ mem'.accepted = ids
  BY <1>1, <1>2 DEF Opened, Session
<1>6. mem' \in [consumed : SUBSET Refs, welcomes : SUBSET Welcome, accepted : SUBSET Ack,
            acks : SUBSET Ack, epoch : [Groups -> Nat]]
  <2>1. Joined(mem.epoch, w.invite) \in [Groups -> Nat]
    BY <1>1, <1>4, JoinedForward
  <2> QED
    BY <1>1, <1>2, <1>3, <2>1 DEF Opened, Session
<1>7. \A g \in Groups : mem.epoch[g] <= mem'.epoch[g]
  BY <1>1, <1>4, <1>5, JoinedForward
<1> QED
  BY <1>3, <1>5, <1>6, <1>7 DEF SavedTypeOK, Session

LEMMA FetchReturnsDoes ==
    ASSUME QueueInv, FetchReturns
    PROVE  /\ SavedTypeOK(mem')
           /\ mem'.consumed = mem.consumed /\ mem'.epoch = mem.epoch
           /\ mem'.acks \subseteq mem.acks \cup {WelcomeRef(w) : w \in {v \in answer : IsReplay(v)}}
           /\ mem'.welcomes \subseteq mem.welcomes \cup answer
<1> DEFINE replays == {w \in answer : IsReplay(w)}
           refs == ReplayRefs(replays)
           new == {w \in answer \ replays : ~Known(w)}
<1>1. mem \in Session /\ answer \subseteq Welcome /\ refs \subseteq Ack
      /\ refs = {WelcomeRef(w) : w \in replays}
  BY WelcomeRefType DEF QueueInv, StateOK, DaemonOK, CallOK, SavedTypeOK, ReplayRefs
<1> HIDE DEF refs
<1>2. PICK ids \in Capped(mem.accepted, refs) :
              mem' = [mem EXCEPT !.acks = StillToAck \cup refs,
                                 !.welcomes = (@ \ {w \in @ : WelcomeRef(w) \in refs}) \cup new,
                                 !.accepted = ids]
  BY DEF FetchReturns, refs
<1>3. ids \subseteq Ack /\ Cardinality(ids) <= MaxAccepted
  BY <1>1, <1>2 DEF Capped, Session
<1>4. new \subseteq answer
  OBVIOUS
<1> HIDE DEF new, replays
<1>5. /\ mem'.consumed = mem.consumed /\ mem'.epoch = mem.epoch /\ mem'.accepted = ids
      /\ mem'.acks = StillToAck \cup refs
      /\ mem'.welcomes = (mem.welcomes \ {w \in mem.welcomes : WelcomeRef(w) \in refs}) \cup new
      /\ mem' \in Session
  BY <1>1, <1>2, <1>3, <1>4 DEF Session, StillToAck
<1> QED
  BY <1>1, <1>3, <1>4, <1>5 DEF SavedTypeOK, StillToAck, replays

-----------------------------------------------------------------------------
(* Types, and snapshots that only ever succeed one another.                *)

LEMMA QueueInit == Init => QueueInv
<1> SUFFICES ASSUME Init PROVE QueueInv
  OBVIOUS
<1>1. Cardinality({}) <= MaxAccepted
  BY WelcomeAssumption, FS_EmptySet
<1>2. SavedTypeOK(Fresh)
  BY <1>1 DEF SavedTypeOK, Fresh, Session
<1>3. CoordinatorOK /\ CallOK
  BY WelcomeAssumption DEF Init, CoordinatorOK, CallOK
<1>4. InviterOK
  BY WelcomeAssumption DEF Init, InviterOK
<1>5. DaemonOK
  <2>1. mem = Fresh /\ disk = Fresh /\ unsaved = FALSE /\ accepting = {} /\ crashes = 0
    BY DEF Init
  <2>2. 0 \in 0..MaxCrashes
    BY WelcomeAssumption
  <2> QED
    BY <1>2, <2>1, <2>2 DEF DaemonOK
<1>6. SavedOK
  BY DEF Init, SavedOK, Fresh
<1> QED
  BY <1>3, <1>4, <1>5, <1>6 DEF QueueInv, StateOK

\* The coordinator's side of a step.
LEMMA CoordinatorKept ==
    ASSUME QueueInv, [Next]_vars
    PROVE  CoordinatorOK'
<1> USE DEF QueueInv, StateOK, CoordinatorOK, coordinatorVars
<1>1. CASE \E i \in Invites : StoreWelcome(i)
  <2>1. PICK i \in Invites : StoreWelcome(i)
    BY <1>1
  <2>2. Stamp(i) \in Nat
    BY StampIsNew
  <2> QED
    BY <2>1, <2>2 DEF StoreWelcome, Queues, Welcome
<1>2. CASE AnswerFetch \/ LateFetch
  BY <1>2 DEF AnswerFetch, LateFetch, Retained
<1>3. CASE DeleteExpiredWelcomes
  BY <1>3 DEF DeleteExpiredWelcomes, Welcome
<1>4. CASE Tick
  BY <1>4, WelcomeAssumption DEF Tick
<1>5. CASE UNCHANGED coordinatorVars
  BY <1>5
<1> QED
  BY <1>1, <1>2, <1>3, <1>4, <1>5
     DEF Next, vars, SendWelcome, FetchWelcomes, FetchReturns, FetchFails, AcceptWelcome,
         AcceptAwaitsUnwatch, AcceptResumes, Persist, Crash

LEMMA InviterKept ==
    ASSUME QueueInv, [Next]_vars
    PROVE  InviterOK'
<1> USE DEF QueueInv, StateOK, InviterOK, inviterVars
<1>1. ASSUME NEW i \in Invites, SendWelcome(i)
      PROVE  InviterOK'
  BY <1>1, WelcomeAssumption DEF SendWelcome
<1>2. ASSUME NEW i \in Invites, StoreWelcome(i)
      PROVE  InviterOK'
  BY <1>2, WelcomeAssumption DEF StoreWelcome
<1>3. CASE UNCHANGED inviterVars
  BY <1>3
<1> QED
  BY <1>1, <1>2, <1>3
     DEF Next, vars, AnswerFetch, LateFetch, DeleteExpiredWelcomes, Tick, FetchWelcomes,
         FetchReturns, FetchFails, AcceptWelcome, AcceptAwaitsUnwatch, AcceptResumes, Persist,
         Crash

LEMMA CallKept ==
    ASSUME QueueInv, [Next]_vars
    PROVE  CallOK'
<1> USE DEF QueueInv, StateOK, CallOK, callVars
<1>1. CASE AnswerFetch \/ LateFetch
  BY <1>1 DEF AnswerFetch, LateFetch, Retained, CoordinatorOK
<1>2. CASE FetchWelcomes
  BY <1>2 DEF FetchWelcomes, DaemonOK, SavedTypeOK, Session
<1>3. CASE FetchReturns \/ FetchFails \/ Crash
  BY <1>3 DEF FetchReturns, FetchFails, Crash
<1>4. CASE UNCHANGED callVars
  BY <1>4
<1> QED
  BY <1>1, <1>2, <1>3, <1>4
     DEF Next, vars, SendWelcome, StoreWelcome, DeleteExpiredWelcomes, Tick, AcceptWelcome,
         AcceptAwaitsUnwatch, AcceptResumes, Persist

\* The daemon's side of a step.
LEMMA DaemonKept ==
    ASSUME QueueInv, [Next]_vars
    PROVE  DaemonOK' /\ SavedOK'
<1> USE DEF DaemonOK, SavedOK, daemonVars
<1>0. /\ SavedTypeOK(mem) /\ SavedTypeOK(disk) /\ unsaved \in BOOLEAN
      /\ mem \in Session /\ disk \in Session
      /\ accepting \subseteq Welcome /\ crashes \in 0..MaxCrashes /\ mem.welcomes \subseteq Welcome
      /\ mem.epoch \in [Groups -> Nat] /\ disk.epoch \in [Groups -> Nat]
      /\ SavedOK
  BY DEF QueueInv, StateOK, SavedTypeOK, Session
<1>1. ASSUME NEW w \in Welcome, Finish(w), disk' = disk, crashes' = crashes, unsaved' = TRUE,
             accepting' \in {{}, accepting}
      PROVE  DaemonOK' /\ SavedOK'
  <2>1. SavedTypeOK(mem') /\ \A g \in Groups : mem.epoch[g] <= mem'.epoch[g]
    BY <1>1, FinishDoes
  <2>2. mem'.epoch \in [Groups -> Nat]
    BY <2>1 DEF SavedTypeOK, Session
  <2>3. \A g \in Groups : disk.epoch[g] <= mem'.epoch[g]
    BY <1>0, <2>1, <2>2
  <2> QED
    BY <1>0, <1>1, <2>1, <2>3
<1>2. ASSUME NEW w \in mem.welcomes, AcceptWelcome(w)
      PROVE  DaemonOK' /\ SavedOK'
  BY <1>0, <1>1, <1>2 DEF AcceptWelcome
<1>3. ASSUME NEW w \in accepting, AcceptResumes(w)
      PROVE  DaemonOK' /\ SavedOK'
  BY <1>0, <1>1, <1>3 DEF AcceptResumes
<1>4. ASSUME NEW w \in mem.welcomes, AcceptAwaitsUnwatch(w)
      PROVE  DaemonOK' /\ SavedOK'
  <2>1. w \in Welcome /\ KpRef[w.invite] \in Refs
    BY <1>0 DEF Welcome, Refs
  <2>2. SavedTypeOK(mem') /\ mem'.epoch = mem.epoch
    BY <1>0, <1>4, <2>1 DEF AcceptAwaitsUnwatch, Opened, SavedTypeOK, Session
  <2> QED
    BY <1>0, <1>4, <2>1, <2>2 DEF AcceptAwaitsUnwatch
<1>5. CASE FetchReturns
  <2>1. SavedTypeOK(mem') /\ mem'.epoch = mem.epoch
    BY <1>5, FetchReturnsDoes
  <2> QED
    BY <1>0, <1>5, <2>1 DEF FetchReturns
<1>6. CASE Persist
  <2>1. disk' = mem /\ mem' = mem /\ UNCHANGED <<accepting, crashes>> /\ unsaved' = FALSE
    BY <1>6 DEF Persist
  <2>2. \A g \in Groups : mem.epoch[g] <= mem.epoch[g]
    BY <1>0
  <2> QED
    BY <1>0, <2>1, <2>2
<1>7. CASE Crash
  <2>1. disk' = disk /\ mem' = disk /\ accepting' = {} /\ unsaved' = FALSE
    BY <1>7 DEF Crash
  <2>2. \A g \in Groups : disk.epoch[g] <= disk.epoch[g]
    BY <1>0
  <2>3. crashes' \in 0..MaxCrashes
    BY <1>0, <1>7, WelcomeAssumption DEF Crash
  <2> QED
    BY <1>0, <2>1, <2>2, <2>3
<1>8. CASE UNCHANGED daemonVars
  BY <1>0, <1>8
<1> QED
  BY <1>2, <1>3, <1>4, <1>5, <1>6, <1>7, <1>8
     DEF Next, vars, SendWelcome, StoreWelcome, AnswerFetch, LateFetch, DeleteExpiredWelcomes,
         Tick, FetchWelcomes, FetchFails

LEMMA QueueKept ==
    ASSUME QueueInv, [Next]_vars
    PROVE  QueueInv'
BY CoordinatorKept, InviterKept, CallKept, DaemonKept DEF QueueInv, StateOK

\* Types, and a snapshot that is never ahead of the session (persist, restart).
THEOREM QueueInvariant == Spec => []QueueInv
BY QueueInit, QueueKept, PTL DEF Spec

\* What the coordinator, a call and the daemon hold are Welcomes and
\* acknowledgements of them, however many calls are retried or late; no more
\* identifiers are kept than the cap allows (CappedRefSet).
THEOREM WelcomeTypes == Spec => []TypeOK
<1>1. QueueInv => TypeOK
  BY DEF QueueInv, StateOK, CoordinatorOK, InviterOK, CallOK, DaemonOK, SavedTypeOK, TypeOK
<1> QED
  BY <1>1, QueueInvariant, PTL

\* No replayed, re-sent or re-read Welcome takes a group back to an older epoch
\* across restarts (the epoch comparison of acceptWelcome, and snapshots that
\* only ever succeed one another), whatever the key packages and the network do.
THEOREM SnapshotsSucceed == Spec => NeverRollsBack
<1> DEFINE Forward == \A g \in Groups : disk'.epoch[g] >= disk.epoch[g]
<1>1. ASSUME QueueInv, [Next]_vars
      PROVE  Forward
  <2>1. \A g \in Groups : /\ disk.epoch[g] \in Nat /\ mem.epoch[g] \in Nat
                          /\ disk.epoch[g] <= mem.epoch[g]
    BY <1>1 DEF QueueInv, StateOK, DaemonOK, SavedTypeOK, Session, SavedOK
  <2>2. disk' = disk \/ disk' = mem
    BY <1>1 DEF Next, vars, coordinatorVars, daemonVars, SendWelcome, StoreWelcome, AnswerFetch,
       LateFetch, DeleteExpiredWelcomes, Tick, FetchWelcomes, FetchReturns, FetchFails,
       AcceptWelcome, AcceptAwaitsUnwatch, AcceptResumes, Persist, Crash
  <2> QED
    BY <2>1, <2>2
<1>2. QueueInv /\ [Next]_vars => [Forward]_vars
  BY <1>1
<1> QED
  BY <1>2, QueueInvariant, PTL DEF Spec, NeverRollsBack

-----------------------------------------------------------------------------
(* Identifiers.                                                            *)

\* A new Welcome gets an identifier nothing in the queue ever had.
LEMMA StampIsUnique ==
    ASSUME QueueInv, RefsInv, NEW i \in Invites, NEW v \in stamps,
           WelcomeRef(v) = WelcomeRef([invite |-> i, at |-> Stamp(i)])
    PROVE  FALSE
<1>1. KpRef[v.invite] = KpRef[i] /\ v.at = Stamp(i)
  BY DEF WelcomeRef
<1>2. Stamp(i) \in Nat /\ Stamp(i) >= clock /\ clock \in Nat
  BY StampIsNew DEF QueueInv, StateOK, CoordinatorOK
<1>3. CASE v \in pending
  BY <1>1, <1>2, <1>3, StampIsNew
<1>4. CASE v \notin pending
  BY <1>1, <1>2, <1>4 DEF RefsInv, LeftEarlier
<1> QED
  BY <1>3, <1>4

LEMMA RefsInit == Init => RefsInv
BY DEF Init, RefsInv, HeldOK, LeftEarlier, WelcomeRefsUnique, Fresh

\* The queue's side of a step.
LEMMA LeftKept ==
    ASSUME RoundTrip, QueueInv, RefsInv, [Next]_vars
    PROVE  LeftEarlier' /\ WelcomeRefsUnique' /\ stamps \subseteq stamps'
<1> USE DEF LeftEarlier, WelcomeRefsUnique, coordinatorVars
<1>0. /\ LeftEarlier /\ WelcomeRefsUnique /\ clock \in Nat
      /\ \A w \in stamps : w.at \in Nat
  BY DEF RefsInv, QueueInv, StateOK, CoordinatorOK, Welcome
<1>1. ASSUME NEW i \in Invites, StoreWelcome(i)
      PROVE  LeftEarlier' /\ WelcomeRefsUnique' /\ stamps \subseteq stamps'
  <2> DEFINE w == [invite |-> i, at |-> Stamp(i)]
  <2>1. CASE UNCHANGED <<pending, stamps>>
    BY <1>0, <1>1, <2>1 DEF StoreWelcome, WelcomeRef
  <2>2. CASE pending' = pending \cup {w} /\ stamps' = stamps \cup {w}
    <3>1. \A v \in stamps : WelcomeRef(v) # WelcomeRef(w)
      BY StampIsUnique
    <3>2. \A v \in stamps' : WelcomeRef(v)' = WelcomeRef(v)
      BY DEF WelcomeRef
    <3> HIDE DEF w
    <3> QED
      BY <1>0, <1>1, <2>2, <3>1, <3>2 DEF StoreWelcome
  <2> QED
    BY <1>1, <2>1, <2>2 DEF StoreWelcome, Queues
<1>2. ASSUME NEW acks, InTime(acks), pending' = Retained(acks), UNCHANGED <<clock, stamps>>
      PROVE  LeftEarlier' /\ WelcomeRefsUnique' /\ stamps \subseteq stamps'
  <2>1. \A w \in pending : w \notin pending' => w.at < clock
    BY <1>2 DEF InTime, Retained, WelcomeRef
  <2> QED
    BY <1>0, <1>2, <2>1 DEF WelcomeRef
<1>3. CASE AnswerFetch \/ LateFetch
  BY <1>2, <1>3 DEF AnswerFetch, LateFetch
<1>4. CASE DeleteExpiredWelcomes
  <2>1. \A w \in pending : w \notin pending' => w.at < clock - MaxAge
    BY <1>4 DEF DeleteExpiredWelcomes
  <2>2. pending \subseteq stamps /\ MaxAge \in Nat
    BY WelcomeAssumption DEF QueueInv, StateOK, CoordinatorOK
  <2>3. \A w \in pending : w \notin pending' => w.at < clock
    BY <1>0, <2>1, <2>2
  <2> QED
    BY <1>0, <1>4, <2>3 DEF DeleteExpiredWelcomes, WelcomeRef
<1>5. CASE Tick
  BY <1>0, <1>5 DEF Tick, WelcomeRef
<1>6. CASE UNCHANGED coordinatorVars
  BY <1>0, <1>6 DEF WelcomeRef
<1> QED
  BY <1>1, <1>3, <1>4, <1>5, <1>6
     DEF Next, vars, SendWelcome, FetchWelcomes, FetchReturns, FetchFails, AcceptWelcome,
         AcceptAwaitsUnwatch, AcceptResumes, Persist, Crash

\* The daemon's side of a step.
LEMMA HeldKept ==
    ASSUME QueueInv, HeldOK, stamps \subseteq stamps', [Next]_vars
    PROVE  HeldOK'
<1> DEFINE R == {WelcomeRef(w) : w \in stamps}
<1>0. /\ answer \subseteq stamps /\ accepting \subseteq stamps
      /\ mem.welcomes \subseteq stamps /\ disk.welcomes \subseteq stamps
      /\ mem.acks \subseteq R /\ disk.acks \subseteq R /\ toAck \subseteq R /\ late \subseteq R
      /\ stamps \subseteq Welcome /\ R \subseteq R' /\ pending \subseteq stamps
  BY DEF HeldOK, QueueInv, StateOK, CoordinatorOK, WelcomeRef
<1> DEFINE Held == /\ answer' \subseteq stamps /\ accepting' \subseteq stamps
                   /\ mem'.welcomes \subseteq stamps /\ disk'.welcomes \subseteq stamps
                   /\ mem'.acks \subseteq R /\ disk'.acks \subseteq R
                   /\ toAck' \subseteq R /\ late' \subseteq R
<1>1. SUFFICES Held
  <2>1. HeldOK' <=> /\ answer' \cup accepting' \cup mem'.welcomes \cup disk'.welcomes \subseteq stamps'
                    /\ mem'.acks \cup disk'.acks \cup toAck' \cup late' \subseteq R'
    BY DEF HeldOK, WelcomeRef
  <2> HIDE DEF R
  <2> QED
    BY <1>0, <2>1
<1>2. \A w \in stamps : w \in Welcome /\ WelcomeRef(w) \in R
  BY <1>0
<1> HIDE DEF R
<1> USE DEF callVars, daemonVars
<1>3. ASSUME NEW w \in stamps, Finish(w)
      PROVE  mem'.welcomes \subseteq stamps /\ mem'.acks \subseteq R
  BY <1>0, <1>2, <1>3, FinishDoes
<1>4. ASSUME NEW w \in mem.welcomes, AcceptWelcome(w)
      PROVE  Held
  BY <1>0, <1>3, <1>4 DEF AcceptWelcome
<1>5. ASSUME NEW w \in accepting, AcceptResumes(w)
      PROVE  Held
  BY <1>0, <1>3, <1>5 DEF AcceptResumes
<1>6. ASSUME NEW w \in mem.welcomes, AcceptAwaitsUnwatch(w)
      PROVE  Held
  <2>1. mem'.welcomes = mem.welcomes /\ mem'.acks = mem.acks
    BY <1>6 DEF AcceptAwaitsUnwatch, Opened, QueueInv, StateOK, DaemonOK, SavedTypeOK, Session
  <2> QED
    BY <1>0, <1>6, <2>1 DEF AcceptAwaitsUnwatch
<1>7. CASE FetchReturns
  <2>1. {WelcomeRef(w) : w \in {v \in answer : IsReplay(v)}} \subseteq R
    BY <1>0, <1>2
  <2> QED
    BY <1>0, <1>7, <2>1, FetchReturnsDoes DEF FetchReturns
<1>8. CASE FetchFails \/ Crash \/ Persist \/ FetchWelcomes
  BY <1>0, <1>8 DEF FetchFails, Crash, Persist, FetchWelcomes
<1>9. CASE AnswerFetch \/ LateFetch
  BY <1>0, <1>9 DEF AnswerFetch, LateFetch, Retained
<1>10. CASE UNCHANGED <<callVars, daemonVars>>
  BY <1>0, <1>10
<1> QED
  BY <1>4, <1>5, <1>6, <1>7, <1>8, <1>9, <1>10
     DEF Next, vars, SendWelcome, StoreWelcome, DeleteExpiredWelcomes, Tick

LEMMA RefsKept ==
    ASSUME RoundTrip, QueueInv, RefsInv, [Next]_vars
    PROVE  RefsInv'
BY LeftKept, HeldKept DEF RefsInv

\* While an acknowledgement is executed later than the `at` it names, <<kp_ref, at>>
\* means one record for good (storeWelcome), across any deletions and late calls.
THEOREM WelcomeRefsAreUnique == RoundTrip => (Spec => []WelcomeRefsUnique)
<1> SUFFICES ASSUME RoundTrip PROVE Spec => []WelcomeRefsUnique
  OBVIOUS
<1>1. Init => RefsInv
  BY RefsInit
<1>2. QueueInv /\ RefsInv /\ [Next]_vars => RefsInv'
  BY RefsKept
<1>3. RefsInv => WelcomeRefsUnique
  BY DEF RefsInv
<1> QED
  BY <1>1, <1>2, <1>3, QueueInvariant, PTL DEF Spec

-----------------------------------------------------------------------------
(* No invitation is lost.                                                  *)

LEMMA InviteInit == Init => InviteInv
BY DEF Init, InviteInv, JoinedOK, AcksOK, InviteNeverLost, Fresh

LEMMA EpochTypes ==
    ASSUME QueueInv
    PROVE  /\ mem \in Session /\ disk \in Session
           /\ mem.epoch \in [Groups -> Nat] /\ disk.epoch \in [Groups -> Nat]
           /\ \A g \in Groups : disk.epoch[g] <= mem.epoch[g]
           /\ stamps \subseteq Welcome /\ \A w \in stamps : w.invite \in Invites
BY DEF QueueInv, StateOK, DaemonOK, SavedTypeOK, Session, SavedOK, CoordinatorOK, Welcome

\* An accept acknowledges what it joins, and consumes its key package.
LEMMA FinishJoins ==
    ASSUME QueueInv, RefsInv, InviteInv, NEW w \in stamps, Finish(w)
    PROVE  /\ JoinedOK(mem')
           /\ \A v \in stamps : WelcomeRef(v) \in mem'.acks => Superseded(mem'.epoch, v.invite)
<1>1. /\ w \in Welcome /\ w.invite \in Invites
      /\ mem'.consumed = mem.consumed \cup {KpRef[w.invite]}
      /\ mem'.epoch = Joined(mem.epoch, w.invite)
      /\ mem'.acks = mem.acks \cup {WelcomeRef(w)}
      /\ mem'.epoch \in [Groups -> Nat] /\ mem.epoch \in [Groups -> Nat]
  BY FinishDoes, EpochTypes DEF SavedTypeOK, Session
<1>2. /\ \A g \in Groups : mem.epoch[g] <= mem'.epoch[g]
      /\ Superseded(mem'.epoch, w.invite)
      /\ \A g \in Groups : \/ mem'.epoch[g] = mem.epoch[g]
                           \/ g = GroupOf[w.invite] /\ mem'.epoch[g] = EpochOf[w.invite]
  BY <1>1, JoinedForward
<1>3. \A i \in Invites : Superseded(mem.epoch, i) => Superseded(mem'.epoch, i)
  BY <1>1, <1>2, SupersededStays
<1>4. \A g \in Groups :
          mem'.epoch[g] = 0 \/ \E i \in Invites : GroupOf[i] = g /\ mem'.epoch[g] = EpochOf[i]
  BY <1>1, <1>2 DEF InviteInv, JoinedOK
<1>5. \A i \in Invites : KpRef[i] \in mem'.consumed \ LastResort => Superseded(mem'.epoch, i)
  <2> SUFFICES ASSUME NEW i \in Invites, KpRef[i] \in mem'.consumed \ LastResort
               PROVE  Superseded(mem'.epoch, i)
    OBVIOUS
  <2>1. CASE KpRef[i] \in mem.consumed
    BY <1>3, <2>1 DEF InviteInv, JoinedOK
  <2>2. CASE KpRef[i] = KpRef[w.invite]
    BY <1>1, <1>2, <2>2, WelcomeAssumption
  <2> QED
    BY <1>1, <2>1, <2>2
<1>6. ASSUME NEW v \in stamps, WelcomeRef(v) \in mem'.acks
      PROVE  Superseded(mem'.epoch, v.invite)
  <2>1. CASE WelcomeRef(v) \in mem.acks
    BY <1>3, <2>1, EpochTypes DEF InviteInv, AcksOK
  <2>2. CASE WelcomeRef(v) = WelcomeRef(w)
    BY <1>2, <2>2 DEF RefsInv, WelcomeRefsUnique
  <2> QED
    BY <1>1, <1>6, <2>1, <2>2
<1> QED
  BY <1>4, <1>5, <1>6 DEF JoinedOK

\* A re-invitation to a watched group is over a last-resort key package.
LEMMA AwaitsOverLastResort ==
    ASSUME NoSingleUseReinvite, QueueInv, InviteInv, NEW w \in mem.welcomes, w \in stamps,
           AcceptAwaitsUnwatch(w)
    PROVE  /\ KpRef[w.invite] \in LastResort
           /\ mem'.epoch = mem.epoch /\ mem'.acks = mem.acks
           /\ mem'.consumed = mem.consumed \cup {KpRef[w.invite]}
<1>1. w.invite \in Invites /\ mem \in Session /\ GroupOf[w.invite] \in Groups
      /\ EpochOf[w.invite] \in Nat /\ mem.epoch[GroupOf[w.invite]] \in Nat
  BY EpochTypes, WelcomeAssumption DEF Groups
<1>2. PICK j \in Invites :
          GroupOf[j] = GroupOf[w.invite] /\ mem.epoch[GroupOf[w.invite]] = EpochOf[j]
  BY <1>1 DEF AcceptAwaitsUnwatch, InviteInv, JoinedOK
<1>3. ~(EpochOf[j] >= EpochOf[w.invite])
  BY <1>2 DEF AcceptAwaitsUnwatch, Superseded
<1> QED
  BY <1>1, <1>2, <1>3 DEF AcceptAwaitsUnwatch, Opened, Session, NoSingleUseReinvite

\* The daemon's side of a step: what is acknowledged was joined.
LEMMA DaemonJoins ==
    ASSUME NoSingleUseReinvite, QueueInv, RefsInv, InviteInv, stamps' = stamps,
           \/ FetchWelcomes \/ FetchReturns \/ FetchFails \/ Persist \/ Crash
           \/ \E w \in mem.welcomes : AcceptWelcome(w) \/ AcceptAwaitsUnwatch(w)
           \/ \E w \in accepting : AcceptResumes(w)
    PROVE  JoinedOK(mem)' /\ JoinedOK(disk)' /\ AcksOK'
<1> DEFINE OnceSaved(acks, epoch) ==
              \A w \in stamps : WelcomeRef(w) \in acks => Superseded(epoch, w.invite)
<1>1. /\ OnceSaved(mem.acks, mem.epoch) /\ OnceSaved(disk.acks, disk.epoch)
      /\ OnceSaved(toAck, disk.epoch) /\ OnceSaved(late, disk.epoch)
      /\ JoinedOK(mem) /\ JoinedOK(disk)
      /\ mem.welcomes \subseteq stamps /\ accepting \subseteq stamps /\ answer \subseteq stamps
  BY DEF InviteInv, AcksOK, RefsInv, HeldOK
<1> DEFINE Joins == /\ JoinedOK(mem') /\ JoinedOK(disk')
                    /\ OnceSaved(mem'.acks, mem'.epoch) /\ OnceSaved(disk'.acks, disk'.epoch)
                    /\ OnceSaved(toAck', disk'.epoch) /\ OnceSaved(late', disk'.epoch)
<1>2. SUFFICES Joins
  BY DEF JoinedOK, AcksOK, WelcomeRef, Superseded
<1>3. CASE FetchWelcomes
  <2>1. mem.epoch = disk.epoch
    BY <1>3 DEF FetchWelcomes, Ready, QueueInv, SavedOK
  <2> QED
    BY <1>1, <1>3, <2>1 DEF FetchWelcomes, daemonVars
<1>4. CASE FetchReturns
  <2>1. /\ mem'.consumed = mem.consumed /\ mem'.epoch = mem.epoch
        /\ mem'.acks \subseteq mem.acks \cup {WelcomeRef(w) : w \in {v \in answer : IsReplay(v)}}
    BY <1>4, FetchReturnsDoes
  <2>2. ASSUME NEW w \in stamps, NEW v \in answer, IsReplay(v), WelcomeRef(w) = WelcomeRef(v)
        PROVE  Superseded(mem.epoch, w.invite)
    <3>1. w = v
      BY <1>1, <2>2 DEF RefsInv, WelcomeRefsUnique
    <3> QED
      BY <1>1, <2>2, <3>1, EpochTypes DEF IsReplay, JoinedOK
  <2>3. OnceSaved(mem'.acks, mem'.epoch)
    BY <1>1, <2>1, <2>2
  <2>4. JoinedOK(mem')
    BY <1>1, <2>1 DEF JoinedOK
  <2> QED
    BY <1>1, <1>4, <2>3, <2>4 DEF FetchReturns
<1>5. CASE FetchFails
  BY <1>1, <1>5 DEF FetchFails, daemonVars
<1>6. CASE Persist
  <2>1. \A w \in stamps : Superseded(disk.epoch, w.invite) => Superseded(mem.epoch, w.invite)
    BY EpochTypes, SupersededStays
  <2> QED
    BY <1>1, <1>6, <2>1 DEF Persist, callVars
<1>7. CASE Crash
  BY <1>1, <1>7 DEF Crash
<1>8. ASSUME NEW w \in mem.welcomes, AcceptWelcome(w)
      PROVE  Joins
  BY <1>1, <1>8, FinishJoins DEF AcceptWelcome, callVars
<1>9. ASSUME NEW w \in accepting, AcceptResumes(w)
      PROVE  Joins
  BY <1>1, <1>9, FinishJoins DEF AcceptResumes, callVars
<1>10. ASSUME NEW w \in mem.welcomes, AcceptAwaitsUnwatch(w)
      PROVE  Joins
  <2>1. /\ KpRef[w.invite] \in LastResort
        /\ mem'.epoch = mem.epoch /\ mem'.acks = mem.acks
        /\ mem'.consumed = mem.consumed \cup {KpRef[w.invite]}
    BY <1>1, <1>10, AwaitsOverLastResort
  <2>2. mem'.consumed \ LastResort = mem.consumed \ LastResort
    BY <2>1
  <2>3. JoinedOK(mem')
    BY <1>1, <2>1, <2>2 DEF JoinedOK
  <2> QED
    BY <1>1, <1>10, <2>1, <2>3 DEF AcceptAwaitsUnwatch, callVars
<1> QED
  BY <1>3, <1>4, <1>5, <1>6, <1>7, <1>8, <1>9, <1>10

\* The queue's side of a step: what leaves it was joined and saved, or expired.
LEMMA QueueLosesNothing ==
    ASSUME QueueInv, RefsInv, InviteInv, disk'.epoch = disk.epoch,
           \/ \E i \in Invites : StoreWelcome(i)
           \/ AnswerFetch \/ LateFetch \/ DeleteExpiredWelcomes
    PROVE  InviteNeverLost'
<1>1. InviteNeverLost /\ AcksOK
  BY DEF InviteInv
<1>2. \A i \in Invites : Superseded(disk.epoch, i)' <=> Superseded(disk.epoch, i)
  BY DEF Superseded
<1>3. \A w \in stamps : w.invite \in Invites
  BY EpochTypes
<1>4. ASSUME NEW i \in Invites, StoreWelcome(i)
      PROVE  InviteNeverLost'
  BY <1>1, <1>2, <1>3, <1>4 DEF StoreWelcome, Queues, InviteNeverLost
<1>5. ASSUME NEW acks, acks \subseteq toAck \cup late, pending' = Retained(acks),
             UNCHANGED <<stamps, expired>>
      PROVE  InviteNeverLost'
  <2>1. \A w \in pending : w \notin pending' => Superseded(disk.epoch, w.invite)
    BY <1>1, <1>5 DEF Retained, AcksOK, QueueInv, StateOK, CoordinatorOK
  <2> QED
    BY <1>1, <1>2, <1>3, <1>5, <2>1 DEF InviteNeverLost
<1>6. CASE AnswerFetch \/ LateFetch
  BY <1>5, <1>6 DEF AnswerFetch, LateFetch
<1>7. CASE DeleteExpiredWelcomes
  BY <1>1, <1>2, <1>3, <1>7 DEF DeleteExpiredWelcomes, InviteNeverLost
<1> QED
  BY <1>4, <1>6, <1>7

\* A step of the coordinator or of the inviter: the session stays as it is.
LEMMA SessionStays ==
    ASSUME QueueInv, RefsInv, InviteInv, UNCHANGED <<mem, disk>>,
           toAck' \subseteq toAck, late' \subseteq late,
           \/ stamps' = stamps
           \/ \E i \in Invites : stamps' = stamps \cup {[invite |-> i, at |-> Stamp(i)]}
    PROVE  JoinedOK(mem)' /\ JoinedOK(disk)' /\ AcksOK'
<1>1. JoinedOK(mem)' /\ JoinedOK(disk)'
  BY DEF InviteInv, JoinedOK, Superseded
<1>2. \A w \in stamps' \ stamps : WelcomeRef(w) \notin mem.acks \cup disk.acks \cup toAck \cup late
  <2> SUFFICES ASSUME NEW i \in Invites, NEW w \in stamps' \ stamps,
                      w = [invite |-> i, at |-> Stamp(i)],
                      WelcomeRef(w) \in mem.acks \cup disk.acks \cup toAck \cup late
               PROVE  FALSE
    OBVIOUS
  <2>1. PICK v \in stamps : WelcomeRef(v) = WelcomeRef(w)
    BY DEF RefsInv, HeldOK
  <2> QED
    BY <2>1, StampIsUnique
<1>3. \A w \in stamps' : \/ w \in stamps
                         \/ WelcomeRef(w) \notin mem.acks \cup disk.acks \cup toAck \cup late
  BY <1>2
<1> QED
  BY <1>1, <1>3 DEF InviteInv, AcksOK, Superseded, WelcomeRef

LEMMA InviteKept ==
    ASSUME NoSingleUseReinvite, QueueInv, RefsInv, InviteInv, [Next]_vars
    PROVE  InviteInv'
<1> USE DEF coordinatorVars, callVars, daemonVars
<1>1. CASE \/ FetchWelcomes \/ FetchReturns \/ FetchFails \/ Persist \/ Crash
           \/ \E w \in mem.welcomes : AcceptWelcome(w) \/ AcceptAwaitsUnwatch(w)
           \/ \E w \in accepting : AcceptResumes(w)
  <2>1. UNCHANGED <<pending, stamps, expired>> /\ disk' \in {disk, mem}
    BY <1>1 DEF FetchWelcomes, FetchReturns, FetchFails, Persist, Crash, AcceptWelcome,
       AcceptAwaitsUnwatch, AcceptResumes
  <2>2. JoinedOK(mem)' /\ JoinedOK(disk)' /\ AcksOK'
    BY <1>1, <2>1, DaemonJoins
  <2>3. \A w \in stamps : Superseded(disk.epoch, w.invite) => Superseded(mem.epoch, w.invite)
    BY EpochTypes, SupersededStays
  <2>4. InviteNeverLost'
    BY <2>1, <2>3 DEF InviteInv, InviteNeverLost, Superseded
  <2> QED
    BY <2>2, <2>4 DEF InviteInv
<1>2. CASE \/ \E i \in Invites : SendWelcome(i) \/ StoreWelcome(i)
           \/ AnswerFetch \/ LateFetch \/ DeleteExpiredWelcomes \/ Tick \/ UNCHANGED vars
  <2>1. UNCHANGED <<mem, disk>> /\ toAck' \subseteq toAck /\ late' \subseteq late
    BY <1>2 DEF vars, SendWelcome, StoreWelcome, AnswerFetch, LateFetch, DeleteExpiredWelcomes,
       Tick
  <2>2. \/ stamps' = stamps
        \/ \E i \in Invites : stamps' = stamps \cup {[invite |-> i, at |-> Stamp(i)]}
    BY <1>2 DEF vars, SendWelcome, StoreWelcome, Queues, AnswerFetch, LateFetch,
       DeleteExpiredWelcomes, Tick
  <2>3. JoinedOK(mem)' /\ JoinedOK(disk)' /\ AcksOK'
    BY <2>1, <2>2, SessionStays
  <2>4. ASSUME UNCHANGED <<pending, stamps, expired>>
        PROVE  InviteNeverLost'
    BY <2>1, <2>4 DEF InviteInv, InviteNeverLost, Superseded
  <2>5. InviteNeverLost'
    BY <1>2, <2>1, <2>4, QueueLosesNothing DEF InviteInv, vars, SendWelcome, Tick
  <2> QED
    BY <2>3, <2>5 DEF InviteInv
<1> QED
  BY <1>1, <1>2 DEF Next

\* No invitation is lost: a Welcome the coordinator took stays in its queue until
\* it expires or the snapshot the invitee would restart from has joined its
\* group, whatever is retried, lost, late or interrupted by a crash
\* (fetchPendingWelcomes, clearConsumedWelcomes, the daemon's persist), for any
\* invitations and any cap on the identifiers that are kept.
THEOREM InvitesAreNotLost ==
    (RoundTrip /\ NoSingleUseReinvite) => (Spec => []InviteNeverLost)
<1> SUFFICES ASSUME RoundTrip, NoSingleUseReinvite PROVE Spec => []InviteNeverLost
  OBVIOUS
<1> DEFINE Inv == QueueInv /\ RefsInv /\ InviteInv
<1>1. Init => Inv
  BY QueueInit, RefsInit, InviteInit
<1>2. Inv /\ [Next]_vars => Inv'
  BY QueueKept, RefsKept, InviteKept
<1>3. Inv => InviteNeverLost
  BY DEF InviteInv
<1> QED
  BY <1>1, <1>2, <1>3, PTL DEF Spec

\* fetchWelcomes retires a Welcome unseen only as a replay of one that was
\* accepted: what the session acknowledges, it has joined.
THEOREM RetiredWereJoined ==
    (RoundTrip /\ NoSingleUseReinvite) => (Spec => []OnlyReplaysRetired)
<1> SUFFICES ASSUME RoundTrip, NoSingleUseReinvite PROVE Spec => []OnlyReplaysRetired
  OBVIOUS
<1> DEFINE Inv == QueueInv /\ RefsInv /\ InviteInv
<1>1. Init => Inv
  BY QueueInit, RefsInit, InviteInit
<1>2. Inv /\ [Next]_vars => Inv'
  BY QueueKept, RefsKept, InviteKept
<1>3. Inv => OnlyReplaysRetired
  BY DEF InviteInv, AcksOK, OnlyReplaysRetired
<1> QED
  BY <1>1, <1>2, <1>3, PTL DEF Spec
=============================================================================
