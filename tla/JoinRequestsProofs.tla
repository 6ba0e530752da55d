------------------------- MODULE JoinRequestsProofs -------------------------
(***************************************************************************)
(* No join request is consumed away unseen, for any identities, key        *)
(* packages, caps and ages, whatever the directory does meanwhile, as long *)
(* as an acknowledgement is executed later than the `at` it names.  The    *)
(* queue's side of it does not depend on the key packages at all; the      *)
(* directory's side is that of KeyPackages, also while administrators add  *)
(* members from it.                                                        *)
(***************************************************************************)
EXTENDS JoinRequests, KeyPackagesProofs

RowsOK ==
    /\ clock \in Nat /\ requests \subseteq stamps
    /\ \A r \in stamps : r.at \in Nat

\* A requester has one row.
OneRowEach == \A r, q \in requests : r.who = q.who => r = q

\* A row that left the queue is older than the clock, or than the row that
\* refreshed it: its identifier is not given again.
LeftEarlier ==
    \A q \in stamps \ requests :
        q.at < clock \/ \E r \in requests : r.who = q.who /\ r.at > q.at

RefsUnique == \A r, q \in stamps : RequestRef(r) = RequestRef(q) => r = q

\* What the administrator has seen of the queue was in it; what he acknowledges
\* was handled.
SeenOK == fetched \cup answer \cup disk.fetched \subseteq stamps

AcksHandled ==
    \A c \in acks \cup disk.acks \cup toAck \cup late :
        \E r \in stamps \cap settled : RequestRef(r) = c

RequestInv ==
    /\ RowsOK /\ OneRowEach /\ LeftEarlier /\ RefsUnique
    /\ SeenOK /\ AcksHandled /\ RequestNeverLost

-----------------------------------------------------------------------------
LEMMA RequestInit == Init => RequestInv
BY DEF Init, Saved, RequestInv, RowsOK, OneRowEach, LeftEarlier, RefsUnique, SeenOK,
   AcksHandled, RequestNeverLost

\* A request is stamped now or later, and past the row it refreshes.
LEMMA StampIsLater ==
    ASSUME RequestInv, NEW id
    PROVE  /\ RequestStamp(id) \in Nat /\ RequestStamp(id) >= clock
           /\ \A r \in requests : r.who = id => RequestStamp(id) > r.at
<1> DEFINE later == {r \in RowsOf(id) : r.at >= clock}
<1>1. /\ clock \in Nat /\ \A r \in requests : r.at \in Nat
      /\ \A r, q \in RowsOf(id) : r = q
      /\ \A r \in requests : r.who = id => r \in RowsOf(id)
      /\ RowsOf(id) \subseteq requests
  BY DEF RequestInv, RowsOK, OneRowEach, RowsOf
<1>2. CASE later = {}
  <2>1. RequestStamp(id) = clock
    BY <1>2 DEF RequestStamp
  <2> QED
    BY <1>1, <1>2, <2>1
<1>3. CASE later # {}
  <2>1. (CHOOSE r \in later : TRUE) \in later
    BY <1>3
  <2>2. PICK x \in later : x = CHOOSE r \in later : TRUE
    BY <2>1
  <2>3. RequestStamp(id) = x.at + 1
    BY <1>3, <2>2 DEF RequestStamp
  <2>4. x \in RowsOf(id) /\ x.at >= clock /\ x.at \in Nat
    BY <1>1
  <2>5. \A r \in requests : r.who = id => r = x
    BY <1>1, <2>4
  <2> QED
    BY <1>1, <2>3, <2>4, <2>5
<1> QED
  BY <1>2, <1>3

\* So it has an identifier no row ever had.
LEMMA StampIsNew ==
    ASSUME RequestInv, NEW id, NEW q \in stamps, q.who = id
    PROVE  q.at # RequestStamp(id)
<1>1. /\ RequestStamp(id) \in Nat /\ RequestStamp(id) >= clock
      /\ \A r \in requests : r.who = id => RequestStamp(id) > r.at
  BY StampIsLater
<1>2. q.at \in Nat /\ clock \in Nat /\ \A r \in requests : r.at \in Nat
  BY DEF RequestInv, RowsOK
<1>3. CASE q \in requests
  BY <1>1, <1>2, <1>3
<1>4. CASE q \notin requests
  <2>1. q.at < clock \/ \E r \in requests : r.who = q.who /\ r.at > q.at
    BY <1>4 DEF RequestInv, LeftEarlier
  <2> QED
    BY <1>1, <1>2, <2>1
<1> QED
  BY <1>3, <1>4

\* Acknowledgements that are in time retire only what was handled.
LEMMA Retires ==
    ASSUME RoundTrip, RequestInv, NEW consumed, consumed \subseteq toAck \cup late,
           InTime(consumed), requests' = Kept(consumed), UNCHANGED <<clock, stamps, settled>>
    PROVE  RowsOK' /\ OneRowEach' /\ LeftEarlier' /\ RefsUnique' /\ RequestNeverLost'
<1>1. requests' \subseteq requests
  BY DEF Kept
<1>2. \A r \in requests \ requests' : r \in settled /\ r.at < clock
  <2> SUFFICES ASSUME NEW r \in requests \ requests' PROVE r \in settled /\ r.at < clock
    OBVIOUS
  <2>1. RequestRef(r) \in consumed
    BY DEF Kept
  <2>2. PICK s \in stamps \cap settled : RequestRef(s) = RequestRef(r)
    BY <2>1 DEF RequestInv, AcksHandled
  <2>3. s = r
    BY <2>2 DEF RequestInv, RefsUnique, RowsOK
  <2> QED
    BY <2>1, <2>3 DEF InTime, RequestRef
<1>3. RowsOK' /\ OneRowEach' /\ RefsUnique' /\ RequestNeverLost'
  BY <1>1, <1>2 DEF RequestInv, RowsOK, OneRowEach, RefsUnique, RequestNeverLost, RequestRef
<1>4. LeftEarlier'
  <2> SUFFICES ASSUME NEW q \in stamps \ requests'
               PROVE  q.at < clock \/ \E r \in requests' : r.who = q.who /\ r.at > q.at
    BY DEF LeftEarlier
  <2>1. CASE q \in requests
    BY <1>2, <2>1
  <2>2. CASE q \notin requests
    <3>1. q.at < clock \/ \E r \in requests : r.who = q.who /\ r.at > q.at
      BY <2>2 DEF RequestInv, LeftEarlier
    <3>2. clock \in Nat /\ q.at \in Nat /\ \A r \in requests : r.at \in Nat
      BY DEF RequestInv, RowsOK
    <3>3. ASSUME NEW r \in requests, r.at > q.at, r \notin requests'
          PROVE  q.at < clock
      BY <1>2, <3>2, <3>3
    <3> QED
      BY <3>1, <3>3
  <2> QED
    BY <2>1, <2>2
<1> QED
  BY <1>3, <1>4

LEMMA StoreKeeps ==
    ASSUME RequestInv, NEW k \in Kps, StoreJoinRequest(k)
    PROVE  RequestInv'
<1> DEFINE id == OwnerOf[k]
           x == [who |-> id, kp |-> k, at |-> RequestStamp(id)]
<1>1. /\ requests' = (requests \ RowsOf(id)) \cup {x}
      /\ stamps' = stamps \cup {x}
      /\ settled' = settled \cup RowsOf(id)
      /\ UNCHANGED <<clock, fetched, acks, toAck, answer, late, disk>>
  BY DEF StoreJoinRequest, Stores, adminVars
<1>2. x.who = id /\ x.at = RequestStamp(id)
  OBVIOUS
<1>3. /\ x.at \in Nat /\ x.at >= clock
      /\ \A r \in requests : r.who = id => x.at > r.at
  BY <1>2, StampIsLater
<1>4. \A q \in stamps : RequestRef(q) # RequestRef(x)
  BY <1>2, StampIsNew DEF RequestRef
<1> HIDE DEF x, id
<1>5. /\ RowsOK /\ OneRowEach /\ LeftEarlier /\ RefsUnique /\ SeenOK /\ AcksHandled /\ RequestNeverLost
      /\ RowsOf(id) = {r \in requests : r.who = id}
  BY DEF RequestInv, RowsOf
<1>6. RowsOK'
  BY <1>1, <1>3, <1>5 DEF RowsOK
<1>7. OneRowEach'
  BY <1>1, <1>2, <1>5 DEF OneRowEach
<1>8. LeftEarlier'
  <2> SUFFICES ASSUME NEW q \in stamps' \ requests'
               PROVE  q.at < clock \/ \E r \in requests' : r.who = q.who /\ r.at > q.at
    BY <1>1 DEF LeftEarlier
  <2>1. q \in stamps /\ x \in requests' /\ q.at \in Nat
    BY <1>1, <1>5 DEF RowsOK
  <2>2. CASE q \in requests
    <3>1. q.who = id
      BY <1>1, <1>5, <2>2
    <3> QED
      BY <1>2, <1>3, <2>1, <2>2, <3>1
  <2>3. CASE q \notin requests /\ q.at >= clock
    <3>1. PICK r \in requests : r.who = q.who /\ r.at > q.at
      BY <1>5, <2>1, <2>3 DEF LeftEarlier, RowsOK
    <3>2. r.at \in Nat
      BY <1>5 DEF RowsOK
    <3>3. CASE r.who = id
      BY <1>2, <1>3, <2>1, <3>1, <3>2, <3>3
    <3>4. CASE r.who # id
      BY <1>1, <1>5, <3>1, <3>4
    <3> QED
      BY <3>3, <3>4
  <2> QED
    BY <1>5, <2>1, <2>2, <2>3 DEF RowsOK
<1>9. RefsUnique'
  BY <1>1, <1>4, <1>5 DEF RefsUnique, RequestRef
<1>10. SeenOK' /\ AcksHandled' /\ RequestNeverLost'
  BY <1>1, <1>5 DEF SeenOK, AcksHandled, RequestNeverLost, RequestRef
<1> QED
  BY <1>6, <1>7, <1>8, <1>9, <1>10 DEF RequestInv

LEMMA ExpiryKeeps ==
    ASSUME RequestInv, DeleteExpiredJoinRequests
    PROVE  RequestInv'
<1> DEFINE old == {r \in requests : r.at < clock - MaxAge}
<1>1. /\ requests' = requests \ old /\ settled' = settled \cup old
      /\ UNCHANGED <<clock, stamps, fetched, acks, toAck, answer, late, disk>>
  BY DEF DeleteExpiredJoinRequests, adminVars
<1>2. /\ clock \in Nat /\ MaxAge \in Nat /\ requests \subseteq stamps
      /\ \A r \in stamps : r.at \in Nat
  BY JoinRequestAssumption DEF RequestInv, RowsOK
<1>3. \A r \in old : r \in requests /\ r.at < clock
  BY <1>2
<1> HIDE DEF old
<1>4. LeftEarlier'
  <2> SUFFICES ASSUME NEW q \in stamps \ requests', ~(q.at < clock)
               PROVE  \E r \in requests' : r.who = q.who /\ r.at > q.at
    BY <1>1 DEF LeftEarlier
  <2>1. q \notin requests
    BY <1>1, <1>3
  <2>2. PICK r \in requests : r.who = q.who /\ r.at > q.at
    BY <2>1 DEF RequestInv, LeftEarlier
  <2>3. r \notin old
    BY <1>2, <1>3, <2>2
  <2> QED
    BY <1>1, <2>2, <2>3
<1> QED
  BY <1>1, <1>4 DEF RequestInv, RowsOK, OneRowEach, RefsUnique, SeenOK, AcksHandled,
     RequestNeverLost, RequestRef

\* Time, and a fetch that is answered or executed late.
LEMMA CoordinatorKeeps ==
    ASSUME RoundTrip, RequestInv, AnswerFetch \/ LateFetch \/ Tick
    PROVE  RequestInv'
<1>1. CASE AnswerFetch \/ LateFetch
  <2>1. RowsOK' /\ OneRowEach' /\ LeftEarlier' /\ RefsUnique' /\ RequestNeverLost'
    BY <1>1, Retires DEF AnswerFetch, LateFetch
  <2>2. SeenOK' /\ AcksHandled'
    BY <1>1 DEF AnswerFetch, LateFetch, Kept, RequestInv, RowsOK, SeenOK, AcksHandled, RequestRef
  <2> QED
    BY <2>1, <2>2 DEF RequestInv
<1>2. CASE Tick
  BY <1>2 DEF Tick, adminVars, RequestInv, RowsOK, OneRowEach, LeftEarlier, RefsUnique, SeenOK,
     AcksHandled, RequestNeverLost, RequestRef
<1> QED
  BY <1>1, <1>2

\* The administrator: what he handles he was answered.
LEMMA AdministratorKeeps ==
    ASSUME RequestInv,
           \/ FetchJoinRequests \/ FetchReturns \/ FetchFails \/ AddMemberFails \/ Persist
           \/ Crash \/ \E k \in Kps : AddMemberConsumes(k) \/ AddMemberCompletes(k)
    PROVE  RequestInv'
<1>1. UNCHANGED <<clock, requests, stamps>> /\ settled \subseteq settled'
  BY DEF FetchJoinRequests, FetchReturns, FetchFails, AddMemberFails, Persist, Crash,
     AddMemberConsumes, AddMemberCompletes, queueVars
<1>2. RowsOK' /\ OneRowEach' /\ LeftEarlier' /\ RefsUnique' /\ RequestNeverLost'
  BY <1>1 DEF RequestInv, RowsOK, OneRowEach, LeftEarlier, RefsUnique, RequestNeverLost, RequestRef
<1>3. SeenOK /\ AcksHandled
  BY DEF RequestInv
<1>4. SeenOK'
  BY <1>1, <1>3 DEF SeenOK, FetchJoinRequests, FetchReturns, FetchFails, AddMemberFails,
     Persist, Crash, AddMemberConsumes, AddMemberCompletes, Saved
<1>5. ASSUME NEW k \in Kps, AddMemberCompletes(k)
      PROVE  AcksHandled'
  <2>1. Handled(k) \subseteq stamps /\ \A r \in Handled(k) : r.kp = k
    BY <1>3 DEF Handled, SeenOK
  <2>2. Handled(k) \subseteq settled'
    BY <1>5, <2>1 DEF AddMemberCompletes
  <2> QED
    BY <1>1, <1>3, <1>5, <2>1, <2>2 DEF AddMemberCompletes, AcksHandled, RequestRef
<1>6. CASE \/ FetchJoinRequests \/ FetchReturns \/ FetchFails \/ AddMemberFails \/ Persist
           \/ Crash \/ \E k \in Kps : AddMemberConsumes(k)
  <2>1. /\ UNCHANGED <<stamps, settled>>
        /\ acks' \cup disk'.acks \cup toAck' \cup late'
              \subseteq acks \cup disk.acks \cup toAck \cup late
    BY <1>6 DEF FetchJoinRequests, FetchReturns, FetchFails, AddMemberFails, Persist, Crash,
       AddMemberConsumes, queueVars, Saved
  <2> QED
    BY <1>2, <1>3, <1>4, <2>1 DEF AcksHandled, RequestRef, RequestInv
<1> QED
  BY <1>2, <1>4, <1>5, <1>6 DEF RequestInv

LEMMA RequestKept ==
    ASSUME RoundTrip, RequestInv, [Next]_vars
    PROVE  RequestInv'
<1>1. CASE UNCHANGED <<queueVars, adminVars>>
  BY <1>1 DEF queueVars, adminVars, RequestInv, RowsOK, OneRowEach, LeftEarlier, RefsUnique,
     SeenOK, AcksHandled, RequestNeverLost, RequestRef
<1> QED
  BY <1>1, StoreKeeps, ExpiryKeeps, CoordinatorKeeps, AdministratorKeeps DEF Next, vars

\* Every request the coordinator took waits until an administrator adds its key
\* package, its requester refreshes it or it expires: a re-request survives the
\* acknowledgement of the request it follows, although that one may be executed
\* late (storeJoinRequest in inMemoryStorage.ts).
THEOREM RequestsAreNotLost == RoundTrip => (Spec => []RequestNeverLost)
<1> SUFFICES ASSUME RoundTrip PROVE Spec => []RequestNeverLost
  OBVIOUS
<1>1. Init => RequestInv
  BY RequestInit
<1>2. RequestInv /\ [Next]_vars => RequestInv'
  BY RequestKept
<1>3. RequestInv => RequestNeverLost
  BY DEF RequestInv
<1> QED
  BY <1>1, <1>2, <1>3, PTL DEF Spec

-----------------------------------------------------------------------------
(* The directory in the composition.                                       *)

LEMMA DirectorySteps ==
    ASSUME [Next]_vars
    PROVE  [KpNext]_kpVars
<1>1. ASSUME NEW k \in Kps, AddMemberConsumes(k)
      PROVE  ConsumeKeyPackage
  <2>1. OwnerOf[k] \in Identities
    BY KeyPackageAssumption
  <2> QED
    BY <1>1, <2>1 DEF AddMemberConsumes, ConsumeKeyPackage
<1>2. ASSUME \/ \E k \in Kps : StoreJoinRequest(k) \/ AddMemberCompletes(k)
             \/ FetchJoinRequests \/ AnswerFetch \/ LateFetch \/ FetchReturns \/ FetchFails
             \/ AddMemberFails \/ Persist \/ Crash \/ DeleteExpiredJoinRequests \/ Tick
      PROVE  UNCHANGED kpVars
  BY <1>2 DEF StoreJoinRequest, AddMemberCompletes, FetchJoinRequests, AnswerFetch, LateFetch,
     FetchReturns, FetchFails, AddMemberFails, Persist, Crash, DeleteExpiredJoinRequests, Tick
<1>3. UNCHANGED vars => UNCHANGED kpVars
  BY DEF vars
<1> QED
  BY <1>1, <1>2, <1>3 DEF Next, KpNext, DirectoryNext

\* An addition of a member is to the directory a consumption like any other
\* (addMember in session.ts): what KeyPackages promises holds in the composition.
THEOREM ImplementsDirectory == Spec => KpSpec
<1>1. Init => KpInit
  BY DEF Init
<1>2. [Next]_vars => [KpNext]_kpVars
  BY DirectorySteps
<1> QED
  BY <1>1, <1>2, PTL DEF Spec, KpSpec

-----------------------------------------------------------------------------
(* Types.                                                                  *)

QueueTypes ==
    /\ clock \in 0..MaxClock
    /\ requests \subseteq stamps /\ stamps \subseteq Row /\ settled \subseteq stamps
    /\ IsFiniteSet(requests) /\ Cardinality(requests) <= MaxPending

AdminTypes ==
    /\ disk \in [fetched : SUBSET Row, acks : SUBSET RowRef]
    /\ fetched \subseteq Row /\ answer \subseteq Row
    /\ acks \subseteq RowRef /\ toAck \subseteq RowRef /\ late \subseteq RowRef
    /\ call \in {"idle", "sent", "answered"} /\ adding \subseteq Kps
    /\ SeenOK

\* A refresh takes the place of a row, a new row fits under the cap.
LEMMA StoredFits ==
    ASSUME NEW x, IsFiniteSet(requests), Cardinality(requests) <= MaxPending, Stores(x)
    PROVE  IsFiniteSet(requests') /\ Cardinality(requests') <= MaxPending
<1>1. Cardinality(requests) \in Nat /\ MaxPending \in Nat
  BY FS_CardinalityType, JoinRequestAssumption
<1>2. CASE RowsOf(x.who) = {}
  <2>1. requests' = requests \cup {x} /\ Cardinality(requests) < MaxPending
    BY <1>2 DEF Stores
  <2>2. /\ IsFiniteSet(requests \cup {x})
        /\ Cardinality(requests \cup {x})
             = IF x \in requests THEN Cardinality(requests) ELSE Cardinality(requests) + 1
    BY FS_AddElement
  <2> QED
    BY <1>1, <2>1, <2>2
<1>3. CASE RowsOf(x.who) # {}
  <2>1. PICK q \in requests : q \in RowsOf(x.who)
    BY <1>3 DEF RowsOf
  <2> DEFINE rest == requests \ {q}
  <2>2. IsFiniteSet(rest) /\ Cardinality(rest) = Cardinality(requests) - 1
    BY FS_RemoveElement
  <2>3. /\ IsFiniteSet(rest \cup {x})
        /\ Cardinality(rest \cup {x})
             = IF x \in rest THEN Cardinality(rest) ELSE Cardinality(rest) + 1
    BY <2>2, FS_AddElement
  <2>4. requests' \in SUBSET (rest \cup {x})
    BY <2>1 DEF Stores
  <2>5. IsFiniteSet(requests') /\ Cardinality(requests') <= Cardinality(rest \cup {x})
    BY <2>3, <2>4, FS_Subset
  <2>6. Cardinality(requests') \in Nat
    BY <2>5, FS_CardinalityType
  <2> HIDE DEF rest
  <2> QED
    BY <1>1, <2>2, <2>3, <2>5, <2>6
<1> QED
  BY <1>2, <1>3

LEMMA FewerFit ==
    ASSUME IsFiniteSet(requests), Cardinality(requests) <= MaxPending, requests' \subseteq requests
    PROVE  IsFiniteSet(requests') /\ Cardinality(requests') <= MaxPending
<1>1. IsFiniteSet(requests') /\ Cardinality(requests') <= Cardinality(requests)
  BY FS_Subset
<1>2. Cardinality(requests) \in Nat /\ Cardinality(requests') \in Nat /\ MaxPending \in Nat
  BY <1>1, FS_CardinalityType, JoinRequestAssumption
<1> QED
  BY <1>1, <1>2

LEMMA StampIsNat ==
    ASSUME QueueTypes, NEW id
    PROVE  RequestStamp(id) \in Nat
<1> DEFINE later == {r \in RowsOf(id) : r.at >= clock}
<1>1. clock \in Nat /\ \A r \in requests : r.at \in Nat
  BY JoinRequestAssumption DEF QueueTypes, Row
<1>2. CASE later = {}
  BY <1>1, <1>2 DEF RequestStamp
<1>3. CASE later # {}
  <2>1. PICK x \in later : x = CHOOSE r \in later : TRUE
    BY <1>3, Zenon
  <2>2. x.at \in Nat
    BY <1>1, <2>1 DEF RowsOf
  <2>3. RequestStamp(id) = x.at + 1
    BY <1>3, <2>1 DEF RequestStamp
  <2> QED
    BY <2>2, <2>3
<1> QED
  BY <1>2, <1>3

LEMMA StoreTypes ==
    ASSUME QueueTypes, NEW k \in Kps, StoreJoinRequest(k)
    PROVE  QueueTypes'
<1> DEFINE x == [who |-> OwnerOf[k], kp |-> k, at |-> RequestStamp(OwnerOf[k])]
<1>1. /\ x.at < MaxClock /\ Stores(x)
      /\ stamps' = stamps \cup {x}
      /\ settled' = settled \cup RowsOf(x.who) /\ clock' = clock
  BY DEF StoreJoinRequest
<1>2. x \in Row
  <2>1. RequestStamp(OwnerOf[k]) \in 0..MaxClock
    BY <1>1, StampIsNat, JoinRequestAssumption
  <2>2. OwnerOf[k] \in Identities
    BY KeyPackageAssumption
  <2> QED
    BY <2>1, <2>2 DEF Row
<1> HIDE DEF x
<1>3. IsFiniteSet(requests') /\ Cardinality(requests') <= MaxPending
  BY <1>1, StoredFits DEF QueueTypes
<1>4. requests' = (requests \ RowsOf(x.who)) \cup {x} /\ RowsOf(x.who) \subseteq requests
  BY <1>1 DEF Stores, RowsOf
<1> QED
  BY <1>1, <1>2, <1>3, <1>4 DEF QueueTypes

LEMMA QueueTypesKept ==
    ASSUME QueueTypes, AdminTypes, [Next]_vars
    PROVE  QueueTypes'
<1>1. CASE UNCHANGED queueVars
  BY <1>1 DEF queueVars, QueueTypes
<1>2. CASE AnswerFetch \/ LateFetch
  <2>1. requests' \subseteq requests /\ UNCHANGED <<clock, stamps, settled>>
    BY <1>2 DEF AnswerFetch, LateFetch, Kept
  <2> QED
    BY <2>1, FewerFit DEF QueueTypes
<1>3. CASE DeleteExpiredJoinRequests
  <2>1. /\ requests' \subseteq requests /\ settled' \subseteq settled \cup requests
        /\ UNCHANGED <<clock, stamps>>
    BY <1>3 DEF DeleteExpiredJoinRequests
  <2> QED
    BY <2>1, FewerFit DEF QueueTypes
<1>4. ASSUME NEW k \in Kps, AddMemberCompletes(k)
      PROVE  QueueTypes'
  <2>1. Handled(k) \subseteq fetched
    BY DEF Handled
  <2>2. UNCHANGED <<clock, requests, stamps>>
    BY <1>4 DEF AddMemberCompletes
  <2> QED
    BY <1>4, <2>1, <2>2 DEF QueueTypes, AdminTypes, SeenOK, AddMemberCompletes
<1>5. CASE Tick
  <2>1. clock' \in 0..MaxClock
    BY <1>5, JoinRequestAssumption DEF Tick, QueueTypes
  <2> QED
    BY <1>5, <2>1 DEF Tick, QueueTypes
<1>6. ASSUME \/ FetchJoinRequests \/ FetchReturns \/ FetchFails \/ AddMemberFails \/ Persist
             \/ Crash \/ \E k \in Kps : AddMemberConsumes(k)
      PROVE  UNCHANGED queueVars
  BY <1>6 DEF FetchJoinRequests, FetchReturns, FetchFails, AddMemberFails, Persist, Crash,
     AddMemberConsumes
<1> QED
  BY <1>1, <1>2, <1>3, <1>4, <1>5, <1>6, StoreTypes DEF Next, vars

\* What the administrator sees was in the queue, what he acknowledges he has seen.
LEMMA AdminTypesKept ==
    ASSUME QueueTypes, AdminTypes, [Next]_vars
    PROVE  AdminTypes'
<1>1. /\ requests \subseteq stamps /\ stamps \subseteq Row /\ stamps \subseteq stamps'
      /\ disk.fetched \subseteq Row /\ disk.acks \subseteq RowRef
      /\ \A r \in Row : RequestRef(r) \in RowRef
  <2>1. stamps \subseteq stamps'
    BY DEF Next, vars, queueVars, StoreJoinRequest, AddMemberConsumes, AddMemberCompletes,
       FetchJoinRequests, AnswerFetch, LateFetch, FetchReturns, FetchFails, AddMemberFails,
       Persist, Crash, DeleteExpiredJoinRequests, Tick
  <2> QED
    BY <2>1 DEF QueueTypes, AdminTypes, RequestRef, Row, RowRef
<1>2. CASE UNCHANGED adminVars
  BY <1>1, <1>2 DEF adminVars, AdminTypes, SeenOK
<1>3. CASE FetchJoinRequests
  BY <1>1, <1>3 DEF FetchJoinRequests, AdminTypes, SeenOK
<1>4. CASE AnswerFetch
  BY <1>1, <1>4 DEF AnswerFetch, Kept, AdminTypes, SeenOK
<1>5. CASE LateFetch
  BY <1>1, <1>5 DEF LateFetch, AdminTypes, SeenOK
<1>6. CASE FetchReturns
  BY <1>1, <1>6 DEF FetchReturns, AdminTypes, SeenOK
<1>7. CASE FetchFails
  BY <1>1, <1>7 DEF FetchFails, AdminTypes, SeenOK
<1>8. ASSUME NEW k \in Kps, AddMemberConsumes(k)
      PROVE  AdminTypes'
  BY <1>1, <1>8 DEF AddMemberConsumes, AdminTypes, SeenOK
<1>9. ASSUME NEW k \in Kps, AddMemberCompletes(k)
      PROVE  AdminTypes'
  <2>1. {RequestRef(r) : r \in Handled(k)} \subseteq RowRef
    BY <1>1 DEF Handled, AdminTypes
  <2> QED
    BY <1>1, <1>9, <2>1 DEF AddMemberCompletes, AdminTypes, SeenOK
<1>10. CASE AddMemberFails
  BY <1>1, <1>10 DEF AddMemberFails, AdminTypes, SeenOK
<1>11. CASE Persist
  BY <1>1, <1>11 DEF Persist, Saved, AdminTypes, SeenOK
<1>12. CASE Crash
  BY <1>1, <1>12 DEF Crash, AdminTypes, SeenOK
<1>13. ASSUME \/ \E k \in Kps : StoreJoinRequest(k)
              \/ DeleteExpiredJoinRequests \/ Tick
       PROVE  UNCHANGED adminVars
  BY <1>13 DEF StoreJoinRequest, DeleteExpiredJoinRequests, Tick
<1> QED
  BY <1>2, <1>3, <1>4, <1>5, <1>6, <1>7, <1>8, <1>9, <1>10, <1>11, <1>12, <1>13 DEF Next, vars

\* The queue stays within its cap however requests are refreshed, acknowledged and
\* expired, and every variable keeps its type (storeJoinRequest of both storages).
THEOREM RequestTypes == Spec => []TypeOK
<1> DEFINE Types == KpInv /\ QueueTypes /\ AdminTypes
<1>1. Init => Types
  <2> SUFFICES ASSUME Init PROVE Types
    OBVIOUS
  <2>1. KpInv
    BY KpInvInit DEF Init
  <2>2. QueueTypes
    BY FS_EmptySet, JoinRequestAssumption DEF Init, QueueTypes
  <2>3. AdminTypes
    BY DEF Init, Saved, AdminTypes, SeenOK
  <2> QED
    BY <2>1, <2>2, <2>3
<1>2. Types /\ [Next]_vars => Types'
  BY DirectorySteps, KpInvNext, QueueTypesKept, AdminTypesKept
<1>3. Types => TypeOK
  BY KpTypes DEF QueueTypes, AdminTypes, TypeOK
<1> HIDE DEF Types
<1> QED
  BY <1>1, <1>2, <1>3, PTL DEF Spec
=============================================================================
