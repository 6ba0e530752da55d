---------------------------- MODULE JoinRequests ----------------------------
(***************************************************************************)
(* Joining by request: the queue of pending join requests of one group     *)
(* (coordinator.ts, inMemoryStorage.ts, sqliteStorage.ts), the requesters  *)
(* and an administrator who fetches requests, adds members and             *)
(* acknowledges what is handled (session.ts, sessionStore.ts).  It is      *)
(* composed with the directory of KeyPackages: a request refers to a       *)
(* published key package, which anyone may consume meanwhile.              *)
(***************************************************************************)
EXTENDS KeyPackages

CONSTANTS
    MaxPending,  \* MAX_PENDING_JOIN_REQUESTS_PER_GROUP
    MaxAge,      \* maxAgeMs of the coordinator's cleanup
    RoundTrip,   \* TRUE: an ack is executed later than the `at` it names
    MaxClock     \* bound: the coordinator's clock, and the `at` of a request

ASSUME JoinRequestAssumption ==
    /\ MaxPending \in Nat \ {0} /\ MaxAge \in Nat /\ MaxClock \in Nat
    /\ RoundTrip \in BOOLEAN

VARIABLES
    clock,      \* now() of the coordinator
    requests,   \* pending rows of the group: [who, kp, at]
    fetched,    \* rows the administrator saw with the last fetch
    acks,       \* requests handled, to be acknowledged: [who, at]
    call,       \* the administrator's fetch: "idle", "sent", "answered"
    toAck,      \* the acks that call carries
    answer,     \* the rows it was answered
    late,       \* acks of a fetch given up, still on their way
    adding,     \* the key packages (at most one) of an addMember under way
    disk,       \* the administrator's snapshot: its `fetched` and `acks`
    stamps,     \* history: every row the queue ever held
    settled     \* history: rows handled, refreshed by a re-request or expired

adminVars == <<fetched, acks, call, toAck, answer, late, adding, disk>>
queueVars == <<clock, requests, stamps, settled>>
vars == <<kpVars, queueVars, adminVars>>

RequestRef(r) == [who |-> r.who, at |-> r.at]

\* What exportSnapshot writes of the administrator.
Saved == [fetched |-> fetched, acks |-> acks]

Init ==
    /\ KpInit
    /\ clock = 0 /\ requests = {} /\ stamps = {} /\ settled = {}
    /\ fetched = {} /\ acks = {} /\ call = "idle" /\ toAck = {} /\ answer = {}
    /\ late = {} /\ adding = {} /\ disk = Saved

-----------------------------------------------------------------------------
\* The row id has in the queue, if any.
RowsOf(id) == {r \in requests : r.who = id}

RequestStamp_Now(id) == clock

\* `at`: now, pushed past the row it refreshes.
RequestStamp(id) ==
    LET later == {r \in RowsOf(id) : r.at >= clock}
    IN  IF later = {} THEN clock ELSE (CHOOSE r \in later : TRUE).at + 1

Stores_Uncapped(r) == requests' = (requests \ RowsOf(r.who)) \cup {r}

\* A re-request refreshes the row in place, a new row must fit under the cap.
Stores(r) ==
    /\ RowsOf(r.who) = {} => Cardinality(requests) < MaxPending
    /\ requests' = (requests \ RowsOf(r.who)) \cup {r}

\* The session publishes the key package before it asks.
Requestable(k) == k \in marked

\* storeJoinRequest: the handler refuses a ref that is not listed.
StoreJoinRequest(k) ==
    LET r == [who |-> OwnerOf[k], kp |-> k, at |-> RequestStamp(OwnerOf[k])] IN
    /\ Requestable(k) /\ Listed(k) /\ r.at < MaxClock
    /\ Stores(r)
    /\ stamps' = stamps \cup {r}
    /\ settled' = settled \cup RowsOf(r.who)
    /\ UNCHANGED <<clock, kpVars, adminVars>>

Kept(consumed) == {r \in requests : RequestRef(r) \notin consumed}

InTime(consumed) == RoundTrip => \A c \in consumed : c.at < clock

\* The administrator's fetch: acks go with it and are kept until it succeeds.
FetchJoinRequests ==
    /\ call = "idle"
    /\ call' = "sent" /\ toAck' = acks
    /\ UNCHANGED <<kpVars, queueVars, fetched, acks, answer, late, adding, disk>>

AnswerFetch ==
    /\ call = "sent" /\ InTime(toAck)
    /\ requests' = Kept(toAck) /\ answer' = Kept(toAck)
    /\ call' = "answered"
    /\ UNCHANGED <<kpVars, clock, stamps, settled, fetched, acks, toAck, late, adding, disk>>

LateFetch ==
    /\ late # {} /\ InTime(late)
    /\ requests' = Kept(late) /\ late' = {}
    /\ UNCHANGED <<kpVars, clock, stamps, settled, fetched, acks, call, toAck, answer, adding, disk>>

\* clearConsumedJoinRequests forgets what was sent, not what an addMember
\* queued meanwhile.
FetchReturns ==
    /\ call = "answered"
    /\ call' = "idle" /\ toAck' = {} /\ answer' = {}
    /\ acks' = acks \ toAck
    /\ fetched' = answer
    /\ UNCHANGED <<kpVars, queueVars, late, adding, disk>>

FetchFails ==
    /\ call \in {"sent", "answered"}
    /\ call' = "idle" /\ toAck' = {} /\ answer' = {}
    /\ late' \in IF call = "sent" /\ late = {} THEN {{}, toAck} ELSE {late}
    /\ UNCHANGED <<kpVars, queueVars, fetched, acks, adding, disk>>

\* addMember, called with a key package ref or with an identity: it consumes
\* the key package and then awaits the post of its Commit.
AddMemberConsumes(k) ==
    /\ adding = {}
    /\ ConsumeByRef(k) \/ (ConsumeByIdentity(OwnerOf[k]) /\ k = NextFor(published[OwnerOf[k]]))
    /\ adding' = {k}
    /\ UNCHANGED <<queueVars, fetched, acks, call, toAck, answer, late, disk>>

\* findFetchedJoinRequest: the newest request fetched for exactly this key
\* package.
Handled(k) ==
    LET matching == {r \in fetched : r.who = OwnerOf[k] /\ r.kp = k}
    IN  {r \in matching : \A q \in matching : q.at <= r.at}

\* ... the Commit is posted: the request it resolves is queued for retirement.
AddMemberCompletes(k) ==
    /\ k \in adding
    /\ adding' = {}
    /\ acks' = acks \cup {RequestRef(r) : r \in Handled(k)}
    /\ settled' = settled \cup {r \in Handled(k) : r.kp = k}
    /\ UNCHANGED <<kpVars, clock, requests, stamps, fetched, call, toAck, answer, late, disk>>

\* ... or posting it fails; the key package is spent.
AddMemberFails ==
    /\ adding # {}
    /\ adding' = {}
    /\ UNCHANGED <<kpVars, queueVars, fetched, acks, call, toAck, answer, late, disk>>

\* persist: the snapshot waits for a group operation to end, not for a fetch.
Persist ==
    /\ adding = {} /\ disk # Saved
    /\ disk' = Saved
    /\ UNCHANGED <<kpVars, queueVars, fetched, acks, call, toAck, answer, late, adding>>

\* The administrator's process ends and is started again from its snapshot
\* (restoreTransientState): a fetch may still be on its way, an addMember is lost
\* with what it consumed.
Crash ==
    /\ fetched' = disk.fetched /\ acks' = disk.acks
    /\ call' = "idle" /\ toAck' = {} /\ answer' = {} /\ adding' = {}
    /\ late' \in IF call = "sent" /\ late = {} THEN {{}, toAck} ELSE {late}
    /\ UNCHANGED <<kpVars, queueVars, disk>>

DeleteExpiredJoinRequests ==
    LET old == {r \in requests : r.at < clock - MaxAge} IN
    /\ MaxAge > 0 /\ clock > MaxAge /\ old # {}
    /\ requests' = requests \ old
    /\ settled' = settled \cup old
    /\ UNCHANGED <<kpVars, clock, stamps, adminVars>>

Tick ==
    /\ clock < MaxClock
    /\ clock' = clock + 1
    /\ UNCHANGED <<kpVars, requests, stamps, settled, adminVars>>

Next ==
    \/ DirectoryNext /\ UNCHANGED <<queueVars, adminVars>>
    \/ \E k \in Kps : StoreJoinRequest(k) \/ AddMemberConsumes(k) \/ AddMemberCompletes(k)
    \/ FetchJoinRequests \/ AnswerFetch \/ LateFetch \/ FetchReturns \/ FetchFails
    \/ AddMemberFails \/ Persist \/ Crash \/ DeleteExpiredJoinRequests \/ Tick

Spec == Init /\ [][Next]_vars

-----------------------------------------------------------------------------
(* Properties.                                                             *)

Row == [who : Identities, kp : Kps, at : 0..MaxClock]
RowRef == [who : Identities, at : 0..MaxClock]

TypeOK ==
    /\ KpTypeOK
    /\ clock \in 0..MaxClock
    /\ requests \subseteq stamps /\ stamps \subseteq Row /\ settled \subseteq stamps
    /\ Cardinality(requests) <= MaxPending
    /\ disk \in [fetched : SUBSET Row, acks : SUBSET RowRef]
    /\ fetched \subseteq Row /\ answer \subseteq Row
    /\ acks \subseteq RowRef /\ toAck \subseteq RowRef /\ late \subseteq RowRef
    /\ call \in {"idle", "sent", "answered"} /\ adding \subseteq Kps

\* A request is not consumed away unseen: every request the coordinator took
\* waits until an administrator adds its key package, its requester refreshes it
\* or it expires.  In particular a re-request survives the acknowledgement of
\* the request it follows, although that one may be executed late ("making the
\* user send twice", storeJoinRequest in inMemoryStorage.ts).
RequestNeverLost == \A r \in stamps : r \in requests \/ r \in settled

=============================================================================
