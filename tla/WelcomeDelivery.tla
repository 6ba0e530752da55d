-------------------------- MODULE WelcomeDelivery --------------------------
(***************************************************************************)
(* How an invitation reaches its invitee: the coordinator's queue of       *)
(* Welcomes for one identity (coordinator.ts, inMemoryStorage.ts,          *)
(* sqliteStorage.ts), the inviter that retries StoreWelcome, and the       *)
(* daemon that fetches, accepts, persists and acknowledges (main.ts,       *)
(* session.ts, sessionStore.ts, persistentSession.ts).  Calls can be slow, *)
(* lost, answered in vain or executed after their caller gave up; the      *)
(* daemon can crash and restart from its last snapshot.                    *)
(*                                                                         *)
(* An acknowledgement names a Welcome by <<kp_ref, at>>, so what must be   *)
(* right is that this pair means the same Welcome to both sides.           *)
(***************************************************************************)
EXTENDS Naturals, FiniteSets, FiniteSetsExt

CONSTANTS
    Invites,      \* Welcomes inviters may make for this identity
    Occasions,    \* which of them one behaviour has
    KpRef,        \* KpRef[i]: the key package i is encrypted to
    LastResort,   \* the key package refs that are last-resort, hence reusable
    GroupOf,      \* GroupOf[i]: the group i joins
    EpochOf,      \* EpochOf[i]: the epoch i joins it at
    MaxAge,       \* maxAgeMs of the coordinator's cleanup
    MaxAccepted,  \* MAX_ACCEPTED_WELCOME_IDS
    RoundTrip,    \* TRUE: an ack is executed later than the `at` it names
    MaxClock,     \* bound: the coordinator's clock, and the `at` of a Welcome
    MaxCopies,    \* bound: copies of one StoreWelcome call under way
    MaxCrashes    \* bound: crashes of the daemon

Refs == {KpRef[i] : i \in Invites}
Groups == {GroupOf[i] : i \in Invites}

\* The coordinator hands a key package that is not last-resort to one inviter.
ASSUME WelcomeAssumption ==
    /\ IsFiniteSet(Invites) /\ Occasions \subseteq SUBSET Invites
    /\ \A i, j \in Invites : (KpRef[i] = KpRef[j] /\ i # j) => KpRef[i] \in LastResort
    /\ EpochOf \in [Invites -> Nat \ {0}]
    /\ MaxAge \in Nat /\ MaxClock \in Nat /\ MaxCopies \in Nat /\ MaxCrashes \in Nat
    /\ MaxAccepted \in Nat \ {0}
    /\ RoundTrip \in BOOLEAN

VARIABLES
    invited,    \* the Welcomes made in this behaviour
    clock,      \* now() of the coordinator
    pending,    \* the coordinator's queue: [invite, at]
    copies,     \* copies[i]: StoreWelcome calls for i on their way
    confirmed,  \* invites whose StoreWelcome was answered to the inviter
    mem,        \* the session's state ...
    disk,       \* ... and the snapshot a restart finds
    unsaved,    \* an accept has not been persisted yet
    accepting,  \* the Welcomes (at most one) whose accept awaits unwatchGroup
    call,       \* the daemon's FetchPendingWelcomes: "idle", "sent", "answered"
    toAck,      \* the acks that call carries
    answer,     \* the Welcomes it was answered
    late,       \* acks of calls their caller gave up on, still on their way
    crashes,    \* how often the daemon crashed
    stamps,     \* history: every [invite, at] the queue ever held
    expired     \* history: invites deleted by age

coordinatorVars == <<clock, pending, stamps, expired>>
inviterVars == <<invited, copies, confirmed>>
callVars == <<call, toAck, answer, late>>
daemonVars == <<mem, disk, unsaved, accepting, crashes>>
vars == <<coordinatorVars, inviterVars, callVars, daemonVars>>

WelcomeRef(w) == [ref |-> KpRef[w.invite], at |-> w.at]

Fresh == [consumed |-> {}, welcomes |-> {}, accepted |-> {}, acks |-> {},
          epoch |-> [g \in Groups |-> 0]]

Init ==
    /\ clock = 0 /\ pending = {} /\ stamps = {} /\ expired = {}
    /\ invited \in Occasions
    /\ copies = [i \in Invites |-> 0] /\ confirmed = {}
    /\ call = "idle" /\ toAck = {} /\ answer = {} /\ late = {}
    /\ mem = Fresh /\ disk = Fresh
    /\ unsaved = FALSE /\ accepting = {} /\ crashes = 0

-----------------------------------------------------------------------------
(* The inviter and the coordinator.  An operator whose name ends in an     *)
(* underscore and a word is a plausible bug, to be substituted for the     *)
(* definition that follows it.                                             *)

\* confirmPendingEpochOperations: until StoreWelcome answered, every sync of
\* the inviter calls it again.
SendWelcome(i) ==
    /\ i \in invited \ confirmed /\ copies[i] < MaxCopies
    /\ copies' = [copies EXCEPT ![i] = @ + 1]
    /\ UNCHANGED <<coordinatorVars, invited, confirmed, callVars, daemonVars>>

Stamp_Now(i) == clock

\* `at`: now, pushed past the pending Welcomes of the same key package.
Stamp(i) ==
    Max({clock} \cup {w.at + 1 : w \in {v \in pending : KpRef[v.invite] = KpRef[i]}})

\* storeWelcome: an exact duplicate of a pending Welcome answers that one.
Queues(i) ==
    LET w == [invite |-> i, at |-> Stamp(i)] IN
    IF \E v \in pending : v.invite = i
    THEN UNCHANGED <<pending, stamps>>
    ELSE w.at < MaxClock /\ pending' = pending \cup {w} /\ stamps' = stamps \cup {w}

\* The coordinator executes a call, and the inviter may hear of it.
StoreWelcome(i) ==
    /\ copies[i] > 0
    /\ copies' = [copies EXCEPT ![i] = @ - 1]
    /\ Queues(i)
    /\ confirmed' \in {confirmed, confirmed \cup {i}}
    /\ UNCHANGED <<clock, expired, invited, callVars, daemonVars>>

\* fetchPendingWelcomes: what is left of the queue once acks are applied.
Retained(acks) == {w \in pending : WelcomeRef(w) \notin acks}

InTime(acks) == RoundTrip => \A c \in acks : c.at < clock

AnswerFetch ==
    /\ call = "sent" /\ InTime(toAck)
    /\ pending' = Retained(toAck)
    /\ answer' = Retained(toAck)
    /\ call' = "answered"
    /\ UNCHANGED <<clock, stamps, expired, inviterVars, toAck, late, daemonVars>>

\* A call its caller gave up on is executed all the same.
LateFetch ==
    /\ late # {} /\ InTime(late)
    /\ pending' = Retained(late)
    /\ late' = {}
    /\ UNCHANGED <<clock, stamps, expired, inviterVars, call, toAck, answer, daemonVars>>

\* deleteExpiredWelcomes, from the cleanup timer.
DeleteExpiredWelcomes ==
    LET old == {w \in pending : w.at < clock - MaxAge} IN
    /\ MaxAge > 0 /\ clock > MaxAge /\ old # {}
    /\ pending' = pending \ old
    /\ expired' = expired \cup {w.invite : w \in old}
    /\ UNCHANGED <<clock, stamps, inviterVars, callVars, daemonVars>>

Tick ==
    /\ clock < MaxClock
    /\ clock' = clock + 1
    /\ UNCHANGED <<pending, stamps, expired, inviterVars, callVars, daemonVars>>

-----------------------------------------------------------------------------
(* The daemon: one loop, so a fetch, an accept and its persist follow one  *)
(* another.                                                                *)

Ready == call = "idle" /\ ~unsaved /\ accepting = {}

FetchWelcomes ==
    /\ Ready
    /\ call' = "sent"
    /\ toAck' = mem.acks
    /\ answer' = {}
    /\ UNCHANGED <<coordinatorVars, inviterVars, late, daemonVars>>

Capped_Unbounded(old, new) == {old \cup new}

\* CappedRefSet.add, several refs at once: which of the older ones are evicted
\* is left open.
Capped(old, new) ==
    {S \in SUBSET (old \cup new) :
        Cardinality(S) <= MaxAccepted
        /\ (Cardinality(old \cup new) <= MaxAccepted => S = old \cup new)
        /\ (Cardinality(old \cup new) > MaxAccepted => Cardinality(S) = MaxAccepted)}

\* A Welcome to a single-use key package that was consumed is a replay.
IsReplay(w) == KpRef[w.invite] \in mem.consumed \ LastResort

ReplayRefs_Skipped(replays) == {}

\* retireWelcome: a replay is acknowledged once more.
ReplayRefs(replays) == {WelcomeRef(w) : w \in replays}

\* hasWelcome, putWelcome: a Welcome is known while it is stored, and by its
\* identifier once it was accepted.
Known(w) ==
    WelcomeRef(w) \in mem.accepted \cup {WelcomeRef(v) : v \in mem.welcomes}

\* clearConsumedWelcomes: what the call carried, not what was queued meanwhile.
StillToAck == mem.acks \ toAck

\* The continuation of fetchWelcomes: forget the acks it carried, retire
\* replays, keep what is new.
FetchReturns ==
    LET replays == {w \in answer : IsReplay(w)}
        refs == ReplayRefs(replays)
        new == {w \in answer \ replays : ~Known(w)}
    IN  /\ call = "answered"
        /\ call' = "idle" /\ toAck' = {} /\ answer' = {}
        /\ \E ids \in Capped(mem.accepted, refs) :
              mem' = [mem EXCEPT !.acks = StillToAck \cup refs,
                                 !.welcomes = (@ \ {w \in @ : WelcomeRef(w) \in refs}) \cup new,
                                 !.accepted = ids]
        /\ UNCHANGED <<coordinatorVars, inviterVars, late, disk, unsaved, accepting, crashes>>

\* The fetch throws: its acks stay queued, the call may still be under way.
FetchFails ==
    /\ call \in {"sent", "answered"}
    /\ call' = "idle" /\ toAck' = {} /\ answer' = {}
    /\ late' \in IF call = "sent" /\ late = {} THEN {{}, toAck} ELSE {late}
    /\ UNCHANGED <<coordinatorVars, inviterVars, daemonVars>>

Superseded(epoch, i) == epoch[GroupOf[i]] >= EpochOf[i]

Joined_Overwrites(epoch, i) == [epoch EXCEPT ![GroupOf[i]] = EpochOf[i]]

Joined_OffByOne(epoch, i) ==
    IF epoch[GroupOf[i]] + 1 >= EpochOf[i] THEN epoch ELSE [epoch EXCEPT ![GroupOf[i]] = EpochOf[i]]

\* A Welcome of an older epoch than the group's is a stale replay.
Joined(epoch, i) ==
    IF Superseded(epoch, i) THEN epoch ELSE [epoch EXCEPT ![GroupOf[i]] = EpochOf[i]]

\* acceptStoredWelcome: the Welcome is opened and its key package consumed.
Opened(session, w) == [session EXCEPT !.consumed = @ \cup {KpRef[w.invite]}]

\* The rest of acceptWelcome once nothing is awaited: adopt the group's state,
\* deleteWelcome.
Finish(w) ==
    \E ids \in Capped(mem.accepted, {WelcomeRef(w)}) :
        mem' = [Opened(mem, w) EXCEPT
                           !.epoch = Joined(@, w.invite),
                           !.acks = @ \cup {WelcomeRef(w)},
                           !.welcomes = @ \ {w},
                           !.accepted = ids]

\* The loop of the daemon accepts what it holds the key package for.
Acceptable(w) == w \in mem.welcomes /\ ~IsReplay(w)

AcceptWelcome(w) ==
    /\ Ready /\ Acceptable(w)
    /\ Finish(w)
    /\ unsaved' = TRUE
    /\ UNCHANGED <<coordinatorVars, inviterVars, callVars, disk, accepting, crashes>>

\* A re-invite to a group that is being watched: the key package is marked
\* consumed, then acceptWelcome awaits unwatchGroup.
AcceptAwaitsUnwatch(w) ==
    /\ Ready /\ Acceptable(w)
    /\ mem.epoch[GroupOf[w.invite]] > 0 /\ ~Superseded(mem.epoch, w.invite)
    /\ mem' = Opened(mem, w)
    /\ accepting' = {w}
    /\ UNCHANGED <<coordinatorVars, inviterVars, callVars, disk, unsaved, crashes>>

AcceptResumes(w) ==
    /\ w \in accepting
    /\ Finish(w)
    /\ accepting' = {}
    /\ unsaved' = TRUE
    /\ UNCHANGED <<coordinatorVars, inviterVars, callVars, disk, crashes>>

\* persist: after an accept, and whenever a watched group ingested messages.
Persist ==
    /\ unsaved \/ (disk # mem /\ \E g \in Groups : mem.epoch[g] > 0)
    /\ disk' = mem
    /\ unsaved' = FALSE
    /\ UNCHANGED <<coordinatorVars, inviterVars, callVars, mem, accepting, crashes>>

\* The process dies and a new one opens the snapshot.
Crash ==
    /\ crashes < MaxCrashes
    /\ crashes' = crashes + 1
    /\ mem' = disk
    /\ unsaved' = FALSE /\ accepting' = {}
    /\ call' = "idle" /\ toAck' = {} /\ answer' = {}
    /\ late' \in IF call = "sent" /\ late = {} THEN {{}, toAck} ELSE {late}
    /\ UNCHANGED <<coordinatorVars, inviterVars, disk>>

-----------------------------------------------------------------------------
Next ==
    \/ \E i \in Invites : SendWelcome(i) \/ StoreWelcome(i)
    \/ AnswerFetch \/ LateFetch \/ DeleteExpiredWelcomes \/ Tick
    \/ FetchWelcomes \/ FetchReturns \/ FetchFails
    \/ \E w \in mem.welcomes : AcceptWelcome(w) \/ AcceptAwaitsUnwatch(w)
    \/ \E w \in accepting : AcceptResumes(w)
    \/ Persist \/ Crash

Spec == Init /\ [][Next]_vars

\* Time passes, the daemon polls for ever, and of the polls of a live network
\* not every one fails; an accept that was begun goes on.
FairSpec ==
    /\ Spec
    /\ WF_vars(Tick)
    /\ WF_vars(FetchWelcomes) /\ SF_vars(AnswerFetch) /\ SF_vars(FetchReturns)
    /\ SF_vars(\E w \in mem.welcomes : AcceptWelcome(w))
    /\ WF_vars(\E w \in accepting : AcceptResumes(w))
    /\ WF_vars(Persist)

-----------------------------------------------------------------------------
(* Properties.                                                             *)

Welcome == [invite : Invites, at : Nat]
Ack == [ref : Refs, at : Nat]
Session == [consumed : SUBSET Refs, welcomes : SUBSET Welcome, accepted : SUBSET Ack,
            acks : SUBSET Ack, epoch : [Groups -> Nat]]

TypeOK ==
    /\ clock \in 0..MaxClock
    /\ pending \subseteq stamps /\ stamps \subseteq Welcome
    /\ copies \in [Invites -> 0..MaxCopies] /\ confirmed \subseteq invited
    /\ mem \in Session /\ disk \in Session
    /\ unsaved \in BOOLEAN /\ accepting \subseteq Welcome /\ crashes \in 0..MaxCrashes
    /\ call \in {"idle", "sent", "answered"}
    /\ toAck \subseteq Ack /\ answer \subseteq Welcome /\ late \subseteq Ack
    /\ expired \subseteq Invites
    /\ Cardinality(mem.accepted) <= MaxAccepted

\* No invitation is lost: a Welcome the coordinator took stays in its queue
\* until it expires or the snapshot the invitee would restart from has joined
\* its group, whatever is retried, lost, late or interrupted by a crash
\* (consumed acks in fetchPendingWelcomes, peek/clearConsumedWelcomes, persist
\* before the next fetch in the daemon's loop).
InviteNeverLost ==
    \A w \in stamps :
        \/ w \in pending
        \/ w.invite \in expired
        \/ Superseded(disk.epoch, w.invite)

\* <<kp_ref, at>> identifies a record: "make `at` unique within that target/ref
\* even on millisecond clocks and across coordinator restarts" (storeWelcome).
WelcomeRefsUnique ==
    \A v, w \in stamps : WelcomeRef(v) = WelcomeRef(w) => v = w

\* fetchWelcomes retires a Welcome unseen only as a replay of one that was
\* accepted: what the session acknowledges, it has joined.
OnlyReplaysRetired ==
    \A w \in stamps : WelcomeRef(w) \in mem.acks => Superseded(mem.epoch, w.invite)

\* No replayed, re-sent or re-read Welcome takes a group back to an older epoch
\* across restarts (the epoch comparison of acceptWelcome, and snapshots that
\* only ever succeed one another).
NeverRollsBack == [][\A g \in Groups : disk'.epoch[g] >= disk.epoch[g]]_vars

\* Every Welcome in the queue is eventually joined and saved, or expires,
\* although calls fail and the daemon may crash.
EventuallyJoined ==
    \A i \in Invites :
        (\E w \in pending : w.invite = i) ~> (Superseded(disk.epoch, i) \/ i \in expired)

\* The queue drains: no Welcome stays in it for ever once it could be read; a
\* lost acknowledgement is sent again, a replay is acknowledged again.
EventuallyRetired ==
    \A w \in [invite : Invites, at : 0..MaxClock] : w \in pending ~> w \notin pending
=============================================================================
