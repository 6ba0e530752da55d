---------------------------- MODULE GroupSession ----------------------------
(***************************************************************************)
(* One group as its members' sessions hold it (session.ts, groupSync.ts,   *)
(* pendingEpochOperations.ts, membershipFlow.ts): a member commits from    *)
(* the epoch it is at, posts the Commit, adopts its own result at once,    *)
(* confirms it when the echo comes back through the group's log, and only  *)
(* then sends the Welcome.  Nothing stops two members, or two devices that *)
(* share a leaf, from committing from one epoch; the coordinator's order   *)
(* decides which of the two Commits the group follows.                     *)
(*                                                                         *)
(* MLS is modelled by which state reads what.  The state of an epoch is    *)
(* its branch, the set of the Commits that led to it; a message is sealed  *)
(* under the branch its sender was at and opens under no other, because    *)
(* each seal uses the exporter secret of one epoch and no older secret is  *)
(* kept.  Documents, which let devices of one leaf converge, are not part  *)
(* of this module.                                                         *)
(***************************************************************************)
EXTENDS Naturals, Sequences, FiniteSets

CONSTANTS
    Devices,      \* sessions that are, or may become, members
    Identities,   \* stable public keys: at most one leaf of the group each
    IdentityOf,   \* IdentityOf[d]: devices of one identity share its leaf
    Founders,     \* the identities in the group at the start
    FirstAdmins,  \* adminPubkeys of its first metadata; none: all may administer
    None,         \* the target of a message that names nobody
    Wants,        \* bound: what members may do: [by, kind, target]
    MaxMessages,  \* bound: messages ever posted
    MaxCrashes    \* bound: MaxCrashes[d] crashes of d

ASSUME SessionAssumption ==
    /\ IdentityOf \in [Devices -> Identities]
    /\ Founders \subseteq Identities /\ FirstAdmins \subseteq Identities
    /\ None \notin Identities
    /\ Wants \subseteq [by : Devices, kind : {"add", "remove", "update", "app"},
                       target : Identities \cup {None}]
    /\ MaxMessages \in Nat /\ MaxCrashes \in [Devices -> Nat]

VARIABLES
    body,      \* body[c]: what message c is; messages are numbered as written
    inFlight,  \* posts on their way to the coordinator
    log,       \* the coordinator's log of the group: a message per cursor
    welcomes,  \* Welcomes stored: [id, after]
    mem,       \* mem[d]: the group in the session of d ...
    disk,      \* ... and in the snapshot d restarts from
    posting,   \* posting[d]: the post d awaits the answer of, 0 if none
    crashes,   \* crashes[d]: how often d crashed
    chain,     \* history: the Commits first in order after each other
    forgone,   \* history: own messages a restart or a rejoin no longer knows of
    rejoined   \* history: devices that replaced a state by that of a Welcome

coordinatorVars == <<inFlight, log, chain>>
deviceVars == <<mem, disk, posting, crashes, forgone, rejoined>>
vars == <<body, welcomes, coordinatorVars, deviceVars>>

-----------------------------------------------------------------------------
(* Messages and branches.                                                  *)

Ids == 1 .. Len(body)
Kinds == {"add", "remove", "update", "app"}

IsCommit(c) == body[c].kind # "app"
After(c) == body[c].base \cup {c}
Epoch(branch) == Cardinality(branch)

\* listGroupMembers: whose leaf the last Commit about t left in the tree.
IsMember(branch, t) ==
    LET about == {c \in branch : body[c].kind # "update" /\ body[c].target = t} IN
    IF about = {} THEN t \in Founders
    ELSE \E c \in about : body[c].kind = "add" /\ \A e \in about : e <= c

\* getGroupAdminPubkeys of the metadata in the group context, which an update
\* replaces: its target is the one administrator it names, if it names one.
AdminsOf(branch) ==
    LET updates == {c \in branch : body[c].kind = "update"} IN
    IF updates = {} THEN FirstAdmins
    ELSE {body[c].target : c \in {e \in updates : \A f \in updates : f <= e}} \ {None}

\* isGroupAdmin
IsAdmin(d) ==
    LET admins == AdminsOf(mem[d].state) IN
    admins = {} \/ IdentityOf[d] \in admins

\* prepareAddMember: who is in the group already is taken out and added anew.
Replaces(c) == body[c].kind = "add" /\ IsMember(body[c].base, body[c].target)

\* An Add alone needs no UpdatePath; a Remove, a replacement of a member and
\* new group context extensions do (RFC 9420, 12.4).
HasPath(c) == body[c].kind \in {"remove", "update"} \/ Replaces(c)

Sequenced == {log[k] : k \in 1 .. Len(log)}

\* The coordinator numbers the messages of a group from 1, without gaps.
CursorOf(c) == CHOOSE k \in 1 .. Len(log) : log[k] = c
Welcomed(c) == \E w \in welcomes : w.id = c

Absent == [status |-> "absent", state |-> {}, fetch |-> 0, pending |-> {},
           race |-> "none", skipped |-> {}]

Init ==
    LET start == [d \in Devices |->
                    IF IdentityOf[d] \in Founders
                    THEN [Absent EXCEPT !.status = "active"] ELSE Absent] IN
    /\ body = <<>> /\ inFlight = {} /\ log = <<>> /\ welcomes = {}
    /\ mem = start /\ disk = start
    /\ posting = [d \in Devices |-> 0] /\ crashes = [d \in Devices |-> 0]
    /\ chain = {} /\ forgone = {} /\ rejoined = {}

-----------------------------------------------------------------------------
(* Operations of a member.  An operator whose name ends in an underscore   *)
(* and a word is a plausible bug, to be substituted for the definition     *)
(* that follows it.                                                        *)

\* runGroupOperation: one operation or ingestion at a time.
LaneFree(d) == posting[d] = 0 /\ mem[d].status = "active"

\* encryptGroupPayload: the key is derived from the epoch of the sender's state.
Sealed(d, kind, t) == [by |-> d, kind |-> kind, target |-> t, base |-> mem[d].state]

\* The sealed message is on its way.  A watching session does not catch up
\* before.
Post(d, kind, t) ==
    /\ Len(body) < MaxMessages
    /\ LaneFree(d)
    /\ body' = Append(body, Sealed(d, kind, t))
    /\ inFlight' = inFlight \cup {Len(body) + 1}
    /\ posting' = [posting EXCEPT ![d] = Len(body) + 1]
    /\ UNCHANGED <<log, chain, welcomes, disk, crashes, forgone, rejoined>>

\* A pending operation: the cursor its Commit was posted at, 0 as long as the
\* post is unresolved, and whether its echo has been seen.
PendingOperation(c) == [id |-> c, cursor |-> 0, confirmed |-> FALSE]

\* enqueuePendingEpochOperation, before the Commit is posted.
Enqueue(d) ==
    mem' = [mem EXCEPT ![d].pending = @ \cup {PendingOperation(Len(body) + 1)}]

\* Where ConsumeKeyPackage returns no key package, nothing happens.
AddMember(d, t) ==
    /\ IsAdmin(d) /\ t \in Identities \ {IdentityOf[d]}
    /\ Post(d, "add", t) /\ Enqueue(d)

\* prepareRemoveMember fails for one who has no leaf in the group.
Removable(d, t) == IsMember(mem[d].state, t)

RemoveMember(d, t) ==
    /\ IsAdmin(d) /\ t # IdentityOf[d] /\ Removable(d, t)
    /\ Post(d, "remove", t) /\ Enqueue(d)

UpdateGroupMetadata(d, admin) ==
    /\ IsAdmin(d)
    /\ Post(d, "update", admin) /\ Enqueue(d)

SendMessage(d) == Post(d, "app", None) /\ mem' = mem

\* PostGroupMessage at the coordinator, whether its caller still waits or not.
PostArrives(c) ==
    /\ c \in inFlight
    /\ inFlight' = inFlight \ {c}
    /\ log' = Append(log, c)
    /\ chain' = IF IsCommit(c) /\ body[c].base = chain THEN chain \cup {c} ELSE chain
    /\ UNCHANGED <<body, welcomes, deviceVars>>

PostFails(d) ==
    /\ posting[d] # 0
    /\ posting' = [posting EXCEPT ![d] = 0]
    /\ UNCHANGED <<body, welcomes, coordinatorVars, mem, disk, crashes, forgone, rejoined>>

SendReturns(d) ==
    /\ posting[d] \in Sequenced /\ ~IsCommit(posting[d])
    /\ posting' = [posting EXCEPT ![d] = 0]
    /\ UNCHANGED <<body, welcomes, coordinatorVars, mem, disk, crashes, forgone, rejoined>>

\* isRemovedMemberCommitIssue: a replacement removes a leaf as a removal does.
RemovesLeafOf(d, c) ==
    body[c].kind \in {"add", "remove"} /\ body[c].target = IdentityOf[d]

RivalCursors_All(d, c) ==
    {k \in (mem[d].fetch + 1) .. Len(log) :
        IsCommit(log[k]) /\ body[log[k]].base = mem[d].state}

\* Where a Commit from the same state as c stands before c.
RivalCursors(d, c) ==
    {k \in (mem[d].fetch + 1) .. (CursorOf(c) - 1) :
        IsCommit(log[k]) /\ body[log[k]].base = mem[d].state}

\* recordCommitRace: what a session may conclude.  A first rival that removes
\* its own leaf may or may not move the probe's epoch, depending on how the
\* MLS library reports the removal; a fetch that fails leaves the question open.
Verdicts(d, c) ==
    LET rivals == RivalCursors(d, c)
        removesMe == \E k \in rivals : /\ \A j \in rivals : k <= j
                                       /\ RemovesLeafOf(d, log[k]) IN
    IF mem[d].skipped = {Epoch(mem[d].state)} THEN {"dead"}
    ELSE {mem[d].race}
         \cup (IF rivals # {} THEN {"dead"} ELSE {})
         \cup (IF (rivals = {} \/ removesMe) /\ mem[d].race # "dead" THEN {"live"} ELSE {})

\* dropPendingAddMemberForTarget
WithoutAddsOf_KeepsAll(pending, t) == pending

WithoutAddsOf(pending, t) ==
    {o \in pending : ~(body[o.id].kind = "add" /\ body[o.id].target = t)}

\* The answer of the post, recordCommitRace, adoptOwnCommit and what follows:
\* one step, because the lane is held throughout and a snapshot waits for it.
CommitReturns(d) ==
    LET c == posting[d]
        answered == {IF o.id = c THEN [o EXCEPT !.cursor = CursorOf(c)] ELSE o :
                        o \in mem[d].pending} IN
    /\ c \in Sequenced /\ IsCommit(c)
    /\ posting' = [posting EXCEPT ![d] = 0]
    /\ \E verdict \in Verdicts(d, c) :
          mem' = [mem EXCEPT
                    ![d].race = verdict,
                    ![d].state = After(c),
                    ![d].pending = IF body[c].kind = "remove"
                                   THEN WithoutAddsOf(answered, body[c].target)
                                   ELSE answered]
    /\ UNCHANGED <<body, welcomes, coordinatorVars, disk, crashes, forgone, rejoined>>

-----------------------------------------------------------------------------
(* Ingestion of the log, a message at a time and in order.  A batch of the *)
(* code is a run of these steps.                                           *)

Arriving(d) == log[mem[d].fetch + 1]

CanIngest(d) == LaneFree(d) /\ mem[d].fetch < Len(log)

Passed_SkipsOne(group) == [group EXCEPT !.fetch = @ + 2]

Passed(group) == [group EXCEPT !.fetch = @ + 1]

Opens_OlderEpochs(d, c) == body[c].base \subseteq mem[d].state

\* decryptGroupPayload under the exporter secret of the current epoch.
Opens(d, c) == body[c].base = mem[d].state

Operation(d, c) == {o \in mem[d].pending : o.id = c}
Confirm(pending, c) ==
    {IF o.id = c THEN [o EXCEPT !.confirmed = TRUE] ELSE o : o \in pending}

IsSiblingCommit_AnyPath(d, c) == IsCommit(c) /\ IdentityOf[body[c].by] = IdentityOf[d]

\* The sender's leaf is the receiver's, and the UpdatePath cannot be applied.
IsSiblingCommit(d, c) ==
    IsCommit(c) /\ IdentityOf[body[c].by] = IdentityOf[d] /\ HasPath(c)

Ingests(d, group) ==
    /\ mem' = [mem EXCEPT ![d] = Passed(group)]
    /\ UNCHANGED <<body, welcomes, coordinatorVars, disk, posting, crashes, forgone, rejoined>>

\* The wrapper is the one a pending operation posted: adopted already.
ConfirmEcho(d) ==
    /\ CanIngest(d)
    /\ \E o \in Operation(d, Arriving(d)) : o.cursor > 0
    /\ Ingests(d, [mem[d] EXCEPT !.pending = Confirm(@, Arriving(d))])

\* Sealed under another epoch: the cursor moves on without a trace.
SkipUnreadable(d) ==
    /\ CanIngest(d)
    /\ \A o \in Operation(d, Arriving(d)) : o.cursor = 0
    /\ ~Opens(d, Arriving(d))
    /\ Ingests(d, mem[d])

\* The echo of a post whose answer never came.  It is applied if the MLS
\* library can apply it; otherwise it only counts as applied.
ApplyOwnEcho(d) ==
    LET c == Arriving(d) IN
    /\ CanIngest(d) /\ Opens(d, c)
    /\ \E o \in Operation(d, c) : o.cursor = 0
    /\ Ingests(d, [mem[d] EXCEPT
                     !.state = IF HasPath(c) THEN @ ELSE After(c),
                     !.pending = Confirm(@, c)])

\* A sibling's Commit, or one of this device that a crash made it forget.
SkipSibling(d) ==
    LET c == Arriving(d) IN
    /\ CanIngest(d) /\ Opens(d, c) /\ Operation(d, c) = {}
    /\ IsSiblingCommit(d, c)
    /\ Ingests(d, [mem[d] EXCEPT !.skipped = {Epoch(mem[d].state)}])

BeRemoved(d) ==
    LET c == Arriving(d) IN
    /\ CanIngest(d) /\ Opens(d, c) /\ Operation(d, c) = {}
    /\ ~IsSiblingCommit(d, c) /\ RemovesLeafOf(d, c)
    /\ Ingests(d, [mem[d] EXCEPT !.status = "removed"])

\* A Commit moves the state, an application message is read under it.
Apply(d) ==
    LET c == Arriving(d) IN
    /\ CanIngest(d) /\ Opens(d, c) /\ Operation(d, c) = {}
    /\ ~IsSiblingCommit(d, c) /\ ~RemovesLeafOf(d, c)
    /\ Ingests(d, [mem[d] EXCEPT !.state = IF IsCommit(c) THEN After(c) ELSE @])

-----------------------------------------------------------------------------
(* Welcomes, snapshots, crashes.                                           *)

Finalize_Forgetful(d) ==
    /\ LaneFree(d)
    /\ \E o \in mem[d].pending :
          /\ o.confirmed
          /\ mem' = [mem EXCEPT ![d].pending = @ \ {o}]
          /\ welcomes' = welcomes
    /\ UNCHANGED <<body, coordinatorVars, disk, posting, crashes, forgone, rejoined>>

\* confirmPendingEpochOperations: the oldest confirmed operation, its Welcome
\* stored; an operation whose StoreWelcome was not answered is kept.
Finalize(d) ==
    /\ LaneFree(d)
    /\ \E o \in mem[d].pending :
          /\ o.confirmed
          /\ \A p \in mem[d].pending : p.confirmed => o.id <= p.id
          /\ IF body[o.id].kind = "add"
             THEN /\ welcomes' = welcomes \cup {[id |-> o.id, after |-> o.cursor]}
                  /\ mem' \in {mem, [mem EXCEPT ![d].pending = @ \ {o}]}
             ELSE /\ mem' = [mem EXCEPT ![d].pending = @ \ {o}]
                  /\ UNCHANGED welcomes
    /\ UNCHANGED <<body, coordinatorVars, disk, posting, crashes, forgone, rejoined>>

\* acceptWelcome: a Welcome whose epoch is not beyond that of the group held
\* is a replay.  This does not wait for the lane.
Join(d, w) ==
    LET old == mem[d] IN
    /\ body[w.id].target = IdentityOf[d]
    /\ old.status = "absent" \/ Epoch(old.state) < Epoch(After(w.id))
    /\ mem' = [mem EXCEPT ![d] = [old EXCEPT
                  !.status = "active", !.state = After(w.id), !.pending = {},
                  !.fetch = IF w.after > old.fetch THEN w.after ELSE old.fetch]]
    /\ forgone' = forgone \cup {o.id : o \in old.pending}
    /\ rejoined' = IF old.status = "absent" THEN rejoined ELSE rejoined \cup {d}
    /\ UNCHANGED <<body, welcomes, coordinatorVars, disk, posting, crashes>>

\* What exportSnapshot writes of a group: not the evidence about races.
Saved(group) == [group EXCEPT !.race = "none", !.skipped = {}]

\* persist, of exportSnapshotWhenIdle.  A snapshot no crash can follow is left
\* out by the bound.
Persist(d) ==
    /\ crashes[d] < MaxCrashes[d]
    /\ posting[d] = 0 /\ disk[d] # Saved(mem[d])
    /\ disk' = [disk EXCEPT ![d] = Saved(mem[d])]
    /\ UNCHANGED <<body, welcomes, coordinatorVars, mem, posting, crashes, forgone, rejoined>>

Crash(d) ==
    /\ crashes[d] < MaxCrashes[d]
    /\ disk[d] # mem[d] \/ posting[d] # 0
    /\ crashes' = [crashes EXCEPT ![d] = @ + 1]
    /\ mem' = [mem EXCEPT ![d] = disk[d]]
    /\ posting' = [posting EXCEPT ![d] = 0]
    /\ forgone' = forgone \cup
                    {c \in Ids : /\ body[c].by = d /\ c \notin disk[d].state
                                /\ \A o \in disk[d].pending : o.id # c}
    /\ UNCHANGED <<body, welcomes, coordinatorVars, disk, rejoined>>

Next ==
    \/ \E d \in Devices :
          \/ PostFails(d) \/ SendReturns(d) \/ CommitReturns(d)
          \/ ConfirmEcho(d) \/ SkipUnreadable(d) \/ ApplyOwnEcho(d)
          \/ SkipSibling(d) \/ BeRemoved(d) \/ Apply(d)
          \/ Finalize(d) \/ Persist(d) \/ Crash(d)
          \/ \E w \in welcomes : Join(d, w)
    \/ \E c \in inFlight : PostArrives(c)
    \/ \E want \in Wants :
          \/ want.kind = "add" /\ AddMember(want.by, want.target)
          \/ want.kind = "remove" /\ RemoveMember(want.by, want.target)
          \/ want.kind = "update" /\ UpdateGroupMetadata(want.by, want.target)
          \/ want.kind = "app" /\ SendMessage(want.by)

Spec == Init /\ [][Next]_vars

-----------------------------------------------------------------------------
(* Properties.                                                             *)

IsGroup(group) ==
    /\ group.status \in {"absent", "active", "removed"}
    /\ group.state \subseteq Ids /\ group.fetch \in 0 .. Len(log)
    /\ \A o \in group.pending :
          /\ o.id \in Ids /\ o.cursor \in 0 .. Len(log) /\ o.confirmed \in BOOLEAN
    /\ group.race \in {"none", "live", "dead"} /\ group.skipped \subseteq 0 .. Len(body)

\* Every cursor a session holds is one the log has reached, every branch and
\* operation is about a message that was written.
TypeOK ==
    /\ \A c \in Ids : /\ body[c].by \in Devices /\ body[c].kind \in Kinds
                      /\ body[c].target \in Identities \cup {None}
                      /\ body[c].base \subseteq 1 .. (c - 1)
    /\ inFlight \subseteq Ids /\ Sequenced \subseteq Ids /\ chain \subseteq Sequenced
    /\ \A w \in welcomes : w.id \in Ids /\ w.after \in 0 .. Len(log)
    /\ \A d \in Devices : IsGroup(mem[d]) /\ IsGroup(disk[d]) /\ posting[d] \in {0} \cup Ids
    /\ crashes \in [Devices -> Nat] /\ forgone \subseteq Ids /\ rejoined \subseteq Devices

OnChain(branch) == branch \subseteq chain
\* The Commit by which a branch leaves the chain, and the one it lost to.
Departs(branch, c) == c \in branch \ chain /\ OnChain(body[c].base)
Follows(branch, c) == c \in chain /\ body[c].base = branch
OwnLeaf(d, c) == IdentityOf[body[c].by] = IdentityOf[d] /\ HasPath(c)

\* Nobody is led off the chain by the log: a session on a dead branch wrote
\* the Commit that lost, or was welcomed behind it, or had to skip the
\* Commit that won because it came from its own leaf.
OnlyAuthorsFork ==
    \A d \in Devices \ rejoined : \A c \in Ids :
        Departs(mem[d].state, c) =>
            \/ body[c].by = d
            \/ \E e \in mem[d].state : e >= c /\ Welcomed(e) /\ body[e].target = IdentityOf[d]
            \/ \E win \in chain : body[win].base = body[c].base /\ OwnLeaf(d, win)

\* The cursor never passes the Commit that would take the session further
\* along the chain, through any order of posts, echoes, failures and
\* restarts; only a Commit from its own leaf is passed, and waits for a
\* document.
NeverStranded ==
    \A d \in Devices \ rejoined : \A c \in chain :
        (mem[d].status = "active" /\ Follows(mem[d].state, c) /\ ~OwnLeaf(d, c))
            => mem[d].fetch < CursorOf(c)

\* What recordCommitRace concludes from the part of the log before a Commit
\* is what the coordinator decided: a Commit judged dead is off the chain, one
\* judged live from a state on the chain is on it, unless the winner was
\* this device's own earlier post, removed its leaf, or was skipped before a
\* restart.
VerdictIsRight ==
    [][\A d \in Devices \ rejoined :
         LET c == posting[d]
             judged(verdict) == mem[d].race # verdict /\ mem'[d].race = verdict IN
         (c # 0 /\ posting'[d] = 0) =>
            /\ judged("dead") => c \notin chain
            /\ (judged("live") /\ OnChain(body[c].base)) =>
                  \/ c \in chain
                  \/ \E win \in chain :
                        /\ body[win].base = body[c].base
                        /\ \/ body[win].by = d \/ RemovesLeafOf(d, win)
                           \/ crashes[d] > 0 /\ OwnLeaf(d, win)]_vars

\* A Commit from an epoch in which a sibling's Commit was skipped has lost to
\* it and is never judged live (groupSync.ts:190, sessionState.ts:127).
SkippedMeansLost ==
    [][\A d \in Devices : \A win \in chain :
         LET c == posting[d] IN
         (/\ c # 0 /\ posting'[d] = 0 /\ mem'[d].state = After(c)
          /\ mem[d].race # "live" /\ mem'[d].race = "live"
          /\ CursorOf(win) <= mem[d].fetch)
            => ~(OwnLeaf(d, win) /\ body[win].by # d
                  /\ body[win].base = body[c].base)]_vars

\* Whoever holds a state with a member it added has sent that member's
\* Welcome or still means to: in memory and in the snapshot, unless a later
\* removal of its own took the invitation back.  A session that rejoined may
\* hold its addition without that removal, on a branch where the removal lost.
InvitationKept ==
    \A d \in Devices \ rejoined : \A group \in {mem[d], disk[d]} : \A c \in group.state :
        (body[c].by = d /\ body[c].kind = "add" /\ c \notin forgone) =>
            \/ Welcomed(c)
            \/ \E o \in group.pending : o.id = c
            \/ \E r \in group.state : /\ r > c /\ body[r].by = d
                                     /\ body[r].kind = "remove"
                                     /\ body[r].target = body[c].target

\* A session that removed a member holds no older invitation of it to send
\* when the echo arrives (session.ts: "never deliver a stale Welcome").
PendingAddsStand ==
    \A d \in Devices : \A o \in mem[d].pending : \A r \in mem[d].state :
        (body[o.id].kind = "add" /\ body[r].kind = "remove" /\ body[r].by = d /\ r > o.id)
            => body[r].target # body[o.id].target

\* A session that knows its Commit lost a race sends no Welcome for it
\* (multi-device.md 10: "no Welcome into a branch nobody is on").
LoserSendsNoWelcome ==
    [][\A w \in welcomes' \ welcomes :
         mem[body[w.id].by].race = "dead" => w.id \in chain]_vars
=============================================================================
