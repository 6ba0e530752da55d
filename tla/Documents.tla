----------------------------- MODULE Documents -----------------------------
(***************************************************************************)
(* One group on several devices that share one MLS leaf: what the          *)
(* coordinator's log cannot carry to a sibling, the keys a Commit of the   *)
(* leaf made, travels in group documents (multiDevice.ts, and the          *)
(* multi-device part of session.ts).  A device publishes its state under   *)
(* the address of the document before it, reads the documents of its       *)
(* siblings in whatever order it gets them, follows an advance, resolves a *)
(* fork, and may replay the log epoch by epoch along a chain of documents. *)
(*                                                                         *)
(* The other members are one environment that follows the coordinator's    *)
(* order and may lag behind it.  A state is its branch, the set of the     *)
(* cursors of the Commits that led to it, together with the application    *)
(* messages whose keys it has used up; a message is sealed under a branch  *)
(* and opens under no other.  A document's address is a hash: only its     *)
(* rank among the addresses matters, and any rank is possible.  Commits of *)
(* the leaf carry an UpdatePath; application messages of the leaf itself,  *)
(* and posts whose answer is lost, are not part of this module.            *)
(*                                                                         *)
(* applyDocumentEntry awaits the chain and the log between its comparison  *)
(* of epochs and the adoption, and holds no lane: operations of the group  *)
(* run meanwhile, and only another document has to wait.                   *)
(***************************************************************************)
EXTENDS Naturals, Sequences, FiniteSets

CONSTANTS
    Devices,      \* sessions that share the leaf
    Others,       \* the author of everything the other members post
    MaxLog,       \* bound: messages posted
    MaxDocs       \* bound: documents published

ASSUME DocumentsAssumption ==
    /\ Others \notin Devices
    /\ MaxLog \in Nat /\ MaxDocs \in Nat \ {0}

VARIABLES
    log,       \* the coordinator's log: [by, commit, base] per cursor
    chain,     \* history: the branch the coordinator's order makes
    docs,      \* docs[a]: the document at address a, once published
    group,     \* group[d]: the group in the session of d
    lastTip,   \* lastPublishedGroupTip of the process of d, 0 if none
    working,   \* working[d]: the document d is reconciling, if any, and since which epoch
    strayed    \* history: whether the evidence d has may name the wrong branch,
               \* as when a document was read against an epoch d has since left

vars == <<log, chain, docs, group, lastTip, working, strayed>>

-----------------------------------------------------------------------------
(* States, messages, documents.                                            *)

Cursors == 1 .. Len(log)
Addresses == 1 .. MaxDocs
Epoch(branch) == Cardinality(branch)

\* The states the other members can be in: the branch as of some cursor.
Followed == {{c \in chain : c <= k} : k \in 0 .. Len(log)}

NoPoint == {}
NoDecision == [epoch |-> 0, branch |-> {}, by |-> "none"]
NoDocument == [address |-> 0, cursor |-> 0]
Idle == [address |-> 0, base |-> {}, since |-> 0]

First(S) == CHOOSE k \in S : \A j \in S : k <= j
Larger(m, n) == IF m > n THEN m ELSE n

\* noteFingerprint: one fingerprint per epoch, the latest.
NoteFingerprint(held, branch) ==
    {b \in held : Epoch(b) # Epoch(branch)} \cup {branch}

\* A group adopted from document a: its state, cursor and fingerprint.
Seeded(a) ==
    [branch |-> docs[a].branch, read |-> docs[a].read, fetch |-> docs[a].cursor,
     race |-> "none", skipped |-> {}, point |-> NoPoint, published |-> FALSE,
     pending |-> {}, held |-> {docs[a].branch},
     applied |-> [address |-> a, cursor |-> docs[a].cursor],
     decision |-> NoDecision]

\* buildGroupDocument
Document(branch, read, cursor, prev) ==
    [branch |-> branch, read |-> read, cursor |-> cursor, prev |-> prev]

\* One device founded the group and published it, the others were seeded.
Founding == Document({}, {}, 0, 0)
Init ==
    /\ log = <<>> /\ chain = {}
    /\ docs = [a \in {1} |-> Founding]
    /\ group = [d \in Devices |-> Seeded(1)]
    /\ lastTip \in {[d \in Devices |-> IF d = f THEN 1 ELSE 0] : f \in Devices}
    /\ working = [d \in Devices |-> Idle]
    /\ strayed = [d \in Devices |-> FALSE]

-----------------------------------------------------------------------------
(* The group's log.  An operator whose name ends in an underscore and a    *)
(* word is a plausible bug, to be substituted for the definition that      *)
(* follows it.                                                             *)

Posts(by, commit, base) ==
    /\ Len(log) < MaxLog
    /\ log' = Append(log, [by |-> by, commit |-> commit, base |-> base])
    /\ chain' = IF commit /\ base = chain THEN chain \cup {Len(log) + 1} ELSE chain

OthersPost ==
    /\ \E commit \in BOOLEAN, base \in Followed : Posts(Others, commit, base)
    /\ UNCHANGED <<docs, group, lastTip, working, strayed>>

Verdict_Latest(g) == "live"

\* What recordCommitRace makes of the log between the cursor and the post; a win
\* changes nothing on a branch the group does not follow.
Verdict(g) ==
    IF \/ g.race = "dead" \/ g.skipped = {Epoch(g.branch)}
       \/ \E c \in Cursors : c > g.fetch /\ log[c].commit /\ log[c].base = g.branch
    THEN "dead" ELSE "live"

\* A Commit of this device: posted, judged, adopted under its lane.
Commit(d) ==
    LET g == group[d]
        next == g.branch \cup {Len(log) + 1} IN
    /\ Posts(d, TRUE, g.branch)
    /\ group' = [group EXCEPT ![d] = [g EXCEPT
          !.race = Verdict(g), !.branch = next, !.read = {},
          !.held = NoteFingerprint(NoteFingerprint(g.held, g.branch), next),
          !.point = next, !.published = FALSE,
          !.pending = @ \cup {Len(log) + 1}]]
    /\ strayed' = [strayed EXCEPT
          ![d] = @ \/ (Verdict(g) = "live" /\ ~(g.branch \subseteq chain))]
    /\ UNCHANGED <<docs, lastTip, working>>

\* One message through applyIncomingMessages and ingestGroupMessages: the echo
\* of a Commit adopted already, a message sealed under another branch, a Commit
\* of the own leaf, a Commit or a message of another member.
Ingested(g, c) ==
    CASE c \in g.pending -> [g EXCEPT !.fetch = c, !.pending = @ \ {c}]
      [] c \notin g.pending /\ log[c].base # g.branch -> [g EXCEPT !.fetch = c]
      [] c \notin g.pending /\ log[c].base = g.branch /\ log[c].commit ->
            IF log[c].by = Others
            THEN [g EXCEPT !.fetch = c, !.branch = @ \cup {c}, !.read = {}]
            ELSE [g EXCEPT !.fetch = c, !.skipped = {Epoch(g.branch)}]
      [] OTHER -> [g EXCEPT !.fetch = c, !.read = @ \cup {c}]

\* History: message c takes a session that is on the group's branch off its
\* order.  A Commit of the group is passed before its key has come, or a Commit
\* that lost to the sibling's just skipped is applied.
Strays(g, c) ==
    /\ g.branch \subseteq chain /\ log[c].commit /\ c \notin g.branch
    /\ (c \in chain) # (log[c].base = g.branch)

\* History: a session that has just taken over a document of the group's branch is
\* past a Commit of the group which that document knows nothing of.
Missed(g) == g.branch \subseteq chain /\ \E c \in chain \ g.branch : c <= g.fetch

Sync(d) ==
    LET c == group[d].fetch + 1 IN
    /\ c \in Cursors
    /\ group' = [group EXCEPT ![d] = Ingested(@, c)]
    /\ strayed' = [strayed EXCEPT ![d] = @ \/ Strays(group[d], c)]
    /\ UNCHANGED <<log, chain, docs, lastTip, working>>

-----------------------------------------------------------------------------
(* Publishing.                                                             *)

\* The cursor of the Commit that made a branch.
CommitCursor(branch) == CHOOSE c \in branch : \A e \in branch : e <= c

AtCommitPoint(g) == g.point # NoPoint /\ Epoch(g.point) = Epoch(g.branch)

\* The commit point goes into the chain first, once the state has moved on.
PointDue(g) == AtCommitPoint(g) /\ ~g.published /\ g.fetch > CommitCursor(g.point)

PublishCursor_Next(g) == g.fetch + 1

PublishCursor(g) ==
    IF AtCommitPoint(g) THEN Larger(g.fetch, CommitCursor(g.point)) ELSE g.fetch

\* publishGroupDocument.  The caller names the document it extends, or leaves
\* that to the root the process remembers.
Publish(d, given) ==
    LET g == group[d]
        root == IF given # 0 THEN given ELSE lastTip[d]
        live(prev) == Document(g.branch, g.read, PublishCursor(g), prev)
        point == Document(g.point, {}, CommitCursor(g.point), root)
        unused == Addresses \ DOMAIN docs IN
    /\ \E a \in unused :
          /\ IF PointDue(g)
             THEN \E p \in unused \ {a} :
                     docs' = [x \in DOMAIN docs \cup {a, p} |->
                                CASE x = a -> live(p)
                                  [] x = p -> point
                                  [] OTHER -> docs[x]]
             ELSE docs' = [x \in DOMAIN docs \cup {a} |->
                             IF x = a THEN live(root) ELSE docs[x]]
          /\ lastTip' = [lastTip EXCEPT ![d] = a]
          /\ group' = [group EXCEPT
                ![d].published = @ \/ AtCommitPoint(g),
                ![d].applied = [address |-> a, cursor |-> PublishCursor(g)]]
    /\ UNCHANGED <<log, chain, working, strayed>>

-----------------------------------------------------------------------------
(* Reading a chain of documents.                                         *)

\* Path(a)[k]: the document k hops below a, 0 below the root of the chain.
Path(a) ==
    LET path[k \in 0 .. MaxDocs] ==
            IF k = 0 THEN a ELSE IF path[k - 1] = 0 THEN 0 ELSE docs[path[k - 1]].prev
    IN  path

EpochAt(a) == Epoch(docs[a].branch)

\* lowestDocumentAtEpoch: of the documents at an epoch on the chain from a, the
\* first with the lowest cursor; none when the walk cannot start.
LowestAt(a, epoch) ==
    LET path == Path(a)
        seen == {k \in 0 .. MaxDocs :
                   \A j \in 0 .. k : path[j] # 0 /\ EpochAt(path[j]) >= epoch}
        at == {k \in seen : EpochAt(path[k]) = epoch} IN
    IF at = {} THEN NoDocument
    ELSE LET best == CHOOSE k \in at :
                        \A j \in at : \/ docs[path[k]].cursor < docs[path[j]].cursor
                                      \/ docs[path[k]].cursor = docs[path[j]].cursor /\ k <= j
         IN  [address |-> path[best], cursor |-> docs[path[best]].cursor]

\* chainMeetsLocal: the first document below a whose state this device held at
\* an epoch of its own or before.
Meets(g, a) ==
    LET path == Path(a)
        hits == {k \in 1 .. MaxDocs :
                   /\ \A j \in 1 .. k : path[j] # 0
                   /\ EpochAt(path[k]) <= Epoch(g.branch)
                   /\ docs[path[k]].branch \in g.held} IN
    IF hits = {} THEN [kind |-> "unknown", epoch |-> 0]
    ELSE LET met == EpochAt(path[First(hits)]) IN
         [kind |-> IF met = Epoch(g.branch) THEN "descends" ELSE "forkedAt", epoch |-> met]

-----------------------------------------------------------------------------
(* Resolving a fork between the state of g and that of document a.         *)

\* ingestOnProbe: the branch a probe is at behind the messages up to c.
Probe(branch, from) ==
    LET at[c \in from .. Len(log)] ==
            IF c = from THEN branch
            ELSE IF log[c].by = Others /\ log[c].commit /\ log[c].base = at[c - 1]
                 THEN at[c - 1] \cup {c} ELSE at[c - 1]
    IN  at

\* The messages that open on the probe and come from another leaf.
SignalsAt(branch, read, from) ==
    {c \in Cursors : /\ c > from /\ log[c].by = Others
                     /\ log[c].base = Probe(branch, from)[c - 1]
                     /\ log[c].commit \/ c \notin read}

\* thirdPartyVerdict: which branch the first telling message names.
ThirdParty(g, a) ==
    LET ours == SignalsAt(g.branch, g.read, g.fetch)
        theirs == SignalsAt(docs[a].branch, docs[a].read, g.fetch) IN
    IF ours \cup theirs = {} THEN "none"
    ELSE IF First(ours \cup theirs) \in theirs THEN "adopt" ELSE "keep"

LowerWins_Higher(theirs, ours) ==
    \/ theirs.cursor > ours.cursor
    \/ theirs.cursor = ours.cursor /\ theirs.address > ours.address

LowerWins(theirs, ours) ==
    \/ theirs.cursor < ours.cursor
    \/ theirs.cursor = ours.cursor /\ theirs.address > ours.address

\* Where the Commit of this device's side landed: read off its documents, or
\* its own commit point when that is lower.
OwnRank(g, epoch) ==
    LET read == IF g.applied.address = 0 THEN NoDocument
                ELSE LowestAt(g.applied.address, epoch) IN
    IF /\ g.point # NoPoint /\ Epoch(g.point) = epoch
       /\ read = NoDocument \/ CommitCursor(g.point) < read.cursor
    THEN [address |-> 0, cursor |-> CommitCursor(g.point)] ELSE read

\* rankBranches: TRUE for theirs.
RankSaysTheirs(g, epoch, a) ==
    LET theirs == LowestAt(a, epoch)
        ours == OwnRank(g, epoch)
        live == [address |-> a, cursor |-> docs[a].cursor] IN
    IF theirs # NoDocument /\ ours # NoDocument THEN LowerWins(theirs, ours)
    ELSE \/ g.applied.address = 0
         \/ live.cursor > g.applied.cursor
         \/ live.cursor = g.applied.cursor /\ live.address > g.applied.address

Decision_RankFirst(g, base, a) ==
    IF g.race # "none" THEN [adopt |-> g.race = "dead", by |-> "coordinator-order"]
    ELSE [adopt |-> RankSaysTheirs(g, base + 1, a), by |-> "rank"]

\* resolveFork: evidence of the own Commit's race, then what the other members
\* follow, then a decision already taken, then the rank.
Decision(g, base, a) ==
    LET verdict == ThirdParty(g, a) IN
    CASE g.race # "none" -> [adopt |-> g.race = "dead", by |-> "coordinator-order"]
      [] g.race = "none" /\ verdict # "none" ->
            [adopt |-> verdict = "adopt", by |-> "third-party"]
      [] g.race = "none" /\ verdict = "none" /\ g.decision.epoch = base + 1 ->
            [adopt |-> g.decision.branch = docs[a].branch, by |-> g.decision.by]
      [] OTHER -> [adopt |-> RankSaysTheirs(g, base + 1, a), by |-> "rank"]

-----------------------------------------------------------------------------
(* Reconciling a document: applyDocumentEntry.                             *)

Adopted(g, a) ==
    [g EXCEPT !.branch = docs[a].branch, !.read = docs[a].read,
              !.fetch = Larger(@, docs[a].cursor),
              !.held = NoteFingerprint(@, docs[a].branch),
              !.applied = [address |-> a, cursor |-> docs[a].cursor],
              !.race = "none", !.skipped = {},
              !.point = NoPoint, !.published = FALSE, !.pending = {}]

\* Another document of the same state only becomes the one it was adopted from.
Matched(g, a) ==
    IF g.applied.address = 0 \/ docs[a].cursor > g.applied.cursor
    THEN [g EXCEPT !.applied = [address |-> a, cursor |-> docs[a].cursor]] ELSE g

\* The base epoch of the fork the document is about: none for an advance.
ForkBase(g, a) ==
    LET met == Meets(g, a) IN
    CASE EpochAt(a) = Epoch(g.branch) -> {Epoch(g.branch) - 1}
      [] EpochAt(a) # Epoch(g.branch) /\ met.kind = "forkedAt" -> {met.epoch}
      [] OTHER -> {}

Older_Never(g, a) == FALSE

\* The rollback defence: an older document is advisory.
Older(g, a) == EpochAt(a) < Epoch(g.branch)

\* An older document is skipped, one of the same state noted; for any other
\* the session reads the chain and the log before it comes back to its state.
ReconcileBegins(d, a) ==
    LET g == [group[d] EXCEPT !.held = NoteFingerprint(@, group[d].branch)] IN
    /\ working[d] = Idle
    /\ group' = [group EXCEPT ![d] = IF docs[a].branch = g.branch THEN Matched(g, a) ELSE g]
    /\ IF Older(g, a) \/ docs[a].branch = g.branch THEN UNCHANGED working
       ELSE working' = [working EXCEPT
              ![d] = [address |-> a, base |-> ForkBase(g, a), since |-> Epoch(g.branch)]]
    /\ UNCHANGED <<log, chain, docs, lastTip, strayed>>

\* The Commit that took a branch past an epoch.
CommitAfter(branch, epoch) ==
    CHOOSE c \in branch : Cardinality({e \in branch : e < c}) = epoch

\* Each side of the fork has on its chain, as its lowest document past base, the one
\* of the Commit of the shared leaf that made it.
Ranked(g, base, a) ==
    /\ base < Epoch(g.branch) /\ base < EpochAt(a)
    /\ log[CommitAfter(g.branch, base)].by # Others
    /\ log[CommitAfter(docs[a].branch, base)].by # Others
    /\ OwnRank(g, base + 1).cursor = CommitAfter(g.branch, base)
    /\ LowestAt(a, base + 1).cursor = CommitAfter(docs[a].branch, base)

\* What a fork is settled on means something: the race of the own Commit, what the
\* other members follow, or, where base is the epoch at which the branches part, a
\* decision the session is still on the branch of, or the rank.
Grounded(g, base, a) ==
    \/ g.race # "none" \/ ThirdParty(g, a) # "none"
    \/ /\ base = Epoch(g.branch \cap docs[a].branch)
       /\ IF g.decision.epoch = base + 1 THEN g.decision.branch \subseteq g.branch
          ELSE Ranked(g, base, a)

Resolved(g, base, a, verdict) ==
    [(IF verdict.adopt THEN Adopted(g, a) ELSE g) EXCEPT
        !.decision = [epoch |-> base + 1, by |-> verdict.by,
                      branch |-> IF verdict.adopt THEN docs[a].branch ELSE g.branch]]

\* The rest: an advance is adopted, a fork decided first, on what the session and
\* the log are by then.
ReconcileEnds(d) ==
    LET a == working[d].address
        g == group[d] IN
    /\ working[d] # Idle
    /\ \/ /\ working[d].base = {}
          /\ group' = [group EXCEPT ![d] = Adopted(g, a)]
       \/ \E base \in working[d].base :
             group' = [group EXCEPT
                ![d] = Resolved(g, base, a, Decision(g, base, a))]
    /\ working' = [working EXCEPT ![d] = Idle]
    /\ LET misled == \/ working[d].since # Epoch(g.branch)
                     \/ group'[d].branch # g.branch /\ Missed(group'[d])
                     \/ \E base \in working[d].base :
                           \/ ~Grounded(g, base, a)
                           \/ {g.branch, docs[a].branch} \cap SUBSET chain = {}
       IN  strayed' = [strayed EXCEPT ![d] = @ \/ misled]
    /\ UNCHANGED <<log, chain, docs, lastTip>>

-----------------------------------------------------------------------------
(* Catching up along a chain: walkGroupChain and catchUpGroupFromChain.    *)

\* How far the walk goes from a: to the first document that is not newer than
\* the session.
Walk(d, a) ==
    LET path == Path(a) IN
    {k \in 0 .. MaxDocs :
        \A j \in 0 .. k : path[j] # 0 /\ EpochAt(path[j]) > Epoch(group[d].branch)}

Walked(d, a) == LET path == Path(a) IN {path[k] : k \in Walk(d, a)}

Steps_Latest(d, a) ==
    LET walked == Walked(d, a) IN
    {e \in walked : \A f \in walked :
        EpochAt(f) = EpochAt(e) => docs[e].cursor >= docs[f].cursor}

\* The oldest document of each epoch beyond the session's own: of several with
\* one cursor, the first that the walk meets.
Steps(d, a) ==
    LET path == Path(a)
        walk == Walk(d, a) IN
    {path[k] : k \in {i \in walk : \A j \in walk :
        EpochAt(path[j]) = EpochAt(path[i]) =>
            \/ docs[path[i]].cursor < docs[path[j]].cursor
            \/ docs[path[i]].cursor = docs[path[j]].cursor /\ i <= j}}

\* The step whose range begins at cursor c: of the documents before c the one
\* with the highest cursor, of several the oldest state.  Its state takes over
\* only there, so one that no message follows is never adopted.
TakesOver(steps, from, c) ==
    {a \in steps : /\ Larger(docs[a].cursor, from) + 1 = c
                   /\ \A e \in steps : docs[e].cursor < c =>
                         \/ docs[e].cursor < docs[a].cursor
                         \/ docs[e].cursor = docs[a].cursor /\ EpochAt(a) <= EpochAt(e)}

\* The application message this stores: none when its key is used up.
Stores(g, c) ==
    IF ~log[c].commit /\ log[c].base = g.branch /\ c \notin g.read THEN {c} ELSE {}

\* One message of the gap, under the state whose range it is in.
ReplayOne(steps, from, before, c) ==
    LET takes == TakesOver(steps, from, c)
        under == IF takes = {} THEN before.g
                 ELSE [before.g EXCEPT !.branch = docs[First(takes)].branch,
                                       !.read = docs[First(takes)].read] IN
    [g |-> Ingested(under, c),
     stored |-> before.stored \cup Stores(under, c),
     strayed |-> \/ before.strayed \/ Strays(under, c)
                 \/ takes # {} /\ (before.g.race # "none" \/ Missed(under))]

\* The session behind each message of the gap, replayed under those states.
Replay(d, steps) ==
    LET g == group[d]
        at[c \in g.fetch .. Len(log)] ==
            IF c = g.fetch THEN [g |-> g, stored |-> {}, strayed |-> FALSE]
            ELSE ReplayOne(steps, g.fetch, at[c - 1], c)
    IN  at[Len(log)]

\* A walk the media store does not answer fails as a whole.
CatchUp(d, a) ==
    LET after == Replay(d, Steps(d, a)) IN
    /\ EpochAt(a) > Epoch(group[d].branch)
    /\ group' = [group EXCEPT ![d] = after.g]
    /\ strayed' = [strayed EXCEPT ![d] = @ \/ after.strayed]
    /\ UNCHANGED <<log, chain, docs, lastTip, working>>

Next ==
    \/ OthersPost
    \/ \E d \in Devices :
          \/ Commit(d) \/ Sync(d) \/ ReconcileEnds(d)
          \/ \E given \in {0, group[d].applied.address} : Publish(d, given)
          \/ \E a \in DOMAIN docs : ReconcileBegins(d, a) \/ CatchUp(d, a)

Spec == Init /\ [][Next]_vars

-----------------------------------------------------------------------------
(* Properties.                                                             *)

TypeOK ==
    /\ \A c \in Cursors : /\ log[c].by \in Devices \cup {Others} /\ log[c].commit \in BOOLEAN
                          /\ log[c].base \subseteq 1 .. (c - 1)
    /\ chain \subseteq Cursors
    /\ \A a \in DOMAIN docs :
          /\ docs[a].branch \subseteq Cursors /\ docs[a].read \subseteq Cursors
          /\ docs[a].cursor \in 0 .. Len(log) /\ docs[a].prev \in {0} \cup DOMAIN docs
    /\ \A d \in Devices :
          /\ group[d].branch \subseteq Cursors /\ group[d].fetch \in 0 .. Len(log)
          /\ group[d].race \in {"none", "live", "dead"}
          /\ group[d].pending \subseteq Cursors
          /\ working[d].address \in {0} \cup DOMAIN docs /\ strayed[d] \in BOOLEAN

\* No document, however old and whatever fork it names, and no replay of a chain
\* takes a session below the epoch it had when it began to read the document: of
\* "a replayed or stale tip can never downgrade an existing group" (the comment of
\* applyDocumentEntry) this much holds while operations of the group run.  What
\* they did meanwhile is the only thing that can be undone, and only by the
\* adoption of the document that was being read.
UndoesNoOlder ==
    [][\A d \in Devices :
          Epoch(group'[d].branch) < Epoch(group[d].branch) =>
              /\ working[d] # Idle /\ working'[d] = Idle
              /\ group'[d].branch = docs[working[d].address].branch
              /\ working[d].since <= Epoch(group'[d].branch)]_vars

\* The comment without that condition: no session goes back, ever.
NeverDowngraded ==
    [][\A d \in Devices : Epoch(group[d].branch) <= Epoch(group'[d].branch)]_vars

\* A fork that is settled on grounds ends on the side the group follows, whichever
\* side the device was on and in whatever order Commits, messages and documents
\* reached it: the race of the own Commit and what the other members send are
\* evidence, and "where every writer chains its commit-point document the floor
\* agrees with the stream" (spec/applications/multi-device.md).  Provided that
\* nothing before has made that evidence one about another fork (strayed).
ForkRight ==
    [][\A d \in Devices : \A base \in working[d].base :
          LET a == working[d].address
              right == {b \in {group[d].branch, docs[a].branch} : b \subseteq chain} IN
          (/\ working'[d] = Idle /\ working[d].since = Epoch(group[d].branch)
           /\ Grounded(group[d], base, a) /\ ~strayed[d] /\ right # {})
              => group'[d].branch \in right]_vars

\* As long as a device is on the branch it decided a fork for, the rank of
\* documents published later does not take it off that branch: resolveFork's
\* "A recorded decision is not overturned by the rank alone".
DecisionStands ==
    [][\A d \in Devices :
          LET old == group[d].decision
              new == group'[d].decision IN
          (/\ working[d].base # {} /\ working'[d] = Idle
           /\ old.epoch = new.epoch /\ new.by = "rank" /\ old.branch \subseteq group[d].branch)
              => old.branch \subseteq group'[d].branch]_vars

\* The application messages of other members sealed under the group's epoch of
\* their time, that a document the walk from a reads had the keys for.
Covered(d, a) ==
    LET walked == Walked(d, a) IN
    {c \in Cursors : /\ c > group[d].fetch /\ ~log[c].commit /\ log[c].by = Others
                     /\ log[c].base = {k \in chain : k < c}
                     /\ \E e \in walked : docs[e].branch = log[c].base /\ docs[e].cursor < c}

\* What the walk reads is one line: one state to an epoch, each continues the one
\* before it, and its document is from further along the log.
InLine(d, a) ==
    LET walked == Walked(d, a) IN
    \A e, f \in walked :
        /\ EpochAt(e) = EpochAt(f) => docs[e].branch = docs[f].branch
        /\ EpochAt(e) < EpochAt(f) => /\ docs[e].branch \subseteq docs[f].branch
                                      /\ docs[e].cursor < docs[f].cursor

\* Catching up along such a chain stores every message of the gap whose keys some
\* document of it carries, several epochs back and behind Commits that cannot be
\* read: the ranges of catchUpGroupFromChain leave no message to the wrong state.
CatchUpRecovers ==
    \A d \in Devices : \A a \in DOMAIN docs :
        \A c \in Covered(d, a) : InLine(d, a) => c \in Replay(d, Steps(d, a)).stored

\* "The device recovers every application message in every epoch the chain covers"
\* (spec/applications/multi-device.md), whatever the chain.
EveryEpochRecovered ==
    \A d \in Devices : \A a \in DOMAIN docs :
        Covered(d, a) \subseteq Replay(d, Steps(d, a)).stored

\* Of a chain that meets the session at an earlier epoch only, the comment of
\* chainMeetsLocal says "so their branch left ours there and has since moved on":
\* a document whose branch continues the session's own is not such a one, and is
\* followed.
AdvanceFollowed ==
    [][\A d \in Devices :
          LET theirs == docs[working[d].address].branch IN
          (/\ working[d] # Idle /\ working'[d] = Idle
           /\ working[d].since = Epoch(group[d].branch) /\ group[d].branch \subseteq theirs)
              => group'[d].branch = theirs]_vars

\* "Held messages stay re-fetchable (MUST)" (spec/applications/multi-device.md):
\* the cursor of a session is not past the Commit of another member that comes
\* next on its branch, or the session could never leave its epoch by itself.
HeldStaysFetchable ==
    \A d \in Devices : \A c \in chain :
        (log[c].by = Others /\ log[c].base = group[d].branch) => group[d].fetch < c
=============================================================================
