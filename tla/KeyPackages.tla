---------------------------- MODULE KeyPackages ----------------------------
(***************************************************************************)
(* The coordinator's key package directory: publication with its quota,    *)
(* consumption and removal (coordinatorMethods.ts, inMemoryStorage.ts,     *)
(* sqliteStorage.ts), and the owner's client, which publishes again when   *)
(* it had no answer and deletes what it no longer wants (session.ts).      *)
(*                                                                         *)
(* A request is executed in one piece; before it, it may stay on its way   *)
(* for any time, and its answer may be lost.                               *)
(***************************************************************************)
EXTENDS Integers, FiniteSets, SequencesExt

CONSTANTS
    Identities,      \* stable public keys
    Kps,             \* key packages, by their ref
    LastResort,      \* those with the last-resort extension
    OwnerOf,         \* OwnerOf[k]: the identity k is bound to
    MaxPerIdentity,  \* maxPerIdentity of the key package quota
    MaxLastResort,   \* maxLastResortPerIdentity
    InMemory,        \* the storage backend: in memory, or SQLite
    MaxPublishes,    \* bound: publish calls for one key package
    MaxHandOuts      \* bound: how often a last-resort key package is handed out

\* runtimeConfig.ts reads both quotas as positive integers.
ASSUME KeyPackageAssumption ==
    /\ IsFiniteSet(Kps) /\ LastResort \subseteq Kps
    /\ OwnerOf \in [Kps -> Identities]
    /\ MaxPerIdentity \in Nat \ {0} /\ MaxLastResort \in Nat \ {0}
    /\ InMemory \in BOOLEAN
    /\ MaxPublishes \in Nat /\ MaxHandOuts \in Nat

VARIABLES
    published,   \* published[id]: the refs of id in the order of publication
    calls,       \* calls[k]: publish calls made for k ...
    arrived,     \* ... and how many the coordinator executed
    stored,      \* history: how many of them stored k
    marked,      \* key packages whose client has seen a publish answered
    held,        \* key packages whose private part the client still holds
    handedOut    \* history: how often consuming handed out k

kpVars == <<published, calls, arrived, stored, marked, held, handedOut>>

Listed(k) == Contains(published[OwnerOf[k]], k)

KpInit ==
    /\ published = [id \in Identities |-> <<>>]
    /\ calls = [k \in Kps |-> 0] /\ arrived = [k \in Kps |-> 0]
    /\ stored = [k \in Kps |-> 0]
    /\ marked = {} /\ held = {}
    /\ handedOut = [k \in Kps |-> 0]

-----------------------------------------------------------------------------
Regular == Kps \ LastResort

\* Where s has members of S; the oldest of them.
PositionsOf(s, S) == {i \in 1..Len(s) : s[i] \in S}
Oldest(s, S) == s[Min(PositionsOf(s, S))]

\* How many of the oldest last-resort key packages make room for a new one.
ExcessLastResort(n) == IF n >= MaxLastResort THEN n - MaxLastResort + 1 ELSE 0

Evicted(s) ==
    LET excess == ExcessLastResort(Cardinality(PositionsOf(s, LastResort)))
        left[n \in 0..excess] ==
            IF n = 0 THEN s ELSE RemoveFirst(left[n - 1], Oldest(left[n - 1], LastResort))
    IN  left[excess]

WithinQuota_Replaces(s, k) == k \in LastResort \/ Len(s) < MaxPerIdentity

\* enforceKeyPackageQuota, the total: a last-resort key package counts against
\* what is left after the eviction.  The in-memory storage hands out its own
\* array, which the eviction has already shortened.
WithinQuota(s, k) ==
    LET lastResorts == Cardinality(PositionsOf(s, LastResort))
        total == IF InMemory THEN Len(Evicted(s)) ELSE Len(s)
        kept == IF lastResorts < MaxLastResort THEN lastResorts ELSE MaxLastResort - 1
    IN  IF k \in LastResort
        THEN total - lastResorts + kept + 1 <= MaxPerIdentity
        ELSE Len(s) < MaxPerIdentity

\* SQLite refuses a ref it already has.
Storable(s, k) == InMemory \/ ~Contains(s, k)

\* What publishKeyPackage leaves stored: the eviction happens before the total
\* is checked and before the storage may refuse.
AfterPublish(s, k) ==
    LET evicted == IF k \in LastResort THEN Evicted(s) ELSE s
        accepted == WithinQuota(s, k) /\ Storable(evicted, k)
    IN  [ok |-> accepted, store |-> IF accepted THEN Append(evicted, k) ELSE evicted]

\* generateKeyPackage: a new key package, published at once unless it is to stay
\* local for now.
GenerateKeyPackage(k) ==
    /\ k \notin held /\ calls[k] = 0 /\ MaxPublishes > 0
    /\ held' = held \cup {k}
    /\ \E localOnly \in BOOLEAN : calls' = [calls EXCEPT ![k] = IF localOnly THEN 0 ELSE 1]
    /\ UNCHANGED <<published, arrived, stored, marked, handedOut>>

\* publishKeyPackage, of a key package not seen published yet.
PublishKeyPackage(k) ==
    /\ k \in held \ marked /\ calls[k] < MaxPublishes
    /\ calls' = [calls EXCEPT ![k] = @ + 1]
    /\ UNCHANGED <<published, arrived, stored, marked, held, handedOut>>

PublishArrives(k) ==
    LET after == AfterPublish(published[OwnerOf[k]], k) IN
    /\ arrived[k] < calls[k]
    /\ arrived' = [arrived EXCEPT ![k] = @ + 1]
    /\ published' = [published EXCEPT ![OwnerOf[k]] = after.store]
    /\ stored' = [stored EXCEPT ![k] = IF after.ok THEN @ + 1 ELSE @]
    /\ marked' \in IF after.ok THEN {marked, marked \cup {k}} ELSE {marked}
    /\ UNCHANGED <<calls, held, handedOut>>

\* consumeKeyPackageByIdentity: the oldest regular key package, else the newest
\* last-resort one.
NextFor(s) == IF PositionsOf(s, Regular) # {} THEN Oldest(s, Regular) ELSE Last(s)

Remaining_KeepsRegular(s, k) == s
Remaining_DropsLastResort(s, k) == RemoveFirst(s, k)

\* Handing out k removes it unless it is last-resort.
Remaining(s, k) == IF k \in LastResort THEN s ELSE RemoveFirst(s, k)

\* The effect of handing out k.
HandOut(k) ==
    /\ handedOut[k] < MaxHandOuts
    /\ published' = [published EXCEPT ![OwnerOf[k]] = Remaining(@, k)]
    /\ handedOut' = [handedOut EXCEPT ![k] = @ + 1]
    /\ UNCHANGED <<calls, arrived, stored, marked, held>>

ConsumeByRef(k) == Listed(k) /\ HandOut(k)

ConsumeByIdentity(id) == published[id] # <<>> /\ HandOut(NextFor(published[id]))

\* Anyone may name a key package by its ref or by its owner.
ConsumeKeyPackage ==
    (\E k \in Kps : ConsumeByRef(k)) \/ \E id \in Identities : ConsumeByIdentity(id)

\* removeKeyPackages: only the owner's own, and only what is listed.
RemoveKeyPackages(k) ==
    Listed(k) /\ published' = [published EXCEPT ![OwnerOf[k]] = RemoveFirst(@, k)]

\* deleteKeyPackage: the private part goes only once the coordinator answered
\* that the key package is gone.  A session may also remove what another session
\* of its identity published.
DeleteKeyPackage(k) ==
    /\ RemoveKeyPackages(k)
    /\ held' \in {held, held \ {k}}
    /\ UNCHANGED <<calls, arrived, stored, marked, handedOut>>

\* deleteKeyPackage with localOnly: the private part goes, whatever is listed.
ForgetKeyPackage(k) ==
    /\ k \in held
    /\ held' = held \ {k}
    /\ UNCHANGED <<published, calls, arrived, stored, marked, handedOut>>

\* loadLastResortKeyPackage, from a document of the owner's devices: a last-resort
\* key package that is no longer held comes back, with the mark if the document
\* was written after the publication was answered.
LoadLastResortKeyPackage(k) ==
    /\ k \in LastResort \ held /\ calls[k] > 0
    /\ held' = held \cup {k}
    /\ marked' \in {marked, marked \ {k}}
    /\ UNCHANGED <<published, calls, arrived, stored, handedOut>>

\* What the coordinator takes part in, and what happens to local copies alone.
DirectoryNext ==
    \/ \E k \in Kps : \/ GenerateKeyPackage(k) \/ PublishKeyPackage(k)
                       \/ PublishArrives(k) \/ DeleteKeyPackage(k)
    \/ ConsumeKeyPackage

LocalNext == \E k \in Kps : ForgetKeyPackage(k) \/ LoadLastResortKeyPackage(k)

KpNext == DirectoryNext \/ LocalNext

KpSpec == KpInit /\ [][KpNext]_kpVars

-----------------------------------------------------------------------------
(* Properties.                                                             *)

Count(k) == Cardinality(PositionsOf(published[OwnerOf[k]], {k}))

KpTypeOK ==
    /\ \A id \in Identities : published[id] \in Seq({k \in Kps : OwnerOf[k] = id})
    /\ \A k \in Kps : arrived[k] <= calls[k] /\ calls[k] <= MaxPublishes
    /\ marked \subseteq Kps /\ held \subseteq Kps
    /\ handedOut \in [Kps -> 0..MaxHandOuts]

\* The quotas hold whatever mixture of key packages an identity publishes,
\* re-publishes and deletes, although the last-resort branch checks the total
\* against a count taken before its own eviction (enforceKeyPackageQuota).
QuotaHolds ==
    \A id \in Identities :
        /\ Len(published[id]) <= MaxPerIdentity
        /\ Cardinality(PositionsOf(published[id], LastResort)) <= MaxLastResort

\* A publication of a single-use key package is handed out at most once: what
\* was handed out and what is still listed never exceeds what was stored, for
\* consumption by ref and by identity in any order.
HandedOutOnce ==
    \A k \in Regular : handedOut[k] + Count(k) <= stored[k]

\* An identity that has a last-resort key package stays reachable: only its own
\* deletion takes the last one away, no publication that is refused and no
\* consumption does (the eviction of enforceKeyPackageQuota).
StaysReachable ==
    [][\A k \in LastResort :
          (Listed(k) /\ ~\E j \in LastResort : OwnerOf[j] = OwnerOf[k] /\ Listed(j)')
             => \E j \in Kps : DeleteKeyPackage(j)]_kpVars

\* "KeyPackages are inherently one-time-use resources"; of two members who
\* consume the same one "only one consumeKeyPackage succeeds"
\* (spec/applications/join-requests.md).
SingleUse == \A k \in Regular : handedOut[k] <= 1
=============================================================================
