------------------------- MODULE GroupSessionProofs -------------------------
(***************************************************************************)
(* The safety properties of a group's sessions, for any devices that share *)
(* leaves or not, any operations, any number of messages, Commits from one *)
(* epoch, unanswered posts, crashes and Welcomes.                          *)
(*                                                                         *)
(* The messages, the log and the chain are a world that only grows         *)
(* (Grows); what is known of a session (DeviceInv) holds on in a world     *)
(* that grew, so that every action is about the session it changes.        *)
(***************************************************************************)
EXTENDS GroupSession, FiniteSetTheorems, SequenceTheorems, WellFoundedInduction, TLAPS

Message == [by : Devices, kind : Kinds, target : Identities \cup {None}, base : SUBSET Nat]

OperationRecord == [id : Nat, cursor : Nat, confirmed : BOOLEAN]

Group == [status : {"absent", "active", "removed"}, state : SUBSET Nat, fetch : Nat,
          pending : SUBSET OperationRecord, race : {"none", "live", "dead"},
          skipped : SUBSET Nat]

\* The Commits that led to a state: each was made where those before it ended.
Branch(S) ==
    /\ S \subseteq Sequenced
    /\ \A x \in S : IsCommit(x) /\ body[x].base = {y \in S : y < x}

MessagesOK ==
    /\ body \in Seq(Message)
    /\ \A c \in Ids : Branch(body[c].base) /\ body[c].base \subseteq 1 .. (c - 1)

\* A message is posted once, and after those it was made behind.
LogOK ==
    /\ log \in Seq(Nat) /\ Sequenced \subseteq Ids /\ inFlight \subseteq Ids \ Sequenced
    /\ \A j, k \in 1 .. Len(log) : log[j] = log[k] => j = k
    /\ \A c \in Sequenced : \A m \in body[c].base : CursorOf(m) < CursorOf(c)

\* The chain goes as far as the log does; of the Commits from one state of the
\* chain, the one on it is the first, and one off it has lost to one on it.
ChainOK ==
    /\ Branch(chain)
    /\ \A m \in Sequenced : IsCommit(m) => body[m].base # chain
    /\ \A c \in chain : \A m \in Sequenced \ {c} :
          (IsCommit(m) /\ body[m].base = body[c].base) => CursorOf(c) < CursorOf(m)
    /\ \A m \in Sequenced \ chain : (IsCommit(m) /\ OnChain(body[m].base)) =>
          \E win \in chain : body[win].base = body[m].base /\ CursorOf(win) < CursorOf(m)

WelcomesOK ==
    \A w \in welcomes : /\ w.id \in Sequenced /\ IsCommit(w.id)
                        /\ w.after \in Nat /\ w.after <= CursorOf(w.id)

World == MessagesOK /\ LogOK /\ ChainOK /\ WelcomesOK

-----------------------------------------------------------------------------
(* A session's group g, or that of its snapshot.                           *)

\* An operation is d's own; one that was answered is part of the state.
OperationOK(d, g, o) ==
    /\ o.id \in Ids /\ body[o.id].by = d /\ IsCommit(o.id)
    /\ o.confirmed => o.id \in Sequenced
    /\ o.cursor > 0 => /\ o.id \in Sequenced /\ o.id \in g.state
                       /\ o.cursor = CursorOf(o.id)

\* PendingAddsStand, of the snapshot too.
AddsStand(d, g) ==
    \A o \in g.pending : \A r \in g.state :
        (body[o.id].kind = "add" /\ body[r].kind = "remove" /\ body[r].by = d /\ r > o.id)
            => body[r].target # body[o.id].target

GroupOK(d, g) ==
    /\ g \in Group /\ Branch(g.state) /\ g.fetch <= Len(log)
    /\ g.skipped \subseteq 0 .. Len(body)
    /\ g.status = "absent" => g = Absent
    /\ \A o \in g.pending : OperationOK(d, g, o)
    /\ AddsStand(d, g)

\* OnlyAuthorsFork.
Forks(d, g) ==
    \A c \in Ids : Departs(g.state, c) =>
        \/ body[c].by = d
        \/ \E e \in g.state : e >= c /\ Welcomed(e) /\ body[e].target = IdentityOf[d]
        \/ \E win \in chain : body[win].base = body[c].base /\ OwnLeaf(d, win)

\* A Commit that the cursor has passed although it leads on along the chain.
Overtaken(g, c) ==
    g.status = "active" /\ c \in chain /\ Follows(g.state, c) /\ CursorOf(c) <= g.fetch

\* NeverStranded.
Reads(d, g) == \A c \in chain : Overtaken(g, c) => OwnLeaf(d, c)

\* InvitationKept.
StillOwed(d, g, c) ==
    \/ Welcomed(c)
    \/ \E o \in g.pending : o.id = c
    \/ \E r \in g.state : /\ r > c /\ body[r].by = d /\ body[r].kind = "remove"
                          /\ body[r].target = body[c].target

OwnAdd(d, c) == body[c].by = d /\ body[c].kind = "add" /\ c \notin forgone

Invited(d, g) == \A c \in g.state : OwnAdd(d, c) => StillOwed(d, g, c)

Held(d, g) == Forks(d, g) /\ Reads(d, g) /\ Invited(d, g)

\* In memory every addition is owed, part of the state or not; a Commit that was
\* overtaken is remembered, unless it is d's own or a crash came after; and what
\* is remembered is a Commit that was overtaken.
OwesAll(d, g) == \A c \in Ids : OwnAdd(d, c) => StillOwed(d, g, c)

Remembers(d, g) ==
    \A c \in chain : Overtaken(g, c) =>
        body[c].by = d \/ g.skipped = {Epoch(g.state)} \/ crashes[d] > 0

SkipIsTrue(g) ==
    g.skipped # {} =>
        \E n \in Nat :
            /\ g.skipped = {n} /\ n <= Epoch(g.state)
            /\ n = Epoch(g.state) =>
                  \E s \in Sequenced : /\ IsCommit(s) /\ body[s].base = g.state
                                       /\ CursorOf(s) <= g.fetch

Recalls(d, g) == OwesAll(d, g) /\ Remembers(d, g) /\ SkipIsTrue(g)

\* The post a session awaits is its newest, made from the state it holds, and
\* stands beyond its cursor; a Welcome accepted meanwhile leaves nothing pending.
PostOK(d, g, c) ==
    c # 0 =>
        /\ c \in Ids /\ body[c].by = d /\ g.status = "active"
        /\ \A o \in g.pending : o.id <= c
        /\ body[c].base = g.state \/ g.pending = {}
        /\ d \notin rejoined =>
              /\ body[c].base = g.state
              /\ IsCommit(c) => \E o \in g.pending : o.id = c
              /\ c \in Sequenced => g.fetch < CursorOf(c)

DeviceInv(d) ==
    /\ GroupOK(d, mem[d]) /\ GroupOK(d, disk[d])
    /\ disk[d].race = "none" /\ disk[d].skipped = {}
    /\ PostOK(d, mem[d], posting[d])
    /\ d \notin rejoined => Held(d, mem[d]) /\ Held(d, disk[d]) /\ Recalls(d, mem[d])

TablesOK ==
    /\ mem \in [Devices -> Group] /\ disk \in [Devices -> Group]
    /\ posting \in [Devices -> Nat] /\ crashes \in [Devices -> Nat]
    /\ forgone \subseteq Ids /\ rejoined \subseteq Devices

SessionInv == TablesOK /\ World /\ \A d \in Devices : DeviceInv(d)

-----------------------------------------------------------------------------
(* What is in the log and in a branch.                                     *)

LEMMA CursorFacts ==
    ASSUME LogOK
    PROVE  /\ Len(log) \in Nat
           /\ \A c \in Sequenced : CursorOf(c) \in 1 .. Len(log) /\ log[CursorOf(c)] = c
           /\ \A k \in 1 .. Len(log) : log[k] \in Sequenced /\ CursorOf(log[k]) = k
<1>1. Len(log) \in Nat
  BY DEF LogOK
<1>2. ASSUME NEW c \in Sequenced
      PROVE  CursorOf(c) \in 1 .. Len(log) /\ log[CursorOf(c)] = c
  <2>1. \E k \in 1 .. Len(log) : log[k] = c
    BY DEF Sequenced
  <2> QED
    BY <2>1 DEF CursorOf
<1>3. ASSUME NEW k \in 1 .. Len(log)
      PROVE  log[k] \in Sequenced /\ CursorOf(log[k]) = k
  <2>1. log[k] \in Sequenced
    BY DEF Sequenced
  <2> QED
    BY <1>2, <2>1 DEF LogOK
<1> QED
  BY <1>1, <1>2, <1>3

LEMMA MessageFacts ==
    ASSUME MessagesOK
    PROVE  /\ Len(body) \in Nat /\ Ids \subseteq Nat
           /\ \A c \in Ids : body[c] \in Message /\ c \notin body[c].base
BY DEF MessagesOK, Ids

\* The branch of a state that a Commit of the log led to.
LEMMA AfterIsBranch ==
    ASSUME MessagesOK, LogOK, NEW c \in Sequenced, IsCommit(c)
    PROVE  Branch(After(c))
<1>1. c \in Ids /\ c \in Nat /\ body[c].base \subseteq 1 .. (c - 1) /\ Branch(body[c].base)
  BY MessageFacts DEF LogOK, MessagesOK
<1>2. ASSUME NEW x \in After(c)
      PROVE  IsCommit(x) /\ body[x].base = {y \in After(c) : y < x}
  <2>1. CASE x = c
    BY <1>1, <2>1 DEF After
  <2>2. CASE x \in body[c].base
    <3>1. ~(c < x)
      BY <1>1, <2>2
    <3>2. IsCommit(x) /\ body[x].base = {y \in body[c].base : y < x}
      BY <1>1, <2>2 DEF Branch
    <3> QED
      BY <3>1, <3>2 DEF After
  <2> QED
    BY <2>1, <2>2 DEF After
<1> QED
  BY <1>1, <1>2 DEF Branch, After

\* A branch is a finite set, whose size is at most the number of messages.
LEMMA BranchSize ==
    ASSUME MessagesOK, LogOK, NEW S, Branch(S)
    PROVE  IsFiniteSet(S) /\ Epoch(S) \in Nat /\ Epoch(S) <= Len(body)
<1>1. S \subseteq 1 .. Len(body) /\ Len(body) \in Nat
  BY MessageFacts DEF Branch, LogOK, Ids
<1>2. IsFiniteSet(1 .. Len(body)) /\ Cardinality(1 .. Len(body)) = Len(body)
  BY <1>1, FS_Interval
<1>3. IsFiniteSet(S) /\ Cardinality(S) <= Cardinality(1 .. Len(body))
  BY <1>1, <1>2, FS_Subset
<1> QED
  BY <1>2, <1>3, FS_CardinalityType DEF Epoch

LEMMA NextEpoch ==
    ASSUME MessagesOK, LogOK, NEW c \in Sequenced, IsCommit(c)
    PROVE  /\ Epoch(body[c].base) \in Nat
           /\ Epoch(After(c)) = Epoch(body[c].base) + 1
<1>1. c \in Ids /\ c \notin body[c].base /\ Branch(body[c].base)
  BY MessageFacts DEF LogOK, MessagesOK
<1>2. IsFiniteSet(body[c].base) /\ Epoch(body[c].base) \in Nat
  BY <1>1, BranchSize
<1>3. Cardinality(body[c].base \cup {c}) = Cardinality(body[c].base) + 1
  BY <1>1, <1>2, FS_AddElement
<1> QED
  BY <1>2, <1>3 DEF Epoch, After

\* A branch on the chain that is not all of it: the chain goes on from there.
LEMMA ChainGoesOn ==
    ASSUME MessagesOK, LogOK, Branch(chain), NEW S, Branch(S), S \subseteq chain, S # chain
    PROVE  \E win \in chain : body[win].base = S
<1> DEFINE rest == chain \ S
<1>1. chain \subseteq Nat
  BY MessageFacts DEF Branch, LogOK
<1>2. rest # {} /\ rest \subseteq Nat
  BY <1>1
<1>3. PICK win \in rest : \A y \in rest : ~(<<y, win>> \in OpToRel(<, Nat))
  BY <1>2, NatLessThanWellFounded, WFMin
<1>4. \A y \in rest : ~(y < win)
  BY <1>2, <1>3, Zenon DEF OpToRel
<1>5. body[win].base = {y \in chain : y < win}
  BY <1>3 DEF Branch
<1>6. ASSUME NEW x \in S PROVE x < win
  <2>1. body[x].base = {y \in chain : y < x} /\ body[x].base = {y \in S : y < x}
    BY <1>6 DEF Branch
  <2>2. x # win /\ x \in Nat /\ win \in Nat
    BY <1>1, <1>3
  <2>3. ~(win < x)
    BY <1>3, <2>1
  <2> QED
    BY <2>2, <2>3
<1>7. {y \in chain : y < win} = S
  BY <1>4, <1>6
<1> QED
  BY <1>3, <1>5, <1>7

-----------------------------------------------------------------------------
(* A world that grows: messages are written, posted, welcomed and forgotten *)
(* for good.                                                               *)

Cursors ==
    /\ Len(log) \in Nat
    /\ \A c \in Sequenced : CursorOf(c) \in 1 .. Len(log) /\ log[CursorOf(c)] = c
    /\ \A k \in 1 .. Len(log) : log[k] \in Sequenced /\ CursorOf(log[k]) = k

LEMMA CursorsNow == LogOK => Cursors
BY CursorFacts DEF Cursors

LEMMA CursorsNext == LogOK' => Cursors'
BY CursorsNow, PTL

Grows ==
    /\ Len(body) <= Len(body') /\ \A c \in Ids : body'[c] = body[c]
    /\ Len(log) <= Len(log') /\ \A k \in 1 .. Len(log) : log'[k] = log[k]
    /\ chain \subseteq chain' /\ \A c \in chain' \ chain : c \notin Sequenced
    /\ welcomes \subseteq welcomes' /\ forgone \subseteq forgone' /\ rejoined \subseteq rejoined'
    /\ \A d \in Devices : crashes[d] > 0 => crashes'[d] > 0

LEMMA GrowsCursors ==
    ASSUME LogOK, LogOK', Grows
    PROVE  /\ Sequenced \subseteq Sequenced'
           /\ \A c \in Sequenced : CursorOf(c)' = CursorOf(c)
           /\ \A c \in Sequenced' \ Sequenced : CursorOf(c)' > Len(log)
<1>1. Cursors /\ Cursors' /\ Len(log) <= Len(log') /\ \A k \in 1 .. Len(log) : log'[k] = log[k]
  BY CursorsNow, CursorsNext DEF Grows
<1>2. ASSUME NEW c \in Sequenced
      PROVE  c \in Sequenced' /\ CursorOf(c)' = CursorOf(c)
  <2>1. PICK k \in 1 .. Len(log) : k = CursorOf(c) /\ log[k] = c
    BY <1>1 DEF Cursors
  <2>2. k \in 1 .. Len(log') /\ log'[k] = c
    BY <1>1, <2>1 DEF Cursors
  <2> QED
    BY <1>1, <2>1, <2>2 DEF Cursors
<1>3. ASSUME NEW c \in Sequenced', c \notin Sequenced
      PROVE  CursorOf(c)' > Len(log)
  <2>1. PICK k \in 1 .. Len(log') : k = CursorOf(c)' /\ log'[k] = c
    BY <1>1, <1>3 DEF Cursors
  <2>2. k \notin 1 .. Len(log)
    BY <1>1, <1>3, <2>1 DEF Cursors
  <2> QED
    BY <1>1, <2>1, <2>2 DEF Cursors
<1> QED
  BY <1>2, <1>3

LEMMA GrowsMessages ==
    ASSUME MessagesOK, LogOK, LogOK', Grows
    PROVE  /\ Ids \subseteq Ids'
           /\ \A c \in Ids : /\ IsCommit(c)' = IsCommit(c) /\ body'[c] = body[c]
                             /\ HasPath(c)' = HasPath(c)
                             /\ \A d \in Devices : OwnLeaf(d, c)' = OwnLeaf(d, c)
           /\ \A c \in Ids : Welcomed(c) => Welcomed(c)'
           /\ \A S : Branch(S) => Branch(S)'
<1>1. /\ Len(body) \in Nat /\ Len(body) <= Len(body') /\ Ids \subseteq Ids'
      /\ \A c \in Ids : body'[c] = body[c]
  BY MessageFacts DEF Grows, Ids
<1>2. ASSUME NEW c \in Ids PROVE HasPath(c)' = HasPath(c)
  <2> DEFINE about == {x \in body[c].base :
                          body[x].kind # "update" /\ body[x].target = body[c].target}
  <2> DEFINE aboutNext == {x \in body[c].base :
                          body'[x].kind # "update" /\ body'[x].target = body[c].target}
  <2>1. body[c].base \subseteq Ids /\ body'[c] = body[c]
    BY <1>1 DEF MessagesOK, Branch, LogOK
  <2>2. about = aboutNext /\ about \subseteq Ids
    BY <1>1, <2>1
  <2>3. IsMember(body[c].base, body[c].target)' = IsMember(body[c].base, body[c].target)
    BY <1>1, <2>1, <2>2 DEF IsMember
  <2> QED
    BY <2>1, <2>3 DEF HasPath, Replaces
<1>3. ASSUME NEW c \in Ids
      PROVE  /\ IsCommit(c)' = IsCommit(c) /\ body'[c] = body[c]
             /\ \A d \in Devices : OwnLeaf(d, c)' = OwnLeaf(d, c)
  BY <1>1, <1>2 DEF IsCommit, OwnLeaf
<1>4. ASSUME NEW c \in Ids, Welcomed(c) PROVE Welcomed(c)'
  BY <1>4 DEF Welcomed, Grows
<1>5. ASSUME NEW S, Branch(S) PROVE Branch(S)'
  <2>1. S \subseteq Sequenced' /\ S \subseteq Ids
    BY <1>5, GrowsCursors DEF Branch, LogOK
  <2> QED
    BY <1>1, <1>3, <1>5, <2>1 DEF Branch
<1> QED
  BY <1>1, <1>2, <1>3, <1>4, <1>5

LEMMA WorldStands ==
    ASSUME World, UNCHANGED <<body, log, chain, inFlight>>, welcomes \subseteq welcomes',
           \A w \in welcomes' \ welcomes :
              w.id \in Sequenced /\ IsCommit(w.id) /\ w.after \in Nat /\ w.after <= CursorOf(w.id)
    PROVE  World'
<1>1. /\ Sequenced' = Sequenced /\ Ids' = Ids /\ \A x : CursorOf(x)' = CursorOf(x)
      /\ \A x : IsCommit(x)' = IsCommit(x) /\ \A S : Branch(S)' = Branch(S)
  <2>1. Sequenced' = Sequenced /\ Ids' = Ids
    BY DEF Sequenced, Ids
  <2>2. \A x : CursorOf(x)' = CursorOf(x) /\ IsCommit(x)' = IsCommit(x)
    BY DEF CursorOf, IsCommit
  <2> QED
    BY <2>1, <2>2 DEF Branch
<1>3. MessagesOK' /\ LogOK'
  BY <1>1 DEF World, MessagesOK, LogOK
<1>4. ChainOK'
  BY <1>1 DEF World, ChainOK, OnChain
<1>2. WelcomesOK'
  BY <1>1 DEF World, WelcomesOK
<1> QED
  BY <1>2, <1>3, <1>4 DEF World

\* A message is written, under a branch.
LEMMA PostGrows ==
    ASSUME TablesOK, World, NEW m \in Message, Branch(m.base),
           body' = Append(body, m), inFlight' = inFlight \cup {Len(body) + 1},
           UNCHANGED <<log, chain, welcomes, crashes, forgone, rejoined>>
    PROVE  World' /\ Grows
<1> DEFINE c == Len(body) + 1
<1>1. /\ Len(body) \in Nat /\ Len(body') = c /\ body' \in Seq(Message) /\ body'[c] = m
      /\ \A x \in Ids : body'[x] = body[x]
      /\ Ids' = Ids \cup {c} /\ c \notin Ids /\ Ids \subseteq Nat
  BY DEF World, MessagesOK, Ids
<1>2. LogOK' /\ Grows
  <2>1. Sequenced' = Sequenced /\ \A x : CursorOf(x)' = CursorOf(x)
    BY DEF Sequenced, CursorOf
  <2>2. Sequenced \subseteq Ids
    BY DEF World, LogOK
  <2>3. LogOK'
    BY <1>1, <2>1, <2>2 DEF World, LogOK
  <2>4. Grows
    <3>1. Len(log) \in Nat
      BY DEF World, LogOK
    <3>2. Len(body) <= Len(body') /\ Len(log) <= Len(log)
      BY <1>1, <3>1
    <3> QED
      BY <1>1, <3>2 DEF Grows
  <2> QED
    BY <2>3, <2>4
<1>3. /\ \A S : Branch(S) => Branch(S)'
      /\ \A x \in Sequenced : IsCommit(x)' = IsCommit(x) /\ body'[x].base = body[x].base
  BY <1>2, GrowsMessages DEF World, LogOK
<1>4. MessagesOK'
  <2>1. Branch(m.base)' /\ m.base \subseteq 1 .. (c - 1)
    <3>1. m.base \subseteq Ids
      BY DEF Branch, World, LogOK
    <3> QED
      BY <1>1, <1>3, <3>1 DEF Ids
  <2> QED
    BY <1>1, <1>3, <2>1 DEF World, MessagesOK
<1>5. Sequenced' = Sequenced /\ \A x : CursorOf(x)' = CursorOf(x)
  BY DEF Sequenced, CursorOf
<1>6. ChainOK'
  <2>1. Branch(chain)' /\ chain \subseteq Sequenced
    BY <1>3 DEF World, ChainOK, Branch
  <2> QED
    BY <1>3, <1>5, <2>1 DEF World, ChainOK, OnChain
<1>7. WelcomesOK'
  BY <1>3, <1>5 DEF World, WelcomesOK
<1> QED
  BY <1>2, <1>4, <1>6, <1>7 DEF World

\* A message takes the next cursor.  The chain goes on with it if it is the
\* first Commit from where the chain ended; otherwise it is none, or has lost.
LEMMA ArrivalGrows ==
    ASSUME TablesOK, World, NEW c \in inFlight, PostArrives(c)
    PROVE  World' /\ Grows
<1>1. /\ log' = Append(log, c) /\ inFlight' = inFlight \ {c}
      /\ UNCHANGED <<body, welcomes, mem, disk, posting, crashes, forgone, rejoined>>
  BY DEF PostArrives, deviceVars
<1>2. /\ c \in Ids /\ c \notin Sequenced /\ c \in Nat /\ Len(log) \in Nat
      /\ Len(log') = Len(log) + 1 /\ log' \in Seq(Nat) /\ log'[Len(log) + 1] = c
      /\ \A k \in 1 .. Len(log) : log'[k] = log[k]
  BY <1>1, MessageFacts DEF World, LogOK
<1>3. Sequenced' = Sequenced \cup {c}
  <2>1. 1 .. Len(log') = (1 .. Len(log)) \cup {Len(log) + 1}
    BY <1>2
  <2> QED
    BY <1>2, <2>1 DEF Sequenced
<1>4. Grows
  BY <1>1, <1>2 DEF Grows, PostArrives, TablesOK, World, MessagesOK
<1>5. \A j, k \in 1 .. Len(log') : log'[j] = log'[k] => j = k
  <2>1. \A k \in 1 .. Len(log) : log'[k] # c
    BY <1>2 DEF Sequenced
  <2>2. \A j, k \in 1 .. Len(log) : log'[j] = log'[k] => j = k
    BY <1>2 DEF World, LogOK
  <2>3. \A k \in 1 .. Len(log') : k \in 1 .. Len(log) \/ k = Len(log) + 1
    BY <1>2
  <2> QED
    BY <1>2, <2>1, <2>2, <2>3
<1>6. \A x \in Sequenced : CursorOf(x)' = CursorOf(x) /\ CursorOf(x) \in 1 .. Len(log)
  <2> SUFFICES ASSUME NEW x \in Sequenced
               PROVE  CursorOf(x)' = CursorOf(x) /\ CursorOf(x) \in 1 .. Len(log)
    OBVIOUS
  <2>1. PICK k \in 1 .. Len(log) : k = CursorOf(x) /\ log[k] = x
    BY CursorFacts DEF World
  <2>2. k \in 1 .. Len(log') /\ log'[k] = x
    BY <1>2, <2>1
  <2>3. \A j \in 1 .. Len(log') : log'[j] = x => j = k
    BY <1>5, <2>2
  <2>4. CursorOf(x)' = k
    BY <2>2, <2>3 DEF CursorOf
  <2> QED
    BY <2>1, <2>4
<1>7. CursorOf(c)' = Len(log) + 1
  BY <1>2, <1>5 DEF CursorOf
<1>8. LogOK'
  <2>1. body[c].base \subseteq Sequenced
    BY <1>2 DEF World, MessagesOK, Branch
  <2>2. \A x \in Sequenced : body[x].base \subseteq Sequenced
    BY DEF World, MessagesOK, LogOK, Branch
  <2>3. \A x \in Sequenced' : \A m \in body[x].base : CursorOf(m)' < CursorOf(x)'
    <3> SUFFICES ASSUME NEW x \in Sequenced', NEW m \in body[x].base
                 PROVE  CursorOf(m)' < CursorOf(x)'
      OBVIOUS
    <3>1. CASE x = c
      <4>1. CursorOf(m)' \in 1 .. Len(log)
        BY <1>6, <2>1, <3>1
      <4> QED
        BY <1>2, <1>7, <3>1, <4>1
    <3>2. CASE x # c
      <4>1. x \in Sequenced /\ m \in Sequenced
        BY <1>3, <2>2, <3>2
      <4>2. CursorOf(m) < CursorOf(x)
        BY <4>1 DEF World, LogOK
      <4> QED
        BY <1>6, <4>1, <4>2
    <3> QED
      BY <3>1, <3>2
  <2>4. Ids' = Ids
    BY <1>1 DEF Ids
  <2>5. Sequenced' \subseteq Ids' /\ inFlight' \subseteq Ids' \ Sequenced'
    BY <1>1, <1>2, <1>3, <2>4 DEF World, LogOK
  <2> QED
    BY <1>1, <1>2, <1>5, <2>3, <2>5 DEF LogOK
<1>9. \A S : Branch(S) => Branch(S)'
  BY <1>4, <1>8, GrowsMessages DEF World
<1>10. MessagesOK'
  BY <1>1, <1>9 DEF World, MessagesOK, Ids
<1>11. WelcomesOK'
  BY <1>1, <1>3, <1>6 DEF World, WelcomesOK, IsCommit
<1>12. \A x : IsCommit(x)' = IsCommit(x)
  BY <1>1 DEF IsCommit
<1>13. ChainOK'
  <2>1. /\ Branch(chain) /\ chain \subseteq Sequenced
        /\ \A x \in Sequenced' : body[x].base \subseteq Sequenced /\ Branch(body[x].base)
    <3>1. Branch(chain) /\ chain \subseteq Sequenced
      BY DEF World, ChainOK, Branch
    <3>2. Sequenced' \subseteq Ids
      BY <1>2, <1>3 DEF World, LogOK
    <3>3. \A x \in Ids : Branch(body[x].base)
      BY DEF World, MessagesOK
    <3>4. \A x \in Ids : body[x].base \subseteq Sequenced
      BY <3>3 DEF Branch
    <3> QED
      BY <3>1, <3>2, <3>3, <3>4
  <2>2. CASE IsCommit(c) /\ body[c].base = chain
    <3>1. chain' = chain \cup {c} /\ c \notin chain
      BY <1>2, <2>1, <2>2 DEF PostArrives
    <3>2. Branch(chain)'
      <4>1. c \in Sequenced' /\ IsCommit(c)'
        BY <1>3, <1>12, <2>2
      <4>2. \A x \in chain' : body[x].base = {y \in chain' : y < x} /\ IsCommit(x)
        <5>1. /\ chain \subseteq 1 .. (c - 1)
              /\ \A x \in chain : body[x].base = {y \in chain : y < x} /\ IsCommit(x)
          BY <1>2, <2>1, <2>2 DEF Branch, World, MessagesOK
        <5>2. \A x \in chain : ~(c < x) /\ x < c
          BY <1>2, <5>1
        <5>3. {y \in chain' : y < c} = chain
          BY <1>2, <3>1, <5>2
        <5>4. ASSUME NEW x \in chain
              PROVE  {y \in chain' : y < x} = {y \in chain : y < x}
          BY <3>1, <5>2
        <5> QED
          BY <2>2, <3>1, <5>1, <5>3, <5>4
      <4> QED
        BY <1>1, <1>3, <1>12, <2>1, <3>1, <4>2 DEF Branch
    <3>3. \A m \in Sequenced' : IsCommit(m) => body[m].base # chain'
      BY <1>2, <2>1, <3>1
    <3>4. \A x \in chain' : \A m \in Sequenced' \ {x} :
             (IsCommit(m) /\ body[m].base = body[x].base) => CursorOf(x)' < CursorOf(m)'
      <4> SUFFICES ASSUME NEW x \in chain', NEW m \in Sequenced' \ {x}, IsCommit(m),
                          body[m].base = body[x].base
                   PROVE  CursorOf(x)' < CursorOf(m)'
        OBVIOUS
      <4>1. CASE x = c
        BY <1>3, <2>2, <4>1 DEF World, ChainOK
      <4>2. CASE x # c /\ m = c
        BY <1>2, <1>6, <1>7, <2>1, <3>1, <4>2
      <4>3. CASE x # c /\ m # c
        <5>1. x \in chain /\ m \in Sequenced \ {x}
          BY <1>3, <3>1, <4>3
        <5>2. CursorOf(x) < CursorOf(m)
          BY <5>1 DEF World, ChainOK
        <5> QED
          BY <1>6, <2>1, <5>1, <5>2
      <4> QED
        BY <4>1, <4>2, <4>3
    <3>5. ASSUME NEW m \in Sequenced' \ chain', IsCommit(m), body[m].base \subseteq chain'
          PROVE  \E win \in chain' : body[win].base = body[m].base
                                     /\ CursorOf(win)' < CursorOf(m)'
      <4>1. m \in Sequenced \ chain /\ body[m].base \subseteq chain
        BY <1>2, <1>3, <2>1, <3>1, <3>5
      <4>2. PICK win \in chain : body[win].base = body[m].base /\ CursorOf(win) < CursorOf(m)
        BY <3>5, <4>1 DEF World, ChainOK, OnChain
      <4> QED
        BY <1>6, <2>1, <3>1, <4>1, <4>2
    <3> QED
      BY <1>1, <1>12, <3>2, <3>3, <3>4, <3>5 DEF ChainOK, OnChain
  <2>3. CASE ~(IsCommit(c) /\ body[c].base = chain)
    <3>1. chain' = chain
      BY <2>3 DEF PostArrives
    <3>2. Branch(chain)'
      BY <1>9, <2>1, <3>1
    <3>3. \A m \in Sequenced' : IsCommit(m) => body[m].base # chain'
      BY <1>3, <2>3, <3>1 DEF World, ChainOK
    <3>4. \A x \in chain : \A m \in Sequenced' \ {x} :
             (IsCommit(m) /\ body[m].base = body[x].base) => CursorOf(x)' < CursorOf(m)'
      <4> SUFFICES ASSUME NEW x \in chain, NEW m \in Sequenced' \ {x}, IsCommit(m),
                          body[m].base = body[x].base
                   PROVE  CursorOf(x)' < CursorOf(m)'
        OBVIOUS
      <4>1. CASE m = c
        BY <1>2, <1>6, <1>7, <2>1, <4>1
      <4>2. CASE m # c
        <5>1. m \in Sequenced \ {x}
          BY <1>3, <4>2
        <5>2. CursorOf(x) < CursorOf(m)
          BY <5>1 DEF World, ChainOK
        <5> QED
          BY <1>6, <2>1, <5>1, <5>2
      <4> QED
        BY <4>1, <4>2
    <3>5. ASSUME NEW m \in Sequenced' \ chain, IsCommit(m), body[m].base \subseteq chain
          PROVE  \E win \in chain : body[win].base = body[m].base
                                    /\ CursorOf(win)' < CursorOf(m)'
      <4>1. CASE m = c
        <5>1. PICK win \in chain : body[win].base = body[c].base
          BY <1>3, <2>1, <2>3, <3>5, <4>1, ChainGoesOn DEF World
        <5> QED
          BY <1>2, <1>6, <1>7, <2>1, <4>1, <5>1
      <4>2. CASE m # c
        <5>1. m \in Sequenced \ chain
          BY <1>3, <4>2
        <5>2. PICK win \in chain : body[win].base = body[m].base /\ CursorOf(win) < CursorOf(m)
          BY <3>5, <5>1 DEF World, ChainOK, OnChain
        <5> QED
          BY <1>6, <2>1, <5>1, <5>2
      <4> QED
        BY <4>1, <4>2
    <3> QED
      BY <1>1, <1>12, <3>1, <3>2, <3>3, <3>4, <3>5 DEF ChainOK, OnChain
  <2> QED
    BY <2>2, <2>3
<1> QED
  BY <1>4, <1>8, <1>10, <1>11, <1>13 DEF World

-----------------------------------------------------------------------------
(* What is known of a session outlasts what others do.                     *)

\* What stays true of the messages, with the facts the lemmas below share.
LEMMA Growth ==
    ASSUME TablesOK, World, World', Grows
    PROVE  /\ Len(body) \in Nat /\ Len(body') \in Nat /\ Len(log) \in Nat /\ Len(log') \in Nat
           /\ Len(body) <= Len(body') /\ Len(log) <= Len(log')
           /\ Sequenced \subseteq Sequenced' /\ Sequenced \subseteq Ids /\ Ids \subseteq Ids'
           /\ chain \subseteq Sequenced
           /\ \A c \in Ids : IsCommit(c)' = IsCommit(c) /\ body'[c] = body[c]
           /\ \A c \in Ids : Welcomed(c) => Welcomed(c)'
           /\ \A S : Branch(S) => Branch(S)'
           /\ \A c \in Sequenced : CursorOf(c)' = CursorOf(c)
           /\ \A c \in Sequenced' \ Sequenced : CursorOf(c)' > Len(log)
<1>1. MessagesOK /\ MessagesOK' /\ LogOK /\ LogOK' /\ ChainOK
  BY DEF World
<1>2. Len(log) \in Nat /\ Len(log') \in Nat
  BY <1>1 DEF LogOK
<1>3. Len(body) \in Nat /\ Len(body') \in Nat
  BY <1>1 DEF MessagesOK
<1> QED
  BY <1>1, <1>2, <1>3, GrowsCursors, GrowsMessages DEF Grows, LogOK, ChainOK, Branch

LEMMA GroupStays ==
    ASSUME TablesOK, World, World', Grows, NEW d \in Devices, NEW g, GroupOK(d, g)
    PROVE  GroupOK(d, g)'
<1>1. Branch(g.state) /\ Branch(g.state)' /\ g.state \subseteq Ids
  BY Growth DEF GroupOK, Branch
<1>2. g.fetch <= Len(log') /\ g.skipped \subseteq 0 .. Len(body')
  <2>1. g.fetch \in Nat /\ g.fetch <= Len(log) /\ g.skipped \subseteq 0 .. Len(body)
    BY DEF GroupOK, Group
  <2> QED
    BY <2>1, Growth
<1>3. ASSUME NEW o \in g.pending PROVE OperationOK(d, g, o)'
  <2>1. OperationOK(d, g, o)
    BY DEF GroupOK
  <2> QED
    BY <2>1, Growth DEF OperationOK
<1>4. AddsStand(d, g)'
  <2>1. \A o \in g.pending : o.id \in Ids
    BY DEF GroupOK, OperationOK
  <2> QED
    BY <1>1, <2>1, Growth DEF GroupOK, AddsStand
<1> QED
  BY <1>1, <1>2, <1>3, <1>4 DEF GroupOK

LEMMA PostStays ==
    ASSUME TablesOK, World, World', Grows, NEW d \in Devices, NEW g, GroupOK(d, g),
           NEW c, PostOK(d, g, c)
    PROVE  PostOK(d, g, c)'
<1> SUFFICES ASSUME c # 0 PROVE PostOK(d, g, c)'
  BY DEF PostOK
<1>1. c \in Ids /\ g.fetch \in Nat /\ g.fetch <= Len(log)
  BY DEF PostOK, GroupOK, Group
<1>2. ASSUME d \notin rejoined', c \in Sequenced' PROVE g.fetch < CursorOf(c)'
  <2>1. CASE c \in Sequenced
    BY <1>2, <2>1, Growth DEF PostOK, Grows
  <2>2. CASE c \notin Sequenced
    <3>1. CursorOf(c)' > Len(log) /\ CursorOf(c)' \in Nat
      BY <1>2, <2>2, Growth, CursorsNext DEF World, Cursors
    <3> QED
      BY <1>1, <3>1, Growth
  <2> QED
    BY <2>1, <2>2
<1> QED
  BY <1>1, <1>2, Growth DEF PostOK, Grows

\* A Commit that is overtaken was so before.
LEMMA OvertakenStays ==
    ASSUME TablesOK, World, World', Grows, NEW d \in Devices, NEW g, GroupOK(d, g),
           NEW c \in chain', Overtaken(g, c)'
    PROVE  c \in chain /\ Overtaken(g, c) /\ c \in Ids
<1>1. g.fetch \in Nat /\ g.fetch <= Len(log)
  BY DEF GroupOK, Group
<1>2. c \in Sequenced' /\ CursorOf(c)' \in Nat /\ CursorOf(c)' <= g.fetch
  BY CursorsNext DEF World, ChainOK, Branch, Overtaken, Cursors
<1>3. c \in Sequenced
  BY <1>1, <1>2, Growth
<1>4. c \in chain
  BY <1>3 DEF Grows
<1> QED
  BY <1>3, <1>4, Growth DEF Overtaken, Follows

LEMMA HeldStays ==
    ASSUME TablesOK, World, World', Grows, NEW d \in Devices, NEW g, GroupOK(d, g), Held(d, g)
    PROVE  Held(d, g)'
<1>1. g.state \subseteq Sequenced /\ g.state \subseteq Ids
  BY Growth DEF GroupOK, Branch
<1>2. \A c \in Ids : OwnLeaf(d, c)' = OwnLeaf(d, c)
  BY GrowsMessages DEF World
<1>3. Forks(d, g)'
  <2> SUFFICES ASSUME NEW c \in Ids', Departs(g.state, c)'
               PROVE  \/ body'[c].by = d
                      \/ \E e \in g.state : /\ e >= c /\ Welcomed(e)'
                                            /\ body'[e].target = IdentityOf[d]
                      \/ \E win \in chain' : body'[win].base = body'[c].base /\ OwnLeaf(d, win)'
    BY DEF Forks
  <2>1. c \in g.state /\ c \notin chain' /\ body'[c].base \subseteq chain'
    BY DEF Departs, OnChain
  <2>2. c \in Ids /\ body'[c] = body[c] /\ body[c].base \subseteq Sequenced
    BY <1>1, <2>1, Growth DEF World, MessagesOK, Branch
  <2>3. Departs(g.state, c)
    BY <2>1, <2>2 DEF Departs, OnChain, Grows
  <2>4. \/ body[c].by = d
        \/ \E e \in g.state : e >= c /\ Welcomed(e) /\ body[e].target = IdentityOf[d]
        \/ \E win \in chain : body[win].base = body[c].base /\ OwnLeaf(d, win)
    BY <2>2, <2>3 DEF Held, Forks
  <2>5. ASSUME NEW win \in chain, body[win].base = body[c].base, OwnLeaf(d, win)
        PROVE  win \in chain' /\ body'[win].base = body'[c].base /\ OwnLeaf(d, win)'
    BY <1>2, <2>2, <2>5, Growth DEF Grows
  <2>6. ASSUME NEW e \in g.state, Welcomed(e), body[e].target = IdentityOf[d]
        PROVE  Welcomed(e)' /\ body'[e].target = IdentityOf[d]
    BY <1>1, <2>6, Growth
  <2> QED
    BY <2>2, <2>4, <2>5, <2>6
<1>4. Reads(d, g)'
  BY <1>2, OvertakenStays DEF Held, Reads
<1>5. Invited(d, g)'
  <2> SUFFICES ASSUME NEW c \in g.state, OwnAdd(d, c)' PROVE StillOwed(d, g, c)'
    BY DEF Invited
  <2>1. OwnAdd(d, c) /\ c \in Ids
    BY <1>1, Growth DEF OwnAdd, Grows
  <2>2. StillOwed(d, g, c)
    BY <2>1 DEF Held, Invited
  <2> QED
    BY <1>1, <2>1, <2>2, Growth DEF StillOwed
<1> QED
  BY <1>3, <1>4, <1>5 DEF Held

LEMMA OwedStays ==
    ASSUME TablesOK, World, World', Grows, NEW d \in Devices, NEW g, GroupOK(d, g), OwesAll(d, g),
           NEW c \in Ids, OwnAdd(d, c)'
    PROVE  StillOwed(d, g, c)'
<1>1. g.state \subseteq Ids
  BY Growth DEF GroupOK, Branch
<1>2. OwnAdd(d, c)
  BY Growth DEF OwnAdd, Grows
<1>3. StillOwed(d, g, c)
  BY <1>2 DEF OwesAll
<1> QED
  BY <1>1, <1>3, Growth DEF StillOwed

LEMMA RemembersStays ==
    ASSUME TablesOK, World, World', Grows, NEW d \in Devices, NEW g, GroupOK(d, g),
           Remembers(d, g), SkipIsTrue(g)
    PROVE  Remembers(d, g)' /\ SkipIsTrue(g)'
<1>1. Remembers(d, g)'
  <2> SUFFICES ASSUME NEW c \in chain', Overtaken(g, c)'
               PROVE  body'[c].by = d \/ g.skipped = {Epoch(g.state)} \/ crashes'[d] > 0
    BY DEF Remembers, Epoch
  <2>1. body[c].by = d \/ g.skipped = {Epoch(g.state)} \/ crashes[d] > 0
    BY OvertakenStays DEF Remembers
  <2>2. body'[c] = body[c]
    BY OvertakenStays, Growth
  <2>3. crashes[d] > 0 => crashes'[d] > 0
    BY DEF Grows
  <2> QED
    BY <2>1, <2>2, <2>3
<1>2. SkipIsTrue(g)'
  <2>1. ASSUME NEW x \in Sequenced
        PROVE  x \in Sequenced' /\ IsCommit(x)' = IsCommit(x) /\ body'[x] = body[x]
               /\ CursorOf(x)' = CursorOf(x)
    BY Growth
  <2> QED
    BY <2>1 DEF SkipIsTrue, Epoch
<1> QED
  BY <1>1, <1>2

LEMMA RecallsStays ==
    ASSUME TablesOK, World, World', Grows, NEW d \in Devices, NEW g, GroupOK(d, g),
           Recalls(d, g), \A c \in Ids' \ Ids : body'[c].by # d
    PROVE  Recalls(d, g)'
<1>1. Remembers(d, g)' /\ SkipIsTrue(g)'
  BY RemembersStays DEF Recalls
<1>2. OwesAll(d, g)'
  <2> SUFFICES ASSUME NEW c \in Ids', OwnAdd(d, c)' PROVE StillOwed(d, g, c)'
    BY DEF OwesAll
  <2>1. c \in Ids
    BY DEF OwnAdd
  <2> QED
    BY <2>1, OwedStays DEF Recalls
<1> QED
  BY <1>1, <1>2 DEF Recalls

\* A session that an action leaves alone.
LEMMA DeviceStays ==
    ASSUME TablesOK, World, World', Grows, NEW d \in Devices, DeviceInv(d),
           mem'[d] = mem[d], disk'[d] = disk[d], posting'[d] = posting[d],
           \A c \in Ids' \ Ids : body'[c].by # d
    PROVE  DeviceInv(d)'
<1> PICK g, k, c : g = mem[d] /\ k = disk[d] /\ c = posting[d]
  OBVIOUS
<1>1. GroupOK(d, g) /\ GroupOK(d, k) /\ PostOK(d, g, c)
  BY DEF DeviceInv
<1>2. GroupOK(d, g)' /\ GroupOK(d, k)' /\ PostOK(d, g, c)'
  BY <1>1, GroupStays, PostStays
<1>3. d \notin rejoined' => Held(d, g)' /\ Held(d, k)' /\ Recalls(d, g)'
  BY <1>1, HeldStays, RecallsStays DEF DeviceInv, Grows
<1> QED
  BY <1>2, <1>3 DEF DeviceInv

-----------------------------------------------------------------------------
(* Steps of one session.                                                   *)

\* An action that changes the memory of d and its post: it is enough to look at d.
LEMMA MemoryStep ==
    ASSUME SessionInv, World', Grows, NEW d \in Devices, NEW h, NEW c \in Nat,
           mem' = [mem EXCEPT ![d] = h], posting' = [posting EXCEPT ![d] = c], disk' = disk,
           crashes' \in [Devices -> Nat], forgone' \subseteq Ids', rejoined' \subseteq Devices,
           \A x \in Ids' \ Ids : body'[x].by = d,
           GroupOK(d, h)', PostOK(d, h, c)',
           d \notin rejoined' => Held(d, h)' /\ Recalls(d, h)'
    PROVE  SessionInv'
<1>1. TablesOK /\ World /\ \A e \in Devices : DeviceInv(e)
  BY DEF SessionInv
<1>2. TablesOK'
  BY <1>1 DEF TablesOK, GroupOK
<1>3. ASSUME NEW e \in Devices, e # d PROVE DeviceInv(e)'
  <2>1. mem'[e] = mem[e] /\ posting'[e] = posting[e] /\ disk'[e] = disk[e]
    BY <1>1, <1>3 DEF TablesOK
  <2>2. \A x \in Ids' \ Ids : body'[x].by # e
    BY <1>3
  <2> QED
    BY <1>1, <2>1, <2>2, DeviceStays
<1>4. DeviceInv(d)'
  <2> PICK k : k = disk[d]
    OBVIOUS
  <2>1. GroupOK(d, k)' /\ (d \notin rejoined' => Held(d, k)')
    BY <1>1, GroupStays, HeldStays DEF DeviceInv, Grows
  <2>2. mem'[d] = h /\ posting'[d] = c /\ disk'[d] = k
    BY <1>1 DEF TablesOK
  <2>3. k.race = "none" /\ k.skipped = {}
    BY <1>1 DEF DeviceInv
  <2> QED
    BY <2>1, <2>2, <2>3 DEF DeviceInv
<1> QED
  BY <1>2, <1>3, <1>4 DEF SessionInv

\* One that changes nothing else at all: what holds of the new group, holds after.
LEMMA LocalStep ==
    ASSUME SessionInv, NEW d \in Devices, NEW h,
           mem' = [mem EXCEPT ![d] = h], posting' = [posting EXCEPT ![d] = 0],
           UNCHANGED <<body, welcomes, coordinatorVars, disk, crashes, forgone, rejoined>>,
           GroupOK(d, h), d \notin rejoined => Held(d, h) /\ Recalls(d, h)
    PROVE  SessionInv'
<1>1. TablesOK /\ World /\ UNCHANGED <<body, welcomes, inFlight, log, chain>>
  BY DEF SessionInv, coordinatorVars
<1>2. World'
  BY <1>1, WorldStands
<1>3. Ids' = Ids /\ Len(body) \in Nat /\ Len(log) \in Nat
  BY <1>1 DEF Ids, World, MessagesOK, LogOK
<1>4. Grows
  BY <1>1, <1>3 DEF Grows
<1>5. GroupOK(d, h)' /\ (d \notin rejoined' => Held(d, h)' /\ Recalls(d, h)')
  BY <1>1, <1>2, <1>3, <1>4, GroupStays, HeldStays, RecallsStays
<1>6. PostOK(d, h, 0)'
  BY DEF PostOK
<1>7. crashes' \in [Devices -> Nat] /\ forgone' \subseteq Ids' /\ rejoined' \subseteq Devices
  BY <1>1, <1>3 DEF TablesOK
<1> QED
  BY <1>2, <1>3, <1>4, <1>5, <1>6, <1>7, MemoryStep

LEMMA AnswerLost ==
    ASSUME SessionInv, NEW d \in Devices, PostFails(d) \/ SendReturns(d)
    PROVE  SessionInv'
<1> PICK g : g = mem[d]
  OBVIOUS
<1>1. mem' = [mem EXCEPT ![d] = g]
  BY DEF PostFails, SendReturns, SessionInv, TablesOK
<1>2. GroupOK(d, g) /\ (d \notin rejoined => Held(d, g) /\ Recalls(d, g))
  BY DEF SessionInv, DeviceInv
<1> QED
  BY <1>1, <1>2, LocalStep DEF PostFails, SendReturns

\* The operations of P are those of Q, perhaps confirmed by the echo of c.
SameOperations(P, Q, c) ==
    /\ \A p \in P : \E o \in Q : /\ p.id = o.id /\ p.cursor = o.cursor
                                 /\ p.confirmed => o.confirmed \/ p.id = c
    /\ \A o \in Q : \E p \in P : p.id = o.id

\* Group g becomes h when message c is taken in: either the state stands, and c
\* is no Commit that would lead on unless it comes from the own leaf; or c does.
Ingested(d, g, h, c) ==
    /\ g.status = "active" /\ g.fetch < Len(log) /\ c = log[g.fetch + 1]
    /\ h \in Group /\ h.status \in {"active", "removed"} /\ h.fetch = g.fetch + 1
    /\ SameOperations(h.pending, g.pending, c)
    /\ \/ /\ h.state = g.state
          /\ (h.status = "active" /\ IsCommit(c) /\ body[c].base = g.state) =>
                OwnLeaf(d, c) /\ (body[c].by = d \/ h.skipped = {Epoch(g.state)})
          /\ \/ h.skipped = g.skipped
             \/ h.skipped = {Epoch(g.state)} /\ IsCommit(c) /\ body[c].base = g.state
       \/ /\ IsCommit(c) /\ body[c].base = g.state /\ h.state = After(c)
          /\ h.skipped = g.skipped
          /\ body[c].kind = "remove" => body[c].by # d

LEMMA IngestedGroup ==
    ASSUME TablesOK, World, NEW d \in Devices, NEW g, GroupOK(d, g), NEW h, NEW c,
           Ingested(d, g, h, c)
    PROVE  GroupOK(d, h) /\ g.state \subseteq h.state
<1>1. /\ MessagesOK /\ LogOK /\ Cursors /\ g \in Group /\ g.fetch \in Nat /\ Branch(g.state)
      /\ g.state \subseteq Sequenced /\ Sequenced \subseteq Ids /\ Ids \subseteq Nat
  BY CursorsNow, MessageFacts DEF World, GroupOK, Group, Branch, LogOK
<1>2. c \in Sequenced /\ h.fetch <= Len(log)
  BY <1>1 DEF Ingested, Cursors
<1>3. Branch(h.state) /\ g.state \subseteq h.state
  <2>1. IsCommit(c) => Branch(After(c))
    BY <1>1, <1>2, AfterIsBranch
  <2> QED
    BY <1>1, <2>1 DEF Ingested, After
<1>4. h.skipped \subseteq 0 .. Len(body)
  <2>1. Epoch(g.state) \in 0 .. Len(body)
    BY <1>1, BranchSize, MessageFacts
  <2> QED
    BY <2>1 DEF Ingested, GroupOK
<1>5. ASSUME NEW p \in h.pending PROVE OperationOK(d, h, p)
  <2>1. PICK o \in g.pending : /\ p.id = o.id /\ p.cursor = o.cursor
                               /\ p.confirmed => o.confirmed \/ p.id = c
    BY DEF Ingested, SameOperations
  <2>2. OperationOK(d, g, o)
    BY DEF GroupOK
  <2> QED
    BY <1>2, <1>3, <2>1, <2>2 DEF OperationOK
<1>6. AddsStand(d, h)
  <2> SUFFICES ASSUME NEW p \in h.pending, NEW r \in h.state, body[p.id].kind = "add",
                      body[r].kind = "remove", body[r].by = d, r > p.id
               PROVE  body[r].target # body[p.id].target
    BY DEF AddsStand
  <2>1. r \in g.state
    BY DEF Ingested, After
  <2>2. PICK o \in g.pending : p.id = o.id
    BY DEF Ingested, SameOperations
  <2> QED
    BY <2>1, <2>2 DEF GroupOK, AddsStand
<1> QED
  BY <1>2, <1>3, <1>4, <1>5, <1>6 DEF GroupOK, Ingested

\* From the state that a Commit of the log led to, the log leads on behind it.
LEMMA AheadOfState ==
    ASSUME World, NEW m \in Sequenced, IsCommit(m), NEW c \in Sequenced,
           body[c].base = After(m)
    PROVE  CursorOf(m) < CursorOf(c)
BY DEF World, LogOK, After

LEMMA IngestedHeld ==
    ASSUME TablesOK, World, NEW d \in Devices, NEW g, GroupOK(d, g), NEW h, NEW c,
           Ingested(d, g, h, c), Held(d, g), Recalls(d, g)
    PROVE  Held(d, h) /\ Recalls(d, h)
<1>1. /\ MessagesOK /\ LogOK /\ Cursors /\ g \in Group /\ g.fetch \in Nat /\ Branch(g.state)
      /\ Sequenced \subseteq Ids /\ Ids \subseteq Nat /\ chain \subseteq Sequenced
      /\ \A x \in chain : IsCommit(x)
  BY CursorsNow, MessageFacts DEF World, GroupOK, Group, Branch, LogOK, ChainOK
<1>2. c \in Sequenced /\ CursorOf(c) = g.fetch + 1 /\ \A x \in Sequenced : CursorOf(x) \in Nat
  BY <1>1 DEF Ingested, Cursors
<1>3. h.fetch = g.fetch + 1 /\ Branch(h.state) /\ h.state \subseteq Ids /\ g.state \subseteq h.state
  <2>1. GroupOK(d, h) /\ g.state \subseteq h.state
    BY IngestedGroup
  <2>2. Branch(h.state) /\ h.fetch = g.fetch + 1
    BY <2>1 DEF GroupOK, Ingested
  <2> QED
    BY <1>1, <2>1, <2>2 DEF Branch
<1>4. \A x : StillOwed(d, g, x) => StillOwed(d, h, x)
  BY <1>3 DEF StillOwed, Ingested, SameOperations
<1>5. OwesAll(d, h) /\ Invited(d, h)
  BY <1>3, <1>4 DEF Recalls, OwesAll, Invited
<1>6. Forks(d, h)
  <2> SUFFICES ASSUME NEW x \in Ids, Departs(h.state, x)
               PROVE  \/ body[x].by = d
                      \/ \E e \in h.state : e >= x /\ Welcomed(e)
                                            /\ body[e].target = IdentityOf[d]
                      \/ \E win \in chain : body[win].base = body[x].base /\ OwnLeaf(d, win)
    BY DEF Forks
  <2>1. CASE x \in g.state
    BY <1>3, <2>1 DEF Held, Forks, Departs
  <2>2. CASE x \notin g.state
    <3>1. x = c /\ IsCommit(c) /\ body[c].base = g.state /\ c \notin chain /\ OnChain(g.state)
      BY <2>2 DEF Departs, Ingested, After
    <3>2. PICK win \in chain : body[win].base = g.state /\ CursorOf(win) < CursorOf(c)
      BY <1>2, <3>1 DEF World, ChainOK
    <3>3. Overtaken(g, win)
      BY <1>1, <1>2, <3>2 DEF Overtaken, Follows, Ingested
    <3>4. OwnLeaf(d, win)
      BY <3>3 DEF Held, Reads
    <3> QED
      BY <3>1, <3>2, <3>4
  <2> QED
    BY <2>1, <2>2
<1>7. ASSUME NEW x \in chain, Overtaken(h, x)
      PROVE  OwnLeaf(d, x) /\ (body[x].by = d \/ h.skipped = {Epoch(h.state)} \/ crashes[d] > 0)
  <2>1. /\ h.status = "active" /\ body[x].base = h.state /\ CursorOf(x) <= g.fetch + 1
        /\ IsCommit(x) /\ x \in Sequenced
    BY <1>1, <1>3, <1>7 DEF Overtaken, Follows
  <2>2. h.state = g.state
    BY <1>2, <2>1, AheadOfState DEF Ingested
  <2>3. CASE x = c
    <3>1. c \in After(c) /\ c \notin body[c].base
      BY <1>1, <1>2, MessageFacts DEF After
    <3> QED
      BY <2>1, <2>2, <2>3, <3>1 DEF Ingested
  <2>4. CASE x # c
    <3>1. CursorOf(x) # CursorOf(c)
      BY <1>1, <1>2, <2>1, <2>4 DEF Cursors
    <3>2. Overtaken(g, x)
      BY <1>1, <1>2, <2>1, <2>2, <3>1 DEF Overtaken, Follows, Ingested
    <3>3. OwnLeaf(d, x) /\ (body[x].by = d \/ g.skipped = {Epoch(g.state)} \/ crashes[d] > 0)
      BY <3>2 DEF Held, Reads, Recalls, Remembers
    <3> QED
      BY <2>2, <3>3 DEF Ingested
  <2> QED
    BY <2>3, <2>4
<1>8. SkipIsTrue(h)
  <2>1. CASE h.state = g.state /\ h.skipped = g.skipped
    BY <1>1, <1>2, <1>3, <2>1 DEF Recalls, SkipIsTrue
  <2>2. CASE h.state = g.state /\ h.skipped = {Epoch(g.state)} /\ IsCommit(c) /\ body[c].base = g.state
    <3>1. Epoch(g.state) \in Nat
      BY <1>1, BranchSize
    <3> QED
      BY <1>2, <1>3, <2>2, <3>1 DEF SkipIsTrue
  <2>3. CASE IsCommit(c) /\ body[c].base = g.state /\ h.state = After(c) /\ h.skipped = g.skipped
    <3>1. Epoch(g.state) \in Nat /\ Epoch(h.state) = Epoch(g.state) + 1
      BY <1>1, <1>2, <2>3, NextEpoch
    <3> QED
      BY <2>3, <3>1 DEF Recalls, SkipIsTrue
  <2> QED
    BY <2>1, <2>2, <2>3 DEF Ingested
<1> QED
  BY <1>5, <1>6, <1>7, <1>8 DEF Held, Recalls, Reads, Remembers

LEMMA IngestStep ==
    ASSUME SessionInv, NEW d \in Devices, NEW h, CanIngest(d), Ingested(d, mem[d], h, Arriving(d)),
           mem' = [mem EXCEPT ![d] = h],
           UNCHANGED <<body, welcomes, coordinatorVars, disk, posting, crashes, forgone, rejoined>>
    PROVE  SessionInv'
<1> PICK g, c : g = mem[d] /\ c = Arriving(d)
  OBVIOUS
<1>1. /\ TablesOK /\ World /\ GroupOK(d, g)
      /\ d \notin rejoined => Held(d, g) /\ Recalls(d, g)
  BY DEF SessionInv, DeviceInv
<1>2. GroupOK(d, h) /\ (d \notin rejoined => Held(d, h) /\ Recalls(d, h))
  BY <1>1, IngestedGroup, IngestedHeld
<1>3. posting' = [posting EXCEPT ![d] = 0]
  BY <1>1 DEF TablesOK, CanIngest, LaneFree
<1> QED
  BY <1>2, <1>3, LocalStep

\* What a session meets at its cursor.
LEMMA ArrivingFacts ==
    ASSUME SessionInv, NEW d \in Devices, CanIngest(d)
    PROVE  /\ mem[d] \in Group /\ mem[d].fetch \in Nat /\ mem[d].status = "active"
           /\ mem[d].fetch < Len(log) /\ Arriving(d) = log[mem[d].fetch + 1]
           /\ Arriving(d) \in Sequenced /\ Arriving(d) \in Ids
           /\ body[Arriving(d)] \in Message /\ Arriving(d) \notin body[Arriving(d)].base
           /\ \A o \in mem[d].pending : OperationOK(d, mem[d], o) /\ o \in OperationRecord
<1>1. /\ Cursors /\ MessagesOK /\ LogOK /\ GroupOK(d, mem[d])
  BY CursorsNow DEF SessionInv, DeviceInv, World
<1>2. /\ mem[d] \in Group /\ mem[d].fetch \in Nat /\ mem[d].status = "active"
      /\ mem[d].fetch < Len(log) /\ Arriving(d) = log[mem[d].fetch + 1]
      /\ \A o \in mem[d].pending : OperationOK(d, mem[d], o) /\ o \in OperationRecord
  BY <1>1 DEF GroupOK, Group, CanIngest, LaneFree, Arriving
<1>3. Arriving(d) \in Sequenced
  BY <1>1, <1>2 DEF Cursors
<1>4. Arriving(d) \in Ids
  BY <1>1, <1>3 DEF LogOK
<1> QED
  BY <1>1, <1>2, <1>3, <1>4, MessageFacts

LEMMA SameIfSame == \A P, c : SameOperations(P, P, c)
BY DEF SameOperations

LEMMA ConfirmedOperations ==
    ASSUME NEW P, P \subseteq OperationRecord, NEW c
    PROVE  Confirm(P, c) \subseteq OperationRecord /\ SameOperations(Confirm(P, c), P, c)
<1>1. \A o \in P : [o EXCEPT !.confirmed = TRUE] \in OperationRecord
  BY DEF OperationRecord
<1>2. Confirm(P, c) \subseteq OperationRecord
  BY <1>1 DEF Confirm
<1>3. ASSUME NEW p \in Confirm(P, c)
      PROVE  \E o \in P : p.id = o.id /\ p.cursor = o.cursor /\ (p.confirmed => o.confirmed \/ p.id = c)
  <2>1. PICK o \in P : p = IF o.id = c THEN [o EXCEPT !.confirmed = TRUE] ELSE o
    BY DEF Confirm
  <2>2. o \in OperationRecord
    OBVIOUS
  <2>3. p.id = o.id /\ p.cursor = o.cursor /\ (p.confirmed => o.confirmed \/ p.id = c)
    BY <2>1, <2>2 DEF OperationRecord
  <2> QED
    BY <2>3
<1>4. ASSUME NEW o \in P PROVE \E p \in Confirm(P, c) : p.id = o.id
  <2>1. CASE o.id = c
    <3>1. [o EXCEPT !.confirmed = TRUE] \in Confirm(P, c) /\ o \in OperationRecord
      BY <2>1 DEF Confirm
    <3>2. [o EXCEPT !.confirmed = TRUE].id = o.id
      BY <3>1 DEF OperationRecord
    <3> QED
      BY <3>1, <3>2
  <2>2. CASE o.id # c
    BY <2>2 DEF Confirm
  <2> QED
    BY <2>1, <2>2
<1> QED
  BY <1>2, <1>3, <1>4 DEF SameOperations

LEMMA PassedFacts ==
    ASSUME NEW g \in Group
    PROVE  /\ Passed(g) \in Group /\ Passed(g).fetch = g.fetch + 1
           /\ Passed(g).status = g.status /\ Passed(g).state = g.state
           /\ Passed(g).skipped = g.skipped /\ Passed(g).pending = g.pending
BY DEF Group, Passed

LEMMA PassingEcho ==
    ASSUME SessionInv, NEW d \in Devices, ConfirmEcho(d) \/ ApplyOwnEcho(d)
    PROVE  SessionInv'
<1> PICK g, c : g = mem[d] /\ c = Arriving(d)
  OBVIOUS
<1>1. CanIngest(d) /\ \E o \in g.pending : o.id = c
  BY DEF ConfirmEcho, ApplyOwnEcho, Operation
<1>2. /\ g \in Group /\ g.fetch \in Nat /\ g.status = "active" /\ g.fetch < Len(log)
      /\ c = log[g.fetch + 1] /\ c \in Sequenced /\ c \in Ids /\ c \notin body[c].base
      /\ \A o \in g.pending : OperationOK(d, g, o) /\ o \in OperationRecord
  BY <1>1, ArrivingFacts
<1>3. body[c].by = d /\ IsCommit(c) /\ (HasPath(c) => OwnLeaf(d, c))
  BY <1>1, <1>2 DEF OperationOK, OwnLeaf
<1> DEFINE P == Confirm(g.pending, c)
<1>4. P \subseteq OperationRecord /\ SameOperations(P, g.pending, c)
  BY <1>2, ConfirmedOperations
<1>5. CASE ConfirmEcho(d)
  <2> DEFINE m == [g EXCEPT !.pending = P]
             h == Passed(m)
  <2>1. mem' = [mem EXCEPT ![d] = h]
    BY <1>5 DEF ConfirmEcho, Ingests
  <2>2. /\ h \in Group /\ h.status = "active" /\ h.fetch = g.fetch + 1 /\ h.state = g.state
        /\ h.skipped = g.skipped /\ h.pending = P
    <3>1. /\ m \in Group /\ m.status = g.status /\ m.fetch = g.fetch /\ m.state = g.state
          /\ m.skipped = g.skipped /\ m.pending = P
      BY <1>2, <1>4 DEF Group
    <3> QED
      BY <1>2, <3>1, PassedFacts
  <2>3. c \in g.state
    BY <1>2, <1>5 DEF ConfirmEcho, Operation, OperationOK
  <2>4. Ingested(d, g, h, c)
    BY <1>2, <1>4, <2>2, <2>3 DEF Ingested
  <2> QED
    BY <1>1, <1>5, <2>1, <2>4, IngestStep DEF ConfirmEcho, Ingests
<1>6. CASE ApplyOwnEcho(d)
  <2> DEFINE m == [g EXCEPT !.state = IF HasPath(c) THEN @ ELSE After(c), !.pending = P]
             h == Passed(m)
  <2>1. mem' = [mem EXCEPT ![d] = h]
    BY <1>6 DEF ApplyOwnEcho, Ingests
  <2>2. After(c) \subseteq Nat /\ body[c].base = g.state
    BY <1>2, <1>6, MessageFacts DEF After, ApplyOwnEcho, Opens, SessionInv, World, Group
  <2>3. /\ h \in Group /\ h.status = "active" /\ h.fetch = g.fetch + 1
        /\ h.state = IF HasPath(c) THEN g.state ELSE After(c)
        /\ h.skipped = g.skipped /\ h.pending = P
    <3>1. /\ m \in Group /\ m.status = g.status /\ m.fetch = g.fetch /\ m.skipped = g.skipped
          /\ m.state = (IF HasPath(c) THEN g.state ELSE After(c)) /\ m.pending = P
      BY <1>2, <1>4, <2>2 DEF Group
    <3> HIDE DEF m
    <3> QED
      BY <1>2, <3>1, PassedFacts
  <2>4. ~HasPath(c) => body[c].kind # "remove"
    BY DEF HasPath
  <2>5. Ingested(d, g, h, c)
    BY <1>2, <1>3, <1>4, <2>2, <2>3, <2>4 DEF Ingested
  <2> QED
    BY <1>1, <1>6, <2>1, <2>5, IngestStep DEF ApplyOwnEcho, Ingests
<1> QED
  BY <1>5, <1>6

LEMMA PassingOthers ==
    ASSUME SessionInv, NEW d \in Devices,
           SkipUnreadable(d) \/ SkipSibling(d) \/ BeRemoved(d) \/ Apply(d)
    PROVE  SessionInv'
<1> PICK g, c : g = mem[d] /\ c = Arriving(d)
  OBVIOUS
<1>1. CanIngest(d)
  BY DEF SkipUnreadable, SkipSibling, BeRemoved, Apply
<1>2. /\ g \in Group /\ g.fetch \in Nat /\ g.status = "active" /\ g.fetch < Len(log)
      /\ c = log[g.fetch + 1] /\ c \in Sequenced /\ c \in Ids
      /\ body[c] \in Message /\ c \notin body[c].base
  BY <1>1, ArrivingFacts
<1>3. /\ SameOperations(g.pending, g.pending, c)
      /\ Epoch(g.state) \in Nat
  <2>1. Branch(g.state)
    BY DEF SessionInv, DeviceInv, GroupOK
  <2> QED
    BY <2>1, SameIfSame, BranchSize DEF SessionInv, World
<1>4. CASE SkipUnreadable(d)
  <2>1. mem' = [mem EXCEPT ![d] = Passed(g)] /\ body[c].base # g.state
    BY <1>4 DEF SkipUnreadable, Ingests, Opens
  <2>2. /\ Passed(g) \in Group /\ Passed(g).status = "active" /\ Passed(g).fetch = g.fetch + 1
        /\ Passed(g).state = g.state /\ Passed(g).skipped = g.skipped
        /\ Passed(g).pending = g.pending
    BY <1>2 DEF Group, Passed
  <2>3. Ingested(d, g, Passed(g), c)
    BY <1>2, <1>3, <2>1, <2>2 DEF Ingested
  <2> QED
    BY <1>1, <1>4, <2>1, <2>3, IngestStep DEF SkipUnreadable, Ingests
<1>5. CASE SkipSibling(d)
  <2> DEFINE m == [g EXCEPT !.skipped = {Epoch(g.state)}]
             h == Passed(m)
  <2>1. mem' = [mem EXCEPT ![d] = h] /\ body[c].base = g.state /\ OwnLeaf(d, c) /\ IsCommit(c)
    BY <1>5 DEF SkipSibling, Ingests, Opens, IsSiblingCommit, OwnLeaf
  <2>2. /\ h \in Group /\ h.status = "active" /\ h.fetch = g.fetch + 1 /\ h.state = g.state
        /\ h.skipped = {Epoch(g.state)} /\ h.pending = g.pending
    <3>1. /\ m \in Group /\ m.status = g.status /\ m.fetch = g.fetch /\ m.state = g.state
          /\ m.skipped = {Epoch(g.state)} /\ m.pending = g.pending
      BY <1>2, <1>3 DEF Group
    <3> QED
      BY <1>2, <3>1, PassedFacts
  <2>3. Ingested(d, g, h, c)
    BY <1>2, <1>3, <2>1, <2>2 DEF Ingested
  <2> QED
    BY <1>1, <1>5, <2>1, <2>3, IngestStep DEF SkipSibling, Ingests
<1>6. CASE BeRemoved(d)
  <2> DEFINE m == [g EXCEPT !.status = "removed"]
             h == Passed(m)
  <2>1. mem' = [mem EXCEPT ![d] = h]
    BY <1>6 DEF BeRemoved, Ingests
  <2>2. /\ h \in Group /\ h.status = "removed" /\ h.fetch = g.fetch + 1 /\ h.state = g.state
        /\ h.skipped = g.skipped /\ h.pending = g.pending
    <3>1. /\ m \in Group /\ m.status = "removed" /\ m.fetch = g.fetch /\ m.state = g.state
          /\ m.skipped = g.skipped /\ m.pending = g.pending
      BY <1>2 DEF Group
    <3> QED
      BY <1>2, <3>1, PassedFacts
  <2>3. Ingested(d, g, h, c)
    BY <1>2, <1>3, <2>2 DEF Ingested
  <2> QED
    BY <1>1, <1>6, <2>1, <2>3, IngestStep DEF BeRemoved, Ingests
<1>7. CASE Apply(d)
  <2> DEFINE m == [g EXCEPT !.state = IF IsCommit(c) THEN After(c) ELSE @]
             h == Passed(m)
  <2>1. mem' = [mem EXCEPT ![d] = h] /\ body[c].base = g.state /\ ~IsSiblingCommit(d, c)
    BY <1>7 DEF Apply, Ingests, Opens
  <2>2. After(c) \subseteq Nat
    BY <1>2, <2>1, MessageFacts DEF After, SessionInv, World, Group
  <2>3. /\ h \in Group /\ h.status = "active" /\ h.fetch = g.fetch + 1
        /\ h.state = IF IsCommit(c) THEN After(c) ELSE g.state
        /\ h.skipped = g.skipped /\ h.pending = g.pending
    <3>1. /\ m \in Group /\ m.status = g.status /\ m.fetch = g.fetch /\ m.skipped = g.skipped
          /\ m.state = (IF IsCommit(c) THEN After(c) ELSE g.state) /\ m.pending = g.pending
      BY <1>2, <2>2 DEF Group
    <3> HIDE DEF m
    <3> QED
      BY <1>2, <3>1, PassedFacts
  <2>4. (IsCommit(c) /\ body[c].kind = "remove") => body[c].by # d
    BY <2>1 DEF IsSiblingCommit, HasPath
  <2>5. Ingested(d, g, h, c)
    BY <1>2, <1>3, <2>1, <2>3, <2>4 DEF Ingested
  <2> QED
    BY <1>1, <1>7, <2>1, <2>5, IngestStep DEF Apply, Ingests
<1> QED
  BY <1>4, <1>5, <1>6, <1>7

-----------------------------------------------------------------------------
(* Posts and their answers.                                                *)

LEMMA Posting ==
    ASSUME SessionInv, NEW d \in Devices, NEW kind \in Kinds, NEW t \in Identities \cup {None},
           Post(d, kind, t),
           IF kind = "app" THEN mem' = mem ELSE Enqueue(d)
    PROVE  SessionInv'
<1> PICK g, c, m : g = mem[d] /\ c = Len(body) + 1 /\ m = Sealed(d, kind, t)
  OBVIOUS
<1>1. /\ TablesOK /\ World /\ GroupOK(d, g) /\ g \in Group /\ g.status = "active"
      /\ d \notin rejoined => Held(d, g) /\ Recalls(d, g)
      /\ g.state \subseteq Nat /\ Branch(g.state)
  BY DEF SessionInv, DeviceInv, GroupOK, Group, Post, LaneFree
<1>2. /\ body' = Append(body, m) /\ inFlight' = inFlight \cup {c}
      /\ posting' = [posting EXCEPT ![d] = c]
      /\ UNCHANGED <<log, chain, welcomes, disk, crashes, forgone, rejoined>>
  BY DEF Post
<1>3. m \in Message /\ m.base = g.state /\ m.by = d /\ m.kind = kind
  BY <1>1 DEF Sealed, Message
<1>4. World' /\ Grows
  BY <1>1, <1>2, <1>3, PostGrows
<1>5. /\ c \in Nat /\ Len(body') = c /\ body'[c] = m /\ c \in Ids' /\ Ids' = Ids \cup {c}
      /\ c \notin Ids /\ Ids \subseteq Nat /\ \A x \in Ids : x < c
  BY <1>1, <1>2, <1>3 DEF World, MessagesOK, Ids
<1>6. Sequenced' \subseteq Ids /\ g.state \subseteq Ids
  BY <1>1, <1>2 DEF World, LogOK, Branch, Sequenced
<1>7. GroupOK(d, g)' /\ (d \notin rejoined' => Held(d, g)' /\ Remembers(d, g)' /\ SkipIsTrue(g)')
  BY <1>1, <1>2, <1>4, GroupStays, HeldStays, RemembersStays DEF Recalls
<1>8. PICK h : /\ h = [g EXCEPT !.pending = IF kind = "app" THEN @ ELSE @ \cup {PendingOperation(c)}]
               /\ mem' = [mem EXCEPT ![d] = h]
  <2>1. CASE kind = "app"
    <3>1. g = [g EXCEPT !.pending = g.pending]
      BY <1>1 DEF Group
    <3>2. mem' = [mem EXCEPT ![d] = g]
      BY <1>1, <2>1 DEF TablesOK
    <3> QED
      BY <2>1, <3>1, <3>2
  <2>2. CASE kind # "app"
    <3>1. mem' = [mem EXCEPT ![d] = [g EXCEPT !.pending = g.pending \cup {PendingOperation(c)}]]
      BY <2>2 DEF Enqueue
    <3> QED
      BY <2>2, <3>1
  <2> QED
    BY <2>1, <2>2
<1>9. PendingOperation(c) \in OperationRecord /\ PendingOperation(c).id = c
      /\ PendingOperation(c).cursor = 0 /\ ~PendingOperation(c).confirmed
  BY <1>5 DEF PendingOperation, OperationRecord
<1>10. /\ h \in Group /\ h.status = g.status /\ h.state = g.state /\ h.fetch = g.fetch
       /\ h.skipped = g.skipped /\ h.race = g.race
       /\ h.pending = IF kind = "app" THEN g.pending ELSE g.pending \cup {PendingOperation(c)}
  BY <1>1, <1>8, <1>9 DEF Group
<1>11. GroupOK(d, h)'
  <2>1. ASSUME NEW o \in h.pending PROVE OperationOK(d, h, o)'
    <3>1. CASE o \in g.pending
      BY <1>7, <1>10, <3>1 DEF GroupOK, OperationOK
    <3>2. CASE o = PendingOperation(c) /\ kind # "app"
      BY <1>3, <1>5, <1>9, <3>2 DEF OperationOK, IsCommit
    <3> QED
      BY <1>10, <3>1, <3>2
  <2>2. AddsStand(d, h)'
    <3> SUFFICES ASSUME NEW o \in h.pending, NEW r \in h.state, body'[o.id].kind = "add",
                        body'[r].kind = "remove", body'[r].by = d, r > o.id
                 PROVE  body'[r].target # body'[o.id].target
      BY DEF AddsStand
    <3>1. r \in Ids /\ r \in g.state /\ r < c /\ r \in Nat
      BY <1>5, <1>6, <1>10
    <3>2. o.id # c
      BY <1>5, <3>1
    <3>3. o \in g.pending
      BY <1>9, <1>10, <3>2
    <3> QED
      BY <1>7, <3>1, <3>3 DEF GroupOK, AddsStand
  <2> QED
    BY <1>1, <1>7, <1>10, <2>1, <2>2 DEF GroupOK
<1>12. PostOK(d, h, c)'
  <2>1. \A o \in h.pending : o.id <= c
    <3>1. \A o \in g.pending : o.id \in Ids
      BY <1>1 DEF GroupOK, OperationOK
    <3>2. ASSUME NEW o \in g.pending PROVE o.id <= c
      <4>1. o.id \in Nat /\ o.id < c
        BY <1>5, <3>1
      <4> QED
        BY <1>5, <4>1
    <3>3. c <= c
      BY <1>5
    <3> QED
      BY <1>9, <1>10, <3>2, <3>3
  <2>2. IsCommit(c)' => \E o \in h.pending : o.id = c
    BY <1>3, <1>5, <1>9, <1>10 DEF IsCommit
  <2> QED
    BY <1>1, <1>3, <1>5, <1>6, <1>10, <2>1, <2>2 DEF PostOK
<1>13. \A x : StillOwed(d, g, x)' => StillOwed(d, h, x)'
  BY <1>10 DEF StillOwed
<1>14. ASSUME d \notin rejoined' PROVE Held(d, h)' /\ Recalls(d, h)'
  <2>1. Held(d, g)' /\ Remembers(d, g)' /\ SkipIsTrue(g)' /\ OwesAll(d, g)
    BY <1>1, <1>2, <1>7, <1>14 DEF Recalls
  <2>2. Forks(d, h)' /\ Invited(d, h)'
    BY <1>10, <1>13, <2>1 DEF Held, Forks, Departs, Invited
  <2>3. Reads(d, h)' /\ Remembers(d, h)' /\ SkipIsTrue(h)'
    BY <1>10, <2>1 DEF Held, Reads, Remembers, SkipIsTrue, Overtaken, Follows
  <2>4. OwesAll(d, h)'
    <3> SUFFICES ASSUME NEW x \in Ids', OwnAdd(d, x)' PROVE StillOwed(d, h, x)'
      BY DEF OwesAll
    <3>1. CASE x \in Ids
      BY <1>1, <1>4, <1>13, <2>1, <3>1, OwedStays
    <3>2. CASE x = c
      BY <1>3, <1>5, <1>9, <1>10, <3>2 DEF OwnAdd, StillOwed
    <3> QED
      BY <1>5, <3>1, <3>2
  <2> QED
    BY <2>2, <2>3, <2>4 DEF Held, Recalls
<1>15. /\ crashes' \in [Devices -> Nat] /\ forgone' \subseteq Ids' /\ rejoined' \subseteq Devices
       /\ \A x \in Ids' \ Ids : body'[x].by = d
  BY <1>1, <1>2, <1>3, <1>5 DEF TablesOK
<1> QED
  BY <1>2, <1>4, <1>5, <1>8, <1>11, <1>12, <1>14, <1>15, MemoryStep

LEMMA Arrival ==
    ASSUME SessionInv, NEW c \in inFlight, PostArrives(c)
    PROVE  SessionInv'
<1>1. TablesOK /\ World /\ UNCHANGED <<body, mem, disk, posting, crashes, forgone, rejoined>>
  BY DEF SessionInv, PostArrives, deviceVars
<1>2. World' /\ Grows
  BY <1>1, ArrivalGrows
<1>3. TablesOK' /\ Ids' = Ids
  BY <1>1 DEF TablesOK, Ids
<1>4. \A d \in Devices : DeviceInv(d)'
  BY <1>1, <1>2, <1>3, DeviceStays DEF SessionInv
<1> QED
  BY <1>2, <1>3, <1>4 DEF SessionInv

\* What the answer of a Commit does to the operations.
Answered(P, c) == {IF o.id = c THEN [o EXCEPT !.cursor = CursorOf(c)] ELSE o : o \in P}

LEMMA AnsweredOperations ==
    ASSUME NEW P, P \subseteq OperationRecord, NEW c, CursorOf(c) \in Nat
    PROVE  /\ Answered(P, c) \subseteq OperationRecord
           /\ \A p \in Answered(P, c) : \E o \in P :
                 /\ p.id = o.id /\ p.confirmed = o.confirmed
                 /\ p.cursor = IF o.id = c THEN CursorOf(c) ELSE o.cursor
           /\ \A o \in P : \E p \in Answered(P, c) : p.id = o.id
<1>1. \A o \in P : [o EXCEPT !.cursor = CursorOf(c)] \in OperationRecord
  BY DEF OperationRecord
<1>2. Answered(P, c) \subseteq OperationRecord
  BY <1>1 DEF Answered
<1>3. ASSUME NEW p \in Answered(P, c)
      PROVE  \E o \in P : /\ p.id = o.id /\ p.confirmed = o.confirmed
                          /\ p.cursor = IF o.id = c THEN CursorOf(c) ELSE o.cursor
  <2>1. PICK o \in P : p = IF o.id = c THEN [o EXCEPT !.cursor = CursorOf(c)] ELSE o
    BY DEF Answered
  <2>2. o \in OperationRecord
    OBVIOUS
  <2>3. /\ p.id = o.id /\ p.confirmed = o.confirmed
        /\ p.cursor = IF o.id = c THEN CursorOf(c) ELSE o.cursor
    BY <2>1, <2>2 DEF OperationRecord
  <2> QED
    BY <2>3
<1>4. ASSUME NEW o \in P PROVE \E p \in Answered(P, c) : p.id = o.id
  <2>1. CASE o.id = c
    <3>1. [o EXCEPT !.cursor = CursorOf(c)] \in Answered(P, c) /\ o \in OperationRecord
      BY <2>1 DEF Answered
    <3>2. [o EXCEPT !.cursor = CursorOf(c)].id = o.id
      BY <3>1 DEF OperationRecord
    <3> QED
      BY <3>1, <3>2
  <2>2. CASE o.id # c
    BY <2>2 DEF Answered
  <2> QED
    BY <2>1, <2>2
<1> QED
  BY <1>2, <1>3, <1>4

LEMMA Answer ==
    ASSUME SessionInv, NEW d \in Devices, CommitReturns(d)
    PROVE  SessionInv'
<1> PICK g, c : g = mem[d] /\ c = posting[d]
  OBVIOUS
<1> DEFINE answered == Answered(g.pending, c)
<1>1. /\ TablesOK /\ World /\ MessagesOK /\ LogOK /\ Cursors
      /\ GroupOK(d, g) /\ g \in Group /\ g.fetch \in Nat /\ Branch(g.state) /\ PostOK(d, g, c)
      /\ d \notin rejoined => Held(d, g) /\ Recalls(d, g)
  BY CursorsNow DEF SessionInv, World, DeviceInv, GroupOK, Group
<1>2. PICK v \in {"none", "live", "dead"} :
         mem' = [mem EXCEPT ![d].race = v, ![d].state = After(c),
                            ![d].pending = IF body[c].kind = "remove"
                                           THEN WithoutAddsOf(answered, body[c].target)
                                           ELSE answered]
  <2>1. Verdicts(d, c) \subseteq {"none", "live", "dead"}
    BY <1>1 DEF Verdicts, Group
  <2>2. \E v \in Verdicts(d, posting[d]) :
           mem' = [mem EXCEPT
                     ![d].race = v,
                     ![d].state = After(posting[d]),
                     ![d].pending =
                        IF body[posting[d]].kind = "remove"
                        THEN WithoutAddsOf(Answered(mem[d].pending, posting[d]),
                                           body[posting[d]].target)
                        ELSE Answered(mem[d].pending, posting[d])]
    BY DEF CommitReturns, Answered
  <2> QED
    BY <2>1, <2>2
<1>3. /\ c \in Sequenced /\ IsCommit(c) /\ c \in Ids /\ c \in Nat /\ c # 0 /\ c \notin body[c].base
      /\ Branch(After(c)) /\ CursorOf(c) \in Nat
      /\ Epoch(body[c].base) \in Nat /\ Epoch(After(c)) = Epoch(body[c].base) + 1
  <2>1. c \in Sequenced /\ IsCommit(c)
    BY DEF CommitReturns
  <2>2. c \in Ids /\ c \in Nat /\ c # 0
    BY <1>1, <2>1 DEF LogOK, Ids
  <2> QED
    BY <1>1, <2>1, <2>2, MessageFacts, AfterIsBranch, NextEpoch DEF Cursors
<1>4. /\ body[c].by = d /\ g.status = "active" /\ \A o \in g.pending : o.id <= c
      /\ body[c].base = g.state \/ g.pending = {}
      /\ d \notin rejoined => body[c].base = g.state /\ g.fetch < CursorOf(c)
  BY <1>1, <1>3 DEF PostOK
<1>5. /\ answered \subseteq OperationRecord
      /\ \A p \in answered : \E o \in g.pending :
            /\ p.id = o.id /\ p.confirmed = o.confirmed
            /\ p.cursor = IF o.id = c THEN CursorOf(c) ELSE o.cursor
      /\ \A o \in g.pending : \E p \in answered : p.id = o.id
  <2>1. g.pending \subseteq OperationRecord
    BY <1>1 DEF Group
  <2> HIDE DEF answered
  <2> QED
    BY <1>3, <2>1, AnsweredOperations DEF answered
<1> HIDE DEF answered
<1> DEFINE left == IF body[c].kind = "remove" THEN WithoutAddsOf(answered, body[c].target)
                   ELSE answered
<1>6. /\ left \subseteq answered
      /\ \A p \in answered \ left : /\ body[c].kind = "remove" /\ body[p.id].kind = "add"
                                    /\ body[p.id].target = body[c].target
      /\ \A p \in left : body[c].kind = "remove" =>
            ~(body[p.id].kind = "add" /\ body[p.id].target = body[c].target)
  BY DEF WithoutAddsOf
<1> DEFINE h == [g EXCEPT !.race = v, !.state = After(c), !.pending = left]
<1>7. mem' = [mem EXCEPT ![d] = h]
  BY <1>2
<1> HIDE DEF left
<1>8. /\ h \in Group /\ h.status = g.status /\ h.fetch = g.fetch /\ h.skipped = g.skipped
      /\ h.state = After(c) /\ h.pending = left
  <2>1. After(c) \subseteq Nat
    BY <1>1, <1>3, MessageFacts DEF Branch, LogOK
  <2> QED
    BY <1>1, <1>5, <1>6, <2>1 DEF Group
<1> HIDE DEF h
<1>9. ASSUME NEW p \in left
      PROVE  \E o \in g.pending : /\ p.id = o.id /\ p.confirmed = o.confirmed
                                  /\ p.cursor = IF o.id = c THEN CursorOf(c) ELSE o.cursor
  BY <1>5, <1>6
<1>10. GroupOK(d, h)
  <2>1. ASSUME NEW p \in h.pending PROVE OperationOK(d, h, p)
    <3>1. PICK o \in g.pending : /\ p.id = o.id /\ p.confirmed = o.confirmed
                                 /\ p.cursor = IF o.id = c THEN CursorOf(c) ELSE o.cursor
      BY <1>8, <1>9
    <3>2. OperationOK(d, g, o) /\ body[c].base = g.state
      BY <1>1, <1>4 DEF GroupOK
    <3> QED
      BY <1>3, <1>8, <3>1, <3>2 DEF OperationOK, After
  <2>2. AddsStand(d, h)
    <3> SUFFICES ASSUME NEW p \in h.pending, NEW r \in h.state, body[p.id].kind = "add",
                        body[r].kind = "remove", body[r].by = d, r > p.id
                 PROVE  body[r].target # body[p.id].target
      BY DEF AddsStand
    <3>1. PICK o \in g.pending : p.id = o.id
      BY <1>8, <1>9
    <3>2. body[c].base = g.state
      BY <1>4, <3>1
    <3>3. CASE r = c
      BY <1>6, <1>8, <3>3
    <3>4. CASE r # c
      BY <1>1, <1>8, <3>1, <3>2, <3>4 DEF GroupOK, AddsStand, After
    <3> QED
      BY <3>3, <3>4
  <2> QED
    BY <1>1, <1>3, <1>4, <1>8, <2>1, <2>2 DEF GroupOK
<1>11. ASSUME d \notin rejoined PROVE Held(d, h) /\ Recalls(d, h)
  <2>1. Held(d, g) /\ Recalls(d, g) /\ body[c].base = g.state /\ g.fetch < CursorOf(c)
    BY <1>1, <1>4, <1>11
  <2>2. Forks(d, h)
    <3>1. \A x : Departs(h.state, x) => x = c \/ Departs(g.state, x)
      BY <1>8, <2>1 DEF Departs, After
    <3> QED
      BY <1>4, <1>8, <2>1, <3>1 DEF Held, Forks, After
  <2>3. ASSUME NEW x \in chain, Overtaken(h, x) PROVE FALSE
    <3>1. x \in Sequenced /\ body[x].base = After(c) /\ CursorOf(x) <= g.fetch /\ CursorOf(x) \in Nat
      BY <1>1, <1>8, <2>3 DEF Overtaken, Follows, World, ChainOK, Branch, Cursors
    <3>2. CursorOf(c) < CursorOf(x)
      BY <1>1, <1>3, <3>1, AheadOfState
    <3> QED
      BY <1>1, <1>3, <2>1, <3>1, <3>2
  <2>4. OwesAll(d, h)
    <3> SUFFICES ASSUME NEW x \in Ids, OwnAdd(d, x) PROVE StillOwed(d, h, x)
      BY DEF OwesAll
    <3>1. CASE Welcomed(x)
      BY <3>1 DEF StillOwed
    <3>2. ASSUME NEW o \in g.pending, o.id = x PROVE StillOwed(d, h, x)
      <4>1. PICK p \in answered : p.id = x
        BY <1>5, <3>2
      <4>2. CASE p \in left
        BY <1>8, <4>1, <4>2 DEF StillOwed
      <4>3. CASE p \notin left
        <5>1. body[c].kind = "remove" /\ body[x].kind = "add" /\ body[x].target = body[c].target
          BY <1>6, <4>1, <4>3
        <5>2. c > x
          <6>1. x <= c /\ x # c /\ x \in Nat
            BY <1>4, <3>2, <5>1 DEF Ids
          <6> QED
            BY <1>3, <6>1
        <5> QED
          BY <1>4, <1>8, <5>1, <5>2 DEF StillOwed, After
      <4> QED
        BY <4>2, <4>3
    <3>3. CASE \E r \in g.state : /\ r > x /\ body[r].by = d /\ body[r].kind = "remove"
                                  /\ body[r].target = body[x].target
      BY <1>8, <2>1, <3>3 DEF StillOwed, After
    <3>4. StillOwed(d, g, x)
      BY <2>1 DEF Recalls, OwesAll
    <3> QED
      BY <3>1, <3>2, <3>3, <3>4 DEF StillOwed
  <2>5. Invited(d, h)
    <3>1. h.state \subseteq Ids
      BY <1>1, <1>3, <1>8 DEF Branch, LogOK
    <3> QED
      BY <2>4, <3>1 DEF OwesAll, Invited
  <2>6. SkipIsTrue(h)
    BY <1>3, <1>8, <2>1 DEF Recalls, SkipIsTrue
  <2> QED
    BY <2>2, <2>3, <2>4, <2>5, <2>6 DEF Held, Recalls, Reads, Remembers
<1> QED
  BY <1>7, <1>10, <1>11, LocalStep DEF CommitReturns

-----------------------------------------------------------------------------
(* Welcomes, snapshots, crashes.                                           *)

LEMMA Finalizing ==
    ASSUME SessionInv, NEW d \in Devices, Finalize(d)
    PROVE  SessionInv'
<1> PICK g : g = mem[d]
  OBVIOUS
<1>1. /\ TablesOK /\ World /\ Cursors /\ GroupOK(d, g) /\ g \in Group
      /\ d \notin rejoined => Held(d, g) /\ Recalls(d, g)
      /\ posting[d] = 0
      /\ UNCHANGED <<body, inFlight, log, chain, disk, posting, crashes, forgone, rejoined>>
  BY CursorsNow DEF SessionInv, World, DeviceInv, GroupOK, Finalize, LaneFree, coordinatorVars
<1>2. PICK o \in g.pending :
         /\ o.confirmed
         /\ IF body[o.id].kind = "add"
            THEN /\ welcomes' = welcomes \cup {[id |-> o.id, after |-> o.cursor]}
                 /\ mem' \in {mem, [mem EXCEPT ![d].pending = @ \ {o}]}
            ELSE /\ mem' = [mem EXCEPT ![d].pending = @ \ {o}]
                 /\ UNCHANGED welcomes
  BY DEF Finalize
<1>3. /\ o.id \in Sequenced /\ IsCommit(o.id) /\ o.cursor \in Nat /\ o.cursor <= CursorOf(o.id)
      /\ o.id \in Ids
  <2>1. OperationOK(d, g, o) /\ o.confirmed
    BY <1>1, <1>2 DEF GroupOK
  <2>2. o.cursor \in Nat
    BY <1>1 DEF Group, OperationRecord
  <2>3. o.id \in Sequenced /\ CursorOf(o.id) \in Nat
    BY <1>1, <2>1 DEF OperationOK, Cursors
  <2> QED
    BY <2>1, <2>2, <2>3 DEF OperationOK
<1>4. /\ welcomes \subseteq welcomes'
      /\ \A w \in welcomes' \ welcomes : w.id = o.id /\ w.after = o.cursor
      /\ body[o.id].kind = "add" => Welcomed(o.id)'
  <2>1. CASE body[o.id].kind = "add"
    <3>1. PICK w : w = [id |-> o.id, after |-> o.cursor]
      OBVIOUS
    <3>2. w.id = o.id /\ w.after = o.cursor
      BY <3>1
    <3>3. welcomes' = welcomes \cup {w}
      BY <1>2, <2>1, <3>1
    <3> QED
      BY <3>2, <3>3 DEF Welcomed
  <2>2. CASE body[o.id].kind # "add"
    BY <1>2, <2>2
  <2> QED
    BY <2>1, <2>2
<1>5. World'
  BY <1>1, <1>3, <1>4, WorldStands
<1>6. Ids' = Ids /\ Len(body) \in Nat /\ Len(log) \in Nat
  BY <1>1 DEF Ids, World, MessagesOK, LogOK
<1>7. Grows
  BY <1>1, <1>4, <1>6 DEF Grows
<1>8. PICK h \in {g, [g EXCEPT !.pending = @ \ {o}]} : mem' = [mem EXCEPT ![d] = h]
  <2>1. mem = [mem EXCEPT ![d] = g]
    BY <1>1 DEF TablesOK
  <2>2. mem' = mem \/ mem' = [mem EXCEPT ![d].pending = @ \ {o}]
    BY <1>2
  <2> QED
    BY <2>1, <2>2
<1>9. /\ h \in Group /\ h.status = g.status /\ h.state = g.state /\ h.fetch = g.fetch
      /\ h.skipped = g.skipped
      /\ h.pending = g.pending \/ h.pending = g.pending \ {o}
  BY <1>1 DEF Group
<1>10. GroupOK(d, h)
  <2>1. g.pending # {} => g.status # "absent"
    BY <1>1 DEF GroupOK, Absent
  <2>2. \A p \in h.pending : OperationOK(d, h, p)
    BY <1>1, <1>9 DEF GroupOK, OperationOK
  <2>3. AddsStand(d, h)
    BY <1>1, <1>9 DEF GroupOK, AddsStand
  <2> QED
    BY <1>1, <1>2, <1>9, <2>1, <2>2, <2>3 DEF GroupOK
<1>11. GroupOK(d, h)' /\ GroupOK(d, g)'
  BY <1>1, <1>5, <1>7, <1>10, GroupStays
<1>12. ASSUME d \notin rejoined' PROVE Held(d, h)' /\ Recalls(d, h)'
  <2>1. Held(d, g)' /\ Recalls(d, g)'
    BY <1>1, <1>5, <1>6, <1>7, <1>12, HeldStays, RecallsStays
  <2>2. ASSUME NEW x \in Ids, OwnAdd(d, x)', StillOwed(d, g, x)' PROVE StillOwed(d, h, x)'
    <3>1. CASE x = o.id
      BY <1>1, <1>4, <2>2, <3>1 DEF OwnAdd, StillOwed
    <3>2. CASE x # o.id
      BY <1>9, <2>2, <3>2 DEF StillOwed
    <3> QED
      BY <3>1, <3>2
  <2>3. g.state \subseteq Ids
    BY <1>1 DEF GroupOK, Branch, World, LogOK
  <2>4. OwesAll(d, h)' /\ Invited(d, h)'
    BY <1>6, <1>9, <2>1, <2>2, <2>3 DEF Held, Recalls, OwesAll, Invited
  <2>5. Forks(d, h)' /\ Reads(d, h)' /\ Remembers(d, h)' /\ SkipIsTrue(h)'
    BY <1>9, <2>1 DEF Held, Recalls, Forks, Reads, Remembers, SkipIsTrue, Departs, Overtaken, Follows
  <2> QED
    BY <2>4, <2>5 DEF Held, Recalls
<1>13. PostOK(d, h, 0)' /\ posting' = [posting EXCEPT ![d] = 0]
  BY <1>1 DEF PostOK, TablesOK
<1>14. crashes' \in [Devices -> Nat] /\ forgone' \subseteq Ids' /\ rejoined' \subseteq Devices
  BY <1>1, <1>6 DEF TablesOK
<1>15. disk' = disk /\ \A x \in Ids' \ Ids : body'[x].by = d
  BY <1>1, <1>6
<1> QED
  BY <1>5, <1>7, <1>8, <1>11, <1>12, <1>13, <1>14, <1>15, MemoryStep

LEMMA Joining ==
    ASSUME SessionInv, NEW d \in Devices, NEW w \in welcomes, Join(d, w)
    PROVE  SessionInv'
<1> PICK g, c : g = mem[d] /\ c = posting[d]
  OBVIOUS
<1>1. /\ TablesOK /\ World /\ MessagesOK /\ LogOK /\ Cursors
      /\ GroupOK(d, g) /\ g \in Group /\ PostOK(d, g, c)
      /\ d \notin rejoined => Held(d, g) /\ Recalls(d, g)
      /\ UNCHANGED <<body, welcomes, inFlight, log, chain, disk, posting, crashes>>
  BY CursorsNow DEF SessionInv, World, DeviceInv, GroupOK, Join, coordinatorVars
<1>2. /\ body[w.id].target = IdentityOf[d]
      /\ forgone' = forgone \cup {o.id : o \in g.pending}
      /\ rejoined' = IF g.status = "absent" THEN rejoined ELSE rejoined \cup {d}
  BY DEF Join
<1> PICK h : h = [g EXCEPT !.status = "active", !.state = After(w.id), !.pending = {},
                           !.fetch = IF w.after > g.fetch THEN w.after ELSE g.fetch]
  OBVIOUS
<1>3. mem' = [mem EXCEPT ![d] = h]
  BY DEF Join
<1>4. /\ w.id \in Sequenced /\ IsCommit(w.id) /\ w.after \in Nat /\ w.after <= CursorOf(w.id)
      /\ CursorOf(w.id) \in 1 .. Len(log) /\ Branch(After(w.id)) /\ w.id \in Ids /\ Len(log) \in Nat
      /\ After(w.id) \subseteq Nat /\ Sequenced \subseteq Ids /\ Ids \subseteq Nat
  <2>1. /\ w.id \in Sequenced /\ IsCommit(w.id) /\ w.after \in Nat /\ w.after <= CursorOf(w.id)
    BY <1>1 DEF World, WelcomesOK
  <2>2. CursorOf(w.id) \in 1 .. Len(log) /\ Branch(After(w.id)) /\ w.id \in Ids /\ Len(log) \in Nat
    BY <1>1, <2>1, AfterIsBranch DEF Cursors, LogOK
  <2> QED
    BY <1>1, <2>1, <2>2, MessageFacts DEF Branch, LogOK
<1>5. /\ h \in Group /\ h.status = "active" /\ h.state = After(w.id) /\ h.pending = {}
      /\ h.fetch = (IF w.after > g.fetch THEN w.after ELSE g.fetch) /\ h.skipped = g.skipped
  BY <1>1, <1>4 DEF Group
<1>6. GroupOK(d, h)
  <2>1. h.fetch <= Len(log)
    BY <1>1, <1>4, <1>5 DEF GroupOK, Group
  <2> QED
    BY <1>1, <1>4, <1>5, <2>1 DEF GroupOK, AddsStand
<1>7. ASSUME d \notin rejoined' PROVE c = 0 /\ Held(d, h) /\ Recalls(d, h)
  <2>1. g.status = "absent" /\ d \notin rejoined
    BY <1>2, <1>7
  <2>2. g.fetch = 0 /\ g.skipped = {} /\ g.pending = {} /\ g.state = {}
    BY <1>1, <2>1 DEF GroupOK, Absent
  <2>3. c = 0
    BY <1>1, <2>1 DEF PostOK
  <2>4. Forks(d, h)
    <3> SUFFICES ASSUME NEW x \in Ids, x \in h.state
                 PROVE  \E e \in h.state : /\ e >= x /\ Welcomed(e)
                                           /\ body[e].target = IdentityOf[d]
      BY DEF Forks, Departs
    <3>1. w.id \in h.state /\ Welcomed(w.id)
      BY <1>5 DEF After, Welcomed
    <3>2. w.id >= x
      <4>1. w.id \in Nat /\ body[w.id].base \subseteq 1 .. (w.id - 1)
        BY <1>1, <1>4 DEF MessagesOK
      <4>2. x = w.id \/ x \in body[w.id].base
        BY <1>5 DEF After
      <4> QED
        BY <4>1, <4>2
    <3> QED
      BY <1>2, <3>1, <3>2
  <2>5. ASSUME NEW x \in chain, Overtaken(h, x) PROVE FALSE
    <3>1. x \in Sequenced /\ body[x].base = After(w.id) /\ CursorOf(x) <= h.fetch /\ CursorOf(x) \in Nat
      BY <1>1, <1>5, <2>5 DEF Overtaken, Follows, World, ChainOK, Branch, Cursors
    <3>2. CursorOf(w.id) < CursorOf(x)
      BY <1>1, <1>4, <3>1, AheadOfState
    <3>3. h.fetch <= CursorOf(w.id) /\ h.fetch \in Nat /\ CursorOf(w.id) \in Nat
      BY <1>4, <1>5, <2>2
    <3> QED
      BY <3>1, <3>2, <3>3
  <2>6. OwesAll(d, h) /\ Invited(d, h)
    <3>1. \A x \in Ids : OwnAdd(d, x) => Welcomed(x)
      BY <1>1, <2>1, <2>2 DEF Recalls, OwesAll, StillOwed
    <3>2. h.state \subseteq Ids
      BY <1>4, <1>5 DEF Branch
    <3> QED
      BY <3>1, <3>2 DEF OwesAll, Invited, StillOwed
  <2>7. SkipIsTrue(h)
    BY <1>5, <2>2 DEF SkipIsTrue
  <2> QED
    BY <2>3, <2>4, <2>5, <2>6, <2>7 DEF Held, Recalls, Reads, Remembers
<1>8. Ids' = Ids /\ Len(body) \in Nat
  BY <1>1 DEF Ids, MessagesOK
<1>9. World'
  BY <1>1, WorldStands
<1>10. Grows
  BY <1>1, <1>2, <1>4, <1>8 DEF Grows
<1>11. GroupOK(d, h)'
  BY <1>1, <1>6, <1>9, <1>10, GroupStays
<1>12. ASSUME d \notin rejoined' PROVE Held(d, h)' /\ Recalls(d, h)'
  <2>1. Held(d, h) /\ Recalls(d, h)
    BY <1>7, <1>12
  <2> QED
    BY <1>1, <1>6, <1>8, <1>9, <1>10, <2>1, HeldStays, RecallsStays
<1>14. PostOK(d, h, c)'
  <2>1. SUFFICES ASSUME c # 0 PROVE PostOK(d, h, c)'
    BY DEF PostOK
  <2>2. c \in Ids' /\ body'[c].by = d
    BY <1>1, <1>8, <2>1 DEF PostOK
  <2>3. d \in rejoined'
    BY <1>7, <2>1
  <2> QED
    BY <1>5, <2>2, <2>3 DEF PostOK
<1>13. /\ posting' = [posting EXCEPT ![d] = c] /\ c \in Nat
       /\ crashes' \in [Devices -> Nat] /\ forgone' \subseteq Ids' /\ rejoined' \subseteq Devices
  <2>1. {o.id : o \in g.pending} \subseteq Ids
    BY <1>1 DEF GroupOK, OperationOK
  <2> QED
    BY <1>1, <1>2, <1>8, <2>1 DEF TablesOK
<1>15. disk' = disk /\ \A x \in Ids' \ Ids : body'[x].by = d
  BY <1>1, <1>8
<1> QED
  BY <1>3, <1>9, <1>10, <1>11, <1>12, <1>13, <1>14, <1>15, MemoryStep

LEMMA Crashing ==
    ASSUME SessionInv, NEW d \in Devices, Crash(d)
    PROVE  SessionInv'
<1> PICK h : h = disk[d]
  OBVIOUS
<1>1. /\ TablesOK /\ World /\ GroupOK(d, h) /\ h.skipped = {}
      /\ d \notin rejoined => Held(d, h)
      /\ UNCHANGED <<body, welcomes, inFlight, log, chain, disk, rejoined>>
  BY DEF SessionInv, DeviceInv, Crash, coordinatorVars
<1>2. /\ crashes' = [crashes EXCEPT ![d] = @ + 1]
      /\ mem' = [mem EXCEPT ![d] = h] /\ posting' = [posting EXCEPT ![d] = 0]
      /\ forgone' = forgone \cup {c \in Ids : /\ body[c].by = d /\ c \notin h.state
                                              /\ \A o \in h.pending : o.id # c}
  BY DEF Crash
<1>3. Ids' = Ids /\ Len(body) \in Nat /\ Len(log) \in Nat
  BY <1>1 DEF Ids, World, MessagesOK, LogOK
<1>4. World'
  BY <1>1, WorldStands
<1>5. /\ crashes' \in [Devices -> Nat] /\ crashes'[d] > 0
      /\ \A e \in Devices : crashes[e] > 0 => crashes'[e] > 0
  BY <1>1, <1>2 DEF TablesOK
<1>6. Grows
  BY <1>1, <1>2, <1>3, <1>5 DEF Grows
<1>7. GroupOK(d, h)' /\ PostOK(d, h, 0)'
  BY <1>1, <1>4, <1>6, GroupStays DEF PostOK
<1>8. ASSUME d \notin rejoined' PROVE Held(d, h)' /\ Recalls(d, h)'
  <2>1. Held(d, h)'
    BY <1>1, <1>4, <1>6, <1>8, HeldStays
  <2>2. OwesAll(d, h)'
    <3> SUFFICES ASSUME NEW x \in Ids', OwnAdd(d, x)' PROVE StillOwed(d, h, x)'
      BY DEF OwesAll
    <3>1. x \in h.state \/ \E o \in h.pending : o.id = x
      BY <1>1, <1>2, <1>3 DEF OwnAdd
    <3>2. CASE x \in h.state
      BY <2>1, <3>2 DEF Held, Invited
    <3>3. CASE \E o \in h.pending : o.id = x
      BY <3>3 DEF StillOwed
    <3> QED
      BY <3>1, <3>2, <3>3
  <2> QED
    BY <1>1, <1>5, <2>1, <2>2 DEF Recalls, Remembers, SkipIsTrue
<1>9. forgone' \subseteq Ids' /\ rejoined' \subseteq Devices
  BY <1>1, <1>2, <1>3 DEF TablesOK
<1> QED
  BY <1>1, <1>2, <1>3, <1>4, <1>5, <1>6, <1>7, <1>8, <1>9, MemoryStep

LEMMA Persisting ==
    ASSUME SessionInv, NEW d \in Devices, Persist(d)
    PROVE  SessionInv'
<1> PICK g : g = mem[d]
  OBVIOUS
<1>1. /\ TablesOK /\ World /\ GroupOK(d, g) /\ g \in Group
      /\ d \notin rejoined => Held(d, g)
      /\ \A e \in Devices : DeviceInv(e)
      /\ UNCHANGED <<body, welcomes, inFlight, log, chain, mem, posting, crashes, forgone, rejoined>>
  BY DEF SessionInv, DeviceInv, GroupOK, Persist, coordinatorVars
<1>2. PICK k : k = Saved(g)
  OBVIOUS
<1>3. disk' = [disk EXCEPT ![d] = k]
  BY <1>2 DEF Persist
<1>4. /\ k \in Group /\ k.status = g.status /\ k.state = g.state /\ k.fetch = g.fetch
      /\ k.pending = g.pending /\ k.race = "none" /\ k.skipped = {}
      /\ g = Absent => k = Absent
  <2>1. k = [g EXCEPT !.race = "none", !.skipped = {}]
    BY <1>2 DEF Saved
  <2> QED
    <3>1. [g EXCEPT !.race = g.race, !.skipped = g.skipped] = g
      BY <1>1 DEF Group
    <3>2. g = Absent => g.race = "none" /\ g.skipped = {}
      BY DEF Absent
    <3>3. g = Absent => k = Absent
      BY <2>1, <3>1, <3>2
    <3> QED
      BY <1>1, <2>1, <3>3 DEF Group
<1>5. GroupOK(d, k)
  BY <1>1, <1>4 DEF GroupOK, OperationOK, AddsStand
<1>6. d \notin rejoined => Held(d, k)
  BY <1>1, <1>4 DEF Held, Forks, Reads, Invited, Departs, Overtaken, Follows, StillOwed
<1>7. World' /\ Ids' = Ids /\ Len(body) \in Nat /\ Len(log) \in Nat
  BY <1>1, WorldStands DEF Ids, World, MessagesOK, LogOK
<1>8. Grows
  BY <1>1, <1>7 DEF Grows
<1>9. TablesOK'
  BY <1>1, <1>3, <1>4, <1>7 DEF TablesOK
<1>10. ASSUME NEW e \in Devices, e # d PROVE DeviceInv(e)'
  <2>1. mem'[e] = mem[e] /\ disk'[e] = disk[e] /\ posting'[e] = posting[e]
    BY <1>1, <1>3, <1>10 DEF TablesOK
  <2> QED
    BY <1>1, <1>7, <1>8, <2>1, DeviceStays
<1>11. DeviceInv(d)'
  <2> PICK c : c = posting[d]
    OBVIOUS
  <2>1. PostOK(d, g, c) /\ (d \notin rejoined => Recalls(d, g))
    BY <1>1 DEF DeviceInv
  <2>2. GroupOK(d, g)' /\ GroupOK(d, k)' /\ PostOK(d, g, c)'
    BY <1>1, <1>5, <1>7, <1>8, <2>1, GroupStays, PostStays
  <2>3. d \notin rejoined' => Held(d, g)' /\ Held(d, k)' /\ Recalls(d, g)'
    BY <1>1, <1>5, <1>6, <1>7, <1>8, <2>1, HeldStays, RecallsStays
  <2>4. mem'[d] = g /\ disk'[d] = k /\ posting'[d] = c
    BY <1>1, <1>3 DEF TablesOK
  <2> QED
    BY <1>4, <2>2, <2>3, <2>4 DEF DeviceInv
<1> QED
  BY <1>7, <1>9, <1>10, <1>11 DEF SessionInv

-----------------------------------------------------------------------------
(* The invariant and what follows from it.                                 *)

LEMMA SessionInit == Init => SessionInv
<1> SUFFICES ASSUME Init PROVE SessionInv
  OBVIOUS
<1>1. /\ body = <<>> /\ log = <<>> /\ Len(body) = 0 /\ Len(log) = 0 /\ Ids = {} /\ Sequenced = {}
      /\ inFlight = {} /\ welcomes = {} /\ chain = {} /\ forgone = {} /\ rejoined = {}
  BY DEF Init, Ids, Sequenced
<1>2. World
  <2>1. MessagesOK /\ LogOK
    BY <1>1 DEF MessagesOK, LogOK
  <2>2. ChainOK /\ WelcomesOK
    BY <1>1 DEF ChainOK, WelcomesOK, Branch
  <2> QED
    BY <2>1, <2>2 DEF World
<1> DEFINE active == [Absent EXCEPT !.status = "active"]
<1>3. /\ Absent \in Group /\ active \in Group
      /\ \A g \in {Absent, active} : /\ g.state = {} /\ g.fetch = 0 /\ g.pending = {}
                                     /\ g.race = "none" /\ g.skipped = {}
      /\ active.status = "active"
  BY DEF Absent, Group
<1> HIDE DEF active
<1>4. /\ \A d \in Devices : mem[d] \in {Absent, active} /\ disk[d] = mem[d] /\ posting[d] = 0
      /\ mem \in [Devices -> Group] /\ disk \in [Devices -> Group]
      /\ posting \in [Devices -> Nat] /\ crashes \in [Devices -> Nat]
  BY <1>3 DEF Init, active
<1>5. ASSUME NEW d \in Devices PROVE DeviceInv(d)
  <2> PICK g : g = mem[d]
    OBVIOUS
  <2>1. g \in {Absent, active} /\ disk[d] = g /\ posting[d] = 0
    BY <1>4
  <2>2. GroupOK(d, g)
    BY <1>1, <1>3, <2>1 DEF GroupOK, Branch, AddsStand
  <2>3. Held(d, g) /\ Recalls(d, g)
    BY <1>1, <1>3, <2>1 DEF Held, Recalls, Forks, Reads, Invited, OwesAll, Remembers, SkipIsTrue
  <2>4. PostOK(d, g, 0)
    BY DEF PostOK
  <2> QED
    BY <1>3, <2>1, <2>2, <2>3, <2>4 DEF DeviceInv
<1> QED
  BY <1>1, <1>2, <1>4, <1>5 DEF SessionInv, TablesOK

LEMMA SessionKept ==
    ASSUME SessionInv, [Next]_vars
    PROVE  SessionInv'
<1>1. CASE UNCHANGED vars
  <2>1. TablesOK /\ World /\ UNCHANGED <<body, inFlight, log, welcomes, chain>>
        /\ UNCHANGED <<mem, disk, posting, crashes, forgone, rejoined>>
    BY <1>1 DEF SessionInv, vars, coordinatorVars, deviceVars
  <2>2. World' /\ Ids' = Ids /\ Len(body) \in Nat /\ Len(log) \in Nat
    BY <2>1, WorldStands DEF Ids, World, MessagesOK, LogOK
  <2>3. Grows
    BY <2>1, <2>2 DEF Grows
  <2>4. \A d \in Devices : DeviceInv(d)'
    BY <2>1, <2>2, <2>3, DeviceStays DEF SessionInv
  <2> QED
    BY <2>1, <2>2, <2>4 DEF SessionInv, TablesOK
<1>2. ASSUME NEW d \in Devices,
             \/ PostFails(d) \/ SendReturns(d) \/ CommitReturns(d)
             \/ ConfirmEcho(d) \/ SkipUnreadable(d) \/ ApplyOwnEcho(d)
             \/ SkipSibling(d) \/ BeRemoved(d) \/ Apply(d)
             \/ Finalize(d) \/ Persist(d) \/ Crash(d)
             \/ \E w \in welcomes : Join(d, w)
      PROVE  SessionInv'
  BY <1>2, AnswerLost, Answer, PassingEcho, PassingOthers, Finalizing, Persisting, Crashing, Joining
<1>3. ASSUME NEW c \in inFlight, PostArrives(c) PROVE SessionInv'
  BY <1>3, Arrival
<1>4. ASSUME NEW want \in Wants,
             \/ want.kind = "add" /\ AddMember(want.by, want.target)
             \/ want.kind = "remove" /\ RemoveMember(want.by, want.target)
             \/ want.kind = "update" /\ UpdateGroupMetadata(want.by, want.target)
             \/ want.kind = "app" /\ SendMessage(want.by)
      PROVE  SessionInv'
  <2>1. want.by \in Devices /\ want.target \in Identities \cup {None}
    BY SessionAssumption
  <2>2. PICK kind \in Kinds, t \in Identities \cup {None} :
           /\ Post(want.by, kind, t)
           /\ IF kind = "app" THEN mem' = mem ELSE Enqueue(want.by)
    BY <1>4, <2>1 DEF AddMember, RemoveMember, UpdateGroupMetadata, SendMessage, Kinds
  <2> QED
    BY <2>1, <2>2, Posting
<1> QED
  BY <1>1, <1>2, <1>3, <1>4 DEF Next

\* The inductive invariant: at every step, what a session holds, has saved, awaits
\* and owes fits the log and the chain of the coordinator (session.ts,
\* groupSync.ts, pendingEpochOperations.ts).
THEOREM SessionInvariant == Spec => []SessionInv
BY SessionInit, SessionKept, PTL DEF Spec

\* Every cursor is one the log has reached, every branch and operation is about a
\* message that was written.
THEOREM SessionTypes == Spec => []TypeOK
<1>1. ASSUME SessionInv PROVE TypeOK
  <2>1. TablesOK /\ MessagesOK /\ LogOK /\ Cursors /\ ChainOK /\ WelcomesOK
    BY <1>1, CursorsNow DEF SessionInv, World
  <2>2. \A c \in Ids : /\ body[c].by \in Devices /\ body[c].kind \in Kinds
                       /\ body[c].target \in Identities \cup {None}
                       /\ body[c].base \subseteq 1 .. (c - 1)
    BY <2>1, MessageFacts DEF MessagesOK, Message
  <2>3. inFlight \subseteq Ids /\ Sequenced \subseteq Ids /\ chain \subseteq Sequenced
    BY <2>1 DEF LogOK, ChainOK, Branch
  <2>4. \A w \in welcomes : w.id \in Ids /\ w.after \in 0 .. Len(log)
    <3> SUFFICES ASSUME NEW w \in welcomes PROVE w.id \in Ids /\ w.after \in 0 .. Len(log)
      OBVIOUS
    <3>1. w.id \in Sequenced /\ w.after \in Nat /\ w.after <= CursorOf(w.id)
      BY <2>1 DEF WelcomesOK
    <3>2. CursorOf(w.id) \in 1 .. Len(log) /\ Len(log) \in Nat
      BY <2>1, <3>1 DEF Cursors
    <3> QED
      BY <2>3, <3>1, <3>2
  <2>5. ASSUME NEW d \in Devices, NEW g, GroupOK(d, g) PROVE IsGroup(g)
    <3>1. /\ g \in Group /\ Branch(g.state) /\ g.fetch \in Nat /\ g.fetch <= Len(log)
          /\ Len(log) \in Nat /\ g.skipped \subseteq 0 .. Len(body)
      BY <2>1, <2>5 DEF GroupOK, Group, Cursors
    <3>2. ASSUME NEW o \in g.pending
          PROVE  o.id \in Ids /\ o.cursor \in 0 .. Len(log) /\ o.confirmed \in BOOLEAN
      <4>1. OperationOK(d, g, o) /\ o.cursor \in Nat /\ o.confirmed \in BOOLEAN
        BY <2>5, <3>1 DEF GroupOK, Group, OperationRecord
      <4>2. o.cursor > 0 => o.cursor \in 1 .. Len(log)
        BY <2>1, <4>1 DEF OperationOK, Cursors
      <4> QED
        BY <3>1, <4>1, <4>2 DEF OperationOK
    <3>3. g.state \subseteq Ids /\ g.fetch \in 0 .. Len(log)
      BY <2>3, <3>1 DEF Branch
    <3> QED
      BY <3>1, <3>2, <3>3 DEF IsGroup, Group
  <2>6. ASSUME NEW d \in Devices
        PROVE  IsGroup(mem[d]) /\ IsGroup(disk[d]) /\ posting[d] \in {0} \cup Ids
    <3>1. GroupOK(d, mem[d]) /\ GroupOK(d, disk[d]) /\ PostOK(d, mem[d], posting[d])
      BY <1>1 DEF SessionInv, DeviceInv
    <3> QED
      BY <2>5, <3>1 DEF PostOK
  <2> QED
    BY <2>1, <2>2, <2>3, <2>4, <2>6 DEF TypeOK, TablesOK
<1> QED
  BY <1>1, SessionInvariant, PTL

\* Nobody is led off the chain by the log (ingest in groupSync.ts, adoptOwnCommit,
\* acceptWelcome): whoever is off it wrote the losing Commit, was welcomed behind
\* it, or could not apply the winning one because it came from its own leaf.
THEOREM OnlyAuthorsLeave == Spec => []OnlyAuthorsFork
<1>1. SessionInv => OnlyAuthorsFork
  BY DEF SessionInv, DeviceInv, Held, Forks, OnlyAuthorsFork
<1> QED
  BY <1>1, SessionInvariant, PTL

\* The cursor never passes a Commit the session could have followed
\* (applyIncomingMessages moves the state and the cursor together), through any
\* posts, echoes, failures and restarts.
THEOREM NobodyIsStranded == Spec => []NeverStranded
<1>1. ASSUME SessionInv PROVE NeverStranded
  <2> SUFFICES ASSUME NEW d \in Devices \ rejoined, NEW c \in chain, mem[d].status = "active",
                      Follows(mem[d].state, c), ~OwnLeaf(d, c)
               PROVE  mem[d].fetch < CursorOf(c)
    BY DEF NeverStranded
  <2>1. ~Overtaken(mem[d], c) /\ mem[d].fetch \in Nat
    BY <1>1 DEF SessionInv, DeviceInv, Held, Reads, TablesOK, Group
  <2>2. CursorOf(c) \in Nat
    BY <1>1, CursorsNow DEF SessionInv, World, ChainOK, Branch, Cursors
  <2> QED
    BY <2>1, <2>2 DEF Overtaken
<1> QED
  BY <1>1, SessionInvariant, PTL

\* Whoever holds a state with a member it added has sent its Welcome, still means
\* to, or removed it again: in memory and after a restart
\* (confirmPendingEpochOperations, dropPendingAddMemberForTarget, exportSnapshot).
THEOREM InvitationsAreKept == Spec => []InvitationKept
<1>1. SessionInv => InvitationKept
  BY DEF SessionInv, DeviceInv, Held, Invited, OwnAdd, StillOwed, InvitationKept
<1> QED
  BY <1>1, SessionInvariant, PTL

\* No Welcome is sent for a member removed since (dropPendingAddMemberForTarget in
\* adoptOwnCommit): a session that holds a removal of its own has dropped every
\* older addition of that member, by whichever way the removal came.
THEOREM RemovalsDropAdds == Spec => []PendingAddsStand
<1>1. SessionInv => PendingAddsStand
  BY DEF SessionInv, DeviceInv, GroupOK, AddsStand, PendingAddsStand
<1> QED
  BY <1>1, SessionInvariant, PTL

-----------------------------------------------------------------------------
(* Verdicts.                                                               *)

\* No other step that ends a post judges a race.
LEMMA OnlyAnswersJudge ==
    ASSUME SessionInv, [Next]_vars, NEW d \in Devices, posting[d] # 0, posting'[d] = 0
    PROVE  CommitReturns(d) \/ mem'[d].race \in {mem[d].race, "none"}
<1>1. mem \in [Devices -> Group] /\ posting \in [Devices -> Nat] /\ disk[d].race = "none"
  BY DEF SessionInv, TablesOK, DeviceInv
<1>2. CASE UNCHANGED vars
  BY <1>2 DEF vars, deviceVars
<1>3. ASSUME NEW e \in Devices,
             \/ PostFails(e) \/ SendReturns(e) \/ CommitReturns(e)
             \/ ConfirmEcho(e) \/ SkipUnreadable(e) \/ ApplyOwnEcho(e)
             \/ SkipSibling(e) \/ BeRemoved(e) \/ Apply(e)
             \/ Finalize(e) \/ Persist(e) \/ Crash(e)
             \/ \E w \in welcomes : Join(e, w)
      PROVE  CommitReturns(d) \/ mem'[d].race \in {mem[d].race, "none"}
  <2>1. CASE PostFails(e) \/ SendReturns(e)
    BY <2>1 DEF PostFails, SendReturns
  <2>2. CASE CommitReturns(e)
    <3>1. posting' = [posting EXCEPT ![e] = 0]
      BY <2>2 DEF CommitReturns
    <3>2. e = d
      BY <1>1, <3>1
    <3> QED
      BY <2>2, <3>2
  <2>3. CASE ConfirmEcho(e) \/ SkipUnreadable(e) \/ ApplyOwnEcho(e)
             \/ SkipSibling(e) \/ BeRemoved(e) \/ Apply(e)
    <3>1. posting' = posting
      BY <2>3 DEF ConfirmEcho, SkipUnreadable, ApplyOwnEcho, SkipSibling, BeRemoved, Apply, Ingests
    <3> QED
      BY <3>1
  <2>4. CASE Finalize(e) \/ Persist(e)
    BY <2>4 DEF Finalize, Persist
  <2>5. CASE Crash(e)
    <3>1. mem' = [mem EXCEPT ![e] = disk[e]]
      BY <2>5 DEF Crash
    <3> QED
      BY <1>1, <3>1
  <2>6. CASE \E w \in welcomes : Join(e, w)
    BY <2>6 DEF Join
  <2> QED
    BY <1>3, <2>1, <2>2, <2>3, <2>4, <2>5, <2>6
<1>4. ASSUME NEW c \in inFlight, PostArrives(c) PROVE FALSE
  BY <1>4 DEF PostArrives, deviceVars
<1>5. ASSUME NEW e, NEW kind, NEW t, Post(e, kind, t) PROVE FALSE
  <2>1. posting' = [posting EXCEPT ![e] = Len(body) + 1] /\ Len(body) \in Nat
    BY <1>5 DEF Post, SessionInv, World, MessagesOK
  <2>2. e = d
    BY <1>1, <2>1
  <2> QED
    BY <1>5, <2>2 DEF Post, LaneFree
<1> QED
  BY <1>2, <1>3, <1>4, <1>5 DEF Next, AddMember, RemoveMember, UpdateGroupMetadata, SendMessage

\* Of the Commits from the state of d, in the part of the log it judges by, the
\* first is the one on the chain.
LEMMA VerdictFollowsLog ==
    ASSUME SessionInv, NEW d \in Devices \ rejoined, CommitReturns(d),
           NEW v \in Verdicts(d, posting[d]), mem[d].race # v
    PROVE  LET c == posting[d] IN
           /\ v = "dead" => c \notin chain
           /\ (v = "live" /\ OnChain(body[c].base)) =>
                 \/ c \in chain
                 \/ \E win \in chain :
                       /\ body[win].base = body[c].base
                       /\ \/ body[win].by = d \/ RemovesLeafOf(d, win)
                          \/ crashes[d] > 0 /\ OwnLeaf(d, win)
<1> PICK g, c : g = mem[d] /\ c = posting[d]
  OBVIOUS
<1> DEFINE rivals == RivalCursors(d, c)
<1>1. /\ World /\ Cursors /\ ChainOK /\ g \in Group /\ g.fetch \in Nat /\ Branch(g.state)
      /\ Held(d, g) /\ Recalls(d, g) /\ PostOK(d, g, c)
  BY CursorsNow DEF SessionInv, World, DeviceInv, GroupOK, Group
<1>2. /\ c \in Sequenced /\ IsCommit(c) /\ c # 0 /\ CursorOf(c) \in Nat /\ CursorOf(c) <= Len(log)
      /\ body[c].base = g.state /\ g.fetch < CursorOf(c) /\ g.status = "active"
      /\ Len(log) \in Nat
  <2>1. c \in Sequenced /\ IsCommit(c)
    BY DEF CommitReturns
  <2>2. c # 0
    BY <1>1, <2>1 DEF World, LogOK, Ids
  <2> QED
    BY <1>1, <2>1, <2>2 DEF PostOK, Cursors
<1>3. ASSUME NEW k \in rivals
      PROVE  /\ k \in 1 .. Len(log) /\ g.fetch < k /\ k < CursorOf(c)
             /\ log[k] \in Sequenced /\ CursorOf(log[k]) = k /\ log[k] # c
             /\ IsCommit(log[k]) /\ body[log[k]].base = body[c].base
  <2>1. /\ k \in (g.fetch + 1) .. (CursorOf(c) - 1)
        /\ IsCommit(log[k]) /\ body[log[k]].base = g.state
    BY DEF RivalCursors
  <2>2. k \in 1 .. Len(log) /\ g.fetch < k /\ k < CursorOf(c)
    BY <1>1, <1>2, <2>1
  <2>3. log[k] \in Sequenced /\ CursorOf(log[k]) = k
    BY <1>1, <2>2 DEF Cursors
  <2> QED
    BY <1>2, <2>1, <2>2, <2>3
\* A Commit from the same state that comes earlier: c is not the first.
<1>4. ASSUME NEW s \in Sequenced, IsCommit(s), body[s].base = body[c].base,
             CursorOf(s) < CursorOf(c)
      PROVE  c \notin chain
  <2>1. s # c /\ CursorOf(s) \in Nat
    BY <1>1, <1>2, <1>4 DEF Cursors
  <2>2. c \in chain => CursorOf(c) < CursorOf(s)
    BY <1>1, <1>4, <2>1 DEF ChainOK
  <2> QED
    BY <1>2, <1>4, <2>1, <2>2
<1>5. ASSUME v = "dead" PROVE c \notin chain
  <2>1. CASE g.skipped = {Epoch(g.state)}
    <3>1. Epoch(g.state) \in Nat
      BY <1>1, BranchSize DEF World
    <3>2. PICK s \in Sequenced : /\ IsCommit(s) /\ body[s].base = g.state
                                 /\ CursorOf(s) <= g.fetch
      BY <1>1, <2>1, <3>1 DEF Recalls, SkipIsTrue
    <3>3. CursorOf(s) < CursorOf(c)
      BY <1>1, <1>2, <3>2 DEF Cursors
    <3> QED
      BY <1>2, <1>4, <3>2, <3>3
  <2>2. CASE rivals # {}
    <3>1. PICK k \in rivals : TRUE
      BY <2>2
    <3> HIDE DEF rivals
    <3> QED
      BY <1>3, <1>4
  <2>3. g.skipped = {Epoch(g.state)} \/ rivals # {}
    BY <1>5 DEF Verdicts
  <2> QED
    BY <2>1, <2>2, <2>3
<1>6. ASSUME v = "live", OnChain(body[c].base), c \notin chain
      PROVE  \E win \in chain :
                /\ body[win].base = body[c].base
                /\ \/ body[win].by = d \/ RemovesLeafOf(d, win)
                   \/ crashes[d] > 0 /\ OwnLeaf(d, win)
  <2>1. PICK win \in chain : body[win].base = body[c].base /\ CursorOf(win) < CursorOf(c)
    BY <1>1, <1>2, <1>6 DEF ChainOK
  <2>2. /\ win \in Sequenced /\ IsCommit(win) /\ CursorOf(win) \in 1 .. Len(log)
        /\ log[CursorOf(win)] = win
    BY <1>1 DEF ChainOK, Branch, Cursors
  <2>3. /\ g.skipped # {Epoch(g.state)}
        /\ rivals = {} \/ \E k \in rivals : (\A j \in rivals : k <= j) /\ RemovesLeafOf(d, log[k])
    BY <1>6 DEF Verdicts
  <2>4. CASE CursorOf(win) <= g.fetch
    <3>1. Overtaken(g, win)
      BY <1>2, <2>1, <2>4 DEF Overtaken, Follows
    <3>2. OwnLeaf(d, win) /\ (body[win].by = d \/ crashes[d] > 0)
      BY <1>1, <2>3, <3>1 DEF Held, Reads, Recalls, Remembers
    <3> QED
      BY <2>1, <3>2
  <2>5. CASE ~(CursorOf(win) <= g.fetch)
    <3>1. CursorOf(win) \in rivals
      <4>1. CursorOf(win) \in (g.fetch + 1) .. (CursorOf(c) - 1)
        BY <1>1, <1>2, <2>1, <2>2, <2>5
      <4> QED
        BY <1>2, <2>1, <2>2, <4>1 DEF RivalCursors
    <3> HIDE DEF rivals
    <3>2. PICK k \in rivals : (\A j \in rivals : k <= j) /\ RemovesLeafOf(d, log[k])
      BY <2>3, <3>1
    <3>3. /\ k <= CursorOf(win) /\ k \in 1 .. Len(log) /\ log[k] \in Sequenced
          /\ CursorOf(log[k]) = k /\ IsCommit(log[k]) /\ body[log[k]].base = body[win].base
      BY <1>3, <2>1, <3>1, <3>2
    <3>4. log[k] # win => CursorOf(win) < CursorOf(log[k])
      BY <1>1, <3>3 DEF ChainOK
    <3>5. log[k] = win
      BY <2>2, <3>3, <3>4
    <3> QED
      BY <2>1, <3>2, <3>5
  <2> QED
    BY <2>4, <2>5
<1> QED
  BY <1>5, <1>6

\* What recordCommitRace concludes from the part of the log before a Commit is
\* what the coordinator decided, with the exceptions VerdictIsRight names.
THEOREM VerdictsAreRight == Spec => VerdictIsRight
<1> DEFINE Right ==
        \A d \in Devices \ rejoined :
           LET c == posting[d]
               judged(verdict) == mem[d].race # verdict /\ mem'[d].race = verdict IN
           (c # 0 /\ posting'[d] = 0) =>
              /\ judged("dead") => c \notin chain
              /\ (judged("live") /\ OnChain(body[c].base)) =>
                    \/ c \in chain
                    \/ \E win \in chain :
                          /\ body[win].base = body[c].base
                          /\ \/ body[win].by = d \/ RemovesLeafOf(d, win)
                             \/ crashes[d] > 0 /\ OwnLeaf(d, win)
<1>1. ASSUME SessionInv, [Next]_vars PROVE Right
  <2> SUFFICES ASSUME NEW d \in Devices \ rejoined, posting[d] # 0, posting'[d] = 0,
                      NEW v \in {"dead", "live"}, mem[d].race # v, mem'[d].race = v
               PROVE  /\ v = "dead" => posting[d] \notin chain
                      /\ (v = "live" /\ OnChain(body[posting[d]].base)) =>
                            \/ posting[d] \in chain
                            \/ \E win \in chain :
                                  /\ body[win].base = body[posting[d]].base
                                  /\ \/ body[win].by = d \/ RemovesLeafOf(d, win)
                                     \/ crashes[d] > 0 /\ OwnLeaf(d, win)
    OBVIOUS
  <2>1. CommitReturns(d)
    BY <1>1, OnlyAnswersJudge
  <2>2. v \in Verdicts(d, posting[d])
    <3>1. \E u \in Verdicts(d, posting[d]) : mem'[d].race = u
      BY <1>1, <2>1 DEF CommitReturns, SessionInv, TablesOK, Group
    <3> QED
      BY <3>1
  <2> QED
    BY <1>1, <2>1, <2>2, VerdictFollowsLog
<1> QED
  BY <1>1, SessionInvariant, PTL DEF Spec, VerdictIsRight
=============================================================================
