-------------------------- MODULE DocumentsProofs --------------------------
(***************************************************************************)
(* The safety properties of group documents, for any devices of one leaf,  *)
(* any number of messages and of documents, and any addresses.             *)
(*                                                                         *)
(* What is known of a state, of a session or in a document, is that it is  *)
(* a line of Commits, each made where those before it end, and that its    *)
(* cursor is behind all of them (Line, Sound, DocumentSound).              *)
(***************************************************************************)
EXTENDS Documents, FiniteSetTheorems, SequenceTheorems, WellFoundedInduction, TLAPS

Message == [by : Devices \cup {Others}, commit : BOOLEAN, base : SUBSET Nat]

\* A message is sealed under a state of the Commits before it.
LogOK(l) ==
    /\ l \in Seq(Message)
    /\ \A c \in 1 .. Len(l) : l[c].base \subseteq 1 .. (c - 1)

\* The Commits that led to a state: each was made where those before it ended.
Line(l, b) ==
    /\ b \subseteq 1 .. Len(l)
    /\ \A c \in b : l[c].commit /\ l[c].base = {k \in b : k < c}

\* The group's order goes on wherever a Commit was made at its end.
ChainOK(l, h) ==
    /\ Line(l, h)
    /\ \A m \in 1 .. Len(l) :
          (l[m].commit /\ l[m].base = {k \in h : k < m}) => m \in h

Within(S, cursor) == \A x \in S : x <= cursor

GroupDocument(l, as) ==
    [branch : SUBSET (1 .. Len(l)), read : SUBSET (1 .. Len(l)),
     cursor : 0 .. Len(l), prev : {0} \cup as]

\* A document's cursor is behind all that its state has used.
DocumentSound(l, x) ==
    Line(l, x.branch) /\ Within(x.branch, x.cursor) /\ Within(x.read, x.cursor)

Rules == {"none", "coordinator-order", "third-party", "rank"}
Decisions == [epoch : Int, branch : SUBSET Nat, by : Rules]
Sources(as) == [address : {0} \cup as, cursor : Nat]
Branches == SUBSET Nat

GroupRecord(l, as) ==
    [branch : SUBSET (1 .. Len(l)), read : SUBSET (1 .. Len(l)), fetch : 0 .. Len(l),
     race : {"none", "live", "dead"}, skipped : SUBSET Nat, point : SUBSET (1 .. Len(l)),
     published : BOOLEAN, pending : SUBSET (1 .. Len(l)), held : SUBSET Branches,
     applied : Sources(as), decision : Decisions]

\* A session's cursor is behind its state, but for the Commit it made last.
Sound(l, g) ==
    /\ Line(l, g.branch) /\ Line(l, g.point) /\ Within(g.read, g.fetch)
    /\ Within(g.branch, g.fetch) \/ g.branch = g.point

DocsOK(l, ds) ==
    /\ DOMAIN ds \subseteq Addresses
    /\ ds \in [DOMAIN ds -> GroupDocument(l, DOMAIN ds)]
    /\ \A a \in DOMAIN ds : DocumentSound(l, ds[a])

GroupsOK(l, ds, gs) ==
    /\ gs \in [Devices -> GroupRecord(l, DOMAIN ds)]
    /\ \A d \in Devices : Sound(l, gs[d])

Readings(as) == [address : {0} \cup as, base : SUBSET Int, since : Nat]

WorkOK(ds, ws) ==
    /\ ws \in [Devices -> Readings(DOMAIN ds)]
    /\ \A d \in Devices : ws[d] # Idle => ws[d].address \in DOMAIN ds

DocumentsInv ==
    /\ LogOK(log) /\ ChainOK(log, chain)
    /\ DocsOK(log, docs) /\ GroupsOK(log, docs, group) /\ WorkOK(docs, working)
    /\ lastTip \in [Devices -> {0} \cup DOMAIN docs]
    /\ strayed \in [Devices -> BOOLEAN]

-----------------------------------------------------------------------------
(* Numbers and finite sets.                                                *)

LEMMA LeastNumber ==
    ASSUME NEW S, S \subseteq Nat, S # {}
    PROVE  \E x \in S : \A y \in S : x <= y
<1>1. PICK x \in S : \A y \in S : ~(<<y, x>> \in OpToRel(<, Nat))
  BY WFMin, NatLessThanWellFounded
<1>2. \A y \in S : ~(y < x)
  BY <1>1, Zenon DEF OpToRel
<1>3. \A y \in S : x <= y
  BY <1>2
<1> QED
  BY <1>3

LEMMA FirstIsMember ==
    ASSUME NEW S, S \subseteq Nat, S # {}
    PROVE  First(S) \in S /\ \A y \in S : First(S) <= y
BY LeastNumber, Zenon DEF First

\* The Commit of a branch: its last.
LEMMA CommitCursorIsLast ==
    ASSUME NEW n \in Nat, NEW S, S \subseteq 1 .. n, S # {}
    PROVE  CommitCursor(S) \in S /\ \A e \in S : e <= CommitCursor(S)
<1> DEFINE Above == {k \in Nat : \A e \in S : e <= k}
<1>1. n \in Above
  OBVIOUS
<1>2. PICK top \in Above : \A k \in Above : top <= k
  BY <1>1, LeastNumber
<1>3. top \in S
  <2>1. SUFFICES ASSUME top \notin S PROVE FALSE
    OBVIOUS
  <2>2. PICK e \in S : TRUE
    OBVIOUS
  <2>3. top - 1 \in Nat
    BY <2>2, <1>2
  <2>4. \A x \in S : x <= top - 1
    BY <2>1, <1>2
  <2>5. top - 1 \in Above
    BY <2>3, <2>4
  <2> QED
    BY <2>5, <1>2
<1>4. \A e \in S : e <= top
  BY <1>2
<1> QED
  BY <1>3, <1>4, Zenon DEF CommitCursor

LEMMA EpochIsNat ==
    ASSUME NEW n \in Nat, NEW S, S \subseteq 1 .. n
    PROVE  Epoch(S) \in Nat /\ IsFiniteSet(S)
<1>1. IsFiniteSet(1 .. n)
  BY FS_Interval
<1>2. IsFiniteSet(S)
  BY <1>1, FS_Subset
<1> QED
  BY <1>2, FS_CardinalityType DEF Epoch

LEMMA EpochGrows ==
    ASSUME NEW n \in Nat, NEW S, S \subseteq 1 .. n, NEW c
    PROVE  Epoch(S) <= Epoch(S \cup {c})
<1>1. IsFiniteSet(S) /\ Epoch(S) \in Nat
  BY EpochIsNat
<1>2. IsFiniteSet(S \cup {c})
  BY <1>1, FS_AddElement
<1> QED
  BY <1>1, <1>2, FS_Subset DEF Epoch

-----------------------------------------------------------------------------
(* The log only grows, and so do the documents.                            *)

Grows(l, m) == Len(l) <= Len(m) /\ \A c \in 1 .. Len(l) : m[c] = l[c]

LEMMA LineStays ==
    ASSUME NEW l, NEW m, NEW b, LogOK(l), LogOK(m), Grows(l, m), Line(l, b)
    PROVE  Line(m, b)
<1>1. Len(l) \in Nat /\ Len(m) \in Nat
  BY DEF LogOK
<1>2. 1 .. Len(l) \subseteq 1 .. Len(m)
  BY <1>1 DEF Grows
<1>3. \A c \in b : c \in 1 .. Len(l) /\ m[c] = l[c]
  BY DEF Line, Grows
<1> QED
  BY <1>2, <1>3 DEF Line

LEMMA GroupsStay ==
    ASSUME NEW l, NEW m, LogOK(l), LogOK(m), Grows(l, m), NEW ds, NEW es,
           DOMAIN ds \subseteq DOMAIN es, NEW gs, GroupsOK(l, ds, gs)
    PROVE  GroupsOK(m, es, gs)
<1>1. Len(l) \in Nat /\ Len(m) \in Nat /\ Len(l) <= Len(m)
  BY DEF LogOK, Grows
<1>2. 1 .. Len(l) \subseteq 1 .. Len(m) /\ 0 .. Len(l) \subseteq 0 .. Len(m)
  BY <1>1
<1>3. GroupRecord(l, DOMAIN ds) \subseteq GroupRecord(m, DOMAIN es)
  BY <1>2 DEF GroupRecord, Sources
<1>4. \A d \in Devices : Sound(m, gs[d])
  BY LineStays DEF GroupsOK, Sound
<1> QED
  BY <1>3, <1>4 DEF GroupsOK

LEMMA DocsStay ==
    ASSUME NEW l, NEW m, LogOK(l), LogOK(m), Grows(l, m), NEW ds, DocsOK(l, ds)
    PROVE  DocsOK(m, ds)
<1>1. Len(l) \in Nat /\ Len(m) \in Nat /\ Len(l) <= Len(m)
  BY DEF LogOK, Grows
<1>2. 1 .. Len(l) \subseteq 1 .. Len(m) /\ 0 .. Len(l) \subseteq 0 .. Len(m)
  BY <1>1
<1>3. GroupDocument(l, DOMAIN ds) \subseteq GroupDocument(m, DOMAIN ds)
  BY <1>2 DEF GroupDocument
<1>4. \A a \in DOMAIN ds : DocumentSound(m, ds[a])
  BY LineStays DEF DocsOK, DocumentSound
<1> QED
  BY <1>3, <1>4 DEF DocsOK

\* A post leaves all that is known of the log, of documents and of sessions.
LEMMA PostsStays ==
    ASSUME DocumentsInv, NEW by \in Devices \cup {Others}, NEW commit \in BOOLEAN,
           NEW base, base \subseteq 1 .. Len(log), Posts(by, commit, base)
    PROVE  /\ LogOK(log') /\ Grows(log, log') /\ ChainOK(log', chain')
           /\ Len(log') = Len(log) + 1
           /\ log'[Len(log) + 1] = [by |-> by, commit |-> commit, base |-> base]
<1> DEFINE new == [by |-> by, commit |-> commit, base |-> base]
<1>1. Len(log) \in Nat /\ log \in Seq(Message)
  BY DEF DocumentsInv, LogOK
<1>2. new \in Message
  BY <1>1 DEF Message
<1> HIDE DEF new
<1>3. log' = Append(log, new)
  BY DEF Posts, new
<1>4. /\ log' \in Seq(Message) /\ Len(log') = Len(log) + 1 /\ log'[Len(log) + 1] = new
      /\ \A c \in 1 .. Len(log) : log'[c] = log[c]
  BY <1>1, <1>2, <1>3, AppendProperties
<1>5. Grows(log, log')
  BY <1>1, <1>4 DEF Grows
<1>6. LogOK(log')
  <2>1. ASSUME NEW c \in 1 .. Len(log') PROVE log'[c].base \subseteq 1 .. (c - 1)
    <3>1. CASE c = Len(log) + 1
      BY <3>1, <1>1, <1>4 DEF new
    <3>2. CASE c \in 1 .. Len(log)
      BY <3>2, <1>4 DEF DocumentsInv, LogOK
    <3> QED
      BY <3>1, <3>2, <1>1, <1>4
  <2> QED
    BY <2>1, <1>4 DEF LogOK
<1>7. Line(log, chain) /\ Line(log', chain)
  BY <1>5, <1>6, LineStays DEF DocumentsInv, ChainOK
<1>8. ChainOK(log', chain')
  <2>1. CASE commit /\ base = chain
    <3>1. chain' = chain \cup {Len(log) + 1}
      BY <2>1 DEF Posts
    <3>2. \A k \in chain : k \in 1 .. Len(log)
      BY <1>7 DEF Line
    <3>3. \A m \in 1 .. (Len(log) + 1) : {k \in chain' : k < m} = {k \in chain : k < m}
      BY <3>1, <1>1
    <3>4. {k \in chain : k < Len(log) + 1} = chain
      BY <3>2, <1>1
    <3>5. Line(log', chain')
      <4>1. chain' \subseteq 1 .. Len(log')
        BY <3>1, <3>2, <1>1, <1>4
      <4>2. ASSUME NEW c \in chain'
            PROVE  log'[c].commit /\ log'[c].base = {k \in chain' : k < c}
        <5>1. CASE c = Len(log) + 1
          BY <5>1, <2>1, <3>3, <3>4, <1>1, <1>4 DEF new
        <5>2. CASE c \in chain
          BY <5>2, <3>2, <3>3, <1>1, <1>7 DEF Line
        <5> QED
          BY <5>1, <5>2, <3>1
      <4> QED
        BY <4>1, <4>2 DEF Line
    <3>6. ASSUME NEW m \in 1 .. Len(log'), log'[m].commit,
                 log'[m].base = {k \in chain' : k < m}
          PROVE  m \in chain'
      <4>1. CASE m = Len(log) + 1
        BY <4>1, <3>1
      <4>2. CASE m \in 1 .. Len(log)
        BY <4>2, <3>1, <3>3, <3>6, <1>1, <1>4 DEF DocumentsInv, ChainOK
      <4> QED
        BY <4>1, <4>2, <1>1, <1>4
    <3> QED
      BY <3>5, <3>6 DEF ChainOK
  <2>2. CASE ~(commit /\ base = chain)
    <3>1. chain' = chain
      BY <2>2 DEF Posts
    <3>2. {k \in chain : k < Len(log) + 1} = chain
      <4>1. \A k \in chain : k \in 1 .. Len(log)
        BY <1>7 DEF Line
      <4> QED
        BY <4>1, <1>1
    <3>3. ASSUME NEW m \in 1 .. Len(log'), log'[m].commit,
                 log'[m].base = {k \in chain : k < m}
          PROVE  m \in chain
      <4>1. CASE m = Len(log) + 1
        <5>1. new.commit = commit /\ new.base = base
          BY DEF new
        <5> QED
          BY <5>1, <4>1, <2>2, <3>2, <3>3, <1>4
      <4>2. CASE m \in 1 .. Len(log)
        BY <4>2, <3>3, <1>4 DEF DocumentsInv, ChainOK
      <4> QED
        BY <4>1, <4>2, <1>1, <1>4
    <3> QED
      BY <3>1, <3>3, <1>7 DEF ChainOK
  <2> QED
    BY <2>1, <2>2
<1> QED
  BY <1>4, <1>5, <1>6, <1>8 DEF new

-----------------------------------------------------------------------------
(* What ingestion leaves of a session.                                     *)

\* A Commit made at the end of a state leads it on.
LEMMA LineGoesOn ==
    ASSUME NEW l, LogOK(l), NEW b, Line(l, b), NEW c \in 1 .. Len(l),
           l[c].commit, l[c].base = b
    PROVE  Line(l, b \cup {c}) /\ Within(b \cup {c}, c)
<1>1. Len(l) \in Nat /\ \A k \in b : k \in 1 .. (c - 1)
  BY DEF LogOK
<1>2. Within(b \cup {c}, c)
  BY <1>1 DEF Within
<1>3. \A e \in b \cup {c} : {k \in b \cup {c} : k < e} = {k \in b : k < e}
  BY <1>1
<1>4. {k \in b : k < c} = b
  BY <1>1
<1>5. \A e \in b \cup {c} : l[e].commit /\ l[e].base = {k \in b \cup {c} : k < e}
  BY <1>3, <1>4 DEF Line
<1> QED
  BY <1>2, <1>5 DEF Line

LEMMA IngestedOK ==
    ASSUME LogOK(log), NEW as, NEW g \in GroupRecord(log, as), Sound(log, g),
           NEW c \in 1 .. Len(log), g.fetch < c
    PROVE  /\ Ingested(g, c) \in GroupRecord(log, as) /\ Sound(log, Ingested(g, c))
           /\ Ingested(g, c).fetch = c /\ Epoch(g.branch) <= Epoch(Ingested(g, c).branch)
<1> DEFINE new == Ingested(g, c)
<1>1. Len(log) \in Nat /\ g.fetch \in Nat /\ c \in 0 .. Len(log)
  BY DEF LogOK, GroupRecord
<1>2. g.branch \subseteq 1 .. Len(log) /\ Epoch(g.branch) \in Nat
  BY <1>1, EpochIsNat DEF GroupRecord
<1>3. \A S : Within(S, g.fetch) /\ S \subseteq 1 .. Len(log) => Within(S, c)
  BY <1>1 DEF Within
<1>4. g.read \subseteq 1 .. Len(log)
  BY DEF GroupRecord
<1>10. g.read \cup {c} \in SUBSET (1 .. Len(log))
  BY <1>4
<1>11. g.branch \cup {c} \in SUBSET (1 .. Len(log))
  BY <1>2
<1>12. g.pending \ {c} \in SUBSET (1 .. Len(log))
  BY DEF GroupRecord
<1>13. {Epoch(g.branch)} \in SUBSET Nat
  BY <1>2
<1>5. CASE c \in g.pending
  <2>1. new = [g EXCEPT !.fetch = c, !.pending = @ \ {c}]
    BY <1>5 DEF Ingested
  <2>2. /\ new \in GroupRecord(log, as) /\ new.fetch = c /\ new.branch = g.branch
        /\ new.read = g.read /\ new.point = g.point
    BY <2>1, <1>1, <1>12 DEF GroupRecord
  <2> HIDE DEF new
  <2>3. Sound(log, new)
    BY <2>2, <1>2, <1>3, <1>4 DEF Sound
  <2>4. Epoch(g.branch) <= Epoch(new.branch)
    BY <2>2, <1>2
  <2> QED
    BY <2>2, <2>3, <2>4 DEF new
<1>6. CASE c \notin g.pending /\ log[c].base # g.branch
  <2>1. new = [g EXCEPT !.fetch = c]
    BY <1>6 DEF Ingested
  <2>2. /\ new \in GroupRecord(log, as) /\ new.fetch = c /\ new.branch = g.branch
        /\ new.read = g.read /\ new.point = g.point
    BY <2>1, <1>1 DEF GroupRecord
  <2> HIDE DEF new
  <2>3. Sound(log, new)
    BY <2>2, <1>2, <1>3, <1>4 DEF Sound
  <2>4. Epoch(g.branch) <= Epoch(new.branch)
    BY <2>2, <1>2
  <2> QED
    BY <2>2, <2>3, <2>4 DEF new
<1>7. CASE c \notin g.pending /\ log[c].base = g.branch /\ log[c].commit /\ log[c].by = Others
  <2>1. new = [g EXCEPT !.fetch = c, !.branch = @ \cup {c}, !.read = {}]
    BY <1>7 DEF Ingested
  <2>2. /\ new \in GroupRecord(log, as) /\ new.fetch = c /\ new.branch = g.branch \cup {c}
        /\ new.read = {} /\ new.point = g.point
    BY <2>1, <1>1, <1>11 DEF GroupRecord
  <2>3. Line(log, g.branch \cup {c}) /\ Within(g.branch \cup {c}, c)
    BY <1>7, LineGoesOn DEF Sound
  <2>4. Epoch(g.branch) <= Epoch(g.branch \cup {c})
    BY <1>1, <1>2, EpochGrows
  <2> HIDE DEF new
  <2>5. Sound(log, new)
    BY <2>2, <2>3 DEF Sound, Within
  <2> QED
    BY <2>2, <2>4, <2>5 DEF new
<1>8. CASE c \notin g.pending /\ log[c].base = g.branch /\ log[c].commit /\ log[c].by # Others
  <2>1. new = [g EXCEPT !.fetch = c, !.skipped = {Epoch(g.branch)}]
    BY <1>8 DEF Ingested
  <2>2. /\ new \in GroupRecord(log, as) /\ new.fetch = c /\ new.branch = g.branch
        /\ new.read = g.read /\ new.point = g.point
    BY <2>1, <1>1, <1>13 DEF GroupRecord
  <2> HIDE DEF new
  <2>3. Sound(log, new)
    BY <2>2, <1>2, <1>3, <1>4 DEF Sound
  <2>4. Epoch(g.branch) <= Epoch(new.branch)
    BY <2>2, <1>2
  <2> QED
    BY <2>2, <2>3, <2>4 DEF new
<1>9. CASE c \notin g.pending /\ log[c].base = g.branch /\ ~log[c].commit
  <2>1. new = [g EXCEPT !.fetch = c, !.read = @ \cup {c}]
    BY <1>9 DEF Ingested
  <2>2. /\ new \in GroupRecord(log, as) /\ new.fetch = c /\ new.branch = g.branch
        /\ new.read = g.read \cup {c} /\ new.point = g.point
    BY <2>1, <1>1, <1>10 DEF GroupRecord
  <2> HIDE DEF new
  <2>3. Within(g.read \cup {c}, c)
    BY <1>1, <1>3, <1>4 DEF Within, Sound
  <2>4. Sound(log, new)
    BY <2>2, <2>3, <1>2, <1>3 DEF Sound
  <2>5. Epoch(g.branch) <= Epoch(new.branch)
    BY <2>2, <1>2
  <2> QED
    BY <2>2, <2>4, <2>5 DEF new
<1> QED
  BY <1>5, <1>6, <1>7, <1>8, <1>9

-----------------------------------------------------------------------------
(* What a chain of documents and a replay are, hop by hop.  That a function *)
(* defined by recursion exists is shown by the least place where it fails.  *)

Hop(address) == IF address = 0 THEN 0 ELSE docs[address].prev

LEMMA PathIs ==
    ASSUME NEW a
    PROVE  Path(a) = [k \in 0 .. MaxDocs |-> IF k = 0 THEN a ELSE Hop(Path(a)[k - 1])]
<1> DEFINE Goes(f, n) == f = [k \in 0 .. n |-> IF k = 0 THEN a ELSE Hop(f[k - 1])]
           Stuck == {n \in Nat : ~ \E f : Goes(f, n)}
<1>1. Stuck = {}
  <2>1. SUFFICES ASSUME Stuck # {} PROVE FALSE
    OBVIOUS
  <2>2. PICK n \in Stuck : \A m \in Stuck : n <= m
    <3> HIDE DEF Goes
    <3> QED
      BY <2>1, LeastNumber
  <2>3. CASE n = 0
    <3>1. Goes([k \in 0 .. 0 |-> a], 0)
      OBVIOUS
    <3> QED
      BY <2>3, <3>1
  <2>4. CASE n # 0
    <3>1. n \in Nat /\ n - 1 \in Nat /\ n - 1 \notin Stuck
      <4> HIDE DEF Goes
      <4> QED
        BY <2>2, <2>4
    <3>2. PICK f : Goes(f, n - 1)
      BY <3>1
    <3> DEFINE h == [k \in 0 .. n |-> IF k = n THEN Hop(f[n - 1]) ELSE f[k]]
    <3>3. \A k \in 0 .. (n - 1) : f[k] = IF k = 0 THEN a ELSE Hop(f[k - 1])
      BY <3>2
    <3>4. \A k \in 0 .. (n - 1) : h[k] = f[k]
      BY <3>1
    <3>5. h[n] = Hop(f[n - 1])
      BY <3>1
    <3> HIDE DEF h
    <3>6. \A k \in 0 .. n : h[k] = IF k = 0 THEN a ELSE Hop(h[k - 1])
      <4>1. TAKE k \in 0 .. n
      <4>2. CASE k = n
        BY <4>2, <3>1, <3>4, <3>5, <2>4
      <4>3. CASE k # n
        <5>1. k \in 0 .. (n - 1) /\ (k # 0 => k - 1 \in 0 .. (n - 1))
          BY <4>3, <3>1
        <5> QED
          BY <5>1, <3>3, <3>4
      <4> QED
        BY <4>2, <4>3
    <3>7. h = [k \in 0 .. n |-> h[k]]
      BY DEF h
    <3>8. Goes(h, n)
      BY <3>6, <3>7
    <3> QED
      BY <3>8, <2>2
  <2> QED
    BY <2>3, <2>4
<1>2. \E f : Goes(f, MaxDocs)
  BY <1>1, DocumentsAssumption
<1>3. Path(a) = CHOOSE f : Goes(f, MaxDocs)
  BY Zenon DEF Path, Hop
<1> QED
  BY <1>2, <1>3

\* Every hop of a chain is a document or its end.
LEMMA PathOK ==
    ASSUME DocsOK(log, docs), NEW a \in DOMAIN docs
    PROVE  \A k \in 0 .. MaxDocs : Path(a)[k] \in {0} \cup DOMAIN docs
<1> DEFINE Off == {k \in 0 .. MaxDocs : Path(a)[k] \notin {0} \cup DOMAIN docs}
<1>1. SUFFICES ASSUME Off # {} PROVE FALSE
  OBVIOUS
<1>2. MaxDocs \in Nat
  BY DocumentsAssumption
<1>3. PICK k \in Off : \A j \in Off : k <= j
  <2>1. Off \subseteq Nat
    BY <1>2
  <2> HIDE DEF Off
  <2> QED
    BY <1>1, <2>1, LeastNumber
<1>4. k \in 0 .. MaxDocs /\ Path(a)[k] = IF k = 0 THEN a ELSE Hop(Path(a)[k - 1])
  BY <1>3, PathIs
<1>5. k # 0 /\ k - 1 \in 0 .. MaxDocs
  BY <1>2, <1>3, <1>4
<1>6. Path(a)[k - 1] \in {0} \cup DOMAIN docs
  BY <1>3, <1>5, <1>2
<1>7. Hop(Path(a)[k - 1]) \in {0} \cup DOMAIN docs
  BY <1>6 DEF Hop, DocsOK, GroupDocument
<1> QED
  BY <1>3, <1>4, <1>5, <1>7

\* A walk reads documents of epochs beyond the session's, and stops nowhere else.
LEMMA WalkedOK ==
    ASSUME DocsOK(log, docs), NEW a \in DOMAIN docs, NEW d \in Devices
    PROVE  /\ Walked(d, a) \subseteq DOMAIN docs
           /\ \A e \in Walked(d, a) : EpochAt(e) > Epoch(group[d].branch)
<1>1. MaxDocs \in Nat
  BY DocumentsAssumption
<1>2. \A k \in Walk(d, a) : /\ k \in 0 .. MaxDocs /\ Path(a)[k] # 0
                            /\ EpochAt(Path(a)[k]) > Epoch(group[d].branch)
  BY <1>1 DEF Walk
<1> QED
  BY <1>2, PathOK DEF Walked

LEMMA StepsOK ==
    ASSUME DocsOK(log, docs), NEW a \in DOMAIN docs, NEW d \in Devices
    PROVE  /\ Steps(d, a) \subseteq Walked(d, a)
           /\ \A e, f \in Steps(d, a) :
                 EpochAt(e) = EpochAt(f) => docs[e].cursor = docs[f].cursor
           /\ \A e \in Walked(d, a) : \E s \in Steps(d, a) :
                 EpochAt(s) = EpochAt(e) /\ docs[s].cursor <= docs[e].cursor
<1> DEFINE path == Path(a)
           Same(i) == {j \in Walk(d, a) : EpochAt(path[j]) = EpochAt(path[i])}
<1>1. Steps(d, a) \subseteq Walked(d, a)
  BY DEF Steps, Walked
<1>2. /\ MaxDocs \in Nat /\ Walk(d, a) \subseteq 0 .. MaxDocs
      /\ \A j \in Walk(d, a) : docs[path[j]].cursor \in Nat
  <2>1. \A j \in Walk(d, a) : path[j] \in Walked(d, a)
    BY DEF Walked
  <2>2. Len(log) \in Nat => \A e \in DOMAIN docs : docs[e].cursor \in Nat
    BY DEF DocsOK, GroupDocument
  <2>3. \A e \in DOMAIN docs : docs[e].cursor \in Nat
    BY DEF DocsOK, GroupDocument
  <2> QED
    BY <2>1, <2>3, WalkedOK, DocumentsAssumption DEF Walk
<1>3. ASSUME NEW e \in Walked(d, a)
      PROVE  \E s \in Steps(d, a) : EpochAt(s) = EpochAt(e) /\ docs[s].cursor <= docs[e].cursor
  <2>1. PICK i \in Walk(d, a) : e = path[i]
    BY DEF Walked
  <2>2. i \in Same(i) /\ Same(i) \subseteq Walk(d, a)
    BY <2>1
  <2> DEFINE cursors == {docs[path[j]].cursor : j \in Same(i)}
  <2>3. cursors \subseteq Nat /\ cursors # {}
    BY <2>2, <1>2
  <2>4. PICK low \in cursors : \A x \in cursors : low <= x
    <3> HIDE DEF cursors
    <3> QED
      BY <2>3, LeastNumber
  <2> DEFINE best == {j \in Same(i) : docs[path[j]].cursor = low}
  <2>5. best \subseteq Nat /\ best # {}
    BY <2>2, <2>4, <1>2
  <2>6. PICK b \in best : \A j \in best : b <= j
    <3> HIDE DEF best
    <3> QED
      BY <2>5, LeastNumber
  <2>7. \A j \in Walk(d, a) : EpochAt(path[j]) = EpochAt(path[b]) =>
           \/ docs[path[b]].cursor < docs[path[j]].cursor
           \/ docs[path[b]].cursor = docs[path[j]].cursor /\ b <= j
    <3>1. TAKE j \in Walk(d, a)
    <3>2. HAVE EpochAt(path[j]) = EpochAt(path[b])
    <3>3. j \in Same(i) /\ docs[path[j]].cursor \in cursors
      BY <3>2, <2>6
    <3>4. low <= docs[path[j]].cursor /\ docs[path[b]].cursor = low /\ low \in Nat
      BY <3>3, <2>3, <2>4, <2>6
    <3>5. CASE docs[path[j]].cursor = low
      BY <3>3, <3>5, <2>6
    <3>6. CASE docs[path[j]].cursor # low
      BY <3>4, <3>6, <1>2
    <3> QED
      BY <3>5, <3>6
  <2>8. path[b] \in Steps(d, a)
    BY <2>6, <2>7 DEF Steps
  <2>9. EpochAt(path[b]) = EpochAt(e) /\ docs[path[b]].cursor <= docs[e].cursor
    BY <2>1, <2>2, <2>3, <2>4, <2>6
  <2> QED
    BY <2>8, <2>9
<1>4. ASSUME NEW e \in Steps(d, a), NEW f \in Steps(d, a), EpochAt(e) = EpochAt(f)
      PROVE  docs[e].cursor = docs[f].cursor
  <2>1. PICK i \in Walk(d, a) :
           /\ e = path[i]
           /\ \A j \in Walk(d, a) : EpochAt(path[j]) = EpochAt(path[i]) =>
                 docs[path[i]].cursor <= docs[path[j]].cursor
    BY <1>2 DEF Steps
  <2>2. PICK k \in Walk(d, a) :
           /\ f = path[k]
           /\ \A j \in Walk(d, a) : EpochAt(path[j]) = EpochAt(path[k]) =>
                 docs[path[k]].cursor <= docs[path[j]].cursor
    BY <1>2 DEF Steps
  <2> QED
    BY <2>1, <2>2, <1>2, <1>4
<1> QED
  BY <1>1, <1>3, <1>4

\* f[c] is what a replay of the messages up to n has made of the session by c.
Replays(f, d, steps, n) ==
    f = [c \in group[d].fetch .. n |->
           IF c = group[d].fetch THEN [g |-> group[d], stored |-> {}, strayed |-> FALSE]
           ELSE ReplayOne(steps, group[d].fetch, f[c - 1], c)]

LEMMA ReplayIs ==
    ASSUME NEW d \in Devices, NEW steps, Len(log) \in Nat, group[d].fetch \in 0 .. Len(log)
    PROVE  \E f : Replays(f, d, steps, Len(log)) /\ Replay(d, steps) = f[Len(log)]
<1> DEFINE from == group[d].fetch
           begins == [g |-> group[d], stored |-> {}, strayed |-> FALSE]
           Goes(f, n) == f = [c \in from .. n |-> IF c = from THEN begins
                                                  ELSE ReplayOne(steps, from, f[c - 1], c)]
           Stuck == {n \in Nat : n >= from /\ ~ \E f : Goes(f, n)}
<1>1. Stuck = {}
  <2> HIDE DEF begins
  <2>1. SUFFICES ASSUME Stuck # {} PROVE FALSE
    OBVIOUS
  <2>2. PICK n \in Stuck : \A m \in Stuck : n <= m
    <3> HIDE DEF Goes
    <3> QED
      BY <2>1, LeastNumber
  <2>3. from \in Nat
    OBVIOUS
  <2>4. CASE n = from
    <3>1. Goes([c \in from .. from |-> begins], from)
      BY <2>3
    <3> QED
      BY <2>4, <3>1, <2>2
  <2>5. CASE n # from
    <3>1. n \in Nat /\ n - 1 \in Nat /\ n - 1 >= from /\ n - 1 \notin Stuck
      <4> HIDE DEF Goes
      <4> QED
        BY <2>2, <2>3, <2>5
    <3>2. PICK f : Goes(f, n - 1)
      BY <3>1
    <3> DEFINE h == [c \in from .. n |-> IF c = n THEN ReplayOne(steps, from, f[n - 1], n)
                                         ELSE f[c]]
    <3>3. \A c \in from .. (n - 1) : f[c] = IF c = from THEN begins
                                            ELSE ReplayOne(steps, from, f[c - 1], c)
      BY <3>2
    <3>4. \A c \in from .. (n - 1) : h[c] = f[c]
      BY <3>1, <2>3
    <3>5. h[n] = ReplayOne(steps, from, f[n - 1], n)
      BY <3>1, <2>3
    <3> HIDE DEF h
    <3>6. \A c \in from .. n : h[c] = IF c = from THEN begins
                                      ELSE ReplayOne(steps, from, h[c - 1], c)
      <4>1. TAKE c \in from .. n
      <4>2. CASE c = n
        <5>1. n - 1 \in from .. (n - 1) /\ c # from
          BY <4>2, <3>1, <2>3, <2>5
        <5> QED
          BY <5>1, <4>2, <3>4, <3>5
      <4>3. CASE c # n
        <5>1. c \in from .. (n - 1) /\ (c # from => c - 1 \in from .. (n - 1))
          BY <4>3, <3>1, <2>3
        <5> QED
          BY <5>1, <3>3, <3>4
      <4> QED
        BY <4>2, <4>3
    <3>7. h = [c \in from .. n |-> h[c]]
      BY DEF h
    <3>8. Goes(h, n)
      BY <3>6, <3>7
    <3> QED
      BY <3>8, <2>2
  <2> QED
    BY <2>4, <2>5
<1>2. \E f : Goes(f, Len(log))
  <2> HIDE DEF Goes
  <2> QED
    BY <1>1
<1>3. Replay(d, steps) = (CHOOSE f : Goes(f, Len(log)))[Len(log)]
  BY Zenon DEF Replay
<1>4. \A f : Goes(f, Len(log)) <=> Replays(f, d, steps, Len(log))
  BY DEF Replays
<1> HIDE DEF Goes
<1> QED
  BY <1>2, <1>3, <1>4

\* The session a message of the gap is replayed under.
Under(steps, from, g, c) ==
    LET takes == TakesOver(steps, from, c) IN
    IF takes = {} THEN g
    ELSE [g EXCEPT !.branch = docs[First(takes)].branch, !.read = docs[First(takes)].read]

LEMMA ReplayOneIs ==
    ASSUME NEW steps, NEW from, NEW before, NEW c
    PROVE  LET under == Under(steps, from, before.g, c) IN
           /\ ReplayOne(steps, from, before, c).g = Ingested(under, c)
           /\ ReplayOne(steps, from, before, c).stored = before.stored \cup Stores(under, c)
           /\ ReplayOne(steps, from, before, c).strayed \in BOOLEAN
BY Zenon DEF ReplayOne, Under

\* A state takes over only behind the cursor of its document.
LEMMA TakerOK ==
    ASSUME LogOK(log), DocsOK(log, docs), NEW steps, steps \subseteq DOMAIN docs,
           NEW from \in Nat, NEW c \in Nat, TakesOver(steps, from, c) # {}
    PROVE  LET t == First(TakesOver(steps, from, c)) IN
           t \in TakesOver(steps, from, c) /\ t \in steps /\ docs[t].cursor \in 0 .. (c - 1)
<1> DEFINE takes == TakesOver(steps, from, c)
<1>1. takes \subseteq steps /\ steps \subseteq Nat
  BY DocumentsAssumption DEF TakesOver, DocsOK, Addresses
<1>2. First(takes) \in takes
  BY <1>1, FirstIsMember
<1>3. \A t \in takes : docs[t].cursor \in Nat /\ Larger(docs[t].cursor, from) + 1 = c
  BY <1>1 DEF TakesOver, DocsOK, GroupDocument
<1>4. \A t \in takes : docs[t].cursor \in 0 .. (c - 1)
  BY <1>3 DEF Larger
<1> QED
  BY <1>1, <1>2, <1>4

LEMMA UnderOK ==
    ASSUME LogOK(log), DocsOK(log, docs), NEW steps, steps \subseteq DOMAIN docs,
           NEW from \in Nat, NEW c \in 1 .. Len(log),
           NEW least \in Nat, \A s \in steps : EpochAt(s) >= least,
           NEW g \in GroupRecord(log, DOMAIN docs), Sound(log, g), g.fetch = c - 1,
           least <= Epoch(g.branch)
    PROVE  LET under == Under(steps, from, g, c) IN
           /\ under \in GroupRecord(log, DOMAIN docs) /\ Sound(log, under)
           /\ under.fetch = c - 1 /\ least <= Epoch(under.branch)
<1> DEFINE takes == TakesOver(steps, from, c)
           t == First(takes)
<1>1. CASE takes = {}
  BY <1>1 DEF Under
<1>2. CASE takes # {}
  <2>1. t \in steps /\ t \in DOMAIN docs /\ docs[t].cursor \in 0 .. (c - 1)
    BY <1>2, TakerOK DEF LogOK
  <2>2. /\ docs[t].branch \in SUBSET (1 .. Len(log)) /\ docs[t].read \in SUBSET (1 .. Len(log))
        /\ DocumentSound(log, docs[t])
    BY <2>1 DEF DocsOK, GroupDocument
  <2> DEFINE under == Under(steps, from, g, c)
  <2>3. under = [g EXCEPT !.branch = docs[t].branch, !.read = docs[t].read]
    BY <1>2, Zenon DEF Under
  <2> HIDE DEF t, under
  <2>4. /\ under \in GroupRecord(log, DOMAIN docs) /\ under.fetch = c - 1
        /\ under.branch = docs[t].branch /\ under.read = docs[t].read /\ under.point = g.point
    BY <2>2, <2>3 DEF GroupRecord
  <2>5. Within(docs[t].branch, c - 1) /\ Within(docs[t].read, c - 1)
    BY <2>1, <2>2 DEF DocumentSound, Within, DocsOK, GroupDocument
  <2>6. Sound(log, under)
    BY <2>2, <2>4, <2>5 DEF Sound, DocumentSound
  <2>7. least <= Epoch(under.branch)
    BY <2>1, <2>4 DEF EpochAt
  <2> QED
    BY <2>4, <2>6, <2>7 DEF under
<1> QED
  BY <1>1, <1>2

\* A replay goes through sound sessions, none of an epoch below that of the first.
LEMMA ReplayedOK ==
    ASSUME LogOK(log), DocsOK(log, docs), NEW d \in Devices,
           group[d] \in GroupRecord(log, DOMAIN docs), Sound(log, group[d]),
           NEW steps, steps \subseteq DOMAIN docs,
           \A s \in steps : EpochAt(s) >= Epoch(group[d].branch),
           NEW f, Replays(f, d, steps, Len(log))
    PROVE  \A c \in group[d].fetch .. Len(log) :
              /\ f[c].g \in GroupRecord(log, DOMAIN docs) /\ Sound(log, f[c].g)
              /\ f[c].g.fetch = c /\ Epoch(group[d].branch) <= Epoch(f[c].g.branch)
              /\ f[c].strayed \in BOOLEAN
<1> DEFINE from == group[d].fetch
           least == Epoch(group[d].branch)
           begins == [g |-> group[d], stored |-> {}, strayed |-> FALSE]
           Good(r, c) == /\ r.g \in GroupRecord(log, DOMAIN docs) /\ Sound(log, r.g)
                         /\ r.g.fetch = c /\ least <= Epoch(r.g.branch)
                         /\ r.strayed \in BOOLEAN
<1>1. Len(log) \in Nat /\ from \in 0 .. Len(log) /\ group[d].branch \in SUBSET (1 .. Len(log))
  BY DEF LogOK, GroupRecord
<1>2. least \in Nat
  BY <1>1, EpochIsNat
<1>4. f[from] = begins
  BY <1>1 DEF Replays
<1>5. \A c \in from .. Len(log) : c # from => f[c] = ReplayOne(steps, from, f[c - 1], c)
  BY Zenon DEF Replays
<1>6. Good(f[from], from)
  BY <1>1, <1>2, <1>4
<1>7. ASSUME NEW c \in from .. Len(log), c # from, Good(f[c - 1], c - 1)
      PROVE  Good(f[c], c)
  <2> DEFINE g == f[c - 1].g
             under == Under(steps, from, g, c)
  <2>1. c \in 1 .. Len(log) /\ from \in Nat
    BY <1>1, <1>7
  <2> HIDE DEF from, least
  <2>2. \A s \in steps : EpochAt(s) >= least
    BY DEF least
  <2>3. /\ under \in GroupRecord(log, DOMAIN docs) /\ Sound(log, under)
        /\ under.fetch = c - 1 /\ least <= Epoch(under.branch)
    BY <1>2, <1>7, <2>1, <2>2, UnderOK
  <2>4. f[c].g = Ingested(under, c) /\ f[c].strayed \in BOOLEAN
    <3>1. f[c] = ReplayOne(steps, from, f[c - 1], c)
      BY <1>5, <1>7
    <3>2. ReplayOne(steps, from, f[c - 1], c).g = Ingested(under, c)
      BY ReplayOneIs
    <3>3. ReplayOne(steps, from, f[c - 1], c).strayed \in BOOLEAN
      BY ReplayOneIs
    <3> QED
      BY <3>1, <3>2, <3>3, Zenon
  <2> HIDE DEF under
  <2>5. under.fetch < c /\ Epoch(under.branch) \in Nat
    BY <1>1, <2>1, <2>3, EpochIsNat DEF GroupRecord
  <2>6. /\ Ingested(under, c) \in GroupRecord(log, DOMAIN docs)
        /\ Sound(log, Ingested(under, c)) /\ Ingested(under, c).fetch = c
        /\ Epoch(under.branch) <= Epoch(Ingested(under, c).branch)
    BY <2>1, <2>3, <2>5, IngestedOK
  <2>7. Epoch(Ingested(under, c).branch) \in Nat
    BY <1>1, <2>6, EpochIsNat DEF GroupRecord
  <2>8. least <= Epoch(Ingested(under, c).branch)
    BY <1>2, <2>3, <2>5, <2>6, <2>7
  <2> QED
    BY <2>4, <2>6, <2>8, <1>7
<1>8. \A c \in from .. Len(log) : Good(f[c], c)
  <2> DEFINE Bad == {c \in from .. Len(log) : ~Good(f[c], c)}
  <2>1. SUFFICES ASSUME Bad # {} PROVE FALSE
    BY <1>1
  <2>2. Bad \subseteq Nat
    BY <1>1
  <2>3. PICK c \in Bad : \A e \in Bad : c <= e
    <3> HIDE DEF Bad
    <3> QED
      BY <2>1, <2>2, LeastNumber
  <2> HIDE DEF Good, from
  <2>4. c \in from .. Len(log) /\ c # from
    BY <1>6, <2>3
  <2>5. c - 1 \in from .. Len(log) /\ c - 1 \notin Bad
    <3>1. c - 1 \in from .. Len(log) /\ ~(c <= c - 1)
      BY <1>1, <2>4
    <3> HIDE DEF Bad
    <3> QED
      BY <2>3, <3>1
  <2> QED
    BY <1>7, <2>3, <2>4, <2>5
<1> QED
  BY <1>8

LEMMA ReplayOK ==
    ASSUME LogOK(log), DocsOK(log, docs), NEW d \in Devices,
           group[d] \in GroupRecord(log, DOMAIN docs), Sound(log, group[d]),
           NEW steps, steps \subseteq DOMAIN docs,
           \A s \in steps : EpochAt(s) >= Epoch(group[d].branch)
    PROVE  /\ Replay(d, steps).g \in GroupRecord(log, DOMAIN docs)
           /\ Sound(log, Replay(d, steps).g)
           /\ Epoch(group[d].branch) <= Epoch(Replay(d, steps).g.branch)
           /\ Replay(d, steps).strayed \in BOOLEAN
<1>1. Len(log) \in Nat /\ group[d].fetch \in 0 .. Len(log)
  BY DEF LogOK, GroupRecord
<1>2. PICK f : Replays(f, d, steps, Len(log)) /\ Replay(d, steps) = f[Len(log)]
  BY <1>1, ReplayIs
<1>3. Len(log) \in group[d].fetch .. Len(log)
  BY <1>1
<1>4. \A c \in group[d].fetch .. Len(log) :
         /\ f[c].g \in GroupRecord(log, DOMAIN docs) /\ Sound(log, f[c].g)
         /\ f[c].g.fetch = c /\ Epoch(group[d].branch) <= Epoch(f[c].g.branch)
         /\ f[c].strayed \in BOOLEAN
  BY <1>2, ReplayedOK
<1> QED
  BY <1>2, <1>3, <1>4, Zenon

-----------------------------------------------------------------------------
(* Catching up along a chain.                                              *)

\* A state that goes on from the group's state of cursor c, and off its order, does
\* so behind c.
LEMMA NothingBetween ==
    ASSUME LogOK(log), ChainOK(log, chain), NEW c \in 1 .. Len(log), NEW b, Line(log, b),
           {k \in chain : k < c} \subseteq b, NEW n \in Nat, n < c, Within(b, n)
    PROVE  b = {k \in chain : k < c}
<1> DEFINE B == {k \in chain : k < c}
<1>1. SUFFICES ASSUME b \ B # {} PROVE FALSE
  OBVIOUS
<1>2. Len(log) \in Nat /\ b \subseteq 1 .. Len(log) /\ b \ B \subseteq Nat
  <2>1. Len(log) \in Nat /\ b \subseteq 1 .. Len(log)
    BY DEF LogOK, Line
  <2>2. \A k \in b : k \in Nat
    BY <2>1
  <2> HIDE DEF B
  <2> QED
    BY <2>1, <2>2
<1>3. PICK m \in b \ B : \A k \in b \ B : m <= k
  <2> HIDE DEF B
  <2> QED
    BY <1>1, <1>2, LeastNumber
<1>4. m \in 1 .. Len(log) /\ m < c
  BY <1>2, <1>3 DEF Within
<1>5. {k \in b : k < m} = {k \in chain : k < m}
  <2>1. ASSUME NEW k \in b, k < m PROVE k \in chain
    BY <1>2, <1>3, <2>1
  <2>2. ASSUME NEW k \in chain, k < m PROVE k \in b
    <3>1. k \in 1 .. Len(log)
      BY DEF ChainOK, Line
    <3> QED
      BY <1>2, <1>4, <2>2, <3>1
  <2> QED
    BY <2>1, <2>2
<1>6. log[m].commit /\ log[m].base = {k \in b : k < m}
  BY <1>3 DEF Line
<1>7. m \in chain
  BY <1>4, <1>5, <1>6 DEF ChainOK
<1> QED
  BY <1>3, <1>4, <1>7

\* A session in the group's state of cursor c stays in it until there.
LEMMA StateKept ==
    ASSUME LogOK(log), ChainOK(log, chain), NEW c \in 1 .. Len(log), NEW x \in 1 .. (c - 1),
           NEW g \in GroupRecord(log, DOMAIN docs), g.branch = {k \in chain : k < c},
           Within(g.read, x - 1)
    PROVE  /\ Ingested(g, x).branch = g.branch /\ Within(Ingested(g, x).read, x)
<1>1. Len(log) \in Nat /\ g.read \subseteq 1 .. Len(log) /\ x \in 1 .. Len(log) /\ x < c
  BY DEF LogOK, GroupRecord
<1>2. ~(log[x].commit /\ log[x].base = g.branch)
  <2>1. SUFFICES ASSUME log[x].commit, log[x].base = g.branch PROVE FALSE
    OBVIOUS
  <2>2. \A k \in chain : k \in 1 .. Len(log)
    BY DEF ChainOK, Line
  <2>3. \A k \in g.branch : k < x
    BY <1>1, <2>1 DEF LogOK
  <2>4. g.branch = {k \in chain : k < x}
    BY <1>1, <2>2, <2>3
  <2>5. x \in chain
    BY <1>1, <2>1, <2>4 DEF ChainOK
  <2> QED
    BY <1>1, <2>3, <2>5
<1>3. Within(g.read, x) /\ Within(g.read \cup {x}, x)
  BY <1>1 DEF Within
<1>4. \/ Ingested(g, x).branch = g.branch /\ Ingested(g, x).read = g.read
      \/ Ingested(g, x).branch = g.branch /\ Ingested(g, x).read = g.read \cup {x}
  BY <1>2 DEF Ingested, GroupRecord
<1> QED
  BY <1>3, <1>4

\* Along one line, a message whose keys some document of it carries is stored.
LEMMA Recovers ==
    ASSUME DocumentsInv, NEW d \in Devices, NEW a \in DOMAIN docs, InLine(d, a),
           NEW c \in Covered(d, a)
    PROVE  c \in Replay(d, Steps(d, a)).stored
<1> DEFINE from == group[d].fetch
           steps == Steps(d, a)
           B == {k \in chain : k < c}
<1>1. /\ LogOK(log) /\ ChainOK(log, chain) /\ DocsOK(log, docs)
      /\ group[d] \in GroupRecord(log, DOMAIN docs) /\ Sound(log, group[d])
  BY DEF DocumentsInv, GroupsOK
<1>2. /\ Len(log) \in Nat /\ c \in 1 .. Len(log) /\ from \in 0 .. (c - 1)
      /\ from \in 0 .. Len(log) /\ ~log[c].commit /\ log[c].base = B
  BY <1>1 DEF Covered, Cursors, LogOK, GroupRecord
<1>3. PICK e \in Walked(d, a) : docs[e].branch = B /\ docs[e].cursor < c
  BY DEF Covered
<1>4. /\ Walked(d, a) \subseteq DOMAIN docs /\ steps \subseteq Walked(d, a)
      /\ \A f \in Walked(d, a) : EpochAt(f) > Epoch(group[d].branch)
      /\ \A f, h \in steps : EpochAt(f) = EpochAt(h) => docs[f].cursor = docs[h].cursor
  BY <1>1, WalkedOK, StepsOK
<1>5. \A f \in DOMAIN docs :
         /\ docs[f].cursor \in 0 .. Len(log) /\ docs[f].read \subseteq 1 .. Len(log)
         /\ EpochAt(f) \in Nat /\ DocumentSound(log, docs[f])
  BY <1>1, <1>2, EpochIsNat DEF DocsOK, GroupDocument, EpochAt
<1>6. PICK s \in steps : EpochAt(s) = EpochAt(e) /\ docs[s].cursor <= docs[e].cursor
  BY <1>1, <1>3, StepsOK
<1> DEFINE low == docs[s].cursor
           start == Larger(low, from) + 1
<1>7. /\ s \in DOMAIN docs /\ docs[s].branch = B /\ low < c /\ low \in Nat
      /\ start \in 1 .. c /\ low < start /\ from < start
  <2>1. docs[s].branch = B
    BY <1>3, <1>4, <1>6 DEF InLine
  <2>2. s \in DOMAIN docs /\ low < c /\ low \in Nat
    BY <1>2, <1>3, <1>4, <1>5, <1>6
  <2> QED
    BY <1>2, <2>1, <2>2 DEF Larger
\* A step before the message is of an earlier epoch or has this state.
<1>8. ASSUME NEW f \in steps, docs[f].cursor < c
      PROVE  \/ docs[f].cursor < low
             \/ docs[f].cursor = low /\ EpochAt(f) = EpochAt(s) /\ docs[f].branch = B
  <2>1. f \in DOMAIN docs /\ f \in Walked(d, a) /\ s \in Walked(d, a)
    BY <1>4
  <2>2. CASE EpochAt(f) = EpochAt(s)
    BY <2>1, <2>2, <1>4, <1>7 DEF InLine
  <2>3. CASE EpochAt(f) < EpochAt(s)
    BY <2>1, <2>3 DEF InLine
  <2>4. CASE EpochAt(f) > EpochAt(s)
    <3>1. B \subseteq docs[f].branch
      BY <2>1, <2>4, <1>5, <1>7 DEF InLine
    <3>2. docs[f].branch = B
      BY <2>1, <3>1, <1>1, <1>2, <1>5, <1>8, NothingBetween DEF DocumentSound
    <3>3. EpochAt(f) = EpochAt(s)
      BY <3>2, <1>7 DEF EpochAt
    <3> QED
      BY <2>1, <2>4, <3>3, <1>5, <1>7
  <2> QED
    BY <2>1, <2>2, <2>3, <2>4, <1>5, <1>7
<1>9. PICK f : Replays(f, d, steps, Len(log)) /\ Replay(d, steps) = f[Len(log)]
  BY <1>2, ReplayIs
<1>10. /\ f[from] = [g |-> group[d], stored |-> {}, strayed |-> FALSE]
       /\ \A x \in (from + 1) .. Len(log) : f[x] = ReplayOne(steps, from, f[x - 1], x)
  <2>1. from \in from .. Len(log)
    BY <1>2
  <2>2. \A x \in (from + 1) .. Len(log) : x \in from .. Len(log) /\ x # from
    BY <1>2
  <2>3. f = [x \in from .. Len(log) |->
               IF x = from THEN [g |-> group[d], stored |-> {}, strayed |-> FALSE]
               ELSE ReplayOne(steps, from, f[x - 1], x)]
    BY <1>9, Zenon DEF Replays
  <2> QED
    BY <2>1, <2>2, <2>3, Zenon
<1>11. \A x \in from .. Len(log) :
          /\ f[x].g \in GroupRecord(log, DOMAIN docs) /\ Sound(log, f[x].g)
          /\ f[x].g.fetch = x /\ Epoch(group[d].branch) <= Epoch(f[x].g.branch)
          /\ f[x].strayed \in BOOLEAN
  <2>1. \A h \in steps : EpochAt(h) >= Epoch(group[d].branch)
    <3>1. Epoch(group[d].branch) \in Nat
      BY <1>1, <1>2, EpochIsNat DEF GroupRecord
    <3> QED
      BY <3>1, <1>4, <1>5
  <2>2. steps \subseteq DOMAIN docs
    BY <1>4
  <2> QED
    BY <2>1, <2>2, <1>1, <1>9, ReplayedOK
<1> DEFINE under(x) == Under(steps, from, f[x - 1].g, x)
           Ready(x) == under(x).branch = B /\ Within(under(x).read, x - 1)
           takes(x) == TakesOver(steps, from, x)
<1>12. s \in takes(start)
  <2>1. ASSUME NEW h \in steps, docs[h].cursor < start
        PROVE  \/ docs[h].cursor < low
               \/ docs[h].cursor = low /\ EpochAt(s) <= EpochAt(h)
    <3>1. docs[h].cursor < c
      BY <2>1, <1>2, <1>4, <1>5, <1>7
    <3> QED
      BY <3>1, <1>8, <1>4, <1>5
  <2> QED
    BY <2>1 DEF TakesOver
<1>13. Ready(start)
  <2> DEFINE t == First(takes(start))
  <2>1. t \in takes(start) /\ t \in steps /\ docs[t].cursor \in 0 .. (start - 1)
    BY <1>1, <1>2, <1>4, <1>7, <1>12, TakerOK
  <2>2. \/ low < docs[t].cursor
        \/ docs[t].cursor = low
    BY <2>1, <1>7 DEF TakesOver
  <2>3. docs[t].branch = B
    BY <2>1, <2>2, <1>2, <1>7, <1>8
  <2>4. Within(docs[t].read, start - 1)
    BY <2>1, <1>2, <1>4, <1>5, <1>7 DEF DocumentSound, Within
  <2>5. /\ start - 1 \in from .. Len(log)
        /\ f[start - 1].g \in GroupRecord(log, DOMAIN docs)
    BY <1>2, <1>7, <1>11
  <2>6. under(start) = [f[start - 1].g EXCEPT !.branch = docs[t].branch, !.read = docs[t].read]
    BY <1>12, Zenon DEF Under
  <2> HIDE DEF t, takes, under
  <2>7. under(start).branch = docs[t].branch /\ under(start).read = docs[t].read
    BY <2>5, <2>6 DEF GroupRecord
  <2> QED
    BY <2>3, <2>4, <2>7
<1>14. ASSUME NEW x \in (start + 1) .. c PROVE under(x) = f[x - 1].g
  <2>1. takes(x) = {}
    <3>1. SUFFICES ASSUME NEW t \in takes(x) PROVE FALSE
      OBVIOUS
    <3>2. t \in steps /\ Larger(docs[t].cursor, from) + 1 = x
      BY DEF TakesOver
    <3>3. docs[t].cursor \in Nat /\ x \in Nat /\ start \in Nat
      BY <3>2, <1>2, <1>4, <1>5, <1>7
    <3>4. docs[t].cursor = x - 1
      <4> HIDE DEF low
      <4> QED
        BY <3>2, <3>3, <1>2, <1>7, <1>14 DEF Larger
    <3> QED
      BY <3>2, <3>3, <3>4, <1>2, <1>7, <1>8, <1>14
  <2> QED
    BY <2>1, Zenon DEF Under
<1>15. ASSUME NEW x \in start .. (c - 1), Ready(x) PROVE Ready(x + 1)
  <2>1. x \in 1 .. (c - 1) /\ x \in (from + 1) .. Len(log) /\ x + 1 \in (start + 1) .. c
    BY <1>2, <1>7, <1>15
  <2>2. f[x].g = Ingested(under(x), x)
    <3>1. f[x] = ReplayOne(steps, from, f[x - 1], x)
      BY <2>1, <1>10
    <3>2. ReplayOne(steps, from, f[x - 1], x).g = Ingested(under(x), x)
      BY ReplayOneIs
    <3> QED
      BY <3>1, <3>2
  <2>3. under(x) \in GroupRecord(log, DOMAIN docs)
    <3>1. /\ x \in 1 .. Len(log) /\ x - 1 \in from .. Len(log) /\ from \in Nat
          /\ Epoch(group[d].branch) \in Nat /\ steps \subseteq DOMAIN docs
      BY <2>1, <1>1, <1>2, <1>4, EpochIsNat DEF GroupRecord
    <3>2. \A h \in steps : EpochAt(h) >= Epoch(group[d].branch)
      BY <3>1, <1>4, <1>5
    <3>3. /\ f[x - 1].g \in GroupRecord(log, DOMAIN docs) /\ Sound(log, f[x - 1].g)
          /\ f[x - 1].g.fetch = x - 1 /\ Epoch(group[d].branch) <= Epoch(f[x - 1].g.branch)
      BY <3>1, <1>11
    <3> QED
      BY <3>1, <3>2, <3>3, <1>1, UnderOK
  <2> HIDE DEF under, B
  <2>4. Ingested(under(x), x).branch = B /\ Within(Ingested(under(x), x).read, x)
    <3> USE DEF B
    <3> QED
      BY <2>1, <2>3, <1>1, <1>2, <1>15, StateKept
  <2>5. under(x + 1) = f[x].g
    <3>1. under(x + 1) = f[(x + 1) - 1].g
      BY <2>1, <1>14
    <3> QED
      BY <3>1, <2>1
  <2> QED
    BY <2>1, <2>2, <2>4, <2>5
<1>16. Ready(c)
  <2> DEFINE Bad == {x \in start .. c : ~Ready(x)}
  <2>1. SUFFICES ASSUME Bad # {} PROVE FALSE
    BY <1>2, <1>7
  <2>2. Bad \subseteq Nat
    BY <1>2, <1>7
  <2>3. PICK x \in Bad : \A y \in Bad : x <= y
    <3> HIDE DEF Bad
    <3> QED
      BY <2>1, <2>2, LeastNumber
  <2> HIDE DEF Ready, start
  <2>4. x \in start .. c /\ x # start /\ x - 1 \in start .. (c - 1) /\ x = (x - 1) + 1
    BY <1>2, <1>7, <1>13, <2>3
  <2>5. Ready(x - 1)
    <3>1. x - 1 \in start .. c /\ ~(x <= x - 1)
      BY <1>2, <1>7, <2>4
    <3> QED
      BY <2>3, <3>1
  <2> QED
    BY <1>15, <2>3, <2>4, <2>5
<1>17. c \in f[c].stored
  <2>1. c \in (from + 1) .. Len(log)
    BY <1>2
  <2>2. f[c].stored = f[c - 1].stored \cup Stores(under(c), c)
    <3>1. f[c] = ReplayOne(steps, from, f[c - 1], c)
      BY <2>1, <1>10
    <3>2. ReplayOne(steps, from, f[c - 1], c).stored = f[c - 1].stored \cup Stores(under(c), c)
      BY ReplayOneIs
    <3> QED
      BY <3>1, <3>2
  <2> HIDE DEF under
  <2>3. c \notin under(c).read
    BY <1>2, <1>16 DEF Within
  <2>4. Stores(under(c), c) = {c}
    BY <1>2, <1>16, <2>3 DEF Stores
  <2> QED
    BY <2>2, <2>4
<1>18. \A x \in c .. Len(log) : c \in f[x].stored
  <2> DEFINE Bad == {x \in c .. Len(log) : c \notin f[x].stored}
  <2>1. SUFFICES ASSUME Bad # {} PROVE FALSE
    OBVIOUS
  <2>2. Bad \subseteq Nat
    BY <1>2
  <2>3. PICK x \in Bad : \A y \in Bad : x <= y
    <3> HIDE DEF Bad
    <3> QED
      BY <2>1, <2>2, LeastNumber
  <2>4. x # c /\ x - 1 \in c .. Len(log) /\ x \in (from + 1) .. Len(log) /\ ~(x <= x - 1)
    BY <1>2, <1>17, <2>3
  <2>5. c \in f[x - 1].stored
    BY <2>3, <2>4
  <2>6. f[x].stored = f[x - 1].stored \cup Stores(under(x), x)
    <3>1. f[x] = ReplayOne(steps, from, f[x - 1], x)
      BY <2>4, <1>10
    <3>2. ReplayOne(steps, from, f[x - 1], x).stored = f[x - 1].stored \cup Stores(under(x), x)
      BY ReplayOneIs
    <3> QED
      BY <3>1, <3>2
  <2> QED
    BY <2>3, <2>5, <2>6
<1> QED
  BY <1>2, <1>9, <1>18

-----------------------------------------------------------------------------
(* The invariant holds at first, and every action keeps it.                *)

\* A step is about one device and takes it to no earlier epoch.
Onward(d) ==
    /\ Epoch(group[d].branch) <= Epoch(group'[d].branch)
    /\ \A e \in Devices \ {d} : group'[e] = group[e]

LEMMA GroupsWith ==
    ASSUME NEW l, NEW ds, NEW gs, GroupsOK(l, ds, gs), NEW d \in Devices,
           NEW g \in GroupRecord(l, DOMAIN ds), Sound(l, g)
    PROVE  GroupsOK(l, ds, [gs EXCEPT ![d] = g])
<1>1. [gs EXCEPT ![d] = g] \in [Devices -> GroupRecord(l, DOMAIN ds)]
  BY DEF GroupsOK
<1>2. \A e \in Devices : [gs EXCEPT ![d] = g][e] = IF e = d THEN g ELSE gs[e]
  BY DEF GroupsOK
<1>3. \A e \in Devices : Sound(l, [gs EXCEPT ![d] = g][e])
  BY <1>2 DEF GroupsOK
<1> QED
  BY <1>1, <1>3 DEF GroupsOK

LEMMA SeededOK ==
    ASSUME LogOK(log), DocsOK(log, docs), NEW a \in DOMAIN docs
    PROVE  Seeded(a) \in GroupRecord(log, DOMAIN docs) /\ Sound(log, Seeded(a))
<1>1. /\ docs[a].branch \in SUBSET (1 .. Len(log)) /\ docs[a].read \in SUBSET (1 .. Len(log))
      /\ docs[a].cursor \in 0 .. Len(log) /\ DocumentSound(log, docs[a]) /\ Len(log) \in Nat
  BY DEF DocsOK, GroupDocument, LogOK
<1>2. {docs[a].branch} \in SUBSET Branches
  BY <1>1 DEF Branches
<1>3. [address |-> a, cursor |-> docs[a].cursor] \in Sources(DOMAIN docs)
  BY <1>1 DEF Sources
<1>4. NoDecision \in Decisions
  BY DEF NoDecision, Decisions, Rules
<1>5. Seeded(a) \in GroupRecord(log, DOMAIN docs)
  BY <1>1, <1>2, <1>3, <1>4 DEF Seeded, GroupRecord, NoPoint
<1>6. /\ Seeded(a).branch = docs[a].branch /\ Seeded(a).read = docs[a].read
      /\ Seeded(a).fetch = docs[a].cursor /\ Seeded(a).point = {}
  BY DEF Seeded, NoPoint
<1>7. Sound(log, Seeded(a))
  BY <1>1, <1>6 DEF Sound, DocumentSound, Line
<1> QED
  BY <1>5, <1>7

LEMMA InvInit == Init => DocumentsInv
<1> SUFFICES ASSUME Init PROVE DocumentsInv
  OBVIOUS
<1>1. LogOK(log) /\ ChainOK(log, chain) /\ Len(log) = 0
  BY EmptySeq DEF Init, LogOK, ChainOK, Line
<1>2. DOMAIN docs = {1} /\ docs[1] = Founding
  BY DEF Init
<1>3. DocsOK(log, docs)
  <2>1. 1 \in Addresses
    BY DocumentsAssumption DEF Addresses
  <2>2. Founding \in GroupDocument(log, {1})
    BY <1>1 DEF Founding, Document, GroupDocument
  <2>3. DocumentSound(log, Founding)
    BY DEF Founding, Document, DocumentSound, Line, Within
  <2>4. docs \in [{1} -> GroupDocument(log, {1})]
    BY <2>2 DEF Init
  <2> QED
    BY <1>2, <2>1, <2>3, <2>4 DEF DocsOK
<1>4. GroupsOK(log, docs, group)
  <2>1. Seeded(1) \in GroupRecord(log, DOMAIN docs) /\ Sound(log, Seeded(1))
    BY <1>1, <1>2, <1>3, SeededOK
  <2>2. group = [d \in Devices |-> Seeded(1)]
    BY DEF Init
  <2> QED
    BY <2>1, <2>2 DEF GroupsOK
<1>5. WorkOK(docs, working)
  BY DEF Init, WorkOK, Readings, Idle
<1>6. lastTip \in [Devices -> {0} \cup DOMAIN docs] /\ strayed \in [Devices -> BOOLEAN]
  BY <1>2 DEF Init
<1> QED
  BY <1>1, <1>3, <1>4, <1>5, <1>6 DEF DocumentsInv

LEMMA OthersPostKeeps == DocumentsInv /\ OthersPost => DocumentsInv'
<1> SUFFICES ASSUME DocumentsInv, OthersPost PROVE DocumentsInv'
  OBVIOUS
<1>1. PICK commit \in BOOLEAN, base \in Followed : Posts(Others, commit, base)
  BY DEF OthersPost
<1>2. base \subseteq 1 .. Len(log)
  BY DEF Followed, DocumentsInv, ChainOK, Line
<1>3. LogOK(log') /\ Grows(log, log') /\ ChainOK(log', chain')
  BY <1>1, <1>2, PostsStays
<1>4. DocsOK(log', docs) /\ GroupsOK(log', docs, group)
  BY <1>3, DocsStay, GroupsStay DEF DocumentsInv
<1> QED
  BY <1>3, <1>4 DEF DocumentsInv, OthersPost

LEMMA NotedOK ==
    ASSUME NEW held \in SUBSET Branches, NEW b \in Branches
    PROVE  NoteFingerprint(held, b) \in SUBSET Branches
BY DEF NoteFingerprint

LEMMA StrayedTyped ==
    ASSUME strayed \in [Devices -> BOOLEAN], NEW d \in Devices, NEW misled,
           strayed' = [strayed EXCEPT ![d] = strayed[d] \/ misled]
    PROVE  strayed' \in [Devices -> BOOLEAN]
<1>1. (strayed[d] \/ misled) \in BOOLEAN
  OBVIOUS
<1> QED
  BY <1>1

LEMMA CommitKeeps ==
    ASSUME DocumentsInv, NEW d \in Devices, Commit(d)
    PROVE  DocumentsInv' /\ Onward(d)
<1> DEFINE g == group[d]
           next == g.branch \cup {Len(log) + 1}
           new == [g EXCEPT
                     !.race = Verdict(g), !.branch = next, !.read = {},
                     !.held = NoteFingerprint(NoteFingerprint(g.held, g.branch), next),
                     !.point = next, !.published = FALSE,
                     !.pending = g.pending \cup {Len(log) + 1}]
<1>1. /\ LogOK(log) /\ Len(log) \in Nat /\ g \in GroupRecord(log, DOMAIN docs)
      /\ Sound(log, g) /\ GroupsOK(log, docs, group)
  BY DEF DocumentsInv, LogOK, GroupsOK
<1>2. Posts(d, TRUE, g.branch) /\ g.branch \subseteq 1 .. Len(log)
  BY <1>1 DEF Commit, GroupRecord
<1>3. /\ LogOK(log') /\ Grows(log, log') /\ ChainOK(log', chain')
      /\ Len(log') = Len(log) + 1
      /\ log'[Len(log) + 1] = [by |-> d, commit |-> TRUE, base |-> g.branch]
  BY <1>2, PostsStays
<1>4. DocsOK(log', docs) /\ GroupsOK(log', docs, group)
  BY <1>1, <1>3, DocsStay, GroupsStay DEF DocumentsInv
<1>5. g \in GroupRecord(log', DOMAIN docs)
  BY <1>4 DEF GroupsOK
<1>6. Line(log', next)
  <2>1. Line(log', g.branch)
    BY <1>4 DEF GroupsOK, Sound
  <2>2. Len(log) + 1 \in 1 .. Len(log')
    BY <1>1, <1>3
  <2>3. log'[Len(log) + 1].commit /\ log'[Len(log) + 1].base = g.branch
    BY <1>3
  <2> HIDE DEF g
  <2> QED
    BY <1>3, <2>1, <2>2, <2>3, LineGoesOn
<1>7. next \in SUBSET (1 .. Len(log')) /\ next \in Branches /\ g.branch \in Branches
  BY <1>1, <1>2, <1>6 DEF Line, Branches
<1>8. NoteFingerprint(NoteFingerprint(g.held, g.branch), next) \in SUBSET Branches
  BY <1>5, <1>7, NotedOK DEF GroupRecord
<1>9. g.pending \cup {Len(log) + 1} \in SUBSET (1 .. Len(log'))
  BY <1>1, <1>3, <1>5 DEF GroupRecord
<1>10. Verdict(g) \in {"none", "live", "dead"}
  BY DEF Verdict
<1>11. group' = [group EXCEPT ![d] = new]
  BY DEF Commit
<1> HIDE DEF next
<1>12. /\ new \in GroupRecord(log', DOMAIN docs) /\ new.branch = next /\ new.read = {}
       /\ new.point = next
  BY <1>5, <1>7, <1>8, <1>9, <1>10 DEF GroupRecord
<1>13. Epoch(g.branch) <= Epoch(next)
  BY <1>1, <1>2, EpochGrows DEF next
<1> HIDE DEF new
<1>14. group'[d] = new /\ \A e \in Devices \ {d} : group'[e] = group[e]
  BY <1>1, <1>11 DEF GroupsOK
<1>15. Onward(d)
  BY <1>12, <1>13, <1>14 DEF Onward
<1> HIDE DEF g
<1>16. Sound(log', new)
  BY <1>6, <1>12 DEF Sound, Within
<1>17. GroupsOK(log', docs, group')
  BY <1>4, <1>11, <1>12, <1>16, GroupsWith
<1>18. strayed' \in [Devices -> BOOLEAN]
  <2> DEFINE misled == Verdict(group[d]) = "live" /\ ~(group[d].branch \subseteq chain)
  <2>1. strayed' = [strayed EXCEPT ![d] = strayed[d] \/ misled]
    BY Zenon DEF Commit
  <2> HIDE DEF misled
  <2> QED
    BY <2>1, StrayedTyped DEF DocumentsInv
<1> QED
  BY <1>3, <1>4, <1>15, <1>17, <1>18 DEF DocumentsInv, Commit

LEMMA SyncKeeps ==
    ASSUME DocumentsInv, NEW d \in Devices, Sync(d)
    PROVE  DocumentsInv' /\ Onward(d)
<1> DEFINE g == group[d]
           c == g.fetch + 1
<1>1. /\ LogOK(log) /\ g \in GroupRecord(log, DOMAIN docs) /\ Sound(log, g)
      /\ GroupsOK(log, docs, group)
  BY DEF DocumentsInv, GroupsOK
<1>2. c \in 1 .. Len(log) /\ g.fetch < c
  BY <1>1 DEF Sync, Cursors, GroupRecord
<1>3. group' = [group EXCEPT ![d] = Ingested(g, c)]
  BY DEF Sync
<1>4. /\ Ingested(g, c) \in GroupRecord(log, DOMAIN docs) /\ Sound(log, Ingested(g, c))
      /\ Epoch(g.branch) <= Epoch(Ingested(g, c).branch)
  <2> HIDE DEF c, g
  <2> QED
    BY <1>1, <1>2, IngestedOK
<1> HIDE DEF c
<1>7. group'[d] = Ingested(g, c) /\ \A e \in Devices \ {d} : group'[e] = group[e]
  BY <1>1, <1>3 DEF GroupsOK
<1>8. Onward(d)
  BY <1>4, <1>7 DEF Onward
<1> HIDE DEF g
<1>5. GroupsOK(log, docs, group')
  BY <1>1, <1>3, <1>4, GroupsWith
<1>6. strayed' \in [Devices -> BOOLEAN]
  BY StrayedTyped DEF Sync, DocumentsInv
<1> QED
  BY <1>5, <1>6, <1>8 DEF DocumentsInv, Sync

\* What a session publishes is behind the cursor it is published with.
LEMMA PublishedOK ==
    ASSUME LogOK(log), NEW as, NEW g \in GroupRecord(log, as), Sound(log, g)
    PROVE  /\ PublishCursor(g) \in 0 .. Len(log)
           /\ Within(g.branch, PublishCursor(g)) /\ Within(g.read, PublishCursor(g))
           /\ g.point # {} => /\ CommitCursor(g.point) \in 0 .. Len(log)
                              /\ Within(g.point, CommitCursor(g.point))
<1>1. /\ Len(log) \in Nat /\ g.fetch \in 0 .. Len(log) /\ g.point \subseteq 1 .. Len(log)
      /\ g.branch \subseteq 1 .. Len(log) /\ g.read \subseteq 1 .. Len(log)
  BY DEF LogOK, GroupRecord
<1>2. g.point # {} => /\ CommitCursor(g.point) \in 1 .. Len(log)
                      /\ Within(g.point, CommitCursor(g.point))
  BY <1>1, CommitCursorIsLast DEF Within
<1>3. /\ PublishCursor(g) \in 0 .. Len(log) /\ g.fetch <= PublishCursor(g)
      /\ AtCommitPoint(g) => CommitCursor(g.point) <= PublishCursor(g)
  <2>1. CASE AtCommitPoint(g)
    <3>1. CommitCursor(g.point) \in 1 .. Len(log)
      BY <2>1, <1>2 DEF AtCommitPoint, NoPoint
    <3> QED
      BY <2>1, <3>1, <1>1 DEF PublishCursor, Larger
  <2>2. CASE ~AtCommitPoint(g)
    BY <2>2, <1>1 DEF PublishCursor
  <2> QED
    BY <2>1, <2>2
<1>4. Within(g.read, PublishCursor(g))
  BY <1>1, <1>3 DEF Sound, Within
<1>5. Within(g.branch, PublishCursor(g))
  <2>1. CASE Within(g.branch, g.fetch)
    BY <2>1, <1>1, <1>3 DEF Within
  <2>2. CASE g.branch = g.point /\ g.branch # {}
    <3>1. AtCommitPoint(g)
      BY <2>2 DEF AtCommitPoint, NoPoint
    <3> QED
      BY <2>2, <3>1, <1>1, <1>2, <1>3 DEF Within
  <2>3. CASE g.branch = {}
    BY <2>3 DEF Within
  <2> QED
    BY <2>1, <2>2, <2>3 DEF Sound
<1> QED
  BY <1>1, <1>2, <1>3, <1>4, <1>5

LEMMA DocumentOK ==
    ASSUME LogOK(log), NEW as, NEW branch \in SUBSET (1 .. Len(log)),
           NEW read \in SUBSET (1 .. Len(log)), NEW cursor \in 0 .. Len(log),
           NEW prev \in {0} \cup as, Line(log, branch),
           Within(branch, cursor), Within(read, cursor)
    PROVE  /\ Document(branch, read, cursor, prev) \in GroupDocument(log, as)
           /\ DocumentSound(log, Document(branch, read, cursor, prev))
BY DEF Document, GroupDocument, DocumentSound

LEMMA PublishKeeps ==
    ASSUME DocumentsInv, NEW d \in Devices, NEW given \in {0, group[d].applied.address},
           Publish(d, given)
    PROVE  /\ DocumentsInv' /\ DOMAIN docs \subseteq DOMAIN docs'
           /\ \A x \in DOMAIN docs : docs'[x] = docs[x]
           /\ Onward(d)
<1> DEFINE g == group[d]
           root == IF given # 0 THEN given ELSE lastTip[d]
           live(prev) == Document(g.branch, g.read, PublishCursor(g), prev)
           point == Document(g.point, {}, CommitCursor(g.point), root)
           unused == Addresses \ DOMAIN docs
<1>1. /\ LogOK(log) /\ Len(log) \in Nat /\ g \in GroupRecord(log, DOMAIN docs)
      /\ Sound(log, g) /\ GroupsOK(log, docs, group) /\ DocsOK(log, docs)
  BY DEF DocumentsInv, LogOK, GroupsOK
<1>2. root \in {0} \cup DOMAIN docs
  BY <1>1 DEF DocumentsInv, GroupRecord, Sources
<1>3. PICK a \in unused :
         /\ IF PointDue(g)
            THEN \E p \in unused \ {a} :
                    docs' = [x \in DOMAIN docs \cup {a, p} |->
                               CASE x = a -> live(p)
                                 [] x = p -> point
                                 [] OTHER -> docs[x]]
            ELSE docs' = [x \in DOMAIN docs \cup {a} |->
                            IF x = a THEN live(root) ELSE docs[x]]
         /\ lastTip' = [lastTip EXCEPT ![d] = a]
         /\ group' = [group EXCEPT
               ![d].published = @ \/ AtCommitPoint(g),
               ![d].applied = [address |-> a, cursor |-> PublishCursor(g)]]
  BY Zenon DEF Publish
<1>4. /\ PublishCursor(g) \in 0 .. Len(log) /\ Within(g.branch, PublishCursor(g))
      /\ Within(g.read, PublishCursor(g))
      /\ g.point # {} => /\ CommitCursor(g.point) \in 0 .. Len(log)
                         /\ Within(g.point, CommitCursor(g.point))
  BY <1>1, PublishedOK
<1>5. /\ g.branch \in SUBSET (1 .. Len(log)) /\ g.read \in SUBSET (1 .. Len(log))
      /\ g.point \in SUBSET (1 .. Len(log)) /\ Line(log, g.branch) /\ Line(log, g.point)
  BY <1>1 DEF GroupRecord, Sound
<1>6. \A as : \A prev \in {0} \cup as :
         live(prev) \in GroupDocument(log, as) /\ DocumentSound(log, live(prev))
  BY <1>1, <1>4, <1>5, DocumentOK
<1>7. ASSUME PointDue(g)
      PROVE  /\ \A as : root \in {0} \cup as => point \in GroupDocument(log, as)
             /\ DocumentSound(log, point)
  <2>1. g.point # {}
    BY <1>7 DEF PointDue, AtCommitPoint, NoPoint
  <2>2. Within({}, CommitCursor(g.point)) /\ {} \in SUBSET (1 .. Len(log))
    BY DEF Within
  <2> HIDE DEF g, root
  <2> QED
    BY <1>1, <1>2, <1>4, <1>5, <2>1, <2>2, DocumentOK
<1>8. /\ DOMAIN docs \subseteq Addresses
      /\ \A x \in DOMAIN docs : docs[x].prev \in {0} \cup DOMAIN docs
      /\ \A x \in DOMAIN docs : DocumentSound(log, docs[x])
      /\ \A as : DOMAIN docs \subseteq as =>
            \A x \in DOMAIN docs : docs[x] \in GroupDocument(log, as)
  BY <1>1 DEF DocsOK, GroupDocument
<1> HIDE DEF live, point, g, root
<1>9. /\ DOMAIN docs \subseteq DOMAIN docs' /\ DocsOK(log, docs') /\ a \in DOMAIN docs'
      /\ \A x \in DOMAIN docs : docs'[x] = docs[x]
  <2>1. CASE PointDue(g)
    <3>1. PICK p \in unused \ {a} :
             docs' = [x \in DOMAIN docs \cup {a, p} |->
                        CASE x = a -> live(p)
                          [] x = p -> point
                          [] OTHER -> docs[x]]
      BY <1>3, <2>1
    <3> DEFINE as == DOMAIN docs \cup {a, p}
    <3>2. /\ DOMAIN docs' = as /\ docs'[a] = live(p) /\ docs'[p] = point
          /\ \A x \in DOMAIN docs : docs'[x] = docs[x]
          /\ as \subseteq Addresses
      BY <3>1, <1>8
    <3>3. \A x \in as : docs'[x] \in GroupDocument(log, as) /\ DocumentSound(log, docs'[x])
      <4>1. live(p) \in GroupDocument(log, as) /\ DocumentSound(log, live(p))
        BY <1>6
      <4>2. point \in GroupDocument(log, as) /\ DocumentSound(log, point)
        BY <1>2, <1>7, <2>1
      <4>3. \A x \in DOMAIN docs : docs[x] \in GroupDocument(log, as) /\ DocumentSound(log, docs[x])
        BY <1>8
      <4> QED
        BY <3>2, <4>1, <4>2, <4>3
    <3>4. docs' \in [DOMAIN docs' -> GroupDocument(log, DOMAIN docs')]
      BY <3>1, <3>2, <3>3
    <3> QED
      BY <3>2, <3>3, <3>4 DEF DocsOK
  <2>2. CASE ~PointDue(g)
    <3>1. docs' = [x \in DOMAIN docs \cup {a} |-> IF x = a THEN live(root) ELSE docs[x]]
      BY <1>3, <2>2
    <3> DEFINE as == DOMAIN docs \cup {a}
    <3>2. /\ DOMAIN docs' = as /\ docs'[a] = live(root)
          /\ \A x \in DOMAIN docs : docs'[x] = docs[x]
          /\ as \subseteq Addresses
      BY <3>1, <1>8
    <3>3. \A x \in as : docs'[x] \in GroupDocument(log, as) /\ DocumentSound(log, docs'[x])
      <4>1. live(root) \in GroupDocument(log, as) /\ DocumentSound(log, live(root))
        BY <1>2, <1>6
      <4>2. \A x \in DOMAIN docs : docs[x] \in GroupDocument(log, as) /\ DocumentSound(log, docs[x])
        BY <1>8
      <4> QED
        BY <3>2, <4>1, <4>2
    <3>4. docs' \in [DOMAIN docs' -> GroupDocument(log, DOMAIN docs')]
      BY <3>1, <3>2, <3>3
    <3> QED
      BY <3>2, <3>3, <3>4 DEF DocsOK
  <2> QED
    BY <2>1, <2>2
<1>10. GroupsOK(log, docs', group)
  <2>1. Grows(log, log)
    BY <1>1 DEF Grows
  <2> QED
    BY <1>1, <1>9, <2>1, GroupsStay
<1>11. GroupsOK(log, docs', group') /\ Onward(d)
  <2> DEFINE new == [group[d] EXCEPT
                       !.published = group[d].published \/ AtCommitPoint(g),
                       !.applied = [address |-> a, cursor |-> PublishCursor(g)]]
  <2>1. group' = [group EXCEPT ![d] = new]
    BY <1>1, <1>3 DEF GroupsOK, GroupRecord
  <2>2. [address |-> a, cursor |-> PublishCursor(g)] \in Sources(DOMAIN docs')
    BY <1>1, <1>4, <1>9 DEF Sources
  <2>3. (group[d].published \/ AtCommitPoint(g)) \in BOOLEAN
    OBVIOUS
  <2>4. group[d] \in GroupRecord(log, DOMAIN docs') /\ Sound(log, group[d])
    BY <1>10 DEF GroupsOK
  <2>5. /\ new \in GroupRecord(log, DOMAIN docs') /\ new.branch = group[d].branch
        /\ new.read = group[d].read /\ new.fetch = group[d].fetch
        /\ new.point = group[d].point
    BY <2>2, <2>3, <2>4 DEF GroupRecord
  <2> HIDE DEF new
  <2>6. Sound(log, new)
    BY <2>4, <2>5 DEF Sound
  <2>7. group'[d] = new /\ \A e \in Devices \ {d} : group'[e] = group[e]
    BY <1>1, <2>1 DEF GroupsOK
  <2>8. Epoch(group[d].branch) \in Nat
    BY <1>1, <2>4, EpochIsNat DEF GroupRecord
  <2>9. Onward(d)
    BY <2>5, <2>7, <2>8 DEF Onward
  <2> QED
    BY <1>10, <2>1, <2>5, <2>6, <2>9, GroupsWith
<1>12. WorkOK(docs', working)
  BY <1>9 DEF DocumentsInv, WorkOK, Readings
<1>13. lastTip' \in [Devices -> {0} \cup DOMAIN docs']
  BY <1>3, <1>9 DEF DocumentsInv
<1> QED
  BY <1>9, <1>11, <1>12, <1>13 DEF DocumentsInv, Publish

\* The epoch before the fork, of a document that is not an older one.
LEMMA ForkBaseIsInt ==
    ASSUME LogOK(log), DocsOK(log, docs), NEW a \in DOMAIN docs,
           NEW g, Epoch(g.branch) \in Nat
    PROVE  ForkBase(g, a) \subseteq Int
<1>1. \A x \in DOMAIN docs : EpochAt(x) \in Nat
  <2>1. Len(log) \in Nat /\ \A x \in DOMAIN docs : docs[x].branch \subseteq 1 .. Len(log)
    BY DEF LogOK, DocsOK, GroupDocument
  <2> QED
    BY <2>1, EpochIsNat DEF EpochAt
<1>2. Meets(g, a).epoch \in Nat
  <2> DEFINE path == Path(a)
             hits == {k \in 1 .. MaxDocs :
                        /\ \A j \in 1 .. k : path[j] # 0
                        /\ EpochAt(path[k]) <= Epoch(g.branch)
                        /\ docs[path[k]].branch \in g.held}
  <2>1. CASE hits = {}
    BY <2>1 DEF Meets
  <2>2. CASE hits # {}
    <3>1. hits \subseteq Nat /\ \A k \in hits : k \in 0 .. MaxDocs /\ path[k] # 0
      BY DocumentsAssumption
    <3>2. First(hits) \in hits
      <4> HIDE DEF hits
      <4> QED
        BY <2>2, <3>1, FirstIsMember
    <3>3. path[First(hits)] \in DOMAIN docs
      BY <3>1, <3>2, PathOK
    <3>4. Meets(g, a).epoch = EpochAt(path[First(hits)])
      BY <2>2 DEF Meets
    <3> QED
      BY <1>1, <3>3, <3>4
  <2> QED
    BY <2>1, <2>2
<1> QED
  BY <1>2 DEF ForkBase

LEMMA ReconcileBeginsKeeps ==
    ASSUME DocumentsInv, NEW d \in Devices, NEW a \in DOMAIN docs, ReconcileBegins(d, a)
    PROVE  /\ DocumentsInv' /\ Onward(d) /\ group'[d].branch = group[d].branch
           /\ \/ working' = working
              \/ \E base, since :
                    /\ since <= EpochAt(a)
                    /\ working' = [working EXCEPT
                          ![d] = [address |-> a, base |-> base, since |-> since]]
<1> DEFINE g == [group[d] EXCEPT !.held = NoteFingerprint(@, group[d].branch)]
           new == IF docs[a].branch = g.branch THEN Matched(g, a) ELSE g
<1>1. /\ LogOK(log) /\ Len(log) \in Nat /\ group[d] \in GroupRecord(log, DOMAIN docs)
      /\ Sound(log, group[d]) /\ GroupsOK(log, docs, group) /\ DocsOK(log, docs)
  BY DEF DocumentsInv, LogOK, GroupsOK
<1>2. NoteFingerprint(group[d].held, group[d].branch) \in SUBSET Branches
  <2>1. group[d].held \in SUBSET Branches /\ group[d].branch \in Branches
    BY <1>1 DEF GroupRecord, Branches
  <2> QED
    BY <2>1, NotedOK
<1>3. /\ g \in GroupRecord(log, DOMAIN docs) /\ g.branch = group[d].branch
      /\ g.read = group[d].read /\ g.fetch = group[d].fetch /\ g.point = group[d].point
  BY <1>1, <1>2 DEF GroupRecord
<1>4. group' = [group EXCEPT ![d] = new]
  BY DEF ReconcileBegins
<1> HIDE DEF g
<1>5. /\ new \in GroupRecord(log, DOMAIN docs) /\ new.branch = group[d].branch
      /\ new.read = group[d].read /\ new.fetch = group[d].fetch /\ new.point = group[d].point
  <2>1. [address |-> a, cursor |-> docs[a].cursor] \in Sources(DOMAIN docs)
    BY <1>1 DEF Sources, DocsOK, GroupDocument
  <2>2. /\ Matched(g, a) \in GroupRecord(log, DOMAIN docs) /\ Matched(g, a).branch = g.branch
        /\ Matched(g, a).read = g.read /\ Matched(g, a).fetch = g.fetch
        /\ Matched(g, a).point = g.point
    BY <1>3, <2>1 DEF Matched, GroupRecord
  <2> QED
    BY <1>3, <2>2
<1> HIDE DEF new
<1>6. Sound(log, new)
  BY <1>1, <1>5 DEF Sound
<1>7. GroupsOK(log, docs, group')
  BY <1>1, <1>4, <1>5, <1>6, GroupsWith
<1>8. WorkOK(docs, working')
  <2>1. CASE working' = working
    BY <2>1 DEF DocumentsInv, WorkOK, Readings
  <2>2. CASE working' = [working EXCEPT
                ![d] = [address |-> a, base |-> ForkBase(g, a), since |-> Epoch(g.branch)]]
    <3>1. Epoch(g.branch) \in Nat
      BY <1>1, <1>3, EpochIsNat DEF GroupRecord
    <3>2. ForkBase(g, a) \in SUBSET Int
      BY <1>1, <3>1, ForkBaseIsInt
    <3>3. [address |-> a, base |-> ForkBase(g, a), since |-> Epoch(g.branch)]
             \in Readings(DOMAIN docs)
      BY <3>1, <3>2 DEF Readings
    <3> QED
      BY <2>2, <3>3 DEF DocumentsInv, WorkOK, Readings
  <2> QED
    BY <2>1, <2>2 DEF ReconcileBegins, g
<1>9. /\ group'[d] = new /\ \A e \in Devices \ {d} : group'[e] = group[e]
      /\ Epoch(group[d].branch) \in Nat /\ EpochAt(a) \in Nat
  <2>1. docs[a].branch \subseteq 1 .. Len(log) /\ group[d].branch \subseteq 1 .. Len(log)
    BY <1>1 DEF DocsOK, GroupDocument, GroupRecord
  <2> QED
    BY <1>1, <1>4, <2>1, EpochIsNat DEF GroupsOK, EpochAt
<1>10. Onward(d) /\ group'[d].branch = group[d].branch
  BY <1>5, <1>9 DEF Onward
<1>11. \/ working' = working
       \/ /\ ~Older(g, a)
          /\ working' = [working EXCEPT
                ![d] = [address |-> a, base |-> ForkBase(g, a), since |-> Epoch(g.branch)]]
  BY DEF ReconcileBegins, g
<1>12. ~Older(g, a) => Epoch(g.branch) <= EpochAt(a)
  BY <1>3, <1>9 DEF Older
<1> QED
  BY <1>7, <1>8, <1>10, <1>11, <1>12 DEF DocumentsInv, ReconcileBegins

LEMMA AdoptedOK ==
    ASSUME LogOK(log), DocsOK(log, docs), NEW a \in DOMAIN docs,
           NEW g \in GroupRecord(log, DOMAIN docs)
    PROVE  /\ Adopted(g, a) \in GroupRecord(log, DOMAIN docs) /\ Sound(log, Adopted(g, a))
           /\ Adopted(g, a).branch = docs[a].branch
<1>1. /\ docs[a].branch \in SUBSET (1 .. Len(log)) /\ docs[a].read \in SUBSET (1 .. Len(log))
      /\ docs[a].cursor \in 0 .. Len(log) /\ DocumentSound(log, docs[a]) /\ Len(log) \in Nat
  BY DEF DocsOK, GroupDocument, LogOK
<1>2. NoteFingerprint(g.held, docs[a].branch) \in SUBSET Branches
  <2>1. g.held \in SUBSET Branches /\ docs[a].branch \in Branches
    BY <1>1 DEF GroupRecord, Branches
  <2> QED
    BY <2>1, NotedOK
<1>3. [address |-> a, cursor |-> docs[a].cursor] \in Sources(DOMAIN docs)
  BY <1>1 DEF Sources
<1>4. /\ Larger(g.fetch, docs[a].cursor) \in 0 .. Len(log)
      /\ docs[a].cursor <= Larger(g.fetch, docs[a].cursor)
  BY <1>1 DEF Larger, GroupRecord
<1> DEFINE fetch == Larger(g.fetch, docs[a].cursor)
<1> HIDE DEF fetch
<1>5. /\ Adopted(g, a) \in GroupRecord(log, DOMAIN docs)
      /\ Adopted(g, a).branch = docs[a].branch /\ Adopted(g, a).read = docs[a].read
      /\ Adopted(g, a).fetch = fetch /\ Adopted(g, a).point = {}
  BY <1>1, <1>2, <1>3, <1>4 DEF Adopted, GroupRecord, NoPoint, fetch
<1>6. Within(docs[a].branch, fetch) /\ Within(docs[a].read, fetch)
  BY <1>1, <1>4 DEF DocumentSound, Within, fetch
<1>7. Sound(log, Adopted(g, a))
  BY <1>1, <1>5, <1>6 DEF Sound, DocumentSound, Line
<1> QED
  BY <1>5, <1>7

LEMMA DecisionRules ==
    ASSUME NEW g, NEW base, NEW a, g.decision.by \in Rules
    PROVE  Decision(g, base, a).by \in Rules
BY DEF Decision, Rules

LEMMA ResolvedOK ==
    ASSUME LogOK(log), DocsOK(log, docs), NEW a \in DOMAIN docs, NEW base \in Int,
           NEW g \in GroupRecord(log, DOMAIN docs), Sound(log, g),
           NEW verdict, verdict.by \in Rules
    PROVE  LET new == Resolved(g, base, a, verdict) IN
           /\ new \in GroupRecord(log, DOMAIN docs) /\ Sound(log, new)
           /\ new.branch = IF verdict.adopt THEN docs[a].branch ELSE g.branch
           /\ new.decision = [epoch |-> base + 1, by |-> verdict.by,
                              branch |-> IF verdict.adopt THEN docs[a].branch ELSE g.branch]
<1> DEFINE side == IF verdict.adopt THEN Adopted(g, a) ELSE g
           chosen == IF verdict.adopt THEN docs[a].branch ELSE g.branch
           decided == [epoch |-> base + 1, by |-> verdict.by, branch |-> chosen]
           new == Resolved(g, base, a, verdict)
<1>1. /\ side \in GroupRecord(log, DOMAIN docs) /\ Sound(log, side) /\ side.branch = chosen
  BY AdoptedOK
<1>2. chosen \in SUBSET Nat
  <2>1. docs[a].branch \in SUBSET (1 .. Len(log)) /\ g.branch \in SUBSET (1 .. Len(log))
        /\ Len(log) \in Nat
    BY DEF DocsOK, GroupDocument, GroupRecord, LogOK
  <2> QED
    BY <2>1
<1> HIDE DEF chosen
<1>3. decided \in Decisions
  BY <1>2 DEF Decisions
<1>4. new = [side EXCEPT !.decision = decided]
  BY DEF Resolved, chosen
<1> HIDE DEF side, decided, new
<1>5. /\ new \in GroupRecord(log, DOMAIN docs) /\ new.branch = side.branch
      /\ new.read = side.read /\ new.fetch = side.fetch /\ new.point = side.point
      /\ new.decision = decided
  BY <1>1, <1>3, <1>4 DEF GroupRecord
<1>6. Sound(log, new)
  BY <1>1, <1>5 DEF Sound
<1> QED
  BY <1>1, <1>5, <1>6 DEF new, decided, chosen

LEMMA ReconcileEndsKeeps ==
    ASSUME DocumentsInv, NEW d \in Devices, ReconcileEnds(d)
    PROVE  DocumentsInv'
<1> DEFINE a == working[d].address
           g == group[d]
<1>1. /\ LogOK(log) /\ g \in GroupRecord(log, DOMAIN docs) /\ Sound(log, g)
      /\ GroupsOK(log, docs, group) /\ DocsOK(log, docs) /\ a \in DOMAIN docs
      /\ working[d].base \subseteq Int
  BY DEF DocumentsInv, GroupsOK, WorkOK, Readings, ReconcileEnds
<1>2. GroupsOK(log, docs, group')
  <2>1. CASE group' = [group EXCEPT ![d] = Adopted(g, a)]
    <3>1. Adopted(g, a) \in GroupRecord(log, DOMAIN docs) /\ Sound(log, Adopted(g, a))
      BY <1>1, AdoptedOK
    <3> HIDE DEF a, g
    <3> QED
      BY <1>1, <2>1, <3>1, GroupsWith
  <2>2. ASSUME NEW base \in working[d].base,
               group' = [group EXCEPT ![d] = Resolved(g, base, a, Decision(g, base, a))]
        PROVE  GroupsOK(log, docs, group')
    <3>1. Decision(g, base, a).by \in Rules
      <4>1. g.decision.by \in Rules
        BY <1>1 DEF GroupRecord, Decisions
      <4> QED
        BY <4>1, DecisionRules
    <3> DEFINE new == Resolved(g, base, a, Decision(g, base, a))
    <3>2. base \in Int
      BY <1>1
    <3> HIDE DEF a, g
    <3>3. new \in GroupRecord(log, DOMAIN docs) /\ Sound(log, new)
      BY <1>1, <3>1, <3>2, ResolvedOK
    <3> QED
      BY <1>1, <2>2, <3>3, GroupsWith
  <2> QED
    BY <2>1, <2>2 DEF ReconcileEnds
<1>3. WorkOK(docs, working')
  BY DEF DocumentsInv, WorkOK, Readings, ReconcileEnds, Idle
<1>4. PICK misled : strayed' = [strayed EXCEPT ![d] = strayed[d] \/ misled]
  BY Zenon DEF ReconcileEnds
<1>5. strayed' \in [Devices -> BOOLEAN]
  BY <1>4, StrayedTyped DEF DocumentsInv
<1> QED
  BY <1>2, <1>3, <1>5 DEF DocumentsInv, ReconcileEnds

LEMMA CatchUpKeeps ==
    ASSUME DocumentsInv, NEW d \in Devices, NEW a \in DOMAIN docs, CatchUp(d, a)
    PROVE  DocumentsInv' /\ Onward(d)
<1> DEFINE after == Replay(d, Steps(d, a))
<1>1. /\ LogOK(log) /\ group[d] \in GroupRecord(log, DOMAIN docs) /\ Sound(log, group[d])
      /\ GroupsOK(log, docs, group) /\ DocsOK(log, docs)
  BY DEF DocumentsInv, GroupsOK
<1>2. /\ Steps(d, a) \subseteq DOMAIN docs
      /\ \A s \in Steps(d, a) : EpochAt(s) >= Epoch(group[d].branch)
  <2>1. Epoch(group[d].branch) \in Nat /\ \A x \in DOMAIN docs : EpochAt(x) \in Nat
    <3>1. /\ Len(log) \in Nat /\ \A x \in DOMAIN docs : docs[x].branch \subseteq 1 .. Len(log)
          /\ group[d].branch \subseteq 1 .. Len(log)
      BY <1>1 DEF LogOK, DocsOK, GroupDocument, GroupRecord
    <3> QED
      BY <3>1, EpochIsNat DEF EpochAt
  <2>2. /\ Steps(d, a) \subseteq Walked(d, a) /\ Walked(d, a) \subseteq DOMAIN docs
        /\ \A s \in Walked(d, a) : EpochAt(s) > Epoch(group[d].branch)
    BY <1>1, StepsOK, WalkedOK
  <2> QED
    BY <2>1, <2>2
<1>3. /\ after.g \in GroupRecord(log, DOMAIN docs) /\ Sound(log, after.g)
      /\ Epoch(group[d].branch) <= Epoch(after.g.branch) /\ after.strayed \in BOOLEAN
  BY <1>1, <1>2, ReplayOK
<1>4. /\ group' = [group EXCEPT ![d] = after.g]
      /\ strayed' = [strayed EXCEPT ![d] = @ \/ after.strayed]
  BY DEF CatchUp
<1> HIDE DEF after
<1>5. GroupsOK(log, docs, group')
  BY <1>1, <1>3, <1>4, GroupsWith
<1>6. strayed' \in [Devices -> BOOLEAN]
  <2>1. (strayed[d] \/ after.strayed) \in BOOLEAN
    OBVIOUS
  <2> QED
    BY <1>4, <2>1 DEF DocumentsInv
<1>7. DocumentsInv'
  BY <1>5, <1>6 DEF DocumentsInv, CatchUp
<1>8. group'[d] = after.g /\ \A e \in Devices \ {d} : group'[e] = group[e]
  BY <1>1, <1>4 DEF GroupsOK
<1> QED
  BY <1>3, <1>7, <1>8 DEF Onward

LEMMA InvNext == DocumentsInv /\ [Next]_vars => DocumentsInv'
<1> SUFFICES ASSUME DocumentsInv, [Next]_vars PROVE DocumentsInv'
  OBVIOUS
<1>1. CASE OthersPost
  BY <1>1, OthersPostKeeps
<1>2. ASSUME NEW d \in Devices, Commit(d) PROVE DocumentsInv'
  BY <1>2, CommitKeeps
<1>3. ASSUME NEW d \in Devices, Sync(d) PROVE DocumentsInv'
  BY <1>3, SyncKeeps
<1>4. ASSUME NEW d \in Devices, ReconcileEnds(d) PROVE DocumentsInv'
  BY <1>4, ReconcileEndsKeeps
<1>5. ASSUME NEW d \in Devices, NEW given \in {0, group[d].applied.address}, Publish(d, given)
      PROVE  DocumentsInv'
  BY <1>5, PublishKeeps
<1>6. ASSUME NEW d \in Devices, NEW a \in DOMAIN docs, ReconcileBegins(d, a)
      PROVE  DocumentsInv'
  BY <1>6, ReconcileBeginsKeeps
<1>7. ASSUME NEW d \in Devices, NEW a \in DOMAIN docs, CatchUp(d, a)
      PROVE  DocumentsInv'
  BY <1>7, CatchUpKeeps
<1>8. CASE UNCHANGED vars
  BY <1>8 DEF vars, DocumentsInv
<1> QED
  BY <1>1, <1>2, <1>3, <1>4, <1>5, <1>6, <1>7, <1>8 DEF Next

-----------------------------------------------------------------------------
(* The theorems.                                                           *)

\* Every state, of a session or in a document, is a line of Commits that its cursor
\* is behind, whatever the devices do and in whatever order.
THEOREM DocumentsInvariant == Spec => []DocumentsInv
<1> QED
  BY InvInit, InvNext, PTL DEF Spec

\* The variables of the log, the documents and the sessions keep their types.
THEOREM DocumentTypes == Spec => []TypeOK
<1>1. DocumentsInv => TypeOK
  <2> SUFFICES ASSUME DocumentsInv PROVE TypeOK
    OBVIOUS
  <2>1. \A c \in Cursors : /\ log[c].by \in Devices \cup {Others} /\ log[c].commit \in BOOLEAN
                           /\ log[c].base \subseteq 1 .. (c - 1)
    <3>1. \A c \in Cursors : log[c] \in Message
      BY DEF DocumentsInv, LogOK, Cursors
    <3> QED
      BY <3>1 DEF DocumentsInv, LogOK, Cursors, Message
  <2>2. chain \subseteq Cursors
    BY DEF DocumentsInv, ChainOK, Line, Cursors
  <2>3. \A a \in DOMAIN docs :
           /\ docs[a].branch \subseteq Cursors /\ docs[a].read \subseteq Cursors
           /\ docs[a].cursor \in 0 .. Len(log) /\ docs[a].prev \in {0} \cup DOMAIN docs
    BY DEF DocumentsInv, DocsOK, GroupDocument, Cursors
  <2>4. \A d \in Devices :
           /\ group[d].branch \subseteq Cursors /\ group[d].fetch \in 0 .. Len(log)
           /\ group[d].race \in {"none", "live", "dead"} /\ group[d].pending \subseteq Cursors
    BY DEF DocumentsInv, GroupsOK, GroupRecord, Cursors
  <2>5. \A d \in Devices : working[d].address \in {0} \cup DOMAIN docs /\ strayed[d] \in BOOLEAN
    BY DEF DocumentsInv, WorkOK, Readings
  <2> QED
    BY <2>1, <2>2, <2>3, <2>4, <2>5 DEF TypeOK
<1> QED
  BY <1>1, DocumentsInvariant, PTL

\* Catching up along one line of documents stores every message of the gap whose
\* keys some document of it carries.
THEOREM ChainsRecover == Spec => []CatchUpRecovers
<1>1. DocumentsInv => CatchUpRecovers
  BY Recovers DEF CatchUpRecovers
<1> QED
  BY <1>1, DocumentsInvariant, PTL

\* What a reconciliation leaves the session at: its own state or the document's.
LEMMA ReconcileEndsAt ==
    ASSUME DocumentsInv, NEW d \in Devices, ReconcileEnds(d)
    PROVE  /\ group'[d].branch \in {group[d].branch, docs[working[d].address].branch}
           /\ \A e \in Devices \ {d} : group'[e] = group[e]
<1> DEFINE a == working[d].address
           g == group[d]
<1>1. /\ LogOK(log) /\ DocsOK(log, docs) /\ a \in DOMAIN docs
      /\ g \in GroupRecord(log, DOMAIN docs) /\ Sound(log, g) /\ working[d].base \subseteq Int
      /\ GroupsOK(log, docs, group)
  BY DEF DocumentsInv, GroupsOK, WorkOK, Readings, ReconcileEnds
<1>2. CASE group' = [group EXCEPT ![d] = Adopted(g, a)]
  <2>1. Adopted(g, a).branch = docs[a].branch
    BY <1>1, AdoptedOK
  <2>2. group'[d] = Adopted(g, a) /\ \A e \in Devices \ {d} : group'[e] = group[e]
    BY <1>1, <1>2 DEF GroupsOK
  <2> QED
    BY <2>1, <2>2
<1>3. ASSUME NEW base \in working[d].base,
             group' = [group EXCEPT ![d] = Resolved(g, base, a, Decision(g, base, a))]
      PROVE  /\ group'[d].branch \in {group[d].branch, docs[working[d].address].branch}
             /\ \A e \in Devices \ {d} : group'[e] = group[e]
  <2>1. g.decision.by \in Rules /\ base \in Int
    BY <1>1 DEF GroupRecord, Decisions
  <2>2. Decision(g, base, a).by \in Rules
    BY <2>1, DecisionRules
  <2>3. Resolved(g, base, a, Decision(g, base, a)).branch \in {g.branch, docs[a].branch}
    <3> DEFINE verdict == Decision(g, base, a)
    <3> HIDE DEF a, g, verdict
    <3>1. verdict.by \in Rules
      BY <2>2 DEF verdict
    <3> DEFINE new == Resolved(g, base, a, verdict)
    <3>2. /\ new.branch = IF verdict.adopt THEN docs[a].branch ELSE g.branch
          /\ new.decision = [epoch |-> base + 1, by |-> verdict.by,
                             branch |-> IF verdict.adopt THEN docs[a].branch ELSE g.branch]
      BY <1>1, <2>1, <3>1, ResolvedOK
    <3> QED
      BY <3>2 DEF verdict
  <2>4. /\ group'[d] = Resolved(g, base, a, Decision(g, base, a))
        /\ \A e \in Devices \ {d} : group'[e] = group[e]
    BY <1>1, <1>3 DEF GroupsOK
  <2> QED
    BY <2>3, <2>4
<1> QED
  BY <1>2, <1>3 DEF ReconcileEnds

\* The document that a session reads is not older than the session was when it began,
\* whatever the operations of its group have done since.
NotOlder ==
    \A d \in Devices :
        working[d] # Idle => working[d].since <= EpochAt(working[d].address)

\* A session that goes back goes to the document it was reading, and not below the
\* epoch at which it began.
BackTo(d) ==
    Epoch(group'[d].branch) < Epoch(group[d].branch) =>
        /\ working[d] # Idle /\ working'[d] = Idle
        /\ group'[d].branch = docs[working[d].address].branch
        /\ working[d].since <= Epoch(group'[d].branch)

LEMMA NotOlderNext ==
    ASSUME DocumentsInv, DocumentsInv', NotOlder, Next
    PROVE  NotOlder' /\ \A d \in Devices : BackTo(d)
<1>1. /\ \A d \in Devices : Epoch(group[d].branch) \in Nat /\ Epoch(group'[d].branch) \in Nat
      /\ working \in [Devices -> Readings(DOMAIN docs)]
      /\ \A d \in Devices : working[d] # Idle => working[d].address \in DOMAIN docs
  <2>1. Len(log) \in Nat /\ \A d \in Devices : group[d].branch \subseteq 1 .. Len(log)
    BY DEF DocumentsInv, LogOK, GroupsOK, GroupRecord
  <2>2. Len(log') \in Nat /\ \A d \in Devices : group'[d].branch \subseteq 1 .. Len(log')
    BY DEF DocumentsInv, LogOK, GroupsOK, GroupRecord
  <2> QED
    BY <2>1, <2>2, EpochIsNat DEF DocumentsInv, WorkOK, Readings
<1>2. CASE OthersPost
  BY <1>1, <1>2 DEF OthersPost, NotOlder, BackTo, EpochAt
<1>3. ASSUME NEW d \in Devices, Onward(d), working' = working,
             \A x \in DOMAIN docs : docs'[x] = docs[x]
      PROVE  NotOlder' /\ \A e \in Devices : BackTo(e)
  <2>1. NotOlder'
    BY <1>1, <1>3 DEF NotOlder, EpochAt
  <2>2. \A e \in Devices : Epoch(group[e].branch) <= Epoch(group'[e].branch)
    BY <1>1, <1>3 DEF Onward
  <2> QED
    BY <1>1, <2>1, <2>2 DEF BackTo
<1>4. ASSUME NEW d \in Devices, Commit(d) PROVE Onward(d) /\ UNCHANGED <<docs, working>>
  BY <1>4, CommitKeeps DEF Commit
<1>5. ASSUME NEW d \in Devices, Sync(d) PROVE Onward(d) /\ UNCHANGED <<docs, working>>
  BY <1>5, SyncKeeps DEF Sync
<1>6. ASSUME NEW d \in Devices, NEW a \in DOMAIN docs, CatchUp(d, a)
      PROVE  Onward(d) /\ UNCHANGED <<docs, working>>
  BY <1>6, CatchUpKeeps DEF CatchUp
<1>7. ASSUME NEW d \in Devices, NEW given \in {0, group[d].applied.address}, Publish(d, given)
      PROVE  Onward(d) /\ working' = working /\ \A x \in DOMAIN docs : docs'[x] = docs[x]
  BY <1>7, PublishKeeps DEF Publish
<1>8. ASSUME NEW d \in Devices, NEW a \in DOMAIN docs, ReconcileBegins(d, a)
      PROVE  NotOlder' /\ \A e \in Devices : BackTo(e)
  <2>1. /\ Onward(d) /\ group'[d].branch = group[d].branch
        /\ \/ working' = working
           \/ \E base, since :
                 /\ since <= EpochAt(a)
                 /\ working' = [working EXCEPT
                       ![d] = [address |-> a, base |-> base, since |-> since]]
    BY <1>8, ReconcileBeginsKeeps
  <2>2. docs' = docs
    BY <1>8 DEF ReconcileBegins
  <2>3. \A e \in Devices : BackTo(e)
    BY <1>1, <2>1 DEF Onward, BackTo
  <2>4. CASE working' = working
    BY <2>2, <2>3, <2>4 DEF NotOlder, EpochAt
  <2>5. ASSUME NEW base, NEW since, since <= EpochAt(a),
               working' = [working EXCEPT
                   ![d] = [address |-> a, base |-> base, since |-> since]]
        PROVE  NotOlder'
    <3>1. /\ working'[d].address = a /\ working'[d].since = since
          /\ \A e \in Devices \ {d} : working'[e] = working[e]
      BY <1>1, <2>5
    <3> QED
      BY <2>2, <2>5, <3>1 DEF NotOlder, EpochAt
  <2> QED
    BY <2>1, <2>3, <2>4, <2>5
<1>9. ASSUME NEW d \in Devices, ReconcileEnds(d)
      PROVE  NotOlder' /\ \A e \in Devices : BackTo(e)
  <2>1. /\ working[d] # Idle /\ working'[d] = Idle /\ docs' = docs
        /\ \A e \in Devices \ {d} : working'[e] = working[e]
    BY <1>1, <1>9 DEF ReconcileEnds
  <2>2. /\ group'[d].branch \in {group[d].branch, docs[working[d].address].branch}
        /\ \A e \in Devices \ {d} : group'[e] = group[e]
    BY <1>9, ReconcileEndsAt
  <2>3. NotOlder'
    BY <2>1 DEF NotOlder, EpochAt
  <2>4. BackTo(d)
    <3>1. CASE group'[d].branch = group[d].branch
      BY <1>1, <3>1 DEF BackTo
    <3>2. CASE group'[d].branch = docs[working[d].address].branch
      BY <2>1, <3>2 DEF BackTo, NotOlder, EpochAt
    <3> QED
      BY <2>2, <3>1, <3>2
  <2>5. \A e \in Devices \ {d} : BackTo(e)
    BY <1>1, <2>2 DEF BackTo
  <2> QED
    BY <2>3, <2>4, <2>5
<1> QED
  BY <1>2, <1>3, <1>4, <1>5, <1>6, <1>7, <1>8, <1>9 DEF Next

\* No document, however old and whatever fork it names, and no replay of a chain takes a
\* session below the epoch it had when it began to read the document, also while other
\* operations of its group run: only what they did meanwhile can be undone.
THEOREM NeverSetBack == Spec => UndoesNoOlder
<1>1. Init => NotOlder
  BY DEF Init, NotOlder
<1>2. DocumentsInv /\ DocumentsInv' /\ NotOlder /\ [Next]_vars => NotOlder'
  <2>1. DocumentsInv /\ DocumentsInv' /\ NotOlder /\ Next => NotOlder'
    BY NotOlderNext
  <2>2. NotOlder /\ UNCHANGED vars => NotOlder'
    BY DEF NotOlder, vars, EpochAt
  <2> QED
    BY <2>1, <2>2
<1>3. DocumentsInv /\ DocumentsInv' /\ NotOlder /\ [Next]_vars
        => [\A d \in Devices :
              Epoch(group'[d].branch) < Epoch(group[d].branch) =>
                  /\ working[d] # Idle /\ working'[d] = Idle
                  /\ group'[d].branch = docs[working[d].address].branch
                  /\ working[d].since <= Epoch(group'[d].branch)]_vars
  <2>1. DocumentsInv /\ DocumentsInv' /\ NotOlder /\ Next => \A d \in Devices : BackTo(d)
    BY NotOlderNext
  <2> QED
    BY <2>1 DEF BackTo
<1> QED
  BY <1>1, <1>2, <1>3, DocumentsInvariant, PTL DEF Spec, UndoesNoOlder

\* What ends the reconciliation of a fork under the rule of rank keeps to the
\* decision there was for its epoch.
LEMMA RankKeepsDecision ==
    ASSUME NEW g, NEW a, NEW base, g.decision.epoch = base + 1,
           Decision(g, base, a).by = "rank", g.decision.branch \subseteq g.branch
    PROVE  g.decision.branch \subseteq IF Decision(g, base, a).adopt THEN docs[a].branch
                                       ELSE g.branch
<1> DEFINE verdict == ThirdParty(g, a)
<1>1. g.race = "none" /\ verdict = "none"
  BY DEF Decision
<1>2. Decision(g, base, a) = [adopt |-> g.decision.branch = docs[a].branch,
                              by |-> g.decision.by]
  BY <1>1 DEF Decision
<1>3. Decision(g, base, a).adopt = (g.decision.branch = docs[a].branch)
  BY <1>2
<1>4. CASE g.decision.branch = docs[a].branch
  BY <1>4
<1>5. CASE g.decision.branch # docs[a].branch
  <2>1. Decision(g, base, a).adopt = FALSE
    BY <1>3, <1>5
  <2> QED
    BY <2>1
<1> QED
  BY <1>4, <1>5

\* As long as a device is on the branch it decided a fork for, the rank of documents
\* published later does not take it off that branch, also while other operations run.
THEOREM DecisionsStand == Spec => DecisionStands
<1> DEFINE Stands(d) ==
             LET old == group[d].decision
                 new == group'[d].decision IN
             (/\ working[d].base # {} /\ working'[d] = Idle
              /\ old.epoch = new.epoch /\ new.by = "rank" /\ old.branch \subseteq group[d].branch)
                 => old.branch \subseteq group'[d].branch
<1>1. ASSUME DocumentsInv, Next, NEW d \in Devices,
             working[d].base # {}, working'[d] = Idle
      PROVE  ReconcileEnds(d)
  <2>1. working[d] # Idle /\ working'[d] # working[d]
    BY <1>1 DEF Idle
  <2>2. working \in [Devices -> Readings(DOMAIN docs)]
    BY <1>1 DEF DocumentsInv, WorkOK, Readings
  <2>3. ASSUME NEW e \in Devices, NEW a \in DOMAIN docs, ReconcileBegins(e, a)
        PROVE  FALSE
    <3>1. e # d
      BY <2>1, <2>3 DEF ReconcileBegins
    <3>2. \/ working' = working
          \/ \E base, since : working' = [working EXCEPT
                ![e] = [address |-> a, base |-> base, since |-> since]]
      BY <1>1, <2>3, ReconcileBeginsKeeps
    <3> QED
      BY <2>1, <2>2, <3>1, <3>2
  <2>4. ASSUME NEW e \in Devices, ReconcileEnds(e) PROVE e = d
    BY <2>1, <2>2, <2>4 DEF ReconcileEnds
  <2>5. ~ UNCHANGED working
    BY <2>1
  <2> QED
    BY <1>1, <2>3, <2>4, <2>5 DEF Next, OthersPost, Commit, Sync, Publish, CatchUp
<1>2. ASSUME DocumentsInv, NEW d \in Devices, ReconcileEnds(d), working[d].base # {}
      PROVE  Stands(d)
  <2> DEFINE a == working[d].address
             g == group[d]
  <2>1. PICK base \in working[d].base :
           group' = [group EXCEPT ![d] = Resolved(g, base, a, Decision(g, base, a))]
    BY <1>2 DEF ReconcileEnds
  <2>2. /\ LogOK(log) /\ DocsOK(log, docs) /\ a \in DOMAIN docs /\ base \in Int
        /\ g \in GroupRecord(log, DOMAIN docs) /\ Sound(log, g) /\ g.decision.by \in Rules
    BY <1>2 DEF DocumentsInv, GroupsOK, GroupRecord, Decisions, WorkOK, Readings, ReconcileEnds
  <2> DEFINE verdict == Decision(g, base, a)
             new == Resolved(g, base, a, verdict)
  <2>3. group'[d] = new
    BY <1>2, <2>1 DEF DocumentsInv, GroupsOK
  <2>4. verdict.by \in Rules
    BY <2>2, DecisionRules
  <2> HIDE DEF a, g, verdict
  <2>5. /\ new.branch = IF verdict.adopt THEN docs[a].branch ELSE g.branch
        /\ new.decision = [epoch |-> base + 1, by |-> verdict.by,
                           branch |-> IF verdict.adopt THEN docs[a].branch ELSE g.branch]
    BY <2>2, <2>4, ResolvedOK
  <2> HIDE DEF new
  <2>6. ASSUME g.decision.epoch = new.decision.epoch, new.decision.by = "rank",
               g.decision.branch \subseteq g.branch
        PROVE  g.decision.branch \subseteq new.branch
    <3>1. g.decision.epoch = base + 1 /\ Decision(g, base, a).by = "rank"
      BY <2>5, <2>6 DEF verdict
    <3>2. g.decision.branch \subseteq IF Decision(g, base, a).adopt THEN docs[a].branch
                                      ELSE g.branch
      BY <2>6, <3>1, RankKeepsDecision
    <3> QED
      BY <2>5, <3>2 DEF verdict
  <2> QED
    BY <2>3, <2>6 DEF g
<1>3. DocumentsInv /\ [Next]_vars => [\A d \in Devices : Stands(d)]_vars
  BY <1>1, <1>2
<1> QED
  BY <1>3, DocumentsInvariant, PTL DEF Spec, DecisionStands
=============================================================================
