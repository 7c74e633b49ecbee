------------------------ MODULE MC_CommitGraph_proofs ------------------------
(***************************************************************************)
(* What is computed from the commits and the notes of a repository, for    *)
(* any number of them: the fast-forward tests and a fetch follow parents   *)
(* as they should, the sort of a push puts parents first, the negotiation  *)
(* of a fetch finds a common base, the last commit of a file is the one    *)
(* whose page shows it, and a piano roll shows what sounds.                *)
(* CommitGraph_proofs has what is said of walks from commit to parent.     *)
(*                                                                         *)
(* Of a function that is defined by recursion the provers know only that   *)
(* it was chosen among those with the equation of its definition; so each  *)
(* part shows that there is one (Recursion, FoldExists, ScanExists), and   *)
(* unfolds it.                                                             *)
(***************************************************************************)
EXTENDS MC_CommitGraph, CommitGraph_proofs

-----------------------------------------------------------------------------
\* Ids are distinct, and a parent is older than its commit.
BundleInv ==
    /\ bundle \in Seq([id : Nat, parents : Seq(Nat)])
    /\ \A i, j \in DOMAIN bundle : bundle[i].id = bundle[j].id => i = j
    /\ \A i \in DOMAIN bundle : \A p \in ToSet(bundle[i].parents) : p < bundle[i].id

LEMMA ParentListsOlder ==
    ASSUME NEW id \in Nat, NEW ps \in ParentLists(id)
    PROVE  ps \in Seq(Nat) /\ \A p \in ToSet(ps) : p \in Nat /\ p < id
<1>1. CASE ps = <<>>
  BY <1>1 DEF ToSet
<1>2. CASE \E p \in 0..(id - 1) : ps = <<p>>
  BY <1>2 DEF ToSet
<1>3. CASE \E p, q \in 0..(id - 1) : ps = <<p, q>>
  <2>1. PICK p \in 0..(id - 1), q \in 0..(id - 1) : ps = <<p, q>>
    BY <1>3
  <2>2. p \in Nat /\ q \in Nat /\ p < id /\ q < id
    OBVIOUS
  <2>3. DOMAIN ps = 1..2 /\ ps[1] = p /\ ps[2] = q /\ ps \in Seq(Nat)
    BY <2>1, <2>2
  <2>. QED
    BY <2>2, <2>3 DEF ToSet
<1>. QED
  BY <1>1, <1>2, <1>3 DEF ParentLists

LEMMA BundleStep == BundleInv /\ [Next]_vars => BundleInv'
<1>. SUFFICES ASSUME BundleInv, [Next]_vars PROVE BundleInv'
  OBVIOUS
<1>1. CASE UNCHANGED bundle
  BY <1>1 DEF BundleInv
<1>2. ASSUME NEW id \in 1..MaxCommits, NEW ps \in ParentLists(id), AddCommit(id, ps)
      PROVE  BundleInv'
  <2>1. id \in Nat /\ ps \in Seq(Nat) /\ \A p \in ToSet(ps) : p < id
    BY ParentListsOlder, MaxCommitsOK DEF MaxCommitsOK
  <2>2. PICK c : c = [id |-> id, parents |-> ps]
    OBVIOUS
  <2>3. c \in [id : Nat, parents : Seq(Nat)] /\ c.id = id /\ c.parents = ps
    BY <2>1, <2>2
  <2>4. bundle' = Append(bundle, c) /\ bundle \in Seq([id : Nat, parents : Seq(Nat)])
    BY <1>2, <2>2 DEF AddCommit, BundleInv
  <2>5. /\ bundle' \in Seq([id : Nat, parents : Seq(Nat)])
        /\ DOMAIN bundle' = DOMAIN bundle \cup {Len(bundle) + 1} /\ Len(bundle) + 1 \notin DOMAIN bundle
        /\ bundle'[Len(bundle) + 1] = c /\ \A i \in DOMAIN bundle : bundle'[i] = bundle[i]
    BY <2>3, <2>4
  <2>6. \A i \in DOMAIN bundle : bundle[i].id # id
    BY <1>2 DEF AddCommit, Ids
  <2>7. \A i \in DOMAIN bundle' : \A p \in ToSet(bundle'[i].parents) : p < bundle'[i].id
    BY <2>1, <2>3, <2>5 DEF BundleInv
  <2>8. \A i, j \in DOMAIN bundle' : bundle'[i].id = bundle'[j].id => i = j
    BY <2>3, <2>5, <2>6 DEF BundleInv
  <2>. QED
    BY <2>5, <2>7, <2>8 DEF BundleInv
<1>. QED
  BY <1>1, <1>2 DEF Next, AddRevision, AddMessage, vars

-----------------------------------------------------------------------------
LEMMA Graph ==
    ASSUME BundleInv
    PROVE  /\ DOMAIN ParentMap(bundle) = Ids(bundle)
           /\ \A i \in DOMAIN bundle : ParentMap(bundle)[bundle[i].id] = ToSet(bundle[i].parents)
           /\ \A c \in Ids(bundle) : c \in Nat /\ \A p \in ParentMap(bundle)[c] : p < c
           /\ IsFiniteSet(Ids(bundle)) /\ Cardinality(Ids(bundle)) <= Len(bundle)
           /\ Len(bundle) \in Nat /\ Cardinality(Ids(bundle)) \in Nat
<1>1. DOMAIN ParentMap(bundle) = Ids(bundle)
  BY DEF ParentMap
<1>2. ASSUME NEW i \in DOMAIN bundle
      PROVE  ParentMap(bundle)[bundle[i].id] = ToSet(bundle[i].parents)
  <2>1. PICK id : id = bundle[i].id
    OBVIOUS
  <2>2. id \in Ids(bundle)
    BY <2>1 DEF Ids
  <2>3. (CHOOSE j \in DOMAIN bundle : bundle[j].id = id) = i
    BY <2>1 DEF BundleInv
  <2>. QED
    BY <2>1, <2>2, <2>3 DEF ParentMap, ById
<1>3. ASSUME NEW c \in Ids(bundle) PROVE c \in Nat /\ \A p \in ParentMap(bundle)[c] : p < c
  <2>1. PICK i \in DOMAIN bundle : c = bundle[i].id
    BY DEF Ids
  <2>2. bundle[i].id \in Nat
    <3>1. PICK commits : commits = [id : Nat, parents : Seq(Nat)]
      OBVIOUS
    <3>2. bundle \in Seq(commits)
      BY <3>1 DEF BundleInv
    <3>3. bundle[i] \in commits
      BY <3>2
    <3>. QED
      BY <3>1, <3>3
  <2>. QED
    BY <1>2, <2>1, <2>2 DEF BundleInv
<1>4. bundle \in Seq([id : Nat, parents : Seq(Nat)]) /\ DOMAIN bundle = 1..Len(bundle) /\ Len(bundle) \in Nat
  BY DEF BundleInv
<1>5. IsFiniteSet(1..Len(bundle)) /\ Cardinality(1..Len(bundle)) = Len(bundle)
  <2>1. PICK n \in Nat : n = Len(bundle)
    BY <1>4
  <2>2. IsFiniteSet(1..n) /\ Cardinality(1..n) = n
    BY FS_Interval
  <2>. QED
    BY <2>1, <2>2
<1>6. IsFiniteSet(Ids(bundle)) /\ Cardinality(Ids(bundle)) <= Len(bundle)
  <2>. DEFINE f == [i \in 1..Len(bundle) |-> bundle[i].id]
  <2>1. f \in Surjection(1..Len(bundle), Ids(bundle))
    BY <1>4 DEF Surjection, Ids
  <2>. HIDE DEF f
  <2>. QED
    BY <1>5, <2>1, FS_Surjection
<1>. QED
  BY <1>1, <1>2, <1>3, <1>4, <1>6, FS_CardinalityType

\* The rounds of a walk are what trails of that length reach.
LEMMA RoundsAreTrails ==
    ASSUME NEW parents, NEW start, NEW n \in Nat
    PROVE  Rounds(parents, start)[n] = Within(parents, start, n)
<1>. DEFINE Same == {k \in Nat : Rounds(parents, start)[k] = Within(parents, start, k)}
<1>1. Same \in SUBSET Nat /\ 0 \in Same
  BY RoundsUnfold, WithinNone
<1>2. ASSUME NEW k \in Same PROVE k + 1 \in Same
  <2>1. PICK seen : seen = Rounds(parents, start)[k]
    OBVIOUS
  <2>2. Rounds(parents, start)[k + 1] = seen \cup ParentsOfAll(parents, seen)
    BY <2>1, RoundsUnfold
  <2>3. Within(parents, start, k + 1) = seen \cup ParentsOfAll(parents, seen)
    BY <2>1, WithinNext
  <2>4. k + 1 \in Nat /\ Rounds(parents, start)[k + 1] = Within(parents, start, k + 1)
    BY <2>2, <2>3
  <2>. QED
    BY <2>4
<1>3. Same = Nat
  <2>. HIDE DEF Same
  <2>. QED
    BY <1>1, <1>2, Induction
<1>. QED
  BY <1>3

(***************************************************************************)
(* Paths, by which the reference definitions go, and walks, which the code *)
(* takes.                                                                  *)
(***************************************************************************)
LEMMA WalkReaches ==
    ASSUME BundleInv, NEW x, NEW y
    PROVE  Reaches(bundle, x, y) <=> y \in Walk(ParentMap(bundle), {x})
<1>. DEFINE graph == ParentMap(bundle)
            n == Cardinality(Ids(bundle))
<1>1. DOMAIN graph = Ids(bundle) /\ n \in Nat /\ n <= Len(bundle) /\ Len(bundle) \in Nat
  BY Graph
<1>2. x \in Walk(graph, {x}) /\ Closed(graph, Walk(graph, {x}))
  BY Graph, WalkIsHistory
<1>3. ASSUME y \in Walk(graph, {x}) PROVE Reaches(bundle, x, y)
  <2>1. y \in Within(graph, {x}, n)
    BY <1>1, <1>3, WalkIsRound, RoundsAreTrails
  <2>2. PICK m \in 0..n : \E f \in [0..m -> Nodes(graph, {x})] : Trail(graph, {x}, f, m) /\ f[m] = y
    BY <2>1 DEF Within
  <2>3. PICK f \in [0..m -> Nodes(graph, {x})] : Trail(graph, {x}, f, m) /\ f[m] = y
    BY <2>2
  <2>4. f[0] = x /\ \A i \in 0..(m - 1) : f[i] \in Ids(bundle) /\ f[i + 1] \in graph[f[i]]
    BY <1>1, <2>3 DEF Trail
  <2>5. CASE m = 0
    BY <2>3, <2>4, <2>5 DEF Reaches
  <2>6. CASE m # 0
    <3>. DEFINE path == [i \in 1..m |-> f[i - 1]]
    <3>1. m \in 1..Len(bundle) /\ m \in Nat
      BY <1>1, <2>6
    <3>2. path \in [1..m -> Ids(bundle)] /\ path[1] = x /\ path[m] = f[m - 1]
      BY <2>4, <3>1
    <3>3. \A i \in 1..(m - 1) : path[i + 1] \in graph[path[i]] /\ path[i] \in Ids(bundle)
      BY <2>4, <3>1
    <3>4. y \in graph[path[m]] /\ path[m] \in Ids(bundle)
      BY <2>3, <2>4, <3>1, <3>2
    <3>5. Len(path) = m
      BY <3>1
    <3>. HIDE DEF path
    <3>6. path \in UNION {[1..k -> Ids(bundle)] : k \in 1..Len(bundle)}
      BY <3>1, <3>2
    <3>. QED
      BY <3>2, <3>3, <3>4, <3>5, <3>6 DEF Reaches, Bundled
  <2>. QED
    BY <2>5, <2>6
<1>4. ASSUME Reaches(bundle, x, y) PROVE y \in Walk(graph, {x})
  <2>1. CASE x = y
    BY <1>2, <2>1
  <2>2. CASE x # y
    <3>1. PICK k \in 1..Len(bundle) : \E path \in [1..k -> Ids(bundle)] :
            /\ path[1] = x
            /\ \A i \in 1..(Len(path) - 1) : Bundled(bundle, path[i], path[i + 1])
            /\ Bundled(bundle, path[Len(path)], y)
      BY <1>4, <2>2 DEF Reaches
    <3>2. PICK path \in [1..k -> Ids(bundle)] :
            /\ path[1] = x
            /\ \A i \in 1..(Len(path) - 1) : Bundled(bundle, path[i], path[i + 1])
            /\ Bundled(bundle, path[Len(path)], y)
      BY <3>1
    <3>3. Len(path) = k /\ k \in Nat /\ k >= 1
      BY <1>1
    <3>. DEFINE On == {i \in Nat : i + 1 <= k => path[i + 1] \in Walk(graph, {x})}
    <3>4. 0 \in On /\ On \in SUBSET Nat
      BY <1>2, <3>2
    <3>5. ASSUME NEW i \in On PROVE i + 1 \in On
      <4>1. CASE i + 2 <= k
        <5>1. path[i + 1] \in Walk(graph, {x}) /\ i + 1 \in 1..(Len(path) - 1)
          BY <3>3, <4>1
        <5>2. Bundled(bundle, path[i + 1], path[(i + 1) + 1])
          BY <3>2, <5>1
        <5>3. path[(i + 1) + 1] \in Walk(graph, {x})
          BY <1>1, <1>2, <5>1, <5>2 DEF Bundled, Closed
        <5>. QED
          BY <5>3
      <4>2. CASE ~(i + 2 <= k)
        BY <3>3, <4>2
      <4>. QED
        BY <4>1, <4>2
    <3>6. On = Nat
      <4>. HIDE DEF On
      <4>. QED
        BY <3>4, <3>5, Induction
    <3>7. path[k] \in Walk(graph, {x})
      <4>1. k - 1 \in Nat /\ (k - 1) + 1 = k
        BY <3>3
      <4>2. k - 1 \in On
        <5>. HIDE DEF On
        <5>. QED
          BY <3>6, <4>1
      <4>. QED
        BY <4>1, <4>2
    <3>. QED
      BY <1>1, <1>2, <3>2, <3>3, <3>7 DEF Bundled, Closed
  <2>. QED
    BY <2>1, <2>2
<1>. QED
  BY <1>3, <1>4

\* The wire test: what is visited from all pushed commits.
LEMMA AncestorTestRight ==
    ASSUME BundleInv, NEW h
    PROVE  AncestorTestExact(h)
<1>. DEFINE graph == ParentMap(bundle)
            all == Walk(graph, Ids(bundle))
<1>1. DOMAIN graph = Ids(bundle) /\ IsFiniteSet(DOMAIN graph)
  BY Graph
<1>2. Ids(bundle) \subseteq all /\ Closed(graph, all)
  BY <1>1, WalkIsHistory
<1>3. ASSUME NEW id \in Ids(bundle), h \in Walk(graph, {id}) PROVE h \in all
  <2>1. Walk(graph, {id}) \subseteq all
    <3>. HIDE DEF graph
    <3>. QED
      BY <1>1, <1>2, WalkIsHistory
  <2>. QED
    BY <1>3, <2>1
<1>4. ASSUME h \in all PROVE \E id \in Ids(bundle) : h \in Walk(graph, {id})
  <2>. DEFINE C == UNION {Walk(graph, {id}) : id \in Ids(bundle)}
  <2>1. \A id \in Ids(bundle) : id \in Walk(graph, {id}) /\ Closed(graph, Walk(graph, {id}))
    BY <1>1, WalkIsHistory
  <2>2. Ids(bundle) \subseteq C
    BY <2>1
  <2>3. Closed(graph, C)
    BY <2>1 DEF Closed
  <2>4. all \subseteq C
    <3>. HIDE DEF C, graph
    <3>. QED
      BY <1>1, <2>2, <2>3, WalkIsHistory
  <2>. QED
    BY <1>4, <2>4
<1>5. ASSUME h \in all PROVE h \in Ids(bundle) \/ \E id \in Ids(bundle) : h \in graph[id]
  <2>. DEFINE C == Ids(bundle) \cup UNION {graph[id] : id \in Ids(bundle)}
  <2>1. Ids(bundle) \subseteq C
    OBVIOUS
  <2>2. Closed(graph, C)
    BY <1>1 DEF Closed
  <2>3. all \subseteq C
    <3>. HIDE DEF C, graph
    <3>. QED
      BY <1>1, <2>1, <2>2, WalkIsHistory
  <2>. QED
    BY <1>5, <2>3
<1>6. ASSUME NEW id \in Ids(bundle), h \in graph[id] PROVE h \in all
  BY <1>1, <1>2, <1>6 DEF Closed
<1>. QED
  BY <1>2, <1>3, <1>4, <1>5, <1>6, WalkReaches DEF AncestorTestExact, IsAncestorInBundle

\* Where there is one tip, everything pushed is its history.
LEMMA TestsAgreeRight ==
    ASSUME BundleInv, NEW h, NEW newHead \in Ids(bundle)
    PROVE  TestsAgree(h, newHead)
<1>. DEFINE graph == ParentMap(bundle)
<1>1. DOMAIN graph = Ids(bundle) /\ IsFiniteSet(DOMAIN graph)
  BY Graph
<1>2. Ids(bundle) \subseteq Walk(graph, Ids(bundle)) /\ newHead \in Walk(graph, {newHead})
  BY <1>1, WalkIsHistory
<1>3. Walk(graph, {newHead}) \subseteq Walk(graph, Ids(bundle))
  BY <1>1, <1>2, WalkGrows
<1>4. IsFastForward(h, newHead, bundle) <=> h \in Walk(graph, {newHead})
  BY <1>2 DEF IsFastForward
<1>5. ASSUME Tips(bundle) = {newHead} PROVE Walk(graph, Ids(bundle)) \subseteq Walk(graph, {newHead})
  <2>. DEFINE rank == [c \in Ids(bundle) |-> c]
  <2>1. \A c \in DOMAIN graph : rank[c] \in Nat /\ \A p \in graph[c] \cap DOMAIN graph : rank[p] < rank[c]
    BY Graph
  <2>2. {c \in DOMAIN graph : \A d \in DOMAIN graph : c \notin graph[d]} = {newHead}
    <3>1. \A c : (\A d \in Ids(bundle) : c \notin graph[d])
                    <=> \A i \in DOMAIN bundle : c \notin ToSet(bundle[i].parents)
      BY Graph DEF Ids
    <3>. QED
      BY <1>1, <1>5, <3>1 DEF Tips
  <2>3. Ids(bundle) \subseteq Walk(graph, {newHead})
    <3>. HIDE DEF graph, rank
    <3>. QED
      BY <1>1, <2>1, <2>2, OneTipHasAll
  <2>. QED
    BY <1>1, <2>3, WalkGrows
<1>. QED
  BY <1>2, <1>3, <1>4, <1>5, WalkReaches DEF TestsAgree, IsAncestorInBundle, IsFastForward

(***************************************************************************)
(* The tests of the two protocols are about the history of what is pushed  *)
(* (musehub_sync.py:91, musehub_wire.py:720): the wire test passes when    *)
(* the head is pushed again or is a parent of a pushed commit, the REST    *)
(* test only if the wire test does, and only on bundles with several tips  *)
(* they differ; for bundles of any length in any order.                    *)
(***************************************************************************)
THEOREM FastForwardTestsAlwaysAgree == Spec => []FastForwardTestsAgree
<1>1. Init => BundleInv
  BY DEF Init, BundleInv
<1>2. BundleInv => FastForwardTestsAgree
  BY AncestorTestRight, TestsAgreeRight DEF FastForwardTestsAgree
<1>. QED
  BY <1>1, <1>2, BundleStep, PTL DEF Spec

-----------------------------------------------------------------------------
(***************************************************************************)
(* A fetch: a walk that does not enter what the client has.                *)
(***************************************************************************)
Outside(have) == [id \in Ids(bundle) |-> ParentMap(bundle)[id] \ have]

FetchEquation(f, want, have) ==
    f = [n \in Nat |-> IF n = 0 THEN want \ have ELSE Widen(ParentMap(bundle), f[n - 1], have)]

LEMMA FetchNamed ==
    ASSUME NEW want, NEW have
    PROVE  Fetched(bundle, want, have)
             = (CHOOSE f : FetchEquation(f, want, have))[Len(bundle)] \cap Ids(bundle)
BY DEF Fetched, FetchEquation

LEMMA FetchRounds ==
    ASSUME NEW want, NEW have, NEW n \in Nat
    PROVE  (CHOOSE f : FetchEquation(f, want, have))[n] = Rounds(Outside(have), want \ have)[n]
<1>. DEFINE graph == Outside(have)
            start == want \ have
            sent == CHOOSE f : FetchEquation(f, want, have)
            seen == Rounds(graph, start)
            Same == {k \in Nat : sent[k] = seen[k]}
<1>1. ASSUME NEW ids PROVE Widen(ParentMap(bundle), ids, have) = ids \cup ParentsOfAll(graph, ids)
  <2>2. PICK below : below = ParentMap(bundle)
    OBVIOUS
  <2>1. DOMAIN graph = DOMAIN below /\ \A id \in DOMAIN below : graph[id] = below[id] \ have
    BY <2>2 DEF Outside, ParentMap
  <2>. HIDE DEF graph
  <2>3. ASSUME NEW p \in ParentsOfAll(graph, ids) PROVE p \in (UNION {below[id] : id \in ids \cap DOMAIN below}) \ have
    <3>1. PICK id \in ids \cap DOMAIN graph : p \in graph[id]
      BY <2>3 DEF ParentsOfAll
    <3>. QED
      BY <2>1, <2>2, <3>1
  <2>4. ASSUME NEW p \in (UNION {below[id] : id \in ids \cap DOMAIN below}) \ have PROVE p \in ParentsOfAll(graph, ids)
    <3>1. PICK id \in ids \cap DOMAIN below : p \in below[id]
      BY <2>4
    <3>. QED
      BY <2>1, <2>2, <2>4, <3>1 DEF ParentsOfAll
  <2>5. Widen(below, ids, have) = ids \cup ((UNION {below[id] : id \in ids \cap DOMAIN below}) \ have)
    BY DEF Widen
  <2>. QED
    BY <2>2, <2>3, <2>4, <2>5
<1>2. PICK f : f = seen
  OBVIOUS
<1>3. f = [k \in Nat |-> IF k = 0 THEN start ELSE f[k - 1] \cup ParentsOfAll(graph, f[k - 1])]
  <2>1. RoundsEquation(f, graph, start)
    BY <1>2, RoundsDefined
  <2>. HIDE DEF graph, start
  <2>. QED
    BY <2>1 DEF RoundsEquation, ParentsOfAll
<1>4. FetchEquation(f, want, have)
  <2>1. ASSUME NEW k \in Nat
        PROVE  f[k] = IF k = 0 THEN start ELSE Widen(ParentMap(bundle), f[k - 1], have)
    <3>. HIDE DEF graph, start
    <3>. QED
      BY <1>1, <1>3
  <2>2. f = [k \in Nat |-> f[k]]
    <3>. HIDE DEF graph, start
    <3>. QED
      BY <1>3
  <2>. QED
    BY <2>1, <2>2 DEF FetchEquation
<1>5. FetchEquation(sent, want, have)
  BY <1>4
<1>6. /\ sent[0] = start
      /\ \A k \in Nat : sent[k + 1] = sent[k] \cup ParentsOfAll(graph, sent[k])
  <2>1. PICK g : g = sent
    OBVIOUS
  <2>2. g = [k \in Nat |-> IF k = 0 THEN start ELSE Widen(ParentMap(bundle), g[k - 1], have)]
    BY <1>5, <2>1 DEF FetchEquation
  <2>3. g[0] = start
    BY <2>2
  <2>4. ASSUME NEW k \in Nat PROVE g[k + 1] = g[k] \cup ParentsOfAll(graph, g[k])
    <3>1. k + 1 \in Nat /\ k + 1 # 0 /\ (k + 1) - 1 = k
      OBVIOUS
    <3>2. g[k + 1] = Widen(ParentMap(bundle), g[k], have)
      BY <2>2, <3>1
    <3>. HIDE DEF graph
    <3>. QED
      BY <1>1, <3>2
  <2>. QED
    BY <2>1, <2>3, <2>4
<1>7. seen[0] = start /\ \A k \in Nat : seen[k + 1] = seen[k] \cup ParentsOfAll(graph, seen[k])
  BY RoundsUnfold
<1>8. Same = Nat
  <2>1. Same \in SUBSET Nat /\ 0 \in Same
    BY <1>6, <1>7
  <2>2. ASSUME NEW k \in Same PROVE k + 1 \in Same
    <3>1. k \in Nat /\ sent[k] = seen[k]
      OBVIOUS
    <3>2. sent[k + 1] = seen[k + 1]
      <4>. HIDE DEF graph, sent, seen
      <4>. QED
        BY <1>6, <1>7, <3>1
    <3>. QED
      BY <3>1, <3>2
  <2>. HIDE DEF Same
  <2>. QED
    BY <2>1, <2>2, Induction
<1>. QED
  BY <1>8

\* What it sends is the least set that has what is wanted, and the parents
\* of what it has, but for what the client has.
SentBy(want, have) == Rounds(Outside(have), want \ have)[Len(bundle)]

LEMMA FetchLeast ==
    ASSUME BundleInv, NEW want, NEW have
    PROVE  /\ Fetched(bundle, want, have) = SentBy(want, have) \cap Ids(bundle)
           /\ want \ have \subseteq SentBy(want, have)
           /\ Closed(Outside(have), SentBy(want, have))
           /\ \A C : want \ have \subseteq C /\ Closed(Outside(have), C) => SentBy(want, have) \subseteq C
<1>. DEFINE graph == Outside(have)
            n == Len(bundle)
            sent == Rounds(graph, want \ have)[n]
<1>1. n \in Nat /\ DOMAIN graph = Ids(bundle) /\ IsFiniteSet(DOMAIN graph) /\ Cardinality(DOMAIN graph) <= n
      /\ Cardinality(DOMAIN graph) \in Nat
  BY Graph DEF Outside
<1>2. Fetched(bundle, want, have) = sent \cap Ids(bundle)
  <2>1. (CHOOSE f : FetchEquation(f, want, have))[n] = sent
    BY <1>1, FetchRounds
  <2>. QED
    BY <2>1, FetchNamed
<1>3. Closed(graph, sent)
  <2>. DEFINE expanded == sent \cap DOMAIN graph
  <2>1. IsFiniteSet(expanded) /\ Cardinality(expanded) <= Cardinality(DOMAIN graph)
    BY <1>1, FS_Subset
  <2>2. Cardinality(expanded) \in Nat
    BY <2>1, FS_CardinalityType
  <2>3. ~(Cardinality(expanded) > n)
    BY <1>1, <2>1, <2>2
  <2>. QED
    BY <1>1, <2>3, ExpandedOrClosed
<1>4. want \ have \subseteq sent
  BY <1>1, RoundsGrow
<1>5. \A C : want \ have \subseteq C /\ Closed(graph, C) => sent \subseteq C
  BY <1>1, RoundsStayIn
<1>6. SentBy(want, have) = sent
  BY DEF SentBy
<1>. HIDE DEF sent, graph
<1>. QED
  BY <1>2, <1>3, <1>4, <1>5, <1>6 DEF graph

LEMMA FetchRight ==
    ASSUME BundleInv, NEW want \in SUBSET Ids(bundle), NEW have
    PROVE  FetchSufficient(Ancestors, want, have)
<1>. SUFFICES ASSUME ClosedHave(have)
              PROVE  Fetched(bundle, want, have) = (UNION {Ancestors[id] : id \in want}) \ have
  BY DEF FetchSufficient
<1>. DEFINE graph == ParentMap(bundle)
<1>1. PICK sent :
        /\ Fetched(bundle, want, have) = sent \cap Ids(bundle)
        /\ want \ have \subseteq sent /\ Closed(Outside(have), sent)
        /\ \A C : want \ have \subseteq C /\ Closed(Outside(have), C) => sent \subseteq C
  <2>. DEFINE s == SentBy(want, have)
  <2>1. PICK x : x = s
    OBVIOUS
  <2>2. /\ Fetched(bundle, want, have) = s \cap Ids(bundle)
        /\ want \ have \subseteq s /\ Closed(Outside(have), s)
        /\ \A C : want \ have \subseteq C /\ Closed(Outside(have), C) => s \subseteq C
    BY FetchLeast
  <2>. HIDE DEF s
  <2>. QED
    BY <2>2, Zenon
<1>2. DOMAIN graph = Ids(bundle) /\ IsFiniteSet(DOMAIN graph)
  BY Graph
<1>3. \A id \in Ids(bundle) : Ancestors[id] = Walk(graph, {id}) \cap Ids(bundle)
  BY WalkReaches DEF Ancestors
<1>4. \A id : id \in Walk(graph, {id}) /\ Closed(graph, Walk(graph, {id}))
  BY <1>2, WalkIsHistory
<1>5. /\ DOMAIN Outside(have) = Ids(bundle)
      /\ \A id \in Ids(bundle) : Outside(have)[id] = graph[id] \ have
  BY DEF Outside
<1>. HIDE DEF graph
<1>6. ASSUME NEW c \in sent \cap Ids(bundle) PROVE c \in (UNION {Ancestors[id] : id \in want}) \ have
  <2>. DEFINE C == {d \in UNION {Walk(graph, {id}) : id \in want} : d \notin have}
  <2>1. want \ have \subseteq C
    BY <1>4
  <2>2. ASSUME NEW d \in C \cap Ids(bundle), NEW p \in Outside(have)[d] PROVE p \in C
    <3>1. PICK id \in want : d \in Walk(graph, {id})
      BY <2>2
    <3>2. p \in graph[d] /\ p \notin have
      BY <1>5, <2>2
    <3>3. p \in Walk(graph, {id})
      BY <1>2, <1>4, <2>2, <3>1, <3>2 DEF Closed
    <3>. QED
      BY <3>2, <3>3
  <2>3. Closed(Outside(have), C)
    <3>. HIDE DEF C
    <3>. QED
      BY <1>5, <2>2 DEF Closed
  <2>4. c \in C
    <3>. HIDE DEF C
    <3>. QED
      BY <1>1, <2>1, <2>3
  <2>5. PICK id \in want : c \in Walk(graph, {id})
    BY <2>4
  <2>6. c \in Ancestors[id]
    <3>1. id \in Ids(bundle) /\ c \in Ids(bundle)
      BY <1>6, <2>5
    <3>. QED
      BY <1>3, <2>5, <3>1
  <2>7. c \notin have
    BY <2>4
  <2>. HIDE DEF C
  <2>. QED
    BY <2>6, <2>7
<1>7. ASSUME NEW id \in want, NEW c \in Ancestors[id] \ have PROVE c \in sent \cap Ids(bundle)
  <2>. DEFINE C == sent \cup have
  <2>1. c \in Walk(graph, {id}) /\ c \in Ids(bundle)
    BY <1>3, <1>7
  <2>2. id \in C
    BY <1>1
  <2>3. ASSUME NEW d \in C \cap Ids(bundle), NEW p \in graph[d] PROVE p \in C
    <3>1. CASE d \in have
      BY <2>3, <3>1 DEF ClosedHave, graph
    <3>2. CASE d \in sent
      BY <1>1, <1>5, <2>3, <3>2 DEF Closed
    <3>. QED
      BY <3>1, <3>2
  <2>4. Closed(graph, C)
    <3>. HIDE DEF C
    <3>. QED
      BY <1>2, <2>3 DEF Closed
  <2>5. Walk(graph, {id}) \subseteq C
    <3>. HIDE DEF C
    <3>. QED
      BY <1>2, <2>2, <2>4, WalkIsHistory
  <2>. QED
    BY <2>1, <2>5
<1>8. sent \cap Ids(bundle) \subseteq (UNION {Ancestors[id] : id \in want}) \ have
  BY <1>6
<1>9. ASSUME NEW c \in (UNION {Ancestors[id] : id \in want}) \ have PROVE c \in sent \cap Ids(bundle)
  <2>1. PICK id \in want : c \in Ancestors[id]
    BY <1>9
  <2>2. c \in Ancestors[id] \ have
    BY <1>9, <2>1
  <2>. QED
    BY <1>7, <2>2
<1>10. sent \cap Ids(bundle) = (UNION {Ancestors[id] : id \in want}) \ have
  BY <1>8, <1>9
<1>. QED
  BY <1>1, <1>10

-----------------------------------------------------------------------------
\* A step from a state, again and again, has a value for every number of
\* steps: what a recursive function over numbers computes.
StepsFrom(base, step, n, f) ==
    f[0] = base /\ \A k \in 1..n : f[k] = step[f[k - 1]]

LEMMA StepsMeet ==
    ASSUME NEW base, NEW step, NEW f, NEW g, NEW m \in Nat, NEW n \in Nat,
           StepsFrom(base, step, m, f), StepsFrom(base, step, n, g),
           NEW k \in Nat, k <= m, k <= n
    PROVE  f[k] = g[k]
<1>. DEFINE Same == {i \in Nat : i <= m /\ i <= n => f[i] = g[i]}
<1>1. 0 \in Same /\ Same \in SUBSET Nat
  BY DEF StepsFrom
<1>2. ASSUME NEW i \in Same PROVE i + 1 \in Same
  <2>. SUFFICES ASSUME i + 1 <= m, i + 1 <= n PROVE f[i + 1] = g[i + 1]
    OBVIOUS
  <2>1. i \in Nat /\ i + 1 \in 1..m /\ i + 1 \in 1..n /\ (i + 1) - 1 = i /\ i <= m /\ i <= n
    OBVIOUS
  <2>2. f[i] = g[i]
    BY <2>1
  <2>3. f[i + 1] = step[f[(i + 1) - 1]] /\ g[i + 1] = step[g[(i + 1) - 1]]
    BY <2>1, Zenon DEF StepsFrom
  <2>. QED
    BY <2>1, <2>2, <2>3, Zenon
<1>. HIDE DEF Same
<1>3. Same = Nat
  BY <1>1, <1>2, Induction
<1>. QED
  BY <1>3 DEF Same

LEMMA Recursion ==
    ASSUME NEW S, NEW base \in S, NEW step \in [S -> S]
    PROVE  \E f \in [Nat -> S] : f = [n \in Nat |-> IF n = 0 THEN base ELSE step[f[n - 1]]]
<1>. DEFINE T == {n \in Nat : \E f \in [0..n -> S] : StepsFrom(base, step, n, f)}
<1>1. 0 \in T /\ T \in SUBSET Nat
  <2>1. [i \in 0..0 |-> base] \in [0..0 -> S] /\ StepsFrom(base, step, 0, [i \in 0..0 |-> base])
    BY DEF StepsFrom
  <2>. QED
    BY <2>1
<1>2. ASSUME NEW n \in T PROVE n + 1 \in T
  <2>1. PICK f \in [0..n -> S] : StepsFrom(base, step, n, f)
    OBVIOUS
  <2>2. n \in Nat /\ f[n] \in S /\ step[f[n]] \in S
    BY <2>1
  <2>. DEFINE g == [i \in 0..(n + 1) |-> IF i = n + 1 THEN step[f[n]] ELSE f[i]]
  <2>3. g \in [0..(n + 1) -> S]
    BY <2>1, <2>2
  <2>4. g[0] = base
    BY <2>1, <2>2 DEF StepsFrom
  <2>5. ASSUME NEW k \in 1..(n + 1) PROVE g[k] = step[g[k - 1]]
    <3>1. CASE k = n + 1
      BY <2>2, <3>1
    <3>2. CASE k \in 1..n
      <4>1. g[k] = f[k] /\ g[k - 1] = f[k - 1]
        BY <2>2, <3>2
      <4>2. f[k] = step[f[k - 1]]
        BY <2>1, <3>2 DEF StepsFrom
      <4>. QED
        BY <4>1, <4>2, Zenon
    <3>. QED
      BY <2>2, <3>1, <3>2
  <2>6. StepsFrom(base, step, n + 1, g)
    <3>. HIDE DEF g
    <3>. QED
      BY <2>4, <2>5 DEF StepsFrom
  <2>. QED
    BY <2>2, <2>3, <2>6
<1>. HIDE DEF T
<1>3. T = Nat
  BY <1>1, <1>2, Induction
<1>4. \A n \in Nat : \E f \in [0..n -> S] : StepsFrom(base, step, n, f)
  BY <1>3 DEF T
<1>. DEFINE Part(n) == CHOOSE f \in [0..n -> S] : StepsFrom(base, step, n, f)
            F == [n \in Nat |-> Part(n)[n]]
<1>5. \A n \in Nat : Part(n) \in [0..n -> S] /\ StepsFrom(base, step, n, Part(n))
  BY <1>4, Zenon
<1>. HIDE DEF Part
<1>6. F \in [Nat -> S]
  BY <1>5
<1>7. ASSUME NEW n \in Nat PROVE F[n] = IF n = 0 THEN base ELSE step[F[n - 1]]
  <2>1. CASE n = 0
    BY <1>5, <2>1 DEF StepsFrom
  <2>2. CASE n # 0
    <3>1. n - 1 \in Nat /\ n \in 1..n /\ n - 1 <= n /\ n - 1 <= n - 1
      BY <2>2
    <3>2. Part(n)[n] = step[Part(n)[n - 1]]
      BY <1>5, <3>1, Zenon DEF StepsFrom
    <3>3. Part(n)[n - 1] = Part(n - 1)[n - 1]
      BY <1>5, <3>1, StepsMeet
    <3>. QED
      BY <2>2, <3>1, <3>2, <3>3
  <2>. QED
    BY <2>1, <2>2
<1>8. F = [n \in Nat |-> IF n = 0 THEN base ELSE step[F[n - 1]]]
  <2>1. F = [n \in Nat |-> F[n]]
    OBVIOUS
  <2>. HIDE DEF F
  <2>. QED
    BY <1>7, <2>1
<1>. QED
  BY <1>6, <1>8

-----------------------------------------------------------------------------
\* The places of the commits with some ids are put in their order.
LEMMA OrderRight ==
    ASSUME BundleInv, NEW ids \in SUBSET Ids(bundle), NEW q, q = InBundleOrder(bundle, ids)
    PROVE  /\ q \in Seq(ids)
           /\ \A i, j \in DOMAIN q : q[i] = q[j] => i = j
           /\ \A id \in ids : \E i \in DOMAIN q : q[i] = id
<1>. DEFINE places == {i \in DOMAIN bundle : bundle[i].id \in ids}
            n == Cardinality(places)
            f == InRankOrder(places)
<1>1. DOMAIN bundle = 1..Len(bundle) /\ Len(bundle) \in Nat
  BY DEF BundleInv
<1>2. places \in SUBSET (Nat \ {0}) /\ IsFiniteSet(places)
  <2>1. IsFiniteSet(1..Len(bundle))
    BY <1>1, FS_Interval
  <2>. QED
    BY <1>1, <2>1, FS_Subset
<1>3. /\ f \in [1..n -> places] /\ n \in Nat
      /\ \A i, j \in 1..n : f[i] = f[j] => i = j
      /\ \A o \in places : \E i \in 1..n : f[i] = o
  <2>. HIDE DEF places
  <2>. QED
    BY <1>2, RanksEnumerate
<1>4. q = [i \in 1..n |-> bundle[f[i]].id]
  <2>1. q = [i \in 1..n |-> bundle[CHOOSE o \in places : Rank(places, o) = i].id]
    BY Zenon DEF InBundleOrder, Rank, UpTo
  <2>. QED
    BY <2>1 DEF InRankOrder
<1>. HIDE DEF f, n
<1>5. \A i \in 1..n : q[i] \in ids /\ q[i] = bundle[f[i]].id /\ f[i] \in DOMAIN bundle
  BY <1>3, <1>4
<1>6. q \in Seq(ids) /\ DOMAIN q = 1..n
  BY <1>3, <1>4, <1>5
<1>7. \A i, j \in DOMAIN q : q[i] = q[j] => i = j
  <2>1. ASSUME NEW i \in DOMAIN q, NEW j \in DOMAIN q, q[i] = q[j] PROVE f[i] = f[j]
    <3>1. \A a, b \in DOMAIN bundle : bundle[a].id = bundle[b].id => a = b
      BY Zenon DEF BundleInv
    <3>2. f[i] \in DOMAIN bundle /\ f[j] \in DOMAIN bundle /\ bundle[f[i]].id = bundle[f[j]].id
      BY <1>5, <1>6, <2>1
    <3>. QED
      BY <3>1, <3>2, Zenon
  <2>. QED
    BY <1>3, <1>6, <2>1
<1>8. ASSUME NEW id \in ids PROVE \E i \in DOMAIN q : q[i] = id
  <2>1. PICK o \in places : bundle[o].id = id
    BY DEF Ids
  <2>2. PICK i \in 1..n : f[i] = o
    BY <1>3
  <2>. QED
    BY <1>5, <1>6, <2>1, <2>2
<1>. QED
  BY <1>6, <1>7, <1>8

\* The slots of a commit that name some parents.
LEMMA SlotsRight ==
    ASSUME BundleInv, NEW c \in Ids(bundle), NEW ids
    PROVE  /\ IsFiniteSet(Slots(bundle, c, ids)) /\ Cardinality(Slots(bundle, c, ids)) \in Nat
           /\ Cardinality(Slots(bundle, c, ids)) = 0 <=> ParentMap(bundle)[c] \cap ids = {}
           /\ \A id \in ids : Cardinality(Slots(bundle, c, ids \ {id}))
                                 = Cardinality(Slots(bundle, c, ids)) - Cardinality(Slots(bundle, c, {id}))
<1>1. PICK ps : ps = ById(bundle, c).parents
  OBVIOUS
<1>2. ps \in Seq(Nat) /\ ParentMap(bundle)[c] = ToSet(ps)
  <2>1. PICK i \in DOMAIN bundle : bundle[i].id = c
    BY DEF Ids
  <2>2. (CHOOSE j \in DOMAIN bundle : bundle[j].id = c) = i
    BY <2>1 DEF BundleInv
  <2>3. ps = bundle[i].parents
    BY <1>1, <2>2 DEF ById
  <2>4. ParentMap(bundle)[c] = ToSet(ps)
    BY <1>1 DEF ParentMap
  <2>5. bundle[i] \in [id : Nat, parents : Seq(Nat)]
    <3>1. PICK commits : commits = [id : Nat, parents : Seq(Nat)]
      OBVIOUS
    <3>2. bundle \in Seq(commits)
      BY <3>1 DEF BundleInv
    <3>3. bundle[i] \in commits
      BY <2>1, <3>2
    <3>. QED
      BY <3>1, <3>3
  <2>. QED
    BY <2>3, <2>4, <2>5
<1>3. \A xs : Slots(bundle, c, xs) = {s \in DOMAIN ps : ps[s] \in xs}
  BY <1>1 DEF Slots
<1>4. IsFiniteSet(DOMAIN ps)
  <2>1. DOMAIN ps = 1..Len(ps) /\ Len(ps) \in Nat
    BY <1>2
  <2>. QED
    BY <2>1, FS_Interval
<1>5. \A xs : IsFiniteSet(Slots(bundle, c, xs)) /\ Cardinality(Slots(bundle, c, xs)) \in Nat
  BY <1>3, <1>4, FS_Subset, FS_CardinalityType
<1>6. Cardinality(Slots(bundle, c, ids)) = 0 <=> ParentMap(bundle)[c] \cap ids = {}
  <2>1. Slots(bundle, c, ids) = {} <=> ParentMap(bundle)[c] \cap ids = {}
    BY <1>2, <1>3 DEF ToSet
  <2>. QED
    BY <1>5, <2>1, FS_EmptySet
<1>7. ASSUME NEW id \in ids
      PROVE  Cardinality(Slots(bundle, c, ids \ {id}))
                = Cardinality(Slots(bundle, c, ids)) - Cardinality(Slots(bundle, c, {id}))
  <2>1. PICK all, one : all = Slots(bundle, c, ids) /\ one = Slots(bundle, c, {id})
    OBVIOUS
  <2>2. Slots(bundle, c, ids \ {id}) = all \ one /\ all \cap one = one
    BY <1>3, <1>7, <2>1
  <2>3. IsFiniteSet(all)
    BY <1>5, <2>1
  <2>4. Cardinality(all \ one) = Cardinality(all) - Cardinality(all \cap one)
    BY <2>3, FS_Difference
  <2>. QED
    BY <2>1, <2>2, <2>4
<1>. QED
  BY <1>5, <1>6, <1>7

-----------------------------------------------------------------------------
(***************************************************************************)
(* The sort.  At every turn, what is placed and what waits in the queue    *)
(* are the commits without a parent that is still to place, each once.     *)
(***************************************************************************)
Once(s) == \A i, j \in DOMAIN s : s[i] = s[j] => i = j

Degrees(left) == [c \in Ids(bundle) |-> Cardinality(Slots(bundle, c, left))]

Works == [degree : [Ids(bundle) -> Nat], queue : Seq(Ids(bundle)), result : Seq(Ids(bundle))]

Sorting(w) ==
    /\ w \in Works
    /\ w.degree = Degrees(Ids(bundle) \ ToSet(w.result))
    /\ Once(w.result) /\ Once(w.queue) /\ ToSet(w.result) \cap ToSet(w.queue) = {}
    /\ \A c \in Ids(bundle) : w.degree[c] = 0 <=> c \in ToSet(w.result) \cup ToSet(w.queue)
    /\ \A i, j \in DOMAIN w.result : w.result[i] \in ParentMap(bundle)[w.result[j]] => i < j

StartWork == [degree |-> InDegree(bundle),
              queue  |-> InBundleOrder(bundle, {id \in Ids(bundle) : InDegree(bundle)[id] = 0}),
              result |-> <<>>]

LEMMA SortStarts == ASSUME BundleInv PROVE Sorting(StartWork)
<1>1. PICK d : d = InDegree(bundle)
  OBVIOUS
<1>2. d = Degrees(Ids(bundle)) /\ d \in [Ids(bundle) -> Nat]
  BY <1>1, SlotsRight DEF Degrees, InDegree
<1>3. PICK ready : ready = {id \in Ids(bundle) : d[id] = 0}
  OBVIOUS
<1>4. PICK q : q = InBundleOrder(bundle, ready)
  OBVIOUS
<1>5. /\ q \in Seq(ready) /\ Once(q) /\ \A id \in ready : \E i \in DOMAIN q : q[i] = id
  <2>1. ready \in SUBSET Ids(bundle)
    BY <1>3
  <2>. QED
    BY <1>4, <2>1, OrderRight DEF Once
<1>6. q \in Seq(Ids(bundle)) /\ ToSet(q) = ready
  BY <1>3, <1>5 DEF ToSet
<1>7. PICK w : w = [degree |-> d, queue |-> q, result |-> <<>>]
  OBVIOUS
<1>8. w = StartWork
  BY <1>1, <1>3, <1>4, <1>7 DEF StartWork
<1>9. w.degree = d /\ w.queue = q /\ w.result = <<>> /\ w \in Works
  BY <1>2, <1>6, <1>7 DEF Works
<1>10. ToSet(<<>>) = {} /\ Once(<<>>) /\ DOMAIN <<>> = {}
  BY DEF ToSet, Once
<1>11. Sorting(w)
  <2>1. d = Degrees(Ids(bundle) \ {})
    <3>1. Ids(bundle) \ {} = Ids(bundle)
      OBVIOUS
    <3>. QED
      BY <1>2, <3>1, Zenon
  <2>2. \A c \in Ids(bundle) : d[c] = 0 <=> c \in {} \cup ready
    BY <1>3
  <2>. QED
    BY <1>5, <1>6, <1>9, <1>10, <2>1, <2>2, Zenon DEF Sorting
<1>. QED
  BY <1>8, <1>11

LEMMA SortGoesOn ==
    ASSUME BundleInv, NEW w, Sorting(w), w.queue # <<>>
    PROVE  Sorting(Place(bundle, w)) /\ Len(Place(bundle, w).result) = Len(w.result) + 1
<1>1. PICK d, q, r : d = w.degree /\ q = w.queue /\ r = w.result
  OBVIOUS
<1>2. /\ d \in [Ids(bundle) -> Nat] /\ q \in Seq(Ids(bundle)) /\ r \in Seq(Ids(bundle))
      /\ d = Degrees(Ids(bundle) \ ToSet(r))
      /\ Once(r) /\ Once(q) /\ ToSet(r) \cap ToSet(q) = {}
      /\ \A c \in Ids(bundle) : d[c] = 0 <=> c \in ToSet(r) \cup ToSet(q)
      /\ \A i, j \in DOMAIN r : r[i] \in ParentMap(bundle)[r[j]] => i < j
      /\ q # <<>>
  BY <1>1 DEF Sorting, Works
<1>3. PICK id : id = Head(q)
  OBVIOUS
<1>4. /\ id \in Ids(bundle) /\ id \in ToSet(q) /\ id \notin ToSet(r) /\ d[id] = 0
      /\ Tail(q) \in Seq(Ids(bundle)) /\ Once(Tail(q)) /\ ToSet(Tail(q)) = ToSet(q) \ {id}
  <2>1. q[1] = id /\ 1 \in DOMAIN q /\ Len(q) \in Nat /\ Len(q) # 0 /\ DOMAIN q = 1..Len(q)
    BY <1>2, <1>3
  <2>2. /\ Tail(q) \in Seq(Ids(bundle)) /\ DOMAIN Tail(q) = 1..(Len(q) - 1)
        /\ \A i \in 1..(Len(q) - 1) : Tail(q)[i] = q[i + 1]
    BY <1>2, <2>1
  <2>3. Once(Tail(q))
    <3>1. PICK rest : rest = Tail(q)
      OBVIOUS
    <3>2. ASSUME NEW i \in DOMAIN rest, NEW j \in DOMAIN rest, rest[i] = rest[j] PROVE i = j
      <4>1. i + 1 \in DOMAIN q /\ j + 1 \in DOMAIN q /\ q[i + 1] = q[j + 1]
        BY <2>1, <2>2, <3>1, <3>2
      <4>2. i + 1 = j + 1
        BY <1>2, <4>1, Zenon DEF Once
      <4>. QED
        BY <2>2, <3>1, <4>2
    <3>. QED
      BY <3>1, <3>2, Zenon DEF Once
  <2>4. \A x \in ToSet(Tail(q)) : x \in ToSet(q) \ {id}
    BY <1>2, <2>1, <2>2 DEF ToSet, Once
  <2>5. ASSUME NEW x \in ToSet(q) \ {id} PROVE x \in ToSet(Tail(q))
    <3>1. PICK i \in DOMAIN q : x = q[i]
      BY DEF ToSet
    <3>2. i \in 2..Len(q) /\ i - 1 \in 1..(Len(q) - 1) /\ (i - 1) + 1 = i
      BY <2>1, <2>5, <3>1
    <3>. QED
      BY <2>2, <3>1, <3>2 DEF ToSet
  <2>6. id \in ToSet(q) /\ id \in Ids(bundle)
    BY <1>2, <2>1 DEF ToSet
  <2>. QED
    BY <1>2, <2>2, <2>3, <2>4, <2>5, <2>6
<1>5. PICK left : left = Ids(bundle) \ ToSet(r)
  OBVIOUS
<1>6. PICK e : e = [c \in Ids(bundle) |-> d[c] - Cardinality(Slots(bundle, c, {id}))]
  OBVIOUS
<1>7. e = Degrees(left \ {id}) /\ e \in [Ids(bundle) -> Nat]
  <2>1. id \in left
    BY <1>4, <1>5
  <2>2. ASSUME NEW c \in Ids(bundle)
        PROVE  e[c] = Cardinality(Slots(bundle, c, left \ {id})) /\ e[c] \in Nat
    <3>1. d[c] = Cardinality(Slots(bundle, c, left))
      BY <1>2, <1>5 DEF Degrees
    <3>2. e[c] = d[c] - Cardinality(Slots(bundle, c, {id}))
      BY <1>6
    <3>. QED
      BY <2>1, <3>1, <3>2, SlotsRight
  <2>. QED
    BY <1>6, <2>2 DEF Degrees
<1>8. \A c \in Ids(bundle) : d[c] = 0 => e[c] = 0
  <2>. SUFFICES ASSUME NEW c \in Ids(bundle), d[c] = 0 PROVE e[c] = 0
    OBVIOUS
  <2>1. e[c] \in Nat /\ Cardinality(Slots(bundle, c, {id})) \in Nat
    BY <1>7, SlotsRight
  <2>2. e[c] = 0 - Cardinality(Slots(bundle, c, {id}))
    BY <1>6
  <2>. QED
    BY <2>1, <2>2
<1>9. PICK ready : ready = {c \in Ids(bundle) : e[c] = 0 /\ e[c] # d[c]}
  OBVIOUS
<1>10. ready \cap ToSet(r) = {} /\ ready \cap ToSet(q) = {}
  BY <1>2, <1>9
<1>11. PICK more : more = InBundleOrder(bundle, ready)
  OBVIOUS
<1>12. more \in Seq(Ids(bundle)) /\ Once(more) /\ ToSet(more) = ready
  <2>1. more \in Seq(ready) /\ Once(more) /\ \A c \in ready : \E i \in DOMAIN more : more[i] = c
    <3>1. ready \in SUBSET Ids(bundle)
      BY <1>9
    <3>. QED
      BY <1>11, <3>1, OrderRight DEF Once
  <2>. QED
    BY <1>9, <2>1 DEF ToSet
<1>13. PICK next : next = Tail(q) \o more
  OBVIOUS
<1>14. next \in Seq(Ids(bundle)) /\ Once(next) /\ ToSet(next) = (ToSet(q) \ {id}) \cup ready
  <2>1. PICK t : t = Tail(q)
    OBVIOUS
  <2>2. /\ t \in Seq(Ids(bundle)) /\ Once(t) /\ ToSet(t) = ToSet(q) \ {id}
        /\ \A i \in DOMAIN t, j \in DOMAIN more : t[i] # more[j]
    BY <1>4, <1>10, <1>12, <2>1 DEF ToSet
  <2>3. /\ next \in Seq(Ids(bundle)) /\ DOMAIN next = 1..(Len(t) + Len(more))
        /\ \A i \in 1..Len(t) : next[i] = t[i]
        /\ \A i \in 1..Len(more) : next[Len(t) + i] = more[i]
        /\ \A i \in (Len(t) + 1)..(Len(t) + Len(more)) : next[i] = more[i - Len(t)]
        /\ Len(t) \in Nat /\ Len(more) \in Nat /\ DOMAIN t = 1..Len(t) /\ DOMAIN more = 1..Len(more)
    BY <1>12, <1>13, <2>1, <2>2
  <2>4. Once(next)
    <3>. SUFFICES ASSUME NEW i \in DOMAIN next, NEW j \in DOMAIN next, next[i] = next[j], i < j PROVE FALSE
      BY <2>3 DEF Once
    <3>1. CASE j <= Len(t)
      BY <2>2, <2>3, <3>1 DEF Once
    <3>2. CASE i <= Len(t) /\ j > Len(t)
      <4>1. i \in DOMAIN t /\ j - Len(t) \in DOMAIN more /\ next[i] = t[i] /\ next[j] = more[j - Len(t)]
        BY <2>3, <3>2
      <4>. QED
        BY <2>2, <4>1
    <3>3. CASE i > Len(t)
      <4>1. /\ i - Len(t) \in DOMAIN more /\ j - Len(t) \in DOMAIN more /\ i - Len(t) # j - Len(t)
            /\ next[i] = more[i - Len(t)] /\ next[j] = more[j - Len(t)]
        BY <2>3, <3>3
      <4>. QED
        BY <1>12, <4>1 DEF Once
    <3>. QED
      BY <2>3, <3>1, <3>2, <3>3
  <2>5. ToSet(next) = ToSet(t) \cup ToSet(more)
    <3>1. \A x \in ToSet(next) : x \in ToSet(t) \cup ToSet(more)
      <4>. SUFFICES ASSUME NEW i \in DOMAIN next PROVE next[i] \in ToSet(t) \cup ToSet(more)
        BY DEF ToSet
      <4>1. CASE i <= Len(t)
        BY <2>3, <4>1 DEF ToSet
      <4>2. CASE i > Len(t)
        <5>1. i - Len(t) \in DOMAIN more /\ next[i] = more[i - Len(t)]
          BY <2>3, <4>2
        <5>. QED
          BY <5>1 DEF ToSet
      <4>. QED
        BY <2>3, <4>1, <4>2
    <3>2. \A x \in ToSet(t) : x \in ToSet(next)
      <4>. SUFFICES ASSUME NEW i \in DOMAIN t PROVE t[i] \in ToSet(next)
        BY DEF ToSet
      <4>1. i \in DOMAIN next /\ next[i] = t[i]
        BY <2>3
      <4>. QED
        BY <4>1 DEF ToSet
    <3>3. \A x \in ToSet(more) : x \in ToSet(next)
      <4>. SUFFICES ASSUME NEW i \in DOMAIN more PROVE more[i] \in ToSet(next)
        BY DEF ToSet
      <4>1. Len(t) + i \in DOMAIN next /\ next[Len(t) + i] = more[i]
        BY <2>3
      <4>. QED
        BY <4>1 DEF ToSet
    <3>. QED
      BY <3>1, <3>2, <3>3
  <2>. QED
    BY <1>12, <2>2, <2>3, <2>4, <2>5
<1>15. PICK done : done = Append(r, id)
  OBVIOUS
<1>16. /\ done \in Seq(Ids(bundle)) /\ Len(done) = Len(r) + 1 /\ DOMAIN done = 1..(Len(r) + 1)
       /\ Len(r) \in Nat /\ DOMAIN r = 1..Len(r)
       /\ \A i \in DOMAIN r : done[i] = r[i] /\ i \in DOMAIN done
       /\ done[Len(r) + 1] = id
  BY <1>2, <1>4, <1>15
<1>17. ToSet(done) = ToSet(r) \cup {id} /\ Once(done)
  <2>1. \A x : x \in ToSet(done) <=> x \in ToSet(r) \/ x = id
    BY <1>16 DEF ToSet
  <2>2. Once(done)
    BY <1>2, <1>4, <1>16 DEF Once, ToSet
  <2>. QED
    BY <2>1, <2>2
<1>18. \A i, j \in DOMAIN done : done[i] \in ParentMap(bundle)[done[j]] => i < j
  <2>. SUFFICES ASSUME NEW i \in DOMAIN done, NEW j \in DOMAIN done,
                       done[i] \in ParentMap(bundle)[done[j]]
                PROVE  i < j
    OBVIOUS
  <2>1. CASE i \in DOMAIN r /\ j \in DOMAIN r
    BY <1>2, <1>16, <2>1
  <2>2. ASSUME i = Len(r) + 1 PROVE FALSE
    <3>1. done[j] \in Ids(bundle) /\ d[done[j]] = 0
      BY <1>2, <1>4, <1>16, <1>17 DEF ToSet
    <3>2. Cardinality(Slots(bundle, done[j], left)) = 0
      BY <1>2, <1>5, <3>1 DEF Degrees
    <3>3. ParentMap(bundle)[done[j]] \cap left = {}
      BY <3>1, <3>2, SlotsRight
    <3>4. id \in left
      BY <1>4, <1>5
    <3>. QED
      BY <1>16, <2>2, <3>3, <3>4
  <2>3. i \in DOMAIN r
    BY <1>16, <2>2
  <2>. QED
    BY <1>16, <2>1, <2>3
<1>19. \A c \in Ids(bundle) : e[c] = 0 <=> c \in ToSet(done) \cup ToSet(next)
  BY <1>2, <1>4, <1>8, <1>9, <1>14, <1>17
<1>20. ToSet(done) \cap ToSet(next) = {}
  BY <1>2, <1>4, <1>10, <1>14, <1>17
<1>21. PICK x : x = [degree |-> e, queue |-> next, result |-> done]
  OBVIOUS
<1>22. x = Place(bundle, w)
  BY <1>1, <1>3, <1>6, <1>9, <1>11, <1>13, <1>15, <1>21 DEF Place
<1>23. x.degree = e /\ x.queue = next /\ x.result = done /\ x \in Works
  BY <1>7, <1>14, <1>16, <1>21 DEF Works
<1>24. e = Degrees(Ids(bundle) \ ToSet(done))
  <2>1. Ids(bundle) \ ToSet(done) = left \ {id}
    BY <1>5, <1>17
  <2>. QED
    BY <1>7, <2>1
<1>25. Sorting(x)
  BY <1>14, <1>17, <1>18, <1>19, <1>20, <1>23, <1>24 DEF Sorting
<1>. QED
  BY <1>1, <1>16, <1>22, <1>23, <1>25

-----------------------------------------------------------------------------
SortTurn(w) == IF w.queue = <<>> THEN w ELSE Place(bundle, w)

SortEquation(f) ==
    f = [n \in Nat |-> IF n = 0 THEN StartWork
                       ELSE IF f[n - 1].queue = <<>> THEN f[n - 1] ELSE Place(bundle, f[n - 1])]

LEMMA SortNamed ==
    ASSUME NEW sorted, sorted = (CHOOSE f : SortEquation(f))[Len(bundle)].result
    PROVE  TopologicalSort(bundle) = sorted \o InBundleOrder(bundle, Ids(bundle) \ ToSet(sorted))
BY DEF TopologicalSort, SortEquation, StartWork

LEMMA SortRuns ==
    ASSUME BundleInv
    PROVE  \E f : SortEquation(f) /\ \A n \in Nat : Sorting(f[n])
<1>. DEFINE S == {w \in Works : Sorting(w)}
            step == [w \in S |-> SortTurn(w)]
<1>1. StartWork \in S
  BY SortStarts DEF Sorting
<1>2. step \in [S -> S]
  <2>. SUFFICES ASSUME NEW w \in S PROVE SortTurn(w) \in S
    OBVIOUS
  <2>. QED
    BY SortGoesOn DEF SortTurn, Sorting
<1>. HIDE DEF S
<1>3. PICK f \in [Nat -> S] : f = [n \in Nat |-> IF n = 0 THEN StartWork ELSE step[f[n - 1]]]
  <2>. HIDE DEF step
  <2>. QED
    BY <1>1, <1>2, Recursion
<1>4. ASSUME NEW n \in Nat
      PROVE  f[n] = IF n = 0 THEN StartWork
                    ELSE IF f[n - 1].queue = <<>> THEN f[n - 1] ELSE Place(bundle, f[n - 1])
  <2>1. CASE n = 0
    BY <1>3, <2>1, Zenon
  <2>2. CASE n # 0
    <3>0. n - 1 \in Nat
      BY <2>2
    <3>1. n - 1 \in Nat /\ f[n - 1] \in S
      BY <1>3, <3>0, Zenon
    <3>2. f[n] = step[f[n - 1]]
      BY <1>3, <2>2, Zenon
    <3>3. f[n] = SortTurn(f[n - 1])
      BY <3>1, <3>2
    <3>. QED
      BY <2>2, <3>3, Zenon DEF SortTurn
  <2>. QED
    BY <2>1, <2>2
<1>5. SortEquation(f)
  <2>1. f = [n \in Nat |-> f[n]]
    BY <1>3
  <2>. QED
    BY <1>4, <2>1, Zenon DEF SortEquation
<1>. QED
  BY <1>3, <1>5 DEF S

LEMMA SortEnds ==
    ASSUME BundleInv
    PROVE  \E w : /\ Sorting(w) /\ (w.queue = <<>> \/ Len(w.result) = Len(bundle))
                  /\ TopologicalSort(bundle)
                        = w.result \o InBundleOrder(bundle, Ids(bundle) \ ToSet(w.result))
<1>. DEFINE run == CHOOSE f : SortEquation(f)
<1>1. PICK g : SortEquation(g) /\ \A n \in Nat : Sorting(g[n])
  BY SortRuns
<1>2. SortEquation(run)
  BY <1>1, Zenon
<1>. HIDE DEF run
<1>3. /\ run[0] = StartWork
      /\ \A n \in Nat : run[n + 1] = IF run[n].queue = <<>> THEN run[n] ELSE Place(bundle, run[n])
  <2>1. run[0] = StartWork
    BY <1>2 DEF SortEquation
  <2>2. ASSUME NEW n \in Nat
        PROVE  run[n + 1] = IF run[n].queue = <<>> THEN run[n] ELSE Place(bundle, run[n])
    <3>1. n + 1 \in Nat /\ n + 1 # 0 /\ (n + 1) - 1 = n
      OBVIOUS
    <3>. QED
      BY <1>2, <3>1, Zenon DEF SortEquation
  <2>. QED
    BY <2>1, <2>2
<1>. DEFINE T == {n \in Nat : Sorting(run[n]) /\ (run[n].queue = <<>> \/ Len(run[n].result) = n)}
<1>4. 0 \in T /\ T \in SUBSET Nat
  <2>1. StartWork.result = <<>>
    BY DEF StartWork
  <2>. QED
    BY <1>3, <2>1, SortStarts
<1>5. ASSUME NEW n \in T PROVE n + 1 \in T
  <2>1. PICK w, v : w = run[n] /\ v = run[n + 1]
    OBVIOUS
  <2>2. Sorting(w) /\ (w.queue = <<>> \/ Len(w.result) = n) /\ n \in Nat
    BY <2>1
  <2>3. v = IF w.queue = <<>> THEN w ELSE Place(bundle, w)
    BY <1>3, <2>1, <2>2
  <2>4. Sorting(v) /\ (v.queue = <<>> \/ Len(v.result) = n + 1)
    BY <2>2, <2>3, SortGoesOn
  <2>. QED
    BY <2>1, <2>2, <2>4
<1>. HIDE DEF T
<1>6. T = Nat
  BY <1>4, <1>5, Induction
<1>7. Len(bundle) \in T
  BY <1>6 DEF BundleInv
<1>8. Sorting(run[Len(bundle)]) /\ (run[Len(bundle)].queue = <<>> \/ Len(run[Len(bundle)].result) = Len(bundle))
  BY <1>7 DEF T
<1>9. PICK w : w = run[Len(bundle)]
  OBVIOUS
<1>10. TopologicalSort(bundle) = w.result \o InBundleOrder(bundle, Ids(bundle) \ ToSet(w.result))
  BY <1>9, SortNamed DEF run
<1>. QED
  BY <1>8, <1>9, <1>10

\* Every commit is placed.
LEMMA SortRight ==
    ASSUME BundleInv, NEW sorted, sorted = TopologicalSort(bundle)
    PROVE  ParentsFirst(sorted) /\ sorted \in Seq(Ids(bundle))
<1>1. PICK w : /\ Sorting(w) /\ (w.queue = <<>> \/ Len(w.result) = Len(bundle))
               /\ sorted = w.result \o InBundleOrder(bundle, Ids(bundle) \ ToSet(w.result))
  BY SortEnds
<1>2. PICK r, q, d : r = w.result /\ q = w.queue /\ d = w.degree
  OBVIOUS
<1>3. /\ r \in Seq(Ids(bundle)) /\ Once(r) /\ d = Degrees(Ids(bundle) \ ToSet(r))
      /\ \A c \in Ids(bundle) : d[c] = 0 <=> c \in ToSet(r) \cup ToSet(q)
      /\ \A i, j \in DOMAIN r : r[i] \in ParentMap(bundle)[r[j]] => i < j
      /\ (q = <<>> \/ Len(r) = Len(bundle))
  BY <1>1, <1>2 DEF Sorting, Works
<1>4. DOMAIN r = 1..Len(r) /\ Len(r) \in Nat /\ DOMAIN bundle = 1..Len(bundle) /\ Len(bundle) \in Nat
  BY <1>3 DEF BundleInv
<1>. DEFINE places == 1..Len(r)
            all == 1..Len(bundle)
<1>5. /\ IsFiniteSet(places) /\ Cardinality(places) = Len(r)
      /\ IsFiniteSet(all) /\ Cardinality(all) = Len(bundle)
  <2>1. ASSUME NEW n \in Nat PROVE IsFiniteSet(1..n) /\ Cardinality(1..n) = n
    BY FS_Interval
  <2>. QED
    BY <1>4, <2>1, Zenon
<1>6. IsFiniteSet(Ids(bundle)) /\ Cardinality(Ids(bundle)) = Len(bundle)
  <2>. DEFINE f == [i \in 1..Len(bundle) |-> bundle[i].id]
  <2>1. f \in Bijection(1..Len(bundle), Ids(bundle))
    <3>1. \A i, j \in DOMAIN bundle : bundle[i].id = bundle[j].id => i = j
      BY Zenon DEF BundleInv
    <3>2. f \in Injection(1..Len(bundle), Ids(bundle))
      BY <1>4, <3>1 DEF Injection, IsInjective, Ids
    <3>3. f \in Surjection(1..Len(bundle), Ids(bundle))
      BY <1>4 DEF Surjection, Ids
    <3>. QED
      BY <3>2, <3>3 DEF Bijection
  <2>. HIDE DEF f
  <2>. QED
    BY <1>5, <2>1, FS_Bijection DEF ExistsBijection
<1>7. r \in Injection(1..Len(r), Ids(bundle)) /\ \A i \in DOMAIN r : r[i] \in Ids(bundle)
  <2>1. r \in [1..Len(r) -> Ids(bundle)]
    BY <1>3
  <2>. QED
    BY <1>3, <1>4, <2>1 DEF Injection, IsInjective, Once
<1>8. ToSet(r) = Ids(bundle)
  <2>1. ToSet(r) \subseteq Ids(bundle)
    BY <1>7 DEF ToSet
  <2>2. CASE Len(r) = Len(bundle)
    <3>1. r \in Surjection(1..Len(r), Ids(bundle))
      BY <1>5, <1>6, <1>7, <2>2, FS_Injection
    <3>. QED
      BY <1>4, <2>1, <3>1 DEF Surjection, ToSet
  <2>3. CASE q = <<>>
    <3>. DEFINE left == Ids(bundle) \ ToSet(r)
    <3>. SUFFICES ASSUME left # {} PROVE FALSE
      BY <2>1
    <3>1. left \in SUBSET Nat
      BY Graph
    <3>2. PICK c \in left : \A y \in left : ~(y < c)
      <4>. HIDE DEF left
      <4>. QED
        BY <3>1, LeastNumber
    <3>3. ParentMap(bundle)[c] \cap left = {}
      BY <3>2, Graph
    <3>4. Cardinality(Slots(bundle, c, left)) = 0
      <4>1. c \in Ids(bundle)
        BY <3>2
      <4>. HIDE DEF left
      <4>. QED
        BY <3>3, <4>1, SlotsRight
    <3>5. d[c] = 0
      BY <1>3, <3>2, <3>4 DEF Degrees
    <3>6. ToSet(q) = {}
      BY <2>3 DEF ToSet
    <3>. QED
      BY <1>3, <3>2, <3>5, <3>6
  <2>. QED
    BY <1>3, <2>2, <2>3
<1>9. Len(r) = Len(bundle)
  <2>1. r \in Surjection(1..Len(r), Ids(bundle))
    BY <1>4, <1>7, <1>8 DEF Surjection, Injection, ToSet
  <2>2. r \in Bijection(1..Len(r), Ids(bundle))
    BY <1>7, <2>1 DEF Bijection
  <2>. QED
    BY <1>5, <1>6, <2>2, FS_Bijection DEF ExistsBijection
<1>10. sorted = r
  <2>1. PICK rest : rest = InBundleOrder(bundle, Ids(bundle) \ ToSet(r))
    OBVIOUS
  <2>2. rest \in Seq(Ids(bundle) \ ToSet(r))
    <3>1. (Ids(bundle) \ ToSet(r)) \in SUBSET Ids(bundle)
      OBVIOUS
    <3>. QED
      BY <2>1, <3>1, OrderRight
  <2>3. rest = <<>>
    BY <1>8, <2>2
  <2>4. sorted = r \o rest
    BY <1>1, <1>2, <2>1
  <2>. QED
    BY <1>3, <2>3, <2>4
<1>. QED
  BY <1>3, <1>8, <1>9, <1>10 DEF ParentsFirst

\* The last commit is a tip, and with one tip it has all in its history.
LEMMA SortEndsInTip ==
    ASSUME BundleInv, NEW sorted \in Seq(Ids(bundle)), ParentsFirst(sorted)
    PROVE  EndsInTip(sorted)
<1>. SUFFICES ASSUME bundle # <<>>
              PROVE  /\ Last(sorted) \in Tips(bundle)
                     /\ Cardinality(Tips(bundle)) = 1 =>
                           \A id \in Ids(bundle) : Reaches(bundle, Last(sorted), id)
  BY DEF EndsInTip
<1>1. Len(sorted) = Len(bundle) /\ Len(bundle) \in Nat /\ Len(bundle) # 0 /\ DOMAIN sorted = 1..Len(sorted)
  BY DEF ParentsFirst, BundleInv
<1>2. PICK n : n = Len(sorted)
  OBVIOUS
<1>3. n \in DOMAIN sorted /\ Last(sorted) = sorted[n] /\ \A i \in DOMAIN sorted : i <= n
  BY <1>1, <1>2 DEF Last
<1>4. PICK tip : tip = Last(sorted)
  OBVIOUS
<1>5. tip \in Ids(bundle)
  BY <1>3, <1>4
<1>6. \A c \in Ids(bundle) : tip \notin ParentMap(bundle)[c]
  <2>. SUFFICES ASSUME NEW c \in Ids(bundle), tip \in ParentMap(bundle)[c] PROVE FALSE
    OBVIOUS
  <2>1. PICK j \in DOMAIN sorted : sorted[j] = c
    BY DEF ParentsFirst, ToSet
  <2>2. n < j /\ n \in Nat /\ j \in Nat
    BY <1>1, <1>2, <1>3, <1>4, <2>1 DEF ParentsFirst
  <2>. QED
    BY <1>3, <2>1, <2>2
<1>7. Tips(bundle) = {c \in Ids(bundle) : \A b \in Ids(bundle) : c \notin ParentMap(bundle)[b]}
  BY Graph DEF Tips, Ids
<1>8. tip \in Tips(bundle)
  BY <1>5, <1>6, <1>7
<1>9. ASSUME Cardinality(Tips(bundle)) = 1, NEW id \in Ids(bundle) PROVE Reaches(bundle, tip, id)
  <2>1. IsFiniteSet(Tips(bundle))
    BY <1>7, Graph, FS_Subset
  <2>2. Tips(bundle) = {tip}
    <3>1. Cardinality({tip}) = 1 /\ {tip} \in SUBSET Tips(bundle)
      BY <1>8, FS_Singleton
    <3>. QED
      BY <1>9, <2>1, <3>1, FS_Subset
  <2>3. PICK graph : graph = ParentMap(bundle)
    OBVIOUS
  <2>4. DOMAIN graph \subseteq Walk(graph, {tip})
    <3>. DEFINE rank == [c \in DOMAIN graph |-> c]
    <3>1. IsFiniteSet(DOMAIN graph) /\ DOMAIN graph = Ids(bundle)
      BY <2>3, Graph
    <3>2. \A c \in DOMAIN graph : rank[c] \in Nat /\ \A p \in graph[c] \cap DOMAIN graph : rank[p] < rank[c]
      BY <2>3, <3>1, Graph
    <3>3. {c \in DOMAIN graph : \A b \in DOMAIN graph : c \notin graph[b]} = {tip}
      BY <1>7, <2>2, <2>3, <3>1
    <3>. HIDE DEF rank
    <3>. QED
      BY <3>1, <3>2, <3>3, OneTipHasAll
  <2>5. id \in Walk(ParentMap(bundle), {tip})
    BY <2>3, <2>4, Graph
  <2>. QED
    BY <2>5, WalkReaches
<1>. QED
  BY <1>4, <1>8, <1>9

(***************************************************************************)
(* _topological_sort puts every commit of a push after its parents, each   *)
(* once, and last a tip that has all others in its history if it is the    *)
(* only one (musehub_wire.py:243 takes it for the head), for bundles of    *)
(* any length in any order.                                                *)
(***************************************************************************)
THEOREM ParentsAlwaysFirst == Spec => []SortedParentsFirst
<1>1. Init => BundleInv
  BY DEF Init, BundleInv
<1>2. BundleInv => SortedParentsFirst
  <2>. SUFFICES ASSUME BundleInv PROVE SortedParentsFirst
    OBVIOUS
  <2>1. PICK sorted : sorted = TopologicalSort(bundle)
    OBVIOUS
  <2>2. ParentsFirst(sorted) /\ EndsInTip(sorted)
    BY <2>1, SortRight, SortEndsInTip
  <2>. QED
    BY <2>1, <2>2 DEF SortedParentsFirst, DagOrder
<1>. QED
  BY <1>1, <1>2, BundleStep, PTL DEF Spec

-----------------------------------------------------------------------------
LEMMA ParentsAreNumbers ==
    ASSUME BundleInv, NEW i \in DOMAIN bundle
    PROVE  bundle[i].parents \in Seq(Nat)
<1>1. PICK commits : commits = [id : Nat, parents : Seq(Nat)]
  OBVIOUS
<1>2. bundle \in Seq(commits)
  BY <1>1 DEF BundleInv
<1>3. bundle[i] \in commits
  BY <1>2
<1>. QED
  BY <1>1, <1>3

(***************************************************************************)
(* The search for a common base goes through the history of what is wanted *)
(* level by level.                                                         *)
(***************************************************************************)
FirstLevel(missing) == [visited |-> {}, batch |-> missing]

LevelEquation(f, missing) ==
    f = [n \in Nat |-> IF n = 0 THEN [visited |-> {}, batch |-> missing]
                       ELSE NextLevel(ParentMap(bundle), f[n - 1])]

MetAt(level, ack) ==
    [n \in 0..Len(bundle) |->
        UNION {FirstAcked(ById(bundle, id), ack) : id \in level[n].batch \cap Ids(bundle)}]

Hits(found) == {n \in 0..Len(bundle) : found[n] # {}}

LEMMA BasesNamed ==
    ASSUME NEW want, NEW ack, NEW level, level = CHOOSE f : LevelEquation(f, want \ ack)
    PROVE  CommonBases(bundle, want, ack)
             = IF Hits(MetAt(level, ack)) = {} THEN {}
               ELSE MetAt(level, ack)[CHOOSE n \in Hits(MetAt(level, ack)) :
                                         \A m \in Hits(MetAt(level, ack)) : n <= m]
BY DEF CommonBases, LevelEquation, Hits, MetAt

LEMMA LevelsExist ==
    ASSUME BundleInv, NEW missing \in SUBSET Ids(bundle)
    PROVE  \E f : LevelEquation(f, missing)
<1>. DEFINE S == [visited : SUBSET Nat, batch : SUBSET Nat]
            graph == ParentMap(bundle)
            step == [level \in S |-> NextLevel(graph, level)]
<1>0. PICK base : base = FirstLevel(missing)
  OBVIOUS
<1>1. base \in S
  BY <1>0, Graph DEF FirstLevel
<1>2. step \in [S -> S]
  <2>. SUFFICES ASSUME NEW level \in S PROVE NextLevel(graph, level) \in S
    OBVIOUS
  <2>1. \A c \in DOMAIN graph : graph[c] \subseteq Nat
    <3>1. \A i \in DOMAIN bundle : ToSet(bundle[i].parents) \subseteq Nat
      BY ParentsAreNumbers DEF ToSet
    <3>2. \A c \in DOMAIN graph : \E i \in DOMAIN bundle : c = bundle[i].id
      BY Graph DEF Ids
    <3>. QED
      BY <3>1, <3>2, Graph
  <2>2. PICK v, b : v = level.visited /\ b = level.batch
    OBVIOUS
  <2>3. v \in SUBSET Nat /\ b \in SUBSET Nat
    BY <2>2
  <2>. HIDE DEF graph
  <2>4. (UNION {graph[id] : id \in b \cap DOMAIN graph}) \ (v \cup b) \in SUBSET Nat
    BY <2>1
  <2>. QED
    BY <2>2, <2>3, <2>4 DEF NextLevel
<1>. HIDE DEF S
<1>3. PICK f \in [Nat -> S] : f = [n \in Nat |-> IF n = 0 THEN base ELSE step[f[n - 1]]]
  <2>1. PICK turn : turn = step
    OBVIOUS
  <2>2. turn \in [S -> S]
    BY <1>2, <2>1, Zenon
  <2>3. \E f \in [Nat -> S] : f = [n \in Nat |-> IF n = 0 THEN base ELSE turn[f[n - 1]]]
    BY <1>1, <2>2, Recursion, Z3
  <2>. QED
    BY <2>1, <2>3, Zenon
<1>4. ASSUME NEW n \in Nat
      PROVE  f[n] = IF n = 0 THEN base ELSE NextLevel(graph, f[n - 1])
  <2>1. CASE n = 0
    BY <1>3, <2>1, Zenon
  <2>2. CASE n # 0
    <3>0. n - 1 \in Nat
      BY <2>2
    <3>1. n - 1 \in Nat /\ f[n - 1] \in S
      BY <1>3, <3>0, Zenon
    <3>2. f[n] = step[f[n - 1]]
      BY <1>3, <2>2, Zenon
    <3>. HIDE DEF graph
    <3>3. f[n] = NextLevel(graph, f[n - 1])
      BY <3>1, <3>2
    <3>. QED
      BY <2>2, <3>3, Zenon
  <2>. QED
    BY <2>1, <2>2
<1>5. LevelEquation(f, missing)
  <2>1. f = [n \in Nat |-> f[n]]
    BY <1>3
  <2>. QED
    BY <1>0, <1>4, <2>1, Zenon DEF LevelEquation, FirstLevel
<1>. QED
  BY <1>5

\* What the levels have visited and are about to visit, after n of them.
Levelled(level, missing) ==
    /\ level[0].visited = {} /\ level[0].batch = missing
    /\ \A n \in Nat :
          /\ level[n + 1].visited = level[n].visited \cup level[n].batch
          /\ level[n + 1].batch = ParentsOfAll(ParentMap(bundle), level[n].batch)
                                     \ (level[n].visited \cup level[n].batch)

LEMMA LevelsUnfold ==
    ASSUME BundleInv, NEW missing \in SUBSET Ids(bundle),
           NEW level, LevelEquation(level, missing)
    PROVE  Levelled(level, missing)
<1>1. LevelEquation(level, missing)
  OBVIOUS
<1>2. level[0] = [visited |-> {}, batch |-> missing]
  BY <1>1 DEF LevelEquation
<1>3. ASSUME NEW n \in Nat PROVE level[n + 1] = NextLevel(ParentMap(bundle), level[n])
  <2>1. n + 1 \in Nat /\ n + 1 # 0 /\ (n + 1) - 1 = n
    OBVIOUS
  <2>. QED
    BY <1>1, <2>1, Zenon DEF LevelEquation
<1>4. ASSUME NEW n \in Nat
      PROVE  /\ level[n + 1].visited = level[n].visited \cup level[n].batch
             /\ level[n + 1].batch = ParentsOfAll(ParentMap(bundle), level[n].batch)
                                        \ (level[n].visited \cup level[n].batch)
  <2>1. PICK graph, v, b : graph = ParentMap(bundle) /\ v = level[n].visited /\ b = level[n].batch
    OBVIOUS
  <2>2. level[n + 1] = NextLevel(graph, level[n])
    BY <1>3, <2>1
  <2>3. level[n + 1] = [visited |-> v \cup b, batch |-> ParentsOfAll(graph, b) \ (v \cup b)]
    BY <2>1, <2>2, Zenon DEF NextLevel, ParentsOfAll
  <2>. QED
    BY <2>1, <2>3
<1>5. level[0].visited = {} /\ level[0].batch = missing
  BY <1>2
<1>. QED
  BY <1>4, <1>5, Zenon DEF Levelled

\* The levels stay in the history of what is missing.
LEMMA LevelsStayIn ==
    ASSUME NEW level, NEW missing, Levelled(level, missing),
           NEW C, missing \subseteq C, Closed(ParentMap(bundle), C), NEW n \in Nat
    PROVE  level[n].visited \cup level[n].batch \subseteq C
<1>. DEFINE T == {k \in Nat : level[k].visited \cup level[k].batch \subseteq C}
<1>1. 0 \in T /\ T \in SUBSET Nat
  BY DEF Levelled
<1>2. ASSUME NEW k \in T PROVE k + 1 \in T
  <2>1. ParentsOfAll(ParentMap(bundle), level[k].batch) \subseteq C
    BY DEF ParentsOfAll, Closed
  <2>. QED
    BY <2>1 DEF Levelled
<1>. HIDE DEF T
<1>3. T = Nat
  BY <1>1, <1>2, Induction
<1>. QED
  BY <1>3 DEF T

\* A level with a commit of the bundle has visited one more of them than the
\* last: after as many levels as there are commits, there is none.
LEMMA LevelsEnd ==
    ASSUME BundleInv, NEW level, NEW missing, Levelled(level, missing)
    PROVE  level[Len(bundle)].batch \cap Ids(bundle) = {}
<1>. DEFINE D == Ids(bundle)
            V(k) == level[k].visited \cap D
            B(k) == level[k].batch \cap D
            T == {k \in Nat : V(k) \cap B(k) = {} /\ (B(k) = {} \/ Cardinality(V(k)) >= k)}
<1>1. IsFiniteSet(D) /\ DOMAIN ParentMap(bundle) = D
      /\ Len(bundle) \in Nat /\ Cardinality(D) <= Len(bundle) /\ Cardinality(D) \in Nat
  BY Graph
<1>2. \A k : /\ IsFiniteSet(V(k)) /\ Cardinality(V(k)) \in Nat
             /\ IsFiniteSet(B(k)) /\ Cardinality(B(k)) \in Nat
  BY <1>1, FS_Intersection, FS_CardinalityType
<1>. HIDE DEF D
<1>3. 0 \in T /\ T \in SUBSET Nat
  <2>1. V(0) = {}
    BY DEF Levelled
  <2>2. Cardinality(V(0)) >= 0
    <3>1. Cardinality(V(0)) \in Nat
      BY <1>2
    <3>. QED
      BY <3>1
  <2>. QED
    BY <2>1, <2>2
<1>4. ASSUME NEW k \in T, B(k) # {} PROVE Cardinality(V(k) \cup B(k)) >= k + 1
  <2>1. PICK v, b : v = V(k) /\ b = B(k)
    OBVIOUS
  <2>2. v \cap b = {} /\ IsFiniteSet(v) /\ IsFiniteSet(b) /\ b # {} /\ Cardinality(v) >= k
    BY <1>2, <1>4, <2>1
  <2>3. Cardinality(b) # 0 /\ Cardinality(b) \in Nat /\ Cardinality(v) \in Nat /\ k \in Nat
    BY <2>2, FS_EmptySet, FS_CardinalityType
  <2>4. Cardinality(v \cup b) = Cardinality(v) + Cardinality(b) - Cardinality(v \cap b)
    BY <2>2, FS_Union
  <2>5. Cardinality(v \cap b) = 0
    BY <2>2, FS_EmptySet
  <2>6. Cardinality(v \cup b) >= k + 1
    BY <2>2, <2>3, <2>4, <2>5
  <2>. QED
    BY <2>1, <2>6
<1>5. ASSUME NEW k \in T PROVE k + 1 \in T
  <2>1. k \in Nat /\ V(k + 1) = V(k) \cup B(k)
    BY DEF Levelled
  <2>2. B(k + 1) \cap V(k + 1) = {}
    BY DEF Levelled
  <2>3. B(k) = {} => B(k + 1) = {}
    BY <1>1 DEF Levelled, ParentsOfAll, D
  <2>4. B(k) # {} => Cardinality(V(k + 1)) >= k + 1
    BY <1>4, <2>1
  <2>. QED
    BY <2>1, <2>2, <2>3, <2>4
<1>6. T = Nat
  <2>. HIDE DEF T
  <2>. QED
    BY <1>3, <1>5, Induction
<1>. DEFINE n == Len(bundle)
<1>7. ASSUME B(n) # {} PROVE FALSE
  <2>1. n \in T
    BY <1>1, <1>6
  <2>2. Cardinality(V(n) \cup B(n)) >= n + 1
    BY <1>4, <1>7, <2>1
  <2>3. Cardinality(V(n) \cup B(n)) <= Cardinality(D) /\ Cardinality(V(n) \cup B(n)) \in Nat
    <3>1. V(n) \cup B(n) \in SUBSET D
      OBVIOUS
    <3>. QED
      BY <1>1, <3>1, FS_Subset, FS_CardinalityType
  <2>. QED
    BY <1>1, <2>2, <2>3
<1>. QED
  BY <1>7 DEF D

\* What is met in a level: an acknowledged parent of a commit of the level,
\* if there is one.
LEMMA FirstAckedRight ==
    ASSUME BundleInv, NEW id \in Ids(bundle), NEW ack
    PROVE  /\ FirstAcked(ById(bundle, id), ack) \subseteq ParentMap(bundle)[id] \cap ack
           /\ FirstAcked(ById(bundle, id), ack) = {} => ParentMap(bundle)[id] \cap ack = {}
<1>1. PICK ps : ps = ById(bundle, id).parents
  OBVIOUS
<1>2. ParentMap(bundle)[id] = ToSet(ps)
  BY <1>1 DEF ParentMap
<1>3. DOMAIN ps \in SUBSET Nat
  <2>1. PICK i \in DOMAIN bundle : ById(bundle, id) = bundle[i]
    BY DEF ById, Ids
  <2>2. ps \in Seq(Nat)
    BY <1>1, <2>1, ParentsAreNumbers
  <2>. QED
    BY <2>2
<1>. DEFINE acked == {i \in DOMAIN ps : ps[i] \in ack}
<1>4. FirstAcked(ById(bundle, id), ack) = {ps[i] : i \in {k \in acked : \A j \in acked : k <= j}}
  BY <1>1 DEF FirstAcked
<1>5. ASSUME NEW p \in ToSet(ps) \cap ack PROVE FirstAcked(ById(bundle, id), ack) # {}
  <2>1. acked # {} /\ acked \in SUBSET Nat
    BY <1>3, <1>5 DEF ToSet
  <2>. HIDE DEF acked
  <2>2. PICK k \in acked : \A j \in acked : ~(j < k)
    BY <2>1, LeastNumber
  <2>3. k \in {i \in acked : \A j \in acked : i <= j}
    BY <2>1, <2>2
  <2>. QED
    BY <1>4, <2>3
<1>6. FirstAcked(ById(bundle, id), ack) \subseteq ToSet(ps) \cap ack
  BY <1>4 DEF ToSet
<1>. QED
  BY <1>2, <1>5, <1>6

\* A common base is met in some level, and is there if any level meets one.
LEMMA BasesMet ==
    ASSUME NEW want, NEW ack, NEW level, level = CHOOSE f : LevelEquation(f, want \ ack),
           BundleInv, NEW bases, bases = CommonBases(bundle, want, ack)
    PROVE  /\ \A p \in bases : \E n \in 0..Len(bundle) : p \in MetAt(level, ack)[n]
           /\ bases = {} => \A n \in 0..Len(bundle) : MetAt(level, ack)[n] = {}
<1>1. PICK found : found = MetAt(level, ack)
  OBVIOUS
<1>2. PICK hits : hits = Hits(found)
  OBVIOUS
<1>3. bases = IF hits = {} THEN {} ELSE found[CHOOSE n \in hits : \A m \in hits : n <= m]
  BY <1>1, <1>2, BasesNamed, Zenon
<1>4. CASE hits = {}
  BY <1>1, <1>2, <1>3, <1>4 DEF Hits
<1>5. CASE hits # {}
  <2>1. hits \in SUBSET Nat
    BY <1>2 DEF Hits, BundleInv
  <2>2. PICK k \in hits : \A m \in hits : ~(m < k)
    BY <1>5, <2>1, LeastNumber
  <2>3. \E n \in hits : \A m \in hits : n <= m
    BY <2>1, <2>2
  <2>4. PICK n \in hits : bases = found[n]
    BY <1>3, <1>5, <2>3, Zenon
  <2>. QED
    BY <1>1, <1>2, <2>4 DEF Hits
<1>. QED
  BY <1>4, <1>5
(***************************************************************************)
(* A search that meets nothing has gone through the whole history of what  *)
(* is missing, and none of it is acknowledged: then have stops no walk.    *)
(* And a search that meets something meets it in that history.             *)
(***************************************************************************)
MeetsSoundly(met, missing, ack) ==
    /\ \A n \in 0..Len(bundle) :
          met[n] \subseteq ack \cap UNION {Ancestors[id] : id \in missing}
    /\ (\A n \in 0..Len(bundle) : met[n] = {})
          <=> Fetched(bundle, missing, ack) = Fetched(bundle, missing, {})

LEMMA SearchSound ==
    ASSUME BundleInv, NEW missing \in SUBSET Ids(bundle), NEW ack \in SUBSET Ids(bundle),
           missing \cap ack = {},
           NEW level, Levelled(level, missing),
           NEW met, met = MetAt(level, ack)
    PROVE  MeetsSoundly(met, missing, ack)
<1>. DEFINE N == Len(bundle)
            graph == ParentMap(bundle)
            all == SentBy(missing, {})
            some == SentBy(missing, ack)
<1>1. N \in Nat /\ DOMAIN graph = Ids(bundle)
  BY Graph
<1>2. /\ Fetched(bundle, missing, {}) = all \cap Ids(bundle)
      /\ missing \subseteq all /\ Closed(graph, all)
      /\ \A C : missing \subseteq C /\ Closed(graph, C) => all \subseteq C
  <2>1. Outside({}) = graph
    <3>1. \A id \in Ids(bundle) : graph[id] \ {} = graph[id]
      OBVIOUS
    <3>2. graph = [id \in Ids(bundle) |-> graph[id]]
      BY DEF ParentMap
    <3>. HIDE DEF graph
    <3>3. Outside({}) = [id \in Ids(bundle) |-> graph[id] \ {}]
      BY DEF Outside, graph
    <3>. QED
      BY <3>1, <3>2, <3>3
  <2>2. missing \ {} = missing
    OBVIOUS
  <2>. HIDE DEF all, graph
  <2>. QED
    BY <2>1, <2>2, FetchLeast DEF all
<1>3. /\ Fetched(bundle, missing, ack) = some \cap Ids(bundle)
      /\ missing \subseteq some /\ Closed(Outside(ack), some)
      /\ \A C : missing \subseteq C /\ Closed(Outside(ack), C) => some \subseteq C
  <2>1. missing \ ack = missing
    OBVIOUS
  <2>. HIDE DEF some
  <2>. QED
    BY <2>1, FetchLeast DEF some
<1>4. /\ DOMAIN Outside(ack) = Ids(bundle)
      /\ \A id \in Ids(bundle) : Outside(ack)[id] = graph[id] \ ack
  BY DEF Outside
<1>5. \A n \in 0..N : met[n] = UNION {FirstAcked(ById(bundle, id), ack) : id \in level[n].batch \cap Ids(bundle)}
  BY DEF MetAt
<1>6. ASSUME NEW n \in 0..N, NEW p \in met[n]
      PROVE  \E id \in level[n].batch \cap Ids(bundle) : p \in graph[id] \cap ack
  <2>1. PICK id \in level[n].batch \cap Ids(bundle) : p \in FirstAcked(ById(bundle, id), ack)
    BY <1>5, <1>6
  <2>. QED
    BY <2>1, FirstAckedRight
<1>7. ASSUME NEW n \in 0..N, met[n] = {}, NEW id \in level[n].batch \cap Ids(bundle)
      PROVE  graph[id] \cap ack = {}
  <2>1. FirstAcked(ById(bundle, id), ack) = {}
    BY <1>5, <1>7
  <2>. QED
    BY <2>1, FirstAckedRight
<1>8. \A n \in 0..N : level[n].batch \subseteq all
  BY <1>1, <1>2, LevelsStayIn
<1>. HIDE DEF all, some
<1>9. \A n \in 0..N : met[n] \subseteq all \cap ack
  BY <1>1, <1>2, <1>6, <1>8 DEF Closed
<1>10. all \cap Ids(bundle) = UNION {Ancestors[id] : id \in missing}
  <2>1. ClosedHave({})
    BY DEF ClosedHave
  <2>2. FetchSufficient(Ancestors, missing, {})
    BY FetchRight
  <2>3. Fetched(bundle, missing, {}) = (UNION {Ancestors[id] : id \in missing}) \ {}
    BY <2>1, <2>2 DEF FetchSufficient
  <2>. QED
    BY <1>2, <2>3
<1>11. \A n \in 0..N : met[n] \subseteq ack \cap UNION {Ancestors[id] : id \in missing}
  BY <1>9, <1>10
<1>. HIDE DEF graph
<1>12. some \subseteq all
  <2>1. Closed(Outside(ack), all)
    BY <1>1, <1>2, <1>4 DEF Closed
  <2>. QED
    BY <1>2, <1>3, <2>1
<1>13. some \cap ack = {}
  <2>. DEFINE C == some \ ack
  <2>1. missing \subseteq C
    BY <1>3
  <2>2. Closed(Outside(ack), C)
    BY <1>3, <1>4 DEF Closed
  <2>3. some \subseteq C
    <3>. HIDE DEF C
    <3>. QED
      BY <1>3, <2>1, <2>2
  <2>. QED
    BY <2>3
<1>14. ASSUME \A n \in 0..N : met[n] = {}
       PROVE  some = all
  <2>. DEFINE V == UNION {level[n].batch : n \in 0..N}
              C == some \cap V
  <2>1. missing \subseteq V
    BY <1>1 DEF Levelled
  <2>2. ASSUME NEW id \in V \cap Ids(bundle)
        PROVE  graph[id] \subseteq V /\ graph[id] \cap ack = {}
    <3>1. PICK n \in 0..N : id \in level[n].batch
      OBVIOUS
    <3>2. graph[id] \cap ack = {}
      BY <1>7, <1>14, <2>2, <3>1
    <3>3. n # N
      BY <2>2, <3>1, LevelsEnd
    <3>4. n \in Nat /\ n + 1 \in 0..N
      BY <1>1, <3>3
    <3>5. level[n].visited \subseteq V
      <4>. DEFINE T == {k \in Nat : k <= N => level[k].visited \subseteq V}
      <4>. HIDE DEF V
      <4>1. 0 \in T /\ T \in SUBSET Nat
        BY DEF Levelled
      <4>2. ASSUME NEW k \in T PROVE k + 1 \in T
        <5>. SUFFICES ASSUME k + 1 <= N PROVE level[k + 1].visited \subseteq V
          OBVIOUS
        <5>1. k \in 0..N /\ k \in Nat /\ level[k].visited \subseteq V
          BY <1>1
        <5>2. level[k].batch \subseteq V
          BY <5>1 DEF V
        <5>. QED
          BY <5>1, <5>2 DEF Levelled
      <4>. HIDE DEF T
      <4>3. T = Nat
        BY <4>1, <4>2, Induction
      <4>. QED
        BY <1>1, <3>4, <4>3 DEF T
    <3>6. graph[id] \subseteq level[n].visited \cup level[n].batch \cup level[n + 1].batch
      <4>1. graph[id] \subseteq ParentsOfAll(graph, level[n].batch)
        BY <1>1, <2>2, <3>1 DEF ParentsOfAll
      <4>2. level[n + 1].batch = ParentsOfAll(graph, level[n].batch) \ (level[n].visited \cup level[n].batch)
        BY <3>4 DEF Levelled, graph
      <4>. QED
        BY <4>1, <4>2
    <3>7. level[n].batch \subseteq V /\ level[n + 1].batch \subseteq V
      BY <3>4
    <3>. QED
      BY <3>2, <3>5, <3>6, <3>7
  <2>. HIDE DEF V
  <2>3. Closed(graph, C)
    BY <1>1, <1>3, <1>4, <2>2 DEF Closed
  <2>4. missing \subseteq C
    BY <1>3, <2>1
  <2>5. all \subseteq C
    <3>. HIDE DEF C
    <3>. QED
      BY <1>2, <2>3, <2>4
  <2>. QED
    BY <1>12, <2>5
<1>15. ASSUME some \cap Ids(bundle) = all \cap Ids(bundle), NEW n \in 0..N
       PROVE  met[n] = {}
  BY <1>9, <1>13, <1>15
<1>. QED
  BY <1>2, <1>3, <1>11, <1>14, <1>15 DEF MeetsSoundly

LEMMA BasesRight ==
    ASSUME BundleInv, NEW want \in SUBSET Ids(bundle), NEW have
    PROVE  BaseSound(Ancestors, want, have)
<1>1. PICK ack : ack = Ack(bundle, have)
  OBVIOUS
<1>2. ack = have \cap Ids(bundle)
  BY <1>1 DEF Ack
<1>3. PICK missing : missing = want \ have
  OBVIOUS
<1>4. /\ missing = want \ ack /\ missing \in SUBSET Ids(bundle)
      /\ ack \in SUBSET Ids(bundle) /\ missing \cap ack = {}
  BY <1>2, <1>3
<1>5. PICK bases : bases = CommonBases(bundle, want, ack)
  OBVIOUS
<1>6. PICK level : level = CHOOSE f : LevelEquation(f, missing)
  OBVIOUS
<1>7. Levelled(level, missing)
  <2>1. LevelEquation(level, missing)
    BY <1>4, <1>6, LevelsExist, Zenon
  <2>. QED
    BY <1>4, <2>1, LevelsUnfold
<1>8. PICK met : met = MetAt(level, ack)
  OBVIOUS
<1>9. /\ \A p \in bases : \E n \in 0..Len(bundle) : p \in met[n]
      /\ bases = {} => \A n \in 0..Len(bundle) : met[n] = {}
  <2>1. level = CHOOSE f : LevelEquation(f, want \ ack)
    BY <1>4, <1>6, Zenon
  <2>. QED
    BY <1>5, <1>8, <2>1, BasesMet, Zenon
<1>10. /\ \A n \in 0..Len(bundle) :
             met[n] \subseteq ack \cap UNION {Ancestors[id] : id \in missing}
       /\ (\A n \in 0..Len(bundle) : met[n] = {})
             <=> Fetched(bundle, missing, ack) = Fetched(bundle, missing, {})
  <2>1. MeetsSoundly(met, missing, ack)
    BY <1>4, <1>7, <1>8, SearchSound
  <2>. QED
    BY <2>1, Zenon DEF MeetsSoundly
<1>11. bases \subseteq ack \cap UNION {Ancestors[id] : id \in want}
  <2>1. missing \subseteq want
    BY <1>3
  <2>. QED
    BY <1>9, <1>10, <2>1
<1>12. bases = {} <=> Fetched(bundle, missing, ack) = Fetched(bundle, missing, {})
  BY <1>9, <1>10
<1>13. (bases # {} \/ have = {}) <=> Ready(bundle, want, have)
  BY <1>1, <1>5 DEF Ready
<1>. QED
  BY <1>1, <1>3, <1>5, <1>11, <1>12, <1>13, Zenon DEF BaseSound

(***************************************************************************)
(* A fetch sends a client the history of what it wants but for what it     *)
(* has, and nothing else (musehub_wire.py:434); the negotiation that       *)
(* precedes it names a commit both sides have, and answers that there is   *)
(* none exactly when have would shorten no fetch (musehub_wire.py:617),    *)
(* for repositories of any size, whatever order their rows come in.        *)
(***************************************************************************)
THEOREM NegotiationInAnyOrder ==
    Spec => [](\A want \in Wants, have \in SUBSET (1..MaxCommits) :
                  FetchSufficient(Ancestors, want, have) /\ BaseSound(Ancestors, want, have))
<1>1. Init => BundleInv
  BY DEF Init, BundleInv
<1>2. BundleInv => \A want \in Wants, have \in SUBSET (1..MaxCommits) :
                      FetchSufficient(Ancestors, want, have) /\ BaseSound(Ancestors, want, have)
  <2>. SUFFICES ASSUME BundleInv, NEW want \in Wants, NEW have \in SUBSET (1..MaxCommits)
                PROVE  FetchSufficient(Ancestors, want, have) /\ BaseSound(Ancestors, want, have)
    OBVIOUS
  <2>1. want \in SUBSET Ids(bundle)
    BY DEF Wants
  <2>. QED
    BY <2>1, FetchRight, BasesRight
<1>. QED
  BY <1>1, <1>2, BundleStep, PTL DEF Spec

\* And so when they come in one order, which is what TLC checks.
THEOREM NegotiationAlwaysSound == Spec => []NegotiationSound
<1>1. (\A want \in Wants, have \in SUBSET (1..MaxCommits) :
          FetchSufficient(Ancestors, want, have) /\ BaseSound(Ancestors, want, have))
      => NegotiationSound
  BY DEF NegotiationSound
<1>. QED
  BY <1>1, NegotiationInAnyOrder, PTL

-----------------------------------------------------------------------------
(***************************************************************************)
(* Folds over a sequence from left to right.                               *)
(***************************************************************************)
LEMMA MaxRight ==
    ASSUME NEW m \in Nat, NEW s \in SUBSET (1..m), s # {}
    PROVE  Max(s) \in s /\ \A x \in s : x <= Max(s)
<1>1. IsFiniteSet(1..m)
  BY FS_Interval
<1>2. s \in SUBSET (Nat \ {0}) /\ IsFiniteSet(s)
  <2>1. \A x \in s : x \in Nat /\ x # 0
    OBVIOUS
  <2>. QED
    BY <1>1, <2>1, FS_Subset
<1>3. PICK o \in s : \A x \in s : x <= o
  BY <1>2, GreatestNumber
<1>4. \A x \in s : o >= x
  BY <1>2, <1>3
<1>5. Max(s) \in s /\ \A x \in s : Max(s) >= x
  BY <1>3, <1>4, Zenon DEF Max
<1>. QED
  BY <1>2, <1>5

LEMMA MaxOfFirst ==
    ASSUME NEW k \in Nat
    PROVE  /\ Max(1..(k + 1)) = k + 1 /\ (1..(k + 1)) \ {k + 1} = 1..k
           /\ 1..(k + 1) # {} /\ 1..0 = {}
<1>1. (1..(k + 1)) \in SUBSET (1..(k + 1)) /\ k + 1 \in 1..(k + 1) /\ k + 1 \in Nat
  OBVIOUS
<1>2. PICK o : o = Max(1..(k + 1))
  OBVIOUS
<1>3. o \in 1..(k + 1) /\ k + 1 <= o
  BY <1>1, <1>2, MaxRight
<1>. QED
  BY <1>1, <1>2, <1>3

FoldEquation(f, base, turn, m) ==
    f = [s \in SUBSET (1..m) |-> IF s = {} THEN base ELSE turn[Max(s)][f[s \ {Max(s)}]]]

HasFold(S, base, turn, m) == \E f \in [SUBSET (1..m) -> S] : FoldEquation(f, base, turn, m)

LEMMA FoldExists ==
    ASSUME NEW S, NEW base \in S, NEW m \in Nat, NEW turn \in [1..m -> [S -> S]]
    PROVE  HasFold(S, base, turn, m)
<1>. DEFINE T == {k \in Nat : k <= m => HasFold(S, base, turn, k)}
<1>1. 0 \in T /\ T \in SUBSET Nat
  <2>. DEFINE f == [s \in SUBSET (1..0) |-> base]
  <2>1. \A s \in SUBSET (1..0) : s = {}
    OBVIOUS
  <2>2. f = [s \in SUBSET (1..0) |-> IF s = {} THEN base ELSE turn[Max(s)][f[s \ {Max(s)}]]]
    BY <2>1, Zenon
  <2>3. f \in [SUBSET (1..0) -> S]
    OBVIOUS
  <2>4. FoldEquation(f, base, turn, 0)
    <3>. HIDE DEF f
    <3>. QED
      BY <2>2 DEF FoldEquation
  <2>. HIDE DEF f
  <2>5. HasFold(S, base, turn, 0)
    BY <2>3, <2>4 DEF HasFold
  <2>. QED
    BY <2>5
<1>2. ASSUME NEW k \in T PROVE k + 1 \in T
  <2>. SUFFICES ASSUME k + 1 <= m
                PROVE  HasFold(S, base, turn, k + 1)
    OBVIOUS
  <2>1. k \in Nat /\ k <= m
    OBVIOUS
  <2>2. PICK g \in [SUBSET (1..k) -> S] : FoldEquation(g, base, turn, k)
    BY <2>1 DEF HasFold
  <2>3. PICK n : n = k + 1
    OBVIOUS
  <2>4. n \in Nat /\ n \in 1..m /\ (1..n) \ {n} = 1..k /\ turn[n] \in [S -> S]
    BY <2>1, <2>3
  <2>. DEFINE f == [s \in SUBSET (1..n) |-> IF n \in s THEN turn[n][g[s \ {n}]] ELSE g[s]]
  <2>5. \A s \in SUBSET (1..n) : IF n \in s THEN s \ {n} \in SUBSET (1..k) ELSE s \in SUBSET (1..k)
    BY <2>4
  <2>6. f \in [SUBSET (1..n) -> S]
    BY <2>4, <2>5
  <2>7. \A s \in SUBSET (1..k) : s \in SUBSET (1..n) /\ n \notin s /\ f[s] = g[s]
    BY <2>1, <2>3, <2>4
  <2>8. ASSUME NEW s \in SUBSET (1..n)
        PROVE  f[s] = IF s = {} THEN base ELSE turn[Max(s)][f[s \ {Max(s)}]]
    <3>1. CASE n \in s
      <4>1. Max(s) = n
        <5>1. PICK o : o = Max(s)
          OBVIOUS
        <5>2. o \in s /\ n <= o
          BY <2>4, <3>1, <5>1, MaxRight
        <5>. QED
          BY <2>4, <5>1, <5>2
      <4>2. s \ {n} \in SUBSET (1..k)
        BY <2>5, <3>1
      <4>3. f[s] = turn[n][g[s \ {n}]]
        BY <3>1
      <4>4. f[s \ {n}] = g[s \ {n}]
        BY <2>7, <4>2
      <4>. HIDE DEF f
      <4>. QED
        BY <3>1, <4>1, <4>3, <4>4
    <3>2. CASE n \notin s
      <4>1. s \in SUBSET (1..k)
        BY <2>5, <3>2
      <4>2. g[s] = IF s = {} THEN base ELSE turn[Max(s)][g[s \ {Max(s)}]]
        BY <2>2, <4>1, Zenon DEF FoldEquation
      <4>3. s \ {Max(s)} \in SUBSET (1..k)
        BY <4>1
      <4>4. f[s] = g[s] /\ f[s \ {Max(s)}] = g[s \ {Max(s)}]
        BY <2>7, <4>1, <4>3, Zenon
      <4>. HIDE DEF f
      <4>. QED
        BY <4>2, <4>4
    <3>. QED
      BY <3>1, <3>2
  <2>9. f = [s \in SUBSET (1..n) |-> f[s]]
    OBVIOUS
  <2>. HIDE DEF f
  <2>10. FoldEquation(f, base, turn, n)
    BY <2>8, <2>9, Zenon DEF FoldEquation
  <2>. QED
    BY <2>3, <2>6, <2>10, Zenon DEF HasFold
<1>. HIDE DEF T
<1>3. T = Nat
  BY <1>1, <1>2, Induction
<1>. QED
  BY <1>3 DEF T

-----------------------------------------------------------------------------
(***************************************************************************)
(* The newest of some commits: the number of those from a commit on.       *)
(***************************************************************************)
Down(ids, b) == Cardinality({j \in ids : j >= b})

LEMMA DownRight ==
    ASSUME NEW ids \in SUBSET (Nat \ {0}), IsFiniteSet(ids)
    PROVE  /\ \A b \in ids : Down(ids, b) = Cardinality(ids) + 1 - Rank(ids, b)
           /\ \A b \in ids : Down(ids, b) \in 1..Cardinality(ids)
           /\ \A a, b \in ids : a < b => Down(ids, b) < Down(ids, a)
           /\ \A k \in 1..Cardinality(ids) : \E b \in ids : Down(ids, b) = k
<1>1. Cardinality(ids) \in Nat /\ \A b \in ids : Rank(ids, b) \in 1..Cardinality(ids)
  BY RankGrows
<1>2. ASSUME NEW b \in ids PROVE Down(ids, b) = Cardinality(ids) + 1 - Rank(ids, b)
  <2>. DEFINE up == UpTo(ids, b)
              down == {j \in ids : j >= b}
  <2>1. up \in SUBSET ids /\ down \in SUBSET ids /\ up \cup down = ids /\ up \cap down = {b}
    <3>1. \A x \in ids : x \in Nat /\ (x <= b \/ x >= b) /\ (x <= b /\ x >= b <=> x = b)
      OBVIOUS
    <3>2. up = {x \in ids : x <= b}
      BY DEF UpTo
    <3>. QED
      BY <3>1, <3>2
  <2>2. IsFiniteSet(up) /\ IsFiniteSet(down) /\ Cardinality({b}) = 1
    BY <2>1, FS_Subset, FS_Singleton
  <2>. HIDE DEF up, down
  <2>3. Cardinality(up \cup down) = Cardinality(up) + Cardinality(down) - Cardinality(up \cap down)
    BY <2>2, FS_Union
  <2>4. Cardinality(up) \in Nat /\ Cardinality(down) \in Nat
    BY <2>2, FS_CardinalityType
  <2>5. PICK x \in Nat, y \in Nat, z \in Nat : x = Cardinality(up) /\ y = Cardinality(down) /\ z = Cardinality(ids)
    BY <1>1, <2>4
  <2>6. z = x + y - 1
    BY <2>1, <2>2, <2>3, <2>5
  <2>7. y = z + 1 - x
    BY <2>6
  <2>. QED
    BY <2>5, <2>7 DEF up, down, Rank, Down
<1>3. ASSUME NEW b \in ids PROVE Down(ids, b) \in 1..Cardinality(ids)
  <2>1. PICK r \in Nat, m \in Nat : r = Rank(ids, b) /\ m = Cardinality(ids) /\ r \in 1..m
    BY <1>1
  <2>2. m + 1 - r \in 1..m
    BY <2>1
  <2>. QED
    BY <1>2, <2>1, <2>2
<1>4. ASSUME NEW a \in ids, NEW b \in ids, a < b PROVE Down(ids, b) < Down(ids, a)
  <2>1. PICK r \in Nat, s \in Nat, m \in Nat : r = Rank(ids, a) /\ s = Rank(ids, b) /\ m = Cardinality(ids)
    BY <1>1
  <2>2. r < s
    BY <1>4, <2>1, RankGrows
  <2>3. m + 1 - s < m + 1 - r
    BY <2>2
  <2>. QED
    BY <1>2, <2>1, <2>3
<1>5. ASSUME NEW k \in 1..Cardinality(ids) PROVE \E b \in ids : Down(ids, b) = k
  <2>1. PICK m \in Nat : m = Cardinality(ids)
    BY <1>1
  <2>2. k \in 1..m /\ m + 1 - k \in 1..m
    BY <2>1
  <2>3. PICK b \in ids : Rank(ids, b) = m + 1 - k
    BY <2>1, <2>2, RankTaken
  <2>4. Down(ids, b) = m + 1 - (m + 1 - k)
    BY <1>2, <2>1, <2>3
  <2>5. m + 1 - (m + 1 - k) = k
    BY <2>2
  <2>. QED
    BY <2>4, <2>5
<1>. QED
  BY <1>2, <1>3, <1>4, <1>5

LEMMA NewestRight ==
    ASSUME NEW ids \in SUBSET (Nat \ {0}), IsFiniteSet(ids), NEW seq, seq = NewestFirst(ids)
    PROVE  \E m \in Nat :
             /\ DOMAIN seq = 1..m
             /\ \A k \in 1..m : seq[k] \in ids /\ Down(ids, seq[k]) = k
             /\ \A b \in ids : Down(ids, b) <= ScanLimit => Down(ids, b) \in 1..m
<1>. DEFINE n == Cardinality(ids)
            m == IF n < ScanLimit THEN n ELSE ScanLimit
<1>1. n \in Nat /\ ScanLimit \in Nat
  BY FS_CardinalityType, ScanLimitOK
<1>2. m \in Nat /\ m <= n /\ \A k \in 1..n : k <= ScanLimit => k \in 1..m
  BY <1>1
<1>3. seq = [k \in 1..m |-> CHOOSE i \in ids : Down(ids, i) = k]
  BY DEF NewestFirst, Down
<1>4. ASSUME NEW k \in 1..m PROVE seq[k] \in ids /\ Down(ids, seq[k]) = k
  <2>1. k \in 1..n
    BY <1>1, <1>2
  <2>2. \E i \in ids : Down(ids, i) = k
    BY <2>1, DownRight
  <2>3. seq[k] = CHOOSE i \in ids : Down(ids, i) = k
    BY <1>3
  <2>. QED
    BY <2>2, <2>3
<1>5. DOMAIN seq = 1..m
  BY <1>3
<1>6. \A b \in ids : Down(ids, b) \in 1..n
  BY DownRight
<1>. HIDE DEF m, n
<1>. QED
  BY <1>2, <1>4, <1>5, <1>6

(***************************************************************************)
(* The commits of a branch up to one of them, and the last of them at      *)
(* which a file became what it is.                                         *)
(***************************************************************************)
HistoryInv == history \in Seq([branch : BranchNames, files : [Paths -> Objects \cup {Absent}] \cup {NoSnapshot}])

BranchUpTo(n) == Before(n) \cup {n}

At(i, path) == ObjectAt(history[i], path)

\* Where the object of n came in: the commits from there on have it.
CameIn(n, path, c) ==
    /\ c \in BranchUpTo(n)
    /\ \A b \in BranchUpTo(n) : b >= c => At(b, path) = At(n, path)
    /\ \A a \in BranchUpTo(n) :
          a < c => \E b \in BranchUpTo(n) : b >= a /\ At(b, path) # At(n, path)

LEMMA BranchRight ==
    ASSUME HistoryInv, NEW n \in DOMAIN history
    PROVE  /\ n \in Nat \ {0} /\ BranchUpTo(n) \in SUBSET (1..n) /\ IsFiniteSet(BranchUpTo(n))
           /\ BranchUpTo(n) \in SUBSET (Nat \ {0})
           /\ BranchUpTo(n) = {i \in 1..n : history[i].branch = history[n].branch}
           /\ \A b \in BranchUpTo(n) : Before(b) = {a \in BranchUpTo(n) : a < b}
<1>1. n \in Nat /\ n # 0 /\ n \in 1..n
  BY DEF HistoryInv
<1>2. IsFiniteSet(1..n)
  BY <1>1, FS_Interval
<1>3. BranchUpTo(n) = {i \in 1..n : history[i].branch = history[n].branch}
  BY <1>1 DEF BranchUpTo, Before
<1>4. BranchUpTo(n) \in SUBSET (1..n)
  BY <1>3
<1>5. IsFiniteSet(BranchUpTo(n))
  BY <1>2, <1>4, FS_Subset
<1>6. ASSUME NEW b \in BranchUpTo(n) PROVE Before(b) = {a \in BranchUpTo(n) : a < b}
  <2>1. b \in Nat /\ b <= n /\ history[b].branch = history[n].branch
    BY <1>1, <1>3
  <2>. QED
    BY <1>1, <1>3, <2>1 DEF Before
<1>7. \A b \in 1..n : b \in Nat \ {0}
  OBVIOUS
<1>. QED
  BY <1>1, <1>3, <1>4, <1>5, <1>6, <1>7

LEMMA SomewhereCameIn ==
    ASSUME HistoryInv, NEW n \in DOMAIN history, NEW path
    PROVE  \E c : CameIn(n, path, c)
<1>. DEFINE B == BranchUpTo(n)
            R == {c \in B : \A b \in B : b >= c => At(b, path) = At(n, path)}
<1>1. n \in Nat /\ B \in SUBSET Nat /\ n \in B /\ \A b \in B : b <= n
  <2>1. n \in Nat /\ B \in SUBSET (1..n)
    BY BranchRight
  <2>2. n \in B
    BY DEF BranchUpTo
  <2>. HIDE DEF B
  <2>. QED
    BY <2>1, <2>2
<1>. HIDE DEF B
<1>2. n \in R /\ R \in SUBSET Nat
  <2>1. ASSUME NEW b \in B, b >= n PROVE b = n
    BY <1>1, <2>1
  <2>. QED
    BY <1>1, <2>1
<1>3. PICK c \in R : \A a \in R : ~(a < c)
  <2>. HIDE DEF R
  <2>. QED
    BY <1>2, LeastNumber
<1>4. ASSUME NEW a \in B, a < c PROVE \E b \in B : b >= a /\ At(b, path) # At(n, path)
  BY <1>3, <1>4
<1>. QED
  BY <1>3, <1>4 DEF CameIn, B

LEMMA TouchedRight ==
    ASSUME NEW i, NEW path \in Paths
    PROVE  path \in Touched(i) <=>
             /\ At(i, path) # Absent
             /\ At(i, path) # ObjectAt(ParentOf(i), path)
BY DEF Touched, SnapshotDiff, At

LEMMA ParentRight ==
    ASSUME HistoryInv, NEW n \in DOMAIN history, NEW b \in BranchUpTo(n), NEW path
    PROVE  IF Before(b) = {} THEN ObjectAt(ParentOf(b), path) = Absent
           ELSE \E a \in Before(b) : /\ \A c \in Before(b) : c <= a
                                     /\ ObjectAt(ParentOf(b), path) = At(a, path)
<1>1. CASE Before(b) = {}
  BY <1>1 DEF ParentOf, ObjectAt, Snapped
<1>2. CASE Before(b) # {}
  <2>1. Before(b) \in SUBSET (Nat \ {0}) /\ IsFiniteSet(Before(b))
    BY BranchRight, FS_Subset
  <2>2. \E a \in Before(b) : \A c \in Before(b) : c <= a
    BY <1>2, <2>1, GreatestNumber
  <2>3. PICK a \in Before(b) : (\A c \in Before(b) : c <= a) /\ ParentOf(b) = history[a]
    BY <1>2, <2>2, Zenon DEF ParentOf
  <2>. QED
    BY <1>2, <2>3 DEF At
<1>. QED
  BY <1>1, <1>2

\* The last commit whose page shows the file is where its object came in.
LEMMA TouchedWhereCameIn ==
    ASSUME HistoryInv, NEW n \in DOMAIN history, NEW path \in Paths, At(n, path) # Absent,
           NEW c, CameIn(n, path, c)
    PROVE  LastTouching(path, n) = c
<1>. DEFINE B == BranchUpTo(n)
            touching == {i \in B : path \in Touched(i)}
<1>1. c \in B /\ B \in SUBSET Nat /\ (\A b \in B : Before(b) = {a \in B : a < b})
      /\ At(c, path) = At(n, path)
  BY BranchRight DEF CameIn
<1>2. c \in touching
  <2>1. At(c, path) # ObjectAt(ParentOf(c), path)
    <3>1. CASE Before(c) = {}
      BY <1>1, <3>1, ParentRight
    <3>2. CASE Before(c) # {}
      <4>1. PICK a \in Before(c) : /\ \A d \in Before(c) : d <= a
                                   /\ ObjectAt(ParentOf(c), path) = At(a, path)
        BY <1>1, <3>2, ParentRight
      <4>2. a \in B /\ a < c /\ a \in Nat /\ c \in Nat
        BY <1>1
      <4>3. PICK b \in B : b >= a /\ At(b, path) # At(n, path)
        BY <4>2 DEF CameIn
      <4>4. ~(b >= c)
        BY <4>3 DEF CameIn
      <4>5. b \in Before(c)
        BY <1>1, <4>2, <4>4
      <4>6. b = a
        BY <1>1, <4>1, <4>2, <4>3, <4>5
      <4>. QED
        BY <1>1, <4>1, <4>3, <4>6
    <3>. QED
      BY <3>1, <3>2
  <2>. QED
    BY <1>1, <2>1, TouchedRight
<1>3. ASSUME NEW i \in touching PROVE i <= c
  <2>. SUFFICES ASSUME ~(i <= c) PROVE FALSE
    OBVIOUS
  <2>1. i \in B /\ i \in Nat /\ c \in Nat /\ c < i
    BY <1>1
  <2>2. c \in Before(i)
    BY <1>1, <2>1
  <2>3. PICK a \in Before(i) : /\ \A d \in Before(i) : d <= a
                               /\ ObjectAt(ParentOf(i), path) = At(a, path)
    BY <2>1, <2>2, ParentRight
  <2>4. a \in B /\ a \in Nat /\ a >= c /\ i >= c
    BY <1>1, <2>1, <2>2, <2>3
  <2>5. At(a, path) = At(n, path) /\ At(i, path) = At(n, path)
    BY <2>1, <2>4 DEF CameIn
  <2>. QED
    BY <1>3, <2>3, <2>5, TouchedRight
<1>4. LastTouching(path, n) = CHOOSE i \in touching : \A j \in touching : j <= i
  BY DEF LastTouching, BranchUpTo
<1>5. touching \in SUBSET Nat
  BY <1>1
<1>. HIDE DEF touching
<1>6. PICK l : l = LastTouching(path, n)
  OBVIOUS
<1>7. l \in touching /\ \A j \in touching : j <= l
  BY <1>2, <1>3, <1>4, <1>6, Zenon
<1>8. l <= c /\ c <= l /\ l \in Nat /\ c \in Nat
  BY <1>1, <1>2, <1>3, <1>5, <1>7
<1>. QED
  BY <1>6, <1>8

(***************************************************************************)
(* The scan of get_last_commit_for_file, commit by commit.                 *)
(***************************************************************************)
ScanEquation(f, path, object, start, seq) ==
    f = [s \in SUBSET (DOMAIN seq) |->
            IF s = {} THEN start
            ELSE ScanBack(history, path, object, f[s \ {Max(s)}], seq[Max(s)])]

LEMMA ScanNamed ==
    ASSUME NEW n, NEW path, NEW object, object = At(n, path), Snapped(history[n]), object # Absent,
           NEW seq, seq = Scanned(history, n),
           NEW start, start = [commit |-> n, ended |-> FALSE],
           NEW f, f = CHOOSE g : ScanEquation(g, path, object, start, seq)
    PROVE  LastCommitForFile(history, path, n) = f[DOMAIN seq].commit
BY DEF LastCommitForFile, FoldLeft, MapThenFoldSet, ScanEquation, At

ScanStates == [commit : Nat, ended : BOOLEAN]

LEMMA ScanExists ==
    ASSUME NEW path, NEW object, NEW start \in ScanStates, NEW m \in Nat,
           NEW seq, DOMAIN seq = 1..m, \A k \in 1..m : seq[k] \in Nat
    PROVE  \E f : ScanEquation(f, path, object, start, seq)
<1>. DEFINE turn == [k \in 1..m |-> [scan \in ScanStates |-> ScanBack(history, path, object, scan, seq[k])]]
<1>1. ASSUME NEW k \in 1..m, NEW scan \in ScanStates
      PROVE  ScanBack(history, path, object, scan, seq[k]) \in ScanStates
  BY DEF ScanBack, ScanStates
<1>2. turn \in [1..m -> [ScanStates -> ScanStates]]
  BY <1>1
<1>3. PICK f \in [SUBSET (1..m) -> ScanStates] : FoldEquation(f, start, turn, m)
  <2>1. HasFold(ScanStates, start, turn, m)
    <3>. HIDE DEF turn
    <3>. QED
      BY <1>2, FoldExists
  <2>. QED
    BY <2>1, Zenon DEF HasFold
<1>4. ASSUME NEW s \in SUBSET (1..m)
      PROVE  f[s] = IF s = {} THEN start
                    ELSE ScanBack(history, path, object, f[s \ {Max(s)}], seq[Max(s)])
  <2>1. f[s] = IF s = {} THEN start ELSE turn[Max(s)][f[s \ {Max(s)}]]
    BY <1>3, Zenon DEF FoldEquation
  <2>2. ASSUME s # {} PROVE turn[Max(s)][f[s \ {Max(s)}]]
                              = ScanBack(history, path, object, f[s \ {Max(s)}], seq[Max(s)])
    <3>1. PICK k \in 1..m : k = Max(s)
      BY <2>2, MaxRight
    <3>2. PICK scan \in ScanStates : scan = f[s \ {k}]
      <4>1. s \ {k} \in SUBSET (1..m)
        OBVIOUS
      <4>. QED
        BY <4>1
    <3>3. turn[k][scan] = ScanBack(history, path, object, scan, seq[k])
      OBVIOUS
    <3>. QED
      BY <3>1, <3>2, <3>3, Zenon
  <2>. QED
    BY <2>1, <2>2, Zenon
<1>5. f = [s \in SUBSET (1..m) |-> f[s]]
  OBVIOUS
<1>. QED
  BY <1>4, <1>5, Zenon DEF ScanEquation

LEMMA ScanUnfolds ==
    ASSUME NEW path, NEW object, NEW start, NEW m \in Nat, NEW seq, DOMAIN seq = 1..m,
           NEW f, ScanEquation(f, path, object, start, seq)
    PROVE  /\ f[{}] = start
           /\ \A k \in Nat : k + 1 \in 1..m =>
                 f[1..(k + 1)] = ScanBack(history, path, object, f[1..k], seq[k + 1])
<1>1. \A s \in SUBSET (1..m) :
         f[s] = IF s = {} THEN start
                ELSE ScanBack(history, path, object, f[s \ {Max(s)}], seq[Max(s)])
  BY Zenon DEF ScanEquation
<1>2. f[{}] = start
  BY <1>1
<1>3. ASSUME NEW k \in Nat, k + 1 \in 1..m
      PROVE  f[1..(k + 1)] = ScanBack(history, path, object, f[1..k], seq[k + 1])
  <2>1. 1..(k + 1) \in SUBSET (1..m)
    BY <1>3
  <2>. QED
    <3>1. PICK all : all = 1..(k + 1)
      OBVIOUS
    <3>2. Max(all) = k + 1 /\ all \ {k + 1} = 1..k /\ all # {}
      BY <3>1, MaxOfFirst, Zenon
    <3>3. f[all] = ScanBack(history, path, object, f[all \ {Max(all)}], seq[Max(all)])
      BY <1>1, <2>1, <3>1, <3>2, Zenon
    <3>. QED
      BY <3>1, <3>2, <3>3, Zenon
<1>. QED
  BY <1>2, <1>3

\* As long as the object stays the scan is at its last commit, and it ends
\* where the object came in.
LEMMA ScanFinds ==
    ASSUME HistoryInv, NEW n \in DOMAIN history, NEW path, NEW c, CameIn(n, path, c),
           \A i \in BranchUpTo(n) : Snapped(history[i]), At(n, path) # Absent,
           Down(BranchUpTo(n), c) <= ScanLimit
    PROVE  LastCommitForFile(history, path, n) = c
<1>. DEFINE B == BranchUpTo(n)
<1>1. PICK seq, object, start : /\ seq = Scanned(history, n) /\ object = At(n, path)
                                /\ start = [commit |-> n, ended |-> FALSE]
  OBVIOUS
<1>2. /\ n \in Nat /\ n \in B /\ B \in SUBSET (Nat \ {0}) /\ B \in SUBSET (1..n) /\ IsFiniteSet(B)
      /\ c \in B /\ c \in Nat
  BY BranchRight DEF CameIn, BranchUpTo
<1>3. PICK m \in Nat :
        /\ DOMAIN seq = 1..m
        /\ \A k \in 1..m : seq[k] \in B /\ Down(B, seq[k]) = k
        /\ \A b \in B : Down(B, b) <= ScanLimit => Down(B, b) \in 1..m
  <2>1. seq = NewestFirst(B)
    BY <1>1, BranchRight DEF Scanned
  <2>. HIDE DEF B
  <2>. QED
    BY <1>2, <2>1, NewestRight
<1>4. PICK f : f = CHOOSE g : ScanEquation(g, path, object, start, seq)
  OBVIOUS
<1>5. LastCommitForFile(history, path, n) = f[1..m].commit
  <2>1. Snapped(history[n]) /\ object # Absent
    BY <1>1, <1>2
  <2>2. LastCommitForFile(history, path, n) = f[DOMAIN seq].commit
    BY <1>1, <1>4, <2>1, ScanNamed
  <2>. QED
    BY <1>3, <2>2, Zenon
<1>6. /\ f[{}] = start
      /\ \A k \in Nat : k + 1 \in 1..m =>
             f[1..(k + 1)] = ScanBack(history, path, object, f[1..k], seq[k + 1])
  <2>1. start \in ScanStates
    BY <1>1, <1>2 DEF ScanStates
  <2>2. \A k \in 1..m : seq[k] \in Nat
    BY <1>2, <1>3
  <2>3. ScanEquation(f, path, object, start, seq)
    BY <1>3, <1>4, <2>1, <2>2, ScanExists, Zenon
  <2>. QED
    BY <1>3, <2>3, ScanUnfolds
<1>7. /\ \A a, b \in B : a < b => Down(B, b) < Down(B, a)
      /\ \A b \in B : Down(B, b) \in Nat
  <2>. HIDE DEF B
  <2>1. \A b \in B : Down(B, b) \in 1..Cardinality(B)
    BY <1>2, DownRight
  <2>. QED
    BY <1>2, <2>1, DownRight
<1>8. /\ \A b \in B : b >= c => At(b, path) = object
      /\ \A a \in B : a < c => \E b \in B : b >= a /\ At(b, path) # object
  BY <1>1 DEF CameIn
<1>. DEFINE Right(k, s) ==
       /\ s \in ScanStates
       /\ ~s.ended => /\ \A i \in 1..k : seq[i] >= c
                      /\ s.commit = IF k = 0 THEN n ELSE seq[k]
       /\ s.ended => s.commit = c
            T == {k \in Nat : k <= m => Right(k, f[1..k])}
<1>9. 0 \in T /\ T \in SUBSET Nat
  <2>1. Right(0, start)
    BY <1>1, <1>2 DEF ScanStates
  <2>2. 1..0 = {}
    OBVIOUS
  <2>. QED
    BY <1>6, <2>1, <2>2
<1>. HIDE DEF B
<1>10. ASSUME NEW k \in T PROVE k + 1 \in T
  <2>. SUFFICES ASSUME k + 1 <= m PROVE Right(k + 1, f[1..(k + 1)])
    OBVIOUS
  <2>1. k \in Nat /\ k <= m /\ k + 1 \in 1..m
    OBVIOUS
  <2>2. PICK s, t, e : s = f[1..k] /\ t = f[1..(k + 1)] /\ e = seq[k + 1]
    OBVIOUS
  <2>3. Right(k, s)
    BY <2>1, <2>2
  <2>4. e \in B /\ Down(B, e) = k + 1 /\ e \in Nat /\ Snapped(history[e])
    BY <1>2, <1>3, <2>1, <2>2 DEF B
  <2>5. t = ScanBack(history, path, object, s, e)
    BY <1>6, <2>1, <2>2
  <2>6. CASE s.ended
    BY <2>2, <2>3, <2>5, <2>6 DEF ScanBack
  <2>7. \A i \in 1..k : seq[i] \in B /\ Down(B, seq[i]) = i /\ seq[i] \in Nat
    BY <1>2, <1>3, <2>1
  <2>8. \A b \in B : b > e => Down(B, b) \in 1..k
    <3>. SUFFICES ASSUME NEW b \in B, b > e PROVE Down(B, b) \in 1..k
      OBVIOUS
    <3>1. Down(B, b) < k + 1 /\ Down(B, b) \in Nat
      BY <1>2, <1>7, <2>4
    <3>2. Down(B, b) # 0
      <4>1. \A x \in B : Down(B, x) \in 1..Cardinality(B)
        BY <1>2, DownRight
      <4>. QED
        BY <1>2, <4>1, FS_CardinalityType
    <3>. QED
      BY <2>1, <3>1, <3>2
  <2>9. \A a, b \in B : Down(B, a) = Down(B, b) => a = b
    <3>. SUFFICES ASSUME NEW a \in B, NEW b \in B, Down(B, a) = Down(B, b) PROVE a = b
      OBVIOUS
    <3>1. a \in Nat /\ b \in Nat /\ ~(a < b) /\ ~(b < a)
      BY <1>2, <1>7
    <3>. QED
      BY <3>1
  <2>10. CASE ~s.ended /\ At(e, path) = object
    <3>1. t = [s EXCEPT !.commit = e]
      BY <1>1, <2>4, <2>5, <2>10 DEF ScanBack, At
    <3>2. t.commit = e /\ ~t.ended /\ t \in ScanStates
      BY <2>3, <2>4, <2>10, <3>1 DEF ScanStates
    <3>3. e >= c
      <4>. SUFFICES ASSUME e < c PROVE FALSE
        BY <1>2, <2>4
      <4>1. PICK b \in B : b >= e /\ At(b, path) # object
        BY <1>8, <2>4
      <4>2. b \in Nat /\ b > e
        BY <1>2, <2>4, <2>10, <4>1
      <4>3. PICK i \in 1..k : Down(B, b) = i
        BY <2>8, <4>2
      <4>4. b = seq[i]
        BY <2>7, <2>9, <4>3
      <4>5. b >= c
        BY <2>3, <2>10, <4>4
      <4>. QED
        BY <1>8, <4>1, <4>5
    <3>. QED
      BY <2>1, <2>2, <2>3, <2>10, <3>2, <3>3
  <2>11. CASE ~s.ended /\ At(e, path) # object
    <3>1. t = [s EXCEPT !.ended = TRUE]
      BY <1>1, <2>4, <2>5, <2>11 DEF ScanBack, At
    <3>2. t.commit = s.commit /\ t.ended /\ t \in ScanStates
      BY <2>3, <3>1 DEF ScanStates
    <3>3. ~(e >= c) /\ c > e
      BY <1>2, <1>8, <2>4, <2>11
    <3>4. PICK i \in 1..k : Down(B, c) = i
      BY <1>2, <2>8, <3>3
    <3>5. c = seq[i] /\ k # 0 /\ i \in Nat
      BY <1>2, <2>1, <2>7, <2>9, <3>4
    <3>6. seq[k] >= c /\ seq[k] \in B /\ Down(B, seq[k]) = k /\ seq[k] \in Nat
      BY <2>1, <2>3, <2>7, <2>11, <3>5
    <3>7. ~(seq[k] > c)
      <4>. SUFFICES ASSUME c < seq[k] PROVE FALSE
        BY <1>2, <3>6
      <4>1. k < i
        BY <1>2, <1>7, <3>4, <3>6
      <4>. QED
        BY <2>1, <4>1
    <3>8. seq[k] = c
      BY <1>2, <3>6, <3>7
    <3>. QED
      BY <2>2, <2>3, <2>11, <3>2, <3>5, <3>8
  <2>. QED
    BY <2>6, <2>10, <2>11
<1>. HIDE DEF T
<1>11. T = Nat
  BY <1>9, <1>10, Induction
<1>12. Right(m, f[1..m])
  BY <1>11 DEF T
<1>13. CASE f[1..m].ended
  BY <1>5, <1>12, <1>13
<1>14. CASE ~f[1..m].ended
  <2>1. PICK r \in 1..m : Down(B, c) = r
    BY <1>2, <1>3 DEF B
  <2>2. m # 0 /\ m \in 1..m
    BY <2>1
  <2>3. f[1..m].commit = seq[m] /\ seq[m] >= c
    BY <1>12, <1>14, <2>2
  <2>4. seq[m] \in B /\ Down(B, seq[m]) = m /\ seq[m] \in Nat
    BY <1>2, <1>3, <2>2
  <2>5. ~(c < seq[m])
    <3>. SUFFICES ASSUME c < seq[m] PROVE FALSE
      OBVIOUS
    <3>1. m < r
      BY <1>2, <1>7, <2>1, <2>4
    <3>. QED
      BY <2>1, <3>1
  <2>. QED
    BY <1>2, <1>5, <2>3, <2>4, <2>5
<1>. QED
  BY <1>13, <1>14

LEMMA HistoryStep == HistoryInv /\ [Next]_vars => HistoryInv'
<1>. SUFFICES ASSUME HistoryInv, [Next]_vars PROVE HistoryInv'
  OBVIOUS
<1>1. PICK revisions : revisions = [branch : BranchNames, files : [Paths -> Objects \cup {Absent}] \cup {NoSnapshot}]
  OBVIOUS
<1>2. history \in Seq(revisions)
  BY <1>1 DEF HistoryInv
<1>3. ASSUME NEW branch \in BranchNames, NEW files \in [Paths -> Objects \cup {Absent}] \cup {NoSnapshot},
             AddRevision(branch, files)
      PROVE  history' \in Seq(revisions)
  <2>1. [branch |-> branch, files |-> files] \in revisions
    BY <1>1
  <2>. QED
    BY <1>2, <1>3, <2>1 DEF AddRevision
<1>4. CASE UNCHANGED history
  BY <1>1, <1>2, <1>4 DEF HistoryInv
<1>5. CASE \E branch \in BranchNames, files \in [Paths -> Objects \cup {Absent}] \cup {NoSnapshot} :
              AddRevision(branch, files)
  BY <1>1, <1>3, <1>5 DEF HistoryInv
<1>. QED
  BY <1>4, <1>5 DEF Next, AddCommit, AddMessage, vars

LEMMA PagesAgree ==
    ASSUME HistoryInv, NEW n \in DOMAIN history, NEW path \in Paths,
           \A i \in Before(n) \cup {n} : Snapped(history[i]),
           ObjectAt(history[n], path) # Absent,
           Cardinality({i \in Before(n) : i >= LastTouching(path, n)}) < ScanLimit
    PROVE  LastCommitForFile(history, path, n) = LastTouching(path, n)
<1>1. PICK c : CameIn(n, path, c)
  BY SomewhereCameIn
<1>2. LastTouching(path, n) = c
  BY <1>1, TouchedWhereCameIn DEF At
<1>. DEFINE B == BranchUpTo(n)
            below == {i \in Before(n) : i >= c}
<1>3. /\ n \in Nat /\ B \in SUBSET Nat /\ IsFiniteSet(B) /\ c \in B /\ (\A b \in B : b <= n)
      /\ B = Before(n) \cup {n} /\ n \notin Before(n)
  <2>1. n \in Nat /\ B \in SUBSET (1..n) /\ IsFiniteSet(B)
    BY BranchRight
  <2>2. n \notin Before(n)
    BY <2>1 DEF Before
  <2>. QED
    BY <1>1, <2>1, <2>2 DEF CameIn, BranchUpTo
<1>4. {j \in B : j >= c} = below \cup {n} /\ n \notin below /\ IsFiniteSet(below)
  <2>1. below \in SUBSET B
    BY <1>3
  <2>2. n >= c
    BY <1>3
  <2>. QED
    BY <1>3, <2>1, <2>2, FS_Subset
<1>5. Cardinality(below \cup {n}) = Cardinality(below) + 1 /\ Cardinality(below) \in Nat
  <2>. HIDE DEF below
  <2>. QED
    BY <1>4, FS_AddElement, FS_CardinalityType
<1>6. Down(B, c) <= ScanLimit
  <2>1. Down(B, c) = Cardinality(below) + 1
    BY <1>4, <1>5 DEF Down
  <2>2. Cardinality(below) < ScanLimit
    BY <1>2
  <2>3. PICK k : k = Cardinality(below)
    OBVIOUS
  <2>. QED
    BY <1>5, <2>1, <2>2, <2>3, ScanLimitOK
<1>7. LastCommitForFile(history, path, n) = c
  BY <1>1, <1>6, ScanFinds DEF At, BranchUpTo
<1>. QED
  BY <1>2, <1>7

(***************************************************************************)
(* Opening every directory shows every file.                               *)
(***************************************************************************)
OpenEquation(f, paths) ==
    f = [n \in Nat |-> IF n = 0 THEN {<<>>} ELSE UNION {ManifestToTree(paths, d).dirs : d \in f[n - 1]}]

Shown(f, paths, depth) == UNION {UNION {ManifestToTree(paths, d).files : d \in f[n]} : n \in 0..depth}

LEMMA BrowsedNamed ==
    ASSUME NEW paths, NEW depth, NEW f, f = CHOOSE g : OpenEquation(g, paths)
    PROVE  Browsed(paths, depth) = Shown(f, paths, depth)
BY DEF Browsed, OpenEquation, Shown

\* What a directory of a manifest has.
Contents(paths, d) ==
    /\ \A p : p \in ManifestToTree(paths, d).files
                  <=> p \in paths /\ Len(p) = Len(d) + 1 /\ SubSeq(p, 1, Len(d)) = d
    /\ \A q \in ManifestToTree(paths, d).dirs :
          \E p \in paths : q = SubSeq(p, 1, Len(d) + 1) /\ Len(q) = Len(d) + 1
    /\ \A p \in paths :
          Len(p) > Len(d) + 1 /\ SubSeq(p, 1, Len(d)) = d
          => SubSeq(p, 1, Len(d) + 1) \in ManifestToTree(paths, d).dirs

LEMMA TreeRight ==
    ASSUME NEW X, NEW paths \in SUBSET Seq(X), NEW d \in Seq(X)
    PROVE  Contents(paths, d) /\ ManifestToTree(paths, d).dirs \in SUBSET Seq(X)
<1>1. \A p \in paths : p \in Seq(X) /\ Len(p) \in Nat
  OBVIOUS
<1>2. Len(d) \in Nat
  OBVIOUS
<1>. DEFINE deep == {q \in paths : Len(q) > Len(d) + 1 /\ SubSeq(q, 1, Len(d)) = d}
<1>3. ManifestToTree(paths, d).files = {p \in paths : Len(p) = Len(d) + 1 /\ SubSeq(p, 1, Len(d)) = d}
  BY <1>1, <1>2 DEF ManifestToTree, Under
<1>4. {q \in {p \in paths : Under(d, p)} : Len(q) > Len(d) + 1} = deep
  BY <1>1, <1>2 DEF Under
<1>5. ManifestToTree(paths, d).dirs = {SubSeq(p, 1, Len(d) + 1) : p \in deep}
  BY <1>4 DEF ManifestToTree
<1>6. ASSUME NEW p \in deep PROVE SubSeq(p, 1, Len(d) + 1) \in Seq(X) /\ Len(SubSeq(p, 1, Len(d) + 1)) = Len(d) + 1
  BY <1>1, <1>2
<1>. HIDE DEF deep
<1>7. \A p : p \in deep <=> p \in paths /\ Len(p) > Len(d) + 1 /\ SubSeq(p, 1, Len(d)) = d
  BY DEF deep
<1>8. ManifestToTree(paths, d).dirs \in SUBSET Seq(X)
  BY <1>5, <1>6
<1>9. ASSUME NEW q \in ManifestToTree(paths, d).dirs
      PROVE  \E p \in paths : q = SubSeq(p, 1, Len(d) + 1) /\ Len(q) = Len(d) + 1
  BY <1>5, <1>6, <1>7
<1>10. ASSUME NEW p \in paths, Len(p) > Len(d) + 1, SubSeq(p, 1, Len(d)) = d
       PROVE  SubSeq(p, 1, Len(d) + 1) \in ManifestToTree(paths, d).dirs
  BY <1>5, <1>7, <1>10
<1>11. \A p : p \in ManifestToTree(paths, d).files
                 <=> p \in paths /\ Len(p) = Len(d) + 1 /\ SubSeq(p, 1, Len(d)) = d
  BY <1>3
<1>. QED
  BY <1>8, <1>9, <1>10, <1>11, Zenon DEF Contents

LEMMA AllBrowsed ==
    ASSUME NEW X, NEW paths \in SUBSET Seq(X), NEW depth \in Nat,
           \A p \in paths : Len(p) \in 1..(depth + 1)
    PROVE  Browsed(paths, depth) = paths
<1>0. \A d \in Seq(X) : Contents(paths, d) /\ ManifestToTree(paths, d).dirs \in SUBSET Seq(X)
  BY TreeRight
<1>. DEFINE S == SUBSET Seq(X)
            step == [open \in S |-> UNION {ManifestToTree(paths, d).dirs : d \in open}]
<1>1. {<<>>} \in S /\ step \in [S -> S]
  <2>. SUFFICES ASSUME NEW open \in S PROVE (UNION {ManifestToTree(paths, d).dirs : d \in open}) \in S
    OBVIOUS
  <2>1. \A d \in open : ManifestToTree(paths, d).dirs \in SUBSET Seq(X)
    BY TreeRight
  <2>. QED
    BY <2>1
<1>2. \E f \in [Nat -> S] : OpenEquation(f, paths)
  <2>1. PICK turn, base, T : turn = step /\ base = {<<>>} /\ T = S
    OBVIOUS
  <2>2. base \in T /\ turn \in [T -> T]
    BY <1>1, <2>1, Zenon
  <2>3. \E f \in [Nat -> T] : f = [n \in Nat |-> IF n = 0 THEN base ELSE turn[f[n - 1]]]
    BY <2>2, Recursion, Z3
  <2>4. PICK f \in [Nat -> T] : f = [n \in Nat |-> IF n = 0 THEN base ELSE turn[f[n - 1]]]
    BY <2>3
  <2>5. ASSUME NEW n \in Nat
        PROVE  f[n] = IF n = 0 THEN {<<>>} ELSE UNION {ManifestToTree(paths, d).dirs : d \in f[n - 1]}
    <3>1. f[n] = IF n = 0 THEN base ELSE turn[f[n - 1]]
      BY <2>4, Zenon
    <3>2. ASSUME n # 0 PROVE turn[f[n - 1]] = UNION {ManifestToTree(paths, d).dirs : d \in f[n - 1]}
      <4>1. n - 1 \in Nat
        BY <3>2
      <4>2. PICK open \in S : open = f[n - 1]
        BY <2>1, <2>4, <4>1
      <4>3. step[open] = UNION {ManifestToTree(paths, d).dirs : d \in open}
        OBVIOUS
      <4>. QED
        BY <2>1, <4>2, <4>3, Zenon
    <3>. QED
      BY <2>1, <3>1, <3>2, Zenon
  <2>6. f = [n \in Nat |-> f[n]]
    BY <2>4
  <2>7. OpenEquation(f, paths)
    BY <2>5, <2>6, Zenon DEF OpenEquation
  <2>. QED
    BY <2>1, <2>4, <2>7, Zenon
<1>3. PICK f : f = CHOOSE g : OpenEquation(g, paths)
  OBVIOUS
<1>12. Browsed(paths, depth) = Shown(f, paths, depth)
  BY <1>3, BrowsedNamed
<1>4. OpenEquation(f, paths)
  BY <1>2, <1>3, Zenon
<1>5. /\ f[0] = {<<>>}
      /\ \A n \in Nat : f[n + 1] = UNION {ManifestToTree(paths, d).dirs : d \in f[n]}
  <2>1. f[0] = {<<>>}
    BY <1>4 DEF OpenEquation
  <2>2. ASSUME NEW n \in Nat PROVE f[n + 1] = UNION {ManifestToTree(paths, d).dirs : d \in f[n]}
    <3>1. n + 1 \in Nat /\ n + 1 # 0 /\ (n + 1) - 1 = n
      OBVIOUS
    <3>. QED
      BY <1>4, <3>1, Zenon DEF OpenEquation
  <2>. QED
    BY <2>1, <2>2
<1>. DEFINE T == {n \in Nat : /\ \A d \in f[n] : d \in Seq(X) /\ Len(d) = n
                              /\ \A p \in paths : Len(p) > n => SubSeq(p, 1, n) \in f[n]}
<1>6. 0 \in T /\ T \in SUBSET Nat
  <2>1. <<>> \in Seq(X) /\ Len(<<>>) = 0
    OBVIOUS
  <2>2. \A p \in paths : SubSeq(p, 1, 0) = <<>>
    OBVIOUS
  <2>. QED
    BY <1>5, <2>1, <2>2
<1>7. ASSUME NEW n \in T PROVE n + 1 \in T
  <2>1. n \in Nat /\ \A d \in f[n] : d \in Seq(X) /\ Len(d) = n
    OBVIOUS
  <2>2. ASSUME NEW q \in f[n + 1] PROVE q \in Seq(X) /\ Len(q) = n + 1
    <3>1. PICK d \in f[n] : q \in ManifestToTree(paths, d).dirs
      BY <1>5, <2>1, <2>2
    <3>2. d \in Seq(X) /\ Len(d) = n
      BY <2>1
    <3>3. Contents(paths, d) /\ ManifestToTree(paths, d).dirs \in SUBSET Seq(X)
      BY <1>0, <3>2
    <3>. QED
      BY <3>1, <3>2, <3>3 DEF Contents
  <2>3. ASSUME NEW p \in paths, Len(p) > n + 1 PROVE SubSeq(p, 1, n + 1) \in f[n + 1]
    <3>1. p \in Seq(X) /\ Len(p) \in Nat /\ Len(p) > n
      BY <2>1, <2>3
    <3>2. PICK d \in f[n] : d = SubSeq(p, 1, n)
      BY <3>1
    <3>3. d \in Seq(X) /\ Len(d) = n
      BY <2>1, <3>2
    <3>4. SubSeq(p, 1, n + 1) \in ManifestToTree(paths, d).dirs
      <4>1. Contents(paths, d)
        BY <1>0, <3>3
      <4>2. Len(p) > Len(d) + 1 /\ SubSeq(p, 1, Len(d)) = d
        BY <2>3, <3>2, <3>3
      <4>. QED
        BY <3>3, <4>1, <4>2 DEF Contents
    <3>. QED
      BY <1>5, <2>1, <3>2, <3>4
  <2>. QED
    BY <2>1, <2>2, <2>3
<1>. HIDE DEF T
<1>8. T = Nat
  BY <1>6, <1>7, Induction
<1>. DEFINE shown == UNION {UNION {ManifestToTree(paths, d).files : d \in f[n]} : n \in 0..depth}
<1>9. ASSUME NEW p \in paths PROVE p \in shown
  <2>1. Len(p) \in 1..(depth + 1) /\ p \in Seq(X)
    OBVIOUS
  <2>2. PICK n \in 0..depth : Len(p) = n + 1
    <3>1. Len(p) - 1 \in 0..depth /\ Len(p) = (Len(p) - 1) + 1
      BY <2>1
    <3>. QED
      BY <3>1
  <2>3. n \in Nat /\ n \in T
    BY <1>8
  <2>4. PICK d \in f[n] : d = SubSeq(p, 1, n)
    <3>1. PICK l : l = Len(p)
      OBVIOUS
    <3>2. l > n
      BY <2>2, <2>3, <3>1
    <3>3. \A q \in paths : Len(q) > n => SubSeq(q, 1, n) \in f[n]
      BY <2>3 DEF T
    <3>. QED
      BY <3>1, <3>2, <3>3
  <2>5. d \in Seq(X) /\ Len(d) = n
    BY <2>3, <2>4 DEF T
  <2>6. p \in ManifestToTree(paths, d).files
    <3>1. Contents(paths, d)
      BY <1>0, <2>5
    <3>2. Len(p) = Len(d) + 1 /\ SubSeq(p, 1, Len(d)) = d
      BY <2>2, <2>4, <2>5
    <3>. QED
      BY <3>1, <3>2, Zenon DEF Contents
  <2>. QED
    BY <2>6
<1>10. ASSUME NEW p \in shown PROVE p \in paths
  <2>1. PICK n \in 0..depth : \E d \in f[n] : p \in ManifestToTree(paths, d).files
    OBVIOUS
  <2>2. n \in Nat /\ n \in T
    BY <1>8
  <2>3. PICK d \in f[n] : p \in ManifestToTree(paths, d).files
    BY <2>1
  <2>4. d \in Seq(X)
    BY <2>2, <2>3 DEF T
  <2>5. Contents(paths, d)
    BY <1>0, <2>4
  <2>. QED
    BY <2>3, <2>5, Zenon DEF Contents
<1>11. Browsed(paths, depth) = shown
  BY <1>12 DEF Shown
<1>. HIDE DEF shown
<1>. QED
  BY <1>9, <1>10, <1>11

(***************************************************************************)
(* The pages of a repository agree: the last commit the page of a file     *)
(* names (musehub_repository.py:1740) is the last whose own page shows the *)
(* file as added or modified, and opening every directory shows every file *)
(* of a manifest, for histories of any length, any number of branches and  *)
(* contents, and any limit of the scan that reaches the commit.            *)
(***************************************************************************)
THEOREM BrowsingAlwaysAgrees == Spec => []BrowsingAgrees
<1>1. Init => HistoryInv
  BY DEF Init, HistoryInv
<1>2. HistoryInv => BrowsingAgrees
  <2>. SUFFICES ASSUME HistoryInv PROVE BrowsingAgrees
    OBVIOUS
  <2>1. ASSUME NEW n \in DOMAIN history, NEW path \in Paths,
               \A i \in Before(n) \cup {n} : Snapped(history[i]),
               ObjectAt(history[n], path) # Absent,
               Cardinality({i \in Before(n) : i >= LastTouching(path, n)}) < ScanLimit
        PROVE  LastCommitForFile(history, path, n) = LastTouching(path, n)
    BY <2>1, PagesAgree
  <2>2. ASSUME NEW paths \in SUBSET TreePaths PROVE Browsed(paths, 2) = paths
    <3>1. TreePaths \in SUBSET Seq({"a", "d", "e"}) /\ \A p \in TreePaths : Len(p) \in 1..3
      BY DEF TreePaths
    <3>2. paths \in SUBSET Seq({"a", "d", "e"}) /\ \A p \in paths : Len(p) \in 1..(2 + 1)
      BY <3>1
    <3>. QED
      BY <3>2, AllBrowsed
  <2>. QED
    BY <2>1, <2>2 DEF BrowsingAgrees
<1>. QED
  BY <1>1, <1>2, HistoryStep, PTL DEF Spec

-----------------------------------------------------------------------------
(***************************************************************************)
(* The messages of a track and when they come.                             *)
(***************************************************************************)
TrackInv == track \in Seq([wait : Nat, kind : {"on", "off", "meta"}, key : Keys])

LEMMA TrackStep == TrackInv /\ [Next]_vars => TrackInv'
<1>. SUFFICES ASSUME TrackInv, [Next]_vars PROVE TrackInv'
  OBVIOUS
<1>1. PICK messages : messages = [wait : Nat, kind : {"on", "off", "meta"}, key : Keys]
  OBVIOUS
<1>2. track \in Seq(messages)
  BY <1>1 DEF TrackInv
<1>3. ASSUME NEW message \in Messages, AddMessage(message)
      PROVE  track' \in Seq(messages)
  <2>1. message \in messages
    BY <1>1, MaxWaitOK DEF Messages, Keys
  <2>. QED
    BY <1>2, <1>3, <2>1 DEF AddMessage
<1>4. CASE UNCHANGED track
  BY <1>1, <1>2, <1>4 DEF TrackInv
<1>5. CASE \E message \in Messages : AddMessage(message)
  BY <1>1, <1>3, <1>5 DEF TrackInv
<1>. QED
  BY <1>4, <1>5 DEF Next, AddCommit, AddRevision, vars

LEMMA MessageRight ==
    ASSUME TrackInv
    PROVE  /\ Len(track) \in Nat /\ DOMAIN track = 1..Len(track)
           /\ \A k \in 1..Len(track) :
                 /\ track[k].wait \in Nat /\ track[k].key \in Keys
                 /\ track[k].kind \in {"on", "off", "meta"}
<1>1. PICK messages : messages = [wait : Nat, kind : {"on", "off", "meta"}, key : Keys]
  OBVIOUS
<1>2. track \in Seq(messages)
  BY <1>1 DEF TrackInv
<1>3. \A k \in 1..Len(track) : track[k] \in messages
  BY <1>2
<1>. QED
  BY <1>1, <1>2, <1>3

TimeEquation(f, n) ==
    f = [s \in SUBSET (DOMAIN SubSeq(track, 1, n)) |->
            IF s = {} THEN 0 ELSE f[s \ {Max(s)}] + SubSeq(track, 1, n)[Max(s)].wait]

LEMMA TimeNamed ==
    ASSUME NEW n, NEW f, f = CHOOSE g : TimeEquation(g, n)
    PROVE  Time(n) = f[DOMAIN SubSeq(track, 1, n)]
BY DEF Time, FoldLeft, MapThenFoldSet, TimeEquation

\* The first messages, one by one.
LEMMA TimeUnfolds ==
    ASSUME TrackInv, NEW n \in 0..Len(track), NEW f, f = CHOOSE g : TimeEquation(g, n)
    PROVE  /\ f[{}] = 0
           /\ \A k \in Nat : k + 1 \in 1..n => f[1..(k + 1)] = f[1..k] + track[k + 1].wait
           /\ Time(n) = f[1..n]
<1>. DEFINE turn == [k \in 1..n |-> [t \in Nat |-> t + track[k].wait]]
<1>1. n \in Nat /\ \A k \in 1..n : track[k].wait \in Nat
  BY MessageRight
<1>2. DOMAIN SubSeq(track, 1, n) = 1..n /\ \A k \in 1..n : SubSeq(track, 1, n)[k] = track[k]
  BY MessageRight DEF TrackInv
<1>3. turn \in [1..n -> [Nat -> Nat]]
  BY <1>1
<1>4. PICK h \in [SUBSET (1..n) -> Nat] : FoldEquation(h, 0, turn, n)
  <2>1. HasFold(Nat, 0, turn, n)
    <3>. HIDE DEF turn
    <3>. QED
      BY <1>1, <1>3, FoldExists
  <2>. QED
    BY <2>1, Zenon DEF HasFold
<1>5. ASSUME NEW s \in SUBSET (1..n), s # {}
      PROVE  Max(s) \in 1..n /\ s \ {Max(s)} \in SUBSET (1..n)
  BY <1>1, <1>5, MaxRight
<1>6. ASSUME NEW s \in SUBSET (1..n)
      PROVE  h[s] = IF s = {} THEN 0 ELSE h[s \ {Max(s)}] + SubSeq(track, 1, n)[Max(s)].wait
  <2>1. h[s] = IF s = {} THEN 0 ELSE turn[Max(s)][h[s \ {Max(s)}]]
    BY <1>4, Zenon DEF FoldEquation
  <2>2. ASSUME s # {} PROVE turn[Max(s)][h[s \ {Max(s)}]] = h[s \ {Max(s)}] + SubSeq(track, 1, n)[Max(s)].wait
    <3>1. PICK k \in 1..n, r \in SUBSET (1..n) : k = Max(s) /\ r = s \ {Max(s)}
      BY <1>5, <2>2
    <3>2. h[r] \in Nat
      BY <1>4
    <3>3. turn[k][h[r]] = h[r] + track[k].wait
      BY <3>2
    <3>. QED
      BY <1>2, <3>1, <3>3, Zenon
  <2>. QED
    BY <2>1, <2>2, Zenon
<1>7. TimeEquation(h, n)
  <2>1. h = [s \in SUBSET (1..n) |-> h[s]]
    BY <1>4
  <2>. QED
    BY <1>2, <1>6, <2>1, Zenon DEF TimeEquation
<1>8. TimeEquation(f, n)
  BY <1>7, Zenon
<1>. HIDE DEF turn
<1>9. \A s \in SUBSET (1..n) :
         f[s] = IF s = {} THEN 0 ELSE f[s \ {Max(s)}] + SubSeq(track, 1, n)[Max(s)].wait
  BY <1>2, <1>8, Zenon DEF TimeEquation
<1>10. f[{}] = 0
  BY <1>9
<1>11. ASSUME NEW k \in Nat, k + 1 \in 1..n
       PROVE  f[1..(k + 1)] = f[1..k] + track[k + 1].wait
  <2>1. 1..(k + 1) \in SUBSET (1..n)
    BY <1>11
  <2>2. PICK all : all = 1..(k + 1)
    OBVIOUS
  <2>3. Max(all) = k + 1 /\ all \ {k + 1} = 1..k /\ all # {}
    BY <2>2, MaxOfFirst, Zenon
  <2>4. f[all] = f[all \ {Max(all)}] + SubSeq(track, 1, n)[Max(all)].wait
    BY <1>9, <2>1, <2>2, <2>3, Zenon
  <2>. QED
    BY <1>2, <1>11, <2>2, <2>3, <2>4, Zenon
<1>12. Time(n) = f[1..n]
  BY <1>2, TimeNamed
<1>. QED
  BY <1>10, <1>11, <1>12

LEMMA TimesMeet ==
    ASSUME TrackInv, NEW n \in 0..Len(track), NEW m \in 0..Len(track),
           NEW f, f = CHOOSE h : TimeEquation(h, n), NEW g, g = CHOOSE h : TimeEquation(h, m),
           NEW k \in Nat, k <= n, k <= m
    PROVE  f[1..k] = g[1..k] /\ f[1..k] \in Nat
<1>1. /\ f[{}] = 0 /\ g[{}] = 0
      /\ \A i \in Nat : i + 1 \in 1..n => f[1..(i + 1)] = f[1..i] + track[i + 1].wait
      /\ \A i \in Nat : i + 1 \in 1..m => g[1..(i + 1)] = g[1..i] + track[i + 1].wait
  BY TimeUnfolds
<1>2. n \in Nat /\ m \in Nat /\ n <= Len(track) /\ Len(track) \in Nat
  BY MessageRight
<1>. DEFINE T == {i \in Nat : i <= n /\ i <= m => f[1..i] = g[1..i] /\ f[1..i] \in Nat}
<1>3. 0 \in T /\ T \in SUBSET Nat
  <2>1. 1..0 = {}
    OBVIOUS
  <2>. QED
    BY <1>1, <2>1
<1>4. ASSUME NEW i \in T PROVE i + 1 \in T
  <2>. SUFFICES ASSUME i + 1 <= n, i + 1 <= m
                PROVE  f[1..(i + 1)] = g[1..(i + 1)] /\ f[1..(i + 1)] \in Nat
    OBVIOUS
  <2>1. i \in Nat /\ f[1..i] = g[1..i] /\ f[1..i] \in Nat /\ i + 1 \in 1..n /\ i + 1 \in 1..m
    BY <1>2
  <2>2. track[i + 1].wait \in Nat
    BY <1>2, <2>1, MessageRight
  <2>3. f[1..(i + 1)] = f[1..i] + track[i + 1].wait /\ g[1..(i + 1)] = g[1..i] + track[i + 1].wait
    BY <1>1, <2>1, Zenon
  <2>4. \A a, b \in Nat : a + b \in Nat
    OBVIOUS
  <2>. QED
    BY <2>1, <2>2, <2>3, <2>4, Zenon
<1>. HIDE DEF T
<1>5. T = Nat
  BY <1>3, <1>4, Induction
<1>6. k \in T
  BY <1>5
<1>7. k \in Nat /\ (k <= n /\ k <= m => f[1..k] = g[1..k] /\ f[1..k] \in Nat)
  BY <1>6, Zenon DEF T
<1>. QED
  BY <1>7, Zenon

LEMMA TimeRight ==
    ASSUME TrackInv
    PROVE  /\ Time(0) = 0
           /\ \A n \in 0..Len(track) : Time(n) \in Nat
           /\ \A n \in Nat : n + 1 \in 1..Len(track) => Time(n + 1) = Time(n) + track[n + 1].wait
           /\ \A m, n \in 0..Len(track) : m <= n => Time(m) <= Time(n)
<1>. DEFINE N == Len(track)
<1>1. N \in Nat
  BY MessageRight
<1>2. ASSUME NEW n \in 0..N PROVE Time(n) \in Nat
  <2>1. PICK f : f = CHOOSE h : TimeEquation(h, n)
    OBVIOUS
  <2>2. n \in Nat /\ n <= n
    BY <1>1
  <2>3. Time(n) = f[1..n]
    BY <2>1, TimeUnfolds
  <2>4. f[1..n] \in Nat
    BY <2>1, <2>2, TimesMeet
  <2>. QED
    BY <2>3, <2>4
<1>3. Time(0) = 0
  <2>1. PICK f : f = CHOOSE h : TimeEquation(h, 0)
    OBVIOUS
  <2>2. 0 \in 0..N /\ 1..0 = {}
    BY <1>1
  <2>3. Time(0) = f[1..0] /\ f[{}] = 0
    BY <2>1, <2>2, TimeUnfolds
  <2>. QED
    BY <2>2, <2>3
<1>4. ASSUME NEW n \in Nat, n + 1 \in 1..N PROVE Time(n + 1) = Time(n) + track[n + 1].wait
  <2>1. PICK f, g, m : /\ f = (CHOOSE h : TimeEquation(h, n)) /\ m = n + 1
                       /\ g = CHOOSE h : TimeEquation(h, m)
    OBVIOUS
  <2>2. n \in 0..N /\ m \in 0..N /\ n <= n /\ n <= m /\ m \in 1..m
    BY <1>1, <1>4, <2>1
  <2>3. Time(n) = f[1..n]
    BY <2>1, <2>2, TimeUnfolds
  <2>4. Time(m) = g[1..m] /\ g[1..(n + 1)] = g[1..n] + track[n + 1].wait
    <3>1. \A k \in Nat : k + 1 \in 1..m => g[1..(k + 1)] = g[1..k] + track[k + 1].wait
      BY <2>1, <2>2, TimeUnfolds
    <3>2. Time(m) = g[1..m]
      BY <2>1, <2>2, TimeUnfolds
    <3>. QED
      BY <2>1, <2>2, <3>1, <3>2
  <2>5. f[1..n] = g[1..n]
    BY <2>1, <2>2, TimesMeet
  <2>. QED
    BY <2>1, <2>3, <2>4, <2>5
<1>5. ASSUME NEW m \in 0..N, NEW n \in 0..N, m <= n PROVE Time(m) <= Time(n)
  <2>. DEFINE T == {k \in Nat : m + k <= N => Time(m) <= Time(m + k)}
  <2>1. 0 \in T /\ T \in SUBSET Nat
    <3>1. m + 0 = m /\ Time(m) \in Nat
      BY <1>1, <1>2
    <3>. QED
      BY <3>1
  <2>2. ASSUME NEW k \in T PROVE k + 1 \in T
    <3>. SUFFICES ASSUME m + (k + 1) <= N PROVE Time(m) <= Time(m + (k + 1))
      OBVIOUS
    <3>1. PICK l \in Nat : l = m + k /\ l + 1 = m + (k + 1)
      BY <1>1
    <3>2. l + 1 \in 1..N /\ l \in 0..N /\ Time(m) <= Time(l)
      BY <1>1, <3>1
    <3>3. Time(l + 1) = Time(l) + track[l + 1].wait
      BY <1>4, <3>2
    <3>4. Time(m) \in Nat /\ Time(l) \in Nat /\ track[l + 1].wait \in Nat
      BY <1>2, <3>2, MessageRight
    <3>5. Time(m) <= Time(l + 1)
      BY <3>2, <3>3, <3>4
    <3>. QED
      BY <3>1, <3>5
  <2>. HIDE DEF T
  <2>3. T = Nat
    BY <2>1, <2>2, Induction
  <2>4. n - m \in T /\ m + (n - m) = n
    BY <1>1, <1>5, <2>3
  <2>5. n <= N
    BY <1>1
  <2>. QED
    BY <2>4, <2>5 DEF T
<1>. QED
  BY <1>2, <1>3, <1>4, <1>5

(***************************************************************************)
(* A key is held as the last message about it says.                        *)
(***************************************************************************)
LEMMA HeldRight ==
    ASSUME TrackInv, NEW key
    PROVE  /\ ~HeldAfter(key, 0)
           /\ \A k \in Nat : k + 1 \in 1..Len(track) =>
                 (HeldAfter(key, k + 1) <=>
                     IF track[k + 1].key = key /\ track[k + 1].kind # "meta"
                     THEN track[k + 1].kind = "on" ELSE HeldAfter(key, k))
<1>. DEFINE About(n) == {i \in 1..n : track[i].key = key /\ track[i].kind # "meta"}
            LastAbout(n) == CHOOSE i \in About(n) : \A j \in About(n) : j <= i
<1>1. \A n : HeldAfter(key, n) <=> About(n) # {} /\ track[LastAbout(n)].kind = "on"
  BY DEF HeldAfter
<1>2. About(0) = {}
  OBVIOUS
<1>3. ASSUME NEW k \in Nat, k + 1 \in 1..Len(track)
      PROVE  HeldAfter(key, k + 1) <=>
               IF track[k + 1].key = key /\ track[k + 1].kind # "meta"
               THEN track[k + 1].kind = "on" ELSE HeldAfter(key, k)
  <2>1. CASE track[k + 1].key = key /\ track[k + 1].kind # "meta"
    <3>1. k + 1 \in About(k + 1) /\ \A j \in About(k + 1) : j <= k + 1 /\ j \in Nat
      BY <2>1
    <3>. HIDE DEF About
    <3>2. PICK l : l = LastAbout(k + 1)
      OBVIOUS
    <3>3. l \in About(k + 1) /\ \A j \in About(k + 1) : j <= l
      BY <3>1, <3>2, Zenon
    <3>4. l = k + 1
      BY <3>1, <3>3
    <3>5. HeldAfter(key, k + 1) <=> track[k + 1].kind = "on"
      BY <1>1, <3>1, <3>2, <3>4
    <3>. QED
      BY <2>1, <3>5, Zenon
  <2>2. CASE ~(track[k + 1].key = key /\ track[k + 1].kind # "meta")
    <3>1. About(k + 1) = About(k)
      BY <2>2
    <3>. HIDE DEF About
    <3>2. LastAbout(k + 1) = LastAbout(k)
      BY <3>1
    <3>3. HeldAfter(key, k + 1) <=> HeldAfter(key, k)
      BY <1>1, <3>1, <3>2
    <3>. QED
      BY <2>2, <3>3, Zenon
  <2>. QED
    BY <2>1, <2>2, Zenon
<1>. QED
  BY <1>1, <1>2, <1>3, Zenon

(***************************************************************************)
(* What a reader of the track has found after some messages.               *)
(***************************************************************************)
NoteSet == [key : Keys, start : Nat, end : Nat]

ReadStates ==
    [tick : Nat, held : UNION {[held -> Nat] : held \in SUBSET Keys}, notes : Seq(NoteSet)]

Unread == [tick |-> 0, held |-> <<>>, notes |-> <<>>]

ReadEquation(f, reader) ==
    f = [s \in SUBSET (DOMAIN track) |->
            IF s = {} THEN [tick |-> 0, held |-> <<>>, notes |-> <<>>]
            ELSE Read(reader, f[s \ {Max(s)}], track[Max(s)])]

LEMMA AtEndNamed ==
    ASSUME NEW reader, NEW f, f = CHOOSE g : ReadEquation(g, reader)
    PROVE  AtEnd(reader, track) = f[DOMAIN track]
BY DEF AtEnd, FoldLeft, MapThenFoldSet, ReadEquation

\* What a message does.
ReadTo(reader, s, message, t) ==
    /\ t.tick = s.tick + message.wait
    /\ message.kind = "on" =>
          t.held = Strike(reader, s.held, message.key, t.tick) /\ t.notes = s.notes
    /\ message.kind = "off" /\ message.key \in DOMAIN s.held =>
          /\ t.held = Restrict(s.held, DOMAIN s.held \ {message.key})
          /\ t.notes = Append(s.notes, Note(message.key, s.held[message.key], t.tick))
    /\ message.kind # "on" /\ ~(message.kind = "off" /\ message.key \in DOMAIN s.held) =>
          t.held = s.held /\ t.notes = s.notes

LEMMA ReadRight ==
    ASSUME NEW reader, NEW s \in ReadStates, NEW message,
           message.wait \in Nat, message.key \in Keys, message.kind \in {"on", "off", "meta"},
           NEW t, t = Read(reader, s, message)
    PROVE  ReadTo(reader, s, message, t) /\ t \in ReadStates
<1>1. PICK key, tick, held, notes : /\ key = message.key /\ tick = s.tick + message.wait
                                    /\ held = s.held /\ notes = s.notes
  OBVIOUS
<1>2. /\ s = [tick |-> s.tick, held |-> held, notes |-> notes]
      /\ s.tick \in Nat /\ tick \in Nat /\ notes \in Seq(NoteSet) /\ key \in Keys
      /\ DOMAIN held \in SUBSET Keys /\ held \in [DOMAIN held -> Nat]
  BY <1>1 DEF ReadStates
<1>3. ASSUME NEW h, DOMAIN h \in SUBSET Keys, h \in [DOMAIN h -> Nat], NEW ns \in Seq(NoteSet)
      PROVE  [tick |-> tick, held |-> h, notes |-> ns] \in ReadStates
  BY <1>2, <1>3 DEF ReadStates
<1>4. CASE message.kind = "on"
  <2>1. t = [tick |-> tick, held |-> Strike(reader, held, key, tick), notes |-> notes]
    BY <1>1, <1>2, <1>4 DEF Read
  <2>2. PICK h : h = Strike(reader, held, key, tick)
    OBVIOUS
  <2>3. DOMAIN h = DOMAIN held \cup {key} /\ h \in [DOMAIN h -> Nat]
    BY <1>2, <2>2 DEF Strike, KeepFirst, TakeLast
  <2>4. t \in ReadStates
    BY <1>2, <1>3, <2>1, <2>2, <2>3
  <2>. QED
    BY <1>1, <1>4, <2>1, <2>4 DEF ReadTo
<1>5. CASE message.kind = "off" /\ key \in DOMAIN held
  <2>1. PICK h, ns : /\ h = Restrict(held, DOMAIN held \ {key})
                     /\ ns = Append(notes, Note(key, held[key], tick))
    OBVIOUS
  <2>2. t = [tick |-> tick, held |-> h, notes |-> ns]
    BY <1>1, <1>2, <1>5, <2>1 DEF Read
  <2>3. DOMAIN h = DOMAIN held \ {key} /\ h \in [DOMAIN h -> Nat]
    BY <1>2, <2>1 DEF Restrict
  <2>4. ns \in Seq(NoteSet)
    <3>1. Note(key, held[key], tick) \in NoteSet
      BY <1>2, <1>5 DEF Note, NoteSet
    <3>. QED
      BY <1>2, <2>1, <3>1
  <2>5. t \in ReadStates
    BY <1>2, <1>3, <2>2, <2>3, <2>4
  <2>. QED
    BY <1>1, <1>5, <2>1, <2>2, <2>5 DEF ReadTo
<1>6. CASE message.kind # "on" /\ ~(message.kind = "off" /\ key \in DOMAIN held)
  <2>1. t = [tick |-> tick, held |-> held, notes |-> notes]
    BY <1>1, <1>2, <1>6 DEF Read
  <2>2. t \in ReadStates
    BY <1>2, <1>3, <2>1
  <2>. QED
    BY <1>1, <1>6, <2>1, <2>2 DEF ReadTo
<1>. QED
  BY <1>4, <1>5, <1>6

LEMMA ReadUnfolds ==
    ASSUME TrackInv, NEW reader, NEW f, f = CHOOSE g : ReadEquation(g, reader)
    PROVE  /\ f[{}] = Unread
           /\ \A k \in Nat : k + 1 \in 1..Len(track) =>
                 f[1..(k + 1)] = Read(reader, f[1..k], track[k + 1])
           /\ AtEnd(reader, track) = f[1..Len(track)]
<1>. DEFINE n == Len(track)
            turn == [k \in 1..n |-> [s \in ReadStates |-> Read(reader, s, track[k])]]
<1>1. n \in Nat /\ DOMAIN track = 1..n
      /\ \A k \in 1..n : /\ track[k].wait \in Nat /\ track[k].key \in Keys
                         /\ track[k].kind \in {"on", "off", "meta"}
  BY MessageRight
<1>. HIDE DEF n
<1>2. Unread \in ReadStates
  <2>1. <<>> \in [{} -> Nat] /\ <<>> \in Seq(NoteSet)
    OBVIOUS
  <2>. QED
    BY <2>1 DEF Unread, ReadStates
<1>3. turn \in [1..n -> [ReadStates -> ReadStates]]
  <2>. SUFFICES ASSUME NEW k \in 1..n, NEW s \in ReadStates PROVE Read(reader, s, track[k]) \in ReadStates
    OBVIOUS
  <2>. QED
    BY <1>1, ReadRight
<1>4. PICK h \in [SUBSET (1..n) -> ReadStates] : FoldEquation(h, Unread, turn, n)
  <2>1. HasFold(ReadStates, Unread, turn, n)
    <3>. HIDE DEF turn
    <3>. QED
      BY <1>1, <1>2, <1>3, FoldExists
  <2>. QED
    BY <2>1, Zenon DEF HasFold
<1>5. ASSUME NEW s \in SUBSET (1..n), s # {}
      PROVE  Max(s) \in 1..n /\ s \ {Max(s)} \in SUBSET (1..n)
  BY <1>1, <1>5, MaxRight
<1>6. ASSUME NEW s \in SUBSET (1..n)
      PROVE  h[s] = IF s = {} THEN Unread ELSE Read(reader, h[s \ {Max(s)}], track[Max(s)])
  <2>1. h[s] = IF s = {} THEN Unread ELSE turn[Max(s)][h[s \ {Max(s)}]]
    BY <1>4, Zenon DEF FoldEquation
  <2>2. ASSUME s # {} PROVE turn[Max(s)][h[s \ {Max(s)}]] = Read(reader, h[s \ {Max(s)}], track[Max(s)])
    <3>1. PICK k \in 1..n, r \in SUBSET (1..n) : k = Max(s) /\ r = s \ {Max(s)}
      BY <1>5, <2>2
    <3>2. h[r] \in ReadStates
      BY <1>4
    <3>3. turn[k][h[r]] = Read(reader, h[r], track[k])
      BY <3>2
    <3>. QED
      BY <3>1, <3>3, Zenon
  <2>. QED
    BY <2>1, <2>2, Zenon
<1>7. ReadEquation(h, reader)
  <2>1. h = [s \in SUBSET (1..n) |-> h[s]]
    BY <1>4
  <2>. QED
    BY <1>1, <1>6, <2>1, Zenon DEF ReadEquation, Unread
<1>8. ReadEquation(f, reader)
  BY <1>7, Zenon
<1>. HIDE DEF turn
<1>9. \A s \in SUBSET (1..n) :
         f[s] = IF s = {} THEN Unread ELSE Read(reader, f[s \ {Max(s)}], track[Max(s)])
  BY <1>1, <1>8, Zenon DEF ReadEquation, Unread
<1>10. f[{}] = Unread
  BY <1>9
<1>11. ASSUME NEW k \in Nat, k + 1 \in 1..n
       PROVE  f[1..(k + 1)] = Read(reader, f[1..k], track[k + 1])
  <2>1. 1..(k + 1) \in SUBSET (1..n)
    BY <1>1, <1>11
  <2>2. PICK all : all = 1..(k + 1)
    OBVIOUS
  <2>3. Max(all) = k + 1 /\ all \ {k + 1} = 1..k /\ all # {}
    BY <2>2, MaxOfFirst, Zenon
  <2>4. f[all] = Read(reader, f[all \ {Max(all)}], track[Max(all)])
    BY <1>9, <2>1, <2>2, <2>3, Zenon
  <2>. QED
    BY <2>2, <2>3, <2>4, Zenon
<1>12. AtEnd(reader, track) = f[1..n]
  BY <1>1, AtEndNamed
<1>. QED
  BY <1>10, <1>11, <1>12 DEF n

-----------------------------------------------------------------------------
\* No note of a key ends after the next one starts.
Ordered(s) ==
    /\ \A key \in DOMAIN s.held : s.held[key] <= s.tick
    /\ \A i \in DOMAIN s.notes :
          /\ s.notes[i].end <= s.tick
          /\ s.notes[i].key \in DOMAIN s.held => s.notes[i].end <= s.held[s.notes[i].key]
    /\ \A i, j \in DOMAIN s.notes :
          i < j /\ s.notes[i].key = s.notes[j].key => s.notes[i].end <= s.notes[j].start

\* The notes of a key so far last through tick x.
Covers(s, key, x) ==
    \/ \E i \in DOMAIN s.notes :
          s.notes[i].key = key /\ s.notes[i].start <= x /\ x < s.notes[i].end
    \/ key \in DOMAIN s.held /\ s.held[key] <= x /\ x < s.tick

HeldNow(s, t, message) ==
    \A key \in Keys :
        key \in DOMAIN t.held <=>
            IF message.key = key /\ message.kind # "meta"
            THEN message.kind = "on" ELSE key \in DOMAIN s.held

CoversMore(s, t) ==
    \A key \in Keys, x \in Nat :
        Covers(t, key, x) <=>
            Covers(s, key, x) \/ (key \in DOMAIN s.held /\ s.tick <= x /\ x < t.tick)

\* What the parts of a state are.
LEMMA StateParts ==
    ASSUME NEW s \in ReadStates
    PROVE  /\ s.tick \in Nat /\ DOMAIN s.held \in SUBSET Keys
           /\ \A key \in DOMAIN s.held : s.held[key] \in Nat
           /\ s.notes \in Seq(NoteSet) /\ DOMAIN s.notes = 1..Len(s.notes) /\ Len(s.notes) \in Nat
           /\ \A i \in DOMAIN s.notes : /\ s.notes[i].key \in Keys
                                        /\ s.notes[i].start \in Nat /\ s.notes[i].end \in Nat
<1>1. s.tick \in Nat /\ s.notes \in Seq(NoteSet)
  BY DEF ReadStates
<1>2. PICK held \in SUBSET Keys : s.held \in [held -> Nat]
  BY DEF ReadStates
<1>3. PICK all : all = NoteSet
  OBVIOUS
<1>4. s.notes \in Seq(all) /\ \A i \in DOMAIN s.notes : s.notes[i] \in all
  BY <1>1, <1>3
<1>5. \A n \in all : n.key \in Keys /\ n.start \in Nat /\ n.end \in Nat
  BY <1>3 DEF NoteSet
<1>. QED
  BY <1>1, <1>2, <1>4, <1>5

\* The reader of the piano roll, message by message.
LEMMA DrawStep ==
    ASSUME NEW s \in ReadStates, NEW t \in ReadStates, NEW message,
           message.wait \in Nat, message.key \in Keys, message.kind \in {"on", "off", "meta"},
           ReadTo("draws", s, message, t), Ordered(s)
    PROVE  HeldNow(s, t, message) /\ Ordered(t) /\ CoversMore(s, t)
<1>1. PICK key, tick, held, notes, past :
         /\ key = message.key /\ tick = t.tick /\ held = s.held /\ notes = s.notes /\ past = s.tick
  OBVIOUS
<1>2. /\ tick \in Nat /\ past \in Nat /\ past <= tick /\ key \in Keys
      /\ DOMAIN held \in SUBSET Keys /\ \A k \in DOMAIN held : held[k] \in Nat
      /\ Len(notes) \in Nat /\ DOMAIN notes = 1..Len(notes) /\ notes \in Seq(NoteSet)
      /\ \A i \in DOMAIN notes : /\ notes[i].key \in Keys
                                 /\ notes[i].start \in Nat /\ notes[i].end \in Nat
  BY <1>1, StateParts DEF ReadTo
<1>3. /\ \A k \in DOMAIN held : held[k] <= past
      /\ \A i \in DOMAIN notes :
            notes[i].end <= past /\ (notes[i].key \in DOMAIN held => notes[i].end <= held[notes[i].key])
      /\ \A i, j \in DOMAIN notes :
            i < j /\ notes[i].key = notes[j].key => notes[i].end <= notes[j].start
  BY <1>1, Zenon DEF Ordered
<1>4. CASE message.kind = "on"
  <2>1. PICK h : h = Strike("draws", held, key, tick)
    OBVIOUS
  <2>2. t.held = h /\ t.notes = notes
    BY <1>1, <1>4, <2>1 DEF ReadTo
  <2>3. /\ DOMAIN h = DOMAIN held \cup {key}
        /\ \A k \in DOMAIN held : h[k] = held[k]
        /\ key \notin DOMAIN held => h[key] = tick
    BY <2>1 DEF Strike, KeepFirst
  <2>4. HeldNow(s, t, message)
    BY <1>1, <1>4, <2>2, <2>3 DEF HeldNow
  <2>5. Ordered(t)
    <3>1. ASSUME NEW k \in DOMAIN h PROVE h[k] <= tick
      BY <1>2, <1>3, <2>3
    <3>2. ASSUME NEW i \in DOMAIN notes
          PROVE  notes[i].end <= tick /\ (notes[i].key \in DOMAIN h => notes[i].end <= h[notes[i].key])
      BY <1>2, <1>3, <2>3
    <3>. QED
      BY <1>1, <1>3, <2>2, <3>1, <3>2, Zenon DEF Ordered
  <2>6. CoversMore(s, t)
    <3>. SUFFICES ASSUME NEW k \in Keys, NEW x \in Nat
                  PROVE  Covers(t, k, x) <=> Covers(s, k, x) \/ (k \in DOMAIN held /\ past <= x /\ x < tick)
      BY <1>1, Zenon DEF CoversMore
    <3>1. (k \in DOMAIN h /\ h[k] <= x /\ x < tick)
            <=> \/ k \in DOMAIN held /\ held[k] <= x /\ x < past
                \/ k \in DOMAIN held /\ past <= x /\ x < tick
      BY <1>2, <1>3, <2>3
    <3>. QED
      BY <1>1, <2>2, <3>1, Zenon DEF Covers
  <2>. QED
    BY <2>4, <2>5, <2>6
<1>5. CASE message.kind = "off" /\ key \in DOMAIN held
  <2>1. PICK h, ns, note : /\ h = Restrict(held, DOMAIN held \ {key})
                           /\ note = Note(key, held[key], tick)
                           /\ ns = Append(notes, note)
    OBVIOUS
  <2>2. t.held = h /\ t.notes = ns
    BY <1>1, <1>5, <2>1 DEF ReadTo
  <2>3. /\ DOMAIN h = DOMAIN held \ {key}
        /\ \A k \in DOMAIN h : h[k] = held[k]
    BY <2>1 DEF Restrict
  <2>4. PICK new \in Nat : new = Len(notes) + 1
    BY <1>2
  <2>5. /\ DOMAIN ns = DOMAIN notes \cup {new} /\ \A i \in DOMAIN notes : i < new /\ ~(new < i) /\ ns[i] = notes[i]
        /\ ns[new] = note /\ note.key = key /\ note.start = held[key] /\ note.end = tick
        /\ ~(new < new)
    BY <1>2, <2>1, <2>4 DEF Note
  <2>6. HeldNow(s, t, message)
    BY <1>1, <1>5, <2>2, <2>3 DEF HeldNow
  <2>7. Ordered(t)
    <3>1. ASSUME NEW k \in DOMAIN h PROVE h[k] <= tick
      BY <1>2, <1>3, <2>3
    <3>2. ASSUME NEW i \in DOMAIN ns
          PROVE  ns[i].end <= tick /\ (ns[i].key \in DOMAIN h => ns[i].end <= h[ns[i].key])
      <4>1. CASE i \in DOMAIN notes
        BY <1>2, <1>3, <2>3, <2>5, <4>1
      <4>2. CASE i = new
        BY <1>2, <2>3, <2>5, <4>2
      <4>. QED
        BY <2>5, <4>1, <4>2
    <3>3. ASSUME NEW i \in DOMAIN ns, NEW j \in DOMAIN ns, i < j, ns[i].key = ns[j].key
          PROVE  ns[i].end <= ns[j].start
      <4>1. CASE i \in DOMAIN notes /\ j \in DOMAIN notes
        BY <1>3, <2>5, <3>3, <4>1, Zenon
      <4>2. CASE i \in DOMAIN notes /\ j = new
        BY <1>3, <1>5, <2>5, <3>3, <4>2
      <4>. QED
        BY <2>5, <3>3, <4>1, <4>2
    <3>. QED
      BY <1>1, <2>2, <3>1, <3>2, <3>3, Zenon DEF Ordered
  <2>8. CoversMore(s, t)
    <3>. SUFFICES ASSUME NEW k \in Keys, NEW x \in Nat
                  PROVE  Covers(t, k, x) <=> Covers(s, k, x) \/ (k \in DOMAIN held /\ past <= x /\ x < tick)
      BY <1>1, Zenon DEF CoversMore
    <3>1. (\E i \in DOMAIN ns : ns[i].key = k /\ ns[i].start <= x /\ x < ns[i].end)
            <=> \/ \E i \in DOMAIN notes : notes[i].key = k /\ notes[i].start <= x /\ x < notes[i].end
                \/ key = k /\ held[key] <= x /\ x < tick
      BY <2>5
    <3>2. ((key = k /\ held[key] <= x /\ x < tick) \/ (k \in DOMAIN h /\ h[k] <= x /\ x < tick))
            <=> \/ k \in DOMAIN held /\ held[k] <= x /\ x < past
                \/ k \in DOMAIN held /\ past <= x /\ x < tick
      <4>1. k \in DOMAIN held => past <= tick /\ held[k] <= past /\ held[k] \in Nat
        BY <1>2, <1>3
      <4>. QED
        BY <1>2, <1>5, <2>3, <4>1
    <3>. QED
      BY <1>1, <2>2, <3>1, <3>2, Zenon DEF Covers
  <2>. QED
    BY <2>6, <2>7, <2>8
<1>6. CASE message.kind # "on" /\ ~(message.kind = "off" /\ key \in DOMAIN held)
  <2>1. t.held = held /\ t.notes = notes
    BY <1>1, <1>6 DEF ReadTo
  <2>2. HeldNow(s, t, message)
    BY <1>1, <1>6, <2>1 DEF HeldNow
  <2>3. Ordered(t)
    <3>1. \A k \in DOMAIN held : held[k] <= tick
      BY <1>2, <1>3
    <3>2. \A i \in DOMAIN notes : notes[i].end <= tick
      BY <1>2, <1>3
    <3>. QED
      BY <1>1, <1>3, <2>1, <3>1, <3>2, Zenon DEF Ordered
  <2>4. CoversMore(s, t)
    <3>. SUFFICES ASSUME NEW k \in Keys, NEW x \in Nat
                  PROVE  Covers(t, k, x) <=> Covers(s, k, x) \/ (k \in DOMAIN held /\ past <= x /\ x < tick)
      BY <1>1, Zenon DEF CoversMore
    <3>1. (k \in DOMAIN held /\ held[k] <= x /\ x < tick)
            <=> \/ k \in DOMAIN held /\ held[k] <= x /\ x < past
                \/ k \in DOMAIN held /\ past <= x /\ x < tick
      BY <1>2, <1>3
    <3>. QED
      BY <1>1, <2>1, <3>1, Zenon DEF Covers
  <2>. QED
    BY <2>2, <2>3, <2>4
<1>. QED
  BY <1>4, <1>5, <1>6

LEMMA SameCount ==
    ASSUME NEW x \in Nat, NEW y \in Nat, 1..x = 1..y
    PROVE  x = y
<1>1. (x = 0 \/ x \in 1..x) /\ (y = 0 \/ y \in 1..y) /\ 0 \notin 1..x /\ 0 \notin 1..y
  OBVIOUS
<1>2. (x \in 1..x <=> x \in 1..y) /\ (y \in 1..x <=> y \in 1..y)
  BY Zenon
<1>. QED
  BY <1>1, <1>2

\* The two readers after the same messages.
Together(d, p) ==
    /\ p.tick = d.tick /\ DOMAIN p.held = DOMAIN d.held /\ DOMAIN p.notes = DOMAIN d.notes
    /\ \A key \in DOMAIN d.held :
          p.held[key] >= d.held[key] /\ (StruckAgain(key) \/ p.held[key] = d.held[key])
    /\ \A i \in DOMAIN d.notes :
          /\ p.notes[i].key = d.notes[i].key /\ p.notes[i].end = d.notes[i].end
          /\ p.notes[i].start >= d.notes[i].start
          /\ StruckAgain(d.notes[i].key) \/ p.notes[i].start = d.notes[i].start

LEMMA TogetherStep ==
    ASSUME NEW d \in ReadStates, NEW p \in ReadStates, NEW message,
           message.wait \in Nat, message.key \in Keys, message.kind \in {"on", "off", "meta"},
           NEW e \in ReadStates, ReadTo("draws", d, message, e),
           NEW q \in ReadStates, ReadTo("parses", p, message, q),
           Ordered(d), Together(d, p),
           message.kind = "on" /\ message.key \in DOMAIN d.held => StruckAgain(message.key)
    PROVE  Together(e, q)
<1>1. PICK key, tick, held, notes, later, parsed :
         /\ key = message.key /\ tick = e.tick /\ held = d.held /\ notes = d.notes
         /\ later = p.held /\ parsed = p.notes
  OBVIOUS
<1>2. /\ tick \in Nat /\ d.tick <= tick /\ key \in Keys /\ q.tick = tick
      /\ \A k \in DOMAIN held : held[k] \in Nat /\ held[k] <= tick
      /\ Len(notes) \in Nat /\ DOMAIN notes = 1..Len(notes) /\ notes \in Seq(NoteSet)
      /\ DOMAIN parsed = 1..Len(parsed) /\ Len(parsed) \in Nat /\ parsed \in Seq(NoteSet)
  <2>1. d.tick \in Nat /\ e.tick = d.tick + message.wait /\ q.tick = e.tick
    BY StateParts DEF ReadTo, Together
  <2>2. \A k \in DOMAIN held : held[k] \in Nat /\ held[k] <= d.tick
    BY <1>1, StateParts, Zenon DEF Ordered
  <2>. QED
    BY <1>1, <2>1, <2>2, StateParts
<1>3. /\ DOMAIN later = DOMAIN held /\ DOMAIN parsed = DOMAIN notes
      /\ \A k \in DOMAIN held : later[k] >= held[k] /\ (StruckAgain(k) \/ later[k] = held[k])
      /\ \A i \in DOMAIN notes :
            /\ parsed[i].key = notes[i].key /\ parsed[i].end = notes[i].end
            /\ parsed[i].start >= notes[i].start
            /\ StruckAgain(notes[i].key) \/ parsed[i].start = notes[i].start
  BY <1>1, Zenon DEF Together
<1>4. CASE message.kind = "on"
  <2>1. PICK h, l : h = Strike("draws", held, key, tick) /\ l = Strike("parses", later, key, tick)
    OBVIOUS
  <2>2. e.held = h /\ e.notes = notes /\ q.held = l /\ q.notes = parsed
    BY <1>1, <1>2, <1>4, <2>1 DEF ReadTo
  <2>3. /\ DOMAIN h = DOMAIN held \cup {key}
        /\ \A k \in DOMAIN held : h[k] = held[k]
        /\ key \notin DOMAIN held => h[key] = tick
    BY <2>1 DEF Strike, KeepFirst
  <2>4. /\ DOMAIN l = DOMAIN held \cup {key}
        /\ \A k \in DOMAIN held : k # key => l[k] = later[k]
        /\ l[key] = tick
    BY <1>3, <2>1 DEF Strike, TakeLast
  <2>5. ASSUME NEW k \in DOMAIN h
        PROVE  l[k] >= h[k] /\ (StruckAgain(k) \/ l[k] = h[k])
    <3>1. CASE k = key /\ key \in DOMAIN held
      BY <1>1, <1>2, <1>4, <2>3, <2>4, <3>1
    <3>2. CASE k = key /\ key \notin DOMAIN held
      BY <1>2, <2>3, <2>4, <3>2
    <3>3. CASE k # key
      BY <1>3, <2>3, <2>4, <2>5, <3>3
    <3>. QED
      BY <3>1, <3>2, <3>3
  <2>6. DOMAIN l = DOMAIN h /\ q.tick = e.tick
    BY <1>1, <1>2, <2>3, <2>4
  <2>. QED
    BY <1>3, <2>2, <2>5, <2>6, Zenon DEF Together
<1>5. CASE message.kind = "off" /\ key \in DOMAIN held
  <2>1. PICK h, l, n, m, ns, ms :
           /\ h = Restrict(held, DOMAIN held \ {key}) /\ l = Restrict(later, DOMAIN later \ {key})
           /\ n = Note(key, held[key], tick) /\ m = Note(key, later[key], tick)
           /\ ns = Append(notes, n) /\ ms = Append(parsed, m)
    OBVIOUS
  <2>2. e.held = h /\ e.notes = ns /\ q.held = l /\ q.notes = ms
    BY <1>1, <1>2, <1>3, <1>5, <2>1 DEF ReadTo
  <2>3. /\ DOMAIN h = DOMAIN held \ {key} /\ DOMAIN l = DOMAIN h
        /\ \A k \in DOMAIN h : h[k] = held[k] /\ l[k] = later[k] /\ k \in DOMAIN held
    BY <1>3, <2>1 DEF Restrict
  <2>4. PICK new \in Nat : new = Len(notes) + 1
    BY <1>2
  <2>5. Len(parsed) = Len(notes)
    <3>1. PICK x \in Nat, y \in Nat : x = Len(parsed) /\ y = Len(notes)
      BY <1>2
    <3>2. 1..x = 1..y
      BY <1>2, <1>3, <3>1
    <3>3. x = y
      BY <3>2, SameCount
    <3>. QED
      BY <3>1, <3>3
  <2>6. /\ DOMAIN ns = DOMAIN notes \cup {new} /\ DOMAIN ms = DOMAIN ns /\ new \notin DOMAIN notes
        /\ \A i \in DOMAIN notes : ns[i] = notes[i] /\ ms[i] = parsed[i]
        /\ ns[new] = n /\ n.key = key /\ n.start = held[key] /\ n.end = tick
        /\ ms[new] = m /\ m.key = key /\ m.start = later[key] /\ m.end = tick
    BY <1>2, <2>1, <2>4, <2>5 DEF Note
  <2>7. ASSUME NEW k \in DOMAIN h PROVE l[k] >= h[k] /\ (StruckAgain(k) \/ l[k] = h[k])
    BY <1>3, <2>3, <2>7
  <2>8. ASSUME NEW i \in DOMAIN ns
        PROVE  /\ ms[i].key = ns[i].key /\ ms[i].end = ns[i].end
               /\ ms[i].start >= ns[i].start
               /\ StruckAgain(ns[i].key) \/ ms[i].start = ns[i].start
    <3>1. CASE i \in DOMAIN notes
      BY <1>3, <2>6, <3>1, Zenon
    <3>2. CASE i = new
      BY <1>3, <1>5, <2>6, <3>2, Zenon
    <3>. QED
      BY <2>6, <3>1, <3>2
  <2>. QED
    BY <1>1, <1>2, <2>2, <2>3, <2>6, <2>7, <2>8, Zenon DEF Together
<1>6. CASE message.kind # "on" /\ ~(message.kind = "off" /\ key \in DOMAIN held)
  <2>1. e.held = held /\ e.notes = notes /\ q.held = later /\ q.notes = parsed
    BY <1>1, <1>3, <1>6 DEF ReadTo
  <2>. QED
    BY <1>1, <1>2, <1>3, <2>1, Zenon DEF Together
<1>. QED
  BY <1>4, <1>5, <1>6

(***************************************************************************)
(* After the first messages: what the notes so far cover is what sounds.   *)
(***************************************************************************)
SoundsAt(key, k, x) ==
    \E m \in 1..k : m + 1 <= k /\ HeldAfter(key, m) /\ Time(m) <= x /\ x < Time(m + 1)

ReadSoFar(d, p, k) ==
    /\ d \in ReadStates /\ p \in ReadStates
    /\ d.tick = Time(k) /\ Ordered(d) /\ Together(d, p)
    /\ \A key \in Keys :
          /\ key \in DOMAIN d.held <=> HeldAfter(key, k)
          /\ \A x \in Nat : Covers(d, key, x) <=> SoundsAt(key, k, x)

LEMMA SoundsMore ==
    ASSUME NEW key, NEW k \in Nat, NEW x, ~HeldAfter(key, 0)
    PROVE  SoundsAt(key, k + 1, x)
             <=> SoundsAt(key, k, x) \/ (HeldAfter(key, k) /\ Time(k) <= x /\ x < Time(k + 1))
<1>1. ASSUME SoundsAt(key, k + 1, x), ~SoundsAt(key, k, x)
      PROVE  HeldAfter(key, k) /\ Time(k) <= x /\ x < Time(k + 1)
  <2>1. PICK m \in 1..(k + 1) : m + 1 <= k + 1 /\ HeldAfter(key, m) /\ Time(m) <= x /\ x < Time(m + 1)
    BY <1>1, Zenon DEF SoundsAt
  <2>2. ~(m \in 1..k /\ m + 1 <= k)
    BY <1>1, <2>1, Zenon DEF SoundsAt
  <2>3. m = k
    BY <2>1, <2>2
  <2>. QED
    BY <2>1, <2>3, Zenon
<1>2. ASSUME SoundsAt(key, k, x) PROVE SoundsAt(key, k + 1, x)
  <2>1. PICK m \in 1..k : m + 1 <= k /\ HeldAfter(key, m) /\ Time(m) <= x /\ x < Time(m + 1)
    BY <1>2, Zenon DEF SoundsAt
  <2>2. m \in 1..(k + 1) /\ m + 1 <= k + 1
    BY <2>1
  <2>. QED
    BY <2>1, <2>2, Zenon DEF SoundsAt
<1>3. ASSUME HeldAfter(key, k), Time(k) <= x, x < Time(k + 1) PROVE SoundsAt(key, k + 1, x)
  <2>1. CASE k = 0
    BY <1>3, <2>1
  <2>2. CASE k # 0
    <3>1. k \in 1..(k + 1) /\ k + 1 <= k + 1
      BY <2>2
    <3>. QED
      BY <1>3, <3>1, Zenon DEF SoundsAt
  <2>. QED
    BY <2>1, <2>2
<1>. QED
  BY <1>1, <1>2, <1>3, Zenon

LEMMA NothingRead == TrackInv => ReadSoFar(Unread, Unread, 0)
<1>. SUFFICES ASSUME TrackInv PROVE ReadSoFar(Unread, Unread, 0)
  OBVIOUS
<1>1. PICK s : s = Unread
  OBVIOUS
<1>2. s.tick = 0 /\ s.held = <<>> /\ s.notes = <<>> /\ DOMAIN s.held = {} /\ DOMAIN s.notes = {}
  BY <1>1 DEF Unread
<1>3. s \in ReadStates
  <2>1. <<>> \in [{} -> Nat] /\ <<>> \in Seq(NoteSet)
    OBVIOUS
  <2>. QED
    BY <1>1, <2>1 DEF Unread, ReadStates
<1>4. Ordered(s)
  BY <1>2 DEF Ordered
<1>5. Together(s, s)
  BY <1>2 DEF Together
<1>6. \A key \in Keys : ~HeldAfter(key, 0) /\ \A x \in Nat : ~SoundsAt(key, 0, x) /\ ~Covers(s, key, x)
  <2>1. \A m : m \notin 1..0
    OBVIOUS
  <2>2. \A key, x : ~SoundsAt(key, 0, x)
    BY <2>1, Zenon DEF SoundsAt
  <2>3. \A key, x : ~Covers(s, key, x)
    BY <1>2, Zenon DEF Covers
  <2>. QED
    BY <2>2, <2>3, HeldRight
<1>. QED
  BY <1>1, <1>2, <1>3, <1>4, <1>5, <1>6, TimeRight DEF ReadSoFar

LEMMA ReadMore ==
    ASSUME TrackInv, NEW k \in Nat, k + 1 \in 1..Len(track), NEW d, NEW p, ReadSoFar(d, p, k),
           NEW e, e = Read("draws", d, track[k + 1]), NEW q, q = Read("parses", p, track[k + 1])
    PROVE  ReadSoFar(e, q, k + 1)
<1>1. PICK message, next : message = track[k + 1] /\ next = k + 1
  OBVIOUS
<1>2. message.wait \in Nat /\ message.key \in Keys /\ message.kind \in {"on", "off", "meta"}
  BY <1>1, MessageRight
<1>3. d \in ReadStates /\ p \in ReadStates /\ d.tick = Time(k) /\ Ordered(d) /\ Together(d, p)
  BY Zenon DEF ReadSoFar
<1>4. \A key \in Keys :
         /\ key \in DOMAIN d.held <=> HeldAfter(key, k)
         /\ \A x \in Nat : Covers(d, key, x) <=> SoundsAt(key, k, x)
  BY Zenon DEF ReadSoFar
<1>5. /\ e \in ReadStates /\ ReadTo("draws", d, message, e)
      /\ q \in ReadStates /\ ReadTo("parses", p, message, q)
  BY <1>1, <1>2, <1>3, ReadRight
<1>6. HeldNow(d, e, message) /\ Ordered(e) /\ CoversMore(d, e)
  BY <1>2, <1>3, <1>5, DrawStep
<1>7. e.tick = Time(next)
  <2>1. e.tick = d.tick + message.wait
    BY <1>5 DEF ReadTo
  <2>. QED
    BY <1>1, <1>3, <2>1, TimeRight
<1>8. Together(e, q)
  <2>1. ASSUME message.kind = "on", message.key \in DOMAIN d.held PROVE StruckAgain(message.key)
    <3>1. next \in DOMAIN track /\ next - 1 = k
      BY <1>1, MessageRight
    <3>2. HeldAfter(message.key, next - 1)
      BY <1>2, <1>4, <2>1, <3>1
    <3>3. track[next].kind = "on" /\ track[next].key = message.key
      BY <1>1, <2>1
    <3>. QED
      BY <3>1, <3>2, <3>3, Zenon DEF StruckAgain
  <2>. QED
    BY <1>2, <1>3, <1>5, <1>6, <2>1, TogetherStep
<1>9. ASSUME NEW key \in Keys
      PROVE  /\ key \in DOMAIN e.held <=> HeldAfter(key, next)
             /\ \A x \in Nat : Covers(e, key, x) <=> SoundsAt(key, next, x)
  <2>1. key \in DOMAIN e.held <=> IF message.key = key /\ message.kind # "meta"
                                  THEN message.kind = "on" ELSE key \in DOMAIN d.held
    BY <1>6, Zenon DEF HeldNow
  <2>2. HeldAfter(key, next) <=> IF message.key = key /\ message.kind # "meta"
                                 THEN message.kind = "on" ELSE HeldAfter(key, k)
    BY <1>1, HeldRight
  <2>3. ~HeldAfter(key, 0)
    BY HeldRight
  <2>4. ASSUME NEW x \in Nat PROVE Covers(e, key, x) <=> SoundsAt(key, next, x)
    <3>1. Covers(e, key, x) <=> Covers(d, key, x) \/ (key \in DOMAIN d.held /\ d.tick <= x /\ x < e.tick)
      BY <1>6, Zenon DEF CoversMore
    <3>2. SoundsAt(key, next, x)
            <=> SoundsAt(key, k, x) \/ (HeldAfter(key, k) /\ Time(k) <= x /\ x < Time(next))
      BY <1>1, <2>3, SoundsMore
    <3>. QED
      BY <1>3, <1>4, <1>7, <3>1, <3>2, Zenon
  <2>. QED
    BY <1>4, <2>1, <2>2, <2>4, Zenon
<1>. QED
  BY <1>1, <1>3, <1>5, <1>6, <1>7, <1>8, <1>9, Zenon DEF ReadSoFar

LEMMA AllRead ==
    ASSUME TrackInv
    PROVE  ReadSoFar(AtEnd("draws", track), AtEnd("parses", track), Len(track))
<1>1. PICK f, g : f = (CHOOSE h : ReadEquation(h, "draws")) /\ g = CHOOSE h : ReadEquation(h, "parses")
  OBVIOUS
<1>. DEFINE n == Len(track)
<1>2. n \in Nat
  BY MessageRight
<1>3. /\ f[{}] = Unread /\ g[{}] = Unread
      /\ \A k \in Nat : k + 1 \in 1..n =>
            /\ f[1..(k + 1)] = Read("draws", f[1..k], track[k + 1])
            /\ g[1..(k + 1)] = Read("parses", g[1..k], track[k + 1])
      /\ AtEnd("draws", track) = f[1..n] /\ AtEnd("parses", track) = g[1..n]
  BY <1>1, ReadUnfolds
<1>. DEFINE T == {k \in Nat : k <= n => ReadSoFar(f[1..k], g[1..k], k)}
<1>4. 0 \in T /\ T \in SUBSET Nat
  <2>1. 1..0 = {}
    OBVIOUS
  <2>. QED
    BY <1>3, <2>1, NothingRead
<1>5. ASSUME NEW k \in T PROVE k + 1 \in T
  <2>. SUFFICES ASSUME k + 1 <= n PROVE ReadSoFar(f[1..(k + 1)], g[1..(k + 1)], k + 1)
    OBVIOUS
  <2>1. k \in Nat /\ k + 1 \in 1..n /\ ReadSoFar(f[1..k], g[1..k], k)
    BY <1>2
  <2>. QED
    BY <1>3, <2>1, ReadMore
<1>. HIDE DEF T
<1>6. T = Nat
  BY <1>4, <1>5, Induction
<1>7. n \in T /\ n <= n
  BY <1>2, <1>6
<1>8. ReadSoFar(f[1..n], g[1..n], n)
  BY <1>7, Zenon DEF T
<1>. QED
  BY <1>3, <1>8

-----------------------------------------------------------------------------
(***************************************************************************)
(* The notes of a state, with those of the keys that are still held.       *)
(***************************************************************************)
LEMMA SetListed ==
    ASSUME NEW S, IsFiniteSet(S), NEW f, f = SetToSeq(S), NEW n, n = Cardinality(S)
    PROVE  /\ n \in Nat /\ f \in [1..n -> S]
           /\ \A a, b \in 1..n : f[a] = f[b] => a = b
           /\ \A x \in S : \E i \in 1..n : f[i] = x
<1>1. n \in Nat /\ ExistsBijection(1..n, S)
  BY FS_CardinalityType
<1>2. PICK g \in Bijection(1..n, S) : TRUE
  BY <1>1 DEF ExistsBijection
<1>3. g \in [1..n -> S] /\ IsInjective(g)
  BY <1>2 DEF Bijection, Injection
<1>4. f = CHOOSE h \in [1..n -> S] : IsInjective(h)
  BY DEF SetToSeq
<1>5. f \in [1..n -> S] /\ IsInjective(f)
  BY <1>3, <1>4, Zenon
<1>6. IsFiniteSet(1..n) /\ Cardinality(1..n) = n
  BY <1>1, FS_Interval
<1>7. f \in Surjection(1..n, S)
  <2>1. f \in Injection(1..n, S)
    BY <1>5 DEF Injection
  <2>. QED
    BY <1>6, <2>1, FS_Injection
<1>. QED
  BY <1>1, <1>5, <1>7 DEF Surjection, IsInjective

DanglingNote(s, key) == Note(key, s.held[key], Larger(s.tick, s.held[key] + 1))

LEMMA DanglingRight ==
    ASSUME NEW s \in ReadStates, NEW keys, keys = SetToSeq(DOMAIN s.held),
           NEW m, m = Cardinality(DOMAIN s.held)
    PROVE  /\ m \in Nat /\ keys \in [1..m -> DOMAIN s.held]
           /\ \A a, b \in 1..m : keys[a] = keys[b] => a = b
           /\ \A key \in DOMAIN s.held : \E i \in 1..m : keys[i] = key
           /\ Dangling(s) \in Seq(NoteSet) /\ Len(Dangling(s)) = m
           /\ \A i \in 1..m : Dangling(s)[i] = DanglingNote(s, keys[i])
<1>1. IsFiniteSet(DOMAIN s.held)
  <2>1. IsFiniteSet(Keys)
    <3>1. IsFiniteSet({}) /\ IsFiniteSet({} \cup {<<1, 0>>})
      BY FS_EmptySet, FS_AddElement
    <3>2. IsFiniteSet(({} \cup {<<1, 0>>}) \cup {<<2, 0>>})
      BY <3>1, FS_AddElement
    <3>3. Keys = ({} \cup {<<1, 0>>}) \cup {<<2, 0>>}
      BY DEF Keys
    <3>. QED
      BY <3>2, <3>3
  <2>. QED
    BY <2>1, StateParts, FS_Subset
<1>2. /\ m \in Nat /\ keys \in [1..m -> DOMAIN s.held]
      /\ \A a, b \in 1..m : keys[a] = keys[b] => a = b
      /\ \A key \in DOMAIN s.held : \E i \in 1..m : keys[i] = key
  BY <1>1, SetListed
<1>3. Dangling(s) = [i \in 1..m |-> DanglingNote(s, keys[i])]
  BY <1>2 DEF Dangling, DanglingNote
<1>4. \A i \in 1..m : DanglingNote(s, keys[i]) \in NoteSet
  <2>. SUFFICES ASSUME NEW key \in DOMAIN s.held PROVE DanglingNote(s, key) \in NoteSet
    BY <1>2
  <2>1. key \in Keys /\ s.held[key] \in Nat /\ s.tick \in Nat
    BY StateParts
  <2>. QED
    BY <2>1 DEF DanglingNote, Note, Larger, NoteSet
<1>. QED
  BY <1>2, <1>3, <1>4

\* All notes of a state; n of them were let go.
Listed(s, all, keys, n, m) ==
    /\ n \in Nat /\ m \in Nat /\ DOMAIN all = 1..(n + m) /\ DOMAIN s.notes = 1..n
    /\ \A i \in 1..n : all[i] = s.notes[i]
    /\ \A i \in 1..m : all[n + i] = DanglingNote(s, keys[i])
    /\ keys \in [1..m -> DOMAIN s.held]
    /\ \A a, b \in 1..m : keys[a] = keys[b] => a = b
    /\ \A key \in DOMAIN s.held : \E i \in 1..m : keys[i] = key

LEMMA ListedRight ==
    ASSUME NEW s \in ReadStates, NEW all, all = s.notes \o Dangling(s)
    PROVE  /\ all \in Seq(NoteSet)
           /\ Listed(s, all, SetToSeq(DOMAIN s.held), Len(s.notes), Cardinality(DOMAIN s.held))
<1>1. PICK keys, n, m, more, notes :
         /\ keys = SetToSeq(DOMAIN s.held) /\ n = Len(s.notes) /\ m = Cardinality(DOMAIN s.held)
         /\ more = Dangling(s) /\ notes = s.notes
  OBVIOUS
<1>2. /\ m \in Nat /\ keys \in [1..m -> DOMAIN s.held]
      /\ \A a, b \in 1..m : keys[a] = keys[b] => a = b
      /\ \A key \in DOMAIN s.held : \E i \in 1..m : keys[i] = key
      /\ more \in Seq(NoteSet) /\ Len(more) = m
      /\ \A i \in 1..m : more[i] = DanglingNote(s, keys[i])
  BY <1>1, DanglingRight
<1>3. n \in Nat /\ notes \in Seq(NoteSet) /\ DOMAIN notes = 1..n /\ Len(notes) = n
  BY <1>1, StateParts
<1>4. /\ all \in Seq(NoteSet) /\ DOMAIN all = 1..(n + m)
      /\ \A i \in 1..n : all[i] = notes[i]
      /\ \A i \in 1..m : all[n + i] = more[i]
  <2>1. PICK X : X = NoteSet
    OBVIOUS
  <2>2. notes \in Seq(X) /\ more \in Seq(X) /\ all = notes \o more
    BY <1>1, <1>2, <1>3, <2>1
  <2>3. all \in Seq(X) /\ Len(all) = n + m /\ DOMAIN all = 1..(n + m)
    <3>1. all \in Seq(X)
      BY <2>2
    <3>2. Len(notes \o more) = Len(notes) + Len(more)
      BY <2>2
    <3>3. DOMAIN all = 1..Len(all)
      BY <3>1
    <3>. QED
      BY <1>2, <1>3, <2>2, <3>1, <3>2, <3>3
  <2>4. ASSUME NEW i \in 1..m PROVE all[n + i] = more[i]
    <3>1. n + i \in 1..(n + m) /\ n + i > n /\ (n + i) - n = i
      BY <1>2, <1>3
    <3>. QED
      BY <1>2, <1>3, <2>2, <3>1
  <2>5. ASSUME NEW i \in 1..n PROVE all[i] = notes[i]
    <3>1. i \in 1..(n + m) /\ i <= n
      BY <1>2, <1>3
    <3>. QED
      BY <1>2, <1>3, <2>2, <3>1
  <2>. QED
    BY <2>1, <2>3, <2>4, <2>5
<1>5. Listed(s, all, keys, n, m)
  BY <1>1, <1>2, <1>3, <1>4, Zenon DEF Listed
<1>. QED
  BY <1>1, <1>4, <1>5

\* A note of the key lasts through tick x.
Lasts(notes, key, x) ==
    \E i \in DOMAIN notes : notes[i].key = key /\ notes[i].start <= x /\ x < notes[i].end

LEMMA LastingRight ==
    ASSUME NEW s \in ReadStates, Ordered(s), NEW all, all \in Seq(NoteSet), NEW keys, NEW n, NEW m,
           Listed(s, all, keys, n, m)
    PROVE  /\ \A key \in Keys, x \in Nat : x < s.tick => (Lasts(all, key, x) <=> Covers(s, key, x))
           /\ \A i \in DOMAIN all : all[i].end <= s.tick + 1
           /\ \A i, j \in DOMAIN all : i < j /\ all[i].key = all[j].key => all[i].end <= all[j].start
<1>1. PICK tick, held, notes : tick = s.tick /\ held = s.held /\ notes = s.notes
  OBVIOUS
<1>2. /\ n \in Nat /\ m \in Nat /\ DOMAIN all = 1..(n + m) /\ DOMAIN notes = 1..n
      /\ \A i \in 1..n : all[i] = notes[i]
      /\ \A i \in 1..m : all[n + i] = DanglingNote(s, keys[i])
      /\ keys \in [1..m -> DOMAIN held]
      /\ \A a, b \in 1..m : keys[a] = keys[b] => a = b
      /\ \A key \in DOMAIN held : \E i \in 1..m : keys[i] = key
  BY <1>1, Zenon DEF Listed
<1>3. /\ tick \in Nat /\ \A k \in DOMAIN held : held[k] \in Nat /\ held[k] <= tick
      /\ \A i \in 1..n :
            /\ notes[i].start \in Nat /\ notes[i].end \in Nat /\ notes[i].end <= tick
            /\ notes[i].key \in DOMAIN held => notes[i].end <= held[notes[i].key]
      /\ \A i, j \in 1..n :
            i < j /\ notes[i].key = notes[j].key => notes[i].end <= notes[j].start
  <2>1. /\ tick \in Nat /\ \A k \in DOMAIN held : held[k] \in Nat
        /\ \A i \in 1..n : notes[i].start \in Nat /\ notes[i].end \in Nat
    BY <1>1, <1>2, StateParts
  <2>. QED
    BY <1>1, <1>2, <2>1, Zenon DEF Ordered
<1>4. \A i \in 1..m :
         /\ keys[i] \in DOMAIN held /\ all[n + i].key = keys[i] /\ all[n + i].start = held[keys[i]]
         /\ all[n + i].end \in Nat /\ all[n + i].end >= tick /\ all[n + i].end <= tick + 1
  <2>. SUFFICES ASSUME NEW i \in 1..m
                PROVE  /\ keys[i] \in DOMAIN held
                       /\ all[n + i].key = keys[i] /\ all[n + i].start = held[keys[i]]
                       /\ all[n + i].end \in Nat /\ all[n + i].end >= tick /\ all[n + i].end <= tick + 1
    OBVIOUS
  <2>1. PICK key, start : key = keys[i] /\ start = held[key]
    OBVIOUS
  <2>2. key \in DOMAIN held /\ start \in Nat /\ start <= tick
    BY <1>2, <1>3, <2>1
  <2>3. all[n + i] = Note(key, start, Larger(tick, start + 1))
    BY <1>1, <1>2, <2>1 DEF DanglingNote
  <2>4. all[n + i].key = key /\ all[n + i].start = start /\ all[n + i].end = Larger(tick, start + 1)
    BY <2>3 DEF Note
  <2>. QED
    BY <1>3, <2>1, <2>2, <2>4 DEF Larger
<1>5. ASSUME NEW i \in DOMAIN all, i \notin 1..n PROVE \E j \in 1..m : i = n + j
  <2>1. i - n \in 1..m /\ i = n + (i - n)
    BY <1>2, <1>5
  <2>. QED
    BY <2>1
<1>6. \A j \in 1..m : n + j \in DOMAIN all
  BY <1>2
<1>7. ASSUME NEW key \in Keys, NEW x \in Nat, x < tick
      PROVE  Lasts(all, key, x) <=> Covers(s, key, x)
  <2>1. ASSUME Lasts(all, key, x) PROVE Covers(s, key, x)
    <3>1. PICK i \in DOMAIN all : all[i].key = key /\ all[i].start <= x /\ x < all[i].end
      BY <2>1, Zenon DEF Lasts
    <3>2. CASE i \in 1..n
      BY <1>1, <1>2, <3>1, <3>2, Zenon DEF Covers
    <3>3. CASE i \notin 1..n
      <4>1. PICK j \in 1..m : i = n + j
        BY <1>5, <3>3
      <4>2. key \in DOMAIN held /\ held[key] <= x
        BY <1>4, <3>1, <4>1
      <4>. QED
        BY <1>1, <1>7, <4>2, Zenon DEF Covers
    <3>. QED
      BY <3>2, <3>3
  <2>2. ASSUME Covers(s, key, x) PROVE Lasts(all, key, x)
    <3>1. CASE \E i \in DOMAIN notes : notes[i].key = key /\ notes[i].start <= x /\ x < notes[i].end
      <4>1. PICK i \in 1..n : notes[i].key = key /\ notes[i].start <= x /\ x < notes[i].end
        BY <1>2, <3>1
      <4>2. i \in DOMAIN all /\ all[i] = notes[i]
        BY <1>2
      <4>. QED
        BY <4>1, <4>2, Zenon DEF Lasts
    <3>2. CASE key \in DOMAIN held /\ held[key] <= x
      <4>1. PICK j \in 1..m : keys[j] = key
        BY <1>2, <3>2
      <4>2. all[n + j].key = key /\ all[n + j].start <= x /\ x < all[n + j].end
        BY <1>3, <1>4, <1>7, <3>2, <4>1
      <4>. QED
        BY <1>6, <4>2, Zenon DEF Lasts
    <3>. QED
      BY <1>1, <2>2, <3>1, <3>2, Zenon DEF Covers
  <2>. QED
    BY <2>1, <2>2
<1>8. ASSUME NEW i \in DOMAIN all PROVE all[i].end <= tick + 1
  <2>1. CASE i \in 1..n
    BY <1>2, <1>3, <2>1
  <2>2. CASE i \notin 1..n
    BY <1>4, <1>5, <2>2
  <2>. QED
    BY <2>1, <2>2
<1>9. ASSUME NEW i \in DOMAIN all, NEW j \in DOMAIN all, i < j, all[i].key = all[j].key
      PROVE  all[i].end <= all[j].start
  <2>1. CASE i \in 1..n /\ j \in 1..n
    BY <1>2, <1>3, <1>9, <2>1, Zenon
  <2>2. CASE i \in 1..n /\ j \notin 1..n
    <3>1. PICK b \in 1..m : j = n + b
      BY <1>5, <2>2
    <3>2. keys[b] \in DOMAIN held /\ all[j].key = keys[b] /\ all[j].start = held[keys[b]]
      BY <1>4, <3>1, Zenon
    <3>3. notes[i].key = keys[b] /\ all[i] = notes[i]
      BY <1>2, <1>9, <2>2, <3>2, Zenon
    <3>. QED
      BY <1>3, <2>2, <3>2, <3>3, Zenon
  <2>3. CASE i \notin 1..n /\ j \notin 1..n
    <3>1. PICK a \in 1..m, b \in 1..m : i = n + a /\ j = n + b
      BY <1>5, <2>3
    <3>2. keys[a] = keys[b]
      BY <1>4, <1>9, <3>1, Zenon
    <3>3. a = b
      BY <1>2, <3>2, Zenon
    <3>. QED
      BY <1>2, <1>9, <3>1, <3>3
  <2>4. CASE i \notin 1..n /\ j \in 1..n
    BY <1>2, <1>9, <2>4
  <2>. QED
    BY <2>1, <2>2, <2>3, <2>4
<1>. QED
  BY <1>1, <1>7, <1>8, <1>9, Zenon

-----------------------------------------------------------------------------
LEMMA ShowsWhatSounds ==
    ASSUME TrackInv, NEW d, NEW p, ReadSoFar(d, p, Len(track)),
           NEW all, all = d.notes \o Dangling(d)
    PROVE  ImageShowsWhatSounds(all)
<1>. DEFINE N == Len(track)
<1>1. N \in Nat /\ \A k \in 0..N : Time(k) \in Nat
  BY MessageRight, TimeRight
<1>2. d \in ReadStates /\ d.tick = Time(N) /\ Ordered(d)
  BY Zenon DEF ReadSoFar
<1>3. /\ all \in Seq(NoteSet)
      /\ Listed(d, all, SetToSeq(DOMAIN d.held), Len(d.notes), Cardinality(DOMAIN d.held))
  BY <1>2, ListedRight
<1>4. /\ \A key \in Keys, x \in Nat : x < d.tick => (Lasts(all, key, x) <=> Covers(d, key, x))
      /\ \A i \in DOMAIN all : all[i].end <= d.tick + 1
  BY <1>2, <1>3, LastingRight
<1>5. \A i \in DOMAIN all : all[i].start \in Nat /\ all[i].end \in Nat
  <2>1. PICK X : X = NoteSet
    OBVIOUS
  <2>2. \A i \in DOMAIN all : all[i] \in X
    BY <1>3, <2>1
  <2>. QED
    BY <2>1, <2>2 DEF NoteSet
<1>. SUFFICES ASSUME NEW key \in Keys,
                     NEW shown, shown = UNION {Ticks(all[i]) : i \in {j \in DOMAIN all : all[j].key = key}}
              PROVE  shown \cap (0..(Time(N) - 1)) = Sounding(key) /\ shown \subseteq 0..Time(N)
  BY Zenon DEF ImageShowsWhatSounds
<1>6. \A x : x \in shown <=> x \in Nat /\ Lasts(all, key, x)
  <2>1. ASSUME NEW x \in shown PROVE x \in Nat /\ Lasts(all, key, x)
    <3>1. PICK i \in DOMAIN all : all[i].key = key /\ x \in Ticks(all[i])
      BY <2>1
    <3>2. x \in Nat /\ all[i].start <= x /\ x < all[i].end
      <4>1. PICK first \in Nat, end \in Nat : first = all[i].start /\ end = all[i].end
        BY <1>5, Zenon
      <4>2. x \in first..(end - 1)
        BY <3>1, <4>1, Zenon DEF Ticks
      <4>3. x \in Nat /\ first <= x /\ x < end
        BY <4>2
      <4>. QED
        BY <4>1, <4>3
    <3>. QED
      BY <3>1, <3>2, Zenon DEF Lasts
  <2>2. ASSUME NEW x \in Nat, Lasts(all, key, x) PROVE x \in shown
    <3>1. PICK i \in DOMAIN all : all[i].key = key /\ all[i].start <= x /\ x < all[i].end
      BY <2>2, Zenon DEF Lasts
    <3>2. x \in Ticks(all[i])
      <4>1. PICK first \in Nat, end \in Nat : first = all[i].start /\ end = all[i].end
        BY <1>5, Zenon
      <4>2. first <= x /\ x < end
        BY <3>1, <4>1, Zenon
      <4>3. x \in first..(end - 1)
        BY <4>2
      <4>. QED
        BY <4>1, <4>3, Zenon DEF Ticks
    <3>. QED
      BY <3>1, <3>2
  <2>. QED
    BY <2>1, <2>2, Zenon
<1>7. \A x : x \in Sounding(key) <=> x \in Nat /\ SoundsAt(key, N, x)
  <2>1. ASSUME NEW x \in Sounding(key) PROVE x \in Nat /\ SoundsAt(key, N, x)
    <3>1. PICK m \in 1..(N - 1) : HeldAfter(key, m) /\ x \in Time(m)..(Time(m + 1) - 1)
      BY <2>1 DEF Sounding
    <3>2. m \in 1..N /\ m + 1 <= N /\ Time(m) \in Nat /\ Time(m + 1) \in Nat
      BY <1>1
    <3>3. x \in Nat /\ Time(m) <= x /\ x < Time(m + 1)
      BY <3>1, <3>2
    <3>. QED
      BY <3>1, <3>2, <3>3, Zenon DEF SoundsAt
  <2>2. ASSUME NEW x \in Nat, SoundsAt(key, N, x) PROVE x \in Sounding(key)
    <3>1. PICK m \in 1..N : m + 1 <= N /\ HeldAfter(key, m) /\ Time(m) <= x /\ x < Time(m + 1)
      BY <2>2, Zenon DEF SoundsAt
    <3>2. m \in 1..(N - 1) /\ Time(m) \in Nat /\ Time(m + 1) \in Nat
      BY <1>1, <3>1
    <3>3. x \in Time(m)..(Time(m + 1) - 1)
      BY <3>1, <3>2
    <3>. QED
      BY <3>1, <3>2, <3>3 DEF Sounding
  <2>. QED
    BY <2>1, <2>2, Zenon
<1>8. ASSUME NEW x \in Nat, SoundsAt(key, N, x) PROVE x < Time(N)
  <2>1. PICK m \in 1..N : m + 1 <= N /\ x < Time(m + 1)
    BY <1>8, Zenon DEF SoundsAt
  <2>2. m + 1 \in 0..N /\ N \in 0..N
    BY <1>1, <2>1
  <2>3. Time(m + 1) <= Time(N)
    BY <2>1, <2>2, TimeRight
  <2>4. PICK before \in Nat, last \in Nat : before = Time(m + 1) /\ last = Time(N)
    BY <1>1, <2>2, Zenon
  <2>5. x < before /\ before <= last
    BY <2>1, <2>3, <2>4, Zenon
  <2>6. x < last
    BY <2>5
  <2>. QED
    BY <2>4, <2>6, Zenon
<1>9. \A x \in Nat : x < Time(N) => (Lasts(all, key, x) <=> SoundsAt(key, N, x))
  <2>1. \A x \in Nat : Covers(d, key, x) <=> SoundsAt(key, N, x)
    BY Zenon DEF ReadSoFar
  <2>. QED
    BY <1>2, <1>4, <2>1, Zenon
<1>10. Time(N) \in Nat
  BY <1>1
<1>. HIDE DEF N
<1>11. shown \cap (0..(Time(N) - 1)) = Sounding(key)
  <2>1. \A x : x \in 0..(Time(N) - 1) <=> x \in Nat /\ x < Time(N)
    BY <1>10
  <2>. QED
    BY <1>6, <1>7, <1>8, <1>9, <2>1, Zenon
<1>12. ASSUME NEW x \in shown PROVE x \in 0..Time(N)
  <2>1. x \in Nat /\ Lasts(all, key, x)
    BY <1>6, Zenon
  <2>2. PICK i \in DOMAIN all : x < all[i].end
    BY <2>1, Zenon DEF Lasts
  <2>3. all[i].end \in Nat /\ all[i].end <= Time(N) + 1
    BY <1>2, <1>4, <1>5, Zenon
  <2>. QED
    BY <1>10, <2>1, <2>2, <2>3
<1>. QED
  BY <1>11, <1>12

\* The notes of parse_midi_bytes, made a tick long at least.
Lengthened(all) == [i \in DOMAIN all |-> [all[i] EXCEPT !.end = Larger(@, all[i].start + 1)]]

LEMMA SameNotes ==
    ASSUME NEW k, NEW d, NEW p, ReadSoFar(d, p, k),
           NEW drawn, drawn = d.notes \o Dangling(d), NEW all, all = p.notes \o Dangling(p),
           NEW parsed, parsed = Lengthened(all)
    PROVE  ReadersAgree(parsed, drawn)
<1>1. d \in ReadStates /\ p \in ReadStates /\ Together(d, p) /\ Ordered(d)
  BY Zenon DEF ReadSoFar
<1>2. PICK keys, m, n, l :
         /\ keys = SetToSeq(DOMAIN d.held) /\ m = Cardinality(DOMAIN d.held)
         /\ n = Len(d.notes) /\ l = Len(p.notes)
  OBVIOUS
<1>3. DOMAIN p.held = DOMAIN d.held /\ DOMAIN p.notes = DOMAIN d.notes /\ p.tick = d.tick
  BY <1>1, Zenon DEF Together
<1>4. n \in Nat /\ l \in Nat /\ l = n
  <2>1. n \in Nat /\ l \in Nat /\ 1..n = DOMAIN d.notes /\ 1..l = DOMAIN p.notes
    BY <1>1, <1>2, StateParts
  <2>. QED
    BY <1>3, <2>1, SameCount
<1>5. drawn \in Seq(NoteSet) /\ Listed(d, drawn, keys, n, m)
  BY <1>1, <1>2, ListedRight
<1>6. all \in Seq(NoteSet) /\ Listed(p, all, keys, n, m)
  <2>1. /\ all \in Seq(NoteSet)
        /\ Listed(p, all, SetToSeq(DOMAIN p.held), Len(p.notes), Cardinality(DOMAIN p.held))
    BY <1>1, ListedRight
  <2>. QED
    BY <1>2, <1>3, <1>4, <2>1
<1>7. /\ m \in Nat /\ DOMAIN drawn = 1..(n + m) /\ DOMAIN all = 1..(n + m)
      /\ \A i \in 1..n : drawn[i] = d.notes[i] /\ all[i] = p.notes[i] /\ i \in DOMAIN d.notes
      /\ \A i \in 1..m : /\ drawn[n + i] = DanglingNote(d, keys[i])
                         /\ all[n + i] = DanglingNote(p, keys[i])
                         /\ keys[i] \in DOMAIN d.held
  <2>1. keys \in [1..m -> DOMAIN d.held]
    BY <1>5, Zenon DEF Listed
  <2>2. \A i \in 1..m : keys[i] \in DOMAIN d.held
    BY <2>1
  <2>. QED
    BY <1>5, <1>6, <2>2, Zenon DEF Listed
<1>8. PICK X : X = NoteSet
  OBVIOUS
<1>9. \A note \in X : note.key \in Keys /\ note.start \in Nat /\ note.end \in Nat
                      /\ note = [key |-> note.key, start |-> note.start, end |-> note.end]
  BY <1>8 DEF NoteSet
<1>10. drawn \in Seq(X) /\ all \in Seq(X)
  BY <1>5, <1>6, <1>8
<1>11. ASSUME NEW i \in DOMAIN all
       PROVE  /\ parsed[i].key = all[i].key /\ parsed[i].start = all[i].start
              /\ parsed[i].end = Larger(all[i].end, all[i].start + 1) /\ parsed[i] \in X
  <2>1. PICK note \in X : note = all[i]
    BY <1>10
  <2>2. note.key \in Keys /\ note.start \in Nat /\ note.end \in Nat
        /\ note = [key |-> note.key, start |-> note.start, end |-> note.end]
    BY <1>9
  <2>3. parsed[i] = [note EXCEPT !.end = Larger(@, note.start + 1)]
    BY <1>11, <2>1, Zenon DEF Lengthened
  <2>4. parsed[i] = [key |-> note.key, start |-> note.start, end |-> Larger(note.end, note.start + 1)]
    BY <2>2, <2>3
  <2>5. Larger(note.end, note.start + 1) \in Nat
    BY <2>2 DEF Larger
  <2>. QED
    BY <1>8, <2>1, <2>2, <2>4, <2>5 DEF NoteSet
<1>12. Len(parsed) = Len(drawn) /\ Len(drawn) \in Nat
  <2>1. parsed \in [1..(n + m) -> X]
    BY <1>7, <1>11 DEF Lengthened
  <2>2. n + m \in Nat
    BY <1>4, <1>7
  <2>3. parsed \in Seq(X)
    BY <2>1, <2>2
  <2>4. Len(parsed) \in Nat /\ Len(drawn) \in Nat /\ 1..Len(parsed) = DOMAIN parsed /\ 1..Len(drawn) = DOMAIN drawn
    BY <1>10, <2>3
  <2>5. 1..Len(parsed) = 1..Len(drawn)
    BY <1>7, <2>1, <2>4
  <2>. QED
    BY <2>4, <2>5, SameCount
<1>13. ASSUME NEW i \in DOMAIN drawn
       PROVE  /\ all[i].key = drawn[i].key /\ all[i].start >= drawn[i].start
              /\ StruckAgain(drawn[i].key) \/ all[i].start = drawn[i].start
              /\ Larger(all[i].end, all[i].start + 1) = Larger(drawn[i].end, all[i].start + 1)
  <2>1. CASE i \in 1..n
    <3>1. drawn[i] = d.notes[i] /\ all[i] = p.notes[i] /\ i \in DOMAIN d.notes
      BY <1>7, <2>1, Zenon
    <3>2. /\ p.notes[i].key = d.notes[i].key /\ p.notes[i].end = d.notes[i].end
          /\ p.notes[i].start >= d.notes[i].start
          /\ StruckAgain(d.notes[i].key) \/ p.notes[i].start = d.notes[i].start
      BY <1>1, <3>1, Zenon DEF Together
    <3>. QED
      BY <3>1, <3>2, Zenon
  <2>2. CASE i \notin 1..n
    <3>1. i - n \in 1..m /\ i = n + (i - n)
      BY <1>4, <1>7, <2>2
    <3>2. PICK j \in 1..m : i = n + j
      BY <3>1
    <3>3. PICK key, first, later, tick :
             key = keys[j] /\ first = d.held[key] /\ later = p.held[key] /\ tick = d.tick
      OBVIOUS
    <3>4. key \in DOMAIN d.held
      BY <1>7, <3>3, Zenon
    <3>5. first \in Nat /\ later \in Nat /\ tick \in Nat
      BY <1>1, <1>3, <3>3, <3>4, StateParts
    <3>6. later >= first /\ (StruckAgain(key) \/ later = first)
      BY <1>1, <3>3, <3>4, Zenon DEF Together
    <3>7. /\ drawn[i] = Note(key, first, Larger(tick, first + 1))
          /\ all[i] = Note(key, later, Larger(tick, later + 1))
      BY <1>3, <1>7, <3>2, <3>3, Zenon DEF DanglingNote
    <3>8. /\ drawn[i].key = key /\ drawn[i].start = first /\ drawn[i].end = Larger(tick, first + 1)
          /\ all[i].key = key /\ all[i].start = later /\ all[i].end = Larger(tick, later + 1)
      BY <3>7 DEF Note
    <3>9. Larger(Larger(tick, later + 1), later + 1) = Larger(Larger(tick, first + 1), later + 1)
      BY <3>5, <3>6 DEF Larger
    <3>. QED
      BY <3>6, <3>8, <3>9, Zenon
  <2>. QED
    BY <2>1, <2>2
<1>14. ASSUME NEW i \in DOMAIN drawn
       PROVE  /\ parsed[i].key = drawn[i].key /\ parsed[i].start >= drawn[i].start
              /\ StruckAgain(drawn[i].key) \/ parsed[i].start = drawn[i].start
              /\ parsed[i].end = Larger(drawn[i].end, parsed[i].start + 1)
  <2>1. i \in DOMAIN all
    BY <1>7, Zenon
  <2>. QED
    BY <1>11, <1>13, <2>1, Zenon
<1>. QED
  BY <1>12, <1>14, Zenon DEF ReadersAgree

(***************************************************************************)
(* Ticks and columns.                                                      *)
(***************************************************************************)
LEMMA DivRight ==
    ASSUME NEW n \in Nat, NEW d \in Nat \ {0}
    PROVE  n \div d \in Nat /\ (n \div d) * d <= n
OBVIOUS

LEMMA DivGrows ==
    ASSUME NEW n \in Nat, NEW m \in Nat, NEW d \in Nat \ {0}, n <= m
    PROVE  n \div d <= m \div d
OBVIOUS

LEMMA DivUnder ==
    ASSUME NEW n \in Nat, NEW m \in Nat, NEW d \in Nat \ {0}, n < m * d
    PROVE  n \div d < m
OBVIOUS

LEMMA TimesBelow ==
    ASSUME NEW n \in Nat, NEW m \in Nat, NEW d \in Nat \ {0}, n < m
    PROVE  n * d \in Nat /\ m * d \in Nat /\ n * d + d <= m * d /\ n * d < d * m
OBVIOUS

LEMMA TimesUpTo ==
    ASSUME NEW n \in Nat, NEW m \in Nat, NEW d \in Nat \ {0}, n <= m
    PROVE  n * d \in Nat /\ m * d \in Nat /\ n * d <= m * d
OBVIOUS

TotalEquation(f, notes) ==
    f = [s \in SUBSET (DOMAIN notes) |->
            IF s = {} THEN 0 ELSE Larger(f[s \ {Max(s)}], notes[Max(s)].end)]

LEMMA TotalNamed ==
    ASSUME NEW notes, NEW f, f = CHOOSE g : TotalEquation(g, notes)
    PROVE  TotalTicks(notes) = f[DOMAIN notes]
BY DEF TotalTicks, FoldLeft, MapThenFoldSet, TotalEquation

LEMMA TotalRight ==
    ASSUME NEW notes \in Seq(NoteSet)
    PROVE  TotalTicks(notes) \in Nat
<1>. DEFINE n == Len(notes)
            turn == [k \in 1..n |-> [t \in Nat |-> Larger(t, notes[k].end)]]
<1>1. PICK f : f = CHOOSE g : TotalEquation(g, notes)
  OBVIOUS
<1>2. n \in Nat /\ DOMAIN notes = 1..n /\ \A k \in 1..n : notes[k].end \in Nat
  <2>1. PICK X : X = NoteSet
    OBVIOUS
  <2>2. n \in Nat /\ DOMAIN notes = 1..n /\ \A k \in 1..n : notes[k] \in X
    BY <2>1
  <2>. QED
    BY <2>1, <2>2 DEF NoteSet
<1>. HIDE DEF n
<1>3. turn \in [1..n -> [Nat -> Nat]]
  BY <1>2 DEF Larger
<1>4. PICK h \in [SUBSET (1..n) -> Nat] : FoldEquation(h, 0, turn, n)
  <2>1. HasFold(Nat, 0, turn, n)
    <3>. HIDE DEF turn
    <3>. QED
      BY <1>2, <1>3, FoldExists
  <2>. QED
    BY <2>1, Zenon DEF HasFold
<1>5. ASSUME NEW s \in SUBSET (1..n)
      PROVE  h[s] = IF s = {} THEN 0 ELSE Larger(h[s \ {Max(s)}], notes[Max(s)].end)
  <2>1. h[s] = IF s = {} THEN 0 ELSE turn[Max(s)][h[s \ {Max(s)}]]
    BY <1>4, Zenon DEF FoldEquation
  <2>2. ASSUME s # {} PROVE turn[Max(s)][h[s \ {Max(s)}]] = Larger(h[s \ {Max(s)}], notes[Max(s)].end)
    <3>1. PICK k \in 1..n, r \in SUBSET (1..n) : k = Max(s) /\ r = s \ {Max(s)}
      BY <1>2, <2>2, MaxRight
    <3>2. h[r] \in Nat
      BY <1>4
    <3>3. turn[k][h[r]] = Larger(h[r], notes[k].end)
      BY <3>2
    <3>. QED
      BY <3>1, <3>3, Zenon
  <2>. QED
    BY <2>1, <2>2, Zenon
<1>6. TotalEquation(h, notes)
  <2>1. h = [s \in SUBSET (1..n) |-> h[s]]
    BY <1>4
  <2>. QED
    BY <1>2, <1>5, <2>1, Zenon DEF TotalEquation
<1>7. TotalEquation(f, notes)
  BY <1>1, <1>6, Zenon
<1>. HIDE DEF turn
<1>. DEFINE T == {k \in Nat : k <= n => f[1..k] \in Nat}
<1>8. \A s \in SUBSET (1..n) : f[s] = IF s = {} THEN 0 ELSE Larger(f[s \ {Max(s)}], notes[Max(s)].end)
  BY <1>2, <1>7, Zenon DEF TotalEquation
<1>9. 0 \in T /\ T \in SUBSET Nat
  <2>1. 1..0 = {}
    OBVIOUS
  <2>2. f[{}] = 0
    BY <1>8
  <2>. QED
    BY <2>1, <2>2
<1>10. ASSUME NEW k \in T PROVE k + 1 \in T
  <2>. SUFFICES ASSUME k + 1 <= n PROVE f[1..(k + 1)] \in Nat
    OBVIOUS
  <2>1. k \in Nat /\ k + 1 \in 1..n /\ f[1..k] \in Nat /\ 1..(k + 1) \in SUBSET (1..n)
    BY <1>2
  <2>2. PICK all : all = 1..(k + 1)
    OBVIOUS
  <2>3. Max(all) = k + 1 /\ all \ {k + 1} = 1..k /\ all # {}
    BY <2>1, <2>2, MaxOfFirst, Zenon
  <2>4. f[all] = Larger(f[all \ {Max(all)}], notes[Max(all)].end)
    BY <1>8, <2>1, <2>2, <2>3, Zenon
  <2>5. f[all] = Larger(f[1..k], notes[k + 1].end)
    BY <2>3, <2>4, Zenon
  <2>. QED
    BY <1>2, <2>1, <2>2, <2>5 DEF Larger
<1>. HIDE DEF T
<1>11. T = Nat
  BY <1>9, <1>10, Induction
<1>12. n \in T /\ n <= n
  BY <1>2, <1>11
<1>13. f[1..n] \in Nat
  BY <1>12, Zenon DEF T
<1>. QED
  BY <1>1, <1>2, <1>13, TotalNamed

\* A note that starts before the end of the image has a column, and one of a
\* pitch there is room for has a row.
LEMMA NoteHasPixels ==
    ASSUME NEW note \in NoteSet, NEW total \in Nat,
           note.start < total, note.key[1] < NoteRows \div RowHeight
    PROVE  Pixels(note, total) # {}
<1>1. PICK pitch, start : pitch = note.key[1] /\ start = note.start
  OBVIOUS
<1>2. start \in Nat /\ pitch \in Nat /\ start < total /\ pitch < NoteRows \div RowHeight
  BY <1>1 DEF NoteSet, Keys
<1>3. NoteRows \in Nat /\ RowHeight \in Nat \ {0} /\ Width \in Nat \ {0} /\ total \in Nat \ {0}
  BY <1>2, ImageOK
<1>4. PICK base, first, end, size :
         /\ base = pitch * RowHeight /\ first = (start * Width) \div total
         /\ end = (note.end * Width) \div total /\ size = NoteRows \div RowHeight
  OBVIOUS
<1>5. base \in Nat /\ base < NoteRows
  <2>1. size \in Nat /\ size * RowHeight <= NoteRows
    BY <1>3, <1>4, DivRight
  <2>2. pitch * RowHeight \in Nat /\ size * RowHeight \in Nat /\ pitch * RowHeight + RowHeight <= size * RowHeight
    BY <1>2, <1>3, <1>4, <2>1, TimesBelow
  <2>. QED
    BY <1>3, <1>4, <2>1, <2>2
<1>6. first \in Nat /\ first < Width
  <2>1. start * Width \in Nat /\ start * Width < Width * total
    BY <1>2, <1>3, TimesBelow
  <2>. QED
    BY <1>3, <1>4, <2>1, DivRight, DivUnder
<1>7. end \in Nat
  <2>1. note.end \in Nat
    BY DEF NoteSet
  <2>2. note.end * Width \in Nat
    BY <1>3, <2>1, TimesUpTo
  <2>. QED
    BY <1>3, <1>4, <2>2, DivRight
<1>8. base \in Rows(note)
  <2>1. Rows(note) = (base..(base + RowHeight - 1)) \cap (0..(NoteRows - 1))
    BY <1>1, <1>4, Zenon DEF Rows
  <2>. QED
    BY <1>3, <1>5, <2>1
<1>9. first \in Columns(note, total)
  <2>1. Columns(note, total) = (first..(Larger(first + 1, end) - 1)) \cap (0..(Width - 1))
    BY <1>1, <1>4, Zenon DEF Columns
  <2>. QED
    BY <1>3, <1>6, <1>7, <2>1 DEF Larger
<1>10. <<base, first>> \in Rows(note) \X Columns(note, total)
  BY <1>8, <1>9
<1>. QED
  BY <1>3, <1>10, Zenon DEF Pixels

\* A note has a column in common with one that starts after it at most where
\* it is rounded up to a column.
LEMMA ColumnsMeet ==
    ASSUME NEW m \in NoteSet, NEW n \in NoteSet, m.end <= n.start, NEW total \in Nat \ {0}
    PROVE  Cardinality(Columns(m, total) \cap Columns(n, total)) <= 1
<1>1. PICK first, end, after :
         /\ first = (m.start * Width) \div total /\ end = (m.end * Width) \div total
         /\ after = (n.start * Width) \div total
  OBVIOUS
<1>2. Width \in Nat \ {0} /\ m.start \in Nat /\ m.end \in Nat /\ n.start \in Nat
  BY ImageOK DEF NoteSet
<1>3. /\ m.start * Width \in Nat /\ m.end * Width \in Nat /\ n.start * Width \in Nat
      /\ m.end * Width <= n.start * Width
  BY <1>2, TimesUpTo
<1>4. first \in Nat /\ end \in Nat /\ after \in Nat /\ end <= after
  BY <1>1, <1>3, DivRight, DivGrows
<1>5. Columns(m, total) \cap Columns(n, total) \in SUBSET {first}
  <2>1. ASSUME NEW x \in Columns(m, total), x \in Columns(n, total) PROVE x = first
    <3>1. x \in first..(Larger(first + 1, end) - 1)
      BY <1>1, <2>1 DEF Columns
    <3>2. x \in Int /\ after <= x
      BY <1>1, <1>4, <2>1 DEF Columns
    <3>. QED
      BY <1>4, <3>1, <3>2 DEF Larger
  <2>. QED
    BY <2>1
<1>6. IsFiniteSet({first}) /\ Cardinality({first}) = 1
  BY FS_Singleton
<1>7. Cardinality(Columns(m, total) \cap Columns(n, total)) <= Cardinality({first})
  BY <1>5, <1>6, FS_Subset
<1>. QED
  BY <1>6, <1>7

LEMMA AllVisible ==
    ASSUME NEW all \in Seq(NoteSet), NEW total \in Nat,
           \A i, j \in DOMAIN all : i < j /\ all[i].key = all[j].key => all[i].end <= all[j].start
    PROVE  NotesVisible(all, total)
<1>1. PICK X : X = NoteSet
  OBVIOUS
<1>2. DOMAIN all \in SUBSET Nat /\ \A i \in DOMAIN all : all[i] \in X
  BY <1>1
<1>3. ASSUME NEW i \in DOMAIN all, all[i].start < total, all[i].key[1] < NoteRows \div RowHeight
      PROVE  Pixels(all[i], total) # {}
  BY <1>1, <1>2, <1>3, NoteHasPixels
<1>4. ASSUME NEW i \in DOMAIN all, NEW j \in DOMAIN all, i < j, all[i].key = all[j].key, total > 0
      PROVE  Cardinality(Columns(all[i], total) \cap Columns(all[j], total)) <= 1
  BY <1>1, <1>2, <1>4, ColumnsMeet
<1>5. ASSUME NEW i \in DOMAIN all, NEW j \in DOMAIN all, i # j, all[i].key = all[j].key, total > 0
      PROVE  Cardinality(Columns(all[i], total) \cap Columns(all[j], total)) <= 1
  <2>1. i < j \/ j < i
    BY <1>2, <1>5
  <2>2. Columns(all[i], total) \cap Columns(all[j], total) = Columns(all[j], total) \cap Columns(all[i], total)
    BY Zenon
  <2>. QED
    BY <1>4, <1>5, <2>1, <2>2, Zenon
<1>. QED
  BY <1>3, <1>5, Zenon DEF NotesVisible

(***************************************************************************)
(* The piano roll shows each key where it sounds                           *)
(* (musehub_piano_roll_renderer.py:113), the parser of the browser's score *)
(* (musehub_midi_parser.py:116) finds the same notes, and drawing loses no *)
(* note and covers none with the next, for tracks of any length, with any  *)
(* times between messages, on an image of any size.                        *)
(***************************************************************************)
THEOREM ScoresAlwaysAgree == Spec => []ScoresAgree
<1>1. Init => TrackInv
  BY DEF Init, TrackInv
<1>2. TrackInv => ScoresAgree
  <2>. SUFFICES ASSUME TrackInv PROVE ScoresAgree
    OBVIOUS
  <2>1. PICK d, p, drawn, all : /\ d = AtEnd("draws", track) /\ p = AtEnd("parses", track)
                                /\ drawn = d.notes \o Dangling(d) /\ all = p.notes \o Dangling(p)
    OBVIOUS
  <2>2. ReadSoFar(d, p, Len(track))
    BY <2>1, AllRead
  <2>3. DrawnNotes(track) = drawn
    BY <2>1 DEF DrawnNotes
  <2>4. ParsedNotes(track) = Lengthened(all)
    BY <2>1, Zenon DEF ParsedNotes, Lengthened
  <2>5. ImageShowsWhatSounds(drawn)
    BY <2>1, <2>2, ShowsWhatSounds
  <2>6. ReadersAgree(ParsedNotes(track), drawn)
    <3>1. PICK parsed, k :
             parsed = Lengthened(all) /\ k = Len(track)
      OBVIOUS
    <3>2. ReadersAgree(parsed, drawn)
      BY <2>1, <2>2, <3>1, SameNotes
    <3>. QED
      BY <2>4, <3>1, <3>2, Zenon
  <2>7. NotesVisible(drawn, TotalTicks(drawn))
    <3>1. d \in ReadStates /\ Ordered(d)
      BY <2>2, Zenon DEF ReadSoFar
    <3>2. /\ drawn \in Seq(NoteSet)
          /\ Listed(d, drawn, SetToSeq(DOMAIN d.held), Len(d.notes), Cardinality(DOMAIN d.held))
      BY <2>1, <3>1, ListedRight
    <3>3. \A i, j \in DOMAIN drawn :
             i < j /\ drawn[i].key = drawn[j].key => drawn[i].end <= drawn[j].start
      BY <3>1, <3>2, LastingRight
    <3>4. TotalTicks(drawn) \in Nat
      BY <3>2, TotalRight
    <3>. QED
      BY <3>2, <3>3, <3>4, AllVisible
  <2>. QED
    BY <2>3, <2>5, <2>6, <2>7 DEF ScoresAgree
<1>. QED
  BY <1>1, <1>2, TrackStep, PTL DEF Spec
=============================================================================
