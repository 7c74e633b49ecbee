---------------------------- MODULE CommitGraph ----------------------------
(***************************************************************************)
(* The pure graph algorithms of a push.  A bundle is the sequence of       *)
(* commits a client sends, each a record [id, parents] whose parents are   *)
(* the (at most two) parent ids in wire order.  Commit ids in one bundle   *)
(* are distinct: they are content hashes and the client sends each once.   *)
(***************************************************************************)
EXTENDS Naturals, Sequences, FiniteSets, SequencesExt

Ids(bundle) == {bundle[i].id : i \in DOMAIN bundle}

ById(bundle, id) == bundle[CHOOSE i \in DOMAIN bundle : bundle[i].id = id]

ParentMap(bundle) == [id \in Ids(bundle) |-> ToSet(ById(bundle, id).parents)]

-----------------------------------------------------------------------------
(***************************************************************************)
(* _topological_sort: Kahn's algorithm over the parents inside the bundle. *)
(* The queue is first-in first-out and starts with the commits that have   *)
(* no parent in the bundle, in bundle order.                               *)
(***************************************************************************)
\* The commits of the bundle with these ids, in bundle order.
InBundleOrder(bundle, ids) ==
    LET places == {i \in DOMAIN bundle : bundle[i].id \in ids}
    IN  [n \in 1..Cardinality(places) |->
            bundle[CHOOSE i \in places : Cardinality({j \in places : j <= i}) = n].id]

\* Mutant: the second parent is forgotten.
FirstSlot(bundle, id, parents) ==
    {s \in DOMAIN ById(bundle, id).parents : s = 1 /\ ById(bundle, id).parents[s] \in parents}

\* The parent slots of a commit that name one of the parents; a commit is
\* once among the children of a parent for each.
Slots(bundle, id, parents) ==
    {s \in DOMAIN ById(bundle, id).parents : ById(bundle, id).parents[s] \in parents}

InDegree(bundle) == [id \in Ids(bundle) |-> Cardinality(Slots(bundle, id, Ids(bundle)))]

\* One turn of the while loop: pop the queue, place the commit, and settle
\* its slots in its children; the last slot makes a child ready.
Place(bundle, work) ==
    LET id == Head(work.queue)
        degree == [c \in Ids(bundle) |-> work.degree[c] - Cardinality(Slots(bundle, c, {id}))]
        ready == {c \in Ids(bundle) : degree[c] = 0 /\ degree[c] # work.degree[c]}
    IN  [degree |-> degree,
         queue  |-> Tail(work.queue) \o InBundleOrder(bundle, ready),
         result |-> Append(work.result, id)]

TopologicalSort(bundle) ==
    LET start == [degree |-> InDegree(bundle),
                  queue  |-> InBundleOrder(bundle, {id \in Ids(bundle) : InDegree(bundle)[id] = 0}),
                  result |-> <<>>]
        run[n \in Nat] ==
            IF n = 0 THEN start
            ELSE IF run[n - 1].queue = <<>> THEN run[n - 1]
            ELSE Place(bundle, run[n - 1])
        sorted == run[Len(bundle)].result
    IN  sorted \o InBundleOrder(bundle, Ids(bundle) \ ToSet(sorted))

-----------------------------------------------------------------------------
(***************************************************************************)
(* The walks of the two fast-forward tests.  Both follow parents only      *)
(* through commits of the bundle (a commit outside it has no known         *)
(* parents) and answer whether the branch head was visited.                *)
(***************************************************************************)
Walk(parents, start) ==
    LET seen[n \in Nat] ==
            IF n = 0 THEN start
            ELSE seen[n - 1] \cup
                 UNION {parents[id] : id \in seen[n - 1] \cap DOMAIN parents}
    IN  seen[Cardinality(DOMAIN parents)]

\* wire push: the walk starts from every pushed commit.
IsAncestorInBundle(head, bundle) ==
    head \in Walk(ParentMap(bundle), Ids(bundle))

\* Mutant: the walk starts from every pushed commit.
IsFastForwardAnywhere(remoteHead, newHead, bundle) ==
    remoteHead \in Walk(ParentMap(bundle), Ids(bundle))

\* REST and MCP push: the walk starts from the announced head.
IsFastForward(remoteHead, newHead, bundle) ==
    \/ newHead = remoteHead
    \/ remoteHead \in Walk(ParentMap(bundle), {newHead})

-----------------------------------------------------------------------------
(* Reference definitions, by paths instead of loops. *)

Bundled(bundle, id, parent) == id \in Ids(bundle) /\ parent \in ParentMap(bundle)[id]

\* x reaches y along parent edges that leave commits of the bundle.
Reaches(bundle, x, y) ==
    \/ x = y
    \/ \E path \in UNION {[1..n -> Ids(bundle)] : n \in 1..Len(bundle)} :
          /\ path[1] = x
          /\ \A i \in 1..(Len(path) - 1) : Bundled(bundle, path[i], path[i + 1])
          /\ Bundled(bundle, path[Len(path)], y)

\* The commits no other commit of the bundle builds on.
Tips(bundle) == {id \in Ids(bundle) : \A i \in DOMAIN bundle : id \notin ToSet(bundle[i].parents)}
=============================================================================
