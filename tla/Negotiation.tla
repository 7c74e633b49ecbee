----------------------------- MODULE Negotiation -----------------------------
(***************************************************************************)
(* What a client fetches and the round that precedes it.  rows is the      *)
(* sequence of the repository's commits, records [id, parents] as in       *)
(* CommitGraph; want and have are the sets of ids the client names.        *)
(***************************************************************************)
EXTENDS CommitGraph

\* Mutant: the walk goes on below what the client has.
WidenBelow(parents, seen, have) == seen \cup UNION {parents[id] : id \in seen \cap DOMAIN parents}

\* The next level of the walk: the parents of what was found.
Widen(parents, seen, have) ==
    seen \cup ((UNION {parents[id] : id \in seen \cap DOMAIN parents}) \ have)

\* wire_fetch: level by level from want, stopping at have and at what the
\* repository does not have.
Fetched(rows, want, have) ==
    LET parents == ParentMap(rows)
        seen[n \in Nat] == IF n = 0 THEN want \ have ELSE Widen(parents, seen[n - 1], have)
    IN  seen[Len(rows)] \cap Ids(rows)

\* wire_negotiate: the ids of have the repository knows.
Ack(rows, have) == have \cap Ids(rows)

\* One level of the search for a common base.
NextLevel(parents, level) ==
    LET visited == level.visited \cup level.batch
    IN  [visited |-> visited,
         batch   |-> (UNION {parents[id] : id \in level.batch \cap DOMAIN parents}) \ visited]

\* The first parent of a commit that is acknowledged, if any.
FirstAcked(commit, ack) ==
    LET acked == {i \in DOMAIN commit.parents : commit.parents[i] \in ack}
    IN  {commit.parents[i] : i \in {k \in acked : \A j \in acked : k <= j}}

\* What common_base can be: the search ends in the first level that has a
\* commit with an acknowledged parent, at such a commit, and the order in
\* which the database returns the rows decides which.
CommonBases(rows, want, ack) ==
    LET parents == ParentMap(rows)
        level[n \in Nat] ==
            IF n = 0 THEN [visited |-> {}, batch |-> want \ ack]
            ELSE NextLevel(parents, level[n - 1])
        Met(n) == UNION {FirstAcked(ById(rows, id), ack) : id \in level[n].batch \cap Ids(rows)}
        found == [n \in 0..Len(rows) |-> Met(n)]
        hits == {n \in 0..Len(rows) : found[n] # {}}
    IN  IF hits = {} THEN {} ELSE found[CHOOSE n \in hits : \A m \in hits : n <= m]

\* ready.
Ready(rows, want, have) == CommonBases(rows, want, Ack(rows, have)) # {} \/ have = {}

\* list_commits_dag: the same algorithm over all commits of a repository.
DagOrder(rows) == TopologicalSort(rows)
=============================================================================
