----------------------------- MODULE AtomicRefs -----------------------------
(***************************************************************************)
(* What the callers of the push and merge operations of a repository are   *)
(* promised: each branch has one head, and a request moves it in one step, *)
(* by a fast-forward of the head it has at that moment unless the push is  *)
(* forced.  The requests, their transactions and their reads do not show.  *)
(***************************************************************************)
EXTENDS CommitGraph

CONSTANTS
    Branches,
    PushIds,    \* commits made by clients
    ServerIds,  \* merge commits
    ParentsOf,  \* the parents of the commits made by clients
    NoCommit    \* the head of a branch that has none

VARIABLES
    commits,    \* id -> parents
    head        \* branch -> commit

Init ==
    /\ commits = [c \in {} |-> {}]
    /\ head = [b \in Branches |-> NoCommit]

Insert(fresh, parents) ==
    commits' = [c \in DOMAIN commits \cup fresh |->
                  IF c \in DOMAIN commits THEN commits[c] ELSE parents[c]]

FastForward(b, new) == head[b] = NoCommit \/ head[b] \in Walk(commits', {new})

\* The bundle becomes part of the repository and its tip the head.
Push(b, bundle, tip, force) ==
    /\ tip \in bundle
    /\ head' = [head EXCEPT ![b] = tip]
    /\ Insert(bundle, ParentsOf)
    /\ force \/ FastForward(b, tip)

\* The merged commit is one the source branch had as its head.
Merge(b, from, m) ==
    /\ m \in ServerIds \ DOMAIN commits
    /\ from \in DOMAIN commits
    /\ head' = [head EXCEPT ![b] = m]
    /\ Insert({m}, [c \in {m} |-> {head[b], from} \ {NoCommit}])
    /\ FastForward(b, m)

Next ==
    \E b \in Branches :
        \/ \E bundle \in SUBSET PushIds, force \in BOOLEAN :
              \E tip \in bundle : Push(b, bundle, tip, force)
        \/ \E from \in PushIds \cup ServerIds, m \in ServerIds : Merge(b, from, m)

Spec == Init /\ [][Next]_<<commits, head>>
=============================================================================
