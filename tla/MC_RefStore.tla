---------------------------- MODULE MC_RefStore ----------------------------
(***************************************************************************)
(* Instances of RefStore: two sessions, two branches, three commits, one   *)
(* pull request from dev to main.  c1 is a root, c2 and c3 build on it:    *)
(* c2 and c3 are what two clients make of the same clone.                  *)
(***************************************************************************)
EXTENDS RefStore

CONSTANTS s1, s2, main, dev, c1, c2, c3, m1, m2, p1

MCParents == c1 :> {} @@ c2 :> {c1} @@ c3 :> {c1}

\* Ids of merge commits are random and interchangeable.
MergeIdSymmetry == Permutations({m1, m2})

MCFromBranch == p1 :> dev
MCToBranch   == p1 :> main

\* Bundles of one tip, as a client that pushes one branch sends them.
OneTip == {{c1}, {c2}, {c1, c3}}

Diverging == {{c1}, {c1, c2}, {c1, c3}}

\* A push of a branch without commits is among them.
WithNothing == {{}, {c1}, {c1, c2}}

\* Every branch has one client that writes to it.
OneWriter == s1 :> {dev} @@ s2 :> {main}

\* Both clients write to both branches.
AllWriters == [s \in {s1, s2} |-> {main, dev}]

\* Both clients write to main.
MainOnly == [s \in {s1, s2} |-> {main}]
=============================================================================
