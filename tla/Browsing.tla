------------------------------ MODULE Browsing ------------------------------
(***************************************************************************)
(* What the pages of a repository compute from its commits.  history is    *)
(* the sequence of the commits by timestamp, oldest first; a commit is a   *)
(* record [branch, files], where files gives the object of every path, or  *)
(* is NoSnapshot: a commit need not have one.  A path is the sequence of   *)
(* the names it is made of.                                                *)
(***************************************************************************)
EXTENDS Naturals, Sequences, FiniteSets, SequencesExt

CONSTANTS Absent,       \* stands for no object at a path
          NoSnapshot,   \* stands for no snapshot of a commit
          ScanLimit     \* the commits get_last_commit_for_file looks at: 200

ASSUME ScanLimitOK == ScanLimit \in Nat

Snapped(commit) == commit.files # NoSnapshot

\* The manifest of a commit; one without a snapshot is empty.
ObjectAt(commit, path) == IF Snapped(commit) THEN commit.files[path] ELSE Absent

-----------------------------------------------------------------------------
(* get_last_commit_for_file: commits are their positions in history. *)

\* At most ScanLimit of them, newest first.
NewestFirst(places) ==
    LET count == Cardinality(places)
    IN  [k \in 1..(IF count < ScanLimit THEN count ELSE ScanLimit) |->
            CHOOSE i \in places : Cardinality({j \in places : j >= i}) = k]

\* Mutant: the commits of all branches.
ScannedAll(history, n) == NewestFirst(1..n)

\* The query: the branch of commit n up to n.
Scanned(history, n) == NewestFirst({i \in 1..n : history[i].branch = history[n].branch})

\* The scan goes back while the object stays, over commits without a snapshot.
ScanBack(history, path, object, scan, i) ==
    IF scan.ended \/ ~Snapped(history[i]) THEN scan
    ELSE IF ObjectAt(history[i], path) # object THEN [scan EXCEPT !.ended = TRUE]
    ELSE [scan EXCEPT !.commit = i]

\* 0 for None.
LastCommitForFile(history, path, n) ==
    LET object == ObjectAt(history[n], path)
        Back(scan, i) == ScanBack(history, path, object, scan, i)
    IN  IF ~Snapped(history[n]) THEN n
        ELSE IF object = Absent THEN 0
        ELSE FoldLeft(Back, [commit |-> n, ended |-> FALSE], Scanned(history, n)).commit

-----------------------------------------------------------------------------
(* get_snapshot_diff, between a commit and its parent. *)

SnapshotDiff(paths, commit, parent) ==
    LET new == {p \in paths : ObjectAt(commit, p) # Absent}
        old == {p \in paths : ObjectAt(parent, p) # Absent}
    IN  [added    |-> new \ old,
         removed  |-> old \ new,
         modified |-> {p \in new \cap old : ObjectAt(commit, p) # ObjectAt(parent, p)}]

-----------------------------------------------------------------------------
(* list_tree: the entries of one directory. *)

Under(dir, path) == Len(path) > Len(dir) /\ SubSeq(path, 1, Len(dir)) = dir

ManifestToTree(paths, dir) ==
    LET below == {p \in paths : Under(dir, p)}
    IN  [files |-> {p \in below : Len(p) = Len(dir) + 1},
         dirs  |-> {SubSeq(p, 1, Len(dir) + 1) : p \in {q \in below : Len(q) > Len(dir) + 1}}]

\* The files found by opening every directory, level by level.
Browsed(paths, depth) ==
    LET open[n \in Nat] == IF n = 0 THEN {<<>>}
                           ELSE UNION {ManifestToTree(paths, d).dirs : d \in open[n - 1]}
    IN  UNION {UNION {ManifestToTree(paths, d).files : d \in open[n]} : n \in 0..depth}
=============================================================================
