------------------------------ MODULE RefStore ------------------------------
(***************************************************************************)
(* The branch heads and commit rows of one repository, and the requests    *)
(* that move them: a wire push (musehub_wire.wire_push), a REST or MCP     *)
(* push (musehub_sync.ingest_push) and a pull-request merge                *)
(* (musehub_pull_requests.merge_pr).  Each request runs in a database      *)
(* session of its own, at the READ COMMITTED level of the production       *)
(* database: what it reads it reads once, without a row lock, and what it  *)
(* writes becomes visible at its commit.  The requests of several workers  *)
(* interleave between those reads and that commit.                         *)
(***************************************************************************)
EXTENDS CommitGraph

CONSTANTS
    Sessions,      \* the database sessions that serve requests
    Branches,      \* branch names
    Commits,       \* ids of the commits clients make
    Parents,       \* the parents each of them names, fixed by its id
    MergeIds,      \* ids the server may draw for merge commits
    PullRequests,  \* pull request ids
    FromBranch,    \* the branch a pull request comes from
    ToBranch,      \* the branch it goes to
    Bundles,       \* the sets of commits a client may push at once
    Targets,       \* the branches the client of a session writes to
    Kinds,         \* the requests in play, among "wire", "ingest", "merge"
    InitialDefault,\* default_branch of a new repository
    Empty,         \* the head "" of a branch created by a push without commits
    None           \* no value read

ASSUME ConstantsOK ==
    /\ Parents \in [Commits -> SUBSET (Commits \cup MergeIds)]
    /\ Commits \cap MergeIds = {}
    /\ Bundles \subseteq SUBSET Commits
    /\ FromBranch \in [PullRequests -> Branches]
    /\ ToBranch \in [PullRequests -> Branches]
    /\ Targets \in [Sessions -> SUBSET Branches]
    /\ InitialDefault \in Branches
    /\ Empty \notin Commits \cup MergeIds
    /\ None \notin Commits \cup MergeIds \cup {Empty}

VARIABLES
    commits,        \* commit rows: id -> parent ids
    branches,       \* branch rows: name -> the heads of the rows of that name
    defaultBranch,  \* repo.default_branch
    pulls,          \* pull request rows
    pc,             \* how far the request of each session is
    req,            \* the request
    view,           \* what its transaction has read
    reply           \* the answer to the last request of each session at rest

db   == <<commits, branches, defaultBranch, pulls>>
vars == <<commits, branches, defaultBranch, pulls, pc, req, view, reply>>

CommitIds == Commits \cup MergeIds
Heads     == CommitIds \cup {Empty}

NoRequest == [kind |-> "none", branch |-> InitialDefault, bundle |-> {}, tip |-> Empty,
              force |-> FALSE, pull |-> None]

\* fresh: commit rows to insert; seen: head of the branch row, None when there
\* is no row; from: head of the branch a merge comes from; default:
\* default_branch as loaded; only: no other branch was found.
NoView == [fresh |-> {}, seen |-> None, from |-> None, default |-> InitialDefault, only |-> FALSE]

Request == [kind : {"none", "wire", "ingest", "merge"}, branch : Branches,
            bundle : SUBSET Commits, tip : Heads, force : BOOLEAN,
            pull : PullRequests \cup {None}]

View == [fresh : SUBSET Commits, seen : Heads \cup {None}, from : Heads \cup {None},
         default : Branches, only : BOOLEAN]

RowsTyped ==
    /\ DOMAIN commits \subseteq CommitIds
    /\ commits \in [DOMAIN commits -> SUBSET Heads]
    /\ branches \in [Branches -> Seq(Heads)]
    /\ defaultBranch \in Branches
    /\ pulls \in [PullRequests -> [state : {"none", "open", "merged"}, merge : MergeIds \cup {None}]]

SessionsTyped ==
    /\ pc \in [Sessions -> {"idle", "staged", "checked", "written",
                            "begun", "resolved", "filtered", "opened", "joined"}]
    /\ req \in [Sessions -> Request]
    /\ view \in [Sessions -> View]
    /\ reply \in [Sessions -> {"none", "ok", "non_ff", "conflict", "failed"}]
    /\ \A s \in Sessions : pc[s] \in {"opened", "joined"} => req[s].pull \in PullRequests

TypeOK == RowsTyped /\ SessionsTyped

Init ==
    /\ commits = [c \in {} |-> {}]
    /\ branches = [b \in Branches |-> <<>>]
    /\ defaultBranch = InitialDefault
    /\ pulls = [p \in PullRequests |-> [state |-> "none", merge |-> None]]
    /\ pc = [s \in Sessions |-> "idle"]
    /\ req = [s \in Sessions |-> NoRequest]
    /\ view = [s \in Sessions |-> NoView]
    /\ reply = [s \in Sessions |-> "none"]

-----------------------------------------------------------------------------
(* Sessions and transactions *)

\* The session ends: its transaction is over and the client has its answer.
Finish(s, answer) ==
    /\ pc' = [pc EXCEPT ![s] = "idle"]
    /\ req' = [req EXCEPT ![s] = NoRequest]
    /\ view' = [view EXCEPT ![s] = NoView]
    /\ reply' = [reply EXCEPT ![s] = answer]

\* get_db rolls back whatever the transaction wrote.
Rollback(s, answer) == Finish(s, answer) /\ UNCHANGED db

Advance(s, to, v) ==
    /\ pc' = [pc EXCEPT ![s] = to]
    /\ view' = [view EXCEPT ![s] = v]
    /\ UNCHANGED <<commits, branches, defaultBranch, pulls, req, reply>>

Begin(s, r, to, v) ==
    /\ pc' = [pc EXCEPT ![s] = to]
    /\ req' = [req EXCEPT ![s] = r]
    /\ view' = [view EXCEPT ![s] = v]
    /\ reply' = [reply EXCEPT ![s] = "none"]
    /\ UNCHANGED db

Working(s) == pc[s] # "idle"

\* The rows a session has sent to the database and not yet committed.  A
\* session that would insert one of them waits for that session to end.
Flushed(s) == IF pc[s] \in {"checked", "written"} THEN view[s].fresh ELSE {}

Blocked(s) == \E t \in Sessions \ {s} : Flushed(t) \cap view[s].fresh # {}

\* The primary key refuses a row another session committed meanwhile.
DuplicateKey(s) == view[s].fresh \cap DOMAIN commits # {}

\* scalar_one_or_none raises MultipleResultsFound on a second row.
Ambiguous(b) == Len(branches[b]) > 1

HeadOf(b) == IF branches[b] = <<>> THEN None ELSE branches[b][1]

\* Mutant: the head of an existing row stays.
NewHeadKept(s) == IF view[s].seen # None THEN view[s].seen ELSE req[s].tip

\* The head the request leaves: a bundle without commits keeps that of an
\* existing row.
NewHead(s) == IF req[s].bundle = {} /\ view[s].seen # None THEN view[s].seen ELSE req[s].tip

\* Mutant: a push does not touch the repo row.
HoldsRepoRowNever(s) == FALSE

\* Mutant: a push holds the repo row from its check on.
HoldsRepoRowEarly(s) == pc[s] \in {"checked", "written"}

\* A wire push that has sent its UPDATE of the repo row (pushed_at) holds the
\* lock of that row, and of the branch row it moved, until it commits.
HoldsRepoRow(s) == pc[s] = "written"

HoldsBranchRow(s, b) ==
    HoldsRepoRow(s) /\ req[s].branch = b /\ view[s].seen \notin {None, NewHead(s)}

BranchRowFree(s) == \A t \in Sessions \ {s} : ~HoldsBranchRow(t, req[s].branch)

\* Mutant: a branch row is inserted by every request.
MoveHeadAppend(s, head) == branches' = [branches EXCEPT ![req[s].branch] = Append(@, head)]

\* Insert the branch row when none was found, else update the row found: an
\* attribute set to the value it was loaded with is not written.
MoveHead(s, head) ==
    LET b == req[s].branch
    IN  branches' = IF view[s].seen = None THEN [branches EXCEPT ![b] = Append(@, head)]
                    ELSE IF view[s].seen = head THEN branches
                    ELSE [branches EXCEPT ![b][1] = head]

\* Mutant: the prepared rows are never added.
InsertCommitsNone(fresh, parentsOf) == UNCHANGED commits

InsertCommits(fresh, parentsOf) ==
    commits' = [c \in DOMAIN commits \cup fresh |->
                  IF c \in DOMAIN commits THEN commits[c] ELSE parentsOf[c]]

\* A client pushes what the server lacks: a parent outside the bundle is a
\* commit it has seen on the server.
Delta(bundle) == \A c \in bundle : Parents[c] \subseteq bundle \cup DOMAIN commits

-----------------------------------------------------------------------------
(* wire_push *)

\* The tips of a bundle: commits no other commit of it builds on.  The last
\* commit of _topological_sort is one of them (LastOfSortIsTip).
TipsOf(bundle) == {c \in bundle : \A d \in bundle : c \notin Parents[d]}

\* What the walk of _is_ancestor_in_bundle visits (AncestorTestExact).
SeenInBundle(head, bundle) == head \in bundle \/ \E c \in bundle : head \in Parents[c]

\* The repo row and the existing commits are read, and rows prepared for the
\* others; new_head is the last commit in topological order.
WirePushStage(s, b, bundle, tip, force) ==
    /\ "wire" \in Kinds
    /\ pc[s] = "idle"
    /\ b \in Targets[s]
    /\ Delta(bundle)
    /\ tip \in (IF bundle = {} THEN {Empty} ELSE TipsOf(bundle))
    /\ Begin(s, [NoRequest EXCEPT !.kind = "wire", !.branch = b, !.bundle = bundle,
                                  !.tip = tip, !.force = force],
             "staged",
             [NoView EXCEPT !.fresh = bundle \ DOMAIN commits, !.default = defaultBranch])

\* Selecting the branch row first sends the pending commit rows.
WirePushDuplicate(s) ==
    /\ pc[s] = "staged"
    /\ ~Blocked(s)
    /\ DuplicateKey(s)
    /\ Rollback(s, "failed")

WirePushAmbiguous(s) ==
    /\ pc[s] = "staged"
    /\ ~Blocked(s)
    /\ ~DuplicateKey(s)
    /\ Ambiguous(req[s].branch)
    /\ Rollback(s, "failed")

\* Mutant: any bundle with commits passes.
FastForwardWireAny(s) ==
    req[s].force \/ HeadOf(req[s].branch) \in {None, Empty} \/ req[s].bundle # {}

\* The check applies to an existing row with a head, unless force is set.
FastForwardWire(s) ==
    \/ req[s].force
    \/ HeadOf(req[s].branch) \in {None, Empty}
    \/ SeenInBundle(HeadOf(req[s].branch), req[s].bundle)

WirePushCheck(s) ==
    /\ pc[s] = "staged"
    /\ ~Blocked(s)
    /\ ~DuplicateKey(s)
    /\ ~Ambiguous(req[s].branch)
    /\ IF FastForwardWire(s)
       THEN Advance(s, "checked", [view[s] EXCEPT !.seen = HeadOf(req[s].branch)])
       ELSE Rollback(s, "non_ff")

\* Selecting the other branches first sends the UPDATE of the repo row and
\* the new head, and so waits for a wire push that holds the repo row.
WirePushFlush(s) ==
    /\ pc[s] = "checked"
    /\ \A t \in Sessions \ {s} : ~HoldsRepoRow(t)
    /\ Advance(s, "written",
               [view[s] EXCEPT !.only = \A b \in Branches \ {req[s].branch} : branches[b] = <<>>])

\* default_branch is written when it differs from the value loaded.
WirePushCommit(s) ==
    /\ pc[s] = "written"
    /\ InsertCommits(view[s].fresh, Parents)
    /\ MoveHead(s, NewHead(s))
    /\ defaultBranch' = IF view[s].only /\ req[s].branch # view[s].default
                        THEN req[s].branch ELSE defaultBranch
    /\ UNCHANGED pulls
    /\ Finish(s, "ok")

-----------------------------------------------------------------------------
(* ingest_push, called by POST /repos/{id}/push and by the tool muse_push *)

IngestBegin(s, b, bundle, head, force) ==
    /\ "ingest" \in Kinds
    /\ pc[s] = "idle"
    /\ b \in Targets[s]
    /\ Delta(bundle)
    /\ head \in bundle
    /\ Begin(s, [NoRequest EXCEPT !.kind = "ingest", !.branch = b, !.bundle = bundle,
                                  !.tip = head, !.force = force],
             "begun", NoView)

\* A branch without a row gets one whose head is NULL, which passes; the head
\* "" is not NULL and is looked for in the ancestry of the new head.
FastForwardIngest(s) ==
    LET head == HeadOf(req[s].branch)
    IN  \/ req[s].force
        \/ head \in {None, req[s].tip}
        \/ head \in Walk([c \in req[s].bundle |-> Parents[c]], {req[s].tip})

IngestResolve(s) ==
    /\ pc[s] = "begun"
    /\ IF Ambiguous(req[s].branch) THEN Rollback(s, "failed")
       ELSE IF FastForwardIngest(s)
       THEN Advance(s, "resolved", [view[s] EXCEPT !.seen = HeadOf(req[s].branch)])
       ELSE Rollback(s, "non_ff")

\* Mutant: only the announced head is stored.
IngestFilterHead(s) ==
    /\ pc[s] = "resolved"
    /\ Advance(s, "filtered", [view[s] EXCEPT !.fresh = {req[s].tip} \ DOMAIN commits])

\* The commit rows the repository already has are skipped.
IngestFilter(s) ==
    /\ pc[s] = "resolved"
    /\ Advance(s, "filtered", [view[s] EXCEPT !.fresh = req[s].bundle \ DOMAIN commits])

\* The last flush sends everything; the route commits right after it.
IngestCommit(s) ==
    /\ pc[s] = "filtered"
    /\ ~Blocked(s)
    /\ BranchRowFree(s)
    /\ IF DuplicateKey(s) THEN Rollback(s, "failed")
       ELSE /\ InsertCommits(view[s].fresh, Parents)
            /\ MoveHead(s, req[s].tip)
            /\ UNCHANGED <<defaultBranch, pulls>>
            /\ Finish(s, "ok")

-----------------------------------------------------------------------------
(* Pull requests *)

\* create_pr: the branch it comes from must exist, once.
CreatePull(p) ==
    /\ "merge" \in Kinds
    /\ pulls[p].state = "none"
    /\ Len(branches[FromBranch[p]]) = 1
    /\ pulls' = [pulls EXCEPT ![p].state = "open"]
    /\ UNCHANGED <<commits, branches, defaultBranch, pc, req, view, reply>>

\* Mutant: the state of the pull request is not looked at.
MergeBeginAlways(s, p) ==
    /\ "merge" \in Kinds
    /\ pc[s] = "idle"
    /\ ToBranch[p] \in Targets[s]
    /\ pulls[p].state # "none"
    /\ Begin(s, [NoRequest EXCEPT !.kind = "merge", !.branch = ToBranch[p], !.pull = p],
             "opened", NoView)

\* merge_pr reads the pull request and refuses one that is not open.
MergeBegin(s, p) ==
    /\ "merge" \in Kinds
    /\ pc[s] = "idle"
    /\ ToBranch[p] \in Targets[s]
    /\ pulls[p].state # "none"
    /\ IF pulls[p].state = "open"
       THEN Begin(s, [NoRequest EXCEPT !.kind = "merge", !.branch = ToBranch[p], !.pull = p],
                  "opened", NoView)
       ELSE Rollback(s, "conflict")

\* Mutant: a squash, whose parent is the source alone.
MergeParentsSource(s) == {view[s].from} \ {None}

\* The parents are the heads of the two branches, those of them that exist.
MergeParents(s) == {view[s].seen, view[s].from} \ {None}

MergeRead(s) ==
    LET from == FromBranch[req[s].pull]
        to   == req[s].branch
    IN  /\ pc[s] = "opened"
        /\ IF Ambiguous(from) \/ Ambiguous(to) \/ {HeadOf(from), HeadOf(to)} = {None}
           THEN Rollback(s, "failed")
           ELSE Advance(s, "joined", [view[s] EXCEPT !.seen = HeadOf(to), !.from = HeadOf(from)])

MergeCommit(s, m) ==
    /\ pc[s] = "joined"
    /\ BranchRowFree(s)
    /\ m \in MergeIds \ DOMAIN commits
    /\ InsertCommits({m}, [c \in {m} |-> MergeParents(s)])
    /\ MoveHead(s, m)
    /\ pulls' = [pulls EXCEPT ![req[s].pull] = [state |-> "merged", merge |-> m]]
    /\ UNCHANGED defaultBranch
    /\ Finish(s, "ok")

-----------------------------------------------------------------------------
\* The worker dies, the connection is lost or the database ends the
\* transaction (a deadlock, a timeout): nothing of it remains.
Fail(s) == Working(s) /\ Rollback(s, "failed")

Step(s) ==
    \/ WirePushDuplicate(s)
    \/ WirePushAmbiguous(s)
    \/ WirePushCheck(s)
    \/ WirePushFlush(s)
    \/ WirePushCommit(s)
    \/ IngestResolve(s)
    \/ IngestFilter(s)
    \/ IngestCommit(s)
    \/ MergeRead(s)
    \/ \E m \in MergeIds : MergeCommit(s, m)

Start(s) ==
    \/ \E b \in Branches, bundle \in Bundles, force \in BOOLEAN :
          \/ \E tip \in Commits \cup {Empty} : WirePushStage(s, b, bundle, tip, force)
          \/ \E head \in bundle : IngestBegin(s, b, bundle, head, force)
    \/ \E p \in PullRequests : MergeBegin(s, p)

Next ==
    \/ \E s \in Sessions : Start(s) \/ Step(s) \/ Fail(s)
    \/ \E p \in PullRequests : CreatePull(p)

Spec == Init /\ [][Next]_vars

(***************************************************************************)
(* A request that was read is worked on until it is answered.  Fairness is *)
(* strong because a step may wait for the rows of another transaction and  *)
(* the database queues the waiting transactions: a client that retries for *)
(* ever does not keep getting ahead of one that waits.                     *)
(***************************************************************************)
FairSpec == Spec /\ \A s \in Sessions : SF_vars(Step(s))

-----------------------------------------------------------------------------
(* What the branch heads promise *)

Stored == DOMAIN commits \cup {Empty}

\* The commits a head gives access to.
History(head) == Walk(commits, {head})

(***************************************************************************)
(* Every row of a branch points at a stored commit, or at none, whatever   *)
(* requests ran at the same time and wherever they failed: wire_push,      *)
(* ingest_push and merge_pr insert the commit in the transaction that      *)
(* moves the head.                                                         *)
(***************************************************************************)
HeadsStored ==
    \A b \in Branches : \A i \in DOMAIN branches[b] : branches[b][i] \in Stored

(***************************************************************************)
(* No stored commit has a parent the server lacks, although each request   *)
(* decides which commits to skip from an earlier read than its write.      *)
(***************************************************************************)
HistoryClosed == \A c \in DOMAIN commits : commits[c] \subseteq Stored

(***************************************************************************)
(* What a transaction read early is still good when it commits: the heads  *)
(* it saw are stored, and what it will insert, with what was stored when   *)
(* it looked, holds every commit of its bundle and their parents.  Commits *)
(* are never deleted, so the requests in between cannot change that.       *)
(***************************************************************************)
ViewValid(s) ==
    /\ {view[s].seen, view[s].from} \subseteq Stored \cup {None}
    /\ \A c \in req[s].bundle : Parents[c] \subseteq req[s].bundle \cup DOMAIN commits
    /\ req[s].tip \in req[s].bundle \cup {Empty}
    /\ view[s].fresh \subseteq req[s].bundle
    /\ pc[s] \in {"staged", "checked", "written", "filtered"} =>
          req[s].bundle \subseteq view[s].fresh \cup DOMAIN commits

ViewsStayValid == \A s \in Sessions : ViewValid(s)

(***************************************************************************)
(* A branch has one row.  No unique constraint says so: the two pushes and *)
(* the merge read the row and insert it when it is missing.                *)
(***************************************************************************)
OneRowPerBranch == \A b \in Branches : Len(branches[b]) <= 1

(***************************************************************************)
(* A branch head only moves forward: the old head is in the history of the *)
(* new one, unless the push that moved it was forced (musehub_wire.py,     *)
(* musehub_sync.py and the route of POST /push all say so).                *)
(***************************************************************************)
KeepsHistory(b) ==
    \/ HeadOf(b) \in {None, Empty}
    \/ HeadOf(b)' # None /\ HeadOf(b) \in History(HeadOf(b))'
    \/ \E s \in Sessions : req[s].force /\ req[s].branch = b /\ Working(s) /\ ~Working(s)'

HeadsMoveForward == [][\A b \in Branches : KeepsHistory(b)]_vars

(***************************************************************************)
(* A push that is answered ok has published all it sent: every commit of   *)
(* the bundle, the ones skipped because they were stored before included,  *)
(* is in the history of the branch head at that moment.  (A REST push may  *)
(* announce another head than the tip of its bundle.)                      *)
(***************************************************************************)
AnsweredOk(s) == Working(s) /\ ~Working(s)' /\ reply'[s] = "ok"

OkMeansPublished ==
    [][\A s \in Sessions, b \in Branches :
          AnsweredOk(s) /\ req[s].branch = b /\ TipsOf(req[s].bundle) = {req[s].tip} =>
             req[s].bundle \subseteq History(HeadOf(b))']_vars

(***************************************************************************)
(* A pull request is merged once: neither its state nor its merge commit   *)
(* changes afterwards (the merge route answers 409 to a second merge).     *)
(***************************************************************************)
MergedIsFinal ==
    [][\A p \in PullRequests : pulls[p].state = "merged" => pulls'[p] = pulls[p]]_vars

(***************************************************************************)
(* default_branch is set by the push that creates the first branch and     *)
(* never by a later one (the comment in wire_push).                        *)
(***************************************************************************)
DefaultBranchKept ==
    [][defaultBranch' # defaultBranch =>
          \A b \in Branches \ {defaultBranch'} : branches[b] = <<>>]_vars

(***************************************************************************)
(* Every request is answered: waiting for the rows of another transaction  *)
(* ends, since what a session holds it holds until its own last step.      *)
(***************************************************************************)
Answered == \A s \in Sessions : Working(s) ~> ~Working(s)

(***************************************************************************)
(* With one writer for each branch, the three kinds of requests implement  *)
(* AtomicRefs: their reads and their late writes look like one step, taken *)
(* at the commit, on the heads of that moment.                             *)
(***************************************************************************)
Atomic == INSTANCE AtomicRefs WITH
            PushIds   <- Commits,
            ServerIds <- MergeIds,
            ParentsOf <- Parents,
            NoCommit  <- Empty,
            head      <- [b \in Branches |-> IF branches[b] = <<>> THEN Empty ELSE branches[b][1]]

ImplementsAtomicRefs == Atomic!Spec
=============================================================================
