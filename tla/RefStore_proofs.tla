--------------------------- MODULE RefStore_proofs ---------------------------
(***************************************************************************)
(* Safety of RefStore for every set of sessions, branches, commits and     *)
(* bundles, every commit graph and every assignment of branches to         *)
(* writers.  The inductive invariant is                                    *)
(*     TypeOK /\ ViewsStayValid /\ HeadsStored /\ HistoryClosed :          *)
(* a request moves the head to a commit it decided on several steps        *)
(* earlier, so what it read then has to be said as well.                   *)
(***************************************************************************)
EXTENDS RefStore, CommitGraph_proofs, SequenceTheorems, TLAPS

(***************************************************************************)
(* Replacing an element of a sequence leaves a sequence.                   *)
(***************************************************************************)
LEMMA ReplaceTyped ==
    ASSUME NEW S, NEW q \in Seq(S), NEW i, NEW x \in S
    PROVE  [q EXCEPT ![i] = x] \in Seq(S)
<1>1. q \in [1..Len(q) -> S] /\ Len(q) \in Nat
  OBVIOUS
<1>2. [q EXCEPT ![i] = x] \in [1..Len(q) -> S]
  BY <1>1
<1>. QED
  BY <1>1, <1>2, SeqDef

(***************************************************************************)
(* How a session moves on, ends or begins: each keeps the session state    *)
(* typed.                                                                  *)
(***************************************************************************)
LEMMA NoneTyped == NoRequest \in Request /\ NoView \in View
BY ConstantsOK DEF ConstantsOK, NoRequest, NoView, Request, View, Heads

LEMMA FinishTyped ==
    ASSUME SessionsTyped, NEW s \in Sessions,
           NEW answer \in {"none", "ok", "non_ff", "conflict", "failed"}, Finish(s, answer)
    PROVE  SessionsTyped'
BY NoneTyped DEF SessionsTyped, Finish

LEMMA RollbackTyped ==
    ASSUME TypeOK, NEW s \in Sessions,
           NEW answer \in {"none", "ok", "non_ff", "conflict", "failed"}, Rollback(s, answer)
    PROVE  TypeOK'
<1>1. SessionsTyped'
  BY FinishTyped DEF TypeOK, Rollback
<1>2. RowsTyped'
  BY DEF TypeOK, RowsTyped, Rollback, db
<1>. QED
  BY <1>1, <1>2 DEF TypeOK

LEMMA AdvanceTyped ==
    ASSUME TypeOK, NEW s \in Sessions, NEW v \in View,
           NEW to \in {"idle", "staged", "checked", "written",
                       "begun", "resolved", "filtered", "opened", "joined"},
           to \in {"opened", "joined"} => req[s].pull \in PullRequests,
           Advance(s, to, v)
    PROVE  TypeOK'
BY DEF TypeOK, RowsTyped, SessionsTyped, Advance

LEMMA BeginTyped ==
    ASSUME TypeOK, NEW s \in Sessions, NEW v \in View, NEW r \in Request,
           NEW to \in {"idle", "staged", "checked", "written",
                       "begun", "resolved", "filtered", "opened", "joined"},
           to \in {"opened", "joined"} => r.pull \in PullRequests,
           Begin(s, r, to, v)
    PROVE  TypeOK'
BY DEF TypeOK, RowsTyped, SessionsTyped, Begin, db

-----------------------------------------------------------------------------
(***************************************************************************)
(* The two writes to the rows.                                             *)
(***************************************************************************)
LEMMA HeadOfTyped ==
    ASSUME TypeOK, NEW b \in Branches
    PROVE  HeadOf(b) \in Heads \cup {None}
<1>1. branches[b] \in Seq(Heads)
  BY DEF TypeOK, RowsTyped
<1>2. CASE branches[b] = <<>>
  BY <1>2 DEF HeadOf
<1>3. CASE branches[b] # <<>>
  <2>1. branches[b][1] \in Heads
    BY <1>1, <1>3
  <2>. QED
    BY <2>1, <1>3 DEF HeadOf
<1>. QED
  BY <1>2, <1>3

(***************************************************************************)
(* MoveHead leaves each row of each branch as it was or with the new head. *)
(***************************************************************************)
LEMMA MoveHeadRows ==
    ASSUME TypeOK, NEW s \in Sessions, NEW head \in Heads, MoveHead(s, head)
    PROVE  /\ branches' \in [Branches -> Seq(Heads)]
           /\ \A b \in Branches : \A i \in DOMAIN branches'[b] :
                 \/ branches'[b][i] = head
                 \/ i \in DOMAIN branches[b] /\ branches'[b][i] = branches[b][i]
<1>. DEFINE own == req[s].branch
<1>1. own \in Branches /\ branches \in [Branches -> Seq(Heads)]
  BY DEF TypeOK, RowsTyped, SessionsTyped, Request
<1>2. CASE view[s].seen = None
  <2>1. branches' = [branches EXCEPT ![own] = Append(@, head)]
    BY <1>2 DEF MoveHead
  <2>2. branches[own] \in Seq(Heads) /\ Append(branches[own], head) \in Seq(Heads)
    BY <1>1
  <2>3. branches' \in [Branches -> Seq(Heads)]
    BY <1>1, <2>1, <2>2
  <2>4. \A i \in DOMAIN branches'[own] :
           \/ branches'[own][i] = head
           \/ i \in DOMAIN branches[own] /\ branches'[own][i] = branches[own][i]
    BY <1>1, <2>1, <2>2
  <2>. QED
    BY <1>1, <2>1, <2>3, <2>4
<1>3. CASE view[s].seen # None /\ view[s].seen = head
  BY <1>1, <1>3 DEF MoveHead
<1>4. CASE view[s].seen # None /\ view[s].seen # head
  <2>1. branches' = [branches EXCEPT ![own] = [branches[own] EXCEPT ![1] = head]]
    BY <1>1, <1>4 DEF MoveHead
  <2>2. [branches[own] EXCEPT ![1] = head] \in Seq(Heads)
    BY <1>1, ReplaceTyped
  <2>. QED
    BY <1>1, <2>1, <2>2
<1>. QED
  BY <1>2, <1>3, <1>4

LEMMA InsertCommitsTyped ==
    ASSUME RowsTyped, NEW fresh \in SUBSET CommitIds, NEW parentsOf,
           \A c \in fresh : parentsOf[c] \subseteq Heads,
           InsertCommits(fresh, parentsOf)
    PROVE  /\ DOMAIN commits' = DOMAIN commits \cup fresh
           /\ DOMAIN commits' \subseteq CommitIds
           /\ commits' \in [DOMAIN commits' -> SUBSET Heads]
           /\ \A c \in DOMAIN commits' :
                 commits'[c] = IF c \in DOMAIN commits THEN commits[c] ELSE parentsOf[c]
BY DEF RowsTyped, InsertCommits

-----------------------------------------------------------------------------
(***************************************************************************)
(* Every action keeps the variables typed.                                 *)
(***************************************************************************)
LEMMA StageTyped ==
    ASSUME TypeOK, NEW s \in Sessions, NEW b \in Branches, NEW bundle \in Bundles,
           NEW tip \in Commits \cup {Empty}, NEW force \in BOOLEAN,
           WirePushStage(s, b, bundle, tip, force)
    PROVE  TypeOK'
<1>. DEFINE r == [NoRequest EXCEPT !.kind = "wire", !.branch = b, !.bundle = bundle,
                                   !.tip = tip, !.force = force]
            v == [NoView EXCEPT !.fresh = bundle \ DOMAIN commits, !.default = defaultBranch]
<1>1. bundle \subseteq Commits
  BY ConstantsOK DEF ConstantsOK
<1>2. r \in Request
  BY <1>1, NoneTyped DEF Request, Heads, CommitIds
<1>3. v \in View
  BY <1>1, NoneTyped DEF View, TypeOK, RowsTyped
<1>4. Begin(s, r, "staged", v)
  BY DEF WirePushStage
<1>. QED
  BY <1>2, <1>3, <1>4, BeginTyped

LEMMA CheckTyped ==
    ASSUME TypeOK, NEW s \in Sessions, WirePushCheck(s)
    PROVE  TypeOK'
<1>. DEFINE v == [view[s] EXCEPT !.seen = HeadOf(req[s].branch)]
<1>1. req[s] \in Request /\ view[s] \in View
  BY DEF TypeOK, SessionsTyped
<1>2. HeadOf(req[s].branch) \in Heads \cup {None}
  BY <1>1, HeadOfTyped DEF Request
<1>3. v \in View
  BY <1>1, <1>2 DEF View
<1>4. CASE Advance(s, "checked", v)
  BY <1>3, <1>4, AdvanceTyped
<1>5. CASE Rollback(s, "non_ff")
  BY <1>5, RollbackTyped
<1>. QED
  BY <1>4, <1>5 DEF WirePushCheck

LEMMA FlushTyped ==
    ASSUME TypeOK, NEW s \in Sessions, WirePushFlush(s)
    PROVE  TypeOK'
<1>. DEFINE v == [view[s] EXCEPT !.only = \A b \in Branches \ {req[s].branch} : branches[b] = <<>>]
<1>1. view[s] \in View
  BY DEF TypeOK, SessionsTyped
<1>2. v \in View
  BY <1>1 DEF View
<1>3. Advance(s, "written", v)
  BY DEF WirePushFlush
<1>. QED
  BY <1>2, <1>3, AdvanceTyped

(***************************************************************************)
(* The head a push leaves is a commit id or the empty head, as NewHead     *)
(* falls back on the head it saw only when there was one.                  *)
(***************************************************************************)
LEMMA NewHeadTyped ==
    ASSUME TypeOK, NEW s \in Sessions
    PROVE  NewHead(s) \in Heads /\ req[s].tip \in Heads
<1>1. req[s] \in Request /\ view[s] \in View
  BY DEF TypeOK, SessionsTyped
<1>. QED
  BY <1>1 DEF NewHead, Request, View

(***************************************************************************)
(* The commit of a push: rows inserted, head moved, session ended.         *)
(***************************************************************************)
LEMMA PushedTyped ==
    ASSUME TypeOK, NEW s \in Sessions, NEW head \in Heads,
           InsertCommits(view[s].fresh, Parents), MoveHead(s, head),
           defaultBranch' \in Branches, UNCHANGED pulls, Finish(s, "ok")
    PROVE  TypeOK'
<1>1. view[s].fresh \subseteq Commits
  BY DEF TypeOK, SessionsTyped, View
<1>2. \A c \in view[s].fresh : Parents[c] \subseteq Heads
  BY <1>1, ConstantsOK DEF ConstantsOK, Heads, CommitIds
<1>3. DOMAIN commits' \subseteq CommitIds /\ commits' \in [DOMAIN commits' -> SUBSET Heads]
  BY <1>1, <1>2, InsertCommitsTyped DEF TypeOK, CommitIds
<1>4. branches' \in [Branches -> Seq(Heads)]
  BY MoveHeadRows
<1>5. RowsTyped'
  BY <1>3, <1>4 DEF TypeOK, RowsTyped
<1>6. SessionsTyped'
  BY FinishTyped DEF TypeOK
<1>. QED
  BY <1>5, <1>6 DEF TypeOK

LEMMA WirePushCommitTyped ==
    ASSUME TypeOK, NEW s \in Sessions, WirePushCommit(s)
    PROVE  TypeOK'
<1>1. defaultBranch' \in Branches
  BY DEF WirePushCommit, TypeOK, RowsTyped, SessionsTyped, Request
<1>. QED
  BY <1>1, NewHeadTyped, PushedTyped DEF WirePushCommit

LEMMA IngestTyped ==
    ASSUME TypeOK, NEW s \in Sessions, IngestResolve(s) \/ IngestFilter(s) \/ IngestCommit(s)
    PROVE  TypeOK'
<1>. DEFINE seen == [view[s] EXCEPT !.seen = HeadOf(req[s].branch)]
            fresh == [view[s] EXCEPT !.fresh = req[s].bundle \ DOMAIN commits]
<1>1. req[s] \in Request /\ view[s] \in View
  BY DEF TypeOK, SessionsTyped
<1>2. seen \in View
  BY <1>1, HeadOfTyped DEF View, Request
<1>3. fresh \in View
  BY <1>1 DEF View, Request
<1>4. CASE IngestResolve(s)
  <2>1. \/ Rollback(s, "failed")
        \/ Rollback(s, "non_ff")
        \/ Advance(s, "resolved", seen)
    BY <1>4 DEF IngestResolve
  <2>. QED
    BY <2>1, <1>2, RollbackTyped, AdvanceTyped
<1>5. CASE IngestFilter(s)
  <2>1. Advance(s, "filtered", fresh)
    BY <1>5 DEF IngestFilter
  <2>. QED
    BY <2>1, <1>3, AdvanceTyped
<1>6. CASE IngestCommit(s)
  <2>1. CASE DuplicateKey(s)
    BY <1>6, <2>1, RollbackTyped DEF IngestCommit
  <2>2. CASE ~DuplicateKey(s)
    <3>1. defaultBranch' \in Branches
      BY <1>6, <2>2 DEF IngestCommit, TypeOK, RowsTyped
    <3>. QED
      BY <1>6, <2>2, <3>1, NewHeadTyped, PushedTyped DEF IngestCommit
  <2>. QED
    BY <2>1, <2>2
<1>. QED
  BY <1>4, <1>5, <1>6

LEMMA StartTyped ==
    ASSUME TypeOK, NEW s \in Sessions, Start(s)
    PROVE  TypeOK'
<1>1. CASE \E b \in Branches, bundle \in Bundles, force \in BOOLEAN, tip \in Commits \cup {Empty} :
              WirePushStage(s, b, bundle, tip, force)
  BY <1>1, StageTyped
<1>2. CASE \E b \in Branches, bundle \in Bundles, force \in BOOLEAN :
              \E head \in bundle : IngestBegin(s, b, bundle, head, force)
  <2>1. PICK b \in Branches, bundle \in Bundles, force \in BOOLEAN :
                \E head \in bundle : IngestBegin(s, b, bundle, head, force)
    BY <1>2
  <2>2. PICK head \in bundle : IngestBegin(s, b, bundle, head, force)
    BY <2>1
  <2>. DEFINE r == [NoRequest EXCEPT !.kind = "ingest", !.branch = b, !.bundle = bundle,
                                     !.tip = head, !.force = force]
  <2>3. bundle \subseteq Commits
    BY ConstantsOK DEF ConstantsOK
  <2>4. r \in Request
    BY <2>3, NoneTyped DEF Request, Heads, CommitIds
  <2>5. Begin(s, r, "begun", NoView)
    BY <2>2 DEF IngestBegin
  <2>. QED
    BY <2>4, <2>5, NoneTyped, BeginTyped
<1>3. CASE \E p \in PullRequests : MergeBegin(s, p)
  <2>1. PICK p \in PullRequests : MergeBegin(s, p)
    BY <1>3
  <2>. DEFINE r == [NoRequest EXCEPT !.kind = "merge", !.branch = ToBranch[p], !.pull = p]
  <2>2. r \in Request
    BY ConstantsOK, NoneTyped DEF ConstantsOK, Request
  <2>3. Begin(s, r, "opened", NoView) \/ Rollback(s, "conflict")
    BY <2>1 DEF MergeBegin
  <2>. QED
    BY <2>2, <2>3, NoneTyped, BeginTyped, RollbackTyped DEF Request
<1>. QED
  BY <1>1, <1>2, <1>3 DEF Start

(***************************************************************************)
(* A merge commit's parents are heads: the heads read, without the absent  *)
(* ones.                                                                   *)
(***************************************************************************)
LEMMA MergeParentsTyped ==
    ASSUME TypeOK, NEW s \in Sessions
    PROVE  MergeParents(s) \subseteq Heads
BY DEF MergeParents, TypeOK, SessionsTyped, View

LEMMA MergeReadTyped ==
    ASSUME TypeOK, NEW s \in Sessions, MergeRead(s)
    PROVE  TypeOK'
<1>. DEFINE from == FromBranch[req[s].pull]
            to   == req[s].branch
            v    == [view[s] EXCEPT !.seen = HeadOf(to), !.from = HeadOf(from)]
<1>1. CASE Rollback(s, "failed")
  BY <1>1, RollbackTyped
<1>2. CASE pc[s] = "opened" /\ Advance(s, "joined", v)
  <2>1. req[s].pull \in PullRequests /\ to \in Branches
    BY <1>2 DEF TypeOK, SessionsTyped, Request
  <2>2. from \in Branches
    BY <2>1, ConstantsOK DEF ConstantsOK
  <2>3. HeadOf(to) \in Heads \cup {None} /\ HeadOf(from) \in Heads \cup {None}
    BY <2>1, <2>2, HeadOfTyped
  <2>4. v \in View
    BY <2>3 DEF TypeOK, SessionsTyped, View
  <2>. QED
    BY <1>2, <2>1, <2>4, AdvanceTyped
<1>. QED
  BY <1>1, <1>2 DEF MergeRead

LEMMA MergeCommitTyped ==
    ASSUME TypeOK, NEW s \in Sessions, NEW m \in MergeIds, MergeCommit(s, m)
    PROVE  TypeOK'
<1>. DEFINE parents == [c \in {m} |-> MergeParents(s)]
<1>1. m \in Heads /\ {m} \in SUBSET CommitIds
  BY DEF Heads, CommitIds
<1>2. \A c \in {m} : parents[c] \subseteq Heads
  BY MergeParentsTyped
<1>3. InsertCommits({m}, parents)
  BY DEF MergeCommit
<1>4. DOMAIN commits' \subseteq CommitIds /\ commits' \in [DOMAIN commits' -> SUBSET Heads]
  <2>. HIDE DEF parents
  <2>. QED
    BY <1>1, <1>2, <1>3, InsertCommitsTyped DEF TypeOK
<1>5. branches' \in [Branches -> Seq(Heads)]
  BY <1>1, MoveHeadRows DEF MergeCommit
<1>6. RowsTyped'
  BY <1>4, <1>5 DEF MergeCommit, TypeOK, RowsTyped
<1>7. SessionsTyped'
  BY FinishTyped DEF MergeCommit, TypeOK
<1>. QED
  BY <1>6, <1>7 DEF TypeOK

LEMMA StepTyped ==
    ASSUME TypeOK, NEW s \in Sessions, Step(s)
    PROVE  TypeOK'
<1>1. CASE WirePushDuplicate(s) \/ WirePushAmbiguous(s)
  BY <1>1, RollbackTyped DEF WirePushDuplicate, WirePushAmbiguous
<1>2. CASE WirePushCheck(s)
  BY <1>2, CheckTyped
<1>3. CASE WirePushFlush(s)
  BY <1>3, FlushTyped
<1>4. CASE WirePushCommit(s)
  BY <1>4, WirePushCommitTyped
<1>5. CASE IngestResolve(s) \/ IngestFilter(s) \/ IngestCommit(s)
  BY <1>5, IngestTyped
<1>6. CASE MergeRead(s)
  BY <1>6, MergeReadTyped
<1>7. CASE \E m \in MergeIds : MergeCommit(s, m)
  BY <1>7, MergeCommitTyped
<1>. QED
  BY <1>1, <1>2, <1>3, <1>4, <1>5, <1>6, <1>7 DEF Step

LEMMA InitTyped == Init => TypeOK
<1>. SUFFICES ASSUME Init PROVE TypeOK
  OBVIOUS
<1>1. RowsTyped
  BY ConstantsOK DEF ConstantsOK, Init, RowsTyped
<1>2. SessionsTyped
  BY NoneTyped DEF Init, SessionsTyped
<1>. QED
  BY <1>1, <1>2 DEF TypeOK

LEMMA NextTyped == TypeOK /\ [Next]_vars => TypeOK'
<1>. SUFFICES ASSUME TypeOK, [Next]_vars PROVE TypeOK'
  OBVIOUS
<1>1. ASSUME NEW s \in Sessions, Start(s) PROVE TypeOK'
  BY <1>1, StartTyped
<1>2. ASSUME NEW s \in Sessions, Step(s) PROVE TypeOK'
  BY <1>2, StepTyped
<1>3. ASSUME NEW s \in Sessions, Fail(s) PROVE TypeOK'
  BY <1>3, RollbackTyped DEF Fail
<1>4. ASSUME NEW p \in PullRequests, CreatePull(p) PROVE TypeOK'
  BY <1>4 DEF CreatePull, TypeOK, RowsTyped, SessionsTyped
<1>5. CASE UNCHANGED vars
  BY <1>5 DEF vars, TypeOK, RowsTyped, SessionsTyped
<1>. QED
  BY <1>1, <1>2, <1>3, <1>4, <1>5 DEF Next

(***************************************************************************)
(* The rows and the sessions stay typed under every interleaving.          *)
(***************************************************************************)
THEOREM TypeCorrect == Spec => []TypeOK
BY InitTyped, NextTyped, PTL DEF Spec

-----------------------------------------------------------------------------
(***************************************************************************)
(* The inductive invariant.  The rows are safe only because every session  *)
(* still holds what it needs to write safe rows.                           *)
(***************************************************************************)
Safe == ViewsStayValid /\ HeadsStored /\ HistoryClosed

IInv == TypeOK /\ Safe

\* Commits are only added, so what is stored stays stored.
LEMMA StoredGrows ==
    ASSUME DOMAIN commits \subseteq DOMAIN commits'
    PROVE  Stored \subseteq Stored'
BY DEF Stored

LEMMA HeadOfStored ==
    ASSUME TypeOK, HeadsStored, NEW b \in Branches
    PROVE  HeadOf(b) \in Stored \cup {None}
<1>1. branches[b] \in Seq(Heads)
  BY DEF TypeOK, RowsTyped
<1>2. CASE branches[b] # <<>>
  <2>1. 1 \in DOMAIN branches[b]
    BY <1>1, <1>2
  <2>. QED
    BY <1>2, <2>1 DEF HeadOf, HeadsStored
<1>. QED
  BY <1>2 DEF HeadOf

(***************************************************************************)
(* What the other sessions hold stays valid when a session takes a step.   *)
(***************************************************************************)
LEMMA OthersStayValid ==
    ASSUME TypeOK, ViewsStayValid, DOMAIN commits \subseteq DOMAIN commits',
           NEW s \in Sessions, NEW to, NEW r, NEW v,
           pc' = [pc EXCEPT ![s] = to], req' = [req EXCEPT ![s] = r], view' = [view EXCEPT ![s] = v]
    PROVE  \A t \in Sessions \ {s} : ViewValid(t)'
<1>. SUFFICES ASSUME NEW t \in Sessions \ {s} PROVE ViewValid(t)'
  OBVIOUS
<1>1. pc'[t] = pc[t] /\ req'[t] = req[t] /\ view'[t] = view[t]
  BY DEF TypeOK, SessionsTyped
<1>2. ViewValid(t)
  BY DEF ViewsStayValid
<1>. QED
  BY <1>1, <1>2, StoredGrows DEF ViewValid

LEMMA FinishValid ==
    ASSUME TypeOK, ViewsStayValid, DOMAIN commits \subseteq DOMAIN commits',
           NEW s \in Sessions, NEW answer, Finish(s, answer)
    PROVE  ViewsStayValid'
<1>1. \A t \in Sessions \ {s} : ViewValid(t)'
  BY OthersStayValid DEF Finish
<1>2. pc'[s] = "idle" /\ req'[s] = NoRequest /\ view'[s] = NoView
  BY DEF Finish, TypeOK, SessionsTyped
<1>3. ViewValid(s)'
  BY <1>2 DEF ViewValid, NoRequest, NoView
<1>. QED
  BY <1>1, <1>3 DEF ViewsStayValid

LEMMA RowsUnchangedSafe ==
    ASSUME HeadsStored, HistoryClosed, UNCHANGED <<commits, branches>>
    PROVE  HeadsStored' /\ HistoryClosed'
BY DEF HeadsStored, HistoryClosed, Stored

LEMMA RollbackSafe ==
    ASSUME TypeOK, Safe, NEW s \in Sessions, NEW answer, Rollback(s, answer)
    PROVE  Safe'
BY FinishValid, RowsUnchangedSafe DEF Rollback, db, Safe

LEMMA AdvanceSafe ==
    ASSUME TypeOK, Safe, NEW s \in Sessions, NEW to, NEW v, Advance(s, to, v), ViewValid(s)'
    PROVE  Safe'
<1>1. req' = [req EXCEPT ![s] = req[s]]
  BY DEF Advance, TypeOK, SessionsTyped
<1>2. \A t \in Sessions \ {s} : ViewValid(t)'
  BY <1>1, OthersStayValid DEF Advance, Safe
<1>. QED
  BY <1>2, RowsUnchangedSafe DEF Advance, Safe, ViewsStayValid

LEMMA BeginSafe ==
    ASSUME TypeOK, Safe, NEW s \in Sessions, NEW to, NEW r, NEW v, Begin(s, r, to, v), ViewValid(s)'
    PROVE  Safe'
<1>1. \A t \in Sessions \ {s} : ViewValid(t)'
  BY OthersStayValid DEF Begin, db, Safe
<1>. QED
  BY <1>1, RowsUnchangedSafe DEF Begin, db, Safe, ViewsStayValid

(***************************************************************************)
(* Inserting commits whose parents are stored, and moving a head to a      *)
(* stored commit, keeps the rows safe.                                     *)
(***************************************************************************)
LEMMA PublishSafe ==
    ASSUME TypeOK, Safe, NEW s \in Sessions, NEW fresh \in SUBSET CommitIds, NEW parentsOf,
           NEW head \in Heads,
           InsertCommits(fresh, parentsOf), MoveHead(s, head),
           \A c \in fresh : parentsOf[c] \subseteq Heads,
           \A c \in fresh : parentsOf[c] \subseteq Stored',
           head \in Stored',
           Finish(s, "ok")
    PROVE  Safe'
<1>1. DOMAIN commits' = DOMAIN commits \cup fresh
  BY InsertCommitsTyped DEF TypeOK
<1>2. \A c \in DOMAIN commits' :
         commits'[c] = IF c \in DOMAIN commits THEN commits[c] ELSE parentsOf[c]
  BY InsertCommitsTyped DEF TypeOK
<1>3. Stored \subseteq Stored'
  BY <1>1, StoredGrows
<1>4. HistoryClosed'
  BY <1>1, <1>2, <1>3 DEF HistoryClosed, Safe
<1>5. HeadsStored'
  <2>1. \A b \in Branches : \A i \in DOMAIN branches'[b] :
           \/ branches'[b][i] = head
           \/ i \in DOMAIN branches[b] /\ branches'[b][i] = branches[b][i]
    BY MoveHeadRows
  <2>. QED
    BY <1>3, <2>1 DEF HeadsStored, Safe
<1>6. ViewsStayValid'
  BY <1>1, FinishValid DEF Safe
<1>. QED
  BY <1>4, <1>5, <1>6 DEF Safe

-----------------------------------------------------------------------------
(***************************************************************************)
(* Every action keeps the rows and the views safe.                         *)
(***************************************************************************)
LEMMA StartSafe ==
    ASSUME TypeOK, Safe, NEW s \in Sessions, Start(s)
    PROVE  Safe'
<1>0. pc \in [Sessions -> {"idle", "staged", "checked", "written",
                           "begun", "resolved", "filtered", "opened", "joined"}]
      /\ req \in [Sessions -> Request] /\ view \in [Sessions -> View]
  BY DEF TypeOK, SessionsTyped
<1>1. ASSUME NEW b \in Branches, NEW bundle \in Bundles, NEW force \in BOOLEAN,
             NEW tip \in Commits \cup {Empty}, WirePushStage(s, b, bundle, tip, force)
      PROVE  Safe'
  <2>. DEFINE r == [NoRequest EXCEPT !.kind = "wire", !.branch = b, !.bundle = bundle,
                                     !.tip = tip, !.force = force]
              v == [NoView EXCEPT !.fresh = bundle \ DOMAIN commits, !.default = defaultBranch]
  <2>1. Begin(s, r, "staged", v) /\ Delta(bundle) /\ tip \in bundle \cup {Empty}
    BY <1>1 DEF WirePushStage, TipsOf
  <2>2. r.bundle = bundle /\ r.tip = tip
    BY DEF NoRequest
  <2>3. v.fresh = bundle \ DOMAIN commits /\ v.seen = None /\ v.from = None
    BY DEF NoView
  <2>4. pc'[s] = "staged" /\ req'[s] = r /\ view'[s] = v /\ UNCHANGED commits
    BY <1>0, <2>1 DEF Begin, db
  <2>5. ViewValid(s)'
    <3>. HIDE DEF r, v
    <3>. QED
      BY <2>1, <2>2, <2>3, <2>4 DEF ViewValid, Delta
  <2>. QED
    BY <2>1, <2>5, BeginSafe
<1>2. ASSUME NEW b \in Branches, NEW bundle \in Bundles, NEW force \in BOOLEAN,
             NEW head \in bundle, IngestBegin(s, b, bundle, head, force)
      PROVE  Safe'
  <2>. DEFINE r == [NoRequest EXCEPT !.kind = "ingest", !.branch = b, !.bundle = bundle,
                                     !.tip = head, !.force = force]
  <2>1. Begin(s, r, "begun", NoView) /\ Delta(bundle)
    BY <1>2 DEF IngestBegin
  <2>2. r.bundle = bundle /\ r.tip = head
    BY DEF NoRequest
  <2>3. pc'[s] = "begun" /\ req'[s] = r /\ view'[s] = NoView /\ UNCHANGED commits
    BY <1>0, <2>1 DEF Begin, db
  <2>4. ViewValid(s)'
    <3>. HIDE DEF r
    <3>. QED
      BY <2>1, <2>2, <2>3 DEF ViewValid, Delta, NoView
  <2>. QED
    BY <2>1, <2>4, BeginSafe
<1>3. ASSUME NEW p \in PullRequests, MergeBegin(s, p)
      PROVE  Safe'
  <2>. DEFINE r == [NoRequest EXCEPT !.kind = "merge", !.branch = ToBranch[p], !.pull = p]
  <2>1. CASE Rollback(s, "conflict")
    BY <2>1, RollbackSafe
  <2>2. CASE Begin(s, r, "opened", NoView)
    <3>1. r.bundle = {} /\ r.tip = Empty
      BY DEF NoRequest
    <3>2. pc'[s] = "opened" /\ req'[s] = r /\ view'[s] = NoView
      BY <1>0, <2>2 DEF Begin
    <3>3. ViewValid(s)'
      <4>. HIDE DEF r
      <4>. QED
        BY <3>1, <3>2 DEF ViewValid, NoView
    <3>. QED
      BY <2>2, <3>3, BeginSafe
  <2>. QED
    BY <1>3, <2>1, <2>2 DEF MergeBegin
<1>. QED
  BY <1>1, <1>2, <1>3 DEF Start

(***************************************************************************)
(* Recording the head it saw keeps a session valid: heads are stored.      *)
(***************************************************************************)
LEMMA SeeHeadSafe ==
    ASSUME TypeOK, Safe, NEW s \in Sessions,
           NEW to \in {"checked", "resolved"},
           to = "checked" => pc[s] = "staged",
           Advance(s, to, [view[s] EXCEPT !.seen = HeadOf(req[s].branch)])
    PROVE  Safe'
<1>. DEFINE v == [view[s] EXCEPT !.seen = HeadOf(req[s].branch)]
<1>1. req[s] \in Request /\ view[s] \in View
  BY DEF TypeOK, SessionsTyped
<1>2. v.seen \in Stored \cup {None} /\ v.from = view[s].from /\ v.fresh = view[s].fresh
  BY <1>1, HeadOfStored DEF Request, View, Safe
<1>3. pc'[s] = to /\ req'[s] = req[s] /\ view'[s] = v /\ UNCHANGED commits
  BY DEF Advance, TypeOK, SessionsTyped
<1>4. ViewValid(s)
  BY DEF Safe, ViewsStayValid
<1>5. ViewValid(s)'
  <2>. HIDE DEF v
  <2>. QED
    BY <1>2, <1>3, <1>4 DEF ViewValid, Stored
<1>. QED
  BY <1>5, AdvanceSafe

LEMMA FlushSafe ==
    ASSUME TypeOK, Safe, NEW s \in Sessions, WirePushFlush(s)
    PROVE  Safe'
<1>. DEFINE v == [view[s] EXCEPT !.only = \A b \in Branches \ {req[s].branch} : branches[b] = <<>>]
<1>1. Advance(s, "written", v) /\ pc[s] = "checked"
  BY DEF WirePushFlush
<1>2. v.seen = view[s].seen /\ v.from = view[s].from /\ v.fresh = view[s].fresh
  BY DEF TypeOK, SessionsTyped, View
<1>3. pc'[s] = "written" /\ req'[s] = req[s] /\ view'[s] = v /\ UNCHANGED commits
  BY <1>1 DEF Advance, TypeOK, SessionsTyped
<1>4. ViewValid(s)
  BY DEF Safe, ViewsStayValid
<1>5. ViewValid(s)'
  <2>. HIDE DEF v
  <2>. QED
    BY <1>1, <1>2, <1>3, <1>4 DEF ViewValid, Stored
<1>. QED
  BY <1>1, <1>5, AdvanceSafe

LEMMA FilterSafe ==
    ASSUME TypeOK, Safe, NEW s \in Sessions, IngestFilter(s)
    PROVE  Safe'
<1>. DEFINE v == [view[s] EXCEPT !.fresh = req[s].bundle \ DOMAIN commits]
<1>1. Advance(s, "filtered", v)
  BY DEF IngestFilter
<1>2. v.seen = view[s].seen /\ v.from = view[s].from /\ v.fresh = req[s].bundle \ DOMAIN commits
  BY DEF TypeOK, SessionsTyped, View
<1>3. pc'[s] = "filtered" /\ req'[s] = req[s] /\ view'[s] = v /\ UNCHANGED commits
  BY <1>1 DEF Advance, TypeOK, SessionsTyped
<1>4. ViewValid(s)
  BY DEF Safe, ViewsStayValid
<1>5. ViewValid(s)'
  <2>. HIDE DEF v
  <2>. QED
    BY <1>2, <1>3, <1>4 DEF ViewValid, Stored
<1>. QED
  BY <1>1, <1>5, AdvanceSafe

(***************************************************************************)
(* A push that commits: its bundle is stored after the insertion, so the   *)
(* parents of the new commits and the new head are.                        *)
(***************************************************************************)
LEMMA PushSafe ==
    ASSUME TypeOK, Safe, NEW s \in Sessions, pc[s] \in {"written", "filtered"},
           NEW head \in {req[s].tip, NewHead(s)},
           InsertCommits(view[s].fresh, Parents), MoveHead(s, head), Finish(s, "ok")
    PROVE  Safe'
<1>1. view[s].fresh \subseteq Commits
  BY DEF TypeOK, SessionsTyped, View
<1>2. \A c \in view[s].fresh : Parents[c] \subseteq Heads
  BY <1>1, ConstantsOK DEF ConstantsOK, Heads, CommitIds
<1>3. view[s].fresh \in SUBSET CommitIds
  BY <1>1 DEF CommitIds
<1>4. DOMAIN commits' = DOMAIN commits \cup view[s].fresh
  BY <1>2, <1>3, InsertCommitsTyped DEF TypeOK
<1>5. ViewValid(s)
  BY DEF Safe, ViewsStayValid
<1>6. req[s].bundle \subseteq DOMAIN commits'
  BY <1>4, <1>5 DEF ViewValid
<1>7. \A c \in view[s].fresh : Parents[c] \subseteq Stored'
  BY <1>4, <1>5, <1>6 DEF ViewValid, Stored
<1>8. head \in Heads
  BY NewHeadTyped
<1>9. head \in Stored'
  <2>1. req[s].tip \in Stored'
    BY <1>5, <1>6 DEF ViewValid, Stored
  <2>2. view[s].seen # None => view[s].seen \in Stored'
    BY <1>4, <1>5, StoredGrows DEF ViewValid
  <2>. QED
    BY <2>1, <2>2 DEF NewHead
<1>. QED
  BY <1>2, <1>3, <1>7, <1>8, <1>9, PublishSafe

LEMMA MergeReadSafe ==
    ASSUME TypeOK, Safe, NEW s \in Sessions, MergeRead(s)
    PROVE  Safe'
<1>. DEFINE from == FromBranch[req[s].pull]
            to   == req[s].branch
            v    == [view[s] EXCEPT !.seen = HeadOf(to), !.from = HeadOf(from)]
<1>1. CASE Rollback(s, "failed")
  BY <1>1, RollbackSafe
<1>2. CASE pc[s] = "opened" /\ Advance(s, "joined", v)
  <2>1. req[s].pull \in PullRequests /\ to \in Branches
    BY <1>2 DEF TypeOK, SessionsTyped, Request
  <2>2. from \in Branches
    BY <2>1, ConstantsOK DEF ConstantsOK
  <2>3. HeadOf(to) \in Stored \cup {None} /\ HeadOf(from) \in Stored \cup {None}
    BY <2>1, <2>2, HeadOfStored DEF Safe
  <2>4. v.seen = HeadOf(to) /\ v.from = HeadOf(from) /\ v.fresh = view[s].fresh
    BY DEF TypeOK, SessionsTyped, View
  <2>5. pc'[s] = "joined" /\ req'[s] = req[s] /\ view'[s] = v /\ UNCHANGED commits
    BY <1>2 DEF Advance, TypeOK, SessionsTyped
  <2>6. ViewValid(s)
    BY DEF Safe, ViewsStayValid
  <2>7. ViewValid(s)'
    <3>. HIDE DEF v, from, to
    <3>. QED
      BY <2>3, <2>4, <2>5, <2>6 DEF ViewValid, Stored
  <2>. QED
    BY <1>2, <2>7, AdvanceSafe
<1>. QED
  BY <1>1, <1>2 DEF MergeRead

LEMMA MergeCommitSafe ==
    ASSUME TypeOK, Safe, NEW s \in Sessions, NEW m \in MergeIds, MergeCommit(s, m)
    PROVE  Safe'
<1>. DEFINE parents == [c \in {m} |-> MergeParents(s)]
<1>1. m \in Heads /\ {m} \in SUBSET CommitIds
  BY DEF Heads, CommitIds
<1>2. InsertCommits({m}, parents) /\ MoveHead(s, m) /\ Finish(s, "ok")
  BY DEF MergeCommit
<1>3. \A c \in {m} : parents[c] = MergeParents(s)
  OBVIOUS
<1>4. MergeParents(s) \subseteq Heads
  BY MergeParentsTyped
<1>. HIDE DEF parents
<1>5. DOMAIN commits' = DOMAIN commits \cup {m}
  BY <1>1, <1>2, <1>3, <1>4, InsertCommitsTyped DEF TypeOK
<1>6. MergeParents(s) \subseteq Stored'
  BY <1>5, StoredGrows DEF Safe, ViewsStayValid, ViewValid, MergeParents
<1>7. m \in Stored'
  BY <1>5 DEF Stored
<1>. QED
  BY <1>1, <1>2, <1>3, <1>4, <1>6, <1>7, PublishSafe

LEMMA StepSafe ==
    ASSUME TypeOK, Safe, NEW s \in Sessions, Step(s)
    PROVE  Safe'
<1>1. CASE WirePushDuplicate(s) \/ WirePushAmbiguous(s)
  BY <1>1, RollbackSafe DEF WirePushDuplicate, WirePushAmbiguous
<1>2. CASE WirePushCheck(s)
  BY <1>2, SeeHeadSafe, RollbackSafe DEF WirePushCheck
<1>3. CASE WirePushFlush(s)
  BY <1>3, FlushSafe
<1>4. CASE WirePushCommit(s)
  BY <1>4, PushSafe DEF WirePushCommit
<1>5. CASE IngestResolve(s)
  BY <1>5, SeeHeadSafe, RollbackSafe DEF IngestResolve
<1>6. CASE IngestFilter(s)
  BY <1>6, FilterSafe
<1>7. CASE IngestCommit(s)
  BY <1>7, PushSafe, RollbackSafe DEF IngestCommit
<1>8. CASE MergeRead(s)
  BY <1>8, MergeReadSafe
<1>9. CASE \E m \in MergeIds : MergeCommit(s, m)
  BY <1>9, MergeCommitSafe
<1>. QED
  BY <1>1, <1>2, <1>3, <1>4, <1>5, <1>6, <1>7, <1>8, <1>9 DEF Step

LEMMA InitSafe == Init => Safe
BY DEF Init, Safe, ViewsStayValid, ViewValid, HeadsStored, HistoryClosed, NoRequest, NoView

LEMMA NextSafe == IInv /\ [Next]_vars => IInv'
<1>. SUFFICES ASSUME TypeOK, Safe, [Next]_vars PROVE Safe'
  BY NextTyped DEF IInv
<1>1. ASSUME NEW s \in Sessions, Start(s) PROVE Safe'
  BY <1>1, StartSafe
<1>2. ASSUME NEW s \in Sessions, Step(s) PROVE Safe'
  BY <1>2, StepSafe
<1>3. ASSUME NEW s \in Sessions, Fail(s) PROVE Safe'
  BY <1>3, RollbackSafe DEF Fail
<1>4. ASSUME UNCHANGED <<commits, branches, pc, req, view>> PROVE Safe'
  BY <1>4, RowsUnchangedSafe DEF Safe, ViewsStayValid, ViewValid, Stored
<1>5. ASSUME NEW p \in PullRequests, CreatePull(p) PROVE Safe'
  BY <1>4, <1>5 DEF CreatePull
<1>6. CASE UNCHANGED vars
  BY <1>4, <1>6 DEF vars
<1>. QED
  BY <1>1, <1>2, <1>3, <1>5, <1>6 DEF Next

LEMMA Invariance == Spec => []IInv
<1>1. Init => IInv
  BY InitTyped, InitSafe DEF IInv
<1>. QED
  BY <1>1, NextSafe, PTL DEF Spec

-----------------------------------------------------------------------------
(***************************************************************************)
(* No interleaving and no failure leaves a branch head on a commit the     *)
(* repository does not have.                                               *)
(***************************************************************************)
THEOREM HeadsAlwaysStored == Spec => []HeadsStored
BY Invariance, PTL DEF IInv, Safe

(***************************************************************************)
(* The stored history is closed under parents.                             *)
(***************************************************************************)
THEOREM HistoryAlwaysClosed == Spec => []HistoryClosed
BY Invariance, PTL DEF IInv, Safe

(***************************************************************************)
(* What a transaction read stays usable until it commits.                  *)
(***************************************************************************)
THEOREM ViewsAlwaysValid == Spec => []ViewsStayValid
BY Invariance, PTL DEF IInv, Safe

-----------------------------------------------------------------------------
(***************************************************************************)
(* With one writer for each branch                                         *)
(*                                                                         *)
(* What follows holds only where no two sessions write to one branch: the  *)
(* runs refs_shared and lost_head show what happens elsewhere.  Bundles    *)
(* are those of clients that push one branch: some commits, on one of      *)
(* which all others are built; and no commit is its own ancestor, since    *)
(* its id is a hash of a content that names its parents.                   *)
(***************************************************************************)
OneWriterEach == \A s, t \in Sessions : s # t => Targets[s] \cap Targets[t] = {}

OneTipEach ==
    /\ \A bundle \in Bundles : IsFiniteSet(bundle) /\ \E tip : TipsOf(bundle) = {tip}
    /\ \E rank : \A c \in Commits :
          rank[c] \in Nat /\ \A p \in Parents[c] \cap Commits : rank[p] < rank[c]

\* What a push brings, as the history of its tip.
Pushed(r) == [c \in r.bundle |-> Parents[c]]
Ancestry(r) == Walk(Pushed(r), {r.tip})

\* A branch has one row with a commit as its head, commits keep the parents
\* they were made with, and the source of a pull request does not go away.
RowsRight ==
    /\ OneRowPerBranch
    /\ \A b \in Branches : \A i \in DOMAIN branches[b] : branches[b][i] # Empty
    /\ \A c \in DOMAIN commits \cap Commits : commits[c] = Parents[c]
    /\ IsFiniteSet(DOMAIN commits)
    /\ \A p \in PullRequests : pulls[p].state # "none" => branches[FromBranch[p]] # <<>>

\* A session works on a branch of its own, so that the head it read is still
\* the head, the test it passed still passes, and the pull request it merges
\* is still open.
SessionRight(s) ==
    LET r == req[s]
        v == view[s]
    IN  /\ pc[s] # "idle" => r.branch \in Targets[s]
        /\ pc[s] \in {"checked", "written", "resolved", "filtered", "joined"}
              => v.seen = HeadOf(r.branch)
        /\ pc[s] \in {"staged", "checked", "written", "begun", "resolved", "filtered"}
              => r.bundle \in Bundles /\ r.tip \in r.bundle
        /\ pc[s] \in {"staged", "checked", "written"} => r.tip \in TipsOf(r.bundle)
        /\ pc[s] \in {"checked", "written", "resolved", "filtered"}
              => r.force \/ v.seen = None \/ v.seen \in Ancestry(r)
        /\ pc[s] \in {"opened", "joined"}
              => /\ r.branch = ToBranch[r.pull] /\ r.bundle = {}
                 /\ pulls[r.pull].state = "open"
        /\ pc[s] = "joined" => v.from \in DOMAIN commits

WriterInv == IInv /\ RowsRight /\ \A s \in Sessions : SessionRight(s)

-----------------------------------------------------------------------------
(***************************************************************************)
(* The history of what a push brings: with the commits the push was        *)
(* checked on it holds all the wire test looks at, and it is part of the   *)
(* history of the tip in any graph that has the bundle.                    *)
(***************************************************************************)
LEMMA PushedGraph ==
    ASSUME NEW r, IsFiniteSet(r.bundle)
    PROVE  /\ DOMAIN Pushed(r) = r.bundle /\ IsFiniteSet(DOMAIN Pushed(r))
           /\ \A c \in r.bundle : Pushed(r)[c] = Parents[c]
           /\ r.tip \in Ancestry(r)
           /\ Closed(Pushed(r), Ancestry(r))
<1>1. DOMAIN Pushed(r) = r.bundle /\ \A c \in r.bundle : Pushed(r)[c] = Parents[c]
  BY DEF Pushed
<1>. QED
  BY <1>1, WalkIsHistory DEF Ancestry

LEMMA BundleFromTip ==
    ASSUME OneTipEach, NEW r, r.bundle \in Bundles, r.tip \in TipsOf(r.bundle)
    PROVE  /\ r.bundle \subseteq Ancestry(r)
           /\ \A h : SeenInBundle(h, r.bundle) => h \in Ancestry(r)
<1>1. /\ IsFiniteSet(r.bundle) /\ r.bundle \subseteq Commits
      /\ TipsOf(r.bundle) = {r.tip}
  BY ConstantsOK DEF OneTipEach, ConstantsOK
<1>2. PICK rank : \A c \in Commits :
         rank[c] \in Nat /\ \A p \in Parents[c] \cap Commits : rank[p] < rank[c]
  BY DEF OneTipEach
<1>3. /\ DOMAIN Pushed(r) = r.bundle /\ IsFiniteSet(DOMAIN Pushed(r))
      /\ \A c \in r.bundle : Pushed(r)[c] = Parents[c]
      /\ Closed(Pushed(r), Ancestry(r))
  BY <1>1, PushedGraph
<1>4. \A c \in DOMAIN Pushed(r) :
         rank[c] \in Nat /\ \A p \in Pushed(r)[c] \cap DOMAIN Pushed(r) : rank[p] < rank[c]
  BY <1>1, <1>2, <1>3
<1>5. {c \in DOMAIN Pushed(r) : \A d \in DOMAIN Pushed(r) : c \notin Pushed(r)[d]} = {r.tip}
  BY <1>1, <1>3 DEF TipsOf
<1>6. r.bundle \subseteq Ancestry(r)
  BY <1>3, <1>4, <1>5, OneTipHasAll DEF Ancestry
<1>. QED
  BY <1>3, <1>6 DEF SeenInBundle, Closed

LEMMA AncestryStored ==
    ASSUME NEW r, IsFiniteSet(r.bundle), NEW g, IsFiniteSet(DOMAIN g), r.bundle \subseteq DOMAIN g,
           \A c \in r.bundle : g[c] = Parents[c]
    PROVE  Ancestry(r) \subseteq Walk(g, {r.tip})
<1>1. {r.tip} \subseteq Walk(g, {r.tip})
  BY WalkIsHistory
<1>. QED
  BY <1>1, PushedGraph, WalkGrows DEF Ancestry

(***************************************************************************)
(* Where each branch has one row, a head that is still the one read is     *)
(* replaced, or inserted, as the only row.                                 *)
(***************************************************************************)
LEMMA HeadOfRow ==
    ASSUME TypeOK, OneRowPerBranch, NEW b \in Branches
    PROVE  \/ branches[b] = <<>> /\ HeadOf(b) = None
           \/ HeadOf(b) \in Heads /\ HeadOf(b) # None /\ branches[b] = <<HeadOf(b)>>
<1>1. branches[b] \in Seq(Heads) /\ Len(branches[b]) <= 1
  BY DEF TypeOK, RowsTyped, OneRowPerBranch
<1>2. None \notin Heads
  BY ConstantsOK DEF ConstantsOK, Heads, CommitIds
<1>3. CASE branches[b] = <<>>
  BY <1>3 DEF HeadOf
<1>4. CASE branches[b] # <<>>
  <2>0. PICK q \in Seq(Heads) : q = branches[b] /\ q # <<>> /\ Len(q) <= 1
    BY <1>1, <1>4
  <2>1. Len(q) = 1 /\ q[1] \in Heads
    <3>1. Len(q) \in Nat /\ Len(q) # 0
      BY <2>0, EmptySeq
    <3>2. \A n \in Nat : n <= 1 /\ n # 0 => n = 1
      OBVIOUS
    <3>3. Len(q) = 1
      BY <2>0, <3>1, <3>2, Zenon
    <3>. QED
      BY <2>0, <3>3
  <2>2. branches[b] = <<branches[b][1]>> /\ branches[b][1] \in Heads
    BY <2>0, <2>1
  <2>. QED
    BY <1>2, <1>4, <2>2 DEF HeadOf
<1>. QED
  BY <1>3, <1>4

LEMMA MoveHeadOne ==
    ASSUME TypeOK, OneRowPerBranch, NEW s \in Sessions, NEW head \in Heads,
           view[s].seen = HeadOf(req[s].branch), MoveHead(s, head)
    PROVE  branches' = [branches EXCEPT ![req[s].branch] = <<head>>]
<1>. DEFINE own == req[s].branch
<1>1. own \in Branches /\ branches \in [Branches -> Seq(Heads)]
  BY DEF TypeOK, RowsTyped, SessionsTyped, Request
<1>2. CASE branches[own] = <<>> /\ HeadOf(own) = None
  <2>1. branches' = [branches EXCEPT ![own] = Append(@, head)]
    BY <1>2 DEF MoveHead
  <2>2. Append(branches[own], head) = <<head>>
    BY <1>2
  <2>. QED
    BY <1>1, <2>1, <2>2
<1>3. CASE HeadOf(own) # None /\ branches[own] = <<HeadOf(own)>>
  <2>1. CASE HeadOf(own) = head
    <3>1. branches' = branches
      BY <1>3, <2>1 DEF MoveHead
    <3>. QED
      BY <1>1, <1>3, <2>1, <3>1
  <2>2. CASE HeadOf(own) # head
    <3>1. branches' = [branches EXCEPT ![own] = [branches[own] EXCEPT ![1] = head]]
      BY <1>1, <1>3, <2>2 DEF MoveHead
    <3>2. [<<HeadOf(own)>> EXCEPT ![1] = head] = <<head>>
      OBVIOUS
    <3>. QED
      BY <1>1, <1>3, <3>1, <3>2
  <2>. QED
    BY <2>1, <2>2
<1>. QED
  BY <1>1, <1>2, <1>3, HeadOfRow

-----------------------------------------------------------------------------
(***************************************************************************)
(* What holds of a session stays while the others leave its branch, its    *)
(* pull request and the stored commits alone.                              *)
(***************************************************************************)
LEMMA SessionStays ==
    ASSUME NEW t \in Sessions, SessionRight(t),
           pc'[t] = pc[t], req'[t] = req[t], view'[t] = view[t],
           DOMAIN commits \subseteq DOMAIN commits',
           pc[t] # "idle" => branches'[req[t].branch] = branches[req[t].branch],
           pc[t] \in {"opened", "joined"} => pulls'[req[t].pull] = pulls[req[t].pull]
    PROVE  SessionRight(t)'
<1>1. pc[t] # "idle" => HeadOf(req[t].branch)' = HeadOf(req[t].branch)
  BY DEF HeadOf
<1>2. Ancestry(req[t])' = Ancestry(req[t])
  BY DEF Ancestry, Pushed
<1>3. TipsOf(req[t].bundle)' = TipsOf(req[t].bundle)
  BY DEF TipsOf
<1>. QED
  BY <1>1, <1>2, <1>3 DEF SessionRight

\* The steps that change no row of a branch, a commit or a pull request.
Quiet == UNCHANGED <<commits, branches, pulls>>

LEMMA RowsStayRight == RowsRight /\ Quiet => RowsRight'
BY DEF RowsRight, OneRowPerBranch, Quiet

LEMMA QuietStepRight ==
    ASSUME WriterInv, IInv', NEW s \in Sessions, Quiet,
           \A t \in Sessions \ {s} : pc'[t] = pc[t] /\ req'[t] = req[t] /\ view'[t] = view[t],
           SessionRight(s)'
    PROVE  WriterInv'
<1>1. ASSUME NEW t \in Sessions, t # s PROVE SessionRight(t)'
  BY <1>1, SessionStays DEF WriterInv, Quiet
<1>. QED
  BY <1>1, RowsStayRight DEF WriterInv

LEMMA FinishRight ==
    ASSUME TypeOK, NEW s \in Sessions, NEW answer, Finish(s, answer)
    PROVE  /\ pc'[s] = "idle" /\ SessionRight(s)'
           /\ \A t \in Sessions \ {s} : pc'[t] = pc[t] /\ req'[t] = req[t] /\ view'[t] = view[t]
<1>1. /\ pc'[s] = "idle"
      /\ \A t \in Sessions \ {s} : pc'[t] = pc[t] /\ req'[t] = req[t] /\ view'[t] = view[t]
  BY DEF Finish, TypeOK, SessionsTyped
<1>. QED
  BY <1>1 DEF SessionRight

LEMMA RollbackRight ==
    ASSUME WriterInv, IInv', NEW s \in Sessions, NEW answer, Rollback(s, answer)
    PROVE  WriterInv'
<1>1. TypeOK /\ Quiet /\ Finish(s, answer)
  BY DEF WriterInv, IInv, Rollback, db, Quiet
<1>. QED
  BY <1>1, FinishRight, QuietStepRight

LEMMA AdvanceFacts ==
    ASSUME TypeOK, NEW s \in Sessions, NEW to, NEW v, Advance(s, to, v)
    PROVE  /\ Quiet /\ pc'[s] = to /\ req'[s] = req[s] /\ view'[s] = v
           /\ \A b : HeadOf(b)' = HeadOf(b)
           /\ \A t \in Sessions \ {s} : pc'[t] = pc[t] /\ req'[t] = req[t] /\ view'[t] = view[t]
BY DEF Advance, Quiet, TypeOK, SessionsTyped, HeadOf

LEMMA BeginFacts ==
    ASSUME TypeOK, NEW s \in Sessions, NEW r, NEW to, NEW v, Begin(s, r, to, v)
    PROVE  /\ Quiet /\ pc'[s] = to /\ req'[s] = r /\ view'[s] = v
           /\ \A t \in Sessions \ {s} : pc'[t] = pc[t] /\ req'[t] = req[t] /\ view'[t] = view[t]
BY DEF Begin, db, Quiet, TypeOK, SessionsTyped

(***************************************************************************)
(* The first step of a request: it goes to a branch of its session.        *)
(***************************************************************************)
LEMMA StageRight ==
    ASSUME WriterInv, IInv', OneTipEach, NEW s \in Sessions,
           NEW b \in Branches, NEW bundle \in Bundles, NEW force \in BOOLEAN,
           NEW tip \in Commits \cup {Empty}, WirePushStage(s, b, bundle, tip, force)
    PROVE  WriterInv'
<1>. DEFINE r == [NoRequest EXCEPT !.kind = "wire", !.branch = b, !.bundle = bundle,
                                   !.tip = tip, !.force = force]
            v == [NoView EXCEPT !.fresh = bundle \ DOMAIN commits, !.default = defaultBranch]
<1>1. bundle # {}
  BY DEF OneTipEach, TipsOf
<1>2. Begin(s, r, "staged", v) /\ b \in Targets[s] /\ tip \in TipsOf(bundle)
  BY <1>1 DEF WirePushStage
<1>3. r.branch = b /\ r.bundle = bundle /\ r.tip = tip
  BY DEF NoRequest
<1>. HIDE DEF r, v
<1>4. /\ Quiet /\ pc'[s] = "staged" /\ req'[s] = r
      /\ \A t \in Sessions \ {s} : pc'[t] = pc[t] /\ req'[t] = req[t] /\ view'[t] = view[t]
  BY <1>2, BeginFacts DEF WriterInv, IInv
<1>5. tip \in bundle /\ TipsOf(bundle)' = TipsOf(bundle)
  BY <1>2 DEF TipsOf
<1>6. SessionRight(s)'
  BY <1>2, <1>3, <1>4, <1>5 DEF SessionRight
<1>. QED
  BY <1>4, <1>6, QuietStepRight

LEMMA IngestBeginRight ==
    ASSUME WriterInv, IInv', NEW s \in Sessions,
           NEW b \in Branches, NEW bundle \in Bundles, NEW force \in BOOLEAN,
           NEW head \in bundle, IngestBegin(s, b, bundle, head, force)
    PROVE  WriterInv'
<1>. DEFINE r == [NoRequest EXCEPT !.kind = "ingest", !.branch = b, !.bundle = bundle,
                                   !.tip = head, !.force = force]
<1>1. Begin(s, r, "begun", NoView) /\ b \in Targets[s]
  BY DEF IngestBegin
<1>2. r.branch = b /\ r.bundle = bundle /\ r.tip = head
  BY DEF NoRequest
<1>. HIDE DEF r
<1>3. /\ Quiet /\ pc'[s] = "begun" /\ req'[s] = r
      /\ \A t \in Sessions \ {s} : pc'[t] = pc[t] /\ req'[t] = req[t] /\ view'[t] = view[t]
  BY <1>1, BeginFacts DEF WriterInv, IInv
<1>4. SessionRight(s)'
  BY <1>1, <1>2, <1>3 DEF SessionRight
<1>. QED
  BY <1>3, <1>4, QuietStepRight

LEMMA MergeBeginRight ==
    ASSUME WriterInv, IInv', NEW s \in Sessions, NEW p \in PullRequests, MergeBegin(s, p)
    PROVE  WriterInv'
<1>. DEFINE r == [NoRequest EXCEPT !.kind = "merge", !.branch = ToBranch[p], !.pull = p]
<1>1. CASE Rollback(s, "conflict")
  BY <1>1, RollbackRight
<1>2. CASE Begin(s, r, "opened", NoView) /\ pulls[p].state = "open"
  <2>1. r.branch = ToBranch[p] /\ r.pull = p /\ r.bundle = {} /\ ToBranch[p] \in Targets[s]
    BY DEF NoRequest, MergeBegin
  <2>. HIDE DEF r
  <2>2. /\ Quiet /\ pc'[s] = "opened" /\ req'[s] = r
        /\ \A t \in Sessions \ {s} : pc'[t] = pc[t] /\ req'[t] = req[t] /\ view'[t] = view[t]
    BY <1>2, BeginFacts DEF WriterInv, IInv
  <2>3. SessionRight(s)'
    BY <1>2, <2>1, <2>2 DEF SessionRight, Quiet
  <2>. QED
    BY <2>2, <2>3, QuietStepRight
<1>. QED
  BY <1>1, <1>2 DEF MergeBegin

(***************************************************************************)
(* A push reads the head of its branch, and passes the test on it.         *)
(***************************************************************************)
LEMMA CheckRight ==
    ASSUME WriterInv, IInv', OneTipEach, NEW s \in Sessions, WirePushCheck(s)
    PROVE  WriterInv'
<1>. DEFINE v == [view[s] EXCEPT !.seen = HeadOf(req[s].branch)]
<1>1. TypeOK /\ SessionRight(s) /\ pc[s] = "staged"
  BY DEF WriterInv, IInv, WirePushCheck
<1>2. CASE Rollback(s, "non_ff")
  BY <1>2, RollbackRight
<1>3. CASE FastForwardWire(s) /\ Advance(s, "checked", v)
  <2>1. v.seen = HeadOf(req[s].branch) /\ req[s].branch \in Branches
    BY <1>1 DEF TypeOK, SessionsTyped, View, Request
  <2>. HIDE DEF v
  <2>2. /\ Quiet /\ pc'[s] = "checked" /\ req'[s] = req[s] /\ view'[s] = v
        /\ \A b : HeadOf(b)' = HeadOf(b)
        /\ \A t \in Sessions \ {s} : pc'[t] = pc[t] /\ req'[t] = req[t] /\ view'[t] = view[t]
    BY <1>1, <1>3, AdvanceFacts
  <2>3. HeadOf(req[s].branch) # Empty
    <3>1. Empty # None
      BY ConstantsOK DEF ConstantsOK
    <3>. QED
      BY <2>1, <3>1 DEF WriterInv, RowsRight, HeadOf, TypeOK, RowsTyped, IInv
  <2>4. req[s].force \/ v.seen = None \/ v.seen \in Ancestry(req[s])
    BY <1>1, <1>3, <2>1, <2>3, BundleFromTip DEF FastForwardWire, SessionRight
  <2>5. Ancestry(req[s])' = Ancestry(req[s]) /\ TipsOf(req[s].bundle)' = TipsOf(req[s].bundle)
    BY <2>2 DEF Ancestry, Pushed, TipsOf
  <2>6. SessionRight(s)'
    BY <1>1, <2>1, <2>2, <2>4, <2>5 DEF SessionRight
  <2>. QED
    BY <2>2, <2>6, QuietStepRight
<1>. QED
  BY <1>2, <1>3 DEF WirePushCheck

LEMMA ResolveRight ==
    ASSUME WriterInv, IInv', OneTipEach, NEW s \in Sessions, IngestResolve(s)
    PROVE  WriterInv'
<1>. DEFINE v == [view[s] EXCEPT !.seen = HeadOf(req[s].branch)]
<1>1. TypeOK /\ SessionRight(s) /\ pc[s] = "begun"
  BY DEF WriterInv, IInv, IngestResolve
<1>2. CASE Rollback(s, "failed") \/ Rollback(s, "non_ff")
  BY <1>2, RollbackRight
<1>3. CASE FastForwardIngest(s) /\ Advance(s, "resolved", v)
  <2>1. v.seen = HeadOf(req[s].branch)
    BY <1>1 DEF TypeOK, SessionsTyped, View
  <2>. HIDE DEF v
  <2>2. /\ Quiet /\ pc'[s] = "resolved" /\ req'[s] = req[s] /\ view'[s] = v
        /\ \A b : HeadOf(b)' = HeadOf(b)
        /\ \A t \in Sessions \ {s} : pc'[t] = pc[t] /\ req'[t] = req[t] /\ view'[t] = view[t]
    BY <1>1, <1>3, AdvanceFacts
  <2>3. IsFiniteSet(req[s].bundle)
    BY <1>1 DEF SessionRight, OneTipEach
  <2>4. req[s].force \/ v.seen = None \/ v.seen \in Ancestry(req[s])
    BY <1>3, <2>1, <2>3, PushedGraph DEF FastForwardIngest, Ancestry, Pushed
  <2>5. Ancestry(req[s])' = Ancestry(req[s])
    BY <2>2 DEF Ancestry, Pushed
  <2>6. SessionRight(s)'
    BY <1>1, <2>1, <2>2, <2>4, <2>5 DEF SessionRight
  <2>. QED
    BY <2>2, <2>6, QuietStepRight
<1>. QED
  BY <1>2, <1>3 DEF IngestResolve

LEMMA LaterReadRight ==
    ASSUME WriterInv, IInv', NEW s \in Sessions, WirePushFlush(s) \/ IngestFilter(s)
    PROVE  WriterInv'
<1>1. TypeOK /\ SessionRight(s)
  BY DEF WriterInv, IInv
<1>2. PICK to, v : /\ Advance(s, to, v) /\ v.seen = view[s].seen
                   /\ \/ pc[s] = "checked" /\ to = "written"
                      \/ pc[s] = "resolved" /\ to = "filtered"
  <2>1. CASE WirePushFlush(s)
    <3>. DEFINE v == [view[s] EXCEPT !.only = \A b \in Branches \ {req[s].branch} : branches[b] = <<>>]
    <3>1. v.seen = view[s].seen
      BY <1>1 DEF TypeOK, SessionsTyped, View
    <3>2. Advance(s, "written", v) /\ pc[s] = "checked"
      BY <2>1 DEF WirePushFlush
    <3>. HIDE DEF v
    <3>. QED
      BY <3>1, <3>2
  <2>2. CASE IngestFilter(s)
    <3>. DEFINE v == [view[s] EXCEPT !.fresh = req[s].bundle \ DOMAIN commits]
    <3>1. v.seen = view[s].seen
      BY <1>1 DEF TypeOK, SessionsTyped, View
    <3>2. Advance(s, "filtered", v) /\ pc[s] = "resolved"
      BY <2>2 DEF IngestFilter
    <3>. HIDE DEF v
    <3>. QED
      BY <3>1, <3>2
  <2>. QED
    BY <2>1, <2>2
<1>3. /\ Quiet /\ pc'[s] = to /\ req'[s] = req[s] /\ view'[s] = v
      /\ \A b : HeadOf(b)' = HeadOf(b)
      /\ \A t \in Sessions \ {s} : pc'[t] = pc[t] /\ req'[t] = req[t] /\ view'[t] = view[t]
  BY <1>1, <1>2, AdvanceFacts
<1>4. Ancestry(req[s])' = Ancestry(req[s]) /\ TipsOf(req[s].bundle)' = TipsOf(req[s].bundle)
  BY <1>3 DEF Ancestry, Pushed, TipsOf
<1>5. SessionRight(s)'
  BY <1>1, <1>2, <1>3, <1>4 DEF SessionRight
<1>. QED
  BY <1>3, <1>5, QuietStepRight

(***************************************************************************)
(* A merge reads two heads; the source of an open pull request has one.    *)
(***************************************************************************)
LEMMA MergeReadRight ==
    ASSUME WriterInv, IInv', NEW s \in Sessions, MergeRead(s)
    PROVE  WriterInv'
<1>. DEFINE from == FromBranch[req[s].pull]
            to   == req[s].branch
            v    == [view[s] EXCEPT !.seen = HeadOf(to), !.from = HeadOf(from)]
<1>1. TypeOK /\ SessionRight(s) /\ pc[s] = "opened"
  BY DEF WriterInv, IInv, MergeRead
<1>2. CASE Rollback(s, "failed")
  BY <1>2, RollbackRight
<1>3. CASE Advance(s, "joined", v)
  <2>1. v.seen = HeadOf(to) /\ v.from = HeadOf(from)
    BY <1>1 DEF TypeOK, SessionsTyped, View
  <2>2. req[s].pull \in PullRequests /\ from \in Branches
    BY <1>1, ConstantsOK DEF TypeOK, SessionsTyped, ConstantsOK
  <2>3. HeadOf(from) \in DOMAIN commits
    <3>1. branches[from] # <<>>
      BY <1>1, <2>2 DEF SessionRight, WriterInv, RowsRight
    <3>2. branches[from] = <<HeadOf(from)>>
      BY <1>1, <2>2, <3>1, HeadOfRow DEF WriterInv, RowsRight
    <3>3. 1 \in DOMAIN branches[from] /\ branches[from][1] = HeadOf(from)
      BY <3>2
    <3>. QED
      BY <2>2, <3>3 DEF WriterInv, RowsRight, IInv, Safe, HeadsStored, Stored
  <2>. HIDE DEF v, from, to
  <2>4. /\ Quiet /\ pc'[s] = "joined" /\ req'[s] = req[s] /\ view'[s] = v
        /\ \A b : HeadOf(b)' = HeadOf(b)
        /\ \A t \in Sessions \ {s} : pc'[t] = pc[t] /\ req'[t] = req[t] /\ view'[t] = view[t]
    BY <1>1, <1>3, AdvanceFacts
  <2>5. SessionRight(s)'
    BY <1>1, <2>1, <2>3, <2>4 DEF SessionRight, Quiet, to
  <2>. QED
    BY <2>4, <2>5, QuietStepRight
<1>. QED
  BY <1>2, <1>3 DEF MergeRead

-----------------------------------------------------------------------------
(***************************************************************************)
(* The steps that change rows of branches and commits: a push commits its  *)
(* bundle, a merge its merge commit, and each becomes the head.            *)
(***************************************************************************)
Insertion(fresh, parentsOf) ==
    [c \in DOMAIN commits \cup fresh |-> IF c \in DOMAIN commits THEN commits[c] ELSE parentsOf[c]]

PushStep(s) ==
    /\ pc[s] \in {"written", "filtered"}
    /\ commits' = Insertion(req[s].bundle, Parents)
    /\ branches' = [branches EXCEPT ![req[s].branch] = <<req[s].tip>>]
    /\ UNCHANGED pulls
    /\ Finish(s, "ok")

MergeStep(s, m) ==
    /\ pc[s] = "joined"
    /\ m \in MergeIds \ DOMAIN commits
    /\ commits' = Insertion({m}, [c \in {m} |-> MergeParents(s)])
    /\ branches' = [branches EXCEPT ![req[s].branch] = <<m>>]
    /\ pulls' = [pulls EXCEPT ![req[s].pull] = [state |-> "merged", merge |-> m]]
    /\ Finish(s, "ok")

LEMMA PushCommitStep ==
    ASSUME WriterInv, NEW s \in Sessions, pc[s] \in {"written", "filtered"},
           InsertCommits(view[s].fresh, Parents), MoveHead(s, req[s].tip),
           UNCHANGED pulls, Finish(s, "ok")
    PROVE  PushStep(s)
<1>1. TypeOK /\ OneRowPerBranch /\ SessionRight(s) /\ ViewValid(s)
  BY DEF WriterInv, RowsRight, IInv, Safe, ViewsStayValid
<1>2. DOMAIN commits \cup view[s].fresh = DOMAIN commits \cup req[s].bundle
  BY <1>1 DEF ViewValid
<1>3. commits' = Insertion(req[s].bundle, Parents)
  BY <1>2 DEF InsertCommits, Insertion
<1>4. req[s].tip \in Heads
  BY <1>1, NewHeadTyped
<1>5. branches' = [branches EXCEPT ![req[s].branch] = <<req[s].tip>>]
  BY <1>1, <1>4, MoveHeadOne DEF SessionRight
<1>. QED
  BY <1>3, <1>5 DEF PushStep

LEMMA WirePushCommitStep ==
    ASSUME WriterInv, NEW s \in Sessions, WirePushCommit(s)
    PROVE  PushStep(s)
<1>1. NewHead(s) = req[s].tip
  BY DEF WriterInv, SessionRight, WirePushCommit, NewHead
<1>. QED
  BY <1>1, PushCommitStep DEF WirePushCommit

LEMMA MergeCommitStep ==
    ASSUME WriterInv, NEW s \in Sessions, NEW m \in MergeIds, MergeCommit(s, m)
    PROVE  MergeStep(s, m)
<1>1. TypeOK /\ OneRowPerBranch /\ SessionRight(s) /\ m \in Heads
  BY DEF WriterInv, RowsRight, IInv, Heads, CommitIds
<1>2. branches' = [branches EXCEPT ![req[s].branch] = <<m>>]
  BY <1>1, MoveHeadOne DEF MergeCommit, SessionRight
<1>. QED
  BY <1>2 DEF MergeCommit, MergeStep, InsertCommits, Insertion

(***************************************************************************)
(* Both leave the branches and the pull requests of other writers alone,   *)
(* and the rows right.                                                     *)
(***************************************************************************)
LEMMA OwnBranchStepRight ==
    ASSUME WriterInv, IInv', OneWriterEach, NEW s \in Sessions, NEW head, NEW answer,
           pc[s] # "idle", head # Empty, Finish(s, answer), RowsRight',
           DOMAIN commits \subseteq DOMAIN commits',
           branches' = [branches EXCEPT ![req[s].branch] = <<head>>],
           \A p \in PullRequests : ToBranch[p] # req[s].branch => pulls'[p] = pulls[p]
    PROVE  WriterInv'
<1>1. TypeOK
  BY DEF WriterInv, IInv
<1>2. /\ SessionRight(s)'
      /\ \A t \in Sessions \ {s} : pc'[t] = pc[t] /\ req'[t] = req[t] /\ view'[t] = view[t]
  BY <1>1, FinishRight
<1>3. ASSUME NEW t \in Sessions, t # s PROVE SessionRight(t)'
  <2>1. SessionRight(t)
    BY DEF WriterInv
  <2>2. pc[t] # "idle" => req[t].branch # req[s].branch
    BY <1>3, <2>1 DEF OneWriterEach, SessionRight, WriterInv
  <2>3. pc[t] # "idle" => branches'[req[t].branch] = branches[req[t].branch]
    BY <1>1, <2>2 DEF TypeOK, RowsTyped, SessionsTyped, Request
  <2>4. pc[t] \in {"opened", "joined"} => pulls'[req[t].pull] = pulls[req[t].pull]
    BY <1>1, <2>1, <2>2 DEF TypeOK, SessionsTyped, SessionRight
  <2>. QED
    BY <1>2, <1>3, <2>1, <2>3, <2>4, SessionStays
<1>. QED
  BY <1>2, <1>3 DEF WriterInv

LEMMA InsertionFacts ==
    ASSUME NEW fresh, NEW parentsOf, commits' = Insertion(fresh, parentsOf)
    PROVE  /\ DOMAIN commits' = DOMAIN commits \cup fresh
           /\ \A c \in DOMAIN commits : commits'[c] = commits[c]
           /\ \A c \in fresh \ DOMAIN commits : commits'[c] = parentsOf[c]
BY DEF Insertion

LEMMA HeadStepRowsRight ==
    ASSUME WriterInv, NEW b \in Branches, NEW head, head # Empty,
           branches' = [branches EXCEPT ![b] = <<head>>],
           NEW fresh, NEW parentsOf, IsFiniteSet(fresh),
           commits' = Insertion(fresh, parentsOf),
           \A c \in fresh \cap Commits : parentsOf[c] = Parents[c],
           \A p \in PullRequests : pulls'[p].state # "none" => pulls[p].state # "none"
    PROVE  RowsRight'
<1>1. branches \in [Branches -> Seq(Heads)]
  BY DEF WriterInv, IInv, TypeOK, RowsTyped
<1>2. Len(<<head>>) = 1 /\ DOMAIN <<head>> = {1} /\ <<head>>[1] = head /\ <<head>> # <<>>
  OBVIOUS
<1>3. OneRowPerBranch'
  <2>1. \A x \in Branches \ {b} : branches'[x] = branches[x]
    BY <1>1
  <2>2. branches'[b] = <<head>>
    BY <1>1
  <2>3. Len(branches'[b]) <= 1
    <3>1. 1 <= 1
      OBVIOUS
    <3>. QED
      BY <1>2, <2>2, <3>1, Zenon
  <2>. QED
    BY <2>1, <2>3 DEF OneRowPerBranch, WriterInv, RowsRight
<1>4. \A x \in Branches : \A i \in DOMAIN branches'[x] : branches'[x][i] # Empty
  BY <1>1, <1>2 DEF WriterInv, RowsRight
<1>8. /\ DOMAIN commits' = DOMAIN commits \cup fresh
      /\ \A c \in DOMAIN commits : commits'[c] = commits[c]
      /\ \A c \in fresh \ DOMAIN commits : commits'[c] = parentsOf[c]
  BY InsertionFacts, Zenon
<1>5. \A c \in DOMAIN commits' \cap Commits : commits'[c] = Parents[c]
  BY <1>8 DEF WriterInv, RowsRight
<1>6. IsFiniteSet(DOMAIN commits')
  <2>1. IsFiniteSet(DOMAIN commits)
    BY DEF WriterInv, RowsRight
  <2>2. PICK old : old = DOMAIN commits
    OBVIOUS
  <2>3. IsFiniteSet(old \cup fresh)
    BY <2>1, <2>2, FS_Union
  <2>. QED
    BY <1>8, <2>2, <2>3
<1>7. \A p \in PullRequests : pulls'[p].state # "none" => branches'[FromBranch[p]] # <<>>
  BY <1>1, <1>2, ConstantsOK DEF WriterInv, RowsRight, ConstantsOK
<1>. QED
  BY <1>3, <1>4, <1>5, <1>6, <1>7 DEF RowsRight

LEMMA PushStepRight ==
    ASSUME WriterInv, IInv', OneWriterEach, OneTipEach, NEW s \in Sessions, PushStep(s)
    PROVE  WriterInv'
<1>1. TypeOK /\ SessionRight(s) /\ req[s].branch \in Branches
  BY DEF WriterInv, IInv, TypeOK, SessionsTyped, Request
<1>2. /\ req[s].bundle \in Bundles /\ req[s].tip \in req[s].bundle
      /\ IsFiniteSet(req[s].bundle) /\ req[s].tip # Empty
  BY <1>1, ConstantsOK DEF SessionRight, PushStep, OneTipEach, ConstantsOK
<1>3. RowsRight'
  BY <1>1, <1>2, HeadStepRowsRight DEF PushStep
<1>. QED
  BY <1>1, <1>2, <1>3, OwnBranchStepRight, InsertionFacts DEF PushStep

LEMMA MergeStepRight ==
    ASSUME WriterInv, IInv', OneWriterEach, NEW s \in Sessions, NEW m \in MergeIds, MergeStep(s, m)
    PROVE  WriterInv'
<1>1. TypeOK /\ SessionRight(s) /\ req[s].branch \in Branches /\ req[s].pull \in PullRequests
  BY DEF WriterInv, IInv, TypeOK, SessionsTyped, Request, MergeStep
<1>2. m # Empty /\ {m} \cap Commits = {} /\ IsFiniteSet({m})
  <2>1. IsFiniteSet({m})
    BY FS_Singleton
  <2>. QED
    BY <2>1, ConstantsOK DEF ConstantsOK
<1>3. /\ \A p \in PullRequests : p # req[s].pull => pulls'[p] = pulls[p]
      /\ req[s].branch = ToBranch[req[s].pull] /\ pulls[req[s].pull].state = "open"
  BY <1>1 DEF MergeStep, TypeOK, RowsTyped, SessionRight
<1>4. RowsRight'
  BY <1>1, <1>2, <1>3, HeadStepRowsRight DEF MergeStep
<1>. QED
  BY <1>1, <1>2, <1>3, <1>4, OwnBranchStepRight, InsertionFacts DEF MergeStep

LEMMA CreatePullRight ==
    ASSUME WriterInv, IInv', NEW p \in PullRequests, CreatePull(p)
    PROVE  WriterInv'
<1>1. /\ pulls \in [PullRequests -> [state : {"none", "open", "merged"}, merge : MergeIds \cup {None}]]
      /\ pulls[p].state = "none" /\ branches[FromBranch[p]] # <<>>
      /\ \A x \in PullRequests : x # p => pulls'[x] = pulls[x]
      /\ UNCHANGED <<commits, branches, pc, req, view>>
  <2>1. branches[FromBranch[p]] # <<>>
    <3>1. Len(<<>>) # 1 /\ Len(branches[FromBranch[p]]) = 1
      BY DEF CreatePull
    <3>. QED
      BY <3>1, Zenon
  <2>. QED
    BY <2>1 DEF WriterInv, IInv, TypeOK, RowsTyped, CreatePull
<1>2. RowsRight'
  BY <1>1 DEF WriterInv, RowsRight, OneRowPerBranch
<1>3. ASSUME NEW t \in Sessions PROVE SessionRight(t)'
  <2>1. SessionRight(t) /\ TypeOK
    BY DEF WriterInv, IInv
  <2>2. pc[t] \in {"opened", "joined"} => pulls'[req[t].pull] = pulls[req[t].pull]
    BY <1>1, <2>1 DEF SessionRight, TypeOK, SessionsTyped
  <2>. QED
    BY <1>1, <2>1, <2>2, SessionStays
<1>. QED
  BY <1>2, <1>3 DEF WriterInv

(***************************************************************************)
(* Every step publishes a push or a merge, or moves no head and answers    *)
(* nobody ok.                                                              *)
(***************************************************************************)
RestStep ==
    /\ UNCHANGED <<commits, branches>>
    /\ \A p \in PullRequests : pulls[p].state = "merged" => pulls'[p] = pulls[p]
    /\ \A s \in Sessions : ~AnsweredOk(s)

StepShape ==
    \/ RestStep
    \/ \E s \in Sessions : PushStep(s)
    \/ \E s \in Sessions, m \in MergeIds : MergeStep(s, m)

LEMMA RollbackRests ==
    ASSUME TypeOK, NEW s \in Sessions, NEW answer, answer # "ok", Rollback(s, answer)
    PROVE  RestStep
BY DEF RestStep, Rollback, db, Finish, AnsweredOk, Working, TypeOK, SessionsTyped

LEMMA AdvanceRests ==
    ASSUME TypeOK, NEW s \in Sessions, NEW to, NEW v, to # "idle", Advance(s, to, v)
    PROVE  RestStep
BY DEF RestStep, Advance, AnsweredOk, Working, TypeOK, SessionsTyped

LEMMA BeginRests ==
    ASSUME TypeOK, NEW s \in Sessions, NEW to, NEW r, NEW v, to # "idle", Begin(s, r, to, v)
    PROVE  RestStep
BY DEF RestStep, Begin, db, AnsweredOk, Working, TypeOK, SessionsTyped

LEMMA StartRests ==
    ASSUME TypeOK, NEW s \in Sessions, Start(s)
    PROVE  RestStep
<1>1. ASSUME NEW b, NEW bundle, NEW force, NEW tip, WirePushStage(s, b, bundle, tip, force)
      PROVE  RestStep
  BY <1>1, BeginRests DEF WirePushStage
<1>2. ASSUME NEW b, NEW bundle, NEW force, NEW head, IngestBegin(s, b, bundle, head, force)
      PROVE  RestStep
  BY <1>2, BeginRests DEF IngestBegin
<1>3. ASSUME NEW p, MergeBegin(s, p)
      PROVE  RestStep
  BY <1>3, BeginRests, RollbackRests DEF MergeBegin
<1>. QED
  BY <1>1, <1>2, <1>3 DEF Start

LEMMA StepShaped ==
    ASSUME WriterInv, NEW s \in Sessions, Step(s)
    PROVE  StepShape
<1>0. TypeOK
  BY DEF WriterInv, IInv
<1>1. CASE WirePushDuplicate(s) \/ WirePushAmbiguous(s)
  BY <1>0, <1>1, RollbackRests DEF WirePushDuplicate, WirePushAmbiguous, StepShape
<1>2. CASE WirePushCheck(s)
  BY <1>0, <1>2, RollbackRests, AdvanceRests DEF WirePushCheck, StepShape
<1>3. CASE WirePushFlush(s)
  BY <1>0, <1>3, AdvanceRests DEF WirePushFlush, StepShape
<1>4. CASE WirePushCommit(s)
  BY <1>4, WirePushCommitStep DEF StepShape
<1>5. CASE IngestResolve(s)
  BY <1>0, <1>5, RollbackRests, AdvanceRests DEF IngestResolve, StepShape
<1>6. CASE IngestFilter(s)
  BY <1>0, <1>6, AdvanceRests DEF IngestFilter, StepShape
<1>7. CASE IngestCommit(s)
  BY <1>0, <1>7, RollbackRests, PushCommitStep DEF IngestCommit, StepShape
<1>8. CASE MergeRead(s)
  BY <1>0, <1>8, RollbackRests, AdvanceRests DEF MergeRead, StepShape
<1>9. CASE \E m \in MergeIds : MergeCommit(s, m)
  BY <1>9, MergeCommitStep DEF StepShape
<1>. QED
  BY <1>1, <1>2, <1>3, <1>4, <1>5, <1>6, <1>7, <1>8, <1>9 DEF Step

LEMMA NextShaped == WriterInv /\ [Next]_vars => StepShape
<1>. SUFFICES ASSUME WriterInv, [Next]_vars PROVE StepShape
  OBVIOUS
<1>0. TypeOK
  BY DEF WriterInv, IInv
<1>1. ASSUME NEW s \in Sessions, Start(s) \/ Fail(s) PROVE StepShape
  BY <1>0, <1>1, StartRests, RollbackRests DEF Fail, StepShape
<1>2. ASSUME NEW s \in Sessions, Step(s) PROVE StepShape
  BY <1>2, StepShaped
<1>3. ASSUME NEW p \in PullRequests, CreatePull(p) PROVE StepShape
  BY <1>0, <1>3 DEF CreatePull, StepShape, RestStep, AnsweredOk, Working, TypeOK, RowsTyped
<1>4. CASE UNCHANGED vars
  BY <1>4 DEF vars, StepShape, RestStep, AnsweredOk, Working
<1>. QED
  BY <1>1, <1>2, <1>3, <1>4 DEF Next

(***************************************************************************)
(* The invariant of one writer for each branch.                            *)
(***************************************************************************)
LEMMA StepRight ==
    ASSUME WriterInv, IInv', OneWriterEach, OneTipEach, NEW s \in Sessions, Step(s)
    PROVE  WriterInv'
<1>1. CASE WirePushDuplicate(s) \/ WirePushAmbiguous(s)
  BY <1>1, RollbackRight DEF WirePushDuplicate, WirePushAmbiguous
<1>2. CASE WirePushCommit(s)
  BY <1>2, WirePushCommitStep, PushStepRight
<1>3. CASE IngestCommit(s)
  BY <1>3, RollbackRight, PushCommitStep, PushStepRight DEF IngestCommit
<1>4. CASE \E m \in MergeIds : MergeCommit(s, m)
  BY <1>4, MergeCommitStep, MergeStepRight
<1>. QED
  BY <1>1, <1>2, <1>3, <1>4, CheckRight, LaterReadRight, ResolveRight, MergeReadRight DEF Step

LEMMA NextWriters ==
    ASSUME OneWriterEach, OneTipEach
    PROVE  WriterInv /\ [Next]_vars => WriterInv'
<1>. SUFFICES ASSUME WriterInv, [Next]_vars PROVE WriterInv'
  OBVIOUS
<1>0. IInv'
  BY NextSafe DEF WriterInv
<1>1. ASSUME NEW s \in Sessions, Start(s) PROVE WriterInv'
  BY <1>0, <1>1, StageRight, IngestBeginRight, MergeBeginRight DEF Start
<1>2. ASSUME NEW s \in Sessions, Step(s) PROVE WriterInv'
  BY <1>0, <1>2, StepRight
<1>3. ASSUME NEW s \in Sessions, Fail(s) PROVE WriterInv'
  BY <1>0, <1>3, RollbackRight DEF Fail
<1>4. ASSUME NEW p \in PullRequests, CreatePull(p) PROVE WriterInv'
  BY <1>0, <1>4, CreatePullRight
<1>5. CASE UNCHANGED vars
  <2>1. RowsRight'
    BY <1>5, RowsStayRight DEF vars, Quiet, WriterInv
  <2>2. \A s \in Sessions : SessionRight(s)'
    BY <1>5, SessionStays DEF vars, WriterInv
  <2>. QED
    BY <1>0, <2>1, <2>2 DEF WriterInv
<1>. QED
  BY <1>1, <1>2, <1>3, <1>4, <1>5 DEF Next

LEMMA InitWriters == Init => WriterInv
<1>. SUFFICES ASSUME Init PROVE WriterInv
  OBVIOUS
<1>1. IInv
  BY InitTyped, InitSafe DEF IInv
<1>2. DOMAIN commits = {} /\ IsFiniteSet({})
  BY FS_EmptySet DEF Init
<1>3. OneRowPerBranch
  <2>1. 0 <= 1 /\ Len(<<>>) = 0
    OBVIOUS
  <2>2. \A b \in Branches : branches[b] = <<>>
    BY DEF Init
  <2>. QED
    BY <2>1, <2>2, Zenon DEF OneRowPerBranch
<1>4. RowsRight
  BY <1>2, <1>3 DEF RowsRight, Init
<1>5. \A s \in Sessions : SessionRight(s)
  BY DEF SessionRight, Init
<1>. QED
  BY <1>1, <1>4, <1>5 DEF WriterInv

LEMMA WriterInvariance ==
    ASSUME OneWriterEach, OneTipEach
    PROVE  Spec => []WriterInv
BY InitWriters, NextWriters, PTL DEF Spec

-----------------------------------------------------------------------------
(***************************************************************************)
(* What follows for the callers.  The head of the branch a step writes is  *)
(* the commit it brings, and all other heads stay.                         *)
(***************************************************************************)
LEMMA HeadAfter ==
    ASSUME TypeOK, NEW b \in Branches, NEW head, branches' = [branches EXCEPT ![b] = <<head>>]
    PROVE  HeadOf(b)' = head /\ \A x \in Branches \ {b} : HeadOf(x)' = HeadOf(x)
<1>1. branches \in [Branches -> Seq(Heads)] /\ <<head>> # <<>> /\ <<head>>[1] = head
  BY DEF TypeOK, RowsTyped
<1>. QED
  BY <1>1 DEF HeadOf

LEMMA PushFacts ==
    ASSUME WriterInv, WriterInv', OneTipEach, NEW s \in Sessions, PushStep(s),
           NEW b, b = req[s].branch
    PROVE  /\ b \in Branches /\ req[s].bundle \in Bundles
           /\ req[s].tip \in req[s].bundle /\ IsFiniteSet(req[s].bundle)
           /\ HeadOf(b)' = req[s].tip
           /\ Ancestry(req[s]) \subseteq Walk(commits', {req[s].tip})
           /\ req[s].force \/ HeadOf(b) = None \/ HeadOf(b) \in Ancestry(req[s])
<1>1. TypeOK /\ SessionRight(s) /\ b \in Branches
  BY DEF WriterInv, IInv, TypeOK, SessionsTyped, Request
<1>2. /\ req[s].bundle \in Bundles /\ req[s].tip \in req[s].bundle
      /\ IsFiniteSet(req[s].bundle) /\ req[s].bundle \subseteq Commits
  BY <1>1, ConstantsOK DEF SessionRight, PushStep, OneTipEach, ConstantsOK
<1>3. req[s].bundle \subseteq DOMAIN commits'
  BY InsertionFacts DEF PushStep
<1>4. IsFiniteSet(DOMAIN commits') /\ \A c \in DOMAIN commits' \cap Commits : commits'[c] = Parents[c]
  BY DEF WriterInv, RowsRight
<1>5. Ancestry(req[s]) \subseteq Walk(commits', {req[s].tip})
  BY <1>2, <1>3, <1>4, AncestryStored
<1>6. HeadOf(b)' = req[s].tip
  BY <1>1, HeadAfter DEF PushStep
<1>7. req[s].force \/ HeadOf(b) = None \/ HeadOf(b) \in Ancestry(req[s])
  BY <1>1 DEF PushStep, SessionRight
<1>. QED
  BY <1>1, <1>2, <1>5, <1>6, <1>7

LEMMA MergeFacts ==
    ASSUME WriterInv, WriterInv', NEW s \in Sessions, NEW m \in MergeIds, MergeStep(s, m),
           NEW b, b = req[s].branch
    PROVE  /\ b \in Branches /\ req[s].pull \in PullRequests
           /\ pulls[req[s].pull].state = "open"
           /\ HeadOf(b)' = m
           /\ view[s].seen = HeadOf(b) /\ view[s].from \in DOMAIN commits
           /\ MergeParents(s) \subseteq Walk(commits', {m})
<1>1. TypeOK /\ SessionRight(s) /\ b \in Branches /\ req[s].pull \in PullRequests
  BY DEF WriterInv, IInv, TypeOK, SessionsTyped, Request, MergeStep
<1>2. m \in DOMAIN commits' /\ commits'[m] = MergeParents(s)
  BY DEF MergeStep, Insertion
<1>3. IsFiniteSet(DOMAIN commits')
  BY DEF WriterInv, RowsRight
<1>4. m \in Walk(commits', {m}) /\ Closed(commits', Walk(commits', {m}))
  BY <1>3, WalkIsHistory
<1>5. MergeParents(s) \subseteq Walk(commits', {m})
  BY <1>2, <1>4 DEF Closed
<1>6. HeadOf(b)' = m
  BY <1>1, HeadAfter DEF MergeStep
<1>7. /\ pulls[req[s].pull].state = "open"
      /\ view[s].seen = HeadOf(b) /\ view[s].from \in DOMAIN commits
  BY <1>1 DEF MergeStep, SessionRight
<1>. QED
  BY <1>1, <1>5, <1>6, <1>7

LEMMA ForwardStep ==
    ASSUME WriterInv, WriterInv', OneTipEach, StepShape, NEW b \in Branches
    PROVE  KeepsHistory(b)
<1>0. TypeOK /\ OneRowPerBranch
  BY DEF WriterInv, IInv, RowsRight
<1>1. CASE HeadOf(b)' = HeadOf(b)
  <2>1. IsFiniteSet(DOMAIN commits')
    BY DEF WriterInv, RowsRight
  <2>2. \A h : h \in Walk(commits', {h})
    BY <2>1, WalkIsHistory
  <2>. QED
    BY <1>1, <2>2 DEF KeepsHistory, History
<1>2. ASSUME NEW s \in Sessions, PushStep(s), req[s].branch = b PROVE KeepsHistory(b)
  <2>1. /\ HeadOf(b)' = req[s].tip /\ req[s].tip \in Commits
        /\ Ancestry(req[s]) \subseteq Walk(commits', {req[s].tip})
        /\ req[s].force \/ HeadOf(b) = None \/ HeadOf(b) \in Ancestry(req[s])
    <3>1. req[s].bundle \in Bundles /\ req[s].tip \in req[s].bundle /\ HeadOf(b)' = req[s].tip
          /\ Ancestry(req[s]) \subseteq Walk(commits', {req[s].tip})
          /\ (req[s].force \/ HeadOf(b) = None \/ HeadOf(b) \in Ancestry(req[s]))
      BY <1>2, PushFacts
    <3>2. req[s].tip \in Commits
      <4>1. req[s].bundle \in Bundles /\ req[s].tip \in req[s].bundle
        BY <3>1
      <4>. QED
        BY <4>1, ConstantsOK DEF ConstantsOK
    <3>. QED
      BY <3>1, <3>2
  <2>2. Working(s) /\ ~Working(s)'
    BY <1>0, <1>2 DEF Working, PushStep, Finish, TypeOK, SessionsTyped
  <2>3. req[s].tip # None
    BY <2>1, ConstantsOK DEF ConstantsOK
  <2>. QED
    BY <1>2, <2>1, <2>2, <2>3 DEF KeepsHistory, History
<1>3. ASSUME NEW s \in Sessions, NEW m \in MergeIds, MergeStep(s, m), req[s].branch = b
      PROVE  KeepsHistory(b)
  <2>1. /\ HeadOf(b)' = m /\ view[s].seen = HeadOf(b)
        /\ MergeParents(s) \subseteq Walk(commits', {m})
    BY <1>3, MergeFacts
  <2>2. m # None
    BY ConstantsOK DEF ConstantsOK
  <2>. QED
    BY <2>1, <2>2 DEF KeepsHistory, History, MergeParents
<1>4. ASSUME HeadOf(b)' # HeadOf(b)
      PROVE  \/ \E s \in Sessions : PushStep(s) /\ req[s].branch = b
             \/ \E s \in Sessions, m \in MergeIds : MergeStep(s, m) /\ req[s].branch = b
  <2>1. CASE RestStep
    BY <1>4, <2>1 DEF RestStep, HeadOf
  <2>2. ASSUME NEW s \in Sessions, NEW head, branches' = [branches EXCEPT ![req[s].branch] = <<head>>]
        PROVE  req[s].branch = b
    <3>1. req[s].branch \in Branches
      BY <1>0 DEF TypeOK, SessionsTyped, Request
    <3>. QED
      BY <1>0, <1>4, <2>2, <3>1, HeadAfter
  <2>. QED
    BY <2>1, <2>2 DEF StepShape, PushStep, MergeStep
<1>. QED
  BY <1>1, <1>2, <1>3, <1>4

LEMMA PublishedStep ==
    ASSUME WriterInv, WriterInv', OneTipEach, StepShape, NEW s \in Sessions, AnsweredOk(s),
           TipsOf(req[s].bundle) = {req[s].tip}, NEW b, b = req[s].branch
    PROVE  req[s].bundle \subseteq History(HeadOf(b))'
<1>0. TypeOK /\ SessionRight(s)
  BY DEF WriterInv, IInv
<1>1. ASSUME NEW t \in Sessions, Finish(t, "ok") PROVE t = s
  BY <1>0, <1>1 DEF AnsweredOk, Working, Finish, TypeOK, SessionsTyped
<1>2. CASE PushStep(s)
  <2>1. req[s].bundle \in Bundles /\ HeadOf(b)' = req[s].tip
        /\ Ancestry(req[s]) \subseteq Walk(commits', {req[s].tip})
    BY <1>2, PushFacts
  <2>2. req[s].bundle \subseteq Ancestry(req[s])
    BY <2>1, BundleFromTip
  <2>. QED
    BY <2>1, <2>2 DEF History
<1>3. ASSUME NEW m \in MergeIds, MergeStep(s, m) PROVE FALSE
  BY <1>0, <1>3 DEF MergeStep, SessionRight, TipsOf
<1>. QED
  BY <1>1, <1>2, <1>3 DEF StepShape, RestStep, PushStep, MergeStep

LEMMA FinalStep ==
    ASSUME WriterInv, WriterInv', StepShape, NEW p \in PullRequests, pulls[p].state = "merged"
    PROVE  pulls'[p] = pulls[p]
<1>1. ASSUME NEW s \in Sessions, NEW m \in MergeIds, MergeStep(s, m) PROVE pulls'[p] = pulls[p]
  <2>1. pulls[req[s].pull].state = "open"
    BY <1>1, MergeFacts
  <2>2. req[s].pull # p
    BY <2>1
  <2>. QED
    BY <1>1, <2>2 DEF MergeStep, WriterInv, IInv, TypeOK, RowsTyped
<1>. QED
  BY <1>1 DEF StepShape, RestStep, PushStep

-----------------------------------------------------------------------------
(***************************************************************************)
(* With one writer for each branch, a branch has at most one row.          *)
(***************************************************************************)
THEOREM OneRowAlways ==
    ASSUME OneWriterEach, OneTipEach
    PROVE  Spec => []OneRowPerBranch
<1>1. WriterInv => OneRowPerBranch
  BY DEF WriterInv, RowsRight
<1>. QED
  BY <1>1, WriterInvariance, PTL

(***************************************************************************)
(* With one writer for each branch, a head only moves forward: the tests   *)
(* of wire_push and ingest_push and the parents of merge_pr's commit keep  *)
(* the head they replace in the history of the new one, whatever the other *)
(* sessions do between the read and the commit.                            *)
(***************************************************************************)
THEOREM HeadsAlwaysForward ==
    ASSUME OneWriterEach, OneTipEach
    PROVE  Spec => HeadsMoveForward
<1>1. WriterInv /\ WriterInv' /\ [Next]_vars => [\A b \in Branches : KeepsHistory(b)]_vars
  BY NextShaped, ForwardStep
<1>. QED
  BY <1>1, WriterInvariance, PTL DEF Spec, HeadsMoveForward

(***************************************************************************)
(* With one writer for each branch, a push that is answered ok has made    *)
(* its whole bundle part of the history of the branch.                     *)
(***************************************************************************)
THEOREM OkAlwaysPublished ==
    ASSUME OneWriterEach, OneTipEach
    PROVE  Spec => OkMeansPublished
<1>. DEFINE Published == \A s \in Sessions, b \in Branches :
               AnsweredOk(s) /\ req[s].branch = b /\ TipsOf(req[s].bundle) = {req[s].tip} =>
                  req[s].bundle \subseteq History(HeadOf(b))'
<1>1. WriterInv /\ WriterInv' /\ [Next]_vars => [Published]_vars
  BY NextShaped, PublishedStep
<1>2. OkMeansPublished <=> [][Published]_vars
  BY PTL DEF OkMeansPublished
<1>. HIDE DEF Published
<1>. QED
  BY <1>1, <1>2, WriterInvariance, PTL DEF Spec

(***************************************************************************)
(* With one writer for each branch, a merged pull request stays as it is:  *)
(* merge_pr reads the state, and nobody else can merge it before it does.  *)
(***************************************************************************)
THEOREM MergedAlwaysFinal ==
    ASSUME OneWriterEach, OneTipEach
    PROVE  Spec => MergedIsFinal
<1>. DEFINE Final == \A p \in PullRequests : pulls[p].state = "merged" => pulls'[p] = pulls[p]
<1>1. WriterInv /\ WriterInv' /\ [Next]_vars => [Final]_vars
  BY NextShaped, FinalStep
<1>2. MergedIsFinal <=> [][Final]_vars
  BY PTL DEF MergedIsFinal
<1>. HIDE DEF Final
<1>. QED
  BY <1>1, <1>2, WriterInvariance, PTL DEF Spec

-----------------------------------------------------------------------------
(***************************************************************************)
(* With one writer for each branch, the requests implement AtomicRefs.     *)
(* Its head of a branch is the head of the only row; PushStep and          *)
(* MergeStep are its Push and Merge, and every other step a stutter.       *)
(***************************************************************************)
Shown == [b \in Branches |-> IF branches[b] = <<>> THEN Empty ELSE branches[b][1]]

LEMMA ShownIsHead ==
    ASSUME TypeOK, OneRowPerBranch, NEW b \in Branches
    PROVE  Shown[b] = IF HeadOf(b) = None THEN Empty ELSE HeadOf(b)
<1>1. CASE branches[b] = <<>> /\ HeadOf(b) = None
  BY <1>1 DEF Shown
<1>2. CASE HeadOf(b) # None /\ branches[b] = <<HeadOf(b)>>
  <2>1. PICK h : h = HeadOf(b)
    OBVIOUS
  <2>2. <<h>> # <<>> /\ <<h>>[1] = h
    OBVIOUS
  <2>. QED
    BY <1>2, <2>1, <2>2 DEF Shown
<1>. QED
  BY <1>1, <1>2, HeadOfRow

LEMMA ShownAfter ==
    ASSUME TypeOK, NEW b \in Branches, NEW head, branches' = [branches EXCEPT ![b] = <<head>>]
    PROVE  Shown' = [Shown EXCEPT ![b] = head]
<1>1. branches \in [Branches -> Seq(Heads)] /\ <<head>> # <<>> /\ <<head>>[1] = head
  BY DEF TypeOK, RowsTyped
<1>. QED
  BY <1>1 DEF Shown

LEMMA SameWalk ==
    ASSUME NEW f, NEW S
    PROVE  Atomic!Walk(f, S) = Walk(f, S)
<1>1. Atomic!Cardinality(DOMAIN f) = Cardinality(DOMAIN f)
  BY DEF Cardinality, Atomic!Cardinality
<1>. QED
  BY <1>1 DEF Walk, Atomic!Walk

LEMMA InitAtomic == Init => Atomic!Init
BY DEF Init, Atomic!Init

LEMMA RestAtomic ==
    ASSUME RestStep
    PROVE  commits' = commits /\ Shown' = Shown
BY DEF RestStep, Shown

LEMMA PushAtomic ==
    ASSUME WriterInv, WriterInv', OneTipEach, NEW s \in Sessions, PushStep(s)
    PROVE  Atomic!Next
<1>1. PICK b : b = req[s].branch
  OBVIOUS
<1>2. TypeOK /\ OneRowPerBranch
  BY DEF WriterInv, IInv, RowsRight
<1>3. /\ b \in Branches /\ req[s].bundle \in Bundles
      /\ req[s].tip \in req[s].bundle
      /\ Ancestry(req[s]) \subseteq Walk(commits', {req[s].tip})
      /\ (req[s].force \/ HeadOf(b) = None \/ HeadOf(b) \in Ancestry(req[s]))
  BY <1>1, PushFacts
<1>4. Shown' = [Shown EXCEPT ![b] = req[s].tip]
  BY <1>1, <1>2, <1>3, ShownAfter DEF PushStep
<1>5. Shown[b] = IF HeadOf(b) = None THEN Empty ELSE HeadOf(b)
  BY <1>2, <1>3, ShownIsHead
<1>6. req[s].force \/ Shown[b] = Empty \/ Shown[b] \in Atomic!Walk(commits', {req[s].tip})
  BY <1>3, <1>5, SameWalk
<1>7. req[s].bundle \in SUBSET Commits
  BY <1>2 DEF TypeOK, SessionsTyped, Request
<1>8. PICK bundle, tip : bundle = req[s].bundle /\ tip = req[s].tip
  OBVIOUS
<1>9. \E force \in BOOLEAN : Atomic!Push(b, bundle, tip, force)
  <2>1. CASE req[s].force
    <3>1. Atomic!Push(b, bundle, tip, TRUE)
      BY <1>3, <1>4, <1>8 DEF Atomic!Push, Atomic!Insert, Shown, PushStep, Insertion
    <3>. QED
      BY <3>1, Zenon
  <2>2. CASE ~req[s].force
    <3>1. Atomic!Push(b, bundle, tip, FALSE)
      BY <1>3, <1>4, <1>6, <1>8, <2>2
         DEF Atomic!Push, Atomic!Insert, Atomic!FastForward, Shown, PushStep, Insertion
    <3>. QED
      BY <3>1, Zenon
  <2>. QED
    BY <2>1, <2>2
<1>10. bundle \in SUBSET Commits /\ tip \in bundle
  BY <1>3, <1>7, <1>8
<1>. QED
  BY <1>3, <1>9, <1>10, Zenon DEF Atomic!Next

LEMMA MergeAtomic ==
    ASSUME WriterInv, WriterInv', NEW s \in Sessions, NEW m \in MergeIds, MergeStep(s, m)
    PROVE  Atomic!Next
<1>1. PICK b : b = req[s].branch
  OBVIOUS
<1>2. TypeOK /\ OneRowPerBranch
  BY DEF WriterInv, IInv, RowsRight
<1>3. /\ b \in Branches /\ view[s].seen = HeadOf(b) /\ view[s].from \in DOMAIN commits
      /\ MergeParents(s) \subseteq Walk(commits', {m})
  BY <1>1, MergeFacts
<1>4. Shown' = [Shown EXCEPT ![b] = m]
  BY <1>1, <1>2, <1>3, ShownAfter DEF MergeStep
<1>5. Shown[b] = IF HeadOf(b) = None THEN Empty ELSE HeadOf(b)
  BY <1>2, <1>3, ShownIsHead
<1>6. view[s].from \in Commits \cup MergeIds /\ view[s].from # None /\ view[s].from # Empty
  BY <1>2, <1>3, ConstantsOK DEF TypeOK, RowsTyped, CommitIds, ConstantsOK
<1>7. HeadOf(b) # None => HeadOf(b) # Empty
  BY <1>2, <1>3, HeadOfRow DEF WriterInv, RowsRight, HeadOf
<1>8. MergeParents(s) = {Shown[b], view[s].from} \ {Empty}
  BY <1>3, <1>5, <1>6, <1>7 DEF MergeParents
<1>9. Shown[b] = Empty \/ Shown[b] \in Atomic!Walk(commits', {m})
  BY <1>3, <1>8, SameWalk
<1>10. Atomic!Merge(b, view[s].from, m)
  BY <1>3, <1>4, <1>8, <1>9
     DEF Atomic!Merge, Atomic!Insert, Atomic!FastForward, Shown, MergeStep, Insertion
<1>. QED
  BY <1>3, <1>6, <1>10 DEF Atomic!Next

(***************************************************************************)
(* What the callers of a branch with one writer may rely on: a push or a   *)
(* merge looks like one step on the heads of the moment it commits.        *)
(***************************************************************************)
THEOREM RequestsAreAtomic ==
    ASSUME OneWriterEach, OneTipEach
    PROVE  Spec => ImplementsAtomicRefs
<1>1. WriterInv /\ WriterInv' /\ [Next]_vars => [Atomic!Next]_<<commits, Shown>>
  BY NextShaped, RestAtomic, PushAtomic, MergeAtomic DEF StepShape
<1>2. [Atomic!Next]_<<commits, Shown>> <=>
      [Atomic!Next]_<<commits, [b \in Branches |-> IF branches[b] = <<>> THEN Empty ELSE branches[b][1]]>>
  BY DEF Shown
<1>. QED
  BY <1>1, <1>2, InitAtomic, WriterInvariance, PTL DEF Spec, ImplementsAtomicRefs, Atomic!Spec

-----------------------------------------------------------------------------
(***************************************************************************)
(* default_branch.  A wire push decides that it creates the first branch   *)
(* when it sends its UPDATE of the repo row, whose lock keeps every other  *)
(* wire push from that step until it commits; so no branch can appear in   *)
(* between.  The other kinds of requests take no lock on that row.         *)
(***************************************************************************)
WireOnly == Kinds \subseteq {"wire"}

OnlyBranch(s) == \A b \in Branches \ {req[s].branch} : branches[b] = <<>>

DefaultInv ==
    /\ TypeOK
    /\ \A s \in Sessions : pc[s] \in {"idle", "staged", "checked", "written"}
    /\ \A s, t \in Sessions : HoldsRepoRow(s) /\ HoldsRepoRow(t) => s = t
    /\ \A s \in Sessions : HoldsRepoRow(s) /\ view[s].only => OnlyBranch(s)

\* A step that sends no UPDATE and moves no head.
LEMMA RepoRowStays ==
    ASSUME DefaultInv, TypeOK', UNCHANGED branches,
           \A s \in Sessions :
              \/ pc'[s] \in {"idle", "staged", "checked"}
              \/ pc'[s] = pc[s] /\ view'[s] = view[s] /\ req'[s] = req[s]
    PROVE  DefaultInv'
BY DEF DefaultInv, HoldsRepoRow, OnlyBranch

LEMMA RestKeepsRepoRow ==
    ASSUME DefaultInv, TypeOK', NEW s \in Sessions,
           \/ \E answer : Rollback(s, answer)
           \/ \E v : Advance(s, "checked", v)
           \/ \E r, v : Begin(s, r, "staged", v)
    PROVE  DefaultInv'
<1>1. /\ pc \in [Sessions -> {"idle", "staged", "checked", "written", "begun", "resolved",
                              "filtered", "opened", "joined"}]
      /\ req \in [Sessions -> Request] /\ view \in [Sessions -> View]
  BY DEF DefaultInv, TypeOK, SessionsTyped
<1>2. UNCHANGED branches
  BY DEF Rollback, Finish, Advance, Begin, db
<1>3. pc'[s] \in {"idle", "staged", "checked"}
  BY <1>1 DEF Rollback, Finish, Advance, Begin
<1>4. \A t \in Sessions \ {s} : pc'[t] = pc[t] /\ view'[t] = view[t] /\ req'[t] = req[t]
  BY <1>1 DEF Rollback, Finish, Advance, Begin
<1>. QED
  BY <1>2, <1>3, <1>4, RepoRowStays

LEMMA FlushTakesRepoRow ==
    ASSUME DefaultInv, TypeOK', NEW s \in Sessions, WirePushFlush(s)
    PROVE  DefaultInv'
<1>1. pc \in [Sessions -> {"idle", "staged", "checked", "written", "begun", "resolved",
                           "filtered", "opened", "joined"}] /\ view \in [Sessions -> View]
  BY DEF DefaultInv, TypeOK, SessionsTyped
<1>2. PICK v : v = [view[s] EXCEPT !.only = \A b \in Branches \ {req[s].branch} : branches[b] = <<>>]
  OBVIOUS
<1>3. pc' = [pc EXCEPT ![s] = "written"] /\ view' = [view EXCEPT ![s] = v] /\ UNCHANGED <<branches, req>>
  BY <1>2 DEF WirePushFlush, Advance
<1>4. pc'[s] = "written" /\ view'[s] = v
      /\ \A t \in Sessions \ {s} : pc'[t] = pc[t] /\ view'[t] = view[t]
  BY <1>1, <1>3
<1>5. \A t \in Sessions \ {s} : pc'[t] # "written"
  BY <1>4 DEF WirePushFlush, HoldsRepoRow
<1>6. v.only => OnlyBranch(s)
  <2>1. view[s] \in View
    BY <1>1
  <2>2. v.only = (\A b \in Branches \ {req[s].branch} : branches[b] = <<>>)
    BY <1>2, <2>1 DEF View
  <2>. QED
    BY <2>2 DEF OnlyBranch
<1>7. OnlyBranch(s)' <=> OnlyBranch(s)
  BY <1>3 DEF OnlyBranch
<1>. QED
  BY <1>4, <1>5, <1>6, <1>7 DEF DefaultInv, HoldsRepoRow

LEMMA CommitReleasesRepoRow ==
    ASSUME DefaultInv, TypeOK', NEW s \in Sessions, WirePushCommit(s)
    PROVE  DefaultInv'
<1>1. pc \in [Sessions -> {"idle", "staged", "checked", "written", "begun", "resolved",
                           "filtered", "opened", "joined"}]
  BY DEF DefaultInv, TypeOK, SessionsTyped
<1>2. pc' = [pc EXCEPT ![s] = "idle"] /\ HoldsRepoRow(s)
  BY DEF WirePushCommit, Finish, HoldsRepoRow
<1>3. \A t \in Sessions : pc'[t] \in {"idle", "staged", "checked"}
  BY <1>1, <1>2 DEF DefaultInv, HoldsRepoRow
<1>. QED
  BY <1>3 DEF DefaultInv, HoldsRepoRow

LEMMA DefaultStep ==
    ASSUME WireOnly
    PROVE  DefaultInv /\ [Next]_vars => DefaultInv'
<1>. SUFFICES ASSUME DefaultInv, [Next]_vars PROVE DefaultInv'
  OBVIOUS
<1>0. TypeOK'
  BY NextTyped DEF DefaultInv
<1>1. ASSUME NEW s \in Sessions, Start(s) PROVE DefaultInv'
  <2>1. ~("ingest" \in Kinds) /\ ~("merge" \in Kinds)
    BY DEF WireOnly
  <2>2. \E r, v : Begin(s, r, "staged", v)
    BY <1>1, <2>1, Zenon DEF Start, WirePushStage, IngestBegin, MergeBegin
  <2>. QED
    BY <1>0, <2>2, RestKeepsRepoRow
<1>2. ASSUME NEW s \in Sessions, Step(s) PROVE DefaultInv'
  <2>0. pc[s] \notin {"begun", "resolved", "filtered", "opened", "joined"}
    BY DEF DefaultInv
  <2>1. CASE WirePushDuplicate(s) \/ WirePushAmbiguous(s) \/ WirePushCheck(s)
    <3>1. (\E answer : Rollback(s, answer)) \/ \E v : Advance(s, "checked", v)
      BY <2>1, Zenon DEF WirePushDuplicate, WirePushAmbiguous, WirePushCheck
    <3>. QED
      BY <1>0, <3>1, RestKeepsRepoRow
  <2>2. CASE WirePushFlush(s)
    BY <1>0, <2>2, FlushTakesRepoRow
  <2>3. CASE WirePushCommit(s)
    BY <1>0, <2>3, CommitReleasesRepoRow
  <2>. QED
    BY <1>2, <2>0, <2>1, <2>2, <2>3
    DEF Step, IngestResolve, IngestFilter, IngestCommit, MergeRead, MergeCommit
<1>3. ASSUME NEW s \in Sessions, Fail(s) PROVE DefaultInv'
  BY <1>0, <1>3, RestKeepsRepoRow DEF Fail
<1>4. ASSUME NEW p \in PullRequests, CreatePull(p) PROVE DefaultInv'
  BY <1>4 DEF CreatePull, WireOnly
<1>5. CASE UNCHANGED vars
  BY <1>0, <1>5, RepoRowStays DEF vars
<1>. QED
  BY <1>1, <1>2, <1>3, <1>4, <1>5 DEF Next

\* Only the commit of a wire push writes default_branch.
LEMMA DefaultWritten ==
    ASSUME DefaultInv, [Next]_vars, defaultBranch' # defaultBranch
    PROVE  \E s \in Sessions : WirePushCommit(s)
<1>1. ASSUME NEW s \in Sessions, Start(s) PROVE FALSE
  BY <1>1 DEF Start, WirePushStage, IngestBegin, MergeBegin, Begin, Rollback, db
<1>2. ASSUME NEW s \in Sessions, Step(s) PROVE WirePushCommit(s)
  <2>1. CASE WirePushDuplicate(s) \/ WirePushAmbiguous(s) \/ WirePushCheck(s) \/ WirePushFlush(s)
    BY <2>1 DEF WirePushDuplicate, WirePushAmbiguous, WirePushCheck, WirePushFlush, Advance, Rollback, db
  <2>2. CASE IngestResolve(s) \/ IngestFilter(s) \/ IngestCommit(s)
    BY <2>2 DEF IngestResolve, IngestFilter, IngestCommit, Advance, Rollback, db
  <2>3. CASE MergeRead(s) \/ \E m \in MergeIds : MergeCommit(s, m)
    BY <2>3 DEF MergeRead, MergeCommit, Advance, Rollback, db
  <2>. QED
    BY <1>2, <2>1, <2>2, <2>3 DEF Step
<1>3. ASSUME NEW s \in Sessions, Fail(s) PROVE FALSE
  BY <1>3 DEF Fail, Rollback, db
<1>4. ASSUME NEW p \in PullRequests, CreatePull(p) PROVE FALSE
  BY <1>4 DEF CreatePull
<1>5. CASE UNCHANGED vars
  BY <1>5 DEF vars
<1>. QED
  BY <1>1, <1>2, <1>3, <1>4, <1>5 DEF Next

(***************************************************************************)
(* Where all requests are wire pushes, default_branch is set by the one    *)
(* that creates the first branch and by none after it (the comment in      *)
(* wire_push), however many pushes run at the same time.                   *)
(***************************************************************************)
THEOREM DefaultAlwaysKept ==
    ASSUME WireOnly
    PROVE  Spec => DefaultBranchKept
<1>. DEFINE Kept == defaultBranch' # defaultBranch =>
                       \A b \in Branches \ {defaultBranch'} : branches[b] = <<>>
<1>1. Init => DefaultInv
  <2>. SUFFICES ASSUME Init PROVE DefaultInv
    OBVIOUS
  <2>1. \A s \in Sessions : pc[s] = "idle"
    BY DEF Init
  <2>. QED
    BY <2>1, InitTyped DEF DefaultInv, HoldsRepoRow
<1>2. DefaultInv /\ [Next]_vars => [Kept]_vars
  <2>. SUFFICES ASSUME DefaultInv, [Next]_vars, defaultBranch' # defaultBranch
                PROVE  \A b \in Branches \ {defaultBranch'} : branches[b] = <<>>
    OBVIOUS
  <2>1. PICK s \in Sessions : WirePushCommit(s)
    BY DefaultWritten
  <2>2. HoldsRepoRow(s) /\ view[s].only /\ defaultBranch' = req[s].branch
    BY <2>1 DEF WirePushCommit, HoldsRepoRow
  <2>. QED
    BY <2>2 DEF DefaultInv, OnlyBranch
<1>3. DefaultBranchKept <=> [][Kept]_vars
  BY PTL DEF DefaultBranchKept
<1>. HIDE DEF Kept
<1>. QED
  BY <1>1, <1>2, <1>3, DefaultStep, PTL DEF Spec
=============================================================================
