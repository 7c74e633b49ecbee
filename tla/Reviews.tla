------------------------------- MODULE Reviews -------------------------------
(***************************************************************************)
(* The reviews of one pull request: reviewers are requested, removed, and  *)
(* submit their verdicts.  Each request looks for the row of the reviewer, *)
(* decides, and writes when it commits; the table has no unique key, and   *)
(* the row may have changed, appeared or gone since it was looked for.     *)
(***************************************************************************)
EXTENDS Naturals, FiniteSets

CONSTANTS Requests,   \* the calls of the three operations
          Reviewers   \* user names

VARIABLES rows,   \* the committed review rows
          req     \* the requests

vars == <<rows, req>>

Verdicts == {"approved", "changes_requested"}
States == Verdicts \cup {"pending"}

\* A row; the request that inserted it stands for its id.
Rows == [by : Requests, reviewer : Reviewers, state : States]

\* who: the reviewers it is about; state: the one a review sets; todo: the
\* reviewers still to look for; adds: those it found no row of; seen: the row
\* it found; before: history, the requests that had ended when it began.
RequestStates ==
    [kind   : {"request", "remove", "submit"},
     who    : SUBSET Reviewers,
     state  : States,
     todo   : SUBSET Reviewers,
     adds   : SUBSET Reviewers,
     seen   : SUBSET Rows,
     pc     : {"idle", "looking", "writing", "ok", "failed"},
     before : SUBSET Requests]

TypeOK ==
    /\ rows \subseteq Rows
    /\ req \in [Requests -> RequestStates]

NoRequest == [kind |-> "request", who |-> {}, state |-> "pending", todo |-> {}, adds |-> {},
              seen |-> {}, pc |-> "idle", before |-> {}]

Init ==
    /\ rows = {}
    /\ req = [r \in Requests |-> NoRequest]

Ended == {r \in Requests : req[r].pc \in {"ok", "failed"}}

RowsOf(u) == {row \in rows : row.reviewer = u}

SameRow(a, b) == a.by = b.by /\ a.reviewer = b.reviewer

\* Requests are named in the order they begin.
IsNext(r) == req[r].pc = "idle" /\ \A q \in Requests : q < r => req[q].pc # "idle"

\* An error ends a request without a trace.
Refuse(r) ==
    /\ req' = [req EXCEPT ![r] = [NoRequest EXCEPT !.pc = "failed"]]
    /\ UNCHANGED rows

Start(r, kind, who, state) ==
    /\ IsNext(r)
    /\ req' = [req EXCEPT ![r] = [NoRequest EXCEPT !.kind = kind, !.who = who, !.state = state,
                                                   !.todo = who, !.pc = "looking", !.before = Ended]]
    /\ UNCHANGED rows

RequestReviewers(r) == \E who \in (SUBSET Reviewers) \ {{}} : Start(r, "request", who, "pending")

RemoveReviewer(r) == \E u \in Reviewers : Start(r, "remove", {u}, "pending")

\* The events approve, request_changes and comment.
SubmitReview(r) == \E u \in Reviewers, state \in States : Start(r, "submit", {u}, state)

-----------------------------------------------------------------------------
(* The look-ups. *)

Looking(r, u) == req[r].pc = "looking" /\ u \in req[r].todo

\* scalar_one_or_none raises when there are several rows.
Ambiguous(r) ==
    /\ \E u \in Reviewers : Looking(r, u) /\ Cardinality(RowsOf(u)) > 1
    /\ Refuse(r)

\* One round of the loop over the requested names.
FindRequested(r) ==
    /\ req[r].kind = "request"
    /\ \E u \in Reviewers :
          /\ Looking(r, u)
          /\ Cardinality(RowsOf(u)) <= 1
          /\ req' = [req EXCEPT ![r].todo = @ \ {u},
                                ![r].adds = IF RowsOf(u) = {} THEN @ \cup {u} ELSE @,
                                ![r].pc = IF req[r].todo = {u} THEN "writing" ELSE "looking"]
    /\ UNCHANGED rows

\* Mutant: a submitted review may be removed too.
FindRemovedAny(r) ==
    /\ req[r].kind = "remove"
    /\ \E u \in Reviewers :
          /\ Looking(r, u)
          /\ Cardinality(RowsOf(u)) <= 1
          /\ RowsOf(u) # {}
          /\ req' = [req EXCEPT ![r].todo = {}, ![r].seen = RowsOf(u), ![r].pc = "writing"]
    /\ UNCHANGED rows

\* Only a pending row may be removed.
Removable(u) == {row \in RowsOf(u) : row.state = "pending"}

FindRemoved(r) ==
    /\ req[r].kind = "remove"
    /\ \E u \in Reviewers :
          /\ Looking(r, u)
          /\ Cardinality(RowsOf(u)) <= 1
          /\ Removable(u) # {}
          /\ req' = [req EXCEPT ![r].todo = {}, ![r].seen = Removable(u), ![r].pc = "writing"]
    /\ UNCHANGED rows

NotRemovable(r) ==
    /\ req[r].kind = "remove"
    /\ \E u \in Reviewers : Looking(r, u) /\ Removable(u) = {}
    /\ Refuse(r)

FindReviewed(r) ==
    /\ req[r].kind = "submit"
    /\ \E u \in Reviewers :
          /\ Looking(r, u)
          /\ Cardinality(RowsOf(u)) <= 1
          /\ req' = [req EXCEPT ![r].todo = {}, ![r].seen = RowsOf(u),
                                ![r].adds = IF RowsOf(u) = {} THEN {u} ELSE {},
                                ![r].pc = "writing"]
    /\ UNCHANGED rows

-----------------------------------------------------------------------------
(* The writes, at the commit. *)

Writing(r, kind) == req[r].pc = "writing" /\ req[r].kind = kind

Answer(r) == req' = [req EXCEPT ![r].pc = "ok"]

\* The rows of the reviewers no row was found of, one row for each.
CommitAdds(r) ==
    /\ Writing(r, "request") \/ (Writing(r, "submit") /\ req[r].adds # {})
    /\ rows' = rows \cup {[by |-> r, reviewer |-> u, state |-> req[r].state] : u \in req[r].adds}
    /\ Answer(r)

\* DELETE by the id of the row: whatever its state is by now, and content
\* with none.
CommitRemove(r) ==
    /\ Writing(r, "remove")
    /\ rows' = {row \in rows : \A seen \in req[r].seen : ~SameRow(row, seen)}
    /\ Answer(r)

\* UPDATE by the id: the state is written only when it differs from what the
\* session loaded.
CommitUpdate(r) ==
    /\ Writing(r, "submit")
    /\ \E seen \in req[r].seen, row \in rows :
          /\ SameRow(row, seen)
          /\ rows' = IF seen.state = req[r].state
                     THEN rows
                     ELSE (rows \ {row}) \cup {[row EXCEPT !.state = req[r].state]}
    /\ Answer(r)

\* The row is gone: StaleDataError, or the refresh raises.
UpdateNothing(r) ==
    /\ Writing(r, "submit")
    /\ \E seen \in req[r].seen : \A row \in rows : ~SameRow(row, seen)
    /\ Refuse(r)

\* Any failure before the commit, the death of the process included.
Fail(r) == req[r].pc \in {"looking", "writing"} /\ Refuse(r)

-----------------------------------------------------------------------------
Next ==
    \E r \in Requests :
        \/ RequestReviewers(r) \/ RemoveReviewer(r) \/ SubmitReview(r)
        \/ Ambiguous(r) \/ FindRequested(r) \/ FindRemoved(r) \/ NotRemovable(r) \/ FindReviewed(r)
        \/ CommitAdds(r) \/ CommitRemove(r) \/ CommitUpdate(r) \/ UpdateNothing(r) \/ Fail(r)

Spec == Init /\ [][Next]_vars

-----------------------------------------------------------------------------
\* Neither had ended when the other began.
Overlap(a, b) == a \notin req[b].before /\ b \notin req[a].before

Done(r, kind, u) == req[r].kind = kind /\ req[r].pc = "ok" /\ u \in req[r].who

\* A reviewer has two rows only by requests that looked for one at the same
\* time and both inserted it.
TwoRowsOverlapped ==
    \A a, b \in rows : a.reviewer = b.reviewer /\ a # b => a.by # b.by /\ Overlap(a.by, b.by)

\* A verdict answered ok goes only with a removal under way when it was
\* submitted, or after a comment that made it pending again.
VerdictsKept ==
    \A s \in Requests, u \in Reviewers :
        Done(s, "submit", u) /\ req[s].state \in Verdicts =>
            \/ RowsOf(u) # {}
            \/ \E m \in Requests : Done(m, "remove", u) /\ Overlap(m, s)
            \/ \E c \in Requests : Done(c, "submit", u) /\ req[c].state = "pending" /\ c \notin req[s].before

(***************************************************************************)
(* A reviewer has one row, as the model of the table says                  *)
(* (musehub_models.py:547), and a verdict keeps its reviewer among the     *)
(* reviews, whatever is requested or removed later                         *)
(* (musehub_pull_requests.py:423), unless requests overlap.                *)
(***************************************************************************)
ReviewsHold == TwoRowsOverlapped /\ VerdictsKept
=============================================================================
