------------------------------ MODULE WireTags ------------------------------
(***************************************************************************)
(* The tags clients push.  A push sends its tags one by one, each in one   *)
(* statement that inserts the tag or, when the repository has its label,   *)
(* moves it to another commit; all are committed together.  A statement    *)
(* waits for a transaction that has sent a row with the same key.  Tag ids *)
(* are drawn by clients and unique over all repositories, and the          *)
(* statement expects a conflict of labels only.                            *)
(***************************************************************************)
EXTENDS Naturals, Sequences

CONSTANTS Requests,   \* the pushes, 1, 2, ...
          Pushes      \* what clients push: [repo, tags], tags a sequence of [id, label]

VARIABLES rows,   \* the committed tag rows
          req     \* the requests

vars == <<rows, req>>

Tags == UNION {{push.tags[i] : i \in DOMAIN push.tags} : push \in Pushes}

\* by: the push that set the commit and the date of the tag.
Rows == [repo : {push.repo : push \in Pushes}, id : {t.id : t \in Tags},
         label : {t.label : t \in Tags}, by : Requests]

\* sent: how many of its tags are sent, and the rows they made.
RequestStates ==
    [push : Pushes, sent : Nat, rows : SUBSET Rows, pc : {"idle", "sending", "ok", "error"}]

TypeOK ==
    /\ rows \subseteq Rows
    /\ req \in [Requests -> RequestStates]

Init ==
    /\ rows = {}
    /\ req = [r \in Requests |-> [push |-> CHOOSE push \in Pushes : TRUE, sent |-> 0,
                                  rows |-> {}, pc |-> "idle"]]

\* Requests are named in the order they begin.
PushTags(r) ==
    /\ req[r].pc = "idle" /\ \A q \in Requests : q < r => req[q].pc # "idle"
    /\ \E push \in Pushes : req' = [req EXCEPT ![r].push = push, ![r].pc = "sending"]
    /\ UNCHANGED rows

Sending(r) == req[r].pc = "sending" /\ req[r].sent < Len(req[r].push.tags)

NextTag(r) == req[r].push.tags[req[r].sent + 1]

\* The rows of a set that have the label of the next tag.
SameLabel(r, set) == {row \in set : row.repo = req[r].push.repo /\ row.label = NextTag(r).label}

SameId(r, set) == {row \in set : row.id = NextTag(r).id}

\* What the other transactions have sent and not committed.
Uncommitted(r) == UNION {req[q].rows : q \in {p \in Requests \ {r} : req[p].pc = "sending"}}

Known(r) == SameLabel(r, rows \cup req[r].rows) # {}

\* Mutant: every tag is committed by itself.
SendAlone(r, row) ==
    /\ rows' = (rows \ SameLabel(r, rows)) \cup {row}
    /\ req' = [req EXCEPT ![r].sent = @ + 1]

\* The row replaces what the transaction sent for the label before.
Send(r, row) ==
    /\ req' = [req EXCEPT ![r].sent = @ + 1,
                          ![r].rows = (@ \ SameLabel(r, @)) \cup {row}]
    /\ UNCHANGED rows

\* The label is new: the id must be, too.
Insert(r) ==
    /\ Sending(r)
    /\ ~Known(r)
    /\ SameLabel(r, Uncommitted(r)) = {} /\ SameId(r, Uncommitted(r)) = {}
    /\ SameId(r, rows \cup req[r].rows) = {}
    /\ Send(r, [repo |-> req[r].push.repo, id |-> NextTag(r).id, label |-> NextTag(r).label, by |-> r])

\* The row keeps its id.
Move(r) ==
    /\ Sending(r)
    /\ SameLabel(r, Uncommitted(r)) = {}
    /\ \E row \in SameLabel(r, rows \cup req[r].rows) : Send(r, [row EXCEPT !.by = r])

Commit(r) ==
    /\ req[r].pc = "sending" /\ ~Sending(r)
    /\ rows' = {row \in rows : \A own \in req[r].rows : own.id # row.id} \cup req[r].rows
    /\ req' = [req EXCEPT ![r].pc = "ok", ![r].rows = {}]

\* An id that another label has, a cycle of waits that the database ends, or
\* any failure before the commit.
Fail(r) ==
    /\ req[r].pc = "sending"
    /\ req' = [req EXCEPT ![r].pc = "error", ![r].rows = {}]
    /\ UNCHANGED rows

Next == \E r \in Requests : PushTags(r) \/ Insert(r) \/ Move(r) \/ Commit(r) \/ Fail(r)

Spec == Init /\ [][Next]_vars

-----------------------------------------------------------------------------
Labels(r) == {req[r].push.tags[i].label : i \in DOMAIN req[r].push.tags}

(***************************************************************************)
(* Tags pushed together are stored together (musehub_wire_tags.py:71): a   *)
(* push answered ok has all its labels in the repository and any other     *)
(* none; and two labels that two pushes both name are both as the one left *)
(* them or both as the other, however the statements of the pushes         *)
(* interleave and in whatever order they list the labels.                  *)
(***************************************************************************)
TagsTogether ==
    /\ \A r \in Requests : req[r].pc = "ok" =>
          \A label \in Labels(r) :
              \E row \in rows : row.repo = req[r].push.repo /\ row.label = label
    /\ \A row \in rows : req[row.by].pc = "ok"
    /\ \A a, b \in rows :
          /\ a.repo = b.repo
          /\ {a.label, b.label} \subseteq Labels(a.by) \cap Labels(b.by)
          => a.by = b.by
=============================================================================
