-------------------------------- MODULE Labels --------------------------------
(***************************************************************************)
(* The labels of one repository and the pull requests that carry them.     *)
(* Every statement is plain SQL.  A request reads what it needs, and one   *)
(* that changes a label writes back all its columns, those it was not      *)
(* given as it read them.  (The routes for the labels of issues are hidden *)
(* by those of IssueTracker, which are registered first.)                  *)
(***************************************************************************)
EXTENDS Naturals, FiniteSets

CONSTANTS Requests,   \* the calls of the operations, 1, 2, ...
          Names,      \* of labels
          Pulls       \* the pull requests

VARIABLES labels,   \* the committed label rows
          links,    \* the committed rows of labels assigned to pull requests
          req       \* the requests

vars == <<labels, links, req>>

\* The request that created a label stands for its id, the one that set its
\* colour for that.
Rows == [id : Requests, name : Names, color : Requests]

Links == [pull : Pulls, label : Requests]

Kinds == {"create", "rename", "recolor", "delete", "assign", "remove"}

\* seen: the row as read; todo: the labels still to be found; before:
\* history, the requests that had ended when it began.
RequestStates ==
    [kind   : Kinds,
     label  : Requests,
     name   : Names,
     pull   : Pulls,
     seen   : SUBSET Rows,
     todo   : SUBSET Requests,
     adds   : SUBSET Requests,
     pc     : {"idle", "looking", "naming", "writing", "ok", "refused", "error"},
     before : SUBSET Requests]

TypeOK ==
    /\ labels \subseteq Rows
    /\ links \subseteq Links
    /\ req \in [Requests -> RequestStates]

NoRequest == [kind |-> "create", label |-> CHOOSE r \in Requests : TRUE, name |-> CHOOSE n \in Names : TRUE,
              pull |-> CHOOSE p \in Pulls : TRUE, seen |-> {}, todo |-> {}, adds |-> {},
              pc |-> "idle", before |-> {}]

Init ==
    /\ labels = {}
    /\ links = {}
    /\ req = [r \in Requests |-> NoRequest]

LabelIds == {l.id : l \in labels}

Named(name) == {l \in labels : l.name = name}

Ended == {r \in Requests : req[r].pc \in {"ok", "refused", "error"}}

-----------------------------------------------------------------------------
\* Requests are named in the order they begin.
IsNext(r) == req[r].pc = "idle" /\ \A q \in Requests : q < r => req[q].pc # "idle"

Start(r, kind, pc, fields) ==
    /\ IsNext(r)
    /\ req' = [req EXCEPT ![r] = [fields EXCEPT !.kind = kind, !.pc = pc, !.before = Ended]]
    /\ UNCHANGED <<labels, links>>

CreateLabel(r) == \E n \in Names : Start(r, "create", "naming", [NoRequest EXCEPT !.name = n])

\* Clients name labels they have seen.
UpdateLabel(r) ==
    \E l \in LabelIds :
        \/ \E n \in Names : Start(r, "rename", "looking", [NoRequest EXCEPT !.label = l, !.name = n])
        \/ Start(r, "recolor", "looking", [NoRequest EXCEPT !.label = l])

DeleteLabel(r) == \E l \in LabelIds : Start(r, "delete", "looking", [NoRequest EXCEPT !.label = l])

AssignLabels(r) ==
    \E p \in Pulls, ls \in (SUBSET LabelIds) \ {{}} :
        Start(r, "assign", "looking", [NoRequest EXCEPT !.pull = p, !.todo = ls, !.adds = ls])

RemoveLabel(r) ==
    \E k \in links : Start(r, "remove", "writing", [NoRequest EXCEPT !.pull = k.pull, !.label = k.label])

-----------------------------------------------------------------------------
Goto(r, pc) ==
    /\ req' = [req EXCEPT ![r].pc = pc]
    /\ UNCHANGED <<labels, links>>

\* _get_label_or_404
FindLabel(r) ==
    /\ req[r].pc = "looking"
    /\ req[r].kind # "assign"
    /\ \E l \in labels :
          /\ l.id = req[r].label
          /\ req' = [req EXCEPT ![r].seen = {l},
                                ![r].pc = IF req[r].kind = "rename" /\ l.name # req[r].name
                                          THEN "naming" ELSE "writing"]
    /\ UNCHANGED <<labels, links>>

\* One round of the loop over the labels to assign; its insert shows with
\* the commit.
FindAssigned(r) ==
    /\ req[r].pc = "looking"
    /\ \E l \in req[r].todo \cap LabelIds :
          req' = [req EXCEPT ![r].todo = @ \ {l},
                             ![r].pc = IF req[r].todo = {l} THEN "writing" ELSE "looking"]
    /\ UNCHANGED <<labels, links>>

NotFound(r) ==
    /\ req[r].pc = "looking"
    /\ IF req[r].kind = "assign" THEN ~(req[r].todo \subseteq LabelIds) ELSE req[r].label \notin LabelIds
    /\ Goto(r, "refused")

CheckName(r) ==
    /\ req[r].pc = "naming"
    /\ Goto(r, IF Named(req[r].name) = {} THEN "writing" ELSE "refused")

Writing(r, kinds) == req[r].pc = "writing" /\ req[r].kind \in kinds

Answer(r) == req' = [req EXCEPT ![r].pc = "ok", ![r].seen = {}]

InsertLabel(r) ==
    /\ Writing(r, {"create"})
    /\ Named(req[r].name) = {}
    /\ labels' = labels \cup {[id |-> r, name |-> req[r].name, color |-> r]}
    /\ UNCHANGED links
    /\ Answer(r)

\* Mutant: a colour that is not given is set back.
PatchedReset(r, row) ==
    [row EXCEPT !.name = IF req[r].kind = "rename" THEN req[r].name ELSE @,
                !.color = IF req[r].kind = "recolor" THEN r ELSE row.id]

\* The row as read with the column given.
Patched(r, row) ==
    IF req[r].kind = "rename" THEN [row EXCEPT !.name = req[r].name] ELSE [row EXCEPT !.color = r]

\* UPDATE by id, of no row when the label is gone.
WriteLabel(r) ==
    /\ Writing(r, {"rename", "recolor"})
    /\ \E row \in req[r].seen :
          LET old == {l \in labels : l.id = row.id}
              new == Patched(r, row)
          IN  /\ old # {} => Named(new.name) \subseteq old
              /\ labels' = IF old = {} THEN labels ELSE (labels \ old) \cup {new}
    /\ UNCHANGED links
    /\ Answer(r)

\* With the rows that assign it, whoever commits them first.
CommitDelete(r) ==
    /\ Writing(r, {"delete"})
    /\ labels' = {l \in labels : l.id # req[r].label}
    /\ links' = {k \in links : k.label # req[r].label}
    /\ Answer(r)

\* Rows that are there are left alone.
CommitAssign(r) ==
    /\ Writing(r, {"assign"})
    /\ req[r].adds \subseteq LabelIds
    /\ links' = links \cup {[pull |-> req[r].pull, label |-> l] : l \in req[r].adds}
    /\ UNCHANGED labels
    /\ Answer(r)

Removed(r) == {k \in links : k.label = req[r].label /\ k.pull = req[r].pull}

CommitRemove(r) ==
    /\ Writing(r, {"remove"})
    /\ links' = links \ Removed(r)
    /\ UNCHANGED labels
    /\ Answer(r)

\* A name that was taken after the check, or a label deleted after it was
\* found, violates a key; or any other failure before the commit.
Fail(r) == req[r].pc \in {"looking", "naming", "writing"} /\ Goto(r, "error")

Next ==
    \E r \in Requests :
        \/ CreateLabel(r) \/ UpdateLabel(r) \/ DeleteLabel(r) \/ AssignLabels(r) \/ RemoveLabel(r)
        \/ FindLabel(r) \/ FindAssigned(r) \/ NotFound(r) \/ CheckName(r)
        \/ InsertLabel(r) \/ WriteLabel(r) \/ CommitDelete(r) \/ CommitAssign(r) \/ CommitRemove(r)
        \/ Fail(r)

Spec == Init /\ [][Next]_vars

-----------------------------------------------------------------------------
Done(r, kind) == req[r].kind = kind /\ req[r].pc = "ok"

\* Neither had ended when the other began.
Overlap(a, b) == a \notin req[b].before /\ b \notin req[a].before

\* A request of one of these kinds about the label of r, not over before r.
Later(r, label, kinds) ==
    \E q \in Requests \ {r} :
        /\ req[q].kind \in kinds /\ req[q].pc = "ok"
        /\ req[q].label = label
        /\ q \notin req[r].before

\* The column a request set is as it set it, or as a later one did; another
\* column written back undoes it only when the requests overlap.
ColumnsKept ==
    \A r \in Requests : \A l \in labels :
        l.id = req[r].label =>
            /\ Done(r, "rename") /\ l.name # req[r].name =>
                  \/ Later(r, l.id, {"rename"})
                  \/ \E q \in Requests : Done(q, "recolor") /\ req[q].label = l.id /\ Overlap(q, r)
            /\ Done(r, "recolor") /\ l.color # r =>
                  \/ Later(r, l.id, {"recolor"})
                  \/ \E q \in Requests : Done(q, "rename") /\ req[q].label = l.id /\ Overlap(q, r)

\* A label assigned stays until it is taken away or deleted, and one taken
\* away stays away until it is assigned again.
LinksKept ==
    \A r \in Requests :
        /\ Done(r, "assign") =>
              \A l \in req[r].adds :
                  \/ [pull |-> req[r].pull, label |-> l] \in links
                  \/ Later(r, l, {"delete"})
                  \/ \E q \in Requests : /\ Done(q, "remove") /\ req[q].label = l
                                         /\ req[q].pull = req[r].pull
                                         /\ q \notin req[r].before
        /\ Done(r, "remove") /\ Removed(r) # {} =>
              \E q \in Requests : /\ Done(q, "assign") /\ req[r].label \in req[q].adds
                                  /\ req[q].pull = req[r].pull
                                  /\ q \notin req[r].before

\* Nothing is left of a label that was deleted, nor comes back.
DeletedStay ==
    \A r \in Requests : Done(r, "delete") =>
        /\ req[r].label \notin LabelIds
        /\ \A k \in links : k.label # req[r].label

(***************************************************************************)
(* What was answered ok holds: a column changed is as the last change left *)
(* it, though every change writes all of them (labels.py:241, :267);       *)
(* assignments and removals count in their order (:437, :485); and nothing *)
(* of a deleted label stays or comes back by a request that read it (:302).*)
(***************************************************************************)
LabelsHold == ColumnsKept /\ LinksKept /\ DeletedStay
=============================================================================
