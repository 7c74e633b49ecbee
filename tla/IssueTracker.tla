---------------------------- MODULE IssueTracker ----------------------------
(***************************************************************************)
(* The issues and milestones of one repository.  A number is the highest   *)
(* one plus 1, read before the insert, and no key makes it unique; every   *)
(* other operation finds its row by number and writes to it when it        *)
(* commits, if the row it loaded differs from what it sets.                *)
(***************************************************************************)
EXTENDS Naturals, FiniteSets

CONSTANTS Requests,   \* the calls of the operations
          Labels,     \* the labels an issue can have
          MaxNumber   \* numbers a client asks for are at most this

VARIABLES issues,       \* the committed issue rows
          milestones,   \* the committed milestone rows
          req           \* the requests

vars == <<issues, milestones, req>>

\* A NULL milestone_id; requests are numbered from 1.
NoMilestone == 0

\* Rows; the request that inserted a row stands for its id.
Issues == [id : Requests, number : Nat, labels : SUBSET Labels, milestone : Requests \cup {NoMilestone}]
Milestones == [id : Requests, number : Nat]

Kinds == {"issue", "milestone", "labels", "unlabel", "assign", "delete"}

\* number: the number drawn, or asked for; labels and milestone: those given,
\* in unlabel the labels to take away; seen, found: the issue and the
\* milestone it loaded; before: history, the requests ended when it began.
RequestStates ==
    [kind      : Kinds,
     number    : Nat,
     labels    : SUBSET Labels,
     milestone : Requests \cup {NoMilestone},
     seen      : SUBSET Issues,
     found     : SUBSET Milestones,
     pc        : {"idle", "looking", "checking", "writing", "ok", "failed"},
     before    : SUBSET Requests]

TypeOK ==
    /\ issues \subseteq Issues
    /\ milestones \subseteq Milestones
    /\ req \in [Requests -> RequestStates]

NoRequest == [kind |-> "issue", number |-> 0, labels |-> {}, milestone |-> NoMilestone,
              seen |-> {}, found |-> {}, pc |-> "idle", before |-> {}]

Init ==
    /\ issues = {}
    /\ milestones = {}
    /\ req = [r \in Requests |-> NoRequest]

Ended == {r \in Requests : req[r].pc \in {"ok", "failed"}}

\* Requests are named in the order they begin.
IsNext(r) == req[r].pc = "idle" /\ \A q \in Requests : q < r => req[q].pc # "idle"

\* An error ends a request without a trace.
Refuse(r) ==
    /\ req' = [req EXCEPT ![r] = [NoRequest EXCEPT !.pc = "failed"]]
    /\ UNCHANGED <<issues, milestones>>

Start(r, kind, number, labels, milestone) ==
    /\ IsNext(r)
    /\ req' = [req EXCEPT ![r] = [NoRequest EXCEPT !.kind = kind, !.number = number,
                                     !.labels = labels, !.milestone = milestone,
                                     !.pc = "looking", !.before = Ended]]
    /\ UNCHANGED <<issues, milestones>>

CreateIssue(r) == \E labels \in SUBSET Labels : Start(r, "issue", 0, labels, NoMilestone)

CreateMilestone(r) == Start(r, "milestone", 0, {}, NoMilestone)

\* assign_labels and update_issue: all the labels of the issue are replaced.
AssignLabels(r) ==
    \E n \in 1..MaxNumber, labels \in SUBSET Labels : Start(r, "labels", n, labels, NoMilestone)

RemoveLabel(r) == \E n \in 1..MaxNumber, l \in Labels : Start(r, "unlabel", n, {l}, NoMilestone)

\* The client names a milestone it once saw, or none.
SetIssueMilestone(r) ==
    \E n \in 1..MaxNumber :
    \E m \in {NoMilestone} \cup {q \in Requests : req[q].kind = "milestone" /\ req[q].pc = "ok"} :
        Start(r, "assign", n, {}, m)

DeleteMilestone(r) == \E n \in 1..MaxNumber : Start(r, "delete", n, {}, NoMilestone)

-----------------------------------------------------------------------------
(* The look-ups. *)

Looking(r, kinds) == req[r].pc = "looking" /\ req[r].kind \in kinds

\* _next_issue_number, _next_milestone_number.
NextNumber(rows) ==
    LET numbers == {0} \cup {row.number : row \in rows}
    IN  1 + CHOOSE n \in numbers : \A k \in numbers : k <= n

DrawNumber(r) ==
    /\ Looking(r, {"issue", "milestone"})
    /\ req' = [req EXCEPT ![r].pc = "writing",
                          ![r].number = NextNumber(IF req[r].kind = "issue" THEN issues ELSE milestones)]
    /\ UNCHANGED <<issues, milestones>>

IssueKinds == {"labels", "unlabel", "assign"}

Numbered(rows, n) == {row \in rows : row.number = n}

\* scalar_one_or_none: none, one, or an exception.
NotFound(r) ==
    LET rows == Numbered(IF req[r].kind = "delete" THEN milestones ELSE issues, req[r].number)
    IN  /\ Looking(r, IssueKinds \cup {"delete"})
        /\ Cardinality(rows) # 1
        /\ Refuse(r)

FindIssue(r) ==
    LET rows == Numbered(issues, req[r].number)
    IN  /\ Looking(r, IssueKinds)
        /\ Cardinality(rows) = 1
        /\ req' = [req EXCEPT ![r].seen = rows,
                              ![r].pc = IF req[r].milestone = NoMilestone THEN "writing" ELSE "checking"]
        /\ UNCHANGED <<issues, milestones>>

\* set_issue_milestone looks for the milestone too.
Known(r) == \E m \in milestones : m.id = req[r].milestone

CheckMilestone(r) ==
    /\ req[r].pc = "checking"
    /\ Known(r)
    /\ req' = [req EXCEPT ![r].pc = "writing"]
    /\ UNCHANGED <<issues, milestones>>

NoSuchMilestone(r) == req[r].pc = "checking" /\ ~Known(r) /\ Refuse(r)

FindMilestone(r) ==
    LET rows == Numbered(milestones, req[r].number)
    IN  /\ Looking(r, {"delete"})
        /\ Cardinality(rows) = 1
        /\ req' = [req EXCEPT ![r].found = rows, ![r].pc = "writing"]
        /\ UNCHANGED <<issues, milestones>>

-----------------------------------------------------------------------------
(* The writes, at the commit. *)

Writing(r, kind) == req[r].pc = "writing" /\ req[r].kind = kind

Answer(r) == req' = [req EXCEPT ![r].pc = "ok"]

InsertIssue(r) ==
    /\ Writing(r, "issue")
    /\ issues' = issues \cup {[id |-> r, number |-> req[r].number, labels |-> req[r].labels,
                               milestone |-> NoMilestone]}
    /\ Answer(r)
    /\ UNCHANGED milestones

InsertMilestone(r) ==
    /\ Writing(r, "milestone")
    /\ milestones' = milestones \cup {[id |-> r, number |-> req[r].number]}
    /\ Answer(r)
    /\ UNCHANGED issues

\* What the two label operations set, from the row they loaded.
LabelsFor(r, seen) == IF req[r].kind = "labels" THEN req[r].labels ELSE seen.labels \ req[r].labels

\* Mutant: a label is taken away when the row loaded has it no more.
UpdateLabelsLate(r) ==
    /\ Writing(r, "labels") \/ Writing(r, "unlabel")
    /\ \E seen \in req[r].seen :
          issues' = {IF row.id = seen.id /\ LabelsFor(r, seen) = seen.labels
                     THEN [row EXCEPT !.labels = LabelsFor(r, seen)] ELSE row : row \in issues}
    /\ Answer(r)
    /\ UNCHANGED milestones

\* A list equal to the loaded one is not written.
UpdateLabels(r) ==
    /\ Writing(r, "labels") \/ Writing(r, "unlabel")
    /\ \E seen \in req[r].seen :
          issues' = {IF row.id = seen.id /\ LabelsFor(r, seen) # seen.labels
                     THEN [row EXCEPT !.labels = LabelsFor(r, seen)] ELSE row : row \in issues}
    /\ Answer(r)
    /\ UNCHANGED milestones

\* The foreign key of the issue's milestone_id.
MilestoneThere(r) ==
    \/ req[r].milestone = NoMilestone
    \/ \E seen \in req[r].seen : seen.milestone = req[r].milestone
    \/ Known(r)

UpdateMilestoneOf(r) ==
    /\ Writing(r, "assign")
    /\ MilestoneThere(r)
    /\ \E seen \in req[r].seen :
          issues' = {IF row.id = seen.id /\ req[r].milestone # seen.milestone
                     THEN [row EXCEPT !.milestone = req[r].milestone] ELSE row : row \in issues}
    /\ Answer(r)
    /\ UNCHANGED milestones

\* The issues of the milestone lose it, those set meanwhile by the foreign
\* key; another deletion may have been first.
CommitDelete(r) ==
    /\ Writing(r, "delete")
    /\ milestones' = milestones \ req[r].found
    /\ issues' = {IF \E m \in req[r].found : m.id = row.milestone
                  THEN [row EXCEPT !.milestone = NoMilestone] ELSE row : row \in issues}
    /\ Answer(r)

\* The foreign key refuses the UPDATE; any failure before the commit; death.
Fail(r) == req[r].pc \in {"looking", "checking", "writing"} /\ Refuse(r)

-----------------------------------------------------------------------------
Next ==
    \E r \in Requests :
        \/ CreateIssue(r) \/ CreateMilestone(r) \/ AssignLabels(r) \/ RemoveLabel(r)
        \/ SetIssueMilestone(r) \/ DeleteMilestone(r)
        \/ DrawNumber(r) \/ NotFound(r) \/ FindIssue(r) \/ CheckMilestone(r)
        \/ NoSuchMilestone(r) \/ FindMilestone(r)
        \/ InsertIssue(r) \/ InsertMilestone(r) \/ UpdateLabels(r) \/ UpdateMilestoneOf(r)
        \/ CommitDelete(r) \/ Fail(r)

Spec == Init /\ [][Next]_vars

-----------------------------------------------------------------------------
\* There is no gap among the numbers of the issues, and an issue or milestone
\* created after another exists has a higher number.
NumbersInOrder ==
    /\ \A i \in issues : \A n \in 1..i.number : \E j \in issues : j.number = n
    /\ \A rows \in {issues, milestones} : \A a, b \in rows :
          a.id \in req[b.id].before => a.number < b.number

\* The milestone of an issue exists.
MilestonesExist ==
    \A i \in issues : i.milestone = NoMilestone \/ \E m \in milestones : m.id = i.milestone

LabelWriters == {"labels", "unlabel"}

\* A label taken away comes back only by a request that had not ended when
\* the removal began.
RemovalsHold ==
    \A r \in Requests : req[r].pc = "ok" /\ req[r].kind = "unlabel" =>
        \A seen \in req[r].seen : \A i \in issues :
            i.id = seen.id /\ req[r].labels \cap i.labels # {} =>
                \E q \in Requests \ {r} :
                    /\ q \notin req[r].before
                    /\ req[q].pc = "ok" /\ req[q].kind \in LabelWriters
                    /\ \E s \in req[q].seen : s.id = i.id

(***************************************************************************)
(* Issues and milestones are numbered in sequence, as the models of their  *)
(* tables say (musehub_models.py:331, :407), though creations fail and run *)
(* at the same time.  What requests set on an issue holds: its milestone   *)
(* exists, though it may be deleted between the look-up and the assignment *)
(* (musehub_issues.py:468, milestones.py:306), and a label taken away      *)
(* comes back only by a request that ran at the same time or later, which  *)
(* wrote a list it had loaded or was given (musehub_issues.py:433).        *)
(***************************************************************************)
TrackerHolds == NumbersInOrder /\ MilestonesExist /\ RemovalsHold
=============================================================================
