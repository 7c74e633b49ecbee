------------------------------- MODULE Listings -------------------------------
(***************************************************************************)
(* A client pages through a listing while rows are added to it and taken   *)
(* out of it.  Three kinds of listings, all newest first: the activity of  *)
(* a user, whose cursor is the last event of the page; the repositories of *)
(* a user, whose cursor is the date of the last one; and the events or     *)
(* commits of a repository, by page number.  A row gets its date before    *)
(* its transaction commits.                                                *)
(***************************************************************************)
EXTENDS Naturals, FiniteSets

CONSTANTS Ids,       \* of rows, in no relation to their dates
          MaxTime,   \* bound of the clock
          Limit      \* rows on a page, at least one

VARIABLES now, rows, walk

vars == <<now, rows, walk>>

Times == 1..MaxTime

\* "dated": not committed; "out": the client may not see it any more.
Rows == [id : Ids, at : Times, state : {"dated", "in", "out"}]

\* A page for every row and an empty one.
MaxPages == Cardinality(Ids) + 1

\* given: the pages so far, as sets; cursor: the row the next page starts
\* after; total: of the listing, as counted for a page; stayed: history, the
\* rows in it since the first page was asked for; late: history, a row came
\* in between the last count and its page.
Walks ==
    [kind   : {"activity", "repos", "pages"},
     pc     : {"idle", "reading", "counted", "done"},
     given  : [1..MaxPages -> SUBSET Ids],
     page   : Nat,
     total  : Nat,
     cursor : SUBSET Rows,
     stayed : SUBSET Ids,
     late   : BOOLEAN]

TypeOK ==
    /\ now \in Times
    /\ rows \subseteq Rows
    /\ walk \in Walks

Init ==
    /\ now = 1
    /\ rows = {}
    /\ walk \in [kind : {"activity", "repos", "pages"}, pc : {"idle"}, page : {0}, total : {0}, cursor : {{}},
                 given : {[p \in 1..MaxPages |-> {}]}, stayed : {{}}, late : {FALSE}]

IdsOf(rs) == {row.id : row \in rs}

In == {row \in rows : row.state = "in"}

-----------------------------------------------------------------------------
Tick == now < MaxTime /\ now' = now + 1 /\ UNCHANGED <<rows, walk>>

\* A transaction makes a row, which has its date from now on.
Draw(id) ==
    /\ id \notin IdsOf(rows)
    /\ rows' = rows \cup {[id |-> id, at |-> now, state |-> "dated"]}
    /\ UNCHANGED <<now, walk>>

Commit(row) ==
    /\ row.state = "dated"
    /\ rows' = (rows \ {row}) \cup {[row EXCEPT !.state = "in"]}
    /\ UNCHANGED <<now, walk>>

\* A repository is made private or given away; its rows stay, unseen.
Leave(row) ==
    /\ row.state = "in"
    /\ rows' = (rows \ {row}) \cup {[row EXCEPT !.state = "out"]}
    /\ walk' = [walk EXCEPT !.stayed = @ \ {row.id}]
    /\ UNCHANGED now

-----------------------------------------------------------------------------
\* The order of the activity: a is listed after b.
Before(a, b) == a.at < b.at \/ (a.at = b.at /\ a.id < b.id)

\* Mutant: the date of the cursor alone.
EligibleDate(kind) ==
    IF kind = "pages" THEN In ELSE {row \in In : \A c \in walk.cursor : row.at < c.at}

\* The rows a page is taken from: those after the cursor.
Eligible(kind) ==
    CASE kind = "activity" -> {row \in In : \A c \in walk.cursor : Before(row, c)}
      [] kind = "repos"    -> {row \in In : \A c \in walk.cursor : row.at < c.at}
      [] kind = "pages"    -> In

\* The n first of some rows, which ties leave open except in the activity.
Firsts(kind, rs, n) ==
    {top \in SUBSET rs :
        /\ Cardinality(top) = IF n < Cardinality(rs) THEN n ELSE Cardinality(rs)
        /\ \A a \in top, b \in rs \ top :
              IF kind = "activity" THEN Before(b, a) ELSE b.at <= a.at}

\* The last row of a page; rows of the same date are the same cursor.
Last(page) == {CHOOSE row \in page : \A other \in page : other = row \/ Before(row, other)}

Give(page, more) ==
    walk' = [walk EXCEPT !.given[walk.page + 1] = IdsOf(page),
                         !.page = @ + 1,
                         !.cursor = IF page = {} THEN {} ELSE Last(page),
                         !.stayed = IF walk.pc = "idle" THEN IdsOf(In) ELSE @,
                         !.late = walk.kind = "pages" /\ walk.total < Cardinality(In),
                         !.pc = IF more THEN "reading" ELSE "done"]

Reading == walk.pc \in {"idle", "reading"} /\ walk.page < MaxPages

\* list_user_activity: one row more than the page tells that there are more.
ReadActivity ==
    /\ Reading
    /\ walk.kind = "activity"
    /\ \E page \in Firsts("activity", Eligible("activity"), Limit) :
          Give(page, Cardinality(Eligible("activity")) > Limit)
    /\ UNCHANGED <<now, rows>>

\* list_repos_for_user: a full page tells that there may be more.
ReadRepos ==
    /\ Reading
    /\ walk.kind = "repos"
    /\ \E page \in Firsts("repos", Eligible("repos"), Limit) :
          Give(page, Cardinality(page) = Limit)
    /\ UNCHANGED <<now, rows>>

\* list_events, list_commits: the total, then offset and limit.
Count ==
    /\ Reading
    /\ walk.kind = "pages"
    /\ walk' = [walk EXCEPT !.pc = "counted", !.total = Cardinality(In),
                            !.stayed = IF walk.pc = "idle" THEN IdsOf(In) ELSE @]
    /\ UNCHANGED <<now, rows>>

ReadPage ==
    /\ walk.pc = "counted"
    /\ \E upto \in Firsts("pages", In, (walk.page + 1) * Limit) :
          \E skipped \in Firsts("pages", upto, walk.page * Limit) :
              Give(upto \ skipped, (walk.page + 1) * Limit < walk.total)
    /\ UNCHANGED <<now, rows>>

Next ==
    \/ Tick
    \/ \E id \in Ids : Draw(id)
    \/ \E row \in rows : Commit(row) \/ Leave(row)
    \/ ReadActivity \/ ReadRepos \/ Count \/ ReadPage

Spec == Init /\ [][Next]_vars

-----------------------------------------------------------------------------
Given == UNION {walk.given[p] : p \in 1..walk.page}

\* Two rows of one date, of which a cursor that is a date names neither.
Tied == {row.id : row \in {a \in rows : \E b \in rows : a.id # b.id /\ a.at = b.at}}

(***************************************************************************)
(* A walk that is done has given every row that was there all the time,    *)
(* whatever was added or left meanwhile: in the activity without exception *)
(* and without giving any twice (musehub_events.py:302), in the            *)
(* repositories but for rows of one date (musehub_repository.py:353), and  *)
(* by page number when no row left, no two have one date and none came     *)
(* between the last count and its page (musehub_events.py:159,             *)
(* musehub_repository.py:674).                                             *)
(***************************************************************************)
WalksCover ==
    /\ walk.pc = "done" =>
          /\ walk.kind = "activity" => walk.stayed \subseteq Given
          /\ walk.kind = "repos" => walk.stayed \ Tied \subseteq Given
          /\ walk.kind = "pages" /\ ~walk.late /\ Tied = {} /\ (\A row \in rows : row.state # "out") =>
                walk.stayed \subseteq Given
    /\ walk.kind # "pages" => \A p, q \in 1..walk.page : p # q => walk.given[p] \cap walk.given[q] = {}
=============================================================================
