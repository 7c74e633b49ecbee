-------------------------------- MODULE Pull --------------------------------
(***************************************************************************)
(* A pull of one branch, page by page, while pushes go on.  Each call of   *)
(* compute_pull_delta reads the branch head, then the commits, then one    *)
(* page of objects: three statements, each of which sees what is committed *)
(* when it runs.  The client repeats the call until has_more is false, in  *)
(* one of three ways:                                                      *)
(*   service  calls the service, with the cursor of the last answer;       *)
(*   have     uses the route, and adds what it received to have_objects;   *)
(*   cursor   uses the route as PullResponse says, with the cursor of the  *)
(*            last answer: the body of a request has no such field, and    *)
(*            the route passes none on.                                    *)
(***************************************************************************)
EXTENDS Naturals, Sequences, FiniteSets

CONSTANTS Clients,     \* the ways above that are taken
          Objects,     \* object ids, ordered as numbers from 1
          PageSize,    \* _PULL_OBJECTS_PAGE_SIZE
          MaxPushes    \* bound: pushes modelled

VARIABLES pushed,   \* the commits in the order they were pushed
          pull      \* the client

vars == <<pushed, pull>>

Branches == {"pulled", "other"}

Commits == DOMAIN pushed

Registered == UNION {pushed[c].objects : c \in Commits}

\* The branch column of a commit names the branch it was first pushed to.
OnBranch == {c \in Commits : pushed[c].branch = "pulled"}

\* 0 stands for no head, and no cursor.
HeadNow == CHOOSE c \in OnBranch \cup {0} : \A d \in OnBranch : d <= c

Init ==
    /\ pushed = <<>>
    /\ pull = [pc |-> "idle", way |-> "service", haveCommits |-> {}, haveObjects |-> {}, head |-> 0, commits |-> {},
               page |-> 1, cursor |-> 0, got |-> <<>>, first |-> {}, upTo |-> 0]

\* A push of either protocol commits a commit, the new head and the objects.
Push ==
    /\ Len(pushed) < MaxPushes
    /\ \E branch \in Branches, objects \in (SUBSET Objects) \ {{}} :
          pushed' = Append(pushed, [branch |-> branch, objects |-> objects])
    /\ UNCHANGED pull

Begin ==
    /\ pull.pc = "idle"
    /\ \E way \in Clients, commits \in SUBSET Commits, objects \in SUBSET Registered :
          pull' = [pull EXCEPT !.pc = "head", !.way = way,
                               !.haveCommits = commits, !.haveObjects = objects]
    /\ UNCHANGED pushed

ReadHead ==
    /\ pull.pc = "head"
    /\ pull' = [pull EXCEPT !.pc = "commits", !.head = HeadNow]
    /\ UNCHANGED pushed

ReadCommits ==
    /\ pull.pc = "commits"
    /\ pull' = [pull EXCEPT !.pc = "objects", !.commits = OnBranch \ pull.haveCommits]
    /\ UNCHANGED pushed

Received == {pull.got[i] : i \in DOMAIN pull.got}

\* The have_objects of a call.
Listed == IF pull.way = "have" THEN pull.haveObjects \cup Received ELSE pull.haveObjects

\* The objects query, before its limit.
Missing == {o \in Registered \ Listed : pull.way = "service" => o > pull.cursor}

\* The first n of a set of ids.
FirstOf(ids, n) == {o \in ids : Cardinality({x \in ids : x <= o}) <= n}

InOrder(ids) == [i \in 1..Cardinality(ids) |->
                    CHOOSE o \in ids : Cardinality({x \in ids : x <= o}) = i]

HasMore == Cardinality(Missing) > PageSize

\* Mutant: the row that only tells there is more becomes the cursor.
NextCursorExtra(page) ==
    CHOOSE o \in FirstOf(Missing, PageSize + 1) : \A x \in FirstOf(Missing, PageSize + 1) : x <= o

\* The last id of the page.
NextCursor(page) == CHOOSE o \in page : \A x \in page : x <= o

\* The page, and the answer; first and upTo: history, the commits of the
\* first answer and its head.
Answer ==
    LET page == FirstOf(Missing, PageSize)
    IN  /\ pull.pc = "objects"
        /\ pull' = [pull EXCEPT
              !.got = @ \o InOrder(page),
              !.cursor = IF HasMore THEN NextCursor(page) ELSE @,
              !.pc = IF HasMore THEN "head" ELSE "done",
              !.first = IF pull.page = 1 THEN pull.commits ELSE @,
              !.upTo = IF pull.page = 1 THEN pull.head ELSE @,
              !.page = 2]
        /\ UNCHANGED pushed

\* The call fails or its answer is lost: the client repeats it.
Lost ==
    /\ pull.pc \in {"commits", "objects"}
    /\ pull' = [pull EXCEPT !.pc = "head"]
    /\ UNCHANGED pushed

Next == Push \/ Begin \/ ReadHead \/ ReadCommits \/ Answer \/ Lost

Spec == Init /\ [][Next]_vars

-----------------------------------------------------------------------------
(***************************************************************************)
(* A pull that ends has brought the head its first answer named with the   *)
(* commits of the branch up to it, and every object of the commits in that *)
(* answer, each once, whatever is pushed between the pages and whichever   *)
(* call is repeated (musehub_sync.py:301, keyset pagination).              *)
(***************************************************************************)
PullComplete ==
    /\ \A i, j \in DOMAIN pull.got : pull.got[i] = pull.got[j] => i = j
    /\ pull.pc = "done" =>
          /\ \A c \in OnBranch : c <= pull.upTo => c \in pull.first \cup pull.haveCommits
          /\ \A c \in pull.first : pushed[c].objects \subseteq pull.haveObjects \cup Received

(***************************************************************************)
(* What musehub_sync.py:309 says of the cursor: the next page starts after *)
(* the last id of this one.                                                *)
(***************************************************************************)
NextPageAfter ==
    pull.way # "have" => \A i, j \in DOMAIN pull.got : i < j => pull.got[i] < pull.got[j]
=============================================================================
