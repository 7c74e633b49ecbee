-------------------------------- MODULE Marks --------------------------------
(***************************************************************************)
(* The marks one user sets and takes back: stars, watches (follows and     *)
(* page views are kept in the same way) and reactions.  Each is a row with *)
(* a unique key.  A watch inserts and swallows the refusal of a duplicate; *)
(* a star looks first and fails on a duplicate; a reaction is toggled: it  *)
(* looks for the row in its repository, deletes it or inserts one, but the *)
(* key leaves the repository out.                                          *)
(***************************************************************************)
EXTENDS Naturals, FiniteSets

CONSTANTS Requests,   \* the calls of the operations, 1, 2, ...
          Repos       \* repositories that have a target of the same id

VARIABLES rows,   \* the committed rows
          req     \* the requests

vars == <<rows, req>>

Kinds == {"watch", "unwatch", "star", "unstar", "toggle"}

Tables == {"watches", "stars", "reactions"}

Table(kind) ==
    CASE kind \in {"watch", "unwatch"} -> "watches"
      [] kind \in {"star", "unstar"}   -> "stars"
      [] kind = "toggle"               -> "reactions"

\* The request that inserted a row stands for its id.
Rows == [id : Requests, table : Tables, repo : Repos]

\* seen: the row it found; count: the stars it counted; before: history, the
\* requests that had ended when it began.
RequestStates ==
    [kind   : Kinds,
     repo   : Repos,
     seen   : SUBSET Rows,
     count  : Nat,
     pc     : {"idle", "looking", "writing", "flushed", "on", "off", "error"},
     before : SUBSET Requests]

TypeOK ==
    /\ rows \subseteq Rows
    /\ req \in [Requests -> RequestStates]

NoRequest == [kind |-> "watch", repo |-> CHOOSE x \in Repos : TRUE, seen |-> {}, count |-> 0,
              pc |-> "idle", before |-> {}]

Init ==
    /\ rows = {}
    /\ req = [r \in Requests |-> NoRequest]

Ended == {r \in Requests : req[r].pc \in {"on", "off", "error"}}

NewRow(r) == [id |-> r, table |-> Table(req[r].kind), repo |-> req[r].repo]

\* The rows a request is about: its table's in its repository.
Own(r) == {row \in rows : row.table = Table(req[r].kind) /\ row.repo = req[r].repo}

\* The rows an insert collides with: the key of the reactions is the target
\* alone, that of the others has the repository.
Colliding(r) == IF req[r].kind = "toggle" THEN {row \in rows : row.table = "reactions"} ELSE Own(r)

-----------------------------------------------------------------------------
\* Requests are named in the order they begin.
IsNext(r) == req[r].pc = "idle" /\ \A q \in Requests : q < r => req[q].pc # "idle"

Begin(r) ==
    /\ IsNext(r)
    /\ \E kind \in Kinds, x \in Repos :
          req' = [req EXCEPT ![r] = [NoRequest EXCEPT
                     !.kind = kind, !.repo = x, !.before = Ended,
                     !.pc = IF kind \in {"watch", "unwatch"} THEN "writing" ELSE "looking"]]
    /\ UNCHANGED rows

\* Mutant: the row of the target in any repository.
FindAnywhere(r) ==
    /\ req[r].pc = "looking"
    /\ req' = [req EXCEPT ![r].pc = "writing", ![r].seen = Colliding(r)]
    /\ UNCHANGED rows

\* The look-up of star_repo, unstar_repo and toggle_reaction.
Find(r) ==
    /\ req[r].pc = "looking"
    /\ req' = [req EXCEPT ![r].pc = "writing", ![r].seen = Own(r)]
    /\ UNCHANGED rows

Writing(r, kinds) == req[r].pc = "writing" /\ req[r].kind \in kinds

Answer(r, pc) == req' = [req EXCEPT ![r].pc = pc, ![r].seen = {}]

\* watch_repo, follow_user, record_view, or a toggle that found no row:
\* inserted, or refused and rolled back, and answered all the same.
Add(r) ==
    /\ Writing(r, {"watch"}) \/ (Writing(r, {"toggle"}) /\ req[r].seen = {})
    /\ rows' = IF Colliding(r) = {} THEN rows \cup {NewRow(r)} ELSE rows
    /\ Answer(r, "on")

\* DELETE with the key.
Unwatch(r) ==
    /\ Writing(r, {"unwatch"})
    /\ rows' = rows \ Own(r)
    /\ Answer(r, "off")

\* DELETE with the id of the row found, which may be gone.
DeleteSeen(r) ==
    /\ (Writing(r, {"toggle"}) /\ req[r].seen # {}) \/ Writing(r, {"unstar"})
    /\ rows' = rows \ req[r].seen
    /\ Answer(r, "off")

\* The insert of a star is flushed before the stars are counted, and waits
\* for a transaction that has flushed the same.
Flushed(r) == req[r].pc = "flushed" /\ req[r].seen = {}

FlushStar(r) ==
    /\ Writing(r, {"star"})
    /\ req[r].seen = {} => Own(r) = {} /\ \A q \in Requests : Flushed(q) => req[q].repo # req[r].repo
    /\ req' = [req EXCEPT ![r].pc = "flushed",
                          ![r].count = Cardinality(Own(r) \cup (IF req[r].seen = {} THEN {NewRow(r)} ELSE {}))]
    /\ UNCHANGED rows

CommitStar(r) ==
    /\ req[r].pc = "flushed"
    /\ rows' = IF req[r].seen = {} THEN rows \cup {NewRow(r)} ELSE rows
    /\ Answer(r, "on")

\* The duplicate is refused, and nothing catches that.
Duplicate(r) ==
    /\ Writing(r, {"star"})
    /\ req[r].seen = {}
    /\ Own(r) # {}
    /\ Answer(r, "error")
    /\ UNCHANGED rows

\* Any failure before the commit, the death of the process included.
Fail(r) ==
    /\ req[r].pc \in {"looking", "writing", "flushed"}
    /\ Answer(r, "error")
    /\ UNCHANGED rows

Next ==
    \E r \in Requests :
        \/ Begin(r) \/ Find(r) \/ Add(r) \/ Unwatch(r) \/ DeleteSeen(r)
        \/ FlushStar(r) \/ CommitStar(r) \/ Duplicate(r) \/ Fail(r)

Spec == Init /\ [][Next]_vars

-----------------------------------------------------------------------------
SameMark(q, r) == Table(req[q].kind) = Table(req[r].kind) /\ req[q].repo = req[r].repo

\* Some other request about the same mark got an answer, and did not end
\* before r began.
NotBefore(r, answer) ==
    \E q \in Requests \ {r} : SameMark(q, r) /\ req[q].pc = answer /\ q \notin req[r].before

\* The same reaction in another repository, which keeps this one out.
Elsewhere(r) ==
    /\ req[r].kind = "toggle"
    /\ \E q \in Requests : /\ req[q].kind = "toggle"
                           /\ req[q].pc = "on"
                           /\ req[q].repo # req[r].repo
                           /\ r \notin req[q].before

(***************************************************************************)
(* A mark is as the last answers about it say: set, unless it was taken    *)
(* back or is kept out by one elsewhere, or taken back, unless it was set  *)
(* again, though duplicates are swallowed (social.py:371) and rows deleted *)
(* by the id of one that was found before; a key has one row; and the      *)
(* stars of the one user are counted as none or one (discover.py:104).     *)
(***************************************************************************)
MarksHold ==
    /\ \A a, b \in rows : a.table = b.table /\ a.repo = b.repo => a = b
    /\ \A r \in Requests :
          /\ req[r].pc = "on" => Own(r) # {} \/ NotBefore(r, "off") \/ Elsewhere(r)
          /\ req[r].pc = "off" => Own(r) = {} \/ NotBefore(r, "on")
          /\ req[r].count <= 1
=============================================================================
