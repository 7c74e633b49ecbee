--------------------------------- MODULE Quota ---------------------------------
(***************************************************************************)
(* The storage quota of muse_push, the push of the MCP tools.  What is     *)
(* stored in the repositories of the caller is summed up and compared      *)
(* before ingest_push stores the objects and the transaction commits.      *)
(* RefStore and ObjectStore have ingest_push in detail.                    *)
(***************************************************************************)
EXTENDS Naturals, FiniteSets, FiniteSetsExt

CONSTANTS Requests,   \* the pushes, 1, 2, ...
          Users,
          Repos,
          Owner,      \* [Repos -> Users]
          Objects,
          Size,       \* [Objects -> Nat], in bytes
          Pushes,     \* those clients make: by whom, where to, of what
          Limit       \* mcp_push_per_user_quota_bytes

VARIABLES deleted,   \* the repositories deleted, softly: their rows stay
          rows,      \* the committed object rows
          req        \* the requests

vars == <<deleted, rows, req>>

Rows == [object : Objects, repo : Repos]

\* adds: the objects it will insert; before: history, the requests that had
\* ended when it began.
RequestStates ==
    [user    : Users,
     repo    : Repos,
     objects : SUBSET Objects,
     adds    : SUBSET Objects,
     pc      : {"idle", "repo", "quota", "look", "writing", "ok", "refused", "error"},
     before  : SUBSET Requests]

TypeOK ==
    /\ deleted \subseteq Repos
    /\ rows \subseteq Rows
    /\ req \in [Requests -> RequestStates]

NoRequest == [user |-> CHOOSE u \in Users : TRUE, repo |-> CHOOSE x \in Repos : TRUE,
              objects |-> {}, adds |-> {}, pc |-> "idle", before |-> {}]

Init ==
    /\ deleted = {}
    /\ rows = {}
    /\ req = [r \in Requests |-> NoRequest]

Bytes(objects) == MapThenSumSet(LAMBDA o : Size[o], objects)

StoredIn(repos) == Bytes({row.object : row \in {w \in rows : w.repo \in repos}})

\* Mutant: the repository of the push alone.
UsedHere(user, repo) == StoredIn({repo} \ deleted)

\* The bytes in the repositories of the user that are not deleted.
Used(user, repo) == StoredIn({x \in Repos \ deleted : Owner[x] = user})

\* Three quarters of the length of the text: a size is rounded up to the
\* three bytes that four letters stand for.
Incoming(objects) == MapThenSumSet(LAMBDA o : 3 * ((Size[o] + 2) \div 3), objects)

Ended == {r \in Requests : req[r].pc \in {"ok", "refused", "error"}}

-----------------------------------------------------------------------------
\* Requests are named in the order they begin.
IsNext(r) == req[r].pc = "idle" /\ \A q \in Requests : q < r => req[q].pc # "idle"

MusePush(r) ==
    /\ IsNext(r)
    /\ \E p \in Pushes :
          req' = [req EXCEPT ![r] = [NoRequest EXCEPT !.user = p.user, !.repo = p.repo, !.objects = p.objects,
                                                      !.pc = "repo", !.before = Ended]]
    /\ UNCHANGED <<deleted, rows>>

Goto(r, pc) ==
    /\ req' = [req EXCEPT ![r].pc = pc]
    /\ UNCHANGED <<deleted, rows>>

GetRepo(r) == req[r].pc = "repo" /\ Goto(r, IF req[r].repo \in deleted THEN "refused" ELSE "quota")

CheckQuota(r) ==
    /\ req[r].pc = "quota"
    /\ Goto(r, IF Used(req[r].user, req[r].repo) + Incoming(req[r].objects) > Limit
               THEN "refused" ELSE "look")

\* ingest_push skips what its repository has.
Look(r) ==
    /\ req[r].pc = "look"
    /\ req' = [req EXCEPT ![r].pc = "writing",
                          ![r].adds = {o \in req[r].objects : [object |-> o, repo |-> req[r].repo] \notin rows}]
    /\ UNCHANGED <<deleted, rows>>

\* The key of a row is the object.
Taken(r) == req[r].adds \cap {row.object : row \in rows}

Commit(r) ==
    /\ req[r].pc = "writing"
    /\ Taken(r) = {}
    /\ rows' = rows \cup {[object |-> o, repo |-> req[r].repo] : o \in req[r].adds}
    /\ req' = [req EXCEPT ![r].pc = "ok", ![r].adds = {}]
    /\ UNCHANGED deleted

\* A duplicate key, or any other failure before the commit.
Fail(r) == req[r].pc \in {"repo", "quota", "look", "writing"} /\ Goto(r, "error")

DeleteRepo(x) ==
    /\ x \notin deleted
    /\ deleted' = deleted \cup {x}
    /\ UNCHANGED <<rows, req>>

Next ==
    \/ \E r \in Requests :
          MusePush(r) \/ GetRepo(r) \/ CheckQuota(r) \/ Look(r) \/ Commit(r) \/ Fail(r)
    \/ \E x \in Repos : DeleteRepo(x)

Spec == Init /\ [][Next]_vars

-----------------------------------------------------------------------------
\* Neither had ended when the other began.
Overlap(a, b) == a \notin req[b].before /\ b \notin req[a].before

Into(u) == {r \in Requests : req[r].pc = "ok" /\ Owner[req[r].repo] = u}

(***************************************************************************)
(* The bytes stored in the repositories of a user stay within the quota    *)
(* (musehub_mcp_executor.py:1329), in whichever of them they are, as long  *)
(* as the pushes of the user follow each other: only pushes that overlap,  *)
(* or those of others, which are compared with what these have, exceed it. *)
(***************************************************************************)
QuotaHolds ==
    \A u \in Users :
        \/ StoredIn({x \in Repos \ deleted : Owner[x] = u}) <= Limit
        \/ \E a, b \in Into(u) : a # b /\ Overlap(a, b)
        \/ \E a \in Into(u) : req[a].user # u
=============================================================================
