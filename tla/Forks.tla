-------------------------------- MODULE Forks --------------------------------
(***************************************************************************)
(* Repositories of one slug, created or forked from each other, and the    *)
(* commits pushed to them.  A commit id is unique over all repositories,   *)
(* so a commit has one row, in the repository it was first pushed to; a    *)
(* fork copies the heads of its source and no commits.  One branch each;   *)
(* RefStore has the pushes to one repository in detail.                    *)
(***************************************************************************)
EXTENDS CommitGraph

CONSTANTS Requests,   \* the calls of the operations, 1, 2, ...
          Users,
          Commits     \* numbered in the order clients make them

VARIABLES repos,     \* the committed repositories
          place,     \* the repository of the row of each commit, 0 without one
          head,      \* the head of each repository's branch
          parents,   \* of the commits clients have made
          req        \* the requests

vars == <<repos, place, head, parents, req>>

\* A branch without a head.
None == 0

\* The request that created a repository stands for its id; the source of
\* one that is no fork is 0.
Ids0 == Requests \cup {0}

Repos == [id : Requests, owner : Users, source : Ids0]

\* repo: the source of a fork, or the repository pushed to; inserted: the
\* repository row is in its transaction; missing: the commits it will insert.
RequestStates ==
    [kind     : {"none", "create", "fork", "wire", "rest"},
     owner    : Users,
     repo     : Ids0,
     tip      : Commits \cup {None},
     bundle   : SUBSET Commits,
     missing  : SUBSET Commits,
     inserted : BOOLEAN,
     pc       : {"idle", "insert", "branches", "look", "writing", "ok", "refused", "error"}]

TypeOK ==
    /\ repos \subseteq Repos
    /\ place \in [Commits -> Ids0]
    /\ head \in [Requests -> Commits \cup {None}]
    /\ parents \in [DOMAIN parents -> SUBSET Commits]
    /\ DOMAIN parents \subseteq Commits
    /\ req \in [Requests -> RequestStates]

NoRequest == [kind |-> "none", owner |-> CHOOSE u \in Users : TRUE, repo |-> 0, tip |-> None,
              bundle |-> {}, missing |-> {}, inserted |-> FALSE, pc |-> "idle"]

Init ==
    /\ repos = {}
    /\ place = [c \in Commits |-> 0]
    /\ head = [r \in Requests |-> None]
    /\ parents = [c \in {} |-> {}]
    /\ req = [r \in Requests |-> NoRequest]

RepoIds == {x.id : x \in repos}

RepoOf(id) == CHOOSE x \in repos : x.id = id

\* A repository, its source, the source of that, ...
Lineage(id) ==
    LET up[n \in Nat] == IF n = 0 THEN {id} ELSE up[n - 1] \cup {x.source : x \in {y \in repos : y.id \in up[n - 1]}}
    IN  up[Cardinality(repos)] \ {0}

History(tip) == Walk(parents, {tip} \ {None})

-----------------------------------------------------------------------------
\* Requests are named in the order they begin.
IsNext(r) == req[r].pc = "idle" /\ \A q \in Requests : q < r => req[q].pc # "idle"

Create(r) ==
    /\ IsNext(r)
    /\ \E u \in Users :
          req' = [req EXCEPT ![r] = [NoRequest EXCEPT !.kind = "create", !.owner = u, !.pc = "insert"]]
    /\ UNCHANGED <<repos, place, head, parents>>

\* fork_repo has looked its source up.
Fork(r) ==
    /\ IsNext(r)
    /\ \E u \in Users, source \in RepoIds :
          req' = [req EXCEPT ![r] = [NoRequest EXCEPT !.kind = "fork", !.owner = u,
                                                      !.repo = source, !.pc = "insert"]]
    /\ UNCHANGED <<repos, place, head, parents>>

\* Another session has inserted the owner and the slug and not ended.
NameHeld(r) == \E q \in Requests : req[q].inserted /\ req[q].owner = req[r].owner

NameTaken(r) == \E x \in repos : x.owner = req[r].owner

\* What is left of a request that failed: what a retry sends again.
Refuse(r, pc) ==
    /\ req' = [req EXCEPT ![r] = [NoRequest EXCEPT !.kind = req[r].kind, !.pc = pc,
                                     !.repo = req[r].repo, !.tip = req[r].tip]]
    /\ UNCHANGED <<repos, place, head, parents>>

\* create_repo: the insert, flushed.
InsertRepo(r) ==
    /\ req[r].pc = "insert"
    /\ ~NameHeld(r)
    /\ ~NameTaken(r)
    /\ req' = [req EXCEPT ![r].inserted = TRUE,
                          ![r].pc = IF req[r].kind = "fork" THEN "branches" ELSE "writing"]
    /\ UNCHANGED <<repos, place, head, parents>>

\* The unique key of owner and slug: 409.
NameRefused(r) == req[r].pc = "insert" /\ NameTaken(r) /\ Refuse(r, "refused")

\* Mutant: the branches of that name in any repository.
CopyBranchesAny(r) ==
    /\ req[r].pc = "branches"
    /\ \E x \in RepoIds : req' = [req EXCEPT ![r].tip = head[x], ![r].pc = "writing"]
    /\ UNCHANGED <<repos, place, head, parents>>

\* list_branches of the source.
CopyBranches(r) ==
    /\ req[r].pc = "branches"
    /\ req' = [req EXCEPT ![r].tip = head[req[r].repo], ![r].pc = "writing"]
    /\ UNCHANGED <<repos, place, head, parents>>

\* With the row of a fork, its head and its lineage.
CommitRepo(r) ==
    /\ req[r].pc = "writing"
    /\ req[r].inserted
    /\ repos' = repos \cup {[id |-> r, owner |-> req[r].owner, source |-> req[r].repo]}
    /\ head' = [head EXCEPT ![r] = req[r].tip]
    /\ req' = [req EXCEPT ![r].pc = "ok", ![r].inserted = FALSE]
    /\ UNCHANGED <<place, parents>>

-----------------------------------------------------------------------------
(* Pushes.  A client works on what the head of its repository and those of *)
(* the lineage give access to, and sends what the head does not.           *)

Heads(x) == {head[y] : y \in Lineage(x)} \ {None}

StartPush(r, x, tip, ps) ==
    \E kind \in {"wire", "rest"} :
        req' = [req EXCEPT ![r] = [NoRequest EXCEPT
                   !.kind = kind, !.repo = x, !.tip = tip, !.pc = "look",
                   !.bundle = Walk(ps, {tip}) \ History(head[x])]]

Sent(x) == {req[q].tip : q \in {p \in Requests : req[p].kind \in {"wire", "rest"} /\ req[p].repo = x}}

\* A new commit on top of the head, or of it and the head of a source.
PushNew(r) ==
    /\ IsNext(r)
    /\ \E x \in RepoIds, c \in Commits \ DOMAIN parents : \E ps \in SUBSET Heads(x) :
          /\ head[x] # None => head[x] \in ps
          /\ Cardinality(ps) <= 2
          /\ \A d \in Commits \ DOMAIN parents : c <= d
          /\ parents' = [d \in DOMAIN parents \cup {c} |-> IF d = c THEN ps ELSE parents[d]]
          /\ StartPush(r, x, c, parents')
    /\ UNCHANGED <<repos, place, head>>

\* The fork is brought up to the head of a source, or a push is retried.
PushOld(r) ==
    /\ IsNext(r)
    /\ \E x \in RepoIds :
          \E tip \in (Heads(x) \cup Sent(x)) \ {head[x]} : StartPush(r, x, tip, parents)
    /\ UNCHANGED <<repos, place, head, parents>>

\* What the push will insert: a wire push looks for rows in all
\* repositories, a REST push in its own.
NotFound(r) ==
    {c \in req[r].bundle : IF req[r].kind = "wire" THEN place[c] = 0 ELSE place[c] # req[r].repo}

\* The rows are looked for, and the head with the fast-forward check.
FastForward(r) ==
    LET now == head[req[r].repo]
    IN  now = None \/ now \in Walk([c \in req[r].bundle |-> parents[c]], {req[r].tip})

Look(r) ==
    /\ req[r].pc = "look"
    /\ FastForward(r)
    /\ req' = [req EXCEPT ![r].missing = NotFound(r), ![r].pc = "writing"]
    /\ UNCHANGED <<repos, place, head, parents>>

PushRefused(r) == req[r].pc = "look" /\ ~FastForward(r) /\ Refuse(r, "refused")

CommitPush(r) ==
    /\ req[r].pc = "writing"
    /\ ~req[r].inserted
    /\ \A c \in req[r].missing : place[c] = 0
    /\ place' = [c \in Commits |-> IF c \in req[r].missing THEN req[r].repo ELSE place[c]]
    /\ head' = [head EXCEPT ![req[r].repo] = req[r].tip]
    /\ req' = [req EXCEPT ![r].pc = "ok", ![r].bundle = {}, ![r].missing = {}]
    /\ UNCHANGED <<repos, parents>>

\* A row with the key of a commit is there, in whatever repository.
Duplicate(r) ==
    /\ req[r].pc = "writing"
    /\ \E c \in req[r].missing : place[c] # 0
    /\ Refuse(r, "error")

\* Any failure before the commit, the death of the process included.
Fail(r) == req[r].pc \in {"insert", "branches", "look", "writing"} /\ Refuse(r, "error")

Next ==
    \E r \in Requests :
        \/ Create(r) \/ Fork(r) \/ InsertRepo(r) \/ NameRefused(r) \/ CopyBranches(r) \/ CommitRepo(r)
        \/ PushNew(r) \/ PushOld(r) \/ Look(r) \/ PushRefused(r)
        \/ CommitPush(r) \/ Duplicate(r) \/ Fail(r)

Spec == Init /\ [][Next]_vars

-----------------------------------------------------------------------------
\* wire_fetch from a repository: the walk goes through its own rows only.
Fetched(x) ==
    LET own == [c \in {d \in DOMAIN parents : place[d] = x} |-> parents[c]]
    IN  Walk(own, {head[x]} \ {None}) \cap DOMAIN own

(***************************************************************************)
(* What a fetch from a fork leaves out of its history is stored in its     *)
(* sources, where the comment of fork_repo says it is (social.py:686),     *)
(* although pushes to a fork skip what any repository has                  *)
(* (musehub_wire.py:248): as long as each commit is first pushed where it  *)
(* was made, or to a fork of that.                                         *)
(***************************************************************************)
LineageHolds ==
    \A x \in RepoIds :
        \A c \in History(head[x]) \ Fetched(x) :
            place[c] \in Lineage(x) \ {x}
=============================================================================
