------------------------------- MODULE Access -------------------------------
(***************************************************************************)
(* Who may do what with one repository: its owner, its collaborators, and  *)
(* the operations they guard, which are deletion, transfer, settings and   *)
(* the management of collaborators.  A request reads the repository for    *)
(* its guard, then the row of the caller, then the row it is about, and    *)
(* writes when it commits; rights it saw may be taken away by then.        *)
(***************************************************************************)
EXTENDS Naturals, FiniteSets

CONSTANTS Requests,   \* the calls of the operations, 1, 2, ...
          Users,
          Owner,      \* the user who created the repository
          Fields,     \* what settings change: columns and flags
          Flags,      \* the fields kept together in one JSON value
          Accepted,   \* users with an accepted admin row from the start
          Calls       \* the calls clients make

VARIABLES repo,     \* the repository row
          collab,   \* the committed collaborator rows
          req       \* the requests

vars == <<repo, collab, req>>

Permissions == {"read", "write", "admin", "owner"}

\* The request that inserted a row stands for its id, 0 for none of these.
Ids == Requests \cup {0}

Repos == [owner : Users, deleted : BOOLEAN, settings : [Fields -> Ids]]

Rows == [id : Ids, user : Users, permission : Permissions, accepted : BOOLEAN]

Managing == {"invite", "update", "remove"}

AllCalls ==
    [kind : {"delete", "transfer", "settings"} \cup Managing, actor : Users, target : Users,
     permission : Permissions, field : Fields]

\* seen: the repository as read last; found: the row it is about; may: history,
\* whether the caller had the right at some time since it began; before:
\* history, the requests that had ended when it began.
RequestStates ==
    [call   : Calls,
     seen   : Repos,
     found  : SUBSET Rows,
     pc     : {"idle", "repo", "actor", "target", "load", "writing", "refreshing", "ok", "unread", "refused", "error"},
     may    : BOOLEAN,
     before : SUBSET Requests]

TypeOK ==
    /\ repo \in Repos
    /\ collab \subseteq Rows
    /\ req \in [Requests -> RequestStates]

NoRequest == [call |-> CHOOSE c \in Calls : TRUE, seen |-> repo, found |-> {}, pc |-> "idle",
              may |-> FALSE, before |-> {}]

Init ==
    /\ repo = [owner |-> Owner, deleted |-> FALSE, settings |-> [f \in Fields |-> 0]]
    /\ collab = {[id |-> 0, user |-> u, permission |-> "admin", accepted |-> TRUE] : u \in Accepted}
    /\ req = [r \in Requests |-> NoRequest]

Call(r) == req[r].call

RowsOf(u) == {row \in collab : row.user = u}

\* "unread": committed, but the row was gone when it was read again.
Committed(r) == req[r].pc \in {"ok", "unread", "refreshing"}

Ended == {r \in Requests : req[r].pc \in {"ok", "unread", "refused", "error"}}

\* What the code means by the rights to a call.
Entitled(call, owner, rows) ==
    \/ call.actor = owner
    \/ /\ call.kind \in Managing
       /\ \E row \in rows : row.user = call.actor /\ row.permission \in {"admin", "owner"}
    \/ /\ call.kind = "settings"
       /\ \E row \in rows : row.user = call.actor /\ row.permission = "admin" /\ row.accepted

-----------------------------------------------------------------------------
\* Requests are named in the order they begin.
IsNext(r) == req[r].pc = "idle" /\ \A q \in Requests : q < r => req[q].pc # "idle"

Begin(r) ==
    /\ IsNext(r)
    /\ \E call \in Calls :
          req' = [req EXCEPT ![r].call = call, ![r].pc = "repo", ![r].before = Ended,
                             ![r].may = Entitled(call, repo.owner, collab)]
    /\ UNCHANGED <<repo, collab>>

Goto(r, pc) ==
    /\ req' = [req EXCEPT ![r].pc = pc]
    /\ UNCHANGED <<repo, collab>>

\* get_repo, and for an owner the guards.
ReadRepo(r) ==
    LET next == IF repo.deleted THEN "refused"
                ELSE IF Call(r).kind \in Managing THEN "actor"
                ELSE IF Call(r).actor = repo.owner THEN "load"
                ELSE IF Call(r).kind = "settings" THEN "actor"
                ELSE "refused"
    IN  /\ req[r].pc = "repo"
        /\ req' = [req EXCEPT ![r].pc = next, ![r].seen = repo]
        /\ UNCHANGED <<repo, collab>>

\* Mutant: any collaborator will do.
FindActorAny(r) ==
    /\ req[r].pc = "actor"
    /\ Goto(r, IF RowsOf(Call(r).actor) = {} /\ Call(r).actor # req[r].seen.owner THEN "refused"
               ELSE IF Call(r).kind = "settings" THEN "load" ELSE "target")

\* The row of the caller, against the owner as read before; _guard_admin
\* wants an accepted row, the management of collaborators does not.
FindActor(r) ==
    /\ req[r].pc = "actor"
    /\ Goto(r, IF ~Entitled(Call(r), req[r].seen.owner, collab) THEN "refused"
               ELSE IF Call(r).kind = "settings" THEN "load" ELSE "target")

\* The row it is about: none may be there for an invitation, and none with
\* the permission of an owner is changed or removed.
FindTarget(r) ==
    LET rows == RowsOf(Call(r).target)
        fits == IF Call(r).kind = "invite" THEN rows = {}
                ELSE \E row \in rows : row.permission # "owner"
    IN  /\ req[r].pc = "target"
        /\ req' = [req EXCEPT ![r].pc = IF fits THEN "writing" ELSE "refused",
                              ![r].found = IF fits THEN rows ELSE {}]
        /\ UNCHANGED <<repo, collab>>

\* The session has dropped the row the guard read, and reads it again;
\* settings are changed on a deleted repository too.
LoadRepo(r) ==
    /\ req[r].pc = "load"
    /\ req' = [req EXCEPT ![r].pc = IF repo.deleted /\ Call(r).kind # "settings" THEN "refused" ELSE "writing",
                          ![r].seen = repo]
    /\ UNCHANGED <<repo, collab>>

-----------------------------------------------------------------------------
(* The writes, at the commit. *)

Writing(r, kind) == req[r].pc = "writing" /\ Call(r).kind = kind

\* The answer; requests under way see the rights change.
Answer(r, pc) ==
    req' = [q \in Requests |->
               [req[q] EXCEPT !.pc = IF q = r THEN pc ELSE @,
                              !.may = @ \/ (/\ req[q].pc \notin {"idle", "ok", "unread", "refused", "error"}
                                            /\ q # r
                                            /\ Entitled(Call(q), repo'.owner, collab'))]]

CommitDelete(r) ==
    /\ Writing(r, "delete")
    /\ repo' = [repo EXCEPT !.deleted = TRUE]
    /\ UNCHANGED collab
    /\ Answer(r, "ok")

\* The owner is written when it differs from the one read.
CommitTransfer(r) ==
    /\ Writing(r, "transfer")
    /\ repo' = [repo EXCEPT !.owner = IF req[r].seen.owner = Call(r).target THEN @ ELSE Call(r).target]
    /\ UNCHANGED collab
    /\ Answer(r, "ok")

\* The flags as read, with the one given.
Merged(r) == [req[r].seen.settings EXCEPT ![Call(r).field] = r]

\* A column is written alone, a flag with all the others.
CommitSettings(r) ==
    /\ Writing(r, "settings")
    /\ repo' = [repo EXCEPT !.settings =
                   [f \in Fields |-> IF f = Call(r).field THEN r
                                     ELSE IF {f, Call(r).field} \subseteq Flags THEN Merged(r)[f]
                                     ELSE @[f]]]
    /\ UNCHANGED collab
    /\ Answer(r, "ok")

CommitInvite(r) ==
    /\ Writing(r, "invite")
    /\ RowsOf(Call(r).target) = {}
    /\ collab' = collab \cup {[id |-> r, user |-> Call(r).target, permission |-> Call(r).permission,
                               accepted |-> FALSE]}
    /\ UNCHANGED repo
    /\ Answer(r, "refreshing")

\* The row an update writes to: the one found, if it is there and if the
\* permission differs from that read.
Updated(r) ==
    {row \in collab : \E found \in req[r].found : row.id = found.id /\ row.user = found.user}

Differs(r) == \E found \in req[r].found : found.permission # Call(r).permission

CommitUpdate(r) ==
    /\ Writing(r, "update")
    /\ Differs(r) => Updated(r) # {}
    /\ collab' = IF Differs(r)
                 THEN (collab \ Updated(r))
                      \cup {[row EXCEPT !.permission = Call(r).permission] : row \in Updated(r)}
                 ELSE collab
    /\ UNCHANGED repo
    /\ Answer(r, "refreshing")

\* The unique key, or no row to update: an error either way.
Collides(r) ==
    /\ \/ Writing(r, "invite") /\ RowsOf(Call(r).target) # {}
       \/ Writing(r, "update") /\ Differs(r) /\ Updated(r) = {}
    /\ Goto(r, "error")

\* DELETE by repository and user, whatever the row is by now.
CommitRemove(r) ==
    /\ Writing(r, "remove")
    /\ collab' = collab \ RowsOf(Call(r).target)
    /\ UNCHANGED repo
    /\ Answer(r, "ok")

\* The refresh after an invitation or an update reads the row again.
Refresh(r) ==
    /\ req[r].pc = "refreshing"
    /\ Goto(r, IF RowsOf(Call(r).target) = {} THEN "unread" ELSE "ok")

\* Any failure before the commit, the death of the process included.
Fail(r) == req[r].pc \in {"repo", "actor", "target", "load", "writing"} /\ Goto(r, "error")

Next ==
    \E r \in Requests :
        \/ Begin(r) \/ ReadRepo(r) \/ FindActor(r) \/ FindTarget(r) \/ LoadRepo(r)
        \/ CommitDelete(r) \/ CommitTransfer(r) \/ CommitSettings(r)
        \/ CommitInvite(r) \/ CommitUpdate(r) \/ Collides(r) \/ CommitRemove(r)
        \/ Refresh(r) \/ Fail(r)

Spec == Init /\ [][Next]_vars

-----------------------------------------------------------------------------
\* Neither had ended when the other began.
Overlap(a, b) == a \notin req[b].before /\ b \notin req[a].before

Done(r, kind) == Committed(r) /\ Call(r).kind = kind

\* Nobody gets anything done who had not the right to it while the request
\* was under way: rights taken away by an answered request are gone.
Entitlement == \A r \in Requests : Committed(r) => req[r].may

\* An owner's permission goes only by a request that looked at the row
\* before it was given.
OwnersStay ==
    \A g \in Requests :
        /\ Done(g, "invite") \/ Done(g, "update")
        /\ Call(g).permission = "owner"
        => \/ \E row \in RowsOf(Call(g).target) : row.permission = "owner"
           \/ \E q \in Requests \ {g} :
                 /\ Done(q, "update") \/ Done(q, "remove")
                 /\ Call(q).target = Call(g).target
                 /\ Overlap(q, g)

\* What begins after a deletion was answered finds nothing.
DeletedIsGone ==
    \A d, r \in Requests : Done(d, "delete") /\ d \in req[r].before => ~Committed(r)

\* A setting answered ok is there until it is set again: the other flags,
\* written back with every flag, lose it only when the requests overlap.
PatchesKept ==
    \A r \in Requests : Done(r, "settings") =>
        LET f == Call(r).field
        IN  \/ repo.settings[f] = r
            \/ \E q \in Requests \ {r} :
                  /\ Done(q, "settings")
                  /\ \/ Call(q).field = f /\ q \notin req[r].before
                     \/ {f, Call(q).field} \subseteq Flags /\ Overlap(q, r)

(***************************************************************************)
(* Rights are those of the moment: only callers entitled while their       *)
(* request ran get through (repos.py:1206, :1320, collaborators.py:186),   *)
(* the rows of owners stay (collaborators.py:257), a deleted repository    *)
(* takes no further requests (repos.py:1239), and a setting stays as set   *)
(* (musehub_repository.py:2326): only requests that overlap break this.    *)
(***************************************************************************)
AccessHolds == Entitlement /\ OwnersStay /\ DeletedIsGone /\ PatchesKept
=============================================================================
