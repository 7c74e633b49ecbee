-------------------------- MODULE MC_Collaboration --------------------------
(***************************************************************************)
(* Small instances of the modules of Collaboration.                        *)
(***************************************************************************)
EXTENDS Collaboration

(***************************************************************************)
(* One owner "o" and two others, of whom "a" is an admin from the start.   *)
(***************************************************************************)
Ask(kind, actor, target, permission, field) ==
    [kind |-> kind, actor |-> actor, target |-> target, permission |-> permission, field |-> field]

MCAskedCalls ==
    {Ask("delete", "b", "o", "read", "column"),
     Ask("transfer", "o", "b", "read", "column"),
     Ask("settings", "o", "o", "read", "flag1"),
     Ask("settings", "a", "o", "read", "flag2"),
     Ask("settings", "a", "o", "read", "column"),
     Ask("invite", "o", "b", "write", "column"),
     Ask("invite", "a", "b", "owner", "column"),
     Ask("update", "b", "a", "admin", "column"),
     Ask("update", "a", "b", "owner", "column"),
     Ask("remove", "o", "a", "read", "column"),
     Ask("remove", "b", "a", "read", "column"),
     Ask("remove", "a", "b", "read", "column")}

\* Pushes of the owner "u" of both repositories and of "v".
Store(user, to, objects) == [user |-> user, repo |-> to, objects |-> objects]

MCStorePushes == {Store("u", "x", {1, 2}), Store("u", "y", {3}), Store("u", "y", {2}), Store("v", "x", {3})}

\* Clients push tags in different orders; a clone has the ids of its source.
Tag(id, label) == [id |-> id, label |-> label]

MCTagPushes ==
    {[repo |-> "x", tags |-> <<Tag(1, "a"), Tag(2, "b")>>],
     [repo |-> "x", tags |-> <<Tag(4, "b"), Tag(3, "a")>>],
     [repo |-> "x", tags |-> <<Tag(5, "a"), Tag(6, "a")>>],
     [repo |-> "y", tags |-> <<Tag(1, "a")>>]}

\* Both repositories are of "u".
MCStoreOwner == [x \in {"x", "y"} |-> "u"]

MCObjectSize == <<1, 3, 3>>
=============================================================================
