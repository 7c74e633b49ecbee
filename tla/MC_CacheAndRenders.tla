-------------------------- MODULE MC_CacheAndRenders --------------------------
(***************************************************************************)
(* A small instance of CacheAndRenders.  The renders are of three MIDI     *)
(* objects.  "a" and "b" belong to two commits, whose pushes list them in  *)
(* opposite orders; a third commit has "b", and "c" in the place of "a".   *)
(* "b" and "c" are silent, so both have the blank image; "a" was uploaded  *)
(* under its hash.                                                         *)
(***************************************************************************)
EXTENDS CacheAndRenders

CONSTANTS c1, c2, c3

MCCommits == {c1, c2, c3}
MCPayloads == [c \in MCCommits |-> CASE c = c1 -> {<<"a", "b">>}
                                     [] c = c2 -> {<<"b", "a">>}
                                     [] c = c3 -> {<<"c", "b">>}]
MCStem == [m \in {"a", "b", "c"} |-> IF m = "b" THEN "bass" ELSE "lead"]
MCImage == [m \in {"a", "b", "c"} |-> IF m = "a" THEN "roll" ELSE "blank"]
MCAudio == [m \in {"a", "b", "c"} |-> m]

MCInit ==
    /\ BothInit
    \* One initial state is enough for the part that stands still.
    /\ part = "cache" => \A t \in Tasks : task[t].commit = c1
    \* Workers are alike: the first request comes to the first of them.
    /\ req[CHOOSE r \in Requests : TRUE].worker = CHOOSE w \in Workers : TRUE
    /\ part = "renders" => /\ \A t \in Tokens : rows[t] = "valid"
                           /\ \A r \in Requests : req[r].worker = CHOOSE w \in Workers : TRUE

MCSpec == MCInit /\ [][BothNext]_<<part, vars, renderVars>> /\ BothFair
=============================================================================
