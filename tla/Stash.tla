-------------------------------- MODULE Stash --------------------------------
(***************************************************************************)
(* The stash of one user in one repository.  A push inserts a header and   *)
(* its entries in one transaction.  Pop, apply and drop look for the       *)
(* header, then pop and apply read the entries, then pop and drop delete   *)
(* both by the stash id and commit: three statements, each of which sees   *)
(* what is committed when it runs.                                         *)
(***************************************************************************)
EXTENDS Naturals, FiniteSets

CONSTANT Requests   \* the calls of the operations

VARIABLES headers,   \* the stashes that have a row
          entries,   \* those whose entries have rows
          req        \* the requests

vars == <<headers, entries, req>>

\* stash: the stash a request is about, named by the push that made it;
\* got: whether the entries were there when it read them; before: history,
\* the requests that had ended when it began.
RequestStates ==
    [kind   : {"push", "pop", "apply", "drop"},
     stash  : Requests,
     got    : BOOLEAN,
     pc     : {"idle", "looking", "reading", "writing", "ok", "missing", "error"},
     before : SUBSET Requests]

TypeOK ==
    /\ headers \subseteq Requests
    /\ entries \subseteq Requests
    /\ req \in [Requests -> RequestStates]

Init ==
    /\ headers = {}
    /\ entries = {}
    /\ req = [r \in Requests |-> [kind |-> "push", stash |-> r, got |-> FALSE,
                                  pc |-> "idle", before |-> {}]]

Ended == {r \in Requests : req[r].pc \in {"ok", "missing", "error"}}

Pushed == {r \in Requests : req[r].kind = "push" /\ req[r].pc = "ok"}

\* Requests are named in the order they begin.
IsNext(r) == req[r].pc = "idle" /\ \A q \in Requests : q < r => req[q].pc # "idle"

\* push_stash draws a new id and only inserts; the others take an id the
\* client once got.
Begin(r) ==
    /\ IsNext(r)
    /\ \/ req' = [req EXCEPT ![r].pc = "writing", ![r].before = Ended]
       \/ \E kind \in {"pop", "apply", "drop"}, s \in Pushed :
             req' = [req EXCEPT ![r] = [kind |-> kind, stash |-> s, got |-> FALSE,
                                        pc |-> "looking", before |-> Ended]]
    /\ UNCHANGED <<headers, entries>>

\* _get_stash_or_404.
FindHeader(r) ==
    /\ req[r].pc = "looking"
    /\ req' = [req EXCEPT ![r].pc = IF req[r].stash \notin headers THEN "missing"
                                    ELSE IF req[r].kind = "drop" THEN "writing" ELSE "reading"]
    /\ UNCHANGED <<headers, entries>>

\* _get_stash_entries; apply is done then.
ReadEntries(r) ==
    /\ req[r].pc = "reading"
    /\ req' = [req EXCEPT ![r].got = req[r].stash \in entries,
                          ![r].pc = IF req[r].kind = "apply" THEN "ok" ELSE "writing"]
    /\ UNCHANGED <<headers, entries>>

CommitPush(r) ==
    /\ req[r].pc = "writing"
    /\ req[r].kind = "push"
    /\ headers' = headers \cup {r}
    /\ entries' = entries \cup {r}
    /\ req' = [req EXCEPT ![r].pc = "ok"]

\* Mutant: the entries are deleted and committed before the header.
CommitDeleteTwice(r) ==
    /\ req[r].pc = "writing"
    /\ req[r].kind \in {"pop", "drop"}
    /\ entries' = entries \ {req[r].stash}
    /\ headers' = IF req[r].stash \in entries THEN headers ELSE headers \ {req[r].stash}
    /\ req' = [req EXCEPT ![r].pc = IF req[r].stash \in entries THEN "writing" ELSE "ok"]

\* Deletes what is left of the stash, which may be nothing.
CommitDelete(r) ==
    /\ req[r].pc = "writing"
    /\ req[r].kind \in {"pop", "drop"}
    /\ headers' = headers \ {req[r].stash}
    /\ entries' = entries \ {req[r].stash}
    /\ req' = [req EXCEPT ![r].pc = "ok"]

\* Any failure before the commit, the death of the process included.
Fail(r) ==
    /\ req[r].pc \in {"looking", "reading", "writing"}
    /\ req' = [req EXCEPT ![r].pc = "error"]
    /\ UNCHANGED <<headers, entries>>

Next ==
    \E r \in Requests :
        Begin(r) \/ FindHeader(r) \/ ReadEntries(r) \/ CommitPush(r) \/ CommitDelete(r) \/ Fail(r)

Spec == Init /\ [][Next]_vars

-----------------------------------------------------------------------------
DonePop(r, s) == req[r].kind = "pop" /\ req[r].stash = s /\ req[r].pc = "ok"

\* A pop that had read the entries was answered, or a drop was.
HandedOut(s) ==
    \/ \E r \in Requests : DonePop(r, s) /\ req[r].got
    \/ \E r \in Requests : req[r].kind = "drop" /\ req[r].stash = s /\ req[r].pc = "ok"

\* A stash answered ok is there with all its entries, or was handed out.
StillThereOrHandedOut(s) == (s \in headers /\ s \in entries) \/ HandedOut(s)

(***************************************************************************)
(* Stashed work is neither lost nor handed out again and again: it is      *)
(* there, was dropped, or was in the answer of a pop (stash.py:319),       *)
(* however requests and failures interleave; and a pop that began after    *)
(* another one was answered is not answered.                               *)
(***************************************************************************)
NothingLost ==
    \A s \in Pushed :
        /\ StillThereOrHandedOut(s)
        /\ \A p, q \in Requests : p # q /\ DonePop(p, s) /\ DonePop(q, s) => p \notin req[q].before
=============================================================================
