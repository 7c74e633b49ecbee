---------------------------- MODULE ObjectStore ----------------------------
(***************************************************************************)
(* The objects of the repositories: a row in the database, keyed by the    *)
(* content hash alone, and a file on the server's disk.  Two protocols     *)
(* write them.  The wire push stores through the local storage backend;    *)
(* the REST push writes the file itself, under another name.  A file is    *)
(* written before the transaction with its row commits, in place, and is   *)
(* visible to every process at once; a row is visible at the commit.       *)
(***************************************************************************)
EXTENDS Naturals, FiniteSets

CONSTANTS
    Sessions,
    Repos,
    Objects,   \* content hashes
    Kinds,     \* the protocols in use, among "wire" and "ingest"
    DiesIn,    \* the values of pc at which the process may die
    NoObject,
    NoRow

ASSUME ObjectConstantsOK ==
    /\ Kinds \subseteq {"wire", "ingest"}
    /\ Repos # {}
    /\ NoObject \notin Objects
    /\ NoRow \notin [repo : Repos, via : Kinds]

VARIABLES
    rows,    \* object rows
    files,   \* files[repo][object][name]: how much of the file is there
    pc,
    req,     \* the request: kind, repo and objects pushed
    work,    \* objects still to do, the one in hand, rows added
    reply

vars == <<rows, files, pc, req, work, reply>>

\* The backend writes <repo>/<hash with "_" for ":">, the REST push
\* <repo>/<hash with "-" for ":">.
Names == {"backend", "ingest"}

NoRequest == [kind |-> "none", repo |-> CHOOSE r \in Repos : TRUE, objects |-> {}]
NoWork    == [todo |-> {}, current |-> NoObject, fresh |-> {}]

TypeOK ==
    /\ rows \in [Objects -> [repo : Repos, via : Kinds] \cup {NoRow}]
    /\ files \in [Repos -> [Objects -> [Names -> {"absent", "partial", "whole"}]]]
    /\ pc \in [Sessions -> {"idle", "begun", "loop", "put", "open", "write"}]
    /\ req \in [Sessions -> [kind : {"none", "wire", "ingest"}, repo : Repos, objects : SUBSET Objects]]
    /\ work \in [Sessions -> [todo : SUBSET Objects, current : Objects \cup {NoObject},
                              fresh : SUBSET Objects]]
    /\ reply \in [Sessions -> {"none", "ok", "refused", "failed"}]

Init ==
    /\ rows = [o \in Objects |-> NoRow]
    /\ files = [r \in Repos |-> [o \in Objects |-> [n \in Names |-> "absent"]]]
    /\ pc = [s \in Sessions |-> "idle"]
    /\ req = [s \in Sessions |-> NoRequest]
    /\ work = [s \in Sessions |-> NoWork]
    /\ reply = [s \in Sessions |-> "none"]

-----------------------------------------------------------------------------
Working(s) == pc[s] # "idle"

Registered == {o \in Objects : rows[o] # NoRow}

\* The objects filter-objects does not report missing for a repository.
Held(repo) == {o \in Registered : rows[o].repo = repo}

Finish(s, answer) ==
    /\ pc' = [pc EXCEPT ![s] = "idle"]
    /\ req' = [req EXCEPT ![s] = NoRequest]
    /\ work' = [work EXCEPT ![s] = NoWork]
    /\ reply' = [reply EXCEPT ![s] = answer]

\* The rows are rolled back; the files stay as they are.
Rollback(s, answer) == Finish(s, answer) /\ UNCHANGED <<rows, files>>

Goto(s, to) == pc' = [pc EXCEPT ![s] = to]

\* Mutant: the rows added before are forgotten.
AddRowLast(s) ==
    work' = [work EXCEPT ![s] = [todo |-> @.todo \ {@.current}, current |-> NoObject,
                                 fresh |-> {@.current}]]

\* The row of the object in hand is added to the transaction.
AddRow(s) ==
    work' = [work EXCEPT ![s] = [todo |-> @.todo \ {@.current}, current |-> NoObject,
                                 fresh |-> @.fresh \cup {@.current}]]

\* The file a request of the session writes for its object.
NameFor(kind) == IF kind = "wire" THEN "backend" ELSE "ingest"

FileState(s) == files[req[s].repo][work[s].current][NameFor(req[s].kind)]

SetFile(s, state) ==
    files' = [files EXCEPT ![req[s].repo][work[s].current][NameFor(req[s].kind)] = state]

-----------------------------------------------------------------------------
(* wire_push and wire_push_objects: the object loop *)

WireBegin(s, repo, objects) ==
    /\ "wire" \in Kinds
    /\ pc[s] = "idle"
    /\ Goto(s, "loop")
    /\ req' = [req EXCEPT ![s] = [kind |-> "wire", repo |-> repo, objects |-> objects]]
    /\ work' = [work EXCEPT ![s].todo = objects]
    /\ reply' = [reply EXCEPT ![s] = "none"]
    /\ UNCHANGED <<rows, files>>

\* An object with a row, in whatever repository, is skipped.
WireLook(s, o) ==
    /\ pc[s] = "loop"
    /\ req[s].kind = "wire"
    /\ o \in work[s].todo
    /\ IF o \in Registered
       THEN work' = [work EXCEPT ![s].todo = @ \ {o}] /\ UNCHANGED pc
       ELSE work' = [work EXCEPT ![s].current = o] /\ Goto(s, "put")
    /\ UNCHANGED <<rows, files, req, reply>>

\* LocalBackend._write: a file that exists is not written again.
PutCheck(s) ==
    /\ pc[s] = "put"
    /\ IF FileState(s) = "absent"
       THEN Goto(s, "open") /\ UNCHANGED work
       ELSE Goto(s, "loop") /\ AddRow(s)
    /\ UNCHANGED <<rows, files, req, reply>>

-----------------------------------------------------------------------------
(* ingest_push: the object step *)

IngestBegin(s, repo, objects) ==
    /\ "ingest" \in Kinds
    /\ pc[s] = "idle"
    /\ Goto(s, "begun")
    /\ req' = [req EXCEPT ![s] = [kind |-> "ingest", repo |-> repo, objects |-> objects]]
    /\ reply' = [reply EXCEPT ![s] = "none"]
    /\ UNCHANGED <<rows, files, work>>

\* Mutant: no object is skipped.
IngestFilterNone(s) ==
    /\ pc[s] = "begun"
    /\ Goto(s, "loop")
    /\ work' = [work EXCEPT ![s].todo = req[s].objects]
    /\ UNCHANGED <<rows, files, req, reply>>

\* One query finds the objects this repository has.
IngestFilter(s) ==
    /\ pc[s] = "begun"
    /\ Goto(s, "loop")
    /\ work' = [work EXCEPT ![s].todo = req[s].objects \ Held(req[s].repo)]
    /\ UNCHANGED <<rows, files, req, reply>>

\* _write_object writes the file without looking for one.
IngestNext(s, o) ==
    /\ pc[s] = "loop"
    /\ req[s].kind = "ingest"
    /\ o \in work[s].todo
    /\ work' = [work EXCEPT ![s].current = o]
    /\ Goto(s, "open")
    /\ UNCHANGED <<rows, files, req, reply>>

-----------------------------------------------------------------------------
(* write_bytes, and the end of a push of either kind *)

\* Mutant: an error of the write is swallowed.
OpenFileSwallow(s) ==
    /\ pc[s] = "open"
    /\ AddRow(s)
    /\ Goto(s, "loop")
    /\ UNCHANGED <<rows, files, req, reply>>

OpenFile(s) ==
    /\ pc[s] = "open"
    /\ SetFile(s, "partial")
    /\ Goto(s, "write")
    /\ UNCHANGED <<rows, req, work, reply>>

WriteFile(s) ==
    /\ pc[s] = "write"
    /\ SetFile(s, "whole")
    /\ AddRow(s)
    /\ Goto(s, "loop")
    /\ UNCHANGED <<rows, req, reply>>

\* The primary key is the hash: a row another session committed meanwhile,
\* for whatever repository, ends the transaction.
Commit(s) ==
    /\ pc[s] = "loop"
    /\ work[s].todo = {}
    /\ IF work[s].fresh \cap Registered # {} THEN Rollback(s, "failed")
       ELSE /\ rows' = [o \in Objects |->
                          IF o \in work[s].fresh
                          THEN [repo |-> req[s].repo, via |-> req[s].kind] ELSE rows[o]]
            /\ UNCHANGED files
            /\ Finish(s, "ok")

\* A wire push is refused as no fast-forward after its objects are written.
Refuse(s) ==
    /\ pc[s] = "loop"
    /\ req[s].kind = "wire"
    /\ work[s].todo = {}
    /\ Rollback(s, "refused")

\* The process dies, and with it its transaction.
Die(s) == pc[s] \in DiesIn /\ Rollback(s, "failed")

Step(s) ==
    \/ \E o \in Objects : WireLook(s, o) \/ IngestNext(s, o)
    \/ PutCheck(s)
    \/ IngestFilter(s)
    \/ OpenFile(s)
    \/ WriteFile(s)
    \/ Commit(s)
    \/ Refuse(s)

Next ==
    \E s \in Sessions :
        \/ \E repo \in Repos, objects \in (SUBSET Objects) \ {{}} :
              WireBegin(s, repo, objects) \/ IngestBegin(s, repo, objects)
        \/ Step(s)
        \/ Die(s)

Spec == Init /\ [][Next]_vars

\* A process that does not die carries its request to the end: only clients
\* may stop sending, and no step waits for another session.
FairSpec == Spec /\ \A s \in Sessions : WF_vars(Step(s))

-----------------------------------------------------------------------------
(* What the object store promises *)

\* The file a row stands for.
FileOf(o) == files[rows[o].repo][o][NameFor(rows[o].via)]

(***************************************************************************)
(* A committed row has a file: the bytes reach the disk before the commit, *)
(* and a rollback, a refusal or a death in between leaves at most a file   *)
(* without a row.                                                          *)
(***************************************************************************)
RowHasFile == \A o \in Registered : FileOf(o) # "absent"

(***************************************************************************)
(* The file of a committed row has all its bytes (the storage layout is    *)
(* documented as safe for concurrent writes, and an upload as repeatable). *)
(***************************************************************************)
RowMeansWhole == \A o \in Registered : FileOf(o) = "whole"

(***************************************************************************)
(* A file that a late writer truncated after its row was committed is      *)
(* whole again in the end and stays so: new pushes find the row and leave  *)
(* the file alone, so only the writers already past the check remain.      *)
(***************************************************************************)
TruncationHeals ==
    \A o \in Objects : rows[o] # NoRow ~> [](rows[o] # NoRow /\ FileOf(o) = "whole")

(***************************************************************************)
(* A push answered ok leaves every object it named in the repository it    *)
(* was pushed to, where filter-objects and fetch look for it.              *)
(***************************************************************************)
AnsweredOk(s) == Working(s) /\ ~Working(s)' /\ reply'[s] = "ok"

OkMeansHeld ==
    [][\A s \in Sessions, repo \in Repos :
          AnsweredOk(s) /\ req[s].repo = repo => req[s].objects \subseteq Held(repo)']_vars
=============================================================================
