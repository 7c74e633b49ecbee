----------------------------- MODULE RenderJobs -----------------------------
(***************************************************************************)
(* The render pipeline of one repository.  Every REST push starts a        *)
(* background task, which skips a commit that has a render job, and        *)
(* otherwise inserts the job, makes an image and an audio file of every    *)
(* MIDI object pushed, adds an object row for each content that has none,  *)
(* and commits everything at the end.                                      *)
(*                                                                         *)
(* A row added is sent to the database by the next query of the session.   *)
(* Keys are unique: an insert waits for a transaction that has inserted    *)
(* the same key, and fails if it commits.  A failed insert is caught       *)
(* together with the artifact in hand, but its transaction is rolled back  *)
(* and its session refuses everything that follows.                        *)
(***************************************************************************)
EXTENDS Naturals, Sequences, FiniteSets

CONSTANTS Tasks,
          Commits,
          Payloads,   \* for a commit, the sequences of MIDI objects pushed with it
          Stem,       \* the file name of a MIDI object, without its suffix
          Image,      \* the content of its piano roll; silent ones are alike
          Audio,      \* the content of its audio stub: its own bytes
          Uploaded    \* contents that have an object row from a push

VARIABLES objects,   \* the committed object rows made by the pipeline
          jobs,      \* the committed render jobs
          files,     \* the files below renders/, with their contents
          task       \* the tasks

vars == <<objects, jobs, files, task>>

AllPayloads == UNION {Payloads[c] : c \in Commits}

Midis == UNION {{p[i] : i \in DOMAIN p} : p \in AllPayloads}

Contents == {Image[m] : m \in Midis} \cup {Audio[m] : m \in Midis}

Files == [commit : Commits, stem : {Stem[m] : m \in Midis}, kind : {"image", "audio"}]

\* A row; its id is the hash of the content.
Objects == [id : Contents, file : Files]

Jobs == [commit : Commits, ids : SUBSET Contents]

\* at: the artifact in hand, two for each MIDI object; ids: the artifacts
\* done; job, sent: whether the job and which rows are in the transaction;
\* added: rows not sent yet; broken: the session refuses; before: history,
\* the tasks that had ended when it began.
TaskStates ==
    [pc      : {"idle", "gate", "insert", "write", "look", "done", "lost", "dead"},
     commit  : Commits,
     payload : AllPayloads,
     at      : Nat,
     ids     : SUBSET Contents,
     job     : BOOLEAN,
     sent    : SUBSET Objects,
     added   : SUBSET Objects,
     broken  : BOOLEAN,
     before  : SUBSET Tasks]

TypeOK ==
    /\ objects \subseteq Objects
    /\ jobs \subseteq Jobs
    /\ files \in [Files -> Contents \cup {"none"}]
    /\ task \in [Tasks -> TaskStates]

\* A task for a push of a commit with some objects.
Pushed(c, p) == [pc |-> "idle", commit |-> c, payload |-> p, at |-> 1, ids |-> {}, job |-> FALSE,
                 sent |-> {}, added |-> {}, broken |-> FALSE, before |-> {}]

Init ==
    /\ objects = {}
    /\ jobs = {}
    /\ files = [f \in Files |-> "none"]
    /\ task \in [Tasks -> UNION {{Pushed(c, p) : p \in Payloads[c]} : c \in Commits}]

Ended == {t \in Tasks : task[t].pc \in {"done", "lost", "dead"}}

-----------------------------------------------------------------------------
(* The artifacts of a task: image, audio, image, audio, ... *)

Last(t) == 2 * Len(task[t].payload)

Midi(t) == task[t].payload[(task[t].at + 1) \div 2]

Kind(t) == IF task[t].at % 2 = 1 THEN "image" ELSE "audio"

Content(t) == IF Kind(t) = "image" THEN Image[Midi(t)] ELSE Audio[Midi(t)]

\* Mutant: the name of the file leaves the commit out.
FileNameShort(t) == [commit |-> CHOOSE c \in Commits : TRUE, stem |-> Stem[Midi(t)], kind |-> Kind(t)]

\* renders/<commit>_<stem>...
FileName(t) == [commit |-> task[t].commit, stem |-> Stem[Midi(t)], kind |-> Kind(t)]

-----------------------------------------------------------------------------
(* The rows of open transactions. *)

Ids(rows) == {row.id : row \in rows}

JobExists(c) == \E j \in jobs : j.commit = c

\* The task whose uncommitted job t's insert of its own waits for.
JobHolder(t) == {u \in Tasks \ {t} : task[u].job /\ task[u].commit = task[t].commit}

\* The task whose uncommitted row t's next flush waits for.
RowHolder(t) == {u \in Tasks \ {t} : Ids(task[u].sent) \cap Ids(task[t].added) # {}}

\* A flush is due before a look-up and before the commit.
Flushing(t) ==
    /\ task[t].pc = "look" \/ (task[t].pc = "write" /\ task[t].at > Last(t))
    /\ ~task[t].broken

Waits(t, u) ==
    \/ task[t].pc = "insert" /\ u \in JobHolder(t)
    \/ Flushing(t) /\ u \in RowHolder(t)

Waiting(t) == \E u \in Tasks : Waits(t, u)

\* An object row with the key is committed.
Duplicate(t) == Ids(task[t].added) \cap Ids(objects) # {}

\* The database ends a cycle of waiting transactions by refusing an insert.
Deadlocked(t) ==
    \E s \in SUBSET Tasks :
        /\ t \in s
        /\ \A x \in s : (\E y \in s : Waits(x, y)) /\ (\E y \in s : Waits(y, x))

-----------------------------------------------------------------------------
(* The steps of a task. *)

\* The push has committed; its background task starts.
Begin(t) ==
    /\ task[t].pc = "idle"
    /\ task' = [task EXCEPT ![t].pc = "gate", ![t].before = Ended]
    /\ UNCHANGED <<objects, jobs, files>>

\* The idempotency gate.
Gate(t) ==
    /\ task[t].pc = "gate"
    /\ task' = [task EXCEPT ![t].pc = IF JobExists(task[t].commit) THEN "done" ELSE "insert"]
    /\ UNCHANGED <<objects, jobs, files>>

\* Mutant: a task that ends without its job waits to be started again.
EndWaiting(t, pc) ==
    /\ task' = [task EXCEPT ![t].pc = "idle", ![t].ids = {}, ![t].job = FALSE, ![t].sent = {},
                            ![t].added = {}, ![t].broken = FALSE]
    /\ UNCHANGED <<objects, jobs, files>>

\* The transaction is rolled back.
End(t, pc) ==
    /\ task' = [task EXCEPT ![t].pc = pc, ![t].ids = {}, ![t].job = FALSE, ![t].sent = {},
                            ![t].added = {}, ![t].broken = FALSE]
    /\ UNCHANGED <<objects, jobs, files>>

InsertJob(t) ==
    /\ task[t].pc = "insert"
    /\ ~JobExists(task[t].commit)
    /\ ~Waiting(t)
    /\ task' = [task EXCEPT ![t].pc = "write", ![t].job = TRUE]
    /\ UNCHANGED <<objects, jobs, files>>

\* Another task has committed the job since the gate.
JobRefused(t) == task[t].pc = "insert" /\ JobExists(task[t].commit) /\ End(t, "lost")

\* The file is written, over one of the same name.
WriteFile(t) ==
    /\ task[t].pc = "write"
    /\ task[t].at <= Last(t)
    /\ files' = [files EXCEPT ![FileName(t)] = Content(t)]
    /\ task' = [task EXCEPT ![t].pc = "look"]
    /\ UNCHANGED <<objects, jobs>>

\* An undecodable object or a full disk: the artifact is left out.
Skip(t) ==
    /\ task[t].pc = "write"
    /\ task[t].at <= Last(t)
    /\ task' = [task EXCEPT ![t].at = @ + 1]
    /\ UNCHANGED <<objects, jobs, files>>

\* _store_object: the query sends the row added before, and looks for one
\* with the content.
Look(t) ==
    LET sent  == task[t].sent \cup task[t].added
        known == Ids(sent) \cup Ids(objects) \cup Uploaded
    IN  /\ task[t].pc = "look"
        /\ ~task[t].broken
        /\ ~Waiting(t)
        /\ ~Duplicate(t)
        /\ task' = [task EXCEPT ![t].pc = "write", ![t].at = @ + 1, ![t].sent = sent,
                                ![t].added = IF Content(t) \in known THEN {}
                                             ELSE {[id |-> Content(t), file |-> FileName(t)]},
                                ![t].ids = @ \cup {Content(t)}]
        /\ UNCHANGED <<objects, jobs, files>>

\* The insert of the row added before is refused: all is rolled back.
LookRefused(t) ==
    /\ task[t].pc = "look"
    /\ ~task[t].broken
    /\ Duplicate(t) \/ Deadlocked(t)
    /\ task' = [task EXCEPT ![t].pc = "write", ![t].at = @ + 1, ![t].job = FALSE,
                            ![t].sent = {}, ![t].added = {}, ![t].broken = TRUE]
    /\ UNCHANGED <<objects, jobs, files>>

\* The session refuses the query; the next artifact is tried all the same.
LookBroken(t) ==
    /\ task[t].pc = "look"
    /\ task[t].broken
    /\ task' = [task EXCEPT ![t].pc = "write", ![t].at = @ + 1]
    /\ UNCHANGED <<objects, jobs, files>>

Finishing(t) == task[t].pc = "write" /\ task[t].at > Last(t)

Commit(t) ==
    /\ Finishing(t)
    /\ ~task[t].broken
    /\ ~Waiting(t)
    /\ ~Duplicate(t)
    /\ objects' = objects \cup task[t].sent \cup task[t].added
    /\ jobs' = jobs \cup {[commit |-> task[t].commit, ids |-> task[t].ids]}
    /\ task' = [task EXCEPT ![t].pc = "done", ![t].job = FALSE, ![t].sent = {}, ![t].added = {}]
    /\ UNCHANGED files

CommitRefused(t) ==
    /\ Finishing(t)
    /\ task[t].broken \/ Duplicate(t) \/ Deadlocked(t)
    /\ End(t, "lost")

\* The job and the artifacts are lost with the process; a file may be left.
Die(t) == task[t].pc \in {"gate", "insert", "write", "look"} /\ End(t, "dead")

-----------------------------------------------------------------------------
Work(t) ==
    \/ Gate(t) \/ InsertJob(t) \/ JobRefused(t) \/ WriteFile(t) \/ Look(t) \/ LookRefused(t)
    \/ LookBroken(t) \/ Commit(t) \/ CommitRefused(t)

Next == \E t \in Tasks : Begin(t) \/ Work(t) \/ Skip(t) \/ Die(t)

Spec == Init /\ [][Next]_vars

\* A task runs on; the database ends waits and cycles.
FairSpec == Spec /\ \A t \in Tasks : WF_vars(Work(t))

-----------------------------------------------------------------------------
\* Every artifact a committed job lists has an object row.
JobsHaveObjects ==
    \A j \in jobs : j.ids \subseteq Ids(objects) \cup Uploaded

\* The file a row names holds the content the row is the hash of.
RowNamesItsBytes == \A o \in objects : files[o.file] = o.id

Artifacts(t) ==
    LET midis == {task[t].payload[i] : i \in DOMAIN task[t].payload}
    IN  {Image[m] : m \in midis} \cup {Audio[m] : m \in midis}

\* A render is lost without a death only by running at the same time as
\* another that has the same commit or makes the same content.
LostByCollision ==
    \A t \in Tasks : task[t].pc = "lost" =>
        \E u \in Tasks \ {t} :
            /\ task[u].pc # "idle"
            /\ u \notin task[t].before
            /\ t \notin task[u].before
            /\ \/ task[u].commit = task[t].commit
               \/ Artifacts(u) \cap Artifacts(t) # {}

(***************************************************************************)
(* What a job lists can be read: every artifact has a row, though rows are *)
(* skipped for contents found elsewhere, and inserts are refused and their *)
(* exceptions caught one artifact at a time                                *)
(* (musehub_render_pipeline.py:223, :262); its file holds it, though tasks *)
(* write files before they know whether they need the row, and before they *)
(* fail (:107); and pushes that follow each other are all rendered (:21).  *)
(***************************************************************************)
RendersHold == JobsHaveObjects /\ RowNamesItsBytes /\ LostByCollision

(***************************************************************************)
(* Every task ends, though two may insert the same contents in opposite    *)
(* orders and wait for each other.                                         *)
(***************************************************************************)
TasksEnd == \A t \in Tasks : task[t].pc = "gate" ~> task[t].pc \in {"done", "lost", "dead"}
=============================================================================
