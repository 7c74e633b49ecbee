--------------------------- MODULE CacheAndRenders ---------------------------
(***************************************************************************)
(* RevocationCache and RenderJobs side by side.  They share no state and   *)
(* no row, so a behaviour exercises one of them, chosen at the start, and  *)
(* the states are the sum of theirs.                                       *)
(***************************************************************************)
EXTENDS RevocationCache, Sequences

CONSTANTS Tasks, Commits, Payloads, Stem, Image, Audio, Uploaded   \* of RenderJobs

VARIABLES part, objects, jobs, files, task

R == INSTANCE RenderJobs

\* What is pushed with a commit is a sequence of MIDI objects.
ASSUME PayloadsOK == \A c \in Commits : \A p \in Payloads[c] : p \in Seq(R!Midis)

renderVars == <<objects, jobs, files, task>>

BothInit == Init /\ R!Init /\ part \in {"cache", "renders"}

BothNext ==
    \/ part = "cache" /\ Next /\ UNCHANGED <<part, renderVars>>
    \/ part = "renders" /\ R!Next /\ UNCHANGED <<part, vars>>

BothSpec == BothInit /\ [][BothNext]_<<part, vars, renderVars>>

\* A request that waits for the database is answered, a task runs on.
BothFair ==
    /\ \A r \in Requests : WF_vars(Work(r))
    /\ \A t \in Tasks : WF_renderVars(R!Work(t))

-----------------------------------------------------------------------------
\* The artifacts of a job have rows, and their files the content, and only
\* overlapping renders are lost (RenderJobs).
RendersHold == R!RendersHold

\* Requests that ask the database are answered (dependencies.py:27) and render
\* tasks end (musehub_render_pipeline.py:310), whatever fails or waits.
EverythingEnds == RequestsAnswered /\ R!TasksEnd
=============================================================================
