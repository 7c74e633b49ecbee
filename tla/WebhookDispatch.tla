--------------------------- MODULE WebhookDispatch ---------------------------
(***************************************************************************)
(* The deliveries of webhook events of one repository.  A task is either   *)
(* dispatch_event_background for an event, or redeliver_delivery for a     *)
(* past delivery.  It POSTs to each webhook up to MaxAttempts times, adds  *)
(* a delivery row after each POST, and commits all its rows at the end, so *)
(* its transaction is open over every wait of every receiver.              *)
(*                                                                         *)
(* A delivery row references its webhook.  A row sent and not committed    *)
(* holds the webhook's row, and a deletion of the webhook waits for it;    *)
(* the insert waits for a deletion that is not committed, and fails when   *)
(* it is.                                                                  *)
(***************************************************************************)
EXTENDS Naturals, FiniteSets

CONSTANTS Hooks,        \* the ids webhooks can have
          Subscribers,  \* those whose events list has the event type
          Tasks,
          MaxAttempts   \* _MAX_ATTEMPTS

ASSUME WebhookConstantsOK ==
    /\ Hooks # {}
    /\ Subscribers \subseteq Hooks
    /\ MaxAttempts \in Nat \ {0}

VARIABLES hooks,     \* the committed webhook rows
          born,      \* the ids drawn so far
          deletion,  \* what delete_webhook is doing about a webhook
          log,       \* the committed delivery rows
          task,      \* the tasks
          posts      \* history: the POSTs made

vars == <<hooks, born, deletion, log, task, posts>>

\* A delivery row, and the POST it records.
Deliveries == [task : Tasks, hook : Hooks, attempt : 1..MaxAttempts, success : BOOLEAN]

\* chosen: the webhooks the task read; todo: those it has not come to yet;
\* rows: the rows it sent.
TaskStates ==
    [pc      : {"idle", "next", "post", "posted", "done", "lost"},
     chosen  : SUBSET Hooks,
     todo    : SUBSET Hooks,
     hook    : Hooks,
     attempt : 1..MaxAttempts,
     success : BOOLEAN,
     rows    : SUBSET Deliveries]

\* Stands in the record of a task that has no webhook in hand.
AnyHook == CHOOSE h \in Hooks : TRUE

TypeOK ==
    /\ hooks \subseteq Hooks
    /\ born \subseteq Hooks
    /\ deletion \in [Hooks -> {"none", "asked", "holding"}]
    /\ log \subseteq Deliveries
    /\ task \in [Tasks -> TaskStates]
    /\ posts \subseteq Deliveries

Init ==
    /\ hooks = {}
    /\ born = {}
    /\ deletion = [h \in Hooks |-> "none"]
    /\ log = {}
    /\ task = [t \in Tasks |-> [pc |-> "idle", chosen |-> {}, todo |-> {}, hook |-> AnyHook,
                                attempt |-> 1, success |-> FALSE, rows |-> {}]]
    /\ posts = {}

Running == {"next", "post", "posted"}

\* The delivery a task has just attempted.
Attempted(t) ==
    [task |-> t, hook |-> task[t].hook, attempt |-> task[t].attempt, success |-> task[t].success]

\* A row the task has sent keeps the webhook from being deleted.
Holds(t, h) == \E row \in task[t].rows : row.hook = h

-----------------------------------------------------------------------------
(* Tasks. *)

\* dispatch_event: the webhooks of the repository that want the event.
Dispatch(t) ==
    LET active == hooks \cap Subscribers
    IN  /\ task[t].pc = "idle"
        /\ task' = [task EXCEPT ![t].pc = "next", ![t].chosen = active, ![t].todo = active]
        /\ UNCHANGED <<hooks, born, deletion, log, posts>>

\* redeliver_delivery: one webhook, that of a row found by its id.
Redeliver(t) ==
    \E row \in log :
        /\ task[t].pc = "idle"
        /\ row.hook \in hooks
        /\ task' = [task EXCEPT ![t].pc = "next", ![t].chosen = {row.hook}, ![t].todo = {row.hook}]
        /\ UNCHANGED <<hooks, born, deletion, log, posts>>

\* The next webhook, in the order the query returned.
TakeHook(t) ==
    /\ task[t].pc = "next"
    /\ \E h \in task[t].todo :
          task' = [task EXCEPT ![t].pc = "post", ![t].todo = @ \ {h}, ![t].hook = h]
    /\ UNCHANGED <<hooks, born, deletion, log, posts>>

\* _attempt_delivery: a 2xx answer, any other answer, or none in time.
Post(t) ==
    /\ task[t].pc = "post"
    /\ \E success \in BOOLEAN :
          /\ task' = [task EXCEPT ![t].pc = "posted", ![t].success = success]
          /\ posts' = posts \cup {[task |-> t, hook |-> task[t].hook,
                                   attempt |-> task[t].attempt, success |-> success]}
    /\ UNCHANGED <<hooks, born, deletion, log>>

\* After a failed attempt that was not the last one, and a pause, another one.
Again(t) == ~task[t].success /\ task[t].attempt < MaxAttempts

\* Mutant: only the last attempt at a webhook is recorded.
FlushLast(t) ==
    LET h == task[t].hook
    IN  /\ task[t].pc = "posted"
        /\ h \in hooks
        /\ deletion[h] # "holding"
        /\ task' = [task EXCEPT
              ![t].rows = IF Again(t) THEN @ ELSE @ \cup {Attempted(t)},
              ![t].pc = IF Again(t) THEN "post" ELSE "next",
              ![t].attempt = IF Again(t) THEN @ + 1 ELSE 1,
              ![t].hook = IF Again(t) THEN @ ELSE AnyHook,
              ![t].success = FALSE]
        /\ UNCHANGED <<hooks, born, deletion, log, posts>>

\* Mutant: the row waits for a deletion that has only been asked for.
FlushWaits(t) ==
    LET h == task[t].hook
    IN  /\ task[t].pc = "posted"
        /\ h \in hooks
        /\ deletion[h] = "none"
        /\ task' = [task EXCEPT
              ![t].rows = @ \cup {Attempted(t)},
              ![t].pc = IF Again(t) THEN "post" ELSE "next",
              ![t].attempt = IF Again(t) THEN @ + 1 ELSE 1,
              ![t].hook = IF Again(t) THEN @ ELSE AnyHook,
              ![t].success = FALSE]
        /\ UNCHANGED <<hooks, born, deletion, log, posts>>

\* The row is sent, and the loop goes on.
Flush(t) ==
    LET h == task[t].hook
    IN  /\ task[t].pc = "posted"
        /\ h \in hooks
        /\ deletion[h] # "holding"
        /\ task' = [task EXCEPT
              ![t].rows = @ \cup {Attempted(t)},
              ![t].pc = IF Again(t) THEN "post" ELSE "next",
              ![t].attempt = IF Again(t) THEN @ + 1 ELSE 1,
              ![t].hook = IF Again(t) THEN @ ELSE AnyHook,
              ![t].success = FALSE]
        /\ UNCHANGED <<hooks, born, deletion, log, posts>>

\* The transaction is rolled back: nothing the task sent remains.
Rollback(t) ==
    /\ task' = [task EXCEPT ![t].pc = "lost", ![t].chosen = {}, ![t].todo = {}, ![t].hook = AnyHook,
                              ![t].attempt = 1, ![t].success = FALSE, ![t].rows = {}]
    /\ UNCHANGED <<hooks, born, deletion, log, posts>>

\* The webhook was deleted since the task read it.
FlushRefused(t) ==
    /\ task[t].pc = "posted"
    /\ task[t].hook \notin hooks
    /\ Rollback(t)

Commit(t) ==
    /\ task[t].pc = "next"
    /\ task[t].todo = {}
    /\ log' = log \cup task[t].rows
    /\ task' = [task EXCEPT ![t].pc = "done", ![t].rows = {}]
    /\ UNCHANGED <<hooks, born, deletion, posts>>

\* An exception that is no transport error, a failed commit, a dead process.
Fail(t) == task[t].pc \in Running /\ Rollback(t)

-----------------------------------------------------------------------------
(* Webhooks. *)

CreateWebhook(h) ==
    /\ h \notin born
    /\ born' = born \cup {h}
    /\ hooks' = hooks \cup {h}
    /\ UNCHANGED <<deletion, log, task, posts>>

\* delete_webhook finds the row.
DeleteAsk(h) ==
    /\ h \in hooks
    /\ deletion[h] = "none"
    /\ deletion' = [deletion EXCEPT ![h] = "asked"]
    /\ UNCHANGED <<hooks, born, log, task, posts>>

\* Its DELETE waits for the transactions that hold the row.
DeleteFlush(h) ==
    /\ deletion[h] = "asked"
    /\ \A t \in Tasks : ~Holds(t, h)
    /\ deletion' = [deletion EXCEPT ![h] = "holding"]
    /\ UNCHANGED <<hooks, born, log, task, posts>>

\* The commit removes the webhook and, by cascade, its deliveries.
DeleteCommit(h) ==
    /\ deletion[h] = "holding"
    /\ deletion' = [deletion EXCEPT ![h] = "none"]
    /\ hooks' = hooks \ {h}
    /\ log' = {row \in log : row.hook # h}
    /\ UNCHANGED <<born, task, posts>>

DeleteFail(h) ==
    /\ deletion[h] # "none"
    /\ deletion' = [deletion EXCEPT ![h] = "none"]
    /\ UNCHANGED <<hooks, born, log, task, posts>>

-----------------------------------------------------------------------------
Work(t) == TakeHook(t) \/ Post(t) \/ Flush(t) \/ FlushRefused(t) \/ Commit(t)

DeleteWork(h) == DeleteFlush(h) \/ DeleteCommit(h)

Next ==
    \/ \E t \in Tasks : Dispatch(t) \/ Redeliver(t) \/ Work(t) \/ Fail(t)
    \/ \E h \in Hooks : CreateWebhook(h) \/ DeleteAsk(h) \/ DeleteWork(h) \/ DeleteFail(h)

Spec == Init /\ [][Next]_vars

\* A POST ends by its timeout, a pause by its timer; who waits for a row is
\* queued by the database and not overtaken for ever.
FairSpec ==
    /\ Spec
    /\ \A t \in Tasks : SF_vars(Work(t))
    /\ \A h \in Hooks : SF_vars(DeleteWork(h))

-----------------------------------------------------------------------------
PostsOf(t, h) == {p \in posts : p.task = t /\ p.hook = h}

\* The rows are the POSTs of the tasks that committed, to the webhooks that
\* are left.
LogIsExact == log = {p \in posts : task[p.task].pc = "done" /\ p.hook \in hooks}

\* Attempts have no gap, and none follows a success.
Ordered(t, h) ==
    \A p \in PostsOf(t, h) :
        /\ \A q \in PostsOf(t, h) :
              /\ q.attempt = p.attempt => q = p
              /\ q.attempt < p.attempt => ~q.success
        /\ \A n \in 1..p.attempt : \E q \in PostsOf(t, h) : q.attempt = n

Served(t, h) == \E p \in PostsOf(t, h) : p.success \/ p.attempt = MaxAttempts

(***************************************************************************)
(* The delivery history is exact: a task that failed after some POSTs      *)
(* leaves none of them (musehub_webhook_dispatcher.py:430), and one that   *)
(* commits leaves all, though webhooks are deleted meanwhile.  A task      *)
(* attempts a webhook at most MaxAttempts times, without a gap, and stops  *)
(* at the first success (both attempt loops); and one that ends well has   *)
(* served every webhook it read, though some were deleted since: the last  *)
(* POST succeeded, or was the last one allowed.                            *)
(***************************************************************************)
DeliveriesExact ==
    /\ LogIsExact
    /\ \A t \in Tasks, h \in Hooks :
          /\ Ordered(t, h)
          /\ task[t].pc = "done" /\ h \in task[t].chosen => Served(t, h)

(***************************************************************************)
(* Every task ends, and so does every deletion, although each may wait for *)
(* the other's rows: no deadlock over a webhook and its deliveries.        *)
(***************************************************************************)
EveryoneEnds ==
    /\ \A t \in Tasks : task[t].pc = "next" ~> task[t].pc \in {"done", "lost"}
    /\ \A h \in Hooks : deletion[h] = "asked" ~> deletion[h] = "none"
=============================================================================
