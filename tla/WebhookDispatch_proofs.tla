------------------------ MODULE WebhookDispatch_proofs ------------------------
(***************************************************************************)
(* Safety of WebhookDispatch for every set of webhooks and tasks and any   *)
(* number of attempts.  DeliveriesExact speaks of the tasks that have      *)
(* ended; the inductive invariant says what the rows and the POSTs of a    *)
(* task are on the way there, and which webhooks its rows hold.            *)
(***************************************************************************)
EXTENDS WebhookDispatch, TLAPS

OwnPosts(t) == {p \in posts : p.task = t}

\* Ids are drawn before they are used and never twice; only a webhook that
\* exists is being deleted.
IdsDrawn ==
    /\ hooks \subseteq born
    /\ \A p \in posts : p.hook \in born
    /\ \A t \in Tasks : task[t].chosen \subseteq born
    /\ \A h \in Hooks : deletion[h] # "none" => h \in hooks

\* The rows of a task are its POSTs, but for the one it has just made.
RowsArePosts(t) ==
    /\ task[t].pc \in {"next", "post"} => task[t].rows = OwnPosts(t)
    /\ task[t].pc = "posted" => /\ Attempted(t) \in posts
                                /\ task[t].rows = OwnPosts(t) \ {Attempted(t)}
    /\ task[t].pc \in {"idle", "done", "lost"} => task[t].rows = {}

\* The webhooks of rows that are not committed cannot go.
RowsHold(t) == \A row \in task[t].rows : row.hook \in hooks /\ deletion[row.hook] # "holding"

\* Every webhook the task is through with is served, and every POST was to one
\* of those or to the one in hand.
Progress(t) ==
    /\ task[t].pc = "idle" => OwnPosts(t) = {}
    /\ task[t].pc # "lost" =>
          /\ task[t].todo \subseteq task[t].chosen
          /\ \A p \in OwnPosts(t) : p.hook \in task[t].chosen \ task[t].todo
          /\ \A h \in task[t].chosen \ task[t].todo :
                Served(t, h) \/ (task[t].pc \in {"post", "posted"} /\ h = task[t].hook)
    /\ task[t].pc \in {"post", "posted"} => task[t].hook \in task[t].chosen \ task[t].todo
    /\ task[t].pc \in {"idle", "next"} => task[t].attempt = 1
    /\ task[t].pc = "done" => task[t].todo = {}

\* The POSTs to the webhook in hand, before and after the attempt: all but the
\* last of them failed, and there is one for each number so far.
AttemptsSoFar(t) ==
    LET mine == PostsOf(t, task[t].hook)
        n    == task[t].attempt
    IN  /\ task[t].pc = "post" =>
              /\ \A p \in mine : p.attempt < n /\ ~p.success
              /\ \A k \in 1..(n - 1) : \E p \in mine : p.attempt = k
        /\ task[t].pc = "posted" =>
              \A p \in mine : p = Attempted(t) \/ (p.attempt < n /\ ~p.success)

TaskRight(t) ==
    /\ RowsArePosts(t)
    /\ RowsHold(t)
    /\ Progress(t)
    /\ AttemptsSoFar(t)
    /\ \A h \in Hooks : Ordered(t, h)

IInv ==
    /\ TypeOK
    /\ IdsDrawn
    /\ LogIsExact
    /\ \A t \in Tasks : TaskRight(t)

-----------------------------------------------------------------------------
LEMMA InitTyped == Init => TypeOK
BY WebhookConstantsOK DEF WebhookConstantsOK, Init, TypeOK, AnyHook, TaskStates

LEMMA InitRight == Init => IInv
<1>. SUFFICES ASSUME Init PROVE IInv
  OBVIOUS
<1>1. TypeOK
  BY InitTyped
<1>2. IdsDrawn /\ LogIsExact
  BY DEF Init, IdsDrawn, LogIsExact
<1>3. ASSUME NEW t \in Tasks PROVE TaskRight(t)
  BY DEF Init, TaskRight, RowsArePosts, RowsHold, Progress, AttemptsSoFar, Ordered, OwnPosts, PostsOf
<1>. QED
  BY <1>1, <1>2, <1>3 DEF IInv

-----------------------------------------------------------------------------
(***************************************************************************)
(* The POSTs of a task to one webhook are among its own.                   *)
(***************************************************************************)
LEMMA PostsAreOwn ==
    ASSUME NEW t, NEW h
    PROVE  PostsOf(t, h) = {p \in OwnPosts(t) : p.hook = h}
BY DEF PostsOf, OwnPosts

(***************************************************************************)
(* What holds of a task depends on its record, its POSTs and the webhooks  *)
(* of its rows alone.                                                      *)
(***************************************************************************)
LEMMA OthersStayRight ==
    ASSUME NEW x \in Tasks, TaskRight(x),
           task'[x] = task[x], OwnPosts(x)' = OwnPosts(x), RowsHold(x)'
    PROVE  TaskRight(x)'
<1>1. \A h : PostsOf(x, h)' = PostsOf(x, h)
  BY PostsAreOwn DEF PostsOf, OwnPosts
<1>2. Attempted(x)' = Attempted(x) /\ (Attempted(x) \in posts => Attempted(x) \in posts')
  BY DEF Attempted, OwnPosts
<1>3. RowsArePosts(x)'
  BY <1>2 DEF TaskRight, RowsArePosts
<1>4. \A h : Served(x, h)' <=> Served(x, h)
  BY <1>1 DEF Served
<1>5. Progress(x)'
  BY <1>4 DEF TaskRight, Progress
<1>6. AttemptsSoFar(x)'
  BY <1>1, <1>2 DEF TaskRight, AttemptsSoFar
<1>7. \A h \in Hooks : Ordered(x, h)'
  BY <1>1 DEF TaskRight, Ordered
<1>. QED
  BY <1>3, <1>5, <1>6, <1>7 DEF TaskRight

(***************************************************************************)
(* Task t becomes o, and may have made a POST.                             *)
(***************************************************************************)
Becomes(t, o) ==
    /\ o \in TaskStates
    /\ task' = [task EXCEPT ![t] = o]
    /\ posts \subseteq posts'
    /\ posts' \subseteq Deliveries
    /\ \A p \in posts' \ posts : p.task = t /\ p.hook \in born
    /\ o.chosen \subseteq born
    /\ UNCHANGED <<hooks, born, deletion>>

LEMMA TaskStep ==
    ASSUME IInv, NEW t \in Tasks, NEW o, Becomes(t, o),
           log' \subseteq Deliveries, LogIsExact', TaskRight(t)'
    PROVE  IInv'
<1>1. /\ task' \in [Tasks -> TaskStates]
      /\ task'[t] = o
      /\ \A x \in Tasks : x # t => task'[x] = task[x]
  BY DEF IInv, TypeOK, Becomes
<1>2. TypeOK'
  BY <1>1 DEF IInv, TypeOK, Becomes
<1>3. IdsDrawn'
  BY <1>1 DEF IInv, IdsDrawn, Becomes
<1>4. ASSUME NEW x \in Tasks, x # t PROVE TaskRight(x)'
  <2>1. OwnPosts(x)' = OwnPosts(x)
    BY <1>4 DEF OwnPosts, Becomes
  <2>2. RowsHold(x)'
    BY <1>1, <1>4 DEF IInv, TaskRight, RowsHold, Becomes
  <2>. QED
    BY <1>1, <1>4, <2>1, <2>2, OthersStayRight DEF IInv
<1>. QED
  BY <1>2, <1>3, <1>4 DEF IInv

(***************************************************************************)
(* A task that has not committed and does not shows in no delivery row.    *)
(***************************************************************************)
LEMMA LogStays ==
    ASSUME IInv, NEW t \in Tasks, NEW o, Becomes(t, o),
           task[t].pc # "done", o.pc # "done", UNCHANGED log
    PROVE  LogIsExact' /\ log' \subseteq Deliveries
<1>1. /\ task'[t] = o
      /\ \A x \in Tasks : x # t => task'[x] = task[x]
  BY DEF IInv, TypeOK, Becomes
<1>2. \A p \in posts' : p.task \in Tasks
  BY DEF Becomes, Deliveries
<1>3. \A p \in posts' : task'[p.task].pc = "done" => p \in posts /\ task[p.task].pc = "done"
  BY <1>1, <1>2 DEF Becomes
<1>4. \A p \in posts : task[p.task].pc = "done" => task'[p.task].pc = "done"
  BY <1>1, <1>2 DEF Becomes
<1>. QED
  BY <1>3, <1>4 DEF IInv, TypeOK, LogIsExact, Becomes

-----------------------------------------------------------------------------
(***************************************************************************)
(* The steps of a task that make no POST: what it did so far stays.        *)
(***************************************************************************)
LEMMA StartRight ==
    ASSUME IInv, NEW t \in Tasks, NEW wanted \in SUBSET (Hooks \cap born), task[t].pc = "idle",
           task' = [task EXCEPT ![t].pc = "next", ![t].chosen = wanted, ![t].todo = wanted],
           UNCHANGED <<hooks, born, deletion, log, posts>>
    PROVE  IInv'
<1>. DEFINE o == [task[t] EXCEPT !.pc = "next", !.chosen = wanted, !.todo = wanted]
<1>1. TypeOK /\ TaskRight(t) /\ task[t] \in TaskStates
  BY DEF IInv, TypeOK
<1>2. /\ o \in TaskStates
      /\ o.pc = "next" /\ o.chosen = wanted /\ o.todo = wanted /\ o.hook = task[t].hook
      /\ o.attempt = task[t].attempt /\ o.success = task[t].success /\ o.rows = task[t].rows
  BY <1>1 DEF TaskStates
<1>3. task' = [task EXCEPT ![t] = o] /\ task'[t] = o
  BY <1>1 DEF TypeOK
<1>. HIDE DEF o
<1>4. Becomes(t, o)
  BY <1>1, <1>2, <1>3 DEF Becomes, TypeOK
<1>5. OwnPosts(t) = {} /\ OwnPosts(t)' = {} /\ task[t].rows = {} /\ task[t].attempt = 1
  BY <1>1 DEF TaskRight, Progress, RowsArePosts, OwnPosts
<1>6. \A h : PostsOf(t, h)' = {}
  BY <1>5 DEF OwnPosts, PostsOf
<1>7. TaskRight(t)'
  BY <1>2, <1>3, <1>5, <1>6
  DEF TaskRight, RowsArePosts, RowsHold, Progress, AttemptsSoFar, Ordered
<1>. QED
  BY <1>2, <1>4, <1>7, TaskStep, LogStays

LEMMA TakeHookRight ==
    ASSUME IInv, NEW t \in Tasks, TakeHook(t)
    PROVE  IInv'
<1>1. PICK h \in task[t].todo :
         task' = [task EXCEPT ![t].pc = "post", ![t].todo = @ \ {h}, ![t].hook = h]
  BY DEF TakeHook
<1>. DEFINE o == [task[t] EXCEPT !.pc = "post", !.todo = @ \ {h}, !.hook = h]
<1>2. TypeOK /\ TaskRight(t) /\ task[t] \in TaskStates /\ h \in Hooks
  BY DEF IInv, TypeOK, TaskStates
<1>3. /\ o \in TaskStates
      /\ o.pc = "post" /\ o.chosen = task[t].chosen /\ o.todo = task[t].todo \ {h} /\ o.hook = h
      /\ o.attempt = task[t].attempt /\ o.rows = task[t].rows
  BY <1>2 DEF TaskStates
<1>4. task' = [task EXCEPT ![t] = o] /\ task'[t] = o
  BY <1>1, <1>2 DEF TypeOK
<1>. HIDE DEF o
<1>5. UNCHANGED <<hooks, born, deletion, log, posts>> /\ task[t].pc = "next"
  BY DEF TakeHook
<1>6. Becomes(t, o)
  BY <1>2, <1>3, <1>4, <1>5 DEF Becomes, TypeOK, IInv, IdsDrawn
<1>7. OwnPosts(t)' = OwnPosts(t) /\ \A x : PostsOf(t, x)' = PostsOf(t, x)
  BY <1>5 DEF OwnPosts, PostsOf
<1>8. PostsOf(t, h) = {} /\ task[t].attempt = 1
  BY <1>2, <1>5 DEF TaskRight, Progress, OwnPosts, PostsOf
<1>9. RowsArePosts(t)' /\ RowsHold(t)'
  BY <1>2, <1>3, <1>4, <1>5, <1>7 DEF TaskRight, RowsArePosts, RowsHold
<1>10. Progress(t)'
  BY <1>2, <1>3, <1>4, <1>5, <1>7, <1>8 DEF TaskRight, Progress, Served
<1>11. AttemptsSoFar(t)'
  BY <1>3, <1>4, <1>7, <1>8 DEF AttemptsSoFar
<1>12. TaskRight(t)'
  BY <1>2, <1>7, <1>9, <1>10, <1>11 DEF TaskRight, Ordered
<1>. QED
  BY <1>3, <1>5, <1>6, <1>12, TaskStep, LogStays

(***************************************************************************)
(* A POST is the next of its webhook, and none of those before succeeded.  *)
(***************************************************************************)
LEMMA PostRight ==
    ASSUME IInv, NEW t \in Tasks, Post(t)
    PROVE  IInv'
<1>1. PICK success \in BOOLEAN :
         /\ task' = [task EXCEPT ![t].pc = "posted", ![t].success = success]
         /\ posts' = posts \cup {[task |-> t, hook |-> task[t].hook,
                                  attempt |-> task[t].attempt, success |-> success]}
  BY DEF Post
<1>0. PICK h, n : h = task[t].hook /\ n = task[t].attempt
  OBVIOUS
<1>. DEFINE o == [task[t] EXCEPT !.pc = "posted", !.success = success]
            new == [task |-> t, hook |-> h, attempt |-> n, success |-> success]
<1>2. TypeOK /\ TaskRight(t) /\ task[t] \in TaskStates
  BY DEF IInv, TypeOK
<1>3. /\ o \in TaskStates
      /\ o.pc = "posted" /\ o.chosen = task[t].chosen /\ o.todo = task[t].todo /\ o.hook = h
      /\ o.attempt = n /\ o.rows = task[t].rows /\ o.success = success
  BY <1>0, <1>2 DEF TaskStates
<1>4. task' = [task EXCEPT ![t] = o] /\ task'[t] = o
  BY <1>1, <1>2 DEF TypeOK
<1>5. /\ h \in Hooks /\ n \in 1..MaxAttempts /\ n \in Nat
      /\ h \in task[t].chosen \ task[t].todo
      /\ new \in Deliveries /\ posts' = posts \cup {new}
      /\ task[t].pc = "post" /\ UNCHANGED <<hooks, born, deletion, log>>
  BY <1>0, <1>1, <1>2, WebhookConstantsOK
  DEF TaskStates, Deliveries, TaskRight, Progress, Post, WebhookConstantsOK
<1>6. /\ new.task = t /\ new.hook = h /\ new.attempt = n /\ new.success = success
      /\ Attempted(t)' = new
  BY <1>3, <1>4 DEF Attempted
<1>. HIDE DEF o, new
<1>7. Becomes(t, o)
  BY <1>2, <1>3, <1>4, <1>5, <1>6 DEF Becomes, TypeOK, IInv, IdsDrawn
<1>8. /\ OwnPosts(t)' = OwnPosts(t) \cup {new}
      /\ PostsOf(t, h)' = PostsOf(t, h) \cup {new}
      /\ \A x : x # h => PostsOf(t, x)' = PostsOf(t, x)
  <2>1. OwnPosts(t)' = OwnPosts(t) \cup {new}
    BY <1>5, <1>6 DEF OwnPosts
  <2>2. PostsOf(t, h)' = PostsOf(t, h) \cup {new}
    BY <1>5, <1>6 DEF PostsOf
  <2>3. ASSUME NEW x, x # h PROVE PostsOf(t, x)' = PostsOf(t, x)
    BY <1>5, <1>6, <2>3 DEF PostsOf
  <2>. QED
    BY <2>1, <2>2, <2>3
<1>9. /\ \A p \in PostsOf(t, h) : p.attempt < n /\ ~p.success
      /\ \A k \in 1..(n - 1) : \E p \in PostsOf(t, h) : p.attempt = k
      /\ \A p \in PostsOf(t, h) : p.attempt \in Nat
  <2>1. \A p \in posts : p.attempt \in 1..MaxAttempts
    BY <1>2 DEF TypeOK, Deliveries
  <2>. QED
    BY <1>0, <1>2, <1>5, <2>1, WebhookConstantsOK
    DEF TaskRight, AttemptsSoFar, PostsOf, WebhookConstantsOK
<1>10. new \notin OwnPosts(t)
  BY <1>5, <1>6, <1>9 DEF OwnPosts, PostsOf
<1>11. RowsArePosts(t)'
  BY <1>2, <1>3, <1>4, <1>5, <1>6, <1>8, <1>10 DEF TaskRight, RowsArePosts
<1>12. RowsHold(t)'
  BY <1>2, <1>3, <1>4, <1>5 DEF TaskRight, RowsHold
<1>13. Progress(t)'
  <2>1. \A x : Served(t, x) => Served(t, x)'
    <3>. SUFFICES ASSUME NEW x, Served(t, x) PROVE Served(t, x)'
      OBVIOUS
    <3>1. PostsOf(t, x) \subseteq PostsOf(t, x)'
      BY <1>8
    <3>. QED
      BY <3>1 DEF Served
  <2>. QED
    BY <1>0, <1>2, <1>3, <1>4, <1>5, <1>6, <1>8, <2>1 DEF TaskRight, Progress
<1>14. AttemptsSoFar(t)'
  BY <1>3, <1>4, <1>6, <1>8, <1>9 DEF AttemptsSoFar
<1>15. Ordered(t, h)'
  <2>1. Ordered(t, h)
    BY <1>2, <1>5 DEF TaskRight
  <2>2. \A k \in 1..n : \E q \in PostsOf(t, h)' : q.attempt = k
    BY <1>5, <1>6, <1>8, <1>9
  <2>3. \A p \in PostsOf(t, h) : \A k \in 1..p.attempt : \E q \in PostsOf(t, h)' : q.attempt = k
    BY <1>8, <2>1 DEF Ordered
  <2>. QED
    BY <1>5, <1>6, <1>8, <1>9, <2>1, <2>2, <2>3 DEF Ordered
<1>16. \A x \in Hooks : Ordered(t, x)'
  <2>1. ASSUME NEW x \in Hooks, x # h PROVE Ordered(t, x)'
    BY <1>2, <1>8, <2>1 DEF TaskRight, Ordered
  <2>. QED
    BY <1>15, <2>1
<1>17. TaskRight(t)'
  BY <1>11, <1>12, <1>13, <1>14, <1>16 DEF TaskRight
<1>. QED
  BY <1>3, <1>5, <1>7, <1>17, TaskStep, LogStays

(***************************************************************************)
(* The row is sent while nobody deletes the webhook, which is then held.   *)
(***************************************************************************)
LEMMA FlushRight ==
    ASSUME IInv, NEW t \in Tasks, Flush(t)
    PROVE  IInv'
<1>. DEFINE h == task[t].hook
            n == task[t].attempt
            o == [task[t] EXCEPT !.rows = @ \cup {Attempted(t)},
                                 !.pc = IF Again(t) THEN "post" ELSE "next",
                                 !.attempt = IF Again(t) THEN @ + 1 ELSE 1,
                                 !.hook = IF Again(t) THEN @ ELSE AnyHook,
                                 !.success = FALSE]
<1>1. TypeOK /\ TaskRight(t) /\ task[t] \in TaskStates
  BY DEF IInv, TypeOK
<1>2. /\ h \in Hooks /\ n \in 1..MaxAttempts /\ n \in Nat /\ MaxAttempts \in Nat
      /\ task[t].pc = "posted" /\ h \in hooks /\ deletion[h] # "holding"
      /\ UNCHANGED <<hooks, born, deletion, log, posts>>
  BY <1>1, WebhookConstantsOK DEF TaskStates, Flush, WebhookConstantsOK
<1>3. /\ Attempted(t) \in Deliveries /\ Attempted(t) \in posts
      /\ Attempted(t).task = t /\ Attempted(t).hook = h /\ Attempted(t).attempt = n
      /\ Attempted(t).success = task[t].success
  BY <1>1, <1>2 DEF Attempted, TaskRight, RowsArePosts, TypeOK
<1>4. /\ o.pc = (IF Again(t) THEN "post" ELSE "next")
      /\ o.chosen = task[t].chosen /\ o.todo = task[t].todo
      /\ o.hook = (IF Again(t) THEN h ELSE AnyHook)
      /\ o.attempt = (IF Again(t) THEN n + 1 ELSE 1)
      /\ o.rows = task[t].rows \cup {Attempted(t)}
      /\ o.success = FALSE
  BY <1>1 DEF TaskStates
<1>5. o \in TaskStates
  <2>1. AnyHook \in Hooks /\ 1 \in 1..MaxAttempts
    BY <1>2, WebhookConstantsOK DEF AnyHook, WebhookConstantsOK
  <2>2. Again(t) => n + 1 \in 1..MaxAttempts
    BY <1>2 DEF Again
  <2>. QED
    BY <1>1, <1>2, <1>3, <2>1, <2>2 DEF TaskStates
<1>6. task' = [task EXCEPT ![t] = o] /\ task'[t] = o
  BY <1>1 DEF TypeOK, Flush
<1>. HIDE DEF o
<1>7. Becomes(t, o)
  BY <1>1, <1>2, <1>4, <1>5, <1>6 DEF Becomes, TypeOK, IInv, IdsDrawn
<1>8. OwnPosts(t)' = OwnPosts(t) /\ \A x : PostsOf(t, x)' = PostsOf(t, x)
  BY <1>2 DEF OwnPosts, PostsOf
<1>9. RowsArePosts(t)'
  <2>1. task[t].rows = OwnPosts(t) \ {Attempted(t)} /\ Attempted(t) \in OwnPosts(t)
    BY <1>1, <1>2, <1>3 DEF TaskRight, RowsArePosts, OwnPosts
  <2>2. o.rows = OwnPosts(t)
    BY <1>4, <2>1
  <2>. QED
    BY <1>4, <1>6, <1>8, <2>2 DEF RowsArePosts
<1>10. RowsHold(t)'
  BY <1>1, <1>2, <1>3, <1>4, <1>6 DEF TaskRight, RowsHold
<1>11. Attempted(t) \in PostsOf(t, h) /\ \A p \in PostsOf(t, h) : p.attempt \in Nat
  <2>1. \A p \in posts : p.attempt \in 1..MaxAttempts
    BY <1>1 DEF TypeOK, Deliveries
  <2>. QED
    BY <1>2, <1>3, <2>1 DEF PostsOf
<1>12. Progress(t)'
  <2>1. CASE Again(t)
    BY <1>1, <1>2, <1>4, <1>6, <1>8, <2>1 DEF TaskRight, Progress, Served
  <2>2. CASE ~Again(t)
    <3>1. Served(t, h)
      BY <1>2, <1>3, <1>11, <2>2 DEF Served, Again
    <3>. QED
      BY <1>1, <1>2, <1>4, <1>6, <1>8, <2>2, <3>1 DEF TaskRight, Progress, Served
  <2>. QED
    BY <2>1, <2>2
<1>13. AttemptsSoFar(t)'
  <2>1. CASE Again(t)
    <3>1. \A p \in PostsOf(t, h) : p.attempt < n + 1 /\ ~p.success
      BY <1>1, <1>2, <1>3, <1>11, <2>1 DEF TaskRight, AttemptsSoFar, Again
    <3>2. \A k \in 1..n : \E p \in PostsOf(t, h) : p.attempt = k
      BY <1>1, <1>2, <1>3, <1>11 DEF TaskRight, Ordered
    <3>3. o.attempt = n + 1 /\ o.attempt - 1 = n /\ o.hook = h /\ o.pc = "post"
      BY <1>2, <1>4, <2>1
    <3>. QED
      BY <1>6, <1>8, <3>1, <3>2, <3>3 DEF AttemptsSoFar
  <2>2. CASE ~Again(t)
    BY <1>4, <1>6, <2>2 DEF AttemptsSoFar
  <2>. QED
    BY <2>1, <2>2
<1>14. TaskRight(t)'
  BY <1>1, <1>8, <1>9, <1>10, <1>12, <1>13 DEF TaskRight, Ordered
<1>. QED
  BY <1>2, <1>4, <1>7, <1>14, TaskStep, LogStays

(***************************************************************************)
(* A task that is rolled back keeps its POSTs in order and no row.         *)
(***************************************************************************)
LEMMA RollbackRight ==
    ASSUME IInv, NEW t \in Tasks, task[t].pc \in Running, Rollback(t)
    PROVE  IInv'
<1>. DEFINE o == [task[t] EXCEPT !.pc = "lost", !.chosen = {}, !.todo = {}, !.hook = AnyHook,
                                 !.attempt = 1, !.success = FALSE, !.rows = {}]
<1>1. TypeOK /\ TaskRight(t) /\ task[t] \in TaskStates
  BY DEF IInv, TypeOK
<1>2. AnyHook \in Hooks /\ 1 \in 1..MaxAttempts
  BY WebhookConstantsOK DEF AnyHook, WebhookConstantsOK
<1>3. o \in TaskStates /\ o.pc = "lost" /\ o.chosen = {} /\ o.rows = {}
  BY <1>1, <1>2 DEF TaskStates
<1>4. task' = [task EXCEPT ![t] = o] /\ task'[t] = o
  BY <1>1 DEF TypeOK, Rollback
<1>. HIDE DEF o
<1>5. UNCHANGED <<hooks, born, deletion, log, posts>> /\ task[t].pc # "done"
  BY DEF Rollback, Running
<1>6. Becomes(t, o)
  BY <1>1, <1>3, <1>4, <1>5 DEF Becomes, TypeOK
<1>7. \A x : PostsOf(t, x)' = PostsOf(t, x)
  BY <1>5 DEF PostsOf
<1>8. TaskRight(t)'
  BY <1>1, <1>3, <1>4, <1>7
  DEF TaskRight, RowsArePosts, RowsHold, Progress, AttemptsSoFar, Ordered
<1>. QED
  BY <1>3, <1>5, <1>6, <1>8, TaskStep, LogStays

(***************************************************************************)
(* The rows a commit adds are the POSTs of the task: none of its webhooks  *)
(* went while it held them.                                                *)
(***************************************************************************)
LEMMA CommitRight ==
    ASSUME IInv, NEW t \in Tasks, Commit(t)
    PROVE  IInv'
<1>. DEFINE o == [task[t] EXCEPT !.pc = "done", !.rows = {}]
<1>1. TypeOK /\ TaskRight(t) /\ task[t] \in TaskStates
  BY DEF IInv, TypeOK
<1>2. /\ o \in TaskStates
      /\ o.pc = "done" /\ o.chosen = task[t].chosen /\ o.todo = task[t].todo /\ o.rows = {}
  BY <1>1 DEF TaskStates
<1>3. task' = [task EXCEPT ![t] = o] /\ task'[t] = o
  BY <1>1 DEF TypeOK, Commit
<1>. HIDE DEF o
<1>4. /\ UNCHANGED <<hooks, born, deletion, posts>> /\ log' = log \cup task[t].rows
      /\ task[t].pc = "next" /\ task[t].todo = {}
  BY DEF Commit
<1>5. Becomes(t, o)
  BY <1>1, <1>2, <1>3, <1>4 DEF Becomes, TypeOK, IInv, IdsDrawn
<1>6. task[t].rows = OwnPosts(t) /\ \A row \in task[t].rows : row.hook \in hooks
  BY <1>1, <1>4 DEF TaskRight, RowsArePosts, RowsHold
<1>7. log' \subseteq Deliveries
  BY <1>1, <1>4 DEF TypeOK, TaskStates
<1>8. LogIsExact'
  <2>1. \A p \in posts : p.task \in Tasks
    BY <1>1 DEF TypeOK, Deliveries
  <2>2. \A p \in posts : task'[p.task].pc = "done" <=> p.task = t \/ task[p.task].pc = "done"
    BY <1>1, <1>2, <1>3, <2>1 DEF TypeOK
  <2>3. log = {p \in posts : task[p.task].pc = "done" /\ p.hook \in hooks}
    BY DEF IInv, LogIsExact
  <2>. QED
    BY <1>4, <1>6, <2>2, <2>3 DEF LogIsExact, OwnPosts
<1>9. OwnPosts(t)' = OwnPosts(t) /\ \A x : PostsOf(t, x)' = PostsOf(t, x)
  BY <1>4 DEF OwnPosts, PostsOf
<1>10. TaskRight(t)'
  BY <1>1, <1>2, <1>3, <1>4, <1>9
  DEF TaskRight, RowsArePosts, RowsHold, Progress, Served, AttemptsSoFar, Ordered
<1>. QED
  BY <1>5, <1>7, <1>8, <1>10, TaskStep

-----------------------------------------------------------------------------
(***************************************************************************)
(* What creation and deletion of webhooks may do: no webhook goes that a   *)
(* row holds.                                                              *)
(***************************************************************************)
LEMMA HooksStep ==
    ASSUME IInv, TypeOK', IdsDrawn', LogIsExact', UNCHANGED <<task, posts>>,
           \A x \in Tasks : RowsHold(x)'
    PROVE  IInv'
<1>1. ASSUME NEW x \in Tasks PROVE TaskRight(x)'
  <2>1. OwnPosts(x)' = OwnPosts(x)
    BY DEF OwnPosts
  <2>. QED
    BY <2>1, OthersStayRight DEF IInv
<1>. QED
  BY <1>1 DEF IInv

(***************************************************************************)
(* A new id: no POST was ever made to it.                                  *)
(***************************************************************************)
LEMMA CreateRight ==
    ASSUME IInv, NEW h \in Hooks, CreateWebhook(h)
    PROVE  IInv'
<1>1. \A p \in posts : p.hook # h
  BY DEF IInv, IdsDrawn, CreateWebhook
<1>2. TypeOK' /\ IdsDrawn'
  BY DEF IInv, TypeOK, IdsDrawn, CreateWebhook
<1>3. LogIsExact'
  BY <1>1 DEF IInv, LogIsExact, CreateWebhook
<1>4. \A x \in Tasks : RowsHold(x)'
  BY DEF IInv, TaskRight, RowsHold, CreateWebhook
<1>. QED
  BY <1>2, <1>3, <1>4, HooksStep DEF CreateWebhook

LEMMA AskRight ==
    ASSUME IInv, NEW h \in Hooks, DeleteAsk(h) \/ DeleteFail(h)
    PROVE  IInv'
<1>1. /\ deletion' \in [Hooks -> {"none", "asked", "holding"}]
      /\ \A x \in Hooks : deletion'[x] = "holding" => deletion[x] = "holding"
      /\ \A x \in Hooks : deletion'[x] # "none" => x \in hooks
      /\ UNCHANGED <<hooks, born, log, task, posts>>
  BY DEF IInv, TypeOK, IdsDrawn, DeleteAsk, DeleteFail
<1>2. TypeOK' /\ IdsDrawn' /\ LogIsExact'
  BY <1>1 DEF IInv, TypeOK, IdsDrawn, LogIsExact
<1>3. \A x \in Tasks : RowsHold(x)'
  BY <1>1 DEF IInv, TypeOK, TaskRight, RowsHold
<1>. QED
  BY <1>1, <1>2, <1>3, HooksStep

LEMMA DeleteFlushRight ==
    ASSUME IInv, NEW h \in Hooks, DeleteFlush(h)
    PROVE  IInv'
<1>1. /\ deletion' \in [Hooks -> {"none", "asked", "holding"}]
      /\ \A x \in Hooks : x # h => deletion'[x] = deletion[x]
      /\ h \in hooks
      /\ UNCHANGED <<hooks, born, log, task, posts>>
  BY DEF IInv, TypeOK, IdsDrawn, DeleteFlush
<1>2. TypeOK' /\ IdsDrawn' /\ LogIsExact'
  BY <1>1 DEF IInv, TypeOK, IdsDrawn, LogIsExact
<1>3. ASSUME NEW x \in Tasks PROVE RowsHold(x)'
  <2>1. \A row \in task[x].rows : row.hook # h /\ row.hook \in Hooks
    BY DEF IInv, TypeOK, TaskStates, Deliveries, DeleteFlush, Holds
  <2>. QED
    BY <1>1, <2>1 DEF IInv, TaskRight, RowsHold
<1>. QED
  BY <1>1, <1>2, <1>3, HooksStep

(***************************************************************************)
(* The webhook goes with its deliveries; no row that is not committed      *)
(* holds it.                                                               *)
(***************************************************************************)
LEMMA DeleteCommitRight ==
    ASSUME IInv, NEW h \in Hooks, DeleteCommit(h)
    PROVE  IInv'
<1>1. /\ deletion[h] = "holding" /\ deletion' = [deletion EXCEPT ![h] = "none"]
      /\ hooks' = hooks \ {h} /\ log' = {row \in log : row.hook # h}
      /\ UNCHANGED <<born, task, posts>>
  BY DEF DeleteCommit
<1>2. TypeOK' /\ IdsDrawn'
  BY <1>1 DEF IInv, TypeOK, IdsDrawn
<1>3. LogIsExact'
  BY <1>1 DEF IInv, LogIsExact
<1>4. ASSUME NEW x \in Tasks PROVE RowsHold(x)'
  <2>1. \A row \in task[x].rows : row.hook # h /\ row.hook \in Hooks
    BY <1>1 DEF IInv, TypeOK, TaskStates, Deliveries, TaskRight, RowsHold
  <2>. QED
    BY <1>1, <2>1 DEF IInv, TypeOK, TaskRight, RowsHold
<1>. QED
  BY <1>1, <1>2, <1>3, <1>4, HooksStep

-----------------------------------------------------------------------------
LEMMA TaskActionsRight ==
    ASSUME IInv, NEW t \in Tasks, Dispatch(t) \/ Redeliver(t) \/ Work(t) \/ Fail(t)
    PROVE  IInv'
<1>1. CASE Dispatch(t)
  <2>1. hooks \cap Subscribers \in SUBSET (Hooks \cap born)
    BY DEF IInv, TypeOK, IdsDrawn
  <2>. QED
    BY <1>1, <2>1, StartRight DEF Dispatch
<1>2. CASE Redeliver(t)
  <2>1. PICK row \in log :
          /\ task[t].pc = "idle" /\ row.hook \in hooks
          /\ task' = [task EXCEPT ![t].pc = "next", ![t].chosen = {row.hook}, ![t].todo = {row.hook}]
          /\ UNCHANGED <<hooks, born, deletion, log, posts>>
    BY <1>2 DEF Redeliver
  <2>2. {row.hook} \in SUBSET (Hooks \cap born)
    BY <2>1 DEF IInv, TypeOK, IdsDrawn
  <2>. QED
    BY <2>1, <2>2, StartRight
<1>3. CASE FlushRefused(t) \/ Fail(t)
  BY <1>3, RollbackRight DEF FlushRefused, Fail, Running
<1>. QED
  BY <1>1, <1>2, <1>3, TakeHookRight, PostRight, FlushRight, CommitRight DEF Work

LEMMA NextRight == IInv /\ [Next]_vars => IInv'
<1>. SUFFICES ASSUME IInv, [Next]_vars PROVE IInv'
  OBVIOUS
<1>1. ASSUME NEW t \in Tasks, Dispatch(t) \/ Redeliver(t) \/ Work(t) \/ Fail(t)
      PROVE  IInv'
  BY <1>1, TaskActionsRight
<1>2. ASSUME NEW h \in Hooks, CreateWebhook(h) \/ DeleteAsk(h) \/ DeleteWork(h) \/ DeleteFail(h)
      PROVE  IInv'
  BY <1>2, CreateRight, AskRight, DeleteFlushRight, DeleteCommitRight DEF DeleteWork
<1>3. CASE UNCHANGED vars
  <2>1. TypeOK' /\ IdsDrawn' /\ LogIsExact' /\ \A x \in Tasks : RowsHold(x)'
    BY <1>3 DEF vars, IInv, TypeOK, IdsDrawn, LogIsExact, TaskRight, RowsHold
  <2>. QED
    BY <1>3, <2>1, HooksStep DEF vars
<1>. QED
  BY <1>1, <1>2, <1>3 DEF Next

LEMMA Invariance == Spec => []IInv
BY InitRight, NextRight, PTL DEF Spec

-----------------------------------------------------------------------------
(***************************************************************************)
(* The variables keep their types.                                         *)
(***************************************************************************)
THEOREM TypeCorrect == Spec => []TypeOK
BY Invariance, PTL DEF IInv

(***************************************************************************)
(* The delivery history is exact (musehub_webhook_dispatcher.py:430): it   *)
(* has the POSTs of the tasks that committed, to the webhooks that are     *)
(* left, whatever fails, is redelivered or is deleted meanwhile; and every *)
(* webhook of a task that committed was attempted, without a gap, until    *)
(* the first success or the last attempt allowed.                          *)
(***************************************************************************)
THEOREM DeliveriesAlwaysExact == Spec => []DeliveriesExact
<1>1. IInv => DeliveriesExact
  <2>. SUFFICES ASSUME IInv PROVE DeliveriesExact
    OBVIOUS
  <2>1. ASSUME NEW t \in Tasks, NEW h \in Hooks, task[t].pc = "done", h \in task[t].chosen
        PROVE  Served(t, h)
    BY <2>1 DEF IInv, TaskRight, Progress
  <2>. QED
    BY <2>1 DEF DeliveriesExact, IInv, TaskRight
<1>. QED
  BY <1>1, Invariance, PTL
===============================================================================
