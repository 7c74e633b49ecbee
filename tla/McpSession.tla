----------------------------- MODULE McpSession -----------------------------
(***************************************************************************)
(* The MCP sessions of one worker process (mcp/session.py): the registry   *)
(* with its cap and its cleanup task, the SSE streams clients keep open,   *)
(* and the elicitations, in which a tool asks the client questions, one    *)
(* after the other, and waits for the answers.  Everything runs on one     *)
(* event loop: an action is what runs between two awaits.  A tool or a     *)
(* stream keeps a reference to its session, also after the session has     *)
(* left the registry.                                                      *)
(***************************************************************************)
EXTENDS Naturals, Sequences, FiniteSets, SequencesExt

CONSTANTS
    SessionIds,   \* session ids drawn
    Streams,      \* GET /mcp connections
    Tools,        \* calls of an interactive tool
    Asks,         \* the questions of each, in order: "form", or "url" for a flow in the browser
    Creators,     \* those that may be of the tool that creates a release
    Supports,     \* the kinds of questions the client of each session declared
    LastIds,      \* Last-Event-ID headers clients send: "absent" or an event id
    MaxSessions,  \* _MAX_SESSIONS
    QueueSize,    \* maxsize of a stream's queue
    BufferSize,   \* _SSE_BUFFER_SIZE
    NoSession,
    End           \* the sentinel that ends a stream

ASSUME McpConstantsOK ==
    /\ {MaxSessions, QueueSize, BufferSize} \subseteq Nat \ {0}
    /\ \A t \in Tools : Asks[t] \in {<<"form">>, <<"url">>, <<"form", "url">>}
    /\ Creators \subseteq {t \in Tools : Asks[t] = <<"form", "url">>}
    /\ \A sid \in SessionIds : Supports[sid] \subseteq {"form", "url"}
    /\ "absent" \in LastIds
    /\ NoSession \notin SessionIds
    /\ End \notin Tools \X (1..2)

VARIABLES
    store,     \* _SESSIONS, in insertion order
    drawn,     \* the ids given out so far
    stale,     \* the sessions whose TTL has elapsed since their last activity
    cleanup,   \* the cleanup task
    queues,    \* sse_queues of each session, as the streams that own them
    queue,     \* the queue of each stream
    stream,    \* state and session of each stream
    buffer,    \* event_buffer of each session: id and event
    pending,   \* the keys of session.pending
    call,      \* state and session of each tool call, and how many questions it asked
    future,    \* the future each tool call waits on
    created,   \* the calls whose release is committed
    inbox,     \* the questions that reached a client
    accepted,  \* history: the questions a client accepted while they were open
    completed  \* the URL flows whose completion was signalled

registry == <<store, drawn, stale, cleanup>>
channels == <<queues, queue, stream, buffer, inbox>>
calls    == <<pending, call, future, created, accepted, completed>>
vars     == <<store, drawn, stale, cleanup, queues, queue, stream, buffer, inbox,
              pending, call, future, created, accepted, completed>>

\* Question n of a call.
Questions == {q \in Tools \X (1..2) : q[2] <= Len(Asks[q[1]])}

UrlQuestions == {q \in Questions : Asks[q[1]][q[2]] = "url"}

\* elicit_url registers its future under the id of the request it sends; the
\* id shown to the user's browser is another one.
\* Mutant: the id is the context's counter alone, and each call has a context.
RequestKeyCounter(q) == <<"request", q[2]>>
RequestKey(q) == <<"request", q>>
UrlKey(q)     == <<"url", q>>

\* The question a call asked last.
Latest(t) == <<t, call[t].asked>>

TypeOK ==
    /\ store \in Seq(SessionIds)
    /\ drawn \subseteq SessionIds
    /\ stale \subseteq SessionIds
    /\ cleanup \in {"off", "running", "dead"}
    /\ queues \in [SessionIds -> Seq(Streams)]
    /\ queue \in [Streams -> Seq(Questions \cup {End})]
    /\ stream \in [Streams -> [state : {"closed", "opening", "open"}, session : SessionIds \cup {NoSession}]]
    /\ buffer \in [SessionIds -> Seq([id : {""}, event : Questions])]
    /\ inbox \subseteq Questions
    /\ pending \in [SessionIds -> SUBSET ({"request", "url"} \X Questions)]
    /\ call \in [Tools -> [state : {"idle", "called", "waiting", "creating", "ok", "declined", "error"},
                           session : SessionIds \cup {NoSession}, asked : 0..2, creates : BOOLEAN]]
    /\ future \in [Tools -> {"none", "pending", "accept", "decline", "cancelled"}]
    /\ created \subseteq Creators
    /\ accepted \subseteq Questions
    /\ completed \subseteq UrlQuestions
    /\ Len(store) <= MaxSessions
    /\ \A sid \in SessionIds : Len(buffer[sid]) <= BufferSize
    /\ \A k \in Streams : Len(queue[k]) <= QueueSize

Init ==
    /\ store = <<>>
    /\ drawn = {}
    /\ stale = {}
    /\ cleanup = "off"
    /\ queues = [sid \in SessionIds |-> <<>>]
    /\ queue = [k \in Streams |-> <<>>]
    /\ stream = [k \in Streams |-> [state |-> "closed", session |-> NoSession]]
    /\ buffer = [sid \in SessionIds |-> <<>>]
    /\ inbox = {}
    /\ pending = [sid \in SessionIds |-> {}]
    /\ call = [t \in Tools |-> [state |-> "idle", session |-> NoSession, asked |-> 0,
                              creates |-> FALSE]]
    /\ future = [t \in Tools |-> "none"]
    /\ created = {}
    /\ accepted = {}
    /\ completed = {}

-----------------------------------------------------------------------------
(* The registry *)

\* The calls whose tool still runs.
Running(t) == call[t].state \in {"called", "waiting", "creating"}

Live(sid) == sid \in ToSet(store)

\* get_session finds the session and touches it.
Found(sid) == Live(sid) /\ sid \notin stale

\* The elements of a sequence that are among some, in their order.
Those(seq, elems) ==
    LET places == {i \in DOMAIN seq : seq[i] \in elems}
    IN  [n \in 1..Cardinality(places) |->
            seq[CHOOSE i \in places : Cardinality({j \in places : j <= i}) = n]]

Full(k) == Len(queue[k]) >= QueueSize

\* put_nowait raises QueueFull on the first full queue: the queues after it
\* are not told, and the futures not cancelled.
Raises(sid) == \E k \in ToSet(queues[sid]) : Full(k)

\* Mutant: a stream with something left to read is not told.
ToldIdle(sid) == {k \in ToSet(queues[sid]) : queue[k] = <<>>}

Told(sid) ==
    {queues[sid][i] : i \in {j \in DOMAIN queues[sid] : \A h \in 1..j : ~Full(queues[sid][h])}}

\* delete_session for the sessions sids, which leave the registry first.
DeleteSessions(sids) ==
    LET told      == UNION {Told(sid) : sid \in sids}
        cancelled == {t \in Tools : \E sid \in sids : ~Raises(sid) /\ RequestKey(Latest(t)) \in pending[sid]}
    IN  /\ store' = Those(store, SessionIds \ sids)
        /\ queue' = [k \in Streams |-> IF k \in told THEN Append(queue[k], End) ELSE queue[k]]
        /\ future' = [t \in Tools |-> IF t \in cancelled /\ future[t] = "pending"
                                      THEN "cancelled" ELSE future[t]]
        /\ UNCHANGED <<drawn, stale, queues, stream, buffer, inbox, pending, call, created, accepted,
                       completed>>

\* Mutant: the cleanup is not started.
CreateSessionOnly(sid) ==
    /\ sid \notin drawn
    /\ Len(store) < MaxSessions
    /\ store' = Append(store, sid)
    /\ drawn' = drawn \cup {sid}
    /\ UNCHANGED <<stale, cleanup, channels, calls>>

\* POST initialize.  A full store is reported before the cleanup is started.
CreateSession(sid) ==
    /\ sid \notin drawn
    /\ Len(store) < MaxSessions
    /\ store' = Append(store, sid)
    /\ drawn' = drawn \cup {sid}
    /\ cleanup' = "running"
    /\ UNCHANGED <<stale, channels, calls>>

\* An hour passes without a request.  A question is out for five minutes.
Expire(sid) ==
    /\ Found(sid)
    /\ ~\E t \in Tools : call[t].session = sid /\ Running(t)
    /\ stale' = stale \cup {sid}
    /\ UNCHANGED <<store, drawn, cleanup, channels, calls>>

\* DELETE /mcp, or any other request that finds the session expired.
Delete(sid) ==
    /\ Live(sid)
    /\ DeleteSessions({sid})
    /\ UNCHANGED cleanup

\* A round of the cleanup: the expired sessions in insertion order, up to and
\* with the first whose deletion raises, which ends the task.
CleanupRound ==
    LET expired == Those(store, stale)
        fatal   == {i \in DOMAIN expired : Raises(expired[i])}
        reached == {expired[i] : i \in {j \in DOMAIN expired : \A h \in 1..(j - 1) : h \notin fatal}}
    IN  /\ cleanup = "running"
        /\ expired # <<>>
        /\ DeleteSessions(reached)
        /\ cleanup' = IF fatal = {} THEN "running" ELSE "dead"

-----------------------------------------------------------------------------
(* Streams *)

\* GET /mcp has found the session; the generator has not started.
OpenStream(k, sid) ==
    /\ stream[k].state = "closed"
    /\ Found(sid)
    /\ stream' = [stream EXCEPT ![k] = [state |-> "opening", session |-> sid]]
    /\ UNCHANGED <<registry, queues, queue, buffer, inbox, calls>>

\* The buffered events after the first one with the id of the header.
Replay(sid, last) ==
    LET marks == {i \in DOMAIN buffer[sid] : buffer[sid][i].id = last}
    IN  {buffer[sid][i].event : i \in {j \in DOMAIN buffer[sid] : \E m \in marks : m < j}}

\* register_sse_queue: the queue is registered and the replay sent.
AttachStream(k, last) ==
    LET sid == stream[k].session
    IN  /\ stream[k].state = "opening"
        /\ stream' = [stream EXCEPT ![k].state = "open"]
        /\ queues' = [queues EXCEPT ![sid] = Append(@, k)]
        /\ queue' = [queue EXCEPT ![k] = <<>>]
        /\ inbox' = inbox \cup Replay(sid, last)
        /\ UNCHANGED <<registry, buffer, calls>>

CloseStream(k) ==
    LET sid == stream[k].session
    IN  /\ stream' = [stream EXCEPT ![k] = [state |-> "closed", session |-> NoSession]]
        /\ queues' = [queues EXCEPT ![sid] = Those(@, Streams \ {k})]

\* The consumer takes the next item of its queue.
Deliver(k) ==
    /\ stream[k].state = "open"
    /\ queue[k] # <<>>
    /\ IF Head(queue[k]) = End
       THEN /\ CloseStream(k)
            /\ queue' = [queue EXCEPT ![k] = <<>>]
            /\ UNCHANGED inbox
       ELSE /\ inbox' = inbox \cup {Head(queue[k])}
            /\ queue' = [queue EXCEPT ![k] = Tail(@)]
            /\ UNCHANGED <<stream, queues>>
    /\ UNCHANGED <<registry, buffer, calls>>

Disconnect(k) ==
    /\ stream[k].state = "open"
    /\ CloseStream(k)
    /\ queue' = [queue EXCEPT ![k] = <<>>]
    /\ UNCHANGED <<registry, buffer, inbox, calls>>

-----------------------------------------------------------------------------
(* Elicitations *)

\* POST tools/call, of musehub_create_release_interactive or another one.
CallTool(t, sid) ==
    /\ call[t].state = "idle"
    /\ Found(sid)
    /\ \E creates \in {FALSE} \cup {t \in Creators} :
          call' = [call EXCEPT ![t] = [state |-> "called", session |-> sid, asked |-> 0,
                                       creates |-> creates]]
    /\ UNCHANGED <<registry, channels, pending, future, created, accepted, completed>>

\* The ring buffer makes room for an event.
Kept(sid) == IF Len(buffer[sid]) >= BufferSize THEN Tail(buffer[sid]) ELSE buffer[sid]

\* elicit_form and elicit_url: the future is registered and the question
\* pushed, to the buffer and to each queue that has room.
Elicit(q) ==
    LET t   == q[1]
        sid == call[t].session
    IN  /\ call' = [call EXCEPT ![t].state = "waiting", ![t].asked = q[2]]
        /\ pending' = [pending EXCEPT ![sid] = @ \cup {RequestKey(q)}]
        /\ future' = [future EXCEPT ![t] = "pending"]
        /\ buffer' = [buffer EXCEPT ![sid] = Append(Kept(sid), [id |-> "", event |-> q])]
        /\ queue' = [k \in Streams |-> IF k \in ToSet(queues[sid]) /\ ~Full(k)
                                       THEN Append(queue[k], q) ELSE queue[k]]
        /\ UNCHANGED <<registry, queues, stream, inbox>>

EndCall(t, state) ==
    /\ call' = [call EXCEPT ![t].state = state]
    /\ UNCHANGED <<registry, channels, pending, future>>

\* What a call answers when its latest question was not accepted, or not asked
\* because the client does not support it.
WithoutAnswer(t) == IF t \in created THEN "ok" ELSE "declined"

\* The tool goes on to its next question, if it has one.
GoOn(t) ==
    LET q == <<t, call[t].asked + 1>>
    IN  \/ q \notin Questions /\ EndCall(t, "ok")
        \/ /\ q \in Questions
           /\ Asks[t][q[2]] \in Supports[call[t].session]
           /\ Elicit(q)
        \/ /\ q \in Questions
           /\ Asks[t][q[2]] \notin Supports[call[t].session]
           /\ EndCall(t, WithoutAnswer(t))

Begin(t) ==
    /\ call[t].state = "called"
    /\ GoOn(t)
    /\ UNCHANGED <<created, accepted, completed>>

\* Mutant: the answer goes to every question open on the session.
SettleAll(sid, key, outcome) ==
    /\ pending' = [pending EXCEPT ![sid] = @ \ {key}]
    /\ future' = [t \in Tools |-> IF RequestKey(Latest(t)) \in pending[sid] /\ future[t] = "pending"
                                  THEN outcome ELSE future[t]]
    /\ UNCHANGED <<registry, channels, call, created>>

\* resolve_elicitation and cancel_elicitation: the key is dropped, and the
\* future it stood for, if there is one and it is not done, gets its outcome.
Settle(sid, key, outcome) ==
    /\ pending' = [pending EXCEPT ![sid] = @ \ {key}]
    /\ future' = [t \in Tools |-> IF RequestKey(Latest(t)) = key /\ key \in pending[sid]
                                     /\ future[t] = "pending"
                                  THEN outcome ELSE future[t]]
    /\ UNCHANGED <<registry, channels, call, created>>

\* The client posts its answer, or the notification that it cancels, once or
\* several times, also late.
Accept(q) ==
    /\ q \in inbox
    /\ Found(call[q[1]].session)
    /\ Settle(call[q[1]].session, RequestKey(q), "accept")
    /\ accepted' = IF RequestKey(q) \in pending[call[q[1]].session] THEN accepted \cup {q} ELSE accepted
    /\ UNCHANGED completed

Decline(q) ==
    /\ q \in inbox
    /\ Found(call[q[1]].session)
    /\ Settle(call[q[1]].session, RequestKey(q), "decline")
    /\ UNCHANGED <<accepted, completed>>

Cancel(q) ==
    /\ q \in inbox
    /\ Found(call[q[1]].session)
    /\ Settle(call[q[1]].session, RequestKey(q), "cancelled")
    /\ UNCHANGED <<accepted, completed>>

\* The browser reaches the callback of the URL, or the client posts
\* notifications/elicitation/complete: both name the id of the URL.
CompleteUrl(q) ==
    /\ q \in inbox \cap UrlQuestions
    /\ Live(call[q[1]].session)
    /\ Settle(call[q[1]].session, UrlKey(q), "accept")
    /\ completed' = completed \cup {q}
    /\ UNCHANGED accepted

\* Whether the form a call waits on is the one its release is made of.
FormOfRelease(t) == call[t].creates /\ call[t].asked = 1

\* The tool wakes up with the outcome of its future.  A form that is accepted
\* may still say that the platform is not to be connected.
Wake(t) ==
    /\ call[t].state = "waiting"
    /\ \/ future[t] \in {"decline", "cancelled"} /\ EndCall(t, WithoutAnswer(t))
       \/ future[t] = "accept" /\ FormOfRelease(t) /\ EndCall(t, "creating")
       \/ future[t] = "accept" /\ ~FormOfRelease(t) /\ GoOn(t)
       \/ /\ future[t] = "accept" /\ ~call[t].creates /\ call[t].asked < Len(Asks[t])
          /\ EndCall(t, "declined")
    /\ UNCHANGED <<created, accepted, completed>>

\* execute_create_release has committed; its session is closed, and the tool
\* offers the next question.
Create(t) ==
    /\ call[t].state = "creating"
    /\ created' = created \cup {t}
    /\ call' = [call EXCEPT ![t].state = "called"]
    /\ UNCHANGED <<registry, channels, pending, future, accepted, completed>>

\* The tag is taken, the repository gone or the database away.
CreateFails(t) ==
    /\ call[t].state = "creating"
    /\ EndCall(t, "error")
    /\ UNCHANGED <<created, accepted, completed>>

\* Mutant: the registry times the questions, not the tools that wait.
TimeoutLive(t) ==
    /\ call[t].state = "waiting"
    /\ Live(call[t].session)
    /\ call' = [call EXCEPT ![t].state = WithoutAnswer(t)]
    /\ pending' = [pending EXCEPT ![call[t].session] = @ \ {RequestKey(Latest(t))}]
    /\ future' = [future EXCEPT ![t] = IF @ = "pending" THEN "cancelled" ELSE @]
    /\ UNCHANGED <<registry, channels, created, accepted, completed>>

\* wait_for times out, possibly after the answer came and before the tool woke.
Timeout(t) ==
    /\ call[t].state = "waiting"
    /\ call' = [call EXCEPT ![t].state = WithoutAnswer(t)]
    /\ pending' = [pending EXCEPT ![call[t].session] = @ \ {RequestKey(Latest(t))}]
    /\ future' = [future EXCEPT ![t] = IF @ = "pending" THEN "cancelled" ELSE @]
    /\ UNCHANGED <<registry, channels, created, accepted, completed>>

\* The client closes the connection of its tools/call.  A wait is cancelled
\* like a question without answer, but the future and its key stay; a release
\* is rolled back, or was committed already.
Abandon(t) ==
    /\ \/ /\ call[t].state = "waiting"
          /\ EndCall(t, WithoutAnswer(t))
          /\ UNCHANGED created
       \/ /\ call[t].state = "creating"
          /\ EndCall(t, "error")
          /\ created' \in {created, created \cup {t}}
    /\ UNCHANGED <<accepted, completed>>

-----------------------------------------------------------------------------
Next ==
    \/ CleanupRound
    \/ \E sid \in SessionIds : CreateSession(sid) \/ Expire(sid) \/ Delete(sid)
    \/ \E k \in Streams :
          \/ \E sid \in SessionIds : OpenStream(k, sid)
          \/ \E last \in LastIds : AttachStream(k, last)
          \/ Deliver(k)
          \/ Disconnect(k)
    \/ \E t \in Tools :
          \/ \E sid \in SessionIds : CallTool(t, sid)
          \/ Begin(t)
          \/ Create(t)
          \/ CreateFails(t)
          \/ Wake(t)
          \/ Timeout(t)
          \/ Abandon(t)
    \/ \E q \in Questions : Accept(q) \/ Decline(q) \/ Cancel(q) \/ CompleteUrl(q)

Spec == Init /\ [][Next]_vars

\* The event loop runs what is ready, timers fire, the cleanup task wakes up
\* while it lives, and a client that keeps its stream open reads it.
FairSpec ==
    /\ Spec
    /\ WF_vars(CleanupRound)
    /\ \A k \in Streams : WF_vars(Deliver(k)) /\ WF_vars(\E last \in LastIds : AttachStream(k, last))
    /\ \A t \in Tools : WF_vars(Begin(t)) /\ WF_vars(Wake(t)) /\ WF_vars(Timeout(t))
                         /\ WF_vars(Create(t) \/ CreateFails(t))

-----------------------------------------------------------------------------
(* What the session store promises *)

Dropped(sid) == Live(sid) /\ ~Live(sid)'

(***************************************************************************)
(* delete_session ends every stream attached to the session and cancels    *)
(* every question open on it (the docstring of DELETE /mcp), whether a     *)
(* client, an expired lookup or the cleanup deletes it.                    *)
(***************************************************************************)
DeleteReleases ==
    [][\A sid \in SessionIds : Dropped(sid) =>
          /\ \A k \in ToSet(queues[sid]) : queue'[k] # <<>> /\ Last(queue'[k]) = End
          /\ \A t \in Tools : call[t].session = sid => future'[t] # "pending"]_vars

(***************************************************************************)
(* An answer reaches the tool that asked: as long as a tool waits on a     *)
(* future without outcome, its session knows the future by the id the      *)
(* client answers to, whatever other questions were answered, cancelled or *)
(* timed out.                                                              *)
(***************************************************************************)
WaiterReachable ==
    \A t \in Tools : call[t].state = "waiting" /\ future[t] = "pending" =>
        RequestKey(Latest(t)) \in pending[call[t].session]

(***************************************************************************)
(* A tool goes on only with what the client agreed to: whoever asks a      *)
(* second question, creates a release or succeeds had its questions        *)
(* accepted, each by an answer to itself.  Only the offer to connect a     *)
(* platform after a release may be declined (elicitation_tools.py:873),    *)
(* and then the release is there.                                          *)
(***************************************************************************)
AnswersAreAsked ==
    /\ \A q \in Questions :
          /\ call[q[1]].asked > q[2] => q \in accepted
          /\ call[q[1]].state = "ok" => q \in accepted \/ q[1] \in created
    /\ \A t \in created : call[t].creates /\ <<t, 1>> \in accepted
    /\ \A t \in Tools : call[t].state = "ok" /\ call[t].creates => t \in created

(***************************************************************************)
(* Every tool call ends, also when nobody sees its question, the session   *)
(* is deleted under it or its answer is lost.                              *)
(***************************************************************************)
CallsEnd == \A t \in Tools : Running(t) ~> ~Running(t)

(***************************************************************************)
(* An expired session leaves the store: a request finds it expired or the  *)
(* cleanup does.                                                           *)
(***************************************************************************)
ExpiredEvicted == \A sid \in SessionIds : (Live(sid) /\ sid \in stale) ~> ~Live(sid)

(***************************************************************************)
(* The completion of a URL flow resolves the future its tool awaits: no    *)
(* tool waits on for a user who is done.                                   *)
(***************************************************************************)
CompletionResolves == \A q \in completed : Latest(q[1]) = q => future[q[1]] # "pending"
=============================================================================
