-------------------------- MODULE McpSession_proofs --------------------------
(***************************************************************************)
(* Safety of the elicitations of McpSession for any number of sessions,    *)
(* streams and calls and whatever the bounds: a tool that waits can be     *)
(* answered, and none goes on with an answer it did not get.  The          *)
(* inductive invariant tells the story of each call, one state after the   *)
(* other.  The second half is about the registry and the streams: a        *)
(* session that is deleted ends all of its streams and cancels all of its  *)
(* questions, as long as no queue fills.                                   *)
(***************************************************************************)
EXTENDS McpSession, CommitGraph_proofs

CallStates ==
    [state : {"idle", "called", "waiting", "creating", "ok", "declined", "error"},
     session : SessionIds \cup {NoSession}, asked : 0..2, creates : BOOLEAN]

\* The types of what a call is made of.
CallsTyped ==
    /\ pending \in [SessionIds -> SUBSET ({"request", "url"} \X Questions)]
    /\ call \in [Tools -> CallStates]
    /\ future \in [Tools -> {"none", "pending", "accept", "decline", "cancelled"}]
    /\ created \subseteq Creators
    /\ accepted \subseteq Questions

\* Where a call is, what was asked and accepted on the way, and whether its
\* release is there.
Story(t) ==
    LET c == call[t]
    IN  /\ c.state # "idle" => c.session \in SessionIds
        /\ c.creates => t \in Creators
        /\ c.state = "idle" => c.asked = 0
        /\ c.state = "called" => (c.asked = 0 /\ t \notin created) \/ (c.asked = 1 /\ t \in created)
        /\ c.state = "waiting" => Latest(t) \in Questions
        /\ c.state = "creating" => c.creates /\ c.asked = 1 /\ <<t, 1>> \in accepted
        /\ c.state = "ok" => \/ t \in created
                             \/ ~c.creates /\ \A q \in Questions : q[1] = t => q \in accepted
        /\ t \in created => c.state # "idle" /\ c.creates /\ <<t, 1>> \in accepted
        /\ c.asked = 2 => <<t, 1>> \in accepted /\ (c.creates => t \in created)

\* The future of a call: its session knows it while it has no outcome, also
\* when nobody waits for it any more, and the one a call waits on is accepted
\* by an answer to the latest question alone.
Waits(t) ==
    /\ future[t] = "pending" => call[t].state # "idle" /\ RequestKey(Latest(t)) \in pending[call[t].session]
    /\ call[t].state = "waiting" /\ future[t] = "accept" => Latest(t) \in accepted

IInv ==
    /\ CallsTyped
    /\ \A t \in Tools : Story(t) /\ Waits(t)

-----------------------------------------------------------------------------
(***************************************************************************)
(* The questions of a call, by their number.                               *)
(***************************************************************************)
LEMMA QuestionsOfCall ==
    ASSUME NEW t \in Tools
    PROVE  /\ Len(Asks[t]) \in 1..2
           /\ t \in Creators => Len(Asks[t]) = 2
           /\ \A n \in Nat : <<t, n>> \in Questions <=> n \in 1..Len(Asks[t])
<1>1. Len(Asks[t]) \in 1..2 /\ (t \in Creators => Len(Asks[t]) = 2)
  BY McpConstantsOK DEF McpConstantsOK
<1>2. \A n \in Nat : <<t, n>> \in Questions <=> n \in 1..Len(Asks[t])
  <2>. SUFFICES ASSUME NEW n \in Nat PROVE <<t, n>> \in Questions <=> n \in 1..Len(Asks[t])
    OBVIOUS
  <2>1. <<t, n>> \in Questions <=> <<t, n>> \in Tools \X (1..2) /\ n <= Len(Asks[t])
    BY DEF Questions
  <2>2. <<t, n>> \in Tools \X (1..2) <=> n \in 1..2
    OBVIOUS
  <2>3. (n \in 1..2 /\ n <= Len(Asks[t])) <=> n \in 1..Len(Asks[t])
    <3>1. \A m \in 1..2 : (n \in 1..2 /\ n <= m) <=> n \in 1..m
      OBVIOUS
    <3>. QED
      BY <1>1, <3>1, Zenon
  <2>. QED
    BY <2>1, <2>2, <2>3
<1>. QED
  BY <1>1, <1>2

LEMMA QuestionIsPair ==
    ASSUME NEW q \in Questions
    PROVE  q[1] \in Tools /\ q[2] \in 1..2 /\ q = <<q[1], q[2]>>
BY DEF Questions

(***************************************************************************)
(* No two questions have a key in common, and none has the id of a URL.    *)
(***************************************************************************)
LEMMA KeysDiffer ==
    /\ \A p, q : RequestKey(p) = RequestKey(q) => p = q
    /\ \A p, q : RequestKey(p) # UrlKey(q)
BY DEF RequestKey, UrlKey

LEMMA InitRight == Init => IInv
<1>. SUFFICES ASSUME Init PROVE IInv
  OBVIOUS
<1>1. CallsTyped
  BY DEF Init, CallsTyped, CallStates
<1>2. ASSUME NEW t \in Tools PROVE Story(t) /\ Waits(t)
  BY DEF Init, Story, Waits
<1>. QED
  BY <1>1, <1>2 DEF IInv

-----------------------------------------------------------------------------
(***************************************************************************)
(* Another call keeps its story, and waits on as long as neither its       *)
(* future nor its key is touched.                                          *)
(***************************************************************************)
LEMMA StoryStays ==
    ASSUME NEW x \in Tools, Story(x), call'[x] = call[x], accepted \subseteq accepted',
           x \in created' <=> x \in created
    PROVE  Story(x)'
<1>1. Latest(x)' = Latest(x)
  BY DEF Latest
<1>. QED
  BY <1>1 DEF Story

LEMMA WaitsStay ==
    ASSUME NEW x \in Tools, Waits(x), call'[x] = call[x], accepted \subseteq accepted',
           future'[x] = future[x],
           RequestKey(Latest(x)) \in pending[call[x].session]
               => RequestKey(Latest(x)) \in pending'[call[x].session]
    PROVE  Waits(x)'
<1>1. Latest(x)' = Latest(x)
  BY DEF Latest
<1>. QED
  BY <1>1 DEF Waits, RequestKey

(***************************************************************************)
(* A step of call t that leaves the keys of the other calls alone.         *)
(***************************************************************************)
LEMMA CallStep ==
    ASSUME IInv, NEW t \in Tools, CallsTyped',
           \A x \in Tools \ {t} : /\ call'[x] = call[x]
                                  /\ future'[x] = future[x]
                                  /\ x \in created' <=> x \in created,
           accepted \subseteq accepted',
           \A sid \in SessionIds : \A x \in Tools \ {t} :
               RequestKey(Latest(x)) \in pending[sid] => RequestKey(Latest(x)) \in pending'[sid],
           Story(t)', Waits(t)'
    PROVE  IInv'
<1>1. ASSUME NEW x \in Tools, x # t PROVE Story(x)' /\ Waits(x)'
  BY <1>1, StoryStays, WaitsStay DEF IInv, Story, Waits
<1>. QED
  BY <1>1 DEF IInv

-----------------------------------------------------------------------------
(***************************************************************************)
(* The steps that touch nothing of a call, and the deletion of sessions,   *)
(* which cancels futures.                                                  *)
(***************************************************************************)
LEMMA FuturesStep ==
    ASSUME IInv, UNCHANGED <<call, created>>, CallsTyped', accepted \subseteq accepted',
           \A x \in Tools : Waits(x)'
    PROVE  IInv'
BY StoryStays DEF IInv

LEMMA CallsUnchanged == IInv /\ UNCHANGED calls => IInv'
<1>. SUFFICES ASSUME IInv, UNCHANGED calls PROVE IInv'
  OBVIOUS
<1>1. CallsTyped'
  BY DEF IInv, CallsTyped, calls
<1>2. \A x \in Tools : Waits(x)'
  BY WaitsStay DEF IInv, calls
<1>. QED
  BY <1>1, <1>2, FuturesStep DEF calls

LEMMA DeletionRight ==
    ASSUME IInv, NEW sids, DeleteSessions(sids)
    PROVE  IInv'
<1>1. /\ future' \in [Tools -> {"none", "pending", "accept", "decline", "cancelled"}]
      /\ \A x \in Tools : future'[x] \in {future[x], "cancelled"}
      /\ UNCHANGED <<pending, call, created, accepted>>
  BY DEF IInv, CallsTyped, DeleteSessions
<1>2. CallsTyped'
  BY <1>1 DEF IInv, CallsTyped
<1>3. ASSUME NEW x \in Tools PROVE Waits(x)'
  <2>1. Latest(x)' = Latest(x)
    BY <1>1 DEF Latest
  <2>. QED
    BY <1>1, <2>1 DEF IInv, Waits, RequestKey
<1>. QED
  BY <1>1, <1>2, <1>3, FuturesStep

(***************************************************************************)
(* An answer, a cancellation or the completion of a URL: the future that   *)
(* loses its key gets an outcome, and it is accepted only by an answer to  *)
(* the question it stands for.                                             *)
(***************************************************************************)
LEMMA SettleRight ==
    ASSUME IInv, NEW sid, NEW key, NEW outcome \in {"accept", "decline", "cancelled"},
           Settle(sid, key, outcome),
           accepted \subseteq accepted', accepted' \subseteq Questions,
           \A x \in Tools : /\ outcome = "accept" /\ key = RequestKey(Latest(x)) /\ key \in pending[sid]
                                  => Latest(x) \in accepted'
                            /\ key = RequestKey(Latest(x)) => call[x].session = sid
    PROVE  IInv'
<1>1. /\ pending' \in [SessionIds -> SUBSET ({"request", "url"} \X Questions)]
      /\ \A s \in SessionIds : pending'[s] = IF s = sid THEN pending[s] \ {key} ELSE pending[s]
      /\ UNCHANGED <<call, created>>
  BY DEF IInv, CallsTyped, Settle
<1>2. /\ future' \in [Tools -> {"none", "pending", "accept", "decline", "cancelled"}]
      /\ \A x \in Tools : future'[x] = IF RequestKey(Latest(x)) = key /\ key \in pending[sid]
                                          /\ future[x] = "pending"
                                       THEN outcome ELSE future[x]
  BY DEF IInv, CallsTyped, Settle
<1>3. CallsTyped'
  BY <1>1, <1>2 DEF IInv, CallsTyped
<1>4. ASSUME NEW x \in Tools PROVE Waits(x)'
  <2>1. Latest(x)' = Latest(x) /\ RequestKey(Latest(x))' = RequestKey(Latest(x))
    BY <1>1 DEF Latest, RequestKey
  <2>2. Waits(x) /\ (call[x].state # "idle" => call[x].session \in SessionIds)
    BY DEF IInv, Story
  <2>3. CASE RequestKey(Latest(x)) = key
    BY <1>1, <1>2, <2>1, <2>2, <2>3 DEF Waits
  <2>4. CASE RequestKey(Latest(x)) # key
    BY <1>1, <1>2, <2>1, <2>2, <2>4 DEF Waits
  <2>. QED
    BY <2>3, <2>4
<1>. QED
  BY <1>1, <1>3, <1>4, FuturesStep

LEMMA AnswerRight ==
    ASSUME IInv, NEW q \in Questions, Accept(q) \/ Decline(q) \/ Cancel(q) \/ CompleteUrl(q)
    PROVE  IInv'
<1>1. \A x \in Tools : RequestKey(q) = RequestKey(Latest(x)) => q = Latest(x) /\ q[1] = x
  BY KeysDiffer DEF Latest
<1>2. \A x \in Tools : UrlKey(q) # RequestKey(Latest(x))
  BY KeysDiffer
<1>3. accepted \subseteq Questions
  BY DEF IInv, CallsTyped
<1>4. CASE Accept(q)
  BY <1>1, <1>3, <1>4, SettleRight DEF Accept
<1>5. CASE Decline(q)
  BY <1>1, <1>3, <1>5, SettleRight DEF Decline
<1>6. CASE Cancel(q)
  BY <1>1, <1>3, <1>6, SettleRight DEF Cancel
<1>7. CASE CompleteUrl(q)
  BY <1>2, <1>3, <1>7, SettleRight DEF CompleteUrl
<1>. QED
  BY <1>4, <1>5, <1>6, <1>7

-----------------------------------------------------------------------------
(***************************************************************************)
(* A call ends, or goes to the creation of its release.                    *)
(***************************************************************************)
LEMMA EndRight ==
    ASSUME IInv, NEW t \in Tools, NEW s \in {"ok", "declined", "error", "creating"},
           EndCall(t, s), accepted' = accepted, call[t].state # "idle",
           created' = created \/ (created' = created \cup {t} /\ call[t].state = "creating"),
           s = "creating" => call[t].creates /\ call[t].asked = 1 /\ <<t, 1>> \in accepted,
           s = "ok" => t \in created \/ (~call[t].creates /\ \A q \in Questions : q[1] = t => q \in accepted)
    PROVE  IInv'
<1>1. CallsTyped /\ Story(t)
  BY DEF IInv
<1>2. /\ call' \in [Tools -> CallStates]
      /\ \A x \in Tools \ {t} : call'[x] = call[x]
      /\ call'[t].state = s /\ call'[t].session = call[t].session
      /\ call'[t].asked = call[t].asked /\ call'[t].creates = call[t].creates
  BY <1>1 DEF CallsTyped, CallStates, EndCall
<1>3. CallsTyped'
  BY <1>1, <1>2 DEF CallsTyped, Story, EndCall
<1>4. Latest(t)' = Latest(t)
  BY <1>2 DEF Latest
<1>5. Story(t)'
  BY <1>1, <1>2, <1>4 DEF Story
<1>6. Waits(t)'
  <2>1. Waits(t) /\ RequestKey(Latest(t))' = RequestKey(Latest(t))
    BY <1>4 DEF IInv, RequestKey
  <2>. QED
    BY <1>2, <2>1 DEF Waits, EndCall
<1>. QED
  BY <1>2, <1>3, <1>5, <1>6, CallStep DEF EndCall

(***************************************************************************)
(* The next question of a call, whose latest is the one before.            *)
(***************************************************************************)
LEMMA ElicitRight ==
    ASSUME IInv, NEW t \in Tools, NEW n \in 0..2, call[t].asked = n,
           call[t].state \in {"called", "waiting"},
           n >= 1 => <<t, n>> \in accepted /\ (call[t].creates => t \in created),
           <<t, n + 1>> \in Questions, Elicit(<<t, n + 1>>), UNCHANGED <<created, accepted>>
    PROVE  IInv'
<1>1. CallsTyped /\ Story(t) /\ call[t].session \in SessionIds
  BY DEF IInv, Story
<1>0. /\ call' = [call EXCEPT ![t].state = "waiting", ![t].asked = n + 1]
      /\ pending' = [pending EXCEPT ![call[t].session] = @ \cup {RequestKey(<<t, n + 1>>)}]
      /\ future' = [future EXCEPT ![t] = "pending"]
  BY DEF Elicit
<1>2. n + 1 \in 1..2 /\ n \in 0..1
  BY QuestionsOfCall, QuestionIsPair
<1>3. /\ call' \in [Tools -> CallStates]
      /\ \A x \in Tools \ {t} : call'[x] = call[x]
      /\ call'[t].state = "waiting" /\ call'[t].session = call[t].session
      /\ call'[t].asked = n + 1 /\ call'[t].creates = call[t].creates
  BY <1>0, <1>1, <1>2 DEF CallsTyped, CallStates
<1>4. /\ pending' \in [SessionIds -> SUBSET ({"request", "url"} \X Questions)]
      /\ \A sid \in SessionIds : pending[sid] \subseteq pending'[sid]
      /\ RequestKey(<<t, n + 1>>) \in pending'[call[t].session]
  <2>1. RequestKey(<<t, n + 1>>) \in {"request", "url"} \X Questions
    BY DEF RequestKey
  <2>. QED
    BY <1>0, <1>1, <2>1 DEF CallsTyped
<1>5. /\ future' \in [Tools -> {"none", "pending", "accept", "decline", "cancelled"}]
      /\ future'[t] = "pending" /\ \A x \in Tools \ {t} : future'[x] = future[x]
  BY <1>0, <1>1 DEF CallsTyped
<1>6. Latest(t)' = <<t, n + 1>> /\ RequestKey(Latest(t))' = RequestKey(<<t, n + 1>>)
  BY <1>3 DEF Latest, RequestKey
<1>7. CallsTyped'
  BY <1>1, <1>3, <1>4, <1>5 DEF CallsTyped
<1>8. Story(t)'
  BY <1>1, <1>2, <1>3, <1>6 DEF Story
<1>9. Waits(t)'
  BY <1>3, <1>4, <1>5, <1>6 DEF Waits
<1>. QED
  BY <1>3, <1>4, <1>5, <1>7, <1>8, <1>9, CallStep

(***************************************************************************)
(* A call goes on when everything it asked is accepted and the release it  *)
(* is to create is there.                                                  *)
(***************************************************************************)
LEMMA GoOnRight ==
    ASSUME IInv, NEW t \in Tools, call[t].state \in {"called", "waiting"},
           call[t].state = "waiting" => future[t] = "accept" /\ ~FormOfRelease(t),
           GoOn(t), UNCHANGED <<created, accepted>>
    PROVE  IInv'
<1>1. PICK n \in 0..2 : n = call[t].asked
  BY DEF IInv, CallsTyped, CallStates
<1>2. Story(t) /\ Waits(t) /\ Latest(t) = <<t, n>>
  BY <1>1 DEF IInv, Latest
<1>3. n >= 1 => <<t, n>> \in accepted /\ (call[t].creates => t \in created)
  BY <1>1, <1>2 DEF Story, Waits, FormOfRelease
<1>4. CASE <<t, n + 1>> \notin Questions /\ EndCall(t, "ok")
  <2>1. n >= Len(Asks[t]) /\ n >= 1
    BY <1>4, QuestionsOfCall
  <2>2. \A q \in Questions : q[1] = t => q \in accepted
    <3>. SUFFICES ASSUME NEW q \in Questions, q[1] = t PROVE q \in accepted
      OBVIOUS
    <3>1. q = <<t, q[2]>> /\ q[2] \in 1..n
      BY <2>1, QuestionIsPair, QuestionsOfCall
    <3>2. n = 2 => <<t, 1>> \in accepted
      BY <1>1, <1>2 DEF Story
    <3>. QED
      BY <1>3, <2>1, <3>1, <3>2
  <2>. QED
    BY <1>3, <1>4, <2>1, <2>2, EndRight
<1>5. CASE <<t, n + 1>> \in Questions /\ Elicit(<<t, n + 1>>)
  BY <1>1, <1>3, <1>5, ElicitRight
<1>6. CASE EndCall(t, WithoutAnswer(t))
  BY <1>6, EndRight DEF WithoutAnswer
<1>. QED
  BY <1>1, <1>4, <1>5, <1>6 DEF GoOn

-----------------------------------------------------------------------------
LEMMA CallToolRight ==
    ASSUME IInv, NEW t \in Tools, NEW sid \in SessionIds, CallTool(t, sid)
    PROVE  IInv'
<1>1. PICK creates \in {FALSE} \cup {t \in Creators} :
         call' = [call EXCEPT ![t] = [state |-> "called", session |-> sid, asked |-> 0,
                                      creates |-> creates]]
  BY DEF CallTool
<1>2. CallsTyped /\ Story(t) /\ call[t].state = "idle" /\ UNCHANGED <<pending, future, created, accepted>>
  BY DEF IInv, CallTool
<1>3. creates \in BOOLEAN /\ (creates => t \in Creators)
  BY <1>1
<1>4. /\ call' \in [Tools -> CallStates]
      /\ \A x \in Tools \ {t} : call'[x] = call[x]
      /\ call'[t] = [state |-> "called", session |-> sid, asked |-> 0, creates |-> creates]
  BY <1>1, <1>2, <1>3 DEF CallsTyped, CallStates
<1>5. CallsTyped'
  BY <1>2, <1>4 DEF CallsTyped
<1>6. Story(t)' /\ Waits(t)'
  <2>1. future[t] # "pending"
    BY <1>2 DEF IInv, Waits
  <2>. QED
    BY <1>2, <1>3, <1>4, <2>1 DEF Story, Waits
<1>. QED
  BY <1>2, <1>4, <1>5, <1>6, CallStep

LEMMA CreateRight ==
    ASSUME IInv, NEW t \in Tools, Create(t)
    PROVE  IInv'
<1>1. CallsTyped /\ Story(t) /\ call[t].state = "creating"
  BY DEF IInv, Create
<1>2. /\ call' \in [Tools -> CallStates]
      /\ \A x \in Tools \ {t} : call'[x] = call[x]
      /\ call'[t].state = "called" /\ call'[t].session = call[t].session
      /\ call'[t].asked = call[t].asked /\ call'[t].creates = call[t].creates
      /\ created' = created \cup {t} /\ UNCHANGED <<pending, future, accepted>>
  BY <1>1 DEF CallsTyped, CallStates, Create
<1>3. CallsTyped' /\ Story(t)'
  BY <1>1, <1>2 DEF CallsTyped, Story
<1>4. Waits(t)'
  <2>1. Waits(t) /\ RequestKey(Latest(t))' = RequestKey(Latest(t))
    BY <1>2 DEF IInv, Latest, RequestKey
  <2>. QED
    BY <1>1, <1>2, <2>1 DEF Waits
<1>. QED
  BY <1>2, <1>3, <1>4, CallStep

LEMMA WakeRight ==
    ASSUME IInv, NEW t \in Tools, Wake(t)
    PROVE  IInv'
<1>1. Story(t) /\ Waits(t) /\ call[t].state = "waiting" /\ UNCHANGED <<created, accepted>>
  BY DEF IInv, Wake
<1>2. CASE future[t] \in {"decline", "cancelled"} /\ EndCall(t, WithoutAnswer(t))
  BY <1>1, <1>2, EndRight DEF WithoutAnswer
<1>3. CASE future[t] = "accept" /\ FormOfRelease(t) /\ EndCall(t, "creating")
  BY <1>1, <1>3, EndRight DEF FormOfRelease, Waits, Latest
<1>4. CASE future[t] = "accept" /\ ~FormOfRelease(t) /\ GoOn(t)
  BY <1>1, <1>4, GoOnRight
<1>5. CASE EndCall(t, "declined")
  BY <1>1, <1>5, EndRight
<1>. QED
  BY <1>2, <1>3, <1>4, <1>5 DEF Wake

(***************************************************************************)
(* A timeout drops the key of the call, which is no other call's.          *)
(***************************************************************************)
LEMMA TimeoutRight ==
    ASSUME IInv, NEW t \in Tools, Timeout(t)
    PROVE  IInv'
<1>1. CallsTyped /\ Story(t) /\ call[t].state = "waiting"
  BY DEF IInv, Timeout
<1>2. /\ call' \in [Tools -> CallStates]
      /\ \A x \in Tools \ {t} : call'[x] = call[x]
      /\ call'[t].state = WithoutAnswer(t) /\ call'[t].session = call[t].session
      /\ call'[t].asked = call[t].asked /\ call'[t].creates = call[t].creates
      /\ UNCHANGED <<created, accepted>>
  BY <1>1 DEF CallsTyped, CallStates, Timeout, WithoutAnswer
<1>3. /\ pending' \in [SessionIds -> SUBSET ({"request", "url"} \X Questions)]
      /\ \A sid \in SessionIds : pending[sid] \ {RequestKey(Latest(t))} \subseteq pending'[sid]
  BY <1>1 DEF CallsTyped, Timeout
<1>4. /\ future' \in [Tools -> {"none", "pending", "accept", "decline", "cancelled"}]
      /\ \A x \in Tools \ {t} : future'[x] = future[x]
  BY <1>1 DEF CallsTyped, Timeout
<1>5. \A x \in Tools \ {t} : RequestKey(Latest(x)) # RequestKey(Latest(t))
  BY KeysDiffer DEF Latest
<1>6. CallsTyped'
  BY <1>1, <1>2, <1>3, <1>4 DEF CallsTyped
<1>7. Latest(t)' = Latest(t)
  BY <1>2 DEF Latest
<1>8. Story(t)'
  BY <1>1, <1>2, <1>7 DEF Story, WithoutAnswer
<1>9. Waits(t)'
  <2>1. future'[t] # "pending"
    BY <1>1 DEF CallsTyped, Timeout
  <2>. QED
    BY <1>2, <2>1 DEF Waits, WithoutAnswer
<1>. QED
  BY <1>2, <1>3, <1>4, <1>5, <1>6, <1>8, <1>9, CallStep

LEMMA AbandonRight ==
    ASSUME IInv, NEW t \in Tools, Abandon(t)
    PROVE  IInv'
<1>1. CASE call[t].state = "waiting" /\ EndCall(t, WithoutAnswer(t)) /\ UNCHANGED created
  BY <1>1, EndRight DEF Abandon, WithoutAnswer
<1>2. CASE /\ call[t].state = "creating" /\ EndCall(t, "error")
           /\ created' \in {created, created \cup {t}}
  BY <1>2, EndRight DEF Abandon
<1>. QED
  BY <1>1, <1>2 DEF Abandon

LEMMA ToolRight ==
    ASSUME IInv, NEW t \in Tools,
           \/ \E sid \in SessionIds : CallTool(t, sid)
           \/ Begin(t) \/ Create(t) \/ CreateFails(t) \/ Wake(t) \/ Timeout(t) \/ Abandon(t)
    PROVE  IInv'
<1>1. CASE Begin(t)
  BY <1>1, GoOnRight DEF Begin
<1>2. CASE CreateFails(t)
  BY <1>2, EndRight DEF CreateFails
<1>. QED
  BY <1>1, <1>2, CallToolRight, CreateRight, WakeRight, TimeoutRight, AbandonRight

LEMMA StreamRight ==
    ASSUME IInv, NEW k \in Streams,
           \/ \E sid \in SessionIds : OpenStream(k, sid)
           \/ \E last \in LastIds : AttachStream(k, last)
           \/ Deliver(k) \/ Disconnect(k)
    PROVE  IInv'
BY CallsUnchanged DEF OpenStream, AttachStream, Deliver, Disconnect

LEMMA SessionRight ==
    ASSUME IInv, \/ CleanupRound
                 \/ \E sid \in SessionIds : CreateSession(sid) \/ Expire(sid) \/ Delete(sid)
    PROVE  IInv'
<1>1. CASE CleanupRound
  BY <1>1, DeletionRight DEF CleanupRound
<1>2. ASSUME NEW sid \in SessionIds, CreateSession(sid) \/ Expire(sid) PROVE IInv'
  BY <1>2, CallsUnchanged DEF CreateSession, Expire
<1>3. ASSUME NEW sid \in SessionIds, Delete(sid) PROVE IInv'
  BY <1>3, DeletionRight DEF Delete
<1>. QED
  BY <1>1, <1>2, <1>3

LEMMA NextRight == IInv /\ [Next]_vars => IInv'
<1>. SUFFICES ASSUME IInv, [Next]_vars PROVE IInv'
  OBVIOUS
<1>1. CASE UNCHANGED vars
  BY <1>1, CallsUnchanged DEF vars, calls
<1>. QED
  BY <1>1, SessionRight, StreamRight, ToolRight, AnswerRight DEF Next

LEMMA Invariance == Spec => []IInv
BY InitRight, NextRight, PTL DEF Spec

-----------------------------------------------------------------------------
(***************************************************************************)
(* An answer reaches the tool that asked: as long as a tool waits on a     *)
(* future without outcome, its session knows the future by the id the      *)
(* client answers to (mcp/context.py, elicit_form and elicit_url), however *)
(* many calls share the session and whatever is answered, cancelled, timed *)
(* out or deleted meanwhile.                                               *)
(***************************************************************************)
THEOREM WaitersAlwaysReachable == Spec => []WaiterReachable
<1>1. IInv => WaiterReachable
  BY DEF IInv, Waits, WaiterReachable
<1>. QED
  BY <1>1, Invariance, PTL

(***************************************************************************)
(* A tool goes on only with what the client agreed to, each question by an *)
(* answer to itself, and only the offer after a release may be declined    *)
(* (elicitation_tools.py:873), however many clients answer, repeat their   *)
(* answers or are late.                                                    *)
(***************************************************************************)
THEOREM AnswersAlwaysAsked == Spec => []AnswersAreAsked
<1>1. IInv => AnswersAreAsked
  <2>. SUFFICES ASSUME IInv PROVE AnswersAreAsked
    OBVIOUS
  <2>1. ASSUME NEW q \in Questions
        PROVE  /\ call[q[1]].asked > q[2] => q \in accepted
               /\ call[q[1]].state = "ok" => q \in accepted \/ q[1] \in created
    <3>1. q[1] \in Tools /\ q[2] \in 1..2 /\ q = <<q[1], q[2]>>
      BY QuestionIsPair
    <3>2. Story(q[1]) /\ call[q[1]].asked \in 0..2
      BY <3>1 DEF IInv, CallsTyped, CallStates
    <3>3. call[q[1]].asked > q[2] => q[2] = 1 /\ call[q[1]].asked = 2
      BY <3>1, <3>2
    <3>. QED
      BY <3>1, <3>2, <3>3 DEF Story
  <2>2. \A t \in created : call[t].creates /\ <<t, 1>> \in accepted
    <3>1. created \subseteq Tools
      BY McpConstantsOK DEF McpConstantsOK, IInv, CallsTyped
    <3>. QED
      BY <3>1 DEF IInv, Story
  <2>3. \A t \in Tools : call[t].state = "ok" /\ call[t].creates => t \in created
    BY DEF IInv, Story
  <2>. QED
    BY <2>1, <2>2, <2>3 DEF AnswersAreAsked
<1>. QED
  BY <1>1, Invariance, PTL
-----------------------------------------------------------------------------
(***************************************************************************)
(* Sequences: what is chosen from one, and one with an item more or less.  *)
(***************************************************************************)
LEMMA ThoseRight ==
    ASSUME NEW S, NEW seq \in Seq(S), NEW elems, NEW q, q = Those(seq, elems)
    PROVE  q \in Seq(S) /\ Len(q) <= Len(seq) /\ ToSet(q) = ToSet(seq) \cap elems
<1>. DEFINE places == {i \in DOMAIN seq : seq[i] \in elems}
            n == Cardinality(places)
            f == InRankOrder(places)
<1>1. DOMAIN seq = 1..Len(seq) /\ Len(seq) \in Nat
  OBVIOUS
<1>2. places \in SUBSET (Nat \ {0}) /\ IsFiniteSet(places) /\ n <= Len(seq)
  <2>1. IsFiniteSet(1..Len(seq)) /\ Cardinality(1..Len(seq)) = Len(seq)
    BY <1>1, FS_Interval
  <2>. QED
    BY <1>1, <2>1, FS_Subset
<1>3. /\ f \in [1..n -> places] /\ n \in Nat
      /\ \A o \in places : \E i \in 1..n : f[i] = o
  <2>. HIDE DEF places
  <2>. QED
    BY <1>2, RanksEnumerate
<1>4. q = [i \in 1..n |-> seq[f[i]]]
  <2>1. q = [i \in 1..n |-> seq[CHOOSE o \in places : Rank(places, o) = i]]
    BY Zenon DEF Those, Rank, UpTo
  <2>. QED
    BY <2>1 DEF InRankOrder
<1>. HIDE DEF f, n
<1>5. \A i \in 1..n : q[i] = seq[f[i]] /\ f[i] \in DOMAIN seq /\ seq[f[i]] \in elems
  BY <1>3, <1>4
<1>6. q \in Seq(S) /\ Len(q) = n /\ DOMAIN q = 1..n
  BY <1>3, <1>4, <1>5
<1>7. ASSUME NEW o \in DOMAIN seq, seq[o] \in elems PROVE \E i \in DOMAIN q : q[i] = seq[o]
  <2>1. PICK i \in 1..n : f[i] = o
    BY <1>3, <1>7
  <2>. QED
    BY <1>5, <1>6, <2>1
<1>8. ToSet(q) = ToSet(seq) \cap elems
  <2>1. ToSet(q) \subseteq ToSet(seq) \cap elems
    BY <1>5, <1>6 DEF ToSet
  <2>2. ToSet(seq) \cap elems \subseteq ToSet(q)
    BY <1>7 DEF ToSet
  <2>. QED
    BY <2>1, <2>2
<1>. QED
  BY <1>2, <1>6, <1>8 DEF n

Longer(s, e, q) == q = Append(s, e)

LEMMA AppendRight ==
    ASSUME NEW S, NEW s \in Seq(S), NEW e \in S, NEW q, Longer(s, e, q)
    PROVE  /\ q \in Seq(S) /\ Len(q) = Len(s) + 1 /\ q # <<>> /\ Last(q) = e
           /\ ToSet(q) = ToSet(s) \cup {e}
           /\ IsInjective(s) /\ e \notin ToSet(s) => IsInjective(q)
<1>1. /\ q \in Seq(S) /\ Len(q) = Len(s) + 1 /\ Len(s) \in Nat /\ DOMAIN s = 1..Len(s)
      /\ DOMAIN q = 1..(Len(s) + 1) /\ q[Len(s) + 1] = e
      /\ \A i \in 1..Len(s) : q[i] = s[i]
  BY DEF Longer
<1>2. q # <<>> /\ Last(q) = e
  BY <1>1 DEF Last
<1>3. ToSet(q) = ToSet(s) \cup {e}
  BY <1>1 DEF ToSet
<1>4. ASSUME IsInjective(s), e \notin ToSet(s) PROVE IsInjective(q)
  BY <1>1, <1>4 DEF IsInjective, ToSet
<1>. QED
  BY <1>1, <1>2, <1>3, <1>4

LEMMA TailRight ==
    ASSUME NEW S, NEW s \in Seq(S), s # <<>>, NEW q, q = Tail(s)
    PROVE  /\ q \in Seq(S) /\ Len(q) <= Len(s) /\ Head(s) \in S
           /\ ToSet(q) \subseteq ToSet(s)
           /\ IsInjective(s) => IsInjective(q)
<1>1. /\ q \in Seq(S) /\ Len(q) = Len(s) - 1 /\ Len(s) \in Nat /\ Len(s) > 0
      /\ DOMAIN s = 1..Len(s) /\ DOMAIN q = 1..(Len(s) - 1) /\ Head(s) \in S
      /\ \A i \in 1..(Len(s) - 1) : q[i] = s[i + 1]
  OBVIOUS
<1>2. ToSet(q) \subseteq ToSet(s)
  BY <1>1 DEF ToSet
<1>3. ASSUME IsInjective(s) PROVE IsInjective(q)
  BY <1>1, <1>3 DEF IsInjective
<1>. QED
  BY <1>1, <1>2, <1>3

-----------------------------------------------------------------------------
(***************************************************************************)
(* The registry and the streams.  A queue belongs to the session of its    *)
(* stream and to no other; as long as that session is registered nothing   *)
(* has ended the queue, so it holds questions that were asked, each once.  *)
(***************************************************************************)
RegistryTyped ==
    /\ store \in Seq(SessionIds) /\ Len(store) <= MaxSessions
    /\ ToSet(store) \subseteq drawn
    /\ drawn \subseteq SessionIds
    /\ stale \subseteq SessionIds
    /\ cleanup \in {"off", "running", "dead"}

Events == [id : {""}, event : Questions]

ChannelsTyped ==
    /\ queues \in [SessionIds -> Seq(Streams)]
    /\ queue \in [Streams -> Seq(Questions \cup {End})]
    /\ stream \in [Streams -> [state : {"closed", "opening", "open"}, session : SessionIds \cup {NoSession}]]
    /\ buffer \in [SessionIds -> Seq(Events)]
    /\ inbox \subseteq Questions
    /\ \A sid \in SessionIds : Len(buffer[sid]) <= BufferSize
    /\ \A k \in Streams : Len(queue[k]) <= QueueSize

\* The questions asked so far.
Asked == {q \in Questions : q[2] <= call[q[1]].asked}

Attached(k) ==
    /\ stream[k].session \in drawn \cup {NoSession}
    /\ stream[k].state # "closed" => stream[k].session \in SessionIds
    /\ \A sid \in SessionIds : k \in ToSet(queues[sid]) =>
          stream[k].state = "open" /\ stream[k].session = sid

Unended(k) ==
    stream[k].state = "open" /\ Live(stream[k].session) =>
        ToSet(queue[k]) \subseteq Asked /\ IsInjective(queue[k])

StreamInv ==
    /\ RegistryTyped
    /\ ChannelsTyped
    /\ completed \subseteq UrlQuestions
    /\ \A k \in Streams : Attached(k) /\ Unended(k)

LEMMA StreamsStart == Init => StreamInv
<1>. SUFFICES ASSUME Init PROVE StreamInv
  OBVIOUS
<1>0. MaxSessions \in Nat /\ QueueSize \in Nat /\ BufferSize \in Nat
  BY McpConstantsOK DEF McpConstantsOK
<1>1. RegistryTyped
  BY <1>0, McpConstantsOK DEF Init, RegistryTyped, ToSet, McpConstantsOK
<1>2. ChannelsTyped
  BY McpConstantsOK DEF Init, ChannelsTyped, McpConstantsOK
<1>3. ASSUME NEW k \in Streams PROVE Attached(k) /\ Unended(k)
  BY DEF Init, Attached, Unended, ToSet
<1>. QED
  BY <1>1, <1>2, <1>3 DEF StreamInv, Init

(***************************************************************************)
(* Steps of calls.  No call takes back a question.                         *)
(***************************************************************************)
LEMMA AskedGrows ==
    ASSUME \A t \in Tools : call[t].asked \in Nat /\ call'[t].asked \in Nat /\ call[t].asked <= call'[t].asked
    PROVE  Asked \subseteq Asked'
<1>1. Questions' = Questions
  BY DEF Questions
<1>2. ASSUME NEW q \in Questions, q[2] <= call[q[1]].asked PROVE q[2] <= call'[q[1]].asked
  BY <1>2, QuestionIsPair
<1>. QED
  BY <1>1, <1>2 DEF Asked

LEMMA StreamsUnchanged ==
    ASSUME StreamInv, UNCHANGED <<registry, channels>>, completed' \subseteq UrlQuestions,
           Asked \subseteq Asked'
    PROVE  StreamInv'
<1>1. UNCHANGED <<store, drawn, stale, cleanup, queues, queue, stream, buffer, inbox>>
  BY DEF registry, channels
<1>2. RegistryTyped' /\ ChannelsTyped'
  BY <1>1 DEF StreamInv, RegistryTyped, ChannelsTyped
<1>3. ASSUME NEW k \in Streams PROVE Attached(k)' /\ Unended(k)'
  <2>1. Attached(k) /\ Unended(k)
    BY DEF StreamInv
  <2>2. Attached(k)'
    BY <1>1, <2>1 DEF Attached
  <2>3. Unended(k)'
    BY <1>1, <2>1 DEF Unended, Live
  <2>. QED
    BY <2>2, <2>3
<1>4. UrlQuestions' = UrlQuestions
  BY DEF UrlQuestions, Questions
<1>. QED
  BY <1>2, <1>3, <1>4 DEF StreamInv

LEMMA QuestionAsked ==
    ASSUME IInv, StreamInv, NEW t \in Tools, NEW n \in 0..2, call[t].asked = n,
           call[t].session \in SessionIds, <<t, n + 1>> \in Questions, Elicit(<<t, n + 1>>),
           UNCHANGED completed
    PROVE  StreamInv'
<1>. DEFINE q == <<t, n + 1>>
            sid == call[t].session
<1>1. /\ UNCHANGED <<store, drawn, stale, cleanup, queues, stream, inbox>>
      /\ call' = [call EXCEPT ![t].state = "waiting", ![t].asked = n + 1]
      /\ buffer' = [buffer EXCEPT ![sid] = Append(Kept(sid), [id |-> "", event |-> q])]
      /\ queue' = [k \in Streams |-> IF k \in ToSet(queues[sid]) /\ ~Full(k)
                                     THEN Append(queue[k], q) ELSE queue[k]]
  BY DEF Elicit, registry
<1>2. /\ \A x \in Tools : call[x].asked \in Nat /\ call'[x].asked \in Nat /\ call[x].asked <= call'[x].asked
      /\ call'[t].asked = n + 1
  <2>1. call \in [Tools -> CallStates]
    BY DEF IInv, CallsTyped
  <2>2. call'[t].asked = n + 1 /\ \A x \in Tools \ {t} : call'[x] = call[x]
    BY <1>1, <2>1 DEF CallStates
  <2>3. \A x \in Tools : call[x].asked \in Nat
    BY <2>1 DEF CallStates
  <2>. QED
    BY <2>2, <2>3
<1>3. Asked \subseteq Asked'
  BY <1>2, AskedGrows
<1>4. q \in Asked' /\ q \notin Asked
  <2>1. Questions' = Questions
    BY DEF Questions
  <2>. QED
    BY <1>2, <2>1 DEF Asked
<1>5. /\ QueueSize \in Nat /\ BufferSize \in Nat /\ BufferSize > 0
  BY McpConstantsOK DEF McpConstantsOK
<1>6. RegistryTyped'
  BY <1>1 DEF StreamInv, RegistryTyped
<1>7. ASSUME NEW k \in Streams
      PROVE  /\ queue'[k] \in Seq(Questions \cup {End}) /\ Len(queue'[k]) <= QueueSize
             /\ queue'[k] = queue[k] \/ (~Full(k) /\ queue'[k] = Append(queue[k], q))
  <2>1. queue[k] \in Seq(Questions \cup {End}) /\ Len(queue[k]) <= QueueSize
    BY DEF StreamInv, ChannelsTyped
  <2>2. CASE queue'[k] = queue[k]
    BY <2>1, <2>2
  <2>3. CASE ~Full(k) /\ queue'[k] = Append(queue[k], q)
    <3>1. Len(queue[k]) < QueueSize
      BY <1>5, <2>1, <2>3 DEF Full
    <3>2. queue'[k] \in Seq(Questions \cup {End}) /\ Len(queue'[k]) = Len(queue[k]) + 1
      BY <2>1, <2>3
    <3>. QED
      BY <1>5, <2>1, <2>3, <3>1, <3>2
  <2>. QED
    BY <1>1, <2>2, <2>3
<1>8. /\ buffer' \in [SessionIds -> Seq(Events)]
      /\ \A s \in SessionIds : Len(buffer'[s]) <= BufferSize
  <2>1. buffer \in [SessionIds -> Seq(Events)] /\ Len(buffer[sid]) <= BufferSize
    BY DEF StreamInv, ChannelsTyped
  <2>2. [id |-> "", event |-> q] \in Events
    BY DEF Events
  <2>3. Kept(sid) \in Seq(Events) /\ Len(Kept(sid)) < BufferSize
    BY <1>5, <2>1 DEF Kept
  <2>4. PICK s : s = Append(Kept(sid), [id |-> "", event |-> q])
    OBVIOUS
  <2>5. s \in Seq(Events) /\ Len(s) <= BufferSize
    <3>1. PICK b : b = Kept(sid)
      OBVIOUS
    <3>2. PICK e : e = [id |-> "", event |-> q]
      OBVIOUS
    <3>3. b \in Seq(Events) /\ Len(b) < BufferSize /\ e \in Events /\ s = Append(b, e)
      BY <2>2, <2>3, <2>4, <3>1, <3>2
    <3>4. s \in Seq(Events) /\ Len(s) = Len(b) + 1 /\ Len(b) \in Nat
      BY <3>3
    <3>. QED
      BY <1>5, <3>3, <3>4
  <2>6. buffer' = [buffer EXCEPT ![sid] = s]
    BY <1>1, <2>4
  <2>. QED
    BY <2>1, <2>5, <2>6 DEF StreamInv, ChannelsTyped
<1>9. ChannelsTyped'
  <2>1. queue' \in [Streams -> Seq(Questions \cup {End})]
    BY <1>1, <1>7
  <2>. HIDE DEF q, sid
  <2>. QED
    BY <1>1, <1>7, <1>8, <2>1 DEF StreamInv, ChannelsTyped, Questions, Events
<1>10. ASSUME NEW k \in Streams PROVE Attached(k)' /\ Unended(k)'
  <2>1. Attached(k) /\ Unended(k) /\ queue[k] \in Seq(Questions \cup {End})
    BY DEF StreamInv, ChannelsTyped
  <2>2. Attached(k)'
    BY <1>1, <2>1 DEF Attached
  <2>3. ASSUME stream[k].state = "open", Live(stream[k].session)
        PROVE  ToSet(queue'[k]) \subseteq Asked' /\ IsInjective(queue'[k])
    <3>1. ToSet(queue[k]) \subseteq Asked /\ IsInjective(queue[k])
      BY <2>1, <2>3 DEF Unended
    <3>2. CASE queue'[k] = queue[k]
      BY <1>3, <3>1, <3>2
    <3>3. CASE queue'[k] = Append(queue[k], q)
      <4>1. PICK s : s = queue'[k]
        OBVIOUS
      <4>2. PICK r : r = queue[k]
        OBVIOUS
      <4>3. ToSet(s) = ToSet(r) \cup {q} /\ (IsInjective(r) /\ q \notin ToSet(r) => IsInjective(s))
        <5>1. PICK e : e = q
          OBVIOUS
        <5>2. r \in Seq(Questions \cup {End}) /\ e \in Questions \cup {End} /\ Longer(r, e, s)
          BY <2>1, <3>3, <4>1, <4>2, <5>1 DEF Longer
        <5>3. ToSet(s) = ToSet(r) \cup {e} /\ (IsInjective(r) /\ e \notin ToSet(r) => IsInjective(s))
          BY <5>2, AppendRight
        <5>. QED
          BY <5>1, <5>3
      <4>. QED
        BY <1>3, <1>4, <3>1, <4>1, <4>2, <4>3
    <3>. QED
      BY <1>7, <3>2, <3>3
  <2>4. Unended(k)'
    BY <1>1, <2>3 DEF Unended, Live
  <2>. QED
    BY <2>2, <2>4
<1>11. completed' \subseteq UrlQuestions' /\ UrlQuestions' = UrlQuestions
  BY DEF StreamInv, UrlQuestions, Questions
<1>. QED
  BY <1>6, <1>9, <1>10, <1>11 DEF StreamInv

LEMMA GoOnAsks ==
    ASSUME IInv, StreamInv, NEW t \in Tools, call[t].state \in {"called", "waiting"}, GoOn(t),
           UNCHANGED completed
    PROVE  StreamInv'
<1>1. PICK n \in 0..2 : n = call[t].asked
  BY DEF IInv, CallsTyped, CallStates
<1>2. call[t].session \in SessionIds
  BY DEF IInv, Story
<1>3. CASE <<t, n + 1>> \in Questions /\ Elicit(<<t, n + 1>>)
  BY <1>1, <1>2, <1>3, QuestionAsked
<1>4. ASSUME NEW s, EndCall(t, s) PROVE StreamInv'
  <2>1. \A x \in Tools : call[x].asked \in Nat /\ call'[x].asked \in Nat /\ call[x].asked <= call'[x].asked
    BY <1>4 DEF IInv, CallsTyped, CallStates, EndCall
  <2>. QED
    BY <1>4, <2>1, AskedGrows, StreamsUnchanged DEF EndCall, StreamInv
<1>. QED
  BY <1>1, <1>3, <1>4 DEF GoOn

LEMMA CallStreams ==
    ASSUME IInv, StreamInv, NEW t \in Tools,
           \/ \E sid \in SessionIds : CallTool(t, sid)
           \/ Begin(t) \/ Create(t) \/ CreateFails(t) \/ Wake(t) \/ Timeout(t) \/ Abandon(t)
    PROVE  StreamInv'
<1>0. CallsTyped /\ Story(t) /\ completed \subseteq UrlQuestions
  BY DEF IInv, StreamInv
<1>1. ASSUME UNCHANGED <<registry, channels, completed>>,
             \A x \in Tools : call[x].asked \in Nat /\ call'[x].asked \in Nat /\ call[x].asked <= call'[x].asked
      PROVE  StreamInv'
  BY <1>0, <1>1, AskedGrows, StreamsUnchanged
<1>2. ASSUME NEW sid \in SessionIds, CallTool(t, sid) PROVE StreamInv'
  <2>1. UNCHANGED <<registry, channels, completed>> /\ call[t].state = "idle"
    BY <1>2 DEF CallTool
  <2>2. call[t].asked = 0
    BY <1>0, <2>1 DEF Story
  <2>3. \A x \in Tools : call[x].asked \in Nat /\ call'[x].asked \in Nat /\ call[x].asked <= call'[x].asked
    BY <1>0, <1>2, <2>2 DEF CallTool, CallsTyped, CallStates
  <2>. QED
    BY <1>1, <2>1, <2>3
<1>3. ASSUME NEW s, EndCall(t, s), UNCHANGED completed PROVE StreamInv'
  <2>1. \A x \in Tools : call[x].asked \in Nat /\ call'[x].asked \in Nat /\ call[x].asked <= call'[x].asked
    BY <1>0, <1>3 DEF CallsTyped, CallStates, EndCall
  <2>. QED
    BY <1>1, <1>3, <2>1 DEF EndCall
<1>4. CASE Begin(t)
  BY <1>4, GoOnAsks DEF Begin
<1>5. CASE Create(t)
  <2>1. \A x \in Tools : call[x].asked \in Nat /\ call'[x].asked \in Nat /\ call[x].asked <= call'[x].asked
    BY <1>0, <1>5 DEF CallsTyped, CallStates, Create
  <2>. QED
    BY <1>1, <1>5, <2>1 DEF Create
<1>6. CASE CreateFails(t)
  BY <1>3, <1>6 DEF CreateFails
<1>7. CASE Wake(t)
  BY <1>3, <1>7, GoOnAsks DEF Wake
<1>8. CASE Timeout(t)
  <2>1. \A x \in Tools : call[x].asked \in Nat /\ call'[x].asked \in Nat /\ call[x].asked <= call'[x].asked
    BY <1>0, <1>8 DEF CallsTyped, CallStates, Timeout
  <2>. QED
    BY <1>1, <1>8, <2>1 DEF Timeout
<1>9. CASE Abandon(t)
  BY <1>3, <1>9 DEF Abandon
<1>. QED
  BY <1>2, <1>4, <1>5, <1>6, <1>7, <1>8, <1>9

LEMMA AnswerStreams ==
    ASSUME StreamInv, NEW q \in Questions, Accept(q) \/ Decline(q) \/ Cancel(q) \/ CompleteUrl(q)
    PROVE  StreamInv'
<1>1. UNCHANGED <<registry, channels, call>>
  BY DEF Accept, Decline, Cancel, CompleteUrl, Settle
<1>2. completed' \subseteq UrlQuestions
  BY DEF StreamInv, Accept, Decline, Cancel, CompleteUrl
<1>3. Asked \subseteq Asked'
  BY <1>1 DEF Asked, Questions
<1>. QED
  BY <1>1, <1>2, <1>3, StreamsUnchanged

-----------------------------------------------------------------------------
(***************************************************************************)
(* Steps of the registry.  A new session has no streams; one that is       *)
(* deleted leaves the queues of the others alone.                          *)
(***************************************************************************)
LEMMA SessionDrawn ==
    ASSUME StreamInv, NEW sid \in SessionIds, CreateSession(sid) \/ Expire(sid),
           UNCHANGED call
    PROVE  StreamInv'
<1>1. /\ UNCHANGED <<queues, queue, stream, buffer, inbox, completed>>
      /\ drawn \subseteq drawn'
      /\ \A s \in drawn : s \in ToSet(store') => s \in ToSet(store)
      /\ RegistryTyped'
  <2>1. RegistryTyped /\ MaxSessions \in Nat
    BY McpConstantsOK DEF StreamInv, McpConstantsOK
  <2>2. CASE CreateSession(sid)
    <3>1. PICK new : new = store'
      OBVIOUS
    <3>2. Longer(store, sid, new) /\ store \in Seq(SessionIds)
      BY <2>1, <2>2, <3>1 DEF CreateSession, RegistryTyped, Longer
    <3>3. new \in Seq(SessionIds) /\ Len(new) = Len(store) + 1 /\ ToSet(new) = ToSet(store) \cup {sid}
      BY <3>2, AppendRight
    <3>4. Len(store) \in Nat
      BY <3>2
    <3>. QED
      BY <2>1, <2>2, <3>1, <3>3, <3>4 DEF CreateSession, RegistryTyped, channels, calls
  <2>3. CASE Expire(sid)
    BY <2>1, <2>3 DEF Expire, RegistryTyped, channels, calls
  <2>. QED
    BY <2>2, <2>3
<1>2. ChannelsTyped'
  BY <1>1 DEF StreamInv, ChannelsTyped, Questions
<1>3. ASSUME NEW k \in Streams PROVE Attached(k)' /\ Unended(k)'
  <2>1. Attached(k) /\ Unended(k)
    BY DEF StreamInv
  <2>2. Attached(k)'
    BY <1>1, <2>1 DEF Attached
  <2>3. Asked' = Asked
    BY DEF Asked, Questions
  <2>4. stream[k].session \in ToSet(store') => stream[k].session \in ToSet(store)
    <3>1. NoSession \notin ToSet(store')
      <4>1. RegistryTyped' /\ NoSession \notin SessionIds
        BY <1>1, McpConstantsOK DEF McpConstantsOK
      <4>2. ToSet(store') \subseteq SessionIds
        BY <4>1 DEF RegistryTyped
      <4>. QED
        BY <4>1, <4>2
    <3>. QED
      BY <1>1, <2>1, <3>1 DEF Attached
  <2>5. Unended(k)'
    BY <1>1, <2>1, <2>3, <2>4 DEF Unended, Live
  <2>. QED
    BY <2>2, <2>5
<1>. QED
  BY <1>1, <1>2, <1>3 DEF StreamInv, UrlQuestions, Questions

LEMMA SessionsDeleted ==
    ASSUME StreamInv, NEW sids \in SUBSET SessionIds, DeleteSessions(sids), cleanup' \in {"off", "running", "dead"}
    PROVE  StreamInv' /\ ToSet(store') = ToSet(store) \ sids
<1>. DEFINE told == UNION {Told(sid) : sid \in sids}
<1>1. /\ UNCHANGED <<drawn, stale, queues, stream, buffer, inbox, call, completed>>
      /\ store' = Those(store, SessionIds \ sids)
      /\ queue' = [k \in Streams |-> IF k \in told THEN Append(queue[k], End) ELSE queue[k]]
  BY DEF DeleteSessions
<1>2. store' \in Seq(SessionIds) /\ Len(store') <= Len(store) /\ ToSet(store') = ToSet(store) \ sids
  <2>1. PICK new : new = store'
    OBVIOUS
  <2>2. store \in Seq(SessionIds) /\ new = Those(store, SessionIds \ sids) /\ ToSet(store) \subseteq SessionIds
    BY <1>1, <2>1 DEF StreamInv, RegistryTyped
  <2>3. new \in Seq(SessionIds) /\ Len(new) <= Len(store) /\ ToSet(new) = ToSet(store) \cap (SessionIds \ sids)
    BY <2>2, ThoseRight
  <2>. QED
    BY <2>1, <2>2, <2>3
<1>3. RegistryTyped'
  <2>1. RegistryTyped /\ MaxSessions \in Nat
    BY McpConstantsOK DEF StreamInv, McpConstantsOK
  <2>2. Len(store) \in Nat /\ Len(store') \in Nat /\ Len(store) <= MaxSessions
    BY <1>2, <2>1 DEF RegistryTyped
  <2>3. Len(store') <= MaxSessions
    BY <1>2, <2>1, <2>2
  <2>4. ToSet(store') \subseteq drawn
    BY <1>2, <2>1 DEF RegistryTyped
  <2>. QED
    BY <1>1, <1>2, <2>1, <2>3, <2>4 DEF RegistryTyped
<1>4. ASSUME NEW k \in Streams, k \in told
      PROVE  \E sid \in sids : k \in ToSet(queues[sid]) /\ ~Full(k)
  <2>1. PICK sid \in sids : k \in Told(sid)
    BY <1>4
  <2>2. PICK i \in DOMAIN queues[sid] : k = queues[sid][i] /\ \A h \in 1..i : ~Full(queues[sid][h])
    BY <2>1, Zenon DEF Told
  <2>3. i \in 1..i
    BY DEF StreamInv, ChannelsTyped
  <2>. QED
    BY <2>2, <2>3 DEF ToSet
<1>5. ASSUME NEW k \in Streams
      PROVE  queue'[k] \in Seq(Questions \cup {End}) /\ Len(queue'[k]) <= QueueSize
  <2>1. queue[k] \in Seq(Questions \cup {End}) /\ Len(queue[k]) <= QueueSize /\ QueueSize \in Nat
    BY McpConstantsOK DEF StreamInv, ChannelsTyped, McpConstantsOK
  <2>2. CASE k \in told
    <3>1. PICK s : s = queue'[k]
      OBVIOUS
    <3>2. PICK r : r = queue[k]
      OBVIOUS
    <3>3. ~Full(k) /\ s = Append(r, End)
      BY <1>1, <1>4, <2>2, <3>1, <3>2
    <3>4. s \in Seq(Questions \cup {End}) /\ Len(s) = Len(r) + 1 /\ Len(r) \in Nat
      BY <2>1, <3>2, <3>3
    <3>. QED
      BY <2>1, <3>1, <3>2, <3>3, <3>4 DEF Full
  <2>3. CASE k \notin told
    BY <1>1, <2>1, <2>3
  <2>. QED
    BY <2>2, <2>3
<1>6. ChannelsTyped'
  <2>1. queue' \in [Streams -> Seq(Questions \cup {End})]
    BY <1>1, <1>5
  <2>. HIDE DEF told
  <2>. QED
    BY <1>1, <1>5, <2>1 DEF StreamInv, ChannelsTyped, Questions
<1>7. ASSUME NEW k \in Streams PROVE Attached(k)' /\ Unended(k)'
  <2>1. Attached(k) /\ Unended(k)
    BY DEF StreamInv
  <2>2. Attached(k)'
    BY <1>1, <2>1 DEF Attached
  <2>3. Asked' = Asked
    BY <1>1 DEF Asked, Questions
  <2>4. stream[k].session \in ToSet(store') => stream[k].session \in ToSet(store) /\ k \notin told
    BY <1>2, <1>4, <2>1 DEF Attached
  <2>5. k \notin told => queue'[k] = queue[k]
    BY <1>1
  <2>. HIDE DEF told
  <2>6. Unended(k)'
    BY <1>1, <2>1, <2>3, <2>4, <2>5 DEF Unended, Live
  <2>. QED
    BY <2>2, <2>6
<1>. QED
  BY <1>1, <1>2, <1>3, <1>6, <1>7 DEF StreamInv, UrlQuestions, Questions

(***************************************************************************)
(* A round of the cleanup is a deletion too.                               *)
(***************************************************************************)
LEMMA RoundDeletes ==
    ASSUME StreamInv, CleanupRound
    PROVE  \E sids \in SUBSET SessionIds :
              /\ DeleteSessions(sids) /\ cleanup' \in {"off", "running", "dead"}
<1>. DEFINE expired == Those(store, stale)
            fatal   == {i \in DOMAIN expired : Raises(expired[i])}
            reached == {expired[i] : i \in {j \in DOMAIN expired : \A h \in 1..(j - 1) : h \notin fatal}}
<1>1. DeleteSessions(reached) /\ cleanup' \in {"running", "dead"}
  BY DEF CleanupRound
<1>2. expired \in Seq(SessionIds)
  <2>1. PICK q : q = expired
    OBVIOUS
  <2>2. q \in Seq(SessionIds)
    BY <2>1, ThoseRight DEF StreamInv, RegistryTyped
  <2>. QED
    BY <2>1, <2>2
<1>3. reached \in SUBSET SessionIds
  <2>. HIDE DEF expired, fatal
  <2>. QED
    BY <1>2
<1>. QED
  BY <1>1, <1>3

-----------------------------------------------------------------------------
(***************************************************************************)
(* Steps of a stream, which touch no other's queue.                        *)
(***************************************************************************)
LEMMA StreamStep ==
    ASSUME StreamInv, NEW k \in Streams, NEW sid, sid = stream[k].session,
           UNCHANGED <<store, drawn, stale, cleanup, buffer, call, completed>>,
           inbox' \subseteq Questions,
           \A x \in Streams \ {k} : stream'[x] = stream[x] /\ queue'[x] = queue[x],
           queue' \in [Streams -> Seq(Questions \cup {End})], Len(queue'[k]) <= QueueSize,
           stream' \in [Streams -> [state : {"closed", "opening", "open"},
                                    session : SessionIds \cup {NoSession}]],
           queues' \in [SessionIds -> Seq(Streams)],
           \A s \in SessionIds : ToSet(queues'[s]) \subseteq ToSet(queues[s]) \cup {k},
           Attached(k)', Unended(k)'
    PROVE  StreamInv'
<1>1. RegistryTyped'
  BY DEF StreamInv, RegistryTyped
<1>2. \A x \in Streams : Len(queue'[x]) <= QueueSize
  BY DEF StreamInv, ChannelsTyped
<1>3. ChannelsTyped'
  BY <1>2 DEF StreamInv, ChannelsTyped, Questions, Events
<1>4. Asked' = Asked
  BY DEF Asked, Questions
<1>5. ASSUME NEW x \in Streams, x # k PROVE Attached(x)' /\ Unended(x)'
  <2>1. Attached(x) /\ Unended(x)
    BY DEF StreamInv
  <2>2. stream'[x] = stream[x] /\ queue'[x] = queue[x]
    BY <1>5
  <2>3. \A s \in SessionIds : x \in ToSet(queues'[s]) => x \in ToSet(queues[s])
    BY <1>5
  <2>4. Attached(x)'
    BY <2>1, <2>2, <2>3 DEF Attached
  <2>5. Unended(x)'
    BY <1>4, <2>1, <2>2 DEF Unended, Live
  <2>. QED
    BY <2>4, <2>5
<1>. QED
  BY <1>1, <1>3, <1>5 DEF StreamInv, UrlQuestions, Questions

LEMMA StreamOpened ==
    ASSUME StreamInv, NEW k \in Streams, NEW sid \in SessionIds, OpenStream(k, sid), UNCHANGED call
    PROVE  StreamInv'
<1>1. /\ stream[k].state = "closed" /\ sid \in ToSet(store)
      /\ stream' = [stream EXCEPT ![k] = [state |-> "opening", session |-> sid]]
      /\ UNCHANGED <<store, drawn, stale, cleanup, queues, queue, buffer, inbox, completed>>
  BY DEF OpenStream, Found, Live, registry, calls
<1>2. RegistryTyped /\ ChannelsTyped /\ Attached(k)
  BY DEF StreamInv
<1>3. /\ stream' \in [Streams -> [state : {"closed", "opening", "open"}, session : SessionIds \cup {NoSession}]]
      /\ stream'[k].state = "opening" /\ stream'[k].session = sid
      /\ \A x \in Streams \ {k} : stream'[x] = stream[x]
  BY <1>1, <1>2 DEF ChannelsTyped
<1>4. Attached(k)'
  BY <1>1, <1>2, <1>3 DEF Attached, RegistryTyped
<1>5. Unended(k)'
  BY <1>3 DEF Unended
<1>. QED
  BY <1>1, <1>2, <1>3, <1>4, <1>5, StreamStep DEF ChannelsTyped

LEMMA StreamAttached ==
    ASSUME StreamInv, NEW k \in Streams, NEW last, AttachStream(k, last), UNCHANGED call
    PROVE  StreamInv'
<1>1. PICK sid : sid = stream[k].session
  OBVIOUS
<1>2. /\ stream[k].state = "opening"
      /\ stream' = [stream EXCEPT ![k].state = "open"]
      /\ queues' = [queues EXCEPT ![sid] = Append(@, k)]
      /\ queue' = [queue EXCEPT ![k] = <<>>]
      /\ inbox' = inbox \cup Replay(sid, last)
      /\ UNCHANGED <<store, drawn, stale, cleanup, buffer, completed>>
  BY <1>1 DEF AttachStream, registry, calls
<1>3. ChannelsTyped /\ Attached(k) /\ sid \in SessionIds
  BY <1>1, <1>2 DEF StreamInv, Attached
<1>4. /\ stream' \in [Streams -> [state : {"closed", "opening", "open"}, session : SessionIds \cup {NoSession}]]
      /\ stream'[k].state = "open" /\ stream'[k].session = sid
      /\ \A x \in Streams \ {k} : stream'[x] = stream[x]
  BY <1>1, <1>2, <1>3 DEF ChannelsTyped
<1>5. /\ queue' \in [Streams -> Seq(Questions \cup {End})]
      /\ queue'[k] = <<>> /\ \A x \in Streams \ {k} : queue'[x] = queue[x]
  BY <1>2, <1>3 DEF ChannelsTyped
<1>6. Len(queue'[k]) <= QueueSize
  BY <1>5, McpConstantsOK DEF McpConstantsOK
<1>7. inbox' \subseteq Questions
  <2>1. buffer[sid] \in Seq(Events)
    BY <1>3 DEF ChannelsTyped
  <2>2. \A j \in DOMAIN buffer[sid] : buffer[sid][j].event \in Questions
    <3>1. \A j \in DOMAIN buffer[sid] : buffer[sid][j] \in Events
      BY <2>1
    <3>. QED
      BY <3>1 DEF Events
  <2>3. Replay(sid, last) \subseteq Questions
    BY <2>2 DEF Replay
  <2>. QED
    BY <1>2, <1>3, <2>3 DEF ChannelsTyped
<1>8. /\ queues' \in [SessionIds -> Seq(Streams)]
      /\ \A s \in SessionIds \ {sid} : queues'[s] = queues[s]
      /\ ToSet(queues'[sid]) = ToSet(queues[sid]) \cup {k}
  <2>1. PICK old : old = queues[sid]
    OBVIOUS
  <2>2. PICK new : new = Append(old, k)
    OBVIOUS
  <2>3. old \in Seq(Streams) /\ Longer(old, k, new) /\ queues' = [queues EXCEPT ![sid] = new]
    BY <1>2, <1>3, <2>1, <2>2 DEF ChannelsTyped, Longer
  <2>4. new \in Seq(Streams) /\ ToSet(new) = ToSet(old) \cup {k}
    BY <2>3, AppendRight
  <2>. QED
    BY <1>3, <2>1, <2>3, <2>4 DEF ChannelsTyped
<1>9. Attached(k)'
  BY <1>1, <1>2, <1>3, <1>4, <1>8 DEF Attached
<1>10. Unended(k)'
  BY <1>5 DEF Unended, ToSet, IsInjective
<1>11. \A s \in SessionIds : ToSet(queues'[s]) \subseteq ToSet(queues[s]) \cup {k}
  BY <1>8
<1>. QED
  BY <1>1, <1>2, <1>4, <1>5, <1>6, <1>7, <1>8, <1>9, <1>10, <1>11, StreamStep

LEMMA StreamClosed ==
    ASSUME StreamInv, NEW k \in Streams, CloseStream(k), queue' = [queue EXCEPT ![k] = <<>>],
           UNCHANGED <<store, drawn, stale, cleanup, buffer, inbox, call, completed>>
    PROVE  StreamInv'
<1>1. PICK sid : sid = stream[k].session
  OBVIOUS
<1>2. /\ stream' = [stream EXCEPT ![k] = [state |-> "closed", session |-> NoSession]]
      /\ queues' = [queues EXCEPT ![sid] = Those(@, Streams \ {k})]
  BY <1>1 DEF CloseStream
<1>3. ChannelsTyped /\ Attached(k)
  BY DEF StreamInv
<1>4. /\ stream' \in [Streams -> [state : {"closed", "opening", "open"}, session : SessionIds \cup {NoSession}]]
      /\ stream'[k].state = "closed" /\ stream'[k].session = NoSession
      /\ \A x \in Streams \ {k} : stream'[x] = stream[x]
  BY <1>2, <1>3 DEF ChannelsTyped
<1>5. /\ queue' \in [Streams -> Seq(Questions \cup {End})]
      /\ queue'[k] = <<>> /\ \A x \in Streams \ {k} : queue'[x] = queue[x]
  BY <1>3 DEF ChannelsTyped
<1>6. Len(queue'[k]) <= QueueSize
  BY <1>5, McpConstantsOK DEF McpConstantsOK
<1>7. /\ queues' \in [SessionIds -> Seq(Streams)]
      /\ \A s \in SessionIds : ToSet(queues'[s]) \subseteq ToSet(queues[s]) \ {k}
  <2>1. \A s \in SessionIds : s # sid => k \notin ToSet(queues[s])
    BY <1>1, <1>3 DEF Attached
  <2>2. CASE sid \in SessionIds
    <3>1. PICK old : old = queues[sid]
      OBVIOUS
    <3>2. PICK new : new = Those(old, Streams \ {k})
      OBVIOUS
    <3>3. old \in Seq(Streams) /\ queues' = [queues EXCEPT ![sid] = new]
      BY <1>2, <1>3, <2>2, <3>1, <3>2 DEF ChannelsTyped
    <3>4. new \in Seq(Streams) /\ ToSet(new) = ToSet(old) \cap (Streams \ {k})
      BY <3>2, <3>3, ThoseRight
    <3>. QED
      BY <1>3, <2>1, <2>2, <3>1, <3>3, <3>4 DEF ChannelsTyped
  <2>3. CASE sid \notin SessionIds
    <3>1. queues' = queues
      BY <1>2, <1>3, <2>3 DEF ChannelsTyped
    <3>. QED
      BY <1>3, <2>1, <2>3, <3>1 DEF ChannelsTyped
  <2>. QED
    BY <2>2, <2>3
<1>8. Attached(k)'
  BY <1>4, <1>7 DEF Attached
<1>9. Unended(k)'
  BY <1>4 DEF Unended
<1>10. \A s \in SessionIds : ToSet(queues'[s]) \subseteq ToSet(queues[s]) \cup {k}
  BY <1>7
<1>11. inbox' \subseteq Questions
  BY <1>3 DEF ChannelsTyped
<1>. QED
  BY <1>1, <1>4, <1>5, <1>6, <1>7, <1>8, <1>9, <1>10, <1>11, StreamStep

LEMMA ItemDelivered ==
    ASSUME StreamInv, NEW k \in Streams, Deliver(k), UNCHANGED call
    PROVE  StreamInv'
<1>1. /\ stream[k].state = "open" /\ queue[k] # <<>>
      /\ UNCHANGED <<store, drawn, stale, cleanup, buffer, completed>>
  BY DEF Deliver, registry, calls
<1>2. CASE Head(queue[k]) = End
  BY <1>1, <1>2, StreamClosed DEF Deliver
<1>3. CASE Head(queue[k]) # End
  <2>1. /\ inbox' = inbox \cup {Head(queue[k])}
        /\ queue' = [queue EXCEPT ![k] = Tail(@)]
        /\ UNCHANGED <<stream, queues>>
    BY <1>3 DEF Deliver
  <2>2. ChannelsTyped /\ Attached(k) /\ Unended(k)
    BY DEF StreamInv
  <2>3. PICK old : old = queue[k]
    OBVIOUS
  <2>4. PICK new : new = Tail(old)
    OBVIOUS
  <2>5. old \in Seq(Questions \cup {End}) /\ old # <<>> /\ queue' = [queue EXCEPT ![k] = new]
        /\ Len(old) <= QueueSize
    BY <1>1, <2>1, <2>2, <2>3, <2>4 DEF ChannelsTyped
  <2>6. PICK items : items = Questions \cup {End}
    OBVIOUS
  <2>7. /\ new \in Seq(items) /\ Len(new) <= Len(old) /\ Head(old) \in items
        /\ ToSet(new) \subseteq ToSet(old) /\ (IsInjective(old) => IsInjective(new))
    BY <2>4, <2>5, <2>6, TailRight
  <2>8. /\ queue' \in [Streams -> Seq(Questions \cup {End})]
        /\ queue'[k] = new /\ \A x \in Streams \ {k} : queue'[x] = queue[x]
    BY <2>2, <2>5, <2>6, <2>7 DEF ChannelsTyped
  <2>9. Len(queue'[k]) <= QueueSize
    <3>1. Len(new) \in Nat /\ Len(old) \in Nat /\ QueueSize \in Nat
      BY <2>5, <2>7, McpConstantsOK DEF McpConstantsOK
    <3>. QED
      BY <2>5, <2>7, <2>8, <3>1
  <2>10. inbox' \subseteq Questions
    BY <1>3, <2>1, <2>2, <2>3, <2>6, <2>7 DEF ChannelsTyped
  <2>11. Attached(k)'
    BY <1>1, <2>1, <2>2 DEF Attached
  <2>12. Asked' = Asked
    BY DEF Asked, Questions
  <2>13. Unended(k)'
    BY <1>1, <2>1, <2>2, <2>3, <2>7, <2>8, <2>12 DEF Unended, Live
  <2>. QED
    BY <1>1, <2>1, <2>2, <2>8, <2>9, <2>10, <2>11, <2>13, StreamStep DEF ChannelsTyped
<1>. QED
  BY <1>2, <1>3

LEMMA StreamStreams ==
    ASSUME StreamInv, NEW k \in Streams,
           \/ \E sid \in SessionIds : OpenStream(k, sid)
           \/ \E last \in LastIds : AttachStream(k, last)
           \/ Deliver(k) \/ Disconnect(k)
    PROVE  StreamInv'
<1>1. UNCHANGED calls
  BY DEF OpenStream, AttachStream, Deliver, Disconnect
<1>2. UNCHANGED <<call, completed>>
  BY <1>1 DEF calls
<1>3. CASE Disconnect(k)
  BY <1>2, <1>3, StreamClosed DEF Disconnect, registry
<1>. QED
  BY <1>2, <1>3, StreamOpened, StreamAttached, ItemDelivered

LEMMA RegistryStreams ==
    ASSUME StreamInv, \/ CleanupRound
                      \/ \E sid \in SessionIds : CreateSession(sid) \/ Expire(sid) \/ Delete(sid)
    PROVE  StreamInv'
<1>1. ASSUME NEW sid \in SessionIds, CreateSession(sid) \/ Expire(sid) PROVE StreamInv'
  BY <1>1, SessionDrawn DEF CreateSession, Expire, calls
<1>2. ASSUME NEW sid \in SessionIds, Delete(sid) PROVE StreamInv'
  BY <1>2, SessionsDeleted DEF Delete, StreamInv, RegistryTyped
<1>3. CASE CleanupRound
  BY <1>3, RoundDeletes, SessionsDeleted
<1>. QED
  BY <1>1, <1>2, <1>3

LEMMA StreamsRight == IInv /\ StreamInv /\ [Next]_vars => StreamInv'
<1>. SUFFICES ASSUME IInv, StreamInv, [Next]_vars PROVE StreamInv'
  OBVIOUS
<1>1. CASE UNCHANGED vars
  <2>1. UNCHANGED <<registry, channels, call, completed>>
    BY <1>1 DEF vars, registry, channels
  <2>2. Asked' = Asked
    BY <2>1 DEF Asked, Questions
  <2>. QED
    BY <2>1, <2>2, StreamsUnchanged DEF StreamInv
<1>. QED
  BY <1>1, RegistryStreams, StreamStreams, CallStreams, AnswerStreams DEF Next

LEMMA StreamsAlways == Spec => [](IInv /\ StreamInv)
BY InitRight, NextRight, StreamsStart, StreamsRight, PTL DEF Spec

-----------------------------------------------------------------------------
(***************************************************************************)
(* Deletion.  A queue that holds each question at most once has room for   *)
(* the sentinel when it has more places than there are questions.          *)
(***************************************************************************)
RoomForAll == IsFiniteSet(Questions) /\ Cardinality(Questions) < QueueSize

LEMMA NeverFull ==
    ASSUME RoomForAll, StreamInv, NEW k \in Streams, stream[k].state = "open", Live(stream[k].session)
    PROVE  ~Full(k)
<1>1. PICK q : q = queue[k]
  OBVIOUS
<1>2. q \in Seq(Questions \cup {End}) /\ ToSet(q) \subseteq Questions /\ IsInjective(q)
  BY <1>1 DEF StreamInv, ChannelsTyped, Unended, Asked
<1>3. DOMAIN q = 1..Len(q) /\ Len(q) \in Nat
  BY <1>2
<1>4. q \in Injection(DOMAIN q, Questions)
  <2>1. q \in [DOMAIN q -> Questions]
    BY <1>2, <1>3 DEF ToSet
  <2>. QED
    BY <1>2, <2>1 DEF Injection
<1>5. IsFiniteSet(Questions) /\ Cardinality(Questions) < QueueSize
  BY DEF RoomForAll
<1>6. Cardinality(DOMAIN q) <= Cardinality(Questions)
  BY <1>4, <1>5, FS_Injection
<1>7. Cardinality(DOMAIN q) = Len(q)
  BY <1>3, FS_Interval
<1>8. Cardinality(Questions) \in Nat /\ QueueSize \in Nat
  BY <1>5, FS_CardinalityType, McpConstantsOK DEF McpConstantsOK
<1>. QED
  BY <1>1, <1>3, <1>5, <1>6, <1>7, <1>8 DEF Full

LEMMA DeletionReleases ==
    ASSUME RoomForAll, IInv, StreamInv, NEW sids \in SUBSET SessionIds, DeleteSessions(sids),
           NEW sid \in sids, Live(sid)
    PROVE  /\ \A k \in ToSet(queues[sid]) : queue'[k] # <<>> /\ Last(queue'[k]) = End
           /\ \A t \in Tools : call[t].session = sid => future'[t] # "pending"
<1>. DEFINE told      == UNION {Told(s) : s \in sids}
            cancelled == {t \in Tools : \E s \in sids : ~Raises(s) /\ RequestKey(Latest(t)) \in pending[s]}
<1>1. /\ queue' = [k \in Streams |-> IF k \in told THEN Append(queue[k], End) ELSE queue[k]]
      /\ future' = [t \in Tools |-> IF t \in cancelled /\ future[t] = "pending"
                                    THEN "cancelled" ELSE future[t]]
  BY DEF DeleteSessions
<1>2. queues[sid] \in Seq(Streams)
  BY DEF StreamInv, ChannelsTyped
<1>3. ASSUME NEW k \in ToSet(queues[sid]) PROVE k \in Streams /\ ~Full(k)
  <2>1. k \in Streams
    BY <1>2 DEF ToSet
  <2>2. stream[k].state = "open" /\ stream[k].session = sid
    BY <2>1 DEF StreamInv, Attached
  <2>. QED
    BY <2>1, <2>2, NeverFull
<1>4. ~Raises(sid)
  BY <1>3 DEF Raises
<1>5. ASSUME NEW k \in ToSet(queues[sid]) PROVE queue'[k] # <<>> /\ Last(queue'[k]) = End
  <2>1. PICK i \in DOMAIN queues[sid] : k = queues[sid][i]
    BY DEF ToSet
  <2>2. \A h \in 1..i : ~Full(queues[sid][h])
    <3>1. \A h \in 1..i : h \in DOMAIN queues[sid]
      BY <1>2, <2>1
    <3>. QED
      BY <1>3, <3>1 DEF ToSet
  <2>3. k \in Told(sid)
    BY <2>1, <2>2, Zenon DEF Told
  <2>4. k \in told /\ k \in Streams
    BY <1>3, <2>3
  <2>5. PICK old : old = queue[k]
    OBVIOUS
  <2>6. PICK new : new = queue'[k]
    OBVIOUS
  <2>7. Longer(old, End, new)
    BY <1>1, <2>4, <2>5, <2>6 DEF Longer
  <2>8. PICK items : items = Questions \cup {End}
    OBVIOUS
  <2>9. old \in Seq(items) /\ End \in items
    BY <2>4, <2>5, <2>8 DEF StreamInv, ChannelsTyped
  <2>10. new # <<>> /\ Last(new) = End
    BY <2>7, <2>9, AppendRight
  <2>. QED
    BY <2>6, <2>10
<1>6. ASSUME NEW t \in Tools, call[t].session = sid PROVE future'[t] # "pending"
  <2>1. future[t] = "pending" => RequestKey(Latest(t)) \in pending[sid]
    BY <1>6 DEF IInv, Waits
  <2>2. future[t] = "pending" => t \in cancelled
    BY <1>4, <2>1
  <2>. HIDE DEF cancelled
  <2>. QED
    BY <1>1, <2>2
<1>. QED
  BY <1>5, <1>6

\* A session leaves the registry by a deletion alone.
LEMMA OnlyDeleted ==
    ASSUME IInv, StreamInv, [Next]_vars, NEW sid \in SessionIds, Dropped(sid)
    PROVE  \E sids \in SUBSET SessionIds : sid \in sids /\ DeleteSessions(sids)
<1>1. Live(sid) /\ sid \in ToSet(store) /\ sid \notin ToSet(store')
  BY DEF Dropped, Live
<1>2. ASSUME NEW sids \in SUBSET SessionIds, DeleteSessions(sids), cleanup' \in {"off", "running", "dead"}
      PROVE  sid \in sids
  BY <1>1, <1>2, SessionsDeleted
<1>3. CASE CleanupRound
  BY <1>2, <1>3, RoundDeletes
<1>4. ASSUME NEW s \in SessionIds, Delete(s) PROVE sid \in {s} /\ DeleteSessions({s})
  BY <1>2, <1>4 DEF Delete, StreamInv, RegistryTyped
<1>5. ASSUME NEW s \in SessionIds, CreateSession(s) PROVE FALSE
  <2>1. PICK new : new = store'
    OBVIOUS
  <2>2. Longer(store, s, new) /\ store \in Seq(SessionIds)
    BY <1>5, <2>1 DEF CreateSession, Longer, StreamInv, RegistryTyped
  <2>3. ToSet(new) = ToSet(store) \cup {s}
    BY <2>2, AppendRight
  <2>. QED
    BY <1>1, <2>1, <2>3
<1>6. CASE store' = store
  BY <1>1, <1>6
<1>7. ASSUME NEW t \in Tools, GoOn(t) PROVE store' = store
  BY <1>7 DEF GoOn, Elicit, EndCall, registry
<1>8. ASSUME NEW t \in Tools,
             \/ \E s \in SessionIds : CallTool(t, s)
             \/ Begin(t) \/ Create(t) \/ CreateFails(t) \/ Wake(t) \/ Timeout(t) \/ Abandon(t)
      PROVE  store' = store
  BY <1>7, <1>8 DEF CallTool, Begin, Create, CreateFails, Wake, Timeout, Abandon, EndCall, registry
<1>9. ASSUME NEW q \in Questions, Accept(q) \/ Decline(q) \/ Cancel(q) \/ CompleteUrl(q)
      PROVE  store' = store
  BY <1>9 DEF Accept, Decline, Cancel, CompleteUrl, Settle, registry
<1>10. ASSUME NEW k \in Streams,
              \/ \E s \in SessionIds : OpenStream(k, s)
              \/ \E last \in LastIds : AttachStream(k, last)
              \/ Deliver(k) \/ Disconnect(k)
       PROVE  store' = store
  BY <1>10 DEF OpenStream, AttachStream, Deliver, Disconnect, registry
<1>11. ASSUME NEW s \in SessionIds, Expire(s) PROVE store' = store
  BY <1>11 DEF Expire
<1>12. CASE UNCHANGED vars
  BY <1>6, <1>12 DEF vars
<1>. QED
  BY <1>3, <1>4, <1>5, <1>6, <1>8, <1>9, <1>10, <1>11, <1>12 DEF Next

-----------------------------------------------------------------------------
(***************************************************************************)
(* Everything keeps its type and the store, the buffers and the queues     *)
(* their bounds (mcp/session.py: _MAX_SESSIONS, _SSE_BUFFER_SIZE, maxsize  *)
(* of a queue), also those of streams and tools whose session is gone.     *)
(***************************************************************************)
THEOREM TypeCorrect == Spec => []TypeOK
<1>1. IInv /\ StreamInv => TypeOK
  BY DEF IInv, CallsTyped, CallStates, StreamInv, RegistryTyped, ChannelsTyped, Events, TypeOK
<1>. QED
  BY <1>1, StreamsAlways, PTL

(***************************************************************************)
(* delete_session (mcp/session.py) ends every stream attached to the       *)
(* session and cancels every question open on it, also those nobody waits  *)
(* for any more, whether a client, an expired lookup or the cleanup        *)
(* deletes it and whatever streams come and go meanwhile.  It needs room   *)
(* in the queues: on a full one put_nowait raises halfway.                 *)
(***************************************************************************)
THEOREM DeleteAlwaysReleases ==
    ASSUME RoomForAll
    PROVE  Spec => DeleteReleases
<1>1. IInv /\ StreamInv /\ [Next]_vars =>
        [\A sid \in SessionIds : Dropped(sid) =>
            /\ \A k \in ToSet(queues[sid]) : queue'[k] # <<>> /\ Last(queue'[k]) = End
            /\ \A t \in Tools : call[t].session = sid => future'[t] # "pending"]_vars
  BY OnlyDeleted, DeletionReleases DEF Dropped
<1>. QED
  BY <1>1, StreamsAlways, PTL DEF Spec, DeleteReleases
====
