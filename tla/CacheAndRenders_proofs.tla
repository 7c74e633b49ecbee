------------------------ MODULE CacheAndRenders_proofs ------------------------
(***************************************************************************)
(* Safety of RevocationCache for every set of workers, requests and        *)
(* tokens, every TTL and every delay: the inductive invariant adds to the  *)
(* two properties how old an answer that waits for its fill, and a cache   *)
(* entry, can be.  Then safety of RenderJobs for every set of tasks,       *)
(* commits and payloads.                                                   *)
(***************************************************************************)
EXTENDS CacheAndRenders, TLAPS

Safe ==
    /\ AnswersAreRecent
    /\ EntriesAreRecent
    /\ NoDateAhead
    /\ RevokedRefusedInTime
    /\ RefusedWasRevoked

IInv == TypeOK /\ Safe

-----------------------------------------------------------------------------
(***************************************************************************)
(* The invariant, request by request and entry by entry, at a time n and   *)
(* for a token whose row is row and was revoked at ra.                     *)
(***************************************************************************)
RequestRight(q, n, row, ra) ==
    /\ q.at <= n
    /\ q.pc \in {"registering", "filling"} =>
          /\ n <= q.at + Delay
          /\ q.revoked => row = "revoked"
          /\ ~q.revoked /\ row = "revoked" => q.at <= ra
    /\ q.pc = "accepted" /\ row = "revoked" => q.at <= ra + Delay + TTL
    /\ q.pc = "refused" => row = "revoked"

EntryRight(e, n, row, ra) ==
    e.known =>
        /\ e.expires <= n + TTL
        /\ e.revoked => row = "revoked"
        /\ ~e.revoked /\ row = "revoked" => e.expires <= ra + Delay + TTL

LEMMA Pointwise ==
    IInv <=> /\ TypeOK
             /\ \A r \in Requests :
                   RequestRight(req[r], now, rows[req[r].token], revokedAt[req[r].token])
             /\ \A w \in Workers, t \in Tokens :
                   EntryRight(cache[w][t], now, rows[t], revokedAt[t])
<1>1. ASSUME IInv
      PROVE  \A r \in Requests :
                RequestRight(req[r], now, rows[req[r].token], revokedAt[req[r].token])
  BY <1>1 DEF IInv, Safe, AnswersAreRecent, NoDateAhead,
       RevokedRefusedInTime, RefusedWasRevoked, RequestRight
<1>2. ASSUME IInv, NEW w \in Workers, NEW t \in Tokens
      PROVE  EntryRight(cache[w][t], now, rows[t], revokedAt[t])
  BY <1>2 DEF IInv, Safe, EntriesAreRecent, NoDateAhead, EntryRight
<1>3. ASSUME TypeOK,
             \A r \in Requests :
                RequestRight(req[r], now, rows[req[r].token], revokedAt[req[r].token]),
             \A w \in Workers, t \in Tokens :
                EntryRight(cache[w][t], now, rows[t], revokedAt[t])
      PROVE  IInv
  BY <1>3 DEF IInv, Safe, AnswersAreRecent, EntriesAreRecent, NoDateAhead,
       RevokedRefusedInTime, RefusedWasRevoked, RequestRight, EntryRight
<1>. QED
  BY <1>1, <1>2, <1>3 DEF IInv

(***************************************************************************)
(* What is right stays right while the clock stands still and a row is     *)
(* registered, or revoked now.                                             *)
(***************************************************************************)
RowMoves(row, row2, ra, ra2, n) ==
    \/ row2 = row /\ ra2 = ra
    \/ row # "revoked" /\ row2 # "revoked"
    \/ row # "revoked" /\ row2 = "revoked" /\ ra2 = n

LEMMA RightStaysRight ==
    ASSUME NEW n \in Nat, NEW row, NEW row2, NEW ra \in Nat, NEW ra2 \in Nat,
           RowMoves(row, row2, ra, ra2, n)
    PROVE  /\ \A q \in RequestStates : RequestRight(q, n, row, ra) => RequestRight(q, n, row2, ra2)
           /\ \A e \in Entries : EntryRight(e, n, row, ra) => EntryRight(e, n, row2, ra2)
BY CacheConstantsOK DEF RowMoves, RequestRight, EntryRight, RequestStates, Entries, CacheConstantsOK

RowsMove ==
    /\ now' = now
    /\ rows' \in [Tokens -> {"absent", "valid", "revoked"}]
    /\ revokedAt' \in [Tokens -> Nat]
    /\ \A t \in Tokens : RowMoves(rows[t], rows'[t], revokedAt[t], revokedAt'[t], now)

LEMMA RowsStay ==
    ASSUME TypeOK, UNCHANGED <<now, rows, revokedAt>>
    PROVE  RowsMove
BY DEF TypeOK, RowsMove, RowMoves

(***************************************************************************)
(* A step of one request: it becomes q, which is right for the new rows.   *)
(***************************************************************************)
LEMMA RequestBecomes ==
    ASSUME IInv, RowsMove, NEW r \in Requests, NEW q \in RequestStates,
           req' = [req EXCEPT ![r] = q],
           RequestRight(q, now, rows'[q.token], revokedAt'[q.token])
    PROVE  /\ req' \in [Requests -> RequestStates]
           /\ \A s \in Requests :
                 RequestRight(req'[s], now', rows'[req'[s].token], revokedAt'[req'[s].token])
<1>1. TypeOK
  BY DEF IInv
<1>2. req' \in [Requests -> RequestStates]
  BY <1>1 DEF TypeOK
<1>3. ASSUME NEW s \in Requests
      PROVE  RequestRight(req'[s], now', rows'[req'[s].token], revokedAt'[req'[s].token])
  <2>1. CASE s = r
    BY <2>1, <1>1 DEF TypeOK, RowsMove
  <2>2. CASE s # r
    <3>1. req'[s] = req[s] /\ req[s] \in RequestStates /\ req[s].token \in Tokens
      BY <2>2, <1>1 DEF TypeOK, RequestStates
    <3>2. RequestRight(req[s], now, rows[req[s].token], revokedAt[req[s].token])
      BY Pointwise
    <3>3. RowMoves(rows[req[s].token], rows'[req[s].token],
                   revokedAt[req[s].token], revokedAt'[req[s].token], now)
      BY <3>1 DEF RowsMove
    <3>4. now \in Nat /\ revokedAt[req[s].token] \in Nat /\ revokedAt'[req[s].token] \in Nat
      BY <3>1, <1>1 DEF TypeOK, RowsMove
    <3>5. RequestRight(req[s], now, rows'[req[s].token], revokedAt'[req[s].token])
      BY <3>1, <3>2, <3>3, <3>4, RightStaysRight
    <3>. QED
      BY <3>1, <3>5 DEF RowsMove
  <2>. QED
    BY <2>1, <2>2
<1>. QED
  BY <1>2, <1>3

LEMMA CacheStays ==
    ASSUME IInv, RowsMove, cache' = cache
    PROVE  /\ cache' \in [Workers -> [Tokens -> Entries]]
           /\ \A w \in Workers, t \in Tokens :
                 EntryRight(cache'[w][t], now', rows'[t], revokedAt'[t])
<1>1. TypeOK
  BY DEF IInv
<1>2. ASSUME NEW w \in Workers, NEW t \in Tokens
      PROVE  EntryRight(cache[w][t], now, rows'[t], revokedAt'[t])
  <2>1. EntryRight(cache[w][t], now, rows[t], revokedAt[t]) /\ cache[w][t] \in Entries
    BY <1>1, Pointwise DEF TypeOK
  <2>2. RowMoves(rows[t], rows'[t], revokedAt[t], revokedAt'[t], now)
    BY DEF RowsMove
  <2>3. now \in Nat /\ revokedAt[t] \in Nat /\ revokedAt'[t] \in Nat
    BY <1>1 DEF TypeOK, RowsMove
  <2>. QED
    BY <2>1, <2>2, <2>3, RightStaysRight
<1>. QED
  BY <1>1, <1>2 DEF TypeOK, RowsMove

(***************************************************************************)
(* The three together.                                                     *)
(***************************************************************************)
LEMMA StepPreserves ==
    ASSUME RowsMove, TypeOK,
           req' \in [Requests -> RequestStates],
           \A s \in Requests :
              RequestRight(req'[s], now', rows'[req'[s].token], revokedAt'[req'[s].token]),
           cache' \in [Workers -> [Tokens -> Entries]],
           \A w \in Workers, t \in Tokens :
              EntryRight(cache'[w][t], now', rows'[t], revokedAt'[t])
    PROVE  IInv'
<1>1. TypeOK'
  BY DEF TypeOK, RowsMove
<1>2. AnswersAreRecent' /\ RevokedRefusedInTime' /\ RefusedWasRevoked'
  BY DEF AnswersAreRecent, RevokedRefusedInTime, RefusedWasRevoked, RequestRight
<1>3. EntriesAreRecent'
  BY DEF EntriesAreRecent, EntryRight
<1>4. NoDateAhead'
  BY DEF NoDateAhead, RequestRight, EntryRight
<1>. QED
  BY <1>1, <1>2, <1>3, <1>4 DEF IInv, Safe

-----------------------------------------------------------------------------
(***************************************************************************)
(* The initial states, and each action.                                    *)
(***************************************************************************)
THEOREM InitEstablishes == Init => IInv
<1>. SUFFICES ASSUME Init PROVE IInv
  OBVIOUS
<1>1. TypeOK
  <2>1. req \in [Requests -> RequestStates]
    <3>1. PICK start \in [Requests -> [pc : {"idle"}, worker : Workers, token : Tokens,
                                      revoked : {FALSE}, at : {0}]] : req = start
      BY DEF Init
    <3>2. ASSUME NEW r \in Requests
          PROVE  start[r] \in RequestStates
      <4>1. start[r] \in [pc : {"idle"}, worker : Workers, token : Tokens,
                          revoked : {FALSE}, at : {0}]
        OBVIOUS
      <4>2. PICK w \in Workers, t \in Tokens :
               start[r] = [pc |-> "idle", worker |-> w, token |-> t, revoked |-> FALSE, at |-> 0]
        BY <4>1
      <4>. QED
        BY <4>2 DEF RequestStates, Phases
    <3>. QED
      BY <3>1, <3>2
  <2>2. cache \in [Workers -> [Tokens -> Entries]]
    BY DEF Init, Entries, NoEntry
  <2>. QED
    BY <2>1, <2>2 DEF Init, TypeOK
<1>2. \A r \in Requests : req[r].pc = "idle" /\ req[r].at = 0
  BY DEF Init
<1>3. \A w \in Workers, t \in Tokens : ~cache[w][t].known
  BY DEF Init, NoEntry
<1>4. AnswersAreRecent /\ RevokedRefusedInTime /\ RefusedWasRevoked
  BY <1>2 DEF AnswersAreRecent, RevokedRefusedInTime, RefusedWasRevoked
<1>5. EntriesAreRecent /\ NoDateAhead
  BY <1>2, <1>3 DEF EntriesAreRecent, NoDateAhead, Init
<1>. QED
  BY <1>1, <1>4, <1>5 DEF IInv, Safe

LEMMA HitPreserves ==
    ASSUME IInv, NEW r \in Requests, NEW w \in Workers, NEW t \in Tokens, Hit(r, w, t)
    PROVE  IInv'
<1>. DEFINE q == [pc |-> Verdict(cache[w][t].revoked), worker |-> w, token |-> t,
                  revoked |-> cache[w][t].revoked, at |-> now]
<1>1. TypeOK /\ RowsMove /\ rows' = rows /\ revokedAt' = revokedAt /\ cache' = cache
  BY RowsStay DEF IInv, Hit
<1>2. cache[w][t] \in Entries /\ now \in Nat /\ revokedAt[t] \in Nat
  BY <1>1 DEF TypeOK
<1>3. q \in RequestStates
  BY <1>2 DEF RequestStates, Phases, Entries, Verdict
<1>4. EntryRight(cache[w][t], now, rows[t], revokedAt[t]) /\ Fresh(cache[w][t])
  BY Pointwise DEF Hit
<1>5. RequestRight(q, now, rows[t], revokedAt[t])
  BY <1>2, <1>4, CacheConstantsOK
     DEF RequestRight, EntryRight, Fresh, Verdict, Entries, CacheConstantsOK
<1>6. req' = [req EXCEPT ![r] = q] /\ q.token = t
  BY DEF Hit
<1>. HIDE DEF q
<1>7. RequestRight(q, now, rows'[q.token], revokedAt'[q.token])
  BY <1>1, <1>5, <1>6
<1>. QED
  BY <1>1, <1>3, <1>6, <1>7, RequestBecomes, CacheStays, StepPreserves

(***************************************************************************)
(* The steps that change only the record of their request, to one that has *)
(* the answer of the database as it is now or was, or that waits for none. *)
(***************************************************************************)
LEMMA QuietStepPreserves ==
    ASSUME IInv, NEW r \in Requests, RowsMove, cache' = cache, NEW q \in RequestStates,
           req' = [req EXCEPT ![r] = q], q.at <= now,
           q.pc \in {"idle", "asking", "unavailable"}
    PROVE  IInv'
<1>1. TypeOK
  BY DEF IInv
<1>2. RequestRight(q, now, rows'[q.token], revokedAt'[q.token])
  BY DEF RequestRight
<1>. QED
  BY <1>1, <1>2, RequestBecomes, CacheStays, StepPreserves

LEMMA AskPreserves ==
    ASSUME IInv, NEW r \in Requests, Ask(r)
    PROVE  IInv'
<1>. DEFINE t == req[r].token
            q == [req[r] EXCEPT !.pc = IF rows[t] = "absent" THEN "registering" ELSE "filling",
                                !.revoked = (rows[t] = "revoked"), !.at = now]
<1>1. TypeOK /\ RowsMove /\ rows' = rows /\ revokedAt' = revokedAt /\ cache' = cache
  BY RowsStay DEF IInv, Ask
<1>2. req[r] \in RequestStates /\ t \in Tokens /\ now \in Nat /\ revokedAt[t] \in Nat
      /\ rows[t] \in {"absent", "valid", "revoked"}
  BY <1>1 DEF TypeOK, RequestStates
<1>3. q \in RequestStates /\ q.token = t /\ q.at = now /\ q.pc \in {"registering", "filling"}
      /\ (q.revoked <=> rows[t] = "revoked")
  BY <1>2 DEF RequestStates, Phases
<1>4. req' = [req EXCEPT ![r] = q]
  BY <1>1 DEF Ask, TypeOK
<1>. HIDE DEF q
<1>5. RequestRight(q, now, rows[t], revokedAt[t])
  <2>1. ~q.revoked => rows[t] # "revoked"
    BY <1>3
  <2>. QED
    BY <1>2, <1>3, <2>1, CacheConstantsOK DEF RequestRight, CacheConstantsOK
<1>6. RequestRight(q, now, rows'[q.token], revokedAt'[q.token])
  BY <1>1, <1>3, <1>5
<1>. QED
  BY <1>1, <1>3, <1>4, <1>6, RequestBecomes, CacheStays, StepPreserves

LEMMA LookingAgainPreserves ==
    ASSUME IInv, NEW r \in Requests, Unreachable(r) \/ Leave(r)
    PROVE  IInv'
<1>1. TypeOK /\ RowsMove /\ cache' = cache
  BY RowsStay DEF IInv, Unreachable, Leave
<1>2. req[r] \in RequestStates /\ req[r].at <= now /\ now \in Nat
  BY <1>1 DEF IInv, Safe, TypeOK, NoDateAhead
<1>3. CASE Unreachable(r)
  <2>. DEFINE q == [req[r] EXCEPT !.pc = "unavailable", !.at = now]
  <2>1. q \in RequestStates /\ q.at = now /\ q.pc = "unavailable"
    BY <1>2 DEF RequestStates, Phases
  <2>2. req' = [req EXCEPT ![r] = q]
    BY <1>1, <1>3 DEF Unreachable, TypeOK
  <2>. HIDE DEF q
  <2>3. q.at <= now
    BY <1>2, <2>1
  <2>. QED
    BY <1>1, <2>1, <2>2, <2>3, QuietStepPreserves
<1>4. CASE Leave(r)
  <2>. DEFINE q == [req[r] EXCEPT !.pc = "idle"]
  <2>1. q \in RequestStates /\ q.at <= now /\ q.pc = "idle"
    BY <1>2 DEF RequestStates, Phases
  <2>2. req' = [req EXCEPT ![r] = q]
    BY <1>1, <1>4 DEF Leave, TypeOK
  <2>. HIDE DEF q
  <2>. QED
    BY <1>1, <2>1, <2>2, QuietStepPreserves
<1>. QED
  BY <1>3, <1>4

LEMMA RegisterPreserves ==
    ASSUME IInv, NEW r \in Requests, Register(r)
    PROVE  IInv'
<1>. DEFINE t == req[r].token
            q == [req[r] EXCEPT !.pc = "filling"]
<1>1. TypeOK /\ now' = now /\ revokedAt' = revokedAt /\ cache' = cache
  BY DEF IInv, Register
<1>2. req[r] \in RequestStates /\ t \in Tokens
  BY <1>1 DEF TypeOK, RequestStates
<1>3. RowsMove
  BY <1>1, <1>2 DEF RowsMove, RowMoves, Register, TypeOK
<1>4. q \in RequestStates /\ q.token = t /\ q.at = req[r].at /\ q.revoked = req[r].revoked
      /\ q.pc = "filling"
  BY <1>2 DEF RequestStates, Phases
<1>5. req' = [req EXCEPT ![r] = q]
  BY <1>1 DEF Register, TypeOK
<1>. HIDE DEF q
<1>6. RequestRight(q, now, rows[t], revokedAt[t])
  <2>1. RequestRight(req[r], now, rows[t], revokedAt[t])
    BY Pointwise
  <2>2. req[r].pc = "registering"
    BY DEF Register
  <2>. QED
    BY <1>4, <2>1, <2>2 DEF RequestRight
<1>7. RequestRight(q, now, rows'[q.token], revokedAt'[q.token])
  <2>1. RowMoves(rows[t], rows'[t], revokedAt[t], revokedAt'[t], now)
    BY <1>2, <1>3 DEF RowsMove
  <2>2. now \in Nat /\ revokedAt[t] \in Nat /\ revokedAt'[t] \in Nat
    BY <1>1, <1>2 DEF TypeOK
  <2>3. RequestRight(q, now, rows'[t], revokedAt'[t])
    BY <1>4, <1>6, <2>1, <2>2, RightStaysRight
  <2>. QED
    BY <1>4, <2>3
<1>. QED
  BY <1>1, <1>3, <1>4, <1>5, <1>7, RequestBecomes, CacheStays, StepPreserves

(***************************************************************************)
(* Emptying entries, or filling one with an entry that is right.           *)
(***************************************************************************)
LEMMA MissPreserves ==
    ASSUME IInv, NEW r \in Requests, NEW w \in Workers, NEW t \in Tokens, Miss(r, w, t)
    PROVE  IInv'
<1>. DEFINE q == [pc |-> "asking", worker |-> w, token |-> t, revoked |-> FALSE, at |-> now]
<1>1. TypeOK /\ RowsMove /\ now' = now /\ rows' = rows /\ revokedAt' = revokedAt
  BY RowsStay DEF IInv, Miss
<1>2. q \in RequestStates /\ q.at <= now /\ q.pc = "asking"
  BY <1>1 DEF TypeOK, RequestStates, Phases
<1>3. req' = [req EXCEPT ![r] = q]
  BY DEF Miss
<1>. HIDE DEF q
<1>4. RequestRight(q, now, rows'[q.token], revokedAt'[q.token])
  BY <1>2 DEF RequestRight
<1>5. cache' \in [Workers -> [Tokens -> Entries]]
  BY <1>1 DEF Miss, TypeOK, Entries, NoEntry
<1>6. ASSUME NEW v \in Workers, NEW u \in Tokens
      PROVE  EntryRight(cache'[v][u], now', rows'[u], revokedAt'[u])
  <2>1. cache'[v][u] = cache[v][u] \/ ~cache'[v][u].known
    BY <1>1 DEF Miss, TypeOK, NoEntry
  <2>2. EntryRight(cache[v][u], now, rows[u], revokedAt[u])
    BY Pointwise
  <2>. QED
    BY <1>1, <2>1, <2>2 DEF EntryRight
<1>. QED
  BY <1>1, <1>2, <1>3, <1>4, <1>5, <1>6, RequestBecomes, StepPreserves

LEMMA FillPreserves ==
    ASSUME IInv, NEW r \in Requests, Fill(r)
    PROVE  IInv'
<1>. DEFINE t == req[r].token
            e == EntryOf(req[r].revoked)
            q == [req[r] EXCEPT !.pc = Verdict(req[r].revoked), !.at = now]
<1>1. TypeOK /\ RowsMove /\ now' = now /\ rows' = rows /\ revokedAt' = revokedAt
  BY RowsStay DEF IInv, Fill
<1>2. req[r] \in RequestStates /\ t \in Tokens /\ req[r].worker \in Workers
      /\ req[r].revoked \in BOOLEAN /\ req[r].at \in Nat /\ now \in Nat /\ revokedAt[t] \in Nat
  BY <1>1 DEF TypeOK, RequestStates
<1>3. q \in RequestStates /\ q.token = t /\ q.at = now /\ q.pc = Verdict(req[r].revoked)
  BY <1>2 DEF RequestStates, Phases, Verdict
<1>4. req' = [req EXCEPT ![r] = q]
  BY <1>1 DEF Fill, TypeOK
<1>. HIDE DEF q
<1>5. /\ now <= req[r].at + Delay
      /\ req[r].revoked => rows[t] = "revoked"
      /\ ~req[r].revoked /\ rows[t] = "revoked" => req[r].at <= revokedAt[t]
  BY DEF IInv, Safe, AnswersAreRecent, Fill
<1>6. RequestRight(q, now, rows'[q.token], revokedAt'[q.token])
  BY <1>1, <1>2, <1>3, <1>5, CacheConstantsOK DEF RequestRight, Verdict, CacheConstantsOK
<1>7. e \in Entries /\ EntryRight(e, now, rows[t], revokedAt[t])
  BY <1>2, <1>5, CacheConstantsOK DEF EntryRight, EntryOf, Entries, CacheConstantsOK
<1>8. cache' = [cache EXCEPT ![req[r].worker][t] = e]
  BY DEF Fill
<1>. HIDE DEF e
<1>9. cache' \in [Workers -> [Tokens -> Entries]]
  BY <1>1, <1>7, <1>8 DEF TypeOK
<1>10. ASSUME NEW v \in Workers, NEW u \in Tokens
       PROVE  EntryRight(cache'[v][u], now', rows'[u], revokedAt'[u])
  <2>1. cache'[v][u] = cache[v][u] \/ (u = t /\ cache'[v][u] = e)
    BY <1>1, <1>2, <1>8 DEF TypeOK
  <2>2. EntryRight(cache[v][u], now, rows[u], revokedAt[u])
    BY Pointwise
  <2>. QED
    BY <1>1, <1>7, <2>1, <2>2
<1>. QED
  BY <1>1, <1>3, <1>4, <1>6, <1>9, <1>10, RequestBecomes, StepPreserves

-----------------------------------------------------------------------------
(* The surroundings. *)

LEMMA RevokePreserves ==
    ASSUME IInv, NEW t \in Tokens, Revoke(t)
    PROVE  IInv'
<1>1. TypeOK /\ now' = now /\ cache' = cache /\ req' = req
  BY DEF IInv, Revoke
<1>2. RowsMove
  BY <1>1 DEF RowsMove, RowMoves, Revoke, TypeOK
<1>3. ASSUME NEW s \in Requests
      PROVE  RequestRight(req[s], now, rows'[req[s].token], revokedAt'[req[s].token])
  <2>1. RequestRight(req[s], now, rows[req[s].token], revokedAt[req[s].token])
    BY Pointwise
  <2>2. req[s] \in RequestStates /\ req[s].token \in Tokens
    BY <1>1 DEF TypeOK, RequestStates
  <2>3. RowMoves(rows[req[s].token], rows'[req[s].token],
                 revokedAt[req[s].token], revokedAt'[req[s].token], now)
    BY <1>2, <2>2 DEF RowsMove
  <2>4. now \in Nat /\ revokedAt[req[s].token] \in Nat /\ revokedAt'[req[s].token] \in Nat
    BY <1>1, <1>2, <2>2 DEF TypeOK, RowsMove
  <2>. QED
    BY <2>1, <2>2, <2>3, <2>4, RightStaysRight
<1>4. req' \in [Requests -> RequestStates]
  BY <1>1 DEF TypeOK
<1>. QED
  BY <1>1, <1>2, <1>3, <1>4, CacheStays, StepPreserves

(***************************************************************************)
(* Emptying the cache of a worker.                                         *)
(***************************************************************************)
LEMMA EmptyCache ==
    ASSUME IInv, RowsMove, rows' = rows, revokedAt' = revokedAt, NEW w \in Workers,
           cache' = [cache EXCEPT ![w] = [t \in Tokens |-> NoEntry]]
    PROVE  /\ cache' \in [Workers -> [Tokens -> Entries]]
           /\ \A v \in Workers, u \in Tokens :
                 EntryRight(cache'[v][u], now', rows'[u], revokedAt'[u])
<1>1. TypeOK
  BY DEF IInv
<1>2. ASSUME NEW v \in Workers, NEW u \in Tokens
      PROVE  EntryRight(cache'[v][u], now', rows'[u], revokedAt'[u])
  <2>1. cache'[v][u] = cache[v][u] \/ ~cache'[v][u].known
    BY <1>1 DEF TypeOK, NoEntry
  <2>2. EntryRight(cache[v][u], now, rows[u], revokedAt[u])
    BY Pointwise
  <2>. QED
    BY <2>1, <2>2 DEF EntryRight, RowsMove
<1>. QED
  BY <1>1, <1>2 DEF TypeOK, Entries, NoEntry

LEMMA ClearPreserves ==
    ASSUME IInv, NEW w \in Workers, Clear(w)
    PROVE  IInv'
<1>1. TypeOK /\ RowsMove /\ now' = now /\ rows' = rows /\ revokedAt' = revokedAt /\ req' = req
  BY RowsStay DEF IInv, Clear
<1>2. \A s \in Requests :
         RequestRight(req'[s], now', rows'[req'[s].token], revokedAt'[req'[s].token])
  BY <1>1, Pointwise
<1>3. cache' = [cache EXCEPT ![w] = [t \in Tokens |-> NoEntry]]
  BY DEF Clear
<1>4. req' \in [Requests -> RequestStates]
  BY <1>1 DEF TypeOK
<1>. QED
  BY <1>1, <1>2, <1>3, <1>4, EmptyCache, StepPreserves

LEMMA RestartPreserves ==
    ASSUME IInv, NEW w \in Workers, Restart(w)
    PROVE  IInv'
<1>1. TypeOK /\ RowsMove /\ now' = now /\ rows' = rows /\ revokedAt' = revokedAt
  BY RowsStay DEF IInv, Restart
<1>2. cache' = [cache EXCEPT ![w] = [t \in Tokens |-> NoEntry]]
  BY DEF Restart
<1>3. req' = [r \in Requests |-> IF req[r].worker = w THEN [req[r] EXCEPT !.pc = "idle"] ELSE req[r]]
  BY DEF Restart
<1>4. ASSUME NEW s \in Requests
      PROVE  /\ req'[s] \in RequestStates
             /\ RequestRight(req'[s], now', rows'[req'[s].token], revokedAt'[req'[s].token])
  <2>1. req[s] \in RequestStates
    BY <1>1 DEF TypeOK
  <2>2. RequestRight(req[s], now, rows[req[s].token], revokedAt[req[s].token])
    BY Pointwise
  <2>3. CASE req[s].worker # w
    BY <1>1, <1>3, <2>1, <2>2, <2>3
  <2>4. CASE req[s].worker = w
    <3>1. req'[s] = [req[s] EXCEPT !.pc = "idle"]
      BY <1>3, <2>4
    <3>2. req'[s] \in RequestStates /\ req'[s].pc = "idle" /\ req'[s].at = req[s].at
      BY <2>1, <3>1 DEF RequestStates, Phases
    <3>3. req[s].at <= now'
      BY <1>1, <2>2 DEF RequestRight
    <3>. QED
      BY <3>2, <3>3 DEF RequestRight
  <2>. QED
    BY <2>3, <2>4
<1>5. req' \in [Requests -> RequestStates]
  BY <1>3, <1>4
<1>. QED
  BY <1>1, <1>2, <1>4, <1>5, EmptyCache, StepPreserves

(***************************************************************************)
(* The clock moves, but not past an answer that waits for its fill.        *)
(***************************************************************************)
LEMMA TickPreserves ==
    ASSUME IInv, Tick
    PROVE  IInv'
<1>1. TypeOK /\ now' = now + 1 /\ UNCHANGED <<rows, revokedAt, cache, req>>
  BY DEF IInv, Tick
<1>2. TypeOK'
  BY <1>1 DEF TypeOK
<1>3. RevokedRefusedInTime' /\ RefusedWasRevoked' /\ EntriesAreRecent'
  BY <1>1 DEF IInv, Safe, RevokedRefusedInTime, RefusedWasRevoked, EntriesAreRecent
<1>4. NoDateAhead'
  <2>1. ASSUME NEW r \in Requests
        PROVE  req'[r].at <= now'
    <3>1. req[r].at \in Nat /\ req[r].at <= now /\ now \in Nat
      BY <1>1 DEF IInv, Safe, NoDateAhead, TypeOK, RequestStates
    <3>. QED
      BY <1>1, <3>1
  <2>2. ASSUME NEW w \in Workers, NEW t \in Tokens, cache'[w][t].known
        PROVE  cache'[w][t].expires <= now' + TTL
    <3>1. cache[w][t] \in Entries /\ now \in Nat
      BY <1>1 DEF TypeOK
    <3>2. cache[w][t].expires <= now + TTL
      BY <1>1, <2>2 DEF IInv, Safe, NoDateAhead
    <3>. QED
      BY <1>1, <3>1, <3>2, CacheConstantsOK DEF Entries, CacheConstantsOK
  <2>. QED
    BY <2>1, <2>2 DEF NoDateAhead
<1>5. AnswersAreRecent'
  <2>1. ASSUME NEW r \in Requests, req[r].pc \in {"registering", "filling"}
        PROVE  now' <= req[r].at + Delay
    <3>1. req[r].at \in Nat /\ now \in Nat /\ now < req[r].at + Delay
      BY <1>1, <2>1 DEF Tick, TypeOK, RequestStates
    <3>. QED
      BY <1>1, <3>1, CacheConstantsOK DEF CacheConstantsOK
  <2>. QED
    BY <1>1, <2>1 DEF IInv, Safe, AnswersAreRecent
<1>. QED
  BY <1>2, <1>3, <1>4, <1>5 DEF IInv, Safe

-----------------------------------------------------------------------------
THEOREM NextPreserves == IInv /\ [Next]_vars => IInv'
<1>. SUFFICES ASSUME IInv, [Next]_vars PROVE IInv'
  OBVIOUS
<1>1. ASSUME NEW r \in Requests, Look(r)
      PROVE  IInv'
  BY <1>1, HitPreserves, MissPreserves DEF Look
<1>2. ASSUME NEW r \in Requests, Work(r) \/ Leave(r)
      PROVE  IInv'
  BY <1>2, AskPreserves, LookingAgainPreserves, RegisterPreserves, FillPreserves DEF Work
<1>3. ASSUME NEW t \in Tokens, Revoke(t)
      PROVE  IInv'
  BY <1>3, RevokePreserves
<1>4. ASSUME NEW w \in Workers, Clear(w) \/ Restart(w)
      PROVE  IInv'
  BY <1>4, ClearPreserves, RestartPreserves
<1>5. CASE Tick
  BY <1>5, TickPreserves
<1>6. CASE UNCHANGED vars
  BY <1>6 DEF IInv, Safe, TypeOK, AnswersAreRecent, EntriesAreRecent, NoDateAhead,
       RevokedRefusedInTime, RefusedWasRevoked, vars
<1>. QED
  BY <1>1, <1>2, <1>3, <1>4, <1>5, <1>6 DEF Next

THEOREM InvariantHolds == BothSpec => []IInv
<1>1. BothInit => IInv
  BY InitEstablishes DEF BothInit
<1>2. [BothNext]_<<part, vars, renderVars>> => [Next]_vars
  BY DEF BothNext
<1>. QED
  BY <1>1, <1>2, NextPreserves, PTL DEF BothSpec

(***************************************************************************)
(* The state keeps its types.                                              *)
(***************************************************************************)
THEOREM TypeCorrect == BothSpec => []TypeOK
<1>1. IInv => TypeOK
  BY DEF IInv
<1>. QED
  BY <1>1, InvariantHolds, PTL

(***************************************************************************)
(* dependencies.py: a revoked token is refused Delay + TTL after its       *)
(* revocation, however requests, fills, clears and restarts interleave.    *)
(***************************************************************************)
THEOREM RevokedAlwaysRefusedInTime == BothSpec => []RevokedRefusedInTime
<1>1. IInv => RevokedRefusedInTime
  BY DEF IInv, Safe
<1>. QED
  BY <1>1, InvariantHolds, PTL

(***************************************************************************)
(* dependencies.py: only a revoked token is refused as revoked.            *)
(***************************************************************************)
THEOREM RefusedAlwaysWasRevoked == BothSpec => []RefusedWasRevoked
<1>1. IInv => RefusedWasRevoked
  BY DEF IInv, Safe
<1>. QED
  BY <1>1, InvariantHolds, PTL
-----------------------------------------------------------------------------
(***************************************************************************)
(* Renders.  A file's name leaves out which of the objects of one commit   *)
(* it was made of, if two have one stem; clients push no two such objects. *)
(***************************************************************************)
StemsDiffer ==
    \A c \in Commits : \A p, q \in Payloads[c] : \A i \in DOMAIN p, j \in DOMAIN q :
        Stem[p[i]] = Stem[q[j]] => p[i] = q[j]

\* The content belongs into the file.
Belongs(content, file) ==
    \E p \in Payloads[file.commit] : \E i \in DOMAIN p :
        /\ Stem[p[i]] = file.stem
        /\ content = IF file.kind = "image" THEN Image[p[i]] ELSE Audio[p[i]]

\* The file of a row has its content, and so has every later writer's.
Whole(row) == Belongs(row.id, row.file) /\ files[row.file] = row.id

FileRow(t) == [id |-> R!Content(t), file |-> R!FileName(t)]

Working(q) == q.pc \in {"write", "look"}

\* The row of the file that was written and not looked up.
InHand(t, q) == IF q.pc = "look" THEN {FileRow(t)} ELSE {}

\* Two tasks ran at the same time.
Met(t, u) ==
    /\ t # u
    /\ task[t].pc # "idle" /\ task[u].pc # "idle"
    /\ t \notin task[u].before /\ u \notin task[t].before

Collided(t) ==
    \E u \in Tasks : /\ Met(t, u)
                     /\ \/ task[u].commit = task[t].commit
                        \/ R!Artifacts(u) \cap R!Artifacts(t) # {}

\* What a task has in its transaction; and what it has missed, since it looked,
\* is of a task that it met.
RenderRight(t, q) ==
    /\ q.payload \in Payloads[q.commit] /\ q.at >= 1
    /\ q.before \subseteq R!Ended \ {t}
    /\ q.pc = "look" => q.at <= 2 * Len(q.payload)
    /\ ~Working(q) => q.sent = {} /\ q.added = {} /\ ~q.job /\ ~q.broken
    /\ \A row \in q.sent \cup q.added \cup InHand(t, q) : Whole(row) /\ row.id \in R!Artifacts(t)
    /\ q.broken \/ q.pc = "lost" => Collided(t)
    /\ q.pc = "insert" => \A j \in jobs : j.commit = q.commit => Collided(t)
    /\ \A row \in q.added : row.id \in R!Ids(objects) => Collided(t)
    /\ ~q.broken => q.ids \subseteq R!Ids(q.sent \cup q.added) \cup R!Ids(objects) \cup Uploaded

RenderInv ==
    /\ R!TypeOK
    /\ \A row \in objects : Whole(row)
    /\ R!JobsHaveObjects
    /\ \A t \in Tasks : RenderRight(t, task[t])

LEMMA RendersInit == R!Init => RenderInv
<1>. SUFFICES ASSUME R!Init PROVE RenderInv
  OBVIOUS
<1>1. \A t \in Tasks : \E c \in Commits : \E p \in Payloads[c] : task[t] = R!Pushed(c, p)
  BY DEF R!Init
<1>2. R!TypeOK
  <2>1. \A t \in Tasks : task[t] \in R!TaskStates
    <3>1. \A c \in Commits : \A p \in Payloads[c] : R!Pushed(c, p) \in R!TaskStates
      BY DEF R!Pushed, R!TaskStates, R!AllPayloads
    <3>. QED
      BY <1>1, <3>1
  <2>2. task \in [Tasks -> R!TaskStates]
    BY <2>1 DEF R!Init
  <2>. QED
    BY <2>2 DEF R!Init, R!TypeOK
<1>3. ASSUME NEW t \in Tasks PROVE RenderRight(t, task[t])
  <2>1. PICK c \in Commits : \E p \in Payloads[c] : task[t] = R!Pushed(c, p)
    BY <1>1
  <2>2. PICK p \in Payloads[c] : task[t] = R!Pushed(c, p)
    BY <2>1
  <2>. QED
    BY <2>2 DEF R!Pushed, R!Init, RenderRight, Working, InHand, R!Ids
<1>. QED
  BY <1>2, <1>3 DEF R!Init, RenderInv, R!JobsHaveObjects

(***************************************************************************)
(* The file of the artifact in hand.                                       *)
(***************************************************************************)
LEMMA BelongsOnce ==
    ASSUME StemsDiffer, NEW file \in R!Files, NEW a, NEW b, Belongs(a, file), Belongs(b, file)
    PROVE  a = b
BY DEF StemsDiffer, Belongs, R!Files

LEMMA InHandBelongs ==
    ASSUME RenderInv, NEW t \in Tasks, task[t].at <= R!Last(t)
    PROVE  /\ FileRow(t) \in R!Objects /\ R!FileName(t) \in R!Files
           /\ R!Content(t) \in R!Artifacts(t) /\ R!Content(t) \in R!Contents
           /\ FileRow(t).id = R!Content(t) /\ FileRow(t).file = R!FileName(t)
           /\ Belongs(R!Content(t), R!FileName(t))
<1>1. /\ task[t] \in R!TaskStates /\ task[t].payload \in Payloads[task[t].commit]
      /\ task[t].commit \in Commits /\ task[t].at \in Nat /\ task[t].at >= 1
      /\ task[t].at <= 2 * Len(task[t].payload)
  BY DEF RenderInv, R!TypeOK, R!TaskStates, RenderRight, R!Last
<1>2. PICK i : i = (task[t].at + 1) \div 2
  OBVIOUS
<1>3. task[t].payload \in Seq(R!Midis)
  BY <1>1, PayloadsOK DEF PayloadsOK
<1>4. i \in DOMAIN task[t].payload
  <2>1. PICK n \in Nat, len \in Nat : n = task[t].at /\ len = Len(task[t].payload)
    BY <1>1, <1>3
  <2>2. n >= 1 /\ n <= 2 * len /\ i = (n + 1) \div 2
    BY <1>1, <1>2, <2>1
  <2>3. i \in 1..len
    BY <2>2
  <2>. QED
    BY <1>3, <2>1, <2>3
<1>5. PICK m : m = task[t].payload[i]
  OBVIOUS
<1>6. R!Midi(t) = m
  BY <1>2, <1>5 DEF R!Midi
<1>7. m \in R!Midis
  BY <1>3, <1>4, <1>5
<1>8. R!Kind(t) \in {"image", "audio"}
  BY DEF R!Kind
<1>9. R!Content(t) = IF R!Kind(t) = "image" THEN Image[m] ELSE Audio[m]
  BY <1>6 DEF R!Content
<1>10. R!FileName(t) = [commit |-> task[t].commit, stem |-> Stem[m], kind |-> R!Kind(t)]
  BY <1>6 DEF R!FileName
<1>11. R!FileName(t) \in R!Files
  BY <1>1, <1>7, <1>8, <1>10 DEF R!Files
<1>12. R!Content(t) \in R!Contents
  BY <1>7, <1>9 DEF R!Contents
<1>13. R!Content(t) \in R!Artifacts(t)
  <2>1. m \in {task[t].payload[k] : k \in DOMAIN task[t].payload}
    BY <1>4, <1>5
  <2>. QED
    BY <1>9, <2>1 DEF R!Artifacts
<1>14. Belongs(R!Content(t), R!FileName(t))
  BY <1>1, <1>4, <1>5, <1>9, <1>10 DEF Belongs
<1>. QED
  BY <1>11, <1>12, <1>13, <1>14 DEF FileRow, R!Objects

(***************************************************************************)
(* A step of one task, and what it is to the others.                       *)
(***************************************************************************)
Moves(r, new) ==
    /\ new \in R!TaskStates
    /\ task' = [task EXCEPT ![r] = new]
    /\ task[r].pc \notin {"done", "lost", "dead"} /\ new.pc # "idle"
    /\ new.payload = task[r].payload /\ new.commit = task[r].commit
    /\ task[r].pc # "idle" => new.before = task[r].before
    /\ new.before \subseteq R!Ended

LEMMA RenderNamed ==
    ASSUME NEW t, NEW q, q = task'[t], RenderRight(t, q)'
    PROVE  RenderRight(t, task[t])'
BY DEF RenderRight, Working, InHand

LEMMA MovesFrame ==
    ASSUME RenderInv, NEW r \in Tasks, NEW new, Moves(r, new)
    PROVE  /\ task \in [Tasks -> R!TaskStates] /\ task' \in [Tasks -> R!TaskStates]
           /\ task'[r] = new /\ \A t \in Tasks \ {r} : task'[t] = task[t]
           /\ r \notin R!Ended /\ R!Ended \subseteq R!Ended' /\ new.before \subseteq R!Ended' \ {r}
           /\ \A t \in Tasks : R!Artifacts(t)' = R!Artifacts(t)
           /\ \A t \in Tasks : Collided(t) => Collided(t)'
           /\ \A t \in Tasks \ {r} : task[t].pc # "idle" /\ t \notin R!Ended => Met(t, r)'
<1>1. task \in [Tasks -> R!TaskStates] /\ new \in R!TaskStates /\ task' = [task EXCEPT ![r] = new]
  BY DEF RenderInv, R!TypeOK, Moves
<1>2. task' \in [Tasks -> R!TaskStates] /\ task'[r] = new /\ \A t \in Tasks \ {r} : task'[t] = task[t]
  BY <1>1
<1>3. r \notin R!Ended /\ R!Ended \subseteq R!Ended'
  BY <1>2 DEF R!Ended, Moves
<1>4. \A t \in Tasks : task'[t].payload = task[t].payload /\ task'[t].commit = task[t].commit
  BY <1>2 DEF Moves
<1>5. \A t \in Tasks : R!Artifacts(t)' = R!Artifacts(t)
  BY <1>4 DEF R!Artifacts
<1>6. \A t \in Tasks : task[t].pc # "idle" => task'[t].pc # "idle" /\ task'[t].before = task[t].before
  BY <1>2 DEF Moves
<1>7. \A t, u \in Tasks : Met(t, u) => Met(t, u)'
  BY <1>6 DEF Met
<1>8. \A t \in Tasks : Collided(t) => Collided(t)'
  BY <1>4, <1>5, <1>7 DEF Collided
<1>9. ASSUME NEW t \in Tasks \ {r}, task[t].pc # "idle", t \notin R!Ended
      PROVE  Met(t, r)'
  <2>1. task[t].before \subseteq R!Ended
    BY DEF RenderInv, RenderRight
  <2>. QED
    BY <1>2, <1>3, <1>9, <2>1 DEF Met, Moves
<1>10. new.before \subseteq R!Ended' \ {r}
  <2>1. new.before \subseteq R!Ended
    BY DEF Moves
  <2>. QED
    BY <1>3, <2>1
<1>. QED
  BY <1>1, <1>2, <1>3, <1>5, <1>8, <1>9, <1>10

LEMMA MovesKeep ==
    ASSUME RenderInv, NEW r \in Tasks, NEW new, Moves(r, new),
           NEW made, made \subseteq task[r].sent \cup task[r].added, objects' = objects \cup made,
           jobs \subseteq jobs',
           \A j \in jobs' \ jobs : j \in R!Jobs /\ j.commit = task[r].commit
                                   /\ j.ids \subseteq R!Ids(objects') \cup Uploaded,
           files' \in [R!Files -> R!Contents \cup {"none"}],
           \A row \in R!Objects : Whole(row) => Whole(row)',
           RenderRight(r, new)'
    PROVE  RenderInv'
<1>1. /\ task[r] \in R!TaskStates /\ objects \subseteq R!Objects /\ jobs \subseteq R!Jobs
      /\ \A row \in objects : Whole(row)
      /\ \A t \in Tasks : RenderRight(t, task[t]) /\ task[t] \in R!TaskStates
  BY DEF RenderInv, R!TypeOK
<1>2. made \subseteq R!Objects /\ \A row \in made : Whole(row) /\ row.id \in R!Artifacts(r)
  BY <1>1 DEF R!TaskStates, RenderRight
<1>3. R!TypeOK'
  BY <1>1, <1>2, MovesFrame DEF R!TypeOK
<1>4. \A row \in objects' : Whole(row)'
  BY <1>1, <1>2
<1>5. R!Ids(objects) \subseteq R!Ids(objects')
  BY DEF R!Ids
<1>6. R!JobsHaveObjects'
  <2>1. \A j \in jobs : j.ids \subseteq R!Ids(objects) \cup Uploaded
    BY DEF RenderInv, R!JobsHaveObjects
  <2>. QED
    BY <1>5, <2>1 DEF R!JobsHaveObjects
<1>7. ASSUME NEW t \in Tasks \ {r} PROVE RenderRight(t, task[t])'
  <2>1. PICK q : q = task[t]
    OBVIOUS
  <2>2. task'[t] = q /\ q \in R!TaskStates /\ RenderRight(t, q)
    BY <1>1, <2>1, MovesFrame
  <2>3. FileRow(t)' = FileRow(t)
    BY <2>1, <2>2 DEF FileRow, R!Content, R!FileName, R!Kind, R!Midi
  <2>4. q.before \subseteq R!Ended' \ {t}
    BY <2>2, MovesFrame DEF RenderRight
  <2>5. \A row \in q.sent \cup q.added \cup InHand(t, q)' : Whole(row)' /\ row.id \in R!Artifacts(t)'
    <3>1. q.sent \cup q.added \subseteq R!Objects
      BY <2>2 DEF R!TaskStates
    <3>2. InHand(t, q)' = InHand(t, q) /\ InHand(t, q) \subseteq R!Objects
      <4>1. q.pc = "look" => FileRow(t) \in R!Objects
        BY <2>1, <2>2, InHandBelongs DEF RenderRight, R!Last
      <4>. QED
        BY <2>3, <4>1 DEF InHand
    <3>3. \A row \in q.sent \cup q.added \cup InHand(t, q) : Whole(row) /\ row.id \in R!Artifacts(t)
      BY <2>2 DEF RenderRight
    <3>4. R!Artifacts(t)' = R!Artifacts(t)
      BY MovesFrame
    <3>. QED
      BY <3>1, <3>2, <3>3, <3>4
  <2>6. q.broken \/ q.pc = "lost" => Collided(t)'
    BY <2>2, MovesFrame DEF RenderRight
  <2>7. q.pc \notin {"idle", "done", "lost", "dead"} => Met(t, r)'
    BY <2>1, MovesFrame DEF R!Ended
  <2>8. q.pc = "insert" => \A j \in jobs' : j.commit = q.commit => Collided(t)'
    <3>. SUFFICES ASSUME q.pc = "insert", NEW j \in jobs', j.commit = q.commit PROVE Collided(t)'
      OBVIOUS
    <3>1. CASE j \in jobs
      BY <2>2, <3>1, MovesFrame DEF RenderRight
    <3>2. CASE j \notin jobs
      BY <2>2, <2>7, <3>2, MovesFrame DEF Collided, Moves
    <3>. QED
      BY <3>1, <3>2
  <2>9. \A row \in q.added : row.id \in R!Ids(objects') => Collided(t)'
    <3>. SUFFICES ASSUME NEW row \in q.added, row.id \in R!Ids(objects') PROVE Collided(t)'
      OBVIOUS
    <3>1. CASE row.id \in R!Ids(objects)
      BY <2>2, <3>1, MovesFrame DEF RenderRight
    <3>2. CASE row.id \notin R!Ids(objects)
      <4>1. PICK x \in made : x.id = row.id
        BY <3>2 DEF R!Ids
      <4>2. row.id \in R!Artifacts(r)' /\ row.id \in R!Artifacts(t)'
        BY <1>2, <2>2, <4>1, MovesFrame DEF RenderRight
      <4>3. Met(t, r)'
        BY <2>2, <2>7 DEF RenderRight, Working
      <4>. QED
        BY <4>2, <4>3 DEF Collided
    <3>. QED
      BY <3>1, <3>2
  <2>10. ~q.broken => q.ids \subseteq R!Ids(q.sent \cup q.added) \cup R!Ids(objects') \cup Uploaded
    BY <1>5, <2>2 DEF RenderRight
  <2>11. /\ q.payload \in Payloads[q.commit] /\ q.at >= 1
         /\ q.pc = "look" => q.at <= 2 * Len(q.payload)
         /\ ~Working(q) => q.sent = {} /\ q.added = {} /\ ~q.job /\ ~q.broken
    BY <2>2 DEF RenderRight
  <2>12. RenderRight(t, q)'
    BY <2>4, <2>5, <2>6, <2>8, <2>9, <2>10, <2>11 DEF RenderRight, Working, R!Ids
  <2>. QED
    BY <2>2, <2>12, RenderNamed
<1>8. RenderRight(r, task[r])'
  BY MovesFrame, RenderNamed
<1>. QED
  BY <1>3, <1>4, <1>6, <1>7, <1>8 DEF RenderInv

-----------------------------------------------------------------------------
(***************************************************************************)
(* The actions.                                                            *)
(***************************************************************************)
LEMMA Quiet ==
    ASSUME RenderInv, NEW r \in Tasks, NEW new, Moves(r, new),
           objects' = objects, jobs' = jobs, files' = files, RenderRight(r, new)'
    PROVE  RenderInv'
<1>1. files' \in [R!Files -> R!Contents \cup {"none"}]
  BY DEF RenderInv, R!TypeOK
<1>2. objects' = objects \cup {} /\ {} \subseteq task[r].sent \cup task[r].added
  OBVIOUS
<1>3. \A row \in R!Objects : Whole(row) => Whole(row)'
  BY DEF Whole, Belongs
<1>. QED
  BY <1>1, <1>2, <1>3, MovesKeep

\* A task that waits for nothing it has seen: it begins, or is over.
LEMMA QuietBare ==
    ASSUME RenderInv, NEW r \in Tasks, NEW new, Moves(r, new),
           objects' = objects, jobs' = jobs, files' = files,
           ~Working(new), new.sent = {}, new.added = {}, ~new.job, ~new.broken, new.at = task[r].at,
           new.ids \subseteq R!Ids(objects) \cup Uploaded,
           new.pc = "lost" => Collided(r),
           new.pc = "insert" => \A j \in jobs : j.commit = new.commit => Collided(r)
    PROVE  RenderInv'
<1>1. new.payload \in Payloads[new.commit] /\ new.at >= 1
  BY DEF RenderInv, RenderRight, Moves
<1>2. new.before \subseteq R!Ended' \ {r}
  BY MovesFrame
<1>3. /\ new.pc = "lost" => Collided(r)'
      /\ new.pc = "insert" => \A j \in jobs' : j.commit = new.commit => Collided(r)'
  BY MovesFrame
<1>4. RenderRight(r, new)'
  BY <1>1, <1>2, <1>3 DEF RenderRight, Working, InHand, R!Ids
<1>. QED
  BY <1>4, Quiet

LEMMA TaskBegins ==
    ASSUME RenderInv, NEW r \in Tasks, R!Begin(r)
    PROVE  RenderInv'
<1>1. PICK new : new = [task[r] EXCEPT !.pc = "gate", !.before = R!Ended]
  OBVIOUS
<1>2. /\ task[r] \in R!TaskStates /\ task[r].pc = "idle" /\ R!Ended \subseteq Tasks
      /\ task \in [Tasks -> R!TaskStates]
  BY DEF RenderInv, R!TypeOK, R!Begin, R!Ended
<1>3. /\ new \in R!TaskStates /\ new.pc = "gate" /\ new.payload = task[r].payload
      /\ new.commit = task[r].commit /\ new.before = R!Ended /\ new.at = task[r].at
      /\ new.sent = task[r].sent /\ new.added = task[r].added /\ new.ids = task[r].ids
  BY <1>1, <1>2 DEF R!TaskStates
<1>4. new.job = task[r].job /\ new.broken = task[r].broken
  BY <1>1, <1>2 DEF R!TaskStates
<1>5. task' = [task EXCEPT ![r] = new]
  BY <1>1, <1>2 DEF R!Begin
<1>6. Moves(r, new)
  BY <1>2, <1>3, <1>5 DEF Moves
<1>7. RenderRight(r, task[r])
  BY DEF RenderInv
<1>8. /\ new.sent = {} /\ new.added = {} /\ ~new.job /\ ~new.broken
      /\ new.ids \subseteq R!Ids(objects) \cup Uploaded
  BY <1>2, <1>3, <1>4, <1>7 DEF RenderRight, Working, R!Ids
<1>. QED
  BY <1>3, <1>6, <1>8, QuietBare DEF R!Begin, Working

LEMMA TaskGates ==
    ASSUME RenderInv, NEW r \in Tasks, R!Gate(r)
    PROVE  RenderInv'
<1>1. PICK to \in {"done", "insert"} : to = IF R!JobExists(task[r].commit) THEN "done" ELSE "insert"
  OBVIOUS
<1>2. PICK new : new = [task[r] EXCEPT !.pc = to]
  OBVIOUS
<1>3. /\ task[r] \in R!TaskStates /\ task[r].pc = "gate" /\ task \in [Tasks -> R!TaskStates]
  BY DEF RenderInv, R!TypeOK, R!Gate
<1>4. /\ new \in R!TaskStates /\ new.pc = to /\ new.payload = task[r].payload
      /\ new.commit = task[r].commit /\ new.before = task[r].before /\ new.at = task[r].at
      /\ new.sent = task[r].sent /\ new.added = task[r].added /\ new.ids = task[r].ids
  BY <1>2, <1>3 DEF R!TaskStates
<1>5. new.job = task[r].job /\ new.broken = task[r].broken
  BY <1>2, <1>3 DEF R!TaskStates
<1>6. task' = [task EXCEPT ![r] = new]
  BY <1>1, <1>2, <1>3 DEF R!Gate
<1>7. RenderRight(r, task[r])
  BY DEF RenderInv
<1>8. Moves(r, new)
  BY <1>3, <1>4, <1>6, <1>7 DEF Moves, RenderRight
<1>9. /\ new.sent = {} /\ new.added = {} /\ ~new.job /\ ~new.broken
      /\ new.ids \subseteq R!Ids(objects) \cup Uploaded
  BY <1>3, <1>4, <1>5, <1>7 DEF RenderRight, Working, R!Ids
<1>10. to = "insert" => \A j \in jobs : j.commit # task[r].commit
  BY <1>1 DEF R!JobExists
<1>. QED
  BY <1>4, <1>8, <1>9, <1>10, QuietBare DEF R!Gate, Working

\* The end of a task that is refused or dies.
LEMMA TaskEnds ==
    ASSUME RenderInv, NEW r \in Tasks, task[r].pc \in {"gate", "insert", "write", "look"},
           NEW to \in {"lost", "dead"}, R!End(r, to), to = "lost" => Collided(r)
    PROVE  RenderInv'
<1>1. PICK no \in BOOLEAN : ~no /\ no = FALSE
  OBVIOUS
<1>2. PICK new : new = [task[r] EXCEPT !.pc = to, !.ids = {}, !.job = no, !.sent = {},
                                       !.added = {}, !.broken = no]
  OBVIOUS
<1>3. task[r] \in R!TaskStates /\ task \in [Tasks -> R!TaskStates]
  BY DEF RenderInv, R!TypeOK
<1>4. /\ new \in R!TaskStates /\ new.pc = to /\ new.payload = task[r].payload
      /\ new.commit = task[r].commit /\ new.before = task[r].before /\ new.at = task[r].at
      /\ new.sent = {} /\ new.added = {} /\ new.ids = {}
  BY <1>2, <1>3 DEF R!TaskStates
<1>5. ~new.job /\ ~new.broken
  BY <1>1, <1>2, <1>3 DEF R!TaskStates
<1>6. task' = [task EXCEPT ![r] = new]
  BY <1>1, <1>2, <1>3, Zenon DEF R!End
<1>7. RenderRight(r, task[r])
  BY DEF RenderInv
<1>8. Moves(r, new)
  BY <1>3, <1>4, <1>6, <1>7 DEF Moves, RenderRight
<1>. QED
  BY <1>4, <1>5, <1>8, QuietBare DEF R!End, Working

LEMMA JobIsRefused ==
    ASSUME RenderInv, NEW r \in Tasks, R!JobRefused(r)
    PROVE  RenderInv'
<1>1. RenderRight(r, task[r]) /\ task[r].pc = "insert" /\ R!JobExists(task[r].commit)
  BY DEF RenderInv, R!JobRefused
<1>2. Collided(r)
  BY <1>1 DEF RenderRight, R!JobExists
<1>. QED
  BY <1>1, <1>2, TaskEnds DEF R!JobRefused

LEMMA TaskDies ==
    ASSUME RenderInv, NEW r \in Tasks, R!Die(r)
    PROVE  RenderInv'
BY TaskEnds DEF R!Die

\* A task at work that changes no row and no file.
LEMMA QuietWork ==
    ASSUME RenderInv, NEW r \in Tasks, NEW new, Moves(r, new),
           objects' = objects, jobs' = jobs, files' = files,
           new.pc = "write", new.at >= 1,
           \A row \in new.sent \cup new.added : Whole(row) /\ row.id \in R!Artifacts(r),
           new.broken => Collided(r),
           \A row \in new.added : row.id \in R!Ids(objects) => Collided(r),
           ~new.broken => new.ids \subseteq R!Ids(new.sent \cup new.added) \cup R!Ids(objects) \cup Uploaded
    PROVE  RenderInv'
<1>1. new.payload \in Payloads[new.commit]
  BY DEF RenderInv, RenderRight, Moves
<1>2. new.before \subseteq R!Ended' \ {r}
  BY MovesFrame
<1>3. \A row \in new.sent \cup new.added : Whole(row)' /\ row.id \in R!Artifacts(r)'
  BY MovesFrame DEF Whole, Belongs
<1>4. /\ new.broken => Collided(r)'
      /\ \A row \in new.added : row.id \in R!Ids(objects') => Collided(r)'
  BY MovesFrame
<1>5. ~new.broken => new.ids \subseteq R!Ids(new.sent \cup new.added) \cup R!Ids(objects') \cup Uploaded
  OBVIOUS
<1>6. InHand(r, new)' = {} /\ Working(new)
  BY DEF InHand, Working
<1>7. RenderRight(r, new)'
  BY <1>1, <1>2, <1>3, <1>4, <1>5, <1>6 DEF RenderRight, Working, R!Ids
<1>. QED
  BY <1>7, Quiet

LEMMA JobInserts ==
    ASSUME RenderInv, NEW r \in Tasks, R!InsertJob(r)
    PROVE  RenderInv'
<1>1. PICK yes \in BOOLEAN : yes /\ yes = TRUE
  OBVIOUS
<1>2. PICK new : new = [task[r] EXCEPT !.pc = "write", !.job = yes]
  OBVIOUS
<1>3. /\ task[r] \in R!TaskStates /\ task[r].pc = "insert" /\ task \in [Tasks -> R!TaskStates]
      /\ RenderRight(r, task[r])
  BY DEF RenderInv, R!TypeOK, R!InsertJob
<1>4. /\ new \in R!TaskStates /\ new.pc = "write" /\ new.payload = task[r].payload
      /\ new.commit = task[r].commit /\ new.before = task[r].before /\ new.at = task[r].at
      /\ new.sent = task[r].sent /\ new.added = task[r].added /\ new.ids = task[r].ids
  BY <1>2, <1>3 DEF R!TaskStates
<1>5. new.broken = task[r].broken
  BY <1>2, <1>3 DEF R!TaskStates
<1>6. task' = [task EXCEPT ![r] = new]
  BY <1>1, <1>2, <1>3, Zenon DEF R!InsertJob
<1>7. Moves(r, new)
  BY <1>3, <1>4, <1>6 DEF Moves, RenderRight
<1>8. /\ new.sent = {} /\ new.added = {} /\ ~new.broken /\ new.at >= 1
      /\ new.ids \subseteq R!Ids(objects) \cup Uploaded
  BY <1>3, <1>4, <1>5 DEF RenderRight, Working, R!Ids
<1>. QED
  BY <1>4, <1>7, <1>8, QuietWork DEF R!InsertJob

LEMMA FileWrites ==
    ASSUME RenderInv, StemsDiffer, NEW r \in Tasks, R!WriteFile(r)
    PROVE  RenderInv'
<1>1. PICK new : new = [task[r] EXCEPT !.pc = "look"]
  OBVIOUS
<1>2. /\ task[r] \in R!TaskStates /\ task[r].pc = "write" /\ task \in [Tasks -> R!TaskStates]
      /\ RenderRight(r, task[r]) /\ task[r].at <= R!Last(r)
      /\ files \in [R!Files -> R!Contents \cup {"none"}]
  BY DEF RenderInv, R!TypeOK, R!WriteFile
<1>3. /\ new \in R!TaskStates /\ new.pc = "look" /\ new.payload = task[r].payload
      /\ new.commit = task[r].commit /\ new.before = task[r].before /\ new.at = task[r].at
      /\ new.sent = task[r].sent /\ new.added = task[r].added /\ new.ids = task[r].ids
  BY <1>1, <1>2 DEF R!TaskStates
<1>4. new.broken = task[r].broken /\ new.job = task[r].job
  BY <1>1, <1>2 DEF R!TaskStates
<1>5. task' = [task EXCEPT ![r] = new]
  BY <1>1, <1>2, Zenon DEF R!WriteFile
<1>6. Moves(r, new)
  BY <1>2, <1>3, <1>5 DEF Moves, RenderRight
<1>7. PICK row : row = FileRow(r)
  OBVIOUS
<1>8. /\ row \in R!Objects /\ row.file \in R!Files /\ row.id \in R!Contents
      /\ row.id \in R!Artifacts(r) /\ Belongs(row.id, row.file)
      /\ row.id = R!Content(r) /\ row.file = R!FileName(r)
  BY <1>2, <1>7, InHandBelongs
<1>9. files' = [files EXCEPT ![row.file] = row.id]
  BY <1>8 DEF R!WriteFile
<1>10. files' \in [R!Files -> R!Contents \cup {"none"}]
  BY <1>2, <1>8, <1>9
<1>11. \A x \in R!Objects : Whole(x) => Whole(x)'
  <2>. SUFFICES ASSUME NEW x \in R!Objects, Whole(x) PROVE Whole(x)'
    OBVIOUS
  <2>1. x.file \in R!Files /\ Belongs(x.id, x.file) /\ files[x.file] = x.id
    BY DEF Whole, R!Objects
  <2>2. x.file = row.file => x.id = row.id
    BY <1>8, <2>1, BelongsOnce
  <2>3. files'[x.file] = x.id
    BY <1>2, <1>8, <1>9, <2>1, <2>2
  <2>4. Belongs(x.id, x.file)'
    BY <2>1 DEF Belongs
  <2>. QED
    BY <2>3, <2>4 DEF Whole
<1>12. Whole(row)'
  <2>1. files'[row.file] = row.id
    BY <1>2, <1>8, <1>9
  <2>2. Belongs(row.id, row.file)'
    BY <1>8 DEF Belongs
  <2>. QED
    BY <2>1, <2>2 DEF Whole
<1>13. InHand(r, new)' = {row}
  <2>1. task'[r] = new
    BY <1>6, MovesFrame
  <2>2. FileRow(r)' = FileRow(r)
    BY <1>3, <2>1 DEF FileRow, R!Content, R!FileName, R!Kind, R!Midi
  <2>. QED
    BY <1>3, <1>7, <2>2 DEF InHand
<1>14. \A x \in new.sent \cup new.added \cup {row} : Whole(x)' /\ x.id \in R!Artifacts(r)'
  <2>1. new.sent \cup new.added \subseteq R!Objects
    BY <1>3 DEF R!TaskStates
  <2>2. \A x \in new.sent \cup new.added : Whole(x) /\ x.id \in R!Artifacts(r)
    BY <1>2, <1>3 DEF RenderRight
  <2>. QED
    BY <1>6, <1>8, <1>11, <1>12, <2>1, <2>2, MovesFrame
<1>15. objects' = objects /\ jobs' = jobs
  BY DEF R!WriteFile
<1>16. RenderRight(r, new)'
  <2>1. new.before \subseteq R!Ended' \ {r}
    BY <1>6, MovesFrame
  <2>2. /\ new.broken => Collided(r)'
        /\ \A x \in new.added : x.id \in R!Ids(objects') => Collided(r)'
    BY <1>2, <1>3, <1>4, <1>6, <1>15, MovesFrame DEF RenderRight
  <2>3. ~new.broken => new.ids \subseteq R!Ids(new.sent \cup new.added) \cup R!Ids(objects') \cup Uploaded
    BY <1>2, <1>3, <1>4, <1>15 DEF RenderRight
  <2>4. new.payload \in Payloads[new.commit] /\ new.at >= 1 /\ new.at <= 2 * Len(new.payload)
    BY <1>2, <1>3 DEF RenderRight, R!Last
  <2>5. \A x \in new.sent \cup new.added \cup InHand(r, new)' : Whole(x)' /\ x.id \in R!Artifacts(r)'
    BY <1>13, <1>14
  <2>. QED
    BY <1>3, <2>1, <2>2, <2>3, <2>4, <2>5 DEF RenderRight, Working, R!Ids
<1>17. objects' = objects \cup {} /\ jobs \subseteq jobs' /\ jobs' \ jobs = {}
  BY <1>15
<1>. QED
  BY <1>6, <1>10, <1>11, <1>16, <1>17, MovesKeep

LEMMA ArtifactSkips ==
    ASSUME RenderInv, NEW r \in Tasks, R!Skip(r)
    PROVE  RenderInv'
<1>1. PICK next : next = task[r].at + 1
  OBVIOUS
<1>2. PICK new : new = [task[r] EXCEPT !.at = next]
  OBVIOUS
<1>3. /\ task[r] \in R!TaskStates /\ task[r].pc = "write" /\ task \in [Tasks -> R!TaskStates]
      /\ RenderRight(r, task[r]) /\ next \in Nat /\ next >= 1
  BY <1>1 DEF RenderInv, R!TypeOK, R!Skip, R!TaskStates
<1>4. /\ new \in R!TaskStates /\ new.pc = "write" /\ new.payload = task[r].payload
      /\ new.commit = task[r].commit /\ new.before = task[r].before /\ new.at = next
      /\ new.sent = task[r].sent /\ new.added = task[r].added /\ new.ids = task[r].ids
  BY <1>2, <1>3 DEF R!TaskStates
<1>5. new.broken = task[r].broken
  BY <1>2, <1>3 DEF R!TaskStates
<1>6. task' = [task EXCEPT ![r] = new]
  BY <1>1, <1>2, <1>3, Zenon DEF R!Skip
<1>7. Moves(r, new)
  BY <1>3, <1>4, <1>6 DEF Moves, RenderRight
<1>8. /\ \A row \in new.sent \cup new.added : Whole(row) /\ row.id \in R!Artifacts(r)
      /\ new.broken => Collided(r)
      /\ \A row \in new.added : row.id \in R!Ids(objects) => Collided(r)
      /\ ~new.broken => new.ids \subseteq R!Ids(new.sent \cup new.added) \cup R!Ids(objects) \cup Uploaded
  BY <1>3, <1>4, <1>5 DEF RenderRight
<1>. QED
  BY <1>3, <1>4, <1>7, <1>8, QuietWork DEF R!Skip

(***************************************************************************)
(* What a task runs into is of a task that it met.                         *)
(***************************************************************************)
LEMMA DuplicateCollides ==
    ASSUME RenderInv, NEW r \in Tasks, R!Duplicate(r)
    PROVE  Collided(r)
<1>1. PICK row \in task[r].added : row.id \in R!Ids(objects)
  BY DEF R!Duplicate, R!Ids
<1>. QED
  BY <1>1 DEF RenderInv, RenderRight

LEMMA WaitCollides ==
    ASSUME RenderInv, NEW r \in Tasks, Working(task[r]), NEW u \in Tasks, R!Waits(r, u)
    PROVE  Collided(r)
<1>1. u # r /\ R!Ids(task[u].sent) \cap R!Ids(task[r].added) # {}
  BY DEF R!Waits, R!RowHolder, Working
<1>2. PICK a \in task[u].sent, b \in task[r].added : a.id = b.id
  BY <1>1 DEF R!Ids
<1>3. RenderRight(u, task[u]) /\ RenderRight(r, task[r])
  BY DEF RenderInv
<1>4. a.id \in R!Artifacts(u) /\ a.id \in R!Artifacts(r) /\ Working(task[u])
  BY <1>2, <1>3 DEF RenderRight
<1>5. u \notin R!Ended /\ r \notin R!Ended /\ task[u].pc # "idle" /\ task[r].pc # "idle"
  BY <1>4 DEF Working, R!Ended
<1>6. Met(r, u)
  BY <1>1, <1>3, <1>5 DEF Met, RenderRight
<1>. QED
  BY <1>4, <1>6 DEF Collided

LEMMA RefusalCollides ==
    ASSUME RenderInv, NEW r \in Tasks, Working(task[r]), R!Duplicate(r) \/ R!Deadlocked(r)
    PROVE  Collided(r)
<1>1. CASE R!Duplicate(r)
  BY <1>1, DuplicateCollides
<1>2. CASE R!Deadlocked(r)
  <2>1. PICK u \in Tasks : R!Waits(r, u)
    BY <1>2 DEF R!Deadlocked
  <2>. QED
    BY <2>1, WaitCollides
<1>. QED
  BY <1>1, <1>2

LEMMA TaskLooks ==
    ASSUME RenderInv, NEW r \in Tasks, R!Look(r)
    PROVE  RenderInv'
<1>1. /\ task[r] \in R!TaskStates /\ task[r].pc = "look" /\ ~task[r].broken
      /\ RenderRight(r, task[r]) /\ task \in [Tasks -> R!TaskStates] /\ ~R!Duplicate(r)
  BY DEF RenderInv, R!TypeOK, R!Look
<1>2. PICK row : row = FileRow(r)
  OBVIOUS
<1>3. /\ row \in R!Objects /\ row.id \in R!Contents /\ row.id = R!Content(r)
      /\ row = [id |-> R!Content(r), file |-> R!FileName(r)]
      /\ Whole(row) /\ row.id \in R!Artifacts(r)
  <2>1. task[r].at <= R!Last(r)
    BY <1>1 DEF RenderRight, R!Last
  <2>2. row \in InHand(r, task[r])
    BY <1>1, <1>2 DEF InHand
  <2>3. Whole(row) /\ row.id \in R!Artifacts(r)
    BY <1>1, <2>2 DEF RenderRight
  <2>. QED
    BY <1>2, <2>1, <2>3, InHandBelongs DEF FileRow
<1>4. PICK sent : sent = task[r].sent \cup task[r].added
  OBVIOUS
<1>5. PICK known : known = R!Ids(sent) \cup R!Ids(objects) \cup Uploaded
  OBVIOUS
<1>6. PICK added : added = IF row.id \in known THEN {} ELSE {row}
  OBVIOUS
<1>7. PICK ids : ids = task[r].ids \cup {row.id}
  OBVIOUS
<1>8. PICK next : next = task[r].at + 1
  OBVIOUS
<1>9. PICK new : new = [task[r] EXCEPT !.pc = "write", !.at = next, !.sent = sent, !.added = added, !.ids = ids]
  OBVIOUS
<1>10. sent \subseteq R!Objects /\ added \subseteq R!Objects /\ ids \subseteq R!Contents /\ next \in Nat
  BY <1>1, <1>3, <1>4, <1>6, <1>7, <1>8 DEF R!TaskStates
<1>11. /\ new \in R!TaskStates /\ new.pc = "write" /\ new.payload = task[r].payload
       /\ new.commit = task[r].commit /\ new.before = task[r].before /\ new.at = next
       /\ new.sent = sent /\ new.added = added /\ new.ids = ids
  BY <1>1, <1>9, <1>10 DEF R!TaskStates
<1>12. new.broken = task[r].broken
  BY <1>1, <1>9 DEF R!TaskStates
<1>13. task' = [task EXCEPT ![r] = new]
  <2>1. task' = [task EXCEPT ![r] = [task[r] EXCEPT !.pc = "write", !.at = task[r].at + 1, !.sent = sent,
                    !.added = IF R!Content(r) \in known THEN {}
                              ELSE {[id |-> R!Content(r), file |-> R!FileName(r)]},
                    !.ids = task[r].ids \cup {R!Content(r)}]]
    BY <1>1, <1>4, <1>5 DEF R!Look
  <2>. QED
    BY <1>3, <1>6, <1>7, <1>8, <1>9, <2>1
<1>14. Moves(r, new)
  BY <1>1, <1>11, <1>13 DEF Moves, RenderRight
<1>15. \A x \in sent \cup added : Whole(x) /\ x.id \in R!Artifacts(r)
  <2>1. \A x \in sent : Whole(x) /\ x.id \in R!Artifacts(r)
    BY <1>1, <1>4 DEF RenderRight
  <2>. QED
    BY <1>3, <1>6, <2>1
<1>16. \A x \in added : x.id \notin R!Ids(objects)
  BY <1>5, <1>6
<1>17. ids \subseteq R!Ids(sent \cup added) \cup R!Ids(objects) \cup Uploaded
  <2>1. task[r].ids \subseteq R!Ids(sent) \cup R!Ids(objects) \cup Uploaded
    BY <1>1, <1>4 DEF RenderRight
  <2>2. R!Ids(sent) \subseteq R!Ids(sent \cup added) /\ (row \in added => row.id \in R!Ids(sent \cup added))
    BY DEF R!Ids
  <2>. QED
    BY <1>5, <1>6, <1>7, <2>1, <2>2
<1>18. next >= 1
  BY <1>1, <1>8 DEF R!TaskStates
<1>. QED
  BY <1>1, <1>11, <1>12, <1>14, <1>15, <1>16, <1>17, <1>18, QuietWork DEF R!Look

LEMMA LookIsRefused ==
    ASSUME RenderInv, NEW r \in Tasks, R!LookRefused(r)
    PROVE  RenderInv'
<1>1. PICK yes \in BOOLEAN, no \in BOOLEAN : yes = TRUE /\ no = FALSE
  OBVIOUS
<1>2. PICK next : next = task[r].at + 1
  OBVIOUS
<1>3. PICK new : new = [task[r] EXCEPT !.pc = "write", !.at = next, !.job = no, !.sent = {},
                                       !.added = {}, !.broken = yes]
  OBVIOUS
<1>4. /\ task[r] \in R!TaskStates /\ task[r].pc = "look" /\ task \in [Tasks -> R!TaskStates]
      /\ RenderRight(r, task[r]) /\ next \in Nat /\ next >= 1
  BY <1>2 DEF RenderInv, R!TypeOK, R!LookRefused, R!TaskStates
<1>5. /\ new \in R!TaskStates /\ new.pc = "write" /\ new.payload = task[r].payload
      /\ new.commit = task[r].commit /\ new.before = task[r].before /\ new.at = next
      /\ new.sent = {} /\ new.added = {}
  BY <1>3, <1>4 DEF R!TaskStates
<1>6. new.broken
  BY <1>1, <1>3, <1>4 DEF R!TaskStates
<1>7. task' = [task EXCEPT ![r] = new]
  BY <1>1, <1>2, <1>3, <1>4, Zenon DEF R!LookRefused
<1>8. Moves(r, new)
  BY <1>4, <1>5, <1>7 DEF Moves, RenderRight
<1>9. Collided(r)
  BY <1>4, RefusalCollides DEF R!LookRefused, Working
<1>. QED
  BY <1>4, <1>5, <1>6, <1>8, <1>9, QuietWork DEF R!LookRefused

LEMMA LookBreaks ==
    ASSUME RenderInv, NEW r \in Tasks, R!LookBroken(r)
    PROVE  RenderInv'
<1>1. PICK next : next = task[r].at + 1
  OBVIOUS
<1>2. PICK new : new = [task[r] EXCEPT !.pc = "write", !.at = next]
  OBVIOUS
<1>3. /\ task[r] \in R!TaskStates /\ task[r].pc = "look" /\ task \in [Tasks -> R!TaskStates]
      /\ RenderRight(r, task[r]) /\ next \in Nat /\ next >= 1
  BY <1>1 DEF RenderInv, R!TypeOK, R!LookBroken, R!TaskStates
<1>4. /\ new \in R!TaskStates /\ new.pc = "write" /\ new.payload = task[r].payload
      /\ new.commit = task[r].commit /\ new.before = task[r].before /\ new.at = next
      /\ new.sent = task[r].sent /\ new.added = task[r].added /\ new.ids = task[r].ids
  BY <1>2, <1>3 DEF R!TaskStates
<1>5. new.broken = task[r].broken
  BY <1>2, <1>3 DEF R!TaskStates
<1>6. task' = [task EXCEPT ![r] = new]
  BY <1>1, <1>2, <1>3, Zenon DEF R!LookBroken
<1>7. Moves(r, new)
  BY <1>3, <1>4, <1>6 DEF Moves, RenderRight
<1>8. /\ \A row \in new.sent \cup new.added : Whole(row) /\ row.id \in R!Artifacts(r)
      /\ new.broken => Collided(r)
      /\ \A row \in new.added : row.id \in R!Ids(objects) => Collided(r)
      /\ ~new.broken => new.ids \subseteq R!Ids(new.sent \cup new.added) \cup R!Ids(objects) \cup Uploaded
  BY <1>3, <1>4, <1>5 DEF RenderRight
<1>. QED
  BY <1>3, <1>4, <1>7, <1>8, QuietWork DEF R!LookBroken

LEMMA TaskCommits ==
    ASSUME RenderInv, NEW r \in Tasks, R!Commit(r)
    PROVE  RenderInv'
<1>1. PICK no \in BOOLEAN : ~no /\ no = FALSE
  OBVIOUS
<1>2. PICK new : new = [task[r] EXCEPT !.pc = "done", !.job = no, !.sent = {}, !.added = {}]
  OBVIOUS
<1>3. /\ task[r] \in R!TaskStates /\ task[r].pc = "write" /\ task \in [Tasks -> R!TaskStates]
      /\ RenderRight(r, task[r]) /\ ~task[r].broken
      /\ files \in [R!Files -> R!Contents \cup {"none"}]
  BY DEF RenderInv, R!TypeOK, R!Commit, R!Finishing
<1>4. /\ new \in R!TaskStates /\ new.pc = "done" /\ new.payload = task[r].payload
      /\ new.commit = task[r].commit /\ new.before = task[r].before /\ new.at = task[r].at
      /\ new.sent = {} /\ new.added = {} /\ new.ids = task[r].ids
  BY <1>2, <1>3 DEF R!TaskStates
<1>5. new.broken = task[r].broken /\ ~new.job
  BY <1>1, <1>2, <1>3 DEF R!TaskStates
<1>6. task' = [task EXCEPT ![r] = new]
  BY <1>1, <1>2, <1>3, Zenon DEF R!Commit
<1>7. Moves(r, new)
  BY <1>3, <1>4, <1>6 DEF Moves, RenderRight
<1>8. PICK made : made = task[r].sent \cup task[r].added
  OBVIOUS
<1>9. objects' = objects \cup made /\ files' = files
  BY <1>8 DEF R!Commit
<1>10. new.ids \subseteq R!Ids(objects') \cup Uploaded
  <2>1. R!Ids(made) \subseteq R!Ids(objects') /\ R!Ids(objects) \subseteq R!Ids(objects')
    BY <1>9 DEF R!Ids
  <2>. QED
    BY <1>3, <1>4, <1>8, <2>1 DEF RenderRight
<1>11. PICK job : job = [commit |-> task[r].commit, ids |-> task[r].ids]
  OBVIOUS
<1>12. job \in R!Jobs /\ job.commit = task[r].commit /\ job.ids = new.ids
  BY <1>3, <1>4, <1>11 DEF R!Jobs, R!TaskStates
<1>13. jobs' = jobs \cup {job}
  BY <1>11 DEF R!Commit
<1>14. \A row \in R!Objects : Whole(row) => Whole(row)'
  BY <1>9 DEF Whole, Belongs
<1>15. RenderRight(r, new)'
  <2>1. new.before \subseteq R!Ended' \ {r}
    BY <1>7, MovesFrame
  <2>2. new.payload \in Payloads[new.commit] /\ new.at >= 1
    BY <1>3, <1>4 DEF RenderRight
  <2>3. InHand(r, new)' = {} /\ ~Working(new)
    BY <1>4 DEF InHand, Working
  <2>. QED
    BY <1>3, <1>4, <1>5, <1>10, <2>1, <2>2, <2>3 DEF RenderRight, Working, R!Ids
<1>16. /\ jobs \subseteq jobs'
       /\ \A j \in jobs' \ jobs : j \in R!Jobs /\ j.commit = task[r].commit
                                   /\ j.ids \subseteq R!Ids(objects') \cup Uploaded
  BY <1>10, <1>12, <1>13
<1>17. files' \in [R!Files -> R!Contents \cup {"none"}]
  BY <1>3, <1>9
<1>. QED
  BY <1>7, <1>8, <1>9, <1>14, <1>15, <1>16, <1>17, MovesKeep

LEMMA CommitIsRefused ==
    ASSUME RenderInv, NEW r \in Tasks, R!CommitRefused(r)
    PROVE  RenderInv'
<1>1. task[r].pc = "write" /\ Working(task[r]) /\ RenderRight(r, task[r])
  BY DEF RenderInv, R!CommitRefused, R!Finishing, Working
<1>2. Collided(r)
  BY <1>1, RefusalCollides DEF R!CommitRefused, RenderRight
<1>. QED
  BY <1>1, <1>2, TaskEnds DEF R!CommitRefused

LEMMA RendersNext ==
    ASSUME StemsDiffer, RenderInv, BothNext \/ UNCHANGED <<part, vars, renderVars>>
    PROVE  RenderInv'
<1>1. CASE R!Next
  <2>1. PICK r \in Tasks : R!Begin(r) \/ R!Work(r) \/ R!Skip(r) \/ R!Die(r)
    BY <1>1 DEF R!Next
  <2>2. CASE R!Work(r)
    BY <2>2, TaskGates, JobInserts, JobIsRefused, FileWrites, TaskLooks, LookIsRefused, LookBreaks,
       TaskCommits, CommitIsRefused DEF R!Work
  <2>. QED
    BY <2>1, <2>2, TaskBegins, ArtifactSkips, TaskDies
<1>2. CASE UNCHANGED renderVars
  <2>1. objects' = objects /\ jobs' = jobs /\ files' = files /\ task' = task
    BY <1>2 DEF renderVars
  <2>2. ASSUME NEW t \in Tasks PROVE RenderRight(t, task[t])'
    <3>1. PICK q : q = task[t]
      OBVIOUS
    <3>2. q = task'[t] /\ RenderRight(t, q)
      BY <2>1, <3>1 DEF RenderInv
    <3>3. FileRow(t)' = FileRow(t) /\ R!Artifacts(t)' = R!Artifacts(t) /\ R!Ended' = R!Ended
      BY <2>1 DEF FileRow, R!Content, R!FileName, R!Kind, R!Midi, R!Artifacts, R!Ended
    <3>4. Collided(t)' <=> Collided(t)
      BY <2>1 DEF Collided, Met, R!Artifacts
    <3>5. \A row : Whole(row)' <=> Whole(row)
      BY <2>1 DEF Whole, Belongs
    <3>6. RenderRight(t, q)'
      BY <2>1, <3>2, <3>3, <3>4, <3>5 DEF RenderRight, Working, InHand, R!Ids
    <3>. QED
      BY <3>2, <3>6, RenderNamed
  <2>3. R!TypeOK' /\ (\A row \in objects : Whole(row))' /\ R!JobsHaveObjects'
    BY <2>1 DEF RenderInv, R!TypeOK, Whole, Belongs, R!JobsHaveObjects, R!Ids
  <2>. QED
    BY <2>2, <2>3 DEF RenderInv
<1>. QED
  BY <1>1, <1>2 DEF BothNext

(***************************************************************************)
(* What a job lists can be read, rows name the bytes they are the hash of, *)
(* and only renders that run at the same time are lost, for any commits,   *)
(* objects and tasks, wherever inserts are refused, tasks wait in cycles   *)
(* or die (musehub_render_pipeline.py:223, :262, :310), as long as no two  *)
(* objects of one commit have one stem.                                    *)
(***************************************************************************)
THEOREM RendersAlwaysHold ==
    ASSUME StemsDiffer
    PROVE  BothSpec => []RendersHold
<1>1. BothInit => RenderInv
  BY RendersInit DEF BothInit
<1>2. RenderInv /\ [BothNext]_<<part, vars, renderVars>> => RenderInv'
  BY RendersNext
<1>3. RenderInv => RendersHold
  <2>. SUFFICES ASSUME RenderInv PROVE RendersHold
    OBVIOUS
  <2>1. R!JobsHaveObjects /\ R!RowNamesItsBytes
    BY DEF RenderInv, R!RowNamesItsBytes, Whole
  <2>2. \A t \in Tasks : task[t].pc = "lost" => Collided(t)
    BY DEF RenderInv, RenderRight
  <2>3. R!LostByCollision
    <3>. SUFFICES ASSUME NEW t \in Tasks, task[t].pc = "lost"
                  PROVE  \E u \in Tasks \ {t} :
                             /\ task[u].pc # "idle"
                             /\ u \notin task[t].before
                             /\ t \notin task[u].before
                             /\ \/ task[u].commit = task[t].commit
                                \/ R!Artifacts(u) \cap R!Artifacts(t) # {}
      BY DEF R!LostByCollision
    <3>1. PICK u \in Tasks : /\ Met(t, u)
                             /\ \/ task[u].commit = task[t].commit
                                \/ R!Artifacts(u) \cap R!Artifacts(t) # {}
      BY <2>2 DEF Collided
    <3>. QED
      BY <3>1 DEF Met
  <2>. QED
    BY <2>1, <2>3 DEF RendersHold, R!RendersHold
<1>. QED
  BY <1>1, <1>2, <1>3, PTL DEF BothSpec
=============================================================================
