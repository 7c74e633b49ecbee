--------------------------- MODULE RevocationCache ---------------------------
(***************************************************************************)
(* Who may use a token: the AccessToken rows, the cache each worker keeps  *)
(* of them, and the requests that look there.  require_valid_token and     *)
(* optional_token do the same with a token that is present and signed.     *)
(*                                                                         *)
(* A request asks the cache, then the database (an await), registers a     *)
(* token the database does not know (another await), and fills the cache   *)
(* with the answer it got.  Revocations and clock ticks fall anywhere in   *)
(* between.  The row is revoked by an operator: no code of the server does *)
(* it.                                                                     *)
(***************************************************************************)
EXTENDS Naturals

CONSTANTS Workers, Requests, Tokens,
          TTL,        \* token_revocation_cache_ttl_seconds
          Delay,      \* the longest time from the answer of the database to the fill
          MaxTime     \* bound: the clock stops here

ASSUME CacheConstantsOK ==
    /\ TTL \in Nat
    /\ Delay \in Nat
    /\ MaxTime \in Nat

VARIABLES now,        \* time.monotonic, in ticks
          rows,       \* the AccessToken rows
          revokedAt,  \* history: when a row was revoked
          cache,      \* _cache of each worker
          req         \* the requests

vars == <<now, rows, revokedAt, cache, req>>

NoEntry == [known |-> FALSE, revoked |-> FALSE, expires |-> 0]

Entries == [known : BOOLEAN, revoked : BOOLEAN, expires : Nat]

\* Where a request is.  The last three are answers to the client: the handler
\* runs, 401 "revoked", 503.
Phases == {"idle", "asking", "registering", "filling", "accepted", "refused", "unavailable"}

\* at: when the database answered, later when the request was answered.
RequestStates ==
    [pc : Phases, worker : Workers, token : Tokens, revoked : BOOLEAN, at : Nat]

TypeOK ==
    /\ now \in Nat
    /\ rows \in [Tokens -> {"absent", "valid", "revoked"}]
    /\ revokedAt \in [Tokens -> Nat]
    /\ cache \in [Workers -> [Tokens -> Entries]]
    /\ req \in [Requests -> RequestStates]

Init ==
    /\ now = 0
    /\ rows \in [Tokens -> {"absent", "valid"}]
    /\ revokedAt = [t \in Tokens |-> 0]
    /\ cache = [w \in Workers |-> [t \in Tokens |-> NoEntry]]
    /\ req \in [Requests -> [pc : {"idle"}, worker : Workers, token : Tokens,
                             revoked : {FALSE}, at : {0}]]

-----------------------------------------------------------------------------
(* get_revocation_status and set_revocation_status. *)

\* Mutant: an entry never expires.
FreshAlways(entry) == entry.known

Fresh(entry) == entry.known /\ now <= entry.expires

EntryOf(revoked) == [known |-> TRUE, revoked |-> revoked, expires |-> now + TTL]

Verdict(revoked) == IF revoked THEN "refused" ELSE "accepted"

-----------------------------------------------------------------------------
(* A request. *)

\* The cache answers: an entry that is fresh decides.
Hit(r, w, t) ==
    /\ req[r].pc = "idle"
    /\ Fresh(cache[w][t])
    /\ req' = [req EXCEPT ![r] = [pc |-> Verdict(cache[w][t].revoked), worker |-> w, token |-> t,
                                  revoked |-> cache[w][t].revoked, at |-> now]]
    /\ UNCHANGED <<now, rows, revokedAt, cache>>

\* No entry, or one that has expired and is removed.
Miss(r, w, t) ==
    /\ req[r].pc = "idle"
    /\ ~Fresh(cache[w][t])
    /\ req' = [req EXCEPT ![r] = [pc |-> "asking", worker |-> w, token |-> t,
                                  revoked |-> FALSE, at |-> now]]
    /\ cache' = [cache EXCEPT ![w][t] = NoEntry]
    /\ UNCHANGED <<now, rows, revokedAt>>

\* The SELECT of _check_and_register_token.
Ask(r) ==
    LET t == req[r].token
    IN  /\ req[r].pc = "asking"
        /\ req' = [req EXCEPT ![r].pc = IF rows[t] = "absent" THEN "registering" ELSE "filling",
                              ![r].revoked = (rows[t] = "revoked"),
                              ![r].at = now]
        /\ UNCHANGED <<now, rows, revokedAt, cache>>

\* The database cannot be reached: the request is rejected and nothing cached.
Unreachable(r) ==
    /\ req[r].pc = "asking"
    /\ req' = [req EXCEPT ![r].pc = "unavailable", ![r].at = now]
    /\ UNCHANGED <<now, rows, revokedAt, cache>>

\* Mutant: the insert overwrites the row another request registered.
RegisterUpsert(r) ==
    /\ req[r].pc = "registering"
    /\ rows' = [rows EXCEPT ![req[r].token] = "valid"]
    /\ req' = [req EXCEPT ![r].pc = "filling"]
    /\ UNCHANGED <<now, revokedAt, cache>>

\* The INSERT of an unknown token.  It fails when another request registered
\* the token meanwhile, and may fail otherwise (no such user, no user in the
\* token); the failure is swallowed and the answer stays "not revoked".
Register(r) ==
    LET t == req[r].token
    IN  /\ req[r].pc = "registering"
        /\ \/ rows[t] = "absent" /\ rows' = [rows EXCEPT ![t] = "valid"]
           \/ UNCHANGED rows
        /\ req' = [req EXCEPT ![r].pc = "filling"]
        /\ UNCHANGED <<now, revokedAt, cache>>

\* The answer is cached, whatever happened to the row meanwhile.
Fill(r) ==
    /\ req[r].pc = "filling"
    /\ cache' = [cache EXCEPT ![req[r].worker][req[r].token] = EntryOf(req[r].revoked)]
    /\ req' = [req EXCEPT ![r].pc = Verdict(req[r].revoked), ![r].at = now]
    /\ UNCHANGED <<now, rows, revokedAt>>

\* The client has its answer and may ask again.
Leave(r) ==
    /\ req[r].pc \in {"accepted", "refused", "unavailable"}
    /\ req' = [req EXCEPT ![r].pc = "idle"]
    /\ UNCHANGED <<now, rows, revokedAt, cache>>

-----------------------------------------------------------------------------
(* The surroundings. *)

Revoke(t) ==
    /\ rows[t] = "valid"
    /\ rows' = [rows EXCEPT ![t] = "revoked"]
    /\ revokedAt' = [revokedAt EXCEPT ![t] = now]
    /\ UNCHANGED <<now, cache, req>>

\* clear_revocation_cache, in one worker.
Clear(w) ==
    /\ cache' = [cache EXCEPT ![w] = [t \in Tokens |-> NoEntry]]
    /\ UNCHANGED <<now, rows, revokedAt, req>>

\* A worker dies with its cache and its requests, and a new one takes its place.
Restart(w) ==
    /\ cache' = [cache EXCEPT ![w] = [t \in Tokens |-> NoEntry]]
    /\ req' = [r \in Requests |-> IF req[r].worker = w THEN [req[r] EXCEPT !.pc = "idle"] ELSE req[r]]
    /\ UNCHANGED <<now, rows, revokedAt>>

\* No answer of the database waits longer than Delay for its fill.
Tick ==
    /\ now < MaxTime
    /\ \A r \in Requests : req[r].pc \in {"registering", "filling"} => now < req[r].at + Delay
    /\ now' = now + 1
    /\ UNCHANGED <<rows, revokedAt, cache, req>>

-----------------------------------------------------------------------------
Look(r) == \E w \in Workers, t \in Tokens : Hit(r, w, t) \/ Miss(r, w, t)

Work(r) == Ask(r) \/ Unreachable(r) \/ Register(r) \/ Fill(r)

Next ==
    \/ \E r \in Requests : Look(r) \/ Work(r) \/ Leave(r)
    \/ \E t \in Tokens : Revoke(t)
    \/ \E w \in Workers : Clear(w) \/ Restart(w)
    \/ Tick

Spec == Init /\ [][Next]_vars

\* The event loop resumes a request whose database call has ended.
FairSpec == Spec /\ \A r \in Requests : WF_vars(Work(r))

-----------------------------------------------------------------------------
(***************************************************************************)
(* A revoked token is refused in time: no request is accepted later than   *)
(* the TTL, and the delay of one fill, after the revocation.  The cache    *)
(* entry that lets it in may have been filled after the revocation and     *)
(* after a clear, by a request the database answered before                *)
(* (dependencies.py:142); clearing does not shorten the bound.             *)
(***************************************************************************)
RevokedRefusedInTime ==
    \A r \in Requests :
        LET t == req[r].token
        IN  req[r].pc = "accepted" /\ rows[t] = "revoked" => req[r].at <= revokedAt[t] + Delay + TTL

(***************************************************************************)
(* Nobody is locked out: a request is refused as revoked, from the cache   *)
(* or the database, only when the row is revoked, and registering a token  *)
(* that another request registered does not bring it back.                 *)
(***************************************************************************)
RefusedWasRevoked ==
    \A r \in Requests : req[r].pc = "refused" => rows[req[r].token] = "revoked"

(***************************************************************************)
(* What makes these inductive.  A database answer that waits for its fill  *)
(* is at most Delay old, and one that says "not revoked" is older than the *)
(* revocation; so a cache entry that says so is gone Delay + TTL after it. *)
(* Nothing is dated in the future.                                         *)
(***************************************************************************)
AnswersAreRecent ==
    \A r \in Requests :
        req[r].pc \in {"registering", "filling"} =>
            LET t == req[r].token
            IN  /\ now <= req[r].at + Delay
                /\ req[r].revoked => rows[t] = "revoked"
                /\ ~req[r].revoked /\ rows[t] = "revoked" => req[r].at <= revokedAt[t]

EntriesAreRecent ==
    \A w \in Workers, t \in Tokens :
        cache[w][t].known =>
            /\ cache[w][t].revoked => rows[t] = "revoked"
            /\ ~cache[w][t].revoked /\ rows[t] = "revoked" =>
                  cache[w][t].expires <= revokedAt[t] + Delay + TTL

NoDateAhead ==
    /\ \A r \in Requests : req[r].at <= now
    /\ \A w \in Workers, t \in Tokens : cache[w][t].known => cache[w][t].expires <= now + TTL

(***************************************************************************)
(* A request that asks the database is answered, by a verdict or a 503.    *)
(* (dependencies.py:27: every failure inside ends in one of these.)        *)
(***************************************************************************)
RequestsAnswered ==
    \A r \in Requests :
        req[r].pc = "asking" ~> req[r].pc \in {"accepted", "refused", "unavailable", "idle"}
=============================================================================
