------------------------- MODULE ObjectStore_proofs -------------------------
(***************************************************************************)
(* Theorems about the object store, for any number of sessions,            *)
(* repositories and objects: a committed row has a file, and within one    *)
(* repository an accepted push leaves its objects held.                    *)
(***************************************************************************)
EXTENDS ObjectStore, TLAPS

InHand(s) == pc[s] \in {"put", "open", "write"}

\* What the steps of a session rely on: a working session has a request, and
\* an object in hand where it is about to use one; a session at rest has no rows.
SessionsReady ==
    \A s \in Sessions :
        /\ Working(s) => req[s].kind \in Kinds
        /\ ~Working(s) => work[s].fresh = {}
        /\ InHand(s) => work[s].current \in Objects

\* The rows a session is going to commit have their files already.
FreshHasFile ==
    \A s \in Sessions : \A o \in work[s].fresh :
        files[req[s].repo][o][NameFor(req[s].kind)] # "absent"

IInv == TypeOK /\ SessionsReady /\ FreshHasFile /\ RowHasFile

\* The store serves one repository.
OneRepo == \A q, r \in Repos : q = r

-----------------------------------------------------------------------------
(* Types *)

\* Init makes the type invariant and its companions true.
LEMMA InitInvariant == Init => IInv
  <1> SUFFICES ASSUME Init PROVE IInv
    OBVIOUS
  <1>1. NoRequest.repo \in Repos /\ NoRequest \in [kind : {"none", "wire", "ingest"}, repo : Repos, objects : SUBSET Objects]
    BY ObjectConstantsOK DEF NoRequest
  <1>2. NoWork \in [todo : SUBSET Objects, current : Objects \cup {NoObject}, fresh : SUBSET Objects]
    BY DEF NoWork
  <1>3. TypeOK
    BY <1>1, <1>2 DEF Init, TypeOK
  <1>4. SessionsReady
    BY DEF Init, SessionsReady, Working, InHand, NoWork
  <1>5. FreshHasFile /\ RowHasFile
    BY DEF Init, FreshHasFile, RowHasFile, NoWork, Registered
  <1> QED
    BY <1>3, <1>4, <1>5 DEF IInv

\* A session that ends leaves types alone.
LEMMA FinishTyped ==
  ASSUME TypeOK, NEW s \in Sessions, NEW a \in {"none", "ok", "refused", "failed"}, Finish(s, a)
  PROVE  /\ pc' \in [Sessions -> {"idle", "begun", "loop", "put", "open", "write"}]
         /\ req' \in [Sessions -> [kind : {"none", "wire", "ingest"}, repo : Repos, objects : SUBSET Objects]]
         /\ work' \in [Sessions -> [todo : SUBSET Objects, current : Objects \cup {NoObject}, fresh : SUBSET Objects]]
         /\ reply' \in [Sessions -> {"none", "ok", "refused", "failed"}]
         /\ pc'[s] = "idle" /\ work'[s].fresh = {} /\ reply'[s] = a
         /\ \A t \in Sessions \ {s} :
               pc'[t] = pc[t] /\ req'[t] = req[t] /\ work'[t] = work[t] /\ reply'[t] = reply[t]
  <1>1. NoRequest \in [kind : {"none", "wire", "ingest"}, repo : Repos, objects : SUBSET Objects]
    BY ObjectConstantsOK DEF NoRequest
  <1>2. NoWork \in [todo : SUBSET Objects, current : Objects \cup {NoObject}, fresh : SUBSET Objects] /\ NoWork.fresh = {}
    BY DEF NoWork
  <1> QED
    BY <1>1, <1>2 DEF TypeOK, Finish

-----------------------------------------------------------------------------
(* One lemma per step: it preserves the invariant. *)

\* A transaction that is given up takes nothing with it but its own work.
LEMMA RollbackKeeps ==
  ASSUME IInv, NEW s \in Sessions, NEW a \in {"refused", "failed"}, Rollback(s, a)
  PROVE  IInv'
  <1>1. Finish(s, a) /\ rows' = rows /\ files' = files /\ TypeOK
    BY DEF Rollback, IInv
  <1>2. /\ pc' \in [Sessions -> {"idle", "begun", "loop", "put", "open", "write"}]
        /\ req' \in [Sessions -> [kind : {"none", "wire", "ingest"}, repo : Repos, objects : SUBSET Objects]]
        /\ work' \in [Sessions -> [todo : SUBSET Objects, current : Objects \cup {NoObject}, fresh : SUBSET Objects]]
        /\ reply' \in [Sessions -> {"none", "ok", "refused", "failed"}]
        /\ pc'[s] = "idle" /\ work'[s].fresh = {}
        /\ \A t \in Sessions \ {s} : pc'[t] = pc[t] /\ req'[t] = req[t] /\ work'[t] = work[t]
    <2>1. a \in {"none", "ok", "refused", "failed"}
      OBVIOUS
    <2> QED
      BY <1>1, <2>1, FinishTyped
  <1>3. TypeOK'
    BY <1>1, <1>2 DEF TypeOK
  <1>4. SessionsReady'
    BY <1>2 DEF IInv, SessionsReady, Working, InHand
  <1>5. FreshHasFile'
    BY <1>1, <1>2 DEF IInv, FreshHasFile
  <1>6. RowHasFile'
    BY <1>1 DEF IInv, RowHasFile, Registered, FileOf
  <1> QED
    BY <1>3, <1>4, <1>5, <1>6 DEF IInv

\* A request that begins has added no row yet.
LEMMA BeginKeeps ==
  ASSUME IInv, NEW s \in Sessions, NEW repo \in Repos, NEW objects \in SUBSET Objects,
         WireBegin(s, repo, objects) \/ IngestBegin(s, repo, objects)
  PROVE  IInv'
  <1>1. /\ rows' = rows /\ files' = files /\ reply' = [reply EXCEPT ![s] = "none"]
        /\ pc[s] = "idle"
        /\ \E k \in Kinds, to \in {"begun", "loop"} :
              /\ pc' = [pc EXCEPT ![s] = to]
              /\ req' = [req EXCEPT ![s] = [kind |-> k, repo |-> repo, objects |-> objects]]
    BY DEF WireBegin, IngestBegin, Goto
  <1>2. /\ work' \in [Sessions -> [todo : SUBSET Objects, current : Objects \cup {NoObject}, fresh : SUBSET Objects]]
        /\ \A t \in Sessions : work'[t].fresh = work[t].fresh /\ work'[t].current = work[t].current
    <2>1. CASE work' = [work EXCEPT ![s].todo = objects]
      BY <2>1 DEF IInv, TypeOK
    <2>2. CASE work' = work
      BY <2>2 DEF IInv, TypeOK
    <2> QED
      BY <2>1, <2>2 DEF WireBegin, IngestBegin
  <1>3. TypeOK'
    <2>1. PICK k \in Kinds, to \in {"begun", "loop"} :
            /\ pc' = [pc EXCEPT ![s] = to]
            /\ req' = [req EXCEPT ![s] = [kind |-> k, repo |-> repo, objects |-> objects]]
      BY <1>1
    <2>2. k \in {"none", "wire", "ingest"}
      BY ObjectConstantsOK
    <2>3. req' \in [Sessions -> [kind : {"none", "wire", "ingest"}, repo : Repos, objects : SUBSET Objects]]
      BY <2>1, <2>2 DEF IInv, TypeOK
    <2>4. /\ pc' \in [Sessions -> {"idle", "begun", "loop", "put", "open", "write"}]
          /\ reply' \in [Sessions -> {"none", "ok", "refused", "failed"}]
      BY <1>1, <2>1 DEF IInv, TypeOK
    <2> QED
      BY <1>1, <1>2, <2>3, <2>4 DEF IInv, TypeOK
  <1>4. SessionsReady'
    BY <1>1, <1>2 DEF IInv, TypeOK, SessionsReady, Working, InHand
  <1>5. FreshHasFile'
    <2>1. work[s].fresh = {}
      BY <1>1 DEF IInv, SessionsReady, Working
    <2> QED
      BY <1>1, <1>2, <2>1 DEF IInv, TypeOK, FreshHasFile
  <1>6. RowHasFile'
    BY <1>1 DEF IInv, RowHasFile, Registered, FileOf
  <1> QED
    BY <1>3, <1>4, <1>5, <1>6 DEF IInv

\* Choosing the next objects touches neither files nor rows.
LEMMA LookKeeps ==
  ASSUME IInv, NEW s \in Sessions,
         (\E o \in Objects : WireLook(s, o) \/ IngestNext(s, o)) \/ IngestFilter(s)
  PROVE  IInv'
  <1>1. rows' = rows /\ files' = files /\ req' = req /\ reply' = reply /\ Working(s)
    BY DEF WireLook, IngestNext, IngestFilter, Working
  <1>2. \/ \E o \in Objects :
              \/ work' = [work EXCEPT ![s].todo = @ \ {o}] /\ pc' = pc /\ pc[s] = "loop"
              \/ /\ work' = [work EXCEPT ![s].current = o]
                 /\ pc' \in {[pc EXCEPT ![s] = "put"], [pc EXCEPT ![s] = "open"]}
        \/ work' = [work EXCEPT ![s].todo = req[s].objects \ Held(req[s].repo)] /\ pc' = [pc EXCEPT ![s] = "loop"]
    BY DEF WireLook, IngestNext, IngestFilter, Goto
  <1> DEFINE Looked ==
        /\ work' \in [Sessions -> [todo : SUBSET Objects, current : Objects \cup {NoObject}, fresh : SUBSET Objects]]
        /\ \A t \in Sessions : work'[t].fresh = work[t].fresh
        /\ \A t \in Sessions \ {s} : work'[t] = work[t]
        /\ pc'[s] \in {"put", "open"} => work'[s].current \in Objects
        /\ pc'[s] \in {"put", "open", "loop"}
        /\ pc' = [pc EXCEPT ![s] = pc'[s]]
  <1> HIDE DEF Looked
  <1>3. Looked
    <2>1. ASSUME NEW o \in Objects, work' = [work EXCEPT ![s].todo = @ \ {o}], pc' = pc, pc[s] = "loop"
          PROVE  Looked
      BY <2>1 DEF IInv, TypeOK, Looked
    <2>2. ASSUME NEW o \in Objects, work' = [work EXCEPT ![s].current = o],
                 pc' \in {[pc EXCEPT ![s] = "put"], [pc EXCEPT ![s] = "open"]}
          PROVE  Looked
      <3> DEFINE w == [work[s] EXCEPT !.current = o]
      <3>0. work' = [work EXCEPT ![s] = w]
        BY <2>2
      <3>w. w \in [todo : SUBSET Objects, current : Objects \cup {NoObject}, fresh : SUBSET Objects]
            /\ w.fresh = work[s].fresh /\ w.current = o
        BY DEF IInv, TypeOK
      <3> HIDE DEF w
      <3>1. /\ work' \in [Sessions -> [todo : SUBSET Objects, current : Objects \cup {NoObject}, fresh : SUBSET Objects]]
            /\ \A t \in Sessions : work'[t].fresh = work[t].fresh
            /\ \A t \in Sessions \ {s} : work'[t] = work[t]
            /\ work'[s].current = o
        BY <3>0, <3>w DEF IInv, TypeOK
      <3>2. CASE pc' = [pc EXCEPT ![s] = "put"]
        BY <3>1, <3>2 DEF IInv, TypeOK, Looked
      <3>3. CASE pc' = [pc EXCEPT ![s] = "open"]
        BY <3>1, <3>3 DEF IInv, TypeOK, Looked
      <3> QED
        BY <2>2, <3>2, <3>3
    <2>3. CASE work' = [work EXCEPT ![s].todo = req[s].objects \ Held(req[s].repo)] /\ pc' = [pc EXCEPT ![s] = "loop"]
      BY <2>3 DEF IInv, TypeOK, Looked
    <2> QED
      BY <1>2, <2>1, <2>2, <2>3
  <1>4. TypeOK'
    <2>1. pc' \in [Sessions -> {"idle", "begun", "loop", "put", "open", "write"}]
      BY <1>3 DEF IInv, TypeOK, Looked
    <2> QED
      BY <1>1, <1>3, <2>1 DEF IInv, TypeOK, Looked
  <1>5. SessionsReady'
    BY <1>1, <1>3 DEF IInv, TypeOK, Looked, SessionsReady, Working, InHand
  <1>6. FreshHasFile' /\ RowHasFile'
    BY <1>1, <1>3 DEF IInv, Looked, FreshHasFile, RowHasFile, Registered, FileOf
  <1> QED
    BY <1>4, <1>5, <1>6 DEF IInv

-----------------------------------------------------------------------------
(* The steps that write *)

\* A file never becomes absent, and the object in hand has one before its row
\* is added.
LEMMA PutCheckKeeps ==
  ASSUME IInv, NEW s \in Sessions, PutCheck(s)
  PROVE  IInv'
  <1>1. rows' = rows /\ files' = files /\ req' = req /\ reply' = reply
    BY DEF PutCheck
  <1>2. work[s].current \in Objects /\ Working(s)
    BY DEF PutCheck, IInv, SessionsReady, InHand, Working
  <1>3. CASE FileState(s) = "absent"
    <2>1. pc' = [pc EXCEPT ![s] = "open"] /\ work' = work
      BY <1>3 DEF PutCheck, Goto
    <2>2. TypeOK' /\ SessionsReady'
      BY <1>1, <1>2, <2>1 DEF IInv, TypeOK, SessionsReady, InHand, Working
    <2>3. FreshHasFile' /\ RowHasFile'
      BY <1>1, <2>1 DEF IInv, FreshHasFile, RowHasFile, Registered, FileOf
    <2> QED
      BY <2>2, <2>3 DEF IInv
  <1>4. CASE FileState(s) # "absent"
    <2>1. pc' = [pc EXCEPT ![s] = "loop"] /\ AddRow(s)
      BY <1>4 DEF PutCheck, Goto
    <2>2. TypeOK' /\ SessionsReady'
      BY <1>1, <1>2, <2>1 DEF IInv, TypeOK, SessionsReady, InHand, Working, AddRow
    <2>3. FreshHasFile'
      BY <1>1, <1>2, <1>4, <2>1 DEF IInv, TypeOK, FreshHasFile, AddRow, FileState
    <2>4. RowHasFile'
      BY <1>1 DEF IInv, RowHasFile, Registered, FileOf
    <2> QED
      BY <2>2, <2>3, <2>4 DEF IInv
  <1> QED
    BY <1>3, <1>4

\* write_bytes leaves every file that was there.
LEMMA SetFileKeeps ==
  ASSUME IInv, NEW s \in Sessions, work[s].current \in Objects,
         NEW state \in {"partial", "whole"}, SetFile(s, state)
  PROVE  /\ files' \in [Repos -> [Objects -> [Names -> {"absent", "partial", "whole"}]]]
         /\ files'[req[s].repo][work[s].current][NameFor(req[s].kind)] = state
         /\ \A r \in Repos, o \in Objects, n \in Names :
               files[r][o][n] # "absent" => files'[r][o][n] # "absent"
  <1>1. req[s].repo \in Repos /\ NameFor(req[s].kind) \in Names
    BY DEF IInv, TypeOK, NameFor, Names
  <1> DEFINE q == req[s].repo
             c == work[s].current
             m == NameFor(req[s].kind)
  <1>2. files' = [files EXCEPT ![q][c][m] = state]
    BY DEF SetFile
  <1>3. files \in [Repos -> [Objects -> [Names -> {"absent", "partial", "whole"}]]]
    BY DEF IInv, TypeOK
  <1> HIDE DEF q, c, m
  <1>4. q \in Repos /\ c \in Objects /\ m \in Names
    BY <1>1 DEF q, c, m
  <1>5. files' \in [Repos -> [Objects -> [Names -> {"absent", "partial", "whole"}]]] /\ files'[q][c][m] = state
    BY <1>2, <1>3, <1>4
  <1>6. \A r \in Repos, o \in Objects, n \in Names : files[r][o][n] # "absent" => files'[r][o][n] # "absent"
    BY <1>2, <1>3, <1>4
  <1> QED
    BY <1>5, <1>6 DEF q, c, m

LEMMA WriteKeeps ==
  ASSUME IInv, NEW s \in Sessions, OpenFile(s) \/ WriteFile(s)
  PROVE  IInv'
  <1>1. work[s].current \in Objects /\ Working(s)
    BY DEF OpenFile, WriteFile, IInv, SessionsReady, InHand, Working
  <1>2. /\ rows' = rows /\ req' = req /\ reply' = reply
        /\ \/ pc' = [pc EXCEPT ![s] = "write"] /\ work' = work /\ SetFile(s, "partial")
           \/ pc' = [pc EXCEPT ![s] = "loop"] /\ AddRow(s) /\ SetFile(s, "whole")
    BY DEF OpenFile, WriteFile, Goto
  <1>3. /\ files' \in [Repos -> [Objects -> [Names -> {"absent", "partial", "whole"}]]]
        /\ files'[req[s].repo][work[s].current][NameFor(req[s].kind)] # "absent"
        /\ \A r \in Repos, o \in Objects, n \in Names :
              files[r][o][n] # "absent" => files'[r][o][n] # "absent"
    <2>1. CASE SetFile(s, "partial")
      BY <1>1, <2>1, SetFileKeeps
    <2>2. CASE SetFile(s, "whole")
      BY <1>1, <2>2, SetFileKeeps
    <2> QED
      BY <1>2, <2>1, <2>2
  <1>4. /\ work' \in [Sessions -> [todo : SUBSET Objects, current : Objects \cup {NoObject}, fresh : SUBSET Objects]]
        /\ work'[s].fresh \subseteq work[s].fresh \cup {work[s].current}
        /\ pc'[s] = "write" => work'[s].current \in Objects
        /\ pc'[s] \in {"write", "loop"} /\ pc' = [pc EXCEPT ![s] = pc'[s]]
        /\ \A t \in Sessions \ {s} : work'[t] = work[t]
    <2>1. CASE pc' = [pc EXCEPT ![s] = "write"] /\ work' = work
      BY <1>1, <2>1 DEF IInv, TypeOK
    <2>2. CASE pc' = [pc EXCEPT ![s] = "loop"] /\ AddRow(s)
      BY <1>1, <2>2 DEF IInv, TypeOK, AddRow
    <2> QED
      BY <1>2, <2>1, <2>2
  <1>5. TypeOK'
    BY <1>2, <1>3, <1>4 DEF IInv, TypeOK
  <1>6. SessionsReady'
    BY <1>1, <1>2, <1>4 DEF IInv, TypeOK, SessionsReady, InHand, Working
  <1>7. \A kind : NameFor(kind) \in Names
    BY DEF NameFor, Names
  <1>8. FreshHasFile'
    <2> SUFFICES ASSUME NEW t \in Sessions, NEW o \in work'[t].fresh
                 PROVE  files'[req[t].repo][o][NameFor(req[t].kind)] # "absent"
      BY <1>2 DEF FreshHasFile
    <2>1. o \in Objects /\ req[t].repo \in Repos
      BY <1>4 DEF IInv, TypeOK
    <2>2. CASE t = s /\ o = work[s].current
      BY <1>3, <2>2
    <2>3. CASE o \in work[t].fresh
      BY <1>3, <1>7, <2>1, <2>3 DEF IInv, FreshHasFile
    <2> QED
      BY <1>4, <2>2, <2>3
  <1>9. RowHasFile'
    BY <1>2, <1>3, <1>7 DEF IInv, TypeOK, RowHasFile, Registered, FileOf
  <1> QED
    BY <1>5, <1>6, <1>8, <1>9 DEF IInv

\* The rows that commit are those whose files the session wrote or found.
LEMMA CommitKeeps ==
  ASSUME IInv, NEW s \in Sessions, Commit(s)
  PROVE  IInv'
  <1>1. CASE Rollback(s, "failed")
    BY <1>1, RollbackKeeps
  <1>2. CASE /\ rows' = [o \in Objects |-> IF o \in work[s].fresh
                                           THEN [repo |-> req[s].repo, via |-> req[s].kind] ELSE rows[o]]
             /\ files' = files
             /\ Finish(s, "ok")
    <2>1. /\ pc' \in [Sessions -> {"idle", "begun", "loop", "put", "open", "write"}]
          /\ req' \in [Sessions -> [kind : {"none", "wire", "ingest"}, repo : Repos, objects : SUBSET Objects]]
          /\ work' \in [Sessions -> [todo : SUBSET Objects, current : Objects \cup {NoObject}, fresh : SUBSET Objects]]
          /\ reply' \in [Sessions -> {"none", "ok", "refused", "failed"}]
          /\ pc'[s] = "idle" /\ work'[s].fresh = {}
          /\ \A t \in Sessions \ {s} : pc'[t] = pc[t] /\ req'[t] = req[t] /\ work'[t] = work[t]
      BY <1>2, FinishTyped DEF IInv
    <2>2. req[s].repo \in Repos /\ req[s].kind \in Kinds
      BY DEF Commit, IInv, TypeOK, SessionsReady, Working
    <2>3. rows' \in [Objects -> [repo : Repos, via : Kinds] \cup {NoRow}]
      BY <1>2, <2>2 DEF IInv, TypeOK
    <2>4. TypeOK'
      BY <1>2, <2>1, <2>3 DEF IInv, TypeOK
    <2>5. SessionsReady'
      BY <2>1 DEF IInv, SessionsReady, Working, InHand
    <2>6. FreshHasFile'
      BY <1>2, <2>1 DEF IInv, FreshHasFile
    <2>7. RowHasFile'
      <3> SUFFICES ASSUME NEW o \in Objects, rows'[o] # NoRow
                   PROVE  files[rows'[o].repo][o][NameFor(rows'[o].via)] # "absent"
        BY <1>2 DEF RowHasFile, Registered, FileOf
      <3>1. CASE o \in work[s].fresh
        BY <1>2, <3>1 DEF IInv, FreshHasFile
      <3>2. CASE o \notin work[s].fresh
        BY <1>2, <3>2 DEF IInv, RowHasFile, Registered, FileOf
      <3> QED
        BY <3>1, <3>2
    <2> QED
      BY <2>4, <2>5, <2>6, <2>7 DEF IInv
  <1> QED
    BY <1>1, <1>2 DEF Commit

-----------------------------------------------------------------------------
(* The invariant *)

\* Every step of the store, and every stutter, preserves the invariant.
LEMMA StepInvariant == IInv /\ [Next]_vars => IInv'
  <1> SUFFICES ASSUME IInv, [Next]_vars PROVE IInv'
    OBVIOUS
  <1>1. ASSUME NEW s \in Sessions, NEW repo \in Repos, NEW objects \in (SUBSET Objects) \ {{}},
               WireBegin(s, repo, objects) \/ IngestBegin(s, repo, objects)
        PROVE  IInv'
    BY <1>1, BeginKeeps
  <1>2. ASSUME NEW s \in Sessions, Step(s) PROVE IInv'
    <2>1. CASE \E o \in Objects : WireLook(s, o) \/ IngestNext(s, o)
      BY <2>1, LookKeeps
    <2>2. CASE IngestFilter(s)
      BY <2>2, LookKeeps
    <2>3. CASE PutCheck(s)
      BY <2>3, PutCheckKeeps
    <2>4. CASE OpenFile(s) \/ WriteFile(s)
      BY <2>4, WriteKeeps
    <2>5. CASE Commit(s)
      BY <2>5, CommitKeeps
    <2>6. CASE Refuse(s)
      BY <2>6, RollbackKeeps DEF Refuse
    <2> QED
      BY <1>2, <2>1, <2>2, <2>3, <2>4, <2>5, <2>6 DEF Step
  <1>3. ASSUME NEW s \in Sessions, Die(s) PROVE IInv'
    BY <1>3, RollbackKeeps DEF Die
  <1>4. CASE UNCHANGED vars
    BY <1>4 DEF vars, IInv, TypeOK, SessionsReady, FreshHasFile, RowHasFile, Working, InHand, Registered, FileOf
  <1> QED
    BY <1>1, <1>2, <1>3, <1>4 DEF Next

\* The strengthened invariant holds in every reachable state.
THEOREM Inductive == Spec => []IInv
  <1> QED
    BY InitInvariant, StepInvariant, PTL DEF Spec

(***************************************************************************)
(* Rows, files and sessions keep their types, for any number of them.      *)
(***************************************************************************)
THEOREM TypeCorrect == Spec => []TypeOK
  <1>1. IInv => TypeOK
    BY DEF IInv
  <1> QED
    BY <1>1, Inductive, PTL

(***************************************************************************)
(* A committed row always has a file: _write_object and LocalBackend.put   *)
(* write before the commit, and no rollback or death removes a file.       *)
(***************************************************************************)
THEOREM RowAlwaysHasFile == Spec => []RowHasFile
  <1>1. IInv => RowHasFile
    BY DEF IInv
  <1> QED
    BY <1>1, Inductive, PTL

-----------------------------------------------------------------------------
(* An accepted push of a store with one repository *)

\* Where an object of a push may be: still to do, in hand, among the rows to
\* commit, or found with a row.
AccountedFor(s) ==
    work[s].todo \cup work[s].fresh \cup Registered
        \cup (IF InHand(s) THEN {work[s].current} ELSE {})

InLoop(s) == pc[s] \notin {"idle", "begun"}

Accounted == \A s \in Sessions : InLoop(s) => req[s].objects \subseteq AccountedFor(s)

\* Rows are never removed.
LEMMA RowsStay ==
  ASSUME TypeOK, [Next]_vars
  PROVE  Registered \subseteq Registered'
  <1>1. ASSUME NEW s \in Sessions, Commit(s) PROVE Registered \subseteq Registered'
    <2>1. CASE Rollback(s, "failed")
      BY <2>1 DEF Rollback, Registered
    <2>2. CASE /\ work[s].fresh \cap Registered = {}
               /\ rows' = [o \in Objects |-> IF o \in work[s].fresh
                                             THEN [repo |-> req[s].repo, via |-> req[s].kind] ELSE rows[o]]
      BY <2>2 DEF Registered
    <2> QED
      BY <1>1, <2>1, <2>2 DEF Commit
  <1>2. ASSUME ~\E s \in Sessions : Commit(s) PROVE Registered \subseteq Registered'
    BY <1>2 DEF Next, Step, WireBegin, IngestBegin, WireLook, IngestNext, PutCheck, IngestFilter,
                OpenFile, WriteFile, Refuse, Die, Rollback, vars, Registered
  <1> QED
    BY <1>1, <1>2

\* What is left for Accounted of the sessions that do not move.
LEMMA OthersAccounted ==
  ASSUME TypeOK, Accounted, [Next]_vars, NEW t \in Sessions,
         pc'[t] = pc[t], req'[t] = req[t], work'[t] = work[t], InLoop(t)'
  PROVE  req'[t].objects \subseteq AccountedFor(t)'
  <1>1. req[t].objects \subseteq AccountedFor(t)
    BY DEF Accounted, InLoop
  <1>2. Registered \subseteq Registered'
    BY RowsStay
  <1> QED
    BY <1>1, <1>2 DEF AccountedFor, InHand

\* A step of one session keeps its objects accounted for.
LEMMA StepAccounted ==
  ASSUME OneRepo, IInv, Accounted, [Next]_vars
  PROVE  Accounted'
  <1> USE DEF Goto
  <1>1. Registered \subseteq Registered'
    BY RowsStay DEF IInv
  <1>2. ASSUME NEW s \in Sessions, InLoop(s)',
               \/ \E repo \in Repos, objects \in (SUBSET Objects) \ {{}} :
                     WireBegin(s, repo, objects) \/ IngestBegin(s, repo, objects)
               \/ Step(s)
               \/ Die(s)
        PROVE  req'[s].objects \subseteq AccountedFor(s)'
    <2>1. ASSUME NEW repo \in Repos, NEW objects \in SUBSET Objects,
                 WireBegin(s, repo, objects)
          PROVE  req'[s].objects \subseteq AccountedFor(s)'
      BY <2>1 DEF WireBegin, IInv, TypeOK, AccountedFor
    <2>2. ASSUME NEW repo \in Repos, NEW objects \in SUBSET Objects,
                 IngestBegin(s, repo, objects)
          PROVE  FALSE
      BY <1>2, <2>2 DEF IngestBegin, IInv, TypeOK, InLoop
    <2>3. ASSUME NEW o \in Objects, WireLook(s, o)
          PROVE  req'[s].objects \subseteq AccountedFor(s)'
      <3>1. req[s].objects \subseteq work[s].todo \cup work[s].fresh \cup Registered /\ req' = req
        BY <2>3 DEF WireLook, Accounted, AccountedFor, InLoop, InHand
      <3>2. CASE o \in Registered /\ work' = [work EXCEPT ![s].todo = @ \ {o}]
        <4>1. work'[s].todo = work[s].todo \ {o} /\ work'[s].fresh = work[s].fresh
          BY <3>2 DEF IInv, TypeOK
        <4> QED
          BY <1>1, <3>1, <3>2, <4>1 DEF AccountedFor
      <3>3. CASE work' = [work EXCEPT ![s].current = o] /\ pc' = [pc EXCEPT ![s] = "put"]
        <4>1. work'[s].todo = work[s].todo /\ work'[s].fresh = work[s].fresh
          BY <3>3 DEF IInv, TypeOK
        <4> QED
          BY <1>1, <3>1, <4>1 DEF AccountedFor
      <3> QED
        BY <2>3, <3>2, <3>3 DEF WireLook
    <2>4. ASSUME NEW o \in Objects, IngestNext(s, o)
          PROVE  req'[s].objects \subseteq AccountedFor(s)'
      <3>1. req[s].objects \subseteq work[s].todo \cup work[s].fresh \cup Registered /\ req' = req
        BY <2>4 DEF IngestNext, Accounted, AccountedFor, InLoop, InHand
      <3>2. work'[s].todo = work[s].todo /\ work'[s].fresh = work[s].fresh
        BY <2>4 DEF IngestNext, IInv, TypeOK
      <3> QED
        BY <1>1, <3>1, <3>2 DEF AccountedFor
    <2>5. CASE IngestFilter(s)
      <3>1. Held(req[s].repo) = Registered
        BY DEF OneRepo, Held, Registered, IInv, TypeOK
      <3>2. work'[s].todo = req[s].objects \ Registered /\ req' = req
        BY <2>5, <3>1 DEF IngestFilter, IInv, TypeOK
      <3> QED
        BY <1>1, <3>2 DEF AccountedFor
    <2>6. CASE PutCheck(s) \/ OpenFile(s) \/ WriteFile(s)
      <3>1. /\ req[s].objects \subseteq work[s].todo \cup work[s].fresh \cup Registered \cup {work[s].current}
            /\ req' = req
        BY <2>6 DEF PutCheck, OpenFile, WriteFile, Accounted, AccountedFor, InLoop, InHand
      <3>2. CASE work' = work /\ pc' \in {[pc EXCEPT ![s] = "open"], [pc EXCEPT ![s] = "write"]}
        <4>1. InHand(s)'
          BY <3>2 DEF InHand, IInv, TypeOK
        <4> QED
          BY <1>1, <3>1, <3>2, <4>1 DEF AccountedFor
      <3>3. CASE AddRow(s)
        <4>1. work'[s].todo = work[s].todo \ {work[s].current} /\ work'[s].fresh = work[s].fresh \cup {work[s].current}
          BY <3>3 DEF AddRow, IInv, TypeOK
        <4> QED
          BY <1>1, <3>1, <4>1 DEF AccountedFor
      <3> QED
        BY <2>6, <3>2, <3>3 DEF PutCheck, OpenFile, WriteFile
    <2>7. CASE Commit(s) \/ Refuse(s) \/ Die(s)
      BY <1>2, <2>7 DEF Commit, Refuse, Die, Rollback, Finish, InLoop, IInv, TypeOK
    <2> QED
      BY <1>2, <2>1, <2>2, <2>3, <2>4, <2>5, <2>6, <2>7 DEF Step
  <1>3. ASSUME NEW t \in Sessions, InLoop(t)'
        PROVE  req'[t].objects \subseteq AccountedFor(t)'
    <2>1. CASE UNCHANGED vars
      BY <1>3, <2>1, OthersAccounted DEF vars, IInv
    <2>2. ASSUME NEW s \in Sessions,
                 \/ \E repo \in Repos, objects \in (SUBSET Objects) \ {{}} :
                       WireBegin(s, repo, objects) \/ IngestBegin(s, repo, objects)
                 \/ Step(s)
                 \/ Die(s)
          PROVE  req'[t].objects \subseteq AccountedFor(t)'
      <3>1. CASE s = t
        BY <1>2, <1>3, <2>2, <3>1
      <3>2. CASE s # t
        <4>1. pc'[t] = pc[t] /\ req'[t] = req[t] /\ work'[t] = work[t]
          BY <2>2, <3>2 DEF Step, WireBegin, IngestBegin, WireLook, IngestNext, PutCheck, IngestFilter, OpenFile,
                            WriteFile, Commit, Refuse, Die, Rollback, Finish, AddRow, IInv, TypeOK
        <4> QED
          BY <1>3, <4>1, OthersAccounted DEF IInv
      <3> QED
        BY <3>1, <3>2
    <2> QED
      BY <2>1, <2>2 DEF Next
  <1> QED
    BY <1>3 DEF Accounted

\* The answer ok is given by a commit, which has nothing left to do.
LEMMA OkHeld ==
  ASSUME OneRepo, IInv, Accounted, [Next]_vars,
         NEW s \in Sessions, NEW repo \in Repos, AnsweredOk(s), req[s].repo = repo
  PROVE  req[s].objects \subseteq Held(repo)'
  <1>1. Commit(s) /\ ~Rollback(s, "failed")
    <2> USE DEF AnsweredOk, Working, IInv, TypeOK
    <2>1. PICK t \in Sessions : \/ \E r \in Repos, objects \in (SUBSET Objects) \ {{}} :
                                      WireBegin(t, r, objects) \/ IngestBegin(t, r, objects)
                                \/ Step(t)
                                \/ Die(t)
      BY DEF Next, vars
    <2>2. t = s
      BY <2>1 DEF Step, WireBegin, IngestBegin, WireLook, IngestNext, PutCheck, IngestFilter, OpenFile,
                  WriteFile, Commit, Refuse, Die, Rollback, Finish, Goto
    <2>3. reply'[s] # "failed" /\ reply'[s] # "refused" /\ pc'[s] = "idle"
      OBVIOUS
    <2>4. ~Rollback(s, "failed") /\ ~Rollback(s, "refused")
      BY <2>3 DEF Rollback, Finish
    <2> QED
      BY <2>1, <2>2, <2>3, <2>4 DEF Step, WireBegin, IngestBegin, WireLook, IngestNext, PutCheck,
                  IngestFilter, OpenFile, WriteFile, Commit, Refuse, Die, Goto
  <1>2. req[s].objects \subseteq work[s].fresh \cup Registered
    BY <1>1 DEF Commit, Accounted, AccountedFor, InLoop, InHand
  <1>3. rows' = [o \in Objects |-> IF o \in work[s].fresh
                                   THEN [repo |-> req[s].repo, via |-> req[s].kind] ELSE rows[o]]
    BY <1>1 DEF Commit
  <1>4. req[s].kind \in Kinds /\ req[s].repo \in Repos /\ req[s].objects \subseteq Objects
    BY DEF AnsweredOk, IInv, TypeOK, SessionsReady
  <1>5. ASSUME NEW o \in req[s].objects PROVE rows'[o] # NoRow /\ rows'[o].repo = repo
    <2>1. CASE o \in work[s].fresh
      BY <1>3, <1>4, <2>1, ObjectConstantsOK
    <2>2. CASE o \notin work[s].fresh
      BY <1>2, <1>3, <1>4, <2>2 DEF Registered, OneRepo, IInv, TypeOK
    <2> QED
      BY <2>1, <2>2
  <1> QED
    BY <1>4, <1>5 DEF Held, Registered

(***************************************************************************)
(* In a store with one repository, a push answered ok leaves every object  *)
(* it named in that repository, whatever other pushes of either protocol   *)
(* do and wherever processes die.                                          *)
(***************************************************************************)
THEOREM OkAlwaysHeld ==
  ASSUME OneRepo
  PROVE  Spec => OkMeansHeld
  <1>1. Init => Accounted
    BY DEF Init, Accounted, InLoop
  <1>2. IInv /\ Accounted /\ [Next]_vars => Accounted'
    BY StepAccounted
  <1>3. IInv /\ Accounted /\ [Next]_vars =>
           [\A s \in Sessions, repo \in Repos :
               AnsweredOk(s) /\ req[s].repo = repo => req[s].objects \subseteq Held(repo)']_vars
    BY OkHeld
  <1> QED
    BY <1>1, <1>2, <1>3, Inductive, PTL DEF Spec, OkMeansHeld

=============================================================================
