------------------------- MODULE Collaboration_proofs -------------------------
(***************************************************************************)
(* Safety of the modules of Collaboration, for all values of their         *)
(* constants.  Each has an inductive invariant of its own about its own    *)
(* variables; a step of another part leaves them alone.                    *)
(***************************************************************************)
EXTENDS Collaboration, CommitGraph_proofs

-----------------------------------------------------------------------------
(***************************************************************************)
(* Tags.  Rows are known by their id and by their repository and label,    *)
(* and a row a push has sent and the committed row of its label are one    *)
(* row: a push cannot have sent one without waiting for the other pushes   *)
(* that have sent it.                                                      *)
(***************************************************************************)
SameTag(a, b) == a.repo = b.repo /\ a.label = b.label

\* Among and between two sets of rows, an id is a label.
Keyed(xs, ys) == \A a \in xs, b \in ys : a.id = b.id <=> SameTag(a, b)

KeyedAlone(xs) == \A a, b \in xs : (a.id = b.id \/ SameTag(a, b)) => a = b

Apart(xs, ys) == \A a \in xs, b \in ys : a.id # b.id /\ ~SameTag(a, b)

TagPushRight(r) ==
    LET q == tagging[r]
    IN  /\ q.pc # "sending" => q.rows = {}
        /\ q.pc = "idle" => q.sent = 0
        /\ \A row \in q.rows : row.by = r /\ row.repo = q.push.repo
        /\ KeyedAlone(q.rows) /\ Keyed(q.rows, tagRows)
        /\ \A t \in Tagging \ {r} : Apart(q.rows, tagging[t].rows)
        /\ q.pc = "sending" => \A i \in DOMAIN q.push.tags :
              i <= q.sent => \E row \in q.rows : row.label = q.push.tags[i].label

TagInv ==
    /\ W!TypeOK
    /\ KeyedAlone(tagRows)
    /\ \A r \in Tagging : TagPushRight(r)
    /\ TagsTogether

LEMMA TagsInit == W!Init => TagInv
<1>. SUFFICES ASSUME W!Init PROVE TagInv
  OBVIOUS
<1>1. W!TypeOK
  BY TagPushesOK DEF W!Init, W!TypeOK, W!RequestStates, TagPushesOK
<1>2. tagRows = {} /\ \A r \in Tagging : /\ tagging[r].rows = {}
                                           /\ tagging[r].pc = "idle" /\ tagging[r].sent = 0
  BY DEF W!Init
<1>. QED
  BY <1>1, <1>2 DEF TagInv, TagPushRight, KeyedAlone, Keyed, Apart, TagsTogether, W!TagsTogether

(***************************************************************************)
(* A push that sends nothing and commits nothing keeps what holds.         *)
(***************************************************************************)
LEMMA TagsQuiet ==
    ASSUME TagInv, W!TypeOK', NEW r \in Tagging, tagRows' = tagRows,
           tagging[r].pc \in {"idle", "sending"}, tagging'[r].pc \in {"sending", "error"},
           tagging'[r].rows = {}, tagging'[r].sent = 0 \/ tagging'[r].pc = "error",
           \A t \in Tagging \ {r} : tagging'[t] = tagging[t]
    PROVE  TagInv'
<1>1. ASSUME NEW t \in Tagging PROVE TagPushRight(t)'
  <2>1. CASE t = r
    <3>1. \A i \in DOMAIN tagging'[r].push.tags : tagging'[r].pc = "sending" => ~(i <= tagging'[r].sent)
      <4>1. CASE tagging'[r].pc = "sending"
        <5>1. tagging'[r].push.tags \in Seq(W!Tags) /\ tagging'[r].sent = 0
          BY <4>1, TagPushesOK DEF W!TypeOK, W!RequestStates, TagPushesOK
        <5>. QED
          BY <5>1
      <4>. QED
        BY <4>1
    <3>. QED
      BY <2>1, <3>1 DEF TagPushRight, KeyedAlone, Keyed, Apart
  <2>2. CASE t # r
    BY <2>2 DEF TagInv, TagPushRight, KeyedAlone, Keyed, Apart
  <2>. QED
    BY <2>1, <2>2
<1>2. \A t \in Tagging : tagging'[t].pc = "ok" <=> tagging[t].pc = "ok"
  OBVIOUS
<1>3. \A t \in Tagging : tagging[t].pc = "ok" => tagging'[t] = tagging[t]
  OBVIOUS
<1>4. \A row \in tagRows : row.by \in Tagging
  BY DEF TagInv, W!TypeOK, W!Rows
<1>5. TagsTogether'
  <2>1. TagsTogether
    BY DEF TagInv
  <2>2. \A t \in Tagging : tagging[t].pc = "ok" =>
           W!Labels(t)' = W!Labels(t) /\ tagging'[t].push = tagging[t].push
    BY <1>3 DEF W!Labels
  <2>3. /\ \A t \in Tagging : tagging'[t].pc = "ok" =>
               \A label \in W!Labels(t)' :
                   \E row \in tagRows : row.repo = tagging'[t].push.repo /\ row.label = label
        /\ \A row \in tagRows : tagging'[row.by].pc = "ok"
    BY <1>2, <1>4, <2>1, <2>2 DEF TagsTogether, W!TagsTogether
  <2>4. \A a, b \in tagRows : W!Labels(a.by)' = W!Labels(a.by) /\ W!Labels(b.by)' = W!Labels(b.by)
    BY <1>4, <2>1, <2>2 DEF TagsTogether, W!TagsTogether
  <2>5. \A a, b \in tagRows :
           /\ a.repo = b.repo
           /\ {a.label, b.label} \subseteq W!Labels(a.by)' \cap W!Labels(b.by)'
           => a.by = b.by
    BY <2>1, <2>4 DEF TagsTogether, W!TagsTogether
  <2>. QED
    BY <2>3, <2>5 DEF TagsTogether, W!TagsTogether
<1>. QED
  BY <1>1, <1>5 DEF TagInv, KeyedAlone

\* What a statement sends: the next tag, whose id and label nobody else has
\* sent, with the id of the label if it has one.
SentRow(r, row) ==
    /\ row \in W!Rows /\ row.by = r
    /\ row.repo = tagging[r].push.repo /\ row.label = W!NextTag(r).label
    /\ Apart({row}, W!Uncommitted(r))
    /\ Keyed({row}, tagRows) /\ Keyed({row}, tagging[r].rows)

LEMMA SendTyped ==
    ASSUME W!TypeOK, NEW r \in Tagging, NEW row \in W!Rows, W!Send(r, row)
    PROVE  W!TypeOK'
<1>1. tagging \in [Tagging -> W!RequestStates] /\ tagging[r] \in W!RequestStates
  BY DEF W!TypeOK
<1>2. tagging[r].sent + 1 \in Nat
  BY <1>1 DEF W!RequestStates
<1>3. (tagging[r].rows \ W!SameLabel(r, tagging[r].rows)) \cup {row} \subseteq W!Rows
  BY <1>1 DEF W!RequestStates
<1>4. [tagging[r] EXCEPT !.sent = @ + 1, !.rows = (@ \ W!SameLabel(r, @)) \cup {row}] \in W!RequestStates
  BY <1>1, <1>2, <1>3, Zenon DEF W!RequestStates
<1>. QED
  BY <1>1, <1>4 DEF W!TypeOK, W!Send

LEMMA SendKeeps ==
    ASSUME TagInv, NEW r \in Tagging, NEW row, W!Sending(r), SentRow(r, row), W!Send(r, row)
    PROVE  TagInv'
<1>. DEFINE own == tagging[r].rows
            kept == own \ W!SameLabel(r, own)
<1>0. W!TypeOK /\ W!TypeOK' /\ TagsTogether /\ TagPushRight(r)
  BY SendTyped DEF TagInv, SentRow
<1>1. /\ tagRows' = tagRows /\ tagging'[r] = [tagging[r] EXCEPT !.sent = @ + 1, !.rows = kept \cup {row}]
      /\ tagging[r].pc = "sending"
      /\ \A t \in Tagging \ {r} : tagging'[t] = tagging[t]
  BY <1>0 DEF W!TypeOK, W!Send, W!Sending
<1>2. /\ tagging'[r].push = tagging[r].push /\ tagging'[r].sent = tagging[r].sent + 1
      /\ tagging'[r].rows = kept \cup {row} /\ tagging'[r].pc = "sending"
  BY <1>0, <1>1 DEF W!TypeOK, W!RequestStates
<1>3. \A o \in kept : o \in own /\ ~SameTag(o, row)
  BY <1>0 DEF W!SameLabel, SameTag, SentRow, TagPushRight
<1>. HIDE DEF kept
<1>4. ASSUME NEW t \in Tagging, t # r PROVE Apart({row}, tagging[t].rows)
  <2>1. CASE tagging[t].pc = "sending"
    BY <1>4, <2>1 DEF SentRow, W!Uncommitted, Apart
  <2>2. CASE tagging[t].pc # "sending"
    BY <2>2 DEF TagInv, TagPushRight, Apart
  <2>. QED
    BY <2>1, <2>2
<1>5. TagPushRight(r)'
  <2>1. \A o \in tagging'[r].rows : o.by = r /\ o.repo = tagging'[r].push.repo
    BY <1>0, <1>2, <1>3 DEF SentRow, TagPushRight
  <2>2. KeyedAlone(tagging'[r].rows)
    BY <1>0, <1>2, <1>3 DEF KeyedAlone, TagPushRight, SentRow, Keyed, SameTag
  <2>3. Keyed(tagging'[r].rows, tagRows')
    BY <1>0, <1>1, <1>2, <1>3 DEF TagPushRight, SentRow, Keyed
  <2>4. \A t \in Tagging \ {r} : Apart(tagging'[r].rows, tagging'[t].rows)
    BY <1>0, <1>1, <1>2, <1>3, <1>4 DEF TagPushRight, Apart
  <2>5. ASSUME NEW i \in DOMAIN tagging[r].push.tags, i <= tagging[r].sent + 1
        PROVE  \E o \in kept \cup {row} : o.label = tagging[r].push.tags[i].label
    <3>0. i \in Nat /\ tagging[r].sent \in Nat
      BY <1>0, TagPushesOK DEF W!TypeOK, W!RequestStates, TagPushesOK
    <3>1. CASE i = tagging[r].sent + 1
      BY <3>1 DEF SentRow, W!NextTag
    <3>2. CASE i <= tagging[r].sent
      <4>1. PICK o \in own : o.label = tagging[r].push.tags[i].label
        BY <1>0, <1>1, <3>2 DEF TagPushRight
      <4>2. o.label = row.label \/ o \in kept
        BY DEF kept, W!SameLabel, SentRow
      <4>. QED
        BY <4>1, <4>2
    <3>. QED
      BY <2>5, <3>0, <3>1, <3>2
  <2>. QED
    BY <1>2, <2>1, <2>2, <2>3, <2>4, <2>5, Zenon DEF TagPushRight
<1>6. ASSUME NEW t \in Tagging, t # r PROVE TagPushRight(t)'
  <2>1. TagPushRight(t)
    BY DEF TagInv
  <2>2. Apart(tagging[t].rows, tagging'[r].rows)
    BY <1>2, <1>3, <1>4, <1>6, <2>1 DEF TagPushRight, Apart, SameTag
  <2>3. \A u \in Tagging \ {t} : Apart(tagging'[t].rows, tagging'[u].rows)
    <3>1. ASSUME NEW u \in Tagging \ {t} PROVE Apart(tagging'[t].rows, tagging'[u].rows)
      <4>1. CASE u = r
        BY <1>1, <1>6, <2>2, <4>1, Zenon
      <4>2. CASE u # r
        BY <1>1, <1>6, <2>1, <4>2 DEF TagPushRight
      <4>. QED
        BY <4>1, <4>2
    <3>. QED
      BY <3>1
  <2>4. tagging'[t] = tagging[t] /\ tagRows' = tagRows
    BY <1>1, <1>6
  <2>. QED
    BY <2>1, <2>3, <2>4 DEF TagPushRight
<1>7. TagsTogether'
  <2>1. \A t \in Tagging : /\ tagging'[t].pc = tagging[t].pc
                           /\ tagging'[t].push = tagging[t].push
                           /\ W!Labels(t)' = W!Labels(t)
    <3>1. ASSUME NEW t \in Tagging
          PROVE  tagging'[t].pc = tagging[t].pc /\ tagging'[t].push = tagging[t].push
      BY <1>1, <1>2, Zenon
    <3>. QED
      BY <3>1 DEF W!Labels
  <2>2. \A o \in tagRows : o.by \in Tagging
    BY <1>0 DEF W!TypeOK, W!Rows
  <2>. QED
    BY <1>0, <1>1, <2>1, <2>2 DEF TagsTogether, W!TagsTogether
<1>. QED
  BY <1>0, <1>1, <1>5, <1>6, <1>7 DEF TagInv

LEMMA InsertKeeps ==
    ASSUME TagInv, NEW r \in Tagging, W!Insert(r)
    PROVE  TagInv'
<1>1. PICK row : /\ row = [repo |-> tagging[r].push.repo, id |-> W!NextTag(r).id,
                           label |-> W!NextTag(r).label, by |-> r]
                 /\ W!Send(r, row)
  BY DEF W!Insert
<1>2. row \in W!Rows
  <2>0. tagging[r].push \in TagPushes /\ tagging[r].sent \in Nat
    BY DEF TagInv, W!TypeOK, W!RequestStates
  <2>1. tagging[r].push.tags \in Seq(W!Tags) /\ tagging[r].sent + 1 \in 1..Len(tagging[r].push.tags)
    BY <2>0, TagPushesOK DEF TagPushesOK, W!Insert, W!Sending
  <2>2. W!NextTag(r) \in W!Tags
    BY <2>1 DEF W!NextTag
  <2>. QED
    BY <1>1, <2>0, <2>2 DEF W!Rows
<1>3. Keyed({row}, tagRows \cup tagging[r].rows) /\ Apart({row}, W!Uncommitted(r))
  BY <1>1 DEF W!Insert, W!Known, W!SameLabel, W!SameId, Keyed, Apart, SameTag
<1>4. SentRow(r, row)
  BY <1>1, <1>2, <1>3 DEF SentRow, Keyed
<1>. QED
  BY <1>1, <1>4, SendKeeps DEF W!Insert

LEMMA MoveKeeps ==
    ASSUME TagInv, NEW r \in Tagging, W!Move(r)
    PROVE  TagInv'
<1>1. PICK old \in W!SameLabel(r, tagRows \cup tagging[r].rows) : W!Send(r, [old EXCEPT !.by = r])
  BY DEF W!Move
<1>2. PICK row : row = [old EXCEPT !.by = r]
  BY Zenon
<1>3. /\ W!TypeOK /\ TagPushRight(r)
      /\ old \in W!Rows /\ old \in tagRows \cup tagging[r].rows
      /\ old.repo = tagging[r].push.repo /\ old.label = W!NextTag(r).label
  BY <1>1 DEF TagInv, W!TypeOK, W!RequestStates, W!SameLabel
<1>4. row \in W!Rows /\ row.by = r /\ row.id = old.id /\ row.repo = old.repo /\ row.label = old.label
  BY <1>2, <1>3 DEF W!Rows
<1>5. Keyed({old}, tagRows) /\ Keyed({old}, tagging[r].rows)
  BY <1>3 DEF TagInv, TagPushRight, KeyedAlone, Keyed, SameTag
<1>6. Apart({old}, W!Uncommitted(r))
  <2>1. ASSUME NEW t \in Tagging, t # r, tagging[t].pc = "sending", NEW u \in tagging[t].rows
        PROVE  old.id # u.id /\ ~SameTag(old, u)
    <3>1. ~SameTag(old, u)
      BY <1>3, <2>1 DEF W!Move, W!SameLabel, W!Uncommitted, SameTag
    <3>2. TagPushRight(t)
      BY DEF TagInv
    <3>. QED
      BY <1>3, <2>1, <3>1, <3>2 DEF TagPushRight, Keyed, Apart, SameTag
  <2>. QED
    BY <2>1 DEF W!Uncommitted, Apart
<1>7. SentRow(r, row)
  BY <1>3, <1>4, <1>5, <1>6 DEF SentRow, Keyed, Apart, SameTag
<1>. QED
  BY <1>1, <1>2, <1>7, SendKeeps DEF W!Move

LEMMA CommitKeeps ==
    ASSUME TagInv, NEW r \in Tagging, W!Commit(r)
    PROVE  TagInv'
<1>. DEFINE own == tagging[r].rows
            kept == {row \in tagRows : \A o \in own : o.id # row.id}
<1>0. W!TypeOK /\ TagsTogether /\ TagPushRight(r) /\ tagging[r] \in W!RequestStates
  BY DEF TagInv, W!TypeOK
<1>1. /\ tagRows' = kept \cup own /\ tagging[r].pc = "sending"
      /\ tagging'[r] = [tagging[r] EXCEPT !.pc = "ok", !.rows = {}]
      /\ \A t \in Tagging \ {r} : tagging'[t] = tagging[t]
  BY <1>0 DEF W!TypeOK, W!Commit
<1>2. tagging'[r].push = tagging[r].push /\ tagging'[r].rows = {} /\ tagging'[r].pc = "ok"
  BY <1>0, <1>1 DEF W!RequestStates
<1>3. W!TypeOK'
  <2>1. tagging'[r] \in W!RequestStates
    BY <1>0, <1>1, Zenon DEF W!RequestStates
  <2>2. kept \cup own \subseteq W!Rows
    BY <1>0 DEF W!TypeOK, W!RequestStates
  <2>3. tagging' \in [Tagging -> W!RequestStates]
    BY <1>0, <2>1 DEF W!TypeOK, W!Commit
  <2>. QED
    BY <1>1, <2>2, <2>3 DEF W!TypeOK
<1>4. \A a \in own, b \in kept : a.id # b.id /\ ~SameTag(a, b)
  BY <1>0 DEF TagPushRight, Keyed
<1>5. \A b \in tagRows : b \in kept \/ \E o \in own : SameTag(o, b)
  BY <1>0 DEF TagPushRight, Keyed
<1>6. KeyedAlone(kept) /\ KeyedAlone(own) /\ kept \subseteq tagRows
  BY <1>0 DEF TagInv, TagPushRight, KeyedAlone
<1>7. \A o \in own : o.by = r /\ o.repo = tagging[r].push.repo
  BY <1>0 DEF TagPushRight
<1>8. \A label \in W!Labels(r) : \E o \in own : o.label = label
  <2>1. PICK n : n = Len(tagging[r].push.tags)
    BY Zenon
  <2>2. tagging[r].push.tags \in Seq(W!Tags) /\ tagging[r].sent \in Nat
    BY <1>0, TagPushesOK DEF TagPushesOK, W!RequestStates
  <2>3. DOMAIN tagging[r].push.tags = 1..n /\ n \in Nat /\ n <= tagging[r].sent
    BY <1>1, <2>1, <2>2 DEF W!Commit, W!Sending
  <2>4. \A i \in DOMAIN tagging[r].push.tags : i <= tagging[r].sent
    BY <2>2, <2>3
  <2>. QED
    BY <1>0, <1>1, <2>4 DEF TagPushRight, W!Labels
<1>. HIDE DEF kept, own
<1>9. KeyedAlone(tagRows')
  BY <1>1, <1>4, <1>6 DEF KeyedAlone, SameTag
<1>10. ASSUME NEW t \in Tagging PROVE TagPushRight(t)'
  <2>1. CASE t = r
    BY <1>2, <2>1 DEF TagPushRight, KeyedAlone, Keyed, Apart
  <2>2. CASE t # r
    <3>1. TagPushRight(t) /\ tagging'[t] = tagging[t]
      BY <1>1, <2>2 DEF TagInv
    <3>2. Apart(tagging[t].rows, own)
      BY <2>2, <3>1 DEF TagPushRight, own
    <3>3. Keyed(tagging[t].rows, tagRows')
      BY <1>1, <1>6, <3>1, <3>2 DEF TagPushRight, Keyed, Apart
    <3>4. \A u \in Tagging \ {t} : Apart(tagging[t].rows, tagging'[u].rows)
      <4>1. ASSUME NEW u \in Tagging \ {t} PROVE Apart(tagging[t].rows, tagging'[u].rows)
        <5>1. CASE u = r
          BY <1>2, <5>1 DEF Apart
        <5>2. CASE u # r
          BY <1>1, <3>1, <5>2 DEF TagPushRight
        <5>. QED
          BY <5>1, <5>2
      <4>. QED
        BY <4>1
    <3>. QED
      BY <3>1, <3>3, <3>4 DEF TagPushRight
  <2>. QED
    BY <2>1, <2>2
<1>11. TagsTogether'
  <2>1. \A t \in Tagging : tagging'[t].push = tagging[t].push /\ W!Labels(t)' = W!Labels(t)
    <3>1. ASSUME NEW t \in Tagging PROVE tagging'[t].push = tagging[t].push
      BY <1>1, <1>2, Zenon
    <3>. QED
      BY <3>1 DEF W!Labels
  <2>2. ASSUME NEW t \in Tagging, tagging'[t].pc = "ok", NEW label \in W!Labels(t)
        PROVE  \E row \in tagRows' : row.repo = tagging[t].push.repo /\ row.label = label
    <3>1. CASE t = r
      BY <1>1, <1>7, <1>8, <2>2, <3>1
    <3>2. CASE t # r
      <4>1. PICK row \in tagRows : row.repo = tagging[t].push.repo /\ row.label = label
        BY <1>0, <1>1, <2>2, <3>2 DEF TagsTogether, W!TagsTogether
      <4>. QED
        BY <1>1, <1>5, <4>1 DEF SameTag
    <3>. QED
      BY <3>1, <3>2
  <2>3. \A row \in kept : row.by \in Tagging /\ tagging[row.by].pc = "ok"
    BY <1>0, <1>6 DEF W!TypeOK, W!Rows, TagsTogether, W!TagsTogether
  <2>4. \A row \in tagRows' : row.by \in Tagging /\ tagging'[row.by].pc = "ok"
    BY <1>1, <1>2, <1>7, <2>3, Zenon
  <2>5. \A a \in own, b \in kept : a.repo = b.repo => b.label \notin W!Labels(r)
    BY <1>4, <1>7, <1>8 DEF SameTag
  <2>6. ASSUME NEW a \in tagRows', NEW b \in tagRows', a.repo = b.repo,
               {a.label, b.label} \subseteq W!Labels(a.by) \cap W!Labels(b.by)
        PROVE  a.by = b.by
    <3>1. CASE a \in kept /\ b \in kept
      BY <1>0, <1>6, <2>6, <3>1 DEF TagsTogether, W!TagsTogether
    <3>2. CASE a \in own /\ b \in own
      BY <1>7, <3>2
    <3>3. CASE a \in own /\ b \in kept
      BY <1>7, <2>5, <2>6, <3>3
    <3>4. CASE a \in kept /\ b \in own
      BY <1>7, <2>5, <2>6, <3>4
    <3>. QED
      BY <1>1, <3>1, <3>2, <3>3, <3>4
  <2>7. \A a \in tagRows' : W!Labels(a.by)' = W!Labels(a.by)
    BY <2>1, <2>4
  <2>8. \A t \in Tagging : tagging'[t].pc = "ok" =>
           \A label \in W!Labels(t)' :
               \E row \in tagRows' : row.repo = tagging'[t].push.repo /\ row.label = label
    BY <2>1, <2>2
  <2>9. \A a, b \in tagRows' :
           /\ a.repo = b.repo
           /\ {a.label, b.label} \subseteq W!Labels(a.by)' \cap W!Labels(b.by)'
           => a.by = b.by
    BY <2>6, <2>7
  <2>. QED
    BY <2>4, <2>8, <2>9 DEF TagsTogether, W!TagsTogether
<1>. QED
  BY <1>3, <1>9, <1>10, <1>11 DEF TagInv

LEMMA TagsStep == TagInv /\ [W!Next]_tagVars => TagInv'
<1>1. ASSUME TagInv, NEW r \in Tagging, W!PushTags(r) \/ W!Fail(r) PROVE TagInv'
  <2>1. W!TypeOK /\ tagging[r] \in W!RequestStates
    BY <1>1 DEF TagInv, W!TypeOK
  <2>2. CASE W!PushTags(r)
    <3>1. PICK push \in TagPushes : tagging' = [tagging EXCEPT ![r].push = push, ![r].pc = "sending"]
      BY <2>2, Zenon DEF W!PushTags
    <3>2. [tagging[r] EXCEPT !.push = push, !.pc = "sending"] \in W!RequestStates
      BY <2>1, Zenon DEF W!RequestStates
    <3>3. tagging'[r] = [tagging[r] EXCEPT !.push = push, !.pc = "sending"]
      BY <2>1, <3>1 DEF W!TypeOK
    <3>4. /\ tagging[r].pc = "idle" /\ tagging'[r].pc = "sending" /\ tagRows' = tagRows
          /\ tagging'[r].rows = {} /\ tagging'[r].sent = 0
      BY <1>1, <2>1, <2>2, <3>3, Zenon DEF W!PushTags, W!RequestStates, TagInv, TagPushRight
    <3>5. W!TypeOK' /\ \A t \in Tagging \ {r} : tagging'[t] = tagging[t]
      BY <2>1, <3>1, <3>2, <3>4 DEF W!TypeOK
    <3>. QED
      BY <1>1, <3>4, <3>5, TagsQuiet
  <2>3. CASE W!Fail(r)
    <3>1. [tagging[r] EXCEPT !.pc = "error", !.rows = {}] \in W!RequestStates
      BY <2>1, Zenon DEF W!RequestStates
    <3>2. tagging'[r] = [tagging[r] EXCEPT !.pc = "error", !.rows = {}]
      BY <2>1, <2>3 DEF W!Fail, W!TypeOK
    <3>. QED
      BY <1>1, <2>1, <2>3, <3>1, <3>2, TagsQuiet DEF W!Fail, W!TypeOK, W!RequestStates
  <2>. QED
    BY <1>1, <2>2, <2>3
<1>2. ASSUME TagInv, UNCHANGED tagVars PROVE TagInv'
  <2>1. tagRows' = tagRows /\ tagging' = tagging
    BY <1>2 DEF tagVars
  <2>2. TagsTogether' /\ W!TypeOK'
    BY <1>2, <2>1 DEF TagInv, TagsTogether, W!TagsTogether, W!Labels, W!TypeOK
  <2>3. \A r \in Tagging : TagPushRight(r)'
    BY <1>2, <2>1 DEF TagInv, TagPushRight
  <2>. QED
    BY <1>2, <2>1, <2>2, <2>3 DEF TagInv
<1>. QED
  BY <1>1, <1>2, InsertKeeps, MoveKeeps, CommitKeeps DEF W!Next

(***************************************************************************)
(* Tags pushed together are stored together, whatever clients push and     *)
(* however many pushes overlap (musehub_wire_tags.py:71).                  *)
(***************************************************************************)
THEOREM TagsAlwaysTogether == AllSpec => []TagsTogether
<1>1. AllInit => TagInv
  BY TagsInit DEF AllInit
<1>2. TagInv /\ [AllNext]_allVars => TagInv'
  <2>1. [AllNext]_allVars => [W!Next]_tagVars
    BY DEF AllNext, Others, allVars
  <2>. QED
    BY <2>1, TagsStep
<1>3. TagInv => TagsTogether
  BY DEF TagInv
<1>. QED
  BY <1>1, <1>2, <1>3, PTL DEF AllSpec

-----------------------------------------------------------------------------
(***************************************************************************)
(* Access.  What a request decides by was true at some time while it ran:  *)
(* who owned the repository when it was read, which rows there were when   *)
(* it looked.  A request that began after another was answered has seen    *)
(* what that one left, or what somebody else made of it since.             *)
(***************************************************************************)
OwnerGiven(g) ==
    (A!Done(g, "invite") \/ A!Done(g, "update")) /\ A!Call(g).permission = "owner"

Lost(g) ==
    \E q \in Asking \ {g} : /\ A!Done(q, "update") \/ A!Done(q, "remove")
                            /\ A!Call(q).target = A!Call(g).target
                            /\ A!Overlap(q, g)

Overwritten(p) ==
    \E q \in Asking \ {p} :
        /\ A!Done(q, "settings")
        /\ \/ A!Call(q).field = A!Call(p).field /\ q \notin asking[p].before
           \/ {A!Call(p).field, A!Call(q).field} \subseteq FlagSettings /\ A!Overlap(q, p)

Passed == {"target", "load", "writing", "refreshing", "ok", "unread"}

Active == Passed \cup {"repo", "actor"}

Allowed(q) == q.may

\* What holds of a request that writes, about those answered before it began.
WritesAfter(q) ==
    /\ q.call.kind \in {"update", "remove"} =>
          /\ \A row \in q.found : row.user = q.call.target
          /\ \E row \in q.found : row.permission # "owner"
          /\ \A g \in q.before : OwnerGiven(g) /\ A!Call(g).target = q.call.target => Lost(g)
    /\ q.call.kind = "settings" =>
          \A p \in q.before : A!Done(p, "settings") =>
              q.seen.settings[A!Call(p).field] = p \/ Overwritten(p)

\* Where a call of a kind can be.
InPlace(kind, pc) ==
    /\ pc = "actor" => kind \in A!Managing \cup {"settings"}
    /\ pc = "target" => kind \in A!Managing
    /\ pc = "load" => kind \notin A!Managing

AccessRight(r) ==
    LET q == asking[r]
    IN  /\ q.before \subseteq A!Ended \ {r}
        /\ q.pc \in Active /\ A!Entitled(q.call, repo.owner, collab) => Allowed(q)
        /\ q.pc = "actor" /\ q.call.actor = q.seen.owner => Allowed(q)
        /\ q.pc \in Passed => Allowed(q)
        /\ \A d \in q.before : A!Done(d, "delete") => q.pc \in {"idle", "repo", "refused", "error"}
        /\ A!Done(r, "delete") => repo.deleted
        /\ q.pc = "writing" => WritesAfter(q)
        /\ InPlace(q.call.kind, q.pc)

AccessInv ==
    /\ A!TypeOK
    /\ \A a, b \in collab : a.user = b.user => a = b
    /\ \A r \in Asking : AccessRight(r)
    /\ \A g \in Asking : OwnerGiven(g) =>
          Lost(g) \/ \E row \in collab : row.user = A!Call(g).target /\ row.permission = "owner"
    /\ \A p \in Asking : A!Done(p, "settings") =>
          repo.settings[A!Call(p).field] = p \/ Overwritten(p)

LEMMA AccessSafe == AccessInv => AccessHolds
<1>. SUFFICES ASSUME AccessInv PROVE AccessHolds
  OBVIOUS
<1>1. A!Entitlement
  BY DEF AccessInv, AccessRight, Allowed, A!Entitlement, A!Committed, Passed
<1>2. A!OwnersStay
  BY DEF AccessInv, OwnerGiven, Lost, A!OwnersStay, A!RowsOf
<1>3. A!DeletedIsGone
  BY DEF AccessInv, AccessRight, A!DeletedIsGone, A!Committed
<1>4. A!PatchesKept
  BY DEF AccessInv, Overwritten, A!PatchesKept
<1>. QED
  BY <1>1, <1>2, <1>3, <1>4 DEF AccessHolds, A!AccessHolds

LEMMA AccessInit == A!Init => AccessInv
<1>. SUFFICES ASSUME A!Init PROVE AccessInv
  OBVIOUS
<1>1. A!TypeOK
  <2>1. repo \in A!Repos
    BY AccessOK DEF A!Init, A!Repos, A!Ids, AccessOK
  <2>2. \A u \in Admins : [id |-> 0, user |-> u, permission |-> "admin", accepted |-> TRUE] \in A!Rows
    BY AccessOK DEF A!Rows, A!Ids, A!Permissions, AccessOK
  <2>3. A!NoRequest \in A!RequestStates
    BY <2>1, AccessOK DEF A!NoRequest, A!RequestStates, AccessOK
  <2>. QED
    BY <2>1, <2>2, <2>3 DEF A!Init, A!TypeOK
<1>2. \A r \in Asking : asking[r].pc = "idle" /\ asking[r].before = {}
  BY DEF A!Init, A!NoRequest
<1>3. \A r \in Asking : ~A!Committed(r)
  BY <1>2 DEF A!Committed
<1>4. \A a, b \in collab : a.user = b.user => a = b
  <2>1. \A a \in collab : a = [id |-> 0, user |-> a.user, permission |-> "admin", accepted |-> TRUE]
    BY DEF A!Init
  <2>. QED
    BY <2>1, Zenon
<1>. QED
  BY <1>1, <1>2, <1>3, <1>4
     DEF AccessInv, AccessRight, OwnerGiven, A!Done, Active, Passed, InPlace

(***************************************************************************)
(* A step that writes nothing leaves what was answered as it was.          *)
(***************************************************************************)
LEMMA AccessSame ==
    ASSUME NEW r \in Asking, \A q \in Asking \ {r} : asking'[q] = asking[q],
           A!Committed(r)' <=> A!Committed(r),
           A!Committed(r) =>
               asking'[r].call = asking[r].call /\ asking'[r].before = asking[r].before
    PROVE  /\ \A q \in Asking : \A k : A!Done(q, k)' <=> A!Done(q, k)
           /\ \A q \in Asking : A!Committed(q) => A!Call(q)' = A!Call(q)
           /\ \A q \in Asking : OwnerGiven(q)' <=> OwnerGiven(q)
           /\ \A q \in Asking : A!Committed(q) => (Lost(q)' <=> Lost(q))
           /\ \A q \in Asking : A!Committed(q) => (Overwritten(q)' <=> Overwritten(q))
<1>1. \A q \in Asking : A!Committed(q)' <=> A!Committed(q)
  BY DEF A!Committed
<1>2. \A q \in Asking : A!Committed(q) =>
         asking'[q].call = asking[q].call /\ asking'[q].before = asking[q].before
  OBVIOUS
<1>3. \A q \in Asking : \A k : A!Done(q, k)' <=> A!Done(q, k)
  BY <1>1, <1>2 DEF A!Done, A!Call
<1>4. \A q \in Asking : A!Committed(q) => A!Call(q)' = A!Call(q)
  BY <1>2 DEF A!Call
<1>5. \A q \in Asking : OwnerGiven(q)' <=> OwnerGiven(q)
  BY <1>3, <1>4 DEF OwnerGiven, A!Done
<1>6. \A a, b \in Asking : A!Committed(a) /\ A!Committed(b) => (A!Overlap(a, b)' <=> A!Overlap(a, b))
  BY <1>2 DEF A!Overlap
<1>7. \A g \in Asking : A!Committed(g) => (Lost(g)' <=> Lost(g))
  BY <1>3, <1>4, <1>6 DEF Lost, A!Done
<1>8. \A p \in Asking : A!Committed(p) => (Overwritten(p)' <=> Overwritten(p))
  BY <1>2, <1>3, <1>4, <1>6 DEF Overwritten, A!Done
<1>. QED
  BY <1>3, <1>4, <1>5, <1>7, <1>8

LEMMA WritesSame ==
    ASSUME NEW r \in Asking, \A q \in Asking \ {r} : asking'[q] = asking[q],
           A!Committed(r)' <=> A!Committed(r),
           A!Committed(r) =>
               asking'[r].call = asking[r].call /\ asking'[r].before = asking[r].before,
           NEW q, q.before \subseteq Asking, WritesAfter(q)
    PROVE  WritesAfter(q)'
<1>1. \A g \in q.before : OwnerGiven(g)' =>
         OwnerGiven(g) /\ (Lost(g)' <=> Lost(g)) /\ A!Call(g)' = A!Call(g)
  BY AccessSame DEF OwnerGiven, A!Done
<1>2. \A p \in q.before : A!Done(p, "settings")' =>
         A!Done(p, "settings") /\ (Overwritten(p)' <=> Overwritten(p)) /\ A!Call(p)' = A!Call(p)
  BY AccessSame DEF A!Done
<1>. QED
  BY <1>1, <1>2 DEF WritesAfter

LEMMA AccessQuiet ==
    ASSUME AccessInv, A!TypeOK', NEW r \in Asking, repo' = repo, collab' = collab,
           \A q \in Asking \ {r} : asking'[q] = asking[q],
           A!Committed(r)' <=> A!Committed(r),
           A!Committed(r) =>
               asking'[r].call = asking[r].call /\ asking'[r].before = asking[r].before,
           r \in A!Ended => r \in A!Ended',
           AccessRight(r)'
    PROVE  AccessInv'
<1>1. /\ \A q \in Asking : \A k : A!Done(q, k)' <=> A!Done(q, k)
      /\ \A q \in Asking : A!Committed(q) => A!Call(q)' = A!Call(q)
      /\ \A q \in Asking : OwnerGiven(q)' <=> OwnerGiven(q)
      /\ \A q \in Asking : A!Committed(q) => (Lost(q)' <=> Lost(q))
      /\ \A q \in Asking : A!Committed(q) => (Overwritten(q)' <=> Overwritten(q))
  BY AccessSame
<1>2. A!Ended \subseteq A!Ended'
  BY DEF A!Ended
<1>3. ASSUME NEW q \in Asking, q # r PROVE AccessRight(q)'
  <2>1. AccessRight(q) /\ asking'[q] = asking[q]
    BY <1>3 DEF AccessInv
  <2>2. asking[q].before \subseteq Asking
    BY <2>1 DEF AccessRight, A!Ended
  <2>3. asking[q].pc = "writing" => WritesAfter(asking[q])'
    <3>1. PICK rec : rec = asking[q]
      OBVIOUS
    <3>2. asking[q].pc = "writing" => WritesAfter(rec)'
      BY <2>1, <2>2, <3>1, WritesSame DEF AccessRight
    <3>. QED
      BY <2>1, <3>1, <3>2 DEF WritesAfter
  <2>. QED
    BY <1>1, <1>2, <2>1, <2>2, <2>3 DEF AccessRight
<1>4. ASSUME NEW g \in Asking, OwnerGiven(g)'
      PROVE  Lost(g)' \/ \E row \in collab : row.user = A!Call(g)'.target /\ row.permission = "owner"
  BY <1>1, <1>4 DEF AccessInv, OwnerGiven, A!Done
<1>5. ASSUME NEW p \in Asking, A!Done(p, "settings")'
      PROVE  repo.settings[A!Call(p)'.field] = p \/ Overwritten(p)'
  BY <1>1, <1>5 DEF AccessInv, A!Done
<1>. QED
  BY <1>3, <1>4, <1>5 DEF AccessInv

\* What a request is made of.
LEMMA AccessTypes ==
    ASSUME A!TypeOK, NEW r \in Asking
    PROVE  /\ asking[r] \in A!RequestStates /\ asking[r].call \in A!AllCalls
           /\ asking[r].found \subseteq A!Rows /\ asking[r].seen \in A!Repos
           /\ asking[r].may \in BOOLEAN
BY AccessOK DEF A!TypeOK, A!RequestStates, AccessOK

LEMMA AccessBegins ==
    ASSUME AccessInv, NEW r \in Asking, A!Begin(r)
    PROVE  AccessInv'
<1>0. A!TypeOK /\ asking[r] \in A!RequestStates /\ asking[r].pc = "idle"
  <2>1. A!IsNext(r)
    BY DEF A!Begin
  <2>. QED
    BY <2>1 DEF AccessInv, A!TypeOK, A!IsNext
<1>1. PICK call \in AskedCalls :
         asking' = [asking EXCEPT ![r].call = call, ![r].pc = "repo", ![r].before = A!Ended,
                                  ![r].may = A!Entitled(call, repo.owner, collab)]
  BY Zenon DEF A!Begin
<1>a. PICK may : may = A!Entitled(call, repo.owner, collab)
  OBVIOUS
<1>b. asking' = [asking EXCEPT ![r].call = call, ![r].pc = "repo", ![r].before = A!Ended, ![r].may = may]
  BY <1>1, <1>a, Zenon
<1>2. PICK begun : begun = [asking[r] EXCEPT !.call = call, !.pc = "repo", !.before = A!Ended, !.may = may]
  OBVIOUS
<1>3. asking' = [asking EXCEPT ![r] = begun] /\ asking'[r] = begun
  BY <1>0, <1>b, <1>2, Zenon DEF A!TypeOK
<1>4. begun \in A!RequestStates
  <2>1. A!Ended \subseteq Asking
    BY DEF A!Ended
  <2>2. may \in BOOLEAN
    BY <1>a DEF A!Entitled
  <2>. QED
    BY <1>0, <1>2, <2>1, <2>2, Zenon DEF A!RequestStates
<1>5. /\ begun.call = call /\ begun.pc = "repo" /\ begun.before = A!Ended
      /\ begun.may = may
  BY <1>0, <1>2 DEF A!RequestStates
<1>6. repo' = repo /\ collab' = collab /\ \A q \in Asking \ {r} : asking'[q] = asking[q]
  BY <1>0, <1>3 DEF A!Begin, A!TypeOK
<1>7. A!TypeOK'
  BY <1>0, <1>3, <1>4, <1>6 DEF A!TypeOK
<1>8. ~A!Committed(r) /\ ~A!Committed(r)' /\ r \notin A!Ended
  BY <1>0, <1>3, <1>5 DEF A!Committed, A!Ended
<1>9. A!Ended \subseteq A!Ended'
  BY <1>6, <1>8 DEF A!Ended
<1>10. AccessRight(r)'
  BY <1>a, <1>3, <1>5, <1>6, <1>8, <1>9 DEF AccessRight, Allowed, Passed, A!Done, InPlace
<1>. QED
  BY <1>0, <1>6, <1>7, <1>8, <1>10, AccessQuiet

\* A request under way goes on to another place.
Onward(q, pc, seen, found) == [q EXCEPT !.pc = pc, !.seen = seen, !.found = found]

MayGo(r, pc, seen, found) ==
    /\ asking[r].pc \in {"repo", "actor", "target", "load", "writing"}
    /\ pc \in {"actor", "target", "load", "writing", "refused", "error"}
    /\ seen \in A!Repos /\ found \subseteq A!Rows
    /\ pc = "actor" /\ asking[r].call.actor = seen.owner => Allowed(asking[r])
    /\ pc \in Passed => Allowed(asking[r])
    /\ pc \notin {"refused", "error"} => \A d \in asking[r].before : ~A!Done(d, "delete")
    /\ pc = "writing" => WritesAfter(Onward(asking[r], pc, seen, found))
    /\ InPlace(asking[r].call.kind, pc)

LEMMA AccessGoes ==
    ASSUME AccessInv, NEW r \in Asking, NEW pc, NEW seen, NEW found, MayGo(r, pc, seen, found),
           asking' = [asking EXCEPT ![r] = Onward(asking[r], pc, seen, found)],
           repo' = repo, collab' = collab
    PROVE  AccessInv'
<1>0. A!TypeOK /\ asking[r] \in A!RequestStates /\ AccessRight(r)
  BY AccessTypes DEF AccessInv
<1>a. PICK goes : goes = Onward(asking[r], pc, seen, found)
  OBVIOUS
<1>b. asking' = [asking EXCEPT ![r] = goes]
  BY <1>a
<1>1. asking'[r] = goes
  BY <1>0, <1>b DEF A!TypeOK
<1>2. /\ goes \in A!RequestStates /\ goes.pc = pc /\ goes.seen = seen /\ goes.found = found
      /\ goes.call = asking[r].call /\ goes.may = asking[r].may /\ goes.before = asking[r].before
  BY <1>0, <1>a, Zenon DEF A!RequestStates, Onward, MayGo
<1>3. A!TypeOK'
  BY <1>0, <1>b, <1>2 DEF A!TypeOK
<1>4. \A q \in Asking \ {r} : asking'[q] = asking[q]
  BY <1>0, <1>b DEF A!TypeOK
<1>5. ~A!Committed(r) /\ ~A!Committed(r)' /\ r \notin A!Ended
  BY <1>1, <1>2 DEF A!Committed, A!Ended, MayGo
<1>6. A!Ended \subseteq A!Ended'
  BY <1>4, <1>5 DEF A!Ended
<1>7. \A d \in asking[r].before : d # r /\ d \in Asking /\ (A!Done(d, "delete")' <=> A!Done(d, "delete"))
  BY <1>0, <1>4 DEF AccessRight, A!Ended, A!Done, A!Committed, A!Call
<1>8. pc = "writing" => WritesAfter(goes)'
  BY <1>a, <1>2, <1>4, <1>5, <1>7, WritesSame DEF MayGo
<1>9. AccessRight(r)'
  <2>1. goes.before \subseteq A!Ended' \ {r}
    BY <1>0, <1>2, <1>6 DEF AccessRight
  <2>2. pc = "writing" => WritesAfter(asking[r])'
    BY <1>1, <1>8 DEF WritesAfter
  <2>3. ~A!Done(r, "delete")'
    BY <1>5 DEF A!Done
  <2>4. \A d \in goes.before : A!Done(d, "delete")' => pc \in {"refused", "error"}
    BY <1>2, <1>7 DEF MayGo
  <2>5. pc \in Active /\ A!Entitled(goes.call, repo.owner, collab) => Allowed(goes)
    BY <1>0, <1>2 DEF AccessRight, Allowed, Active, Passed, MayGo
  <2>6. (pc \in Passed => Allowed(goes)) /\ (pc = "actor" /\ goes.call.actor = seen.owner => Allowed(goes))
    BY <1>2 DEF Allowed, MayGo
  <2>7. InPlace(goes.call.kind, pc)
    BY <1>2 DEF MayGo
  <2>8. Allowed(asking[r])' <=> Allowed(goes)
    BY <1>1 DEF Allowed
  <2>. QED
    BY <1>1, <1>2, <2>1, <2>2, <2>3, <2>4, <2>5, <2>6, <2>7, <2>8 DEF AccessRight
<1>. QED
  BY <1>3, <1>4, <1>5, <1>9, AccessQuiet

LEMMA ReadsRepo ==
    ASSUME AccessInv, NEW r \in Asking, A!ReadRepo(r)
    PROVE  AccessInv'
<1>0. /\ A!TypeOK /\ asking[r] \in A!RequestStates /\ AccessRight(r) /\ repo \in A!Repos
      /\ asking[r].found \subseteq A!Rows /\ asking[r].pc = "repo"
  BY AccessTypes DEF AccessInv, A!TypeOK, A!ReadRepo
<1>1. \A d \in asking[r].before : A!Done(d, "delete") => repo.deleted
  BY <1>0 DEF AccessInv, AccessRight, A!Ended
<1>2. PICK pc : pc = IF repo.deleted THEN "refused"
                     ELSE IF A!Call(r).kind \in A!Managing THEN "actor"
                     ELSE IF A!Call(r).actor = repo.owner THEN "load"
                     ELSE IF A!Call(r).kind = "settings" THEN "actor"
                     ELSE "refused"
  OBVIOUS
<1>3. asking' = [asking EXCEPT ![r] = Onward(asking[r], pc, repo, asking[r].found)]
  BY <1>0, <1>2, Zenon DEF A!ReadRepo, A!TypeOK, A!RequestStates, Onward
<1>4. A!Call(r).actor = repo.owner => Allowed(asking[r])
  BY <1>0 DEF AccessRight, Active, A!Entitled, A!Call
<1>5. InPlace(asking[r].call.kind, pc)
  BY <1>2 DEF InPlace, A!Call
<1>6. pc \in {"actor", "load", "refused"} /\ (pc = "load" => A!Call(r).actor = repo.owner)
  BY <1>2
<1>7. pc # "refused" => \A d \in asking[r].before : ~A!Done(d, "delete")
  BY <1>1, <1>2
<1>8. MayGo(r, pc, repo, asking[r].found)
  BY <1>0, <1>4, <1>5, <1>6, <1>7 DEF MayGo, Passed, A!Call
<1>9. repo' = repo /\ collab' = collab
  BY DEF A!ReadRepo
<1>. QED
  BY <1>3, <1>8, <1>9, AccessGoes, Zenon

LEMMA FindsActor ==
    ASSUME AccessInv, NEW r \in Asking, A!FindActor(r)
    PROVE  AccessInv'
<1>0. /\ A!TypeOK /\ asking[r] \in A!RequestStates /\ AccessRight(r) /\ asking[r].seen \in A!Repos
      /\ asking[r].found \subseteq A!Rows /\ asking[r].pc = "actor"
  BY AccessTypes DEF AccessInv, A!FindActor
<1>1. PICK pc : pc = IF ~A!Entitled(A!Call(r), asking[r].seen.owner, collab) THEN "refused"
                     ELSE IF A!Call(r).kind = "settings" THEN "load" ELSE "target"
  OBVIOUS
<1>2. asking' = [asking EXCEPT ![r].pc = pc] /\ repo' = repo /\ collab' = collab
  BY <1>1 DEF A!FindActor, A!Goto
<1>3. asking' = [asking EXCEPT ![r] = Onward(asking[r], pc, asking[r].seen, asking[r].found)]
  BY <1>0, <1>2, Zenon DEF A!TypeOK, A!RequestStates, Onward
<1>4. pc # "refused" => Allowed(asking[r])
  BY <1>0, <1>1 DEF AccessRight, Active, A!Entitled, A!Call
<1>5. \A d \in asking[r].before : ~A!Done(d, "delete")
  BY <1>0 DEF AccessRight
<1>6. InPlace(asking[r].call.kind, pc)
  BY <1>0, <1>1 DEF AccessRight, InPlace, A!Call, A!Managing
<1>7. pc \in {"target", "load", "refused"}
  BY <1>1
<1>8. MayGo(r, pc, asking[r].seen, asking[r].found)
  BY <1>0, <1>4, <1>5, <1>6, <1>7 DEF MayGo, Passed
<1>. QED
  BY <1>2, <1>3, <1>8, AccessGoes, Zenon

LEMMA FindsTarget ==
    ASSUME AccessInv, NEW r \in Asking, A!FindTarget(r)
    PROVE  AccessInv'
<1>0. /\ A!TypeOK /\ asking[r] \in A!RequestStates /\ AccessRight(r) /\ asking[r].seen \in A!Repos
      /\ collab \subseteq A!Rows /\ asking[r].pc = "target"
  BY AccessTypes DEF AccessInv, A!TypeOK, A!FindTarget
<1>. DEFINE fits == IF A!Call(r).kind = "invite" THEN A!RowsOf(A!Call(r).target) = {}
                    ELSE \E row \in A!RowsOf(A!Call(r).target) : row.permission # "owner"
<1>1. PICK pc : pc = IF fits THEN "writing" ELSE "refused"
  OBVIOUS
<1>2. PICK found : found = IF fits THEN A!RowsOf(A!Call(r).target) ELSE {}
  BY Zenon
<1>3. asking' = [asking EXCEPT ![r].pc = pc, ![r].found = found] /\ repo' = repo /\ collab' = collab
  BY <1>1, <1>2 DEF A!FindTarget
<1>4. asking' = [asking EXCEPT ![r] = Onward(asking[r], pc, asking[r].seen, found)]
  BY <1>0, <1>3, Zenon DEF A!TypeOK, A!RequestStates, Onward
<1>5. Allowed(asking[r]) /\ \A d \in asking[r].before : ~A!Done(d, "delete")
  BY <1>0 DEF AccessRight, Passed
<1>6. asking[r].call.kind \in A!Managing /\ pc \in {"writing", "refused"}
  BY <1>0, <1>1 DEF AccessRight, InPlace
<1>7. ASSUME pc = "writing" PROVE WritesAfter(Onward(asking[r], pc, asking[r].seen, found))
  <2>. DEFINE goes == Onward(asking[r], pc, asking[r].seen, found)
  <2>1. goes.found = found /\ goes.call = asking[r].call /\ goes.before = asking[r].before
    BY <1>0 DEF A!RequestStates, Onward
  <2>. HIDE DEF goes
  <2>2. goes.call.kind # "settings"
    BY <1>6, <2>1 DEF A!Managing
  <2>3. ASSUME goes.call.kind \in {"update", "remove"}
        PROVE  /\ \A row \in found : row.user = goes.call.target
               /\ \E row \in found : row.permission # "owner"
               /\ \A row \in collab : row.user = goes.call.target => row.permission # "owner"
    <3>1. fits /\ A!Call(r).kind # "invite"
      BY <1>1, <1>7, <2>1, <2>3 DEF A!Call
    <3>2. \A a, b \in collab : a.user = b.user => a = b
      BY DEF AccessInv
    <3>. QED
      BY <1>2, <2>1, <3>1, <3>2 DEF A!RowsOf, A!Call
  <2>4. \A g \in asking[r].before : OwnerGiven(g) =>
           Lost(g) \/ \E row \in collab : row.user = A!Call(g).target /\ row.permission = "owner"
    BY <1>0 DEF AccessInv, AccessRight, A!Ended
  <2>. QED
    BY <2>1, <2>2, <2>3, <2>4 DEF WritesAfter, goes
<1>8. InPlace(asking[r].call.kind, pc) /\ found \subseteq A!Rows
  BY <1>0, <1>2, <1>6 DEF InPlace, A!RowsOf
<1>9. MayGo(r, pc, asking[r].seen, found)
  BY <1>0, <1>5, <1>6, <1>7, <1>8 DEF MayGo, Passed
<1>. QED
  BY <1>3, <1>4, <1>9, AccessGoes, Zenon

LEMMA LoadsRepo ==
    ASSUME AccessInv, NEW r \in Asking, A!LoadRepo(r)
    PROVE  AccessInv'
<1>0. /\ A!TypeOK /\ asking[r] \in A!RequestStates /\ AccessRight(r) /\ repo \in A!Repos
      /\ asking[r].found \subseteq A!Rows /\ asking[r].pc = "load"
  BY AccessTypes DEF AccessInv, A!TypeOK, A!LoadRepo
<1>1. PICK pc : pc = IF repo.deleted /\ A!Call(r).kind # "settings" THEN "refused" ELSE "writing"
  OBVIOUS
<1>2. asking' = [asking EXCEPT ![r].pc = pc, ![r].seen = repo] /\ repo' = repo /\ collab' = collab
  BY <1>1 DEF A!LoadRepo
<1>3. asking' = [asking EXCEPT ![r] = Onward(asking[r], pc, repo, asking[r].found)]
  BY <1>0, <1>2, Zenon DEF A!TypeOK, A!RequestStates, Onward
<1>4. Allowed(asking[r]) /\ \A d \in asking[r].before : ~A!Done(d, "delete")
  BY <1>0 DEF AccessRight, Passed
<1>5. asking[r].call.kind \notin A!Managing /\ pc \in {"writing", "refused"}
  BY <1>0, <1>1 DEF AccessRight, InPlace
<1>6. WritesAfter(Onward(asking[r], pc, repo, asking[r].found))
  <2>. DEFINE goes == Onward(asking[r], pc, repo, asking[r].found)
  <2>1. goes.seen = repo /\ goes.call = asking[r].call /\ goes.before = asking[r].before
    BY <1>0 DEF A!RequestStates, Onward
  <2>. HIDE DEF goes
  <2>2. goes.call.kind \notin {"update", "remove"}
    BY <1>5, <2>1 DEF A!Managing
  <2>3. \A p \in asking[r].before : A!Done(p, "settings") =>
           repo.settings[A!Call(p).field] = p \/ Overwritten(p)
    BY <1>0 DEF AccessInv, AccessRight, A!Ended
  <2>. QED
    BY <2>1, <2>2, <2>3 DEF WritesAfter, goes
<1>7. InPlace(asking[r].call.kind, pc)
  BY <1>5 DEF InPlace
<1>8. MayGo(r, pc, repo, asking[r].found)
  BY <1>0, <1>4, <1>5, <1>6, <1>7 DEF MayGo, Passed
<1>. QED
  BY <1>2, <1>3, <1>8, AccessGoes, Zenon

\* An error, or the answer after the row was read again.
LEMMA AccessEnds ==
    ASSUME AccessInv, NEW r \in Asking, A!Collides(r) \/ A!Fail(r) \/ A!Refresh(r)
    PROVE  AccessInv'
<1>0. A!TypeOK /\ asking[r] \in A!RequestStates /\ AccessRight(r) /\ A!TypeOK
  BY AccessTypes DEF AccessInv
<1>1. CASE A!Collides(r) \/ A!Fail(r)
  <2>1. /\ asking[r].pc \in {"repo", "actor", "target", "load", "writing"}
        /\ asking' = [asking EXCEPT ![r].pc = "error"] /\ repo' = repo /\ collab' = collab
    BY <1>1 DEF A!Collides, A!Fail, A!Goto, A!Writing
  <2>2. asking' = [asking EXCEPT ![r] = Onward(asking[r], "error", asking[r].seen, asking[r].found)]
    BY <1>0, <2>1, Zenon DEF A!TypeOK, A!RequestStates, Onward
  <2>3. MayGo(r, "error", asking[r].seen, asking[r].found)
    BY <1>0, <2>1, AccessTypes DEF MayGo, Passed, InPlace
  <2>. QED
    BY <2>1, <2>2, <2>3, AccessGoes, Zenon
<1>2. CASE A!Refresh(r)
  <2>1. PICK pc \in {"ok", "unread"} : asking' = [asking EXCEPT ![r].pc = pc]
    BY <1>2, Zenon DEF A!Refresh, A!Goto
  <2>2. repo' = repo /\ collab' = collab /\ asking[r].pc = "refreshing"
    BY <1>2 DEF A!Refresh, A!Goto
  <2>3. PICK ends : ends = [asking[r] EXCEPT !.pc = pc]
    BY Zenon
  <2>4. asking' = [asking EXCEPT ![r] = ends] /\ asking'[r] = ends
    BY <1>0, <2>1, <2>3 DEF A!TypeOK
  <2>5. /\ ends \in A!RequestStates /\ ends.pc = pc /\ ends.call = asking[r].call
        /\ ends.before = asking[r].before /\ ends.may = asking[r].may
    BY <1>0, <2>1, <2>3 DEF A!RequestStates
  <2>6. A!TypeOK' /\ \A q \in Asking \ {r} : asking'[q] = asking[q]
    BY <1>0, <2>2, <2>4, <2>5 DEF A!TypeOK
  <2>7. A!Committed(r) /\ A!Committed(r)' /\ A!Ended \subseteq A!Ended'
    BY <2>1, <2>2, <2>4, <2>5, <2>6 DEF A!Committed, A!Ended
  <2>8. \A d \in asking[r].before \cup {r} : d \in Asking /\ (A!Done(d, "delete")' <=> A!Done(d, "delete"))
    BY <1>0, <2>4, <2>5, <2>6, <2>7 DEF AccessRight, A!Ended, A!Done, A!Committed, A!Call
  <2>9. Allowed(asking[r])' <=> Allowed(asking[r])
    BY <2>4, <2>5 DEF Allowed
  <2>10. AccessRight(r)'
    BY <1>0, <2>1, <2>2, <2>4, <2>5, <2>7, <2>8, <2>9 DEF AccessRight, Passed, InPlace
  <2>. QED
    BY <2>2, <2>4, <2>5, <2>6, <2>7, <2>10, AccessQuiet
<1>. QED
  BY <1>1, <1>2

\* The answer of a request that writes; the others may get their right by it.
LEMMA AnswerFacts ==
    ASSUME A!TypeOK, NEW r \in Asking, NEW pc \in {"ok", "refreshing"}, asking[r].pc = "writing",
           A!Answer(r, pc), repo' \in A!Repos, collab' \subseteq A!Rows
    PROVE  /\ A!TypeOK'
           /\ \A q \in Asking :
                 /\ asking'[q].call = asking[q].call /\ asking'[q].before = asking[q].before
                 /\ asking'[q].seen = asking[q].seen /\ asking'[q].found = asking[q].found
                 /\ Allowed(asking[q]) => Allowed(asking'[q])
           /\ \A q \in Asking \ {r} :
                 /\ asking'[q].pc = asking[q].pc
                 /\ asking[q].pc \in {"repo", "actor"} /\ A!Entitled(asking[q].call, repo'.owner, collab')
                    => Allowed(asking'[q])
           /\ asking'[r].pc = pc
<1>. DEFINE gets(q) == /\ asking[q].pc \notin {"idle", "ok", "unread", "refused", "error"}
                       /\ q # r
                       /\ A!Entitled(A!Call(q), repo'.owner, collab')
            gone(q) == [asking[q] EXCEPT !.pc = IF q = r THEN pc ELSE @]
<1>1. asking' = [q \in Asking |-> [gone(q) EXCEPT !.may = gone(q).may \/ gets(q)]]
  BY Zenon DEF A!Answer
<1>2. ASSUME NEW q \in Asking
      PROVE  /\ asking'[q] \in A!RequestStates
             /\ asking'[q].pc = IF q = r THEN pc ELSE asking[q].pc
             /\ asking'[q].call = asking[q].call /\ asking'[q].before = asking[q].before
             /\ asking'[q].seen = asking[q].seen /\ asking'[q].found = asking[q].found
             /\ Allowed(asking'[q]) <=> Allowed(asking[q]) \/ gets(q)
  <2>1. asking'[q] = [gone(q) EXCEPT !.may = gone(q).may \/ gets(q)]
    BY <1>1, Zenon
  <2>. HIDE DEF gets
  <2>2. asking[q] \in A!RequestStates
    BY DEF A!TypeOK
  <2>3. PICK g : g = gone(q)
    BY Zenon
  <2>4. /\ g \in A!RequestStates /\ g.pc = (IF q = r THEN pc ELSE asking[q].pc)
        /\ g.call = asking[q].call /\ g.before = asking[q].before /\ g.seen = asking[q].seen
        /\ g.found = asking[q].found /\ g.may = asking[q].may
    BY <2>2, <2>3 DEF A!RequestStates
  <2>5. PICK may \in BOOLEAN : may <=> g.may \/ gets(q)
    BY Zenon
  <2>6. asking'[q] = [g EXCEPT !.may = may]
    <3>1. g.may \in BOOLEAN /\ gets(q) \in BOOLEAN
      BY <2>4 DEF A!RequestStates, gets
    <3>2. (g.may \/ gets(q)) = may
      BY <2>5, <3>1, Zenon
    <3>. QED
      BY <2>1, <2>3, <3>2, Zenon
  <2>7. /\ [g EXCEPT !.may = may] \in A!RequestStates /\ [g EXCEPT !.may = may].may = may
        /\ [g EXCEPT !.may = may].pc = g.pc /\ [g EXCEPT !.may = may].call = g.call
        /\ [g EXCEPT !.may = may].before = g.before /\ [g EXCEPT !.may = may].seen = g.seen
        /\ [g EXCEPT !.may = may].found = g.found
    BY <2>4, <2>5 DEF A!RequestStates
  <2>8. Allowed(asking'[q]) <=> Allowed(asking[q]) \/ gets(q)
    BY <2>4, <2>5, <2>6, <2>7, Zenon DEF Allowed
  <2>. QED
    BY <2>4, <2>6, <2>7, <2>8
<1>. HIDE DEF gets
<1>3. \A q \in Asking \ {r} :
         asking[q].pc \in {"repo", "actor"} /\ A!Entitled(asking[q].call, repo'.owner, collab') => gets(q)
  BY DEF gets, A!Call
<1>4. asking' \in [Asking -> A!RequestStates]
  <2>1. asking' = [q \in Asking |-> asking'[q]]
    BY <1>1, Zenon
  <2>. QED
    BY <1>2, <2>1
<1>. QED
  BY <1>2, <1>3, <1>4 DEF A!TypeOK

LEMMA AnswerGrows ==
    ASSUME AccessInv, NEW r \in Asking, NEW pc \in {"ok", "refreshing"}, asking[r].pc = "writing",
           A!Answer(r, pc), repo' \in A!Repos, collab' \subseteq A!Rows
    PROVE  /\ \A q \in Asking : A!Call(q)' = A!Call(q)
           /\ \A q \in Asking \ {r} : \A k : A!Done(q, k)' <=> A!Done(q, k)
           /\ \A k : ~A!Done(r, k) /\ (A!Done(r, k)' <=> A!Call(r).kind = k)
           /\ \A q \in Asking \ {r} : OwnerGiven(q)' <=> OwnerGiven(q)
           /\ \A q \in Asking : Lost(q) => Lost(q)'
           /\ \A q \in Asking : Overwritten(q) => Overwritten(q)'
           /\ \A q \in Asking : /\ asking[q].before \subseteq A!Ended \ {q, r}
                                /\ asking'[q].before = asking[q].before
<1>1. /\ \A q \in Asking :
            asking'[q].call = asking[q].call /\ asking'[q].before = asking[q].before
      /\ \A q \in Asking \ {r} : asking'[q].pc = asking[q].pc
      /\ asking'[r].pc = pc
  BY AnswerFacts DEF AccessInv
<1>2. \A q \in Asking : A!Call(q)' = A!Call(q)
  BY <1>1 DEF A!Call
<1>3. \A q \in Asking \ {r} : \A k : A!Done(q, k)' <=> A!Done(q, k)
  BY <1>1, <1>2 DEF A!Done, A!Committed
<1>4. \A k : ~A!Done(r, k) /\ (A!Done(r, k)' <=> A!Call(r).kind = k)
  BY <1>1, <1>2 DEF A!Done, A!Committed
<1>5. \A q \in Asking : \A k : A!Done(q, k) => A!Done(q, k)'
  BY <1>3, <1>4
<1>6. \A a, b \in Asking : A!Overlap(a, b)' <=> A!Overlap(a, b)
  BY <1>1 DEF A!Overlap
<1>7. \A q \in Asking : Lost(q) => Lost(q)'
  BY <1>2, <1>5, <1>6 DEF Lost
<1>8. \A q \in Asking : Overwritten(q) => Overwritten(q)'
  BY <1>1, <1>2, <1>5, <1>6 DEF Overwritten
<1>9. \A q \in Asking \ {r} : OwnerGiven(q)' <=> OwnerGiven(q)
  BY <1>2, <1>3 DEF OwnerGiven
<1>10. \A q \in Asking : asking[q].before \subseteq A!Ended \ {q, r}
  BY DEF AccessInv, AccessRight, A!Ended
<1>. QED
  BY <1>1, <1>2, <1>3, <1>4, <1>7, <1>8, <1>9, <1>10

\* A commit keeps what holds if it leaves one row for each user, no deleted
\* repository undeleted, and what was answered there or overtaken.
LEMMA AccessCommits ==
    ASSUME AccessInv, NEW r \in Asking, NEW pc \in {"ok", "refreshing"}, asking[r].pc = "writing",
           A!Answer(r, pc), repo' \in A!Repos, collab' \subseteq A!Rows,
           \A a, b \in collab' : a.user = b.user => a = b,
           repo.deleted \/ A!Call(r).kind = "delete" => repo'.deleted,
           \A g \in Asking : OwnerGiven(g)' =>
               Lost(g)' \/ \E row \in collab' : row.user = A!Call(g).target /\ row.permission = "owner",
           \A p \in Asking : A!Done(p, "settings")' =>
               repo'.settings[A!Call(p).field] = p \/ Overwritten(p)'
    PROVE  AccessInv'
<1>1. /\ A!TypeOK'
      /\ \A q \in Asking :
            /\ asking'[q].call = asking[q].call /\ asking'[q].before = asking[q].before
            /\ asking'[q].seen = asking[q].seen /\ asking'[q].found = asking[q].found
            /\ Allowed(asking[q]) => Allowed(asking'[q])
      /\ \A q \in Asking \ {r} :
            /\ asking'[q].pc = asking[q].pc
            /\ asking[q].pc \in {"repo", "actor"} /\ A!Entitled(asking[q].call, repo'.owner, collab')
               => Allowed(asking'[q])
      /\ asking'[r].pc = pc
  BY AnswerFacts DEF AccessInv
<1>2. /\ \A q \in Asking : A!Call(q)' = A!Call(q)
      /\ \A q \in Asking \ {r} : \A k : A!Done(q, k)' <=> A!Done(q, k)
      /\ \A k : ~A!Done(r, k) /\ (A!Done(r, k)' <=> A!Call(r).kind = k)
      /\ \A q \in Asking \ {r} : OwnerGiven(q)' <=> OwnerGiven(q)
      /\ \A q \in Asking : Lost(q) => Lost(q)'
      /\ \A q \in Asking : Overwritten(q) => Overwritten(q)'
      /\ \A q \in Asking : asking[q].before \subseteq A!Ended \ {q, r}
  BY AnswerGrows
<1>3. A!Ended \subseteq A!Ended' \cup {r} /\ A!Ended \subseteq Asking
  BY <1>1 DEF A!Ended
<1>4. ASSUME NEW q \in Asking PROVE AccessRight(q)'
  <2>1. AccessRight(q)
    BY DEF AccessInv
  <2>2. Allowed(asking[q])' <=> Allowed(asking'[q])
    BY DEF Allowed
  <2>3. asking'[q].before \subseteq A!Ended' \ {q}
    BY <1>1, <1>2, <1>3
  <2>4. \A d \in asking[q].before : A!Done(d, "delete")' <=> A!Done(d, "delete")
    BY <1>2, <1>3
  <2>5. A!Done(q, "delete")' => repo'.deleted
    BY <1>2, <2>1 DEF AccessRight
  <2>6. InPlace(asking'[q].call.kind, asking'[q].pc)
    BY <1>1, <2>1 DEF AccessRight, InPlace
  <2>7. asking'[q].pc = "writing" => WritesAfter(asking[q])'
    <3>. SUFFICES ASSUME asking'[q].pc = "writing" PROVE WritesAfter(asking[q])'
      OBVIOUS
    <3>0. q # r /\ WritesAfter(asking[q])
      BY <1>1, <2>1 DEF AccessRight
    <3>1. \A g \in asking[q].before : OwnerGiven(g)' =>
             OwnerGiven(g) /\ (Lost(g) => Lost(g)') /\ A!Call(g)' = A!Call(g)
      BY <1>2, <1>3
    <3>2. \A p \in asking[q].before : A!Done(p, "settings")' =>
             A!Done(p, "settings") /\ (Overwritten(p) => Overwritten(p)') /\ A!Call(p)' = A!Call(p)
      BY <1>2, <1>3
    <3>. QED
      BY <1>1, <3>0, <3>1, <3>2 DEF WritesAfter
  <2>8. asking'[q].pc \in Passed => Allowed(asking'[q])
    BY <1>1, <2>1 DEF AccessRight, Passed
  <2>9. asking'[q].pc = "actor" /\ asking'[q].call.actor = asking'[q].seen.owner => Allowed(asking'[q])
    BY <1>1, <2>1 DEF AccessRight
  <2>10. asking'[q].pc \in Active /\ A!Entitled(asking'[q].call, repo'.owner, collab') => Allowed(asking'[q])
    BY <1>1, <2>8 DEF Active
  <2>11. \A d \in asking'[q].before : A!Done(d, "delete")' => asking'[q].pc \in {"idle", "repo", "refused", "error"}
    BY <1>1, <2>1, <2>4 DEF AccessRight
  <2>. QED
    BY <1>1, <2>2, <2>3, <2>5, <2>6, <2>7, <2>8, <2>9, <2>10, <2>11 DEF AccessRight
<1>. QED
  BY <1>1, <1>2, <1>4 DEF AccessInv

\* Commits that change the repository only.
LEMMA CommitsToRepo ==
    ASSUME AccessInv, NEW r \in Asking, A!CommitDelete(r) \/ A!CommitTransfer(r) \/ A!CommitSettings(r)
    PROVE  AccessInv'
<1>0. /\ A!TypeOK /\ asking[r] \in A!RequestStates /\ asking[r].call \in A!AllCalls
      /\ asking[r].seen \in A!Repos /\ repo \in A!Repos /\ collab \subseteq A!Rows
  BY AccessTypes DEF AccessInv, A!TypeOK
<1>1. /\ asking[r].pc = "writing" /\ A!Answer(r, "ok") /\ collab' = collab
      /\ A!Call(r).kind \in {"delete", "transfer", "settings"}
  BY DEF A!CommitDelete, A!CommitTransfer, A!CommitSettings, A!Writing
<1>2. /\ repo' \in A!Repos
      /\ repo.deleted \/ A!Call(r).kind = "delete" => repo'.deleted
      /\ A!Call(r).kind # "settings" => repo'.settings = repo.settings
      /\ A!Call(r).kind = "settings" => A!CommitSettings(r)
  <2>1. CASE A!CommitDelete(r)
    BY <1>0, <2>1, Zenon DEF A!CommitDelete, A!Writing, A!Repos
  <2>2. CASE A!CommitTransfer(r)
    BY <1>0, <2>2 DEF A!CommitTransfer, A!Writing, A!Repos, A!AllCalls, A!Call
  <2>3. CASE A!CommitSettings(r)
    <3>1. A!Call(r).field \in Settings /\ r \in A!Ids
      BY <1>0 DEF A!AllCalls, A!Call, A!Ids
    <3>2. A!Merged(r) \in [Settings -> A!Ids]
      BY <1>0, <3>1 DEF A!Merged, A!Repos
    <3>3. PICK set \in [Settings -> A!Ids] : repo' = [repo EXCEPT !.settings = set]
      BY <1>0, <2>3, <3>1, <3>2, Zenon DEF A!CommitSettings, A!Repos
    <3>. QED
      BY <1>0, <2>3, <3>3 DEF A!CommitSettings, A!Writing, A!Repos
  <2>. QED
    BY <2>1, <2>2, <2>3
<1>3. /\ \A q \in Asking : A!Call(q)' = A!Call(q)
      /\ \A q \in Asking \ {r} : \A k : A!Done(q, k)' <=> A!Done(q, k)
      /\ \A k : ~A!Done(r, k) /\ (A!Done(r, k)' <=> A!Call(r).kind = k)
      /\ \A q \in Asking \ {r} : OwnerGiven(q)' <=> OwnerGiven(q)
      /\ \A q \in Asking : Lost(q) => Lost(q)'
      /\ \A q \in Asking : Overwritten(q) => Overwritten(q)'
      /\ \A q \in Asking : /\ asking[q].before \subseteq A!Ended \ {q, r}
                           /\ asking'[q].before = asking[q].before
  BY <1>0, <1>1, <1>2, AnswerGrows
<1>4. \A g \in Asking : OwnerGiven(g)' =>
         Lost(g)' \/ \E row \in collab' : row.user = A!Call(g).target /\ row.permission = "owner"
  <2>1. ~OwnerGiven(r)'
    BY <1>1, <1>3 DEF OwnerGiven
  <2>. QED
    BY <1>1, <1>3, <2>1 DEF AccessInv
<1>5. ASSUME NEW p \in Asking, A!Done(p, "settings")'
      PROVE  repo'.settings[A!Call(p).field] = p \/ Overwritten(p)'
  <2>1. CASE A!Call(r).kind # "settings"
    BY <1>2, <1>3, <1>5, <2>1 DEF AccessInv
  <2>2. CASE A!Call(r).kind = "settings"
    <3>. DEFINE f == A!Call(p).field
                g == A!Call(r).field
    <3>0. f \in Settings /\ g \in Settings
      BY <1>0, AccessTypes DEF A!AllCalls, A!Call
    <3>1. repo'.settings[f] = IF f = g THEN r
                              ELSE IF {f, g} \subseteq FlagSettings THEN A!Merged(r)[f]
                              ELSE repo.settings[f]
      BY <1>0, <1>2, <2>2, <3>0 DEF A!CommitSettings, A!Repos
    <3>2. f # g => A!Merged(r)[f] = asking[r].seen.settings[f]
      BY <1>0, <3>0 DEF A!Merged, A!Repos
    <3>3. A!Done(r, "settings")'
      BY <1>3, <2>2
    <3>4. CASE p = r
      BY <3>1, <3>4
    <3>5. CASE p # r /\ f = g
      <4>1. r \notin asking'[p].before
        BY <1>3
      <4>2. A!Call(r)'.field = A!Call(p)'.field
        BY <1>3, <3>5
      <4>. QED
        BY <3>3, <3>5, <4>1, <4>2 DEF Overwritten
    <3>6. CASE p # r /\ f # g /\ {f, g} \subseteq FlagSettings
      <4>1. CASE p \in asking[r].before
        <5>1. WritesAfter(asking[r])
          BY <1>1 DEF AccessInv, AccessRight
        <5>2. A!Done(p, "settings") /\ asking[r].call.kind = "settings"
          BY <1>3, <1>5, <2>2, <3>6 DEF A!Call
        <5>3. asking[r].seen.settings[f] = p \/ Overwritten(p)
          BY <4>1, <5>1, <5>2 DEF WritesAfter
        <5>. QED
          BY <1>3, <3>1, <3>2, <3>6, <5>3
      <4>2. CASE p \notin asking[r].before
        <5>1. A!Overlap(r, p)'
          BY <1>3, <4>2 DEF A!Overlap
        <5>2. {A!Call(p)'.field, A!Call(r)'.field} \subseteq FlagSettings
          BY <1>3, <3>6
        <5>. QED
          BY <3>3, <3>6, <5>1, <5>2 DEF Overwritten
      <4>. QED
        BY <4>1, <4>2
    <3>7. CASE p # r /\ f # g /\ ~({f, g} \subseteq FlagSettings)
      BY <1>3, <1>5, <3>1, <3>7 DEF AccessInv
    <3>. QED
      BY <3>4, <3>5, <3>6, <3>7
  <2>. QED
    BY <2>1, <2>2
<1>6. \A a, b \in collab' : a.user = b.user => a = b
  BY <1>1 DEF AccessInv
<1>. QED
  BY <1>0, <1>1, <1>2, <1>4, <1>5, <1>6, AccessCommits

\* Commits that change the collaborators only: one row for each user is
\* left, and the rows of owners go by who overlaps whoever gave them.
LEMMA CommitsToCollab ==
    ASSUME AccessInv, NEW r \in Asking, A!CommitInvite(r) \/ A!CommitUpdate(r) \/ A!CommitRemove(r)
    PROVE  AccessInv'
<1>0. /\ A!TypeOK /\ asking[r] \in A!RequestStates /\ asking[r].call \in A!AllCalls
      /\ repo \in A!Repos /\ collab \subseteq A!Rows
  BY AccessTypes DEF AccessInv, A!TypeOK
<1>1. PICK pc \in {"ok", "refreshing"} : A!Answer(r, pc)
  BY DEF A!CommitInvite, A!CommitUpdate, A!CommitRemove
<1>2. asking[r].pc = "writing" /\ repo' = repo /\ A!Call(r).kind \in {"invite", "update", "remove"}
  BY DEF A!CommitInvite, A!CommitUpdate, A!CommitRemove, A!Writing
<1>3. \A a, b \in collab : a.user = b.user => a = b
  BY DEF AccessInv
<1>4. A!Call(r).kind \in {"update", "remove"} =>
         /\ \A row \in asking[r].found : row.user = A!Call(r).target
         /\ \E row \in asking[r].found : row.permission # "owner"
         /\ \A g \in asking[r].before : OwnerGiven(g) /\ A!Call(g).target = A!Call(r).target => Lost(g)
  BY <1>2 DEF AccessInv, AccessRight, WritesAfter, A!Call
\* What becomes of the rows.
<1>5. /\ collab' \subseteq A!Rows
      /\ \A a, b \in collab' : a.user = b.user => a = b
      /\ \A row \in collab : \/ row \in collab'
                             \/ /\ A!Call(r).kind \in {"update", "remove"}
                                /\ row.user = A!Call(r).target
      /\ OwnerGiven(r)' =>
            \E row \in collab' : row.user = A!Call(r).target /\ row.permission = "owner"
  <2>0. r \in A!Ids /\ A!Call(r).target \in Members /\ A!Call(r).permission \in A!Permissions
    BY <1>0 DEF A!Ids, A!AllCalls, A!Call
  <2>1. CASE A!CommitInvite(r)
    <3>1. PICK new : new = [id |-> r, user |-> A!Call(r).target, permission |-> A!Call(r).permission,
                            accepted |-> FALSE]
      BY Zenon
    <3>2. new \in A!Rows /\ new.user = A!Call(r).target /\ new.permission = A!Call(r).permission
      BY <2>0, <3>1 DEF A!Rows
    <3>3. collab' = collab \cup {new} /\ \A row \in collab : row.user # new.user
      BY <2>1, <3>1 DEF A!CommitInvite, A!RowsOf
    <3>4. OwnerGiven(r)' => A!Call(r).permission = "owner"
      BY <1>0, <1>1, <1>2, <3>2, <3>3, AnswerGrows DEF OwnerGiven
    <3>. QED
      BY <1>0, <1>3, <3>2, <3>3, <3>4
  <2>2. CASE A!CommitUpdate(r)
    <3>. DEFINE new(row) == [row EXCEPT !.permission = A!Call(r).permission]
                upd == A!Updated(r)
    <3>0. A!Call(r).kind = "update"
      BY <2>2 DEF A!CommitUpdate, A!Writing
    <3>1. upd \subseteq collab /\ \A row \in upd : row.user = A!Call(r).target
      BY <1>4, <3>0 DEF A!Updated
    <3>2. \A row \in upd : /\ new(row) \in A!Rows /\ new(row).user = row.user
                           /\ new(row).permission = A!Call(r).permission
      BY <1>0, <2>0, <3>1 DEF A!Rows
    <3>3. \/ collab' = (collab \ upd) \cup {new(row) : row \in upd}
          \/ collab' = collab /\ ~A!Differs(r)
      BY <2>2 DEF A!CommitUpdate
    <3>4. A!Call(r).permission = "owner" => A!Differs(r) /\ upd # {}
      BY <1>4, <2>2, <3>0 DEF A!Differs, A!CommitUpdate
    <3>. HIDE DEF new, upd
    <3>5. collab' \subseteq A!Rows
      BY <1>0, <3>1, <3>2, <3>3
    <3>6. \A a, b \in collab' : a.user = b.user => a = b
      BY <1>3, <3>1, <3>2, <3>3
    <3>7. OwnerGiven(r)' => A!Call(r).permission = "owner"
      BY <1>0, <1>1, <1>2, <3>5, AnswerGrows DEF OwnerGiven
    <3>8. A!Call(r).permission = "owner" =>
             \E row \in collab' : row.user = A!Call(r).target /\ row.permission = "owner"
      BY <3>1, <3>2, <3>3, <3>4
    <3>. QED
      BY <3>0, <3>1, <3>3, <3>5, <3>6, <3>7, <3>8
  <2>3. CASE A!CommitRemove(r)
    <3>1. A!Call(r).kind = "remove" /\ collab' = collab \ A!RowsOf(A!Call(r).target)
      BY <2>3 DEF A!CommitRemove, A!Writing
    <3>2. ~OwnerGiven(r)'
      BY <1>0, <1>1, <1>2, <3>1, AnswerGrows DEF OwnerGiven
    <3>. QED
      BY <1>0, <1>3, <3>1, <3>2 DEF A!RowsOf
  <2>. QED
    BY <2>1, <2>2, <2>3
<1>6. /\ \A q \in Asking : A!Call(q)' = A!Call(q)
      /\ \A q \in Asking \ {r} : \A k : A!Done(q, k)' <=> A!Done(q, k)
      /\ \A k : ~A!Done(r, k) /\ (A!Done(r, k)' <=> A!Call(r).kind = k)
      /\ \A q \in Asking \ {r} : OwnerGiven(q)' <=> OwnerGiven(q)
      /\ \A q \in Asking : Lost(q) => Lost(q)'
      /\ \A q \in Asking : Overwritten(q) => Overwritten(q)'
      /\ \A q \in Asking : /\ asking[q].before \subseteq A!Ended \ {q, r}
                           /\ asking'[q].before = asking[q].before
  BY <1>0, <1>1, <1>2, <1>5, AnswerGrows
<1>7. ASSUME NEW g \in Asking, OwnerGiven(g)'
      PROVE  Lost(g)' \/ \E row \in collab' : row.user = A!Call(g).target /\ row.permission = "owner"
  <2>1. CASE g = r
    BY <1>5, <1>7, <2>1
  <2>2. CASE g # r
    <3>1. OwnerGiven(g)
      BY <1>6, <1>7, <2>2
    <3>2. CASE Lost(g)
      BY <1>6, <3>2
    <3>3. CASE ~Lost(g)
      <4>1. PICK row \in collab : row.user = A!Call(g).target /\ row.permission = "owner"
        BY <3>1, <3>3 DEF AccessInv
      <4>2. CASE row \in collab'
        BY <4>1, <4>2
      <4>3. CASE row \notin collab'
        <5>1. A!Call(r).kind \in {"update", "remove"} /\ A!Call(r).target = A!Call(g).target
          BY <1>5, <4>1, <4>3
        <5>2. g \notin asking[r].before
          BY <1>4, <3>1, <3>3, <5>1
        <5>3. A!Overlap(r, g)'
          BY <1>6, <5>2 DEF A!Overlap
        <5>4. (A!Done(r, "update")' \/ A!Done(r, "remove")') /\ A!Call(r)'.target = A!Call(g)'.target
          BY <1>6, <5>1
        <5>. QED
          BY <2>2, <5>3, <5>4 DEF Lost
      <4>. QED
        BY <4>2, <4>3
    <3>. QED
      BY <3>2, <3>3
  <2>. QED
    BY <2>1, <2>2
<1>8. \A p \in Asking : A!Done(p, "settings")' =>
         repo'.settings[A!Call(p).field] = p \/ Overwritten(p)'
  <2>1. ~A!Done(r, "settings")'
    BY <1>2, <1>6
  <2>. QED
    BY <1>2, <1>6, <2>1 DEF AccessInv
<1>9. repo.deleted \/ A!Call(r).kind = "delete" => repo'.deleted
  BY <1>2
<1>. QED
  BY <1>0, <1>1, <1>2, <1>5, <1>7, <1>8, <1>9, AccessCommits

LEMMA AccessStep == AccessInv /\ [A!Next]_accessVars => AccessInv'
<1>1. ASSUME AccessInv, UNCHANGED accessVars PROVE AccessInv'
  <2>1. repo' = repo /\ collab' = collab /\ asking' = asking
    BY <1>1 DEF accessVars
  <2>2. A!TypeOK'
    BY <1>1, <2>1 DEF AccessInv, A!TypeOK
  <2>3. CASE Asking = {}
    BY <1>1, <2>1, <2>2, <2>3 DEF AccessInv
  <2>4. ASSUME NEW r \in Asking PROVE AccessInv'
    <3>1. AccessRight(r)'
      BY <1>1, <2>1 DEF AccessInv, AccessRight, Allowed, WritesAfter, OwnerGiven, Lost, Overwritten,
            A!Done, A!Committed, A!Call, A!Overlap, A!Ended
    <3>2. (A!Committed(r)' <=> A!Committed(r)) /\ (r \in A!Ended => r \in A!Ended')
      BY <2>1 DEF A!Committed, A!Ended
    <3>. QED
      BY <1>1, <2>1, <2>2, <3>1, <3>2, AccessQuiet
  <2>. QED
    BY <2>3, <2>4
<1>. QED
  BY <1>1, AccessBegins, ReadsRepo, FindsActor, FindsTarget, LoadsRepo, AccessEnds, CommitsToRepo,
     CommitsToCollab DEF A!Next

(***************************************************************************)
(* Rights are those of the moment, whoever calls what and however many     *)
(* requests overlap: only callers entitled while their request ran get     *)
(* through (repos.py:1206, :1320, collaborators.py:186), the rows of       *)
(* owners stay (collaborators.py:257), a deleted repository takes no       *)
(* further requests (repos.py:1239), and a setting stays as set            *)
(* (musehub_repository.py:2326), but for requests that overlap.            *)
(***************************************************************************)
THEOREM AccessAlwaysHolds == AllSpec => []AccessHolds
<1>1. AllInit => AccessInv
  BY AccessInit DEF AllInit
<1>2. AccessInv /\ [AllNext]_allVars => AccessInv'
  <2>1. [AllNext]_allVars => [A!Next]_accessVars
    BY DEF AllNext, Others, allVars
  <2>. QED
    BY <2>1, AccessStep
<1>. QED
  BY <1>1, <1>2, AccessSafe, PTL DEF AllSpec

-----------------------------------------------------------------------------
(***************************************************************************)
(* Reviews.  A request that adds a row began before those who added the    *)
(* other rows of the reviewer had ended, or it had found them; one that    *)
(* removes a row found it pending, so a verdict given before was commented *)
(* or removed already.                                                     *)
(***************************************************************************)
Verdict(s, u) == R!Done(s, "submit", u) /\ reviewing[s].state \in R!Verdicts

Commented(u, before) ==
    \E c \in Reviewing : R!Done(c, "submit", u) /\ reviewing[c].state = "pending" /\ c \notin before

Excused(s, u) ==
    \/ \E m \in Reviewing : R!Done(m, "remove", u) /\ R!Overlap(m, s)
    \/ Commented(u, reviewing[s].before)

\* What holds of request r when its state is q.
ReviewRight(r, q) ==
    /\ q.before \subseteq R!Ended \ {r}
    /\ q.todo \subseteq q.who /\ q.adds \subseteq q.who /\ IsFiniteSet(q.adds)
    /\ q.kind # "request" => \E u \in Reviewers : q.who = {u}
    /\ q.pc \in {"looking", "writing"} =>
          \A row \in reviewRows : row.reviewer \in q.adds => row.by \notin q.before
    /\ q.pc = "looking" => q.seen = {}
    /\ q.pc = "writing" =>
          /\ \A seen \in q.seen : seen.reviewer \in q.who /\ reviewing[seen.by].pc = "ok"
          /\ q.kind = "submit" =>
                \A seen \in q.seen, row \in reviewRows :
                    R!SameRow(row, seen) /\ seen.state \in R!Verdicts =>
                        row.state \in R!Verdicts \/ Commented(seen.reviewer, q.before)
          /\ q.kind = "remove" =>
                \A s \in q.before, u \in q.who : Verdict(s, u) => Excused(s, u)

ReviewInv ==
    /\ R!TypeOK
    /\ IsFiniteSet(reviewRows)
    /\ \A row \in reviewRows : reviewing[row.by].pc = "ok"
    /\ \A a, b \in reviewRows : R!SameRow(a, b) => a = b
    /\ R!TwoRowsOverlapped
    /\ \A r \in Reviewing : ReviewRight(r, reviewing[r])
    /\ \A s \in Reviewing, u \in Reviewers : Verdict(s, u) =>
          \/ \E row \in reviewRows : row.reviewer = u /\ row.state \in R!Verdicts
          \/ Excused(s, u)

LEMMA ReviewsSafe == ReviewInv => ReviewsHold
<1>. SUFFICES ASSUME ReviewInv PROVE ReviewsHold
  OBVIOUS
<1>1. R!VerdictsKept
  BY DEF ReviewInv, Verdict, Excused, Commented, R!VerdictsKept, R!RowsOf
<1>. QED
  BY <1>1 DEF ReviewInv, ReviewsHold, R!ReviewsHold

LEMMA ReviewsInit == R!Init => ReviewInv
<1>. SUFFICES ASSUME R!Init PROVE ReviewInv
  OBVIOUS
<1>1. R!NoRequest \in R!RequestStates
  BY DEF R!NoRequest, R!RequestStates, R!States
<1>2. R!TypeOK
  BY <1>1 DEF R!Init, R!TypeOK
<1>3. IsFiniteSet({})
  BY FS_EmptySet
<1>4. \A r \in Reviewing : reviewing[r] = R!NoRequest
  BY DEF R!Init
<1>5. \A r \in Reviewing : ReviewRight(r, reviewing[r])
  BY <1>3, <1>4 DEF ReviewRight, R!NoRequest
<1>6. \A s \in Reviewing : \A u : ~Verdict(s, u)
  BY <1>4 DEF Verdict, R!Done, R!NoRequest
<1>. QED
  BY <1>2, <1>3, <1>5, <1>6 DEF R!Init, ReviewInv, R!TwoRowsOverlapped

(***************************************************************************)
(* A step that commits nothing.                                            *)
(***************************************************************************)
LEMMA ReviewQuiet ==
    ASSUME ReviewInv, NEW r \in Reviewing, NEW new \in R!RequestStates,
           reviewing' = [reviewing EXCEPT ![r] = new], reviewRows' = reviewRows,
           reviewing[r].pc \notin {"ok", "failed"}, new.pc # "ok", ReviewRight(r, new)
    PROVE  ReviewInv'
<1>1. reviewing'[r] = new /\ \A q \in Reviewing \ {r} : reviewing'[q] = reviewing[q]
  BY DEF ReviewInv, R!TypeOK
<1>2. R!TypeOK'
  BY DEF ReviewInv, R!TypeOK
<1>3. \A q \in Reviewing : \A k, u : R!Done(q, k, u)' <=> R!Done(q, k, u)
  BY <1>1 DEF R!Done
<1>4. \A q \in Reviewing : \A k, u : R!Done(q, k, u) => reviewing'[q] = reviewing[q]
  BY <1>1 DEF R!Done
<1>5. \A u, b : Commented(u, b)' <=> Commented(u, b)
  BY <1>3, <1>4 DEF Commented
<1>6. \A s \in Reviewing : \A u : Verdict(s, u)' <=> Verdict(s, u)
  BY <1>3, <1>4 DEF Verdict
<1>7. \A s \in Reviewing : \A u : Verdict(s, u) => (Excused(s, u)' <=> Excused(s, u))
  <2>1. ASSUME NEW s \in Reviewing, NEW u, Verdict(s, u) PROVE Excused(s, u)' <=> Excused(s, u)
    <3>1. reviewing'[s] = reviewing[s]
      BY <1>4, <2>1 DEF Verdict
    <3>2. \A m \in Reviewing : R!Done(m, "remove", u) => (R!Overlap(m, s)' <=> R!Overlap(m, s))
      BY <1>4, <3>1 DEF R!Overlap
    <3>. QED
      BY <1>3, <1>5, <3>1, <3>2 DEF Excused
  <2>. QED
    BY <2>1
<1>8. R!Ended \subseteq R!Ended' /\ R!Ended \subseteq Reviewing
  BY <1>1 DEF R!Ended
<1>9. ASSUME NEW p \in Reviewing, NEW q, ReviewRight(p, q) PROVE ReviewRight(p, q)'
  <2>1. q.before \subseteq R!Ended' \ {p} /\ q.before \subseteq Reviewing
    BY <1>8, <1>9 DEF ReviewRight
  <2>2. \A s \in q.before : \A u : Verdict(s, u)' /\ (Verdict(s, u) => Excused(s, u)) => Excused(s, u)'
    BY <1>6, <1>7, <2>1
  <2>3. \A x : reviewing[x].pc = "ok" => reviewing'[x].pc = "ok"
    BY <1>1 DEF ReviewInv, R!TypeOK
  <2>. QED
    BY <1>5, <1>9, <2>1, <2>2, <2>3 DEF ReviewRight, R!SameRow
<1>10. ASSUME NEW q \in Reviewing PROVE ReviewRight(q, reviewing[q])'
  <2>1. PICK rec : rec = reviewing'[q]
    OBVIOUS
  <2>2. ReviewRight(q, rec)
    BY <1>1, <2>1 DEF ReviewInv
  <2>. QED
    BY <1>9, <2>1, <2>2 DEF ReviewRight
<1>11. \A row \in reviewRows : row.by \in Reviewing /\ reviewing'[row.by] = reviewing[row.by]
  BY <1>1 DEF ReviewInv, R!TypeOK, R!Rows
<1>12. R!TwoRowsOverlapped'
  BY <1>11 DEF ReviewInv, R!TwoRowsOverlapped, R!Overlap
<1>13. \A s \in Reviewing, u \in Reviewers : Verdict(s, u)' =>
          \/ \E row \in reviewRows : row.reviewer = u /\ row.state \in R!Verdicts
          \/ Excused(s, u)'
  BY <1>6, <1>7 DEF ReviewInv
<1>14. \A a, b \in reviewRows' : R!SameRow(a, b)' => a = b
  BY DEF ReviewInv, R!SameRow
<1>. QED
  BY <1>2, <1>10, <1>11, <1>12, <1>13, <1>14 DEF ReviewInv

LEMMA ReviewStarts ==
    ASSUME ReviewInv, NEW r \in Reviewing, NEW kind \in {"request", "remove", "submit"},
           NEW who \in SUBSET Reviewers, NEW state \in R!States,
           kind # "request" => \E u \in Reviewers : who = {u}, R!Start(r, kind, who, state)
    PROVE  ReviewInv'
<1>1. PICK new : new = [R!NoRequest EXCEPT !.kind = kind, !.who = who, !.state = state,
                                           !.todo = who, !.pc = "looking", !.before = R!Ended]
  OBVIOUS
<1>2. /\ new \in R!RequestStates /\ new.before = R!Ended /\ new.todo = who /\ new.who = who
      /\ new.adds = {} /\ new.kind = kind /\ new.pc = "looking" /\ new.seen = {}
  <2>1. R!Ended \subseteq Reviewing
    BY DEF R!Ended
  <2>. QED
    BY <1>1, <2>1, Zenon DEF R!NoRequest, R!RequestStates
<1>3. reviewing' = [reviewing EXCEPT ![r] = new] /\ reviewRows' = reviewRows /\ reviewing[r].pc = "idle"
  BY <1>1 DEF R!Start, R!IsNext
<1>4. r \notin R!Ended /\ IsFiniteSet({})
  BY <1>3, FS_EmptySet DEF R!Ended
<1>5. ReviewRight(r, new)
  BY <1>2, <1>4 DEF ReviewRight
<1>. QED
  BY <1>2, <1>3, <1>5, ReviewQuiet, Zenon

LEMMA ReviewRefused ==
    ASSUME ReviewInv, NEW r \in Reviewing, reviewing[r].pc \in {"looking", "writing"}, R!Refuse(r)
    PROVE  ReviewInv'
<1>1. PICK new : new = [R!NoRequest EXCEPT !.pc = "failed"]
  BY Zenon
<1>2. /\ new \in R!RequestStates /\ new.before = {} /\ new.todo = {} /\ new.who = {}
      /\ new.adds = {} /\ new.kind = "request" /\ new.pc = "failed"
  BY <1>1 DEF R!NoRequest, R!RequestStates, R!States
<1>3. reviewing' = [reviewing EXCEPT ![r] = new] /\ reviewRows' = reviewRows
  BY <1>1 DEF R!Refuse
<1>4. ReviewRight(r, new)
  BY <1>2, FS_EmptySet DEF ReviewRight
<1>. QED
  BY <1>2, <1>3, <1>4, ReviewQuiet, Zenon

\* A set of at most one has no two elements.
LEMMA AtMostOne ==
    ASSUME NEW S, IsFiniteSet(S), Cardinality(S) <= 1, NEW a \in S, NEW b \in S
    PROVE  a = b
<1>. SUFFICES ASSUME a # b PROVE FALSE
  OBVIOUS
<1>1. IsFiniteSet({b}) /\ Cardinality({b}) = 1
  BY FS_Singleton, Zenon
<1>2. Cardinality({b} \cup {a}) = Cardinality({b}) + 1
  BY <1>1, FS_AddElement, Zenon
<1>3. Cardinality({b} \cup {a}) <= Cardinality(S) /\ Cardinality(S) \in Nat
  BY FS_Subset, FS_CardinalityType
<1>. QED
  BY <1>1, <1>2, <1>3

LEMMA ReviewFinds ==
    ASSUME ReviewInv, NEW r \in Reviewing,
           R!FindRequested(r) \/ R!FindRemoved(r) \/ R!FindReviewed(r)
    PROVE  ReviewInv'
<1>0. /\ reviewing[r] \in R!RequestStates /\ ReviewRight(r, reviewing[r]) /\ IsFiniteSet(reviewRows)
      /\ reviewRows \subseteq R!Rows
  BY DEF ReviewInv, R!TypeOK
<1>1. CASE R!FindRequested(r)
  <2>1. PICK u \in Reviewers :
           /\ R!Looking(r, u)
           /\ reviewing' = [reviewing EXCEPT ![r].todo = @ \ {u},
                                ![r].adds = IF R!RowsOf(u) = {} THEN @ \cup {u} ELSE @,
                                ![r].pc = IF reviewing[r].todo = {u} THEN "writing" ELSE "looking"]
    BY <1>1, Zenon DEF R!FindRequested
  <2>2. PICK adds : adds = IF R!RowsOf(u) = {} THEN reviewing[r].adds \cup {u} ELSE reviewing[r].adds
    BY Zenon
  <2>3. PICK pc : pc = IF reviewing[r].todo = {u} THEN "writing" ELSE "looking"
    OBVIOUS
  <2>4. PICK new : new = [reviewing[r] EXCEPT !.todo = @ \ {u}, !.adds = adds, !.pc = pc]
    OBVIOUS
  <2>5. reviewing' = [reviewing EXCEPT ![r] = new]
    BY <1>0, <2>1, <2>2, <2>3, <2>4, Zenon DEF ReviewInv, R!TypeOK, R!RequestStates
  <2>6. reviewing[r].pc = "looking" /\ u \in reviewing[r].todo /\ reviewing[r].kind = "request"
    BY <1>1, <2>1, Zenon DEF R!FindRequested, R!Looking
  <2>7. /\ new \in R!RequestStates /\ new.before = reviewing[r].before /\ new.todo \subseteq reviewing[r].todo
        /\ new.who = reviewing[r].who /\ new.adds = adds /\ new.kind = "request" /\ new.pc = pc
        /\ new.seen = reviewing[r].seen
    BY <1>0, <2>2, <2>3, <2>4, <2>6, Zenon DEF R!RequestStates
  <2>8. IsFiniteSet(adds)
    BY <1>0, <2>2, FS_AddElement, Zenon DEF ReviewRight
  <2>9. \A row \in reviewRows : row.reviewer \in adds => row.by \notin new.before
    BY <1>0, <2>2, <2>6, <2>7 DEF ReviewRight, R!RowsOf
  <2>10. reviewing[r].seen = {}
    BY <1>0, <2>6 DEF ReviewRight
  <2>11. ReviewRight(r, new)
    BY <1>0, <2>2, <2>6, <2>7, <2>8, <2>9, <2>10 DEF ReviewRight
  <2>. QED
    BY <1>1, <2>3, <2>5, <2>6, <2>7, <2>11, ReviewQuiet, Zenon DEF R!FindRequested
<1>2. CASE R!FindRemoved(r)
  <2>1. PICK u \in Reviewers :
           /\ R!Looking(r, u) /\ R!Cardinality(R!RowsOf(u)) <= 1 /\ R!Removable(u) # {}
           /\ reviewing' = [reviewing EXCEPT ![r].todo = {}, ![r].seen = R!Removable(u), ![r].pc = "writing"]
    BY <1>2, Zenon DEF R!FindRemoved
  <2>2. PICK new : new = [reviewing[r] EXCEPT !.todo = {}, !.seen = R!Removable(u), !.pc = "writing"]
    OBVIOUS
  <2>3. reviewing' = [reviewing EXCEPT ![r] = new]
    BY <1>0, <2>1, <2>2, Zenon DEF ReviewInv, R!TypeOK, R!RequestStates
  <2>4. reviewing[r].pc = "looking" /\ u \in reviewing[r].todo /\ reviewing[r].kind = "remove"
    BY <1>2, <2>1, Zenon DEF R!FindRemoved, R!Looking
  <2>5. R!Removable(u) \subseteq R!Rows
    BY <1>0 DEF R!Removable, R!RowsOf
  <2>6. /\ new \in R!RequestStates /\ new.before = reviewing[r].before /\ new.todo = {}
        /\ new.who = reviewing[r].who /\ new.adds = reviewing[r].adds /\ new.kind = "remove"
        /\ new.pc = "writing" /\ new.seen = R!Removable(u)
    BY <1>0, <2>2, <2>4, <2>5, Zenon DEF R!RequestStates
  <2>7. new.who = {u}
    BY <1>0, <2>4, <2>6 DEF ReviewRight
  <2>8. \A row \in reviewRows : row.reviewer = u => row.state \notin R!Verdicts
    <3>1. IsFiniteSet(R!RowsOf(u))
      BY <1>0, FS_Subset DEF R!RowsOf
    <3>2. Cardinality(R!RowsOf(u)) <= 1
      BY <2>1 DEF R!Cardinality, Cardinality
    <3>3. \A a, b \in R!RowsOf(u) : a = b
      BY <3>1, <3>2, AtMostOne
    <3>. QED
      BY <2>1, <3>3, Zenon DEF R!Removable, R!RowsOf, R!Verdicts
  <2>9. \A s \in new.before : Verdict(s, u) => Excused(s, u)
    BY <1>0, <2>6, <2>8 DEF ReviewInv, ReviewRight, R!Ended
  <2>10. \A seen \in new.seen : seen.reviewer = u /\ reviewing[seen.by].pc = "ok"
    BY <2>6 DEF R!Removable, R!RowsOf, ReviewInv
  <2>11. ReviewRight(r, new)
    BY <1>0, <2>4, <2>6, <2>7, <2>9, <2>10 DEF ReviewRight
  <2>. QED
    BY <1>2, <2>3, <2>4, <2>6, <2>11, ReviewQuiet, Zenon DEF R!FindRemoved
<1>3. CASE R!FindReviewed(r)
  <2>1. PICK u \in Reviewers :
           /\ R!Looking(r, u)
           /\ reviewing' = [reviewing EXCEPT ![r].todo = {}, ![r].seen = R!RowsOf(u),
                                ![r].adds = IF R!RowsOf(u) = {} THEN {u} ELSE {},
                                ![r].pc = "writing"]
    BY <1>3, Zenon DEF R!FindReviewed
  <2>2. PICK adds : adds = IF R!RowsOf(u) = {} THEN {u} ELSE {}
    BY Zenon
  <2>3. PICK new : new = [reviewing[r] EXCEPT !.todo = {}, !.seen = R!RowsOf(u), !.adds = adds,
                                              !.pc = "writing"]
    OBVIOUS
  <2>4. reviewing' = [reviewing EXCEPT ![r] = new]
    BY <1>0, <2>1, <2>2, <2>3, Zenon DEF ReviewInv, R!TypeOK, R!RequestStates
  <2>5. reviewing[r].pc = "looking" /\ u \in reviewing[r].todo /\ reviewing[r].kind = "submit"
    BY <1>3, <2>1, Zenon DEF R!FindReviewed, R!Looking
  <2>6. R!RowsOf(u) \subseteq R!Rows /\ adds \subseteq Reviewers
    BY <1>0, <2>2 DEF R!RowsOf
  <2>7. /\ new \in R!RequestStates /\ new.before = reviewing[r].before /\ new.todo = {}
        /\ new.who = reviewing[r].who /\ new.adds = adds /\ new.kind = "submit"
        /\ new.pc = "writing" /\ new.seen = R!RowsOf(u)
    BY <1>0, <2>3, <2>5, <2>6, Zenon DEF R!RequestStates
  <2>8. u \in new.who
    BY <1>0, <2>5, <2>7 DEF ReviewRight
  <2>9. IsFiniteSet(adds)
    BY <2>2, FS_EmptySet, FS_Singleton
  <2>10. \A row \in reviewRows : row.reviewer \notin adds
    BY <2>2 DEF R!RowsOf
  <2>11. \A seen \in new.seen :
            seen.reviewer = u /\ seen \in reviewRows /\ reviewing[seen.by].pc = "ok"
    BY <2>7 DEF R!RowsOf, ReviewInv
  <2>12. \A seen \in new.seen, row \in reviewRows : R!SameRow(row, seen) => row = seen
    BY <2>11 DEF ReviewInv
  <2>13. ReviewRight(r, new)
    BY <1>0, <2>2, <2>5, <2>7, <2>8, <2>9, <2>10, <2>11, <2>12 DEF ReviewRight
  <2>. QED
    BY <1>3, <2>4, <2>5, <2>7, <2>13, ReviewQuiet, Zenon DEF R!FindReviewed
<1>. QED
  BY <1>1, <1>2, <1>3

\* A commit keeps what holds if the rows stay finite and different, a new
\* row is of r, and the verdicts stay or r is a removal or a comment.
LEMMA ReviewCommits ==
    ASSUME ReviewInv, NEW r \in Reviewing, reviewing[r].pc = "writing", R!Answer(r),
           reviewRows' \subseteq R!Rows, IsFiniteSet(reviewRows'),
           \A a, b \in reviewRows' : R!SameRow(a, b) => a = b,
           \A row \in reviewRows' :
              \/ row.by = r /\ row.reviewer \in reviewing[r].adds
              \/ \E old \in reviewRows :
                    /\ R!SameRow(row, old)
                    /\ row.state = old.state \/
                          (/\ reviewing[r].kind = "submit" /\ row.reviewer \in reviewing[r].who
                           /\ row.state = reviewing[r].state),
           \A old \in reviewRows : old.state \in R!Verdicts =>
              \/ \E row \in reviewRows' : row.reviewer = old.reviewer /\ row.state \in R!Verdicts
              \/ /\ reviewing[r].kind = "remove" /\ old.reviewer \in reviewing[r].who
              \/ /\ reviewing[r].kind = "submit" /\ old.reviewer \in reviewing[r].who
                 /\ reviewing[r].state = "pending",
           reviewing[r].kind = "submit" /\ reviewing[r].state \in R!Verdicts =>
              \A u \in reviewing[r].who :
                 \/ \E row \in reviewRows' : row.reviewer = u /\ row.state \in R!Verdicts
                 \/ Commented(u, reviewing[r].before)
    PROVE  ReviewInv'
<1>1. /\ reviewing[r] \in R!RequestStates /\ ReviewRight(r, reviewing[r]) /\ reviewRows \subseteq R!Rows
      /\ reviewing' = [reviewing EXCEPT ![r].pc = "ok"]
  BY DEF ReviewInv, R!TypeOK, R!Answer
<1>2. PICK new : new = [reviewing[r] EXCEPT !.pc = "ok"]
  BY Zenon
<1>3. /\ new \in R!RequestStates /\ reviewing' = [reviewing EXCEPT ![r] = new] /\ new.pc = "ok"
      /\ new.kind = reviewing[r].kind /\ new.who = reviewing[r].who /\ new.state = reviewing[r].state
      /\ new.todo = reviewing[r].todo /\ new.adds = reviewing[r].adds /\ new.before = reviewing[r].before
      /\ new.seen = reviewing[r].seen
  BY <1>1, <1>2 DEF ReviewInv, R!TypeOK, R!RequestStates
<1>4. reviewing'[r] = new /\ \A q \in Reviewing \ {r} : reviewing'[q] = reviewing[q]
  BY <1>3 DEF ReviewInv, R!TypeOK
<1>5. R!TypeOK'
  BY <1>3 DEF ReviewInv, R!TypeOK
<1>6. \A q \in Reviewing : /\ reviewing'[q].before = reviewing[q].before /\ reviewing'[q].state = reviewing[q].state
                           /\ reviewing'[q].kind = reviewing[q].kind /\ reviewing'[q].who = reviewing[q].who
                           /\ reviewing[q].before \subseteq R!Ended \ {q, r}
  <2>1. r \notin R!Ended
    BY DEF R!Ended
  <2>. QED
    BY <1>3, <1>4, <2>1 DEF ReviewInv, ReviewRight
<1>7. /\ \A q \in Reviewing \ {r} : \A k, u : R!Done(q, k, u)' <=> R!Done(q, k, u)
      /\ \A k, u : ~R!Done(r, k, u) /\ (R!Done(r, k, u)' <=> reviewing[r].kind = k /\ u \in reviewing[r].who)
  BY <1>3, <1>4 DEF R!Done
<1>8. \A u, b : Commented(u, b) => Commented(u, b)'
  BY <1>6, <1>7 DEF Commented
<1>9. \A a, b \in Reviewing : R!Overlap(a, b)' <=> R!Overlap(a, b)
  BY <1>6 DEF R!Overlap
<1>10. \A s \in Reviewing : \A u : Excused(s, u) => Excused(s, u)'
  BY <1>6, <1>7, <1>8, <1>9 DEF Excused
<1>11. \A s \in Reviewing \ {r} : \A u : Verdict(s, u)' <=> Verdict(s, u)
  BY <1>6, <1>7 DEF Verdict
<1>12. R!Ended \subseteq R!Ended'
  BY <1>4, <1>3 DEF R!Ended
\* A comment of r counts for every request that has not ended before it.
<1>13. \A u, b : r \notin b /\ reviewing[r].kind = "submit" /\ u \in reviewing[r].who
                   /\ reviewing[r].state = "pending" => Commented(u, b)'
  BY <1>6, <1>7 DEF Commented
<1>14. \A a \in reviewRows : a.by \in Reviewing \ {r} /\ reviewing[a.by].pc = "ok"
  BY <1>1 DEF ReviewInv, R!Rows
<1>15. \A row \in reviewRows' : reviewing'[row.by].pc = "ok"
  BY <1>3, <1>4, <1>14 DEF R!SameRow
<1>16. R!TwoRowsOverlapped'
  <2>1. ASSUME NEW a \in reviewRows', NEW b \in reviewRows', a.reviewer = b.reviewer, a # b
        PROVE  a.by # b.by /\ R!Overlap(a.by, b.by)
    <3>1. a.by # b.by
      BY <2>1 DEF R!SameRow
    <3>2. \A c, d \in reviewRows : c.reviewer = d.reviewer /\ c.by # d.by => R!Overlap(c.by, d.by)
      BY DEF ReviewInv, R!TwoRowsOverlapped
    <3>3. \A c \in reviewRows : c.reviewer \in reviewing[r].adds => R!Overlap(r, c.by)
      BY <1>1, <1>6, <1>14 DEF ReviewRight, R!Overlap
    <3>4. \A x, y : R!Overlap(x, y) => R!Overlap(y, x)
      BY DEF R!Overlap
    <3>. QED
      BY <2>1, <3>1, <3>2, <3>3, <3>4 DEF R!SameRow
  <2>2. \A row \in reviewRows' : row.by \in Reviewing
    BY DEF R!Rows
  <2>. QED
    BY <1>9, <2>1, <2>2 DEF R!TwoRowsOverlapped
<1>17. ASSUME NEW p \in Reviewing PROVE ReviewRight(p, reviewing[p])'
  <2>1. ReviewRight(p, reviewing[p])
    BY DEF ReviewInv
  <2>2. CASE p = r
    BY <1>1, <1>3, <1>4, <1>6, <1>12, <2>2 DEF ReviewRight
  <2>3. CASE p # r
    <3>. DEFINE q == reviewing[p]
    <3>0. reviewing'[p] = reviewing[p] /\ r \notin q.before /\ q.before \subseteq Reviewing
      BY <1>4, <1>6, <2>3 DEF R!Ended
    <3>a. q.pc = "writing" => \A seen \in q.seen : reviewing'[seen.by].pc = "ok"
      BY <1>3, <1>4, <2>1 DEF ReviewInv, R!TypeOK, ReviewRight
    <3>1. q.pc \in {"looking", "writing"} =>
             \A row \in reviewRows' : row.reviewer \in q.adds => row.by \notin q.before
      BY <2>1, <3>0 DEF ReviewRight, R!SameRow
    <3>2. q.pc = "writing" /\ q.kind = "submit" =>
             \A seen \in q.seen, row \in reviewRows' :
                 R!SameRow(row, seen) /\ seen.state \in R!Verdicts =>
                     row.state \in R!Verdicts \/ Commented(seen.reviewer, q.before)'
      <4>0. r \notin {seen.by : seen \in q.seen} \/ q.pc # "writing"
        BY <2>1 DEF ReviewRight
      <4>1. ASSUME q.pc = "writing", q.kind = "submit", NEW seen \in q.seen, NEW row \in reviewRows',
                   R!SameRow(row, seen), seen.state \in R!Verdicts, row.state \notin R!Verdicts
            PROVE  Commented(seen.reviewer, q.before)'
        <5>1. row.by # r
          BY <4>0, <4>1 DEF R!SameRow
        <5>2. PICK old \in reviewRows :
                 /\ R!SameRow(row, old)
                 /\ row.state = old.state \/
                       (/\ reviewing[r].kind = "submit" /\ row.reviewer \in reviewing[r].who
                        /\ row.state = reviewing[r].state)
          BY <5>1
        <5>3. R!SameRow(old, seen) /\ row.reviewer = seen.reviewer
          BY <4>1, <5>2 DEF R!SameRow
        <5>4. CASE row.state = old.state
          <6>1. Commented(seen.reviewer, q.before)
            BY <2>1, <4>1, <5>2, <5>3, <5>4 DEF ReviewRight
          <6>. QED
            BY <1>8, <3>0, <6>1
        <5>5. CASE row.state # old.state
          <6>1. row.state = "pending"
            BY <4>1 DEF R!Rows, R!States
          <6>. QED
            BY <1>13, <3>0, <5>2, <5>3, <5>5, <6>1
        <5>. QED
          BY <5>4, <5>5
      <4>. QED
        BY <4>1
    <3>3. q.pc = "writing" /\ q.kind = "remove" =>
             \A s \in q.before, u \in q.who : Verdict(s, u)' => Excused(s, u)'
      BY <1>10, <1>11, <2>1, <3>0 DEF ReviewRight
    <3>4. q.before \subseteq R!Ended' \ {p}
      BY <1>6, <1>12
    <3>. QED
      BY <2>1, <3>0, <3>a, <3>1, <3>2, <3>3, <3>4 DEF ReviewRight
  <2>. QED
    BY <2>2, <2>3
<1>18. ASSUME NEW s \in Reviewing, NEW u \in Reviewers, Verdict(s, u)'
       PROVE  \/ \E row \in reviewRows' : row.reviewer = u /\ row.state \in R!Verdicts
              \/ Excused(s, u)'
  <2>1. CASE s = r
    BY <1>6, <1>7, <1>8, <1>18, <2>1 DEF Verdict, Excused
  <2>2. CASE s # r
    <3>1. Verdict(s, u)
      BY <1>11, <1>18, <2>2
    <3>2. CASE Excused(s, u)
      BY <1>10, <3>2
    <3>3. CASE ~Excused(s, u)
      <4>1. PICK old \in reviewRows : old.reviewer = u /\ old.state \in R!Verdicts
        BY <3>1, <3>3 DEF ReviewInv
      <4>2. CASE reviewing[r].kind = "remove" /\ u \in reviewing[r].who
        <5>1. s \notin reviewing[r].before
          BY <1>1, <3>1, <3>3, <4>2 DEF ReviewRight
        <5>2. R!Overlap(r, s)' /\ R!Done(r, "remove", u)'
          BY <1>6, <1>7, <4>2, <5>1 DEF R!Overlap
        <5>. QED
          BY <5>2 DEF Excused
      <4>3. CASE reviewing[r].kind = "submit" /\ u \in reviewing[r].who /\ reviewing[r].state = "pending"
        BY <1>6, <1>13, <4>3 DEF Excused
      <4>. QED
        BY <4>1, <4>2, <4>3
    <3>. QED
      BY <3>2, <3>3
  <2>. QED
    BY <2>1, <2>2
<1>19. \A a, b \in reviewRows' : R!SameRow(a, b)' => a = b
  BY DEF R!SameRow
<1>. QED
  BY <1>5, <1>15, <1>16, <1>17, <1>18, <1>19 DEF ReviewInv

LEMMA ReviewsWrite ==
    ASSUME ReviewInv, NEW r \in Reviewing, R!CommitAdds(r) \/ R!CommitRemove(r) \/ R!CommitUpdate(r)
    PROVE  ReviewInv'
<1>0. /\ reviewing[r] \in R!RequestStates /\ ReviewRight(r, reviewing[r]) /\ IsFiniteSet(reviewRows)
      /\ reviewRows \subseteq R!Rows /\ reviewing[r].pc = "writing" /\ R!Answer(r)
  BY DEF ReviewInv, R!TypeOK, R!CommitAdds, R!CommitRemove, R!CommitUpdate, R!Writing
<1>1. \A a, b \in reviewRows : R!SameRow(a, b) => a = b
  BY DEF ReviewInv
<1>2. \A row \in reviewRows : row.by # r
  BY <1>0 DEF ReviewInv
<1>3. CASE R!CommitAdds(r)
  <2>. DEFINE new(u) == [by |-> r, reviewer |-> u, state |-> reviewing[r].state]
              adds == reviewing[r].adds
  <2>1. adds \subseteq Reviewers /\ reviewing[r].state \in R!States /\ IsFiniteSet(adds)
    BY <1>0 DEF R!RequestStates, ReviewRight
  <2>2. reviewRows' = reviewRows \cup {new(u) : u \in adds}
    BY <1>3 DEF R!CommitAdds
  <2>3. reviewRows' \subseteq R!Rows
    BY <1>0, <2>1, <2>2 DEF R!Rows
  <2>4. IsFiniteSet(reviewRows')
    <3>1. PICK f : f = [u \in adds |-> new(u)]
      BY Zenon
    <3>2. f \in Surjection(adds, {new(u) : u \in adds})
      BY <3>1 DEF Surjection
    <3>3. IsFiniteSet({new(u) : u \in adds})
      BY <2>1, <3>2, FS_Surjection
    <3>. QED
      BY <1>0, <2>2, <3>3, FS_Union, Zenon
  <2>5. \A a, b \in reviewRows' : R!SameRow(a, b) => a = b
    BY <1>1, <1>2, <2>2 DEF R!SameRow
  <2>6. \A row \in reviewRows' :
           (row.by = r /\ row.reviewer \in adds) \/ row \in reviewRows
    BY <2>2
  <2>7. reviewing[r].kind = "submit" /\ reviewing[r].state \in R!Verdicts =>
           \A u \in reviewing[r].who :
              \E row \in reviewRows' : row.reviewer = u /\ row.state \in R!Verdicts
    <3>1. reviewing[r].kind = "submit" => reviewing[r].who = adds
      BY <1>0, <1>3, Zenon DEF R!CommitAdds, R!Writing, ReviewRight
    <3>2. \A u \in adds : new(u) \in reviewRows' /\ new(u).reviewer = u /\ new(u).state = reviewing[r].state
      BY <2>2
    <3>. QED
      BY <3>1, <3>2, Zenon
  <2>8. \A row \in reviewRows : R!SameRow(row, row)
    BY DEF R!SameRow
  <2>. QED
    BY <1>0, <2>2, <2>3, <2>4, <2>5, <2>6, <2>7, <2>8, ReviewCommits
<1>4. CASE R!CommitRemove(r)
  <2>1. reviewRows' \subseteq reviewRows /\ reviewing[r].kind = "remove"
    BY <1>4 DEF R!CommitRemove, R!Writing
  <2>2. \A old \in reviewRows : old \in reviewRows' \/ old.reviewer \in reviewing[r].who
    BY <1>0, <1>4 DEF R!CommitRemove, R!SameRow, ReviewRight
  <2>3. IsFiniteSet(reviewRows')
    BY <1>0, <2>1, FS_Subset
  <2>4. \A row \in reviewRows : R!SameRow(row, row)
    BY DEF R!SameRow
  <2>. QED
    BY <1>0, <1>1, <2>1, <2>2, <2>3, <2>4, ReviewCommits
<1>5. CASE R!CommitUpdate(r)
  <2>1. PICK seen \in reviewing[r].seen, row \in reviewRows :
           /\ R!SameRow(row, seen)
           /\ reviewRows' = IF seen.state = reviewing[r].state
                            THEN reviewRows
                            ELSE (reviewRows \ {row}) \cup {[row EXCEPT !.state = reviewing[r].state]}
    BY <1>5, Zenon DEF R!CommitUpdate
  <2>2. reviewing[r].kind = "submit" /\ row \in R!Rows /\ reviewing[r].state \in R!States
    BY <1>0, <1>5 DEF R!CommitUpdate, R!Writing, R!RequestStates
  <2>3. PICK new : new = [row EXCEPT !.state = reviewing[r].state]
    BY Zenon
  <2>4. new \in R!Rows /\ new.by = row.by /\ new.reviewer = row.reviewer /\ new.state = reviewing[r].state
    BY <2>2, <2>3 DEF R!Rows
  <2>5. seen.reviewer = row.reviewer /\ reviewing[r].who = {row.reviewer}
    BY <1>0, <2>1, <2>2 DEF ReviewRight, R!SameRow
  <2>6. \A a \in reviewRows : R!SameRow(a, a)
    BY DEF R!SameRow
  <2>7. CASE seen.state = reviewing[r].state
    <3>1. reviewRows' = reviewRows
      BY <2>1, <2>7
    <3>2. reviewing[r].state \in R!Verdicts =>
             row.state \in R!Verdicts \/ Commented(seen.reviewer, reviewing[r].before)
      BY <1>0, <2>1, <2>2, <2>7 DEF ReviewRight
    <3>. QED
      BY <1>0, <1>1, <2>2, <2>5, <2>6, <3>1, <3>2, ReviewCommits
  <2>8. CASE seen.state # reviewing[r].state
    <3>1. reviewRows' = (reviewRows \ {row}) \cup {new}
      BY <2>1, <2>3, <2>8
    <3>2. IsFiniteSet(reviewRows')
      <4>1. IsFiniteSet(reviewRows \ {row})
        BY <1>0, FS_Subset
      <4>. QED
        BY <3>1, <4>1, FS_AddElement
    <3>3. \A a, b \in reviewRows' : R!SameRow(a, b) => a = b
      BY <1>1, <2>4, <3>1 DEF R!SameRow
    <3>4. R!SameRow(new, row)
      BY <2>4 DEF R!SameRow
    <3>5. \A old \in reviewRows : old.state \in R!Verdicts =>
             \/ \E a \in reviewRows' : a.reviewer = old.reviewer /\ a.state \in R!Verdicts
             \/ old.reviewer \in reviewing[r].who /\ reviewing[r].state = "pending"
      BY <2>2, <2>4, <2>5, <3>1 DEF R!States
    <3>6. reviewing[r].state \in R!Verdicts =>
             \A u \in reviewing[r].who : \E a \in reviewRows' : a.reviewer = u /\ a.state \in R!Verdicts
      BY <2>4, <2>5, <3>1
    <3>7. reviewRows' \subseteq R!Rows
      BY <1>0, <2>4, <3>1
    <3>8. \A a \in reviewRows' :
             \E old \in reviewRows :
                 /\ R!SameRow(a, old)
                 /\ a.state = old.state \/
                       (a.reviewer \in reviewing[r].who /\ a.state = reviewing[r].state)
      BY <2>4, <2>5, <2>6, <3>1, <3>4
    <3>. QED
      BY <1>0, <2>2, <3>2, <3>3, <3>5, <3>6, <3>7, <3>8, ReviewCommits
  <2>. QED
    BY <2>7, <2>8
<1>. QED
  BY <1>3, <1>4, <1>5

LEMMA ReviewsStep == ReviewInv /\ [R!Next]_reviewVars => ReviewInv'
<1>1. ASSUME ReviewInv, UNCHANGED reviewVars PROVE ReviewInv'
  <2>1. reviewRows' = reviewRows /\ reviewing' = reviewing
    BY <1>1 DEF reviewVars
  <2>2. R!TypeOK' /\ R!TwoRowsOverlapped'
    BY <1>1, <2>1 DEF ReviewInv, R!TypeOK, R!TwoRowsOverlapped, R!Overlap
  <2>3. \A r \in Reviewing : ReviewRight(r, reviewing[r])'
    BY <1>1, <2>1 DEF ReviewInv, ReviewRight, Verdict, Excused, Commented, R!Done, R!Overlap, R!Ended,
          R!SameRow
  <2>4. \A s \in Reviewing, u \in Reviewers : Verdict(s, u)' =>
           \/ \E row \in reviewRows' : row.reviewer = u /\ row.state \in R!Verdicts
           \/ Excused(s, u)'
    BY <1>1, <2>1 DEF ReviewInv, Verdict, Excused, Commented, R!Done, R!Overlap
  <2>. QED
    BY <1>1, <2>1, <2>2, <2>3, <2>4 DEF ReviewInv, R!SameRow
<1>2. ASSUME ReviewInv, NEW r \in Reviewing,
             R!RequestReviewers(r) \/ R!RemoveReviewer(r) \/ R!SubmitReview(r)
      PROVE  ReviewInv'
  <2>1. CASE R!RequestReviewers(r)
    <3>1. PICK who \in SUBSET Reviewers : R!Start(r, "request", who, "pending")
      BY <2>1 DEF R!RequestReviewers
    <3>. QED
      BY <1>2, <3>1, ReviewStarts DEF R!States
  <2>2. CASE R!RemoveReviewer(r)
    <3>1. PICK u \in Reviewers : R!Start(r, "remove", {u}, "pending")
      BY <2>2 DEF R!RemoveReviewer
    <3>. QED
      BY <1>2, <3>1, ReviewStarts DEF R!States
  <2>3. CASE R!SubmitReview(r)
    <3>1. PICK u \in Reviewers, state \in R!States : R!Start(r, "submit", {u}, state)
      BY <2>3, Zenon DEF R!SubmitReview
    <3>. QED
      BY <1>2, <3>1, ReviewStarts
  <2>. QED
    BY <1>2, <2>1, <2>2, <2>3
<1>3. ASSUME ReviewInv, NEW r \in Reviewing,
             R!Ambiguous(r) \/ R!NotRemovable(r) \/ R!UpdateNothing(r) \/ R!Fail(r)
      PROVE  ReviewInv'
  <2>1. reviewing[r].pc \in {"looking", "writing"} /\ R!Refuse(r)
    BY <1>3 DEF R!Ambiguous, R!NotRemovable, R!UpdateNothing, R!Fail, R!Looking, R!Writing
  <2>. QED
    BY <1>3, <2>1, ReviewRefused
<1>. QED
  BY <1>1, <1>2, <1>3, ReviewFinds, ReviewsWrite DEF R!Next

(***************************************************************************)
(* A reviewer has one row, as the model of the table says                  *)
(* (musehub_models.py:547), and a verdict keeps its reviewer among the     *)
(* reviews (musehub_pull_requests.py:423), unless requests overlap: for    *)
(* any number of requests and reviewers.                                   *)
(***************************************************************************)
THEOREM ReviewsAlwaysHold == AllSpec => []ReviewsHold
<1>1. AllInit => ReviewInv
  BY ReviewsInit DEF AllInit
<1>2. ReviewInv /\ [AllNext]_allVars => ReviewInv'
  <2>1. [AllNext]_allVars => [R!Next]_reviewVars
    BY DEF AllNext, Others, allVars
  <2>. QED
    BY <2>1, ReviewsStep
<1>. QED
  BY <1>1, <1>2, ReviewsSafe, PTL DEF AllSpec

-----------------------------------------------------------------------------
(***************************************************************************)
(* Releases.  A download names an asset that was attached, so one attached *)
(* now has no downloads yet; and an UPDATE adds to the counter as it is.   *)
(***************************************************************************)
ReleaseInv ==
    /\ L!TypeOK
    /\ \A a, b \in releases : a.tag = b.tag => a = b
    /\ \A row \in assets :
          /\ \E release \in releases : release.id = row.release
          /\ row.count = Cardinality(L!Downloads(row.id))
    /\ \A d \in Releasing :
          releasing[d].pc # "idle" /\ releasing[d].kind = "download" => releasing[d].asset \in L!Attached
    /\ \A a \in Releasing : IsFiniteSet(L!Downloads(a))

LEMMA ReleasesSafe == ReleaseInv => ReleasesHold
<1>1. \A S : L!Cardinality(S) = Cardinality(S)
  BY DEF L!Cardinality, Cardinality
<1>. QED
  BY <1>1 DEF ReleaseInv, ReleasesHold, L!ReleasesHold

LEMMA ReleasesInit == L!Init => ReleaseInv
<1>. SUFFICES ASSUME L!Init PROVE ReleaseInv
  OBVIOUS
<1>1. \A r \in Releasing : L!AnyRequest \in Releasing
  BY DEF L!AnyRequest
<1>2. (CHOOSE t \in ReleaseTags : TRUE) \in ReleaseTags
  BY ReleaseTagsOK DEF ReleaseTagsOK
<1>3. L!TypeOK
  BY <1>1, <1>2 DEF L!Init, L!TypeOK, L!RequestStates, L!Kinds
<1>4. \A a \in Releasing : L!Downloads(a) = {}
  BY DEF L!Init, L!Downloads
<1>. QED
  BY <1>3, <1>4, FS_EmptySet DEF L!Init, ReleaseInv

\* A step that commits nothing.
LEMMA ReleaseQuiet ==
    ASSUME ReleaseInv, NEW r \in Releasing, NEW new \in L!RequestStates,
           releasing' = [releasing EXCEPT ![r] = new], releases' = releases, assets' = assets,
           releasing[r].pc # "ok", new.pc # "ok",
           new.kind = "download" => new.asset \in L!Attached
    PROVE  ReleaseInv'
<1>1. releasing'[r] = new /\ \A q \in Releasing \ {r} : releasing'[q] = releasing[q]
  BY DEF ReleaseInv, L!TypeOK
<1>2. L!TypeOK'
  BY DEF ReleaseInv, L!TypeOK
<1>3. L!Attached' = L!Attached
  BY <1>1 DEF L!Attached
<1>4. \A a : L!Downloads(a)' = L!Downloads(a)
  BY <1>1 DEF L!Downloads
<1>. QED
  BY <1>1, <1>2, <1>3, <1>4 DEF ReleaseInv

LEMMA ReleaseReads ==
    ASSUME ReleaseInv, NEW r \in Releasing,
           \/ L!Begin(r) \/ L!TagTaken(r) \/ L!TagFree(r) \/ L!ReleaseMissing(r) \/ L!FindRelease(r)
           \/ L!FindAsset(r) \/ L!AssetMissing(r) \/ L!Fail(r)
    PROVE  ReleaseInv'
<1>0. /\ releasing \in [Releasing -> L!RequestStates] /\ releasing[r] \in L!RequestStates
      /\ releases \subseteq L!ReleaseRows
  BY DEF ReleaseInv, L!TypeOK
<1>1. CASE L!Begin(r)
  <2>1. L!Attached \subseteq Releasing /\ releasing[r].pc = "idle"
    BY <1>1, Zenon DEF L!Attached, L!Begin, L!IsNext
  <2>2. PICK new \in L!RequestStates :
           /\ releasing' = [releasing EXCEPT ![r] = new]
           /\ new.pc = "looking" /\ (new.kind = "download" => new.asset \in L!Attached)
    <3>1. PICK tag \in ReleaseTags :
             \/ \E kind \in {"create", "retract", "attach"} :
                   releasing' = [releasing EXCEPT ![r].kind = kind, ![r].tag = tag, ![r].pc = "looking"]
             \/ \E kind \in {"download", "remove"}, a \in L!Attached :
                   releasing' = [releasing EXCEPT ![r].kind = kind, ![r].tag = tag, ![r].asset = a,
                                                  ![r].pc = "looking"]
      BY <1>1, Zenon DEF L!Begin
    <3>2. ASSUME NEW kind \in {"create", "retract", "attach"},
                 releasing' = [releasing EXCEPT ![r].kind = kind, ![r].tag = tag, ![r].pc = "looking"]
          PROVE  \E new \in L!RequestStates :
                    /\ releasing' = [releasing EXCEPT ![r] = new]
                    /\ new.pc = "looking" /\ (new.kind = "download" => new.asset \in L!Attached)
      <4>1. PICK new : new = [releasing[r] EXCEPT !.kind = kind, !.tag = tag, !.pc = "looking"]
        OBVIOUS
      <4>2. new \in L!RequestStates /\ new.pc = "looking" /\ new.kind # "download"
        BY <1>0, <4>1, Zenon DEF L!RequestStates, L!Kinds
      <4>3. releasing' = [releasing EXCEPT ![r] = new]
        BY <1>0, <3>2, <4>1, Zenon
      <4>. QED
        BY <4>2, <4>3, Zenon
    <3>3. ASSUME NEW kind \in {"download", "remove"}, NEW a \in L!Attached,
                 releasing' = [releasing EXCEPT ![r].kind = kind, ![r].tag = tag, ![r].asset = a,
                                                ![r].pc = "looking"]
          PROVE  \E new \in L!RequestStates :
                    /\ releasing' = [releasing EXCEPT ![r] = new]
                    /\ new.pc = "looking" /\ (new.kind = "download" => new.asset \in L!Attached)
      <4>1. PICK new : new = [releasing[r] EXCEPT !.kind = kind, !.tag = tag, !.asset = a, !.pc = "looking"]
        OBVIOUS
      <4>2. new \in L!RequestStates /\ new.pc = "looking" /\ new.asset = a
        BY <1>0, <2>1, <4>1, Zenon DEF L!RequestStates, L!Kinds
      <4>3. releasing' = [releasing EXCEPT ![r] = new]
        BY <1>0, <3>3, <4>1, Zenon
      <4>. QED
        BY <4>2, <4>3, Zenon
    <3>. QED
      BY <3>1, <3>2, <3>3, Zenon
  <2>. QED
    BY <1>1, <2>1, <2>2, ReleaseQuiet, Zenon DEF L!Begin
<1>2. CASE ~L!Begin(r)
  <2>1. PICK release \in Releasing, pc \in {"asset", "writing", "failed"} :
           /\ releasing' = [releasing EXCEPT ![r].release = release, ![r].pc = pc]
           /\ releases' = releases /\ assets' = assets
           /\ releasing[r].pc \in {"looking", "asset", "writing"}
    <3>1. CASE L!FindRelease(r)
      <4>1. PICK row \in L!Tagged(releasing[r].tag) :
               releasing' = [releasing EXCEPT ![r].release = row.id,
                              ![r].pc = IF releasing[r].kind \in {"retract", "attach"} THEN "writing" ELSE "asset"]
        BY <3>1, Zenon DEF L!FindRelease
      <4>2. row.id \in Releasing
        BY <1>0 DEF L!Tagged, L!ReleaseRows
      <4>3. PICK pc \in {"asset", "writing"} :
               pc = IF releasing[r].kind \in {"retract", "attach"} THEN "writing" ELSE "asset"
        OBVIOUS
      <4>. QED
        BY <3>1, <4>1, <4>2, <4>3, Zenon DEF L!FindRelease
    <3>2. ASSUME NEW pc \in {"writing", "failed"}, releasing' = [releasing EXCEPT ![r].pc = pc]
          PROVE  releasing' = [releasing EXCEPT ![r].release = releasing[r].release, ![r].pc = pc]
      BY <1>0, <3>2, Zenon DEF L!RequestStates
    <3>3. releasing[r].release \in Releasing
      BY <1>0 DEF L!RequestStates
    <3>4. CASE L!TagTaken(r) \/ L!ReleaseMissing(r) \/ L!AssetMissing(r) \/ L!Fail(r)
      BY <3>2, <3>3, <3>4 DEF L!TagTaken, L!ReleaseMissing, L!AssetMissing, L!Fail, L!Refuse
    <3>5. CASE L!TagFree(r) \/ L!FindAsset(r)
      BY <3>2, <3>3, <3>5 DEF L!TagFree, L!FindAsset
    <3>. QED
      BY <1>2, <3>1, <3>4, <3>5, Zenon
  <2>2. PICK new : new = [releasing[r] EXCEPT !.release = release, !.pc = pc]
    OBVIOUS
  <2>3. /\ new \in L!RequestStates /\ new.pc = pc /\ new.kind = releasing[r].kind
        /\ new.asset = releasing[r].asset /\ releasing' = [releasing EXCEPT ![r] = new]
    BY <1>0, <2>1, <2>2, Zenon DEF L!RequestStates
  <2>4. new.kind = "download" => new.asset \in L!Attached
    BY <2>1, <2>3, Zenon DEF ReleaseInv
  <2>. QED
    BY <2>1, <2>3, <2>4, ReleaseQuiet, Zenon
<1>. QED
  BY <1>1, <1>2

\* What becomes of the downloads by a commit.
LEMMA ReleaseCommits ==
    ASSUME ReleaseInv, NEW r \in Releasing, releasing[r].pc = "writing", L!Ok(r)
    PROVE  /\ releasing' \in [Releasing -> L!RequestStates]
           /\ \A d \in Releasing :
                 releasing'[d].pc # "idle" /\ releasing'[d].kind = "download" =>
                     releasing'[d].asset \in L!Attached'
           /\ \A a : L!Downloads(a)' = IF releasing[r].kind = "download" /\ releasing[r].asset = a
                                       THEN L!Downloads(a) \cup {r} ELSE L!Downloads(a)
           /\ \A a : r \notin L!Downloads(a)
           /\ \A a \in Releasing : IsFiniteSet(L!Downloads(a)')
<1>1. /\ releasing \in [Releasing -> L!RequestStates]
      /\ releasing' = [releasing EXCEPT ![r].pc = "ok"]
  BY DEF ReleaseInv, L!TypeOK, L!Ok
<1>2. /\ releasing' \in [Releasing -> L!RequestStates]
      /\ releasing'[r].pc = "ok" /\ \A q \in Releasing \ {r} : releasing'[q] = releasing[q]
      /\ releasing'[r].kind = releasing[r].kind /\ releasing'[r].asset = releasing[r].asset
  BY <1>1 DEF L!RequestStates
<1>3. L!Attached \subseteq L!Attached'
  BY <1>2 DEF L!Attached
<1>4. \A d \in Releasing :
         releasing'[d].pc # "idle" /\ releasing'[d].kind = "download" => releasing'[d].asset \in L!Attached'
  BY <1>2, <1>3 DEF ReleaseInv
<1>5. \A a : L!Downloads(a)' = IF releasing[r].kind = "download" /\ releasing[r].asset = a
                               THEN L!Downloads(a) \cup {r} ELSE L!Downloads(a)
  BY <1>2 DEF L!Downloads
<1>6. \A a : r \notin L!Downloads(a)
  BY DEF L!Downloads
<1>7. \A a \in Releasing : IsFiniteSet(L!Downloads(a)')
  BY <1>5, FS_AddElement, Zenon DEF ReleaseInv
<1>. QED
  BY <1>2, <1>4, <1>5, <1>6, <1>7

LEMMA ReleasesWrite ==
    ASSUME ReleaseInv, NEW r \in Releasing,
           L!Create(r) \/ L!Retract(r) \/ L!Attach(r) \/ L!Download(r) \/ L!Remove(r)
    PROVE  ReleaseInv'
<1>0. /\ releasing[r].pc = "writing" /\ L!Ok(r) /\ releasing[r] \in L!RequestStates
      /\ releases \subseteq L!ReleaseRows /\ assets \subseteq L!AssetRows
  BY DEF ReleaseInv, L!TypeOK, L!Create, L!Retract, L!Attach, L!Download, L!Remove, L!Writing
<1>1. /\ releasing' \in [Releasing -> L!RequestStates]
      /\ \A d \in Releasing :
            releasing'[d].pc # "idle" /\ releasing'[d].kind = "download" =>
                releasing'[d].asset \in L!Attached'
      /\ \A a : L!Downloads(a)' = IF releasing[r].kind = "download" /\ releasing[r].asset = a
                                  THEN L!Downloads(a) \cup {r} ELSE L!Downloads(a)
      /\ \A a : r \notin L!Downloads(a)
      /\ \A a \in Releasing : IsFiniteSet(L!Downloads(a)')
  BY <1>0, ReleaseCommits
<1>2. ASSUME releases' \subseteq L!ReleaseRows, assets' \subseteq L!AssetRows,
             \A a, b \in releases' : a.tag = b.tag => a = b,
             \A row \in assets' : /\ \E release \in releases' : release.id = row.release
                                  /\ row.count = Cardinality(L!Downloads(row.id)')
      PROVE  ReleaseInv'
  <2>1. \A row \in assets' : row.count = Cardinality(L!Downloads(row.id))'
    BY <1>2
  <2>. QED
    BY <1>1, <1>2, <2>1 DEF ReleaseInv, L!TypeOK
<1>3. releasing[r].kind # "download" => \A a : L!Downloads(a)' = L!Downloads(a)
  BY <1>1
<1>4. CASE L!Create(r)
  <2>1. releases' = releases \cup {[id |-> r, tag |-> releasing[r].tag]} /\ assets' = assets
        /\ releasing[r].kind = "create" /\ \A row \in releases : row.tag # releasing[r].tag
    BY <1>4 DEF L!Create, L!Writing, L!Tagged
  <2>2. [id |-> r, tag |-> releasing[r].tag] \in L!ReleaseRows
    BY <1>0 DEF L!ReleaseRows, L!RequestStates
  <2>. QED
    BY <1>0, <1>2, <1>3, <2>1, <2>2 DEF ReleaseInv
<1>5. CASE L!Retract(r)
  <2>1. /\ releases' = {row \in releases : row.id # releasing[r].release}
        /\ assets' = {row \in assets : row.release # releasing[r].release}
        /\ releasing[r].kind = "retract"
    BY <1>5 DEF L!Retract, L!Writing
  <2>. QED
    BY <1>0, <1>2, <1>3, <2>1 DEF ReleaseInv
<1>6. CASE L!Attach(r)
  <2>1. PICK new : new = [id |-> r, release |-> releasing[r].release, count |-> 0]
    BY Zenon
  <2>2. /\ releases' = releases /\ assets' = assets \cup {new} /\ releasing[r].kind = "attach"
        /\ \E row \in releases : row.id = new.release
    BY <1>6, <2>1 DEF L!Attach, L!Writing
  <2>3. new \in L!AssetRows /\ new.count = 0 /\ new.id = r
    BY <1>0, <2>1 DEF L!AssetRows, L!RequestStates
  <2>4. L!Downloads(r)' = {}
    <3>1. \A d \in Releasing : ~(releasing[d].kind = "download" /\ releasing[d].asset = r /\ releasing[d].pc = "ok")
      BY <1>0 DEF ReleaseInv, L!Attached
    <3>. QED
      BY <1>3, <2>2, <3>1 DEF L!Downloads
  <2>5. Cardinality({}) = 0
    BY FS_EmptySet
  <2>. QED
    BY <1>0, <1>2, <1>3, <2>2, <2>3, <2>4, <2>5, Zenon DEF ReleaseInv
<1>7. CASE L!Download(r)
  <2>. DEFINE more(row) == IF row.id = releasing[r].asset THEN [row EXCEPT !.count = @ + 1] ELSE row
  <2>1. /\ releases' = releases /\ assets' = {more(row) : row \in assets}
        /\ releasing[r].kind = "download"
    BY <1>7 DEF L!Download, L!Writing
  <2>2. ASSUME NEW row \in assets
        PROVE  /\ more(row) \in L!AssetRows /\ more(row).id = row.id /\ more(row).release = row.release
               /\ more(row).count = Cardinality(L!Downloads(row.id)')
    <3>0. row \in L!AssetRows /\ row.count = Cardinality(L!Downloads(row.id))
      BY <1>0 DEF ReleaseInv
    <3>1. CASE row.id = releasing[r].asset
      <4>1. L!Downloads(row.id)' = L!Downloads(row.id) \cup {r} /\ r \notin L!Downloads(row.id)
        BY <1>1, <2>1, <3>1
      <4>2. IsFiniteSet(L!Downloads(row.id))
        BY <3>0 DEF ReleaseInv, L!AssetRows
      <4>3. Cardinality(L!Downloads(row.id) \cup {r}) = Cardinality(L!Downloads(row.id)) + 1
        BY <4>1, <4>2, FS_AddElement, Zenon
      <4>. QED
        BY <3>0, <3>1, <4>1, <4>3 DEF L!AssetRows
    <3>2. CASE row.id # releasing[r].asset
      BY <1>1, <3>0, <3>2
    <3>. QED
      BY <3>1, <3>2
  <2>. HIDE DEF more
  <2>3. \A row \in assets : \E release \in releases : release.id = row.release
    BY DEF ReleaseInv
  <2>4. \A new \in assets' : /\ new \in L!AssetRows
                             /\ \E release \in releases' : release.id = new.release
                             /\ new.count = Cardinality(L!Downloads(new.id)')
    BY <2>1, <2>2, <2>3
  <2>. QED
    BY <1>0, <1>2, <2>1, <2>4 DEF ReleaseInv
<1>8. CASE L!Remove(r)
  <2>1. /\ releases' = releases /\ assets' \subseteq assets /\ releasing[r].kind = "remove"
    BY <1>8 DEF L!Remove, L!Writing
  <2>. QED
    BY <1>0, <1>2, <1>3, <2>1 DEF ReleaseInv
<1>. QED
  BY <1>4, <1>5, <1>6, <1>7, <1>8

LEMMA ReleasesStep == ReleaseInv /\ [L!Next]_releaseVars => ReleaseInv'
<1>1. ASSUME ReleaseInv, UNCHANGED releaseVars PROVE ReleaseInv'
  BY <1>1 DEF releaseVars, ReleaseInv, L!TypeOK, L!Downloads, L!Attached
<1>. QED
  BY <1>1, ReleaseReads, ReleasesWrite DEF L!Next

(***************************************************************************)
(* Releases hold together, for any number of requests and tags: a tag      *)
(* names one release, no asset outlives its release, and the counter of an *)
(* asset is the number of downloads answered (musehub_releases.py:697).    *)
(***************************************************************************)
THEOREM ReleasesAlwaysHold == AllSpec => []ReleasesHold
<1>1. AllInit => ReleaseInv
  BY ReleasesInit DEF AllInit
<1>2. ReleaseInv /\ [AllNext]_allVars => ReleaseInv'
  <2>1. [AllNext]_allVars => [L!Next]_releaseVars
    BY DEF AllNext, Others, allVars
  <2>. QED
    BY <2>1, ReleasesStep
<1>. QED
  BY <1>1, <1>2, ReleasesSafe, PTL DEF AllSpec

-----------------------------------------------------------------------------
(***************************************************************************)
(* The issue tracker.  A number drawn stays above the numbers of the rows  *)
(* of requests that had ended, since rows of others come after it; and     *)
(* what a removal has loaded differs from the row only by what another     *)
(* request has written meanwhile.                                          *)
(***************************************************************************)
Bounded(rows) == \E n \in Nat : \A row \in rows : row.number <= n

\* A request q writes labels of issue id.
WritesLabels(q, id) ==
    q.pc = "ok" /\ q.kind \in T!LabelWriters /\ \E s \in q.seen : s.id = id

\* Another one than r did, that had not ended before r began.
Rewritten(r, before, id) ==
    \E q \in Tracking \ {r} : q \notin before /\ WritesLabels(tracking[q], id)

\* What holds of request r when its state is q.
TrackRight(r, q) ==
    /\ q.before \subseteq T!Ended \ {r}
    /\ \A s \in q.seen : \E i \in issues : i.id = s.id
    /\ q.pc = "checking" => q.kind \in T!IssueKinds
    /\ q.pc \in {"checking", "writing", "ok"} /\ q.kind \in T!IssueKinds => \E s : q.seen = {s}
    /\ q.pc = "writing" /\ q.kind = "issue" =>
          /\ \A n \in 1..(q.number - 1) : \E j \in issues : j.number = n
          /\ \A a \in issues : a.id \in q.before => a.number < q.number
    /\ q.pc = "writing" /\ q.kind = "milestone" =>
          \A a \in milestones : a.id \in q.before => a.number < q.number
    /\ q.pc \in {"checking", "writing", "ok"} /\ q.kind = "unlabel" =>
          \A s \in q.seen, i \in issues : i.id = s.id /\ q.labels \cap i.labels # {} =>
              \/ q.pc # "ok" /\ q.labels \cap s.labels # {}
              \/ Rewritten(r, q.before, i.id)

TrackerInv ==
    /\ T!TypeOK
    /\ IsFiniteSet(issues) /\ Bounded(issues) /\ Bounded(milestones)
    /\ \A i \in issues : tracking[i.id].pc = "ok"
    /\ \A m \in milestones : tracking[m.id].pc = "ok"
    /\ \A a, b \in issues : a.id = b.id => a = b
    /\ T!NumbersInOrder /\ T!MilestonesExist
    /\ \A r \in Tracking : TrackRight(r, tracking[r])

LEMMA TrackerSafe == TrackerInv => TrackerHolds
<1>. SUFFICES ASSUME TrackerInv PROVE TrackerHolds
  OBVIOUS
<1>1. T!RemovalsHold
  <2>. SUFFICES ASSUME NEW r \in Tracking, tracking[r].pc = "ok", tracking[r].kind = "unlabel",
                       NEW seen \in tracking[r].seen, NEW i \in issues, i.id = seen.id,
                       tracking[r].labels \cap i.labels # {}
                PROVE  \E q \in Tracking \ {r} :
                          /\ q \notin tracking[r].before
                          /\ tracking[q].pc = "ok" /\ tracking[q].kind \in T!LabelWriters
                          /\ \E s \in tracking[q].seen : s.id = i.id
    BY DEF T!RemovalsHold
  <2>1. Rewritten(r, tracking[r].before, i.id)
    BY DEF TrackerInv, TrackRight
  <2>. QED
    BY <2>1 DEF Rewritten, WritesLabels
<1>. QED
  BY <1>1 DEF TrackerInv, TrackerHolds, T!TrackerHolds

LEMMA TrackerInit == Opened => TrackerInv
<1>. SUFFICES ASSUME Opened PROVE TrackerInv
  OBVIOUS
<1>1. /\ issues = {[id |-> 1, number |-> 1, labels |-> IssueLabels, milestone |-> 0]}
      /\ milestones = {[id |-> 2, number |-> 1]}
      /\ 1 \in Tracking /\ 2 \in Tracking
  BY TrackingOK DEF Opened, TrackingOK
<1>2. PICK one : one = [id |-> 1, number |-> 1, labels |-> IssueLabels, milestone |-> 0]
  BY Zenon
<1>3. /\ issues = {one} /\ one \in T!Issues /\ one.id = 1 /\ one.number = 1
      /\ one.milestone = T!NoMilestone
  BY <1>1, <1>2 DEF T!Issues, T!NoMilestone
<1>4. PICK two : two = [id |-> 2, number |-> 1]
  BY Zenon
<1>5. milestones = {two} /\ two \in T!Milestones /\ two.id = 2 /\ two.number = 1
  BY <1>1, <1>4 DEF T!Milestones
<1>6. \A r \in Tracking :
         /\ tracking[r] \in T!RequestStates /\ tracking[r].before = {} /\ tracking[r].seen = {}
         /\ r \in {1, 2} => tracking[r].pc = "ok"
         /\ tracking[r].pc \in {"idle", "ok"} /\ tracking[r].kind \in {"issue", "milestone"}
  <2>1. T!NoRequest \in T!RequestStates
    BY DEF T!NoRequest, T!RequestStates, T!Kinds
  <2>2. ASSUME NEW q, q = [T!NoRequest EXCEPT !.number = 1, !.labels = IssueLabels, !.pc = "ok"]
        PROVE  q \in T!RequestStates /\ q.before = {} /\ q.seen = {} /\ q.pc = "ok" /\ q.kind = "issue"
    BY <2>2, Zenon DEF T!NoRequest, T!RequestStates, T!Kinds
  <2>3. ASSUME NEW q, q = [T!NoRequest EXCEPT !.kind = "milestone", !.number = 1, !.pc = "ok"]
        PROVE  q \in T!RequestStates /\ q.before = {} /\ q.seen = {} /\ q.pc = "ok" /\ q.kind = "milestone"
    BY <2>3, Zenon DEF T!NoRequest, T!RequestStates, T!Kinds
  <2>4. T!NoRequest.before = {} /\ T!NoRequest.seen = {} /\ T!NoRequest.pc = "idle"
        /\ T!NoRequest.kind = "issue"
    BY DEF T!NoRequest
  <2>5. ASSUME NEW r \in Tracking
        PROVE  \/ r = 1 /\ tracking[r] = [T!NoRequest EXCEPT !.number = 1, !.labels = IssueLabels, !.pc = "ok"]
               \/ r = 2 /\ tracking[r] = [T!NoRequest EXCEPT !.kind = "milestone", !.number = 1, !.pc = "ok"]
               \/ r \notin {1, 2} /\ tracking[r] = T!NoRequest
    BY DEF Opened
  <2>. QED
    BY <2>1, <2>2, <2>3, <2>4, <2>5
<1>7. tracking \in [Tracking -> T!RequestStates]
  <2>1. \E f : tracking = [r \in Tracking |-> f[r]]
    <3>1. PICK f : f = [r \in Tracking |->
                     CASE r = 1 -> [T!NoRequest EXCEPT !.number = 1, !.labels = IssueLabels, !.pc = "ok"]
                       [] r = 2 -> [T!NoRequest EXCEPT !.kind = "milestone", !.number = 1, !.pc = "ok"]
                       [] OTHER -> T!NoRequest]
      BY Zenon
    <3>. QED
      BY <3>1 DEF Opened
  <2>. QED
    BY <1>6, <2>1
<1>8. IsFiniteSet(issues)
  BY <1>3, FS_Singleton, Zenon
<1>9. Bounded(issues) /\ Bounded(milestones)
  BY <1>3, <1>5 DEF Bounded
<1>10. T!NumbersInOrder
  BY <1>1, <1>3, <1>5, <1>6 DEF T!NumbersInOrder
<1>11. \A r \in Tracking : TrackRight(r, tracking[r])
  BY <1>6 DEF TrackRight, T!IssueKinds
<1>12. T!MilestonesExist
  BY <1>3 DEF T!MilestonesExist
<1>. QED
  BY <1>1, <1>3, <1>5, <1>6, <1>7, <1>8, <1>9, <1>10, <1>11, <1>12 DEF TrackerInv, T!TypeOK

(***************************************************************************)
(* What holds of a request stays so when another one moves: rows keep      *)
(* their ids and numbers, and who changes labels of a row has written it.  *)
(***************************************************************************)
Moves(r, new) ==
    /\ tracking' = [tracking EXCEPT ![r] = new]
    /\ new \in T!RequestStates /\ tracking[r].pc \notin {"ok", "failed"}

LEMMA TrackRightKept ==
    ASSUME TrackerInv, NEW r \in Tracking, NEW new, Moves(r, new),
           \A n \in issues' : n.id = r \/ \E i \in issues :
               /\ n.id = i.id /\ n.number = i.number
               /\ n.labels = i.labels \/ WritesLabels(new, i.id),
           \A i \in issues : \E n \in issues' : n.id = i.id /\ n.number = i.number,
           \A m \in milestones' : m.id = r \/ m \in milestones,
           NEW p \in Tracking, NEW q, TrackRight(p, q), p # r \/ issues' = issues
    PROVE  TrackRight(p, q)'
<1>1. tracking'[r] = new /\ \A x \in Tracking \ {r} : tracking'[x] = tracking[x]
  BY DEF Moves, TrackerInv, T!TypeOK
<1>2. T!Ended \subseteq T!Ended' /\ r \notin T!Ended
  BY <1>1 DEF T!Ended, Moves
<1>3. r \notin q.before /\ q.before \subseteq T!Ended' \ {p}
  BY <1>2 DEF TrackRight
<1>4. \A id : Rewritten(p, q.before, id) => Rewritten(p, q.before, id)'
  <2>1. \A x \in Tracking : \A id : WritesLabels(tracking[x], id) => WritesLabels(tracking'[x], id)
    BY <1>1 DEF WritesLabels, Moves
  <2>2. ASSUME NEW id, Rewritten(p, q.before, id) PROVE Rewritten(p, q.before, id)'
    <3>1. PICK x \in Tracking \ {p} : x \notin q.before /\ WritesLabels(tracking[x], id)
      BY <2>2, Zenon DEF Rewritten
    <3>2. WritesLabels(tracking'[x], id)
      BY <2>1, <3>1, Zenon
    <3>. QED
      BY <3>1, <3>2, Zenon DEF Rewritten, WritesLabels
  <2>. QED
    BY <2>2, Zenon
<1>5. p # r => \A id : WritesLabels(new, id) => Rewritten(p, q.before, id)'
  <2>1. \A id : WritesLabels(new, id) => WritesLabels(tracking'[r], id)
    BY <1>1
  <2>. QED
    BY <1>3, <2>1, Zenon DEF Rewritten, WritesLabels
<1>6. \A s \in q.seen : s.id # r
  BY DEF TrackRight, TrackerInv, Moves
<1>7. \A s \in q.seen : \E n \in issues' : n.id = s.id
  BY DEF TrackRight
<1>8. ASSUME q.pc = "writing", q.kind = "issue"
      PROVE  /\ \A n \in 1..(q.number - 1) : \E j \in issues' : j.number = n
             /\ \A a \in issues' : a.id \in q.before => a.number < q.number
  <2>1. /\ \A n \in 1..(q.number - 1) : \E j \in issues : j.number = n
        /\ \A a \in issues : a.id \in q.before => a.number < q.number
    BY <1>8 DEF TrackRight
  <2>2. \A n \in 1..(q.number - 1) : \E j \in issues' : j.number = n
    BY <2>1
  <2>3. \A a \in issues' : a.id \in q.before => a.number < q.number
    BY <1>3, <2>1
  <2>. QED
    BY <2>2, <2>3
<1>9. q.pc = "writing" /\ q.kind = "milestone" =>
          \A a \in milestones' : a.id \in q.before => a.number < q.number
  BY <1>3 DEF TrackRight
<1>10. ASSUME q.pc \in {"checking", "writing", "ok"}, q.kind = "unlabel",
              NEW s \in q.seen, NEW n \in issues', n.id = s.id, q.labels \cap n.labels # {}
       PROVE  (q.pc # "ok" /\ q.labels \cap s.labels # {}) \/ Rewritten(p, q.before, n.id)'
  <2>1. PICK i \in issues : /\ n.id = i.id /\ n.number = i.number
                            /\ n.labels = i.labels \/ WritesLabels(new, i.id)
    BY <1>6, <1>10
  <2>2. CASE n.labels = i.labels
    <3>1. \A a \in q.seen, b \in issues : b.id = a.id /\ q.labels \cap b.labels # {} =>
              \/ q.pc # "ok" /\ q.labels \cap a.labels # {}
              \/ Rewritten(p, q.before, b.id)
      BY <1>10 DEF TrackRight
    <3>2. i.id = s.id /\ q.labels \cap i.labels # {}
      BY <1>10, <2>1, <2>2, Zenon
    <3>3. (q.pc # "ok" /\ q.labels \cap s.labels # {}) \/ Rewritten(p, q.before, i.id)
      BY <3>1, <3>2, Zenon
    <3>. QED
      BY <1>4, <2>1, <3>3, Zenon
  <2>3. CASE p # r /\ WritesLabels(new, i.id)
    BY <1>5, <2>1, <2>3
  <2>4. CASE p = r
    <3>1. n \in issues
      BY <2>4
    <3>2. (q.pc # "ok" /\ q.labels \cap s.labels # {}) \/ Rewritten(p, q.before, n.id)
      BY <1>10, <3>1 DEF TrackRight
    <3>. QED
      BY <1>4, <3>2
  <2>. QED
    BY <2>1, <2>2, <2>3, <2>4
<1>11. /\ q.pc = "checking" => q.kind \in T!IssueKinds
       /\ q.pc \in {"checking", "writing", "ok"} /\ q.kind \in T!IssueKinds => \E s : q.seen = {s}
  BY Zenon DEF TrackRight
<1>. QED
  BY <1>3, <1>7, <1>8, <1>9, <1>10, <1>11, Zenon DEF TrackRight

\* A step that commits nothing.
LEMMA TrackerQuiet ==
    ASSUME TrackerInv, NEW r \in Tracking, NEW new, Moves(r, new), new.pc # "ok",
           issues' = issues, milestones' = milestones, TrackRight(r, new)
    PROVE  TrackerInv'
<1>1. tracking'[r] = new /\ \A x \in Tracking \ {r} : tracking'[x] = tracking[x]
  BY DEF Moves, TrackerInv, T!TypeOK
<1>2. T!TypeOK'
  BY DEF Moves, TrackerInv, T!TypeOK
<1>3. ASSUME NEW p \in Tracking, NEW q, TrackRight(p, q) PROVE TrackRight(p, q)'
  BY <1>3, TrackRightKept
<1>4. ASSUME NEW p \in Tracking PROVE TrackRight(p, tracking[p])'
  <2>1. PICK rec : rec = tracking'[p]
    OBVIOUS
  <2>2. TrackRight(p, rec)
    BY <1>1, <2>1 DEF TrackerInv
  <2>3. TrackRight(p, rec)'
    BY <1>3, <2>2
  <2>. QED
    BY <2>1, <2>3 DEF TrackRight, Rewritten, WritesLabels, T!Ended
<1>5. /\ \A i \in issues : tracking'[i.id] = tracking[i.id]
      /\ \A m \in milestones : tracking'[m.id] = tracking[m.id]
  BY <1>1 DEF TrackerInv, T!TypeOK, T!Issues, T!Milestones, Moves
<1>6. T!NumbersInOrder'
  <2>1. \A b \in issues \cup milestones : tracking'[b.id] = tracking[b.id]
    BY <1>5
  <2>2. \A rows \in {issues, milestones} : \A a, b \in rows :
           a.id \in tracking'[b.id].before => a.number < b.number
    <3>1. \A rows \in {issues, milestones} : \A a, b \in rows :
             a.id \in tracking[b.id].before => a.number < b.number
      BY DEF TrackerInv, T!NumbersInOrder
    <3>. QED
      BY <2>1, <3>1
  <2>. QED
    BY <2>2 DEF TrackerInv, T!NumbersInOrder
<1>7. T!MilestonesExist'
  BY DEF TrackerInv, T!MilestonesExist
<1>. QED
  BY <1>2, <1>4, <1>5, <1>6, <1>7 DEF TrackerInv, Bounded

LEMMA TrackerStarts ==
    ASSUME TrackerInv, NEW r \in Tracking, NEW kind \in T!Kinds, NEW number \in Nat,
           NEW labs \in SUBSET IssueLabels, NEW m \in Tracking \cup {T!NoMilestone},
           T!Start(r, kind, number, labs, m)
    PROVE  TrackerInv'
<1>1. PICK new : new = [T!NoRequest EXCEPT !.kind = kind, !.number = number, !.labels = labs,
                                           !.milestone = m, !.pc = "looking", !.before = T!Ended]
  OBVIOUS
<1>2. new \in T!RequestStates /\ new.before = T!Ended /\ new.pc = "looking" /\ new.seen = {}
  <2>1. T!Ended \subseteq Tracking
    BY DEF T!Ended
  <2>. QED
    BY <1>1, <2>1, Zenon DEF T!NoRequest, T!RequestStates
<1>3. tracking' = [tracking EXCEPT ![r] = new] /\ issues' = issues /\ milestones' = milestones
      /\ tracking[r].pc = "idle"
  BY <1>1 DEF T!Start, T!IsNext
<1>4. r \notin T!Ended
  BY <1>3 DEF T!Ended
<1>5. TrackRight(r, new)
  BY <1>2, <1>4 DEF TrackRight
<1>. QED
  BY <1>2, <1>3, <1>5, TrackerQuiet, Zenon DEF Moves

LEMMA TrackerRefused ==
    ASSUME TrackerInv, NEW r \in Tracking, tracking[r].pc \in {"looking", "checking", "writing"},
           T!Refuse(r)
    PROVE  TrackerInv'
<1>1. PICK new : new = [T!NoRequest EXCEPT !.pc = "failed"]
  BY Zenon
<1>2. new \in T!RequestStates /\ new.before = {} /\ new.seen = {} /\ new.pc = "failed"
  BY <1>1 DEF T!NoRequest, T!RequestStates, T!Kinds
<1>3. tracking' = [tracking EXCEPT ![r] = new] /\ issues' = issues /\ milestones' = milestones
  BY <1>1 DEF T!Refuse
<1>4. TrackRight(r, new)
  BY <1>2 DEF TrackRight
<1>. QED
  BY <1>2, <1>3, <1>4, TrackerQuiet, Zenon DEF Moves

\* The number drawn is above all, and the one before is there: the least
\* bound of the numbers is one of them.
LEMMA NextIsAbove ==
    ASSUME NEW rows, Bounded(rows), \A row \in rows : row.number \in Nat
    PROVE  /\ T!NextNumber(rows) \in Nat
           /\ \A row \in rows : row.number < T!NextNumber(rows)
           /\ T!NextNumber(rows) = 1 \/ \E row \in rows : T!NextNumber(rows) = row.number + 1
<1>. DEFINE numbers == {0} \cup {row.number : row \in rows}
            bounds == {n \in Nat : \A k \in numbers : k <= n}
<1>1. numbers \subseteq Nat
  OBVIOUS
<1>2. bounds # {}
  BY DEF Bounded
<1>3. PICK b \in bounds : \A n \in bounds : ~(n < b)
  BY <1>2, LeastNumber, Zenon
<1>4. b \in numbers
  <2>. SUFFICES ASSUME b \notin numbers PROVE FALSE
    OBVIOUS
  <2>1. b # 0 /\ b - 1 \in Nat
    BY <1>3
  <2>2. \A k \in numbers : k <= b - 1
    BY <1>1, <1>3
  <2>. QED
    BY <1>3, <2>1, <2>2
<1>5. PICK m : m = CHOOSE n \in numbers : \A k \in numbers : k <= n
  OBVIOUS
<1>6. m \in numbers /\ \A k \in numbers : k <= m
  BY <1>3, <1>4, <1>5
<1>7. T!NextNumber(rows) = 1 + m
  BY <1>5 DEF T!NextNumber
<1>. QED
  BY <1>1, <1>6, <1>7

LEMMA TrackerDraws ==
    ASSUME TrackerInv, NEW r \in Tracking, T!DrawNumber(r)
    PROVE  TrackerInv'
<1>1. PICK rows : rows = IF tracking[r].kind = "issue" THEN issues ELSE milestones
  OBVIOUS
<1>2. /\ tracking \in [Tracking -> T!RequestStates] /\ tracking[r] \in T!RequestStates
      /\ Bounded(rows) /\ \A row \in rows : row.number \in Nat
  BY <1>1 DEF TrackerInv, T!TypeOK, T!Issues, T!Milestones
<1>3. PICK number : number = T!NextNumber(rows)
  OBVIOUS
<1>4. /\ number \in Nat /\ \A row \in rows : row.number < number
      /\ number = 1 \/ \E row \in rows : number = row.number + 1
  BY <1>2, <1>3, NextIsAbove
<1>5. PICK new : new = [tracking[r] EXCEPT !.pc = "writing", !.number = number]
  OBVIOUS
<1>6. /\ new \in T!RequestStates /\ new.before = tracking[r].before /\ new.seen = tracking[r].seen
      /\ new.pc = "writing" /\ new.number = number /\ new.kind = tracking[r].kind
      /\ new.labels = tracking[r].labels
  BY <1>2, <1>4, <1>5, Zenon DEF T!RequestStates
<1>7. /\ tracking' = [tracking EXCEPT ![r] = new] /\ issues' = issues /\ milestones' = milestones
      /\ tracking[r].pc = "looking" /\ tracking[r].kind \in {"issue", "milestone"}
  BY <1>1, <1>2, <1>3, <1>5, Zenon DEF T!DrawNumber, T!Looking
<1>8. ASSUME new.kind = "issue"
      PROVE  /\ \A n \in 1..(number - 1) : \E j \in issues : j.number = n
             /\ \A a \in issues : a.number < number
  <2>1. rows = issues
    BY <1>1, <1>6, <1>8
  <2>2. CASE number = 1
    BY <1>4, <2>1, <2>2
  <2>3. CASE number # 1
    <3>1. PICK i \in issues : number = i.number + 1
      BY <1>4, <2>1, <2>3
    <3>2. i.number \in Nat /\ \A n \in 1..i.number : \E j \in issues : j.number = n
      BY <1>2, <2>1 DEF TrackerInv, T!NumbersInOrder
    <3>. QED
      BY <1>4, <2>1, <3>1, <3>2
  <2>. QED
    BY <2>2, <2>3
<1>9. new.kind = "milestone" => \A a \in milestones : a.number < number
  BY <1>1, <1>4, <1>6
<1>10. TrackRight(r, tracking[r])
  BY DEF TrackerInv
<1>11. TrackRight(r, new)
  BY <1>6, <1>7, <1>8, <1>9, <1>10 DEF TrackRight, T!IssueKinds
<1>. QED
  BY <1>6, <1>7, <1>11, TrackerQuiet, Zenon DEF Moves

LEMMA TrackerFinds ==
    ASSUME TrackerInv, NEW r \in Tracking,
           T!FindIssue(r) \/ T!CheckMilestone(r) \/ T!FindMilestone(r)
    PROVE  TrackerInv'
<1>1. /\ tracking \in [Tracking -> T!RequestStates] /\ tracking[r] \in T!RequestStates
      /\ issues \subseteq T!Issues /\ milestones \subseteq T!Milestones /\ TrackRight(r, tracking[r])
  BY DEF TrackerInv, T!TypeOK
<1>2. CASE T!FindIssue(r)
  <2>1. PICK rows : rows = T!Numbered(issues, tracking[r].number)
    OBVIOUS
  <2>2. T!Cardinality(rows) = 1 /\ rows \subseteq issues /\ IsFiniteSet(rows)
    BY <1>2, <2>1, FS_Subset DEF T!FindIssue, T!Numbered, TrackerInv
  <2>3. \E s : rows = {s}
    <3>1. Cardinality(rows) = 1
      BY <2>2 DEF T!Cardinality, Cardinality
    <3>2. rows # {}
      BY <3>1, FS_EmptySet
    <3>3. \A a, b \in rows : a = b
      BY <2>2, <3>1, AtMostOne
    <3>. QED
      BY <3>2, <3>3
  <2>4. PICK pc \in {"writing", "checking"} :
           tracking' = [tracking EXCEPT ![r].seen = rows, ![r].pc = pc]
    BY <1>2, <2>1, Zenon DEF T!FindIssue
  <2>5. PICK new : new = [tracking[r] EXCEPT !.seen = rows, !.pc = pc]
    OBVIOUS
  <2>6. /\ new \in T!RequestStates /\ new.before = tracking[r].before /\ new.seen = rows
        /\ new.pc = pc /\ new.kind = tracking[r].kind /\ new.labels = tracking[r].labels
        /\ tracking' = [tracking EXCEPT ![r] = new]
    BY <1>1, <2>2, <2>4, <2>5, Zenon DEF T!RequestStates
  <2>7. /\ issues' = issues /\ milestones' = milestones /\ tracking[r].pc = "looking"
        /\ tracking[r].kind \in T!IssueKinds
    BY <1>2 DEF T!FindIssue, T!Looking
  <2>8. \A s \in rows, i \in issues : i.id = s.id => i = s
    BY <2>2 DEF TrackerInv
  <2>9. TrackRight(r, new)
    BY <1>1, <2>2, <2>3, <2>6, <2>7, <2>8 DEF TrackRight, T!IssueKinds
  <2>. QED
    BY <2>6, <2>7, <2>9, TrackerQuiet, Zenon DEF Moves
<1>3. CASE T!CheckMilestone(r)
  <2>1. PICK new : new = [tracking[r] EXCEPT !.pc = "writing"]
    BY Zenon
  <2>2. /\ new \in T!RequestStates /\ new.before = tracking[r].before /\ new.seen = tracking[r].seen
        /\ new.pc = "writing" /\ new.kind = tracking[r].kind /\ new.labels = tracking[r].labels
    BY <1>1, <2>1 DEF T!RequestStates
  <2>3. /\ tracking' = [tracking EXCEPT ![r] = new] /\ issues' = issues /\ milestones' = milestones
        /\ tracking[r].pc = "checking"
    BY <1>3, <2>1 DEF T!CheckMilestone
  <2>4. TrackRight(r, new)
    BY <1>1, <2>2, <2>3 DEF TrackRight, T!IssueKinds
  <2>. QED
    BY <2>2, <2>3, <2>4, TrackerQuiet, Zenon DEF Moves
<1>4. CASE T!FindMilestone(r)
  <2>1. PICK rows : rows = T!Numbered(milestones, tracking[r].number)
    OBVIOUS
  <2>2. rows \subseteq milestones
    BY <2>1 DEF T!Numbered
  <2>3. PICK new : new = [tracking[r] EXCEPT !.found = rows, !.pc = "writing"]
    OBVIOUS
  <2>4. /\ new \in T!RequestStates /\ new.before = tracking[r].before /\ new.seen = tracking[r].seen
        /\ new.pc = "writing" /\ new.kind = tracking[r].kind
    BY <1>1, <2>2, <2>3, Zenon DEF T!RequestStates
  <2>5. /\ tracking' = [tracking EXCEPT ![r] = new] /\ issues' = issues /\ milestones' = milestones
        /\ tracking[r].pc = "looking" /\ tracking[r].kind = "delete"
    BY <1>4, <2>1, <2>3, Zenon DEF T!FindMilestone, T!Looking
  <2>6. TrackRight(r, new)
    BY <1>1, <2>4, <2>5 DEF TrackRight, T!IssueKinds
  <2>. QED
    BY <2>4, <2>5, <2>6, TrackerQuiet, Zenon DEF Moves
<1>. QED
  BY <1>2, <1>3, <1>4

LEMMA TrackerAnswers ==
    ASSUME TrackerInv, NEW r \in Tracking, tracking[r].pc = "writing", T!Answer(r)
    PROVE  \E new : /\ Moves(r, new) /\ tracking'[r] = new
                    /\ \A x \in Tracking \ {r} : tracking'[x] = tracking[x]
                    /\ new.pc = "ok" /\ new.kind = tracking[r].kind /\ new.before = tracking[r].before
                    /\ new.seen = tracking[r].seen /\ new.labels = tracking[r].labels
<1>1. tracking \in [Tracking -> T!RequestStates] /\ tracking' = [tracking EXCEPT ![r].pc = "ok"]
  BY DEF TrackerInv, T!TypeOK, T!Answer
<1>2. PICK new : new = [tracking[r] EXCEPT !.pc = "ok"]
  BY Zenon
<1>3. /\ new \in T!RequestStates /\ new.pc = "ok" /\ new.kind = tracking[r].kind
      /\ new.before = tracking[r].before /\ new.seen = tracking[r].seen
      /\ new.labels = tracking[r].labels
  BY <1>1, <1>2 DEF T!RequestStates
<1>4. tracking' = [tracking EXCEPT ![r] = new]
  BY <1>1, <1>2
<1>. QED
  BY <1>1, <1>3, <1>4, Zenon DEF Moves

LEMMA TrackNamed ==
    ASSUME NEW p, NEW q, q = tracking'[p], TrackRight(p, q)'
    PROVE  TrackRight(p, tracking[p])'
BY Zenon DEF TrackRight

LEMMA TrackOthers ==
    ASSUME TrackerInv, NEW r \in Tracking, NEW new, Moves(r, new),
           \A n \in issues' : n.id = r \/ \E i \in issues :
               /\ n.id = i.id /\ n.number = i.number
               /\ n.labels = i.labels \/ WritesLabels(new, i.id),
           \A i \in issues : \E n \in issues' : n.id = i.id /\ n.number = i.number,
           \A m \in milestones' : m.id = r \/ m \in milestones
    PROVE  \A p \in Tracking \ {r} : TrackRight(p, tracking[p])'
<1>. SUFFICES ASSUME NEW p \in Tracking \ {r} PROVE TrackRight(p, tracking[p])'
  OBVIOUS
<1>1. PICK q : q = tracking'[p]
  OBVIOUS
<1>2. TrackRight(p, q)
  BY <1>1 DEF Moves, TrackerInv, T!TypeOK
<1>3. TrackRight(p, q)'
  BY <1>2, TrackRightKept
<1>. QED
  BY <1>1, <1>3, TrackNamed

(***************************************************************************)
(* A new row has the highest number of those that could precede it.        *)
(***************************************************************************)
LEMMA TrackerInserts ==
    ASSUME TrackerInv, NEW r \in Tracking, T!InsertIssue(r) \/ T!InsertMilestone(r)
    PROVE  TrackerInv'
<1>1. /\ tracking[r].pc = "writing" /\ tracking[r].kind \in {"issue", "milestone"} /\ T!Answer(r)
      /\ tracking \in [Tracking -> T!RequestStates] /\ tracking[r] \in T!RequestStates
      /\ issues \subseteq T!Issues /\ milestones \subseteq T!Milestones /\ TrackRight(r, tracking[r])
  BY DEF TrackerInv, T!TypeOK, T!InsertIssue, T!InsertMilestone, T!Writing
<1>2. PICK new : /\ Moves(r, new) /\ tracking'[r] = new
                 /\ \A x \in Tracking \ {r} : tracking'[x] = tracking[x]
                 /\ new.pc = "ok" /\ new.kind = tracking[r].kind /\ new.before = tracking[r].before
                 /\ new.seen = tracking[r].seen /\ new.labels = tracking[r].labels
  BY <1>1, TrackerAnswers
<1>3. /\ \A i \in issues : i.id \in Tracking \ {r} /\ tracking'[i.id] = tracking[i.id]
      /\ \A m \in milestones : m.id \in Tracking \ {r} /\ tracking'[m.id] = tracking[m.id]
  BY <1>1, <1>2 DEF TrackerInv, T!Issues, T!Milestones
<1>4. \A i \in issues \cup milestones : r \notin tracking[i.id].before
  <2>1. \A p \in Tracking : r \notin tracking[p].before
    BY <1>1 DEF TrackerInv, TrackRight, T!Ended
  <2>. QED
    BY <1>3, <2>1
<1>5. r \notin new.before
  BY <1>1, <1>2 DEF TrackRight
<1>6. tracking' \in [Tracking -> T!RequestStates]
  BY <1>1, <1>2 DEF Moves
<1>7. tracking[r].number \in Nat
  BY <1>1 DEF T!RequestStates
\* What a set of rows with a new one says of the order of its numbers.
<1>8. ASSUME NEW rows, NEW row, row.id = r, row.number = tracking[r].number,
             rows \in {issues, milestones},
             \A a \in rows : a.id \in tracking[r].before => a.number < tracking[r].number
      PROVE  /\ \A a, b \in rows \cup {row} : a.id \in tracking'[b.id].before => a.number < b.number
             /\ Bounded(rows \cup {row})
  <2>1. \A a, b \in rows : a.id \in tracking[b.id].before => a.number < b.number
    BY <1>8 DEF TrackerInv, T!NumbersInOrder
  <2>2. \A b \in rows : /\ tracking'[b.id] = tracking[b.id]
                        /\ r \notin tracking[b.id].before
    BY <1>3, <1>4, <1>8
  <2>3. Bounded(rows \cup {row})
    <3>1. PICK n \in Nat : \A a \in rows : a.number <= n
      BY <1>8 DEF TrackerInv, Bounded
    <3>2. PICK m \in Nat : m = n + tracking[r].number
      BY <1>7
    <3>3. \A a \in rows : a.number \in Nat
      BY <1>1, <1>8 DEF T!Issues, T!Milestones
    <3>4. \A a \in rows \cup {row} : a.number <= m
      BY <1>7, <1>8, <3>1, <3>2, <3>3
    <3>. QED
      BY <3>4 DEF Bounded
  <2>. QED
    BY <1>2, <1>5, <1>8, <2>1, <2>2, <2>3
<1>9. CASE T!InsertIssue(r)
  <2>1. PICK row : row = [id |-> r, number |-> tracking[r].number, labels |-> tracking[r].labels,
                          milestone |-> T!NoMilestone]
    BY Zenon
  <2>2. /\ row.id = r /\ row.number = tracking[r].number /\ row.milestone = T!NoMilestone
        /\ row \in T!Issues
    BY <1>1, <2>1 DEF T!RequestStates, T!Issues
  <2>3. issues' = issues \cup {row} /\ milestones' = milestones /\ tracking[r].kind = "issue"
    BY <1>9, <2>1 DEF T!InsertIssue, T!Writing
  <2>4. /\ \A a, b \in issues' : a.id \in tracking'[b.id].before => a.number < b.number
        /\ Bounded(issues')
    <3>1. \A a \in issues : a.id \in tracking[r].before => a.number < tracking[r].number
      BY <1>1, <2>3 DEF TrackRight
    <3>2. /\ \A a, b \in issues \cup {row} : a.id \in tracking'[b.id].before => a.number < b.number
          /\ Bounded(issues \cup {row})
      BY <1>8, <2>2, <3>1, Zenon
    <3>. QED
      BY <2>3, <3>2
  <2>5. \A i \in issues' : \A n \in 1..i.number : \E j \in issues' : j.number = n
    <3>1. \A i \in issues : \A n \in 1..i.number : \E j \in issues : j.number = n
      BY DEF TrackerInv, T!NumbersInOrder
    <3>2. \A n \in 1..(tracking[r].number - 1) : \E j \in issues : j.number = n
      BY <1>1, <2>3 DEF TrackRight
    <3>3. \A n \in 1..tracking[r].number : n \in 1..(tracking[r].number - 1) \/ n = tracking[r].number
      BY <1>7
    <3>4. \A n \in 1..row.number : \E j \in issues' : j.number = n
      BY <2>2, <2>3, <3>2, <3>3
    <3>. QED
      BY <2>3, <3>1, <3>4
  <2>6. T!NumbersInOrder'
    <3>1. \A a, b \in milestones : a.id \in tracking'[b.id].before => a.number < b.number
      BY <1>3 DEF TrackerInv, T!NumbersInOrder
    <3>2. \A rows \in {issues', milestones'} : \A a, b \in rows :
             a.id \in tracking'[b.id].before => a.number < b.number
      BY <2>3, <2>4, <3>1
    <3>. QED
      BY <2>5, <3>2 DEF T!NumbersInOrder
  <2>7. T!MilestonesExist'
    BY <2>2, <2>3 DEF TrackerInv, T!MilestonesExist
  <2>8. \A p \in Tracking \ {r} : TrackRight(p, tracking[p])'
    BY <1>2, <2>2, <2>3, TrackOthers
  <2>9. TrackRight(r, tracking[r])'
    <3>1. \A s \in new.seen : \E i \in issues' : i.id = s.id
      BY <1>1, <1>2, <2>3 DEF TrackRight
    <3>2. new.before \subseteq T!Ended' \ {r}
      BY <1>1, <1>2 DEF TrackRight, T!Ended
    <3>. QED
      BY <1>2, <2>3, <3>1, <3>2 DEF TrackRight, T!IssueKinds
  <2>10. IsFiniteSet(issues')
    BY <2>3, FS_AddElement DEF TrackerInv
  <2>12. \A a, b \in issues' : a.id = b.id => a = b
    BY <1>3, <2>2, <2>3 DEF TrackerInv
  <2>13. T!TypeOK'
    BY <1>1, <1>6, <2>2, <2>3 DEF T!TypeOK
  <2>14. \A m \in milestones' : tracking'[m.id].pc = "ok"
    BY <1>3, <2>3 DEF TrackerInv
  <2>15. \A i \in issues' : tracking'[i.id].pc = "ok"
    BY <1>2, <1>3, <2>2, <2>3 DEF TrackerInv
  <2>16. Bounded(milestones')
    BY <2>3 DEF TrackerInv
  <2>. QED
    BY <2>4, <2>6, <2>7, <2>8, <2>9, <2>10, <2>12, <2>13, <2>14, <2>15, <2>16 DEF TrackerInv
<1>10. CASE T!InsertMilestone(r)
  <2>1. PICK row : row = [id |-> r, number |-> tracking[r].number]
    BY Zenon
  <2>2. row.id = r /\ row.number = tracking[r].number /\ row \in T!Milestones
    BY <1>1, <2>1 DEF T!RequestStates, T!Milestones
  <2>3. milestones' = milestones \cup {row} /\ issues' = issues /\ tracking[r].kind = "milestone"
    BY <1>10, <2>1 DEF T!InsertMilestone, T!Writing
  <2>4. /\ \A a, b \in milestones' : a.id \in tracking'[b.id].before => a.number < b.number
        /\ Bounded(milestones')
    <3>1. \A a \in milestones : a.id \in tracking[r].before => a.number < tracking[r].number
      BY <1>1, <2>3 DEF TrackRight
    <3>2. /\ \A a, b \in milestones \cup {row} : a.id \in tracking'[b.id].before => a.number < b.number
          /\ Bounded(milestones \cup {row})
      BY <1>8, <2>2, <3>1
    <3>. QED
      BY <2>3, <3>2
  <2>5. T!NumbersInOrder'
    <3>1. \A a, b \in issues : a.id \in tracking'[b.id].before => a.number < b.number
      BY <1>3 DEF TrackerInv, T!NumbersInOrder
    <3>2. \A rows \in {issues', milestones'} : \A a, b \in rows :
             a.id \in tracking'[b.id].before => a.number < b.number
      BY <2>3, <2>4, <3>1
    <3>3. \A i \in issues' : \A n \in 1..i.number : \E j \in issues' : j.number = n
      BY <2>3 DEF TrackerInv, T!NumbersInOrder
    <3>. QED
      BY <3>2, <3>3 DEF T!NumbersInOrder
  <2>6. T!MilestonesExist'
    BY <2>3 DEF TrackerInv, T!MilestonesExist
  <2>7. \A p \in Tracking \ {r} : TrackRight(p, tracking[p])'
    BY <1>2, <2>2, <2>3, TrackOthers
  <2>8. TrackRight(r, tracking[r])'
    <3>1. \A s \in new.seen : \E i \in issues' : i.id = s.id
      BY <1>1, <1>2, <2>3 DEF TrackRight
    <3>2. new.before \subseteq T!Ended' \ {r}
      BY <1>1, <1>2 DEF TrackRight, T!Ended
    <3>. QED
      BY <1>2, <2>3, <3>1, <3>2 DEF TrackRight, T!IssueKinds
  <2>9. T!TypeOK'
    BY <1>1, <1>6, <2>2, <2>3 DEF T!TypeOK
  <2>10. \A i \in issues' : tracking'[i.id].pc = "ok"
    BY <1>3, <2>3 DEF TrackerInv
  <2>11. \A m \in milestones' : tracking'[m.id].pc = "ok"
    BY <1>2, <1>3, <2>2, <2>3 DEF TrackerInv
  <2>12. /\ IsFiniteSet(issues') /\ Bounded(issues')
         /\ \A a, b \in issues' : a.id = b.id => a = b
    BY <2>3 DEF TrackerInv
  <2>. QED
    BY <2>4, <2>5, <2>6, <2>7, <2>8, <2>9, <2>10, <2>11, <2>12 DEF TrackerInv
<1>. QED
  BY <1>9, <1>10

(***************************************************************************)
(* A request that rewrites issues keeps their ids and numbers.             *)
(***************************************************************************)
LEMMA TrackerUpdates ==
    ASSUME TrackerInv, NEW r \in Tracking, tracking[r].pc = "writing", T!Answer(r),
           NEW g \in [issues -> T!Issues], issues' = {g[i] : i \in issues},
           milestones' \subseteq milestones,
           \A i \in issues :
               /\ g[i].id = i.id /\ g[i].number = i.number
               /\ \/ g[i].labels = i.labels
                  \/ tracking[r].kind \in T!LabelWriters /\ \E s \in tracking[r].seen : s.id = i.id
               /\ g[i].milestone = T!NoMilestone \/ \E m \in milestones' : m.id = g[i].milestone,
           tracking[r].kind = "unlabel" =>
               \A s \in tracking[r].seen, i \in issues :
                   i.id = s.id /\ tracking[r].labels \cap g[i].labels # {} =>
                       Rewritten(r, tracking[r].before, i.id)
    PROVE  TrackerInv'
<1>1. PICK new : /\ Moves(r, new) /\ tracking'[r] = new
                 /\ \A x \in Tracking \ {r} : tracking'[x] = tracking[x]
                 /\ new.pc = "ok" /\ new.kind = tracking[r].kind /\ new.before = tracking[r].before
                 /\ new.seen = tracking[r].seen /\ new.labels = tracking[r].labels
  BY TrackerAnswers
<1>2. /\ issues \subseteq T!Issues /\ milestones \subseteq T!Milestones
      /\ tracking \in [Tracking -> T!RequestStates] /\ TrackRight(r, tracking[r])
  BY DEF TrackerInv, T!TypeOK
<1>3. \A n \in issues' : \E i \in issues :
         /\ n = g[i] /\ n.id = i.id /\ n.number = i.number
         /\ n.labels = i.labels \/ WritesLabels(new, i.id)
         /\ n.milestone = T!NoMilestone \/ \E m \in milestones' : m.id = n.milestone
  <2>1. ASSUME NEW i \in issues PROVE g[i].labels = i.labels \/ WritesLabels(new, i.id)
    BY <1>1 DEF WritesLabels
  <2>. QED
    BY <2>1
<1>4. \A i \in issues : \E n \in issues' : n.id = i.id /\ n.number = i.number
  OBVIOUS
<1>5. T!TypeOK'
  BY <1>1, <1>2 DEF T!TypeOK, Moves
<1>6. IsFiniteSet(issues')
  <2>1. PICK S : S = {g[i] : i \in issues}
    BY Zenon
  <2>2. g \in Surjection(issues, S)
    BY <2>1 DEF Surjection
  <2>. QED
    BY <2>1, <2>2, FS_Surjection DEF TrackerInv
<1>7. Bounded(issues') /\ Bounded(milestones')
  <2>1. PICK n \in Nat : \A i \in issues : i.number <= n
    BY DEF TrackerInv, Bounded
  <2>2. \A i \in issues' : i.number <= n
    BY <1>3, <2>1
  <2>3. Bounded(milestones')
    BY DEF TrackerInv, Bounded
  <2>. QED
    BY <2>2, <2>3 DEF Bounded
<1>8. /\ \A i \in issues : i.id \in Tracking /\ tracking'[i.id] = tracking[i.id] /\ tracking[i.id].pc = "ok"
      /\ \A m \in milestones : m.id \in Tracking /\ tracking'[m.id] = tracking[m.id] /\ tracking[m.id].pc = "ok"
  BY <1>1, <1>2 DEF TrackerInv, T!Issues, T!Milestones
<1>9. \A i \in issues' : tracking'[i.id].pc = "ok"
  BY <1>3, <1>8
<1>10. \A a, b \in issues' : a.id = b.id => a = b
  BY <1>3 DEF TrackerInv
<1>11. T!NumbersInOrder'
  <2>1. \A i \in issues' : \A n \in 1..i.number : \E j \in issues' : j.number = n
    <3>1. \A i \in issues : \A n \in 1..i.number : \E j \in issues : j.number = n
      BY DEF TrackerInv, T!NumbersInOrder
    <3>2. ASSUME NEW i \in issues', NEW n \in 1..i.number PROVE \E j \in issues' : j.number = n
      <4>1. PICK x \in issues : i.number = x.number
        BY <1>3
      <4>2. PICK y \in issues : y.number = n
        BY <3>1, <4>1
      <4>. QED
        BY <1>4, <4>2
    <3>. QED
      BY <3>2
  <2>2. \A rows \in {issues, milestones} : \A a, b \in rows :
           a.id \in tracking[b.id].before => a.number < b.number
    BY DEF TrackerInv, T!NumbersInOrder
  <2>3. \A a, b \in issues' : a.id \in tracking'[b.id].before => a.number < b.number
    <3>. SUFFICES ASSUME NEW a \in issues', NEW b \in issues', a.id \in tracking'[b.id].before
                  PROVE  a.number < b.number
      OBVIOUS
    <3>1. PICK x \in issues : a.id = x.id /\ a.number = x.number
      BY <1>3
    <3>2. PICK y \in issues : b.id = y.id /\ b.number = y.number
      BY <1>3
    <3>3. x.id \in tracking[y.id].before
      BY <1>8, <3>1, <3>2
    <3>. QED
      BY <2>2, <3>1, <3>2, <3>3
  <2>4. \A a, b \in milestones' : a.id \in tracking'[b.id].before => a.number < b.number
    BY <1>8, <2>2
  <2>5. \A rows \in {issues', milestones'} : \A a, b \in rows :
           a.id \in tracking'[b.id].before => a.number < b.number
    BY <2>3, <2>4
  <2>. QED
    BY <2>1, <2>5 DEF T!NumbersInOrder
<1>12. T!MilestonesExist'
  BY <1>3 DEF T!MilestonesExist
<1>13. \A p \in Tracking \ {r} : TrackRight(p, tracking[p])'
  <2>1. \A n \in issues' : n.id = r \/ \E i \in issues :
           n.id = i.id /\ n.number = i.number /\ (n.labels = i.labels \/ WritesLabels(new, i.id))
    BY <1>3
  <2>. QED
    BY <1>1, <1>4, <2>1, TrackOthers
<1>14. TrackRight(r, tracking[r])'
  <2>1. new.before \subseteq T!Ended' \ {r}
    BY <1>1, <1>2 DEF TrackRight, T!Ended
  <2>2. \A s \in new.seen : \E i \in issues' : i.id = s.id
    BY <1>1, <1>2, <1>4 DEF TrackRight
  <2>3. new.kind \in T!IssueKinds => \E s : new.seen = {s}
    BY <1>1, <1>2, Zenon DEF TrackRight
  <2>4. ASSUME new.kind = "unlabel", NEW s \in new.seen, NEW n \in issues', n.id = s.id,
               new.labels \cap n.labels # {}
        PROVE  Rewritten(r, new.before, n.id)'
    <3>1. PICK i \in issues : n = g[i] /\ n.id = i.id
      BY <1>3
    <3>2. Rewritten(r, new.before, n.id)
      BY <1>1, <2>4, <3>1
    <3>. QED
      BY <1>1, <3>2 DEF Rewritten, WritesLabels
  <2>5. TrackRight(r, new)'
    BY <1>1, <2>1, <2>2, <2>3, <2>4, Zenon DEF TrackRight
  <2>. QED
    BY <1>1, <2>5, TrackNamed
<1>15. \A p \in Tracking : TrackRight(p, tracking[p])'
  BY <1>13, <1>14
<1>. QED
  BY <1>5, <1>6, <1>7, <1>8, <1>9, <1>10, <1>11, <1>12, <1>15 DEF TrackerInv

LEMMA TrackerRewrites ==
    ASSUME TrackerInv, NEW r \in Tracking,
           T!UpdateLabels(r) \/ T!UpdateMilestoneOf(r) \/ T!CommitDelete(r)
    PROVE  TrackerInv'
<1>1. /\ tracking[r].pc = "writing" /\ T!Answer(r) /\ TrackRight(r, tracking[r])
      /\ tracking[r] \in T!RequestStates /\ issues \subseteq T!Issues
      /\ milestones \subseteq T!Milestones
  BY DEF TrackerInv, T!TypeOK, T!UpdateLabels, T!UpdateMilestoneOf, T!CommitDelete, T!Writing
<1>2. \A i \in issues : i.milestone = T!NoMilestone \/ \E m \in milestones : m.id = i.milestone
  BY DEF TrackerInv, T!MilestonesExist
<1>3. CASE T!UpdateLabels(r)
  <2>1. PICK seen \in tracking[r].seen :
           issues' = {IF row.id = seen.id /\ T!LabelsFor(r, seen) # seen.labels
                      THEN [row EXCEPT !.labels = T!LabelsFor(r, seen)] ELSE row : row \in issues}
    BY <1>3, Zenon DEF T!UpdateLabels
  <2>2. PICK set : set = T!LabelsFor(r, seen)
    OBVIOUS
  <2>3. /\ tracking[r].kind \in T!LabelWriters /\ milestones' = milestones
        /\ tracking[r].seen = {seen}
    <3>1. tracking[r].kind \in T!LabelWriters /\ milestones' = milestones
      BY <1>3 DEF T!UpdateLabels, T!Writing, T!LabelWriters
    <3>2. \E s : tracking[r].seen = {s}
      BY <1>1, <3>1, Zenon DEF TrackRight, T!LabelWriters, T!IssueKinds
    <3>. QED
      BY <2>1, <3>1, <3>2
  <2>4. set \subseteq IssueLabels
    <3>1. tracking[r].labels \subseteq IssueLabels /\ seen.labels \subseteq IssueLabels
      BY <1>1 DEF T!RequestStates, T!Issues
    <3>. QED
      BY <2>2, <3>1 DEF T!LabelsFor
  <2>5. PICK g : g = [row \in issues |-> IF row.id = seen.id /\ set # seen.labels
                                         THEN [row EXCEPT !.labels = set] ELSE row]
    BY Zenon
  <2>6. ASSUME NEW i \in issues
        PROVE  /\ g[i] \in T!Issues /\ g[i].id = i.id /\ g[i].number = i.number
               /\ g[i].milestone = i.milestone
               /\ IF i.id = seen.id /\ set # seen.labels THEN g[i].labels = set ELSE g[i].labels = i.labels
    BY <1>1, <2>4, <2>5, Zenon DEF T!Issues
  <2>7. issues' = {g[i] : i \in issues} /\ g \in [issues -> T!Issues]
    BY <2>1, <2>2, <2>5, <2>6
  <2>8. ASSUME tracking[r].kind = "unlabel", NEW i \in issues, i.id = seen.id,
               tracking[r].labels \cap g[i].labels # {}
        PROVE  Rewritten(r, tracking[r].before, i.id)
    <3>1. set = seen.labels \ tracking[r].labels
      BY <2>2, <2>8 DEF T!LabelsFor
    <3>2. set = seen.labels /\ g[i].labels = i.labels
      BY <2>6, <2>8, <3>1
    <3>3. tracking[r].labels \cap seen.labels = {}
      BY <3>1, <3>2
    <3>. QED
      BY <1>1, <2>3, <2>8, <3>2, <3>3 DEF TrackRight
  <2>9. tracking[r].kind = "unlabel" =>
           \A s \in tracking[r].seen, i \in issues :
               i.id = s.id /\ tracking[r].labels \cap g[i].labels # {} =>
                   Rewritten(r, tracking[r].before, i.id)
    BY <2>3, <2>8
  <2>10. \A i \in issues :
            /\ g[i].id = i.id /\ g[i].number = i.number
            /\ \/ g[i].labels = i.labels
               \/ tracking[r].kind \in T!LabelWriters /\ \E s \in tracking[r].seen : s.id = i.id
            /\ g[i].milestone = T!NoMilestone \/ \E m \in milestones' : m.id = g[i].milestone
    BY <1>2, <2>3, <2>6
  <2>. QED
    BY <1>1, <2>3, <2>7, <2>9, <2>10, TrackerUpdates
<1>4. CASE T!UpdateMilestoneOf(r)
  <2>1. PICK seen \in tracking[r].seen :
           issues' = {IF row.id = seen.id /\ tracking[r].milestone # seen.milestone
                      THEN [row EXCEPT !.milestone = tracking[r].milestone] ELSE row : row \in issues}
    BY <1>4, Zenon DEF T!UpdateMilestoneOf
  <2>2. /\ tracking[r].kind = "assign" /\ milestones' = milestones /\ tracking[r].seen = {seen}
        /\ T!MilestoneThere(r)
    <3>1. tracking[r].kind = "assign" /\ milestones' = milestones /\ T!MilestoneThere(r)
      BY <1>4 DEF T!UpdateMilestoneOf, T!Writing
    <3>2. \E s : tracking[r].seen = {s}
      BY <1>1, <3>1, Zenon DEF TrackRight, T!IssueKinds
    <3>. QED
      BY <2>1, <3>1, <3>2
  <2>3. PICK set \in Tracking \cup {T!NoMilestone} : set = tracking[r].milestone
    BY <1>1 DEF T!RequestStates
  <2>4. set # seen.milestone => set = T!NoMilestone \/ \E m \in milestones : m.id = set
    BY <2>2, <2>3 DEF T!MilestoneThere, T!Known
  <2>5. PICK g : g = [row \in issues |-> IF row.id = seen.id /\ set # seen.milestone
                                         THEN [row EXCEPT !.milestone = set] ELSE row]
    BY Zenon
  <2>6. ASSUME NEW i \in issues
        PROVE  /\ g[i] \in T!Issues /\ g[i].id = i.id /\ g[i].number = i.number
               /\ g[i].labels = i.labels
               /\ g[i].milestone = i.milestone \/ (set # seen.milestone /\ g[i].milestone = set)
    BY <1>1, <2>3, <2>5 DEF T!Issues
  <2>7. issues' = {g[i] : i \in issues} /\ g \in [issues -> T!Issues]
    BY <2>1, <2>3, <2>5, <2>6
  <2>8. \A i \in issues :
            /\ g[i].id = i.id /\ g[i].number = i.number
            /\ \/ g[i].labels = i.labels
               \/ tracking[r].kind \in T!LabelWriters /\ \E s \in tracking[r].seen : s.id = i.id
            /\ g[i].milestone = T!NoMilestone \/ \E m \in milestones' : m.id = g[i].milestone
    BY <1>2, <2>2, <2>4, <2>6
  <2>. QED
    BY <1>1, <2>2, <2>7, <2>8, TrackerUpdates
<1>5. CASE T!CommitDelete(r)
  <2>1. PICK found : found = tracking[r].found
    OBVIOUS
  <2>2. /\ milestones' = milestones \ found /\ tracking[r].kind = "delete"
        /\ issues' = {IF \E m \in found : m.id = row.milestone
                      THEN [row EXCEPT !.milestone = T!NoMilestone] ELSE row : row \in issues}
    BY <1>5, <2>1 DEF T!CommitDelete, T!Writing
  <2>3. PICK g : g = [row \in issues |-> IF \E m \in found : m.id = row.milestone
                                         THEN [row EXCEPT !.milestone = T!NoMilestone] ELSE row]
    BY Zenon
  <2>4. ASSUME NEW i \in issues
        PROVE  /\ g[i] \in T!Issues /\ g[i].id = i.id /\ g[i].number = i.number
               /\ g[i].labels = i.labels
               /\ \/ g[i].milestone = T!NoMilestone
                  \/ g[i].milestone = i.milestone /\ ~\E m \in found : m.id = i.milestone
    BY <1>1, <2>3 DEF T!Issues
  <2>5. issues' = {g[i] : i \in issues} /\ g \in [issues -> T!Issues]
    BY <2>2, <2>3, <2>4
  <2>6. \A i \in issues :
            /\ g[i].id = i.id /\ g[i].number = i.number
            /\ \/ g[i].labels = i.labels
               \/ tracking[r].kind \in T!LabelWriters /\ \E s \in tracking[r].seen : s.id = i.id
            /\ g[i].milestone = T!NoMilestone \/ \E m \in milestones' : m.id = g[i].milestone
    BY <1>2, <2>2, <2>4
  <2>. QED
    BY <1>1, <2>2, <2>5, <2>6, TrackerUpdates, Zenon
<1>. QED
  BY <1>3, <1>4, <1>5

LEMMA TrackerStep == TrackerInv /\ [T!Next]_trackerVars => TrackerInv'
<1>1. ASSUME TrackerInv, UNCHANGED trackerVars PROVE TrackerInv'
  <2>1. issues' = issues /\ milestones' = milestones /\ tracking' = tracking
    BY <1>1 DEF trackerVars
  <2>2. ASSUME NEW p \in Tracking PROVE TrackRight(p, tracking[p])'
    <3>1. PICK q : q = tracking'[p]
      OBVIOUS
    <3>2. TrackRight(p, q)
      BY <1>1, <2>1, <3>1 DEF TrackerInv
    <3>3. TrackRight(p, q)'
      BY <2>1, <3>2 DEF TrackRight, Rewritten, WritesLabels, T!Ended
    <3>. QED
      BY <3>1, <3>3, TrackNamed
  <2>. QED
    BY <1>1, <2>1, <2>2 DEF TrackerInv, T!TypeOK, Bounded, T!NumbersInOrder, T!MilestonesExist
<1>2. ASSUME TrackerInv, NEW r \in Tracking,
             \/ T!CreateIssue(r) \/ T!CreateMilestone(r) \/ T!AssignLabels(r) \/ T!RemoveLabel(r)
             \/ T!SetIssueMilestone(r) \/ T!DeleteMilestone(r)
      PROVE  TrackerInv'
  <2>1. T!NoMilestone \in Tracking \cup {T!NoMilestone} /\ {} \in SUBSET IssueLabels
        /\ 1..MaxNumber \subseteq Nat
    OBVIOUS
  <2>2. PICK kind \in T!Kinds, number \in Nat, labs \in SUBSET IssueLabels,
             m \in Tracking \cup {T!NoMilestone} : T!Start(r, kind, number, labs, m)
    BY <1>2, <2>1, Zenon DEF T!CreateIssue, T!CreateMilestone, T!AssignLabels, T!RemoveLabel,
                      T!SetIssueMilestone, T!DeleteMilestone, T!Kinds
  <2>. QED
    BY <1>2, <2>2, TrackerStarts
<1>3. ASSUME TrackerInv, NEW r \in Tracking, T!NotFound(r) \/ T!NoSuchMilestone(r) \/ T!Fail(r)
      PROVE  TrackerInv'
  <2>1. tracking[r].pc \in {"looking", "checking", "writing"} /\ T!Refuse(r)
    BY <1>3 DEF T!NotFound, T!NoSuchMilestone, T!Fail, T!Looking
  <2>. QED
    BY <1>3, <2>1, TrackerRefused
<1>. QED
  BY <1>1, <1>2, <1>3, TrackerDraws, TrackerFinds, TrackerInserts, TrackerRewrites DEF T!Next

(***************************************************************************)
(* The tracker holds together, for any number of requests that overlap and *)
(* fail: the numbers of issues have no gap and grow with time, no issue    *)
(* names a milestone that is gone, and a label taken away comes back only  *)
(* by a request that ran then or later (musehub_issues.py:433).            *)
(***************************************************************************)
THEOREM TrackerAlwaysHolds == AllSpec => []TrackerHolds
<1>1. AllInit => TrackerInv
  BY TrackerInit DEF AllInit
<1>2. TrackerInv /\ [AllNext]_allVars => TrackerInv'
  <2>1. [AllNext]_allVars => [T!Next]_trackerVars
    BY DEF AllNext, Others, allVars
  <2>. QED
    BY <2>1, TrackerStep
<1>. QED
  BY <1>1, <1>2, TrackerSafe, PTL DEF AllSpec

-----------------------------------------------------------------------------
(***************************************************************************)
(* Labels.  A request that changes a label has read its row: a column that *)
(* differs there from what a request set that had ended before is one that *)
(* a third has changed.  So what it writes back undoes only requests that  *)
(* it overlaps.                                                            *)
(***************************************************************************)
\* What s set of label id in one way was changed by a later request of the
\* same kind, or by one of another kind that overlapped it.
Undone(s, id, kind, other) ==
    \/ B!Later(s, id, {kind})
    \/ \E q \in Labelling : B!Done(q, other) /\ labelling[q].label = id /\ B!Overlap(q, s)

\* What s took away or assigned was assigned again or taken away.
AssignedAgain(s) ==
    \E q \in Labelling : /\ B!Done(q, "assign") /\ labelling[s].label \in labelling[q].adds
                         /\ labelling[q].pull = labelling[s].pull
                         /\ q \notin labelling[s].before

TakenAway(s, l) ==
    \/ B!Later(s, l, {"delete"})
    \/ \E q \in Labelling : /\ B!Done(q, "remove") /\ labelling[q].label = l
                            /\ labelling[q].pull = labelling[s].pull
                            /\ q \notin labelling[s].before

\* What holds of request r when its state is q.
LabelRight(r, q) ==
    /\ q.before \subseteq B!Ended \ {r}
    /\ q.todo # {} => q.kind = "assign"
    /\ q.pc # "idle" /\ q.kind \notin {"create", "assign"} => labelling[q.label].pc = "ok"
    /\ q.pc \in {"naming", "writing"} /\ q.kind \in {"rename", "recolor"} =>
          \E row : q.seen = {row} /\ row.id = q.label
    /\ q.pc \in {"naming", "writing"} /\ q.kind = "rename" =>
          \A row \in q.seen, s \in q.before :
              B!Done(s, "recolor") /\ labelling[s].label = row.id /\ row.color # s =>
                  Undone(s, row.id, "recolor", "rename")
    /\ q.pc \in {"naming", "writing"} /\ q.kind = "recolor" =>
          \A row \in q.seen, s \in q.before :
              B!Done(s, "rename") /\ labelling[s].label = row.id /\ row.name # labelling[s].name =>
                  Undone(s, row.id, "rename", "recolor")

\* ColumnsKept and LinksKept of one label or request.
ColumnRight(l) ==
    \A s \in Labelling : labelling[s].label = l.id =>
        /\ B!Done(s, "rename") /\ l.name # labelling[s].name => Undone(s, l.id, "rename", "recolor")
        /\ B!Done(s, "recolor") /\ l.color # s => Undone(s, l.id, "recolor", "rename")

AssignRight(s) ==
    \A l \in labelling[s].adds : [pull |-> labelling[s].pull, label |-> l] \in links \/ TakenAway(s, l)

RemoveRight(s) == B!Removed(s) = {} \/ AssignedAgain(s)

LabelInv ==
    /\ B!TypeOK
    /\ \A l \in labels : labelling[l.id].pc = "ok" /\ ColumnRight(l)
    /\ \A a, b \in labels : a.id = b.id => a = b
    /\ \A k \in links : k.label \in B!LabelIds
    /\ \A s \in Labelling : /\ B!Done(s, "assign") => AssignRight(s)
                            /\ B!Done(s, "remove") => RemoveRight(s)
                            /\ B!Done(s, "delete") => labelling[s].label \notin B!LabelIds
    /\ \A r \in Labelling : LabelRight(r, labelling[r])

LEMMA LabelsSafe == LabelInv => LabelsHold
<1>. SUFFICES ASSUME LabelInv PROVE LabelsHold
  OBVIOUS
<1>1. B!ColumnsKept
  <2>. SUFFICES ASSUME NEW r \in Labelling, NEW l \in labels, l.id = labelling[r].label
                PROVE  /\ B!Done(r, "rename") /\ l.name # labelling[r].name =>
                             Undone(r, l.id, "rename", "recolor")
                       /\ B!Done(r, "recolor") /\ l.color # r => Undone(r, l.id, "recolor", "rename")
    BY DEF B!ColumnsKept, Undone
  <2>. QED
    BY DEF LabelInv, ColumnRight
<1>2. B!LinksKept
  <2>. SUFFICES ASSUME NEW r \in Labelling
                PROVE  /\ B!Done(r, "assign") => AssignRight(r)
                       /\ B!Done(r, "remove") /\ B!Removed(r) # {} => AssignedAgain(r)
    BY DEF B!LinksKept, AssignRight, TakenAway, AssignedAgain
  <2>. QED
    BY DEF LabelInv, RemoveRight
<1>3. B!DeletedStay
  BY DEF LabelInv, B!DeletedStay, B!Done
<1>. QED
  BY <1>1, <1>2, <1>3 DEF LabelsHold, B!LabelsHold

LEMMA LabelsInit == B!Init => LabelInv
<1>. SUFFICES ASSUME B!Init PROVE LabelInv
  OBVIOUS
<1>1. \A r \in Labelling : labelling[r] = B!NoRequest
  BY DEF B!Init
<1>2. ASSUME NEW r \in Labelling PROVE B!NoRequest \in B!RequestStates
  BY LabelsOK DEF LabelsOK, B!NoRequest, B!RequestStates, B!Kinds
<1>3. B!TypeOK
  BY <1>2 DEF B!TypeOK, B!Init
<1>4. B!NoRequest.pc = "idle" /\ B!NoRequest.before = {} /\ B!NoRequest.todo = {}
  BY DEF B!NoRequest
<1>5. \A r \in Labelling : LabelRight(r, labelling[r])
  BY <1>1, <1>4 DEF LabelRight
<1>. QED
  BY <1>1, <1>3, <1>4, <1>5 DEF B!Init, LabelInv, B!Done

(***************************************************************************)
(* A request moves.  What is said of those that were answered stays true.  *)
(***************************************************************************)
Turns(r, new) ==
    /\ labelling' = [labelling EXCEPT ![r] = new]
    /\ new \in B!RequestStates /\ labelling[r].pc \notin {"ok", "refused", "error"}

LEMMA LabelTurns ==
    ASSUME LabelInv, NEW r \in Labelling, NEW new, Turns(r, new)
    PROVE  /\ labelling'[r] = new /\ \A s \in Labelling \ {r} : labelling'[s] = labelling[s]
           /\ \A s \in Labelling : \A kind : B!Done(s, kind) =>
                 s # r /\ B!Done(s, kind)' /\ labelling'[s] = labelling[s]
           /\ \A s \in Labelling \ {r} : \A kind : B!Done(s, kind)' => B!Done(s, kind)
           /\ \A s \in Labelling : \A id, kind, other :
                 labelling[s].pc = "ok" /\ Undone(s, id, kind, other) => Undone(s, id, kind, other)'
           /\ \A s \in Labelling : \A l : labelling[s].pc = "ok" /\ TakenAway(s, l) => TakenAway(s, l)'
           /\ \A s \in Labelling : labelling[s].pc = "ok" /\ AssignedAgain(s) => AssignedAgain(s)'
           /\ \A p \in Labelling : r \notin labelling[p].before
           /\ B!Ended \subseteq B!Ended'
<1>1. labelling'[r] = new /\ \A s \in Labelling \ {r} : labelling'[s] = labelling[s]
  BY DEF Turns, LabelInv, B!TypeOK
<1>2. \A s \in Labelling : \A kind : B!Done(s, kind) =>
         s # r /\ B!Done(s, kind)' /\ labelling'[s] = labelling[s]
  BY <1>1 DEF B!Done, Turns
<1>3. \A s \in Labelling \ {r} : \A kind : B!Done(s, kind)' => B!Done(s, kind)
  BY <1>1 DEF B!Done
<1>4. \A s \in Labelling : labelling[s].pc = "ok" => s # r /\ labelling'[s] = labelling[s]
  BY <1>1 DEF Turns
<1>5. \A s \in Labelling : \A l, kinds : labelling[s].pc = "ok" /\ B!Later(s, l, kinds) => B!Later(s, l, kinds)'
  BY <1>4 DEF B!Later
<1>6. ASSUME NEW s \in Labelling, labelling[s].pc = "ok"
      PROVE  /\ \A id, kind, other : Undone(s, id, kind, other) => Undone(s, id, kind, other)'
             /\ \A l : TakenAway(s, l) => TakenAway(s, l)'
             /\ AssignedAgain(s) => AssignedAgain(s)'
  <2>1. labelling'[s] = labelling[s]
    BY <1>4, <1>6
  <2>2. \A q \in Labelling : \A kind : B!Done(q, kind) => (B!Overlap(q, s) => B!Overlap(q, s)')
    BY <1>2, <2>1 DEF B!Overlap
  <2>3. \A id, kind, other : Undone(s, id, kind, other) => Undone(s, id, kind, other)'
    BY <1>2, <1>5, <1>6, <2>2 DEF Undone
  <2>4. \A l : TakenAway(s, l) => TakenAway(s, l)'
    BY <1>2, <1>5, <1>6, <2>1 DEF TakenAway
  <2>5. AssignedAgain(s) => AssignedAgain(s)'
    BY <1>2, <2>1 DEF AssignedAgain
  <2>. QED
    BY <2>3, <2>4, <2>5
<1>7. \A p \in Labelling : r \notin labelling[p].before
  BY DEF LabelInv, LabelRight, B!Ended, Turns
<1>8. B!Ended \subseteq B!Ended'
  BY <1>1 DEF B!Ended, Turns
<1>. QED
  BY <1>1, <1>2, <1>3, <1>6, <1>7, <1>8

LEMMA LabelRightKept ==
    ASSUME LabelInv, NEW r \in Labelling, NEW new, Turns(r, new),
           NEW p \in Labelling, NEW q \in B!RequestStates, LabelRight(p, q)
    PROVE  LabelRight(p, q)'
<1>1. /\ labelling'[r] = new /\ \A s \in Labelling \ {r} : labelling'[s] = labelling[s]
      /\ \A s \in Labelling : \A kind : B!Done(s, kind) =>
            s # r /\ B!Done(s, kind)' /\ labelling'[s] = labelling[s]
      /\ \A s \in Labelling \ {r} : \A kind : B!Done(s, kind)' => B!Done(s, kind)
      /\ \A s \in Labelling : \A id, kind, other :
            labelling[s].pc = "ok" /\ Undone(s, id, kind, other) => Undone(s, id, kind, other)'
      /\ B!Ended \subseteq B!Ended'
  BY LabelTurns
<1>2. q.before \subseteq B!Ended' \ {p} /\ q.before \subseteq Labelling \ {r}
  BY <1>1 DEF LabelRight, B!Ended, Turns
<1>3. q.pc # "idle" /\ q.kind \notin {"create", "assign"} => labelling'[q.label].pc = "ok"
  <2>1. q.label \in Labelling
    BY DEF B!RequestStates
  <2>. QED
    BY <1>1, <2>1 DEF LabelRight, Turns
<1>4. \A s \in q.before : \A kind : B!Done(s, kind)' => B!Done(s, kind) /\ labelling'[s] = labelling[s]
                                                   /\ labelling[s].pc = "ok"
  BY <1>1, <1>2 DEF B!Done
<1>5. /\ q.todo # {} => q.kind = "assign"
      /\ q.pc \in {"naming", "writing"} /\ q.kind \in {"rename", "recolor"} =>
            \E row : q.seen = {row} /\ row.id = q.label
  BY DEF LabelRight
<1>6. q.pc \in {"naming", "writing"} /\ q.kind = "rename" =>
          \A row \in q.seen, s \in q.before :
              B!Done(s, "recolor")' /\ labelling'[s].label = row.id /\ row.color # s =>
                  Undone(s, row.id, "recolor", "rename")'
  BY <1>1, <1>2, <1>4 DEF LabelRight
<1>7. q.pc \in {"naming", "writing"} /\ q.kind = "recolor" =>
          \A row \in q.seen, s \in q.before :
              B!Done(s, "rename")' /\ labelling'[s].label = row.id /\ row.name # labelling'[s].name =>
                  Undone(s, row.id, "rename", "recolor")'
  BY <1>1, <1>2, <1>4 DEF LabelRight
<1>. QED
  BY <1>2, <1>3, <1>5, <1>6, <1>7 DEF LabelRight

LEMMA LabelNamed ==
    ASSUME NEW p, NEW q, q = labelling'[p], LabelRight(p, q)'
    PROVE  LabelRight(p, labelling[p])'
BY DEF LabelRight

LEMMA LabelOthers ==
    ASSUME LabelInv, NEW r \in Labelling, NEW new, Turns(r, new), LabelRight(r, new)
    PROVE  \A p \in Labelling : LabelRight(p, labelling[p])'
<1>. SUFFICES ASSUME NEW p \in Labelling PROVE LabelRight(p, labelling[p])'
  OBVIOUS
<1>1. PICK q : q = labelling'[p]
  OBVIOUS
<1>2. LabelRight(p, q) /\ q \in B!RequestStates
  BY <1>1 DEF Turns, LabelInv, B!TypeOK
<1>3. LabelRight(p, q)'
  BY <1>2, LabelRightKept
<1>. QED
  BY <1>1, <1>3, LabelNamed

\* A step that commits nothing.
LEMMA LabelQuiet ==
    ASSUME LabelInv, NEW r \in Labelling, NEW new, Turns(r, new), new.pc # "ok",
           labels' = labels, links' = links, LabelRight(r, new)
    PROVE  LabelInv'
<1>1. /\ labelling'[r] = new /\ \A s \in Labelling \ {r} : labelling'[s] = labelling[s]
      /\ \A s \in Labelling : \A kind : B!Done(s, kind) =>
            s # r /\ B!Done(s, kind)' /\ labelling'[s] = labelling[s]
      /\ \A s \in Labelling \ {r} : \A kind : B!Done(s, kind)' => B!Done(s, kind)
      /\ \A s \in Labelling : \A id, kind, other :
            labelling[s].pc = "ok" /\ Undone(s, id, kind, other) => Undone(s, id, kind, other)'
      /\ \A s \in Labelling : \A l : labelling[s].pc = "ok" /\ TakenAway(s, l) => TakenAway(s, l)'
      /\ \A s \in Labelling : labelling[s].pc = "ok" /\ AssignedAgain(s) => AssignedAgain(s)'
  BY LabelTurns
<1>2. \A s \in Labelling : \A kind : B!Done(s, kind)' =>
         B!Done(s, kind) /\ labelling'[s] = labelling[s] /\ labelling[s].pc = "ok"
  BY <1>1 DEF B!Done
<1>3. \A p \in Labelling : LabelRight(p, labelling[p])'
  BY LabelOthers
<1>4. B!TypeOK'
  BY DEF Turns, LabelInv, B!TypeOK
<1>5. \A l \in labels : l.id \in Labelling
  BY DEF LabelInv, B!TypeOK, B!Rows
<1>6. \A l \in labels : labelling'[l.id].pc = "ok"
  BY <1>1, <1>5 DEF LabelInv, Turns
<1>7. \A l \in labels : ColumnRight(l)'
  BY <1>1, <1>2 DEF LabelInv, ColumnRight
<1>8. \A s \in Labelling :
         /\ B!Done(s, "assign")' => AssignRight(s)'
         /\ B!Done(s, "remove")' => RemoveRight(s)'
         /\ B!Done(s, "delete")' => labelling'[s].label \notin B!LabelIds'
  <2>1. ASSUME NEW s \in Labelling, B!Done(s, "assign")' PROVE AssignRight(s)'
    BY <1>1, <1>2, <2>1 DEF LabelInv, AssignRight
  <2>2. ASSUME NEW s \in Labelling, B!Done(s, "remove")' PROVE RemoveRight(s)'
    BY <1>1, <1>2, <2>2 DEF LabelInv, RemoveRight, B!Removed
  <2>3. ASSUME NEW s \in Labelling, B!Done(s, "delete")' PROVE labelling'[s].label \notin B!LabelIds'
    BY <1>1, <1>2, <2>3 DEF LabelInv, B!LabelIds
  <2>. QED
    BY <2>1, <2>2, <2>3
<1>9. \A k \in links : k.label \in B!LabelIds'
  BY DEF LabelInv, B!LabelIds
<1>10. \A a, b \in labels : a.id = b.id => a = b
  BY DEF LabelInv
<1>. QED
  BY <1>3, <1>4, <1>6, <1>7, <1>8, <1>9, <1>10 DEF LabelInv

LEMMA LabelStarts ==
    ASSUME LabelInv, NEW r \in Labelling, NEW kind \in B!Kinds,
           NEW pc \in {"looking", "naming", "writing"}, NEW fields \in B!RequestStates,
           kind = "create" \/ pc = "looking" \/ kind = "remove",
           kind \notin {"create", "assign"} => fields.label \in B!LabelIds,
           kind # "assign" => fields.todo = {},
           B!Start(r, kind, pc, fields)
    PROVE  LabelInv'
<1>1. PICK new : new = [fields EXCEPT !.kind = kind, !.pc = pc, !.before = B!Ended]
  OBVIOUS
<1>2. /\ new \in B!RequestStates /\ new.before = B!Ended /\ new.pc = pc /\ new.kind = kind
      /\ new.label = fields.label /\ new.todo = fields.todo
  <2>1. B!Ended \subseteq Labelling
    BY DEF B!Ended
  <2>. QED
    BY <1>1, <2>1, Zenon DEF B!RequestStates
<1>3. labelling' = [labelling EXCEPT ![r] = new] /\ labels' = labels /\ links' = links
      /\ labelling[r].pc = "idle"
  BY <1>1 DEF B!Start, B!IsNext
<1>4. r \notin B!Ended
  BY <1>3 DEF B!Ended
<1>5. \A l \in B!LabelIds : labelling[l].pc = "ok"
  BY DEF B!LabelIds, LabelInv
<1>6. LabelRight(r, new)
  BY <1>2, <1>4, <1>5 DEF LabelRight
<1>. QED
  BY <1>2, <1>3, <1>6, LabelQuiet, Zenon DEF Turns

LEMMA LabelBegins ==
    ASSUME LabelInv, NEW r \in Labelling,
           \/ B!CreateLabel(r) \/ B!UpdateLabel(r) \/ B!DeleteLabel(r) \/ B!AssignLabels(r)
           \/ B!RemoveLabel(r)
    PROVE  LabelInv'
<1>1. B!NoRequest \in B!RequestStates /\ B!NoRequest.todo = {}
  BY LabelsOK DEF LabelsOK, B!NoRequest, B!RequestStates, B!Kinds
<1>2. /\ \A l \in B!LabelIds : l \in Labelling
      /\ \A k \in links : k.pull \in LabelPulls /\ k.label \in B!LabelIds
  BY DEF LabelInv, B!TypeOK, B!LabelIds, B!Rows, B!Links
<1>3. CASE B!CreateLabel(r)
  <2>1. PICK n \in LabelNames : B!Start(r, "create", "naming", [B!NoRequest EXCEPT !.name = n])
    BY <1>3 DEF B!CreateLabel
  <2>2. [B!NoRequest EXCEPT !.name = n] \in B!RequestStates
        /\ [B!NoRequest EXCEPT !.name = n].todo = {}
    BY <1>1 DEF B!RequestStates
  <2>. QED
    BY <2>1, <2>2, LabelStarts, Zenon DEF B!Kinds
<1>4. CASE B!UpdateLabel(r)
  <2>1. PICK l \in B!LabelIds :
           \/ \E n \in LabelNames :
                 B!Start(r, "rename", "looking", [B!NoRequest EXCEPT !.label = l, !.name = n])
           \/ B!Start(r, "recolor", "looking", [B!NoRequest EXCEPT !.label = l])
    BY <1>4, Zenon DEF B!UpdateLabel
  <2>2. CASE B!Start(r, "recolor", "looking", [B!NoRequest EXCEPT !.label = l])
    <3>1. [B!NoRequest EXCEPT !.label = l] \in B!RequestStates /\ [B!NoRequest EXCEPT !.label = l].label = l
          /\ [B!NoRequest EXCEPT !.label = l].todo = {}
      BY <1>1, <1>2 DEF B!RequestStates
    <3>. QED
      BY <2>2, <3>1, LabelStarts, Zenon DEF B!Kinds
  <2>3. CASE \E n \in LabelNames :
                B!Start(r, "rename", "looking", [B!NoRequest EXCEPT !.label = l, !.name = n])
    <3>1. PICK n \in LabelNames :
             B!Start(r, "rename", "looking", [B!NoRequest EXCEPT !.label = l, !.name = n])
      BY <2>3, Zenon
    <3>2. PICK fields : fields = [B!NoRequest EXCEPT !.label = l, !.name = n]
      OBVIOUS
    <3>3. fields \in B!RequestStates /\ fields.label = l /\ fields.todo = {}
      BY <1>1, <1>2, <3>2, Zenon DEF B!RequestStates
    <3>. QED
      BY <3>1, <3>2, <3>3, LabelStarts, Zenon DEF B!Kinds
  <2>. QED
    BY <2>1, <2>2, <2>3, Zenon
<1>5. CASE B!DeleteLabel(r)
  <2>1. PICK l \in B!LabelIds : B!Start(r, "delete", "looking", [B!NoRequest EXCEPT !.label = l])
    BY <1>5 DEF B!DeleteLabel
  <2>2. [B!NoRequest EXCEPT !.label = l] \in B!RequestStates /\ [B!NoRequest EXCEPT !.label = l].label = l
        /\ [B!NoRequest EXCEPT !.label = l].todo = {}
    BY <1>1, <1>2 DEF B!RequestStates
  <2>. QED
    BY <2>1, <2>2, LabelStarts, Zenon DEF B!Kinds
<1>6. CASE B!AssignLabels(r)
  <2>1. PICK p \in LabelPulls, ls \in SUBSET B!LabelIds :
           B!Start(r, "assign", "looking", [B!NoRequest EXCEPT !.pull = p, !.todo = ls, !.adds = ls])
    BY <1>6, Zenon DEF B!AssignLabels
  <2>2. PICK fields : fields = [B!NoRequest EXCEPT !.pull = p, !.todo = ls, !.adds = ls]
    OBVIOUS
  <2>3. fields \in B!RequestStates
    BY <1>1, <1>2, <2>2, Zenon DEF B!RequestStates
  <2>. QED
    BY <2>1, <2>2, <2>3, LabelStarts DEF B!Kinds
<1>7. CASE B!RemoveLabel(r)
  <2>1. PICK k \in links :
           B!Start(r, "remove", "writing", [B!NoRequest EXCEPT !.pull = k.pull, !.label = k.label])
    BY <1>7, Zenon DEF B!RemoveLabel
  <2>2. PICK fields : fields = [B!NoRequest EXCEPT !.pull = k.pull, !.label = k.label]
    OBVIOUS
  <2>3. fields \in B!RequestStates /\ fields.label = k.label /\ fields.todo = {}
    BY <1>1, <1>2, <2>2, Zenon DEF B!RequestStates
  <2>. QED
    BY <1>2, <2>1, <2>2, <2>3, LabelStarts, Zenon DEF B!Kinds
<1>. QED
  BY <1>3, <1>4, <1>5, <1>6, <1>7

LEMMA LabelFinds ==
    ASSUME LabelInv, NEW r \in Labelling,
           \/ B!FindLabel(r) \/ B!FindAssigned(r) \/ B!NotFound(r) \/ B!CheckName(r) \/ B!Fail(r)
    PROVE  LabelInv'
<1>1. /\ labelling \in [Labelling -> B!RequestStates] /\ labelling[r] \in B!RequestStates
      /\ labels \subseteq B!Rows /\ LabelRight(r, labelling[r])
  BY DEF LabelInv, B!TypeOK
<1>2. CASE B!FindLabel(r)
  <2>1. PICK l \in labels : l.id = labelling[r].label
           /\ labelling' = [labelling EXCEPT ![r].seen = {l},
                              ![r].pc = IF labelling[r].kind = "rename" /\ l.name # labelling[r].name
                                        THEN "naming" ELSE "writing"]
    BY <1>2, Zenon DEF B!FindLabel
  <2>2. PICK pc \in {"naming", "writing"} :
           labelling' = [labelling EXCEPT ![r].seen = {l}, ![r].pc = pc]
    BY <2>1, Zenon
  <2>3. PICK new : new = [labelling[r] EXCEPT !.seen = {l}, !.pc = pc]
    OBVIOUS
  <2>4. /\ new \in B!RequestStates /\ new.seen = {l} /\ new.pc = pc /\ new.kind = labelling[r].kind
        /\ new.label = labelling[r].label /\ new.before = labelling[r].before
        /\ new.todo = labelling[r].todo /\ labelling' = [labelling EXCEPT ![r] = new]
    BY <1>1, <2>2, <2>3, Zenon DEF B!RequestStates
  <2>5. labels' = labels /\ links' = links /\ labelling[r].pc = "looking"
    BY <1>2 DEF B!FindLabel
  <2>6. new.before \subseteq Labelling
    BY <2>4 DEF B!RequestStates
  <2>7. LabelRight(r, new)
    <3>1. ColumnRight(l)
      BY DEF LabelInv
    <3>. QED
      BY <1>1, <2>1, <2>4, <2>5, <2>6, <3>1 DEF LabelRight, ColumnRight
  <2>. QED
    BY <2>4, <2>5, <2>7, LabelQuiet, Zenon DEF Turns
<1>3. CASE B!FindAssigned(r)
  <2>1. PICK todo, pc : /\ labelling' = [labelling EXCEPT ![r].todo = todo, ![r].pc = pc]
                        /\ todo \subseteq labelling[r].todo /\ pc \in {"looking", "writing"}
                        /\ labelling[r].todo # {}
    <3>1. PICK l \in labelling[r].todo \cap B!LabelIds :
             labelling' = [labelling EXCEPT ![r].todo = @ \ {l},
                             ![r].pc = IF labelling[r].todo = {l} THEN "writing" ELSE "looking"]
      BY <1>3, Zenon DEF B!FindAssigned
    <3>2. PICK todo : todo = labelling[r].todo \ {l}
      BY Zenon
    <3>3. PICK pc \in {"looking", "writing"} :
             pc = IF labelling[r].todo = {l} THEN "writing" ELSE "looking"
      OBVIOUS
    <3>4. labelling' = [labelling EXCEPT ![r].todo = todo, ![r].pc = pc]
      BY <1>1, <3>1, <3>2, <3>3
    <3>5. labelling[r].todo # {} /\ todo \subseteq labelling[r].todo
      BY <3>1, <3>2
    <3>. QED
      BY <3>3, <3>4, <3>5
  <2>2. PICK new : new = [labelling[r] EXCEPT !.todo = todo, !.pc = pc]
    OBVIOUS
  <2>3. /\ new \in B!RequestStates /\ new.pc = pc /\ new.kind = labelling[r].kind
        /\ new.label = labelling[r].label /\ new.before = labelling[r].before
        /\ labelling' = [labelling EXCEPT ![r] = new]
    BY <1>1, <2>1, <2>2, Zenon DEF B!RequestStates
  <2>4. labels' = labels /\ links' = links /\ labelling[r].pc = "looking"
    BY <1>3 DEF B!FindAssigned
  <2>5. labelling[r].kind = "assign"
    BY <1>1, <2>1 DEF LabelRight
  <2>6. LabelRight(r, new)
    BY <1>1, <2>3, <2>4, <2>5 DEF LabelRight
  <2>. QED
    BY <2>1, <2>3, <2>4, <2>6, LabelQuiet, Zenon DEF Turns
<1>4. CASE B!NotFound(r) \/ B!CheckName(r) \/ B!Fail(r)
  <2>1. PICK pc \in {"writing", "refused", "error"} :
           /\ labelling' = [labelling EXCEPT ![r].pc = pc] /\ labels' = labels /\ links' = links
           /\ labelling[r].pc \in {"looking", "naming", "writing"}
           /\ pc = "writing" => labelling[r].pc = "naming"
    BY <1>4 DEF B!NotFound, B!CheckName, B!Fail, B!Goto
  <2>2. PICK new : new = [labelling[r] EXCEPT !.pc = pc]
    BY Zenon
  <2>3. /\ new \in B!RequestStates /\ new.pc = pc /\ new.kind = labelling[r].kind
        /\ new.label = labelling[r].label /\ new.before = labelling[r].before
        /\ new.seen = labelling[r].seen /\ new.todo = labelling[r].todo
        /\ labelling' = [labelling EXCEPT ![r] = new]
    BY <1>1, <2>1, <2>2 DEF B!RequestStates
  <2>4. LabelRight(r, new)
    BY <1>1, <2>1, <2>3 DEF LabelRight
  <2>. QED
    BY <2>1, <2>3, <2>4, LabelQuiet, Zenon DEF Turns
<1>. QED
  BY <1>2, <1>3, <1>4

(***************************************************************************)
(* A request is answered.  What was changed of labels and links is         *)
(* excused for those answered before by this one, which had not ended      *)
(* when they began.                                                        *)
(***************************************************************************)
LEMMA LabelAnswers ==
    ASSUME LabelInv, NEW r \in Labelling, labelling[r].pc = "writing", B!Answer(r)
    PROVE  \E new : /\ Turns(r, new) /\ LabelRight(r, new) /\ new.pc = "ok"
                    /\ new.kind = labelling[r].kind /\ new.label = labelling[r].label
                    /\ new.name = labelling[r].name /\ new.pull = labelling[r].pull
                    /\ new.adds = labelling[r].adds /\ new.before = labelling[r].before
<1>1. /\ labelling \in [Labelling -> B!RequestStates] /\ LabelRight(r, labelling[r])
      /\ labelling' = [labelling EXCEPT ![r].pc = "ok", ![r].seen = {}]
  BY DEF LabelInv, B!TypeOK, B!Answer
<1>2. PICK new : new = [labelling[r] EXCEPT !.pc = "ok", !.seen = {}]
  OBVIOUS
<1>3. /\ new \in B!RequestStates /\ new.pc = "ok" /\ new.kind = labelling[r].kind
      /\ new.label = labelling[r].label /\ new.name = labelling[r].name
      /\ new.pull = labelling[r].pull /\ new.adds = labelling[r].adds
      /\ new.before = labelling[r].before /\ new.todo = labelling[r].todo
  <2>1. labelling[r] \in B!RequestStates /\ {} \subseteq B!Rows
    BY <1>1
  <2>. QED
    BY <1>2, <2>1, Zenon DEF B!RequestStates
<1>4. labelling' = [labelling EXCEPT ![r] = new]
  BY <1>1, <1>2, Zenon
<1>5. LabelRight(r, new)
  BY <1>1, <1>3 DEF LabelRight
<1>. QED
  BY <1>3, <1>4, <1>5, Zenon DEF Turns

LEMMA LabelCommits ==
    ASSUME LabelInv, NEW r \in Labelling, NEW new, Turns(r, new), LabelRight(r, new), new.pc = "ok",
           labels' \subseteq B!Rows, links' \subseteq B!Links,
           \A l \in labels' : l.id \in B!LabelIds \cup {r} /\ ColumnRight(l)',
           \A a, b \in labels' : a.id = b.id => a = b,
           \A k \in links' : k.label \in B!LabelIds',
           \A k \in links \ links' :
               \/ new.kind = "delete" /\ new.label = k.label
               \/ new.kind = "remove" /\ new.label = k.label /\ new.pull = k.pull,
           \A k \in links' \ links : new.kind = "assign" /\ k.label \in new.adds /\ k.pull = new.pull,
           new.kind = "assign" => \A l \in new.adds : [pull |-> new.pull, label |-> l] \in links',
           new.kind = "remove" => \A k \in links' : k.label # new.label \/ k.pull # new.pull,
           new.kind = "delete" => new.label \notin B!LabelIds'
    PROVE  LabelInv'
<1>1. /\ labelling'[r] = new /\ \A s \in Labelling \ {r} : labelling'[s] = labelling[s]
      /\ \A s \in Labelling : \A kind : B!Done(s, kind) =>
            s # r /\ B!Done(s, kind)' /\ labelling'[s] = labelling[s]
      /\ \A s \in Labelling \ {r} : \A kind : B!Done(s, kind)' => B!Done(s, kind)
      /\ \A s \in Labelling : \A l : labelling[s].pc = "ok" /\ TakenAway(s, l) => TakenAway(s, l)'
      /\ \A s \in Labelling : labelling[s].pc = "ok" /\ AssignedAgain(s) => AssignedAgain(s)'
      /\ \A p \in Labelling : r \notin labelling[p].before
  BY LabelTurns
<1>2. \A kind : B!Done(r, kind)' <=> new.kind = kind
  BY <1>1 DEF B!Done
<1>3. \A s \in Labelling \ {r} : \A kind : B!Done(s, kind)' =>
         B!Done(s, kind) /\ labelling'[s] = labelling[s] /\ labelling[s].pc = "ok"
  BY <1>1 DEF B!Done
<1>4. \A p \in Labelling : LabelRight(p, labelling[p])'
  BY LabelOthers
<1>5. B!TypeOK'
  BY DEF Turns, LabelInv, B!TypeOK
<1>6. \A l \in labels' : labelling'[l.id].pc = "ok"
  <2>1. \A i \in B!LabelIds : i \in Labelling /\ labelling[i].pc = "ok"
    BY DEF LabelInv, B!TypeOK, B!LabelIds, B!Rows
  <2>. QED
    BY <1>1, <2>1 DEF Turns
<1>7. ASSUME NEW s \in Labelling, B!Done(s, "assign")' PROVE AssignRight(s)'
  <2>1. CASE s = r
    BY <1>1, <1>2, <1>7, <2>1 DEF AssignRight
  <2>2. CASE s # r
    <3>1. labelling'[s] = labelling[s] /\ AssignRight(s) /\ labelling[s].pc = "ok"
          /\ r \notin labelling[s].before
      BY <1>1, <1>3, <1>7, <2>2 DEF LabelInv
    <3>2. ASSUME NEW l \in labelling[s].adds, [pull |-> labelling[s].pull, label |-> l] \notin links'
          PROVE  TakenAway(s, l)'
      <4>1. PICK k : k = [pull |-> labelling[s].pull, label |-> l]
        BY Zenon
      <4>2. k.pull = labelling[s].pull /\ k.label = l /\ k \notin links'
        BY <3>2, <4>1
      <4>3. CASE k \notin links
        BY <1>1, <3>1, <4>1, <4>3 DEF AssignRight
      <4>4. CASE new.kind = "delete" /\ new.label = l
        BY <1>1, <2>2, <3>1, <4>4 DEF TakenAway, B!Later
      <4>5. CASE new.kind = "remove" /\ new.label = l /\ new.pull = labelling[s].pull
        BY <1>1, <1>2, <3>1, <4>5 DEF TakenAway
      <4>. QED
        BY <4>2, <4>3, <4>4, <4>5
    <3>. QED
      BY <3>1, <3>2 DEF AssignRight
  <2>. QED
    BY <2>1, <2>2
<1>8. ASSUME NEW s \in Labelling, B!Done(s, "remove")' PROVE RemoveRight(s)'
  <2>1. CASE s = r
    BY <1>1, <1>2, <1>8, <2>1 DEF RemoveRight, B!Removed
  <2>2. CASE s # r
    <3>1. labelling'[s] = labelling[s] /\ RemoveRight(s) /\ labelling[s].pc = "ok"
          /\ r \notin labelling[s].before
      BY <1>1, <1>3, <1>8, <2>2 DEF LabelInv
    <3>2. ASSUME NEW k \in links', k.label = labelling[s].label, k.pull = labelling[s].pull
          PROVE  AssignedAgain(s)'
      <4>1. CASE k \in links
        BY <1>1, <3>1, <3>2, <4>1 DEF RemoveRight, B!Removed
      <4>2. CASE k \notin links
        <5>1. new.kind = "assign" /\ k.label \in new.adds /\ k.pull = new.pull
          BY <4>2
        <5>. QED
          BY <1>1, <1>2, <3>1, <3>2, <5>1 DEF AssignedAgain
      <4>. QED
        BY <4>1, <4>2
    <3>. QED
      BY <3>1, <3>2 DEF RemoveRight, B!Removed
  <2>. QED
    BY <2>1, <2>2
<1>9. ASSUME NEW s \in Labelling, B!Done(s, "delete")' PROVE labelling'[s].label \notin B!LabelIds'
  <2>1. CASE s = r
    BY <1>1, <1>2, <1>9, <2>1
  <2>2. CASE s # r
    <3>1. labelling'[s] = labelling[s] /\ labelling[s].label \notin B!LabelIds
          /\ B!Done(s, "delete")
      BY <1>1, <1>3, <1>9, <2>2 DEF LabelInv
    <3>2. labelling[s].label # r
      <4>1. LabelRight(s, labelling[s])
        BY DEF LabelInv
      <4>2. labelling[labelling[s].label].pc = "ok"
        BY <3>1, <4>1 DEF LabelRight, B!Done
      <4>. QED
        BY <4>2 DEF Turns
    <3>3. B!LabelIds' \subseteq B!LabelIds \cup {r}
      BY DEF B!LabelIds
    <3>. QED
      BY <3>1, <3>2, <3>3
  <2>. QED
    BY <2>1, <2>2
<1>. QED
  BY <1>4, <1>5, <1>6, <1>7, <1>8, <1>9 DEF LabelInv

\* Columns of labels that a step leaves alone.
LEMMA ColumnsStay ==
    ASSUME LabelInv, NEW r \in Labelling, NEW new, Turns(r, new), NEW l \in labels,
           new.kind \notin {"rename", "recolor"} \/ new.label # l.id
    PROVE  ColumnRight(l)'
<1>1. /\ labelling'[r] = new /\ \A s \in Labelling \ {r} : labelling'[s] = labelling[s]
      /\ \A s \in Labelling \ {r} : \A kind : B!Done(s, kind)' => B!Done(s, kind)
      /\ \A s \in Labelling : \A id, kind, other :
            labelling[s].pc = "ok" /\ Undone(s, id, kind, other) => Undone(s, id, kind, other)'
  BY LabelTurns
<1>2. ColumnRight(l)
  BY DEF LabelInv
<1>3. \A s \in Labelling : labelling'[s].label = l.id /\ (B!Done(s, "rename")' \/ B!Done(s, "recolor")') =>
         s # r /\ labelling'[s] = labelling[s] /\ labelling[s].pc = "ok"
  BY <1>1 DEF B!Done
<1>. QED
  BY <1>1, <1>2, <1>3 DEF ColumnRight

LEMMA LabelsLinked ==
    ASSUME LabelInv, NEW r \in Labelling,
           B!InsertLabel(r) \/ B!CommitDelete(r) \/ B!CommitAssign(r) \/ B!CommitRemove(r)
    PROVE  LabelInv'
<1>1. /\ labelling[r].pc = "writing" /\ B!Answer(r) /\ labelling[r] \in B!RequestStates
      /\ labels \subseteq B!Rows /\ links \subseteq B!Links
  BY DEF LabelInv, B!TypeOK, B!InsertLabel, B!CommitDelete, B!CommitAssign, B!CommitRemove, B!Writing
<1>2. PICK new : /\ Turns(r, new) /\ LabelRight(r, new) /\ new.pc = "ok"
                 /\ new.kind = labelling[r].kind /\ new.label = labelling[r].label
                 /\ new.name = labelling[r].name /\ new.pull = labelling[r].pull
                 /\ new.adds = labelling[r].adds /\ new.before = labelling[r].before
  BY <1>1, LabelAnswers
<1>3. \A a, b \in labels : a.id = b.id => a = b
  BY DEF LabelInv
<1>4. \A k \in links : k.label \in B!LabelIds
  BY DEF LabelInv
<1>5. new.kind \notin {"rename", "recolor"} => \A l \in labels : ColumnRight(l)'
  BY <1>2, ColumnsStay
<1>6. CASE B!InsertLabel(r)
  <2>1. PICK row : row = [id |-> r, name |-> labelling[r].name, color |-> r]
    BY Zenon
  <2>2. /\ labels' = labels \cup {row} /\ links' = links /\ new.kind = "create" /\ row.id = r
        /\ row \in B!Rows
    BY <1>1, <1>2, <1>6, <2>1 DEF B!InsertLabel, B!Writing, B!RequestStates, B!Rows
  <2>3. \A l \in labels : l.id # r
    BY <1>1 DEF LabelInv
  <2>4. ColumnRight(row)'
    <3>1. /\ labelling'[r] = new /\ \A s \in Labelling \ {r} : labelling'[s] = labelling[s]
          /\ \A s \in Labelling \ {r} : \A kind : B!Done(s, kind)' => B!Done(s, kind)
      BY <1>2, LabelTurns
    <3>2. \A s \in Labelling : B!Done(s, "rename") \/ B!Done(s, "recolor") => labelling[s].label # r
      BY <1>1 DEF LabelInv, LabelRight, B!Done
    <3>3. \A s \in Labelling : B!Done(s, "rename")' \/ B!Done(s, "recolor")' => labelling'[s].label # r
      BY <2>2, <3>1, <3>2 DEF B!Done
    <3>. QED
      BY <2>2, <3>3 DEF ColumnRight
  <2>5. B!LabelIds \subseteq B!LabelIds'
    BY <2>2 DEF B!LabelIds
  <2>6. \A l \in labels' : l.id \in B!LabelIds \cup {r} /\ ColumnRight(l)'
    BY <1>5, <2>2, <2>4 DEF B!LabelIds
  <2>. QED
    BY <1>1, <1>2, <1>3, <1>4, <2>2, <2>3, <2>5, <2>6, LabelCommits
<1>7. CASE B!CommitDelete(r)
  <2>1. /\ labels' = {l \in labels : l.id # labelling[r].label}
        /\ links' = {k \in links : k.label # labelling[r].label} /\ new.kind = "delete"
    BY <1>2, <1>7 DEF B!CommitDelete, B!Writing
  <2>2. \A k \in links' : k.label \in B!LabelIds'
    BY <1>4, <2>1 DEF B!LabelIds
  <2>3. \A l \in labels' : l.id \in B!LabelIds \cup {r} /\ ColumnRight(l)'
    BY <1>5, <2>1 DEF B!LabelIds
  <2>4. new.label \notin B!LabelIds'
    BY <1>2, <2>1 DEF B!LabelIds
  <2>. QED
    BY <1>1, <1>2, <1>3, <2>1, <2>2, <2>3, <2>4, LabelCommits
<1>8. CASE B!CommitAssign(r)
  <2>1. /\ labels' = labels /\ new.kind = "assign" /\ new.adds \subseteq B!LabelIds
        /\ links' = links \cup {[pull |-> new.pull, label |-> l] : l \in new.adds}
    BY <1>2, <1>8 DEF B!CommitAssign, B!Writing
  <2>2. \A l \in new.adds : /\ [pull |-> new.pull, label |-> l] \in B!Links
                            /\ [pull |-> new.pull, label |-> l].label = l
                            /\ [pull |-> new.pull, label |-> l].pull = new.pull
    BY <1>1, <1>2 DEF B!Links, B!RequestStates
  <2>3. B!LabelIds' = B!LabelIds
    BY <2>1 DEF B!LabelIds
  <2>4. \A l \in labels' : l.id \in B!LabelIds \cup {r} /\ ColumnRight(l)'
    BY <1>5, <2>1 DEF B!LabelIds
  <2>5. \A k \in links' \ links : k.label \in new.adds /\ k.pull = new.pull /\ k \in B!Links
    BY <2>1, <2>2
  <2>6. \A l \in new.adds : [pull |-> new.pull, label |-> l] \in links'
    BY <2>1
  <2>7. links' \subseteq B!Links /\ links \subseteq links' /\ \A k \in links' : k.label \in B!LabelIds'
    BY <1>1, <1>4, <2>1, <2>3, <2>5
  <2>. QED
    BY <1>1, <1>2, <1>3, <2>1, <2>4, <2>5, <2>6, <2>7, LabelCommits
<1>9. CASE B!CommitRemove(r)
  <2>1. labels' = labels /\ new.kind = "remove" /\ links' = links \ B!Removed(r)
    BY <1>2, <1>9 DEF B!CommitRemove, B!Writing
  <2>2. \A k : k \in B!Removed(r) <=> k \in links /\ k.label = new.label /\ k.pull = new.pull
    BY <1>2 DEF B!Removed
  <2>3. B!LabelIds' = B!LabelIds
    BY <2>1 DEF B!LabelIds
  <2>4. \A l \in labels' : l.id \in B!LabelIds \cup {r} /\ ColumnRight(l)'
    BY <1>5, <2>1 DEF B!LabelIds
  <2>. QED
    BY <1>1, <1>2, <1>3, <1>4, <2>1, <2>2, <2>3, <2>4, LabelCommits
<1>. QED
  BY <1>6, <1>7, <1>8, <1>9

(***************************************************************************)
(* An UPDATE of all columns.                                               *)
(***************************************************************************)
LEMMA LabelWritten ==
    ASSUME LabelInv, NEW r \in Labelling, B!WriteLabel(r)
    PROVE  LabelInv'
<1>1. /\ labelling[r].pc = "writing" /\ B!Answer(r) /\ labelling[r] \in B!RequestStates
      /\ labels \subseteq B!Rows /\ links \subseteq B!Links
      /\ labelling[r].kind \in {"rename", "recolor"} /\ links' = links
      /\ LabelRight(r, labelling[r])
  BY DEF LabelInv, B!TypeOK, B!WriteLabel, B!Writing
<1>2. PICK new : /\ Turns(r, new) /\ LabelRight(r, new) /\ new.pc = "ok"
                 /\ new.kind = labelling[r].kind /\ new.label = labelling[r].label
                 /\ new.name = labelling[r].name /\ new.pull = labelling[r].pull
                 /\ new.adds = labelling[r].adds /\ new.before = labelling[r].before
  BY <1>1, LabelAnswers
<1>3. PICK row \in labelling[r].seen :
         /\ {l \in labels : l.id = row.id} # {} =>
               B!Named(B!Patched(r, row).name) \subseteq {l \in labels : l.id = row.id}
         /\ labels' = IF {l \in labels : l.id = row.id} = {} THEN labels
                      ELSE (labels \ {l \in labels : l.id = row.id}) \cup {B!Patched(r, row)}
  BY Zenon DEF B!WriteLabel
<1>4. PICK put : put = B!Patched(r, row)
  OBVIOUS
<1>5. row.id = new.label /\ row \in B!Rows
  BY <1>1, <1>2, <1>3 DEF LabelRight, B!RequestStates
<1>6. /\ put \in B!Rows /\ put.id = row.id
      /\ put.name = IF new.kind = "rename" THEN new.name ELSE row.name
      /\ put.color = IF new.kind = "rename" THEN row.color ELSE r
  BY <1>1, <1>2, <1>4, <1>5 DEF B!Patched, B!Rows, B!RequestStates
<1>7. /\ labelling'[r] = new /\ \A s \in Labelling \ {r} : labelling'[s] = labelling[s]
      /\ \A s \in Labelling \ {r} : \A kind : B!Done(s, kind)' => B!Done(s, kind)
      /\ \A s \in Labelling : \A id, kind, other :
            labelling[s].pc = "ok" /\ Undone(s, id, kind, other) => Undone(s, id, kind, other)'
      /\ \A p \in Labelling : r \notin labelling[p].before
  BY <1>2, LabelTurns
<1>8. \A kind : B!Done(r, kind)' <=> new.kind = kind
  BY <1>2, <1>7 DEF B!Done
<1>9. \A a, b \in labels : a.id = b.id => a = b
  BY DEF LabelInv
<1>10. \A l \in labels : l.id # row.id => ColumnRight(l)'
  BY <1>2, <1>5, ColumnsStay
\* The column set, and the one written back.
<1>11. ASSUME NEW s \in Labelling, labelling'[s].label = put.id,
              B!Done(s, "rename")', put.name # labelling'[s].name
       PROVE  Undone(s, put.id, "rename", "recolor")'
  <2>1. s # r
    BY <1>6, <1>7, <1>8, <1>11
  <2>2. labelling'[s] = labelling[s] /\ B!Done(s, "rename") /\ labelling[s].pc = "ok"
    BY <1>7, <1>11, <2>1 DEF B!Done
  <2>3. CASE new.kind = "rename"
    BY <1>2, <1>5, <1>6, <1>7, <2>1, <2>2, <2>3 DEF Undone, B!Later
  <2>4. CASE new.kind = "recolor" /\ s \notin new.before
    <3>1. B!Overlap(r, s)'
      BY <1>7, <2>2, <2>4 DEF B!Overlap
    <3>. QED
      BY <1>5, <1>6, <1>7, <1>8, <2>4, <3>1 DEF Undone
  <2>5. CASE new.kind = "recolor" /\ s \in new.before
    <3>1. Undone(s, row.id, "rename", "recolor")
      BY <1>1, <1>2, <1>3, <1>6, <1>11, <2>2, <2>5 DEF LabelRight
    <3>. QED
      BY <1>6, <1>7, <2>2, <3>1
  <2>. QED
    BY <1>1, <1>2, <2>3, <2>4, <2>5
<1>12. ASSUME NEW s \in Labelling, labelling'[s].label = put.id,
              B!Done(s, "recolor")', put.color # s
       PROVE  Undone(s, put.id, "recolor", "rename")'
  <2>1. s # r
    BY <1>6, <1>7, <1>8, <1>12
  <2>2. labelling'[s] = labelling[s] /\ B!Done(s, "recolor") /\ labelling[s].pc = "ok"
    BY <1>7, <1>12, <2>1 DEF B!Done
  <2>3. CASE new.kind = "recolor"
    BY <1>2, <1>5, <1>6, <1>7, <2>1, <2>2, <2>3 DEF Undone, B!Later
  <2>4. CASE new.kind = "rename" /\ s \notin new.before
    <3>1. B!Overlap(r, s)'
      BY <1>7, <2>2, <2>4 DEF B!Overlap
    <3>. QED
      BY <1>5, <1>6, <1>7, <1>8, <2>4, <3>1 DEF Undone
  <2>5. CASE new.kind = "rename" /\ s \in new.before
    <3>1. Undone(s, row.id, "recolor", "rename")
      BY <1>1, <1>2, <1>3, <1>6, <1>12, <2>2, <2>5 DEF LabelRight
    <3>. QED
      BY <1>6, <1>7, <2>2, <3>1
  <2>. QED
    BY <1>1, <1>2, <2>3, <2>4, <2>5
<1>13. ColumnRight(put)'
  BY <1>11, <1>12 DEF ColumnRight
<1>14. /\ labels' \subseteq B!Rows /\ B!LabelIds' = B!LabelIds
       /\ \A l \in labels' : ColumnRight(l)'
       /\ \A a, b \in labels' : a.id = b.id => a = b
  <2>1. CASE {l \in labels : l.id = row.id} = {}
    BY <1>1, <1>3, <1>9, <1>10, <2>1 DEF B!LabelIds
  <2>2. CASE {l \in labels : l.id = row.id} # {}
    <3>1. labels' = {l \in labels : l.id # row.id} \cup {put}
      BY <1>3, <1>4, <2>2
    <3>. QED
      BY <1>1, <1>6, <1>9, <1>10, <1>13, <2>2, <3>1 DEF B!LabelIds
  <2>. QED
    BY <2>1, <2>2
<1>15. \A l \in labels' : l.id \in B!LabelIds \cup {r}
  BY <1>14, Zenon DEF B!LabelIds
<1>16. \A k \in links' : k.label \in B!LabelIds'
  BY <1>1, <1>14 DEF LabelInv
<1>. QED
  BY <1>1, <1>2, <1>14, <1>15, <1>16, LabelCommits

LEMMA LabelsStep == LabelInv /\ [B!Next]_labelVars => LabelInv'
<1>1. ASSUME LabelInv, UNCHANGED labelVars PROVE LabelInv'
  <2>1. labels' = labels /\ links' = links /\ labelling' = labelling
    BY <1>1 DEF labelVars
  <2>2. ASSUME NEW p \in Labelling PROVE LabelRight(p, labelling[p])'
    <3>1. PICK q : q = labelling'[p]
      OBVIOUS
    <3>2. LabelRight(p, q)
      BY <1>1, <2>1, <3>1 DEF LabelInv
    <3>3. LabelRight(p, q)'
      BY <2>1, <3>2 DEF LabelRight, B!Done, Undone, B!Later, B!Overlap, B!Ended
    <3>. QED
      BY <3>1, <3>3, LabelNamed
  <2>3. B!LabelIds' = B!LabelIds
    BY <2>1 DEF B!LabelIds
  <2>4. \A s, k : B!Done(s, k)' <=> B!Done(s, k)
    BY <2>1 DEF B!Done
  <2>5. \A s : (AssignRight(s)' <=> AssignRight(s)) /\ (RemoveRight(s)' <=> RemoveRight(s))
    BY <2>1, <2>4 DEF AssignRight, RemoveRight, TakenAway, AssignedAgain, B!Later, B!Removed
  <2>6. \A l : ColumnRight(l)' <=> ColumnRight(l)
    BY <2>1, <2>4 DEF ColumnRight, Undone, B!Later, B!Overlap
  <2>. QED
    BY <1>1, <2>1, <2>2, <2>3, <2>4, <2>5, <2>6 DEF LabelInv, B!TypeOK
<1>. QED
  BY <1>1, LabelBegins, LabelFinds, LabelsLinked, LabelWritten DEF B!Next

(***************************************************************************)
(* Label changes and assignments answered ok hold, for any number of       *)
(* requests, labels and pull requests: a column written back undoes only   *)
(* requests that overlapped (labels.py:241), links count in their order,   *)
(* and nothing of a deleted label comes back (labels.py:302).              *)
(***************************************************************************)
THEOREM LabelsAlwaysHold == AllSpec => []LabelsHold
<1>1. AllInit => LabelInv
  BY LabelsInit DEF AllInit
<1>2. LabelInv /\ [AllNext]_allVars => LabelInv'
  <2>1. [AllNext]_allVars => [B!Next]_labelVars
    BY DEF AllNext, Others, allVars
  <2>. QED
    BY <2>1, LabelsStep
<1>. QED
  BY <1>1, <1>2, LabelsSafe, PTL DEF AllSpec

-----------------------------------------------------------------------------
(***************************************************************************)
(* Marks.  A row is of the request that inserted it, which was answered on *)
(* and had not ended when a request that does not see the row looked; and  *)
(* of two stars that are flushed and not committed, one has found a row.   *)
(***************************************************************************)
\* The rows a request in state q is about, and another about the same mark
\* that was answered and had not ended before r.
OwnOf(q) == {row \in marks : row.table = M!Table(q.kind) /\ row.repo = q.repo}

Answered(r, q, answer) ==
    \E x \in Marking \ {r} : /\ M!Table(marking[x].kind) = M!Table(q.kind) /\ marking[x].repo = q.repo
                             /\ marking[x].pc = answer /\ x \notin q.before

KeptOut(r, q) ==
    /\ q.kind = "toggle"
    /\ \E x \in Marking : /\ marking[x].kind = "toggle" /\ marking[x].pc = "on"
                          /\ marking[x].repo # q.repo /\ r \notin marking[x].before

\* A star that inserts, of a request in state q.
Inserting(q) == q.pc = "flushed" /\ q.seen = {}

\* What holds of request r when its state is q.
MarkRight(r, q) ==
    /\ q.before \subseteq M!Ended \ {r}
    /\ q.count <= 1
    /\ \A s \in q.seen : s.table = M!Table(q.kind) /\ s.repo = q.repo
    /\ q.pc = "flushed" => q.kind = "star"
    /\ q.pc \in {"writing", "flushed"} /\ q.kind = "star" /\ q.seen # {} =>
          OwnOf(q) # {} \/ Answered(r, q, "off")
    /\ q.pc = "writing" /\ q.kind \in {"unstar", "toggle"} =>
          \A row \in OwnOf(q) \ q.seen : row.id \notin q.before
    /\ Inserting(q) => OwnOf(q) = {}
    /\ q.pc = "on" => OwnOf(q) # {} \/ Answered(r, q, "off") \/ KeptOut(r, q)
    /\ q.pc = "off" => OwnOf(q) = {} \/ Answered(r, q, "on")

OfItsRequest(row) ==
    /\ marking[row.id].pc = "on"
    /\ M!Table(marking[row.id].kind) = row.table /\ marking[row.id].repo = row.repo

\* The keys of the tables.
OneKey(a, b) == a.table = b.table /\ (a.repo = b.repo \/ a.table = "reactions")

MarkInv ==
    /\ M!TypeOK
    /\ \A row \in marks : OfItsRequest(row)
    /\ \A a, b \in marks : OneKey(a, b) => a = b
    /\ \A p, q \in Marking :
          Inserting(marking[p]) /\ Inserting(marking[q]) /\ marking[p].repo = marking[q].repo => p = q
    /\ \A r \in Marking : MarkRight(r, marking[r])

LEMMA MarksSafe == MarkInv => MarksHold
<1>. SUFFICES ASSUME MarkInv PROVE MarksHold
  OBVIOUS
<1>1. \A a, b \in marks : a.table = b.table /\ a.repo = b.repo => a = b
  BY DEF MarkInv, OneKey
<1>2. ASSUME NEW r \in Marking
      PROVE  /\ marking[r].pc = "on" => M!Own(r) # {} \/ M!NotBefore(r, "off") \/ M!Elsewhere(r)
             /\ marking[r].pc = "off" => M!Own(r) = {} \/ M!NotBefore(r, "on")
             /\ marking[r].count <= 1
  <2>1. M!Own(r) = OwnOf(marking[r])
    BY DEF M!Own, OwnOf
  <2>2. \A answer : Answered(r, marking[r], answer) => M!NotBefore(r, answer)
    BY DEF Answered, M!NotBefore, M!SameMark
  <2>3. KeptOut(r, marking[r]) => M!Elsewhere(r)
    BY DEF KeptOut, M!Elsewhere
  <2>4. MarkRight(r, marking[r])
    BY DEF MarkInv
  <2>. QED
    BY <2>1, <2>2, <2>3, <2>4 DEF MarkRight
<1>. QED
  BY <1>1, <1>2 DEF MarksHold, M!MarksHold

LEMMA NoMarkTyped == M!NoRequest \in M!RequestStates
<1>1. (CHOOSE x \in Places : TRUE) \in Places
  BY PlacesOK DEF PlacesOK
<1>. QED
  BY <1>1 DEF M!NoRequest, M!RequestStates, M!Kinds

LEMMA MarksInit == M!Init => MarkInv
<1>. SUFFICES ASSUME M!Init PROVE MarkInv
  OBVIOUS
<1>1. \A r \in Marking : marking[r] = M!NoRequest
  BY DEF M!Init
<1>2. M!TypeOK
  BY NoMarkTyped DEF M!TypeOK, M!Init
<1>3. /\ M!NoRequest.pc = "idle" /\ M!NoRequest.before = {} /\ M!NoRequest.seen = {}
      /\ M!NoRequest.count = 0
  BY DEF M!NoRequest
<1>4. \A r \in Marking : MarkRight(r, marking[r])
  BY <1>1, <1>3 DEF MarkRight, Inserting
<1>. QED
  BY <1>1, <1>2, <1>3, <1>4 DEF M!Init, MarkInv, Inserting

(***************************************************************************)
(* A request moves: rows go by a request about them that is answered off,  *)
(* and come by one that is answered on.                                    *)
(***************************************************************************)
Goes(r, new) ==
    /\ marking' = [marking EXCEPT ![r] = new]
    /\ new \in M!RequestStates /\ marking[r].pc \notin {"on", "off", "error"}

LEMMA MarkRightKept ==
    ASSUME MarkInv, NEW r \in Marking, NEW new, Goes(r, new),
           \A x \in marks \ marks' : /\ new.pc = "off" /\ x.table = M!Table(new.kind)
                                     /\ x.repo = new.repo,
           \A x \in marks' \ marks : /\ new.pc = "on" /\ x.table = M!Table(new.kind)
                                     /\ x.repo = new.repo /\ x.id = r,
           NEW p \in Marking, NEW q \in M!RequestStates, MarkRight(p, q), p # r \/ marks' = marks,
           Inserting(q) => \A x \in marks' \ marks : x.table # M!Table(q.kind) \/ x.repo # q.repo
    PROVE  MarkRight(p, q)'
<1>1. marking'[r] = new /\ \A s \in Marking \ {r} : marking'[s] = marking[s]
  BY DEF Goes, MarkInv, M!TypeOK
<1>2. M!Ended \subseteq M!Ended' /\ r \notin M!Ended
  BY <1>1 DEF M!Ended, Goes
<1>3. q.before \subseteq M!Ended' \ {p} /\ r \notin q.before
  BY <1>2 DEF MarkRight
<1>4. \A answer \in {"on", "off"} : Answered(p, q, answer) => Answered(p, q, answer)'
  BY <1>1 DEF Answered, Goes
<1>5. KeptOut(p, q) => KeptOut(p, q)'
  BY <1>1 DEF KeptOut, Goes
<1>6. ASSUME p # r, NEW answer, new.pc = answer, M!Table(new.kind) = M!Table(q.kind), new.repo = q.repo
      PROVE  Answered(p, q, answer)'
  BY <1>1, <1>3, <1>6 DEF Answered
<1>7. OwnOf(q)' = {row \in marks' : row.table = M!Table(q.kind) /\ row.repo = q.repo}
  BY DEF OwnOf
<1>8. OwnOf(q) # {} => OwnOf(q)' # {} \/ Answered(p, q, "off")'
  <2>. SUFFICES ASSUME NEW x \in OwnOf(q), x \notin OwnOf(q)' PROVE Answered(p, q, "off")'
    OBVIOUS
  <2>1. x \in marks \ marks' /\ x.table = M!Table(q.kind) /\ x.repo = q.repo
    BY <1>7 DEF OwnOf
  <2>. QED
    BY <1>6, <2>1
<1>9. OwnOf(q) = {} => OwnOf(q)' = {} \/ Answered(p, q, "on")'
  <2>. SUFFICES ASSUME OwnOf(q) = {}, NEW x \in OwnOf(q)' PROVE Answered(p, q, "on")'
    OBVIOUS
  <2>1. x \in marks' \ marks /\ x.table = M!Table(q.kind) /\ x.repo = q.repo
    BY <1>7 DEF OwnOf
  <2>. QED
    BY <1>6, <2>1
<1>10. ASSUME q.pc = "writing", q.kind \in {"unstar", "toggle"}, NEW row \in OwnOf(q)' \ q.seen
       PROVE  row.id \notin q.before
  <2>1. row \in marks' /\ row.table = M!Table(q.kind) /\ row.repo = q.repo /\ row \notin q.seen
    BY <1>7, <1>10
  <2>2. CASE row \in marks
    BY <1>10, <2>1, <2>2 DEF MarkRight, OwnOf
  <2>3. CASE row \notin marks
    BY <1>3, <2>1, <2>3
  <2>. QED
    BY <2>2, <2>3
<1>11. Inserting(q) => OwnOf(q)' = {}
  <2>. SUFFICES ASSUME Inserting(q), NEW x \in OwnOf(q)' PROVE FALSE
    OBVIOUS
  <2>1. x \in marks' /\ x.table = M!Table(q.kind) /\ x.repo = q.repo /\ x \notin marks
    BY <1>7 DEF MarkRight, OwnOf
  <2>. QED
    BY <2>1
<1>12. q.pc = "on" => OwnOf(q)' # {} \/ Answered(p, q, "off")' \/ KeptOut(p, q)'
  BY <1>4, <1>5, <1>8 DEF MarkRight
<1>13. q.pc = "off" => OwnOf(q)' = {} \/ Answered(p, q, "on")'
  BY <1>4, <1>9 DEF MarkRight
<1>14. q.pc \in {"writing", "flushed"} /\ q.kind = "star" /\ q.seen # {} =>
           OwnOf(q)' # {} \/ Answered(p, q, "off")'
  BY <1>4, <1>8 DEF MarkRight
<1>15. /\ q.count <= 1 /\ q.pc = "flushed" => q.kind = "star"
       /\ \A s \in q.seen : s.table = M!Table(q.kind) /\ s.repo = q.repo
  BY DEF MarkRight
<1>. QED
  BY <1>3, <1>10, <1>11, <1>12, <1>13, <1>14, <1>15 DEF MarkRight, Inserting

LEMMA MarkNamed ==
    ASSUME NEW p, NEW q, q = marking'[p], MarkRight(p, q)'
    PROVE  MarkRight(p, marking[p])'
BY DEF MarkRight

LEMMA MarkMoves ==
    ASSUME MarkInv, NEW r \in Marking, NEW new, Goes(r, new), MarkRight(r, new)',
           \A x \in marks \ marks' : /\ new.pc = "off" /\ x.table = M!Table(new.kind)
                                     /\ x.repo = new.repo,
           \A x \in marks' \ marks : /\ new.pc = "on" /\ x.table = M!Table(new.kind)
                                     /\ x.repo = new.repo /\ x.id = r /\ x \in M!Rows
                                     /\ \A a \in marks : ~OneKey(a, x)
                                     /\ \A p \in Marking \ {r} : Inserting(marking[p]) =>
                                           x.table # "stars" \/ x.repo # marking[p].repo,
           \A a, b \in marks' \ marks : a = b,
           Inserting(new) => \A p \in Marking : Inserting(marking[p]) => marking[p].repo # new.repo
    PROVE  MarkInv'
<1>1. marking'[r] = new /\ \A s \in Marking \ {r} : marking'[s] = marking[s]
  BY DEF Goes, MarkInv, M!TypeOK
<1>2. M!TypeOK'
  BY DEF Goes, MarkInv, M!TypeOK
<1>3. \A row \in marks' : OfItsRequest(row)'
  <2>1. ASSUME NEW row \in marks PROVE OfItsRequest(row)'
    <3>1. row.id \in Marking /\ OfItsRequest(row)
      BY DEF MarkInv, M!TypeOK, M!Rows
    <3>. QED
      BY <1>1, <3>1 DEF OfItsRequest, Goes
  <2>2. \A row \in marks' \ marks : OfItsRequest(row)'
    BY <1>1 DEF OfItsRequest
  <2>. QED
    BY <2>1, <2>2
<1>4. \A a, b \in marks' : OneKey(a, b) => a = b
  <2>1. \A a, b \in marks : OneKey(a, b) => a = b
    BY DEF MarkInv
  <2>2. \A a, b : OneKey(a, b) => OneKey(b, a)
    BY DEF OneKey
  <2>. QED
    BY <2>1, <2>2
<1>5. \A p, q \in Marking :
         Inserting(marking'[p]) /\ Inserting(marking'[q]) /\ marking'[p].repo = marking'[q].repo => p = q
  <2>1. \A p, q \in Marking :
           Inserting(marking[p]) /\ Inserting(marking[q]) /\ marking[p].repo = marking[q].repo => p = q
    BY DEF MarkInv
  <2>2. \A p \in Marking : marking'[p] = new \/ marking'[p] = marking[p]
    BY <1>1
  <2>. QED
    BY <1>1, <2>1, <2>2
<1>6. ASSUME NEW p \in Marking PROVE MarkRight(p, marking[p])'
  <2>1. CASE p = r
    BY <1>1, <2>1, MarkNamed
  <2>2. CASE p # r
    <3>1. PICK q : q = marking[p]
      OBVIOUS
    <3>2. /\ MarkRight(p, q) /\ q \in M!RequestStates /\ q = marking'[p]
          /\ Inserting(q) => q.kind = "star"
      BY <1>1, <2>2, <3>1 DEF MarkInv, M!TypeOK, MarkRight, Inserting
    <3>3. Inserting(q) => M!Table(q.kind) = "stars"
      BY <3>2 DEF M!Table
    <3>4. Inserting(q) => \A x \in marks' \ marks : x.table # M!Table(q.kind) \/ x.repo # q.repo
      BY <2>2, <3>1, <3>3
    <3>5. MarkRight(p, q)'
      BY <2>2, <3>2, <3>4, MarkRightKept
    <3>. QED
      BY <3>2, <3>5, MarkNamed
  <2>. QED
    BY <2>1, <2>2
<1>. QED
  BY <1>2, <1>3, <1>4, <1>5, <1>6 DEF MarkInv, Inserting, OneKey

\* A step that leaves the rows alone.
LEMMA MarkQuiet ==
    ASSUME MarkInv, NEW r \in Marking, NEW new, Goes(r, new), MarkRight(r, new), marks' = marks,
           Inserting(new) => \A p \in Marking : Inserting(marking[p]) => marking[p].repo # new.repo
    PROVE  MarkInv'
<1>1. new \in M!RequestStates
  BY DEF Goes
<1>2. MarkRight(r, new)'
  BY <1>1, MarkRightKept
<1>. QED
  BY <1>2, MarkMoves

LEMMA MarkLooks ==
    ASSUME MarkInv, NEW r \in Marking, M!Begin(r) \/ M!Find(r)
    PROVE  MarkInv'
<1>1. /\ marking \in [Marking -> M!RequestStates] /\ marking[r] \in M!RequestStates
      /\ marks \subseteq M!Rows /\ MarkRight(r, marking[r])
  BY DEF MarkInv, M!TypeOK
<1>2. CASE M!Begin(r)
  <2>1. PICK kind \in M!Kinds, x \in Places :
           marking' = [marking EXCEPT ![r] = [M!NoRequest EXCEPT
                         !.kind = kind, !.repo = x, !.before = M!Ended,
                         !.pc = IF kind \in {"watch", "unwatch"} THEN "writing" ELSE "looking"]]
    BY <1>2, Zenon DEF M!Begin
  <2>2. PICK pc \in {"writing", "looking"} :
           pc = IF kind \in {"watch", "unwatch"} THEN "writing" ELSE "looking"
    OBVIOUS
  <2>3. PICK new : new = [M!NoRequest EXCEPT !.kind = kind, !.repo = x, !.before = M!Ended, !.pc = pc]
    OBVIOUS
  <2>4. M!Ended \subseteq Marking /\ M!NoRequest.seen = {} /\ M!NoRequest.count = 0
    BY DEF M!Ended, M!NoRequest
  <2>5. /\ new \in M!RequestStates /\ new.kind = kind /\ new.before = M!Ended /\ new.pc = pc
        /\ new.seen = {} /\ new.count = 0
    BY <2>3, <2>4, NoMarkTyped, Zenon DEF M!RequestStates
  <2>6. /\ marking' = [marking EXCEPT ![r] = new] /\ marks' = marks /\ marking[r].pc = "idle"
    BY <1>2, <2>1, <2>2, <2>3, Zenon DEF M!Begin, M!IsNext
  <2>7. r \notin M!Ended
    BY <2>6 DEF M!Ended
  <2>8. MarkRight(r, new)
    BY <2>2, <2>5, <2>7 DEF MarkRight, Inserting
  <2>9. ~Inserting(new)
    BY <2>5 DEF Inserting
  <2>. QED
    BY <2>5, <2>6, <2>8, <2>9, MarkQuiet, Zenon DEF Goes
<1>3. CASE M!Find(r)
  <2>1. PICK seen : seen = M!Own(r)
    OBVIOUS
  <2>2. seen \subseteq M!Rows /\ seen = OwnOf(marking[r])
    BY <1>1, <2>1 DEF M!Own, OwnOf
  <2>3. PICK new : new = [marking[r] EXCEPT !.pc = "writing", !.seen = seen]
    OBVIOUS
  <2>4. /\ new \in M!RequestStates /\ new.kind = marking[r].kind /\ new.before = marking[r].before
        /\ new.pc = "writing" /\ new.seen = seen /\ new.count = marking[r].count
        /\ new.repo = marking[r].repo
    BY <1>1, <2>2, <2>3, Zenon DEF M!RequestStates
  <2>5. marking' = [marking EXCEPT ![r] = new] /\ marks' = marks /\ marking[r].pc = "looking"
    BY <1>3, <2>1, <2>3, Zenon DEF M!Find
  <2>6. OwnOf(new) = seen /\ \A s \in seen : s.table = M!Table(new.kind) /\ s.repo = new.repo
    BY <2>2, <2>4 DEF OwnOf
  <2>7. MarkRight(r, new)
    BY <1>1, <2>4, <2>6 DEF MarkRight, Inserting
  <2>8. ~Inserting(new)
    BY <2>4 DEF Inserting
  <2>. QED
    BY <2>4, <2>5, <2>7, <2>8, MarkQuiet, Zenon DEF Goes
<1>. QED
  BY <1>2, <1>3

\* The state of a request that is answered.
LEMMA MarkAnswers ==
    ASSUME MarkInv, NEW r \in Marking, NEW pc \in {"on", "off", "error"},
           marking[r].pc \in {"looking", "writing", "flushed"}, M!Answer(r, pc)
    PROVE  \E new : /\ Goes(r, new) /\ new.pc = pc /\ new.seen = {} /\ new.kind = marking[r].kind
                    /\ new.repo = marking[r].repo /\ new.before = marking[r].before
                    /\ new.before \subseteq M!Ended /\ new.before \subseteq M!Ended' \ {r}
                    /\ new.count <= 1
<1>1. /\ marking \in [Marking -> M!RequestStates] /\ marking[r] \in M!RequestStates
      /\ marking' = [marking EXCEPT ![r].pc = pc, ![r].seen = {}] /\ MarkRight(r, marking[r])
  BY DEF MarkInv, M!TypeOK, M!Answer
<1>2. PICK new : new = [marking[r] EXCEPT !.pc = pc, !.seen = {}]
  OBVIOUS
<1>3. /\ new \in M!RequestStates /\ new.pc = pc /\ new.seen = {} /\ new.kind = marking[r].kind
      /\ new.repo = marking[r].repo /\ new.before = marking[r].before /\ new.count = marking[r].count
  BY <1>1, <1>2, Zenon DEF M!RequestStates
<1>4. marking' = [marking EXCEPT ![r] = new]
  BY <1>1, <1>2, Zenon
<1>5. M!Ended \subseteq M!Ended'
  BY <1>1 DEF M!Ended
<1>6. Goes(r, new)
  BY <1>3, <1>4 DEF Goes
<1>. QED
  BY <1>1, <1>3, <1>5, <1>6 DEF MarkRight

\* What a request answered needs to say of the mark.
LEMMA MarkAnswered ==
    ASSUME NEW r \in Marking, NEW q, q.before \subseteq M!Ended' \ {r}, q.count <= 1, q.seen = {},
           \/ q.pc = "error"
           \/ q.pc = "on" /\ (OwnOf(q)' # {} \/ Answered(r, q, "off")' \/ KeptOut(r, q)')
           \/ q.pc = "off" /\ (OwnOf(q)' = {} \/ Answered(r, q, "on")')
    PROVE  MarkRight(r, q)' /\ ~Inserting(q)
BY DEF MarkRight, Inserting

LEMMA MarkFails ==
    ASSUME MarkInv, NEW r \in Marking, M!Duplicate(r) \/ M!Fail(r)
    PROVE  MarkInv'
<1>1. /\ marking[r].pc \in {"looking", "writing", "flushed"} /\ M!Answer(r, "error") /\ marks' = marks
  BY DEF M!Duplicate, M!Fail, M!Writing
<1>2. PICK new : /\ Goes(r, new) /\ new.pc = "error" /\ new.seen = {} /\ new.kind = marking[r].kind
                 /\ new.repo = marking[r].repo /\ new.before = marking[r].before
                 /\ new.before \subseteq M!Ended /\ new.before \subseteq M!Ended' \ {r}
                 /\ new.count <= 1
  BY <1>1, MarkAnswers
<1>3. MarkRight(r, new)' /\ ~Inserting(new)
  BY <1>2, MarkAnswered
<1>. QED
  BY <1>1, <1>2, <1>3, MarkMoves

(***************************************************************************)
(* The inserts.                                                            *)
(***************************************************************************)
LEMMA MarkInserted ==
    ASSUME MarkInv, NEW r \in Marking, NEW new, Goes(r, new), new.pc = "on", new.seen = {},
           new.before \subseteq M!Ended' \ {r}, new.count <= 1, M!Table(new.kind) \in M!Tables,
           marks' = marks \cup {[id |-> r, table |-> M!Table(new.kind), repo |-> new.repo]},
           \A a \in marks : ~OneKey(a, [id |-> r, table |-> M!Table(new.kind), repo |-> new.repo]),
           \A p \in Marking \ {r} : Inserting(marking[p]) =>
               M!Table(new.kind) # "stars" \/ new.repo # marking[p].repo
    PROVE  MarkInv'
<1>1. PICK row : row = [id |-> r, table |-> M!Table(new.kind), repo |-> new.repo]
  OBVIOUS
<1>2. /\ row \in M!Rows /\ row.id = r /\ row.table = M!Table(new.kind) /\ row.repo = new.repo
      /\ marks' = marks \cup {row} /\ \A a \in marks : ~OneKey(a, row)
  BY <1>1 DEF M!Rows, Goes, M!RequestStates
<1>3. row \in OwnOf(new)'
  BY <1>2 DEF OwnOf
<1>4. MarkRight(r, new)' /\ ~Inserting(new)
  BY <1>3, MarkAnswered
<1>5. \A x \in marks' \ marks : x = row
  BY <1>2
<1>6. \A x \in marks' \ marks : /\ new.pc = "on" /\ x.table = M!Table(new.kind)
                                /\ x.repo = new.repo /\ x.id = r /\ x \in M!Rows
                                /\ \A a \in marks : ~OneKey(a, x)
                                /\ \A p \in Marking \ {r} : Inserting(marking[p]) =>
                                      x.table # "stars" \/ x.repo # marking[p].repo
  BY <1>2, <1>5
<1>. QED
  BY <1>2, <1>4, <1>5, <1>6, MarkMoves

LEMMA MarkAdds ==
    ASSUME MarkInv, NEW r \in Marking, M!Add(r)
    PROVE  MarkInv'
<1>1. /\ marking[r].pc = "writing" /\ marking[r].kind \in {"watch", "toggle"} /\ M!Answer(r, "on")
      /\ marking[r] \in M!RequestStates /\ marks \subseteq M!Rows
      /\ marks' = IF M!Colliding(r) = {} THEN marks \cup {M!NewRow(r)} ELSE marks
  BY DEF M!Add, M!Writing, MarkInv, M!TypeOK
<1>2. PICK new : /\ Goes(r, new) /\ new.pc = "on" /\ new.seen = {} /\ new.kind = marking[r].kind
                 /\ new.repo = marking[r].repo /\ new.before = marking[r].before
                 /\ new.before \subseteq M!Ended /\ new.before \subseteq M!Ended' \ {r}
                 /\ new.count <= 1
  BY <1>1, MarkAnswers
<1>3. /\ M!Table(new.kind) = IF new.kind = "watch" THEN "watches" ELSE "reactions"
      /\ \A kind \in M!Kinds : M!Table(kind) = "reactions" => kind = "toggle"
  BY <1>1, <1>2 DEF M!Table, M!Kinds
<1>4. M!Own(r) = OwnOf(new)
  BY <1>2 DEF M!Own, OwnOf
<1>5. CASE M!Colliding(r) = {}
  <2>1. marks' = marks \cup {[id |-> r, table |-> M!Table(new.kind), repo |-> new.repo]}
    BY <1>1, <1>2, <1>5 DEF M!NewRow
  <2>2. PICK row : row = [id |-> r, table |-> M!Table(new.kind), repo |-> new.repo]
    BY Zenon
  <2>3. \A a \in marks : ~OneKey(a, row)
    <3>1. row.table = M!Table(new.kind) /\ row.repo = new.repo
      BY <2>2
    <3>2. CASE new.kind = "watch"
      <4>1. OwnOf(new) = {} /\ row.table = "watches"
        BY <1>2, <1>3, <1>4, <1>5, <3>1, <3>2 DEF M!Colliding
      <4>2. \A a \in marks : ~(a.table = row.table /\ a.repo = row.repo)
        BY <3>1, <4>1 DEF OwnOf
      <4>. QED
        BY <4>1, <4>2 DEF OneKey
    <3>3. CASE new.kind = "toggle"
      <4>1. row.table = "reactions" /\ \A a \in marks : a.table # "reactions"
        BY <1>2, <1>3, <1>5, <3>1, <3>3 DEF M!Colliding
      <4>. QED
        BY <4>1 DEF OneKey
    <3>. QED
      BY <1>1, <1>2, <3>2, <3>3
  <2>4. M!Table(new.kind) \in M!Tables /\ M!Table(new.kind) # "stars"
    BY <1>3 DEF M!Tables
  <2>. QED
    BY <1>2, <2>1, <2>2, <2>3, <2>4, MarkInserted
<1>6. CASE M!Colliding(r) # {}
  <2>1. marks' = marks
    BY <1>1, <1>6
  <2>2. OwnOf(new) # {} \/ KeptOut(r, new)'
    <3>1. PICK x \in M!Colliding(r) : TRUE
      BY <1>6
    <3>2. CASE new.kind = "watch"
      BY <1>2, <1>4, <1>6, <3>2 DEF M!Colliding
    <3>3. CASE new.kind = "toggle" /\ x.repo = new.repo
      BY <1>2, <1>3, <3>1, <3>3 DEF M!Colliding, OwnOf
    <3>4. CASE new.kind = "toggle" /\ x.repo # new.repo
      <4>1. x \in marks /\ x.table = "reactions"
        BY <1>2, <3>1, <3>4 DEF M!Colliding
      <4>2. x.id \in Marking /\ OfItsRequest(x) /\ marking[x.id] \in M!RequestStates
        BY <4>1 DEF MarkInv, M!TypeOK, M!Rows
      <4>3. marking[x.id].pc = "on" /\ marking[x.id].kind = "toggle" /\ marking[x.id].repo # new.repo
        BY <1>3, <3>4, <4>1, <4>2 DEF OfItsRequest, M!RequestStates
      <4>4. x.id # r /\ marking'[x.id] = marking[x.id]
        BY <1>1, <1>2, <4>2, <4>3 DEF Goes, MarkInv, M!TypeOK
      <4>5. r \notin marking[x.id].before
        <5>1. MarkRight(x.id, marking[x.id])
          BY <4>2 DEF MarkInv
        <5>. QED
          BY <1>1, <5>1 DEF MarkRight, M!Ended
      <4>. QED
        BY <3>4, <4>2, <4>3, <4>4, <4>5 DEF KeptOut
    <3>. QED
      BY <1>1, <1>2, <3>2, <3>3, <3>4
  <2>3. OwnOf(new)' = OwnOf(new)
    BY <2>1 DEF OwnOf
  <2>4. MarkRight(r, new)' /\ ~Inserting(new)
    BY <1>2, <2>2, <2>3, MarkAnswered
  <2>. QED
    BY <1>2, <2>1, <2>4, MarkMoves
<1>. QED
  BY <1>5, <1>6

LEMMA StarFlushes ==
    ASSUME MarkInv, NEW r \in Marking, M!FlushStar(r)
    PROVE  MarkInv'
<1>1. /\ marking \in [Marking -> M!RequestStates] /\ marking[r] \in M!RequestStates
      /\ marking[r].pc = "writing" /\ marking[r].kind = "star" /\ marks' = marks
      /\ MarkRight(r, marking[r])
      /\ marking[r].seen = {} =>
            M!Own(r) = {} /\ \A q \in Marking : M!Flushed(q) => marking[q].repo # marking[r].repo
  BY DEF M!FlushStar, M!Writing, MarkInv, M!TypeOK
<1>2. PICK rows : rows = M!Own(r) \cup (IF marking[r].seen = {} THEN {M!NewRow(r)} ELSE {})
  BY Zenon
<1>3. M!Own(r) = {} \/ \E x : M!Own(r) = {x}
  <2>1. \A a, b \in M!Own(r) : a = b
    BY DEF M!Own, MarkInv, OneKey
  <2>. QED
    BY <2>1
<1>4. rows = {} \/ \E x : rows = {x}
  BY <1>1, <1>2, <1>3, Zenon
<1>5. M!Cardinality(rows) \in {0, 1}
  <2>1. M!Cardinality(rows) = Cardinality(rows)
    BY DEF M!Cardinality, Cardinality
  <2>. QED
    BY <1>4, <2>1, FS_EmptySet, FS_Singleton, Zenon
<1>6. PICK count \in {0, 1} : count = M!Cardinality(rows)
  BY <1>5
<1>7. PICK new : new = [marking[r] EXCEPT !.pc = "flushed", !.count = count]
  OBVIOUS
<1>8. /\ new \in M!RequestStates /\ new.kind = "star" /\ new.before = marking[r].before
      /\ new.pc = "flushed" /\ new.seen = marking[r].seen /\ new.count = count
      /\ new.repo = marking[r].repo
  <2>1. marking[r] \in M!RequestStates /\ marking[r].kind = "star" /\ count \in Nat
    BY <1>1, <1>6
  <2>. QED
    BY <1>7, <2>1, Zenon DEF M!RequestStates
<1>9. marking' = [marking EXCEPT ![r] = new]
  BY <1>1, <1>2, <1>6, <1>7, Zenon DEF M!FlushStar
<1>10. OwnOf(new) = M!Own(r) /\ OwnOf(new) = OwnOf(marking[r])
  BY <1>1, <1>8 DEF OwnOf, M!Own
<1>11. MarkRight(r, new)
  <2>1. \A answer : Answered(r, marking[r], answer) => Answered(r, new, answer)
    BY <1>1, <1>8 DEF Answered
  <2>2. new.count <= 1
    BY <1>8
  <2>. QED
    BY <1>1, <1>8, <1>10, <2>1, <2>2 DEF MarkRight, Inserting
<1>12. Inserting(new) => \A p \in Marking : Inserting(marking[p]) => marking[p].repo # new.repo
  BY <1>1, <1>8 DEF Inserting, M!Flushed
<1>. QED
  BY <1>1, <1>8, <1>9, <1>11, <1>12, MarkQuiet, Zenon DEF Goes

LEMMA StarCommits ==
    ASSUME MarkInv, NEW r \in Marking, M!CommitStar(r)
    PROVE  MarkInv'
<1>1. /\ marking[r].pc = "flushed" /\ M!Answer(r, "on") /\ marking[r] \in M!RequestStates
      /\ MarkRight(r, marking[r])
      /\ marks' = IF marking[r].seen = {} THEN marks \cup {M!NewRow(r)} ELSE marks
  BY DEF M!CommitStar, MarkInv, M!TypeOK
<1>2. PICK new : /\ Goes(r, new) /\ new.pc = "on" /\ new.seen = {} /\ new.kind = marking[r].kind
                 /\ new.repo = marking[r].repo /\ new.before = marking[r].before
                 /\ new.before \subseteq M!Ended /\ new.before \subseteq M!Ended' \ {r}
                 /\ new.count <= 1
  BY <1>1, MarkAnswers
<1>3. marking[r].kind = "star" /\ M!Table("star") = "stars"
  BY <1>1 DEF MarkRight, M!Table
<1>4. OwnOf(new) = OwnOf(marking[r])
  BY <1>2 DEF OwnOf
<1>5. CASE marking[r].seen = {}
  <2>1. Inserting(marking[r])
    BY <1>1, <1>5 DEF Inserting
  <2>2. marks' = marks \cup {[id |-> r, table |-> M!Table(new.kind), repo |-> new.repo]}
    BY <1>1, <1>2, <1>5 DEF M!NewRow
  <2>3. PICK row : row = [id |-> r, table |-> M!Table(new.kind), repo |-> new.repo]
    BY Zenon
  <2>4. \A a \in marks : ~OneKey(a, row)
    BY <1>1, <1>2, <1>3, <1>4, <2>1, <2>3 DEF MarkRight, OneKey, OwnOf
  <2>5. \A p \in Marking \ {r} : Inserting(marking[p]) => new.repo # marking[p].repo
    BY <1>2, <2>1 DEF MarkInv
  <2>6. M!Table(new.kind) \in M!Tables
    BY <1>2, <1>3 DEF M!Tables
  <2>. QED
    BY <1>2, <2>2, <2>3, <2>4, <2>5, <2>6, MarkInserted
<1>6. CASE marking[r].seen # {}
  <2>1. marks' = marks /\ (OwnOf(marking[r]) # {} \/ Answered(r, marking[r], "off"))
    BY <1>1, <1>3, <1>6 DEF MarkRight
  <2>2. OwnOf(new)' = OwnOf(new)
    BY <2>1 DEF OwnOf
  <2>3. Answered(r, marking[r], "off") => Answered(r, new, "off")'
    <3>1. \A s \in Marking \ {r} : marking'[s] = marking[s]
      BY <1>2 DEF Goes, MarkInv, M!TypeOK
    <3>. QED
      BY <1>2, <3>1 DEF Answered
  <2>4. MarkRight(r, new)' /\ ~Inserting(new)
    BY <1>2, <1>4, <2>1, <2>2, <2>3, MarkAnswered
  <2>. QED
    BY <1>2, <2>1, <2>4, MarkMoves
<1>. QED
  BY <1>5, <1>6

(***************************************************************************)
(* The deletions.                                                          *)
(***************************************************************************)
LEMMA MarkDeletes ==
    ASSUME MarkInv, NEW r \in Marking, M!Unwatch(r) \/ M!DeleteSeen(r)
    PROVE  MarkInv'
<1>1. /\ marking[r].pc = "writing" /\ M!Answer(r, "off") /\ marking[r] \in M!RequestStates
      /\ MarkRight(r, marking[r])
  BY DEF M!Unwatch, M!DeleteSeen, M!Writing, MarkInv, M!TypeOK
<1>2. PICK new : /\ Goes(r, new) /\ new.pc = "off" /\ new.seen = {} /\ new.kind = marking[r].kind
                 /\ new.repo = marking[r].repo /\ new.before = marking[r].before
                 /\ new.before \subseteq M!Ended /\ new.before \subseteq M!Ended' \ {r}
                 /\ new.count <= 1
  BY <1>1, MarkAnswers
<1>3. OwnOf(new) = OwnOf(marking[r]) /\ OwnOf(new) = M!Own(r)
  BY <1>2 DEF OwnOf, M!Own
<1>4. /\ marks' \subseteq marks
      /\ \A x \in marks \ marks' : x.table = M!Table(new.kind) /\ x.repo = new.repo
      /\ OwnOf(new)' = {} \/ Answered(r, new, "on")'
  <2>1. OwnOf(new)' = {row \in marks' : row.table = M!Table(new.kind) /\ row.repo = new.repo}
    BY DEF OwnOf
  <2>2. CASE M!Unwatch(r)
    <3>1. marks' = marks \ OwnOf(new)
      BY <1>3, <2>2 DEF M!Unwatch
    <3>. QED
      BY <2>1, <3>1 DEF OwnOf
  <2>3. CASE M!DeleteSeen(r)
    <3>1. marks' = marks \ marking[r].seen /\ marking[r].kind \in {"unstar", "toggle"}
      BY <2>3 DEF M!DeleteSeen, M!Writing
    <3>2. \A x \in marks \ marks' : x.table = M!Table(new.kind) /\ x.repo = new.repo
      BY <1>1, <1>2, <3>1 DEF MarkRight
    <3>3. ASSUME NEW x \in OwnOf(new)' PROVE Answered(r, new, "on")'
      <4>1. x \in OwnOf(marking[r]) \ marking[r].seen
        BY <1>3, <2>1, <3>1, <3>3 DEF OwnOf
      <4>2. x.id \notin new.before
        BY <1>1, <1>2, <3>1, <4>1 DEF MarkRight
      <4>3. x.id \in Marking /\ OfItsRequest(x) /\ x.table = M!Table(new.kind) /\ x.repo = new.repo
        BY <1>3, <4>1 DEF MarkInv, M!TypeOK, M!Rows, OwnOf
      <4>4. x.id # r /\ marking'[x.id] = marking[x.id]
        BY <1>1, <1>2, <4>3 DEF OfItsRequest, Goes, MarkInv, M!TypeOK
      <4>. QED
        BY <4>2, <4>3, <4>4 DEF OfItsRequest, Answered
    <3>. QED
      BY <3>1, <3>2, <3>3
  <2>. QED
    BY <2>2, <2>3
<1>5. MarkRight(r, new)' /\ ~Inserting(new)
  BY <1>2, <1>4, MarkAnswered
<1>. QED
  BY <1>2, <1>4, <1>5, MarkMoves

LEMMA MarksStep == MarkInv /\ [M!Next]_markVars => MarkInv'
<1>1. ASSUME MarkInv, UNCHANGED markVars PROVE MarkInv'
  <2>1. marks' = marks /\ marking' = marking
    BY <1>1 DEF markVars
  <2>2. ASSUME NEW p \in Marking PROVE MarkRight(p, marking[p])'
    <3>1. PICK q : q = marking'[p]
      OBVIOUS
    <3>2. MarkRight(p, q)
      BY <1>1, <2>1, <3>1 DEF MarkInv
    <3>3. MarkRight(p, q)'
      BY <2>1, <3>2 DEF MarkRight, OwnOf, Answered, KeptOut, M!Ended
    <3>. QED
      BY <3>1, <3>3, MarkNamed
  <2>3. \A row : OfItsRequest(row)' <=> OfItsRequest(row)
    BY <2>1 DEF OfItsRequest
  <2>. QED
    BY <1>1, <2>1, <2>2, <2>3 DEF MarkInv, M!TypeOK, Inserting, OneKey
<1>. QED
  BY <1>1, MarkLooks, MarkFails, MarkAdds, StarFlushes, StarCommits, MarkDeletes DEF M!Next

(***************************************************************************)
(* Marks are as the last answers about them say, for any number of         *)
(* requests and repositories, though inserts are swallowed                 *)
(* (social.py:371), rows are deleted by an id found before, and the key of *)
(* a reaction leaves the repository out.                                   *)
(***************************************************************************)
THEOREM MarksAlwaysHold == AllSpec => []MarksHold
<1>1. AllInit => MarkInv
  BY MarksInit DEF AllInit
<1>2. MarkInv /\ [AllNext]_allVars => MarkInv'
  <2>1. [AllNext]_allVars => [M!Next]_markVars
    BY DEF AllNext, Others, allVars
  <2>. QED
    BY <2>1, MarksStep
<1>. QED
  BY <1>1, <1>2, MarksSafe, PTL DEF AllSpec

-----------------------------------------------------------------------------
(***************************************************************************)
(* Forks.  What a fetch from a repository reads is its lineage, a walk     *)
(* over sources (LineageOf in CommitGraph_proofs).                         *)
(***************************************************************************)
LEMMA LineageNamed ==
    ASSUME NEW x
    PROVE  F!Lineage(x) = LineageOf(repos, x) /\ F!Lineage(x)' = LineageOf(repos', x)
BY DEF F!Lineage, LineageOf, UpEquation, SourcesIn, F!Cardinality, Cardinality

\* The commit is stored, in the repository or what it was forked from.
InReach(x, c) == place[c] \in F!Lineage(x)

\* What a push of a tip to a repository may build on: everything but the tip
\* has been stored in reach.
TipRight(x, tip) ==
    /\ tip \in DOMAIN parents
    /\ place[tip] # 0 => InReach(x, tip)
    /\ \A p \in parents[tip] : InReach(x, p)

Pushing(q) == q.kind \in {"wire", "rest"}

ForkRight(r, q) ==
    /\ q.kind = "none" => q.pc = "idle"
    /\ q.kind \in {"create", "fork"} => q.pc # "look" /\ (q.pc \in {"branches", "writing"} => q.inserted)
    /\ q.inserted => q.pc \in {"branches", "writing"}
    /\ q.kind = "create" => q.repo = 0 /\ q.tip = 0 /\ q.pc # "branches"
    /\ q.kind = "fork" =>
          /\ q.repo \in F!RepoIds /\ q.repo < r
          /\ q.pc = "writing" /\ q.tip # 0 => InReach(q.repo, q.tip)
    /\ Pushing(q) =>
          /\ ~q.inserted /\ q.pc \notin {"insert", "branches"}
          /\ q.repo \in F!RepoIds /\ q.tip \in ForkCommits
          /\ TipRight(q.repo, q.tip)
          /\ q.pc \in {"look", "writing"} => \A c \in q.bundle : c = q.tip \/ place[c] # 0
          /\ q.pc = "look" => q.tip \in q.bundle \/ place[q.tip] # 0
          /\ q.pc = "writing" =>
                /\ \A c \in q.missing : c = q.tip \/ place[c] # 0
                /\ q.tip \in q.missing \/ place[q.tip] # 0

\* Two pushes of a commit that is not stored are to one repository.
OneHome == \A q, t \in Forking :
    /\ Pushing(forking[q]) /\ Pushing(forking[t]) /\ forking[q].tip = forking[t].tip
    /\ place[forking[q].tip] = 0
    => forking[q].repo = forking[t].repo

\* A repository is younger than its source.
SourcesRight == \A x \in repos :
    /\ x.source \in F!RepoIds \cup {0}
    /\ x.source < x.id
    /\ forking[x.id].pc # "idle"

\* A commit is stored where its parents are in reach.
PlacesRight == \A c \in ForkCommits :
    place[c] # 0 => c \in DOMAIN parents /\ \A p \in parents[c] : InReach(place[c], p)

HeadsRight == \A x \in F!RepoIds : head[x] # 0 => InReach(x, head[x])

InOrderBegun == \A q, t \in Forking : q < t /\ forking[t].pc # "idle" => forking[q].pc # "idle"

ForkInv ==
    /\ F!TypeOK
    /\ IsFiniteSet(repos) /\ IsFiniteSet(DOMAIN parents)
    /\ InOrderBegun /\ SourcesRight /\ PlacesRight /\ HeadsRight /\ OneHome
    /\ \A r \in Forking : ForkRight(r, forking[r])

\* F!History and F!Fetched are walks of CommitGraph.
LEMMA ForkWalks ==
    ASSUME NEW f, NEW start
    PROVE  F!Walk(f, start) = Walk(f, start)
BY DEF F!Walk, Walk, F!Cardinality, Cardinality

LEMMA LineageFacts ==
    ASSUME F!TypeOK, IsFiniteSet(repos), SourcesRight
    PROVE  /\ \A x : x # 0 => x \in F!Lineage(x)
           /\ \A x : 0 \notin F!Lineage(x)
           /\ \A x \in F!RepoIds : F!Lineage(x) \subseteq F!RepoIds
           /\ \A x : \A y \in F!Lineage(x) : F!Lineage(y) \subseteq F!Lineage(x)
           /\ \A x \in F!RepoIds : \A y \in F!Lineage(x) : y \in Nat /\ y <= x
<1>1. \A x \in repos : /\ x.id \in Nat /\ x.source \in Nat /\ x.source < x.id /\ x.id # 0
                       /\ x.source \in F!RepoIds \cup {0}
  BY ForkingOK DEF SourcesRight, F!TypeOK, F!Repos, F!Ids0, ForkingOK
<1>2. \A x : x # 0 => x \in F!Lineage(x)
  BY LineageNamed, LineageLeast
<1>3. \A x : 0 \notin F!Lineage(x)
  BY LineageNamed, LineageLeast
<1>4. ASSUME NEW x \in F!RepoIds PROVE F!Lineage(x) \subseteq F!RepoIds
  <2>. DEFINE C == F!RepoIds \cup {0}
  <2>1. x \in C /\ \A y \in repos : y.id \in C => y.source \in C
    BY <1>1
  <2>2. LineageOf(repos, x) \subseteq C
    <3>. HIDE DEF C
    <3>. QED
      BY <2>1, LineageLeast
  <2>. QED
    BY <1>3, <2>2, LineageNamed
<1>5. ASSUME NEW x, NEW y \in F!Lineage(x) PROVE F!Lineage(y) \subseteq F!Lineage(x)
  BY <1>1, <1>5, LineageNamed, LineageOfLineage
<1>6. ASSUME NEW x \in F!RepoIds, NEW y \in F!Lineage(x) PROVE y \in Nat /\ y <= x
  <2>1. x \in Nat
    BY <1>1 DEF F!RepoIds
  <2>2. \A z \in LineageOf(repos, x) : z \in Nat /\ z <= x
    BY <1>1, <2>1, LineageGoesBack
  <2>. QED
    BY <1>6, <2>2, LineageNamed
<1>. QED
  BY <1>2, <1>3, <1>4, <1>5, <1>6

\* The history of a head is in reach.
LEMMA HistoryInReach ==
    ASSUME ForkInv, NEW x \in F!RepoIds
    PROVE  \A c \in F!History(head[x]) : c \in ForkCommits /\ place[c] # 0 /\ InReach(x, c)
<1>. DEFINE C == {c \in ForkCommits : place[c] # 0 /\ InReach(x, c)}
            start == {head[x]} \ {0}
<1>1. /\ parents \in [DOMAIN parents -> SUBSET ForkCommits] /\ DOMAIN parents \subseteq ForkCommits
      /\ place \in [ForkCommits -> F!Ids0] /\ head \in [Forking -> ForkCommits \cup {0}]
      /\ F!RepoIds \subseteq Forking
  BY DEF ForkInv, F!TypeOK, F!None, F!RepoIds, F!Repos
<1>2. start \subseteq C
  <2>1. ASSUME head[x] # 0 PROVE head[x] \in C
    BY <1>1, <2>1, LineageFacts DEF ForkInv, HeadsRight, InReach
  <2>. QED
    BY <2>1
<1>3. ASSUME NEW c \in C \cap DOMAIN parents, NEW p \in parents[c] PROVE p \in C
  <2>1. c \in ForkCommits /\ place[c] # 0 /\ InReach(x, c) /\ p \in ForkCommits
    BY <1>1
  <2>2. InReach(place[c], p) /\ F!Lineage(place[c]) \subseteq F!Lineage(x)
    BY <2>1, LineageFacts DEF ForkInv, PlacesRight, InReach
  <2>. QED
    BY <2>1, <2>2, LineageFacts DEF ForkInv, InReach
<1>4. Closed(parents, C)
  BY <1>3 DEF Closed
<1>5. Walk(parents, start) \subseteq C
  <2>. HIDE DEF C, start
  <2>. QED
    BY <1>2, <1>4, WalkIsHistory DEF ForkInv
<1>. QED
  BY <1>5, ForkWalks DEF F!History, F!None

\* What the code promises follows from the invariant.
LEMMA LineageSafe == ForkInv => LineageHolds
<1>. SUFFICES ASSUME ForkInv, NEW x \in F!RepoIds, NEW c \in F!History(head[x]) \ F!Fetched(x)
              PROVE  place[c] \in F!Lineage(x) \ {x}
  BY DEF LineageHolds, F!LineageHolds
<1>. DEFINE own == [d \in {e \in DOMAIN parents : place[e] = x} |-> parents[d]]
            start == {head[x]} \ {0}
            Found == Walk(own, start)
            C == {d \in ForkCommits : InReach(x, d) /\ (place[d] = x => d \in Found)}
<1>1. /\ parents \in [DOMAIN parents -> SUBSET ForkCommits] /\ DOMAIN parents \subseteq ForkCommits
      /\ place \in [ForkCommits -> F!Ids0] /\ head \in [Forking -> ForkCommits \cup {0}]
      /\ F!RepoIds \subseteq Forking /\ IsFiniteSet(DOMAIN parents)
  BY DEF ForkInv, F!TypeOK, F!None, F!RepoIds, F!Repos
<1>2. IsFiniteSet(DOMAIN own)
  <2>1. DOMAIN own \subseteq DOMAIN parents
    OBVIOUS
  <2>. QED
    BY <1>1, <2>1, FS_Subset
<1>3. start \subseteq Found /\ Closed(own, Found)
  <2>. HIDE DEF own, start
  <2>. QED
    BY <1>2, WalkIsHistory
<1>4. start \subseteq C
  <2>. HIDE DEF Found
  <2>1. ASSUME head[x] # 0 PROVE head[x] \in C
    BY <1>1, <1>3, <2>1 DEF ForkInv, HeadsRight
  <2>. QED
    BY <2>1
<1>5. ASSUME NEW d \in C \cap DOMAIN parents, NEW p \in parents[d] PROVE p \in C
  <2>. HIDE DEF Found
  <2>1. d \in ForkCommits /\ InReach(x, d) /\ p \in ForkCommits /\ place[d] # 0
    BY <1>1, LineageFacts DEF ForkInv, InReach
  <2>2. InReach(place[d], p) /\ F!Lineage(place[d]) \subseteq F!Lineage(x) /\ place[d] \in F!RepoIds
    BY <2>1, LineageFacts DEF ForkInv, PlacesRight, InReach
  <2>3. InReach(x, p)
    BY <2>2 DEF InReach
  <2>4. ASSUME place[p] = x PROVE p \in Found
    <3>1. x \in F!Lineage(place[d]) /\ place[d] \in F!Lineage(x)
      BY <2>1, <2>2, <2>4 DEF InReach
    <3>2. place[d] = x
      <4>1. x \in Nat /\ x <= place[d] /\ place[d] \in Nat /\ place[d] <= x
        BY <2>2, <3>1, LineageFacts DEF ForkInv
      <4>. QED
        BY <4>1
    <3>3. d \in Found /\ d \in DOMAIN own /\ p \in own[d]
      BY <2>1, <3>2
    <3>. QED
      <4>. HIDE DEF own
      <4>. QED
        BY <1>3, <3>3 DEF Closed
  <2>. QED
    BY <2>1, <2>3, <2>4
<1>6. Walk(parents, start) \subseteq C
  <2>1. Closed(parents, C)
    <3>. HIDE DEF C
    <3>. QED
      BY <1>5 DEF Closed
  <2>. HIDE DEF C, start
  <2>. QED
    BY <1>1, <1>4, <2>1, WalkIsHistory
<1>7. c \in C /\ F!Fetched(x) = Found \cap DOMAIN own
  <2>. HIDE DEF C
  <2>. QED
    BY <1>6, ForkWalks DEF F!History, F!Fetched, F!None
<1>8. c \notin Found \/ c \notin DOMAIN own
  BY <1>7
<1>9. place[c] # 0 /\ place[c] \in F!Lineage(x) /\ c \in ForkCommits
  BY <1>7, LineageFacts DEF InReach, ForkInv
<1>10. c \in DOMAIN parents
  BY <1>9 DEF ForkInv, PlacesRight
<1>. QED
  <2>. HIDE DEF Found
  <2>. QED
    BY <1>7, <1>8, <1>9, <1>10

-----------------------------------------------------------------------------
\* Nothing stored is lost, and what is new is the tip of r in its repository.
Grows(r) ==
    /\ repos \subseteq repos' /\ IsFiniteSet(repos')
    /\ \A c \in DOMAIN parents : c \in DOMAIN parents' /\ parents'[c] = parents[c]
    /\ \A c \in ForkCommits : place[c] # 0 => place'[c] = place[c]
    /\ \A c \in ForkCommits : place[c] = 0 /\ place'[c] # 0 =>
          Pushing(forking[r]) /\ c = forking[r].tip /\ place'[c] = forking[r].repo

\* A request that pushes what r pushes pushes it to where r does.
WithHome(r, q) ==
    /\ Pushing(q) /\ Pushing(forking[r]) /\ q.tip = forking[r].tip /\ place[q.tip] = 0
    => q.repo = forking[r].repo

LEMMA ReachGrows ==
    ASSUME ForkInv, NEW r \in Forking, Grows(r), NEW x, NEW c \in ForkCommits, InReach(x, c)
    PROVE  InReach(x, c)'
<1>1. place[c] # 0 /\ place'[c] = place[c]
  BY LineageFacts DEF InReach, Grows, ForkInv
<1>2. \A y \in repos : y.id # 0
  BY ForkingOK DEF ForkInv, F!TypeOK, F!Repos, ForkingOK
<1>3. LineageOf(repos, x) \subseteq LineageOf(repos', x)
  BY <1>2, LineageGrows DEF Grows, ForkInv
<1>. QED
  BY <1>1, <1>3, LineageNamed DEF InReach

LEMMA ReachHere ==
    ASSUME IsFiniteSet(repos'), NEW x, x # 0, NEW c, place'[c] = x
    PROVE  InReach(x, c)'
BY LineageNamed, LineageLeast DEF InReach

LEMMA TipRightGrows ==
    ASSUME ForkInv, NEW r \in Forking, Grows(r), NEW x \in Forking, NEW tip \in ForkCommits,
           TipRight(x, tip), place[tip] = 0 /\ place'[tip] # 0 => x = forking[r].repo
    PROVE  TipRight(x, tip)'
<1>1. tip \in DOMAIN parents' /\ parents'[tip] = parents[tip] /\ parents[tip] \subseteq ForkCommits
  BY DEF TipRight, Grows, ForkInv, F!TypeOK
<1>2. ASSUME NEW p \in parents[tip] PROVE InReach(x, p)'
  BY <1>1, <1>2, ReachGrows DEF TipRight
<1>3. ASSUME place'[tip] # 0 PROVE InReach(x, tip)'
  <2>1. CASE place[tip] # 0
    BY <2>1, ReachGrows DEF TipRight
  <2>2. CASE place[tip] = 0
    <3>1. place'[tip] = x /\ x # 0
      BY <1>3, <2>2, ForkingOK DEF Grows, ForkingOK
    <3>. QED
      BY <3>1, ReachHere DEF Grows
  <2>. QED
    BY <2>1, <2>2
<1>. QED
  BY <1>1, <1>2, <1>3 DEF TipRight

LEMMA ForkRightGrows ==
    ASSUME ForkInv, NEW r \in Forking, Grows(r), NEW t \in Forking, NEW q \in F!RequestStates,
           ForkRight(t, q), WithHome(r, q)
    PROVE  ForkRight(t, q)'
<1>1. F!RepoIds \subseteq F!RepoIds' /\ F!RepoIds \subseteq Forking
  BY DEF Grows, F!RepoIds, ForkInv, F!TypeOK, F!Repos
<1>2. \A c \in ForkCommits : place[c] # 0 => place'[c] # 0
  BY DEF Grows
<1>3. q.bundle \subseteq ForkCommits /\ q.missing \subseteq ForkCommits /\ q.tip \in ForkCommits \cup {0}
  BY DEF F!RequestStates, F!None
<1>4. ASSUME q.kind = "fork", q.pc = "writing", q.tip # 0 PROVE InReach(q.repo, q.tip)'
  BY <1>3, <1>4, ReachGrows DEF ForkRight
<1>5. ASSUME Pushing(q) PROVE TipRight(q.repo, q.tip)'
  <2>1. q.repo \in F!RepoIds /\ q.tip \in ForkCommits /\ TipRight(q.repo, q.tip)
    BY <1>5 DEF ForkRight
  <2>2. place[q.tip] = 0 /\ place'[q.tip] # 0 => q.repo = forking[r].repo
    BY <1>5, <2>1 DEF WithHome, Grows
  <2>. QED
    BY <1>1, <2>1, <2>2, TipRightGrows
<1>6. ASSUME Pushing(q)
      PROVE  /\ ~q.inserted /\ q.pc \notin {"insert", "branches"}
             /\ q.repo \in F!RepoIds' /\ q.tip \in ForkCommits
             /\ q.pc \in {"look", "writing"} => \A c \in q.bundle : c = q.tip \/ place'[c] # 0
             /\ q.pc = "look" => q.tip \in q.bundle \/ place'[q.tip] # 0
             /\ q.pc = "writing" =>
                   /\ \A c \in q.missing : c = q.tip \/ place'[c] # 0
                   /\ q.tip \in q.missing \/ place'[q.tip] # 0
  BY <1>1, <1>2, <1>3, <1>6 DEF ForkRight
<1>7. /\ q.kind = "none" => q.pc = "idle"
      /\ q.kind \in {"create", "fork"} => q.pc # "look" /\ (q.pc \in {"branches", "writing"} => q.inserted)
      /\ q.inserted => q.pc \in {"branches", "writing"}
      /\ q.kind = "create" => q.repo = 0 /\ q.tip = 0 /\ q.pc # "branches"
      /\ q.kind = "fork" => q.repo \in F!RepoIds' /\ q.repo < t
  BY <1>1 DEF ForkRight
<1>. QED
  BY <1>4, <1>5, <1>6, <1>7 DEF ForkRight, Pushing

LEMMA ForkNamed ==
    ASSUME NEW t \in Forking, NEW q, q = forking'[t], ForkRight(t, q)'
    PROVE  ForkRight(t, forking[t])'
BY DEF ForkRight

LEMMA PlacesGrow ==
    ASSUME ForkInv, F!TypeOK', NEW r \in Forking, Grows(r)
    PROVE  PlacesRight'
<1>. SUFFICES ASSUME NEW c \in ForkCommits, place'[c] # 0
              PROVE  c \in DOMAIN parents' /\ \A p \in parents'[c] : InReach(place[c], p)'
  BY DEF PlacesRight
<1>1. PICK x : x = place'[c]
  OBVIOUS
<1>2. c \in DOMAIN parents /\ \A p \in parents[c] : InReach(x, p)
  <2>1. CASE place[c] # 0
    BY <1>1, <2>1 DEF ForkInv, PlacesRight, Grows
  <2>2. CASE place[c] = 0
    <3>1. Pushing(forking[r]) /\ c = forking[r].tip /\ x = forking[r].repo /\ ForkRight(r, forking[r])
      BY <1>1, <2>2 DEF Grows, ForkInv
    <3>. QED
      BY <3>1 DEF ForkRight, TipRight
  <2>. QED
    BY <2>1, <2>2
<1>3. c \in DOMAIN parents' /\ parents'[c] = parents[c] /\ parents[c] \subseteq ForkCommits
  BY <1>2 DEF Grows, ForkInv, F!TypeOK
<1>4. ASSUME NEW p \in parents[c] PROVE InReach(x, p)'
  BY <1>2, <1>3, <1>4, ReachGrows
<1>5. \A p \in parents[c] : InReach(place[c], p)'
  BY <1>1, <1>4 DEF InReach
<1>. QED
  BY <1>3, <1>5

(***************************************************************************)
(* A step of r: nothing stored is lost, and r and its head are right.      *)
(***************************************************************************)
LEMMA ForkKeeps ==
    ASSUME ForkInv, F!TypeOK', NEW r \in Forking, Grows(r),
           IsFiniteSet(DOMAIN parents'),
           \A t \in Forking \ {r} : forking'[t] = forking[t],
           forking'[r].pc # "idle",
           forking[r].pc = "idle" => \A t \in Forking : t < r => forking[t].pc # "idle",
           ForkRight(r, forking[r])',
           \A t \in Forking \ {r} : WithHome(t, forking'[r]),
           \A x \in repos' \ repos : x.id = r /\ x.source \in F!RepoIds \cup {0} /\ x.source < r,
           \A x \in F!RepoIds' : \/ x \in F!RepoIds /\ head'[x] = head[x]
                                 \/ (head[x] # 0 => InReach(x, head[x]))'
    PROVE  ForkInv'
<1>1. \A t \in Forking : forking[t] \in F!RequestStates /\ ForkRight(t, forking[t])
  BY DEF ForkInv, F!TypeOK
<1>2. ASSUME NEW t \in Forking \ {r} PROVE ForkRight(t, forking[t])'
  <2>1. PICK q : q = forking[t]
    OBVIOUS
  <2>2. WithHome(r, q)
    BY <2>1 DEF WithHome, ForkInv, OneHome
  <2>3. ForkRight(t, q)'
    BY <1>1, <2>1, <2>2, ForkRightGrows
  <2>. QED
    BY <2>1, <2>3, ForkNamed
<1>3. OneHome'
  <2>1. \A c \in ForkCommits : place'[c] = 0 => place[c] = 0
    BY DEF Grows
  <2>2. \A t \in Forking : Pushing(forking'[t]) => forking'[t].tip \in ForkCommits
    BY <1>2 DEF ForkRight, Pushing
  <2>3. ASSUME NEW t \in Forking, NEW u \in Forking,
               Pushing(forking'[t]), Pushing(forking'[u]), forking'[t].tip = forking'[u].tip,
               place'[forking'[t].tip] = 0
        PROVE  forking'[t].repo = forking'[u].repo
    <3>1. place[forking'[t].tip] = 0
      BY <2>1, <2>2, <2>3
    <3>2. CASE t # r /\ u # r
      BY <2>3, <3>1, <3>2 DEF ForkInv, OneHome
    <3>3. CASE t = r /\ u # r
      BY <2>3, <3>1, <3>3 DEF WithHome
    <3>4. CASE t # r /\ u = r
      BY <2>3, <3>1, <3>4 DEF WithHome
    <3>. QED
      BY <3>2, <3>3, <3>4
  <2>. QED
    BY <2>3 DEF OneHome, Pushing
<1>4. InOrderBegun'
  BY DEF InOrderBegun, ForkInv
<1>5. SourcesRight'
  <2>1. F!RepoIds \subseteq F!RepoIds'
    BY DEF Grows, F!RepoIds
  <2>2. \A x \in repos : x.source \in F!RepoIds \cup {0} /\ x.source < x.id /\ forking[x.id].pc # "idle" /\ x.id \in Forking
    BY DEF ForkInv, SourcesRight, F!TypeOK, F!Repos
  <2>3. ASSUME NEW x \in repos'
        PROVE  x.source \in F!RepoIds' \cup {0} /\ x.source < x.id /\ forking'[x.id].pc # "idle"
    BY <2>1, <2>2
  <2>. QED
    BY <2>3 DEF SourcesRight
<1>6. HeadsRight'
  <2>. SUFFICES ASSUME NEW x \in F!RepoIds', (head[x] # 0)' PROVE InReach(x, head[x])'
    BY DEF HeadsRight
  <2>1. CASE x \in F!RepoIds /\ head'[x] = head[x]
    <3>1. PICK c : c = head[x]
      OBVIOUS
    <3>2. c \in ForkCommits /\ InReach(x, c)
      BY <2>1, <3>1 DEF ForkInv, HeadsRight, F!TypeOK, F!RepoIds, F!Repos, F!None
    <3>3. InReach(x, c)'
      BY <3>2, ReachGrows
    <3>. QED
      BY <2>1, <3>1, <3>3 DEF InReach
  <2>2. CASE (head[x] # 0 => InReach(x, head[x]))'
    BY <2>2
  <2>. QED
    BY <2>1, <2>2
<1>7. PlacesRight'
  BY PlacesGrow
<1>. QED
  BY <1>2, <1>3, <1>4, <1>5, <1>6, <1>7 DEF ForkInv, Grows

-----------------------------------------------------------------------------
\* The rows stand still.
LEMMA ForkQuiet ==
    ASSUME ForkInv, NEW r \in Forking, UNCHANGED <<repos, place, head, parents>>,
           NEW new \in F!RequestStates, forking' = [forking EXCEPT ![r] = new],
           new.pc # "idle",
           forking[r].pc = "idle" => \A t \in Forking : t < r => forking[t].pc # "idle",
           ForkRight(r, new), \A t \in Forking \ {r} : WithHome(t, new)
    PROVE  ForkInv'
<1>1. /\ forking'[r] = new /\ \A t \in Forking \ {r} : forking'[t] = forking[t]
      /\ forking' \in [Forking -> F!RequestStates]
  BY DEF ForkInv, F!TypeOK
<1>2. F!TypeOK'
  BY <1>1 DEF ForkInv, F!TypeOK, F!Ids0, F!Repos
<1>3. Grows(r) /\ IsFiniteSet(DOMAIN parents')
  BY DEF Grows, ForkInv
<1>4. \A x, c : InReach(x, c) => InReach(x, c)'
  BY LineageNamed DEF InReach
<1>5. F!RepoIds' = F!RepoIds
  BY DEF F!RepoIds
<1>6. ForkRight(r, new)'
  <2>1. Pushing(new) => TipRight(new.repo, new.tip)'
    BY <1>4 DEF ForkRight, TipRight
  <2>. QED
    BY <1>4, <1>5, <2>1 DEF ForkRight, Pushing
<1>7. ForkRight(r, forking[r])'
  BY <1>1, <1>6, ForkNamed
<1>8. \A x \in F!RepoIds' : x \in F!RepoIds /\ head'[x] = head[x]
  BY <1>5
<1>. QED
  BY <1>1, <1>2, <1>3, <1>7, <1>8, ForkKeeps

LEMMA NoForkTyped == F!NoRequest \in F!RequestStates
<1>1. (CHOOSE u \in Forkers : TRUE) \in Forkers
  BY ForkingOK DEF ForkingOK
<1>. QED
  BY <1>1 DEF F!NoRequest, F!RequestStates, F!None, F!Ids0

\* create_repo and fork_repo begin.
LEMMA ForkBegins ==
    ASSUME ForkInv, NEW r \in Forking, F!Create(r) \/ F!Fork(r)
    PROVE  ForkInv'
<1>1. PICK u \in Forkers, kind \in {"create", "fork"}, source \in F!Ids0 :
          /\ kind = "create" => source = 0
          /\ kind = "fork" => source \in F!RepoIds
          /\ forking' = [forking EXCEPT ![r] = [F!NoRequest EXCEPT !.kind = kind, !.owner = u,
                                                                   !.repo = source, !.pc = "insert"]]
  <2>1. CASE F!Create(r)
    <3>1. PICK u \in Forkers : forking' = [forking EXCEPT ![r] = [F!NoRequest EXCEPT
                                              !.kind = "create", !.owner = u, !.pc = "insert"]]
      BY <2>1, Zenon DEF F!Create
    <3>2. [F!NoRequest EXCEPT !.kind = "create", !.owner = u, !.pc = "insert"]
            = [F!NoRequest EXCEPT !.kind = "create", !.owner = u, !.repo = 0, !.pc = "insert"]
      <4>1. PICK base : base = F!NoRequest
        OBVIOUS
      <4>2. base \in F!RequestStates /\ base.repo = 0
        BY <4>1, NoForkTyped DEF F!NoRequest
      <4>. QED
        BY <4>1, <4>2, Zenon DEF F!RequestStates
    <3>. QED
      BY <3>1, <3>2, Zenon DEF F!Ids0
  <2>2. CASE F!Fork(r)
    <3>1. F!RepoIds \subseteq F!Ids0
      BY DEF F!RepoIds, ForkInv, F!TypeOK, F!Repos, F!Ids0
    <3>. QED
      BY <2>2, <3>1, Zenon DEF F!Fork
  <2>. QED
    BY <2>1, <2>2, Zenon
<1>2. PICK new : new = [F!NoRequest EXCEPT !.kind = kind, !.owner = u, !.repo = source, !.pc = "insert"]
  OBVIOUS
<1>3. /\ UNCHANGED <<repos, place, head, parents>>
      /\ forking[r].pc = "idle" /\ \A t \in Forking : t < r => forking[t].pc # "idle"
  BY Zenon DEF F!Create, F!Fork, F!IsNext
<1>4. new \in F!RequestStates /\ new.kind = kind /\ new.repo = source /\ new.pc = "insert" /\ new.tip = 0
  BY <1>2, NoForkTyped, Zenon DEF F!RequestStates, F!NoRequest, F!None
<1>5. ~new.inserted
  BY <1>2 DEF F!NoRequest
<1>6. \A x \in F!RepoIds : x \in Nat /\ x \in Forking /\ forking[x].pc # "idle" /\ x # r
  BY <1>3, ForkingOK DEF ForkInv, SourcesRight, F!TypeOK, F!RepoIds, F!Repos, ForkingOK
<1>7. kind = "fork" => source < r
  <2>1. r \in Nat
    BY ForkingOK DEF ForkingOK
  <2>2. \A x \in F!RepoIds : ~(r < x)
    BY <1>3, <1>6 DEF ForkInv, InOrderBegun
  <2>. QED
    BY <1>1, <1>6, <2>1, <2>2
<1>8. ForkRight(r, new) /\ ~Pushing(new)
  BY <1>1, <1>4, <1>5, <1>7 DEF ForkRight, Pushing
<1>. QED
  BY <1>1, <1>2, <1>3, <1>4, <1>8, ForkQuiet, Zenon DEF WithHome

\* The rest of a request that failed.
LEMMA ForkRefused ==
    ASSUME ForkInv, NEW r \in Forking, NEW pc \in {"refused", "error"}, F!Refuse(r, pc),
           forking[r].pc # "idle"
    PROVE  ForkInv'
<1>1. PICK new : new = [F!NoRequest EXCEPT !.kind = forking[r].kind, !.pc = pc,
                                           !.repo = forking[r].repo, !.tip = forking[r].tip]
  OBVIOUS
<1>2. /\ forking[r] \in F!RequestStates /\ ForkRight(r, forking[r])
  BY DEF ForkInv, F!TypeOK
<1>3. /\ new \in F!RequestStates /\ new.kind = forking[r].kind /\ new.repo = forking[r].repo
      /\ new.tip = forking[r].tip /\ new.pc = pc
  BY <1>1, <1>2, NoForkTyped, Zenon DEF F!RequestStates, F!NoRequest, F!None
<1>4. ~new.inserted
  BY <1>1 DEF F!NoRequest
<1>5. ForkRight(r, new)
  BY <1>2, <1>3, <1>4 DEF ForkRight, Pushing
<1>6. \A t \in Forking \ {r} : WithHome(t, new)
  BY <1>3, Zenon DEF WithHome, Pushing, ForkInv, OneHome
<1>. QED
  BY <1>1, <1>3, <1>5, <1>6, ForkQuiet, Zenon DEF F!Refuse

\* create_repo sends the row.
LEMMA ForkInserts ==
    ASSUME ForkInv, NEW r \in Forking, F!InsertRepo(r)
    PROVE  ForkInv'
<1>1. PICK yes \in BOOLEAN : yes = TRUE
  BY Zenon
<1>2. PICK next : next = IF forking[r].kind = "fork" THEN "branches" ELSE "writing"
  OBVIOUS
<1>3. PICK new : new = [forking[r] EXCEPT !.inserted = yes, !.pc = next]
  OBVIOUS
<1>4. /\ forking[r] \in F!RequestStates /\ ForkRight(r, forking[r]) /\ forking[r].pc = "insert"
      /\ forking \in [Forking -> F!RequestStates]
  BY DEF ForkInv, F!TypeOK, F!InsertRepo
<1>5. /\ new \in F!RequestStates /\ new.kind = forking[r].kind /\ new.repo = forking[r].repo
      /\ new.tip = forking[r].tip /\ new.pc = next /\ new.inserted = yes
  BY <1>2, <1>3, <1>4, Zenon DEF F!RequestStates
<1>6. forking' = [forking EXCEPT ![r] = new]
  BY <1>1, <1>2, <1>3, <1>4, Zenon DEF F!InsertRepo
<1>7. ~Pushing(new) /\ (new.kind = "create" \/ new.kind = "fork")
  BY <1>4, <1>5 DEF ForkRight, Pushing, F!RequestStates
<1>8. ForkRight(r, new)
  BY <1>2, <1>4, <1>5, <1>7, <1>1 DEF ForkRight
<1>. QED
  BY <1>2, <1>4, <1>5, <1>6, <1>7, <1>8, ForkQuiet, Zenon DEF WithHome, F!InsertRepo

\* The fork takes over a head, which is in reach of its source.
LEMMA ForkCopies ==
    ASSUME ForkInv, NEW r \in Forking, F!CopyBranches(r)
    PROVE  ForkInv'
<1>1. PICK new : new = [forking[r] EXCEPT !.tip = head[forking[r].repo], !.pc = "writing"]
  OBVIOUS
<1>2. /\ forking[r] \in F!RequestStates /\ ForkRight(r, forking[r]) /\ forking[r].pc = "branches"
      /\ forking \in [Forking -> F!RequestStates]
  BY DEF ForkInv, F!TypeOK, F!CopyBranches
<1>3. forking[r].kind = "fork" /\ forking[r].repo \in F!RepoIds /\ forking[r].repo \in Forking
  BY <1>2 DEF ForkRight, Pushing, F!RequestStates, ForkInv, F!TypeOK, F!RepoIds, F!Repos
<1>4. /\ new \in F!RequestStates /\ new.kind = "fork" /\ new.repo = forking[r].repo
      /\ new.tip = head[forking[r].repo] /\ new.pc = "writing" /\ new.inserted = forking[r].inserted
  BY <1>1, <1>2, <1>3, Zenon DEF F!RequestStates, ForkInv, F!TypeOK
<1>5. forking' = [forking EXCEPT ![r] = new]
  BY <1>1, <1>2, Zenon DEF F!CopyBranches
<1>6. new.tip # 0 => InReach(new.repo, new.tip)
  BY <1>3, <1>4 DEF ForkInv, HeadsRight
<1>7. new.inserted
  BY <1>4, <1>2, <1>3 DEF F!CopyBranches, ForkRight
<1>8. ForkRight(r, new) /\ ~Pushing(new)
  BY <1>2, <1>3, <1>4, <1>6, <1>7 DEF ForkRight, Pushing
<1>. QED
  BY <1>2, <1>4, <1>5, <1>8, ForkQuiet, Zenon DEF WithHome, F!CopyBranches

\* A push has looked for its commits: what it found is stored, and it will
\* insert nothing else than its tip.
LEMMA PushLooks ==
    ASSUME ForkInv, NEW r \in Forking, F!Look(r)
    PROVE  ForkInv'
<1>1. PICK new : new = [forking[r] EXCEPT !.missing = F!NotFound(r), !.pc = "writing"]
  OBVIOUS
<1>2. /\ forking[r] \in F!RequestStates /\ ForkRight(r, forking[r]) /\ forking[r].pc = "look"
      /\ forking \in [Forking -> F!RequestStates] /\ forking' = [forking EXCEPT ![r] = new]
  BY <1>1, Zenon DEF ForkInv, F!TypeOK, F!Look
<1>3. F!NotFound(r) \subseteq forking[r].bundle /\ forking[r].bundle \subseteq ForkCommits
  BY <1>2 DEF F!NotFound, F!RequestStates
<1>4. /\ new \in F!RequestStates /\ new.kind = forking[r].kind /\ new.repo = forking[r].repo
      /\ new.tip = forking[r].tip /\ new.pc = "writing" /\ new.inserted = forking[r].inserted
      /\ new.missing = F!NotFound(r) /\ new.bundle = forking[r].bundle
  BY <1>1, <1>2, <1>3, Zenon DEF F!RequestStates
<1>5. Pushing(forking[r]) /\ forking[r].repo # 0
  <2>1. Pushing(forking[r])
    BY <1>2 DEF ForkRight, Pushing, F!RequestStates
  <2>. QED
    BY <1>2, <2>1, ForkingOK DEF ForkRight, F!RepoIds, ForkInv, F!TypeOK, F!Repos, ForkingOK
<1>6. new.tip \in new.missing \/ place[new.tip] # 0
  BY <1>2, <1>4, <1>5 DEF ForkRight, F!NotFound
<1>7. \A c \in new.bundle : c = new.tip \/ place[c] # 0
  BY <1>2, <1>4, <1>5 DEF ForkRight
<1>8. ForkRight(r, new)
  BY <1>2, <1>3, <1>4, <1>5, <1>6, <1>7 DEF ForkRight, Pushing
<1>9. \A t \in Forking \ {r} : WithHome(t, new)
  BY <1>4, Zenon DEF WithHome, Pushing, ForkInv, OneHome
<1>. QED
  BY <1>2, <1>4, <1>8, <1>9, ForkQuiet, Zenon DEF F!Look

\* A repository with the head of its source.
LEMMA RepoCommits ==
    ASSUME ForkInv, NEW r \in Forking, F!CommitRepo(r)
    PROVE  ForkInv'
<1>1. PICK no \in BOOLEAN : no = FALSE
  BY Zenon
<1>2. PICK new : new = [forking[r] EXCEPT !.pc = "ok", !.inserted = no]
  OBVIOUS
<1>3. /\ forking[r] \in F!RequestStates /\ ForkRight(r, forking[r]) /\ forking[r].pc = "writing"
      /\ forking[r].inserted /\ forking \in [Forking -> F!RequestStates]
      /\ UNCHANGED <<place, parents>>
  BY DEF ForkInv, F!TypeOK, F!CommitRepo
<1>4. forking' = [forking EXCEPT ![r] = new]
  BY <1>1, <1>2, <1>3, Zenon DEF F!CommitRepo
<1>5. /\ new \in F!RequestStates /\ new.kind = forking[r].kind /\ new.repo = forking[r].repo
      /\ new.tip = forking[r].tip /\ new.pc = "ok" /\ new.inserted = no
  BY <1>2, <1>3, Zenon DEF F!RequestStates
<1>6. PICK row : row = [id |-> r, owner |-> forking[r].owner, source |-> forking[r].repo]
  BY Zenon
<1>7. row \in F!Repos /\ row.id = r /\ row.source = new.repo /\ repos' = repos \cup {row}
  BY <1>3, <1>5, <1>6 DEF F!Repos, F!RequestStates, F!CommitRepo
<1>8. /\ ~Pushing(forking[r]) /\ ~Pushing(new)
      /\ new.repo \in F!RepoIds \cup {0} /\ new.repo < r
      /\ new.kind = "create" => new.tip = 0 /\ new.repo = 0
      /\ new.tip # 0 => InReach(new.repo, new.tip)
  <2>1. ~Pushing(forking[r]) /\ (new.kind = "create" \/ new.kind = "fork")
    BY <1>3, <1>5 DEF ForkRight, Pushing, F!RequestStates
  <2>2. r \in Nat /\ r # 0
    BY ForkingOK DEF ForkingOK
  <2>. QED
    BY <1>3, <1>5, <2>1, <2>2 DEF ForkRight, Pushing
<1>9. /\ F!TypeOK' /\ forking'[r] = new /\ \A t \in Forking \ {r} : forking'[t] = forking[t]
      /\ head' = [head EXCEPT ![r] = new.tip]
  BY <1>3, <1>4, <1>5, <1>7 DEF ForkInv, F!TypeOK, F!CommitRepo, F!Ids0, F!Repos, F!RequestStates
<1>10. IsFiniteSet(repos')
  BY <1>7, FS_AddElement DEF ForkInv
<1>11. Grows(r) /\ IsFiniteSet(DOMAIN parents')
  BY <1>3, <1>7, <1>10 DEF Grows, ForkInv
<1>12. F!RepoIds' = F!RepoIds \cup {r}
  BY <1>7 DEF F!RepoIds
<1>13. ForkRight(r, new)'
  <2>1. new.repo \in F!RepoIds' \cup {0}
    BY <1>8, <1>12
  <2>. QED
    BY <1>1, <1>5, <1>3, <1>8, <1>12 DEF ForkRight, Pushing
<1>14. (head[r] # 0 => InReach(r, head[r]))'
  <2>1. head'[r] = new.tip
    BY <1>9 DEF ForkInv, F!TypeOK
  <2>. SUFFICES ASSUME new.tip # 0 PROVE place'[new.tip] \in F!Lineage(r)'
    BY <2>1 DEF InReach
  <2>2. PICK c : c = new.tip
    OBVIOUS
  <2>3. PICK s : s = new.repo
    OBVIOUS
  <2>4. c \in ForkCommits /\ InReach(s, c)
    BY <1>5, <1>8, <2>2, <2>3 DEF F!RequestStates, F!None
  <2>5. InReach(s, c)'
    BY <1>11, <2>4, ReachGrows
  <2>6. \A x \in repos' : x.id # 0
    BY <1>9, ForkingOK DEF F!TypeOK, F!Repos, ForkingOK
  <2>7. r \in LineageOf(repos', r)
    BY <1>10, LineageLeast, ForkingOK DEF ForkingOK
  <2>8. s # 0
    BY <2>4, <1>8, <2>3, LineageFacts, ForkingOK, <1>5, <1>3 DEF ForkRight, ForkInv, Pushing, F!RequestStates, F!RepoIds, F!TypeOK, F!Repos, ForkingOK
  <2>9. s \in LineageOf(repos', r)
    BY <1>7, <1>10, <2>3, <2>7, <2>8, LineageLeast
  <2>10. LineageOf(repos', s) \subseteq LineageOf(repos', r)
    BY <1>10, <2>6, <2>9, LineageOfLineage
  <2>. QED
    BY <2>2, <2>5, <2>10, LineageNamed DEF InReach
<1>15. \A x \in F!RepoIds' : x # r => x \in F!RepoIds /\ head'[x] = head[x]
  BY <1>9, <1>12 DEF ForkInv, F!TypeOK
<1>16. ForkRight(r, forking[r])'
  BY <1>9, <1>13, ForkNamed
<1>17. \A x \in F!RepoIds' : \/ x \in F!RepoIds /\ head'[x] = head[x]
                             \/ (head[x] # 0 => InReach(x, head[x]))'
  BY <1>14, <1>15
<1>18. \A t \in Forking \ {r} : WithHome(t, forking'[r])
  BY <1>8, <1>9 DEF WithHome
<1>19. \A x \in repos' \ repos : x.id = r /\ x.source \in F!RepoIds \cup {0} /\ x.source < r
  BY <1>7, <1>8
<1>20. forking'[r].pc # "idle" /\ forking[r].pc # "idle"
  BY <1>3, <1>5, <1>9
<1>. QED
  BY <1>9, <1>11, <1>16, <1>17, <1>18, <1>19, <1>20, ForkKeeps

\* What a push inserts is at most its tip; what it moves the head to is in
\* reach.
LEMMA PushCommits ==
    ASSUME ForkInv, NEW r \in Forking, F!CommitPush(r)
    PROVE  ForkInv'
<1>1. PICK new : new = [forking[r] EXCEPT !.pc = "ok", !.bundle = {}, !.missing = {}]
  OBVIOUS
<1>2. /\ forking[r] \in F!RequestStates /\ ForkRight(r, forking[r]) /\ forking[r].pc = "writing"
      /\ ~forking[r].inserted /\ forking \in [Forking -> F!RequestStates]
      /\ UNCHANGED <<repos, parents>> /\ forking' = [forking EXCEPT ![r] = new]
  BY <1>1, Zenon DEF ForkInv, F!TypeOK, F!CommitPush
<1>3. Pushing(forking[r])
  BY <1>2 DEF ForkRight, Pushing, F!RequestStates
<1>4. PICK x : x = forking[r].repo
  OBVIOUS
<1>5. PICK tip : tip = forking[r].tip
  OBVIOUS
<1>6. /\ x \in F!RepoIds /\ x \in Forking /\ x # 0 /\ tip \in ForkCommits /\ TipRight(x, tip)
      /\ tip \in forking[r].missing \/ place[tip] # 0
      /\ \A c \in forking[r].missing : c = tip
  <2>1. x \in F!RepoIds => x \in Forking /\ x # 0
    BY ForkingOK DEF F!RepoIds, ForkInv, F!TypeOK, F!Repos, ForkingOK
  <2>2. \A c \in forking[r].missing : place[c] = 0
    BY DEF F!CommitPush
  <2>. QED
    BY <1>2, <1>3, <1>4, <1>5, <2>1, <2>2 DEF ForkRight
<1>7. /\ new \in F!RequestStates /\ new.kind = forking[r].kind /\ new.repo = x
      /\ new.tip = tip /\ new.pc = "ok" /\ ~new.inserted /\ Pushing(new)
  BY <1>1, <1>2, <1>3, <1>4, <1>5, Zenon DEF F!RequestStates, Pushing
<1>8. /\ place' = [c \in ForkCommits |-> IF c \in forking[r].missing THEN x ELSE place[c]]
      /\ head' = [head EXCEPT ![x] = tip]
  BY <1>4, <1>5 DEF F!CommitPush
<1>9. /\ F!TypeOK' /\ forking'[r] = new /\ \A t \in Forking \ {r} : forking'[t] = forking[t]
  <2>1. place' \in [ForkCommits -> F!Ids0]
    BY <1>6, <1>8 DEF ForkInv, F!TypeOK, F!Ids0
  <2>2. head' \in [Forking -> ForkCommits \cup {0}]
    BY <1>6, <1>8 DEF ForkInv, F!TypeOK, F!None
  <2>. QED
    BY <1>2, <1>7, <2>1, <2>2, Zenon DEF ForkInv, F!TypeOK, F!Ids0, F!Repos, F!None
<1>10. \A c \in ForkCommits : /\ place[c] # 0 => place'[c] = place[c]
                              /\ place[c] = 0 /\ place'[c] # 0 => c = tip /\ place'[c] = x
  BY <1>6, <1>8 DEF F!CommitPush
<1>11. Grows(r) /\ IsFiniteSet(DOMAIN parents')
  BY <1>2, <1>3, <1>4, <1>5, <1>10 DEF Grows, ForkInv
<1>12. F!RepoIds' = F!RepoIds
  BY <1>2 DEF F!RepoIds
<1>13. InReach(x, tip)'
  <2>1. CASE place[tip] # 0
    BY <1>6, <1>11, <2>1, ReachGrows DEF TipRight
  <2>2. CASE place[tip] = 0
    <3>1. place'[tip] = x
      BY <1>6, <1>8, <2>2
    <3>. QED
      BY <1>6, <1>11, <3>1, ReachHere DEF Grows
  <2>. QED
    BY <2>1, <2>2
<1>14. ForkRight(r, new)'
  <2>1. TipRight(x, tip)'
    BY <1>4, <1>6, <1>11, TipRightGrows
  <2>. QED
    BY <1>6, <1>7, <1>12, <2>1 DEF ForkRight, Pushing
<1>15. ForkRight(r, forking[r])'
  BY <1>9, <1>14, ForkNamed
<1>16. ASSUME NEW y \in F!RepoIds'
       PROVE  \/ y \in F!RepoIds /\ head'[y] = head[y]
              \/ (head[y] # 0 => InReach(y, head[y]))'
  <2>1. CASE y = x
    <3>1. head'[y] = tip
      BY <1>6, <1>8, <2>1 DEF ForkInv, F!TypeOK
    <3>. QED
      BY <1>13, <2>1, <3>1 DEF InReach
  <2>2. CASE y # x
    BY <1>8, <1>12, <2>2 DEF ForkInv, F!TypeOK, F!RepoIds, F!Repos
  <2>. QED
    BY <2>1, <2>2
<1>17. \A t \in Forking \ {r} : WithHome(t, forking'[r])
  BY <1>4, <1>5, <1>7, <1>9, <1>3, Zenon DEF WithHome, ForkInv, OneHome
<1>. QED
  BY <1>2, <1>7, <1>9, <1>11, <1>15, <1>16, <1>17, ForkKeeps

\* The history of a tip whose parents are stored: all but the tip is.
LEMMA TipHistory ==
    ASSUME ForkInv, NEW ps, IsFiniteSet(DOMAIN ps), NEW tip,
           \A c \in DOMAIN parents : c \in DOMAIN ps /\ ps[c] = parents[c],
           \A p \in ps[tip] : p \in ForkCommits /\ place[p] # 0
    PROVE  /\ tip \in F!Walk(ps, {tip})
           /\ \A c \in F!Walk(ps, {tip}) : c = tip \/ (c \in ForkCommits /\ place[c] # 0)
<1>. DEFINE C == {tip} \cup {c \in ForkCommits : place[c] # 0}
<1>1. ASSUME NEW c \in C \cap DOMAIN ps, NEW p \in ps[c] PROVE p \in C
  <2>1. CASE c = tip
    BY <1>1, <2>1
  <2>2. CASE c # tip
    <3>1. c \in ForkCommits /\ place[c] # 0
      BY <2>2
    <3>2. c \in DOMAIN parents /\ p \in parents[c] /\ InReach(place[c], p)
      BY <1>1, <3>1 DEF ForkInv, PlacesRight
    <3>3. p \in ForkCommits
      BY <3>2 DEF ForkInv, F!TypeOK
    <3>4. place[p] # 0
      BY <3>2, LineageFacts DEF ForkInv, InReach
    <3>. QED
      BY <3>3, <3>4
  <2>. QED
    BY <2>1, <2>2
<1>2. Closed(ps, C)
  <2>. HIDE DEF C
  <2>. QED
    BY <1>1 DEF Closed
<1>3. Walk(ps, {tip}) \subseteq C
  <2>1. {tip} \subseteq C
    OBVIOUS
  <2>. HIDE DEF C
  <2>. QED
    BY <1>2, <2>1, WalkIsHistory
<1>4. tip \in Walk(ps, {tip})
  BY WalkIsHistory
<1>. QED
  BY <1>3, <1>4, ForkWalks

LEMMA HeadsInReach ==
    ASSUME ForkInv, NEW x \in F!RepoIds, NEW c \in F!Heads(x)
    PROVE  c \in ForkCommits /\ InReach(x, c)
<1>1. PICK y \in F!Lineage(x) : c = head[y] /\ c # 0
  BY DEF F!Heads, F!None
<1>2. y \in F!RepoIds /\ F!Lineage(y) \subseteq F!Lineage(x)
  BY LineageFacts DEF ForkInv
<1>3. c \in ForkCommits
  BY <1>1, <1>2 DEF ForkInv, F!TypeOK, F!RepoIds, F!Repos, F!None
<1>. QED
  BY <1>1, <1>2, <1>3 DEF ForkInv, HeadsRight, InReach

\* What a client sends.
LEMMA PushStarts ==
    ASSUME ForkInv, NEW r \in Forking, NEW x \in F!RepoIds, NEW tip \in ForkCommits, NEW ps,
           IsFiniteSet(DOMAIN ps), \A c \in DOMAIN parents : c \in DOMAIN ps /\ ps[c] = parents[c],
           ps \in [DOMAIN ps -> SUBSET ForkCommits], tip \in DOMAIN ps,
           \A p \in ps[tip] : InReach(x, p),
           F!StartPush(r, x, tip, ps)
    PROVE  \E new \in F!RequestStates :
              /\ forking' = [forking EXCEPT ![r] = new]
              /\ Pushing(new) /\ new.repo = x /\ new.tip = tip /\ new.pc = "look" /\ ~new.inserted
              /\ \A c \in new.bundle : c = tip \/ place[c] # 0
              /\ tip \in new.bundle \/ place[tip] # 0
<1>1. PICK bundle : bundle = F!Walk(ps, {tip}) \ F!History(head[x])
  BY Zenon
<1>2. PICK kind \in {"wire", "rest"} :
         forking' = [forking EXCEPT ![r] = [F!NoRequest EXCEPT
                        !.kind = kind, !.repo = x, !.tip = tip, !.pc = "look", !.bundle = bundle]]
  BY <1>1, Zenon DEF F!StartPush
<1>3. PICK new : new = [F!NoRequest EXCEPT !.kind = kind, !.repo = x, !.tip = tip, !.pc = "look",
                                           !.bundle = bundle]
  OBVIOUS
<1>4. \A p \in ps[tip] : p \in ForkCommits /\ place[p] # 0
  BY LineageFacts DEF InReach, ForkInv
<1>5. /\ tip \in F!Walk(ps, {tip})
      /\ \A c \in F!Walk(ps, {tip}) : c = tip \/ (c \in ForkCommits /\ place[c] # 0)
  BY <1>4, TipHistory, Zenon
<1>6. bundle \subseteq ForkCommits /\ \A c \in bundle : c = tip \/ place[c] # 0
  BY <1>1, <1>5, Zenon
<1>7. tip \in bundle \/ place[tip] # 0
  BY <1>1, <1>5, HistoryInReach
<1>8. x \in F!Ids0
  BY DEF F!RepoIds, ForkInv, F!TypeOK, F!Repos, F!Ids0
<1>9. /\ new \in F!RequestStates /\ new.kind = kind /\ new.repo = x /\ new.tip = tip
      /\ new.pc = "look" /\ new.bundle = bundle
  BY <1>3, <1>6, <1>8, NoForkTyped, Zenon DEF F!RequestStates, F!NoRequest, F!None
<1>10. ~new.inserted
  BY <1>3 DEF F!NoRequest
<1>. QED
  BY <1>2, <1>3, <1>6, <1>7, <1>9, <1>10, Zenon DEF Pushing

\* A source's head, or a retry.
LEMMA OldIsPushed ==
    ASSUME ForkInv, NEW r \in Forking, F!PushOld(r)
    PROVE  ForkInv'
<1>1. PICK x \in F!RepoIds : \E tip \in (F!Heads(x) \cup F!Sent(x)) \ {head[x]} :
         F!StartPush(r, x, tip, parents)
  BY DEF F!PushOld
<1>2. PICK tip \in F!Heads(x) \cup F!Sent(x) : F!StartPush(r, x, tip, parents)
  BY <1>1
<1>3. /\ tip \in ForkCommits /\ TipRight(x, tip)
      /\ \A t \in Forking : Pushing(forking[t]) /\ forking[t].tip = tip /\ place[tip] = 0
            => forking[t].repo = x
  <2>1. CASE tip \in F!Heads(x)
    <3>1. tip \in ForkCommits /\ InReach(x, tip)
      BY <2>1, HeadsInReach
    <3>2. place[tip] # 0 /\ F!Lineage(place[tip]) \subseteq F!Lineage(x)
      BY <3>1, LineageFacts DEF ForkInv, InReach
    <3>3. tip \in DOMAIN parents /\ \A p \in parents[tip] : InReach(place[tip], p)
      BY <3>1, <3>2 DEF ForkInv, PlacesRight
    <3>. QED
      BY <3>1, <3>2, <3>3 DEF TipRight, InReach
  <2>2. CASE tip \in F!Sent(x)
    <3>1. PICK u \in Forking : Pushing(forking[u]) /\ forking[u].repo = x /\ forking[u].tip = tip
      BY <2>2 DEF F!Sent, Pushing
    <3>2. ForkRight(u, forking[u])
      BY DEF ForkInv
    <3>3. tip \in ForkCommits /\ TipRight(x, tip)
      BY <3>1, <3>2 DEF ForkRight
    <3>. QED
      BY <3>1, <3>3 DEF ForkInv, OneHome
  <2>. QED
    BY <1>2, <2>1, <2>2
<1>4. /\ IsFiniteSet(DOMAIN parents) /\ parents \in [DOMAIN parents -> SUBSET ForkCommits]
      /\ forking \in [Forking -> F!RequestStates]
  BY DEF ForkInv, F!TypeOK
<1>5. PICK new \in F!RequestStates :
              /\ forking' = [forking EXCEPT ![r] = new]
              /\ Pushing(new) /\ new.repo = x /\ new.tip = tip /\ new.pc = "look" /\ ~new.inserted
              /\ \A c \in new.bundle : c = tip \/ place[c] # 0
              /\ tip \in new.bundle \/ place[tip] # 0
  BY <1>2, <1>3, <1>4, PushStarts DEF TipRight
<1>6. ForkRight(r, new)
  BY <1>3, <1>5 DEF ForkRight, Pushing
<1>7. \A t \in Forking \ {r} : WithHome(t, new)
  BY <1>3, <1>5 DEF WithHome
<1>8. /\ UNCHANGED <<repos, place, head, parents>>
      /\ forking[r].pc = "idle" /\ \A t \in Forking : t < r => forking[t].pc # "idle"
  BY DEF F!PushOld, F!IsNext
<1>. QED
  BY <1>5, <1>6, <1>7, <1>8, ForkQuiet, Zenon

\* A new commit, which no one else has, on heads in reach.
LEMMA NewIsPushed ==
    ASSUME ForkInv, NEW r \in Forking, F!PushNew(r)
    PROVE  ForkInv'
<1>1. PICK x \in F!RepoIds, tip \in ForkCommits \ DOMAIN parents : \E made \in SUBSET F!Heads(x) :
         /\ parents' = [d \in DOMAIN parents \cup {tip} |-> IF d = tip THEN made ELSE parents[d]]
         /\ F!StartPush(r, x, tip, parents')
  BY DEF F!PushNew
<1>2. PICK made \in SUBSET F!Heads(x) :
         /\ parents' = [d \in DOMAIN parents \cup {tip} |-> IF d = tip THEN made ELSE parents[d]]
         /\ F!StartPush(r, x, tip, parents')
  BY <1>1
<1>3. PICK ps : ps = parents'
  OBVIOUS
<1>4. ps = [d \in DOMAIN parents \cup {tip} |-> IF d = tip THEN made ELSE parents[d]]
  BY <1>2, <1>3
<1>5. /\ UNCHANGED <<repos, place, head>>
      /\ forking[r].pc = "idle" /\ \A t \in Forking : t < r => forking[t].pc # "idle"
  BY DEF F!PushNew, F!IsNext
<1>6. \A p \in made : p \in ForkCommits /\ InReach(x, p)
  BY HeadsInReach
<1>7. /\ IsFiniteSet(DOMAIN parents) /\ parents \in [DOMAIN parents -> SUBSET ForkCommits]
      /\ DOMAIN parents \subseteq ForkCommits /\ forking \in [Forking -> F!RequestStates]
  BY DEF ForkInv, F!TypeOK
<1>8. /\ DOMAIN ps = DOMAIN parents \cup {tip} /\ ps[tip] = made
      /\ \A c \in DOMAIN parents : c \in DOMAIN ps /\ ps[c] = parents[c]
      /\ ps \in [DOMAIN ps -> SUBSET ForkCommits] /\ DOMAIN ps \subseteq ForkCommits
  <2>1. made \subseteq ForkCommits
    BY <1>6
  <2>. QED
    BY <1>1, <1>4, <1>7, <2>1
<1>9. IsFiniteSet(DOMAIN ps)
  BY <1>7, <1>8, FS_AddElement
<1>10. F!StartPush(r, x, tip, ps)
  BY <1>2, <1>3, Zenon DEF F!StartPush
<1>11. PICK new \in F!RequestStates :
              /\ forking' = [forking EXCEPT ![r] = new]
              /\ Pushing(new) /\ new.repo = x /\ new.tip = tip /\ new.pc = "look" /\ ~new.inserted
              /\ \A c \in new.bundle : c = tip \/ place[c] # 0
              /\ tip \in new.bundle \/ place[tip] # 0
  BY <1>6, <1>8, <1>9, <1>10, PushStarts
<1>12. /\ forking'[r] = new /\ \A t \in Forking \ {r} : forking'[t] = forking[t]
       /\ forking' \in [Forking -> F!RequestStates]
  BY <1>7, <1>11
<1>13. F!TypeOK'
  BY <1>3, <1>5, <1>8, <1>12 DEF ForkInv, F!TypeOK, F!Ids0, F!Repos
<1>14. Grows(r)
  BY <1>3, <1>5, <1>8 DEF Grows, ForkInv
<1>15. place[tip] = 0
  BY <1>1 DEF ForkInv, PlacesRight
<1>16. F!RepoIds' = F!RepoIds /\ place' = place
  BY <1>5 DEF F!RepoIds
<1>17. ForkRight(r, new)'
  <2>1. \A p \in made : InReach(x, p)'
    BY <1>6, <1>14, ReachGrows
  <2>2. TipRight(x, tip)'
    BY <1>3, <1>8, <1>15, <1>16, <2>1 DEF TipRight
  <2>3. x \in F!RepoIds' /\ tip \in ForkCommits
    BY <1>1, <1>16
  <2>. QED
    BY <1>11, <1>16, <2>2, <2>3 DEF ForkRight, Pushing
<1>18. ForkRight(r, forking[r])'
  BY <1>12, <1>17, ForkNamed
<1>19. \A t \in Forking \ {r} : WithHome(t, forking'[r])
  <2>1. \A t \in Forking : Pushing(forking[t]) => forking[t].tip \in DOMAIN parents
    BY DEF ForkInv, ForkRight, TipRight
  <2>. QED
    BY <1>1, <1>11, <1>12, <2>1 DEF WithHome
<1>20. \A y \in F!RepoIds' : y \in F!RepoIds /\ head'[y] = head[y]
  BY <1>5, <1>16
<1>. QED
  BY <1>3, <1>5, <1>9, <1>11, <1>12, <1>13, <1>14, <1>18, <1>19, <1>20, ForkKeeps

LEMMA ForksStep == ForkInv /\ [F!Next]_forkVars => ForkInv'
<1>. SUFFICES ASSUME ForkInv, [F!Next]_forkVars PROVE ForkInv'
  OBVIOUS
<1>1. CASE F!Next
  <2>1. PICK r \in Forking :
           \/ F!Create(r) \/ F!Fork(r) \/ F!InsertRepo(r) \/ F!NameRefused(r) \/ F!CopyBranches(r)
           \/ F!CommitRepo(r) \/ F!PushNew(r) \/ F!PushOld(r) \/ F!Look(r) \/ F!PushRefused(r)
           \/ F!CommitPush(r) \/ F!Duplicate(r) \/ F!Fail(r)
    BY <1>1 DEF F!Next
  <2>2. CASE F!NameRefused(r) \/ F!PushRefused(r)
    BY <2>2, ForkRefused DEF F!NameRefused, F!PushRefused
  <2>3. CASE F!Duplicate(r) \/ F!Fail(r)
    BY <2>3, ForkRefused DEF F!Duplicate, F!Fail
  <2>. QED
    BY <2>1, <2>2, <2>3, ForkBegins, ForkInserts, ForkCopies, RepoCommits, NewIsPushed, OldIsPushed,
       PushLooks, PushCommits
<1>2. CASE UNCHANGED forkVars
  <2>1. UNCHANGED <<repos, place, head, parents, forking>>
    BY <1>2 DEF forkVars
  <2>2. \A x, c : InReach(x, c) => InReach(x, c)'
    BY <2>1, LineageNamed DEF InReach
  <2>3. F!RepoIds' = F!RepoIds
    BY <2>1 DEF F!RepoIds
  <2>4. F!TypeOK' /\ IsFiniteSet(repos') /\ IsFiniteSet(DOMAIN parents') /\ InOrderBegun' /\ OneHome'
    BY <2>1 DEF ForkInv, F!TypeOK, InOrderBegun, OneHome, F!Ids0, F!Repos
  <2>5. SourcesRight' /\ PlacesRight' /\ HeadsRight'
    BY <2>1, <2>2, <2>3 DEF ForkInv, SourcesRight, PlacesRight, HeadsRight
  <2>6. ASSUME NEW r \in Forking PROVE ForkRight(r, forking[r])'
    <3>1. PICK q : q = forking[r]
      OBVIOUS
    <3>2. Pushing(q) => TipRight(q.repo, q.tip)'
      BY <2>1, <2>2, <3>1 DEF ForkInv, ForkRight, TipRight
    <3>3. ForkRight(r, q)'
      BY <2>1, <2>2, <2>3, <3>1, <3>2 DEF ForkInv, ForkRight, Pushing
    <3>. QED
      BY <2>1, <3>1, <3>3, ForkNamed
  <2>. QED
    BY <2>4, <2>5, <2>6 DEF ForkInv
<1>. QED
  BY <1>1, <1>2

LEMMA ForksInit == Seeded => ForkInv
<1>. SUFFICES ASSUME Seeded PROVE ForkInv
  OBVIOUS
<1>1. PICK first : first = [F!NoRequest EXCEPT !.kind = "create", !.owner = "u", !.pc = "ok"]
  OBVIOUS
<1>2. PICK second : second = [F!NoRequest EXCEPT !.kind = "wire", !.repo = 1, !.tip = 1, !.pc = "ok"]
  OBVIOUS
<1>3. PICK rest : rest = F!NoRequest
  OBVIOUS
<1>4. /\ 1 \in Forking /\ 2 \in Forking /\ 1 \in ForkCommits /\ "u" \in Forkers
      /\ Forking \subseteq Nat \ {0} /\ ForkCommits \subseteq Nat \ {0}
  BY ForkingOK DEF ForkingOK
<1>5. /\ rest \in F!RequestStates /\ rest.kind = "none" /\ rest.pc = "idle" /\ rest.tip = 0 /\ rest.repo = 0
  BY <1>3, NoForkTyped DEF F!NoRequest, F!None
<1>6. ~rest.inserted
  BY <1>3 DEF F!NoRequest
<1>7. /\ first \in F!RequestStates /\ first.kind = "create" /\ first.pc = "ok" /\ first.tip = 0
      /\ first.repo = 0 /\ first.inserted = rest.inserted
  BY <1>1, <1>3, <1>4, <1>5, Zenon DEF F!RequestStates
<1>8. /\ second \in F!RequestStates /\ second.kind = "wire" /\ second.pc = "ok" /\ second.tip = 1
      /\ second.repo = 1 /\ second.inserted = rest.inserted
  <2>1. 1 \in F!Ids0
    BY <1>4 DEF F!Ids0
  <2>. QED
    BY <1>2, <1>3, <1>4, <1>5, <2>1, Zenon DEF F!RequestStates
<1>9. /\ repos = {[id |-> 1, owner |-> "u", source |-> 0]}
      /\ parents = [c \in {1} |-> {}]
      /\ place = [c \in ForkCommits |-> IF c = 1 THEN 1 ELSE 0]
      /\ head = [r \in Forking |-> IF r = 1 THEN 1 ELSE 0]
  BY DEF Seeded
<1>10. \A r \in Forking : forking[r] = CASE r = 1 -> first [] r = 2 -> second [] OTHER -> rest
  BY <1>1, <1>2, <1>3 DEF Seeded
<1>11. forking = [r \in Forking |-> forking[r]]
  BY DEF Seeded
<1>12. forking[1] = first /\ forking[2] = second /\ \A r \in Forking : r # 1 /\ r # 2 => forking[r] = rest
  BY <1>4, <1>10
<1>13. F!TypeOK
  <2>1. \A r \in Forking : forking[r] \in F!RequestStates
    BY <1>5, <1>7, <1>8, <1>12
  <2>2. forking \in [Forking -> F!RequestStates]
    BY <1>11, <2>1
  <2>. QED
    BY <1>4, <1>9, <2>2 DEF F!TypeOK, F!Repos, F!Ids0, F!None
<1>14. IsFiniteSet(repos) /\ IsFiniteSet(DOMAIN parents) /\ F!RepoIds = {1} /\ place[1] = 1 /\ head[1] = 1
  <2>1. DOMAIN parents = {1} /\ place[1] = 1 /\ head[1] = 1
    BY <1>4, <1>9
  <2>2. F!RepoIds = {1}
    BY <1>9 DEF F!RepoIds
  <2>3. IsFiniteSet(repos) /\ IsFiniteSet({1})
    BY <1>9, FS_Singleton, Zenon
  <2>. QED
    BY <2>1, <2>2, <2>3
<1>15. InReach(1, 1)
  BY <1>14, LineageNamed, LineageLeast DEF InReach
<1>16. TipRight(1, 1)
  BY <1>9, <1>15 DEF TipRight
<1>17. ASSUME NEW r \in Forking PROVE ForkRight(r, forking[r])
  <2>1. ForkRight(r, first) /\ ForkRight(r, rest)
    BY <1>5, <1>6, <1>7 DEF ForkRight, Pushing
  <2>2. ForkRight(r, second)
    BY <1>4, <1>6, <1>8, <1>14, <1>16 DEF ForkRight, Pushing
  <2>. QED
    BY <1>12, <2>1, <2>2
<1>18. InOrderBegun
  BY <1>4, <1>5, <1>7, <1>8, <1>12 DEF InOrderBegun
<1>19. SourcesRight
  BY <1>4, <1>7, <1>9, <1>12, <1>14 DEF SourcesRight
<1>20. PlacesRight /\ HeadsRight
  BY <1>9, <1>14, <1>15 DEF PlacesRight, HeadsRight
<1>21. OneHome
  <2>1. \A r \in Forking : Pushing(forking[r]) => r = 2
    BY <1>5, <1>7, <1>12 DEF Pushing
  <2>. QED
    BY <2>1 DEF OneHome
<1>. QED
  BY <1>13, <1>14, <1>17, <1>18, <1>19, <1>20, <1>21 DEF ForkInv

(***************************************************************************)
(* A fetch from a fork leaves out only what its sources have: a push skips *)
(* the commits that any repository has, and yet each has its row where it  *)
(* was made or in what that was forked from (social.py:686,                *)
(* musehub_wire.py:248), for any number of forks of forks and of pushes    *)
(* that overlap, fail and are repeated.                                    *)
(***************************************************************************)
THEOREM LineageAlwaysHolds == AllSpec => []LineageHolds
<1>1. AllInit => ForkInv
  BY ForksInit DEF AllInit
<1>2. ForkInv /\ [AllNext]_allVars => ForkInv'
  <2>. SUFFICES ASSUME ForkInv, [AllNext]_allVars PROVE ForkInv'
    OBVIOUS
  <2>1. [F!Next]_forkVars
    BY DEF AllNext, Others, allVars
  <2>. QED
    BY <2>1, ForksStep
<1>. QED
  BY <1>1, <1>2, LineageSafe, PTL DEF AllSpec

-----------------------------------------------------------------------------
(***************************************************************************)
(* Pulls.  Pages are cut from a set of ids in their order, so the rank of  *)
(* an id in a set (Rank in CommitGraph_proofs) is what its place on a page *)
(* is about.                                                               *)
(***************************************************************************)
\* A page in its order has each of its ids once.
LEMMA InOrderRight ==
    ASSUME NEW ids \in SUBSET (Nat \ {0}), IsFiniteSet(ids)
    PROVE  /\ P!InOrder(ids) \in [1..Cardinality(ids) -> ids] /\ Cardinality(ids) \in Nat
           /\ \A i, j \in 1..Cardinality(ids) : P!InOrder(ids)[i] = P!InOrder(ids)[j] => i = j
           /\ \A o \in ids : \E i \in 1..Cardinality(ids) : P!InOrder(ids)[i] = o
<1>. DEFINE n == Cardinality(ids)
<1>1. P!InOrder(ids) = [i \in 1..n |-> CHOOSE o \in ids : Rank(ids, o) = i]
  BY DEF P!InOrder, Rank, UpTo, P!Cardinality, Cardinality
<1>2. PICK f : f = P!InOrder(ids)
  OBVIOUS
<1>3. f = [i \in 1..n |-> CHOOSE o \in ids : Rank(ids, o) = i]
  BY <1>1, <1>2
<1>4. ASSUME NEW i \in 1..n PROVE f[i] \in ids /\ Rank(ids, f[i]) = i
  <2>1. \E o \in ids : Rank(ids, o) = i
    BY RankTaken
  <2>. QED
    BY <1>3, <2>1
<1>5. f \in [1..n -> ids]
  BY <1>3, <1>4
<1>6. \A i, j \in 1..n : f[i] = f[j] => i = j
  BY <1>4
<1>7. ASSUME NEW o \in ids PROVE \E i \in 1..n : f[i] = o
  <2>1. Rank(ids, o) \in 1..n
    BY RankGrows
  <2>2. f[Rank(ids, o)] \in ids /\ Rank(ids, f[Rank(ids, o)]) = Rank(ids, o)
    BY <1>4, <2>1
  <2>3. f[Rank(ids, o)] = o
    <3>. DEFINE a == f[Rank(ids, o)]
    <3>1. a \in ids /\ Rank(ids, a) = Rank(ids, o) /\ Rank(ids, o) \in Nat /\ a \in Nat /\ o \in Nat
      BY <2>1, <2>2, RankGrows, Zenon
    <3>2. ~(a < o) /\ ~(o < a)
      BY <3>1, RankGrows
    <3>3. a = o
      <4>. HIDE DEF a
      <4>. QED
        BY <3>1, <3>2
    <3>. QED
      BY <3>3
  <2>. QED
    BY <2>1, <2>3
<1>. QED
  BY <1>2, <1>5, <1>6, <1>7, RankGrows

\* A page has the smallest ids, one at least if there are any, and all if
\* there are no more than it takes.
LEMMA FirstOfRight ==
    ASSUME NEW ids \in SUBSET (Nat \ {0}), IsFiniteSet(ids), NEW n \in Nat \ {0}
    PROVE  /\ P!FirstOf(ids, n) \subseteq ids /\ IsFiniteSet(P!FirstOf(ids, n))
           /\ \A o \in P!FirstOf(ids, n), x \in ids : x <= o => x \in P!FirstOf(ids, n)
           /\ ids # {} => P!FirstOf(ids, n) # {}
           /\ Cardinality(ids) <= n => P!FirstOf(ids, n) = ids
<1>. DEFINE page == P!FirstOf(ids, n)
<1>1. page = {o \in ids : Rank(ids, o) <= n}
  BY DEF P!FirstOf, Rank, UpTo, P!Cardinality, Cardinality
<1>. HIDE DEF page
<1>2. page \subseteq ids /\ IsFiniteSet(page)
  BY <1>1, FS_Subset
<1>3. ASSUME NEW o \in page, NEW x \in ids, x <= o PROVE x \in page
  <2>1. o \in ids /\ Rank(ids, o) <= n
    BY <1>1
  <2>2. x = o \/ Rank(ids, x) < Rank(ids, o)
    BY <1>3, <2>1, RankGrows
  <2>3. Rank(ids, x) \in Nat /\ Rank(ids, o) \in Nat
    BY RankGrows
  <2>. QED
    BY <1>1, <2>1, <2>2, <2>3
<1>4. ASSUME ids # {} PROVE page # {}
  <2>1. Cardinality(ids) \in Nat /\ Cardinality(ids) # 0
    BY <1>4, RankGrows, FS_EmptySet
  <2>2. PICK o \in ids : Rank(ids, o) = 1
    BY <2>1, RankTaken
  <2>. QED
    BY <1>1, <2>2
<1>5. ASSUME Cardinality(ids) <= n PROVE page = ids
  <2>1. \A o \in ids : Rank(ids, o) <= n
    BY <1>5, RankGrows
  <2>. QED
    BY <1>1, <2>1, Zenon
<1>. QED
  BY <1>2, <1>3, <1>4, <1>5 DEF page

-----------------------------------------------------------------------------
(***************************************************************************)
(* What a pull has: commits that were stored when its first answer named   *)
(* the head, and the objects of these up to the cursor.  A commit keeps    *)
(* its number, branch and objects, so pushes take none of it back.         *)
(***************************************************************************)
PullPushes == [branch : P!Branches, objects : SUBSET PullObjects]

PullStates ==
    [pc          : {"idle", "head", "commits", "objects", "done"},
     way         : {"service", "have"},
     haveCommits : SUBSET Nat,
     haveObjects : SUBSET PullObjects,
     head        : Nat,
     commits     : SUBSET Nat,
     page        : {1, 2},
     cursor      : Nat,
     got         : Seq(PullObjects),
     first       : SUBSET Nat,
     upTo        : Nat]

BranchOf(ps) == {c \in DOMAIN ps : ps[c].branch = "pulled"}

RegisteredOf(ps) == UNION {ps[c].objects : c \in DOMAIN ps}

\* The commits of the branch up to c are among what a pull has or received.
BranchUpTo(ps, c, had) == \A d \in BranchOf(ps) : d <= c => d \in had

\* The objects of some commits, up to o, are had or received.
ObjectsUpTo(ps, cs, o, had) == \A c \in cs : \A x \in ps[c].objects : x <= o => x \in had

Once(got) == \A i, j \in DOMAIN got : got[i] = got[j] => i = j

Has(q) == q.haveObjects \cup {q.got[i] : i \in DOMAIN q.got}

PullRight(ps, q) ==
    /\ Once(q.got)
    /\ q.pc = "idle" => q.page = 1 /\ DOMAIN q.got = {}
    /\ q.pc = "done" => q.page = 2 /\ \A c \in q.first : ps[c].objects \subseteq Has(q)
    /\ q.pc \in {"commits", "objects"} => q.head <= Len(ps)
    /\ q.pc = "objects" => /\ q.commits \subseteq DOMAIN ps
                           /\ BranchUpTo(ps, q.head, q.commits \cup q.haveCommits)
    /\ q.page = 1 => q.cursor = 0
    /\ q.page = 2 => /\ q.first \subseteq DOMAIN ps /\ q.upTo <= Len(ps)
                     /\ BranchUpTo(ps, q.upTo, q.first \cup q.haveCommits)
    /\ q.way = "service" /\ q.pc # "done" =>
          /\ \A i \in DOMAIN q.got : q.got[i] <= q.cursor
          /\ q.page = 2 => ObjectsUpTo(ps, q.first, q.cursor, Has(q))

PullInv == pushed \in Seq(PullPushes) /\ pull \in PullStates /\ PullRight(pushed, pull)

LEMMA PullNamed ==
    /\ P!Commits = DOMAIN pushed /\ P!OnBranch = BranchOf(pushed) /\ P!Registered = RegisteredOf(pushed)
    /\ P!Received = {pull.got[i] : i \in DOMAIN pull.got}
BY DEF P!Commits, P!OnBranch, P!Registered, P!Received, BranchOf, RegisteredOf

LEMMA RowsTyped ==
    ASSUME NEW ps \in Seq(PullPushes), NEW c \in DOMAIN ps
    PROVE  c \in Nat /\ ps[c].objects \subseteq PullObjects
<1>1. c \in Nat /\ ps[c] \in PullPushes
  OBVIOUS
<1>. QED
  BY <1>1 DEF PullPushes

LEMMA PullSafe == PullInv => PullComplete
<1>. SUFFICES ASSUME PullInv PROVE PullComplete
  OBVIOUS
<1>1. Once(pull.got)
  BY DEF PullInv, PullRight
<1>2. ASSUME pull.pc = "done"
      PROVE  /\ BranchUpTo(pushed, pull.upTo, pull.first \cup pull.haveCommits)
             /\ \A c \in pull.first : pushed[c].objects \subseteq Has(pull)
  BY <1>2 DEF PullInv, PullRight
<1>. QED
  BY <1>1, <1>2, PullNamed DEF PullComplete, P!PullComplete, Once, Has, BranchUpTo

LEMMA PullStarts == P!Init => PullInv
<1>. SUFFICES ASSUME P!Init PROVE PullInv
  OBVIOUS
<1>1. pushed = <<>> /\ pushed \in Seq(PullPushes)
  BY DEF P!Init
<1>2. PICK none : none = <<>>
  OBVIOUS
<1>3. none \in Seq(PullObjects) /\ DOMAIN none = {}
  BY <1>2
<1>4. pull = [pc |-> "idle", way |-> "service", haveCommits |-> {}, haveObjects |-> {}, head |-> 0, commits |-> {},
              page |-> 1, cursor |-> 0, got |-> none, first |-> {}, upTo |-> 0]
  BY <1>2 DEF P!Init
<1>5. pull \in PullStates
  BY <1>3, <1>4 DEF PullStates
<1>6. PullRight(pushed, pull)
  BY <1>3, <1>4 DEF PullRight, Once
<1>. QED
  BY <1>1, <1>5, <1>6 DEF PullInv

\* A push appends a commit.
LEMMA PushKeeps == ASSUME PullInv, P!Push PROVE PullInv'
<1>1. PICK branch \in P!Branches, objects \in SUBSET PullObjects :
         pushed' = Append(pushed, [branch |-> branch, objects |-> objects]) /\ pull' = pull
  BY Zenon DEF P!Push
<1>2. PICK ps, row : ps = pushed' /\ row = [branch |-> branch, objects |-> objects]
  BY Zenon
<1>3. row \in PullPushes /\ pushed \in Seq(PullPushes)
  BY <1>2 DEF PullPushes, PullInv
<1>4. /\ ps \in Seq(PullPushes) /\ Len(ps) = Len(pushed) + 1 /\ Len(pushed) \in Nat
      /\ DOMAIN pushed \subseteq DOMAIN ps
      /\ \A c \in DOMAIN pushed : ps[c] = pushed[c]
      /\ \A c \in DOMAIN ps : c \in Nat /\ (c <= Len(pushed) => c \in DOMAIN pushed)
  BY <1>1, <1>2, <1>3
<1>5. \A c \in BranchOf(ps) : c \in Nat /\ (c <= Len(pushed) => c \in BranchOf(pushed))
  BY <1>4 DEF BranchOf
<1>6. PICK q : q = pull
  OBVIOUS
<1>7. q \in PullStates /\ PullRight(pushed, q)
  BY <1>6 DEF PullInv
<1>8. ASSUME NEW c \in Nat, NEW had, c <= Len(pushed), BranchUpTo(pushed, c, had) PROVE BranchUpTo(ps, c, had)
  BY <1>4, <1>5, <1>8 DEF BranchUpTo
<1>9. ASSUME NEW cs, NEW o, NEW had, cs \subseteq DOMAIN pushed, ObjectsUpTo(pushed, cs, o, had)
      PROVE  ObjectsUpTo(ps, cs, o, had)
  BY <1>4, <1>9 DEF ObjectsUpTo
<1>10. q.head \in Nat /\ q.upTo \in Nat
  BY <1>7 DEF PullStates
<1>11. q.head <= Len(pushed) => q.head <= Len(ps)
  BY <1>4, <1>10
<1>12. q.upTo <= Len(pushed) => q.upTo <= Len(ps)
  BY <1>4, <1>10
<1>13. ASSUME q.pc = "objects"
       PROVE  q.commits \subseteq DOMAIN ps /\ BranchUpTo(ps, q.head, q.commits \cup q.haveCommits)
  BY <1>4, <1>7, <1>8, <1>10, <1>13 DEF PullRight
<1>14. ASSUME q.page = 2
       PROVE  /\ q.first \subseteq DOMAIN ps /\ q.upTo <= Len(ps)
              /\ BranchUpTo(ps, q.upTo, q.first \cup q.haveCommits)
  BY <1>4, <1>7, <1>8, <1>10, <1>12, <1>14 DEF PullRight
<1>15. ASSUME q.page = 2, ObjectsUpTo(pushed, q.first, q.cursor, Has(q))
       PROVE  ObjectsUpTo(ps, q.first, q.cursor, Has(q))
  BY <1>7, <1>9, <1>15 DEF PullRight
<1>16. ASSUME q.pc = "done" PROVE \A c \in q.first : ps[c].objects \subseteq Has(q)
  <2>1. q.first \subseteq DOMAIN pushed /\ \A c \in q.first : pushed[c].objects \subseteq Has(q)
    BY <1>7, <1>16 DEF PullRight
  <2>. QED
    BY <1>4, <2>1
<1>17. PullRight(ps, q)
  BY <1>7, <1>11, <1>13, <1>14, <1>15, <1>16 DEF PullRight
<1>18. pull' = q /\ pushed' = ps
  BY <1>1, <1>2, <1>6
<1>. QED
  BY <1>4, <1>7, <1>17, <1>18 DEF PullInv

LEMMA PullBegins == ASSUME PullInv, "cursor" \notin Clients, P!Begin PROVE PullInv'
<1>1. PICK way \in Clients, cs \in SUBSET P!Commits, os \in SUBSET P!Registered :
         pull' = [pull EXCEPT !.pc = "head", !.way = way, !.haveCommits = cs, !.haveObjects = os]
  BY Zenon DEF P!Begin
<1>2. way \in {"service", "have"}
  BY PullOK
<1>3. /\ pushed' = pushed /\ pushed \in Seq(PullPushes) /\ pull.pc = "idle"
      /\ pull \in PullStates /\ PullRight(pushed, pull)
  BY DEF P!Begin, PullInv
<1>4. cs \in SUBSET Nat /\ os \in SUBSET PullObjects
  <2>1. ASSUME NEW c \in DOMAIN pushed PROVE c \in Nat /\ pushed[c].objects \subseteq PullObjects
    BY <1>3, RowsTyped
  <2>. QED
    BY <2>1, PullNamed DEF RegisteredOf
<1>5. PICK q : q = pull'
  OBVIOUS
<1>6. pull.page = 1 /\ pull.cursor = 0 /\ DOMAIN pull.got = {}
  BY <1>3 DEF PullRight
<1>7. q \in PullStates /\ q.pc = "head" /\ q.page = 1 /\ q.cursor = 0 /\ q.got = pull.got
  BY <1>1, <1>2, <1>3, <1>4, <1>5, <1>6, Zenon DEF PullStates
<1>8. PullRight(pushed, q)
  BY <1>6, <1>7 DEF PullRight, Once
<1>. QED
  BY <1>3, <1>5, <1>7, <1>8 DEF PullInv

\* The head is the newest commit of the branch.
LEMMA PullReadsHead == ASSUME PullInv, P!ReadHead PROVE PullInv'
<1>1. /\ pushed' = pushed /\ pushed \in Seq(PullPushes) /\ pull.pc = "head"
      /\ pull \in PullStates /\ PullRight(pushed, pull)
      /\ pull' = [pull EXCEPT !.pc = "commits", !.head = P!HeadNow]
  BY DEF P!ReadHead, PullInv
<1>2. P!HeadNow \in Nat /\ P!HeadNow <= Len(pushed)
  <2>1. DOMAIN pushed = 1..Len(pushed) /\ Len(pushed) \in Nat
    BY <1>1
  <2>2. BranchOf(pushed) \in SUBSET (Nat \ {0}) /\ \A c \in BranchOf(pushed) : c <= Len(pushed)
    BY <2>1 DEF BranchOf
  <2>3. IsFiniteSet(BranchOf(pushed))
    BY <2>1, <2>2, FS_BoundedSetOfNaturals, Zenon
  <2>4. \E c \in BranchOf(pushed) \cup {0} : \A d \in BranchOf(pushed) : d <= c
    <3>1. CASE BranchOf(pushed) = {}
      BY <3>1
    <3>2. CASE BranchOf(pushed) # {}
      BY <2>2, <2>3, <3>2, GreatestNumber
    <3>. QED
      BY <3>1, <3>2
  <2>5. P!HeadNow \in BranchOf(pushed) \cup {0}
    BY <2>4, PullNamed DEF P!HeadNow
  <2>. QED
    BY <2>1, <2>2, <2>5
<1>3. PICK q, h : q = pull' /\ h = P!HeadNow
  OBVIOUS
<1>4. q = [pull EXCEPT !.pc = "commits", !.head = h] /\ h \in Nat /\ h <= Len(pushed)
  BY <1>1, <1>2, <1>3
<1>5. /\ q \in PullStates /\ q.pc = "commits" /\ q.head = h
      /\ q.way = pull.way /\ q.haveCommits = pull.haveCommits /\ q.haveObjects = pull.haveObjects
      /\ q.page = pull.page /\ q.cursor = pull.cursor /\ q.got = pull.got
      /\ q.first = pull.first /\ q.upTo = pull.upTo
  BY <1>1, <1>4, Zenon DEF PullStates
<1>6. Has(q) = Has(pull)
  BY <1>5 DEF Has
<1>7. PullRight(pushed, q)
  BY <1>1, <1>4, <1>5, <1>6 DEF PullRight
<1>. QED
  BY <1>1, <1>3, <1>5, <1>7 DEF PullInv

\* Commits of the branch that are read after the head go up to it.
LEMMA PullReadsCommits == ASSUME PullInv, P!ReadCommits PROVE PullInv'
<1>1. /\ pushed' = pushed /\ pushed \in Seq(PullPushes) /\ pull.pc = "commits"
      /\ pull \in PullStates /\ PullRight(pushed, pull)
      /\ pull' = [pull EXCEPT !.pc = "objects", !.commits = BranchOf(pushed) \ pull.haveCommits]
  BY PullNamed DEF P!ReadCommits, PullInv
<1>2. PICK q, cs : q = pull' /\ cs = BranchOf(pushed) \ pull.haveCommits
  BY Zenon
<1>3. cs \subseteq DOMAIN pushed /\ cs \subseteq Nat /\ BranchOf(pushed) \subseteq cs \cup pull.haveCommits
  BY <1>1, <1>2 DEF BranchOf
<1>4. q = [pull EXCEPT !.pc = "objects", !.commits = cs]
  BY <1>1, <1>2
<1>5. /\ q \in PullStates /\ q.pc = "objects" /\ q.commits = cs /\ q.head = pull.head
      /\ q.way = pull.way /\ q.haveCommits = pull.haveCommits /\ q.haveObjects = pull.haveObjects
      /\ q.page = pull.page /\ q.cursor = pull.cursor /\ q.got = pull.got
      /\ q.first = pull.first /\ q.upTo = pull.upTo
  BY <1>1, <1>3, <1>4, Zenon DEF PullStates
<1>6. Has(q) = Has(pull)
  BY <1>5 DEF Has
<1>7. BranchUpTo(pushed, q.head, q.commits \cup q.haveCommits)
  BY <1>3, <1>5 DEF BranchUpTo
<1>8. PullRight(pushed, q)
  BY <1>1, <1>3, <1>5, <1>6, <1>7 DEF PullRight
<1>. QED
  BY <1>1, <1>2, <1>5, <1>8 DEF PullInv

LEMMA PullIsLost == ASSUME PullInv, P!Lost PROVE PullInv'
<1>1. /\ pushed' = pushed /\ pushed \in Seq(PullPushes) /\ pull.pc \in {"commits", "objects"}
      /\ pull \in PullStates /\ PullRight(pushed, pull)
      /\ pull' = [pull EXCEPT !.pc = "head"]
  BY DEF P!Lost, PullInv
<1>2. PICK q : q = pull'
  OBVIOUS
<1>3. /\ q \in PullStates /\ q.pc = "head"
      /\ q.way = pull.way /\ q.haveCommits = pull.haveCommits /\ q.haveObjects = pull.haveObjects
      /\ q.page = pull.page /\ q.cursor = pull.cursor /\ q.got = pull.got
      /\ q.first = pull.first /\ q.upTo = pull.upTo
  BY <1>1, <1>2, Zenon DEF PullStates
<1>4. Has(q) = Has(pull)
  BY <1>3 DEF Has
<1>5. PullRight(pushed, q)
  BY <1>1, <1>3, <1>4 DEF PullRight
<1>. QED
  BY <1>1, <1>2, <1>3, <1>5 DEF PullInv

\* The objects of a page are registered, and neither listed nor received.
LEMMA MissingRight ==
    ASSUME PullInv, pull.pc # "done"
    PROVE  /\ P!Missing \in SUBSET (Nat \ {0}) /\ P!Missing \subseteq PullObjects /\ IsFiniteSet(P!Missing)
           /\ \A o \in P!Missing : o \notin pull.haveObjects
           /\ \A o \in P!Missing : \A i \in DOMAIN pull.got : pull.got[i] # o
           /\ \A o \in RegisteredOf(pushed) \ Has(pull) : o \in P!Missing \/ (pull.way = "service" /\ o <= pull.cursor)
           /\ pull.way = "service" => \A o \in P!Missing : o > pull.cursor
<1>1. pushed \in Seq(PullPushes) /\ pull.way \in {"service", "have"} /\ pull.cursor \in Nat /\ pull.got \in Seq(PullObjects)
  BY DEF PullInv, PullStates
<1>2. P!Missing = {o \in RegisteredOf(pushed) \ P!Listed : pull.way = "service" => o > pull.cursor}
  BY PullNamed DEF P!Missing
<1>3. /\ pull.way = "service" => P!Listed = pull.haveObjects
      /\ pull.way = "have" => P!Listed = Has(pull)
  BY PullNamed DEF P!Listed, Has
<1>4. RegisteredOf(pushed) \subseteq PullObjects
  BY <1>1, RowsTyped DEF RegisteredOf
<1>5. P!Missing \in SUBSET PullObjects /\ PullObjects \subseteq Nat \ {0}
  BY <1>2, <1>4, PullOK
<1>6. IsFiniteSet(P!Missing)
  BY <1>5, FS_Subset, PullOK, Zenon
<1>7. pull.way = "service" => \A i \in DOMAIN pull.got : pull.got[i] <= pull.cursor
  BY DEF PullInv, PullRight
<1>8. ASSUME NEW i \in DOMAIN pull.got PROVE pull.got[i] \in Has(pull) /\ pull.got[i] \in Nat
  <2>1. pull.got[i] \in PullObjects
    BY <1>1
  <2>. QED
    BY <1>5, <2>1, Zenon DEF Has
<1>9. ASSUME NEW o \in P!Missing
      PROVE  /\ o \notin pull.haveObjects /\ (pull.way = "service" => o > pull.cursor)
             /\ \A i \in DOMAIN pull.got : pull.got[i] # o
  <2>1. o \in Nat /\ o \notin P!Listed /\ (pull.way = "service" => o > pull.cursor)
    BY <1>2, <1>5, <1>9
  <2>2. CASE pull.way = "service"
    <3>1. o > pull.cursor /\ o \notin pull.haveObjects
      BY <1>3, <2>1, <2>2
    <3>2. ASSUME NEW i \in DOMAIN pull.got PROVE pull.got[i] # o
      BY <1>1, <1>7, <1>8, <2>1, <2>2, <3>1
    <3>. QED
      BY <3>1, <3>2
  <2>3. CASE pull.way = "have"
    BY <1>3, <1>8, <2>1, <2>3 DEF Has
  <2>. QED
    BY <1>1, <2>2, <2>3
<1>10. ASSUME NEW o \in RegisteredOf(pushed) \ Has(pull)
       PROVE  o \in P!Missing \/ (pull.way = "service" /\ o <= pull.cursor)
  <2>1. o \in Nat /\ o \notin P!Listed
    BY <1>1, <1>3, <1>4, <1>5, Zenon DEF Has
  <2>2. o > pull.cursor \/ o <= pull.cursor
    BY <1>1, <2>1
  <2>. QED
    BY <1>2, <1>10, <2>1, <2>2
<1>. QED
  BY <1>5, <1>6, <1>9, <1>10

\* A page appended to what was received: nothing comes twice.
LEMMA PageAppended ==
    ASSUME NEW got \in Seq(PullObjects), Once(got),
           NEW page \in SUBSET PullObjects, IsFiniteSet(page),
           \A o \in page : \A i \in DOMAIN got : got[i] # o
    PROVE  LET both == got \o P!InOrder(page)
           IN  /\ both \in Seq(PullObjects) /\ Once(both)
               /\ \A x : (\E i \in DOMAIN both : both[i] = x) <=> x \in page \/ \E i \in DOMAIN got : got[i] = x
<1>. DEFINE k == Cardinality(page)
<1>1. page \in SUBSET (Nat \ {0})
  BY PullOK
<1>2. PICK s : s = P!InOrder(page)
  OBVIOUS
<1>3. /\ k \in Nat /\ s \in [1..k -> page]
      /\ \A i, j \in 1..k : s[i] = s[j] => i = j
      /\ \A o \in page : \E i \in 1..k : s[i] = o
  BY <1>1, <1>2, InOrderRight
<1>. HIDE DEF k
<1>4. s \in Seq(PullObjects) /\ Len(s) = k /\ DOMAIN s = 1..k
  BY <1>3
<1>5. PICK both, n : both = got \o s /\ n = Len(got)
  BY Zenon
<1>6. /\ n \in Nat /\ DOMAIN got = 1..n /\ both \in Seq(PullObjects) /\ DOMAIN both = 1..(n + k)
      /\ \A i \in 1..n : both[i] = got[i]
      /\ \A i \in 1..k : both[n + i] = s[i]
  <2>1. n \in Nat /\ DOMAIN got = 1..n
    BY <1>5
  <2>2. both \in Seq(PullObjects) /\ Len(both) = n + k
    <3>1. got \o s \in Seq(PullObjects) /\ Len(got \o s) = Len(got) + Len(s)
      BY <1>4
    <3>. QED
      BY <1>4, <1>5, <3>1
  <2>3. DOMAIN both = 1..(n + k)
    BY <2>2
  <2>4. ASSUME NEW i \in 1..n PROVE both[i] = got[i]
    BY <1>4, <1>5, <2>1
  <2>5. ASSUME NEW i \in 1..k PROVE both[n + i] = s[i]
    <3>1. n + i \in 1..(n + k) /\ n + i > n /\ (n + i) - n = i
      BY <1>3, <2>1
    <3>. QED
      BY <1>4, <1>5, <3>1
  <2>. QED
    BY <2>1, <2>2, <2>3, <2>4, <2>5
<1>7. ASSUME NEW i \in DOMAIN both PROVE (i \in 1..n /\ both[i] = got[i]) \/ (i - n \in 1..k /\ both[i] = s[i - n] /\ i \in Nat)
  <2>1. i \in Nat /\ (i \in 1..n \/ i - n \in 1..k)
    BY <1>3, <1>6
  <2>2. i - n \in 1..k => both[n + (i - n)] = s[i - n]
    BY <1>6
  <2>3. n + (i - n) = i
    BY <1>6, <2>1
  <2>. QED
    BY <1>6, <2>1, <2>2, <2>3
<1>8. \A i \in 1..k : s[i] \in page
  BY <1>3
<1>9. ASSUME NEW i \in DOMAIN both, NEW j \in DOMAIN both, both[i] = both[j] PROVE i = j
  <2>1. CASE i \in 1..n /\ both[i] = got[i] /\ j \in 1..n /\ both[j] = got[j]
    BY <1>6, <1>9, <2>1, Zenon DEF Once
  <2>2. CASE i \in 1..n /\ both[i] = got[i] /\ j - n \in 1..k /\ both[j] = s[j - n]
    BY <1>6, <1>8, <1>9, <2>2, Zenon
  <2>3. CASE i - n \in 1..k /\ both[i] = s[i - n] /\ j \in 1..n /\ both[j] = got[j]
    BY <1>6, <1>8, <1>9, <2>3, Zenon
  <2>4. CASE i - n \in 1..k /\ both[i] = s[i - n] /\ i \in Nat /\ j - n \in 1..k /\ both[j] = s[j - n] /\ j \in Nat
    <3>1. i - n = j - n
      BY <1>3, <1>9, <2>4, Zenon
    <3>. QED
      BY <1>6, <2>4, <3>1
  <2>. QED
    BY <1>7, <2>1, <2>2, <2>3, <2>4
<1>10. ASSUME NEW x PROVE (\E i \in DOMAIN both : both[i] = x) <=> x \in page \/ \E i \in DOMAIN got : got[i] = x
  <2>1. ASSUME NEW i \in DOMAIN both PROVE both[i] \in page \/ \E j \in DOMAIN got : got[j] = both[i]
    BY <1>6, <1>7, <1>8
  <2>2. ASSUME NEW i \in DOMAIN got PROVE \E j \in DOMAIN both : both[j] = got[i]
    <3>1. i \in 1..(n + k) /\ both[i] = got[i]
      BY <1>3, <1>6
    <3>. QED
      BY <1>6, <3>1
  <2>3. ASSUME NEW o \in page PROVE \E j \in DOMAIN both : both[j] = o
    <3>1. PICK i \in 1..k : s[i] = o
      BY <1>3
    <3>2. n + i \in 1..(n + k) /\ both[n + i] = o
      BY <1>3, <1>6, <3>1
    <3>. QED
      BY <1>6, <3>2
  <2>. QED
    BY <2>1, <2>2, <2>3
<1>11. Once(both)
  BY <1>9 DEF Once
<1>12. both = got \o P!InOrder(page)
  BY <1>2, <1>5
<1>. QED
  BY <1>6, <1>10, <1>11, <1>12, Zenon

\* The page of an answer, and the cursor it gives.
LEMMA PageRight ==
    ASSUME PullInv, pull.pc # "done"
    PROVE  LET page == P!FirstOf(P!Missing, PageSize)
           IN  /\ page \in SUBSET P!Missing /\ IsFiniteSet(page)
               /\ ~P!HasMore => page = P!Missing
               /\ P!HasMore => /\ P!NextCursor(page) \in page
                               /\ \A o \in page : o <= P!NextCursor(page)
                               /\ \A o \in P!Missing : o <= P!NextCursor(page) => o \in page
<1>1. P!Missing \in SUBSET (Nat \ {0}) /\ IsFiniteSet(P!Missing)
  BY MissingRight
<1>2. PICK all, page : all = P!Missing /\ page = P!FirstOf(P!Missing, PageSize)
  OBVIOUS
<1>3. /\ all \in SUBSET (Nat \ {0}) /\ IsFiniteSet(all) /\ page \subseteq all /\ IsFiniteSet(page)
      /\ \A o \in page, x \in all : x <= o => x \in page
      /\ all # {} => page # {}
      /\ Cardinality(all) <= PageSize => page = all
      /\ Cardinality(all) \in Nat
  BY <1>1, <1>2, FirstOfRight, RankGrows, PullOK
<1>4. P!HasMore <=> Cardinality(all) > PageSize
  BY <1>2 DEF P!HasMore, P!Cardinality, Cardinality
<1>5. ASSUME ~P!HasMore PROVE page = all
  BY <1>3, <1>4, <1>5, PullOK
<1>6. ASSUME P!HasMore
      PROVE  P!NextCursor(page) \in page /\ \A o \in page : o <= P!NextCursor(page)
  <2>1. all # {}
    <3>1. Cardinality(all) # 0
      BY <1>3, <1>4, <1>6, PullOK
    <3>. QED
      BY <3>1, FS_EmptySet
  <2>2. page \in SUBSET (Nat \ {0}) /\ page # {}
    BY <1>3, <2>1
  <2>3. \E m \in page : \A x \in page : x <= m
    BY <1>3, <2>2, GreatestNumber
  <2>. QED
    BY <2>3 DEF P!NextCursor
<1>7. ASSUME P!HasMore, NEW o \in all, o <= P!NextCursor(page) PROVE o \in page
  BY <1>3, <1>6, <1>7, Zenon
<1>. QED
  BY <1>2, <1>3, <1>5, <1>6, <1>7

LEMMA PullAnswers == ASSUME PullInv, P!Answer PROVE PullInv'
<1>1. /\ pushed' = pushed /\ pushed \in Seq(PullPushes) /\ pull.pc = "objects"
      /\ pull \in PullStates /\ PullRight(pushed, pull)
  BY DEF P!Answer, PullInv
<1>2. PICK page, next, more, both :
         /\ page = P!FirstOf(P!Missing, PageSize) /\ next = P!NextCursor(page)
         /\ more \in BOOLEAN /\ (more <=> P!HasMore) /\ both = pull.got \o P!InOrder(page)
  <2>1. \E more \in BOOLEAN : more <=> P!HasMore
    <3>1. CASE P!HasMore
      BY <3>1, Zenon
    <3>2. CASE ~P!HasMore
      BY <3>2, Zenon
    <3>. QED
      BY <3>1, <3>2, Zenon
  <2>2. PICK more : more \in BOOLEAN /\ (more <=> P!HasMore)
    BY <2>1, Zenon
  <2>3. PICK page : page = P!FirstOf(P!Missing, PageSize)
    OBVIOUS
  <2>4. PICK next, both : next = P!NextCursor(page) /\ both = pull.got \o P!InOrder(page)
    BY Zenon
  <2>. QED
    BY <2>2, <2>3, <2>4, Zenon
<1>3. /\ page \in SUBSET P!Missing /\ IsFiniteSet(page)
      /\ ~more => page = P!Missing
      /\ more => /\ next \in page
                 /\ \A o \in page : o <= next
                 /\ \A o \in P!Missing : o <= next => o \in page
  BY <1>1, <1>2, PageRight
<1>4. /\ P!Missing \in SUBSET (Nat \ {0}) /\ P!Missing \subseteq PullObjects
      /\ \A o \in P!Missing : \A i \in DOMAIN pull.got : pull.got[i] # o
      /\ \A o \in RegisteredOf(pushed) \ Has(pull) : o \in P!Missing \/ (pull.way = "service" /\ o <= pull.cursor)
      /\ pull.way = "service" => \A o \in P!Missing : o > pull.cursor
  BY <1>1, MissingRight
<1>5. /\ both \in Seq(PullObjects) /\ Once(both)
      /\ \A x : (\E i \in DOMAIN both : both[i] = x) <=> x \in page \/ \E i \in DOMAIN pull.got : pull.got[i] = x
  <2>1. pull.got \in Seq(PullObjects) /\ Once(pull.got)
    BY <1>1 DEF PullStates, PullRight
  <2>2. page \in SUBSET PullObjects /\ IsFiniteSet(page) /\ \A o \in page : \A i \in DOMAIN pull.got : pull.got[i] # o
    BY <1>3, <1>4
  <2>3. PICK got : got = pull.got
    OBVIOUS
  <2>4. LET gained == got \o P!InOrder(page)
        IN  /\ gained \in Seq(PullObjects) /\ Once(gained)
            /\ \A x : (\E i \in DOMAIN gained : gained[i] = x) <=> x \in page \/ \E i \in DOMAIN got : got[i] = x
    <3>1. /\ got \in Seq(PullObjects) /\ Once(got)
          /\ \A o \in page : \A i \in DOMAIN got : got[i] # o
      BY <2>1, <2>2, <2>3, Zenon
    <3>. QED
      BY <2>2, <3>1, PageAppended, Zenon
  <2>5. both = got \o P!InOrder(page)
    BY <1>2, <2>3, Zenon
  <2>. QED
    BY <2>3, <2>4, <2>5, Zenon
<1>6. PICK q : q = pull'
  OBVIOUS
<1>7. q = [pull EXCEPT
             !.got = both,
             !.cursor = IF more THEN next ELSE pull.cursor,
             !.pc = IF more THEN "head" ELSE "done",
             !.first = IF pull.page = 1 THEN pull.commits ELSE pull.first,
             !.upTo = IF pull.page = 1 THEN pull.head ELSE pull.upTo,
             !.page = 2]
  BY <1>2, <1>6, Zenon DEF P!Answer
<1>8. pull.cursor \in Nat /\ (more => next \in Nat)
  BY <1>1, <1>3, <1>4, Zenon DEF PullStates
<1>9. /\ q \in PullStates /\ q.got = both /\ q.page = 2
      /\ q.cursor = IF more THEN next ELSE pull.cursor
      /\ q.pc = IF more THEN "head" ELSE "done"
      /\ q.first = IF pull.page = 1 THEN pull.commits ELSE pull.first
      /\ q.upTo = IF pull.page = 1 THEN pull.head ELSE pull.upTo
      /\ q.way = pull.way /\ q.haveCommits = pull.haveCommits /\ q.haveObjects = pull.haveObjects
  BY <1>1, <1>5, <1>7, <1>8, Zenon DEF PullStates
<1>10. Has(q) = Has(pull) \cup page
  BY <1>5, <1>9 DEF Has
<1>11. /\ q.first \subseteq DOMAIN pushed /\ q.upTo <= Len(pushed)
       /\ BranchUpTo(pushed, q.upTo, q.first \cup q.haveCommits)
  <2>1. pull.page \in {1, 2}
    BY <1>1 DEF PullStates
  <2>2. CASE pull.page = 1
    BY <1>1, <1>9, <2>2 DEF PullRight
  <2>3. CASE pull.page = 2
    BY <1>1, <1>9, <2>3 DEF PullRight
  <2>. QED
    BY <2>1, <2>2, <2>3
<1>12. ASSUME NEW c \in q.first, NEW o \in pushed[c].objects
       PROVE  o \in RegisteredOf(pushed) /\ o \in Nat \ {0} /\ c \in DOMAIN pushed
  BY <1>1, <1>11, <1>12, RowsTyped, PullOK, Zenon DEF RegisteredOf
\* Up to the old cursor everything was there already.
<1>13. ASSUME pull.way = "service", NEW c \in q.first, NEW o \in pushed[c].objects, o <= pull.cursor
       PROVE  o \in Has(pull)
  <2>1. pull.page \in {1, 2}
    BY <1>1 DEF PullStates
  <2>2. CASE pull.page = 1
    <3>1. pull.cursor = 0
      BY <1>1, <2>2 DEF PullRight
    <3>. QED
      BY <1>12, <1>13, <3>1
  <2>3. CASE pull.page = 2
    <3>1. ObjectsUpTo(pushed, pull.first, pull.cursor, Has(pull)) /\ q.first = pull.first
      BY <1>1, <1>9, <1>13, <2>3 DEF PullRight
    <3>. QED
      BY <1>13, <3>1 DEF ObjectsUpTo
  <2>. QED
    BY <2>1, <2>2, <2>3
<1>14. ASSUME NEW c \in q.first, NEW o \in pushed[c].objects, ~more \/ (pull.way = "service" /\ o <= next)
       PROVE  o \in Has(q)
  <2>1. CASE o \in Has(pull)
    BY <1>10, <2>1
  <2>2. CASE o \in P!Missing
    BY <1>3, <1>10, <1>14, <2>2
  <2>3. CASE o \notin Has(pull) /\ o \notin P!Missing
    <3>1. pull.way = "service" /\ o <= pull.cursor
      BY <1>4, <1>12, <1>14, <2>3
    <3>. QED
      BY <1>13, <1>14, <2>3, <3>1
  <2>. QED
    BY <2>1, <2>2, <2>3
<1>15. ASSUME more, q.way = "service"
       PROVE  /\ \A i \in DOMAIN q.got : q.got[i] <= q.cursor
              /\ ObjectsUpTo(pushed, q.first, q.cursor, Has(q))
  <2>1. q.cursor = next /\ pull.way = "service" /\ next \in Nat /\ next > pull.cursor /\ pull.cursor \in Nat
    BY <1>3, <1>4, <1>8, <1>9, <1>15
  <2>2. ASSUME NEW i \in DOMAIN q.got PROVE q.got[i] <= q.cursor
    <3>1. q.got[i] \in page \/ \E j \in DOMAIN pull.got : pull.got[j] = q.got[i]
      BY <1>5, <1>9
    <3>2. CASE q.got[i] \in page
      BY <1>3, <1>15, <2>1, <3>2
    <3>3. ASSUME NEW j \in DOMAIN pull.got, pull.got[j] = q.got[i] PROVE q.got[i] <= q.cursor
      <4>1. pull.got[j] <= pull.cursor
        BY <1>1, <2>1 DEF PullRight
      <4>2. pull.got[j] \in Nat
        <5>1. pull.got \in Seq(PullObjects)
          BY <1>1 DEF PullStates
        <5>2. pull.got[j] \in PullObjects
          BY <5>1
        <5>. QED
          BY <5>2, PullOK
      <4>. QED
        BY <2>1, <3>3, <4>1, <4>2
    <3>. QED
      BY <3>1, <3>2, <3>3
  <2>3. ObjectsUpTo(pushed, q.first, q.cursor, Has(q))
    BY <1>14, <2>1 DEF ObjectsUpTo
  <2>. QED
    BY <2>2, <2>3
<1>16. ASSUME ~more PROVE \A c \in q.first : pushed[c].objects \subseteq Has(q)
  BY <1>14, <1>16
<1>17. (q.pc = "done" <=> ~more) /\ q.pc \in {"head", "done"}
  BY <1>2, <1>9
<1>18. PullRight(pushed, q)
  BY <1>5, <1>9, <1>11, <1>15, <1>16, <1>17 DEF PullRight
<1>. QED
  BY <1>1, <1>6, <1>9, <1>18 DEF PullInv

LEMMA PullStep == ASSUME "cursor" \notin Clients PROVE PullInv /\ [P!Next]_pullVars => PullInv'
<1>. SUFFICES ASSUME PullInv, [P!Next]_pullVars PROVE PullInv'
  OBVIOUS
<1>1. CASE P!Next
  BY <1>1, PushKeeps, PullBegins, PullReadsHead, PullReadsCommits, PullAnswers, PullIsLost DEF P!Next
<1>2. CASE UNCHANGED pullVars
  BY <1>2 DEF pullVars, PullInv
<1>. QED
  BY <1>1, <1>2

(***************************************************************************)
(* A pull that ends has brought the head its first answer named, the       *)
(* commits of the branch up to it and their objects, each once, whatever   *)
(* is pushed between the pages (musehub_sync.py:301): for any pushes, any  *)
(* page size, and clients that use the cursor of the service or list what  *)
(* they have.  A client that sends the cursor to the route gets one page   *)
(* again and again.                                                        *)
(***************************************************************************)
THEOREM PullsAlwaysComplete ==
    ASSUME "cursor" \notin Clients
    PROVE  AllSpec => []PullComplete
<1>1. AllInit => PullInv
  BY PullStarts DEF AllInit
<1>2. PullInv /\ [AllNext]_allVars => PullInv'
  <2>1. [AllNext]_allVars => [P!Next]_pullVars
    BY DEF AllNext, Others, allVars
  <2>. QED
    BY <2>1, PullStep
<1>. QED
  BY <1>1, <1>2, PullSafe, PTL DEF AllSpec

-----------------------------------------------------------------------------
(***************************************************************************)
(* Listings.  A walk by cursor has given what is not after the cursor; a   *)
(* walk by page number has given what has too few newer rows for the pages *)
(* to come.  Rows never go from the table and keep their date, so only a   *)
(* row that leaves the listing can move others to pages already read.      *)
(***************************************************************************)
InOf(rs) == {row \in rs : row.state = "in"}

TiedIn(rs) == {row.id : row \in {a \in rs : \E b \in rs : a.id # b.id /\ a.at = b.at}}

\* No two rows of one date, and none has left.
Clean(rs) == TiedIn(rs) = {} /\ \A row \in rs : row.state # "out"

\* What the next page of a walk by cursor is taken from.
After(kind, row, c) == IF kind = "activity" THEN N!Before(row, c) ELSE row.at < c.at

GivenBy(w) == UNION {w.given[p] : p \in 1..w.page}

Newer(rs, row) == {a \in InOf(rs) : row.at < a.at}

RowsRight(rs) ==
    /\ rs \subseteq N!Rows /\ IsFiniteSet(rs)
    /\ \A a, b \in rs : a.id = b.id => a = b

\* Where a walk by cursor stands at c.
CursorRight(rs, w, c) ==
    /\ w.cursor = {c} /\ c \in N!Rows
    /\ \A row \in rs : row.id \in w.stayed =>
          \/ row.id \in GivenBy(w)
          \/ w.kind = "repos" /\ row.id \in TiedIn(rs)
          \/ After(w.kind, row, c)
    /\ \A row \in rs : row.id \in GivenBy(w) => ~After(w.kind, row, c)

WalkRight(rs, w) ==
    /\ w.page <= N!MaxPages
    /\ w.pc = "idle" => w.page = 0 /\ w.stayed = {} /\ w.cursor = {}
    /\ w.pc = "counted" => w.kind = "pages" /\ w.page < N!MaxPages
    /\ GivenBy(w) \subseteq {row.id : row \in rs}
    /\ w.stayed \subseteq {row.id : row \in InOf(rs)}
    /\ w.kind # "pages" =>
          /\ \A p, q \in 1..w.page : p # q => w.given[p] \cap w.given[q] = {}
          /\ w.pc = "reading" => \E c \in N!Rows : CursorRight(rs, w, c)
          /\ w.pc = "done" => \A id \in w.stayed : id \in GivenBy(w) \/ (w.kind = "repos" /\ id \in TiedIn(rs))
    /\ w.kind = "pages" /\ Clean(rs) =>
          /\ w.pc \in {"reading", "counted"} =>
                \A row \in rs : row.id \in w.stayed =>
                   row.id \in GivenBy(w) \/ Cardinality(Newer(rs, row)) >= w.page * Limit
          /\ w.pc = "done" /\ ~w.late => w.stayed \subseteq GivenBy(w)

ListInv == now \in N!Times /\ RowsRight(listed) /\ walk \in N!Walks /\ WalkRight(listed, walk)

LEMMA ListNamed ==
    /\ N!In = InOf(listed) /\ N!Given = GivenBy(walk) /\ N!Tied = TiedIn(listed)
    /\ \A rs : N!IdsOf(rs) = {row.id : row \in rs}
BY DEF N!In, InOf, N!Given, GivenBy, N!Tied, TiedIn, N!IdsOf

LEMMA ListSafe == ListInv => WalksCover
<1>. SUFFICES ASSUME ListInv PROVE WalksCover
  OBVIOUS
<1>. USE ListNamed
<1>1. walk.kind \in {"activity", "repos", "pages"}
  BY DEF ListInv, N!Walks
<1>2. ASSUME walk.pc = "done", walk.kind # "pages"
      PROVE  \A id \in walk.stayed : id \in N!Given \/ (walk.kind = "repos" /\ id \in N!Tied)
  BY <1>2 DEF ListInv, WalkRight
<1>3. ASSUME walk.pc = "done", walk.kind = "pages", ~walk.late, N!Tied = {}, \A row \in listed : row.state # "out"
      PROVE  walk.stayed \subseteq N!Given
  BY <1>3 DEF ListInv, WalkRight, Clean
<1>4. walk.kind # "pages" => \A p, q \in 1..walk.page : p # q => walk.given[p] \cap walk.given[q] = {}
  BY DEF ListInv, WalkRight
<1>. QED
  BY <1>1, <1>2, <1>3, <1>4 DEF WalksCover, N!WalksCover

LEMMA MaxPagesRight == N!MaxPages \in Nat
<1>1. Cardinality(RowIds) \in Nat
  BY ListingOK, FS_CardinalityType
<1>2. N!MaxPages = Cardinality(RowIds) + 1
  BY DEF N!MaxPages, N!Cardinality, Cardinality
<1>. QED
  BY <1>1, <1>2

LEMMA ListStarts == N!Init => ListInv
<1>. SUFFICES ASSUME N!Init PROVE ListInv
  OBVIOUS
<1>1. now \in N!Times /\ listed = {}
  BY ListingOK DEF N!Init, N!Times
<1>2. PICK k \in Nat : k = N!MaxPages
  BY MaxPagesRight
<1>3. PICK none : none = [p \in 1..k |-> {}]
  BY Zenon
<1>4. PICK no : no \in BOOLEAN /\ no = FALSE
  BY Zenon
<1>5. walk \in [kind : {"activity", "repos", "pages"}, pc : {"idle"}, page : {0}, total : {0}, cursor : {{}},
                given : {none}, stayed : {{}}, late : {no}]
  BY <1>2, <1>3, <1>4, Zenon DEF N!Init
<1>6. none \in [1..k -> SUBSET RowIds]
  BY <1>3
<1>7. walk \in N!Walks /\ walk.page = 0 /\ walk.stayed = {} /\ walk.cursor = {} /\ walk.pc = "idle"
  BY <1>2, <1>4, <1>5, <1>6 DEF N!Walks
<1>8. GivenBy(walk) = {}
  BY <1>7 DEF GivenBy
<1>9. WalkRight(listed, walk)
  BY <1>1, <1>2, <1>7, <1>8 DEF WalkRight
<1>10. RowsRight(listed)
  BY <1>1, FS_EmptySet DEF RowsRight
<1>. QED
  BY <1>1, <1>7, <1>9, <1>10 DEF ListInv

(***************************************************************************)
(* What a step of a row leaves of the rows: their ids and dates, what was  *)
(* tied, and, if all is clean after it, what is in.                        *)
(***************************************************************************)
CarriedTo(rs, to) ==
    /\ \A a \in rs : \E b \in to : b.id = a.id /\ b.at = a.at
    /\ \A b \in to : b.id \in {row.id : row \in rs} => \E a \in rs : a.id = b.id /\ a.at = b.at
    /\ Clean(to) => (\A row \in rs : row.state # "out") /\ InOf(rs) \subseteq InOf(to)

LEMMA TiesStay == ASSUME NEW rs, NEW to, CarriedTo(rs, to) PROVE TiedIn(rs) \subseteq TiedIn(to) /\ (Clean(to) => Clean(rs))
<1>1. ASSUME NEW id \in TiedIn(rs) PROVE id \in TiedIn(to)
  <2>1. PICK a \in rs, b \in rs : a.id = id /\ a.id # b.id /\ a.at = b.at
    BY DEF TiedIn
  <2>2. PICK c \in to, d \in to : c.id = a.id /\ c.at = a.at /\ d.id = b.id /\ d.at = b.at
    BY DEF CarriedTo
  <2>. QED
    BY <2>1, <2>2 DEF TiedIn
<1>. QED
  BY <1>1 DEF CarriedTo, Clean

LEMMA RowsGo ==
    ASSUME ListInv, RowsRight(listed'), CarriedTo(listed, listed'),
           NEW stayed \in SUBSET walk.stayed, stayed \subseteq {row.id : row \in InOf(listed')},
           now' \in N!Times, walk' = [walk EXCEPT !.stayed = stayed]
    PROVE  ListInv'
<1>1. PICK rs, to, w, q : rs = listed /\ to = listed' /\ w = walk /\ q = walk'
  OBVIOUS
<1>2. /\ RowsRight(rs) /\ RowsRight(to) /\ w \in N!Walks /\ WalkRight(rs, w) /\ CarriedTo(rs, to)
      /\ stayed \in SUBSET w.stayed /\ stayed \subseteq {row.id : row \in InOf(to)}
      /\ q = [w EXCEPT !.stayed = stayed]
  BY <1>1 DEF ListInv
<1>3. /\ q \in N!Walks /\ q.stayed = stayed
      /\ q.kind = w.kind /\ q.pc = w.pc /\ q.given = w.given /\ q.page = w.page /\ q.cursor = w.cursor /\ q.late = w.late
  BY <1>2 DEF N!Walks
<1>4. GivenBy(q) = GivenBy(w)
  BY <1>3 DEF GivenBy
<1>5. TiedIn(rs) \subseteq TiedIn(to) /\ (Clean(to) => Clean(rs))
  BY <1>2, TiesStay
\* A row of before has its id, date and place now.
<1>6. ASSUME NEW b \in to, b.id \in q.stayed \/ b.id \in GivenBy(q)
      PROVE  \E a \in rs : a.id = b.id /\ a.at = b.at /\ \A kind, c : After(kind, a, c) <=> After(kind, b, c)
  <2>1. b.id \in {row.id : row \in rs}
    BY <1>2, <1>3, <1>4, <1>6 DEF WalkRight, InOf
  <2>2. PICK a \in rs : a.id = b.id /\ a.at = b.at
    BY <1>2, <2>1 DEF CarriedTo
  <2>. QED
    BY <2>2 DEF After, N!Before
<1>7. ASSUME NEW c, CursorRight(rs, w, c) PROVE CursorRight(to, q, c)
  <2>1. ASSUME NEW b \in to, b.id \in q.stayed
        PROVE  \/ b.id \in GivenBy(q)
               \/ q.kind = "repos" /\ b.id \in TiedIn(to)
               \/ After(q.kind, b, c)
    <3>1. PICK a \in rs : a.id = b.id /\ \A kind, d : After(kind, a, d) <=> After(kind, b, d)
      BY <1>6, <2>1
    <3>2. a.id \in w.stayed
      BY <1>2, <1>3, <2>1, <3>1
    <3>. QED
      BY <1>3, <1>4, <1>5, <1>7, <3>1, <3>2 DEF CursorRight
  <2>2. ASSUME NEW b \in to, b.id \in GivenBy(q) PROVE ~After(q.kind, b, c)
    <3>1. PICK a \in rs : a.id = b.id /\ \A kind, d : After(kind, a, d) <=> After(kind, b, d)
      BY <1>6, <2>2
    <3>. QED
      BY <1>3, <1>4, <1>7, <2>2, <3>1 DEF CursorRight
  <2>. QED
    BY <1>3, <1>7, <2>1, <2>2 DEF CursorRight
<1>8. ASSUME q.kind # "pages"
      PROVE  /\ \A p, r \in 1..q.page : p # r => q.given[p] \cap q.given[r] = {}
             /\ q.pc = "reading" => \E c \in N!Rows : CursorRight(to, q, c)
             /\ q.pc = "done" => \A id \in q.stayed : id \in GivenBy(q) \/ (q.kind = "repos" /\ id \in TiedIn(to))
  BY <1>2, <1>3, <1>4, <1>5, <1>7, <1>8 DEF WalkRight
<1>9. ASSUME Clean(to), NEW a \in rs, NEW b \in to, a.at = b.at
      PROVE  /\ Cardinality(Newer(rs, a)) \in Nat /\ Cardinality(Newer(to, b)) \in Nat
             /\ Cardinality(Newer(rs, a)) <= Cardinality(Newer(to, b))
  <2>1. Newer(rs, a) \in SUBSET Newer(to, b)
    BY <1>2, <1>9 DEF CarriedTo, Newer
  <2>2. Newer(to, b) \in SUBSET to /\ IsFiniteSet(to)
    BY <1>2 DEF Newer, InOf, RowsRight
  <2>3. IsFiniteSet(Newer(to, b))
    BY <2>2, FS_Subset
  <2>4. IsFiniteSet(Newer(rs, a))
    BY <2>1, <2>3, FS_Subset
  <2>. QED
    BY <2>1, <2>3, <2>4, FS_Subset, FS_CardinalityType
<1>10. ASSUME q.kind = "pages", Clean(to)
       PROVE  /\ q.pc \in {"reading", "counted"} =>
                    \A b \in to : b.id \in q.stayed =>
                       b.id \in GivenBy(q) \/ Cardinality(Newer(to, b)) >= q.page * Limit
              /\ q.pc = "done" /\ ~q.late => q.stayed \subseteq GivenBy(q)
  <2>1. Clean(rs)
    BY <1>5, <1>10
  <2>2. ASSUME q.pc \in {"reading", "counted"}, NEW b \in to, b.id \in q.stayed, b.id \notin GivenBy(q)
        PROVE  Cardinality(Newer(to, b)) >= q.page * Limit
    <3>1. PICK a \in rs : a.id = b.id /\ a.at = b.at
      BY <1>6, <2>2
    <3>2. Cardinality(Newer(rs, a)) >= w.page * Limit
      BY <1>2, <1>3, <1>4, <1>10, <2>1, <2>2, <3>1 DEF WalkRight
    <3>3. /\ Cardinality(Newer(rs, a)) \in Nat /\ Cardinality(Newer(to, b)) \in Nat
          /\ Cardinality(Newer(rs, a)) <= Cardinality(Newer(to, b))
      BY <1>9, <1>10, <3>1
    <3>4. q.page * Limit \in Nat /\ w.page * Limit = q.page * Limit
      BY <1>3, ListingOK DEF N!Walks
    <3>. QED
      BY <3>2, <3>3, <3>4
  <2>3. ASSUME q.pc = "done", ~q.late PROVE q.stayed \subseteq GivenBy(q)
    BY <1>2, <1>3, <1>4, <1>10, <2>1, <2>3 DEF WalkRight
  <2>. QED
    BY <2>2, <2>3
<1>11. GivenBy(q) \subseteq {row.id : row \in to}
  <2>1. ASSUME NEW id \in GivenBy(w) PROVE id \in {row.id : row \in to}
    <3>1. PICK a \in rs : a.id = id
      BY <1>2 DEF WalkRight
    <3>. QED
      BY <1>2, <3>1 DEF CarriedTo
  <2>. QED
    BY <1>4, <2>1
<1>12. WalkRight(to, q)
  BY <1>2, <1>3, <1>8, <1>10, <1>11 DEF WalkRight
<1>. QED
  BY <1>1, <1>2, <1>3, <1>12 DEF ListInv

LEMMA TimePasses == ASSUME ListInv, N!Tick PROVE ListInv'
<1>1. now \in Nat /\ now < MaxTime /\ now' = now + 1 /\ listed' = listed /\ walk' = walk /\ now \in 1..MaxTime
  BY DEF N!Tick, ListInv, N!Times
<1>2. now' \in N!Times
  BY <1>1, ListingOK DEF N!Times
<1>. QED
  BY <1>1, <1>2 DEF ListInv

\* A row that changes its place or is new; the walk stays as it is.
LEMMA RowChanges ==
    ASSUME ListInv, NEW old \in SUBSET listed, NEW row \in N!Rows,
           \A a \in old : a.id = row.id /\ a.at = row.at,
           \A a \in listed \ old : a.id # row.id,
           listed' = (listed \ old) \cup {row}
    PROVE  /\ RowsRight(listed')
           /\ \A a \in listed : \E b \in listed' : b.id = a.id /\ b.at = a.at
           /\ \A b \in listed' : b.id \in {r.id : r \in listed} => \E a \in listed : a.id = b.id /\ a.at = b.at
<1>1. PICK rs, to : rs = listed /\ to = listed'
  OBVIOUS
<1>2. /\ rs \subseteq N!Rows /\ IsFiniteSet(rs) /\ old \subseteq rs /\ to = (rs \ old) \cup {row}
      /\ \A a, b \in rs : a.id = b.id => a = b
      /\ \A a \in rs \ old : a.id # row.id
  BY <1>1 DEF ListInv, RowsRight
<1>3. IsFiniteSet(to)
  <2>1. IsFiniteSet(rs \ old)
    BY <1>2, FS_Subset
  <2>. QED
    BY <1>2, <2>1, FS_AddElement, Zenon
<1>4. RowsRight(to)
  BY <1>2, <1>3 DEF RowsRight
<1>5. ASSUME NEW a \in rs PROVE \E b \in to : b.id = a.id /\ b.at = a.at
  BY <1>2
<1>6. ASSUME NEW b \in to, b.id \in {r.id : r \in rs} PROVE \E a \in rs : a.id = b.id /\ a.at = b.at
  BY <1>2, <1>6
<1>. QED
  BY <1>1, <1>4, <1>5, <1>6

LEMMA WalkStays ==
    ASSUME walk \in N!Walks
    PROVE  walk = [walk EXCEPT !.stayed = walk.stayed]
BY DEF N!Walks

LEMMA RowDraws == ASSUME ListInv, NEW id \in RowIds, N!Draw(id) PROVE ListInv'
<1>1. PICK row : row = [id |-> id, at |-> now, state |-> "dated"]
  BY Zenon
<1>2. /\ row \in N!Rows /\ row.id = id /\ row.state = "dated"
      /\ now \in N!Times /\ now' = now /\ walk' = walk /\ walk \in N!Walks
      /\ listed' = listed \cup {row} /\ \A a \in listed : a.id # id
  BY <1>1, ListNamed DEF N!Draw, N!Rows, ListInv
<1>3. listed' = (listed \ {}) \cup {row} /\ {} \in SUBSET listed
  BY <1>2
<1>4. /\ RowsRight(listed')
      /\ \A a \in listed : \E b \in listed' : b.id = a.id /\ b.at = a.at
      /\ \A b \in listed' : b.id \in {r.id : r \in listed} => \E a \in listed : a.id = b.id /\ a.at = b.at
  BY <1>2, <1>3, RowChanges, Zenon
<1>5. InOf(listed) \subseteq InOf(listed')
  BY <1>2 DEF InOf
<1>6. CarriedTo(listed, listed')
  BY <1>2, <1>4, <1>5, Zenon DEF CarriedTo, Clean
<1>7. walk.stayed \subseteq {r.id : r \in InOf(listed')}
  BY <1>5 DEF ListInv, WalkRight
<1>. QED
  BY <1>2, <1>4, <1>6, <1>7, RowsGo, WalkStays, Zenon

LEMMA RowCommits == ASSUME ListInv, NEW old \in listed, N!Commit(old) PROVE ListInv'
<1>1. PICK row : row = [old EXCEPT !.state = "in"]
  BY Zenon
<1>2. /\ old.state = "dated" /\ listed' = (listed \ {old}) \cup {row} /\ now' = now /\ walk' = walk
      /\ now \in N!Times /\ walk \in N!Walks /\ old \in N!Rows
      /\ \A a \in listed \ {old} : a.id # old.id
  BY <1>1 DEF N!Commit, ListInv, RowsRight
<1>3. row \in N!Rows /\ row.id = old.id /\ row.at = old.at /\ row.state = "in"
  BY <1>1, <1>2 DEF N!Rows
<1>4. /\ RowsRight(listed')
      /\ \A a \in listed : \E b \in listed' : b.id = a.id /\ b.at = a.at
      /\ \A b \in listed' : b.id \in {r.id : r \in listed} => \E a \in listed : a.id = b.id /\ a.at = b.at
  <2>1. {old} \in SUBSET listed /\ \A a \in {old} : a.id = row.id /\ a.at = row.at
    BY <1>3
  <2>. QED
    BY <1>2, <1>3, <2>1, RowChanges, Zenon
<1>5. InOf(listed) \subseteq InOf(listed')
  BY <1>2 DEF InOf
<1>6. CarriedTo(listed, listed')
  <2>1. ASSUME Clean(listed'), NEW a \in listed PROVE a.state # "out"
    BY <1>2, <2>1 DEF Clean
  <2>. QED
    BY <1>4, <1>5, <2>1 DEF CarriedTo
<1>7. walk.stayed \subseteq {r.id : r \in InOf(listed')}
  BY <1>5 DEF ListInv, WalkRight
<1>. QED
  BY <1>2, <1>4, <1>6, <1>7, RowsGo, WalkStays, Zenon

LEMMA RowLeaves == ASSUME ListInv, NEW old \in listed, N!Leave(old) PROVE ListInv'
<1>1. PICK row, stayed : row = [old EXCEPT !.state = "out"] /\ stayed = walk.stayed \ {old.id}
  BY Zenon
<1>2. /\ listed' = (listed \ {old}) \cup {row} /\ now' = now /\ walk' = [walk EXCEPT !.stayed = stayed]
      /\ now \in N!Times /\ walk \in N!Walks /\ old \in N!Rows
      /\ \A a \in listed \ {old} : a.id # old.id
  BY <1>1 DEF N!Leave, ListInv, RowsRight
<1>3. row \in N!Rows /\ row.id = old.id /\ row.at = old.at /\ row.state = "out"
  BY <1>1, <1>2 DEF N!Rows
<1>4. /\ RowsRight(listed')
      /\ \A a \in listed : \E b \in listed' : b.id = a.id /\ b.at = a.at
      /\ \A b \in listed' : b.id \in {r.id : r \in listed} => \E a \in listed : a.id = b.id /\ a.at = b.at
  <2>1. {old} \in SUBSET listed /\ \A a \in {old} : a.id = row.id /\ a.at = row.at
    BY <1>3
  <2>. QED
    BY <1>2, <1>3, <2>1, RowChanges, Zenon
<1>5. ~Clean(listed')
  BY <1>2, <1>3 DEF Clean
<1>6. CarriedTo(listed, listed')
  BY <1>4, <1>5 DEF CarriedTo
<1>7. stayed \in SUBSET walk.stayed
  BY <1>1
<1>8. ASSUME NEW id \in stayed PROVE id \in {r.id : r \in InOf(listed')}
  <2>1. PICK a \in InOf(listed) : a.id = id
    BY <1>7, <1>8 DEF ListInv, WalkRight
  <2>2. a \in InOf(listed')
    BY <1>1, <1>2, <1>8, <2>1 DEF InOf
  <2>. QED
    BY <2>1, <2>2
<1>. QED
  BY <1>2, <1>4, <1>6, <1>7, <1>8, RowsGo, Zenon

(***************************************************************************)
(* Pages.                                                                  *)
(***************************************************************************)
LEMMA RowNumbers == ASSUME NEW row \in N!Rows PROVE row.at \in Nat /\ row.id \in Nat
<1>1. row.at \in 1..MaxTime /\ row.id \in RowIds
  BY DEF N!Rows, N!Times
<1>2. MaxTime \in Nat
  BY ListingOK
<1>3. row.at \in Nat
  BY <1>1, <1>2
<1>4. row.id \in Nat
  BY <1>1, ListingOK, Zenon
<1>. QED
  BY <1>3, <1>4

LEMMA BeforeIsAnOrder ==
    ASSUME NEW a \in N!Rows, NEW b \in N!Rows, NEW c \in N!Rows
    PROVE  /\ ~N!Before(a, a)
           /\ N!Before(a, b) => ~N!Before(b, a)
           /\ N!Before(a, b) /\ N!Before(b, c) => N!Before(a, c)
           /\ a.id # b.id => N!Before(a, b) \/ N!Before(b, a)
           /\ N!Before(a, b) => a.at <= b.at
<1>1. /\ a.at \in Nat /\ b.at \in Nat /\ c.at \in Nat
      /\ a.id \in Nat /\ b.id \in Nat /\ c.id \in Nat
  BY RowNumbers
<1>. QED
  BY <1>1 DEF N!Before

LEMMA LastRight ==
    ASSUME NEW page \in SUBSET N!Rows, page # {}, \A a, b \in page : a.id = b.id => a = b
    PROVE  \E c \in page : N!Last(page) = {c} /\ \A row \in page : row = c \/ N!Before(c, row)
<1>1. \A row \in page : row.at \in Nat /\ row.id \in Nat
  BY RowNumbers
<1>2. PICK at \in {row.at : row \in page} : \A y \in {row.at : row \in page} : ~(y < at)
  <2>1. {row.at : row \in page} \in SUBSET Nat /\ {row.at : row \in page} # {}
    BY <1>1
  <2>. QED
    BY <2>1, LeastNumber, Zenon
<1>. DEFINE Old == {row \in page : row.at = at}
<1>3. PICK id \in {row.id : row \in Old} : \A y \in {row.id : row \in Old} : ~(y < id)
  <2>1. {row.id : row \in Old} \in SUBSET Nat /\ {row.id : row \in Old} # {}
    BY <1>1, <1>2
  <2>. HIDE DEF Old
  <2>. QED
    BY <2>1, LeastNumber, Zenon
<1>4. PICK c \in page : c.at = at /\ c.id = id
  BY <1>3
<1>5. ASSUME NEW row \in page PROVE row = c \/ N!Before(c, row)
  <2>1. ~(row.at < at)
    BY <1>2
  <2>2. row.at = at => ~(row.id < id)
    BY <1>3
  <2>3. row.id = id => row = c
    BY <1>4
  <2>. QED
    BY <1>1, <1>4, <2>1, <2>2, <2>3 DEF N!Before
<1>6. PICK d \in page : d = CHOOSE row \in page : \A other \in page : other = row \/ N!Before(row, other)
  BY <1>5
<1>7. \A other \in page : other = d \/ N!Before(d, other)
  BY <1>5, <1>6
<1>8. N!Last(page) = {d}
  BY <1>6 DEF N!Last
<1>. QED
  BY <1>7, <1>8

LEMMA FirstsRight ==
    ASSUME NEW kind, NEW rs, IsFiniteSet(rs), NEW n \in Nat, NEW top \in N!Firsts(kind, rs, n)
    PROVE  /\ top \in SUBSET rs /\ IsFiniteSet(top) /\ Cardinality(top) \in Nat /\ Cardinality(rs) \in Nat
           /\ Cardinality(top) <= n
           /\ Cardinality(top) = n \/ top = rs
           /\ Cardinality(rs) <= n => top = rs
           /\ \A a \in top, b \in rs \ top : IF kind = "activity" THEN N!Before(b, a) ELSE b.at <= a.at
<1>1. /\ top \in SUBSET rs
      /\ Cardinality(top) = IF n < Cardinality(rs) THEN n ELSE Cardinality(rs)
      /\ \A a \in top, b \in rs \ top : IF kind = "activity" THEN N!Before(b, a) ELSE b.at <= a.at
  BY DEF N!Firsts, N!Cardinality, Cardinality
<1>2. IsFiniteSet(top) /\ Cardinality(top) \in Nat /\ Cardinality(rs) \in Nat
      /\ (Cardinality(top) = Cardinality(rs) => top = rs)
  BY <1>1, FS_Subset, FS_CardinalityType
<1>. QED
  BY <1>1, <1>2

\* What an answer leaves of the walk w, the listing being rs.
GivenAs(q, w, rs, page, more) ==
    /\ q.kind = w.kind /\ w.page \in Nat /\ q.page = w.page + 1
    /\ q.pc = IF more THEN "reading" ELSE "done"
    /\ q.cursor = IF page = {} THEN {} ELSE N!Last(page)
    /\ q.stayed = IF w.pc = "idle" THEN {row.id : row \in InOf(rs)} ELSE w.stayed
    /\ q.late <=> (w.kind = "pages" /\ w.total < Cardinality(InOf(rs)))
    /\ \A p \in 1..w.page : q.given[p] = w.given[p]
    /\ q.given[q.page] = {row.id : row \in page}
    /\ GivenBy(q) = GivenBy(w) \cup {row.id : row \in page}
    /\ (page # {} => N!Last(page) \subseteq N!Rows) => q \in N!Walks

LEMMA GiveLeaves ==
    ASSUME ListInv, walk.page < N!MaxPages, NEW page \in SUBSET InOf(listed), NEW more \in BOOLEAN,
           N!Give(page, more)
    PROVE  GivenAs(walk', walk, listed, page, more)
<1>0. PICK q : q = walk'
  OBVIOUS
<1>. DEFINE lateNow == walk.kind = "pages" /\ walk.total < Cardinality(InOf(listed))
            idsNow == {row.id : row \in page}
            stayedNow == IF walk.pc = "idle" THEN {row.id : row \in InOf(listed)} ELSE walk.stayed
            cursorNow == IF page = {} THEN {} ELSE N!Last(page)
            pcNow == IF more THEN "reading" ELSE "done"
<1>1. walk' = [walk EXCEPT !.given[walk.page + 1] = idsNow, !.page = walk.page + 1, !.cursor = cursorNow,
                           !.stayed = stayedNow, !.late = lateNow, !.pc = pcNow]
  BY ListNamed, Zenon DEF N!Give, N!Cardinality, Cardinality
<1>2. lateNow \in BOOLEAN
  OBVIOUS
<1>3. PICK late, ids, stayed, cursor, pc :
         /\ late \in BOOLEAN /\ late = lateNow /\ ids = idsNow /\ stayed = stayedNow /\ cursor = cursorNow /\ pc = pcNow
  BY <1>2, Zenon
<1>4. late <=> (walk.kind = "pages" /\ walk.total < Cardinality(InOf(listed)))
  BY <1>3, Zenon
<1>5. PICK n, k, w, given : n = walk.page + 1 /\ k = N!MaxPages /\ w = walk /\ given = [w.given EXCEPT ![n] = ids]
  BY Zenon
<1>6. q = [w EXCEPT !.given = given, !.page = n, !.cursor = cursor, !.stayed = stayed, !.late = late, !.pc = pc]
  <2>. HIDE DEF lateNow, idsNow, stayedNow, cursorNow, pcNow
  <2>. QED
    BY <1>0, <1>1, <1>3, <1>5, Zenon
<1>7. /\ w \in N!Walks /\ w.page \in Nat /\ k \in Nat /\ w.page < k /\ n = w.page + 1 /\ listed \subseteq N!Rows
  BY <1>5, MaxPagesRight DEF ListInv, N!Walks, RowsRight
<1>8. w.given \in [1..k -> SUBSET RowIds] /\ n \in 1..k
  BY <1>5, <1>7 DEF N!Walks
<1>9. ids \in SUBSET RowIds /\ pc \in {"reading", "done"}
  BY <1>3, <1>7 DEF N!Rows, InOf
<1>10. stayed \in SUBSET RowIds
  BY <1>3, <1>5, <1>7 DEF N!Rows, InOf, N!Walks
<1>11. given \in [1..k -> SUBSET RowIds] /\ given[n] = ids /\ \A p \in 1..k : p # n => given[p] = w.given[p]
  BY <1>5, <1>8, <1>9, Zenon
<1>12. /\ q.kind = w.kind /\ q.page = n /\ q.pc = pc /\ q.cursor = cursor /\ q.stayed = stayed /\ q.late = late
       /\ q.given = given
  BY <1>6, <1>7 DEF N!Walks
<1>13. ASSUME page # {} => N!Last(page) \subseteq N!Rows PROVE q \in N!Walks
  <2>1. cursor \in SUBSET N!Rows
    BY <1>3, <1>13
  <2>2. given \in [1..N!MaxPages -> SUBSET RowIds] /\ n \in Nat
    BY <1>5, <1>7, <1>11
  <2>3. late \in BOOLEAN
    BY <1>3
  <2>. QED
    BY <1>6, <1>7, <1>9, <1>10, <2>1, <2>2, <2>3, Zenon DEF N!Walks
<1>14. \A p \in 1..w.page : q.given[p] = w.given[p] /\ p \in 1..n /\ p # n
  BY <1>7, <1>8, <1>11, <1>12
<1>15. \A p \in 1..n : p \in 1..w.page \/ p = n
  BY <1>7
<1>16. GivenBy(q) = GivenBy(w) \cup ids
  BY <1>8, <1>11, <1>12, <1>14, <1>15 DEF GivenBy
<1>17. /\ q.kind = walk.kind /\ q.page = walk.page + 1 /\ walk.page \in Nat
       /\ \A p \in 1..walk.page : q.given[p] = walk.given[p]
  BY <1>5, <1>7, <1>12, <1>14
<1>18. /\ q.pc = pcNow /\ q.cursor = cursorNow /\ q.stayed = stayedNow
       /\ q.given[q.page] = idsNow /\ GivenBy(q) = GivenBy(walk) \cup idsNow
  <2>. HIDE DEF idsNow, stayedNow, cursorNow, pcNow
  <2>. QED
    BY <1>3, <1>5, <1>11, <1>12, <1>16
<1>19. q.late <=> (walk.kind = "pages" /\ walk.total < Cardinality(InOf(listed)))
  BY <1>4, <1>12
<1>20. GivenAs(q, walk, listed, page, more)
  BY <1>13, <1>17, <1>18, <1>19 DEF GivenAs
<1>. QED
  BY <1>0, <1>20

(***************************************************************************)
(* A page by cursor: what stayed is given, excused, or after the row the   *)
(* page ends with.                                                         *)
(***************************************************************************)
LEMMA CursorGives ==
    ASSUME ListInv, walk.kind \in {"activity", "repos"}, N!Reading,
           NEW page \in N!Firsts(walk.kind, N!Eligible(walk.kind), Limit), NEW more \in BOOLEAN,
           more => page # {}, ~more => page = N!Eligible(walk.kind),
           N!Give(page, more), now' = now, listed' = listed
    PROVE  ListInv'
<1>1. PICK w, q, rs : w = walk /\ q = walk' /\ rs = listed
  OBVIOUS
<1>2. /\ RowsRight(rs) /\ w \in N!Walks /\ WalkRight(rs, w) /\ w.pc \in {"idle", "reading"} /\ w.page < N!MaxPages
      /\ w.kind \in {"activity", "repos"}
  BY <1>1 DEF ListInv, N!Reading
<1>3. PICK left : left = N!Eligible(w.kind)
  OBVIOUS
<1>4. left = {row \in InOf(rs) : \A c \in w.cursor : After(w.kind, row, c)}
  <2>1. CASE w.kind = "activity"
    BY <1>1, <1>3, <2>1, ListNamed DEF N!Eligible, After
  <2>2. CASE w.kind = "repos"
    BY <1>1, <1>3, <2>2, ListNamed DEF N!Eligible, After
  <2>. QED
    BY <1>2, <2>1, <2>2
<1>5. /\ left \subseteq rs /\ InOf(rs) \subseteq rs /\ rs \subseteq N!Rows /\ IsFiniteSet(left)
      /\ \A a, b \in rs : a.id = b.id => a = b
  <2>1. left \in SUBSET rs /\ InOf(rs) \subseteq rs
    BY <1>4 DEF InOf
  <2>. QED
    BY <1>2, <2>1, FS_Subset DEF RowsRight
<1>6. /\ page \subseteq left
      /\ \A a \in page, b \in left \ page : IF w.kind = "activity" THEN N!Before(b, a) ELSE b.at <= a.at
  BY <1>1, <1>3, <1>5, FirstsRight, ListingOK
<1>7. /\ q.kind = w.kind /\ q.page = w.page + 1 /\ w.page \in Nat
      /\ q.pc = IF more THEN "reading" ELSE "done"
      /\ q.cursor = IF page = {} THEN {} ELSE N!Last(page)
      /\ q.stayed = IF w.pc = "idle" THEN {row.id : row \in InOf(rs)} ELSE w.stayed
      /\ \A p \in 1..w.page : q.given[p] = w.given[p]
      /\ q.given[q.page] = {row.id : row \in page}
      /\ GivenBy(q) = GivenBy(w) \cup {row.id : row \in page}
      /\ (page # {} => N!Last(page) \subseteq N!Rows) => q \in N!Walks
  <2>1. page \in SUBSET InOf(listed) /\ walk.page < N!MaxPages
    BY <1>1, <1>2, <1>4, <1>6
  <2>2. GivenAs(walk', walk, listed, page, more)
    BY <2>1, GiveLeaves, Zenon
  <2>3. GivenAs(q, w, rs, page, more)
    BY <1>1, <2>2
  <2>. QED
    BY <2>3 DEF GivenAs
\* Before the page: what stayed is given, excused or still to come, and what
\* is to come is not given.
<1>8. ASSUME NEW row \in rs, row.id \in q.stayed
      PROVE  row.id \in GivenBy(w) \/ (w.kind = "repos" /\ row.id \in TiedIn(rs)) \/ row \in left
  <2>1. q.stayed \subseteq {r.id : r \in InOf(rs)}
    BY <1>2, <1>7 DEF WalkRight
  <2>2. row \in InOf(rs)
    BY <1>5, <1>8, <2>1
  <2>3. CASE w.pc = "idle"
    BY <1>2, <1>4, <2>2, <2>3 DEF WalkRight
  <2>4. CASE w.pc = "reading"
    <3>1. PICK c \in N!Rows : CursorRight(rs, w, c)
      BY <1>2, <2>4 DEF WalkRight
    <3>2. row.id \in w.stayed
      BY <1>7, <1>8, <2>4
    <3>. QED
      BY <1>4, <2>2, <3>1, <3>2 DEF CursorRight
  <2>. QED
    BY <1>2, <2>3, <2>4
<1>9. ASSUME NEW row \in left PROVE row.id \notin GivenBy(w)
  <2>1. CASE w.pc = "idle"
    BY <1>2, <2>1 DEF WalkRight, GivenBy
  <2>2. CASE w.pc = "reading"
    <3>1. PICK c \in N!Rows : CursorRight(rs, w, c)
      BY <1>2, <2>2 DEF WalkRight
    <3>. QED
      BY <1>4, <1>5, <3>1 DEF CursorRight
  <2>. QED
    BY <1>2, <2>1, <2>2
<1>10. ASSUME page # {}
       PROVE  \E c \in page : N!Last(page) = {c} /\ \A row \in page : row = c \/ N!Before(c, row)
  <2>1. page \in SUBSET N!Rows /\ \A a, b \in page : a.id = b.id => a = b
    BY <1>5, <1>6
  <2>. QED
    BY <1>10, <2>1, LastRight
<1>11. q \in N!Walks
  BY <1>5, <1>6, <1>7, <1>10
<1>12. ASSUME more PROVE \E c \in N!Rows : CursorRight(rs, q, c)
  <2>1. PICK c \in page : N!Last(page) = {c} /\ \A row \in page : row = c \/ N!Before(c, row)
    BY <1>10, <1>12
  <2>2. c \in left /\ c \in rs /\ c \in N!Rows /\ q.cursor = {c}
    BY <1>5, <1>6, <1>7, <1>12, <2>1
  <2>3. ASSUME NEW row \in rs, row.id \in q.stayed
        PROVE  \/ row.id \in GivenBy(q)
               \/ q.kind = "repos" /\ row.id \in TiedIn(rs)
               \/ After(q.kind, row, c)
    <3>1. CASE row \in page
      BY <1>7, <3>1
    <3>2. CASE row \in left \ page
      <4>1. IF w.kind = "activity" THEN N!Before(row, c) ELSE row.at <= c.at
        BY <1>6, <3>2
      <4>2. CASE w.kind = "activity"
        BY <1>7, <4>1, <4>2 DEF After
      <4>3. CASE w.kind = "repos" /\ row.at = c.at
        <5>1. row.id # c.id
          BY <1>5, <2>1, <2>2, <3>2
        <5>2. row.id \in TiedIn(rs)
          BY <2>2, <4>3, <5>1 DEF TiedIn
        <5>. QED
          BY <1>7, <4>3, <5>2
      <4>4. CASE w.kind = "repos" /\ row.at # c.at
        <5>1. row.at \in Nat /\ c.at \in Nat
          BY <1>5, <2>2, RowNumbers
        <5>2. row.at < c.at
          BY <4>1, <4>4, <5>1
        <5>. QED
          BY <1>7, <4>4, <5>2 DEF After
      <4>. QED
        BY <1>2, <4>2, <4>3, <4>4
    <3>3. CASE row \notin left
      BY <1>7, <1>8, <2>3, <3>3, Zenon
    <3>. QED
      BY <3>1, <3>2, <3>3
  <2>4. ASSUME NEW row \in rs, row.id \in GivenBy(q) PROVE ~After(q.kind, row, c)
    <3>1. row \in N!Rows
      BY <1>5
    <3>2. CASE row.id \in GivenBy(w)
      <4>1. w.pc = "reading"
        BY <1>2, <3>2 DEF WalkRight, GivenBy
      <4>2. PICK d \in N!Rows : CursorRight(rs, w, d)
        BY <1>2, <4>1 DEF WalkRight
      <4>3. ~After(w.kind, row, d) /\ After(w.kind, c, d)
        BY <1>4, <2>2, <3>2, <4>2 DEF CursorRight
      <4>4. row.at \in Nat /\ c.at \in Nat /\ d.at \in Nat
        BY <2>2, <3>1, RowNumbers
      <4>. QED
        BY <1>7, <2>2, <3>1, <4>3, <4>4, BeforeIsAnOrder DEF After
    <3>3. CASE row.id \notin GivenBy(w)
      <4>1. row \in page
        BY <1>5, <1>6, <1>7, <2>4, <3>3
      <4>2. row = c \/ N!Before(c, row)
        BY <2>1, <4>1
      <4>3. row.at \in Nat /\ c.at \in Nat
        BY <2>2, <3>1, RowNumbers
      <4>. QED
        BY <2>2, <3>1, <4>2, <4>3, BeforeIsAnOrder DEF After
    <3>. QED
      BY <3>2, <3>3
  <2>. QED
    BY <2>2, <2>3, <2>4 DEF CursorRight
<1>13. ASSUME ~more, NEW id \in q.stayed PROVE id \in GivenBy(q) \/ (q.kind = "repos" /\ id \in TiedIn(rs))
  <2>1. PICK row \in rs : row.id = id
    BY <1>2, <1>5, <1>7, <1>13 DEF WalkRight
  <2>2. page = left
    BY <1>1, <1>3, <1>13
  <2>. QED
    BY <1>7, <1>8, <1>13, <2>1, <2>2
<1>14. ASSUME NEW p \in 1..q.page, NEW r \in 1..q.page, p # r PROVE q.given[p] \cap q.given[r] = {}
  <2>1. \A k \in 1..q.page : k \in 1..w.page \/ k = q.page
    BY <1>7
  <2>2. \A k \in 1..w.page : q.given[k] \cap q.given[q.page] = {}
    BY <1>6, <1>7, <1>9 DEF GivenBy
  <2>3. \A k, l \in 1..w.page : k # l => q.given[k] \cap q.given[l] = {}
    BY <1>2, <1>7 DEF WalkRight
  <2>. QED
    BY <1>14, <2>1, <2>2, <2>3
<1>15. /\ GivenBy(q) \subseteq {row.id : row \in rs}
       /\ q.stayed \subseteq {row.id : row \in InOf(rs)}
       /\ q.page <= N!MaxPages
  BY <1>2, <1>5, <1>6, <1>7, MaxPagesRight DEF WalkRight
<1>16. WalkRight(rs, q)
  BY <1>2, <1>7, <1>12, <1>13, <1>14, <1>15, Zenon DEF WalkRight
<1>. QED
  BY <1>1, <1>2, <1>11, <1>16 DEF ListInv

\* The activity: one row more than the page tells that there are more.
LEMMA ActivityReads == ASSUME ListInv, N!ReadActivity PROVE ListInv'
<1>1. /\ N!Reading /\ walk.kind = "activity" /\ now' = now /\ listed' = listed
      /\ \E page \in N!Firsts("activity", N!Eligible("activity"), Limit) :
            N!Give(page, N!Cardinality(N!Eligible("activity")) > Limit)
  BY DEF N!ReadActivity
<1>2. PICK page \in N!Firsts(walk.kind, N!Eligible(walk.kind), Limit) :
         N!Give(page, Cardinality(N!Eligible(walk.kind)) > Limit)
  BY <1>1, Zenon DEF N!Cardinality, Cardinality
<1>. DEFINE moreNow == Cardinality(N!Eligible(walk.kind)) > Limit
<1>3. moreNow \in BOOLEAN
  OBVIOUS
<1>4. PICK more \in BOOLEAN : more = moreNow
  BY <1>3, Zenon
<1>5. N!Give(page, more)
  <2>1. N!Give(page, moreNow)
    BY <1>2
  <2>. HIDE DEF moreNow
  <2>. QED
    BY <1>4, <2>1, Zenon
<1>6. (more => page # {}) /\ (~more => page = N!Eligible(walk.kind))
  <2>1. N!Eligible(walk.kind) \in SUBSET listed /\ IsFiniteSet(listed)
    BY <1>1, ListNamed DEF N!Eligible, InOf, ListInv, RowsRight
  <2>2. IsFiniteSet(N!Eligible(walk.kind))
    BY <2>1, FS_Subset
  <2>3. PICK left : left = N!Eligible(walk.kind)
    OBVIOUS
  <2>4. /\ Cardinality(page) \in Nat /\ Cardinality(left) \in Nat /\ Limit \in Nat \ {0}
        /\ Cardinality(page) = Limit \/ page = left
        /\ Cardinality(left) <= Limit => page = left
    BY <1>2, <2>2, <2>3, FirstsRight, ListingOK
  <2>5. page = {} => Cardinality(page) = 0
    BY FS_EmptySet
  <2>6. more <=> Cardinality(left) > Limit
    BY <1>4, <2>3, Zenon
  <2>. QED
    BY <2>3, <2>4, <2>5, <2>6
<1>. QED
  BY <1>1, <1>5, <1>6, CursorGives

\* The repositories: a full page tells that there may be more.
LEMMA ReposRead == ASSUME ListInv, N!ReadRepos PROVE ListInv'
<1>1. /\ N!Reading /\ walk.kind = "repos" /\ now' = now /\ listed' = listed
      /\ \E page \in N!Firsts("repos", N!Eligible("repos"), Limit) :
            N!Give(page, N!Cardinality(page) = Limit)
  BY DEF N!ReadRepos
<1>2. PICK page \in N!Firsts(walk.kind, N!Eligible(walk.kind), Limit) : N!Give(page, Cardinality(page) = Limit)
  BY <1>1, Zenon DEF N!Cardinality, Cardinality
<1>. DEFINE moreNow == Cardinality(page) = Limit
<1>3. moreNow \in BOOLEAN
  OBVIOUS
<1>4. PICK more \in BOOLEAN : more = moreNow
  BY <1>3, Zenon
<1>5. N!Give(page, more)
  <2>1. N!Give(page, moreNow)
    BY <1>2
  <2>. HIDE DEF moreNow
  <2>. QED
    BY <1>4, <2>1, Zenon
<1>6. (more => page # {}) /\ (~more => page = N!Eligible(walk.kind))
  <2>1. N!Eligible(walk.kind) \in SUBSET listed /\ IsFiniteSet(listed)
    BY <1>1, ListNamed DEF N!Eligible, InOf, ListInv, RowsRight
  <2>2. IsFiniteSet(N!Eligible(walk.kind))
    BY <2>1, FS_Subset
  <2>3. PICK left : left = N!Eligible(walk.kind)
    OBVIOUS
  <2>4. Limit \in Nat \ {0} /\ (Cardinality(page) = Limit \/ page = left)
    BY <1>2, <2>2, <2>3, FirstsRight, ListingOK
  <2>5. page = {} => Cardinality(page) = 0
    BY FS_EmptySet
  <2>6. more <=> Cardinality(page) = Limit
    BY <1>4, Zenon
  <2>. QED
    BY <2>3, <2>4, <2>5, <2>6
<1>. QED
  BY <1>1, <1>5, <1>6, CursorGives

(***************************************************************************)
(* By page number.  What stayed and was not given has as many newer rows   *)
(* as the pages so far have room for, and a page does not change that; in  *)
(* the end there are not so many rows.                                     *)
(***************************************************************************)
LEMMA NewerAreFewer ==
    ASSUME NEW rs, RowsRight(rs), NEW row \in InOf(rs)
    PROVE  /\ IsFiniteSet(InOf(rs)) /\ Cardinality(InOf(rs)) \in Nat
           /\ IsFiniteSet(Newer(rs, row)) /\ Cardinality(Newer(rs, row)) \in Nat
           /\ row \notin Newer(rs, row)
           /\ Cardinality(Newer(rs, row) \cup {row}) = Cardinality(Newer(rs, row)) + 1
           /\ Cardinality(Newer(rs, row)) + 1 <= Cardinality(InOf(rs))
<1>1. InOf(rs) \in SUBSET rs /\ IsFiniteSet(rs) /\ Newer(rs, row) \in SUBSET InOf(rs)
  BY DEF RowsRight, InOf, Newer
<1>2. IsFiniteSet(InOf(rs)) /\ Cardinality(InOf(rs)) \in Nat
  BY <1>1, FS_Subset, FS_CardinalityType
<1>3. IsFiniteSet(Newer(rs, row)) /\ Cardinality(Newer(rs, row)) \in Nat
  BY <1>1, <1>2, FS_Subset, FS_CardinalityType
<1>4. row.at \in Nat /\ row \notin Newer(rs, row)
  BY RowNumbers DEF RowsRight, InOf, Newer
<1>5. Cardinality(Newer(rs, row) \cup {row}) = Cardinality(Newer(rs, row)) + 1
  BY <1>3, <1>4, FS_AddElement, Zenon
<1>6. Newer(rs, row) \cup {row} \in SUBSET InOf(rs)
  BY <1>1
<1>7. Cardinality(Newer(rs, row) \cup {row}) <= Cardinality(InOf(rs))
  BY <1>2, <1>6, FS_Subset
<1>. QED
  BY <1>2, <1>3, <1>4, <1>5, <1>7

LEMMA PageGives ==
    ASSUME NEW rs, RowsRight(rs), Clean(rs), NEW m \in Nat, NEW n \in Nat,
           NEW upto \in N!Firsts("pages", InOf(rs), n), NEW skipped \in N!Firsts("pages", upto, m),
           NEW row \in InOf(rs), Cardinality(Newer(rs, row)) >= m, row \notin upto \ skipped
    PROVE  Cardinality(Newer(rs, row)) >= n
<1>1. /\ IsFiniteSet(InOf(rs)) /\ IsFiniteSet(Newer(rs, row)) /\ Cardinality(Newer(rs, row)) \in Nat
      /\ row \notin Newer(rs, row) /\ Cardinality(Newer(rs, row) \cup {row}) = Cardinality(Newer(rs, row)) + 1
  BY NewerAreFewer
<1>2. /\ upto \in SUBSET InOf(rs) /\ IsFiniteSet(upto)
      /\ Cardinality(upto) = n \/ upto = InOf(rs)
      /\ \A a \in upto, b \in InOf(rs) \ upto : b.at <= a.at
  BY <1>1, FirstsRight
<1>3. /\ skipped \in SUBSET upto /\ IsFiniteSet(skipped) /\ Cardinality(skipped) \in Nat /\ Cardinality(skipped) <= m
      /\ \A a \in skipped, b \in upto \ skipped : b.at <= a.at
  BY <1>2, FirstsRight
<1>4. \A a \in InOf(rs) : a.at \in Nat /\ (a = row \/ a.at # row.at)
  <2>1. InOf(rs) \subseteq rs
    BY DEF InOf
  <2>2. ASSUME NEW a \in InOf(rs), a # row PROVE a.at # row.at
    <3>1. a.id # row.id
      BY <2>1, <2>2 DEF RowsRight
    <3>. QED
      BY <2>1, <3>1 DEF Clean, TiedIn
  <2>3. \A a \in InOf(rs) : a.at \in Nat
    BY <2>1, RowNumbers DEF RowsRight
  <2>. QED
    BY <2>2, <2>3
<1>5. row \notin skipped
  <2>1. SUFFICES ASSUME row \in skipped PROVE FALSE
    OBVIOUS
  <2>2. Newer(rs, row) \cup {row} \in SUBSET skipped
    <3>1. ASSUME NEW a \in Newer(rs, row) PROVE a \in skipped
      <4>1. a \in InOf(rs) /\ row.at < a.at /\ row.at \in Nat /\ a.at \in Nat
        BY <1>4 DEF Newer
      <4>2. ~(a.at <= row.at)
        BY <4>1
      <4>. QED
        BY <1>2, <1>3, <2>1, <4>1, <4>2
    <3>. QED
      BY <2>1, <3>1
  <2>3. Cardinality(Newer(rs, row) \cup {row}) <= Cardinality(skipped)
    BY <1>3, <2>2, FS_Subset
  <2>. QED
    BY <1>1, <1>3, <2>3
<1>6. row \notin upto
  BY <1>5
<1>7. upto \in SUBSET Newer(rs, row)
  <2>1. ASSUME NEW a \in upto PROVE a \in Newer(rs, row)
    <3>1. a \in InOf(rs) /\ row.at <= a.at /\ a # row
      BY <1>2, <1>6
    <3>2. row.at < a.at
      BY <1>4, <3>1
    <3>. QED
      BY <3>1, <3>2 DEF Newer
  <2>. QED
    BY <2>1
<1>8. Cardinality(upto) <= Cardinality(Newer(rs, row))
  BY <1>1, <1>7, FS_Subset
<1>. QED
  BY <1>1, <1>2, <1>6, <1>8

LEMMA PagesCount == ASSUME ListInv, N!Count PROVE ListInv'
<1>1. /\ walk.kind = "pages" /\ walk.pc \in {"idle", "reading"} /\ walk.page < N!MaxPages
      /\ now' = now /\ listed' = listed
      /\ walk' = [walk EXCEPT !.pc = "counted", !.total = Cardinality(InOf(listed)),
                              !.stayed = IF walk.pc = "idle" THEN {row.id : row \in InOf(listed)} ELSE walk.stayed]
  BY ListNamed, Zenon DEF N!Count, N!Reading, N!Cardinality, Cardinality
<1>2. PICK w, rs, total, stayed :
         /\ w = walk /\ rs = listed /\ total = Cardinality(InOf(listed))
         /\ stayed = IF walk.pc = "idle" THEN {row.id : row \in InOf(listed)} ELSE walk.stayed
  BY Zenon
<1>3. PICK q : q = walk' /\ q = [w EXCEPT !.pc = "counted", !.total = total, !.stayed = stayed]
  BY <1>1, <1>2, Zenon
<1>4. RowsRight(rs) /\ w \in N!Walks /\ WalkRight(rs, w) /\ w.page \in Nat
  BY <1>2 DEF ListInv, N!Walks
<1>5. total \in Nat
  <2>1. InOf(rs) \in SUBSET rs /\ IsFiniteSet(rs)
    BY <1>4 DEF RowsRight, InOf
  <2>. QED
    BY <1>2, <2>1, FS_Subset, FS_CardinalityType
<1>6. stayed \in SUBSET RowIds /\ stayed \subseteq {row.id : row \in InOf(rs)}
  BY <1>2, <1>4 DEF RowsRight, InOf, N!Rows, N!Walks, WalkRight
<1>7. q \in N!Walks
  BY <1>3, <1>4, <1>5, <1>6, Zenon DEF N!Walks
<1>8. /\ q.kind = w.kind /\ q.page = w.page /\ q.given = w.given /\ q.pc = "counted" /\ q.stayed = stayed
      /\ GivenBy(q) = GivenBy(w)
  BY <1>3, <1>4 DEF N!Walks, GivenBy
<1>9. ASSUME Clean(rs), NEW row \in rs, row.id \in q.stayed
      PROVE  row.id \in GivenBy(q) \/ Cardinality(Newer(rs, row)) >= q.page * Limit
  <2>1. CASE w.pc = "idle"
    <3>1. w.page = 0 /\ Limit \in Nat
      BY <1>4, <2>1, ListingOK DEF WalkRight
    <3>2. row \in InOf(rs)
      BY <1>4, <1>6, <1>8, <1>9 DEF RowsRight, InOf
    <3>3. Cardinality(Newer(rs, row)) \in Nat
      BY <1>4, <3>2, NewerAreFewer, Zenon
    <3>. QED
      BY <1>8, <3>1, <3>3
  <2>2. CASE w.pc = "reading"
    <3>1. row.id \in w.stayed
      BY <1>2, <1>8, <1>9, <2>2
    <3>. QED
      BY <1>1, <1>2, <1>4, <1>8, <1>9, <2>2, <3>1 DEF WalkRight
  <2>. QED
    BY <1>1, <1>2, <2>1, <2>2
<1>10. WalkRight(rs, q)
  BY <1>1, <1>2, <1>4, <1>6, <1>8, <1>9, Zenon DEF WalkRight
<1>. QED
  BY <1>1, <1>2, <1>3, <1>4, <1>7, <1>10 DEF ListInv

LEMMA PageRead == ASSUME ListInv, N!ReadPage PROVE ListInv'
<1>1. PICK w, rs, m, n : w = walk /\ rs = listed /\ m = walk.page * Limit /\ n = (walk.page + 1) * Limit
  OBVIOUS
<1>2. PICK upto \in N!Firsts("pages", InOf(rs), n) :
         \E skipped \in N!Firsts("pages", upto, m) : N!Give(upto \ skipped, n < walk.total)
  BY <1>1, ListNamed, Zenon DEF N!ReadPage
<1>2a. PICK skipped \in N!Firsts("pages", upto, m) : N!Give(upto \ skipped, n < walk.total)
  BY <1>2, Zenon
<1>3. w.pc = "counted" /\ now' = now /\ listed' = listed
  BY <1>1 DEF N!ReadPage
<1>4. /\ RowsRight(rs) /\ w \in N!Walks /\ WalkRight(rs, w) /\ w.page \in Nat /\ w.total \in Nat
      /\ w.kind = "pages" /\ w.page < N!MaxPages
  BY <1>1, <1>3 DEF ListInv, N!Walks, WalkRight
<1>5. m \in Nat /\ n \in Nat
  BY <1>1, <1>4, ListingOK
<1>6. InOf(rs) \subseteq rs /\ IsFiniteSet(InOf(rs)) /\ Cardinality(InOf(rs)) \in Nat
  <2>1. InOf(rs) \in SUBSET rs /\ IsFiniteSet(rs)
    BY <1>4 DEF RowsRight, InOf
  <2>. QED
    BY <2>1, FS_Subset, FS_CardinalityType
<1>7. PICK page : page = upto \ skipped
  BY Zenon
<1>8. page \in SUBSET InOf(rs)
  BY <1>5, <1>6, <1>7, FirstsRight
<1>. DEFINE moreNow == n < walk.total
<1>9. moreNow \in BOOLEAN
  OBVIOUS
<1>10. PICK more \in BOOLEAN : more = moreNow
  BY <1>9, Zenon
<1>11. N!Give(page, more)
  <2>1. N!Give(page, moreNow)
    BY <1>2a, <1>7
  <2>. HIDE DEF moreNow
  <2>. QED
    BY <1>10, <2>1, Zenon
<1>12. more <=> n < w.total
  BY <1>1, <1>10, Zenon
<1>13. PICK q : q = walk'
  OBVIOUS
<1>14. GivenAs(q, w, rs, page, more)
  <2>1. page \in SUBSET InOf(listed) /\ walk.page < N!MaxPages
    BY <1>1, <1>4, <1>8
  <2>2. GivenAs(walk', walk, listed, page, more)
    BY <1>11, <2>1, GiveLeaves, Zenon
  <2>. QED
    BY <1>1, <1>13, <2>2
<1>15. /\ q.kind = w.kind /\ q.page = w.page + 1 /\ q.page \in Nat /\ q.pc = IF more THEN "reading" ELSE "done"
       /\ q.stayed = w.stayed /\ GivenBy(q) = GivenBy(w) \cup {row.id : row \in page}
       /\ n = q.page * Limit
  BY <1>1, <1>3, <1>4, <1>14 DEF GivenAs
<1>16. q.late <=> w.total < Cardinality(InOf(rs))
  BY <1>4, <1>14 DEF GivenAs
<1>17. q \in N!Walks
  <2>1. ASSUME page # {} PROVE N!Last(page) \subseteq N!Rows
    <3>1. page \in SUBSET N!Rows /\ \A a, b \in page : a.id = b.id => a = b
      BY <1>4, <1>6, <1>8 DEF RowsRight
    <3>. QED
      BY <2>1, <3>1, LastRight
  <2>. QED
    BY <1>14, <2>1 DEF GivenAs
<1>18. ASSUME Clean(rs), NEW row \in rs, row.id \in q.stayed
       PROVE  row.id \in GivenBy(q) \/ Cardinality(Newer(rs, row)) >= n
  <2>1. row \in InOf(rs)
    BY <1>4, <1>15, <1>18 DEF WalkRight, RowsRight, InOf
  <2>2. row.id \in GivenBy(w) \/ Cardinality(Newer(rs, row)) >= m
    BY <1>1, <1>3, <1>4, <1>15, <1>18 DEF WalkRight
  <2>3. CASE row \in page
    BY <1>15, <2>3
  <2>4. CASE row \notin page /\ Cardinality(Newer(rs, row)) >= m
    BY <1>4, <1>5, <1>7, <1>18, <2>1, <2>4, PageGives
  <2>. QED
    BY <1>15, <2>2, <2>3, <2>4
<1>19. ASSUME Clean(rs), ~more, ~q.late, NEW id \in q.stayed PROVE id \in GivenBy(q)
  <2>1. PICK row \in InOf(rs) : row.id = id
    BY <1>4, <1>15, <1>19 DEF WalkRight
  <2>2. /\ Cardinality(Newer(rs, row)) \in Nat
        /\ Cardinality(Newer(rs, row)) + 1 <= Cardinality(InOf(rs))
    BY <1>4, <2>1, NewerAreFewer, Zenon
  <2>3. ~(n < w.total) /\ ~(w.total < Cardinality(InOf(rs)))
    BY <1>12, <1>16, <1>19
  <2>4. ~(Cardinality(Newer(rs, row)) >= n)
    BY <1>4, <1>5, <1>6, <2>2, <2>3
  <2>. QED
    BY <1>6, <1>18, <1>19, <2>1, <2>4
<1>20. WalkRight(rs, q)
  <2>1. /\ GivenBy(q) \subseteq {row.id : row \in rs}
        /\ q.stayed \subseteq {row.id : row \in InOf(rs)}
        /\ q.page <= N!MaxPages
    BY <1>4, <1>6, <1>8, <1>15, MaxPagesRight DEF WalkRight
  <2>2. ASSUME Clean(rs), q.pc \in {"reading", "counted"}
        PROVE  \A row \in rs : row.id \in q.stayed =>
                  row.id \in GivenBy(q) \/ Cardinality(Newer(rs, row)) >= q.page * Limit
    BY <1>15, <1>18, <2>2
  <2>3. ASSUME Clean(rs), q.pc = "done", ~q.late PROVE q.stayed \subseteq GivenBy(q)
    BY <1>15, <1>19, <2>3
  <2>4. q.pc \in {"reading", "done"} /\ q.kind = "pages"
    BY <1>4, <1>15
  <2>. QED
    BY <2>1, <2>2, <2>3, <2>4 DEF WalkRight
<1>. QED
  BY <1>1, <1>3, <1>4, <1>13, <1>17, <1>20 DEF ListInv

LEMMA ListStep == ListInv /\ [N!Next]_listingVars => ListInv'
<1>. SUFFICES ASSUME ListInv, [N!Next]_listingVars PROVE ListInv'
  OBVIOUS
<1>1. CASE N!Next
  BY <1>1, TimePasses, RowDraws, RowCommits, RowLeaves, ActivityReads, ReposRead, PagesCount, PageRead DEF N!Next
<1>2. CASE UNCHANGED listingVars
  <2>1. now' = now /\ listed' = listed /\ walk' = walk
    BY <1>2 DEF listingVars
  <2>. QED
    BY <2>1 DEF ListInv
<1>. QED
  BY <1>1, <1>2

(***************************************************************************)
(* A client that pages to the end is given every row that was there all    *)
(* the time, for any rows, dates and page size: the activity of a user     *)
(* without exception and none twice (musehub_events.py:302), repositories  *)
(* but for those of one date (musehub_repository.py:353), and pages by     *)
(* number when no row left, dates differ and none came between the last    *)
(* count and its page (musehub_events.py:159).                             *)
(***************************************************************************)
THEOREM WalksAlwaysCover == AllSpec => []WalksCover
<1>1. AllInit => ListInv
  BY ListStarts DEF AllInit
<1>2. ListInv /\ [AllNext]_allVars => ListInv'
  <2>1. [AllNext]_allVars => [N!Next]_listingVars
    BY DEF AllNext, Others, allVars
  <2>. QED
    BY <2>1, ListStep
<1>. QED
  BY <1>1, <1>2, ListSafe, PTL DEF AllSpec

-----------------------------------------------------------------------------
\* The bytes of the quota as cells of tables (Cells in CommitGraph_proofs).
Rounded == [o \in StoredObjects |-> 3 * ((ObjectSize[o] + 2) \div 3)]

BytesOf(ids) == Cardinality(Cells(ObjectSize, ids))

IncomingOf(ids) == Cardinality(Cells(Rounded, ids))

LEMMA SizesRight ==
    ASSUME NEW o \in StoredObjects
    PROVE  ObjectSize[o] \in Nat /\ Rounded[o] \in Nat /\ ObjectSize[o] <= Rounded[o]
<1>1. PICK n \in Nat : n = ObjectSize[o]
  BY QuotaOK
<1>2. 3 * ((n + 2) \div 3) \in Nat /\ n <= 3 * ((n + 2) \div 3)
  OBVIOUS
<1>. QED
  BY <1>1, <1>2 DEF Rounded

LEMMA BytesRight == ASSUME NEW ids \in SUBSET StoredObjects PROVE Q!Bytes(ids) = BytesOf(ids)
<1>1. Q!Bytes(ids) = (CHOOSE f : SumEquation(f, ids, ObjectSize))[ids]
  BY DEF Q!Bytes, Q!MapThenSumSet, Q!MapThenFoldSet, SumEquation, Picked
<1>2. IsFiniteSet(ids) /\ \A o \in ids : ObjectSize[o] \in Nat
  BY QuotaOK, FS_Subset
<1>3. \E f : SumEquation(f, ids, ObjectSize)
  BY <1>2, SumExists
<1>. QED
  BY <1>1, <1>2, <1>3, SumIsCells DEF BytesOf

LEMMA IncomingRight == ASSUME NEW ids \in SUBSET StoredObjects PROVE Q!Incoming(ids) = IncomingOf(ids)
<1>. DEFINE Eq(f) == f = [s \in SUBSET ids |->
                             IF s = {} THEN 0
                             ELSE 3 * ((ObjectSize[Picked(s)] + 2) \div 3) + f[s \ {Picked(s)}]]
<1>1. Q!Incoming(ids) = (CHOOSE f : Eq(f))[ids]
  BY DEF Q!Incoming, Q!MapThenSumSet, Q!MapThenFoldSet, Picked
<1>2. IsFiniteSet(ids) /\ \A o \in ids : Rounded[o] \in Nat
  BY QuotaOK, SizesRight, FS_Subset
<1>3. ASSUME NEW f PROVE Eq(f) <=> SumEquation(f, ids, Rounded)
  <2>1. \A s \in SUBSET ids : s # {} => Rounded[Picked(s)] = 3 * ((ObjectSize[Picked(s)] + 2) \div 3)
    BY PickedRight DEF Rounded
  <2>. QED
    BY <2>1, Zenon DEF SumEquation
<1>4. \E f : SumEquation(f, ids, Rounded)
  BY <1>2, SumExists
<1>5. \E f : Eq(f)
  BY <1>3, <1>4, Zenon
<1>. HIDE DEF Eq
<1>6. PICK f : f = (CHOOSE g : Eq(g)) /\ Eq(f)
  BY <1>5
<1>. QED
  BY <1>1, <1>2, <1>3, <1>6, SumIsCells DEF IncomingOf

-----------------------------------------------------------------------------
(***************************************************************************)
(* The quota.  A push that has passed the check had room for all it may    *)
(* insert, and has it still, unless a push into the same repositories was  *)
(* answered since it began.                                                *)
(***************************************************************************)
EndedOf(rq) == {r \in Storing : rq[r].pc \in {"ok", "refused", "error"}}

IntoOf(rq, u) == {r \in Storing : rq[r].pc = "ok" /\ StoreOwner[rq[r].repo] = u}

LiveOf(del, u) == {x \in Stores \ del : StoreOwner[x] = u}

HeldIn(rs, places) == {row.object : row \in {w \in rs : w.repo \in places}}

Fits(rs, del, u, more) == BytesOf(HeldIn(rs, LiveOf(del, u))) + IncomingOf(more) <= QuotaBytes

\* Somebody else pushed into the repositories of u, or a push was answered
\* into them which had not ended when q began.
PushExcused(rq, u, q) == \E a \in IntoOf(rq, u) : rq[a].user # u \/ a \notin q.before

StoreRight(rs, del, rq, q) ==
    /\ q.before \subseteq EndedOf(rq)
    /\ q.adds \subseteq q.objects
    /\ q.pc \in {"look", "writing"} =>
          \/ q.user # StoreOwner[q.repo]
          \/ PushExcused(rq, StoreOwner[q.repo], q)
          \/ Fits(rs, del, StoreOwner[q.repo], q.objects)

OverlapIn(rq, a, b) == a \notin rq[b].before /\ b \notin rq[a].before

WithinQuota(rs, del, rq, u) ==
    \/ BytesOf(HeldIn(rs, LiveOf(del, u))) <= QuotaBytes
    \/ \E a, b \in IntoOf(rq, u) : a # b /\ OverlapIn(rq, a, b)
    \/ \E a \in IntoOf(rq, u) : rq[a].user # u

QuotaInv ==
    /\ deleted \subseteq Stores /\ stored \subseteq Q!Rows /\ storing \in [Storing -> Q!RequestStates]
    /\ \A r \in Storing : StoreRight(stored, deleted, storing, storing[r])
    /\ \A u \in Pushers : WithinQuota(stored, deleted, storing, u)

LEMMA HeldRight ==
    ASSUME NEW rs \in SUBSET Q!Rows, NEW places
    PROVE  HeldIn(rs, places) \in SUBSET StoredObjects
BY DEF HeldIn, Q!Rows

LEMMA StoredRight ==
    ASSUME stored \subseteq Q!Rows, NEW places
    PROVE  Q!StoredIn(places) = BytesOf(HeldIn(stored, places))
<1>1. HeldIn(stored, places) \in SUBSET StoredObjects
  BY HeldRight
<1>2. Q!StoredIn(places) = Q!Bytes(HeldIn(stored, places))
  BY DEF Q!StoredIn, HeldIn
<1>. QED
  BY <1>1, <1>2, BytesRight

LEMMA NumbersRight ==
    ASSUME NEW ids \in SUBSET StoredObjects
    PROVE  /\ IsFiniteSet(ids) /\ BytesOf(ids) \in Nat /\ IncomingOf(ids) \in Nat
           /\ \A o \in ids : ObjectSize[o] \in Nat /\ Rounded[o] \in Nat /\ ObjectSize[o] <= Rounded[o]
<1>1. IsFiniteSet(ids)
  BY QuotaOK, FS_Subset
<1>2. \A o \in ids : ObjectSize[o] \in Nat /\ Rounded[o] \in Nat /\ ObjectSize[o] <= Rounded[o]
  BY SizesRight
<1>. QED
  BY <1>1, <1>2, CellsAreFinite DEF BytesOf, IncomingOf

LEMMA BytesGrow ==
    ASSUME NEW more \in SUBSET StoredObjects, NEW ids \in SUBSET more
    PROVE  BytesOf(ids) <= BytesOf(more) /\ BytesOf(ids) <= IncomingOf(more)
BY NumbersRight, CellsGrow DEF BytesOf, IncomingOf

LEMMA BytesTogether ==
    ASSUME NEW xs \in SUBSET StoredObjects, NEW ys \in SUBSET StoredObjects
    PROVE  BytesOf(xs \cup ys) <= BytesOf(xs) + BytesOf(ys)
BY NumbersRight, CellsTogether DEF BytesOf

LEMMA QuotaSafe == QuotaInv => QuotaHolds
<1>. SUFFICES ASSUME QuotaInv, NEW u \in Pushers
              PROVE  \/ Q!StoredIn({x \in Stores \ deleted : StoreOwner[x] = u}) <= QuotaBytes
                     \/ \E a, b \in Q!Into(u) : a # b /\ Q!Overlap(a, b)
                     \/ \E a \in Q!Into(u) : storing[a].user # u
  BY DEF QuotaHolds, Q!QuotaHolds
<1>1. Q!StoredIn({x \in Stores \ deleted : StoreOwner[x] = u}) = BytesOf(HeldIn(stored, LiveOf(deleted, u)))
  BY StoredRight DEF QuotaInv, LiveOf
<1>2. Q!Into(u) = IntoOf(storing, u) /\ \A a, b : Q!Overlap(a, b) <=> OverlapIn(storing, a, b)
  BY DEF Q!Into, IntoOf, Q!Overlap, OverlapIn
<1>3. WithinQuota(stored, deleted, storing, u)
  BY DEF QuotaInv
<1>. QED
  BY <1>1, <1>2, <1>3 DEF WithinQuota

LEMMA NoStoreRequest == /\ Q!NoRequest \in Q!RequestStates /\ Q!NoRequest.pc = "idle" /\ Q!NoRequest.before = {}
                        /\ Q!NoRequest.adds = {} /\ Q!NoRequest.objects = {}
<1>1. PICK u \in Pushers : u = CHOOSE v \in Pushers : TRUE
  BY QuotaOK
<1>2. PICK x \in Stores : x = CHOOSE y \in Stores : TRUE
  BY QuotaOK
<1>3. Q!NoRequest = [user |-> u, repo |-> x, objects |-> {}, adds |-> {}, pc |-> "idle", before |-> {}]
  BY <1>1, <1>2 DEF Q!NoRequest
<1>. QED
  BY <1>3 DEF Q!RequestStates

LEMMA QuotaStarts == Q!Init => QuotaInv
<1>. SUFFICES ASSUME Q!Init PROVE QuotaInv
  OBVIOUS
<1>1. deleted = {} /\ stored = {} /\ storing = [r \in Storing |-> Q!NoRequest]
  BY DEF Q!Init
<1>2. storing \in [Storing -> Q!RequestStates] /\ \A r \in Storing : storing[r] = Q!NoRequest
  BY <1>1, NoStoreRequest
<1>3. ASSUME NEW r \in Storing PROVE StoreRight(stored, deleted, storing, storing[r])
  BY <1>2, NoStoreRequest DEF StoreRight
<1>4. ASSUME NEW u \in Pushers PROVE WithinQuota(stored, deleted, storing, u)
  <2>1. HeldIn(stored, LiveOf(deleted, u)) = {}
    BY <1>1 DEF HeldIn
  <2>2. BytesOf({}) = 0
    <3>1. Cells(ObjectSize, {}) = {}
      BY DEF Cells
    <3>. QED
      BY <3>1, FS_EmptySet DEF BytesOf
  <2>. QED
    BY <2>1, <2>2, QuotaOK DEF WithinQuota
<1>. QED
  BY <1>1, <1>2, <1>3, <1>4 DEF QuotaInv

\* A step of r that leaves the rows and deletes no repository, and is not
\* answered ok.
LEMMA QuotaQuiet ==
    ASSUME QuotaInv, stored' = stored, deleted' = deleted,
           NEW r \in Storing, NEW q \in Q!RequestStates, storing' = [storing EXCEPT ![r] = q],
           storing[r].pc \notin {"ok", "refused", "error"}, q.pc # "ok",
           StoreRight(stored, deleted, storing, q)
    PROVE  QuotaInv'
<1>1. PICK was, rq : was = storing /\ rq = storing'
  OBVIOUS
<1>2. /\ was \in [Storing -> Q!RequestStates] /\ rq \in [Storing -> Q!RequestStates]
      /\ rq[r] = q /\ \A t \in Storing \ {r} : rq[t] = was[t]
  BY <1>1 DEF QuotaInv
<1>3. EndedOf(was) \subseteq EndedOf(rq)
  BY <1>1, <1>2 DEF EndedOf
<1>4. \A u : IntoOf(rq, u) = IntoOf(was, u) /\ r \notin IntoOf(was, u)
  BY <1>1, <1>2 DEF IntoOf
<1>5. \A u, p : PushExcused(rq, u, p) <=> PushExcused(was, u, p)
  BY <1>2, <1>4 DEF PushExcused, IntoOf
<1>6. ASSUME NEW p, StoreRight(stored, deleted, was, p) PROVE StoreRight(stored, deleted, rq, p)
  BY <1>3, <1>5, <1>6 DEF StoreRight
<1>7. ASSUME NEW t \in Storing PROVE StoreRight(stored, deleted, rq, rq[t])
  <2>1. StoreRight(stored, deleted, was, IF t = r THEN q ELSE was[t])
    BY <1>1 DEF QuotaInv
  <2>. QED
    BY <1>2, <1>6, <2>1
<1>8. ASSUME NEW u \in Pushers PROVE WithinQuota(stored, deleted, rq, u)
  <2>1. WithinQuota(stored, deleted, was, u)
    BY <1>1 DEF QuotaInv
  <2>2. \A a \in IntoOf(was, u) : rq[a] = was[a]
    BY <1>2, <1>4 DEF IntoOf
  <2>3. \A a, b \in IntoOf(was, u) : OverlapIn(rq, a, b) <=> OverlapIn(was, a, b)
    BY <2>2 DEF OverlapIn
  <2>. QED
    BY <1>4, <2>1, <2>2, <2>3 DEF WithinQuota
<1>. QED
  BY <1>1, <1>2, <1>7, <1>8, Zenon DEF QuotaInv

LEMMA QuotaBegins == ASSUME QuotaInv, NEW r \in Storing, Q!MusePush(r) PROVE QuotaInv'
<1>1. PICK p \in StorePushes :
         storing' = [storing EXCEPT ![r] = [Q!NoRequest EXCEPT !.user = p.user, !.repo = p.repo, !.objects = p.objects,
                                                               !.pc = "repo", !.before = Q!Ended]]
  BY Zenon DEF Q!MusePush
<1>2. stored' = stored /\ deleted' = deleted /\ storing[r].pc = "idle"
  BY DEF Q!MusePush, Q!IsNext
<1>3. PICK none : none = Q!NoRequest
  OBVIOUS
<1>4. none \in Q!RequestStates /\ none.adds = {}
  BY <1>3, NoStoreRequest
<1>5. Q!Ended = EndedOf(storing)
  BY DEF Q!Ended, EndedOf
<1>6. PICK q : q = [none EXCEPT !.user = p.user, !.repo = p.repo, !.objects = p.objects,
                                !.pc = "repo", !.before = Q!Ended]
  OBVIOUS
<1>7. p.user \in Pushers /\ p.repo \in Stores /\ p.objects \in SUBSET StoredObjects
  BY QuotaOK
<1>8. Q!Ended \subseteq Storing
  BY <1>5 DEF EndedOf
<1>9. q \in Q!RequestStates /\ q.pc = "repo" /\ q.before = EndedOf(storing) /\ q.adds = {}
  BY <1>4, <1>5, <1>6, <1>7, <1>8, Zenon DEF Q!RequestStates
<1>10. storing' = [storing EXCEPT ![r] = q]
  BY <1>1, <1>3, <1>6
<1>11. StoreRight(stored, deleted, storing, q)
  BY <1>9 DEF StoreRight
<1>. QED
  BY <1>2, <1>9, <1>10, <1>11, QuotaQuiet, Zenon

\* The steps that only move on.
LEMMA QuotaGoes ==
    ASSUME QuotaInv, NEW r \in Storing, NEW pc \in {"quota", "look", "refused", "error"}, Q!Goto(r, pc),
           storing[r].pc \notin {"ok", "refused", "error"},
           pc = "look" => \/ storing[r].user # StoreOwner[storing[r].repo]
                          \/ Fits(stored, deleted, StoreOwner[storing[r].repo], storing[r].objects)
    PROVE  QuotaInv'
<1>1. PICK p : p = storing[r]
  OBVIOUS
<1>2. p \in Q!RequestStates /\ StoreRight(stored, deleted, storing, p)
  BY <1>1 DEF QuotaInv
<1>3. PICK q : q = [p EXCEPT !.pc = pc]
  BY Zenon
<1>4. /\ q \in Q!RequestStates /\ q.pc = pc /\ q.user = p.user /\ q.repo = p.repo /\ q.objects = p.objects
      /\ q.adds = p.adds /\ q.before = p.before
  BY <1>2, <1>3 DEF Q!RequestStates
<1>5. storing' = [storing EXCEPT ![r] = q] /\ stored' = stored /\ deleted' = deleted
  BY <1>1, <1>3 DEF Q!Goto, QuotaInv
<1>6. StoreRight(stored, deleted, storing, q)
  BY <1>1, <1>2, <1>4 DEF StoreRight
<1>. QED
  BY <1>1, <1>4, <1>5, <1>6, QuotaQuiet, Zenon

LEMMA QuotaChecks == ASSUME QuotaInv, NEW r \in Storing, Q!CheckQuota(r) PROVE QuotaInv'
<1>1. PICK p : p = storing[r]
  OBVIOUS
<1>2. p \in Q!RequestStates /\ p.pc = "quota" /\ stored \subseteq Q!Rows
  BY <1>1 DEF QuotaInv, Q!CheckQuota
<1>. DEFINE full == Q!Used(p.user, p.repo) + Q!Incoming(p.objects) > QuotaBytes
<1>3. Q!Goto(r, IF full THEN "refused" ELSE "look")
  BY <1>1 DEF Q!CheckQuota
<1>4. PICK pc \in {"refused", "look"} : pc = IF full THEN "refused" ELSE "look"
  OBVIOUS
<1>5. Q!Used(p.user, p.repo) = BytesOf(HeldIn(stored, LiveOf(deleted, p.user)))
  BY <1>2, StoredRight DEF Q!Used, LiveOf
<1>6. p.objects \in SUBSET StoredObjects /\ HeldIn(stored, LiveOf(deleted, p.user)) \in SUBSET StoredObjects
  BY <1>2, HeldRight DEF Q!RequestStates
<1>7. Q!Incoming(p.objects) = IncomingOf(p.objects)
  BY <1>6, IncomingRight
<1>8. ASSUME pc = "look" PROVE Fits(stored, deleted, p.user, p.objects)
  <2>1. ~full
    BY <1>4, <1>8
  <2>2. BytesOf(HeldIn(stored, LiveOf(deleted, p.user))) \in Nat /\ IncomingOf(p.objects) \in Nat
    BY <1>6, NumbersRight
  <2>. QED
    BY <1>5, <1>7, <2>1, <2>2, QuotaOK DEF Fits
<1>. HIDE DEF full
<1>9. Q!Goto(r, pc)
  BY <1>3, <1>4
<1>. QED
  BY <1>1, <1>2, <1>4, <1>8, <1>9, QuotaGoes

LEMMA QuotaLooks == ASSUME QuotaInv, NEW r \in Storing, Q!Look(r) PROVE QuotaInv'
<1>1. PICK p : p = storing[r]
  OBVIOUS
<1>2. PICK adds : adds = {o \in p.objects : [object |-> o, repo |-> p.repo] \notin stored}
  BY Zenon
<1>3. /\ p \in Q!RequestStates /\ p.pc = "look" /\ StoreRight(stored, deleted, storing, p)
      /\ storing \in [Storing -> Q!RequestStates]
  BY <1>1 DEF QuotaInv, Q!Look
<1>4. PICK q : q = [p EXCEPT !.pc = "writing", !.adds = adds]
  OBVIOUS
<1>5. storing' = [storing EXCEPT ![r] = q] /\ stored' = stored /\ deleted' = deleted
  <2>1. storing' = [storing EXCEPT ![r].pc = "writing", ![r].adds = adds] /\ stored' = stored /\ deleted' = deleted
    BY <1>1, <1>2 DEF Q!Look
  <2>. QED
    BY <1>1, <1>3, <1>4, <2>1, Zenon
<1>6. /\ q \in Q!RequestStates /\ q.pc = "writing" /\ q.user = p.user /\ q.repo = p.repo /\ q.objects = p.objects
      /\ q.adds = adds /\ q.before = p.before /\ adds \subseteq q.objects
  BY <1>2, <1>3, <1>4, Zenon DEF Q!RequestStates
<1>7. StoreRight(stored, deleted, storing, q)
  <2>1. \A u : PushExcused(storing, u, p) => PushExcused(storing, u, q)
    BY <1>6 DEF PushExcused
  <2>. QED
    BY <1>3, <1>6, <2>1 DEF StoreRight
<1>. QED
  BY <1>1, <1>3, <1>5, <1>6, <1>7, QuotaQuiet, Zenon

\* The commit: r is answered, which excuses the others on their way into the
\* same repositories, and what it inserts fits.
LEMMA QuotaCommits == ASSUME QuotaInv, NEW r \in Storing, Q!Commit(r) PROVE QuotaInv'
<1>1. PICK p, was, rs, del : p = storing[r] /\ was = storing /\ rs = stored /\ del = deleted
  OBVIOUS
<1>2. /\ p \in Q!RequestStates /\ p.pc = "writing" /\ StoreRight(rs, del, was, p) /\ rs \in SUBSET Q!Rows
      /\ was \in [Storing -> Q!RequestStates] /\ del \subseteq Stores /\ was[r] = p
      /\ \A t \in Storing : StoreRight(rs, del, was, was[t])
      /\ \A u \in Pushers : WithinQuota(rs, del, was, u)
  BY <1>1 DEF QuotaInv, Q!Commit
<1>3. PICK q : q = [p EXCEPT !.pc = "ok", !.adds = {}]
  OBVIOUS
<1>4. PICK rq, to : rq = storing' /\ to = stored'
  OBVIOUS
<1>5. rq = [was EXCEPT ![r] = q] /\ deleted' = del
  <2>1. storing' = [storing EXCEPT ![r].pc = "ok", ![r].adds = {}] /\ deleted' = deleted
    BY DEF Q!Commit
  <2>. QED
    BY <1>1, <1>2, <1>3, <1>4, <2>1, Zenon
<1>6. to = rs \cup {[object |-> o, repo |-> p.repo] : o \in p.adds}
  BY <1>1, <1>4 DEF Q!Commit
<1>7. /\ q \in Q!RequestStates /\ q.pc = "ok" /\ q.user = p.user /\ q.repo = p.repo /\ q.objects = p.objects
      /\ q.adds = {} /\ q.before = p.before
  BY <1>2, <1>3, Zenon DEF Q!RequestStates
<1>8. /\ rq \in [Storing -> Q!RequestStates] /\ rq[r] = q /\ \A t \in Storing \ {r} : rq[t] = was[t]
  BY <1>2, <1>5, <1>7
<1>9. PICK v : v = StoreOwner[p.repo]
  OBVIOUS
<1>10. /\ p.repo \in Stores /\ p.objects \in SUBSET StoredObjects /\ p.adds \in SUBSET p.objects /\ v \in Pushers
  BY <1>2, <1>9, QuotaOK DEF Q!RequestStates, StoreRight
<1>11. to \in SUBSET Q!Rows
  BY <1>2, <1>6, <1>10 DEF Q!Rows
<1>12. EndedOf(was) \subseteq EndedOf(rq) /\ r \notin EndedOf(was)
  BY <1>2, <1>7, <1>8 DEF EndedOf
<1>13. /\ \A u : IntoOf(was, u) \subseteq IntoOf(rq, u) /\ r \notin IntoOf(was, u)
       /\ r \in IntoOf(rq, v)
  BY <1>2, <1>7, <1>8, <1>9 DEF IntoOf
<1>14. \A u : \A a \in IntoOf(was, u) : rq[a] = was[a] /\ a # r
  BY <1>8, <1>13 DEF IntoOf
<1>15. \A u, t : PushExcused(was, u, t) => PushExcused(rq, u, t)
  BY <1>13, <1>14 DEF PushExcused
\* The rows of other owners.
<1>16. ASSUME NEW u, u # v PROVE HeldIn(to, LiveOf(del, u)) = HeldIn(rs, LiveOf(del, u))
  <2>1. p.repo \notin LiveOf(del, u)
    BY <1>9, <1>16 DEF LiveOf
  <2>2. {w \in to : w.repo \in LiveOf(del, u)} = {w \in rs : w.repo \in LiveOf(del, u)}
    BY <1>6, <2>1
  <2>. QED
    BY <2>2 DEF HeldIn
<1>17. ASSUME NEW t \in Storing PROVE StoreRight(to, del, rq, rq[t])
  <2>1. CASE t = r
    BY <1>2, <1>7, <1>8, <1>12, <2>1 DEF StoreRight
  <2>2. CASE t # r
    <3>1. PICK g : g = was[t] /\ g = rq[t]
      BY <1>8, <2>2
    <3>2. StoreRight(rs, del, was, g)
      BY <1>2, <3>1, Zenon
    <3>3. ASSUME g.pc \in {"look", "writing"}, g.user = StoreOwner[g.repo],
                 ~PushExcused(rq, StoreOwner[g.repo], g)
          PROVE  Fits(to, del, StoreOwner[g.repo], g.objects)
      <4>1. r \notin g.before
        BY <1>12, <3>2 DEF StoreRight
      <4>2. StoreOwner[g.repo] # v
        BY <1>13, <3>3, <4>1 DEF PushExcused
      <4>3. Fits(rs, del, StoreOwner[g.repo], g.objects)
        BY <1>15, <3>2, <3>3 DEF StoreRight
      <4>. QED
        BY <1>16, <4>2, <4>3 DEF Fits
    <3>. QED
      BY <1>12, <3>1, <3>2, <3>3 DEF StoreRight
  <2>. QED
    BY <2>1, <2>2
<1>18. ASSUME NEW u \in Pushers, u # v PROVE WithinQuota(to, del, rq, u)
  <2>1. WithinQuota(rs, del, was, u)
    BY <1>2
  <2>2. \A a, b \in IntoOf(was, u) : OverlapIn(rq, a, b) <=> OverlapIn(was, a, b)
    BY <1>14 DEF OverlapIn
  <2>. QED
    BY <1>13, <1>14, <1>16, <1>18, <2>1, <2>2 DEF WithinQuota
<1>19. WithinQuota(to, del, rq, v)
  <2>1. CASE p.user # v
    BY <1>7, <1>8, <1>13, <2>1 DEF WithinQuota
  <2>2. CASE PushExcused(was, v, p)
    <3>1. PICK a \in IntoOf(was, v) : was[a].user # v \/ a \notin p.before
      BY <2>2 DEF PushExcused
    <3>2. a \in IntoOf(rq, v) /\ rq[a] = was[a] /\ a # r
      BY <1>13, <1>14
    <3>3. r \notin was[a].before
      <4>1. a \in Storing /\ StoreRight(rs, del, was, was[a])
        BY <1>2 DEF IntoOf
      <4>. QED
        BY <1>12, <4>1 DEF StoreRight
    <3>4. a \notin p.before => OverlapIn(rq, a, r)
      BY <1>7, <1>8, <3>2, <3>3 DEF OverlapIn
    <3>. QED
      BY <1>13, <3>1, <3>2, <3>4 DEF WithinQuota
  <2>3. CASE Fits(rs, del, v, p.objects)
    <3>1. PICK old, new : old = HeldIn(rs, LiveOf(del, v)) /\ new = HeldIn(to, LiveOf(del, v))
      OBVIOUS
    <3>2. new \subseteq old \cup p.adds
      <4>1. ASSUME NEW row \in to, row.repo \in LiveOf(del, v) PROVE row.object \in old \cup p.adds
        BY <1>6, <3>1, <4>1 DEF HeldIn
      <4>. QED
        BY <3>1, <4>1 DEF HeldIn
    <3>3. old \in SUBSET StoredObjects /\ new \in SUBSET StoredObjects /\ p.adds \in SUBSET StoredObjects
      BY <1>2, <1>10, <1>11, <3>1, HeldRight
    <3>4. BytesOf(new) <= BytesOf(old \cup p.adds)
      BY <3>2, <3>3, BytesGrow
    <3>5. BytesOf(old \cup p.adds) <= BytesOf(old) + BytesOf(p.adds)
      BY <3>3, BytesTogether
    <3>6. BytesOf(p.adds) <= IncomingOf(p.objects)
      BY <1>10, BytesGrow
    <3>7. /\ BytesOf(new) \in Nat /\ BytesOf(old) \in Nat /\ BytesOf(p.adds) \in Nat
          /\ BytesOf(old \cup p.adds) \in Nat /\ IncomingOf(p.objects) \in Nat /\ QuotaBytes \in Nat
      <4>1. old \cup p.adds \in SUBSET StoredObjects
        BY <3>3
      <4>. QED
        BY <1>10, <3>3, <4>1, NumbersRight, QuotaOK
    <3>8. BytesOf(old) + IncomingOf(p.objects) <= QuotaBytes
      BY <2>3, <3>1 DEF Fits
    <3>9. BytesOf(new) <= QuotaBytes
      BY <3>4, <3>5, <3>6, <3>7, <3>8
    <3>. QED
      BY <3>1, <3>9 DEF WithinQuota
  <2>. QED
    BY <1>2, <1>9, <2>1, <2>2, <2>3 DEF StoreRight
<1>. QED
  BY <1>2, <1>4, <1>5, <1>8, <1>11, <1>17, <1>18, <1>19, Zenon DEF QuotaInv

LEMMA QuotaDeletes == ASSUME QuotaInv, NEW x \in Stores, Q!DeleteRepo(x) PROVE QuotaInv'
<1>1. PICK rs, del, rq : rs = stored /\ del = deleted /\ rq = storing
  OBVIOUS
<1>2. stored' = rs /\ storing' = rq /\ deleted' = del \cup {x}
  BY <1>1 DEF Q!DeleteRepo
<1>3. /\ rs \in SUBSET Q!Rows /\ rq \in [Storing -> Q!RequestStates] /\ del \subseteq Stores
      /\ \A r \in Storing : StoreRight(rs, del, rq, rq[r])
      /\ \A u \in Pushers : WithinQuota(rs, del, rq, u)
  BY <1>1 DEF QuotaInv
<1>4. ASSUME NEW u
      PROVE  /\ BytesOf(HeldIn(rs, LiveOf(del \cup {x}, u))) <= BytesOf(HeldIn(rs, LiveOf(del, u)))
             /\ BytesOf(HeldIn(rs, LiveOf(del \cup {x}, u))) \in Nat /\ BytesOf(HeldIn(rs, LiveOf(del, u))) \in Nat
  <2>1. HeldIn(rs, LiveOf(del \cup {x}, u)) \in SUBSET HeldIn(rs, LiveOf(del, u))
    BY DEF HeldIn, LiveOf
  <2>2. HeldIn(rs, LiveOf(del, u)) \in SUBSET StoredObjects /\ HeldIn(rs, LiveOf(del \cup {x}, u)) \in SUBSET StoredObjects
    BY <1>3, HeldRight
  <2>. QED
    BY <2>1, <2>2, BytesGrow, NumbersRight, Zenon
<1>5. ASSUME NEW r \in Storing PROVE StoreRight(rs, del \cup {x}, rq, rq[r])
  <2>1. ASSUME NEW u, Fits(rs, del, u, rq[r].objects) PROVE Fits(rs, del \cup {x}, u, rq[r].objects)
    <3>1. rq[r].objects \in SUBSET StoredObjects
      BY <1>3 DEF Q!RequestStates
    <3>2. IncomingOf(rq[r].objects) \in Nat /\ QuotaBytes \in Nat
      BY <3>1, NumbersRight, QuotaOK
    <3>3. PICK low \in Nat, high \in Nat :
             /\ low = BytesOf(HeldIn(rs, LiveOf(del \cup {x}, u))) /\ high = BytesOf(HeldIn(rs, LiveOf(del, u)))
             /\ low <= high
      BY <1>4, Zenon
    <3>4. high + IncomingOf(rq[r].objects) <= QuotaBytes
      BY <2>1, <3>3 DEF Fits
    <3>5. low + IncomingOf(rq[r].objects) <= QuotaBytes
      BY <3>2, <3>3, <3>4
    <3>. QED
      BY <3>3, <3>5 DEF Fits
  <2>. QED
    BY <1>3, <2>1, Zenon DEF StoreRight
<1>6. ASSUME NEW u \in Pushers PROVE WithinQuota(rs, del \cup {x}, rq, u)
  <2>1. BytesOf(HeldIn(rs, LiveOf(del, u))) <= QuotaBytes => BytesOf(HeldIn(rs, LiveOf(del \cup {x}, u))) <= QuotaBytes
    <3>1. PICK low \in Nat, high \in Nat :
             /\ low = BytesOf(HeldIn(rs, LiveOf(del \cup {x}, u))) /\ high = BytesOf(HeldIn(rs, LiveOf(del, u)))
             /\ low <= high
      BY <1>4
    <3>2. high <= QuotaBytes => low <= QuotaBytes
      BY <3>1, QuotaOK
    <3>. QED
      BY <3>1, <3>2
  <2>. QED
    BY <1>3, <2>1 DEF WithinQuota
<1>. QED
  BY <1>2, <1>3, <1>5, <1>6, Zenon DEF QuotaInv

LEMMA QuotaStep == QuotaInv /\ [Q!Next]_quotaVars => QuotaInv'
<1>. SUFFICES ASSUME QuotaInv, [Q!Next]_quotaVars PROVE QuotaInv'
  OBVIOUS
<1>1. ASSUME NEW r \in Storing, Q!GetRepo(r) PROVE QuotaInv'
  <2>1. PICK pc \in {"refused", "quota"} : Q!Goto(r, pc)
    BY <1>1 DEF Q!GetRepo
  <2>2. storing[r].pc = "repo"
    BY <1>1 DEF Q!GetRepo
  <2>. QED
    BY <2>1, <2>2, QuotaGoes
<1>2. ASSUME NEW r \in Storing, Q!Fail(r) PROVE QuotaInv'
  BY <1>2, QuotaGoes DEF Q!Fail
<1>3. CASE Q!Next
  BY <1>1, <1>2, <1>3, QuotaBegins, QuotaChecks, QuotaLooks, QuotaCommits, QuotaDeletes DEF Q!Next
<1>4. CASE UNCHANGED quotaVars
  <2>1. deleted' = deleted /\ stored' = stored /\ storing' = storing
    BY <1>4 DEF quotaVars
  <2>. QED
    BY <2>1 DEF QuotaInv
<1>. QED
  BY <1>3, <1>4

(***************************************************************************)
(* What is stored in the repositories of a user stays within the quota     *)
(* (musehub_mcp_executor.py:1329), for any users, repositories, objects,   *)
(* sizes and pushes, unless two pushes into them overlapped or another     *)
(* user pushed into them.                                                  *)
(***************************************************************************)
THEOREM QuotaAlwaysHolds == AllSpec => []QuotaHolds
<1>1. AllInit => QuotaInv
  BY QuotaStarts DEF AllInit
<1>2. QuotaInv /\ [AllNext]_allVars => QuotaInv'
  <2>1. [AllNext]_allVars => [Q!Next]_quotaVars
    BY DEF AllNext, Others, allVars
  <2>. QED
    BY <2>1, QuotaStep
<1>. QED
  BY <1>1, <1>2, QuotaSafe, PTL DEF AllSpec

-----------------------------------------------------------------------------
(***************************************************************************)
(* The stash.  The invariant says of each request what the statements it   *)
(* has run establish: what it looks for was pushed; a pop that is past its *)
(* reading has the entries, or another request took them; what was         *)
(* answered deleted stays deleted.                                         *)
(***************************************************************************)
\* A request whose state is q.
StashRight(q) ==
    /\ q.kind # "push" => q.stash \in Pushed /\ q.pc # "idle"
    /\ q.pc \in {"looking", "reading"} => q.kind # "push"
    /\ q.kind = "pop" /\ q.pc \in {"writing", "ok"} => q.got \/ HandedOut(q.stash)
    /\ q.kind \in {"pop", "drop"} /\ q.pc = "ok" => q.stash \notin headers
    /\ q.before \subseteq Ended
    /\ q.kind = "pop" /\ q.pc \in {"reading", "writing", "ok"} =>
          \A p \in q.before : ~DonePop(p, q.stash)

StashInv ==
    /\ TypeOK
    /\ \A r \in Requests : StashRight(req[r])
    /\ \A s \in Pushed : StillThereOrHandedOut(s)

-----------------------------------------------------------------------------
(***************************************************************************)
(* Request r, which has no answer yet, becomes q; the only stash it may    *)
(* add is its own.                                                         *)
(***************************************************************************)
StashBecomes(r, q) ==
    /\ r \notin Ended
    /\ req' = [req EXCEPT ![r] = q]
    /\ headers' \subseteq headers \cup {r}

LEMMA AnswersStay ==
    ASSUME TypeOK, NEW r \in Requests, NEW q \in RequestStates, StashBecomes(r, q)
    PROVE  /\ req' \in [Requests -> RequestStates]
           /\ req'[r] = q
           /\ \A x \in Requests : x # r => req'[x] = req[x]
           /\ \A x \in Ended : req'[x] = req[x] /\ x \in Ended' /\ x # r
           /\ Pushed \subseteq Pushed'
           /\ Pushed' \subseteq Pushed \cup {r}
           /\ r \notin Pushed
           /\ \A s \in Requests : HandedOut(s) => HandedOut(s)'
<1>1. /\ req' \in [Requests -> RequestStates]
      /\ req'[r] = q
      /\ \A x \in Requests : x # r => req'[x] = req[x]
  BY DEF TypeOK, StashBecomes
<1>2. ASSUME NEW x \in Ended
      PROVE  req'[x] = req[x] /\ x \in Ended' /\ x # r
  BY <1>1 DEF StashBecomes, Ended
<1>3. r \notin Pushed
  BY DEF StashBecomes, Ended, Pushed
<1>4. Pushed \subseteq Pushed' /\ Pushed' \subseteq Pushed \cup {r}
  BY <1>1, <1>3 DEF Pushed
<1>5. ASSUME NEW s \in Requests, HandedOut(s)
      PROVE  HandedOut(s)'
  <2>1. ASSUME NEW x \in Requests, DonePop(x, s), req[x].got
        PROVE  HandedOut(s)'
    <3>1. x \in Ended
      BY <2>1 DEF DonePop, Ended
    <3>. QED
      BY <2>1, <3>1, <1>2 DEF DonePop, HandedOut
  <2>2. ASSUME NEW x \in Requests, req[x].kind = "drop", req[x].stash = s, req[x].pc = "ok"
        PROVE  HandedOut(s)'
    <3>1. x \in Ended
      BY <2>2 DEF Ended
    <3>. QED
      BY <2>2, <3>1, <1>2 DEF HandedOut
  <2>. QED
    BY <1>5, <2>1, <2>2 DEF HandedOut
<1>. QED
  BY <1>1, <1>2, <1>3, <1>4, <1>5

(***************************************************************************)
(* Nothing changes for the requests that take no step.                     *)
(***************************************************************************)
LEMMA OthersKeepStash ==
    ASSUME StashInv, NEW r \in Requests, NEW q \in RequestStates, StashBecomes(r, q),
           NEW x \in Requests, x # r
    PROVE  StashRight(req[x])'
<1>. DEFINE o == req[x]
<1>1. TypeOK /\ StashRight(o) /\ o \in RequestStates
  BY DEF StashInv, TypeOK
<1>2. req'[x] = o
  BY <1>1, AnswersStay
<1>3. /\ o.kind # "push" => o.stash \in Pushed' /\ o.pc # "idle"
      /\ o.pc \in {"looking", "reading"} => o.kind # "push"
  BY <1>1, AnswersStay DEF StashRight
<1>4. o.kind = "pop" /\ o.pc \in {"writing", "ok"} => o.got \/ HandedOut(o.stash)'
  BY <1>1, AnswersStay DEF StashRight, RequestStates
<1>5. ASSUME o.kind \in {"pop", "drop"}, o.pc = "ok"
      PROVE  o.stash \notin headers'
  <2>1. o.stash \in Pushed /\ o.stash \notin headers
    BY <1>1, <1>5 DEF StashRight
  <2>2. o.stash # r
    BY <1>1, <2>1, AnswersStay
  <2>. QED
    BY <2>1, <2>2 DEF StashBecomes
<1>6. o.before \subseteq Ended'
  BY <1>1, AnswersStay DEF StashRight
<1>7. ASSUME o.kind = "pop", o.pc \in {"reading", "writing", "ok"}, NEW p \in o.before
      PROVE  ~(req'[p].kind = "pop" /\ req'[p].stash = o.stash /\ req'[p].pc = "ok")
  <2>1. p \in Ended /\ ~DonePop(p, o.stash)
    BY <1>1, <1>7 DEF StashRight
  <2>. QED
    BY <1>1, <2>1, AnswersStay DEF DonePop
<1>. QED
  BY <1>2, <1>3, <1>4, <1>5, <1>6, <1>7 DEF StashRight, DonePop

(***************************************************************************)
(* What a step has to show of the request that takes it.                   *)
(***************************************************************************)
StashSteps(r, q) ==
    /\ StashBecomes(r, q)
    /\ q \in RequestStates
    /\ q.kind # "push" => q.stash \in Pushed /\ q.pc # "idle"
    /\ q.pc \in {"looking", "reading"} => q.kind # "push"
    /\ q.kind = "pop" /\ q.pc = "writing" => q.got \/ HandedOut(q.stash)
    /\ q.kind \in {"pop", "drop"} /\ q.pc = "ok" => q.stash \notin headers'
    /\ q.kind = "pop" /\ q.pc = "ok" => q.got \/ HandedOut(q.stash)
    /\ q.before \subseteq Ended
    /\ q.kind = "pop" /\ q.pc \in {"reading", "writing", "ok"} =>
          \A p \in q.before : ~DonePop(p, q.stash)

LEMMA StashStepper ==
    ASSUME StashInv, NEW r \in Requests, NEW q, StashSteps(r, q)
    PROVE  StashRight(req[r])'
<1>1. TypeOK /\ StashBecomes(r, q) /\ q \in RequestStates
  BY DEF StashInv, StashSteps
<1>2. req'[r] = q
  BY <1>1, AnswersStay
<1>3. /\ q.kind # "push" => q.stash \in Pushed' /\ q.pc # "idle"
      /\ q.pc \in {"looking", "reading"} => q.kind # "push"
  BY <1>1, AnswersStay DEF StashSteps
<1>4. q.kind = "pop" /\ q.pc \in {"writing", "ok"} => q.got \/ HandedOut(q.stash)'
  BY <1>1, AnswersStay DEF StashSteps, RequestStates
<1>5. q.before \subseteq Ended'
  BY <1>1, AnswersStay DEF StashSteps
<1>6. ASSUME q.kind = "pop", q.pc \in {"reading", "writing", "ok"}, NEW p \in q.before
      PROVE  ~(req'[p].kind = "pop" /\ req'[p].stash = q.stash /\ req'[p].pc = "ok")
  <2>1. p \in Ended /\ ~DonePop(p, q.stash)
    BY <1>6 DEF StashSteps
  <2>. QED
    BY <1>1, <2>1, AnswersStay DEF DonePop
<1>7. q.kind \in {"pop", "drop"} /\ q.pc = "ok" => q.stash \notin headers'
  BY DEF StashSteps
<1>. QED
  BY <1>2, <1>3, <1>4, <1>5, <1>6, <1>7 DEF StashRight, DonePop

LEMMA StashStepPreserves ==
    ASSUME StashInv, NEW r \in Requests, NEW q, StashSteps(r, q),
           headers' \subseteq Requests, entries' \subseteq Requests,
           \A s \in Pushed' : StillThereOrHandedOut(s)'
    PROVE  StashInv'
<1>1. StashBecomes(r, q) /\ q \in RequestStates
  BY DEF StashSteps
<1>2. TypeOK'
  BY <1>1, AnswersStay DEF StashInv, TypeOK
<1>3. \A x \in Requests : StashRight(req[x])'
  BY <1>1, OthersKeepStash, StashStepper
<1>. QED
  BY <1>2, <1>3 DEF StashInv

(***************************************************************************)
(* A step that touches no row, of a request that does not push.            *)
(***************************************************************************)
LEMMA StashQuiet ==
    ASSUME StashInv, NEW r \in Requests, NEW q, StashSteps(r, q),
           UNCHANGED <<headers, entries>>, q.kind = "push" => q.pc # "ok"
    PROVE  StashInv'
<1>1. StashBecomes(r, q) /\ q \in RequestStates /\ TypeOK
  BY DEF StashSteps, StashInv
<1>2. r \notin Pushed'
  BY <1>1, AnswersStay DEF Pushed
<1>3. ASSUME NEW s \in Pushed'
      PROVE  StillThereOrHandedOut(s)'
  <2>1. s \in Pushed /\ s \in Requests
    BY <1>1, <1>2, AnswersStay DEF Pushed
  <2>. QED
    BY <1>1, <2>1, AnswersStay DEF StashInv, StillThereOrHandedOut
<1>. QED
  BY <1>1, <1>3, StashStepPreserves DEF TypeOK

-----------------------------------------------------------------------------
(***************************************************************************)
(* The initial states, and each action.                                    *)
(***************************************************************************)
THEOREM StashInit == Init => StashInv
<1>. SUFFICES ASSUME Init PROVE StashInv
  OBVIOUS
<1>1. TypeOK
  BY DEF Init, TypeOK, RequestStates
<1>2. \A r \in Requests : req[r].kind = "push" /\ req[r].pc = "idle" /\ req[r].before = {}
  BY DEF Init
<1>3. Pushed = {}
  BY <1>2 DEF Pushed
<1>4. \A r \in Requests : StashRight(req[r])
  BY <1>2 DEF StashRight
<1>. QED
  BY <1>1, <1>3, <1>4 DEF StashInv

LEMMA BeginPreserves ==
    ASSUME StashInv, NEW r \in Requests, Begin(r)
    PROVE  StashInv'
<1>1. /\ TypeOK /\ req[r] \in RequestStates /\ StashRight(req[r])
      /\ r \notin Ended /\ req[r].pc = "idle" /\ UNCHANGED <<headers, entries>>
  BY DEF StashInv, Begin, IsNext, TypeOK, Ended
<1>2. Ended \in SUBSET Requests
  BY DEF Ended
<1>3. CASE req' = [req EXCEPT ![r].pc = "writing", ![r].before = Ended]
  <2>. DEFINE q == [req[r] EXCEPT !.pc = "writing", !.before = Ended]
  <2>1. q \in RequestStates /\ q.kind = "push" /\ q.pc = "writing" /\ q.before = Ended
    BY <1>1, <1>2, Zenon DEF StashRight, RequestStates
  <2>2. req' = [req EXCEPT ![r] = q]
    BY <1>1, <1>3, Zenon DEF TypeOK
  <2>. HIDE DEF q
  <2>3. StashSteps(r, q)
    BY <1>1, <2>1, <2>2 DEF StashSteps, StashBecomes
  <2>. QED
    BY <1>1, <2>1, <2>3, StashQuiet
<1>4. ASSUME NEW kind \in {"pop", "apply", "drop"}, NEW s \in Pushed,
             req' = [req EXCEPT ![r] = [kind |-> kind, stash |-> s, got |-> FALSE,
                                        pc |-> "looking", before |-> Ended]]
      PROVE  StashInv'
  <2>. DEFINE q == [kind |-> kind, stash |-> s, got |-> FALSE, pc |-> "looking", before |-> Ended]
  <2>1. /\ q \in RequestStates /\ q.kind # "push" /\ q.stash \in Pushed
        /\ q.pc = "looking" /\ q.before = Ended
    BY <1>2 DEF RequestStates, Pushed
  <2>2. req' = [req EXCEPT ![r] = q]
    BY <1>4
  <2>. HIDE DEF q
  <2>3. StashSteps(r, q)
    BY <1>1, <2>1, <2>2 DEF StashSteps, StashBecomes
  <2>. QED
    BY <1>1, <2>1, <2>3, StashQuiet
<1>. QED
  BY <1>3, <1>4 DEF Begin

(***************************************************************************)
(* A pop answered earlier has deleted the header this one looks for.       *)
(***************************************************************************)
LEMMA FindHeaderPreserves ==
    ASSUME StashInv, NEW r \in Requests, FindHeader(r)
    PROVE  StashInv'
<1>. DEFINE next == IF req[r].stash \notin headers THEN "missing"
                    ELSE IF req[r].kind = "drop" THEN "writing" ELSE "reading"
            q == [req[r] EXCEPT !.pc = next]
<1>1. /\ TypeOK /\ req[r] \in RequestStates /\ StashRight(req[r])
      /\ r \notin Ended /\ req[r].pc = "looking" /\ UNCHANGED <<headers, entries>>
  BY DEF StashInv, FindHeader, TypeOK, Ended
<1>2. /\ q \in RequestStates /\ q.kind = req[r].kind /\ q.stash = req[r].stash
      /\ q.before = req[r].before /\ q.pc \in {"missing", "writing", "reading"}
      /\ q.pc = "reading" => q.stash \in headers
      /\ q.kind = "pop" => q.pc # "writing"
  BY <1>1 DEF RequestStates
<1>3. req' = [req EXCEPT ![r] = q]
  BY <1>1 DEF FindHeader, TypeOK
<1>. HIDE DEF q
<1>4. ASSUME q.kind = "pop", q.pc = "reading", NEW p \in q.before, DonePop(p, q.stash)
      PROVE  FALSE
  <2>1. p \in Requests
    BY <1>2, <1>4 DEF RequestStates
  <2>2. StashRight(req[p])
    BY <2>1 DEF StashInv
  <2>. QED
    BY <1>2, <1>4, <2>2 DEF StashRight, DonePop
<1>5. StashSteps(r, q)
  BY <1>1, <1>2, <1>3, <1>4 DEF StashSteps, StashBecomes, StashRight
<1>. QED
  BY <1>1, <1>2, <1>5, StashQuiet

(***************************************************************************)
(* A pop that finds no entries comes after another pop or a drop.          *)
(***************************************************************************)
LEMMA ReadEntriesPreserves ==
    ASSUME StashInv, NEW r \in Requests, ReadEntries(r)
    PROVE  StashInv'
<1>1. /\ TypeOK /\ req[r] \in RequestStates /\ StashRight(req[r])
      /\ r \notin Ended /\ req[r].pc = "reading" /\ UNCHANGED <<headers, entries>>
  BY DEF StashInv, ReadEntries, TypeOK, Ended
<1>2. PICK found \in BOOLEAN, next \in {"ok", "writing"} :
         /\ found <=> req[r].stash \in entries
         /\ next = IF req[r].kind = "apply" THEN "ok" ELSE "writing"
         /\ req' = [req EXCEPT ![r].got = found, ![r].pc = next]
  <2>. DEFINE got == req[r].stash \in entries
              pc  == IF req[r].kind = "apply" THEN "ok" ELSE "writing"
  <2>1. got \in BOOLEAN /\ pc \in {"ok", "writing"}
    OBVIOUS
  <2>2. req' = [req EXCEPT ![r].got = got, ![r].pc = pc]
    BY DEF ReadEntries
  <2>. QED
    BY <2>1, <2>2, Zenon
<1>. DEFINE q == [req[r] EXCEPT !.got = found, !.pc = next]
<1>3. /\ q \in RequestStates /\ q.kind = req[r].kind /\ q.stash = req[r].stash
      /\ q.before = req[r].before /\ q.pc = next /\ q.got = found
  BY <1>1, Zenon DEF RequestStates
<1>4. req' = [req EXCEPT ![r] = q]
  BY <1>1, <1>2, Zenon DEF TypeOK
<1>. HIDE DEF q
<1>5. q.stash \in Pushed /\ q.kind # "push"
  BY <1>1, <1>3 DEF StashRight
<1>6. q.got \/ HandedOut(q.stash)
  BY <1>2, <1>3, <1>5 DEF StashInv, StillThereOrHandedOut
<1>7. StashSteps(r, q)
  BY <1>1, <1>2, <1>3, <1>4, <1>5, <1>6, Zenon DEF StashSteps, StashBecomes, StashRight
<1>. QED
  BY <1>1, <1>5, <1>7, StashQuiet

LEMMA CommitPushPreserves ==
    ASSUME StashInv, NEW r \in Requests, CommitPush(r)
    PROVE  StashInv'
<1>. DEFINE q == [req[r] EXCEPT !.pc = "ok"]
<1>1. /\ TypeOK /\ req[r] \in RequestStates /\ StashRight(req[r])
      /\ r \notin Ended /\ req[r].kind = "push"
      /\ headers' = headers \cup {r} /\ entries' = entries \cup {r}
  BY DEF StashInv, CommitPush, TypeOK, Ended
<1>2. q \in RequestStates /\ q.kind = "push" /\ q.pc = "ok" /\ q.before = req[r].before
  BY <1>1 DEF RequestStates
<1>3. req' = [req EXCEPT ![r] = q]
  BY <1>1 DEF CommitPush, TypeOK
<1>. HIDE DEF q
<1>4. StashSteps(r, q)
  BY <1>1, <1>2, <1>3 DEF StashSteps, StashBecomes, StashRight
<1>5. ASSUME NEW s \in Pushed'
      PROVE  StillThereOrHandedOut(s)'
  <2>1. CASE s = r
    BY <1>1, <2>1 DEF StillThereOrHandedOut
  <2>2. CASE s # r
    <3>1. StashBecomes(r, q)
      BY <1>4 DEF StashSteps
    <3>2. s \in Pushed /\ s \in Requests
      BY <1>1, <1>2, <2>2, <3>1, AnswersStay DEF Pushed
    <3>. QED
      BY <1>1, <1>2, <3>1, <3>2, AnswersStay DEF StashInv, StillThereOrHandedOut
  <2>. QED
    BY <2>1, <2>2
<1>. QED
  BY <1>1, <1>4, <1>5, StashStepPreserves DEF TypeOK

(***************************************************************************)
(* The stash a pop or a drop deletes is in its answer, or was dropped, or  *)
(* was in the answer of the pop that deleted it first.                     *)
(***************************************************************************)
LEMMA CommitDeletePreserves ==
    ASSUME StashInv, NEW r \in Requests, CommitDelete(r)
    PROVE  StashInv'
<1>. DEFINE q == [req[r] EXCEPT !.pc = "ok"]
<1>1. /\ TypeOK /\ req[r] \in RequestStates /\ StashRight(req[r])
      /\ r \notin Ended /\ req[r].kind \in {"pop", "drop"} /\ req[r].pc = "writing"
      /\ headers' = headers \ {req[r].stash} /\ entries' = entries \ {req[r].stash}
  BY DEF StashInv, CommitDelete, TypeOK, Ended
<1>2. /\ q \in RequestStates /\ q.kind = req[r].kind /\ q.stash = req[r].stash
      /\ q.before = req[r].before /\ q.got = req[r].got /\ q.pc = "ok"
  BY <1>1 DEF RequestStates
<1>3. req' = [req EXCEPT ![r] = q]
  BY <1>1 DEF CommitDelete, TypeOK
<1>. HIDE DEF q
<1>4. StashSteps(r, q)
  BY <1>1, <1>2, <1>3 DEF StashSteps, StashBecomes, StashRight
<1>5. StashBecomes(r, q)
  BY <1>4 DEF StashSteps
<1>6. req'[r] = q
  BY <1>1, <1>2, <1>5, AnswersStay
<1>7. PICK d \in Requests : d = q.stash
  BY <1>2 DEF RequestStates
<1>8. HandedOut(d)'
  <2>1. CASE q.kind = "drop"
    BY <1>2, <1>6, <1>7, <2>1 DEF HandedOut
  <2>2. CASE q.kind = "pop" /\ q.got
    BY <1>2, <1>6, <1>7, <2>2 DEF HandedOut, DonePop
  <2>3. CASE q.kind = "pop" /\ ~q.got
    <3>1. HandedOut(d)
      BY <1>1, <1>2, <1>7, <2>3 DEF StashRight
    <3>. QED
      BY <1>1, <1>2, <1>5, <3>1, AnswersStay
  <2>. QED
    BY <1>1, <1>2, <2>1, <2>2, <2>3 DEF RequestStates
<1>9. ASSUME NEW s \in Pushed'
      PROVE  StillThereOrHandedOut(s)'
  <2>1. CASE s = d
    BY <1>8, <2>1 DEF StillThereOrHandedOut
  <2>2. CASE s # d
    <3>1. r \notin Pushed'
      BY <1>1, <1>2, <1>6 DEF Pushed
    <3>2. s \in Pushed /\ s \in Requests
      BY <1>1, <1>2, <1>5, <3>1, AnswersStay DEF Pushed
    <3>. QED
      BY <1>1, <1>2, <1>5, <1>7, <2>2, <3>2, AnswersStay DEF StashInv, StillThereOrHandedOut
  <2>. QED
    BY <2>1, <2>2
<1>. QED
  BY <1>1, <1>4, <1>9, StashStepPreserves DEF TypeOK

LEMMA FailPreserves ==
    ASSUME StashInv, NEW r \in Requests, Fail(r)
    PROVE  StashInv'
<1>. DEFINE q == [req[r] EXCEPT !.pc = "error"]
<1>1. /\ TypeOK /\ req[r] \in RequestStates /\ StashRight(req[r])
      /\ r \notin Ended /\ UNCHANGED <<headers, entries>>
  BY DEF StashInv, Fail, TypeOK, Ended
<1>2. /\ q \in RequestStates /\ q.kind = req[r].kind /\ q.stash = req[r].stash
      /\ q.before = req[r].before /\ q.pc = "error"
  BY <1>1 DEF RequestStates
<1>3. req' = [req EXCEPT ![r] = q]
  BY <1>1 DEF Fail, TypeOK
<1>. HIDE DEF q
<1>4. StashSteps(r, q)
  BY <1>1, <1>2, <1>3 DEF StashSteps, StashBecomes, StashRight
<1>. QED
  BY <1>1, <1>2, <1>4, StashQuiet

-----------------------------------------------------------------------------
THEOREM StashNext == StashInv /\ [Next]_vars => StashInv'
<1>. SUFFICES ASSUME StashInv, [Next]_vars PROVE StashInv'
  OBVIOUS
<1>1. ASSUME NEW r \in Requests, Begin(r) \/ FindHeader(r) \/ ReadEntries(r)
      PROVE  StashInv'
  BY <1>1, BeginPreserves, FindHeaderPreserves, ReadEntriesPreserves
<1>2. ASSUME NEW r \in Requests, CommitPush(r) \/ CommitDelete(r) \/ Fail(r)
      PROVE  StashInv'
  BY <1>2, CommitPushPreserves, CommitDeletePreserves, FailPreserves
<1>3. CASE UNCHANGED vars
  BY <1>3 DEF vars, StashInv, TypeOK, StashRight, StillThereOrHandedOut, HandedOut, Pushed, Ended, DonePop
<1>. QED
  BY <1>1, <1>2, <1>3 DEF Next

THEOREM StashInvHolds == AllSpec => []StashInv
<1>1. AllInit => Init
  BY DEF AllInit
<1>2. [AllNext]_allVars => [Next]_vars
  BY DEF AllNext, Others, allVars
<1>. QED
  BY <1>1, <1>2, StashInit, StashNext, PTL DEF AllSpec

(***************************************************************************)
(* The state keeps its types.                                              *)
(***************************************************************************)
THEOREM StashTyped == AllSpec => []TypeOK
<1>1. StashInv => TypeOK
  BY DEF StashInv
<1>. QED
  BY <1>1, StashInvHolds, PTL

(***************************************************************************)
(* stash.py: stashed work is there, was dropped, or was in the answer of a *)
(* pop, and no pop that began after another one was answered is answered,  *)
(* for any number of requests.                                             *)
(***************************************************************************)
THEOREM NothingEverLost == AllSpec => []NothingLost
<1>1. StashInv => NothingLost
  <2>. SUFFICES ASSUME StashInv, NEW s \in Pushed
                PROVE  /\ StillThereOrHandedOut(s)
                       /\ \A p, q \in Requests :
                             p # q /\ DonePop(p, s) /\ DonePop(q, s) => p \notin req[q].before
    BY DEF NothingLost
  <2>1. StillThereOrHandedOut(s)
    BY DEF StashInv, StillThereOrHandedOut
  <2>2. ASSUME NEW p \in Requests, NEW q \in Requests, DonePop(p, s), DonePop(q, s)
        PROVE  p \notin req[q].before
    BY <2>2 DEF StashInv, StashRight, DonePop
  <2>. QED
    BY <2>1, <2>2
<1>. QED
  BY <1>1, StashInvHolds, PTL
=============================================================================
