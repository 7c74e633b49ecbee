--------------------------- MODULE MC_CommitGraph ---------------------------
(***************************************************************************)
(* Every bundle of at most MaxCommits commits, built one commit at a time  *)
(* in every order a client may send them.  Ids are 1..MaxCommits, 0 is a   *)
(* commit the server already has; a parent's id is smaller, since an id is *)
(* the hash of a content that names the parents.  The two parents of a     *)
(* merge are tried in one order: no property here depends on it.           *)
(* And every history of at most MaxHistory commits on two branches, with   *)
(* every content of Paths; and every MIDI track of at most MaxMessages     *)
(* messages.                                                               *)
(***************************************************************************)
EXTENDS Negotiation, Browsing, PianoRoll

CONSTANTS MaxCommits, MaxHistory, BranchNames, Objects, MaxMessages, MaxWait

\* Commits are numbered from 1.
ASSUME MaxCommitsOK == MaxCommits \in Nat

\* A message comes with the one before it or later.
ASSUME MaxWaitOK == MaxWait \in Nat

VARIABLES bundle, history, track

vars == <<bundle, history, track>>

Paths == {<<"a">>, <<"d", "a">>}

TreePaths == {<<"a">>, <<"d">>, <<"d", "a">>, <<"d", "e">>, <<"d", "e", "a">>}

ParentLists(id) ==
    {<<>>} \cup {<<p>> : p \in 0..(id - 1)}
           \cup {<<pq[1], pq[2]>> : pq \in {d \in (0..(id - 1)) \X (0..(id - 1)) : d[1] < d[2]}}

\* Pitches 1 and 2 on one channel: with four rows, the canvas has the rows
\* of the first and not of the second.
Keys == {<<1, 0>>, <<2, 0>>}

Messages ==
    [wait : 0..MaxWait, kind : {"on", "off"}, key : Keys]
    \cup [wait : {MaxWait}, kind : {"meta"}, key : {<<1, 0>>}]

Init == bundle = <<>> /\ history = <<>> /\ track = <<>>

AddCommit(id, parents) ==
    /\ id \notin Ids(bundle)
    /\ history = <<>> /\ track = <<>>
    /\ bundle' = Append(bundle, [id |-> id, parents |-> parents])
    /\ UNCHANGED <<history, track>>

AddRevision(branch, files) ==
    /\ Len(history) < MaxHistory
    /\ bundle = <<>> /\ track = <<>>
    /\ history' = Append(history, [branch |-> branch, files |-> files])
    /\ UNCHANGED <<bundle, track>>

AddMessage(message) ==
    /\ Len(track) < MaxMessages
    /\ bundle = <<>> /\ history = <<>>
    /\ track' = Append(track, message)
    /\ UNCHANGED <<bundle, history>>

Next ==
    \/ \E id \in 1..MaxCommits : \E parents \in ParentLists(id) : AddCommit(id, parents)
    \/ \E branch \in BranchNames, files \in [Paths -> Objects \cup {Absent}] \cup {NoSnapshot} :
          AddRevision(branch, files)
    \/ \E message \in Messages : AddMessage(message)

Spec == Init /\ [][Next]_vars

-----------------------------------------------------------------------------
\* The sorted bundle has every commit once, and no commit before a parent.
ParentsFirst(sorted) ==
    /\ Len(sorted) = Len(bundle)
    /\ ToSet(sorted) = Ids(bundle)
    /\ \A i, j \in DOMAIN sorted :
          sorted[i] \in ParentMap(bundle)[sorted[j]] => i < j

\* Its last commit is a tip, and has every commit in its history when it is
\* the only tip.
EndsInTip(sorted) ==
    bundle # <<>> =>
        /\ Last(sorted) \in Tips(bundle)
        /\ Cardinality(Tips(bundle)) = 1 =>
              \A id \in Ids(bundle) : Reaches(bundle, Last(sorted), id)

(***************************************************************************)
(* _topological_sort puts every commit of a wire push after its parents,   *)
(* whatever the order it was sent in, and last the one that wire_push      *)
(* makes the branch head, from which everything pushed is reached when the *)
(* bundle has one tip.  The commit graph of a repository is sorted alike,  *)
(* in any order of its rows.                                               *)
(***************************************************************************)
SortedParentsFirst ==
    LET sorted == TopologicalSort(bundle)
    IN  /\ DagOrder(bundle) = sorted
        /\ ParentsFirst(sorted)
        /\ EndsInTip(sorted)

\* The wire test accepts a head exactly when some pushed commit has it in
\* its history, that is, when it is pushed again or is the parent of a
\* pushed commit.
AncestorTestExact(head) ==
    /\ IsAncestorInBundle(head, bundle)
         <=> \E id \in Ids(bundle) : Reaches(bundle, id, head)
    /\ IsAncestorInBundle(head, bundle)
         <=> \/ head \in Ids(bundle)
             \/ \E id \in Ids(bundle) : head \in ParentMap(bundle)[id]

\* What the REST test accepts the wire test accepts, and on a bundle with one
\* tip announced as its head they agree.
TestsAgree(head, newHead) ==
    /\ IsFastForward(head, newHead, bundle) => IsAncestorInBundle(head, bundle)
    /\ Tips(bundle) = {newHead} =>
          (IsFastForward(head, newHead, bundle) <=> IsAncestorInBundle(head, bundle))
    /\ IsFastForward(head, newHead, bundle) => Reaches(bundle, newHead, head)

(***************************************************************************)
(* The fast-forward tests of the two protocols are about the history of    *)
(* what is pushed (musehub_sync.py:91, musehub_wire.py:720), and differ    *)
(* only on bundles with several tips.                                      *)
(***************************************************************************)
FastForwardTestsAgree ==
    \A head \in 0..MaxCommits :
        /\ AncestorTestExact(head)
        /\ \A newHead \in Ids(bundle) : TestsAgree(head, newHead)

-----------------------------------------------------------------------------
(* The bundle now stands for the commits of a repository, 0 for one that is *)
(* named and not there.                                                     *)

Ancestors == [id \in Ids(bundle) |-> {a \in Ids(bundle) : Reaches(bundle, id, a)}]

\* A client that has a commit has its history.
ClosedHave(have) == \A id \in have \cap Ids(bundle) : ParentMap(bundle)[id] \subseteq have

\* One branch head wanted, or two.
Wants == {{x, y} : x, y \in Ids(bundle)}

\* With what it has, the client then has the history of what it wants, and
\* is sent nothing twice.
FetchSufficient(ancestors, want, have) ==
    ClosedHave(have) =>
        Fetched(bundle, want, have) = (UNION {ancestors[id] : id \in want}) \ have

\* A common base is acknowledged and in the history of what is wanted; and
\* there is none only if have makes no difference to a fetch.
BaseSound(ancestors, want, have) ==
    LET bases == CommonBases(bundle, want, Ack(bundle, have))
        missing == want \ have
    IN  /\ bases \subseteq Ack(bundle, have) \cap UNION {ancestors[id] : id \in want}
        /\ (bases # {} \/ have = {}) <=> Ready(bundle, want, have)
        /\ bases = {} <=> Fetched(bundle, missing, Ack(bundle, have)) = Fetched(bundle, missing, {})

(***************************************************************************)
(* A fetch sends what the client lacks and nothing else                    *)
(* (musehub_wire.py:434), and the negotiation answers ready when the have  *)
(* list would shorten it, naming a commit both sides have                  *)
(* (musehub_wire.py:617).  An id of have that is not in the bundle is one  *)
(* the server does not know.  Neither answer depends on the order of the   *)
(* commits, so one order of them is enough.                                *)
(***************************************************************************)
NegotiationSound ==
    LET ancestors == Ancestors
    IN  (\A i, j \in DOMAIN bundle : i < j => bundle[i].id < bundle[j].id) =>
            \A want \in Wants, have \in SUBSET (1..MaxCommits) :
                FetchSufficient(ancestors, want, have) /\ BaseSound(ancestors, want, have)

-----------------------------------------------------------------------------
(* The history: the commits of one branch, the file as each leaves it. *)

Before(n) == {i \in 1..(n - 1) : history[i].branch = history[n].branch}

\* The commit before n on its branch, or an empty one.
ParentOf(n) ==
    IF Before(n) = {} THEN [branch |-> history[n].branch, files |-> NoSnapshot]
    ELSE history[CHOOSE i \in Before(n) : \A j \in Before(n) : j <= i]

\* What the page of commit n shows as changed.
Touched(n) ==
    LET diff == SnapshotDiff(Paths, history[n], ParentOf(n))
    IN  diff.added \cup diff.modified

\* The last commit of the branch up to n whose page shows the path.
LastTouching(path, n) ==
    LET touching == {i \in Before(n) \cup {n} : path \in Touched(i)}
    IN  CHOOSE i \in touching : \A j \in touching : j <= i

(***************************************************************************)
(* The pages of a repository agree: the last commit a file's page names    *)
(* (musehub_repository.py:1740) is the last one whose own page shows the   *)
(* file as added or modified, where every commit has a snapshot and the    *)
(* scan reaches it; and opening every directory of a tree shows every file *)
(* of the manifest, a file with the name of a directory too.               *)
(***************************************************************************)
BrowsingAgrees ==
    /\ \A n \in DOMAIN history, path \in Paths :
          /\ \A i \in Before(n) \cup {n} : Snapped(history[i])
          /\ ObjectAt(history[n], path) # Absent
          /\ Cardinality({i \in Before(n) : i >= LastTouching(path, n)}) < ScanLimit
          => LastCommitForFile(history, path, n) = LastTouching(path, n)
    /\ history = <<>> /\ bundle = <<>> =>
          \A paths \in SUBSET TreePaths : Browsed(paths, 2) = paths

-----------------------------------------------------------------------------
(* The track: what sounds, from the last message about a key. *)

Time(n) == FoldLeft(LAMBDA t, message : t + message.wait, 0, SubSeq(track, 1, n))

\* The key is held after the first n messages.
HeldAfter(key, n) ==
    LET about == {i \in 1..n : track[i].key = key /\ track[i].kind # "meta"}
    IN  about # {} /\ track[CHOOSE i \in about : \A j \in about : j <= i].kind = "on"

\* A tick is named by its first instant.
Sounding(key) == UNION {Time(n)..(Time(n + 1) - 1) :
                        n \in {m \in 1..(Len(track) - 1) : HeldAfter(key, m)}}

StruckAgain(key) == \E n \in DOMAIN track :
                       track[n].kind = "on" /\ track[n].key = key /\ HeldAfter(key, n - 1)

Ticks(note) == note.start..(note.end - 1)

\* The image shows what sounds, and beyond the end at most one tick.
ImageShowsWhatSounds(notes) ==
    \A key \in Keys :
        LET shown == UNION {Ticks(notes[i]) : i \in {j \in DOMAIN notes : notes[j].key = key}}
        IN  /\ shown \cap (0..(Time(Len(track)) - 1)) = Sounding(key)
            /\ shown \subseteq 0..Time(Len(track))

\* The lists of both readers name the same notes, apart from where a note
\* struck again starts.
ReadersAgree(parsed, drawn) ==
    /\ Len(parsed) = Len(drawn)
    /\ \A i \in DOMAIN drawn :
          /\ parsed[i].key = drawn[i].key
          /\ parsed[i].start >= drawn[i].start
          /\ StruckAgain(drawn[i].key) \/ parsed[i].start = drawn[i].start
          /\ parsed[i].end = Larger(drawn[i].end, parsed[i].start + 1)

\* A note of the pitches the canvas has room for is visible, unless it
\* starts where the last one ends; and of two notes of a key, none hides
\* more than a column of the other.
NotesVisible(notes, total) ==
    /\ \A i \in DOMAIN notes :
          notes[i].start < total /\ notes[i].key[1] < NoteRows \div RowHeight
          => Pixels(notes[i], total) # {}
    /\ \A i, j \in DOMAIN notes :
          i # j /\ notes[i].key = notes[j].key /\ total > 0
          => Cardinality(Columns(notes[i], total) \cap Columns(notes[j], total)) <= 1

(***************************************************************************)
(* The piano roll shows each key where it sounds                           *)
(* (musehub_piano_roll_renderer.py:113), however the messages of a track   *)
(* strike keys twice, let go keys that are not held, come at one tick or   *)
(* leave keys held at the end; the parser of the browser's score           *)
(* (musehub_midi_parser.py:116) finds the same notes; and drawing, which   *)
(* rounds ticks to columns, loses no note and covers none with the next.   *)
(***************************************************************************)
ScoresAgree ==
    LET drawn == DrawnNotes(track)
    IN  /\ ImageShowsWhatSounds(drawn)
        /\ ReadersAgree(ParsedNotes(track), drawn)
        /\ NotesVisible(drawn, TotalTicks(drawn))
=============================================================================
