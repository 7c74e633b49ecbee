---------------------------- MODULE Collaboration ----------------------------
(***************************************************************************)
(* What users do with repositories: the modules of reviews, issues,        *)
(* stashes, releases, pulls, access, forks, marks, labels, listings, quota *)
(* and tags, side by side.  They share no row and no state, so a behaviour *)
(* exercises one of them, chosen at the start, and the states are the sum  *)
(* of theirs.                                                              *)
(***************************************************************************)
EXTENDS Stash, Sequences

CONSTANTS Reviewing, Reviewers,                   \* of Reviews
          Tracking, IssueLabels, MaxNumber,       \* of IssueTracker
          Releasing, ReleaseTags,                 \* of Releases
          Clients, PullObjects, PageSize, MaxPushes,   \* of Pull
          Asking, Members, Creator, Settings, FlagSettings, Admins, AskedCalls,   \* of Access
          Forking, Forkers, ForkCommits,          \* of Forks
          Marking, Places,                        \* of Marks
          Labelling, LabelNames, LabelPulls,      \* of Labels
          RowIds, MaxTime, Limit,                 \* of Listings
          Storing, Pushers, Stores, StoreOwner, StoredObjects, ObjectSize, StorePushes,
          QuotaBytes,                             \* of Quota
          Tagging, TagPushes                      \* of WireTags

VARIABLES part,
          reviewRows, reviewing, issues, milestones, tracking, releases, assets,
          releasing, pushed, pull, repo, collab, asking,
          repos, place, head, parents, forking, marks, marking, labels, links, labelling,
          now, listed, walk, deleted, stored, storing, tagRows, tagging

R == INSTANCE Reviews WITH Requests <- Reviewing, rows <- reviewRows, req <- reviewing
T == INSTANCE IssueTracker WITH Requests <- Tracking, Labels <- IssueLabels, req <- tracking
L == INSTANCE Releases WITH Requests <- Releasing, Tags <- ReleaseTags, req <- releasing
P == INSTANCE Pull WITH Objects <- PullObjects
A == INSTANCE Access WITH Requests <- Asking, Users <- Members, Owner <- Creator,
         Fields <- Settings, Flags <- FlagSettings, Accepted <- Admins, Calls <- AskedCalls,
         req <- asking
F == INSTANCE Forks WITH Requests <- Forking, Users <- Forkers, Commits <- ForkCommits,
         req <- forking
M == INSTANCE Marks WITH Requests <- Marking, Repos <- Places, rows <- marks, req <- marking
B == INSTANCE Labels WITH Requests <- Labelling, Names <- LabelNames, Pulls <- LabelPulls,
         req <- labelling
N == INSTANCE Listings WITH Ids <- RowIds, rows <- listed
Q == INSTANCE Quota WITH Requests <- Storing, Users <- Pushers, Repos <- Stores, Owner <- StoreOwner,
         Objects <- StoredObjects, Size <- ObjectSize, Pushes <- StorePushes, Limit <- QuotaBytes,
         rows <- stored, req <- storing
W == INSTANCE WireTags WITH Requests <- Tagging, Pushes <- TagPushes, rows <- tagRows,
         req <- tagging

\* What a client pushes is a sequence of tags.
ASSUME TagPushesOK ==
    /\ TagPushes # {}
    /\ \A push \in TagPushes : push.tags \in Seq(W!Tags)

\* The repository has an owner, and calls and first rows name users.
ASSUME AccessOK ==
    /\ AskedCalls # {} /\ AskedCalls \subseteq A!AllCalls
    /\ Creator \in Members /\ Admins \subseteq Members

\* A request names something: a tag, a repository, a label, a pull request.
ASSUME ReleaseTagsOK == ReleaseTags # {}
ASSUME PlacesOK == Places # {}
ASSUME LabelsOK == LabelNames # {} /\ LabelPulls # {}

\* Object ids are ordered as numbers, a page has room for one, and clients
\* pull in the three ways of Pull.
ASSUME PullOK ==
    /\ PullObjects \subseteq Nat \ {0} /\ IsFiniteSet(PullObjects)
    /\ PageSize \in Nat \ {0}
    /\ Clients \subseteq {"service", "have", "cursor"}

\* Ids of rows are numbers; time and pages go on.
ASSUME ListingOK ==
    /\ RowIds \subseteq Nat /\ IsFiniteSet(RowIds)
    /\ MaxTime \in Nat \ {0} /\ Limit \in Nat \ {0}

\* Objects have sizes, repositories owners, and a push is of some objects to
\* a repository.
ASSUME QuotaOK ==
    /\ Stores # {} /\ StoreOwner \in [Stores -> Pushers]
    /\ IsFiniteSet(StoredObjects) /\ ObjectSize \in [StoredObjects -> Nat]
    /\ StorePushes \subseteq [user : Pushers, repo : Stores, objects : SUBSET StoredObjects]
    /\ QuotaBytes \in Nat

\* Requests are numbered from 1; two have run when IssueTracker starts.
ASSUME TrackingOK == Tracking \subseteq Nat \ {0} /\ {1, 2} \subseteq Tracking

\* Requests, repositories and commits are numbered from 1; Forks starts with
\* the first of each.
ASSUME ForkingOK ==
    /\ Forking \subseteq Nat \ {0} /\ {1, 2} \subseteq Forking
    /\ ForkCommits \subseteq Nat \ {0} /\ 1 \in ForkCommits
    /\ "u" \in Forkers

\* Stash is extended: Init, Next, vars, Requests and req are its own.
reviewVars == <<reviewRows, reviewing>>
trackerVars == <<issues, milestones, tracking>>
releaseVars == <<releases, assets, releasing>>
pullVars == <<pushed, pull>>
accessVars == <<repo, collab, asking>>
forkVars == <<repos, place, head, parents, forking>>
markVars == <<marks, marking>>
labelVars == <<labels, links, labelling>>
listingVars == <<now, listed, walk>>
quotaVars == <<deleted, stored, storing>>
tagVars == <<tagRows, tagging>>

allVars == <<part, reviewVars, trackerVars, vars, releaseVars, pullVars, accessVars, forkVars,
          markVars, labelVars, listingVars, quotaVars, tagVars>>

\* IssueTracker starts where requests 1 and 2 have created an issue and a
\* milestone.
Opened ==
    /\ issues = {[id |-> 1, number |-> 1, labels |-> IssueLabels, milestone |-> 0]}
    /\ milestones = {[id |-> 2, number |-> 1]}
    /\ tracking = [r \in Tracking |->
                     CASE r = 1 -> [T!NoRequest EXCEPT !.number = 1, !.labels = IssueLabels, !.pc = "ok"]
                       [] r = 2 -> [T!NoRequest EXCEPT !.kind = "milestone", !.number = 1, !.pc = "ok"]
                       [] OTHER -> T!NoRequest]

\* Forks starts where request 1 has created a repository and request 2 has
\* pushed commit 1 to it.
Seeded ==
    /\ repos = {[id |-> 1, owner |-> "u", source |-> 0]}
    /\ parents = [c \in {1} |-> {}]
    /\ place = [c \in ForkCommits |-> IF c = 1 THEN 1 ELSE 0]
    /\ head = [r \in Forking |-> IF r = 1 THEN 1 ELSE 0]
    /\ forking = [r \in Forking |->
                    CASE r = 1 -> [F!NoRequest EXCEPT !.kind = "create", !.owner = "u", !.pc = "ok"]
                      [] r = 2 -> [F!NoRequest EXCEPT !.kind = "wire", !.repo = 1, !.tip = 1, !.pc = "ok"]
                      [] OTHER -> F!NoRequest]

AllInit ==
    /\ part \in {"reviews", "tracker", "stash", "releases", "pull", "access", "forks", "marks", "labels",
                 "listings", "quota", "tags"}
    /\ R!Init /\ Opened /\ Init /\ L!Init /\ P!Init /\ A!Init
    /\ Seeded /\ M!Init /\ B!Init /\ N!Init /\ Q!Init /\ W!Init
    /\ part # "listings" => walk.kind = "pages"

\* The other parts stand still.
Others ==
    /\ UNCHANGED part
    /\ IF part = "reviews" THEN TRUE ELSE UNCHANGED reviewVars
    /\ IF part = "tracker" THEN TRUE ELSE UNCHANGED trackerVars
    /\ IF part = "stash" THEN TRUE ELSE UNCHANGED vars
    /\ IF part = "releases" THEN TRUE ELSE UNCHANGED releaseVars
    /\ IF part = "pull" THEN TRUE ELSE UNCHANGED pullVars
    /\ IF part = "access" THEN TRUE ELSE UNCHANGED accessVars
    /\ IF part = "forks" THEN TRUE ELSE UNCHANGED forkVars
    /\ IF part = "marks" THEN TRUE ELSE UNCHANGED markVars
    /\ IF part = "labels" THEN TRUE ELSE UNCHANGED labelVars
    /\ IF part = "listings" THEN TRUE ELSE UNCHANGED listingVars
    /\ IF part = "quota" THEN TRUE ELSE UNCHANGED quotaVars
    /\ IF part = "tags" THEN TRUE ELSE UNCHANGED tagVars

AllNext ==
    \/ part = "reviews"  /\ R!Next /\ Others
    \/ part = "tracker"  /\ T!Next /\ Others
    \/ part = "stash"    /\ Next /\ Others
    \/ part = "releases" /\ L!Next /\ Others
    \/ part = "pull"     /\ P!Next /\ Others
    \/ part = "access"   /\ A!Next /\ Others
    \/ part = "forks"    /\ F!Next /\ Others
    \/ part = "marks"    /\ M!Next /\ Others
    \/ part = "labels"   /\ B!Next /\ Others
    \/ part = "listings" /\ N!Next /\ Others
    \/ part = "quota"    /\ Q!Next /\ Others
    \/ part = "tags"     /\ W!Next /\ Others

AllSpec == AllInit /\ [][AllNext]_allVars

-----------------------------------------------------------------------------
\* Rows of one reviewer come from overlapping requests, and verdicts do not
\* disappear (Reviews).
ReviewsHold == R!ReviewsHold

\* Numbers in order, milestones that exist, labels that stay away
\* (IssueTracker).
TrackerHolds == T!TrackerHolds

\* Tags, assets and download counters agree (Releases).
ReleasesHold == L!ReleasesHold

\* A pull brings what its first answer promises (Pull).
PullComplete == P!PullComplete

\* Only who has the right gets something done (Access).
AccessHolds == A!AccessHolds

\* What a fork lacks, its sources have (Forks).
LineageHolds == F!LineageHolds

\* Marks are as the last answers about them say (Marks).
MarksHold == M!MarksHold

\* Label changes and assignments answered ok hold (Labels).
LabelsHold == B!LabelsHold

\* A walk over the pages of a listing misses nothing that stayed (Listings).
WalksCover == N!WalksCover

\* A user's pushes one after the other stay within the quota (Quota).
QuotaHolds == Q!QuotaHolds

\* Tags pushed together are stored together (WireTags).
TagsTogether == W!TagsTogether
=============================================================================
