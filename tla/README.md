# MuseHub in TLA+

MuseHub stores version-controlled music projects: clients push commits,
snapshots and objects over two protocols, open and merge pull requests, and AI
agents use the same services over MCP. This directory models the parts where
concurrency, failure and ordering decide whether the server is right.

## The system

The server is an asynchronous Python program (FastAPI, SQLAlchemy) that runs as
several worker processes on one PostgreSQL database and one disk. A request
opens a database session (`db/database.py: get_db`), its handler reads and
writes through the ORM, and the session commits at the end or rolls back on an
exception. Four things make it hard:

- no row that is read is locked, and several constraints the services rely on
  (one row per branch, one reviewer row, one number per issue) are not in the
  schema, so a check and the write that trusts it belong to different moments;
- objects live on the disk, outside the transaction;
- the MCP part keeps sessions, streams and futures, and the token check its cache,
  in the memory of one worker, on one event loop, with timers and a cleanup task;
- rendering, webhooks and release analysis run after the answer, in tasks that
  overlap with each other and with later requests.

| Component | State | Operations | What makes it correct |
|---|---|---|---|
| Commit graph (`services/musehub_wire.py`, `musehub_sync.py`) | none, pure functions | topological sort, two fast-forward tests | parents before children, the last commit is a tip, the tests are exact and agree |
| Branch heads, commits, merges (`musehub_wire.py`, `musehub_sync.py`, `musehub_pull_requests.py`) | commit rows, branch rows, `default_branch`, pull-request rows | `wire_push`, `ingest_push`, `create_pr`, `merge_pr` | heads and parents are stored, heads move forward, one row per branch, an accepted push is published, a merge is final, every request is answered |
| Object store (the same services, `storage/backends.py`) | object rows, files | object loops of the two pushes, `LocalBackend.put`, filter-objects | a row has a whole file, an accepted push leaves its objects held |
| Fetch and negotiation (`musehub_wire.py`) | reads of the above | `wire_fetch`, `wire_negotiate` | what is sent is what is missing, once; a common base is common |
| Pull (`musehub_sync.py`) | reads of the above | `compute_pull_delta`, page by page | the pages together have what the first answer promised |
| Tags of the wire protocol (`musehub_wire_tags.py`) | tag rows | `wire_push_tags` | tags pushed together are stored together |
| MCP sessions (`mcp/session.py`, `context.py`, `sse.py`, `write_tools/elicitation_tools.py`) | registry, stream queues, ring buffer, futures, cleanup task | initialize, GET stream, DELETE, tool calls with questions, answer, cancel, complete, timeout, cleanup | answers reach who asked, calls end, deletion releases streams and futures, expired sessions go |
| MCP quota (`musehub_mcp_executor.py`) | object rows of a user | `execute_muse_push` | pushes one after the other stay within the quota |
| Token revocation (`auth/`) | cache per worker, token rows | validate, register, clear | a revoked token is refused in time, nobody else is |
| Webhooks (`musehub_webhook_dispatcher.py`) | webhook and delivery rows | dispatch with retries, redeliver, create, delete | the log is exact, attempts are in order, everyone ends |
| Render pipeline (`musehub_render_pipeline.py`) | render jobs, object rows, files | trigger per push | what a job lists exists, renders are lost only by collision |
| Piano roll, MIDI parser (`musehub_piano_roll_renderer.py`, `musehub_midi_parser.py`) | none, pure functions | notes of a track, pixels of a note | the image shows what sounds, both readers find the same notes |
| Reviews (`musehub_pull_requests.py`) | reviewer rows | request, remove, submit | one row per reviewer, verdicts stay |
| Issues, milestones (`musehub_issues.py`, `milestones.py`) | their rows | create, label, assign, delete | numbers in order, milestones exist, removals hold |
| Releases (`musehub_releases.py`) | release and asset rows | create, retract, attach, remove, download | tags unique, no asset without release, counters exact |
| Stash (`stash.py`) | header and entry rows | push, pop, apply, drop | nothing is lost |
| Repositories, forks (`musehub_repository.py`, `social.py`) | repository, branch and commit rows | create, fork, push | what a fork lacks, its sources have |
| Collaborators and rights (`collaborators.py`, `repos.py`) | repository row, collaborator rows | invite, change, remove, settings, transfer, delete | only who has the right gets something done |
| Stars, watches, reactions (`social.py`, `musehub_discover.py`) | their rows | set, take back, toggle | a mark is as the last answers say |
| Labels (`labels.py`) | label rows and links | create, change, delete, assign, remove | what was answered holds |
| Listings (`musehub_events.py`, `musehub_repository.py`) | rows by date | pages by cursor and by number | a walk misses nothing that stayed |
| Pages of files and commits (`musehub_repository.py`) | none, functions of commits | last commit of a file, diff, tree | they name the same commits and show every file |
| Search, divergence, analysis, notation; prompts and catalogues; user interface; seeds | none of their own | queries, texts, pages | presentation; not modelled |

The push handlers call the commit-graph functions, write commit rows and object
rows in one transaction and files beside it; the REST push then starts the render
pipeline and webhooks in the background. The MCP tool `muse_push` checks its quota
and calls `ingest_push` like the REST route. Fetch, pull and negotiation read what
pushes stored; forks share the key of their commits with the repository they come
from. The other services share only the database: each request finds its rows,
decides, and writes when it commits.
`PROJECT.json` lists every component with its status, and under "hazards" each
place where one of these interactions can go wrong.

## The modules

| Module | Models |
|---|---|
| `CommitGraph`, `Negotiation`, `Browsing`, `PianoRoll` | pure algorithms as operators |
| `CommitGraph_proofs` | theorem: what the walk over a history computes; lemmas on ranks, sums and lineages |
| `MC_CommitGraph`, `MC_CommitGraph_proofs` | every small bundle of commits, history of a branch and MIDI track, and the reference definitions the operators are compared with; theorems |
| `RefStore`, `AtomicRefs` | heads, commits and pull requests of one repository under concurrent sessions; and the atomic heads callers are promised, which `RefStore` implements when each branch has one writer |
| `MC_RefStore`, `RefStore_proofs` | two sessions, two branches, three commits, one pull request; theorems |
| `ObjectStore`, `MC_ObjectStore`, `ObjectStore_proofs` | object rows and files under both push protocols; instances; theorems |
| `McpSession`, `MC_McpSession`, `McpSession_proofs` | registry, streams, ring buffer, tools that ask questions, in one worker; instances; theorems |
| `WebhookDispatch`, `WebhookDispatch_proofs` | dispatch, redelivery, creation and deletion of webhooks; theorems |
| `RevocationCache` | who may use a token |
| `RenderJobs` | the render pipeline |
| `CacheAndRenders`, `MC_CacheAndRenders`, `CacheAndRenders_proofs` | the two above, side by side; an instance; theorems |
| `Pull` | a pull, page by page, while pushes go on |
| `Stash` | the stash of one user in one repository |
| `Reviews`, `IssueTracker`, `Releases`, `Labels`, `Marks`, `Access` | rows that users share, each changed by overlapping requests |
| `Forks` | repositories forked from each other, and the commits pushed to them |
| `Quota`, `WireTags` | pushes under a quota; pushes of tags |
| `Listings` | three ways of paging, while rows come and go |
| `Collaboration`, `Collaboration_proofs` | `Pull`, `Stash` and each module of the four rows above, side by side; theorems |
| `MC_Collaboration` | an instance of `Collaboration` |

Operators marked "Mutant" in a comment are faulty variants of the definition
that follows them. No specification uses them; each shows that a property would
notice a plausible error in that definition.

`CacheAndRenders` and `Collaboration` put modules that share no state and no
row into one specification. A behaviour chooses one of them at the start (`part`) and the
others stand still, so the states are the sum of theirs and each module is
explored completely within its bounds.

### How a request is modelled

Isolation is READ COMMITTED, PostgreSQL's default, which the program does not
change: each statement sees what is committed when it runs. A request of the
modules about rows has a `pc` and what it has read; one action is one statement
that reads or waits, up to the next await that does. What it writes becomes
visible when it commits. A row that was sent and not committed makes an insert of
the same key or an update of the row wait; after the commit the insert fails. Where
no property can tell the wait from its end, the wait is folded into the commit
(a comment says so). `Fail` is any exception, a dead worker or a cycle of waits
that the database breaks: `get_db` rolls back. Requests are numbered in the order
they begin, which loses nothing, and remember which had ended then (`before`): two
requests overlap when neither had ended when the other began.

The ORM matters in three places and is modelled there: an update is sent only for
columns whose value differs from what was loaded; a delete names the row by the id
that was loaded, and finding it gone raises; and a pending change is sent by the
next query of the session, not when it is made.

### RefStore

Rows are functions: `commits` maps an id to its parents, `branches` maps a name
to the *sequence* of the heads of its rows, because nothing in the schema
forbids a second row. `Empty` is the head `""` that a wire push without commits
writes; `None` means no row was found (a NULL head is only ever seen by the
transaction that inserts the row, and behaves like none). A session has a `pc`,
the request in hand, and a `view`: what its transaction has read so far.

| Code | Actions |
|---|---|
| `wire_push` | `WirePushStage` (repo row and existing commits read, rows prepared), `WirePushDuplicate`, `WirePushAmbiguous` and `WirePushCheck` (the branch query sends the commit rows, then the fast-forward check), `WirePushFlush` (the other-branches query sends the UPDATE of the repo row), `WirePushCommit` |
| `ingest_push` | `IngestBegin`, `IngestResolve` (branch and check), `IngestFilter` (existing commits), `IngestCommit` |
| `create_pr`, `merge_pr` | `CreatePull`; `MergeBegin` (state read), `MergeRead` (both branches), `MergeCommit` |
| `get_db` on an exception, a dead worker, a deadlock detected | `Fail` |

Isolation is READ COMMITTED, PostgreSQL's default, which the program does not
change: each query sees what is committed then. Rows sent and not committed
block an insert of the same key (`Blocked`), which afterwards fails
(`DuplicateKey`), and an UPDATE of the same row (`HoldsRepoRow`,
`HoldsBranchRow`, `BranchRowFree`).

Simplifications:

- The queries of `wire_push` for the repo row and the existing commits are one
  step. The code asks once per commit; commits are never deleted, so a later
  answer only finds more, and what it would find is refused at the flush or
  skipped, as here.
- Requests refused before they read a branch (unknown repository, no permission)
  change nothing and are left out.
- A client pushes only commits whose parents are in the bundle or stored
  (`Delta`), and announces a head of its bundle, as the clients in the
  repository do. The server does not check either (`musehub_sync.py:276`).
- Merge ids are UUIDs; `MergeIds` bounds how many merges a run sees.
- Snapshots are inserted as commits are and no property needs them.

### ObjectStore

A row has its repository and the protocol that wrote it, which fixes the name of
the file. A file is absent, partial or whole: `OpenFile` is the open that
truncates, `WriteFile` the end of `write_bytes`. Files change at once, rows at
`Commit`. `WireLook` and `PutCheck` are the object loop of `wire_push` and
`wire_push_objects` with `LocalBackend.put`; `IngestFilter` and `IngestNext` are
the object step of `ingest_push`. `Refuse` is a wire push refused after its
objects were written, `Die` a process that dies, at the points in `DiesIn`. The
wait of an insert on another transaction's row ends in the same answer as a
commit that finds the row, and is folded into `Commit`. The S3 backend, presigned
uploads and deletion of repositories are not modelled.

### McpSession

One action is what the event loop runs between two awaits. A tool and a stream
keep their session after it has left the registry, so the functions are indexed
by session id, and ids are never drawn twice. `DeleteSessions` follows
`delete_session`: the session leaves the registry first, then each queue is told
in order until `put_nowait` raises on a full one, and only then the futures are
cancelled. `Asks` gives the questions of a tool: a form, a URL, or a form and then
a URL. `Begin` is a tool up to its first wait; `Wake` takes an answer and goes on:
to the end, to the next question if the client supports its kind (`GoOn`), or, in
the tool that creates a release, to `Create`, whose transaction may fail
(`CreateFails`). `Timeout` and `Abandon` are the other ways out of a wait. `Accept`,
`Decline` and `Cancel` are the client's answers, which may come twice or late;
`CompleteUrl` is the completion of a flow in the browser. Not modelled: progress
events, several workers. A session does not expire while a tool runs: a question
waits at most 300 s and the TTL is 3600 s.

### WebhookDispatch, RenderJobs, RevocationCache

| Code | Actions |
|---|---|
| `dispatch_event`, `redeliver_delivery` | `Dispatch`, `Redeliver`; then `TakeHook`, `Post` (a 2xx answer or not), `Flush` or `FlushRefused` (the delivery row, which waits for a deletion), and `Commit` of all rows |
| webhook routes | `CreateWebhook`; `DeleteAsk`, `DeleteFlush` (waits for delivery rows), `DeleteCommit` |
| `_render_commit` | `Gate`, the insert of the job, and for each artifact the write of its file, the look-up of its content and the addition of its row; `End`; a failed flush breaks the session for all that follows |
| `require_valid_token` | `Hit` or `Miss` of the worker's cache, `Ask` the database, `Register` an unknown token, `Fill` the cache; `Unreachable` answers 503 |
| operators and workers | `Revoke` a row, `Clear` one worker's cache, `Restart`; `Tick` of the clock |

In `RevocationCache`, `Delay` is the longest time between the database's answer and
the fill of the cache; the clock does not pass it (`Tick`). The code has no such
bound of its own, so the time in which a revoked token is still accepted is the TTL
plus whatever the event loop takes: `RevokedRefusedInTime` says exactly that.

### The modules about rows

| Module | Code | Actions |
|---|---|---|
| `Reviews` | `request_reviewers`, `remove_reviewer`, `submit_review` | look for the row, then `CommitAdds`, `CommitRemove`, `CommitUpdate`; `Ambiguous` where two rows make `scalar_one_or_none` raise |
| `IssueTracker` | `create_issue`, `create_milestone`, labels, milestone, deletion | `DrawNumber`, `InsertIssue`, `InsertMilestone`; `FindIssue`, `CheckMilestone`, `UpdateLabels`, `UpdateMilestoneOf`; `FindMilestone`, `CommitDelete` |
| `Releases` | creation, deletion, assets, downloads | `TagFree` or `TagTaken`, `Create`; `FindRelease`, `FindAsset`, `Retract`, `Attach`, `Download`, `Remove` |
| `Stash` | push, pop, apply, drop | `FindHeader`, `ReadEntries`, `CommitPush`, `CommitDelete` |
| `Access` | deletion, transfer, settings, collaborators | `ReadRepo` (the guard), `FindActor`, `FindTarget`, `LoadRepo`, one commit for each kind, `Refresh` |
| `Labels` | the routes of `labels.py` | `FindLabel`, `CheckName`, `FindAssigned`, then one commit for each kind |
| `Marks` | stars, watches, reactions | `Find`, `Add`, `Unwatch`, `DeleteSeen`, `FlushStar`, `CommitStar`, `Duplicate` |
| `Forks` | `create_repo`, `fork_repo`, both pushes | `Create`, `Fork`, `InsertRepo` (waits for the same name), `CopyBranches`, `CommitRepo`; `PushNew`, `PushOld`, `Look`, `CommitPush`, `Duplicate` |
| `Quota` | `execute_muse_push` | `GetRepo`, `CheckQuota`, `Look`, `Commit` |
| `WireTags` | `store_wire_tags` | `Insert` or `Move` for each tag, `Commit` |
| `Pull` | `compute_pull_delta` | `ReadHead`, `ReadCommits`, `Answer`, by a client of the service or of the route; `Push` in between |
| `Listings` | `list_user_activity`, `list_repos_for_user`, `list_events`, `list_commits` | `Draw` and `Commit` of rows, `Leave`; `ReadActivity`, `ReadRepos`, `Count` and `ReadPage` |

Many of their properties have the form "this holds, unless requests overlapped in
this way". The code takes no locks, so nothing stronger is true; each exception names
the overlap that is needed, which is what a reader of the code wants to know, and
outside it the property is unconditional over all orders and failures. What has no
exception: milestones of issues exist, assets have their release and exact
counters, no stash is lost, rights are those of the moment, nothing of a deleted
label stays, walks over the activity miss nothing, tags stay together.

### The pure algorithms

`CommitGraph` has the topological sort and both fast-forward tests, `Negotiation`
the walk of a fetch and the search for a common base, `Browsing` the last commit of
a file, the diff of two snapshots and the tree of a manifest, `PianoRoll` the two
readers of MIDI tracks and the rows and columns of a note. `MC_CommitGraph`
compares each with a definition of its own: paths in the graph, the diff of each
commit with the one before it, and the ticks in which a key is held.

## The runs

| Run | Question | Bounds |
|---|---|---|
| `commit_graph` | are the pure algorithms right on every small input? | bundles of four commits with at most two parents, in every order: the least with a diamond and a merge inside the bundle; histories of four commits on two branches with two paths and two objects, and a scan of two commits, so that its limit is reached; tracks of four messages on two keys with waits of up to two ticks, an image of three columns and four rows |
| `refs_one_writer` | with one writer per branch, do interleaved requests look atomic? | two sessions, one writing `dev` and one `main`, a merge of `dev` into `main`, bundles of one tip, up to two merges |
| `refs_shared` | two wire pushes on the same two branches: are heads stored, is the default branch kept, is everyone answered? | two sessions, bundles that include the empty one |
| `refs_lost_head` | does a head move forward when two clients push? | two sessions, one branch, diverging bundles |
| `objects` | do concurrent pushes leave rows with files, and files that heal? | two sessions, one repository, two objects, both protocols; a process dies anywhere but inside a write |
| `objects_torn` | and when it dies inside a write? | one session, one object |
| `mcp` | do questions, answers, timeouts, disconnections and deletions race safely? | two sessions, one stream, a tool with two questions and one with one, a client without URL support, a buffer of one; a queue of four, which never fills |
| `mcp_url` | does the completion of a URL flow reach its tool? | one session, one tool |
| `webhooks` | is the log exact although webhooks are deleted, and does everyone end? | two webhooks, a dispatch and a redelivery, two attempts |
| `cache_and_renders` | are revoked tokens refused in time? are renders lost only by collision? | two workers, two requests, one token, a clock of three ticks with a TTL and a delay of one, so that an entry expires and is filled again; two tasks for three commits whose MIDI objects share a name, an image and an upload |
| `collaboration` | do overlapping requests keep what was answered? | three to five requests for each module (five where two have run already: an issue and a milestone, a repository and its first commit), two names of each kind |
| `pull_cursor` | does the next page start after this one? | a client of the route, two objects, pages of one |

Three requests are the least at which one overlaps two that follow each other, which
is how most exceptions above arise; where a row must exist first, one more creates
it. `IssueTracker` and `Forks` start where requests 1 and 2 have made that row
(`Opened`, `Seeded` in `Collaboration`), a state their `Init` leads to. Pages have
one row and three rows are drawn, so a walk has several pages and rows of one date.

Four runs are violated by what the code does, and each is a finding of
`PROJECT.json`, with the line it contradicts:

- `refs_lost_head`: two unforced pushes that fork from one head both succeed and
  the later one drops the earlier.
- `objects_torn`: a retry takes the partial file of a dead process for complete.
- `mcp_url`: `elicit_url` waits under the request id, the completion names the
  elicitation id.
- `pull_cursor`: a client that follows `next_cursor` as the answer says gets the
  first page for ever, since the route takes no cursor.

In `refs_lost_head` and `refs_shared` the clients share branches; in
`refs_one_writer` each branch has one. That split is the result: what the code
guarantees without conditions (`HeadsStored`, `HistoryClosed`, `ViewsStayValid`) is
proved for every instance, and what holds only because nobody else writes the branch
(`HeadsMoveForward`, `OneRowPerBranch`, `OkMeansPublished`, `MergedIsFinal`, the
refinement) is proved under that condition. `DefaultBranchKept` needs the repo row,
which only wire pushes lock, and is checked and proved with wire pushes alone. Likewise
`mcp` has a queue that does not fill: with one that does, `put_nowait` raises in the
middle of a deletion and `DeleteReleases` and `ExpiredEvicted` fail.

`CHECK_DEADLOCK FALSE` is set where an instance is used up: a bundle, history or track
of full length, session ids, webhook ids, requests and tasks that are used once, a
clock at its bound, a pull that is done. `refs_one_writer` identifies the two merge
ids by symmetry; they are random, no constant mentions them, and the run has no
liveness property.

## Fairness

- `RefStore`: strong fairness of each session's step. A step may wait for another
  transaction's rows; the database queues waiters, so a waiter is not overtaken
  for ever, and a worker that lives runs its request on.
- `ObjectStore`: weak fairness of each session's step. No step waits; a request
  is worked on until it ends.
- `McpSession`: weak fairness of the event loop's ready work (`Begin`, `Wake`,
  `Create` or `CreateFails`, `AttachStream`), of timers (`Timeout`, `CleanupRound`),
  and of delivery to a client that keeps its stream open. Nothing is assumed of
  clients' requests: answers, cancellations and deletions may never come.
- `WebhookDispatch`: strong fairness of each task and deletion, which wait for each
  other's rows. A POST ends by its timeout, a pause by its timer.
- `RenderJobs` and `RevocationCache`: weak fairness of each task and of each request
  that waits for the database. Revocations, restarts and the clock are not fair.
- Nothing else has liveness properties: its requests end or fail by themselves.

## What is proved

Eight modules of proofs, each for every value of the constants that its `ASSUME`s allow.
In each, an inductive invariant (`IInv`, or one for each part) has `TypeOK` and what
makes the properties inductive; one lemma per action shows that it is preserved.

`RefStore_proofs`, for any sessions, branches, commits, bundles, targets and
kinds of requests, from `ConstantsOK` alone: `TypeCorrect`, `HeadsAlwaysStored`,
`HistoryAlwaysClosed`, `ViewsAlwaysValid`. `HeadsStored` is not inductive: a commit
moves a head to a tip, and skips the commits an earlier query found. The inductive
invariant therefore has `ViewsStayValid` (what a transaction has read, with what it
will insert, still covers its bundle and its parents) beside `HeadsStored` and
`HistoryClosed`. A step of another session keeps a view valid because commits are only
added; a step of its own extends the view by what is true at that moment.

Its second half has two hypotheses more, which the run `refs_one_writer` satisfies and
without which `refs_shared` and `refs_lost_head` show what happens. `OneWriterEach`: no
two sessions write to one branch. `OneTipEach`: bundles are finite, one commit of a
bundle is built on all others of it, as a client pushes a branch, and no commit is its own
ancestor, since its id is a hash of its parents' ids. Then:

- `OneRowAlways`, `HeadsAlwaysForward`, `OkAlwaysPublished`, `MergedAlwaysFinal`.
  `WriterInv` says for each session what its checks have established and that it is still
  true (`SessionRight`): the head it read is the head, that head is in the history its
  bundle will give the tip, the pull request it merges is open; and for the rows
  (`RowsRight`) that heads are commits and commits have the parents they were made with.
- `RequestsAreAtomic`: every step of the sessions is a step of `AtomicRefs` on the heads
  of the moment, or a stutter. It uses `WriterInv` where the code trusts what it read
  before: in each of the three commits.

Its last part is about `default_branch`, where all requests are wire pushes (`WireOnly`,
as in the run `refs_shared`): `DefaultAlwaysKept`. A wire push that sent its UPDATE of the
repo row keeps every other from that step until it commits; `DefaultInv` says that one at
most holds the row and that, when it found no other branch then, there is none still.

`CommitGraph_proofs`: `WalkIsHistory`, for every finite graph: the walk of
`_is_ancestor_in_bundle` and `_is_fast_forward` is the least set that has its start and
the parents of what it has, so the bound on its rounds is enough. The properties about
histories rest on it. The module also has what other proofs keep needing: the same of the
walk over the sources of forks (`LineageLeast`), ranks of numbers in a set (`RankTaken`,
`RanksEnumerate`) and sums over sets (`SumIsCells`).

`MC_CommitGraph_proofs`, from the bounds alone (`MaxCommitsOK`, `MaxWaitOK`, `ScanLimitOK`,
`ImageOK`), has a theorem for every property of the run `commit_graph`. The states are the
inputs, and their invariants (`BundleInv`, `HistoryInv`, `TrackInv`) say no more than what
inputs look like: ids are distinct, parents are older than their commits, a message has a
wait and a key. The content of the proofs is in the algorithms:

- `FastForwardTestsAlwaysAgree`. The reference definitions speak of paths from commit to
  parent; a round of a walk has what a path of that length reaches, so the least set of
  `WalkIsHistory` is the set of what a path leads to.
- `ParentsAlwaysFirst`. The invariant of the loop of `_topological_sort` (`Sorting`): what
  is placed or waits is there once, and is what has the degree zero; the degree of a commit
  counts the slots of its parents that are not placed, and parents are placed before it.
  The loop places everything, since the least number that is not placed has all its parents
  placed.
- `NegotiationInAnyOrder`, and from it `NegotiationAlwaysSound`, which is the same for the
  order of rows TLC checks. The search for a common base goes from what is missing to the
  parents, level by level; it ends at the first level with something the client has, and if
  there is none, nothing the client has would shorten the fetch.
- `BrowsingAlwaysAgrees`. The commit the scan for a file ends at is where the content of
  the file at the head came in (`CameIn`): from there on it stayed, and before it something
  else was there; that is the last commit whose diff with the one before shows the file.
  The tree is a fold over the paths of a manifest, in which each file is below the
  directories of its path.
- `ScoresAlwaysAgree`. After each message the notes a reader has cover exactly the ticks in
  which their key sounded so far and end in order, and a key is open exactly when it is
  held (`ReadSoFar`); the two readers agree but on keys struck again (`Together`). Rows and
  columns of a note follow by lemmas about division.

`ObjectStore_proofs`, for any sessions, repositories, objects, protocols and
points of death, from `ObjectConstantsOK`:

- `TypeCorrect` and `RowAlwaysHasFile`. The invariant adds that every row a
  session is going to commit already has its file (`FreshHasFile`), that a
  session at work has a request and the object in hand (`SessionsReady`); files
  are never removed, so other sessions cannot disturb it.
- `OkAlwaysHeld`, for a store with one repository (`OneRepo`). The invariant
  `Accounted` says that each object of a running push is still to do, in hand,
  added, or has a row. With two repositories it fails: a row may be another
  repository's, and the push skips the object.

`CacheAndRenders_proofs` has two parts. `RevocationCache`, for any workers, tokens,
requests, TTL and delay, from `CacheConstantsOK`: `TypeCorrect`,
`RevokedAlwaysRefusedInTime`, `RefusedAlwaysWasRevoked`. A request is judged by a cache
entry, which another request filled from an answer it got before: the invariant dates
both. `AnswersAreRecent`: an answer that waits for its fill is at most `Delay` old, and
older than the revocation if it says "not revoked"; `EntriesAreRecent`: so an entry that
says so expires `Delay + TTL` after the revocation; `NoDateAhead`: nothing is dated in the
future.

`RenderJobs`, for any tasks, commits and payloads, from `PayloadsOK`:
`RendersAlwaysHold`. The invariant (`RenderInv`, and `RenderRight` for each task) says that
each row in a transaction has its whole file and is of an artifact of its own task, that a
job lists only what has a row, and that whatever a task runs into since it looked
(a job of its commit, a row of one of its artifacts) is of a task it met. The hypothesis
`StemsDiffer`, that no two MIDI objects of one commit have one stem, is needed: they
would share a file (see "Other disagreements").

`WebhookDispatch_proofs`, for any webhooks, tasks and attempts: `TypeCorrect`,
`DeliveriesAlwaysExact`. The property speaks of tasks that have ended. On the way there
the rows of a task are its POSTs but for the one just made (`RowsArePosts`); a row that
was sent keeps its webhook from going (`RowsHold`), which is what makes the log complete
although webhooks are deleted; each webhook the task is through with was served
(`Progress`), and the attempts in hand failed one after the other (`AttemptsSoFar`).

`McpSession_proofs`, for any sessions, streams, calls and bounds, has two invariants.
`IInv` tells where each call is, what it asked, what was accepted and whether its release
is there (`Story`), and ties a future without outcome to the key in its session, an
accepted one to the latest question (`Waits`): `WaitersAlwaysReachable`,
`AnswersAlwaysAsked`. `StreamInv` says that a queue is attached to the session of its
stream and to no other (`Attached`), and that, while the session is registered, it holds
questions that were asked, each once, and no sentinel (`Unended`): `TypeCorrect`, with the
bounds of the store, the buffers and the queues, and `DeleteAlwaysReleases`. The latter
needs that a queue has more places than there are questions (`RoomForAll`, as in the run
`mcp`); on a full one the deletion raises. A deletion cancels the futures whose keys the
session has, so `Waits` keeps the key of a future also when nobody waits for it any more
(`Abandon`).

`Collaboration_proofs` proves every safety property of `Collaboration`, each for any
number of requests. The constants need a member of each kind, calls that name
users (`AccessOK`), pushes that are sequences of tags (`TagPushesOK`), for `IssueTracker`
and `Forks` requests and commits numbered from 1 (`TrackingOK`, `ForkingOK`), for `Pull` and
`Listings` ids and dates that are numbers and pages with room for a row (`PullOK`,
`ListingOK`), for `Quota` finitely many objects with sizes and an owner of each repository
(`QuotaOK`). The properties say what answered requests may rely on; their invariants say,
for every request on its way, what it has read and which of that is still true, and who is
to blame where it is not:

- `TagsAlwaysTogether` (`TagInv`): rows that are sent and not committed have labels and
  ids apart from every other push's and from the committed ones'.
- `AccessAlwaysHolds` (`AccessRight`): the caller of a request past its guard was entitled
  at a moment since it began; a flag it will write back was set then, or by a request that
  overlaps.
- `ReviewsAlwaysHold` (`ReviewRight`): who is found missing has no row of a request that
  ended before; a verdict seen is still there, or a comment took it back.
- `ReleasesAlwaysHold` (`ReleaseInv`): the counter of an asset is the number of downloads,
  for each of which the asset was attached.
- `TrackerAlwaysHolds` (`TrackRight`): the number a request will insert has all smaller
  ones before it and is larger than that of every request that had ended; a label that is
  taken away is in no row, or a request that ran since wrote it back.
- `LabelsAlwaysHold` (`LabelRight`, `ColumnRight`): a column that a request will write back
  is as the last change before it left it, or a request that overlaps undid that.
- `MarksAlwaysHold` (`MarkRight`): a row that a request has not seen was inserted by one
  that had not ended when it began; the one that will be inserted has no rival.

- `StashTyped`, `NothingEverLost` (`StashInv`): a stash answered ok is there with all its
  entries, or a pop that had read them was answered, or a drop
  (`StillThereOrHandedOut`); a pop that is about to delete or was answered has read the
  entries, or the stash was handed out before; and no pop that had ended before a pop found
  its header was a pop of the same stash, which is what makes a second pop fail.

That a label, a verdict or a mark is missing always names a request that overlapped: this
is the content of the exceptions in these properties, and why the sets `before` are kept.

The other four follow something through a structure or a sequence of answers:

- `LineageAlwaysHolds` (`ForkInv`). A push skips commits that any repository has, because
  the key of a commit leaves the repository out. That a fetch which follows the sources of
  a fork finds them needs that a commit is stored where its parents are in reach
  (`PlacesRight`), that pushes of a commit nobody has stored are to one repository
  (`OneHome`), that all a push will skip but its tip is in reach of its repository
  (`ForkRight`), and that sources are older than their forks (`SourcesRight`), so that the
  walk over them ends.
- `PullsAlwaysComplete` (`PullInv`), for clients that page as the service or list what they
  have (`"cursor" \notin Clients`; for the third kind the run `pull_cursor` shows that the
  property `NextPageAfter` fails). A pull has, between its pages, every object up to its
  cursor of the commits it was first told of (`ObjectsUpTo`), and every commit of the
  branch up to the head it was first told (`BranchUpTo`); what is pushed later is in
  neither. The rank of an id in what is missing says where it is on a page, so most of the
  lemmas are about cardinalities.
- `WalksAlwaysCover` (`ListInv`). Between the pages of a walk by cursor, a row that stayed
  was given, or is after the cursor, or, in the repositories, has the date of another
  (`CursorRight`); nothing after the cursor was given. By page number, a row that stayed
  and was not given has at least as many newer rows as the pages so far have room for: a
  new row only adds to them, and the page that comes next has the row or leaves more before
  it (`PageGives`). This is where a row that leaves, two rows of one date, and a row between
  count and page break it, which are the exceptions of `WalksCover`.
- `QuotaAlwaysHolds` (`QuotaInv`). A push past the check had room for all it may insert, and
  has it until it commits, unless a push into the same repositories, by somebody else or not
  ended when it began, was answered since (`StoreRight`). The bytes are a fold over a set
  that picks an element at a time: they are the number of cells of a table with a column for
  each object (`SumIsCells` in `CommitGraph_proofs`), so the order does not matter, a larger set has more bytes and a
  union no more than both parts; and the length the check counts is never below the size.

Induction: the library's induction theorems take a predicate as a parameter, which cannot
be instantiated here. Induction over the natural numbers is taken from `WFMin` instead,
which speaks of sets (`Induction` in `CommitGraph_proofs`). Of a function defined by
recursion the provers know that it was chosen among those with the equation of its
definition, so a lemma first shows that there is one: for recursion over numbers
(`Recursion`), for the folds of the library over sets (`SumExists`) and over sequences
(`FoldExists`). `SelectSeq` is a recursive operator of the standard module and out of
reach; where the code filters a list, the model enumerates the places that stay by their
rank instead (`InBundleOrder` in `CommitGraph`, `Those` in `McpSession`), and
`RanksEnumerate` says that it has each of them once.

Every invariant and every action property of a passing run has a theorem. Only
model-checked are the liveness properties, `Answered`, `TruncationHeals`, `CallsEnd`,
`ExpiredEvicted`, `EveryoneEnds` and `EverythingEnds`: they rest on fairness, whose ENABLED
the provers do not reason about.

## Other disagreements

Seen while reading the code; deterministic, close to a finding above, or of parts that
are not modelled, and so not runs.

Pushes, pulls and merges

- Two first pushes insert two rows for one branch, and every later push to it raises
  (`musehub_sync.py:389`); two concurrent merges of a pull request both answer ok
  (`musehub_pull_requests.py:172`).
- A REST push does not lock the repository row, so a concurrent wire push can overwrite
  `default_branch` (`musehub_wire.py:339`), which is kept in two places.
- The head `""` of a wire push without commits is taken for a head by `ingest_push` and
  `merge_pr`: the first push of commits after it is refused, and a merge records it as a
  parent.
- A push leaves out an object that another repository has, and is answered ok
  (`musehub_wire.py:211`); the two protocols name the file of an object differently, so
  neither reads what the other wrote.
- A second writer truncates the file of a committed object until its write ends
  (`objects` shows that it heals).
- `wire_negotiate` promises the deepest common base and finds the nearest level's; it
  answers `ready` false when nothing is missing but something is had.
- A pull filters commits by the branch they were first pushed to, and misses objects
  inserted below its cursor while it pages.
- Tags pushed from a clone to a second repository fail on the key of their ids; only a
  conflict of labels is expected (`musehub_wire_tags.py:80`).
- `fork_repo` says "copies all commits" (`social.py:642`) and copies heads; no reader
  follows the lineage, a REST push of inherited commits fails on their key, and commits
  first pushed to a fork stay in the fork's rows when they are pushed to its source.
- The quota is neither applied to REST and wire pushes nor to pushes that overlap.

MCP

- A full queue ends a deletion halfway, and the same exception ends the cleanup task; a
  session deleted between look-up and registration leaves a stream that never ends.
- Buffered events carry no id, so `Last-Event-ID` replays nothing.
- A batch with an item that is no object is answered 500 after earlier items ran.

Collaboration

- Two rows for one reviewer make every look-up raise, although the table says "One row
  per pair" (`musehub_models.py:547`); a removal that races with a submission deletes a
  verdict; a comment makes an approved review pending again
  (`musehub_pull_requests.py:489`).
- The caller of `create_pr_comment` does not validate the parent, as its docstring says
  (`musehub_pull_requests.py:271`): a reply to a comment of another pull request is
  stored and counted, and never shown.
- Numbers of deleted milestones are drawn again. Two pops that overlap both return the
  entries, although the docstring says "Atomically" (`stash.py:326`).
- Changing a label (`labels.py:241`) and changing settings (`musehub_repository.py:2326`)
  write back what they were not given; the latter says "atomically without touching other
  settings fields" (`repos.py:1415`). The issue-label routes of `labels.py` are hidden by
  those of `issues.py`; `seed_default_labels` is never called.
- Nothing accepts an invitation, so an invited admin never passes `_guard_admin`. Admins
  can grant "owner", which nobody can remove; an update that overlaps a removal loses it.
  Two transfers or deletions that overlap both succeed; two invitations of one user end
  in a 500.
- Deleted repositories are still read by owner and slug, which `repos.py:1241` says is a
  404, and their settings still change.
- Two stars at the same time end in a 500, though the route is "Idempotent". The key of
  a reaction leaves the repository out: a second repository's toggle answers that it was
  added, and adds nothing. A watch of a repository that does not exist is answered ok.
- Overlapping calls of `stop_session` overwrite `ended_at`, though it is "idempotent"
  (`musehub_repository.py:1359`). `DomainInstall` rows are never written.

Pages and background work

- The file list of the home page takes the newest commit for the last change of each file
  (`musehub_repository.py:1957`, against line 1918); "behind" on the branch page counts
  shared history (`:399`); `resolve_head_ref` ignores the default branch; the tree of a
  ref that is a commit id shows all objects.
- Star and commit counts of explore and search are multiplied by two joins, and deleted
  repositories are shown (`musehub_discover.py:90`).
- `list_repos_for_user` skips repositories of one date at a page's end, and page numbers
  miss a row that arrives between the count and the page.
- `find_common_ancestor` (`musehub_divergence.py:264`) intersects the rows of two
  branches, and a commit has one branch: it always answers None, and each dimension
  scores 0 or 1.
- A render job is only ever visible as complete, also when artifacts failed; MIDI files
  of one stem share a file.
- The canvas of a piano roll has 128 rows, the PNG header says 256, and a pitch takes two
  rows (`musehub_piano_roll_renderer.py:228`, `:262`): pitches from 64 on are not drawn,
  and the image is cut short. A note without length at the very end is not visible,
  though `:75` says notes always are. The two readers of tracks differ on a key struck
  while it is held.
- Release analysis compares with the newest other release, which may be later than the
  one it analyses. The trend of social analytics leaves out today. Blame
  (`blame.py:63`) and notation (`musehub_notation.py`) are pseudo-random numbers made from
  commit ids.

## Not modelled

- Search, divergence, release analysis, notation, topics, feeds, discovery pages: queries
  and scores for one answer, without state or protocol; what is odd in them is above.
- The user interface (`ui*.py`, templates, styles): presentation.
- Prompts, tool catalogues, resources, contracts and models: declarations. The dispatcher
  and most tools of the executor call one service and format what it returns.
- Seed scripts, MIDI generator, migrations: run by hand, once.
- Parts of modelled components: the S3 backend and presigned uploads; progress events of
  MCP and sessions in several workers (routing by session is left to the proxy, as
  `api/routes/mcp.py:243` says); comments; assignees and the state of an issue;
  templates and the first commit of the wizard; profiles, identities, domains and
  recording sessions, which are rows looked up and inserted by one statement each.

These are the larger part of the repository's lines: seeds, pages, schemas, catalogues,
texts and one-answer queries alone are more than two thirds of them. There is no
behaviour in them that a state machine would add to, so the share of lines that is
modelled stays small; the services that change shared state are modelled.

## Plan

Every safety property of the passing runs is proved. What could be added to the proofs:
that `OkMeansHeld` needs no `OneRepo` for objects that only one repository pushes, and
that `DeleteReleases` needs room only for the questions of one session.

Then the model: threads of comments, several workers behind `McpSession`, and objects of
several repositories in `ObjectStore`.

## Running

`tlc -config RefStore_one_writer.cfg MC_RefStore` and so on, as `PROJECT.json` lists
them (the longest takes about two minutes); `tlapm RefStore_proofs.tla` and so on check
the proofs.
