# Rescened in TLA+

Rescened is a web application for album listeners: a listening diary, boards of
albums, a queue of albums to hear, reviews and comments, a moderated catalog,
and a Last.fm connection whose scrobbles become diary entries. The server is
Express over MongoDB; a separate worker process captures and interprets
scrobbles. This directory models the parts of it that change shared state while
others do, checks the models with TLC and proves theorems about them with TLAPS.

Paths below are relative to the repository; `worker.js:82` means line 82 of the
file of that name.

## How the system works, and what is hard about it

Every API process and every worker is a client of one MongoDB replica set. There
are no locks. Consistency comes from four idioms, and most of what can go wrong
is a place where one of them is missing or is used at the wrong moment:

1. **Transactions with claims.** `boardMutations.transaction` runs a callback
   under snapshot isolation. MongoDB only detects write-write conflicts, so a
   callback that depends on a document it does not change *claims* it: it writes
   a field of it (`updatedAt`, a revision, a fence) to make a concurrent change
   conflict.
2. **Conditional updates.** One `updateOne` whose filter names the revision,
   state or lease that the caller read earlier; no match means somebody else was
   faster (the listen queue, jobs, moderation).
3. **Idempotency receipts.** A unique key inserted with the effect, so that a
   client which repeats a request after a lost answer gets the first result.
4. **Leased jobs.** A document per job; a worker takes it for a while under a
   random token, and fences every write with the token.

| component | state it keeps | operations | talks to | hard because |
| --- | --- | --- | --- | --- |
| board library (`routes/utils/boardMutations.js`, `boardLibrary.js`) | boards with a revision and an order, saved items, listen memberships, the profile's pin | save, remove, attach, detach, update, reorder, delete, pin | diary, profile | two documents' parents may vanish between the read and the commit; the board is read in two queries |
| listening diary (`listeningDiary.js`) | listens, creation receipts, album fences | create, update, delete | boards, queue, automatic publication | retries, several boards in one transaction |
| board order (`boardOrder.js`, `frontend/.../boardOrder.js`, `BoardDetail.jsx`) | `albumOrder` up to a limit, sort and style; the client's draft | reconcile, seed, reorder | boards | three copies of one rule; ties of save times; the limit |
| listen queue (`listenQueue.js`) | ids and a revision on the profile, with a legacy field | add, remove, reorder | diary | optimistic retries against the diary's transactions |
| listening jobs (`lib/listening/worker.js`) | jobs with status, lease, token, attempts, rerun flag | enqueue, acquire, renew, complete, fail | every listening component | leases that expire, several workers, requests while running |
| Last.fm connection (`lib/listening/connections.js`) | attempts, one connection per user with a revision and activation windows, scrobbles | start, callback, pause, resume, disconnect, delete the account | jobs, Clerk, Last.fm | provider calls between a check and its use; pages in flight; cleanup in line |
| sync windows (`worker.js`) | cursor, window progress | sync, sweep | provider | pages that shift, retention, continuation |
| detection and publication (`detection.js`, `reconciliation.js`, `publication.js`) | detections, evidence, receipts, fences | reconcile, publish, resolve | diary | reprocessing must not bring back what the owner deleted |
| mappings (`lib/listening/moderation.js`, `discovery.js`) | cases, mappings, revisions, audits | discover, decide, revoke, reprocess | scrobbles, catalog | decisions on stale revisions |
| track-list baselines (`lib/baselines/service.js`, `backfill.js`) | a head per album or suggestion, candidates, an enrichment queue | enrich, decide, invalidate, publish | catalog, submissions, mappings | a catalog revision that moves on while a list is reviewed |
| submissions (`routes/utils/submissions.js`, `approval.js`, `moderationCommands.js`, `bulkApproval.js`) | suggestions with revisions, commands | submit, edit, withdraw, decide, decide in bulk | catalog, genres, notifications | repeated commands, stale revisions, checks outside of the transaction |
| genres (`lib/genres`) | vocabulary with revisions, merges, genre suggestions, links to albums | command, merge, seed, suggest, approve | catalog, notifications | one genre changes under several writers |
| reviews and comments (`lib/reviewComments`, `routes/reviews.js`, `likes.js`) | reviews with an interaction revision, likes, comment trees, reports | write, edit, delete, reply, report, moderate | notifications | tombstones, cascades, account deletion |
| catalog tools (`lib/catalogImport`, `scripts/importCatalogDataset.js`, `migrateReviewIds.js`) | a dataset with its sidecars, plans, reports, progress files | fetch, import, plan, apply, verify | catalog, reviews | operators' processes that die, plans of what has changed since |
| notifications, follows, feeds, rate limits | deduplication keys, cursors, in-process caches | fan out, read, page | everything social | exactly-once fan-out, shared loads, counters |
| web client | React state | the board draft | boards | its own copy of the order rule |

What each component must guarantee is listed as hazards in `PROJECT.json`, at
the line where it bites and with the properties that watch it.

## Modules

`SnapshotTransactions` is the database: `db` maps documents to values, `tx` maps
each open transaction to its request, its snapshot and the set of documents that
others changed since (`missed`). A transaction commits if it writes nothing that
it missed (first committer wins). Absence is a value, so no document appears or
disappears. `Write` is a single update outside any transaction. The other
modules extend it; one TLA+ client is a request being served.

`Library` is `boardMutations.js` with the writing half of `listeningDiary.js`.
Each request of the API is a record; a step begins a transaction for it and
another commits the handler's whole effect, so that any number of commits may
fall in between. `ReadBoard` and `ReadEntries` are the two queries behind a board
page, and `SendReorder` is the request that its owner makes from what they saw.
`OrderRules` and `Orders` have the order rules that it shares with `BoardOrder`.
`Library` does not keep save times: every order that some save times allow is
allowed. `getDefaultBoard` is the action `CreateBoard`; the profile's timestamps
that `createListen` touches are left out, which only allows more interleavings.

`BoardOrder` follows one board to the millisecond: what is stored, what is
displayed, and what the client's draft shows. Its `ReconciledOrder` uses save
times, and the property `OrderIsReconciled` says it stays within what `Library`
allows.

`ListenQueue` is `listenQueue.js`: load, compute, conditional write, at most
`WriteAttempts` times, with listens created by transactions next to it.
`QueueProfiles` has the profiles that a queue is in and its limits.
`AtomicQueue` is what a caller is promised (a request is served in one step from
the state of that moment, or refused), and `ServedAtomically` is the refinement:
the queue and the answers of `ListenQueue` implement it. `QueueRules` has the
shared rules.

`ListeningJobs` is one detection job under several worker processes: requests
inside a transaction (a sync that ends) and outside of one (an expiry, a mapping
decision, the owner), acquisition, leases, the detection transaction, and the
updates that rerun, complete or fail the job.

`Connections` is one owner's Last.fm connection with its sync and cleanup jobs,
the authorization attempt, and account deletion by the webhook. A connection
document carries its id and revision; a scrobble carries the revision it was
captured at. `since` is bookkeeping of the model: the revision of the last
authorization.

`SyncWindows` is what a sync and a sweep of an active connection do with time: the
cursor, the window with its overlap, pages that the provider counts from the newest
scrobble and that therefore shift, the progress that is saved per page, the continuation
in a later run, the gap that is recorded when a window starts at the retention horizon
or is cut there (`worker.js:370-383`), and the sweep that looks again for late
scrobbles. The horizon is looked up twice: when a window is fixed, and again in each
run, the one that fixed it included. If the clock has moved in between, the window is
cut there (`Cut`), and what is cut off replaces the gap that was recorded. `removed` and
`pass` are history: what the provider's list lost, and, for each job, what was listed
when its window was fixed and what had been removed when the last page that it saved was
asked for. They tell the one case in which a page boundary may skip a scrobble, a
removal that leaves the number of pages as it was.

`DetectionRules` has the pure part of detection (`detection.js`): episodes of
scrobbles of one album and the plays in them, as recursive functions over the
scrobbles in time order. `AutoDiary` is what is
made of them: `reconciliation.js` compares stored detections with fresh ones,
`publication.js` turns them into diary entries under receipts and album fences,
and the owner logs, edits, deletes, dismisses and opts in and out at the same
time.

`Suggestions`, `Genres` and `CatalogReviews` are the three ways in which the
catalog changes. `Suggestions` has albums that contributors propose and
corrections of them, the moderators' commands with the revision they were made
for, duplicates by external reference, bulk approval and the notifications.
`Genres` has the vocabulary: rename, retire, alias, merge, seeds, genre suggestions and the
approval that links genres to albums. `CatalogReviews` has one album (or one
suggestion) with its track-list baseline and its listening mapping: enrichment
and decisions against the catalog revision, and the scrobbles that follow the
mapping. A moderation begins when the page is read: `meta` is what the moderator saw
of the album then. An approval may name the catalog revision (`named`) or not; if not, it is
compared with the candidate that is stored in the case, and with nothing if there is none
(`ExpectedRevision`, `moderation.js:346-348`). Discovery runs outside of its transaction,
which finds the case as it was read or changes nothing.

`CatalogFetch` and `CatalogImport` are the operator's tools around the catalog.
`CatalogFetch` builds a dataset from the rankings of ListenBrainz
(`listenBrainz.js`): ranges with quotas and a cap per artist, retries, a cache of
release groups, and three files that are put in place one after another and put
back in reverse. `CatalogImport` takes a dataset into the catalog
(`persistence.js`, `dataset.js`): two queries, a plan, one transaction that finds
every album as it was planned with or rolls back, and two reports that are staged
before and renamed after it; corrections, genres, covers and approved suggestions
are written at any moment. `ReviewIdMigration` is `migrateReviewIds.js`: a sealed
plan, batches of one transaction each with a progress file beside it, resumption
after a crash, an index, and a verification, by two operators at once if they like. Each
process reads the progress file once and from then on writes its own copy of it with what
it did (`migrateReviewIds.js:641-676`), so that the slower of two operators takes the
batches of the other out of the file, and its `completedAt`.

`Reviews` is `lib/reviewComments`, `reviewInteractions.js`, the writing half of
`notifications.js` that concerns reviews and comments, and the social half of
account deletion (`accountDeletion.js`, `accountFence.js`). Handlers are
functions of the transaction's snapshot, with the set of documents that they
claim: `Finish(x, t, touched)`. A notification is a document per recipient and
subject whose value is the actor; whoever muted it is left to chance, and so are
the followers that `followedReviewRecipients` finds. A creation that meets its
own Idempotency-Key or a duplicate of the last ten minutes writes nothing but a
fence and is an `Abort`. `CreateReview` and `LikeReview` do not look at the account
fence, as in the code: a deleted account's request in flight may still do both.

`SiteFeeds` is the ranked album feeds of the front page with the cache under them
(`feedCache.js`, `reviewFeeds.js`): callers that join a load in flight, loads that
are evicted, expire or fail, and the ranking that is cut to a page only after the
albums that left the catalog are dropped. The order of a ranking is fixed.
`Paging` is one reader who walks a list page by page while its rows change: the
cursors of reviews (`reviewPagination.js`, five sorts, of which popular keeps a
snapshot), the diary, rankings, notifications, the moderation queue, and comment
threads. `NotificationPage` is `Notifications.jsx` with the three routes it
calls: requests in flight carry the generation and the session they were sent in,
and their answers come back in any order, or not at all.

`MCOwner`, `MCWorkers`, `MCCatalog` and `MCReading` put several of these side by
side. `part` says which of them moves in a behaviour; the others keep their
initial state, so a run is the sum of its parts and not their product. They
extend one module or two and instantiate the others on variables of their own; their
properties are the properties of the modules, or the conjunctions of them that are
written there. They repeat the assumptions of the modules they instantiate, which TLC
evaluates.

| TLA+ | code |
| --- | --- |
| `Begin`, `CommitTouching`, `Retry`, `Abort` | `session.withTransaction` and its callback |
| `Claim...`, `Fenced`, `FencedAttempt`, `touched` | the `updateOne` of a claim or a fence |
| a request record in `Library`, `ListenQueue`, `Reviews` | an API call with its parameters |
| `missed` | the documents whose write would raise a WriteConflict |
| `run`, `call` | the local variables of a job or of a callback between awaits |
| `expired` | jobs with `leaseUntil` in the past |

`PROJECT.json` maps every definition to its lines.

## Runs

| run | instance | what it shows |
| --- | --- | --- |
| `library` | `Library`: 2 clients, 2 boards, 2 listens, 2 albums, 1 key, 2 dates, order limit 1. In a scene about one album (legacy or not), 3 requests of every kind; in the scene "orders", 4 requests on one board that goes past its limit | attaching, saving, pinning, creating, editing, reordering and deleting race; no membership, item or pin without its parents; one listen per key; stored orders are of what the board has; a reorder is refused unless its board is as its client saw it |
| `owner` | Three parts. `AutoDiary`: 5 scrobbles of 2 sessions that merge or split, 1 manual entry, near and far dates, from chosen scenes. `ListenQueue`: 2 tabs and a diary transaction, limit 2, 2 attempts, 3 requests, from four queues. `BoardOrder`: 4 albums, limit 2, equal save times, 3 changes, from three boards | a play is published once, if it was played, with its owner's consent, and not next to an entry that was logged before the pass committed and kept its date; the queue implements `AtomicQueue`, and every change has its revision; nothing on a board moves that its owner did not move, and the draft is what a save shows |
| `workers` | `ListeningJobs`: 2 workers, 2 producers, 2 requests, 2 faults. `Connections`: cleanup with 1 worker and 1 caller, 3 requests, 1 of which may be a fault. `SyncWindows`: 3 scrobbles, one listed late, pages of 1, 2 per run, retention 4, 1 fault; with sweeps until time 3 (`windows`), and without them until time 6 (`regular`) | only the lease holder writes; detections are never older than the evidence; a flag survives until it is checked; a finished window has every scrobble that the provider listed in time; what a sync missed is before the end of the gap, which is what holds publication back; detect jobs, cleanups and, without sweeps, syncs end, unless the whole window is older than the horizon |
| `catch_up` (violation) | `SyncWindows`: pages of 2, retention 2, 1 fault | a window that the retention horizon overtakes never ends |
| `gaps` (violation) | `SyncWindows`: retention 1, no fault | a gap that was just recorded is replaced by one that begins where it ends |
| `connections` | `Connections`: 1 worker, 2 callers, 1 attempt, 3 requests | callbacks, mutations, deletion, pages and cleanup in every order |
| `lost_cleanup` (violation) | `Connections`: the owner may leave, 2 requests | a crash between disconnect and enqueue leaves it uncleaned |
| `dismissed` (violation) | the same | a late scrobble brings a dismissed play back |
| `lost_rerun` (violation) | `ListeningJobs`: 1 worker, 2 transactions | a rerun request between check and completion is lost |
| `catalog` | `Suggestions`: 2 moderators, 1 contributor, 2 suggestions, 1 external reference, 4 requests. `Genres`: 2 genres, 3 names, an album that may have 1, 2 requests. `CatalogReviews`: an album, a mapped album or a suggestion, in nine scenes of up to 3 requests of chosen kinds. `CatalogImport`: 2 datasets, 2 runs, 1 edit, 2 faults. `CatalogFetch`: 2 ranges, 2 runs, 2 outages | decisions are of what was read; what was approved is what the catalog has, and contributors are told; lists, links and revisions of genres add up; baselines and mappings in use were reviewed for what the album says, except for mappings whose approval the code compares with no revision; an import keeps what users own and tells what became of it; a dataset is one that the importer accepts |
| `reviews` | `Reviews`: 2 users, 1 review, 3 comments, 2 clients, 3 requests, from four threads. `SiteFeeds`: 2 callers, 2 feeds, 4 albums, room for 1 ranking, 3 loads. `Paging`: 4 rows, pages of 2, 2 writes, nine sorts. `NotificationPage`: 3 notifications, pages of 1, 4 requests. `ReviewIdMigration`: 2 operators, 2 reviews and room for another, batches of 1, 2 plans, 4 runs | comments, likes, pins, reports, moderation, fan-out and deletions race: nothing dangles, a removal is final, followers are told once, no comment, report or mention of a deleted account comes back; a feed serves what is still there and was fresh; a reader misses no row that stayed where it was; the page never has a hole, and restores nothing that it cleared, except by a first page that was asked for while the clear was in flight; a migration that completes has given every review an identity, and no identity changes |
| `hollow_tombstone` (violation) | `Reviews`: 2 requests | a comment and its last reply deleted at once leave an empty tombstone |

**Bounds.** Two clients are enough for the conflicts of interest, which are
between a pair of transactions on shared documents; the third party (an already
committed change) is reached by the order of commits. Requests, faults and
revisions are bounded by counters in guards (`MaxRequests`, `MaxFaults`, `MaxFailures`,
`MaxRevision`, `MaxCatalog`, `MaxConnections`, `MaxScrobbles`, `MaxChanges`,
`EndOfTime`); in `Connections` `MaxRequests` bounds requests and faults
together. Limits of the code (100 ordered albums, 15 queued, 3 attempts, pages of
200, 30 days) are constants, set to 1, 2 or 3 so that they are crossed. `Reviews`,
`AutoDiary` and `CatalogReviews` start from scenes that earlier requests leave
behind, so that a run's requests are spent on the race and not on the
preparation. In `workers` the horizon moves into the past that was played (retention 4,
time up to 6), so that syncs continue on both sides of it: windows of more pages than a
run fetches that are within the horizon, at it, or cut by it. `gaps` needs only one
catch-up, and retention 1. `CHECK_DEADLOCK FALSE` is set where users and callers may simply
stop.

**Fairness.** `WorkersSpec` puts together the fairness that its modules state.
`FairJobsSpec`: a worker goes on with the job it holds and takes a waiting one (WF of
`WorkerStep`), and leases run out (WF of `Expire`). `FairConnectionsSpec`: the same, and
a cleanup job is not passed over for ever (SF of `Acquire`), since `acquireJob` takes
jobs by `runAt`. `FairSyncSpec`: syncs and sweeps go on (WF of `SyncWork` and
`SweepWork`), and the clock does (WF of `Tick`), without which a window at the horizon
could be cut at the same moment for ever: that time passes while the pages of a run are
fetched is what ends it. `catch_up` is refuted under it and `lost_cleanup` under
`FairConnectionsSpec`. That a sync ends is checked without sweeps (`regular`), which
only share the clock with it. The code justifies it: the worker loop backs off after an
error and continues (`scripts/listeningWorker.js:54-86`), a dead process is restarted,
`leaseUntil` is a time. Nothing is assumed of owners, moderators, Clerk or the delivery
of its webhook, and no other module has any fairness: nobody has to ask for anything.

## What the violations mean

* `lost_rerun`. `runWorkerOnce` tests `progress.rerun` in one update (917-920)
  and completes the job in the next (922), which also clears `progress`. A flag
  set in between is wiped, against the comment at `worker.js:82`. For an active
  connection the next scheduled sync hides it; for a paused one, or for a mapping
  decision, nothing does. Outside a transaction there is a second way to the same
  end: `enqueueJob` reopens, flags and inserts in separate updates, and a job that
  completes between the first two gets neither.
* `lost_cleanup`. When `syncJob` finds that the owner left Clerk, it disconnects
  (359-361) and enqueues the cleanup (362) in two steps. A worker that dies in
  between leaves a disconnected connection without a cleanup job, and the retaken
  sync job sees a connection that is not active and completes. Only the webhook
  would still remove it.
* `catch_up`. A sync that is taken up again more than 30 days after its window was
  saved moves the window's start to the retention horizon and leaves its end
  (`worker.js:375-381`). The provider refuses a window that ends before it starts
  (`provider.js:263`, a TypeError), the job is put back with the same window, and
  the connection never catches up. `WhatIsDueIsDone` excludes this case and no other: the
end of the window is before the horizon (`TooOld`).
* `gaps`. A connection that catches up after more than 30 days gets a window that starts
  at the horizon, and the gap from its last scrobble to there (`worker.js:367-370`). The
  same run then computes the horizon from a later clock (374), finds the window's start
  a little before it, and replaces the gap by the moment between the two horizons (378).
  The run shows it without any fault; in the code two writes lie between the two clocks,
  so that it is what nearly every catch-up does. What was lost is then before the gap
  that the API reports (`connections.js:86`; the panel only says that there is one),
  although `docs/LASTFM_SYNC.md:68` has catch-up expose it. Publication looks at the end
  of the gap alone (`reconciliation.js:90`), and that end is right:
  `NothingIsPassedOver` says so, in `workers` and as a theorem. A worker that dies
  between 369 and 370 loses the gap in the same way: the run that takes the job up finds
  a window and records only what it cuts.
* `dismissed`. A receipt recognises a dismissed play by its id, its first or its
  qualifying scrobble. When a scrobble that was captured late joins the session,
  `reconciliation.js:120-123` replaces the unpublished session by a fresh one with
  new play ids; if it starts and qualifies with other scrobbles, no receipt matches
  and the next pass publishes what the owner dismissed.
* `hollow_tombstone`. `deleteComment` claims only the comment it deletes. The
  author of a top-level comment and the author of its only reply delete at the
  same time: one transaction sees the reply and leaves a tombstone, the other
  sees a visible parent and leaves it alone, and they write different documents.
  `cascade.js:26-28` says that such a tombstone is removed. Account deletion that
  races the deletion of a reply does the same.

Two more sentences of the repository say more than its code does. The properties about
them make an exception, in words, and hold with it:

* `docs/LASTFM_SYNC.md:84`, "An approved mapping pins the catalog revision it was reviewed
  against". `moderate` compares revisions only if the approval names one, which is optional
  (`moderation.js:69`) and which `AlbumMappings.jsx:262-265` does not do, or if the album is
  a stored candidate of the case (346-348). The album may be corrected between the
  moderator's reading and such an approval, and a mapping for what nobody reviewed is in
  use: without the exception (`checked`) TLC violates `InUseMeansReviewed` in eight states.
* The comment at `Notifications.jsx:342-343`, "Even a response that arrives after the
  mutation completes must not restore deleted rows". A first page that is asked for while
  the clear is in flight (the session is renewed), and that the server reads before the
  clear, does restore them if it arrives after the clear's answer. `ClearedStaysAway`
  exempts this answer.

And these properties say less than one might read into them: `LoggedSteps` is about
entries that stayed at their date, so that a pass which meets an entry that its owner moves at
the same time is not caught by it (`docs/AUTOMATIC_ALBUM_LISTENS.md:153` has re-dating in
mind, too); `WaitsForSomething` exempts a session that is renewed while a next page is
coming, after which the page's `isLoadingMore` stays set and no further page is loaded;
that the notifications page shows what the server has is safety (no holes, nothing marked
unseen), and nothing says that it ever catches up.

## Proofs

Ten components have theorems, in seven modules of their own. They hold for every value
of the constants under the assumptions that the components name (`LibraryAssumption`,
`OrderLimitAssumption`, `JobsAssumption`, `SyncAssumption`, `ConnectionsAssumption`,
`AutoDiaryAssumption`, `DetectionAssumption`, `ReviewsAssumption`,
`FirstStatesAssumption`, `ReviewIdAssumption`, `SuggestionsAssumption`,
`QueueAssumption`), which TLC evaluates in the runs: sets of clients that are finite and
apart, limits that are natural numbers, at least one connection and one revision in
`Connections`, finitely many scrobbles, each played within the time that is modelled,
and pages and runs that are not empty in `SyncWindows`, finitely many reviews and
batches that are not empty in `ReviewIdMigration`, albums that are named by the request
that creates them and one revision of anything in `Suggestions`, profiles in
`ListenQueue` whose stored queues repeat nothing and are within the limit, finitely many
scrobbles of different times, at least one track and a session length above zero in
`DetectionRules`, a clock whose moments are numbers in `AutoDiary`, and, for `Reviews`,
that the site a behaviour begins with is sound already (the empty one is,
`NewSiteIsSound`).

| module | theorem | what follows from the specification |
| --- | --- | --- |
| `LibraryProofs` | `LibraryTypes`, `NoOrphanMembershipEver`, `NoOrphanItemEver`, `NoDanglingPinEver`, `OneListenPerKeyEver`, `OrdersFollowEntries`, `ReordersKnewTheirBoards` | types; no membership, item or pin without its parents; one listen per key; stored orders are of what the board has; an accepted reorder replaces what its client saw |
| `QueueProofs` | `QueueIsServedInOneStep` (from `QueueIsServedAtomically`, `ListenedAlbumsLeave`, `RevisionsTell`), `QueueStaysBounded` | `ListenQueue` implements `AtomicQueue`: each request is served in one step, a listened album leaves, every change raises the revision; the queue repeats nothing and stays within its limit |
| `JobsProofs` | `JobsAreTyped`, `RequestsAreFlagged`, `HoldersWrite`, `DetectionsStayCurrent` | types; no request is lost before the flag is checked; only the lease holder writes; detections are of the connection as it is |
| `JobsProofs` | `WindowsHold` | `SyncWindows`: progress and status agree; a window that was fetched is stored, but for a removal that no page count shows; what a sync passed over without storing it was played before the gap ends |
| `ConnectionsProofs` | `ConnectionsAreTyped`, `EvidenceStaysWithItsConnection`, `DeletionIsFinal`, `StateRules` | types; scrobbles are of the connection and its authorization; nothing comes back after a deletion; only active connections capture, only disconnected ones are cleaned |
| `DiaryProofs` | `PassesRespectOptIn`, `LoggedEntriesStayAlone` | a pass publishes only with its owner's consent, and never next to an entry logged before |
| `DiaryProofs` | `SiteInvariance`, `DiaryIsTyped`, `PublishedWerePlayed` | types; detections share no scrobble, and published plays and receipts are one to one; the published plays never need more scrobbles than were captured |
| `ReviewsProofs` | `ReviewsTypes`, `NothingEverDangles`, `AccountsLeaveNothingEver`, `SettledForGood` | types; no comment, like, pin, notification or open report points to what is gone; no comment, report or mention of a deleted account comes back; a removal is final and followers are told once |
| `ReviewsProofs` | `IdentitiesAreSafe`, `IdentitiesNeverChange` | `ReviewIdMigration`: types; a migration that completes has given every review an identity of its own, what a progress file says is so, whoever overwrote it with what, and operators are told the truth; no identity is lost or replaced |
| `SuggestionsProofs` | `SuggestionsAreTyped`, `CatalogKeepsWhatWasApproved`, `ContributorsKnow`, `DecisionsAreAboutWhatWasRead` | types; what was approved is in the catalog, no album is made twice and no reference is shared; contributors know of every decision; a decision is about the suggestion and the album as they were read |

`TransactionProofs` has what they share: each step of a transaction keeps
`SnapshotShape` and `SnapshotsAreCurrent`, a commit writes only documents that are
as its snapshot has them (`Committed`), and everyone else falls behind on exactly
what it wrote (`FallBehind`).

**Why the properties are not inductive.** A transaction commits what it computed
from an old snapshot, so a statement about the database says nothing about the
next commit. Each inductive invariant therefore says what an open transaction may
still believe, in terms of what it has missed. TLC checked each of them on the
component's run before it was proved.

* `LibraryInv`: types and `Sound` (every membership, item and pin has its parents)
  of the database and of every open snapshot; and `SnapshotOK`: a child that the
  database has and the snapshot lacks was created by a commit that also wrote, and
  so put into `missed`, the parents it claimed. Each handler is a `SafeStep` from its
  snapshot (it claims the parents of what it adds and removes the children of what
  it deletes), and `MergeIsSafe` shows once that a safe step merged into a database
  that moved on keeps the invariant. This is the argument behind every claim in
  `boardMutations.js`: it fails exactly when a handler adds a child without writing
  the parent.
* `OrderInv`, beside `LibraryInv`: the orders of the database and of every snapshot
  fit their boards; a transaction that did not miss a board has the very contents
  of it, though items and memberships are documents of their own; a screen, and a
  reorder sent from it, shows the board as it is unless the board's revision went
  on. Each handler is `Tidy` (what it does to entries it does to the stored orders
  too, and it claims the board), and `MergeIsTidy` is the merge.
* `QueueInv`: what a caller loaded, saw or is about to write was the owner's queue at
  the revision it carries (`WasShown`, `Answers`), so it is the queue of now if that is
  still the revision. Every change of the queue raises the revision, which makes the
  conditional write the moment at which the request is served: it replaces the very
  queue that it was worked out from. `createListen` is different, for it writes the
  profile in a transaction: a listen that commits did not miss the profile, so its
  snapshot's queue is the current one. That the albums the catalog lost stay in the
  stored queue, and out of the one that is shown, takes lemmas about selecting from a
  sequence, cutting it and joining it, which are inductions (`NatSetInduction`: a set of
  numbers that has zero and successors has them all, which unlike the library's rule has
  no operator for a parameter).
* `JobsInv`: lease tokens differ, detections that can still be committed are from
  newer evidence than the stored ones, and what a run with the lease has not read
  is in the rerun flag, from the moment at which a request is about to finish.
* `WindowsInv`: whatever a job still wants of its window (`Wanted`: it was listed when
  the window was fixed and is listed still) is stored, or `Rank` of the provider's list,
  the number of newer scrobbles in the window, puts it on a page that is still to be
  fetched, unless something was removed since the last page that was saved. Late
  scrobbles and the clock only push it to later pages. When something was removed, the
  next request either shows another number of pages, and the job starts over, or
  `slipped` remembers that it did not. A last page leaves nothing, because all pages
  together have room for the list. For the gap, a window starts no later than the last
  one ended or the gap does (`StartIsKnown`), except while it starts at the horizon or
  before it and its worker has yet to record the gap or to cut the window; from there no
  step leads to the pages but through one of the two, whichever worker takes the job up.
  Only the end of the gap is part of the argument: a cut may move its start past what
  was missed. This invariant was strengthened twice before it was inductive, and the
  attempt found a mistake in the model's bookkeeping: what had been removed was noted at
  every request, so that a worker that died between seeing another number of pages and
  saving that it starts over made the next request look as if nothing had happened. TLC
  confirmed it with 4 scrobbles and 2 faults; the code is not affected, because progress
  has the number of pages of the last page saved. In its present form the invariant was
  checked with 3 scrobbles, 2 faults and pages of 1, in 3 296 191 states.
* `ConnectionsInv`: every run and callback is about the attempt, connection and
  revision it started with; an open transaction that did not miss the connection has
  its scrobbles too, although they are not claimed one by one (`EvidenceOK`); and
  after a deletion whatever transaction could still insert a connection has missed
  its attempt (`DeletionOK`).
* `DiaryInv`: an open transaction that did not miss the album's fence knows every
  entry that was not moved or deleted since. Every pass writes the connection, so a
  pass that commits has its owner's switches as they are. `Reconciled` stays
  unexpanded in this proof: the two results hold whatever sessions and plays
  detection finds.
* `SiteInv`, beside it, is about reconciliation: detections share no scrobble and no
  play id, and each id is of an earlier pass than the one to come; published plays
  and plays that wait for their owner qualify; published plays and receipts are one
  to one. An open pass knows the events and ids of every detection, which only a pass
  changes; it need not know what the owner decided, because the owner's transactions
  write the detection that they decide on together with its receipt, and so conflict
  with a pass that writes this detection too. A pass keeps all of it for two reasons: the
  groups that reconciliation forms share no scrobble (`GroupsAreApart`), so
  that each group is decided on its own; and a detection that has published is updated
  only if each published play keeps its place, and is held otherwise. That plays
  credit scrobbles of their session, and each scrobble once, is an induction along
  the scrobbles (`PlaysAreFine`); that disjoint parts of the evidence never count more than
  the evidence is one over the slots (`PartsFitIn`). TLC checked `SiteInv` in all
  67518 states of the diary's part of the `owner` run.
* `ReviewsInv`: every transaction works on a `Sound` site (each comment, report,
  notification, like and pin has all that it refers to), and the database `Follows`
  its snapshot: what the documents have newly come to refer to since, the
  transaction has missed. It is `LibraryInv` with references that cross, since a
  comment needs its review, its thread, its author's account and the account that it
  answers. The last is the delicate one: a reply claims the comment it answers and
  not the fence of that comment's author, and what makes it safe is that the
  deletion of the account writes each of its comments. `CommitIsSafe` is the merge of
  two steps from one snapshot; each handler `Keeps` a sound site, shown for its parts
  (taking documents out, tombstones, cascades) and put together by `KeepsTwice`.
  `SettledForGood` needs more than the site: the receipt of a fan-out is on the review,
  and the fan-out claims the review, so two deliveries conflict even when every
  notification was cleared in between.
* `MigrationInv`: no two assignments, of one plan or of two, give the same identity, and
  nobody has one of them but the review it is for. A plan that was not blocked saw
  reviews that differ, and from there on whoever has no identity is among those that it
  assigns one to: all that users write is new, or is gone. So a batch that is applied
  finds each review as planned or with the plan's identity, by whichever run or
  operator, and what was assigned once stays so (`OrderlyChange`, `StillHolds`). An
  application that is through with its batches has covered every number of its plan, the
  last batch being short or not (`BatchOfNth`), which is why the index can be made. What
  the operator is told rests on `changed`, which is set with every write that the
  process knows of. The progress file is no part of the argument: a file, and each
  process's copy of it, is only ever true (`FileHolds`), since what makes it true does
  not go away, but it may say less than it said before. The attempt found nothing wrong;
  it made the model give assignments by review with their rank instead of in a sequence
  that has to be sorted, and state when an application is still at its first batch.
* `SuggestionsInv`: the catalog is sound (`SoundCatalog`: approved suggestions are in
  their albums, the unique index has exactly the albums' references, an album that a
  request created belongs to one approved suggestion, and the notifications are those
  of the decisions taken), so is every open snapshot, and the catalog has `Grown`
  since the snapshot. What a decision depends on, it writes: the suggestion, whose
  status it changes; the album, whose revision it moves on; and the index entry of
  every reference that it adds. So a request that commits `Decides` for the catalog
  what it decided for its snapshot. The exception is a suggestion that is linked to an
  existing album, which only reads that album: it is still there because a catalog
  only grows, which is why `Grown` belongs to the invariant.

**What stays with TLC.** Liveness and fairness (`WhatIsDueIsDone`, and whatever else the
runs check under fairness) and `ENABLED` are beyond TLAPS. What folds and sorted
sequences compute is not proved either: the order of a display in `BoardOrder`, whose
operators (`SetToSortSeq`, `FoldLeft`) come from the community modules, whose
definitions the provers cannot unfold. Where a proof had to look inside, the model has
something else instead: a recursive function in `QueueRules`, `Orders` (`KeptOf` selects
from a sequence) and `DetectionRules` (through the scrobbles in time order), and ranks
in `SyncWindows`, where a page has the scrobbles with so many newer ones, and in
`ReviewIdMigration`, where an assignment has its place in the order of the documents.
What is proved of plays is that no two credit the same scrobble and none qualifies with
fewer than it needs, and of sessions that they share no scrobble; not which plays and
sessions a history has. `Genres`, `CatalogReviews`, `CatalogImport`, `CatalogFetch`,
`SiteFeeds`, `Paging` and `NotificationPage` are model-checked only.

## Not modelled

`PROJECT.json` has a note per component. In short: reading, rendering and
formatting; HTTP clients of Last.fm, MusicBrainz and the Cover Art Archive;
the migration of the legacy database.

Within the modelled components:

* `Connections`: scrobbles expire after two weeks, which only removes evidence;
  conflicts with other users' documents (a Last.fm name that is taken) appear only
  as refusals; times are in `SyncWindows` alone.
* `SyncWindows`: pauses and the activation windows that they end; a connection that is
  disconnected in the middle of a window (`Connections` has it, without the times).
* `AutoDiary`: the owner's time zone and its absence, the activation windows, the
  hold after a retention gap, the expiry of receipts and detections, and
  disconnection.
* `Suggestions`: the fields of the form, and covers as files.
* `Genres`: a suggestion adds and removes one genre at most and a seed has one;
  operations are not skipped, genres not promoted.
* `CatalogReviews`: how candidates are found, scored and compared.
* `Reviews`: album likes (single upserts), follows.
* `CatalogImport`: which titles, dates and references are valid. A transaction
  whose commit nobody answers for is told as rolled back
  (`importCatalogDataset.js`), so the property about reports speaks only of runs
  that learned what became of theirs.
* `ReviewIdMigration`: what makes a plan's seal. The `finally` of `runBatch`
  (`migrateReviewIds.js:597-613`) returns when closing the session fails after an
  error, and that `return` swallows the error: a batch that failed or that nobody
  answers for then counts as a plain failure, although its changes may be
  committed. The model has this (`FailsUnseen`, `lost`), and what operators are told
  is only promised where it did not happen. Nor is it promised that the progress file
  keeps what it says: an operator who is told that all is done may find the file, after a
  second operator, without `completedAt` and with fewer batches (641-676). Nothing but
  the repetition of work depends on it.
* `SiteFeeds`: how albums are ranked. `Paging`: the filters of a list other than
  its cursor. `NotificationPage`: rendering and the polling of the badge.

## Plan

1. Proofs: revisions and links of `Genres`; the decisions of `CatalogReviews`; the
   answers of `NotificationPage`.
2. What is left to model: follows, the budget of the providers,
   the legacy migration, and the deletion of an account across all modules.
