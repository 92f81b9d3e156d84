---------------------------- MODULE SyncWindows -----------------------------
(***************************************************************************)
(* The sync and the sweep jobs of one active Last.fm connection: each      *)
(* fixes a window of time and fetches it page by page from a provider      *)
(* whose list changes meanwhile; scrobbles turn up late and are removed.   *)
(*                                                                         *)
(* Progress is kept in the job document, so that a job that failed, used   *)
(* up its pages or lost its worker is taken up where it was.  Every write  *)
(* of a job is fenced by its lease: a worker that lost it changes nothing, *)
(* so that losing it is the same as a crash.  The two jobs run in          *)
(* different workers.  Connection revisions, activation windows and        *)
(* mappings are in other modules.                                          *)
(***************************************************************************)
EXTENDS Integers, FiniteSets

CONSTANTS Scrobble,
          PlayedAt,         \* [Scrobble -> Nat], no two at once
          Prompt,           \* those the provider lists as soon as they are played
          Retention, Overlap, Lookback,
          PageSize,         \* rows of a page (limit 200)
          PagesPerRun,      \* MAX_SYNC_PAGES_PER_RUN
          EndOfTime, MaxFailures     \* bounds

ASSUME SyncAssumption ==
  /\ IsFiniteSet(Scrobble) /\ PlayedAt \in [Scrobble -> 1 .. EndOfTime] /\ Prompt \subseteq Scrobble
  /\ {Retention, Overlap, Lookback, EndOfTime, MaxFailures} \subseteq Nat
  /\ {PageSize, PagesPerRun} \subseteq Nat \ {0}

Kind == {"sync", "sweep"}

VARIABLES now,
          listed,           \* what the provider lists
          connection,       \* [completed, gap]: completedThrough and retentionGap
          job,              \* the two job documents
          worker,           \* what the worker that holds the job is doing
          captured,         \* stored scrobbles
          lapsed,           \* scrobbles that had expired when their page was stored
          removed,          \* what has been removed from the list
          pass,             \* for each job: what was listed when its window was fixed, what had been
                            \* removed when it asked for the last page that it saved, and for the
                            \* last one at all, and whether a removal went unnoticed
          failures
syncVars == <<now, listed, connection, job, worker, captured, lapsed, removed, pass, failures>>
history == <<removed, pass>>

ConnectedAt == 0
NoGap == [from |-> -1, to |-> -1]
NoProgress == [from |-> -1, to |-> -1, page |-> 1, total |-> -1]
HasWindow(progress) == progress.to >= 0
Idle == [pc |-> "idle", rows |-> {}, total |-> -1, pages |-> 0]
Horizon == now - Retention

(***************************************************************************)
(* The provider (external): pages of a window, newest first                *)
(***************************************************************************)
InWindow(p) == { s \in listed : p.from <= PlayedAt[s] /\ PlayedAt[s] <= p.to }
Newer(S, s) == { t \in S : PlayedAt[t] > PlayedAt[s] }
Page(S, n) == { s \in S : Cardinality(Newer(S, s)) \in (n - 1) * PageSize .. n * PageSize - 1 }
TotalPages(S) == (Cardinality(S) + PageSize - 1) \div PageSize

Appear(s) ==
  /\ s \notin listed \cup Prompt \cup removed /\ PlayedAt[s] <= now
  /\ listed' = listed \cup {s}
  /\ UNCHANGED <<now, connection, job, worker, captured, lapsed, history, failures>>
Unlist(s) ==
  /\ s \in listed /\ failures < MaxFailures
  /\ listed' = listed \ {s} /\ failures' = failures + 1
  /\ removed' = removed \cup {s}
  /\ UNCHANGED <<now, connection, job, worker, captured, lapsed, pass>>
Tick ==
  /\ now < EndOfTime /\ now' = now + 1
  /\ listed' = listed \cup { s \in Prompt : PlayedAt[s] = now + 1 }
  /\ UNCHANGED <<connection, job, worker, captured, lapsed, history, failures>>

(***************************************************************************)
(* Scheduling and leases                                                   *)
(***************************************************************************)
\* scheduleDueSyncJobs, scheduleDueSweepJobs: a finished job is opened again.
Schedule(k) ==
  /\ job[k].status = "done" /\ (k = "sweep" => connection.completed >= 0)
  /\ connection.completed < now
  /\ job' = [job EXCEPT ![k] = [status |-> "pending", progress |-> NoProgress]]
  /\ UNCHANGED <<now, listed, connection, worker, captured, lapsed, history, failures>>
\* acquireJob: due, or left by a worker whose lease ran out. Taking the job and its
\* first write after that are one step here: a worker that stops between them leaves
\* the job as it found it, for the next.
Takeable(k) == worker[k].pc = "idle" /\ job[k].status \in {"pending", "running"}
Taken(k, progress) == job' = [job EXCEPT ![k] = [status |-> "running", progress |-> progress]]
\* The process dies, or its lease runs out and another takes the job.
Stop(k) ==
  /\ worker[k].pc # "idle" /\ failures < MaxFailures
  /\ worker' = [worker EXCEPT ![k] = Idle] /\ failures' = failures + 1
  /\ UNCHANGED <<now, listed, connection, job, captured, lapsed, history>>

GoTo(k, pc) == worker' = [worker EXCEPT ![k].pc = pc]
Released(k, status, progress) ==
  /\ job' = [job EXCEPT ![k] = [status |-> status, progress |-> progress]]
  /\ worker' = [worker EXCEPT ![k] = Idle]

(***************************************************************************)
(* The window                                                              *)
(***************************************************************************)
Later(a, b) == IF a > b THEN a ELSE b
Desired == IF connection.completed >= 0 THEN connection.completed - Overlap ELSE ConnectedAt
SyncWindow  == [NoProgress EXCEPT !.from = Later(Later(Desired, ConnectedAt), Horizon), !.to = now]
SweepWindow == [NoProgress EXCEPT !.from = Later(Later(now - Lookback, ConnectedAt), Horizon),
                                  !.to = connection.completed]
WindowOf(k) == IF k = "sync" THEN SyncWindow ELSE SweepWindow

\* The window is saved first, what retention cuts off it in a second write, and whether
\* retention has meanwhile come further is looked up after that.
Open(k) ==
  /\ Takeable(k) /\ ~HasWindow(job[k].progress)
  /\ k = "sweep" => SweepWindow.from < SweepWindow.to
  /\ Taken(k, WindowOf(k))
  /\ pass' = [pass EXCEPT ![k] = [listed |-> InWindow(WindowOf(k)), removed |-> removed,
                                     asked |-> removed, slipped |-> FALSE]]
  /\ GoTo(k, IF k = "sweep" THEN "fetch" ELSE IF Desired < Horizon THEN "gap" ELSE "check")
  /\ UNCHANGED <<now, listed, connection, captured, lapsed, removed, failures>>
NothingToSweep ==
  /\ Takeable("sweep") /\ ~HasWindow(job["sweep"].progress) /\ SweepWindow.from >= SweepWindow.to
  /\ Released("sweep", "done", NoProgress)
  /\ UNCHANGED <<now, listed, connection, captured, lapsed, history, failures>>
HorizonWhenOpened == job["sync"].progress.to - Retention
RecordGap ==
  /\ worker["sync"].pc = "gap"
  /\ connection' = [connection EXCEPT !.gap = [from |-> Desired, to |-> HorizonWhenOpened]]
  /\ GoTo("sync", "check")
  /\ UNCHANGED <<now, listed, job, captured, lapsed, history, failures>>

\* A window may have aged past the horizon. When it is taken up again, some time has
\* passed since it was fixed, so that a window cut at the horizon is cut once more; in
\* the run that fixed it, the clock may or may not have moved.
Aged(k) == k = "sync" /\ job[k].progress.from <= Horizon
StillKept ==
  /\ worker["sync"].pc = "check" /\ job["sync"].progress.from >= Horizon
  /\ GoTo("sync", "fetch")
  /\ UNCHANGED <<now, listed, connection, job, captured, lapsed, history, failures>>
Resume(k) ==
  /\ Takeable(k) /\ HasWindow(job[k].progress) /\ ~Aged(k)
  /\ Taken(k, job[k].progress) /\ GoTo(k, "fetch")
  /\ UNCHANGED <<now, listed, connection, captured, lapsed, history, failures>>
\* What is cut off takes the place of the gap that was there.
Cut ==
  /\ \/ Takeable("sync") /\ HasWindow(job["sync"].progress) /\ Taken("sync", job["sync"].progress)
     \/ worker["sync"].pc = "check" /\ UNCHANGED job
  /\ Aged("sync")
  /\ connection' = [connection EXCEPT !.gap = [from |-> job["sync"].progress.from, to |-> Horizon]]
  /\ GoTo("sync", "cut")
  /\ UNCHANGED <<now, listed, captured, lapsed, history, failures>>
SaveCut ==
  /\ worker["sync"].pc = "cut"
  /\ job' = [job EXCEPT !["sync"].progress =
               [NoProgress EXCEPT !.from = connection.gap.to, !.to = job["sync"].progress.to]]
  /\ GoTo("sync", "fetch")
  /\ UNCHANGED <<now, listed, connection, captured, lapsed, history, failures>>

(***************************************************************************)
(* fetchWindowPages                                                        *)
(***************************************************************************)
\* Something was removed since the last page that was saved, and no page less.
Slipped(k, total) ==
  LET p == job[k].progress
  IN  p.page > 1 /\ (pass[k].slipped \/ (removed # pass[k].removed /\ total = p.total))
\* recentTracks answers, unless it is asked for a window that ends before it starts.
Fetch(k) ==
  LET p == job[k].progress
      total == TotalPages(InWindow(p))
  IN  /\ worker[k].pc = "fetch" /\ p.from <= p.to
      /\ worker' = [worker EXCEPT ![k] = [@ EXCEPT !.pc = "answered",
                   !.rows = Page(InWindow(p), p.page), !.total = total]]
      /\ pass' = [pass EXCEPT ![k] = [@ EXCEPT !.asked = removed, !.slipped = Slipped(k, total)]]
      /\ UNCHANGED <<now, listed, connection, job, captured, lapsed, removed, failures>>
BackwardWindow(k) ==
  /\ worker[k].pc = "fetch" /\ job[k].progress.from > job[k].progress.to
  /\ Released(k, "pending", job[k].progress)
  /\ UNCHANGED <<now, listed, connection, captured, lapsed, history, failures>>
\* A provider error, a timeout, a budget that is used up: worth another try.
FetchFails(k) ==
  /\ worker[k].pc = "fetch" /\ failures < MaxFailures /\ failures' = failures + 1
  /\ Released(k, "pending", job[k].progress)
  /\ UNCHANGED <<now, listed, connection, captured, lapsed, history>>

MorePages(p, total) == p.total >= 0 /\ total > p.total    \* slip: fewer pages go unnoticed
PagesChanged(p, total) == p.total >= 0 /\ total # p.total
StartOver(k) ==
  /\ worker[k].pc = "answered" /\ PagesChanged(job[k].progress, worker[k].total)
  /\ Released(k, "pending", [job[k].progress EXCEPT !.page = 1, !.total = -1])
  /\ UNCHANGED <<now, listed, connection, captured, lapsed, history, failures>>
\* persistPage, one transaction
Persist(k) ==
  LET p == job[k].progress
      rows == { s \in worker[k].rows : p.from <= PlayedAt[s] /\ PlayedAt[s] <= p.to }
      expired == { s \in rows : PlayedAt[s] + Retention <= now }
  IN  /\ worker[k].pc = "answered" /\ ~PagesChanged(p, worker[k].total)
      /\ captured' = captured \cup (rows \ expired) /\ lapsed' = lapsed \cup expired
      /\ GoTo(k, "stored")
      /\ UNCHANGED <<now, listed, connection, job, history, failures>>
Unturned(p, total) == [p EXCEPT !.total = total]    \* slip: the page is not saved
PagesIn(total) == Later(1, total)
Turned(p, total) == [p EXCEPT !.page = @ + 1, !.total = total]
\* The job goes on at the next page, now or, its pages of this run used up, in a while.
TurnPage(k) ==
  LET p == Turned(job[k].progress, worker[k].total)
      more == p.page <= PagesIn(p.total)
      pages == worker[k].pages + 1
  IN  /\ worker[k].pc = "stored"
      /\ IF more /\ pages = PagesPerRun
         THEN Released(k, "pending", p)
         ELSE /\ job' = [job EXCEPT ![k].progress = p]
              /\ worker' = [worker EXCEPT ![k] = [Idle EXCEPT !.pages = pages,
                           !.pc = IF more THEN "fetch" ELSE "finish"]]
      /\ pass' = [pass EXCEPT ![k].removed = pass[k].asked]
      /\ UNCHANGED <<now, listed, connection, captured, lapsed, removed, failures>>

\* The last transaction of syncJob and sweepJob, which also enqueues detection; then
\* the job is closed. Between the two, the job is still running with its progress.
Through(p) == p.to
Finish(k) ==
  /\ worker[k].pc = "finish"
  /\ connection' = IF k = "sync" THEN [connection EXCEPT !.completed = Later(@, Through(job[k].progress))]
                   ELSE connection
  /\ GoTo(k, "close")
  /\ UNCHANGED <<now, listed, job, captured, lapsed, history, failures>>
CloseJob(k) ==
  /\ worker[k].pc = "close" /\ Released(k, "done", NoProgress)
  /\ UNCHANGED <<now, listed, connection, captured, lapsed, history, failures>>

SyncInit ==
  /\ now = 0 /\ listed = {} /\ captured = {} /\ lapsed = {} /\ failures = 0
  /\ connection = [completed |-> -1, gap |-> NoGap]
  /\ job = [k \in Kind |-> [status |-> "done", progress |-> NoProgress]]
  /\ worker = [k \in Kind |-> Idle]
  /\ removed = {} /\ pass = [k \in Kind |-> [listed |-> {}, removed |-> {}, asked |-> {}, slipped |-> FALSE]]
Work(k) ==
  \/ Open(k) \/ Resume(k) \/ Fetch(k) \/ BackwardWindow(k) \/ StartOver(k)
  \/ Persist(k) \/ TurnPage(k) \/ Finish(k) \/ CloseJob(k)
SyncWork  == Work("sync") \/ RecordGap \/ StillKept \/ Cut \/ SaveCut
SweepWork == Work("sweep") \/ NothingToSweep
SyncNext ==
  \/ Tick \/ \E s \in Scrobble : Appear(s) \/ Unlist(s)
  \/ \E k \in Kind : Schedule(k) \/ Stop(k) \/ FetchFails(k)
  \/ SyncWork \/ SweepWork
SyncSpec == SyncInit /\ [][SyncNext]_syncVars

\* Workers poll and finish what they take, and time goes on; failures and the provider's
\* changes are bounded.
FairSyncSpec ==
  SyncSpec /\ WF_syncVars(SyncWork) /\ WF_syncVars(SweepWork) /\ WF_syncVars(Tick)

(***************************************************************************)
(* Properties                                                              *)
(***************************************************************************)
\* Progress belongs to a job that has a window; a worker only holds a running job.
SyncTypeOK ==
  /\ now \in 0 .. EndOfTime /\ captured \subseteq Scrobble /\ connection.completed <= now
  /\ \A k \in Kind :
       /\ job[k].status \in {"pending", "running", "done"}
       /\ worker[k].pc # "idle" => job[k].status = "running"
       /\ job[k].status = "done" => job[k].progress = NoProgress
       /\ worker[k].pc \in {"answered", "stored", "finish", "close"} =>
            HasWindow(job[k].progress) /\ job[k].progress.page >= 1

\* When a job has fetched its window, all that the provider listed when the window was
\* fixed, and lists still, is stored or had expired, whatever was added to or removed from
\* any page meanwhile, however often the job started over, failed or changed hands
\* (worker.js:261); unless what was removed since the last page that was saved left the
\* number of pages as it was.
WindowsAreWhole ==
  \A k \in Kind :
    worker[k].pc \in {"finish", "close"} /\ ~pass[k].slipped =>
      { s \in pass[k].listed \ removed : PlayedAt[s] >= job[k].progress.from } \subseteq captured \cup lapsed

\* completedThrough never passes over a scrobble unnoticed: one that was listed in time
\* and is not stored was played before the gap ends, so that what is detected from there
\* back is held as incomplete (reconciliation.js:90), although the window and the gap are
\* saved by separate writes, and either may be lost (worker.js:369).
Missed == { s \in Prompt : removed = {} /\ PlayedAt[s] <= connection.completed /\ s \notin captured \cup lapsed }
MissedMeansHeld == \A s \in Missed : PlayedAt[s] < connection.gap.to

\* docs/LASTFM_SYNC.md:68, catch-up stops at the retention boundary and exposes older
\* gaps: the gap of the connection holds all that was missed, from its start to its end.
GapsAreExposed == \A s \in Missed : connection.gap.from <= PlayedAt[s] /\ PlayedAt[s] < connection.gap.to

\* The two together: what a job passes over is stored, and where a sync may have missed
\* something nothing is published unheld.
NothingIsPassedOver == WindowsAreWhole /\ MissedMeansHeld

\* The whole window is older than retention allows.
TooOld == HasWindow(job["sync"].progress) /\ job["sync"].progress.to < Horizon
\* A sync that is due ends, whatever fails or changes on the way, also when it uses up the
\* pages of its run, and also when its window reaches back to the horizon and starts over
\* at its first page each time it is taken up; unless all of the window comes to lie
\* beyond the horizon.
SyncsEnd == job["sync"].status = "pending" ~> (job["sync"].status = "done" \/ TooOld)

\* docs/LASTFM_SYNC.md:66 and 68: job progress survives a restart, and catch-up stops at
\* the retention boundary: a sync that is due ends also when its window is that old.
CatchUpEnds == job["sync"].status = "pending" ~> job["sync"].status = "done"
=============================================================================
