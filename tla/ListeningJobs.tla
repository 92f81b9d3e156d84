--------------------------- MODULE ListeningJobs ---------------------------
(***************************************************************************)
(* The durable job queue of the listening worker, on the one job that      *)
(* everything else feeds: "detect:<connection>", which recomputes a        *)
(* connection's detections from its evidence.                              *)
(*                                                                         *)
(* Requests for it come from transactions (a sync or sweep that ends, the  *)
(* owner's automatic-diary switch) and from plain updates (reprocessing    *)
(* and expiry, the owner's time zone).  Worker processes lease the job,    *)
(* run it in a transaction and then close it; a process may crash, lose    *)
(* its lease to the clock, or fail.  A worker runs one job at a time: the  *)
(* requesters that are jobs run in other worker processes.  The connection *)
(* stays active or paused and its owner allowed.                           *)
(*                                                                         *)
(* Evidence is two version numbers, which count the changes to what a      *)
(* detection must read: those that write the connection document (a        *)
(* finished window, a setting of the owner) and those that do not (a       *)
(* mapping decision, expired scrobbles).  "detected" has the versions that *)
(* the stored detections were computed from.                               *)
(***************************************************************************)
EXTENDS SnapshotTransactions, Naturals, FiniteSets

CONSTANTS Worker,            \* worker processes
          TxProducer,        \* requesters inside a transaction
          PlainProducer,     \* requesters outside any transaction
          MaxRequests,       \* bound on requests
          MaxFaults          \* bound on crashes, failures and leases lost by a live worker

ASSUME JobsAssumption ==
  /\ Client = Worker \cup TxProducer
  /\ Worker \cap TxProducer = {} /\ PlainProducer \cap Client = {}
  /\ IsFiniteSet(Worker)
  /\ MaxRequests \in Nat /\ MaxFaults \in Nat

VARIABLES expired,   \* the running job's leaseUntil has passed
          run,       \* what each worker is doing
          asking,    \* the plain requests under way
          asked,     \* the newest evidence that a finished request was about
          requests, faults

jobVars == <<db, tx, expired, run, asking, asked, requests, faults>>

Job     == [status: {"absent", "pending", "running", "done"}, token: Nat, rerun: BOOLEAN, error: BOOLEAN]
NoRun   == [pc |-> "idle", token |-> 0, rerun |-> FALSE, retryable |-> FALSE]
Run     == [pc: {"idle", "acquired", "detecting", "check", "complete", "failing"},
            token: Nat, rerun: BOOLEAN, retryable: BOOLEAN]

Evidence == [connection: Nat, mappings: Nat]
Nothing  == [connection |-> 0, mappings |-> 0]
Covers(u, v) == u.connection >= v.connection /\ u.mappings >= v.mappings
Larger(m, n) == IF m > n THEN m ELSE n
EvidenceOf(s) == [connection |-> s.connection, mappings |-> s.mappings]
NotAsking == [step |-> "none", about |-> Nothing]
Joined(u, v) == [connection |-> Larger(u.connection, v.connection), mappings |-> Larger(u.mappings, v.mappings)]

(***************************************************************************)
(* enqueueJob with reopenDone and rerunRunning: three updates              *)
(***************************************************************************)
Pending(job) == [job EXCEPT !.status = "pending", !.token = 0, !.rerun = FALSE, !.error = FALSE]

ReopenedAsQueued(job) ==                       \* slip: a status that no worker looks for
  IF job.status = "done" THEN [Pending(job) EXCEPT !.status = "queued"] ELSE job
Reopened(job) == IF job.status = "done" THEN Pending(job) ELSE job
NeverFlagged(job) == job                       \* slip: a running job is not asked to rerun
Flagged(job)  == IF job.status = "running" THEN [job EXCEPT !.rerun = TRUE] ELSE job
Inserted(job) == IF job.status = "absent" THEN Pending(job) ELSE job
Enqueued(job) == Inserted(Flagged(Reopened(job)))

\* queueDetection and setTimeZone put the job in line whatever it was doing,
\* even out of the hands of a worker.
Requeued(job) == IF job.status = "absent" THEN Pending(job) ELSE [job EXCEPT !.status = "pending"]

\* A transaction changes the evidence and enqueues the job: the last step of
\* syncJob and sweepJob, or setAutoDiary.
StartRequest(p) ==
  /\ requests < MaxRequests
  /\ \E by \in {"job", "owner"} : Begin(p, [op |-> "request", by |-> by])
  /\ requests' = requests + 1
  /\ UNCHANGED <<expired, run, asking, asked, faults>>

CommitRequest(p) ==
  /\ p \in OpenClients
  /\ LET job == tx[p].snap.job
     IN  CommitTouching(p, [tx[p].snap EXCEPT !.connection = @ + 1,
                              !.job = IF tx[p].req.by = "job" THEN Enqueued(job) ELSE Requeued(job)],
                        {"job"})
  /\ asked' = Joined(asked, [Nothing EXCEPT !.connection = db'.connection])
  /\ UNCHANGED <<expired, run, asking, requests, faults>>

RetryRequest(p) == Retry(p) /\ UNCHANGED <<expired, run, asking, asked, requests, faults>>

\* The evidence changed, and the job is then enqueued update by update: after
\* a mapping decision or an expiry (enqueueDetectionForMapping,
\* enqueueDetectionForExpiry), or after a change of the connection (setTimeZone).
StartPlainRequest(p) ==
  /\ requests < MaxRequests /\ asking[p].step = "none"
  /\ \/ /\ Write([db EXCEPT !.mappings = @ + 1])
        /\ asking' = [asking EXCEPT ![p] = [step |-> "reopen", about |-> [Nothing EXCEPT !.mappings = db.mappings + 1]]]
     \/ /\ Write([db EXCEPT !.connection = @ + 1])
        /\ asking' = [asking EXCEPT ![p] = [step |-> "requeue", about |-> [Nothing EXCEPT !.connection = db.connection + 1]]]
  /\ requests' = requests + 1
  /\ UNCHANGED <<expired, run, asked, faults>>

PlainUpdate(p, step, next, job, touched) ==
  /\ asking[p].step = step
  /\ WriteTouching([db EXCEPT !.job = job], touched)
  /\ asking' = [asking EXCEPT ![p] = IF next = "none" THEN NotAsking ELSE [@ EXCEPT !.step = next]]
  /\ UNCHANGED <<expired, run, requests, faults>>

PlainReopen(p) == PlainUpdate(p, "reopen", "flag", Reopened(db.job), {}) /\ UNCHANGED asked
PlainFlag(p) ==
  /\ PlainUpdate(p, "flag", "insert", Flagged(db.job), IF db.job.status = "running" THEN {"job"} ELSE {})
  /\ UNCHANGED asked
PlainInsert(p) ==
  /\ PlainUpdate(p, "insert", "none", Inserted(db.job), {"job"})
  /\ asked' = Joined(asked, asking[p].about)
PlainRequeue(p) ==
  /\ PlainUpdate(p, "requeue", "none", Requeued(db.job), {"job"})
  /\ asked' = Joined(asked, asking[p].about)

(***************************************************************************)
(* Leases                                                                  *)
(***************************************************************************)
Acquirable(job) == job.status = "pending" \/ (job.status = "running" /\ expired)

\* Lease tokens are random: one that nobody holds is as good as a new one.
FreshToken ==
  CHOOSE t \in 1..(Cardinality(Worker) + 1) : t # db.job.token /\ \A v \in Worker : run[v].token # t

\* acquireJob, from runWorkerOnce.
Acquire(w) ==
  /\ run[w].pc = "idle" /\ w \notin OpenClients
  /\ Acquirable(db.job)
  /\ Write([db EXCEPT !.job = [@ EXCEPT !.status = "running", !.token = FreshToken, !.error = FALSE]])
  /\ run' = [run EXCEPT ![w] = [NoRun EXCEPT !.pc = "acquired", !.token = FreshToken, !.rerun = db.job.rerun]]
  /\ expired' = FALSE
  /\ UNCHANGED <<asking, asked, requests, faults>>

\* The lease filter of every later write of the job: status, token, leaseUntil.
Leased(job, w) == job.status = "running" /\ job.token = run[w].token

HolderAlive == \E w \in Worker : run[w].pc # "idle" /\ run[w].token = db.job.token

\* Time passes. A live worker losing its lease to the clock is a fault.
Expire ==
  /\ db.job.status = "running" /\ ~expired
  /\ HolderAlive => faults < MaxFaults
  /\ expired' = TRUE
  /\ faults' = IF HolderAlive THEN faults + 1 ELSE faults
  /\ UNCHANGED <<db, tx, run, asking, asked, requests>>

\* The process dies: the server drops its transaction, the lease stays.
Crash(w) ==
  /\ run[w].pc # "idle" /\ faults < MaxFaults
  /\ faults' = faults + 1
  /\ run' = [run EXCEPT ![w] = NoRun]
  /\ tx' = [c \in OpenClients \ {w} |-> tx[c]]
  /\ UNCHANGED <<db, expired, asking, asked, requests>>

(***************************************************************************)
(* detectJob: one transaction between two fences on the job                *)
(***************************************************************************)
StartDetect(w) ==
  /\ run[w].pc = "acquired" /\ Leased(db.job, w) /\ ~expired
  /\ Begin(w, [op |-> "detect"])
  /\ run' = [run EXCEPT ![w].pc = "detecting"]
  /\ UNCHANGED <<expired, asking, asked, requests, faults>>

RetryDetect(w) ==
  /\ run[w].pc = "detecting" /\ Leased(db.job, w) /\ ~expired
  /\ Retry(w)
  /\ UNCHANGED <<expired, run, asking, asked, requests, faults>>

\* reconcileConnection fences the connection; both fences renew the lease.
UnfencedDocs == {"connection"}                  \* slip: the job is not fenced
UnfencedEvidence == {"job"}                     \* slip: the connection is not fenced
FencedDocs == {"job", "connection"}

CommitDetect(w) ==
  /\ run[w].pc = "detecting" /\ Leased(tx[w].snap.job, w)
  /\ CommitTouching(w, [tx[w].snap EXCEPT !.detected = EvidenceOf(tx[w].snap)], FencedDocs)
  /\ expired' = FALSE
  /\ run' = [run EXCEPT ![w].pc = "check"]
  /\ UNCHANGED <<asking, asked, requests, faults>>

\* Too much evidence is final, any other error is worth another try.
FailDetect(w) ==
  /\ run[w].pc \in {"acquired", "detecting"} /\ faults < MaxFaults
  /\ faults' = faults + 1
  /\ \E retryable \in BOOLEAN :
       run' = [run EXCEPT ![w].pc = "failing", ![w].retryable = retryable]
  /\ tx' = [c \in OpenClients \ {w} |-> tx[c]]
  /\ UNCHANGED <<db, expired, asking, asked, requests>>

\* job_lease_lost: the worker turns to other jobs and writes nothing.
LoseLease(w) ==
  /\ run[w].pc # "idle" /\ (~Leased(db.job, w) \/ expired)
  /\ run' = [run EXCEPT ![w] = NoRun]
  /\ tx' = [c \in OpenClients \ {w} |-> tx[c]]
  /\ UNCHANGED <<db, expired, asking, asked, requests, faults>>

(***************************************************************************)
(* The end of runWorkerOnce                                                *)
(***************************************************************************)
Close(w, pc, job) ==
  /\ run[w].pc = pc /\ Leased(db.job, w) /\ ~expired
  /\ Write([db EXCEPT !.job = job])
  /\ run' = [run EXCEPT ![w] = NoRun]
  /\ UNCHANGED <<expired, asking, asked, requests, faults>>

\* The job was asked for again while it ran: it goes back in line.
Rerun(w) == db.job.rerun /\ Close(w, "check", Pending(db.job))

\* It was not, and a second update will close the job.
NoRerun(w) ==
  /\ run[w].pc = "check" /\ ~(Leased(db.job, w) /\ ~expired /\ db.job.rerun)
  /\ run' = [run EXCEPT ![w].pc = "complete"]
  /\ UNCHANGED <<db, tx, expired, asking, asked, requests, faults>>

Complete(w) == Close(w, "complete", [Pending(db.job) EXCEPT !.status = "done"])

\* A retry keeps the progress that the worker read when it leased the job.
Failed(w) ==
  Close(w, "failing",
        [Pending(db.job) EXCEPT !.status = IF run[w].retryable THEN "pending" ELSE "done",
                                !.rerun = run[w].retryable /\ run[w].rerun, !.error = TRUE])

(***************************************************************************)
(* The specification                                                       *)
(***************************************************************************)
JobsInit ==
  /\ db = [job |-> [status |-> "absent", token |-> 0, rerun |-> FALSE, error |-> FALSE],
           connection |-> 0, mappings |-> 0, detected |-> Nothing]
  /\ tx = [c \in {} |-> {}]
  /\ expired = FALSE
  /\ run = [w \in Worker |-> NoRun]
  /\ asking = [p \in PlainProducer |-> NotAsking]
  /\ asked = Nothing /\ requests = 0 /\ faults = 0

\* The steps a live worker process takes by itself.
WorkerStep(w) ==
  \/ Acquire(w) \/ StartDetect(w) \/ RetryDetect(w) \/ CommitDetect(w) \/ LoseLease(w)
  \/ Rerun(w) \/ NoRerun(w) \/ Complete(w) \/ Failed(w)

JobsNext ==
  \/ \E w \in Worker : WorkerStep(w) \/ FailDetect(w) \/ Crash(w)
  \/ \E p \in TxProducer : StartRequest(p) \/ CommitRequest(p) \/ RetryRequest(p)
  \/ \E p \in PlainProducer : StartPlainRequest(p) \/ PlainReopen(p) \/ PlainFlag(p)
                               \/ PlainInsert(p) \/ PlainRequeue(p)
  \/ Expire

JobsSpec == JobsInit /\ [][JobsNext]_jobVars

\* The worker loop never gives up (listeningWorker backs off and goes on, and
\* is restarted when it dies), and leases run out.
FairJobsSpec ==
  JobsSpec /\ (\A w \in Worker : WF_jobVars(WorkerStep(w))) /\ WF_jobVars(Expire)

(***************************************************************************)
(* Properties                                                              *)
(***************************************************************************)
\* Job, runs, requests and snapshots have their types.
JobsTypeOK ==
  /\ db \in [job: Job, connection: Nat, mappings: Nat, detected: Evidence]
  /\ SnapshotShape
  /\ expired \in BOOLEAN
  /\ run \in [Worker -> Run]
  /\ asking \in [PlainProducer -> [step: {"none", "reopen", "flag", "insert", "requeue"}, about: Evidence]]
  /\ asked \in Evidence /\ requests \in 0..MaxRequests /\ faults \in 0..MaxFaults

\* "A running job would miss this request; ask it to run once more instead":
\* a job that closed well has seen the evidence of every finished request
\* (enqueueJob and the end of runWorkerOnce).
NoLostRequest ==
  db.job.status = "done" /\ ~db.job.error => Covers(db.detected, asked)

\* Until the worker looks for the flag, no request is lost: whatever the run
\* did not read, the flag knows (enqueueJob, detectJob).
FlaggedUntilChecked ==
  \A w \in Worker :
    run[w].pc = "check" /\ Leased(db.job, w) /\ ~Covers(db.detected, asked) => db.job.rerun

\* A worker whose lease was taken over, or whose job an owner put back in line,
\* neither stores detections nor closes the successor's run (the fences of
\* detectJob and of runWorkerOnce).
OnlyTheHolderWrites ==
  [][ db'.detected # db.detected \/ (db.job.status # "done" /\ db'.job.status = "done")
      => \E w \in Worker : Leased(db.job, w) /\ run[w].pc # "idle" /\ run'[w] # run[w] ]_jobVars

\* Detections are never stored from a connection that has meanwhile changed
\* (reconcileConnection's fence), nor do they go back to older mappings.
DetectionsAreCurrent ==
  [][db'.detected # db.detected =>
       db'.detected.connection = db.connection /\ Covers(db'.detected, db.detected)]_jobVars

\* A job that waits or runs is eventually closed: a crashed worker's lease
\* runs out and another takes the job (acquireJob, runWorkerOnce).
JobsAreClosed == db.job.status \in {"pending", "running"} ~> db.job.status = "done"
=============================================================================
