----------------------------- MODULE MCWorkers -----------------------------
(* What the worker must get done in the end, an instance of each: the one     *)
(* detect job of a connection, the cleanup of a disconnected connection, and  *)
(* the sync and sweep windows of an active one.                               *)
EXTENDS ListeningJobs, SyncWindows, TLC

CONSTANTS w1, w2, p1, p2, c1, a1, s1, s2, s3

VARIABLES part,
          connDb, connTx, call, connRun, connExpired, clerk, gone   \* of the cleanup
detectVars == <<db, tx, expired, run, asking, asked>>
connVars == <<connDb, connTx, call, connRun, connExpired, clerk, gone>>

OneWorker == {w1}
Callers == {c1}
CleanupClients == {w1, c1}
Attempts == {a1}
Cleanup == INSTANCE Connections WITH
  Client <- CleanupClients, Worker <- OneWorker, Caller <- Callers, Attempt <- Attempts, MaxConnections <- 1, MaxRevision <- 3,
  MaxScrobbles <- 1, MaxRequests <- 3, MaxFaults <- 1, OwnerMayLeave <- FALSE,
  db <- connDb, tx <- connTx, run <- connRun, expired <- connExpired

(* Three scrobbles, the second of which the provider lists late; pages of one *)
(* scrobble, of which a run fetches two. Sweeps are switched on, for the      *)
(* first moments (windows), or off, until time ends and what is left within   *)
(* the horizon is two pages (regular).                                        *)
ThePlayed == (s1 :> 1) @@ (s2 :> 2) @@ (s3 :> 3)
EndOfSweeps == 3

WorkersInit ==
  /\ JobsInit /\ Cleanup!ConnectionsInit /\ SyncInit
  /\ part = "cleanup" \/ (part \in {"jobs", "windows", "regular"} /\ connDb = Cleanup!Unused)
JobsStep(A)    == part = "jobs" /\ A /\ UNCHANGED <<part, connVars, syncVars>>
CleanupStep(A) == part = "cleanup" /\ A /\ UNCHANGED <<part, detectVars, syncVars>>
WindowsStep(A) ==
  /\ part \in {"windows", "regular"} /\ A /\ UNCHANGED <<part, requests, faults, detectVars, connVars>>
  /\ part = "windows" => now' <= EndOfSweeps
  /\ part = "regular" => job'["sweep"] = job["sweep"]
WorkersNext ==
  JobsStep(JobsNext) \/ CleanupStep(Cleanup!ConnectionsNext) \/ WindowsStep(SyncNext)

(* The fairness that the modules state. *)
WorkersFairness ==
  /\ \A w \in Worker : WF_detectVars(JobsStep(WorkerStep(w)))
  /\ WF_detectVars(JobsStep(Expire))
  /\ WF_connVars(CleanupStep(Cleanup!JobStep(w1)))
  /\ \A j \in Cleanup!CleanupDocs : /\ WF_connVars(CleanupStep(Cleanup!Expire(j)))
                                   /\ SF_connVars(CleanupStep(Cleanup!Acquire(w1, j)))
  /\ WF_syncVars(WindowsStep(SyncWork)) /\ WF_syncVars(WindowsStep(SweepWork))
  /\ WF_syncVars(WindowsStep(Tick))
WorkersSpec ==
  WorkersInit /\ [][WorkersNext]_<<part, requests, faults, detectVars, connVars, syncVars>> /\ WorkersFairness

(* The properties, which the modules state. *)
WorkersTypeOK ==
  /\ part = "jobs"    => JobsTypeOK
  /\ part = "cleanup" => Cleanup!ConnectionsTypeOK
  /\ part \in {"windows", "regular"} => SyncTypeOK

(* JobsAreClosed, DisconnectedIsCleaned and SyncsEnd in one: a job that waits or  *)
(* runs is closed, a disconnected connection is cleaned up or authorized again,   *)
(* and a sync that is due ends unless its whole window is beyond the horizon.     *)
Due  == \/ part = "jobs"    /\ db.job.status \in {"pending", "running"}
        \/ part = "cleanup" /\ connDb[Cleanup!ConnectionDoc].state = "disconnected"
        \/ part = "regular" /\ job["sync"].status = "pending"
Done == \/ part = "jobs"    /\ db.job.status = "done"
        \/ part = "cleanup" /\ connDb[Cleanup!ConnectionDoc].state # "disconnected"
        \/ part = "regular" /\ (job["sync"].status = "done" \/ TooOld)
WhatIsDueIsDone == Due ~> Done
=============================================================================
