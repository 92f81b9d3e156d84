----------------------------- MODULE JobsProofs -----------------------------
(***************************************************************************)
(* Proofs about the worker's jobs: ListeningJobs, then SyncWindows.        *)
(*                                                                         *)
(* A detect run reads the evidence when it begins its transaction and      *)
(* stores what it made of it when it commits; the invariant follows a      *)
(* request through the whole of it: whatever a run that still holds the    *)
(* job has not read, the rerun flag remembers, from the moment the request *)
(* is about to finish.                                                     *)
(*                                                                         *)
(* A sync or a sweep walks down a list that moves: what was listed when    *)
(* its window was fixed only moves to later pages while nothing is         *)
(* removed, so that it is stored already or still ahead; and where a       *)
(* window does not start at the last one's end, the gap does.              *)
(***************************************************************************)
EXTENDS ListeningJobs, SyncWindows, TransactionProofs, FiniteSetTheorems

(***************************************************************************)
(* The invariant                                                           *)
(***************************************************************************)
Database == [job: Job, connection: Nat, mappings: Nat, detected: Evidence]

\* A transaction saw a database, and a worker has one open while it detects.
OpenRuns ==
  /\ \A c \in OpenClients : tx[c].snap \in Database
  /\ \A w \in Worker : w \in OpenClients <=> run[w].pc = "detecting"

\* No two workers have the same lease token.
TokensDiffer ==
  /\ \A w \in Worker : run[w].token = 0 <=> run[w].pc = "idle"
  /\ \A v, w \in Worker : run[v].token = run[w].token /\ run[v].pc # "idle" => v = w

\* The evidence is the newest of all, and a detection that can still be
\* committed is from newer evidence than the one that is stored.
EvidenceLeads ==
  /\ Covers(EvidenceOf(db), asked) /\ Covers(EvidenceOf(db), db.detected)
  /\ \A p \in PlainProducer : Covers(EvidenceOf(db), asking[p].about)
  /\ \A c \in OpenClients : Covers(EvidenceOf(db), EvidenceOf(tx[c].snap))
  /\ \A w \in Worker \cap OpenClients :
       "job" \notin tx[w].missed =>
         tx[w].snap.detected = db.detected /\ Covers(EvidenceOf(tx[w].snap), db.detected)

\* The run of w did not read v: it is done reading, or read too early and can still commit.
Unread(w, v) ==
  \/ run[w].pc = "check" /\ ~Covers(db.detected, v)
  \/ w \in OpenClients /\ "job" \notin tx[w].missed /\ ~Covers(EvidenceOf(tx[w].snap), v)

Remembered(v) == \A w \in Worker : Leased(db.job, w) /\ Unread(w, v) => db.job.rerun

\* A plain request about to insert the job has flagged it before.
RequestsRemembered ==
  /\ Remembered(asked)
  /\ \A p \in PlainProducer : asking[p].step = "insert" => Remembered(asking[p].about)

JobsInv ==
  JobsTypeOK /\ SnapshotsAreCurrent /\ OpenRuns /\ TokensDiffer /\ EvidenceLeads /\ RequestsRemembered

(***************************************************************************)
(* Evidence and jobs                                                       *)
(***************************************************************************)
\* Covering is a preorder, and a joint request asks for both.
LEMMA CoversFacts ==
  /\ Nothing \in Evidence /\ \A u \in Evidence : Covers(u, u) /\ Covers(u, Nothing)
  /\ \A u, v, x \in Evidence : Covers(u, v) /\ Covers(v, x) => Covers(u, x)
  /\ \A u, v \in Evidence : Joined(u, v) \in Evidence
  /\ \A u, v, x \in Evidence : Covers(x, Joined(u, v)) <=> Covers(x, u) /\ Covers(x, v)
BY DEF Covers, Evidence, Nothing, Joined, Larger

\* What the updates of a request leave behind: a job that is not running, or
\* one that is flagged, and never one that is done.
LEMMA UpdatesOfTheJob ==
  ASSUME NEW j \in Job
  PROVE  /\ Pending(j) \in Job /\ Pending(j).status = "pending" /\ ~Pending(j).rerun
         /\ Reopened(j) \in Job /\ (Reopened(j) = j \/ Reopened(j).status = "pending")
         /\ Flagged(j) \in Job /\ (Flagged(j).status = "running" => Flagged(j).rerun)
         /\ (Flagged(j).status = "done" => j.status = "done")
         /\ Inserted(j) \in Job /\ (Inserted(j) = j \/ Inserted(j).status = "pending")
         /\ Requeued(j) \in Job /\ Requeued(j).status = "pending"
         /\ Enqueued(j) \in Job /\ (Enqueued(j).status = "running" => Enqueued(j).rerun)
         /\ Enqueued(j).status # "done"
BY DEF Job, Pending, Reopened, Flagged, Inserted, Requeued, Enqueued

\* The parts of a database.
LEMMA DatabaseParts ==
  ASSUME NEW s \in Database
  PROVE  /\ DOMAIN s = {"job", "connection", "mappings", "detected"}
         /\ s.job \in Job /\ s.connection \in Nat /\ s.mappings \in Nat /\ s.detected \in Evidence
         /\ EvidenceOf(s) \in Evidence
BY DEF Database, EvidenceOf, Evidence

\* There is a token that nobody holds: fewer are held than there are to draw.
LEMMA FreshTokenIsFresh ==
  ASSUME JobsTypeOK, NEW w \in Worker, run[w].token = 0
  PROVE  /\ FreshToken \in Nat \ {0} /\ FreshToken # db.job.token
         /\ \A v \in Worker : run[v].token # FreshToken
<1> DEFINE n == Cardinality(Worker)
           held == [v \in Worker |-> IF v = w THEN db.job.token ELSE run[v].token]
           H == {held[v] : v \in Worker}
<1>1. IsFiniteSet(Worker) /\ n \in Nat
  BY JobsAssumption, FS_CardinalityType
<1>2. IsFiniteSet(H) /\ Cardinality(H) <= n
  <2>1. held \in Surjection(Worker, H)
    BY DEF Surjection
  <2> QED BY <1>1, <2>1, FS_Surjection
<1>3. IsFiniteSet(1..(n + 1)) /\ Cardinality(1..(n + 1)) = n + 1
  BY <1>1, FS_Interval
<1>4. ~(1..(n + 1) \subseteq H)
  <2>1. Cardinality(H) \in Nat
    BY <1>2, FS_CardinalityType
  <2> HIDE DEF H, n
  <2> QED BY <1>1, <1>2, <1>3, <2>1, FS_Subset
<1>5. PICK t \in 1..(n + 1) : t \notin H
  BY <1>4
<1>6. t # db.job.token /\ \A v \in Worker : run[v].token # t
  <2>1. held[w] \in H /\ \A v \in Worker : held[v] \in H
    OBVIOUS
  <2> QED BY <1>1, <1>5, <2>1
<1>7. \E u \in 1..(Cardinality(Worker) + 1) : u # db.job.token /\ \A v \in Worker : run[v].token # u
  BY <1>6
<1>8. FreshToken \in 1..(n + 1) /\ FreshToken # db.job.token /\ \A v \in Worker : run[v].token # FreshToken
  BY <1>7 DEF FreshToken
<1> QED BY <1>1, <1>8

(***************************************************************************)
(* Steps of the database                                                   *)
(***************************************************************************)
\* What the invariant says of the types, in the form the steps need.
LEMMA JobsFacts ==
  ASSUME JobsInv
  PROVE  /\ Transactions /\ db \in Database /\ run \in [Worker -> Run] /\ asked \in Evidence
         /\ \A c \in OpenClients : tx[c].snap \in Database
         /\ Worker \subseteq Client /\ TxProducer \subseteq Client
         /\ \A w \in Worker : run[w].token \in Nat
BY JobsAssumption DEF JobsInv, JobsTypeOK, OpenRuns, Transactions, Database, Run

\* A run that is behind on more has not read what it had not read before.
LEMMA MoreIsUnread ==
  ASSUME JobsInv, NEW w \in Worker, run'[w] = run[w], db'.detected = db.detected,
         NEW others, NEW W, FallBehind(others, W), others \subseteq OpenClients
  PROVE  \A v : Unread(w, v)' => Unread(w, v)
BY DEF Unread, FallBehind

\* A job that is not running, or is flagged, remembers everything.
LEMMA FlaggedRemembers ==
  ASSUME db'.job.status # "running" \/ db'.job.rerun
  PROVE  \A v : Remembered(v)'
BY DEF Remembered, Leased

\* A plain update of the job by a requester: the runs go on as they were, and
\* either nothing changed for them or the job remembers everything.
LEMMA UpdateOfTheJob ==
  ASSUME JobsInv, NEW j \in Job, NEW touched \in SUBSET {"job"},
         WriteTouching([db EXCEPT !.job = j], touched), UNCHANGED run,
         j = db.job \/ j.status # "running" \/ j.rerun
  PROVE  /\ Transactions' /\ db' \in Database /\ EvidenceOf(db') = EvidenceOf(db)
         /\ db'.job = j /\ db'.detected = db.detected
         /\ OpenRuns' /\ TokensDiffer'
         /\ \A c \in OpenClients' : c \in OpenClients /\ tx'[c].snap = tx[c].snap /\ tx[c].missed \subseteq tx'[c].missed
         /\ \A v : Remembered(v) => Remembered(v)'
         /\ j # db.job => \A v : Remembered(v)'
<1> DEFINE t == [db EXCEPT !.job = j]
<1>1. Transactions /\ db \in Database
  BY JobsFacts
<1>2. /\ t \in Database /\ DOMAIN t = DOMAIN db /\ touched \subseteq DOMAIN db
      /\ EvidenceOf(t) = EvidenceOf(db) /\ t.job = j /\ t.detected = db.detected
  BY <1>1 DEF Database, EvidenceOf
<1>3. Transactions' /\ FallBehind(OpenClients, touched \cup Changed(db, t))
  BY <1>1, <1>2, WriteTouchingKeepsTransactions
<1>4. db' = t
  BY DEF WriteTouching
<1> HIDE DEF t
<1>5. \A c \in OpenClients' : c \in OpenClients /\ tx'[c].snap = tx[c].snap /\ tx[c].missed \subseteq tx'[c].missed
  BY <1>3 DEF FallBehind
<1>6. OpenRuns' /\ TokensDiffer'
  BY <1>3, <1>5 DEF JobsInv, OpenRuns, TokensDiffer, FallBehind
<1>7. \A v, w : w \in Worker /\ Unread(w, v)' => Unread(w, v)
  BY <1>2, <1>3, <1>4, MoreIsUnread
<1>8. j # db.job => \A v : Remembered(v)'
  BY <1>2, <1>4, FlaggedRemembers
<1>9. j = db.job => \A v : Remembered(v) => Remembered(v)'
  BY <1>2, <1>4, <1>7 DEF Remembered, Leased
<1> QED BY <1>2, <1>3, <1>4, <1>5, <1>6, <1>8, <1>9

\* It also leaves the evidence leading.
LEMMA UpdateKeepsEvidence ==
  ASSUME JobsInv, EvidenceOf(db') = EvidenceOf(db), db'.detected = db.detected,
         \A c \in OpenClients' : c \in OpenClients /\ tx'[c].snap = tx[c].snap /\ tx[c].missed \subseteq tx'[c].missed,
         Covers(EvidenceOf(db), asked'), \A p \in PlainProducer : Covers(EvidenceOf(db), asking'[p].about)
  PROVE  EvidenceLeads'
BY DEF JobsInv, EvidenceLeads

\* What the next state remembers, in terms of the requests of the next state.
LEMMA RememberedNext ==
  /\ \A u : u = asked' /\ Remembered(u)' => Remembered(asked)'
  /\ \A u, p : u = asking'[p].about /\ Remembered(u)' => Remembered(asking[p].about)'
BY DEF Remembered, Unread

\* Remembering two requests is remembering their sum.
LEMMA RememberedJoined ==
  ASSUME NEW u \in Evidence, NEW v \in Evidence, db' \in Database, OpenRuns',
         Remembered(u)', Remembered(v)'
  PROVE  \A x : x = Joined(u, v) => Remembered(x)'
<1> SUFFICES ASSUME NEW w \in Worker, Leased(db.job, w)', NEW x, x = Joined(u, v), Unread(w, x)'
             PROVE  db'.job.rerun
  BY DEF Remembered
<1>1. db'.detected \in Evidence /\ (w \in OpenClients' => EvidenceOf(tx'[w].snap) \in Evidence)
  BY DatabaseParts DEF OpenRuns
<1>2. \A y \in Evidence : ~Covers(y, x) => ~Covers(y, u) \/ ~Covers(y, v)
  BY CoversFacts
<1>3. \/ run'[w].pc = "check" /\ ~Covers(db'.detected, x)
      \/ w \in OpenClients' /\ "job" \notin tx'[w].missed /\ ~Covers(EvidenceOf(tx'[w].snap), x)
  BY DEF Unread
<1>4. Unread(w, u)' \/ Unread(w, v)'
  BY <1>1, <1>2, <1>3 DEF Unread
<1> QED BY <1>4 DEF Remembered

\* The updates of a plain request, one by one.
LEMMA PlainUpdateKeepsJobs ==
  ASSUME JobsInv, NEW p \in PlainProducer, NEW step, NEW next \in {"none", "flag", "insert"},
         NEW j \in Job, NEW touched \in SUBSET {"job"},
         PlainUpdate(p, step, next, j, touched),
         j = db.job \/ j.status # "running" \/ j.rerun,
         asked' = asked \/ asked' = Joined(asked, asking[p].about),
         asked' # asked => next = "none" /\ (Remembered(asking[p].about) \/ j # db.job),
         next = "insert" => j.status # "running" \/ j.rerun
  PROVE  JobsInv'
<1> DEFINE v == asking[p].about
<1>1. /\ Transactions' /\ db' \in Database /\ EvidenceOf(db') = EvidenceOf(db)
      /\ db'.job = j /\ db'.detected = db.detected /\ OpenRuns' /\ TokensDiffer'
      /\ \A c \in OpenClients' : c \in OpenClients /\ tx'[c].snap = tx[c].snap /\ tx[c].missed \subseteq tx'[c].missed
      /\ \A u : Remembered(u) => Remembered(u)'
      /\ j # db.job => \A u : Remembered(u)'
  BY UpdateOfTheJob DEF PlainUpdate
<1>2. asking \in [PlainProducer -> [step: {"none", "reopen", "flag", "insert", "requeue"}, about: Evidence]]
  BY DEF JobsInv, JobsTypeOK
<1>3. v \in Evidence /\ asked \in Evidence
  BY <1>2 DEF JobsInv, JobsTypeOK
<1>4. /\ \A q \in PlainProducer \ {p} : asking'[q] = asking[q]
      /\ asking'[p] = IF next = "none" THEN NotAsking ELSE [step |-> next, about |-> v]
  BY <1>2 DEF PlainUpdate
<1>5. \A q \in PlainProducer : asking'[q].about = asking[q].about \/ asking'[q].about = Nothing
  BY <1>4 DEF NotAsking
<1>6. JobsTypeOK'
  <2>1. asking' \in [PlainProducer -> [step: {"none", "reopen", "flag", "insert", "requeue"}, about: Evidence]]
    <3> DEFINE R == [step: {"none", "reopen", "flag", "insert", "requeue"}, about: Evidence]
               new == IF next = "none" THEN NotAsking ELSE [asking[p] EXCEPT !.step = next]
    <3>1. NotAsking \in R /\ asking[p] \in R
      BY <1>2, CoversFacts DEF NotAsking
    <3>2. new \in R
      BY <3>1
    <3>3. asking' = [asking EXCEPT ![p] = new] /\ asking \in [PlainProducer -> R]
      BY <1>2 DEF PlainUpdate
    <3> HIDE DEF R, new
    <3>4. asking' \in [PlainProducer -> R]
      BY <3>2, <3>3
    <3> QED BY <3>4 DEF R
  <2>2. asked' \in Evidence
    <3>1. Joined(asked, v) \in Evidence
      BY <1>3, CoversFacts
    <3> QED BY <1>3, <3>1
  <2>3. db' \in [job: Job, connection: Nat, mappings: Nat, detected: Evidence] /\ SnapshotShape'
    BY <1>1 DEF Database, Transactions
  <2> QED BY <2>1, <2>2, <2>3 DEF JobsInv, JobsTypeOK, PlainUpdate
<1>7. EvidenceLeads'
  <2>1. EvidenceOf(db) \in Evidence
    BY JobsFacts, DatabaseParts
  <2>2. Covers(EvidenceOf(db), v) /\ Covers(EvidenceOf(db), asked)
    BY DEF JobsInv, EvidenceLeads
  <2>3. Covers(EvidenceOf(db), asked')
    <3>1. Covers(EvidenceOf(db), Joined(asked, v))
      BY <1>3, <2>1, <2>2, CoversFacts
    <3> QED BY <2>2, <3>1
  <2>4. \A q \in PlainProducer : Covers(EvidenceOf(db), asking'[q].about)
    <3>1. Covers(EvidenceOf(db), Nothing)
      BY <2>1, CoversFacts
    <3> QED BY <1>5, <3>1 DEF JobsInv, EvidenceLeads
  <2> QED BY <1>1, <2>3, <2>4, UpdateKeepsEvidence
<1>8. Remembered(asked)'
  <2>1. Remembered(asked) /\ \A u : u = asked => Remembered(u)'
    BY <1>1 DEF JobsInv, RequestsRemembered
  <2>2. CASE asked' = asked
    BY <2>1, <2>2, RememberedNext
  <2>3. CASE asked' = Joined(asked, v) /\ asked' # asked
    <3>1. \A u : u = v => Remembered(u)'
      BY <1>1, <2>3
    <3> QED BY <1>1, <1>3, <2>1, <2>3, <3>1, RememberedJoined, RememberedNext
  <2> QED BY <2>2, <2>3
<1>9. ASSUME NEW q \in PlainProducer, asking'[q].step = "insert" PROVE Remembered(asking[q].about)'
  <2>1. CASE q = p
    <3>1. next = "insert" /\ (j.status # "running" \/ j.rerun)
      BY <1>4, <1>9, <2>1 DEF NotAsking
    <3>2. \A u : Remembered(u)'
      BY <1>1, <3>1, FlaggedRemembers
    <3> QED BY <3>2, RememberedNext
  <2>2. CASE q # p
    <3>1. asking'[q] = asking[q] /\ Remembered(asking[q].about)
      BY <1>4, <1>9, <2>2 DEF JobsInv, RequestsRemembered
    <3>2. \A u : u = asking[q].about => Remembered(u)'
      BY <1>1, <3>1
    <3> QED BY <3>1, <3>2, RememberedNext
  <2> QED BY <2>1, <2>2
<1> QED BY <1>1, <1>6, <1>7, <1>8, <1>9 DEF JobsInv, RequestsRemembered, Transactions

\* Each of the four updates of a plain request keeps the invariant.
LEMMA PlainUpdatesKeepJobs ==
  ASSUME JobsInv, NEW p \in PlainProducer,
         PlainReopen(p) \/ PlainFlag(p) \/ PlainInsert(p) \/ PlainRequeue(p)
  PROVE  JobsInv'
<1> DEFINE j == db.job
<1>1. j \in Job
  BY JobsFacts, DatabaseParts
<1>2. CASE PlainReopen(p)
  BY <1>1, <1>2, UpdatesOfTheJob, PlainUpdateKeepsJobs DEF PlainReopen
<1>3. CASE PlainFlag(p)
  <2>1. Flagged(j) \in Job /\ (Flagged(j).status # "running" \/ Flagged(j).rerun)
    BY <1>1, UpdatesOfTheJob
  <2> QED BY <1>3, <2>1, PlainUpdateKeepsJobs DEF PlainFlag
<1>4. CASE PlainInsert(p)
  <2>1. Inserted(j) \in Job /\ (Inserted(j) = j \/ Inserted(j).status # "running")
    BY <1>1, UpdatesOfTheJob
  <2>2. Remembered(asking[p].about)
    BY <1>4 DEF PlainInsert, PlainUpdate, JobsInv, RequestsRemembered
  <2> QED BY <1>4, <2>1, <2>2, PlainUpdateKeepsJobs DEF PlainInsert
<1>5. CASE PlainRequeue(p)
  <2>1. Requeued(j) \in Job /\ Requeued(j).status # "running"
    BY <1>1, UpdatesOfTheJob
  <2>2. Requeued(j) = j => Remembered(asking[p].about)
    BY <2>1 DEF Remembered, Leased
  <2> QED BY <1>5, <2>1, <2>2, PlainUpdateKeepsJobs DEF PlainRequeue
<1> QED BY <1>2, <1>3, <1>4, <1>5

\* A worker that leaves its run, or gets past the check of the flag, without a write.
LEMMA LeavingKeepsJobs ==
  ASSUME JobsInv, NEW w \in Worker, NEW r \in Run, run' = [run EXCEPT ![w] = r],
         r.pc \in {"idle", "complete", "failing"}, r.token = IF r.pc = "idle" THEN 0 ELSE run[w].token,
         run[w].pc # "idle", UNCHANGED <<db, asking, asked, requests>>,
         expired' \in BOOLEAN, faults' \in 0..MaxFaults,
         Transactions', OpenClients' = OpenClients \ {w}, \A x \in OpenClients \ {w} : tx'[x] = tx[x]
  PROVE  JobsInv'
<1>1. run \in [Worker -> Run] /\ run'[w] = r /\ \A v \in Worker \ {w} : run'[v] = run[v]
  BY JobsFacts
<1>2. JobsTypeOK'
  BY <1>1 DEF JobsInv, JobsTypeOK, Transactions
<1>3. OpenRuns'
  BY <1>1 DEF JobsInv, OpenRuns
<1>4. TokensDiffer'
  BY <1>1, JobsFacts DEF JobsInv, TokensDiffer
<1>5. EvidenceLeads'
  BY DEF JobsInv, EvidenceLeads
<1>6. \A v : \A u \in Worker : Leased(db.job, u)' /\ Unread(u, v)' => Leased(db.job, u) /\ Unread(u, v)
  BY <1>1 DEF Unread, Leased
<1>7. \A v : Remembered(v) => Remembered(v)'
  BY <1>6 DEF Remembered
<1>8. RequestsRemembered'
  BY <1>7, RememberedNext DEF JobsInv, RequestsRemembered
<1> QED BY <1>2, <1>3, <1>4, <1>5, <1>8 DEF JobsInv, Transactions

\* A worker that takes the job or gives it back writes it, and nobody else has its lease.
LEMMA HandOverKeepsJobs ==
  ASSUME JobsInv, NEW w \in Worker, NEW r \in Run, run' = [run EXCEPT ![w] = r],
         r.pc \in {"idle", "acquired"}, r.token = 0 <=> r.pc = "idle", run[w].pc # "detecting",
         \A v \in Worker : r.pc # "idle" => run[v].token # r.token,
         NEW j \in Job, Write([db EXCEPT !.job = j]), j # db.job,
         j.status # "running" \/ \A v \in Worker \ {w} : run[v].token # j.token,
         UNCHANGED <<asking, asked, requests, faults>>, expired' \in BOOLEAN
  PROVE  JobsInv'
<1> DEFINE t == [db EXCEPT !.job = j]
<1>1. /\ Transactions /\ db \in Database /\ run \in [Worker -> Run]
      /\ run'[w] = r /\ \A v \in Worker \ {w} : run'[v] = run[v]
  BY JobsFacts
<1>2. /\ t \in Database /\ DOMAIN t = DOMAIN db /\ EvidenceOf(t) = EvidenceOf(db)
      /\ t.job = j /\ t.detected = db.detected /\ "job" \in Changed(db, t)
  BY <1>1 DEF Database, EvidenceOf, Changed
<1>3. Transactions' /\ FallBehind(OpenClients, Changed(db, t)) /\ db' = t
  BY <1>1, <1>2, WriteKeepsTransactions DEF Write
<1> HIDE DEF t
<1>4. \A c \in OpenClients' : /\ c \in OpenClients /\ tx'[c].snap = tx[c].snap
                              /\ tx[c].missed \subseteq tx'[c].missed /\ "job" \in tx'[c].missed
  BY <1>2, <1>3 DEF FallBehind
<1>5. JobsTypeOK'
  <2>1. db' \in [job: Job, connection: Nat, mappings: Nat, detected: Evidence] /\ SnapshotShape'
    BY <1>2, <1>3 DEF Database, Transactions
  <2> QED BY <1>1, <2>1 DEF JobsInv, JobsTypeOK
<1>6. OpenRuns'
  BY <1>1, <1>3, <1>4 DEF JobsInv, OpenRuns, FallBehind
<1>7. TokensDiffer'
  BY <1>1, JobsFacts DEF JobsInv, TokensDiffer
<1>8. EvidenceLeads'
  <2>1. Covers(EvidenceOf(db), asked') /\ \A p \in PlainProducer : Covers(EvidenceOf(db), asking'[p].about)
    BY DEF JobsInv, EvidenceLeads
  <2> QED BY <1>2, <1>3, <1>4, <2>1, UpdateKeepsEvidence
<1>9. \A v : Remembered(v)'
  <2>1. \A v, u : u \in Worker => ~(Leased(db.job, u)' /\ Unread(u, v)')
    <3> SUFFICES ASSUME NEW v, NEW u \in Worker, Leased(db.job, u)', Unread(u, v)' PROVE FALSE
      OBVIOUS
    <3>1. run'[u].pc = "check"
      BY <1>4 DEF Unread
    <3>2. u # w
      BY <1>1, <3>1
    <3> QED BY <1>1, <1>2, <1>3, <3>2 DEF Leased
  <2> QED BY <2>1 DEF Remembered
<1>10. RequestsRemembered'
  BY <1>9, RememberedNext DEF JobsInv, RequestsRemembered
<1> QED BY <1>3, <1>5, <1>6, <1>7, <1>8, <1>10 DEF JobsInv, Transactions

(***************************************************************************)
(* The actions                                                             *)
(***************************************************************************)
\* Leasing the job draws a token that nobody has.
LEMMA AcquireKeepsJobs ==
  ASSUME JobsInv, NEW w \in Worker, Acquire(w) PROVE JobsInv'
<1> DEFINE j == [db.job EXCEPT !.status = "running", !.token = FreshToken, !.error = FALSE]
           r == [NoRun EXCEPT !.pc = "acquired", !.token = FreshToken, !.rerun = db.job.rerun]
<1>1. run[w].pc = "idle" /\ run[w].token = 0
  BY DEF Acquire, JobsInv, TokensDiffer
<1>2. /\ FreshToken \in Nat \ {0} /\ FreshToken # db.job.token
      /\ \A v \in Worker : run[v].token # FreshToken
  BY <1>1, FreshTokenIsFresh DEF JobsInv
<1>3. db.job \in Job
  BY JobsFacts, DatabaseParts
<1>4. j \in Job /\ j # db.job /\ j.token = FreshToken
  BY <1>2, <1>3 DEF Job
<1>5. r \in Run /\ r.pc = "acquired" /\ r.token = FreshToken
  BY <1>2, <1>3 DEF Job, Run, NoRun
<1>6. /\ run' = [run EXCEPT ![w] = r] /\ Write([db EXCEPT !.job = j])
      /\ UNCHANGED <<asking, asked, requests, faults>> /\ expired' \in BOOLEAN
  BY DEF Acquire
<1> HIDE DEF j, r
<1>7. /\ r.token = 0 <=> r.pc = "idle"
      /\ r.pc \in {"idle", "acquired"} /\ run[w].pc # "detecting"
  BY <1>1, <1>2, <1>5
<1>8. /\ \A v \in Worker : r.pc # "idle" => run[v].token # r.token
      /\ j.status # "running" \/ \A v \in Worker \ {w} : run[v].token # j.token
  BY <1>2, <1>4, <1>5
<1> QED BY <1>4, <1>5, <1>6, <1>7, <1>8, HandOverKeepsJobs

\* So does closing it, or putting it back in line.
LEMMA ClosingKeepsJobs ==
  ASSUME JobsInv, NEW w \in Worker, Rerun(w) \/ Complete(w) \/ Failed(w) PROVE JobsInv'
<1>1. db.job \in Job /\ run[w] \in Run
  BY JobsFacts, DatabaseParts
<1>2. PICK pc \in {"check", "complete", "failing"}, j \in Job :
        Close(w, pc, j) /\ j.status \in {"pending", "done"}
  <2>1. CASE Rerun(w)
    BY <1>1, <2>1, UpdatesOfTheJob DEF Rerun
  <2>2. CASE Complete(w)
    <3> DEFINE k == [Pending(db.job) EXCEPT !.status = "done"]
    <3>1. k \in Job /\ k.status = "done"
      <4>1. Pending(db.job) \in Job
        BY <1>1, UpdatesOfTheJob
      <4> QED BY <4>1 DEF Job
    <3> QED BY <2>2, <3>1 DEF Complete
  <2>3. CASE Failed(w)
    <3> DEFINE k == [Pending(db.job) EXCEPT !.status = IF run[w].retryable THEN "pending" ELSE "done",
                                            !.rerun = run[w].retryable /\ run[w].rerun, !.error = TRUE]
    <3>1. run[w].retryable \in BOOLEAN /\ run[w].rerun \in BOOLEAN
      BY <1>1 DEF Run
    <3>2. k \in Job /\ k.status \in {"pending", "done"}
      <4>1. Pending(db.job) \in Job
        BY <1>1, UpdatesOfTheJob
      <4> QED BY <3>1, <4>1 DEF Job
    <3> QED BY <2>3, <3>2 DEF Failed
  <2> QED BY <2>1, <2>2, <2>3
<1>3. /\ run' = [run EXCEPT ![w] = NoRun] /\ Write([db EXCEPT !.job = j]) /\ run[w].pc = pc
      /\ db.job.status = "running" /\ UNCHANGED <<expired, asking, asked, requests, faults>>
  BY <1>2 DEF Close, Leased
<1>4. NoRun \in Run /\ NoRun.pc = "idle" /\ NoRun.token = 0
  BY DEF NoRun, Run
<1>5. expired' \in BOOLEAN /\ j # db.job /\ j.status # "running" /\ run[w].pc # "detecting"
  BY <1>2, <1>3 DEF JobsInv, JobsTypeOK
<1> QED BY <1>3, <1>4, <1>5, HandOverKeepsJobs

\* A run that ends without a write, or passes the check of the flag.
LEMMA LeavesKeepJobs ==
  ASSUME JobsInv, NEW w \in Worker, Crash(w) \/ FailDetect(w) \/ LoseLease(w) \/ NoRerun(w)
  PROVE  JobsInv'
<1>1. /\ run[w] \in Run /\ expired \in BOOLEAN /\ faults \in 0..MaxFaults /\ MaxFaults \in Nat
      /\ NoRun \in Run /\ NoRun.pc = "idle" /\ NoRun.token = 0
  BY JobsFacts, JobsAssumption DEF JobsInv, JobsTypeOK, NoRun, Run
<1>2. run[w].pc # "idle" /\ UNCHANGED <<db, asking, asked, requests>>
  BY DEF Crash, FailDetect, LoseLease, NoRerun
<1>3. expired' \in BOOLEAN /\ faults' \in 0..MaxFaults
  BY <1>1 DEF Crash, FailDetect, LoseLease, NoRerun
<1>4. PICK r \in Run : /\ run' = [run EXCEPT ![w] = r] /\ r.pc \in {"idle", "complete", "failing"}
                       /\ r.token = IF r.pc = "idle" THEN 0 ELSE run[w].token
  <2>1. CASE Crash(w) \/ LoseLease(w)
    BY <1>1, <2>1 DEF Crash, LoseLease
  <2>2. CASE NoRerun(w)
    <3> DEFINE r == [run[w] EXCEPT !.pc = "complete"]
    <3>1. r \in Run /\ r.pc = "complete" /\ r.token = run[w].token
      BY <1>1 DEF Run
    <3>2. run' = [run EXCEPT ![w] = r]
      BY <2>2 DEF NoRerun
    <3> QED BY <3>1, <3>2
  <2>3. CASE FailDetect(w)
    <3>1. PICK b \in BOOLEAN : run' = [run EXCEPT ![w].pc = "failing", ![w].retryable = b]
      BY <2>3 DEF FailDetect
    <3> DEFINE r == [run[w] EXCEPT !.pc = "failing", !.retryable = b]
    <3>2. r \in Run /\ r.pc = "failing" /\ r.token = run[w].token
      BY <1>1, <3>1 DEF Run
    <3>3. run' = [run EXCEPT ![w] = r]
      BY <3>1, JobsFacts
    <3> QED BY <3>2, <3>3
  <2> QED BY <2>1, <2>2, <2>3
<1>5. Transactions' /\ OpenClients' = OpenClients \ {w} /\ \A x \in OpenClients \ {w} : tx'[x] = tx[x]
  <2>1. CASE NoRerun(w)
    <3>1. w \notin OpenClients /\ tx' = tx /\ OpenClients' = OpenClients
      BY <2>1 DEF NoRerun, JobsInv, OpenRuns, OpenClients
    <3> QED BY <3>1, <1>2, JobsFacts DEF Transactions, SnapshotShape, SnapshotsAreCurrent
  <2>2. CASE ~NoRerun(w)
    <3>1. tx' = [c \in OpenClients \ {w} |-> tx[c]] /\ db' = db
      BY <2>2 DEF Crash, FailDetect, LoseLease
    <3> QED BY <3>1, JobsFacts, DropKeepsTransactions
  <2> QED BY <2>1, <2>2
<1> QED BY <1>2, <1>3, <1>4, <1>5, LeavingKeepsJobs

\* The clock only moves the lease.
LEMMA ExpireKeepsJobs ==
  ASSUME JobsInv, Expire PROVE JobsInv'
<1>1. UNCHANGED <<db, tx, run, asking, asked, requests>> /\ expired' \in BOOLEAN /\ faults' \in 0..MaxFaults
  BY JobsAssumption DEF Expire, JobsInv, JobsTypeOK
<1>2. JobsTypeOK' /\ SnapshotsAreCurrent'
  BY <1>1 DEF JobsInv, JobsTypeOK, SnapshotShape, SnapshotsAreCurrent, OpenClients
<1>3. OpenRuns' /\ TokensDiffer' /\ EvidenceLeads'
  BY <1>1 DEF JobsInv, OpenRuns, TokensDiffer, EvidenceLeads, OpenClients
<1>4. RequestsRemembered'
  BY <1>1 DEF JobsInv, RequestsRemembered, Remembered, Unread, Leased, OpenClients
<1> QED BY <1>2, <1>3, <1>4 DEF JobsInv

\* A transaction that begins, or begins again, reads all the evidence there is.
LEMMA FreshKeepsJobs ==
  ASSUME JobsInv, NEW c \in Client, Transactions', OpenClients' = OpenClients \cup {c},
         tx'[c].snap = db, tx'[c].missed = {}, \A x \in OpenClients \ {c} : tx'[x] = tx[x],
         UNCHANGED <<db, expired, asking, asked, faults>>, requests' \in 0..MaxRequests,
         \/ c \in Worker /\ run[c].pc \in {"acquired", "detecting"} /\ run' = [run EXCEPT ![c].pc = "detecting"]
         \/ c \notin Worker /\ run' = run
  PROVE  JobsInv'
<1>1. run \in [Worker -> Run] /\ db \in Database
  BY JobsFacts
<1>2. /\ run' \in [Worker -> Run] /\ \A v \in Worker \ {c} : run'[v] = run[v]
      /\ c \in Worker => run'[c].pc = "detecting" /\ run'[c].token = run[c].token
  BY <1>1 DEF Run
<1>3. JobsTypeOK'
  BY <1>2 DEF JobsInv, JobsTypeOK, Transactions
<1>4. OpenRuns'
  BY <1>1, <1>2 DEF JobsInv, OpenRuns
<1>5. TokensDiffer'
  <2>1. \A v \in Worker : run'[v].token = run[v].token /\ (run'[v].pc = "idle" <=> run[v].pc = "idle")
    BY <1>2
  <2> QED BY <2>1 DEF JobsInv, TokensDiffer
<1>6. EvidenceLeads'
  <2>1. Covers(EvidenceOf(db), EvidenceOf(db)) /\ Covers(EvidenceOf(db), db.detected)
    BY <1>1, DatabaseParts, CoversFacts DEF JobsInv, EvidenceLeads
  <2> QED BY <2>1 DEF JobsInv, EvidenceLeads
<1>7. \A v : Covers(EvidenceOf(db), v) /\ Remembered(v) => Remembered(v)'
  <2> SUFFICES ASSUME NEW v, Covers(EvidenceOf(db), v), Remembered(v),
                      NEW u \in Worker, Leased(db.job, u)', Unread(u, v)'
               PROVE  db.job.rerun
    BY DEF Remembered
  <2>1. u # c
    BY <1>2 DEF Unread
  <2>2. Leased(db.job, u) /\ Unread(u, v)
    BY <1>2, <2>1 DEF Leased, Unread
  <2> QED BY <2>2 DEF Remembered
<1>8. RequestsRemembered'
  BY <1>7, RememberedNext DEF JobsInv, RequestsRemembered, EvidenceLeads
<1> QED BY <1>3, <1>4, <1>5, <1>6, <1>8 DEF JobsInv, Transactions

\* Both kinds of transaction, beginning and retrying.
LEMMA BeginningsKeepJobs ==
  ASSUME JobsInv,
         \/ \E w \in Worker : StartDetect(w) \/ RetryDetect(w)
         \/ \E p \in TxProducer : StartRequest(p) \/ RetryRequest(p)
  PROVE  JobsInv'
<1>1. Transactions /\ run \in [Worker -> Run] /\ Worker \subseteq Client /\ TxProducer \subseteq Client
      /\ \A p \in TxProducer : p \notin Worker
  BY JobsFacts, JobsAssumption
<1>2. requests \in 0..MaxRequests /\ MaxRequests \in Nat
  BY JobsAssumption DEF JobsInv, JobsTypeOK
<1>3. ASSUME NEW w \in Worker, StartDetect(w) PROVE JobsInv'
  <2>1. /\ Transactions' /\ db' = db /\ OpenClients' = OpenClients \cup {w}
        /\ tx'[w] = Fresh([op |-> "detect"]) /\ \A x \in OpenClients : tx'[x] = tx[x]
    BY <1>1, <1>3, BeginKeepsTransactions DEF StartDetect
  <2>2. /\ UNCHANGED <<db, expired, asking, asked, faults>> /\ requests' \in 0..MaxRequests
        /\ run[w].pc \in {"acquired", "detecting"} /\ run' = [run EXCEPT ![w].pc = "detecting"]
    BY <1>2, <1>3, <2>1 DEF StartDetect
  <2>3. tx'[w].snap = db /\ tx'[w].missed = {}
    BY <2>1 DEF Fresh
  <2> QED BY <1>1, <2>1, <2>2, <2>3, FreshKeepsJobs
<1>4. ASSUME NEW w \in Worker, RetryDetect(w) PROVE JobsInv'
  <2>1. /\ Transactions' /\ db' = db /\ OpenClients' = OpenClients /\ w \in OpenClients
        /\ tx'[w] = Fresh(tx[w].req) /\ \A x \in OpenClients \ {w} : tx'[x] = tx[x]
    BY <1>1, <1>4, RetryKeepsTransactions DEF RetryDetect
  <2>2. run[w].pc = "detecting" /\ run' = [run EXCEPT ![w].pc = "detecting"]
    BY <1>1, <1>4 DEF RetryDetect, Run
  <2>3. /\ UNCHANGED <<db, expired, asking, asked, faults>> /\ requests' \in 0..MaxRequests
        /\ OpenClients' = OpenClients \cup {w}
    BY <1>2, <1>4, <2>1 DEF RetryDetect
  <2>4. tx'[w].snap = db /\ tx'[w].missed = {}
    BY <2>1 DEF Fresh
  <2> QED BY <1>1, <2>1, <2>2, <2>3, <2>4, FreshKeepsJobs
<1>5. ASSUME NEW p \in TxProducer, StartRequest(p) PROVE JobsInv'
  <2>1. PICK by \in {"job", "owner"} : Begin(p, [op |-> "request", by |-> by])
    BY <1>5 DEF StartRequest
  <2>2. /\ Transactions' /\ db' = db /\ OpenClients' = OpenClients \cup {p}
        /\ tx'[p] = Fresh([op |-> "request", by |-> by]) /\ \A x \in OpenClients : tx'[x] = tx[x]
    BY <1>1, <2>1, BeginKeepsTransactions
  <2>3. requests' \in 0..MaxRequests
    BY <1>2, <1>5 DEF StartRequest
  <2> QED BY <1>1, <1>5, <2>2, <2>3, FreshKeepsJobs DEF StartRequest, Fresh
<1>6. ASSUME NEW p \in TxProducer, RetryRequest(p) PROVE JobsInv'
  <2>1. /\ Transactions' /\ db' = db /\ OpenClients' = OpenClients /\ p \in OpenClients
        /\ tx'[p] = Fresh(tx[p].req) /\ \A x \in OpenClients \ {p} : tx'[x] = tx[x]
    BY <1>1, <1>6, RetryKeepsTransactions DEF RetryRequest
  <2> QED BY <1>1, <1>2, <1>6, <2>1, FreshKeepsJobs DEF RetryRequest, Fresh
<1> QED BY <1>3, <1>4, <1>5, <1>6

\* New evidence, which its requester has yet to ask anything about.
LEMMA StartPlainRequestKeepsJobs ==
  ASSUME JobsInv, NEW p \in PlainProducer, StartPlainRequest(p) PROVE JobsInv'
<1>1. Transactions /\ db \in Database /\ run \in [Worker -> Run] /\ asked \in Evidence
  BY JobsFacts
<1>2. PICK t \in Database, v \in Evidence, step \in {"reopen", "requeue"} :
        /\ Write(t) /\ t.job = db.job /\ t.detected = db.detected
        /\ Covers(EvidenceOf(t), EvidenceOf(db)) /\ Covers(EvidenceOf(t), v)
        /\ asking' = [asking EXCEPT ![p] = [step |-> step, about |-> v]]
  <2>1. CASE /\ Write([db EXCEPT !.mappings = @ + 1])
             /\ asking' = [asking EXCEPT ![p] = [step |-> "reopen", about |-> [Nothing EXCEPT !.mappings = db.mappings + 1]]]
    <3> DEFINE t == [db EXCEPT !.mappings = @ + 1]
               v == [Nothing EXCEPT !.mappings = db.mappings + 1]
    <3>1. t \in Database /\ v \in Evidence
      BY <1>1 DEF Database, Evidence, Nothing
    <3>2. t.job = db.job /\ t.detected = db.detected
      BY <1>1 DEF Database
    <3>3. Covers(EvidenceOf(t), EvidenceOf(db)) /\ Covers(EvidenceOf(t), v)
      <4>1. db.connection \in Nat /\ db.mappings \in Nat
        BY <1>1 DEF Database
      <4>2. /\ EvidenceOf(t) = [connection |-> t.connection, mappings |-> t.mappings]
            /\ t.connection >= db.connection /\ t.mappings >= db.mappings
        BY <1>1, <4>1 DEF EvidenceOf, Database
      <4>3. t.connection >= v.connection /\ t.mappings >= v.mappings
        BY <1>1, <4>1 DEF Nothing, Database
      <4> QED BY <4>2, <4>3 DEF Covers, EvidenceOf
    <3> QED BY <2>1, <3>1, <3>2, <3>3
  <2>2. CASE /\ Write([db EXCEPT !.connection = @ + 1])
             /\ asking' = [asking EXCEPT ![p] = [step |-> "requeue", about |-> [Nothing EXCEPT !.connection = db.connection + 1]]]
    <3> DEFINE t == [db EXCEPT !.connection = @ + 1]
               v == [Nothing EXCEPT !.connection = db.connection + 1]
    <3>1. t \in Database /\ v \in Evidence
      BY <1>1 DEF Database, Evidence, Nothing
    <3>2. t.job = db.job /\ t.detected = db.detected
      BY <1>1 DEF Database
    <3>3. Covers(EvidenceOf(t), EvidenceOf(db)) /\ Covers(EvidenceOf(t), v)
      <4>1. db.connection \in Nat /\ db.mappings \in Nat
        BY <1>1 DEF Database
      <4>2. /\ EvidenceOf(t) = [connection |-> t.connection, mappings |-> t.mappings]
            /\ t.connection >= db.connection /\ t.mappings >= db.mappings
        BY <1>1, <4>1 DEF EvidenceOf, Database
      <4>3. t.connection >= v.connection /\ t.mappings >= v.mappings
        BY <1>1, <4>1 DEF Nothing, Database
      <4> QED BY <4>2, <4>3 DEF Covers, EvidenceOf
    <3> QED BY <2>2, <3>1, <3>2, <3>3
  <2> QED BY <2>1, <2>2 DEF StartPlainRequest
<1>3. DOMAIN t = DOMAIN db /\ EvidenceOf(t) \in Evidence /\ EvidenceOf(db) \in Evidence /\ db.detected \in Evidence
  BY <1>1, DatabaseParts
<1>4. Transactions' /\ FallBehind(OpenClients, Changed(db, t)) /\ db' = t
  BY <1>1, <1>2, <1>3, WriteKeepsTransactions DEF Write
<1>5. \A c \in OpenClients' : c \in OpenClients /\ tx'[c].snap = tx[c].snap /\ tx[c].missed \subseteq tx'[c].missed
  BY <1>4 DEF FallBehind
<1>6. UNCHANGED <<expired, run, asked, faults>> /\ requests' \in 0..MaxRequests
  BY JobsAssumption DEF StartPlainRequest, JobsInv, JobsTypeOK
<1>7. /\ asking \in [PlainProducer -> [step: {"none", "reopen", "flag", "insert", "requeue"}, about: Evidence]]
      /\ asking'[p] = [step |-> step, about |-> v] /\ \A q \in PlainProducer \ {p} : asking'[q] = asking[q]
      /\ asking' \in [PlainProducer -> [step: {"none", "reopen", "flag", "insert", "requeue"}, about: Evidence]]
  BY <1>2 DEF JobsInv, JobsTypeOK
<1>8. JobsTypeOK'
  BY <1>2, <1>4, <1>6, <1>7 DEF JobsInv, JobsTypeOK, Transactions, Database
<1>9. OpenRuns' /\ TokensDiffer'
  BY <1>4, <1>5, <1>6 DEF JobsInv, OpenRuns, TokensDiffer, FallBehind
<1>10. \A u \in Evidence : Covers(EvidenceOf(db), u) => Covers(EvidenceOf(t), u)
  BY <1>2, <1>3, CoversFacts
<1>11. EvidenceLeads'
  <2>1. \A c \in OpenClients : EvidenceOf(tx[c].snap) \in Evidence
    BY JobsFacts, DatabaseParts
  <2>2. Covers(EvidenceOf(t), asked) /\ Covers(EvidenceOf(t), db.detected)
    BY <1>1, <1>3, <1>10 DEF JobsInv, EvidenceLeads
  <2>3. \A q \in PlainProducer : Covers(EvidenceOf(t), asking'[q].about)
    BY <1>2, <1>7, <1>10 DEF JobsInv, EvidenceLeads
  <2>4. \A c \in OpenClients : Covers(EvidenceOf(t), EvidenceOf(tx[c].snap))
    BY <1>10, <2>1 DEF JobsInv, EvidenceLeads
  <2> QED BY <1>2, <1>4, <1>5, <1>6, <2>2, <2>3, <2>4 DEF JobsInv, EvidenceLeads
<1>12. \A u : Remembered(u) => Remembered(u)'
  <2>1. \A u, w : w \in Worker /\ Unread(w, u)' => Unread(w, u)
    BY <1>2, <1>4, <1>6, MoreIsUnread
  <2> QED BY <1>2, <1>4, <1>6, <2>1 DEF Remembered, Leased
<1>13. RequestsRemembered'
  BY <1>2, <1>6, <1>7, <1>12, RememberedNext DEF JobsInv, RequestsRemembered
<1> QED BY <1>4, <1>8, <1>9, <1>11, <1>13 DEF JobsInv, Transactions

\* A commit makes a database of two.
LEMMA CommittedDatabase ==
  ASSUME JobsInv, NEW c \in OpenClients, NEW t \in Database, NEW touched \in SUBSET DOMAIN db,
         CommitTouching(c, t, touched)
  PROVE  /\ Transactions' /\ db' \in Database
         /\ Committed(c, t, touched \cup Changed(tx[c].snap, t))
<1>1. Transactions /\ db \in Database /\ tx[c].snap \in Database
  BY JobsFacts
<1>2. DOMAIN t = DOMAIN db
  BY <1>1, DatabaseParts
<1>3. Transactions' /\ Committed(c, t, touched \cup Changed(tx[c].snap, t))
  BY <1>1, <1>2, CommitTouchingKeepsTransactions
<1>4. db' \in Database
  <2> DEFINE W == touched \cup Changed(tx[c].snap, t)
  <2>1. db' = [d \in DOMAIN db |-> IF d \in W THEN t[d] ELSE db[d]]
    BY DEF CommitTouching
  <2> HIDE DEF W
  <2>2. DOMAIN db = {"job", "connection", "mappings", "detected"}
    BY <1>1, DatabaseParts
  <2>3. /\ (IF "job" \in W THEN t.job ELSE db.job) \in Job
        /\ (IF "connection" \in W THEN t.connection ELSE db.connection) \in Nat
        /\ (IF "mappings" \in W THEN t.mappings ELSE db.mappings) \in Nat
        /\ (IF "detected" \in W THEN t.detected ELSE db.detected) \in Evidence
    BY <1>1, DatabaseParts
  <2>4. db' = [job |-> IF "job" \in W THEN t.job ELSE db.job,
               connection |-> IF "connection" \in W THEN t.connection ELSE db.connection,
               mappings |-> IF "mappings" \in W THEN t.mappings ELSE db.mappings,
               detected |-> IF "detected" \in W THEN t.detected ELSE db.detected]
    BY <2>1, <2>2
  <2> QED BY <2>3, <2>4 DEF Database
<1> QED BY <1>3, <1>4

\* What a request in a transaction makes of its snapshot.
Requested(s, j) == [s EXCEPT !.connection = @ + 1, !.job = j]

\* A committed request sets the job, moves the connection and leaves the evidence alone.
LEMMA RequestedFields ==
  ASSUME NEW s \in Database, NEW j \in Job
  PROVE  /\ Requested(s, j) \in Database /\ Requested(s, j).job = j
         /\ Requested(s, j).connection = s.connection + 1
         /\ Requested(s, j).mappings = s.mappings /\ Requested(s, j).detected = s.detected
<1>1. DOMAIN s = {"job", "connection", "mappings", "detected"} /\ s.connection + 1 \in Nat
      /\ s.mappings \in Nat /\ s.detected \in Evidence
  BY DatabaseParts
<1>2. Requested(s, j).job = j /\ Requested(s, j).connection = s.connection + 1
  BY <1>1 DEF Requested
<1>3. Requested(s, j).mappings = s.mappings /\ Requested(s, j).detected = s.detected
  BY <1>1 DEF Requested
<1>4. Requested(s, j) \in Database
  BY <1>1 DEF Requested, Database
<1> QED BY <1>2, <1>3, <1>4

\* A request in a transaction: the evidence and the job change together, so
\* that every run that did not see them has missed the job.
LEMMA CommitRequestKeepsJobs ==
  ASSUME JobsInv, NEW p \in TxProducer, CommitRequest(p) PROVE JobsInv'
<1> DEFINE s == tx[p].snap
           j == IF tx[p].req.by = "job" THEN Enqueued(s.job) ELSE Requeued(s.job)
           t == Requested(s, j)
           W == {"job"} \cup Changed(s, t)
           u == [Nothing EXCEPT !.connection = db'.connection]
<1>1. /\ Transactions /\ db \in Database /\ s \in Database /\ p \in OpenClients /\ p \notin Worker
      /\ run \in [Worker -> Run] /\ asked \in Evidence
  BY JobsFacts, JobsAssumption DEF CommitRequest
<1>2. /\ s.job \in Job /\ s.connection \in Nat /\ DOMAIN s = DOMAIN db
      /\ DOMAIN db = {"job", "connection", "mappings", "detected"}
  BY <1>1, DatabaseParts
<1>3. j \in Job /\ (j.status = "running" => j.rerun)
  BY <1>2, UpdatesOfTheJob
<1> HIDE DEF j
<1>4. t \in Database /\ t.job = j /\ t.connection = s.connection + 1 /\ t.mappings = s.mappings /\ t.detected = s.detected
  BY <1>1, <1>3, RequestedFields
<1>5. CommitTouching(p, t, {"job"}) /\ UNCHANGED <<expired, run, asking, requests, faults>> /\ asked' = Joined(asked, u)
  BY DEF CommitRequest, Requested, j
<1>6. "job" \in W /\ "connection" \in W /\ "mappings" \notin W /\ "detected" \notin W
  <2>1. t.connection # s.connection
    BY <1>2, <1>4
  <2> HIDE DEF t, s
  <2> QED BY <1>2, <1>4, <2>1 DEF Changed
<1>7. Transactions' /\ db' \in Database /\ Committed(p, t, W)
  BY <1>1, <1>2, <1>4, <1>5, CommittedDatabase
<1> HIDE DEF W, t
<1>8. /\ db'.job = j /\ db'.detected = db.detected
      /\ db'.mappings = db.mappings /\ db'.connection = db.connection + 1
  BY <1>2, <1>4, <1>6, <1>7 DEF Committed
<1>9. \A c \in OpenClients' : /\ c \in OpenClients /\ tx'[c].snap = tx[c].snap /\ "job" \in tx'[c].missed
  BY <1>6, <1>7 DEF Committed, FallBehind
<1>10. OpenClients' = OpenClients \ {p}
  BY <1>7 DEF Committed, FallBehind
<1>11. /\ u \in Evidence /\ asked' \in Evidence /\ Covers(EvidenceOf(db'), u)
       /\ Covers(EvidenceOf(db'), EvidenceOf(db)) /\ EvidenceOf(db) \in Evidence /\ EvidenceOf(db') \in Evidence
  <2>1. db'.connection \in Nat /\ db'.mappings \in Nat /\ db.connection \in Nat
    BY <1>1, <1>7, DatabaseParts
  <2>2. u \in Evidence /\ u.connection = db'.connection /\ u.mappings = 0
    BY <2>1 DEF Evidence, Nothing
  <2>3. asked' \in Evidence
    BY <1>1, <1>5, <2>2, CoversFacts
  <2> HIDE DEF u
  <2>4. Covers(EvidenceOf(db'), u) /\ Covers(EvidenceOf(db'), EvidenceOf(db))
    BY <1>8, <2>1, <2>2 DEF Covers, EvidenceOf
  <2> QED BY <1>1, <1>7, <2>2, <2>3, <2>4, DatabaseParts
<1> HIDE DEF u
<1>12. JobsTypeOK'
  BY <1>5, <1>7, <1>11 DEF JobsInv, JobsTypeOK, Transactions, Database
<1>13. OpenRuns' /\ TokensDiffer'
  BY <1>1, <1>5, <1>9, <1>10 DEF JobsInv, OpenRuns, TokensDiffer
<1>14. EvidenceLeads'
  <2>1. \A x \in Evidence : Covers(EvidenceOf(db), x) => Covers(EvidenceOf(db'), x)
    BY <1>11, CoversFacts
  <2>2. Covers(EvidenceOf(db'), Joined(asked, u))
    <3>1. Covers(EvidenceOf(db'), asked)
      BY <1>1, <2>1 DEF JobsInv, EvidenceLeads
    <3> QED BY <1>1, <1>11, <3>1, CoversFacts
  <2>3. Covers(EvidenceOf(db'), db.detected)
    BY <1>1, <2>1, DatabaseParts DEF JobsInv, EvidenceLeads
  <2>4. \A q \in PlainProducer : Covers(EvidenceOf(db'), asking[q].about)
    BY <2>1 DEF JobsInv, JobsTypeOK, EvidenceLeads
  <2>5. \A c \in OpenClients : Covers(EvidenceOf(db'), EvidenceOf(tx[c].snap))
    BY <2>1, JobsFacts, DatabaseParts DEF JobsInv, EvidenceLeads
  <2> QED BY <1>5, <1>8, <1>9, <2>2, <2>3, <2>4, <2>5 DEF EvidenceLeads
<1>15. RequestsRemembered'
  <2>1. \A v : Remembered(v)'
    BY <1>3, <1>8, FlaggedRemembers
  <2> QED BY <2>1, RememberedNext DEF RequestsRemembered
<1> QED BY <1>7, <1>12, <1>13, <1>14, <1>15 DEF JobsInv, Transactions

\* What a committed run stores: all that it read, under a lease that is still its own.
LEMMA DetectionStored ==
  ASSUME JobsInv, NEW w \in Worker, CommitDetect(w)
  PROVE  /\ Transactions' /\ db' \in Database /\ w \in OpenClients /\ OpenClients' = OpenClients \ {w}
         /\ db'.job = db.job /\ EvidenceOf(db') = EvidenceOf(db)
         /\ db'.detected = EvidenceOf(tx[w].snap) /\ tx[w].snap.connection = db.connection
         /\ "job" \notin tx[w].missed /\ Leased(db.job, w)
         /\ \A c \in OpenClients' : tx'[c].snap = tx[c].snap /\ "job" \in tx'[c].missed
<1> DEFINE s == tx[w].snap
           t == [s EXCEPT !.detected = EvidenceOf(s)]
           W == FencedDocs \cup Changed(s, t)
<1>1. w \in OpenClients
  BY DEF CommitDetect, JobsInv, OpenRuns
<1>2. Transactions /\ db \in Database /\ s \in Database
  BY <1>1, JobsFacts
<1>3. DOMAIN s = DOMAIN db /\ DOMAIN db = {"job", "connection", "mappings", "detected"} /\ EvidenceOf(s) \in Evidence
  BY <1>2, DatabaseParts
<1>4. /\ t \in Database /\ t.detected = EvidenceOf(s)
      /\ t.job = s.job /\ t.connection = s.connection /\ t.mappings = s.mappings
  BY <1>2, <1>3 DEF Database
<1>5. FencedDocs \in SUBSET DOMAIN db /\ "job" \in W /\ "connection" \in W
  BY <1>3 DEF FencedDocs
<1>6. "mappings" \notin W
  BY <1>3, <1>4 DEF FencedDocs, Changed
<1>7. Transactions' /\ db' \in Database /\ Committed(w, t, W)
  BY <1>1, <1>4, <1>5, CommittedDatabase DEF CommitDetect
<1>8. "detected" \notin W => s.detected = EvidenceOf(s)
  BY <1>3, <1>4 DEF Changed
<1> HIDE DEF W, t
<1>9. /\ "job" \notin tx[w].missed /\ s.job = db.job /\ s.connection = db.connection
      /\ db'.job = db.job /\ db'.connection = db.connection /\ db'.mappings = db.mappings
  BY <1>3, <1>4, <1>5, <1>6, <1>7 DEF Committed
<1>10. db'.detected = EvidenceOf(s)
  <2>1. s.detected = db.detected
    BY <1>1, <1>9 DEF JobsInv, EvidenceLeads
  <2> QED BY <1>3, <1>4, <1>7, <1>8, <2>1 DEF Committed
<1>11. /\ OpenClients' = OpenClients \ {w}
       /\ \A c \in OpenClients' : tx'[c].snap = tx[c].snap /\ "job" \in tx'[c].missed
  BY <1>5, <1>7 DEF Committed, FallBehind
<1>12. Leased(db.job, w)
  BY <1>9 DEF CommitDetect
<1> QED BY <1>1, <1>7, <1>9, <1>10, <1>11, <1>12 DEF EvidenceOf

\* So a committed run keeps the invariant: whatever it did not read is flagged.
LEMMA CommitDetectKeepsJobs ==
  ASSUME JobsInv, NEW w \in Worker, CommitDetect(w) PROVE JobsInv'
<1> DEFINE read == EvidenceOf(tx[w].snap)
<1>1. /\ Transactions' /\ db' \in Database /\ w \in OpenClients /\ OpenClients' = OpenClients \ {w}
      /\ db'.job = db.job /\ EvidenceOf(db') = EvidenceOf(db) /\ db'.detected = read
      /\ "job" \notin tx[w].missed /\ Leased(db.job, w)
      /\ \A c \in OpenClients' : tx'[c].snap = tx[c].snap /\ "job" \in tx'[c].missed
  BY DetectionStored
<1>2. /\ run \in [Worker -> Run] /\ run[w].pc = "detecting" /\ run' = [run EXCEPT ![w].pc = "check"]
      /\ UNCHANGED <<asking, asked, requests, faults>> /\ expired' = FALSE
  BY JobsFacts DEF CommitDetect
<1>3. /\ run' \in [Worker -> Run] /\ \A v \in Worker \ {w} : run'[v] = run[v]
      /\ run'[w].pc = "check" /\ run'[w].token = run[w].token
  BY <1>2 DEF Run
<1>4. JobsTypeOK'
  BY <1>1, <1>2, <1>3 DEF JobsInv, JobsTypeOK, Transactions, Database
<1>5. OpenRuns'
  BY <1>1, <1>3 DEF JobsInv, OpenRuns
<1>6. TokensDiffer'
  <2>1. \A v \in Worker : run'[v].token = run[v].token /\ (run'[v].pc = "idle" <=> run[v].pc = "idle")
    BY <1>2, <1>3
  <2> QED BY <2>1 DEF JobsInv, TokensDiffer
<1>7. EvidenceLeads'
  BY <1>1, <1>2 DEF JobsInv, EvidenceLeads
<1>8. \A v : Remembered(v) => Remembered(v)'
  <2> SUFFICES ASSUME NEW v, Remembered(v), NEW u \in Worker, Leased(db.job, u)', Unread(u, v)'
               PROVE  db.job.rerun
    BY <1>1 DEF Remembered
  <2>1. u = w
    <3>1. run'[u].pc = "check" /\ run'[u].token = db.job.token /\ run[w].token = db.job.token
      BY <1>1 DEF Unread, Leased
    <3> QED BY <1>2, <1>3, <3>1 DEF JobsInv, TokensDiffer
  <2>2. Unread(w, v)
    BY <1>1, <2>1 DEF Unread
  <2> QED BY <1>1, <2>2 DEF Remembered
<1>9. RequestsRemembered'
  BY <1>2, <1>8, RememberedNext DEF JobsInv, RequestsRemembered
<1> QED BY <1>1, <1>4, <1>5, <1>6, <1>7, <1>9 DEF JobsInv, Transactions

(***************************************************************************)
(* The theorems                                                            *)
(***************************************************************************)
LEMMA JobsStart == JobsInit => JobsInv
<1> SUFFICES ASSUME JobsInit PROVE JobsInv
  OBVIOUS
<1>1. OpenClients = {} /\ \A w \in Worker : run[w] = NoRun
  BY DEF JobsInit, OpenClients
<1>2. \A p \in PlainProducer : asking[p] = NotAsking
  BY DEF JobsInit
<1>3. db.detected = Nothing /\ EvidenceOf(db) = Nothing /\ asked = Nothing /\ db.job.status = "absent"
  BY DEF JobsInit, EvidenceOf, Nothing
<1>4. Covers(Nothing, Nothing) /\ Nothing \in Evidence
  BY CoversFacts
<1>5. JobsTypeOK
  <2>1. asking \in [PlainProducer -> [step: {"none", "reopen", "flag", "insert", "requeue"}, about: Evidence]]
    BY <1>4 DEF JobsInit, NotAsking
  <2>2. run \in [Worker -> Run]
    BY DEF JobsInit, NoRun, Run
  <2>3. db \in [job: Job, connection: Nat, mappings: Nat, detected: Evidence]
    BY <1>4 DEF JobsInit, Job
  <2>4. SnapshotShape
    BY <1>1 DEF SnapshotShape
  <2>5. expired \in BOOLEAN /\ asked \in Evidence /\ requests \in 0..MaxRequests /\ faults \in 0..MaxFaults
    <3>1. expired = FALSE /\ asked = Nothing /\ requests = 0 /\ faults = 0
      BY DEF JobsInit
    <3>2. 0 \in 0..MaxRequests /\ 0 \in 0..MaxFaults
      BY JobsAssumption
    <3> QED BY <1>4, <3>1, <3>2
  <2> QED BY <2>1, <2>2, <2>3, <2>4, <2>5 DEF JobsTypeOK
<1>6. SnapshotsAreCurrent /\ OpenRuns /\ TokensDiffer
  <2>1. NoRun.pc = "idle" /\ NoRun.token = 0
    BY DEF NoRun
  <2>2. SnapshotsAreCurrent
    BY <1>1 DEF SnapshotsAreCurrent
  <2>3. OpenRuns /\ TokensDiffer
    BY <1>1, <2>1 DEF OpenRuns, TokensDiffer
  <2> QED BY <2>2, <2>3
<1>7. EvidenceLeads
  BY <1>1, <1>2, <1>3, <1>4 DEF EvidenceLeads, NotAsking
<1>8. RequestsRemembered
  BY <1>2, <1>3 DEF RequestsRemembered, Remembered, Leased, NotAsking
<1> QED BY <1>5, <1>6, <1>7, <1>8 DEF JobsInv

\* A step that changes nothing keeps the invariant.
LEMMA StutteringKeepsJobs == JobsInv /\ UNCHANGED jobVars => JobsInv'
BY DEF jobVars, JobsInv, JobsTypeOK, SnapshotShape, SnapshotsAreCurrent, OpenRuns, TokensDiffer, EvidenceLeads,
       RequestsRemembered, Remembered, Unread, Leased, OpenClients

\* Every step, and stuttering, keeps the invariant.
LEMMA StepsKeepJobs == JobsInv /\ [JobsNext]_jobVars => JobsInv'
<1> SUFFICES ASSUME JobsInv, [JobsNext]_jobVars PROVE JobsInv'
  OBVIOUS
<1>1. ASSUME NEW w \in Worker, WorkerStep(w) \/ FailDetect(w) \/ Crash(w) PROVE JobsInv'
  BY <1>1, AcquireKeepsJobs, BeginningsKeepJobs, CommitDetectKeepsJobs, LeavesKeepJobs, ClosingKeepsJobs DEF WorkerStep
<1>2. ASSUME NEW p \in TxProducer, StartRequest(p) \/ CommitRequest(p) \/ RetryRequest(p) PROVE JobsInv'
  BY <1>2, BeginningsKeepJobs, CommitRequestKeepsJobs
<1>3. ASSUME NEW p \in PlainProducer,
             StartPlainRequest(p) \/ PlainReopen(p) \/ PlainFlag(p) \/ PlainInsert(p) \/ PlainRequeue(p)
      PROVE  JobsInv'
  BY <1>3, StartPlainRequestKeepsJobs, PlainUpdatesKeepJobs
<1>4. CASE UNCHANGED jobVars
  BY <1>4, StutteringKeepsJobs
<1> QED BY <1>1, <1>2, <1>3, <1>4, ExpireKeepsJobs DEF JobsNext

\* The job, the runs, the requests and what every transaction saw have their types.
THEOREM JobsAreTyped == JobsSpec => []JobsTypeOK
<1>1. JobsInv => JobsTypeOK
  BY DEF JobsInv
<1> QED BY <1>1, JobsStart, StepsKeepJobs, PTL DEF JobsSpec

\* Until the worker looks for the flag, no request is lost: whatever the run
\* did not read, the flag knows (enqueueJob, detectJob).
THEOREM RequestsAreFlagged == JobsSpec => []FlaggedUntilChecked
<1>1. JobsInv => FlaggedUntilChecked
  BY DEF JobsInv, RequestsRemembered, Remembered, Unread, FlaggedUntilChecked
<1> QED BY <1>1, JobsStart, StepsKeepJobs, PTL DEF JobsSpec

\* What a step does to the stored detections and to the end of the job.
LEMMA WhoWrites ==
  ASSUME JobsInv, JobsNext
  PROVE  \/ \E w \in Worker : CommitDetect(w)
         \/ /\ db'.detected = db.detected
            /\ \/ \E w \in Worker : Rerun(w) \/ Complete(w) \/ Failed(w)
               \/ db'.job.status = "done" => db.job.status = "done"
<1>1. db \in Database /\ db.job \in Job
  BY JobsFacts, DatabaseParts
<1>2. CASE UNCHANGED db
  BY <1>2
<1>3. CASE \E w \in Worker : CommitDetect(w)
  BY <1>3
<1>4. ASSUME NEW w \in Worker, Rerun(w) \/ Complete(w) \/ Failed(w) PROVE db'.detected = db.detected
  BY <1>1, <1>4 DEF Rerun, Complete, Failed, Close, Write, Database
<1>5. ASSUME NEW w \in Worker, Acquire(w) PROVE db'.detected = db.detected /\ db'.job.status # "done"
  BY <1>1, <1>5 DEF Acquire, Write, Database, Job
<1>6. ASSUME NEW p \in PlainProducer, StartPlainRequest(p) PROVE db'.detected = db.detected /\ db'.job = db.job
  BY <1>1, <1>6 DEF StartPlainRequest, Write, Database
<1>7. ASSUME NEW p \in PlainProducer, PlainReopen(p) \/ PlainFlag(p) \/ PlainInsert(p) \/ PlainRequeue(p)
      PROVE  db'.detected = db.detected /\ (db'.job.status = "done" => db.job.status = "done")
  <2>1. PICK j \in Job : db' = [db EXCEPT !.job = j] /\ (j.status = "done" => db.job.status = "done")
    BY <1>1, <1>7, UpdatesOfTheJob DEF PlainReopen, PlainFlag, PlainInsert, PlainRequeue, PlainUpdate, WriteTouching
  <2> QED BY <1>1, <2>1 DEF Database
<1>8. ASSUME NEW p \in TxProducer, CommitRequest(p)
      PROVE  db'.detected = db.detected /\ db'.job.status # "done"
  <2> DEFINE s == tx[p].snap
             j == IF tx[p].req.by = "job" THEN Enqueued(s.job) ELSE Requeued(s.job)
  <2>1. /\ s \in Database /\ p \in OpenClients /\ Transactions /\ s.job \in Job
        /\ DOMAIN s = DOMAIN db /\ DOMAIN db = {"job", "connection", "mappings", "detected"}
    BY <1>1, <1>8, JobsFacts, DatabaseParts DEF CommitRequest
  <2>2. j \in Job /\ j.status # "done"
    BY <2>1, UpdatesOfTheJob
  <2>3. CommitTouching(p, Requested(s, j), {"job"})
    BY <1>8 DEF CommitRequest, Requested
  <2> HIDE DEF j, s
  <2>4. Requested(s, j) \in Database /\ Requested(s, j).job = j /\ Requested(s, j).detected = s.detected
    BY <2>1, <2>2, RequestedFields
  <2>5. Committed(p, Requested(s, j), {"job"} \cup Changed(s, Requested(s, j)))
    BY <2>1, <2>3, <2>4, CommittedDatabase DEF s
  <2>6. db'.job = j
    BY <2>1, <2>4, <2>5 DEF Committed
  <2>7. db'.detected = db.detected
    BY <2>1, <2>4, <2>5 DEF Committed, Changed
  <2> QED BY <2>2, <2>6, <2>7
<1>9. CASE \E w \in Worker : StartDetect(w) \/ RetryDetect(w) \/ FailDetect(w) \/ Crash(w) \/ LoseLease(w) \/ NoRerun(w)
  BY <1>2, <1>9 DEF StartDetect, RetryDetect, FailDetect, Crash, LoseLease, NoRerun, Begin, Retry
<1>10. CASE Expire \/ \E p \in TxProducer : StartRequest(p) \/ RetryRequest(p)
  BY <1>2, <1>10 DEF Expire, StartRequest, RetryRequest, Begin, Retry
<1> QED BY <1>3, <1>4, <1>5, <1>6, <1>7, <1>8, <1>9, <1>10 DEF JobsNext, WorkerStep

\* A worker whose lease was taken over, or whose job an owner put back in line,
\* neither stores detections nor closes the successor's run (the fences of
\* detectJob and of runWorkerOnce).
THEOREM HoldersWrite == JobsSpec => OnlyTheHolderWrites
<1> DEFINE A == db'.detected # db.detected \/ (db.job.status # "done" /\ db'.job.status = "done")
                => \E w \in Worker : Leased(db.job, w) /\ run[w].pc # "idle" /\ run'[w] # run[w]
<1>1. ASSUME JobsInv, [JobsNext]_jobVars PROVE [A]_jobVars
  <2>1. ASSUME NEW w \in Worker, CommitDetect(w) PROVE A
    <3>1. Leased(db.job, w)
      BY <1>1, <2>1, DetectionStored
    <3>2. run[w].pc = "detecting" /\ run'[w].pc = "check"
      BY <1>1, <2>1, JobsFacts DEF CommitDetect
    <3> QED BY <3>1, <3>2
  <2>2. ASSUME NEW w \in Worker, Rerun(w) \/ Complete(w) \/ Failed(w) PROVE A
    <3>1. Leased(db.job, w) /\ run[w].pc # "idle" /\ run'[w] = NoRun
      BY <1>1, <2>2, JobsFacts DEF Rerun, Complete, Failed, Close
    <3>2. NoRun.pc = "idle"
      BY DEF NoRun
    <3> QED BY <3>1, <3>2
  <2> QED BY <1>1, <2>1, <2>2, WhoWrites
<1>2. OnlyTheHolderWrites <=> [][A]_jobVars
  BY DEF OnlyTheHolderWrites
<1> QED BY <1>1, <1>2, JobsStart, StepsKeepJobs, PTL DEF JobsSpec

\* Detections are never stored from a connection that has meanwhile changed
\* (reconcileConnection's fence), nor do they go back to older mappings.
THEOREM DetectionsStayCurrent == JobsSpec => DetectionsAreCurrent
<1> DEFINE A == db'.detected # db.detected =>
                  db'.detected.connection = db.connection /\ Covers(db'.detected, db.detected)
<1>1. ASSUME JobsInv, [JobsNext]_jobVars PROVE [A]_jobVars
  <2>1. ASSUME NEW w \in Worker, CommitDetect(w) PROVE A
    <3>1. /\ db'.detected = EvidenceOf(tx[w].snap) /\ tx[w].snap.connection = db.connection
          /\ "job" \notin tx[w].missed /\ w \in OpenClients
      BY <1>1, <2>1, DetectionStored
    <3>2. Covers(EvidenceOf(tx[w].snap), db.detected)
      BY <1>1, <3>1 DEF JobsInv, EvidenceLeads
    <3> QED BY <3>1, <3>2 DEF EvidenceOf
  <2> QED BY <1>1, <2>1, WhoWrites
<1>2. DetectionsAreCurrent <=> [][A]_jobVars
  BY DEF DetectionsAreCurrent
<1> QED BY <1>1, <1>2, JobsStart, StepsKeepJobs, PTL DEF JobsSpec

(***************************************************************************)
(* SyncWindows: the invariant                                              *)
(***************************************************************************)
Progress == [from : Int, to : Int, page : Nat, total : Int]
PassRecord ==
  [listed : SUBSET Scrobble, removed : SUBSET Scrobble, asked : SUBSET Scrobble, slipped : BOOLEAN]
WorkerRecord ==
  [pc : {"idle", "gap", "check", "cut", "fetch", "answered", "stored", "finish", "close"},
   rows : SUBSET Scrobble, total : Int, pages : Nat]
SyncTypes ==
  /\ now \in 0 .. EndOfTime /\ failures \in Nat
  /\ listed \in SUBSET Scrobble /\ captured \in SUBSET Scrobble /\ lapsed \in SUBSET Scrobble
  /\ removed \in SUBSET Scrobble
  /\ connection \in [completed : Int, gap : [from : Int, to : Int]]
  /\ job \in [Kind -> [status : {"pending", "running", "done"}, progress : Progress]]
  /\ worker \in [Kind -> WorkerRecord]
  /\ pass \in [Kind -> PassRecord]

\* What was played so far is listed or was removed, unless it turns up late.
ListIsKnown ==
  /\ listed \cap removed = {}
  /\ \A s \in listed \cup removed : PlayedAt[s] <= now
  /\ \A s \in Prompt : PlayedAt[s] <= now => s \in listed \cup removed

\* What a job must still store of its window, and where in the provider's list it is.
Stored == captured \cup lapsed
Wanted(k) == { s \in pass[k].listed \ removed : PlayedAt[s] >= job[k].progress.from }
Rank(k, s) == Cardinality(Newer(InWindow(job[k].progress), s))

\* All that is wanted is stored, or n pages down the list at least.
Reached(k, n) == \A s \in Wanted(k) : s \in Stored \/ Rank(k, s) >= n * PageSize
\* No page that is still to be fetched is too late, as long as nothing was removed since
\* the last page that was saved. When something was, the number of pages tells.
OnTrack(k) == pass[k].slipped \/ pass[k].removed # removed \/ Reached(k, job[k].progress.page - 1)
\* The page the worker holds has what is wanted of it, and the last page leaves nothing.
Fetched(k, rows, total) ==
  \A s \in Wanted(k) :
    \/ s \in Stored \cup rows
    \/ /\ job[k].progress.page < total
       /\ pass[k].asked # removed \/ Rank(k, s) >= job[k].progress.page * PageSize
WindowIsFixed(k) ==
  /\ job[k].progress.page >= 1 /\ (job[k].progress.page > 1 => job[k].progress.total >= 0)
  /\ job[k].progress.to <= now
  /\ pass[k].listed \subseteq listed \cup removed
  /\ \A s \in pass[k].listed : PlayedAt[s] <= job[k].progress.to
  /\ pass[k].removed \subseteq removed /\ pass[k].asked \subseteq removed
  /\ pass[k].slipped => removed # {}
InHand(k) ==
  /\ worker[k].pc # "idle" => job[k].status = "running" /\ HasWindow(job[k].progress)
  /\ job[k].status = "done" => job[k].progress = NoProgress
  /\ worker[k].pc \in {"gap", "check", "cut"} => k = "sync"
  /\ worker[k].pc \in {"answered", "stored"} => worker[k].total >= 0
Track(k) ==
  /\ OnTrack(k)
  /\ worker[k].pc = "answered" =>
       \/ pass[k].slipped \/ PagesChanged(job[k].progress, worker[k].total)
       \/ Fetched(k, worker[k].rows, worker[k].total)
  /\ worker[k].pc = "stored" => pass[k].slipped \/ Fetched(k, {}, worker[k].total)
  /\ worker[k].pc \in {"finish", "close"} => pass[k].slipped \/ Wanted(k) \subseteq Stored
JobIsOnTrack(k) == InHand(k) /\ (HasWindow(job[k].progress) => WindowIsFixed(k) /\ Track(k))
SyncTracks == \A k \in Kind : JobIsOnTrack(k)

\* The window of a sync starts no later than where the last one ended or the gap does,
\* unless its gap is still to be recorded; then no worker gets as far as its pages.
From == job["sync"].progress.from
Cursor == Later(connection.completed, ConnectedAt)
StartIsKnown ==
  /\ From >= ConnectedAt
  /\ \A s \in Prompt : removed = {} /\ PlayedAt[s] <= job["sync"].progress.to =>
       s \in pass["sync"].listed \/ PlayedAt[s] < From
  /\ \/ From <= connection.gap.to \/ From <= Cursor
     \/ From <= Horizon /\ worker["sync"].pc \in {"idle", "gap", "cut"}
  /\ worker["sync"].pc = "gap" =>
       /\ connection.gap.to <= From /\ From = Later(HorizonWhenOpened, ConnectedAt)
       /\ HorizonWhenOpened <= Horizon
  /\ worker["sync"].pc = "cut" => From <= connection.gap.to
GapIsKnown ==
  /\ -1 <= connection.completed /\ connection.completed <= now
  /\ connection.gap.to <= Later(Horizon, ConnectedAt)
  /\ MissedMeansHeld
  /\ HasWindow(job["sync"].progress) => StartIsKnown
WindowsInv == SyncTypes /\ ListIsKnown /\ SyncTracks /\ GapIsKnown

\* What any step leaves of the list and of what is stored.
ListMovesOn ==
  /\ now <= now' /\ removed \subseteq removed' /\ listed \cup removed \subseteq (listed \cup removed)'
  /\ removed' = removed => listed \subseteq listed'
  /\ Stored \subseteq Stored'

\* A longer list has no fewer scrobbles that are newer than a given one.
LEMMA NewerGrows ==
  ASSUME NEW S \in SUBSET Scrobble, NEW T \in SUBSET Scrobble, S \subseteq T, NEW s
  PROVE  /\ Cardinality(Newer(S, s)) \in Nat /\ Cardinality(Newer(T, s)) \in Nat
         /\ Cardinality(Newer(S, s)) <= Cardinality(Newer(T, s))
<1>1. Newer(S, s) \subseteq Newer(T, s) /\ Newer(T, s) \subseteq Scrobble
  BY DEF Newer
<1>2. IsFiniteSet(Newer(T, s)) /\ IsFiniteSet(Newer(S, s))
  BY <1>1, SyncAssumption, FS_Subset DEF SyncAssumption
<1> QED BY <1>1, <1>2, FS_Subset, FS_CardinalityType

\* A scrobble of a list has fewer newer ones than the list is long.
LEMMA NewerAreFewer ==
  ASSUME NEW S \in SUBSET Scrobble, NEW s \in S
  PROVE  /\ Cardinality(S) \in Nat /\ Cardinality(Newer(S, s)) \in Nat
         /\ Cardinality(Newer(S, s)) < Cardinality(S)
<1>1. Newer(S, s) \subseteq S \ {s} /\ PlayedAt[s] \in Nat
  BY SyncAssumption DEF Newer, SyncAssumption
<1>2. IsFiniteSet(S)
  BY SyncAssumption, FS_Subset DEF SyncAssumption
<1>3. Cardinality(S) \in Nat /\ Cardinality(S \ {s}) = Cardinality(S) - 1
  BY <1>2, FS_CardinalityType, FS_RemoveElement
<1>4. IsFiniteSet(S \ {s})
  BY <1>2, FS_RemoveElement
<1> QED BY <1>1, <1>3, <1>4, FS_Subset, FS_CardinalityType

\* The pages of a list have room for all of it (totalPages of the provider).
LEMMA PagesSuffice ==
  ASSUME NEW S \in SUBSET Scrobble
  PROVE  TotalPages(S) \in Nat /\ Cardinality(S) <= TotalPages(S) * PageSize
<1>1. IsFiniteSet(S) /\ Cardinality(S) \in Nat
  BY SyncAssumption, FS_Subset, FS_CardinalityType DEF SyncAssumption
<1>2. PageSize \in Nat /\ PageSize > 0
  BY SyncAssumption DEF SyncAssumption
<1> DEFINE c == Cardinality(S)
<1>3. \A a, b \in Nat : b > 0 => (a + b - 1) \div b \in Nat /\ a <= ((a + b - 1) \div b) * b
  OBVIOUS
<1> QED BY <1>1, <1>2, <1>3 DEF TotalPages

\* Pages are of the same size: n of them end where the next begins.
LEMMA Products ==
  ASSUME NEW m \in Nat, NEW n \in Nat
  PROVE  /\ m * PageSize \in Nat
         /\ m <= n => m * PageSize <= n * PageSize
         /\ (m + 1) * PageSize = m * PageSize + PageSize
<1>1. PageSize \in Nat
  BY SyncAssumption DEF SyncAssumption
<1> QED BY <1>1

\* What any step but a job's own leaves of its window: more may be stored, and what is
\* still wanted of it moved to no earlier page, unless something was removed.
LEMMA WindowStays ==
  ASSUME SyncTypes, SyncTypes', ListMovesOn, NEW k \in Kind, WindowIsFixed(k),
         job'[k].progress = job[k].progress, pass'[k] = pass[k]
  PROVE  /\ WindowIsFixed(k)'
         /\ Wanted(k)' \subseteq Wanted(k)
         /\ removed' = removed => \A s \in Wanted(k)' : Rank(k, s) <= Rank(k, s)'
         /\ \A s : Rank(k, s) \in Nat /\ Rank(k, s)' \in Nat
<1> DEFINE p == job[k].progress
<1>1. /\ p \in Progress /\ pass[k] \in PassRecord /\ now \in Nat /\ now' \in Nat
      /\ listed \in SUBSET Scrobble /\ listed' \in SUBSET Scrobble
      /\ removed \in SUBSET Scrobble /\ removed' \in SUBSET Scrobble
  BY SyncAssumption DEF SyncTypes, SyncAssumption
<1>2. WindowIsFixed(k)'
  <2>1. p.page \in Nat /\ p.to \in Int /\ p.total \in Int
    BY <1>1 DEF Progress
  <2>2. pass[k].removed \in SUBSET Scrobble
    BY <1>1 DEF PassRecord
  <2>3. p.to <= now'
    BY <1>1, <2>1 DEF WindowIsFixed, ListMovesOn
  <2>4. (pass[k].slipped => removed' # {}) /\ pass[k].removed \subseteq removed' /\ pass[k].asked \subseteq removed'
        /\ pass[k].listed \subseteq listed' \cup removed'
    BY DEF WindowIsFixed, ListMovesOn
  <2> QED BY <2>3, <2>4 DEF WindowIsFixed
<1>3. Wanted(k)' \subseteq Wanted(k)
  BY DEF Wanted, ListMovesOn
<1>4. /\ InWindow(p) \in SUBSET Scrobble /\ InWindow(p)' \in SUBSET Scrobble
      /\ removed' = removed => InWindow(p) \subseteq InWindow(p)'
  BY <1>1 DEF InWindow, ListMovesOn
<1>5. \A s : Rank(k, s) = Cardinality(Newer(InWindow(p), s)) /\ Rank(k, s)' = Cardinality(Newer(InWindow(p)', s))
  BY DEF Rank, InWindow, Newer
<1>6. ASSUME NEW s
      PROVE  /\ Rank(k, s) \in Nat /\ Rank(k, s)' \in Nat
             /\ removed' = removed => Rank(k, s) <= Rank(k, s)'
  <2> HIDE DEF p
  <2> QED BY <1>4, <1>5, NewerGrows
<1> QED BY <1>2, <1>3, <1>6

\* Then the job is on track as before, and what it fetched is as good.
LEMMA TrackStays ==
  ASSUME SyncTypes, SyncTypes', ListMovesOn, NEW k \in Kind, WindowIsFixed(k),
         job'[k].progress = job[k].progress, pass'[k] = pass[k]
  PROVE  /\ OnTrack(k) => OnTrack(k)'
         /\ Wanted(k) \subseteq Stored => (Wanted(k) \subseteq Stored)'
         /\ \A rows, total : Fetched(k, rows, total) => Fetched(k, rows, total)'
<1> DEFINE p == job[k].progress
<1>1. p.page \in Nat /\ PageSize \in Nat /\ p.page >= 1
  BY SyncAssumption DEF SyncTypes, Progress, SyncAssumption, WindowIsFixed
<1>2. /\ removed \subseteq removed' /\ Stored \subseteq Stored'
      /\ pass[k].removed \subseteq removed /\ pass[k].asked \subseteq removed
  BY DEF ListMovesOn, WindowIsFixed
<1>3. ASSUME NEW n \in Nat, Reached(k, n), removed' = removed
      PROVE  Reached(k, n)'
  <2>1. n * PageSize \in Nat
    BY <1>3, Products
  <2> QED BY <1>2, <1>3, <2>1, WindowStays DEF Reached
<1>4. ASSUME OnTrack(k)
      PROVE  OnTrack(k)'
  <2> PICK n \in Nat : n = p.page - 1
    BY <1>1
  <2>1. CASE pass[k].slipped
    BY <2>1 DEF OnTrack
  <2>2. CASE pass[k].removed # removed'
    BY <2>2 DEF OnTrack
  <2>3. CASE ~pass[k].slipped /\ pass[k].removed = removed'
    <3>1. removed' = removed
      BY <1>2, <2>3
    <3>2. Reached(k, n)
      BY <1>4, <2>3, <3>1 DEF OnTrack
    <3>3. Reached(k, n)'
      BY <1>3, <3>1, <3>2
    <3>4. \A s \in Wanted(k)' : s \in Stored' \/ Rank(k, s)' >= n * PageSize
      BY <3>3 DEF Reached
    <3> QED BY <3>4 DEF OnTrack, Reached
  <2> QED BY <2>1, <2>2, <2>3
<1>5. ASSUME NEW rows, NEW total, Fetched(k, rows, total)
      PROVE  Fetched(k, rows, total)'
  <2>1. p.page * PageSize \in Nat
    BY <1>1, Products
  <2> SUFFICES ASSUME NEW s \in Wanted(k)'
               PROVE  \/ s \in Stored' \cup rows
                      \/ /\ p.page < total
                         /\ pass[k].asked # removed' \/ Rank(k, s)' >= p.page * PageSize
    BY DEF Fetched
  <2>2. s \in Wanted(k)
    BY WindowStays
  <2>3. CASE removed' = removed
    BY <1>2, <1>5, <2>1, <2>2, <2>3, WindowStays DEF Fetched
  <2>4. CASE removed' # removed
    BY <1>2, <1>5, <2>2, <2>4 DEF Fetched
  <2> QED BY <2>3, <2>4
<1> QED BY <1>2, <1>4, <1>5, WindowStays

\* A step that leaves a job alone.
LEMMA JobStays ==
  ASSUME SyncTypes, SyncTypes', ListMovesOn, NEW k \in Kind, JobIsOnTrack(k),
         job'[k] = job[k], pass'[k] = pass[k], worker'[k] = worker[k]
  PROVE  JobIsOnTrack(k)'
<1>1. InHand(k)'
  BY DEF JobIsOnTrack, InHand
<1>2. ASSUME HasWindow(job[k].progress)
      PROVE  WindowIsFixed(k)' /\ Track(k)'
  <2>1. WindowIsFixed(k) /\ Track(k)
    BY <1>2 DEF JobIsOnTrack
  <2>2. WindowIsFixed(k)'
    BY <2>1, WindowStays
  <2>3. /\ OnTrack(k)'
        /\ Wanted(k) \subseteq Stored => (Wanted(k) \subseteq Stored)'
        /\ \A rows, total : Fetched(k, rows, total) => Fetched(k, rows, total)'
    BY <2>1, TrackStays DEF Track
  <2>4. Track(k)'
    BY <2>1, <2>3 DEF Track
  <2> QED BY <2>2, <2>4
<1> QED BY <1>1, <1>2 DEF JobIsOnTrack, HasWindow

\* A step after which nobody holds the page of a job.
LEMMA JobWithoutPage ==
  ASSUME SyncTypes, SyncTypes', ListMovesOn, NEW k \in Kind, JobIsOnTrack(k), HasWindow(job[k].progress),
         job'[k].progress = job[k].progress, pass'[k] = pass[k],
         worker'[k].pc \in {"idle", "gap", "check", "cut", "fetch"}, InHand(k)'
  PROVE  JobIsOnTrack(k)'
<1>1. WindowIsFixed(k) /\ OnTrack(k)
  BY DEF JobIsOnTrack, Track
<1>2. WindowIsFixed(k)' /\ OnTrack(k)'
  BY <1>1, WindowStays, TrackStays
<1>3. Track(k)'
  BY <1>2 DEF Track
<1> QED BY <1>2, <1>3 DEF JobIsOnTrack

(***************************************************************************)
(* SyncWindows: the steps                                                  *)
(***************************************************************************)
ListStep == Tick \/ \E s \in Scrobble : Appear(s) \/ Unlist(s)
GapStep == RecordGap \/ StillKept \/ Cut \/ SaveCut
JobStep(k) ==
  \/ Schedule(k) \/ Stop(k) \/ FetchFails(k) \/ Work(k)
  \/ k = "sync" /\ GapStep
  \/ k = "sweep" /\ NothingToSweep
listVars == <<now, listed, removed>>

\* A step changes the provider's list or the time, or is one of a job.
LEMMA StepsOfSync == SyncNext => ListStep \/ \E k \in Kind : JobStep(k)
BY DEF SyncNext, SyncWork, SweepWork, ListStep, GapStep, JobStep, Kind

\* A record with some of its fields replaced has the type of the record.
LEMMA UpdatesAreTyped ==
  /\ \A p \in Progress, n \in Nat, a \in Int, b \in Int :
       /\ [p EXCEPT !.page = n, !.total = a] \in Progress
       /\ [p EXCEPT !.from = a, !.to = b] \in Progress
  /\ \A w \in WorkerRecord, pc \in {"idle", "gap", "check", "cut", "fetch", "answered", "stored", "finish", "close"} :
       /\ \A rows \in SUBSET Scrobble, total \in Int :
            [w EXCEPT !.pc = pc, !.rows = rows, !.total = total] \in WorkerRecord
       /\ \A n \in Nat : [w EXCEPT !.pages = n, !.pc = pc] \in WorkerRecord
  /\ \A p \in PassRecord, S \in SUBSET Scrobble, b \in BOOLEAN :
       [p EXCEPT !.asked = S, !.slipped = b] \in PassRecord
<1>1. ASSUME NEW p \in Progress, NEW n \in Nat, NEW a \in Int, NEW b \in Int
      PROVE  [p EXCEPT !.page = n, !.total = a] \in Progress /\ [p EXCEPT !.from = a, !.to = b] \in Progress
  BY DEF Progress
<1>2. ASSUME NEW w \in WorkerRecord,
             NEW pc \in {"idle", "gap", "check", "cut", "fetch", "answered", "stored", "finish", "close"}
      PROVE  /\ \A rows \in SUBSET Scrobble, total \in Int :
                  [w EXCEPT !.pc = pc, !.rows = rows, !.total = total] \in WorkerRecord
             /\ \A n \in Nat : [w EXCEPT !.pages = n, !.pc = pc] \in WorkerRecord
  <2>1. ASSUME NEW rows \in SUBSET Scrobble, NEW total \in Int
        PROVE  [w EXCEPT !.pc = pc, !.rows = rows, !.total = total] \in WorkerRecord
    BY DEF WorkerRecord
  <2>2. ASSUME NEW n \in Nat
        PROVE  [w EXCEPT !.pages = n, !.pc = pc] \in WorkerRecord
    BY DEF WorkerRecord
  <2> QED BY <2>1, <2>2
<1>3. ASSUME NEW p \in PassRecord, NEW S \in SUBSET Scrobble, NEW b \in BOOLEAN
      PROVE  [p EXCEPT !.asked = S, !.slipped = b] \in PassRecord
  BY DEF PassRecord
<1> QED BY <1>1, <1>2, <1>3

\* The window a job opens: up to now or up to completedThrough, from its first page, and
\* from no earlier than the connection.
LEMMA WindowsAreTyped ==
  ASSUME SyncTypes, NEW k \in Kind
  PROVE  /\ WindowOf(k) \in Progress /\ Horizon \in Int /\ Desired \in Int
         /\ WindowOf(k).page = 1 /\ WindowOf(k).total = -1
         /\ k = "sync" => WindowOf(k).from = Later(Later(Desired, ConnectedAt), Horizon) /\ WindowOf(k).to = now
         /\ k # "sync" => WindowOf(k).to = connection.completed
         /\ WindowOf(k).from >= ConnectedAt
<1>1. now \in Int /\ connection.completed \in Int /\ Retention \in Int /\ Overlap \in Int /\ Lookback \in Int
  BY SyncAssumption DEF SyncTypes, SyncAssumption
<1>2. Horizon \in Int /\ Desired \in Int /\ ConnectedAt \in Int /\ now - Lookback \in Int
  BY <1>1 DEF Horizon, Desired, ConnectedAt
<1>3. \A a, b \in Int : Later(a, b) \in Int
  BY DEF Later
<1>4. NoProgress \in Progress
  BY DEF NoProgress, Progress
<1>5. SyncWindow \in Progress /\ SweepWindow \in Progress
  BY <1>1, <1>2, <1>3, <1>4, UpdatesAreTyped DEF SyncWindow, SweepWindow
<1>6. ASSUME NEW a \in Int, NEW b \in Int
      PROVE  LET p == [NoProgress EXCEPT !.from = a, !.to = b]
             IN  p.page = 1 /\ p.total = -1 /\ p.from = a /\ p.to = b
  BY DEF NoProgress
<1>7. /\ SyncWindow.page = 1 /\ SyncWindow.total = -1 /\ SyncWindow.to = now
      /\ SyncWindow.from = Later(Later(Desired, ConnectedAt), Horizon)
  BY <1>1, <1>2, <1>3, <1>6 DEF SyncWindow
<1>8. /\ SweepWindow.page = 1 /\ SweepWindow.total = -1 /\ SweepWindow.to = connection.completed
      /\ SweepWindow.from = Later(Later(now - Lookback, ConnectedAt), Horizon)
  BY <1>1, <1>2, <1>3, <1>6 DEF SweepWindow
<1>9. \A a, b \in Int : Later(Later(a, ConnectedAt), b) >= ConnectedAt
  BY DEF Later, ConnectedAt
<1> QED BY <1>2, <1>5, <1>7, <1>8, <1>9 DEF WindowOf

\* The provider and the clock keep the types.
LEMMA ListStepIsTyped ==
  ASSUME SyncTypes, ListStep
  PROVE  SyncTypes'
<1>1. CASE Tick
  BY <1>1, SyncAssumption DEF SyncTypes, SyncAssumption, Tick, history
<1>2. ASSUME NEW s \in Scrobble, Appear(s)
      PROVE  SyncTypes'
  BY <1>2 DEF SyncTypes, Appear, history
<1>3. ASSUME NEW s \in Scrobble, Unlist(s)
      PROVE  SyncTypes'
  BY <1>3 DEF SyncTypes, Unlist
<1> QED BY <1>1, <1>2, <1>3 DEF ListStep

\* So does every step of a job.
LEMMA JobStepIsTyped ==
  ASSUME SyncTypes, NEW k \in Kind, JobStep(k)
  PROVE  SyncTypes'
<1>1. /\ job \in [Kind -> [status : {"pending", "running", "done"}, progress : Progress]]
      /\ worker \in [Kind -> WorkerRecord] /\ pass \in [Kind -> PassRecord]
      /\ connection \in [completed : Int, gap : [from : Int, to : Int]] /\ failures \in Nat
      /\ listed \in SUBSET Scrobble /\ captured \in SUBSET Scrobble /\ lapsed \in SUBSET Scrobble
      /\ removed \in SUBSET Scrobble /\ now \in 0 .. EndOfTime
  BY DEF SyncTypes
<1>2. job[k].progress \in Progress /\ worker[k] \in WorkerRecord /\ pass[k] \in PassRecord
  BY <1>1
<1>3. NoProgress \in Progress /\ Idle \in WorkerRecord
  BY DEF NoProgress, Idle, Progress, WorkerRecord
<1>4. WindowOf(k) \in Progress /\ Horizon \in Int /\ Desired \in Int
  BY WindowsAreTyped
<1>5. CASE Schedule(k)
  BY <1>1, <1>3, <1>5 DEF SyncTypes, Schedule, history
<1>6. CASE Stop(k)
  BY <1>1, <1>3, <1>6 DEF SyncTypes, Stop, history
<1>7. CASE FetchFails(k)
  BY <1>1, <1>2, <1>3, <1>7 DEF SyncTypes, FetchFails, Released, history
<1>8. CASE Work(k)
  <2>1. CASE Open(k)
    <3>1. InWindow(WindowOf(k)) \in SUBSET Scrobble
      BY <1>1 DEF InWindow
    <3>2. pass' \in [Kind -> PassRecord]
      BY <1>1, <2>1, <3>1 DEF Open, PassRecord
    <3>3. worker' \in [Kind -> WorkerRecord]
      <4> DEFINE pc == IF k = "sweep" THEN "fetch" ELSE IF Desired < Horizon THEN "gap" ELSE "check"
      <4>1. pc \in {"gap", "check", "fetch"}
        OBVIOUS
      <4>2. worker' = [worker EXCEPT ![k].pc = pc]
        BY <2>1 DEF Open, GoTo
      <4> HIDE DEF pc
      <4> QED BY <1>1, <4>1, <4>2 DEF WorkerRecord
    <3> QED BY <1>1, <1>4, <2>1, <3>2, <3>3 DEF SyncTypes, Open, Taken
  <2>2. CASE Resume(k)
    <3>1. worker' \in [Kind -> WorkerRecord]
      BY <1>1, <2>2 DEF Resume, GoTo, WorkerRecord
    <3> QED BY <1>1, <1>2, <2>2, <3>1 DEF SyncTypes, Resume, Taken, history
  <2>3. CASE Fetch(k)
    <3> DEFINE p == job[k].progress
    <3>1. InWindow(p) \in SUBSET Scrobble
      BY <1>1 DEF InWindow
    <3>2. TotalPages(InWindow(p)) \in Nat /\ Page(InWindow(p), p.page) \in SUBSET Scrobble
      BY <3>1, PagesSuffice DEF Page
    <3>3. worker' \in [Kind -> WorkerRecord]
      <4> DEFINE rows == Page(InWindow(p), p.page)
                 total == TotalPages(InWindow(p))
      <4>1. worker' = [worker EXCEPT ![k] = [worker[k] EXCEPT !.pc = "answered", !.rows = rows, !.total = total]]
        BY <2>3 DEF Fetch
      <4>2. rows \in SUBSET Scrobble /\ total \in Int
        BY <3>2
      <4> HIDE DEF rows, total
      <4>3. [worker[k] EXCEPT !.pc = "answered", !.rows = rows, !.total = total] \in WorkerRecord
        BY <1>2, <4>2, UpdatesAreTyped
      <4> QED BY <1>1, <4>1, <4>3
    <3>4. pass' \in [Kind -> PassRecord]
      <4> DEFINE slipped == Slipped(k, TotalPages(InWindow(p)))
      <4>1. pass' = [pass EXCEPT ![k] = [pass[k] EXCEPT !.asked = removed, !.slipped = slipped]]
        BY <2>3 DEF Fetch
      <4>2. slipped \in BOOLEAN
        BY DEF Slipped
      <4> HIDE DEF slipped
      <4>3. [pass[k] EXCEPT !.asked = removed, !.slipped = slipped] \in PassRecord
        BY <1>1, <1>2, <4>2, UpdatesAreTyped
      <4> QED BY <1>1, <4>1, <4>3
    <3> QED BY <1>1, <2>3, <3>3, <3>4 DEF SyncTypes, Fetch
  <2>4. CASE BackwardWindow(k)
    BY <1>1, <1>2, <1>3, <2>4 DEF SyncTypes, BackwardWindow, Released, history
  <2>5. CASE StartOver(k)
    <3>1. [job[k].progress EXCEPT !.page = 1, !.total = -1] \in Progress
      <4>1. 1 \in Nat /\ -1 \in Int
        OBVIOUS
      <4> QED BY <1>2, <4>1, UpdatesAreTyped
    <3> QED BY <1>1, <1>2, <1>3, <2>5, <3>1 DEF SyncTypes, StartOver, Released, history
  <2>6. CASE Persist(k)
    <3>1. worker' \in [Kind -> WorkerRecord]
      BY <1>1, <2>6 DEF Persist, GoTo, WorkerRecord
    <3>2. captured' \in SUBSET Scrobble /\ lapsed' \in SUBSET Scrobble
      BY <1>1, <1>2, <2>6 DEF Persist, WorkerRecord
    <3> QED BY <1>1, <2>6, <3>1, <3>2 DEF SyncTypes, Persist, history
  <2>7. CASE TurnPage(k)
    <3> DEFINE p == Turned(job[k].progress, worker[k].total)
               pages == worker[k].pages + 1
               next == IF p.page <= PagesIn(p.total) THEN "fetch" ELSE "finish"
    <3>1. p \in Progress
      <4>1. job[k].progress.page + 1 \in Nat /\ worker[k].total \in Int
        BY <1>2 DEF Progress, WorkerRecord
      <4> QED BY <1>2, <4>1, UpdatesAreTyped DEF Turned
    <3>2. pass' \in [Kind -> PassRecord]
      <4>1. pass[k].asked \in SUBSET Scrobble
        BY <1>2 DEF PassRecord
      <4> QED BY <1>1, <1>2, <2>7, <4>1 DEF TurnPage, PassRecord
    <3>3. [Idle EXCEPT !.pages = pages, !.pc = next] \in WorkerRecord
      <4>1. pages \in Nat
        BY <1>2 DEF WorkerRecord
      <4>2. next \in {"idle", "gap", "check", "cut", "fetch", "answered", "stored", "finish", "close"}
        OBVIOUS
      <4> HIDE DEF pages, next
      <4> QED BY <1>3, <4>1, <4>2, UpdatesAreTyped
    <3>4. job' \in [Kind -> [status : {"pending", "running", "done"}, progress : Progress]]
      BY <1>1, <2>7, <3>1 DEF TurnPage, Released
    <3>5. worker' \in [Kind -> WorkerRecord]
      BY <1>1, <1>3, <2>7, <3>3 DEF TurnPage, Released
    <3> QED BY <1>1, <2>7, <3>2, <3>4, <3>5 DEF SyncTypes, TurnPage
  <2>8. CASE Finish(k)
    <3>1. worker' \in [Kind -> WorkerRecord]
      BY <1>1, <2>8 DEF Finish, GoTo, WorkerRecord
    <3>2. connection' \in [completed : Int, gap : [from : Int, to : Int]]
      BY <1>1, <1>2, <2>8 DEF Finish, Later, Through, Progress, Kind
    <3> QED BY <1>1, <2>8, <3>1, <3>2 DEF SyncTypes, Finish, history
  <2>9. CASE CloseJob(k)
    BY <1>1, <1>3, <2>9 DEF SyncTypes, CloseJob, Released, history
  <2> QED BY <1>8, <2>1, <2>2, <2>3, <2>4, <2>5, <2>6, <2>7, <2>8, <2>9 DEF Work
<1>9. CASE k = "sync" /\ GapStep
  <2>1. worker' \in [Kind -> WorkerRecord]
    BY <1>1, <1>9 DEF GapStep, RecordGap, StillKept, Cut, SaveCut, GoTo, WorkerRecord, Kind
  <2>2. connection' \in [completed : Int, gap : [from : Int, to : Int]]
    <3>1. job["sync"].progress.from \in Int /\ HorizonWhenOpened \in Int
      BY <1>2, <1>9, SyncAssumption DEF Progress, SyncAssumption, HorizonWhenOpened
    <3>2. CASE RecordGap
      BY <1>1, <1>4, <3>1, <3>2 DEF RecordGap
    <3>5. CASE StillKept
      BY <1>1, <3>5 DEF StillKept
    <3>3. CASE Cut
      BY <1>1, <1>4, <3>1, <3>3 DEF Cut
    <3>4. CASE SaveCut
      BY <1>1, <3>4 DEF SaveCut
    <3> QED BY <1>9, <3>2, <3>3, <3>4, <3>5 DEF GapStep
  <2>3. job' \in [Kind -> [status : {"pending", "running", "done"}, progress : Progress]]
    <3>1. connection.gap.to \in Int /\ job["sync"].progress.to \in Int
      BY <1>1, <1>2, <1>9 DEF Progress
    <3>2. [NoProgress EXCEPT !.from = connection.gap.to, !.to = job["sync"].progress.to] \in Progress
      BY <1>3, <3>1, UpdatesAreTyped
    <3>3. CASE SaveCut
      BY <1>1, <1>9, <3>2, <3>3 DEF SaveCut
    <3> QED BY <1>1, <1>2, <1>9, <3>3 DEF GapStep, RecordGap, StillKept, Cut, Taken
  <2> QED BY <1>1, <1>9, <2>1, <2>2, <2>3 DEF SyncTypes, GapStep, RecordGap, StillKept, Cut, SaveCut, history
<1>10. CASE k = "sweep" /\ NothingToSweep
  BY <1>1, <1>3, <1>10 DEF SyncTypes, NothingToSweep, Released, history
<1> QED BY <1>5, <1>6, <1>7, <1>8, <1>9, <1>10 DEF JobStep

\* A change of the list, or of the time, changes nothing else.
LEMMA ListIsKept ==
  ASSUME SyncTypes, ListIsKnown, ListStep
  PROVE  /\ ListIsKnown' /\ ListMovesOn /\ UNCHANGED <<job, worker, connection>>
         /\ pass' = pass /\ captured' = captured /\ lapsed' = lapsed
<1>1. now \in Nat /\ \A s \in Scrobble : PlayedAt[s] \in Nat
  BY SyncAssumption DEF SyncTypes, SyncAssumption
<1>2. CASE Tick
  <2>1. /\ now' = now + 1 /\ listed' = listed \cup { s \in Prompt : PlayedAt[s] = now + 1 }
        /\ removed' = removed /\ UNCHANGED <<job, worker, connection, pass, captured, lapsed>>
    BY <1>2 DEF Tick, history
  <2>2. listed' \cap removed' = {}
    BY <1>1, <2>1, SyncAssumption DEF ListIsKnown, SyncAssumption, SyncTypes
  <2>3. \A s \in listed' \cup removed' : PlayedAt[s] <= now'
    BY <1>1, <2>1, SyncAssumption DEF ListIsKnown, SyncAssumption, SyncTypes
  <2>4. ASSUME NEW s \in Prompt, PlayedAt[s] <= now'
        PROVE  s \in listed' \cup removed'
    <3>1. s \in Scrobble /\ PlayedAt[s] \in Nat
      BY <1>1, SyncAssumption DEF SyncAssumption
    <3>2. PlayedAt[s] = now + 1 \/ PlayedAt[s] <= now
      BY <1>1, <2>1, <2>4, <3>1
    <3> QED BY <2>1, <3>2 DEF ListIsKnown
  <2>5. ListMovesOn
    BY <1>1, <2>1 DEF ListMovesOn, Stored
  <2> QED BY <2>1, <2>2, <2>3, <2>4, <2>5 DEF ListIsKnown
<1>3. ASSUME NEW s \in Scrobble, Appear(s)
      PROVE  /\ ListIsKnown' /\ ListMovesOn /\ UNCHANGED <<job, worker, connection>>
             /\ pass' = pass /\ captured' = captured /\ lapsed' = lapsed
  BY <1>1, <1>3 DEF SyncTypes, ListIsKnown, ListMovesOn, Stored, Appear, history
<1>4. ASSUME NEW s \in Scrobble, Unlist(s)
      PROVE  /\ ListIsKnown' /\ ListMovesOn /\ UNCHANGED <<job, worker, connection>>
             /\ pass' = pass /\ captured' = captured /\ lapsed' = lapsed
  BY <1>1, <1>4 DEF SyncTypes, ListIsKnown, ListMovesOn, Stored, Unlist
<1> QED BY <1>2, <1>3, <1>4 DEF ListStep

\* A step of one job changes neither the list nor the time nor the other job, and takes
\* nothing from what is stored.
LEMMA JobsStayApart ==
  ASSUME SyncTypes, NEW k \in Kind, JobStep(k)
  PROVE  /\ UNCHANGED listVars /\ Stored \subseteq Stored' /\ ListMovesOn
         /\ \A j \in Kind \ {k} : job'[j] = job[j] /\ worker'[j] = worker[j] /\ pass'[j] = pass[j]
<1>1. UNCHANGED listVars /\ Stored \subseteq Stored'
  <2>1. CASE Schedule(k) \/ Stop(k) \/ FetchFails(k)
    BY <2>1 DEF Schedule, Stop, FetchFails, history, listVars, Stored
  <2>2. CASE Work(k)
    BY <2>2 DEF Work, Open, Resume, Fetch, BackwardWindow, StartOver, Persist, TurnPage, Finish, CloseJob,
       history, listVars, Stored
  <2>3. CASE GapStep
    BY <2>3 DEF GapStep, RecordGap, StillKept, Cut, SaveCut, history, listVars, Stored
  <2>4. CASE NothingToSweep
    BY <2>4 DEF NothingToSweep, history, listVars, Stored
  <2> QED BY <2>1, <2>2, <2>3, <2>4 DEF JobStep
<1>2. ListMovesOn
  BY <1>1 DEF ListMovesOn, listVars, SyncTypes
<1>3. ASSUME NEW j \in Kind \ {k}
      PROVE  job'[j] = job[j] /\ worker'[j] = worker[j] /\ pass'[j] = pass[j]
  <2> USE DEF SyncTypes, GoTo, Released, Taken, history
  <2>1. CASE Schedule(k) \/ Stop(k) \/ FetchFails(k)
    BY <2>1 DEF Schedule, Stop, FetchFails
  <2>2. CASE Work(k)
    <3>1. CASE Open(k) \/ Resume(k) \/ BackwardWindow(k) \/ StartOver(k)
      BY <3>1 DEF Open, Resume, BackwardWindow, StartOver
    <3>2. CASE Fetch(k)
      BY <3>2 DEF Fetch
    <3>3. CASE Persist(k) \/ Finish(k) \/ CloseJob(k)
      BY <3>3 DEF Persist, Finish, CloseJob
    <3>4. CASE TurnPage(k)
      BY <3>4 DEF TurnPage
    <3> QED BY <2>2, <3>1, <3>2, <3>3, <3>4 DEF Work
  <2>3. CASE k = "sync" /\ GapStep
    BY <2>3 DEF GapStep, RecordGap, StillKept, Cut, SaveCut
  <2>4. CASE k = "sweep" /\ NothingToSweep
    BY <2>4 DEF NothingToSweep
  <2> QED BY <2>1, <2>2, <2>3, <2>4 DEF JobStep
<1> QED BY <1>1, <1>2, <1>3

(***************************************************************************)
(* SyncWindows: a job's own steps                                          *)
(***************************************************************************)
\* What is wanted of a window is on its pages.
LEMMA WantedIsListed ==
  ASSUME SyncTypes, NEW k \in Kind, WindowIsFixed(k), NEW s \in Wanted(k)
  PROVE  s \in InWindow(job[k].progress) /\ s \in Scrobble
BY DEF SyncTypes, PassRecord, WindowIsFixed, Wanted, InWindow

\* At its first page a job has missed nothing.
LEMMA FirstPageIsOnTrack ==
  ASSUME SyncTypes', NEW k \in Kind, job'[k].progress.page = 1
  PROVE  OnTrack(k)'
<1>1. InWindow(job[k].progress)' \in SUBSET Scrobble
  BY DEF InWindow, SyncTypes
<1>2. \A s : Rank(k, s)' \in Nat
  BY <1>1, NewerGrows DEF Rank, Newer
<1>3. (job'[k].progress.page - 1) * PageSize = 0
  BY SyncAssumption DEF SyncAssumption
<1> QED BY <1>2, <1>3 DEF OnTrack, Reached

\* A window that is opened is fixed, and its job at its first page.
LEMMA OpenFixes ==
  ASSUME SyncTypes, SyncTypes', ListIsKnown, connection.completed <= now, NEW k \in Kind, JobIsOnTrack(k), Open(k)
  PROVE  JobIsOnTrack(k)'
<1> DEFINE p == WindowOf(k)
<1>1. /\ job'[k] = [status |-> "running", progress |-> p] /\ p \in Progress
      /\ pass'[k] = [listed |-> InWindow(p), removed |-> removed, asked |-> removed, slipped |-> FALSE]
      /\ worker'[k].pc = (IF k = "sweep" THEN "fetch" ELSE IF Desired < Horizon THEN "gap" ELSE "check")
      /\ UNCHANGED <<now, listed, removed>>
  BY WindowsAreTyped DEF Open, Taken, GoTo, SyncTypes
<1>2. p.page = 1 /\ p.total = -1 /\ p.to <= now /\ HasWindow(p)
  <2>1. CASE k = "sync"
    BY <2>1, WindowsAreTyped DEF HasWindow, SyncTypes
  <2>2. CASE k # "sync"
    <3>1. SweepWindow.from < SweepWindow.to /\ p = SweepWindow
      BY <2>2 DEF Open, WindowOf, Kind
    <3> QED BY <2>2, <3>1, WindowsAreTyped DEF HasWindow, Progress, ConnectedAt
  <2> QED BY <2>1, <2>2
<1> HIDE DEF p
<1>3. InHand(k)'
  BY <1>1, <1>2 DEF InHand, Kind
<1>4. WindowIsFixed(k)'
  <2>1. InWindow(p) \subseteq listed /\ \A s \in InWindow(p) : PlayedAt[s] <= p.to
    BY DEF InWindow
  <2> QED BY <1>1, <1>2, <2>1 DEF WindowIsFixed
<1>5. OnTrack(k)'
  BY <1>1, <1>2, FirstPageIsOnTrack
<1> QED BY <1>1, <1>3, <1>4, <1>5 DEF JobIsOnTrack, Track

\* The page that is fetched has what is wanted of the list from where the job is, and
\* after the last page nothing of it is left.
LEMMA FetchKeeps ==
  ASSUME SyncTypes, SyncTypes', NEW k \in Kind, JobIsOnTrack(k), Fetch(k)
  PROVE  JobIsOnTrack(k)'
<1> DEFINE p == job[k].progress
           S == InWindow(p)
<1>0. PICK rows, total : rows = Page(S, p.page) /\ total = TotalPages(S)
  OBVIOUS
<1>1. /\ job' = job /\ UNCHANGED <<now, listed, removed, captured, lapsed>>
      /\ worker'[k] = [worker[k] EXCEPT !.pc = "answered", !.rows = rows, !.total = total]
      /\ pass'[k] = [pass[k] EXCEPT !.asked = removed, !.slipped = Slipped(k, total)]
  BY <1>0 DEF Fetch, SyncTypes
<1>2. /\ worker[k] \in WorkerRecord /\ pass[k] \in PassRecord /\ p \in Progress
      /\ worker[k].pc = "fetch" /\ HasWindow(p) /\ job[k].status = "running"
  BY DEF SyncTypes, Fetch, JobIsOnTrack, InHand
<1>3. S \in SUBSET Scrobble
  BY DEF SyncTypes, InWindow
<1>4. total \in Nat /\ Cardinality(S) <= total * PageSize /\ total * PageSize \in Nat
  BY <1>0, <1>3, PagesSuffice, Products
<1>5. p.page \in Nat /\ p.page >= 1 /\ (p.page > 1 => p.total >= 0) /\ p.total \in Int
  BY <1>2 DEF JobIsOnTrack, WindowIsFixed, Progress
<1>6. /\ worker'[k].pc = "answered" /\ worker'[k].rows = rows /\ worker'[k].total = total
      /\ pass'[k].listed = pass[k].listed /\ pass'[k].removed = pass[k].removed /\ pass'[k].asked = removed
      /\ pass'[k].slipped = Slipped(k, total)
  BY <1>1, <1>2 DEF WorkerRecord, PassRecord
<1>7. WindowIsFixed(k) /\ OnTrack(k)
  BY <1>2 DEF JobIsOnTrack, Track
<1>8. Slipped(k, total) => removed # {}
  BY <1>7 DEF Slipped, WindowIsFixed
<1>9. InHand(k)' /\ WindowIsFixed(k)'
  <2>1. total >= 0 /\ job'[k] = job[k]
    BY <1>1, <1>4
  <2>2. InHand(k)'
    BY <1>2, <1>6, <2>1 DEF InHand
  <2>3. WindowIsFixed(k)'
    BY <1>1, <1>6, <1>7, <1>8, <2>1 DEF WindowIsFixed
  <2> QED BY <2>2, <2>3
<1>10. \A s : Rank(k, s)' = Rank(k, s) /\ Rank(k, s) = Cardinality(Newer(S, s))
  BY <1>1 DEF Rank, InWindow
<1>11. Wanted(k)' = Wanted(k) /\ Stored' = Stored
  BY <1>1, <1>6 DEF Wanted, Stored
<1>12. OnTrack(k)'
  <2>1. CASE p.page = 1
    BY <1>1, <2>1, FirstPageIsOnTrack
  <2>2. CASE p.page # 1 /\ pass[k].slipped
    <3>1. p.page > 1
      BY <1>5, <2>2
    <3> QED BY <1>6, <2>2, <3>1 DEF OnTrack, Slipped
  <2>3. CASE p.page # 1 /\ ~pass[k].slipped
    <3>1. CASE pass[k].removed # removed
      BY <1>1, <1>6, <3>1 DEF OnTrack
    <3>2. CASE pass[k].removed = removed
      <4>1. PICK n \in Nat : n = p.page - 1
        BY <1>5
      <4>2. Reached(k, n)
        BY <1>7, <2>3, <3>2, <4>1 DEF OnTrack
      <4>3. \A s \in Wanted(k)' : s \in Stored' \/ Rank(k, s)' >= n * PageSize
        BY <1>10, <1>11, <4>2 DEF Reached
      <4> QED BY <1>1, <4>1, <4>3 DEF OnTrack, Reached
    <3> QED BY <3>1, <3>2
  <2> QED BY <2>1, <2>2, <2>3
<1>13. ASSUME ~Slipped(k, total), ~PagesChanged(p, total)
       PROVE  Fetched(k, rows, total)'
  <2>1. PICK n \in Nat : n = p.page - 1
    BY <1>5
  <2>2. Reached(k, n)
    <3>1. CASE p.page = 1
      <4>1. n * PageSize = 0
        BY <2>1, <3>1, SyncAssumption DEF SyncAssumption
      <4>2. \A s : Rank(k, s) \in Nat
        BY <1>3, <1>10, NewerGrows
      <4> QED BY <4>1, <4>2 DEF Reached
    <3>2. CASE p.page # 1
      <4>1. p.page > 1 /\ total = p.total
        BY <1>4, <1>5, <1>13, <3>2 DEF PagesChanged
      <4>2. ~pass[k].slipped /\ removed = pass[k].removed
        BY <1>13, <4>1 DEF Slipped
      <4> QED BY <1>7, <2>1, <4>2 DEF OnTrack
    <3> QED BY <3>1, <3>2
  <2> SUFFICES ASSUME NEW s \in Wanted(k), s \notin Stored \cup rows
               PROVE  p.page < total /\ Rank(k, s) >= p.page * PageSize
    BY <1>1, <1>6, <1>10, <1>11 DEF Fetched
  <2>3. s \in S /\ Rank(k, s) \in Nat /\ Rank(k, s) < Cardinality(S) /\ Cardinality(S) \in Nat
    BY <1>3, <1>7, <1>10, WantedIsListed, NewerAreFewer
  <2>4. Rank(k, s) >= n * PageSize
    BY <2>2 DEF Reached
  <2>5. /\ p.page = n + 1 /\ p.page * PageSize \in Nat /\ n * PageSize \in Nat
        /\ total <= p.page => total * PageSize <= p.page * PageSize
    BY <1>4, <1>5, <2>1, Products
  <2>6. Rank(k, s) >= p.page * PageSize
    <3>1. Rank(k, s) \notin n * PageSize .. p.page * PageSize - 1
      BY <1>0, <1>10, <2>1, <2>3 DEF Page
    <3> QED BY <2>3, <2>4, <2>5, <3>1
  <2>7. p.page < total
    <3> HIDE DEF p, S
    <3> QED BY <1>4, <1>5, <2>3, <2>5, <2>6
  <2> QED BY <2>6, <2>7
<1>14. Track(k)'
  BY <1>1, <1>6, <1>12, <1>13 DEF Track
<1> QED BY <1>9, <1>14 DEF JobIsOnTrack

\* What a page has of the window is stored with it.
LEMMA PersistStores ==
  ASSUME SyncTypes, SyncTypes', NEW k \in Kind, JobIsOnTrack(k), Persist(k)
  PROVE  JobIsOnTrack(k)'
<1> DEFINE p == job[k].progress
<1>1. /\ job' = job /\ pass' = pass /\ UNCHANGED <<now, listed, removed>>
      /\ worker'[k].pc = "stored" /\ worker'[k].total = worker[k].total /\ worker[k].pc = "answered"
      /\ ~PagesChanged(p, worker[k].total)
  BY DEF Persist, GoTo, history, SyncTypes, WorkerRecord
<1>2. Stored' = Stored \cup { s \in worker[k].rows : p.from <= PlayedAt[s] /\ PlayedAt[s] <= p.to }
  BY DEF Persist, Stored
<1>3. ListMovesOn
  BY <1>1, <1>2 DEF ListMovesOn, SyncTypes
<1>4. HasWindow(p) /\ WindowIsFixed(k) /\ OnTrack(k) /\ job[k].status = "running"
  BY <1>1 DEF JobIsOnTrack, InHand, Track
<1>5. WindowIsFixed(k)' /\ OnTrack(k)'
  BY <1>1, <1>3, <1>4, WindowStays, TrackStays
<1>6. InHand(k)'
  <2>1. worker[k].total >= 0
    BY <1>1 DEF JobIsOnTrack, InHand
  <2> QED BY <1>1, <1>4, <2>1 DEF InHand
<1>7. ASSUME ~pass[k].slipped
      PROVE  Fetched(k, {}, worker[k].total)'
  <2>1. Fetched(k, worker[k].rows, worker[k].total)
    BY <1>1, <1>4, <1>7 DEF JobIsOnTrack, Track
  <2>2. PICK rows, total : rows = worker[k].rows /\ total = worker[k].total
    OBVIOUS
  <2>3. Fetched(k, rows, total)'
    BY <1>1, <1>3, <1>4, <2>1, <2>2, TrackStays
  <2>4. \A s \in Wanted(k)' : s \in rows => s \in Stored'
    <3>1. \A s \in Wanted(k) : p.from <= PlayedAt[s] /\ PlayedAt[s] <= p.to
      BY <1>4 DEF Wanted, WindowIsFixed
    <3> QED BY <1>1, <1>2, <1>3, <1>4, <2>2, <3>1, WindowStays
  <2>5. Fetched(k, {}, total)'
    BY <2>3, <2>4 DEF Fetched
  <2> QED BY <1>1, <2>2, <2>5 DEF Fetched
<1>8. Track(k)'
  BY <1>1, <1>5, <1>7 DEF Track, Fetched
<1> QED BY <1>5, <1>6, <1>8 DEF JobIsOnTrack

\* After its last page nothing of the window is left, and before it no page is skipped.
LEMMA TurnPageKeeps ==
  ASSUME SyncTypes, SyncTypes', NEW k \in Kind, JobIsOnTrack(k), TurnPage(k)
  PROVE  JobIsOnTrack(k)'
<1> DEFINE p == job[k].progress
<1>0. PICK total : total = worker[k].total
  OBVIOUS
<1>1. p \in Progress /\ pass[k] \in PassRecord /\ worker[k] \in WorkerRecord /\ total \in Int
  BY <1>0 DEF SyncTypes, WorkerRecord
<1>2. PICK q \in Progress : q = Turned(p, total)
  <2>1. p.page + 1 \in Nat
    BY <1>1 DEF Progress
  <2> QED BY <1>1, <2>1, UpdatesAreTyped DEF Turned
<1>3. q.from = p.from /\ q.to = p.to /\ q.page = p.page + 1 /\ q.total = total
  BY <1>1, <1>2 DEF Turned, Progress
<1>4. worker[k].pc = "stored" /\ HasWindow(p) /\ WindowIsFixed(k) /\ Track(k) /\ job[k].status = "running"
  BY DEF TurnPage, JobIsOnTrack, InHand
<1>5. /\ UNCHANGED <<now, listed, removed, captured, lapsed>>
      /\ job'[k].progress = q /\ pass'[k] = [pass[k] EXCEPT !.removed = pass[k].asked]
  BY <1>0, <1>2 DEF TurnPage, Released, SyncTypes
<1>6. \/ job'[k].status = "pending" /\ worker'[k].pc = "idle"
      \/ job'[k].status = "running" /\ worker'[k].pc = "fetch"
      \/ job'[k].status = "running" /\ worker'[k].pc = "finish" /\ q.page > PagesIn(total)
  <2>1. CASE q.page <= PagesIn(q.total) /\ worker[k].pages + 1 = PagesPerRun
    BY <1>0, <1>2, <2>1 DEF TurnPage, Released, SyncTypes, Idle
  <2>2. CASE ~(q.page <= PagesIn(q.total) /\ worker[k].pages + 1 = PagesPerRun)
    <3>1. /\ job' = [job EXCEPT ![k].progress = q]
          /\ worker' = [worker EXCEPT ![k] = [Idle EXCEPT !.pages = worker[k].pages + 1,
                           !.pc = IF q.page <= PagesIn(q.total) THEN "fetch" ELSE "finish"]]
      BY <1>0, <1>2, <2>2 DEF TurnPage
    <3>2. job'[k].status = "running" /\ worker'[k].pc = (IF q.page <= PagesIn(q.total) THEN "fetch" ELSE "finish")
      BY <1>4, <3>1 DEF SyncTypes, Idle
    <3>3. q.page \in Int /\ PagesIn(q.total) \in Int
      BY <1>1, <1>3 DEF PagesIn, Later, Progress
    <3> QED BY <1>3, <3>2, <3>3
  <2> QED BY <2>1, <2>2
<1>7. /\ pass'[k].listed = pass[k].listed /\ pass'[k].removed = pass[k].asked /\ pass'[k].asked = pass[k].asked
      /\ pass'[k].slipped = pass[k].slipped
  BY <1>1, <1>5 DEF PassRecord
<1>8. p.page \in Nat /\ p.page >= 1 /\ p.from \in Int /\ p.to \in Int
  BY <1>1, <1>4 DEF Progress, WindowIsFixed
<1>9. InHand(k)'
  BY <1>3, <1>4, <1>5, <1>6 DEF InHand, HasWindow
<1>10. total >= 0
  BY <1>0, <1>4 DEF JobIsOnTrack, InHand
<1>11. WindowIsFixed(k)'
  BY <1>3, <1>4, <1>5, <1>7, <1>8, <1>10 DEF WindowIsFixed
<1>12. /\ Wanted(k)' = Wanted(k) /\ Stored' = Stored
       /\ \A s : Rank(k, s)' = Rank(k, s)
  BY <1>3, <1>5, <1>7 DEF Wanted, Stored, Rank, InWindow
<1>13. pass[k].slipped \/ Fetched(k, {}, total)
  BY <1>0, <1>4 DEF Track
<1>14. OnTrack(k)'
  <2>1. CASE pass[k].slipped
    BY <1>7, <2>1 DEF OnTrack
  <2>2. CASE pass[k].asked # removed
    BY <1>5, <1>7, <2>2 DEF OnTrack
  <2>3. CASE ~pass[k].slipped /\ pass[k].asked = removed
    <3>1. PICK n \in Nat : n = p.page
      BY <1>8
    <3>2. \A s \in Wanted(k)' : s \in Stored' \/ Rank(k, s)' >= n * PageSize
      BY <1>12, <1>13, <2>3, <3>1 DEF Fetched
    <3>3. q.page - 1 = n
      BY <1>3, <3>1
    <3> QED BY <1>5, <3>2, <3>3 DEF OnTrack, Reached
  <2> QED BY <2>1, <2>2, <2>3
<1>15. worker'[k].pc = "finish" => pass[k].slipped \/ Wanted(k) \subseteq Stored
  <2>1. q.page > PagesIn(total) => ~(p.page < total)
    BY <1>1, <1>3, <1>8 DEF PagesIn, Later
  <2> QED BY <1>6, <1>13, <2>1 DEF Fetched
<1>16. Track(k)'
  BY <1>6, <1>7, <1>12, <1>14, <1>15 DEF Track
<1> QED BY <1>9, <1>11, <1>16 DEF JobIsOnTrack

\* A job that starts over is at the first page of the same window.
LEMMA StartOverKeeps ==
  ASSUME SyncTypes, SyncTypes', NEW k \in Kind, JobIsOnTrack(k), StartOver(k)
  PROVE  JobIsOnTrack(k)'
<1> DEFINE p == job[k].progress
<1>1. PICK q \in Progress : q = [p EXCEPT !.page = 1, !.total = -1]
  <2>1. 1 \in Nat /\ -1 \in Int /\ p \in Progress
    BY DEF SyncTypes
  <2> QED BY <2>1, UpdatesAreTyped
<1>2. q.from = p.from /\ q.to = p.to /\ q.page = 1
  <2>1. p \in Progress
    BY DEF SyncTypes
  <2> QED BY <1>1, <2>1 DEF Progress
<1>3. /\ UNCHANGED <<now, listed, removed, captured, lapsed>> /\ pass' = pass
      /\ job'[k].status = "pending" /\ job'[k].progress = q /\ worker'[k].pc = "idle"
  BY <1>1 DEF StartOver, Released, SyncTypes, Idle, history
<1>4. WindowIsFixed(k) /\ HasWindow(p)
  BY DEF StartOver, JobIsOnTrack, InHand
<1>5. InHand(k)' /\ WindowIsFixed(k)'
  BY <1>2, <1>3, <1>4 DEF InHand, WindowIsFixed
<1>6. OnTrack(k)'
  BY <1>2, <1>3, FirstPageIsOnTrack
<1> QED BY <1>3, <1>5, <1>6 DEF JobIsOnTrack, Track

\* A window that is cut starts over as well.
LEMMA SaveCutKeeps ==
  ASSUME SyncTypes, SyncTypes', JobIsOnTrack("sync"), SaveCut
  PROVE  JobIsOnTrack("sync")'
<1> DEFINE p == job["sync"].progress
<1>1. "sync" \in Kind /\ NoProgress \in Progress /\ connection.gap.to \in Int /\ p.to \in Int
  BY DEF Kind, NoProgress, Progress, SyncTypes
<1>2. PICK q \in Progress : q = [NoProgress EXCEPT !.from = connection.gap.to, !.to = p.to]
  BY <1>1, UpdatesAreTyped
<1>3. q.to = p.to /\ q.page = 1
  BY <1>2 DEF NoProgress
<1>4. /\ UNCHANGED <<now, listed, removed, captured, lapsed>> /\ pass' = pass /\ worker'["sync"].pc = "fetch"
      /\ job'["sync"].status = job["sync"].status /\ job'["sync"].progress = q
  BY <1>1, <1>2 DEF SaveCut, GoTo, SyncTypes, WorkerRecord, history
<1>5. WindowIsFixed("sync") /\ HasWindow(p) /\ job["sync"].status = "running"
  BY DEF SaveCut, JobIsOnTrack, InHand
<1>6. InHand("sync")' /\ WindowIsFixed("sync")'
  BY <1>3, <1>4, <1>5 DEF InHand, WindowIsFixed, HasWindow
<1>7. OnTrack("sync")'
  BY <1>1, <1>3, <1>4, FirstPageIsOnTrack
<1> QED BY <1>4, <1>6, <1>7 DEF JobIsOnTrack, Track

\* A job with no window is not on its way.
LEMMA NoWindow ==
  ASSUME NEW k \in Kind, job'[k].progress = NoProgress, InHand(k)'
  PROVE  JobIsOnTrack(k)'
BY DEF JobIsOnTrack, HasWindow, NoProgress

\* So that every step a worker takes keeps the job on track.
LEMMA WorkKeeps ==
  ASSUME SyncTypes, SyncTypes', ListIsKnown, connection.completed <= now, NEW k \in Kind, JobIsOnTrack(k), Work(k)
  PROVE  JobIsOnTrack(k)'
<1>0. ListMovesOn
  BY JobsStayApart DEF JobStep
<1>1. CASE Resume(k)
  <2>1. /\ job'[k] = [status |-> "running", progress |-> job[k].progress] /\ pass' = pass /\ worker'[k].pc = "fetch"
        /\ HasWindow(job[k].progress)
    BY <1>1 DEF Resume, Taken, GoTo, history, SyncTypes, WorkerRecord
  <2>2. InHand(k)'
    BY <2>1 DEF InHand
  <2> QED BY <1>0, <2>1, <2>2, JobWithoutPage
<1>2. CASE BackwardWindow(k)
  <2>1. /\ job'[k] = [status |-> "pending", progress |-> job[k].progress] /\ pass' = pass /\ worker'[k] = Idle
        /\ HasWindow(job[k].progress)
    BY <1>2 DEF BackwardWindow, Released, history, SyncTypes, JobIsOnTrack, InHand
  <2>2. InHand(k)' /\ worker'[k].pc = "idle"
    BY <2>1 DEF InHand, Idle
  <2> QED BY <1>0, <2>1, <2>2, JobWithoutPage
<1>3. CASE Finish(k)
  <2>1. /\ job' = job /\ pass' = pass /\ worker'[k].pc = "close" /\ worker[k].pc = "finish"
        /\ HasWindow(job[k].progress) /\ job[k].status = "running"
    BY <1>3 DEF Finish, GoTo, history, SyncTypes, WorkerRecord, JobIsOnTrack, InHand
  <2>2. InHand(k)'
    BY <2>1 DEF InHand
  <2>3. WindowIsFixed(k)' /\ OnTrack(k)' /\ (pass[k].slipped \/ (Wanted(k) \subseteq Stored)')
    BY <1>0, <2>1, WindowStays, TrackStays DEF JobIsOnTrack, Track
  <2> QED BY <2>1, <2>2, <2>3 DEF JobIsOnTrack, Track
<1>4. CASE CloseJob(k)
  <2>1. job'[k] = [status |-> "done", progress |-> NoProgress] /\ worker'[k] = Idle
    BY <1>4 DEF CloseJob, Released, SyncTypes
  <2> QED BY <2>1, NoWindow DEF InHand, Idle
<1> QED BY <1>1, <1>2, <1>3, <1>4, OpenFixes, FetchKeeps, StartOverKeeps, PersistStores, TurnPageKeeps DEF Work

\* And every other step of the job.
LEMMA JobStepKeeps ==
  ASSUME SyncTypes, SyncTypes', ListIsKnown, connection.completed <= now, NEW k \in Kind, JobIsOnTrack(k), JobStep(k)
  PROVE  JobIsOnTrack(k)'
<1>0. ListMovesOn
  BY JobsStayApart
<1>1. CASE Schedule(k)
  <2>1. job'[k] = [status |-> "pending", progress |-> NoProgress] /\ worker' = worker
    BY <1>1 DEF Schedule, SyncTypes
  <2>2. worker[k].pc = "idle"
    BY <1>1 DEF Schedule, JobIsOnTrack, InHand
  <2> QED BY <2>1, <2>2, NoWindow DEF InHand
<1>2. CASE Stop(k)
  <2>1. job' = job /\ pass' = pass /\ worker'[k].pc = "idle" /\ HasWindow(job[k].progress) /\ job[k].status = "running"
    BY <1>2 DEF Stop, SyncTypes, Idle, history, JobIsOnTrack, InHand
  <2>2. InHand(k)'
    BY <2>1 DEF InHand
  <2> QED BY <1>0, <2>1, <2>2, JobWithoutPage
<1>3. CASE FetchFails(k)
  <2>1. /\ job'[k] = [status |-> "pending", progress |-> job[k].progress] /\ pass' = pass /\ worker'[k] = Idle
        /\ HasWindow(job[k].progress)
    BY <1>3 DEF FetchFails, Released, history, SyncTypes, JobIsOnTrack, InHand
  <2>2. InHand(k)' /\ worker'[k].pc = "idle"
    BY <2>1 DEF InHand, Idle
  <2> QED BY <1>0, <2>1, <2>2, JobWithoutPage
<1>4. CASE k = "sync" /\ (RecordGap \/ StillKept \/ Cut)
  <2>1. /\ job'[k].progress = job[k].progress /\ pass' = pass /\ worker'[k].pc \in {"check", "cut", "fetch"}
        /\ HasWindow(job[k].progress) /\ job'[k].status = "running"
    BY <1>4 DEF RecordGap, StillKept, Cut, Taken, GoTo, history, SyncTypes, WorkerRecord, JobIsOnTrack, InHand
  <2>2. InHand(k)'
    BY <1>4, <2>1 DEF InHand
  <2> QED BY <1>0, <2>1, <2>2, JobWithoutPage
<1>5. CASE k = "sweep" /\ NothingToSweep
  <2>1. job'[k] = [status |-> "done", progress |-> NoProgress] /\ worker'[k] = Idle
    BY <1>5 DEF NothingToSweep, Released, SyncTypes
  <2> QED BY <2>1, NoWindow DEF InHand, Idle
<1> QED BY <1>1, <1>2, <1>3, <1>4, <1>5, WorkKeeps, SaveCutKeeps DEF JobStep, GapStep

\* The list and both jobs, after any step.
LEMMA TracksAreKept ==
  ASSUME SyncTypes, SyncTypes', ListIsKnown, connection.completed <= now, SyncTracks, SyncNext
  PROVE  ListIsKnown' /\ SyncTracks'
<1>1. \A k \in Kind : JobIsOnTrack(k)
  BY DEF SyncTracks
<1>2. CASE ListStep
  <2>1. ListIsKnown' /\ ListMovesOn /\ job' = job /\ worker' = worker /\ pass' = pass
    BY <1>2, ListIsKept
  <2>2. \A k \in Kind : JobIsOnTrack(k)'
    BY <1>1, <2>1, JobStays
  <2> QED BY <2>1, <2>2 DEF SyncTracks
<1>3. ASSUME NEW k \in Kind, JobStep(k)
      PROVE  ListIsKnown' /\ SyncTracks'
  <2>1. /\ UNCHANGED listVars /\ ListMovesOn
        /\ \A j \in Kind \ {k} : job'[j] = job[j] /\ worker'[j] = worker[j] /\ pass'[j] = pass[j]
    BY <1>3, JobsStayApart
  <2>2. ListIsKnown'
    BY <2>1 DEF ListIsKnown, listVars
  <2>3. JobIsOnTrack(k)'
    BY <1>1, <1>3, JobStepKeeps
  <2>4. \A j \in Kind \ {k} : JobIsOnTrack(j)'
    BY <1>1, <2>1, JobStays
  <2> QED BY <2>2, <2>3, <2>4 DEF SyncTracks
<1> QED BY <1>2, <1>3, StepsOfSync

\* A step that moves neither completedThrough nor the gap, and leaves the window of the
\* sync, or ends it.
LEMMA GapStays ==
  ASSUME SyncTypes, SyncTypes', ListMovesOn, GapIsKnown, connection' = connection,
         HasWindow(job'["sync"].progress) =>
           /\ job'["sync"].progress.from = From /\ job'["sync"].progress.to = job["sync"].progress.to
           /\ pass'["sync"].listed = pass["sync"].listed
           /\ \/ worker'["sync"].pc \in {worker["sync"].pc, "idle"}
              \/ worker["sync"].pc \notin {"idle", "gap", "cut"} /\ worker'["sync"].pc \notin {"gap", "cut"}
              \/ From > Horizon /\ worker'["sync"].pc \notin {"gap", "cut"}
  PROVE  GapIsKnown'
<1>1. /\ now \in Int /\ now' \in Int /\ now <= now' /\ Retention \in Int
      /\ connection.completed \in Int /\ connection.gap.to \in Int /\ From \in Int
      /\ removed' = {} => removed = {}
      /\ Stored \subseteq Stored'
  BY SyncAssumption DEF SyncTypes, SyncAssumption, ListMovesOn, From, Progress, Kind
<1>2. /\ Horizon \in Int /\ Horizon' \in Int /\ Horizon <= Horizon'
      /\ Later(Horizon, ConnectedAt) \in Int /\ Later(Horizon, ConnectedAt)' \in Int
      /\ Later(Horizon, ConnectedAt) <= Later(Horizon, ConnectedAt)'
  BY <1>1 DEF Horizon, Later, ConnectedAt
<1>3. MissedMeansHeld'
  BY <1>1 DEF GapIsKnown, MissedMeansHeld, Missed, Stored
<1>4. connection.completed <= now' /\ connection.gap.to <= Later(Horizon, ConnectedAt)'
  BY <1>1, <1>2 DEF GapIsKnown
<1>5. ASSUME HasWindow(job'["sync"].progress)
      PROVE  StartIsKnown'
  <2>1. HasWindow(job["sync"].progress) /\ StartIsKnown /\ From' = From /\ Cursor' = Cursor
    BY <1>5 DEF HasWindow, From, GapIsKnown, Cursor
  <2>2. \A s \in Prompt : removed' = {} /\ PlayedAt[s] <= job'["sync"].progress.to =>
          s \in pass'["sync"].listed \/ PlayedAt[s] < From'
    BY <1>1, <1>5, <2>1 DEF StartIsKnown
  <2>3. \/ From' <= connection'.gap.to \/ From' <= Cursor'
        \/ From' <= Horizon' /\ worker'["sync"].pc \in {"idle", "gap", "cut"}
    BY <1>1, <1>2, <1>5, <2>1 DEF StartIsKnown
  <2>4. worker'["sync"].pc = "gap" =>
          /\ connection'.gap.to <= From' /\ From' = Later(HorizonWhenOpened, ConnectedAt)'
          /\ HorizonWhenOpened' <= Horizon'
    <3>1. HorizonWhenOpened' = HorizonWhenOpened /\ HorizonWhenOpened \in Int
      BY <1>1, <1>5 DEF HorizonWhenOpened, SyncTypes, Progress, Kind
    <3>2. Later(HorizonWhenOpened, ConnectedAt)' = Later(HorizonWhenOpened, ConnectedAt)
      BY <3>1 DEF Later, ConnectedAt
    <3> QED BY <1>1, <1>2, <1>5, <2>1, <3>1, <3>2 DEF StartIsKnown
  <2>5. worker'["sync"].pc = "cut" => From' <= connection'.gap.to
    BY <1>1, <1>2, <1>5, <2>1 DEF StartIsKnown
  <2> QED BY <2>1, <2>2, <2>3, <2>4, <2>5 DEF StartIsKnown
<1> QED BY <1>3, <1>4, <1>5 DEF GapIsKnown

\* A window opens no later than where the last one ended, or where the list of the
\* provider may end; then the worker has its gap to record first.
LEMMA OpenExposes ==
  ASSUME SyncTypes, SyncTypes', ListIsKnown, GapIsKnown, Open("sync")
  PROVE  GapIsKnown'
<1>0. PICK p \in Progress : p = WindowOf("sync")
  BY WindowsAreTyped DEF Kind
<1>1. /\ p.from = Later(Later(Desired, ConnectedAt), Horizon) /\ p.to = now
      /\ Desired \in Int /\ Horizon \in Int /\ p.from \in Int
  BY <1>0, WindowsAreTyped DEF Kind, Progress
<1>2. /\ job'["sync"].progress = p /\ pass'["sync"].listed = InWindow(p)
      /\ worker'["sync"].pc = (IF Desired < Horizon THEN "gap" ELSE "check")
      /\ UNCHANGED <<now, listed, removed, connection, captured, lapsed>>
  BY <1>0 DEF Open, Taken, GoTo, SyncTypes, Kind, WorkerRecord
<1>3. /\ connection.completed \in Int /\ connection.gap.to \in Int /\ Overlap \in Nat
      /\ connection.gap.to <= Later(Horizon, ConnectedAt)
  BY SyncAssumption DEF SyncTypes, SyncAssumption, GapIsKnown
<1>4. p.from >= 0 /\ p.from >= Horizon
  BY <1>1 DEF Later, ConnectedAt
<1>5. ASSUME NEW s \in Prompt, removed = {}, PlayedAt[s] <= p.to
      PROVE  s \in InWindow(p) \/ PlayedAt[s] < p.from
  <2>1. s \in listed
    BY <1>1, <1>5 DEF ListIsKnown
  <2>2. PlayedAt[s] \in Nat
    BY SyncAssumption DEF SyncAssumption
  <2> QED BY <1>1, <1>5, <2>1, <2>2 DEF InWindow
<1>6. Desired < Horizon => p.from = Later(Horizon, ConnectedAt)
  BY <1>1 DEF Later, ConnectedAt
<1>7. p.from <= Cursor \/ (p.from <= Horizon /\ Desired < Horizon)
  BY <1>1, <1>3 DEF Cursor, Later, ConnectedAt, Desired
<1>8. From' = p.from /\ Horizon' = Horizon /\ Cursor' = Cursor
  BY <1>2 DEF From, Horizon, Cursor
<1>9. Later(Horizon, ConnectedAt)' = Later(Horizon, ConnectedAt) /\ Later(Horizon, ConnectedAt) \in Int
  BY <1>1, <1>8 DEF Later, ConnectedAt
<1>10. StartIsKnown'
  <2>1. worker'["sync"].pc = "gap" => Desired < Horizon
    BY <1>2
  <2>2. Desired < Horizon => worker'["sync"].pc = "gap"
    BY <1>2
  <2>3. worker'["sync"].pc # "cut"
    BY <1>2
  <2>4. \A s \in Prompt : removed' = {} /\ PlayedAt[s] <= job'["sync"].progress.to =>
          s \in pass'["sync"].listed \/ PlayedAt[s] < From'
    BY <1>2, <1>5, <1>8
  <2>5. From' <= Cursor' \/ (From' <= Horizon' /\ worker'["sync"].pc \in {"idle", "gap", "cut"})
    BY <1>7, <1>8, <2>2
  <2>6. worker'["sync"].pc = "gap" =>
          /\ connection'.gap.to <= From' /\ From' = Later(HorizonWhenOpened, ConnectedAt)'
          /\ HorizonWhenOpened' <= Horizon'
    <3>1. HorizonWhenOpened' = Horizon
      BY <1>1, <1>2 DEF HorizonWhenOpened, Horizon
    <3>2. Later(HorizonWhenOpened, ConnectedAt)' = Later(Horizon, ConnectedAt)
      BY <3>1 DEF Later, ConnectedAt
    <3> QED BY <1>1, <1>2, <1>3, <1>6, <1>8, <2>1, <3>1, <3>2
  <2> QED BY <1>4, <1>8, <2>3, <2>4, <2>5, <2>6 DEF StartIsKnown, ConnectedAt
<1>11. MissedMeansHeld'
  BY <1>2 DEF GapIsKnown, MissedMeansHeld, Missed
<1> QED BY <1>2, <1>9, <1>10, <1>11 DEF GapIsKnown

\* The gap a worker records reaches up to the start of its window, and no further than
\* the horizon.
LEMMA GapStepExposes ==
  ASSUME SyncTypes, SyncTypes', SyncTracks, GapIsKnown, GapStep
  PROVE  GapIsKnown'
<1>1. /\ now \in Int /\ Retention \in Int /\ connection.completed \in Int /\ connection.gap.to \in Int
      /\ From \in Int /\ Horizon \in Int /\ "sync" \in Kind
      /\ Later(Horizon, ConnectedAt) \in Int
  BY SyncAssumption DEF SyncTypes, SyncAssumption, From, Progress, Kind, Horizon, Later, ConnectedAt
<1>2. /\ UNCHANGED <<now, removed, captured, lapsed, pass>> /\ connection'.completed = connection.completed
      /\ Horizon' = Horizon /\ Cursor' = Cursor
      /\ Later(Horizon, ConnectedAt)' = Later(Horizon, ConnectedAt)
  BY DEF GapStep, RecordGap, StillKept, Cut, SaveCut, history, SyncTypes, Horizon, Cursor
<1>3. CASE RecordGap
  <2>1. HasWindow(job["sync"].progress) /\ StartIsKnown
    BY <1>1, <1>3 DEF RecordGap, SyncTracks, JobIsOnTrack, InHand, GapIsKnown
  <2>2. /\ connection'.gap.to = HorizonWhenOpened /\ From' = From /\ job' = job /\ worker'["sync"].pc = "check"
    BY <1>1, <1>3 DEF RecordGap, GoTo, SyncTypes, From, WorkerRecord
  <2>3. /\ connection.gap.to <= From /\ From = Later(HorizonWhenOpened, ConnectedAt)
        /\ HorizonWhenOpened <= Horizon /\ HorizonWhenOpened \in Int
    BY <1>1, <1>3, <2>1 DEF RecordGap, StartIsKnown, HorizonWhenOpened, SyncTypes, Progress
  <2>4. MissedMeansHeld'
    <3>1. \A s \in Prompt : PlayedAt[s] \in Nat /\ PlayedAt[s] >= 1
      BY SyncAssumption DEF SyncAssumption
    <3>2. \A s \in Prompt : PlayedAt[s] < connection.gap.to => PlayedAt[s] < HorizonWhenOpened
      BY <1>1, <2>3, <3>1 DEF Later, ConnectedAt
    <3> QED BY <1>2, <2>2, <3>2 DEF GapIsKnown, MissedMeansHeld, Missed
  <2>5. StartIsKnown'
    <3>1. From <= HorizonWhenOpened \/ From <= Cursor
      BY <1>1, <2>3 DEF Later, ConnectedAt, Cursor
    <3> QED BY <1>1, <1>2, <2>1, <2>2, <3>1 DEF StartIsKnown
  <2>6. connection'.gap.to <= Later(Horizon, ConnectedAt)
    BY <1>1, <2>2, <2>3 DEF Later, ConnectedAt
  <2> QED BY <1>2, <2>2, <2>4, <2>5, <2>6 DEF GapIsKnown
<1>4. CASE Cut
  <2>1. HasWindow(job["sync"].progress) /\ StartIsKnown /\ From <= Horizon
    <3>1. From <= Horizon
      BY <1>4 DEF Cut, Aged, From
    <3>2. HasWindow(job["sync"].progress)
      BY <1>1, <1>4 DEF Cut, SyncTracks, JobIsOnTrack, InHand
    <3> QED BY <3>1, <3>2 DEF GapIsKnown
  <2>2. /\ connection'.gap.to = Horizon /\ From' = From /\ job'["sync"].progress = job["sync"].progress
        /\ worker'["sync"].pc = "cut"
    BY <1>1, <1>4 DEF Cut, GoTo, Taken, SyncTypes, From, WorkerRecord
  <2>3. Horizon >= 0 /\ Later(Horizon, ConnectedAt) = Horizon /\ connection.gap.to <= Horizon
    BY <1>1, <2>1 DEF StartIsKnown, ConnectedAt, Later, GapIsKnown
  <2>4. MissedMeansHeld'
    <3>1. \A s \in Prompt : PlayedAt[s] \in Nat
      BY SyncAssumption DEF SyncAssumption
    <3> QED BY <1>1, <1>2, <2>2, <2>3, <3>1 DEF GapIsKnown, MissedMeansHeld, Missed
  <2>5. StartIsKnown'
    BY <1>1, <1>2, <2>1, <2>2 DEF StartIsKnown
  <2> QED BY <1>1, <1>2, <2>2, <2>3, <2>4, <2>5 DEF GapIsKnown
<1>5. CASE SaveCut
  <2>1. HasWindow(job["sync"].progress) /\ StartIsKnown
    BY <1>1, <1>5 DEF SaveCut, SyncTracks, JobIsOnTrack, InHand, GapIsKnown
  <2>2. PICK a \in Int, b \in Int : a = connection.gap.to /\ b = job["sync"].progress.to
    BY <1>1 DEF SyncTypes, Progress
  <2>3. job'["sync"].progress = [NoProgress EXCEPT !.from = a, !.to = b]
    BY <1>1, <1>5, <2>2 DEF SaveCut, SyncTypes
  <2>4. /\ connection' = connection /\ From' = connection.gap.to
        /\ job'["sync"].progress.to = job["sync"].progress.to /\ worker'["sync"].pc = "fetch"
    BY <1>1, <1>5, <2>2, <2>3 DEF SaveCut, GoTo, SyncTypes, From, NoProgress, WorkerRecord
  <2>5. From <= connection.gap.to
    BY <1>5, <2>1 DEF SaveCut, StartIsKnown
  <2>6. StartIsKnown'
    <3>1. \A s \in Prompt : PlayedAt[s] \in Nat
      BY SyncAssumption DEF SyncAssumption
    <3>2. From' >= ConnectedAt
      BY <1>1, <2>1, <2>4, <2>5 DEF StartIsKnown, ConnectedAt
    <3>3. \A s \in Prompt : removed' = {} /\ PlayedAt[s] <= job'["sync"].progress.to =>
            s \in pass'["sync"].listed \/ PlayedAt[s] < From'
      BY <1>1, <1>2, <2>1, <2>4, <2>5, <3>1 DEF StartIsKnown
    <3> QED BY <1>1, <2>4, <3>2, <3>3 DEF StartIsKnown
  <2> QED BY <1>2, <2>4, <2>6 DEF GapIsKnown, MissedMeansHeld, Missed
<1>6. CASE StillKept
  <2>1. HasWindow(job["sync"].progress) /\ StartIsKnown
    BY <1>1, <1>6 DEF StillKept, SyncTracks, JobIsOnTrack, InHand, GapIsKnown
  <2>2. /\ connection' = connection /\ job' = job /\ From' = From
        /\ worker["sync"].pc = "check" /\ worker'["sync"].pc = "fetch"
    BY <1>1, <1>6 DEF StillKept, GoTo, SyncTypes, From, WorkerRecord
  <2>3. StartIsKnown'
    BY <1>1, <1>2, <2>1, <2>2 DEF StartIsKnown
  <2> QED BY <1>2, <2>2, <2>3 DEF GapIsKnown, MissedMeansHeld, Missed
<1> QED BY <1>3, <1>4, <1>5, <1>6 DEF GapStep

\* completedThrough moves up to the end of a window all of which is stored, up to what is
\* before its start.
LEMMA FinishExposes ==
  ASSUME SyncTypes, SyncTypes', SyncTracks, GapIsKnown, Finish("sync")
  PROVE  GapIsKnown'
<1> DEFINE p == job["sync"].progress
<1>1. /\ "sync" \in Kind /\ p.to \in Int /\ connection.completed \in Int /\ connection.gap.to \in Int
      /\ From \in Int /\ now \in Int /\ \A s \in Prompt : PlayedAt[s] \in Nat /\ PlayedAt[s] >= 1
  BY SyncAssumption DEF SyncTypes, SyncAssumption, From, Progress, Kind
<1>2. /\ UNCHANGED <<now, removed, captured, lapsed, pass, job>> /\ worker'["sync"].pc = "close"
      /\ connection'.completed = Later(connection.completed, p.to) /\ connection'.gap = connection.gap
  BY <1>1 DEF Finish, GoTo, history, SyncTypes, WorkerRecord, Through
<1>3. HasWindow(p) /\ worker["sync"].pc = "finish" /\ WindowIsFixed("sync") /\ StartIsKnown
      /\ (pass["sync"].slipped \/ Wanted("sync") \subseteq Stored)
  BY <1>1 DEF Finish, SyncTracks, JobIsOnTrack, InHand, GapIsKnown, Track
<1>4. p.to <= now /\ (removed = {} => Wanted("sync") \subseteq Stored)
  BY <1>3 DEF WindowIsFixed
<1>5. From <= connection.gap.to \/ From <= Cursor
  BY <1>3 DEF StartIsKnown
<1>6. -1 <= connection'.completed /\ connection'.completed <= now /\ connection.completed <= connection'.completed
  BY <1>1, <1>2, <1>4 DEF GapIsKnown, Later
<1>7. MissedMeansHeld'
  <2> SUFFICES ASSUME NEW s \in Prompt, removed = {}, PlayedAt[s] <= connection'.completed, s \notin Stored
               PROVE  PlayedAt[s] < connection.gap.to
    BY <1>2 DEF MissedMeansHeld, Missed, Stored
  <2>1. PlayedAt[s] <= connection.completed => PlayedAt[s] < connection.gap.to
    BY DEF GapIsKnown, MissedMeansHeld, Missed, Stored
  <2>2. CASE PlayedAt[s] <= p.to
    <3>1. s \in pass["sync"].listed \/ PlayedAt[s] < From
      BY <1>3, <2>2 DEF StartIsKnown
    <3>2. PlayedAt[s] < From
      BY <1>1, <1>4, <3>1 DEF Wanted, From
    <3> QED BY <1>1, <1>5, <2>1, <3>2 DEF Cursor, Later, ConnectedAt
  <2> QED BY <1>1, <1>2, <2>1, <2>2 DEF Later
<1>8. StartIsKnown'
  <2>1. From' = From /\ (From <= Cursor => From' <= Cursor')
    BY <1>1, <1>2, <1>6 DEF From, Cursor, Later, ConnectedAt
  <2> QED BY <1>2, <1>3, <1>5, <2>1 DEF StartIsKnown
<1>9. connection'.gap.to <= Later(Horizon, ConnectedAt)'
  BY <1>2 DEF GapIsKnown, Horizon
<1> QED BY <1>2, <1>6, <1>7, <1>8, <1>9 DEF GapIsKnown

\* Every step keeps completedThrough and the gap true to what is stored.
LEMMA GapIsKept ==
  ASSUME SyncTypes, SyncTypes', ListIsKnown, SyncTracks, GapIsKnown, SyncNext
  PROVE  GapIsKnown'
<1>1. CASE ListStep
  <2>1. ListMovesOn /\ UNCHANGED <<job, worker, connection, pass>>
    BY <1>1, ListIsKept
  <2> QED BY <2>1, GapStays DEF From
<1>2. CASE JobStep("sweep")
  <2>1. ListMovesOn /\ job'["sync"] = job["sync"] /\ worker'["sync"] = worker["sync"] /\ pass'["sync"] = pass["sync"]
    BY <1>2, JobsStayApart DEF Kind
  <2>2. connection' = connection
    BY <1>2 DEF JobStep, Work, Schedule, Stop, FetchFails, Open, Resume, Fetch, BackwardWindow, StartOver, Persist,
       TurnPage, Finish, CloseJob, NothingToSweep
  <2> QED BY <2>1, <2>2, GapStays DEF From
<1>3. CASE JobStep("sync")
  <2>0. ListMovesOn /\ "sync" \in Kind
    BY <1>3, JobsStayApart DEF Kind
  <2>1. job["sync"].progress \in Progress
    BY <2>0 DEF SyncTypes
  <2>2. CASE Schedule("sync") \/ CloseJob("sync")
    <3>1. connection' = connection /\ job'["sync"].progress = NoProgress
      BY <2>0, <2>2 DEF Schedule, CloseJob, Released, SyncTypes
    <3> QED BY <2>0, <3>1, GapStays DEF HasWindow, NoProgress
  <2>3. CASE Stop("sync") \/ FetchFails("sync") \/ BackwardWindow("sync")
    <3>1. /\ connection' = connection /\ job'["sync"].progress = job["sync"].progress /\ pass' = pass
          /\ worker'["sync"].pc = "idle"
      BY <2>0, <2>3 DEF Stop, FetchFails, BackwardWindow, Released, SyncTypes, Idle, history
    <3> QED BY <2>0, <3>1, GapStays DEF From
  <2>4. CASE StartOver("sync")
    <3>1. /\ connection' = connection /\ pass' = pass /\ worker'["sync"].pc = "idle"
          /\ job'["sync"].progress = [job["sync"].progress EXCEPT !.page = 1, !.total = -1]
      BY <2>0, <2>4 DEF StartOver, Released, SyncTypes, Idle, history
    <3>2. job'["sync"].progress.from = From /\ job'["sync"].progress.to = job["sync"].progress.to
      BY <2>1, <3>1 DEF From, Progress
    <3> QED BY <2>0, <3>1, <3>2, GapStays
  <2>5. CASE Resume("sync")
    <3>1. /\ connection' = connection /\ job'["sync"].progress = job["sync"].progress /\ pass' = pass
          /\ worker'["sync"].pc = "fetch" /\ ~(From <= Horizon)
      BY <2>0, <2>5 DEF Resume, Taken, GoTo, SyncTypes, WorkerRecord, history, Aged, From
    <3>2. From \in Int /\ Horizon \in Int
      BY <2>0, <2>1, WindowsAreTyped DEF From, Progress
    <3> QED BY <2>0, <3>1, <3>2, GapStays DEF From
  <2>6. CASE Fetch("sync")
    <3>1. /\ connection' = connection /\ job' = job /\ worker["sync"].pc = "fetch"
          /\ worker'["sync"].pc = "answered"
      BY <2>0, <2>6 DEF Fetch, SyncTypes, WorkerRecord
    <3>2. pass'["sync"].listed = pass["sync"].listed
      BY <2>0, <2>6 DEF Fetch, SyncTypes, PassRecord
    <3> QED BY <2>0, <3>1, <3>2, GapStays DEF From
  <2>7. CASE Persist("sync")
    <3>1. /\ connection' = connection /\ job' = job /\ worker["sync"].pc = "answered" /\ pass' = pass
          /\ worker'["sync"].pc = "stored"
      BY <2>0, <2>7 DEF Persist, GoTo, SyncTypes, WorkerRecord, history
    <3> QED BY <2>0, <3>1, GapStays DEF From
  <2>8. CASE TurnPage("sync")
    <3>1. connection' = connection /\ worker["sync"].pc = "stored" /\ worker'["sync"].pc \in {"idle", "fetch", "finish"}
      <4>1. ASSUME NEW next \in {"fetch", "finish"}, NEW n
            PROVE  [Idle EXCEPT !.pages = n, !.pc = next].pc = next
        BY DEF Idle
      <4>2. \/ worker' = [worker EXCEPT !["sync"] = Idle]
            \/ \E next \in {"fetch", "finish"} : \E n :
                 worker' = [worker EXCEPT !["sync"] = [Idle EXCEPT !.pages = n, !.pc = next]]
        BY <2>8 DEF TurnPage, Released
      <4>3. worker["sync"].pc = "stored" /\ connection' = connection /\ worker \in [Kind -> WorkerRecord]
        BY <2>8 DEF TurnPage, SyncTypes
      <4>4. CASE worker' = [worker EXCEPT !["sync"] = Idle]
        <5>1. worker'["sync"].pc = "idle"
          BY <2>0, <4>3, <4>4 DEF Idle
        <5> QED BY <4>3, <5>1
      <4>5. ASSUME NEW next \in {"fetch", "finish"}, NEW n,
                   worker' = [worker EXCEPT !["sync"] = [Idle EXCEPT !.pages = n, !.pc = next]]
            PROVE  worker'["sync"].pc \in {"idle", "fetch", "finish"}
        BY <2>0, <4>1, <4>3, <4>5
      <4> QED BY <4>2, <4>3, <4>4, <4>5
    <3>2. pass'["sync"].listed = pass["sync"].listed
      BY <2>0, <2>8 DEF TurnPage, SyncTypes, PassRecord
    <3>3. job'["sync"].progress = Turned(job["sync"].progress, worker["sync"].total)
      BY <2>0, <2>8 DEF TurnPage, Released, SyncTypes
    <3>4. job'["sync"].progress.from = From /\ job'["sync"].progress.to = job["sync"].progress.to
      BY <2>1, <3>3 DEF Turned, From, Progress
    <3> QED BY <2>0, <3>1, <3>2, <3>4, GapStays
  <2> QED BY <1>3, <2>2, <2>3, <2>4, <2>5, <2>6, <2>7, <2>8, OpenExposes, GapStepExposes, FinishExposes DEF JobStep, Work
<1> QED BY <1>1, <1>2, <1>3, StepsOfSync DEF Kind

\* The invariant holds before the first sync.
LEMMA SyncStarts == SyncInit => WindowsInv
<1> SUFFICES ASSUME SyncInit PROVE WindowsInv
  OBVIOUS
<1>1. SyncTypes
  <2>1. NoProgress \in Progress /\ Idle \in WorkerRecord
    BY DEF NoProgress, Idle, Progress, WorkerRecord
  <2> QED BY <2>1, SyncAssumption DEF SyncInit, SyncTypes, SyncAssumption, NoGap, PassRecord
<1>2. ListIsKnown
  BY SyncAssumption DEF SyncInit, ListIsKnown, SyncAssumption
<1>3. SyncTracks
  BY DEF SyncInit, SyncTracks, JobIsOnTrack, InHand, HasWindow, NoProgress, Idle
<1>4. GapIsKnown
  BY SyncAssumption DEF SyncInit, GapIsKnown, MissedMeansHeld, Missed, HasWindow, NoProgress, NoGap, Horizon, Later, ConnectedAt,
     SyncAssumption, Kind
<1> QED BY <1>1, <1>2, <1>3, <1>4 DEF WindowsInv

\* Every step keeps the invariant.
LEMMA SyncKeeps == WindowsInv /\ [SyncNext]_syncVars => WindowsInv'
<1> SUFFICES ASSUME WindowsInv, [SyncNext]_syncVars PROVE WindowsInv'
  OBVIOUS
<1>1. SyncTypes /\ ListIsKnown /\ SyncTracks /\ GapIsKnown
  BY DEF WindowsInv
<1>2. CASE SyncNext
  <2>1. SyncTypes'
    BY <1>1, <1>2, StepsOfSync, ListStepIsTyped, JobStepIsTyped
  <2>2. ListIsKnown' /\ SyncTracks'
    BY <1>1, <1>2, <2>1, TracksAreKept DEF GapIsKnown
  <2>3. GapIsKnown'
    BY <1>1, <1>2, <2>1, GapIsKept
  <2> QED BY <2>1, <2>2, <2>3 DEF WindowsInv
<1>3. CASE UNCHANGED syncVars
  <2>1. SyncTypes'
    BY <1>1, <1>3 DEF SyncTypes, syncVars
  <2>2. ListMovesOn
    BY <1>1, <1>3 DEF ListMovesOn, syncVars, SyncTypes, Stored
  <2>3. ListIsKnown'
    BY <1>1, <1>3 DEF ListIsKnown, syncVars
  <2>4. \A k \in Kind : JobIsOnTrack(k)'
    BY <1>1, <1>3, <2>1, <2>2, JobStays DEF SyncTracks, syncVars
  <2>5. SyncTracks'
    BY <2>4 DEF SyncTracks
  <2>6. GapIsKnown'
    BY <1>1, <1>3, <2>1, <2>2, GapStays DEF syncVars, From
  <2> QED BY <2>1, <2>3, <2>5, <2>6 DEF WindowsInv
<1> QED BY <1>2, <1>3

\* The invariant implies what the runs check.
LEMMA WindowsInvIsEnough == WindowsInv => SyncTypeOK /\ WindowsAreWhole /\ MissedMeansHeld
<1> SUFFICES ASSUME WindowsInv PROVE SyncTypeOK /\ WindowsAreWhole /\ MissedMeansHeld
  OBVIOUS
<1>1. SyncTypes /\ SyncTracks /\ GapIsKnown
  BY DEF WindowsInv
<1>2. SyncTypeOK
  <2>1. now \in 0 .. EndOfTime /\ captured \subseteq Scrobble /\ connection.completed <= now
    BY <1>1 DEF SyncTypes, GapIsKnown
  <2>2. ASSUME NEW k \in Kind
        PROVE  /\ job[k].status \in {"pending", "running", "done"}
               /\ worker[k].pc # "idle" => job[k].status = "running"
               /\ job[k].status = "done" => job[k].progress = NoProgress
               /\ worker[k].pc \in {"answered", "stored", "finish", "close"} =>
                    HasWindow(job[k].progress) /\ job[k].progress.page >= 1
    BY <1>1 DEF SyncTypes, SyncTracks, JobIsOnTrack, InHand, WindowIsFixed
  <2> QED BY <2>1, <2>2 DEF SyncTypeOK
<1>3. WindowsAreWhole
  <2> SUFFICES ASSUME NEW k \in Kind, worker[k].pc \in {"finish", "close"}, ~pass[k].slipped
               PROVE  Wanted(k) \subseteq Stored
    BY DEF WindowsAreWhole, Wanted, Stored
  <2> QED BY <1>1 DEF SyncTracks, JobIsOnTrack, InHand, Track
<1> QED BY <1>1, <1>2, <1>3 DEF GapIsKnown

\* Whatever the provider adds or removes, and whichever worker fails, starts over or
\* hands the job on, a window that was fetched is stored but for removals that no page
\* count shows, and what a sync passed over without storing it lies before the end of the
\* connection's gap (fetchWindowPages, syncJob and sweepJob), which is what detection is
\* held by; progress and status agree. That it also lies after the gap's start is false.
THEOREM WindowsHold == SyncSpec => [](SyncTypeOK /\ NothingIsPassedOver)
<1>1. WindowsInv => SyncTypeOK /\ NothingIsPassedOver
  BY WindowsInvIsEnough DEF NothingIsPassedOver
<1> QED BY <1>1, SyncStarts, SyncKeeps, PTL DEF SyncSpec
=============================================================================
