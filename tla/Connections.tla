---------------------------- MODULE Connections ----------------------------
(***************************************************************************)
(* The life of one user's Last.fm connection: authorization, pause, resume *)
(* and disconnect, the worker jobs that capture scrobbles for it and clean *)
(* up after it, and the deletion of the account.                           *)
(*                                                                         *)
(* A connection document has an id and a revision.  A scrobble document    *)
(* holds the revision of the connection it was captured at.                *)
(* A refusal for reasons outside the model (the Last.fm account is another *)
(* user's, the provider fails) is an abort.  Documents of other users meet *)
(* these only in the index on the Last.fm name, which can only refuse.     *)
(***************************************************************************)
EXTENDS SnapshotTransactions, Naturals, FiniteSets

CONSTANTS Worker,          \* worker processes
          Caller,          \* API requests and webhooks under way
          Attempt,         \* authorization attempts
          MaxConnections,  \* bound on connection documents
          MaxRevision,     \* bound on revisions
          MaxScrobbles,    \* bound on the scrobbles of a connection
          MaxRequests,     \* bound on callbacks, mutations, webhooks, due times and faults
          MaxFaults,       \* bound on crashes, failures and leases lost by a live worker
          OwnerMayLeave    \* whether the owner's Clerk account may be deleted

ASSUME ConnectionsAssumption ==
  /\ Client = Worker \cup Caller /\ Worker \cap Caller = {}
  /\ MaxConnections \in Nat \ {0} /\ MaxRevision \in Nat \ {0} /\ MaxScrobbles \in Nat
  /\ MaxRequests \in Nat /\ MaxFaults \in Nat
  /\ OwnerMayLeave \in BOOLEAN

VARIABLES call,      \* the callback that each caller is serving
          run,       \* what each worker is doing
          expired,   \* running jobs whose leaseUntil has passed
          clerk,     \* the owner's account exists at Clerk
          gone,      \* the webhook has removed the account's data
          requests,
          faults

connVars == <<db, tx, call, run, expired, clerk, gone, requests, faults>>

Id       == 1..MaxConnections
Revision == 1..MaxRevision
AttemptDoc(a)    == <<"attempt", a>>
ConnectionDoc    == <<"connection", 0>>
ScrobbleDoc(i, n) == <<"scrobble", <<i, n>>>>
SyncDoc(i)       == <<"sync", i>>
CleanupDoc(i, r) == <<"cleanup", <<i, r>>>>
JobDocs == { SyncDoc(i) : i \in Id } \cup { CleanupDoc(i, r) : i \in Id, r \in Revision }
ScrobbleDocs(i) == { ScrobbleDoc(i, n) : n \in 1..MaxScrobbles }
Scrobbles == UNION { ScrobbleDocs(i) : i \in Id }
Docs == JobDocs \cup { AttemptDoc(a) : a \in Attempt } \cup Scrobbles \cup {ConnectionDoc}

NoOne  == "no one"
NoScrobble == 0
NoJob  == [status |-> "absent", holder |-> NoOne, id |-> 0, rev |-> 0]
Absent == [state |-> "absent", id |-> 0, rev |-> 0, since |-> 0]
NoCall == [pc |-> "idle"]
NoRun  == [pc |-> "idle"]
Open   == {"active", "paused"}

(***************************************************************************)
(* Jobs                                                                    *)
(***************************************************************************)
QueuedAs(i, r) == [status |-> "queued", holder |-> NoOne, id |-> i, rev |-> r]  \* slip: a status jobs do not have
\* The enqueue of connections.js puts a job in line whatever it was doing.
Requeued(i, r) == [status |-> "pending", holder |-> NoOne, id |-> i, rev |-> r]
\* The enqueueJob of worker.js only inserts a job, or reopens a done one.
Enqueued(job, i, r) == IF job.status \in {"absent", "done"} THEN Requeued(i, r) ELSE job
\* Cleanup takes the payload of every job of the connection.
Blank(job) == [job EXCEPT !.id = 0, !.rev = 0]

Leased(s, w) == /\ s[run[w].doc].status = "running" /\ s[run[w].doc].holder = w
                /\ run[w].doc \notin expired

\* Requests come, and things fail, while their bounds last.
Requested == requests + faults < MaxRequests /\ requests' = requests + 1
MayFail   == requests + faults < MaxRequests /\ faults < MaxFaults

(***************************************************************************)
(* Authorization                                                           *)
(***************************************************************************)
\* startAuthorization. The owner's session may outlive the Clerk account.
Start(a) ==
  /\ db[AttemptDoc(a)] = "unborn" /\ db[ConnectionDoc].state \notin Open
  /\ Write([db EXCEPT ![AttemptDoc(a)] = "open"])
  /\ UNCHANGED <<call, run, expired, clerk, gone, requests, faults>>

\* The provider failed, or the attempt ran out (a TTL index).
DropAttempt(a) ==
  /\ db[AttemptDoc(a)] \in {"open", "consumed"}
  /\ Write([db EXCEPT ![AttemptDoc(a)] = "deleted"])
  /\ UNCHANGED <<call, run, expired, clerk, gone, requests, faults>>

\* completeAuthorization: the attempt is consumed, the token is exchanged, the
\* owner still exists, and the rest is a transaction. (The owner's existence is
\* also checked first, which only refuses some callbacks earlier.)
Consume(c, a) ==
  /\ call[c].pc = "idle" /\ c \notin OpenClients
  /\ Requested
  /\ db[AttemptDoc(a)] = "open"
  /\ Write([db EXCEPT ![AttemptDoc(a)] = "consumed"])
  /\ call' = [call EXCEPT ![c] = [pc |-> "exchanging", attempt |-> a]]
  /\ UNCHANGED <<run, expired, clerk, gone, faults>>

Exchange(c) ==
  /\ call[c].pc = "exchanging" /\ clerk
  /\ call' = [call EXCEPT ![c].pc = "exchanged"]
  /\ UNCHANGED <<db, tx, run, expired, clerk, gone, requests, faults>>

BeginCallback(c) ==
  /\ call[c].pc = "exchanged"
  /\ Begin(c, [op |-> "callback", attempt |-> call[c].attempt])
  /\ call' = [call EXCEPT ![c] = NoCall]
  /\ UNCHANGED <<run, expired, clerk, gone, requests, faults>>

Refuse(c) ==
  /\ call[c].pc # "idle"
  /\ call' = [call EXCEPT ![c] = NoCall]
  /\ UNCHANGED <<db, tx, run, expired, clerk, gone, requests, faults>>

Running(c, op) == c \in OpenClients /\ tx[c].req.op = op
Settle(c, t, touched) ==
  CommitTouching(c, t, touched) /\ UNCHANGED <<call, run, expired, clerk, requests, faults>>

Ids(s) == { i \in Id : s[SyncDoc(i)].status # "absent" }      \* those in use so far

\* A first connection.
FencedAttempt(a) == {AttemptDoc(a)}
Connect(c) ==
  /\ Running(c, "callback")
  /\ LET s == tx[c].snap  a == tx[c].req.attempt  i == Cardinality(Ids(s)) + 1
     IN  /\ s[AttemptDoc(a)] = "consumed" /\ s[ConnectionDoc] = Absent /\ i \in Id
         /\ Settle(c, [s EXCEPT ![ConnectionDoc] = [state |-> "active", id |-> i, rev |-> 1, since |-> 1],
                                ![SyncDoc(i)] = Requeued(i, 1)],
                   FencedAttempt(a))
  /\ UNCHANGED gone

\* A disconnected connection that is not cleaned up yet starts over.
ForgetEvidence(s, i) == [d \in DOMAIN s |-> IF d \in ScrobbleDocs(i) THEN NoScrobble ELSE s[d]]
Reconnect(c) ==
  /\ Running(c, "callback")
  /\ LET s == tx[c].snap  a == tx[c].req.attempt  k == s[ConnectionDoc]
     IN  /\ s[AttemptDoc(a)] = "consumed" /\ k.state = "disconnected" /\ k.rev < MaxRevision
         /\ Settle(c, [ForgetEvidence(s, k.id) EXCEPT
                         ![ConnectionDoc] = [k EXCEPT !.state = "active", !.rev = @ + 1, !.since = k.rev + 1],
                         ![SyncDoc(k.id)] = Requeued(k.id, k.rev + 1)],
                   FencedAttempt(a))
  /\ UNCHANGED gone

(***************************************************************************)
(* mutateConnection                                                        *)
(***************************************************************************)
BeginMutation(c) ==
  /\ Requested
  /\ call[c].pc = "idle"
  /\ db[ConnectionDoc].state \in Open
  /\ \E action \in {"pause", "resume", "disconnect"} : Begin(c, [op |-> action])
  /\ UNCHANGED <<call, run, expired, clerk, gone, faults>>

Pause(c) ==
  /\ Running(c, "pause")
  /\ LET s == tx[c].snap  k == s[ConnectionDoc]
     IN  /\ k.state = "active" /\ k.rev < MaxRevision
         /\ Settle(c, [s EXCEPT ![ConnectionDoc] = [k EXCEPT !.state = "paused", !.rev = @ + 1]], {})
  /\ UNCHANGED gone

Resume(c) ==
  /\ Running(c, "resume")
  /\ LET s == tx[c].snap  k == s[ConnectionDoc]
     IN  /\ k.state = "paused" /\ k.rev < MaxRevision
         /\ Settle(c, [s EXCEPT ![ConnectionDoc] = [k EXCEPT !.state = "active", !.rev = @ + 1],
                                ![SyncDoc(k.id)] = Requeued(k.id, k.rev + 1)],
                   {SyncDoc(k.id)})
  /\ UNCHANGED gone

Disconnect(c) ==
  /\ Running(c, "disconnect")
  /\ LET s == tx[c].snap  k == s[ConnectionDoc]
     IN  /\ k.state \in Open /\ k.rev < MaxRevision
         /\ Settle(c, [s EXCEPT ![ConnectionDoc] = [k EXCEPT !.state = "disconnected", !.rev = @ + 1],
                                ![CleanupDoc(k.id, k.rev + 1)] = Requeued(k.id, k.rev + 1)], {})
  /\ UNCHANGED gone

(***************************************************************************)
(* The owner's account is deleted                                          *)
(***************************************************************************)
LeaveClerk ==
  /\ OwnerMayLeave /\ clerk
  /\ clerk' = FALSE
  /\ UNCHANGED <<db, tx, call, run, expired, gone, requests, faults>>

\* The webhook: Clerk may deliver it late, more than once, or never.
BeginDeletion(c) ==
  /\ Requested
  /\ ~clerk /\ call[c].pc = "idle"
  /\ Begin(c, [op |-> "delete"])
  /\ UNCHANGED <<call, run, expired, clerk, gone, faults>>

KeptAttempts(s) == s                        \* slip: the attempts stay
DropAttempts(s) ==
  [d \in DOMAIN s |-> IF \E a \in Attempt : d = AttemptDoc(a) /\ s[d] # "unborn" THEN "deleted" ELSE s[d]]

\* The connection k goes, with its evidence and the payloads of its jobs.
Without(s, k) ==
  [d \in DOMAIN s |->
     IF d = ConnectionDoc THEN Absent
     ELSE IF d \in ScrobbleDocs(k.id) THEN NoScrobble
     ELSE IF d \in JobDocs /\ s[d].id = k.id THEN Blank(s[d])
     ELSE s[d]]

DeleteAccount(c) ==
  /\ Running(c, "delete")
  /\ LET s == DropAttempts(tx[c].snap)  k == s[ConnectionDoc]
     IN  Settle(c, IF k = Absent THEN s ELSE Without(s, k), {})
  /\ gone' = TRUE

\* These transactions are not run again: a conflict is the caller's to retry.
GiveUp(c) ==
  /\ c \in Caller /\ Abort(c)
  /\ UNCHANGED <<call, run, expired, clerk, gone, requests, faults>>

(***************************************************************************)
(* The worker                                                              *)
(***************************************************************************)
Goes(w, pc) == run' = [run EXCEPT ![w].pc = pc]
At(w, pc, docs) == run[w].pc = pc /\ run[w].doc \in docs
SyncDocs    == { SyncDoc(i) : i \in Id }
CleanupDocs == JobDocs \ SyncDocs

Acquirable(j) == db[j].status = "pending" \/ (db[j].status = "running" /\ j \in expired)
Acquire(w, j) ==
  /\ run[w].pc = "idle" /\ w \notin OpenClients
  /\ Acquirable(j)
  /\ Write([db EXCEPT ![j].status = "running", ![j].holder = w])
  /\ run' = [run EXCEPT ![w] = [pc |-> "acquired", doc |-> j, id |-> db[j].id, rev |-> db[j].rev]]
  /\ expired' = expired \ {j}
  /\ UNCHANGED <<call, clerk, gone, requests, faults>>

\* The connection, if it still is what the job is about.
IsFor(k, w, state) == k.id = run[w].id /\ k.rev = run[w].rev /\ k.state = state

ReadConnection(w) ==
  /\ At(w, "acquired", SyncDocs)
  /\ Goes(w, IF IsFor(db[ConnectionDoc], w, "active") THEN "read" ELSE "closing")
  /\ UNCHANGED <<db, tx, call, expired, clerk, gone, requests, faults>>

OwnerIsThere(w) ==
  /\ At(w, "read", SyncDocs) /\ clerk
  /\ Goes(w, "fetching")
  /\ UNCHANGED <<db, tx, call, expired, clerk, gone, requests, faults>>

\* The connection changes as the worker finds it to be, in a single update.
WorkerMoves(w, state, pc) ==
  /\ At(w, "read", SyncDocs)
  /\ IF IsFor(db[ConnectionDoc], w, "active")
     THEN /\ db[ConnectionDoc].rev < MaxRevision
          /\ Write([db EXCEPT ![ConnectionDoc] = [db[ConnectionDoc] EXCEPT !.state = state, !.rev = @ + 1]])
          /\ Goes(w, pc)
     ELSE Goes(w, "closing") /\ UNCHANGED <<db, tx>>
  /\ UNCHANGED <<call, expired, clerk, gone, requests, faults>>

PilotEnded(w)   == WorkerMoves(w, "paused", "closing")
OwnerIsGone(w)  == ~clerk /\ WorkerMoves(w, "disconnected", "orphaned")

EnqueueCleanup(w) ==
  /\ At(w, "orphaned", SyncDocs)
  /\ LET i == run[w].id  r == run[w].rev + 1
     IN  Write([db EXCEPT ![CleanupDoc(i, r)] = IF @.status = "absent" THEN Requeued(i, r) ELSE @])
  /\ Goes(w, "closing")
  /\ UNCHANGED <<call, expired, clerk, gone, requests, faults>>

\* A page is fetched under the lease, and stored in a transaction that fences
\* the job and the connection; so does the one that completes the window.
StartPage(w) ==
  /\ At(w, "fetching", SyncDocs) /\ Leased(db, w)
  /\ Begin(w, [op |-> "sync"])
  /\ Goes(w, "storing")
  /\ UNCHANGED <<call, expired, clerk, gone, requests, faults>>

Unfenced(w) == {}                            \* slip: neither is fenced
Fenced(w) == {run[w].doc, ConnectionDoc}

\* Scrobbles that are new to the connection get documents of their own, here
\* the next free one; a page may also bring none.
Free(s, i) == { n \in 1..MaxScrobbles : s[ScrobbleDoc(i, n)] = NoScrobble }
Pages(s, i, r) ==
  {s} \cup { [s EXCEPT ![ScrobbleDoc(i, n)] = r] : n \in { x \in Free(s, i) : \A y \in Free(s, i) : x <= y } }
CommitPage(w) ==
  /\ At(w, "storing", SyncDocs) /\ Leased(tx[w].snap, w)
  /\ IsFor(tx[w].snap[ConnectionDoc], w, "active")
  /\ \E t \in Pages(tx[w].snap, run[w].id, run[w].rev) : CommitTouching(w, t, Fenced(w))
  /\ \E pc \in {"fetching", "closing"} : Goes(w, pc)
  /\ UNCHANGED <<call, expired, clerk, gone, requests, faults>>

StartCleanup(w) ==
  /\ At(w, "acquired", CleanupDocs) /\ Leased(db, w)
  /\ Begin(w, [op |-> "cleanup"])
  /\ Goes(w, "cleaning")
  /\ UNCHANGED <<call, expired, clerk, gone, requests, faults>>

AnyRevision(k, w) == k.id = run[w].id         \* slip: a newer connection is cleaned up too
Cleanable(k, w) == IsFor(k, w, "disconnected")
CommitCleanup(w) ==
  /\ At(w, "cleaning", CleanupDocs) /\ Leased(tx[w].snap, w)
  /\ LET s == tx[w].snap  k == s[ConnectionDoc]
         t == Without(DropAttempts(s), k)
     IN  CommitTouching(w, IF Cleanable(k, w) THEN [t EXCEPT ![run[w].doc] = s[run[w].doc]] ELSE s, {run[w].doc})
  /\ Goes(w, "closing")
  /\ UNCHANGED <<call, expired, clerk, gone, requests, faults>>

RetryJob(w) == w \in OpenClients /\ Leased(db, w) /\ Retry(w) /\ UNCHANGED <<call, run, expired, clerk, gone, requests, faults>>

\* The job leaves its worker as job, by an update that the lease guards.
End(w, job) ==
  /\ Leased(db, w)
  /\ Write([db EXCEPT ![run[w].doc] = [job EXCEPT !.holder = NoOne]])
  /\ run' = [run EXCEPT ![w] = NoRun]
  /\ UNCHANGED <<call, expired, clerk, gone, requests>>

Held(w) == db[run[w].doc]

\* A completed job gets the payload that its worker knew; a cleanup loses it.
Close(w) ==
  /\ run[w].pc = "closing"
  /\ End(w, IF run[w].doc \in CleanupDocs THEN [Blank(Held(w)) EXCEPT !.status = "done"]
            ELSE [Held(w) EXCEPT !.status = "done", !.id = run[w].id, !.rev = run[w].rev])
  /\ UNCHANGED faults

\* A window with too many pages goes on in a later run.
Continue(w) ==
  /\ At(w, "fetching", SyncDocs)
  /\ End(w, [Held(w) EXCEPT !.status = "pending"])
  /\ UNCHANGED faults

\* connection_revision_changed is final.
Supersede(w) ==
  /\ At(w, "storing", SyncDocs) /\ ~IsFor(tx[w].snap[ConnectionDoc], w, "active")
  /\ tx' = [c \in OpenClients \ {w} |-> tx[c]]
  /\ Goes(w, "superseded")
  /\ UNCHANGED <<db, call, expired, clerk, gone, requests, faults>>

Superseded(w) ==
  /\ run[w].pc = "superseded"
  /\ End(w, [Held(w) EXCEPT !.status = "done"])
  /\ UNCHANGED faults

\* Other errors: the job is tried again, or, if it is a sync, may be given up.
\* (An error inside a transaction is one before it, since nothing was written.)
Fail(w) ==
  /\ run[w].pc \in {"acquired", "read", "fetching", "orphaned"} /\ MayFail
  /\ faults' = faults + 1
  /\ \E status \in {"pending"} \cup (IF run[w].doc \in SyncDocs THEN {"done"} ELSE {}) :
       End(w, [Held(w) EXCEPT !.status = status])

Drop(w) ==
  /\ run' = [run EXCEPT ![w] = NoRun]
  /\ tx' = [c \in OpenClients \ {w} |-> tx[c]]
  /\ UNCHANGED <<db, call, expired, clerk, gone, requests>>

\* job_lease_lost, and a process that dies.
LoseLease(w) == run[w].pc \notin {"idle", "due", "orphaned"} /\ ~Leased(db, w) /\ Drop(w) /\ UNCHANGED faults
Crash(w) == run[w].pc # "idle" /\ MayFail /\ faults' = faults + 1 /\ Drop(w)

\* Time passes.
HolderAlive(j) == \E w \in Worker : run[w].pc \notin {"idle", "due"} /\ run[w].doc = j /\ db[j].holder = w
Expire(j) ==
  /\ db[j].status = "running" /\ j \notin expired
  /\ HolderAlive(j) => MayFail
  /\ expired' = expired \cup {j}
  /\ faults' = IF HolderAlive(j) THEN faults + 1 ELSE faults
  /\ UNCHANGED <<db, tx, call, run, clerk, gone, requests>>

\* scheduleDueSyncJobs: due connections are read, and then put in line.
ReadDue(w) ==
  /\ Requested
  /\ run[w].pc = "idle" /\ w \notin OpenClients /\ db[ConnectionDoc].state = "active"
  /\ run' = [run EXCEPT ![w] = [pc |-> "due", id |-> db[ConnectionDoc].id, rev |-> db[ConnectionDoc].rev]]
  /\ UNCHANGED <<db, tx, call, expired, clerk, gone, faults>>

EnqueueDue(w) ==
  /\ run[w].pc = "due"
  /\ Write([db EXCEPT ![SyncDoc(run[w].id)] = Enqueued(@, run[w].id, run[w].rev)])
  /\ run' = [run EXCEPT ![w] = NoRun]
  /\ UNCHANGED <<call, expired, clerk, gone, requests, faults>>

(***************************************************************************)
(* The specification                                                       *)
(***************************************************************************)
Unused == [d \in Docs |-> CASE d[1] = "attempt" -> "unborn"
                            [] d[1] = "connection" -> Absent
                            [] d[1] = "scrobble" -> NoScrobble
                            [] OTHER -> NoJob]
\* Never connected, or just connected.
FirstConnections ==
  {Unused, [Unused EXCEPT ![ConnectionDoc] = [state |-> "active", id |-> 1, rev |-> 1, since |-> 1],
                          ![SyncDoc(1)] = Requeued(1, 1)]}

ConnectionsInit ==
  /\ db \in FirstConnections
  /\ tx = [c \in {} |-> {}]
  /\ call = [c \in Caller |-> NoCall] /\ run = [w \in Worker |-> NoRun]
  /\ expired = {} /\ clerk = TRUE /\ gone = FALSE /\ requests = 0 /\ faults = 0

ApiNext ==
  \/ \E a \in Attempt : Start(a) \/ DropAttempt(a) \/ (\E c \in Caller : Consume(c, a))
  \/ \E c \in Caller : \/ Exchange(c) \/ BeginCallback(c) \/ Refuse(c) \/ Connect(c) \/ Reconnect(c)
                       \/ BeginMutation(c) \/ Pause(c) \/ Resume(c) \/ Disconnect(c)
                       \/ BeginDeletion(c) \/ DeleteAccount(c) \/ GiveUp(c)
  \/ LeaveClerk

\* The steps that a live worker takes with a job it has.
JobStep(w) ==
  \/ ReadConnection(w) \/ OwnerIsThere(w) \/ OwnerIsGone(w) \/ EnqueueCleanup(w)
  \/ StartPage(w) \/ CommitPage(w) \/ StartCleanup(w) \/ CommitCleanup(w) \/ RetryJob(w)
  \/ Supersede(w) \/ Superseded(w) \/ Continue(w) \/ Close(w) \/ LoseLease(w) \/ EnqueueDue(w)

ConnectionsNext ==
  \/ ApiNext
  \/ \E w \in Worker : JobStep(w) \/ PilotEnded(w) \/ Fail(w) \/ Crash(w) \/ ReadDue(w)
  \/ \E j \in JobDocs : Expire(j) \/ (\E w \in Worker : Acquire(w, j))

ConnectionsSpec == ConnectionsInit /\ [][ConnectionsNext]_connVars

\* A worker goes on with the job it has; leases run out; and whatever else is
\* due, a pending job is acquired in the end, since acquireJob takes them by
\* runAt.  Nothing is assumed of the owner, of Clerk and of its webhook.
FairConnectionsSpec ==
  /\ ConnectionsSpec
  /\ \A w \in Worker : WF_connVars(JobStep(w))
  /\ \A j \in CleanupDocs : WF_connVars(Expire(j)) /\ SF_connVars(\E w \in Worker : Acquire(w, j))

(***************************************************************************)
(* Properties                                                              *)
(***************************************************************************)
\* Documents, calls and runs have their types.
JobValue == [status: {"absent", "pending", "running", "done"}, holder: Worker \cup {NoOne},
             id: Id \cup {0}, rev: Revision \cup {0}]
ConnectionValue == [state: Open \cup {"disconnected"}, id: Id, rev: Revision, since: Revision]
ConnectionsTypeOK ==
  /\ DOMAIN db = Docs /\ SnapshotShape
  /\ db[ConnectionDoc] \in ConnectionValue \cup {Absent}
  /\ \A a \in Attempt : db[AttemptDoc(a)] \in {"unborn", "open", "consumed", "deleted"}
  /\ \A d \in Scrobbles : db[d] \in Revision \cup {NoScrobble}
  /\ \A j \in JobDocs : db[j] \in JobValue
  /\ \A c \in Caller : call[c].pc \in {"idle", "exchanging", "exchanged"}
  /\ \A w \in Worker : run[w].pc \in {"idle", "due", "acquired", "read", "fetching", "storing",
                                      "orphaned", "cleaning", "closing", "superseded"}
  /\ expired \subseteq JobDocs /\ clerk \in BOOLEAN /\ gone \in BOOLEAN 
  /\ requests \in 0..MaxRequests /\ faults \in 0..MaxFaults

\* Scrobbles never outlive their connection: a page that is being stored when
\* the connection is cleaned up or the account is deleted conflicts or finds
\* the connection gone (persistPage, cleanupJob, cleanupUserData).
NoOrphanEvidence ==
  \A i \in Id : \A d \in ScrobbleDocs(i) : db[d] # NoScrobble => db[ConnectionDoc].id = i

\* "Reconnection starts from the new connection time": nothing captured under
\* an earlier authorization is left (completeAuthorization).
NothingFromBefore ==
  LET k == db[ConnectionDoc]
  IN  k # Absent => \A d \in ScrobbleDocs(k.id) : db[d] # NoScrobble => db[d] >= k.since

\* "Disconnect fences in-flight jobs", and so does pause: scrobbles are stored
\* only at the revision the job was enqueued for, while it is active.
OnlyActiveCaptures ==
  [][ \A i \in Id : \A d \in ScrobbleDocs(i) :
        LET k == db[ConnectionDoc]
        IN  db'[d] \notin {db[d], NoScrobble} => k.state = "active" /\ k.id = i /\ k.rev = db'[d] ]_connVars

\* "If it won the race, the callback must stop here": once the account's data
\* is removed, no callback, worker or request brings back a connection
\* (cleanupUserData, completeAuthorization).
DeletedStaysDeleted ==
  gone => db[ConnectionDoc] = Absent /\ \A d \in Scrobbles : db[d] = NoScrobble

\* A connection is only ever removed when its account is deleted or while it is
\* disconnected: a cleanup never takes one that was authorized again (cleanupJob).
OnlyDisconnectedIsCleaned ==
  [][ db[ConnectionDoc] # Absent /\ db'[ConnectionDoc] = Absent
      => gone' \/ db[ConnectionDoc].state = "disconnected" ]_connVars

\* All that is stored belongs to the connection of the day; what is stored and what
\* is removed follows its state.
EvidenceIsOfTheConnection == NoOrphanEvidence /\ NothingFromBefore
TheStateDecides == OnlyActiveCaptures /\ OnlyDisconnectedIsCleaned

\* "Disconnect fences in-flight jobs and schedules private evidence cleanup":
\* a disconnected connection is cleaned up, or authorized again
\* (mutateConnection, syncJob, cleanupJob).
DisconnectedIsCleaned ==
  db[ConnectionDoc].state = "disconnected" ~> db[ConnectionDoc].state # "disconnected"
=============================================================================
