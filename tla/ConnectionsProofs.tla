------------------------- MODULE ConnectionsProofs -------------------------
(***************************************************************************)
(* Proofs about Connections.  Whoever stores or removes scrobbles writes   *)
(* the connection document too, so a transaction that did not miss the     *)
(* connection did not miss its evidence.  The deletion of the account      *)
(* writes every attempt that it knows of, and an attempt it does not know  *)
(* of began after the Clerk account was gone: either way no callback can   *)
(* still connect.                                                          *)
(***************************************************************************)
EXTENDS Connections, TransactionProofs, FiniteSetTheorems

(***************************************************************************)
(* The invariant                                                           *)
(***************************************************************************)
AttemptState == {"unborn", "open", "consumed", "deleted"}

Typed(s) ==
  /\ DOMAIN s = Docs
  /\ s[ConnectionDoc] \in ConnectionValue \cup {Absent}
  /\ \A a \in Attempt : s[AttemptDoc(a)] \in AttemptState
  /\ \A d \in Scrobbles : s[d] \in Revision \cup {NoScrobble}
  /\ \A j \in JobDocs : s[j] \in JobValue

\* Every transaction works on typed documents.
StoreOK == Transactions /\ Typed(db) /\ \A c \in OpenClients : Typed(tx[c].snap)

JobSteps == {"acquired", "read", "fetching", "storing", "orphaned", "cleaning", "closing", "superseded"}
IdleRun  == {NoRun}
DueRun   == [pc: {"due"}, id: Id, rev: Revision]
JobRun   == [pc: JobSteps, doc: JobDocs, id: Id \cup {0}, rev: Revision \cup {0}]
AnyRun   == IdleRun \cup DueRun \cup JobRun

\* A worker has a transaction open while it stores or cleans; an orphaned
\* connection had a revision to spare.
RunsOK ==
  /\ run \in [Worker -> AnyRun]
  /\ \A w \in Worker :
       /\ w \in OpenClients <=> run[w].pc \in {"storing", "cleaning"}
       /\ run[w].pc = "orphaned" => run[w].id \in Id /\ run[w].rev + 1 \in Revision

AnyCall == {NoCall} \cup [pc: {"exchanging", "exchanged"}, attempt: Attempt]
AnyRequest == [op: {"pause", "resume", "disconnect", "delete"}] \cup [op: {"callback"}, attempt: Attempt]
CallsOK ==
  /\ call \in [Caller -> AnyCall]
  /\ \A c \in Caller \cap OpenClients : tx[c].req \in AnyRequest

CountsOK ==
  /\ expired \subseteq JobDocs /\ clerk \in BOOLEAN /\ gone \in BOOLEAN
  /\ requests \in 0..MaxRequests /\ faults \in 0..MaxFaults

\* Evidence belongs to the connection of the day and is not older than it, and
\* who did not miss the connection did not miss any evidence.
EvidenceIn(s) ==
  /\ \A i \in Id : \A d \in ScrobbleDocs(i) : s[d] # NoScrobble => s[ConnectionDoc].id = i
  /\ s[ConnectionDoc] # Absent =>
       /\ s[ConnectionDoc].since <= s[ConnectionDoc].rev
       /\ \A d \in Scrobbles : s[d] # NoScrobble => s[d] >= s[ConnectionDoc].since

EvidenceOK ==
  /\ EvidenceIn(db)
  /\ \A c \in OpenClients : ConnectionDoc \notin tx[c].missed =>
       \A d \in Scrobbles : tx[c].snap[d] = db[d]

\* The attempts of callbacks that were consumed, and of those past their exchange.
Consumed(c, a) == call[c].pc # "idle" /\ call[c].attempt = a
Exchanged(c, a) ==
  \/ call[c].pc = "exchanged" /\ call[c].attempt = a
  \/ c \in OpenClients /\ tx[c].req.op = "callback" /\ tx[c].req.attempt = a

Deletes(c) == c \in OpenClients /\ tx[c].req.op = "delete"

Past == {"consumed", "deleted"}

\* Only before the Clerk account went could a callback get past its exchange.
DeletionOK ==
  /\ gone => ~clerk /\ db[ConnectionDoc] = Absent
  /\ \A c \in OpenClients, a \in Attempt :
       tx[c].snap[AttemptDoc(a)] = "deleted" => db[AttemptDoc(a)] = "deleted"
  /\ \A c \in Caller, a \in Attempt : Consumed(c, a) \/ Exchanged(c, a) => db[AttemptDoc(a)] \in Past
  /\ \A c \in Caller, a \in Attempt : Exchanged(c, a) =>
       /\ gone => db[AttemptDoc(a)] = "deleted"
       /\ \A x \in Caller : Deletes(x) => tx[x].snap[AttemptDoc(a)] \in Past
  /\ \A x \in Caller : Deletes(x) =>
       /\ ~clerk
       /\ tx[x].snap[ConnectionDoc] = Absent /\ db[ConnectionDoc] # Absent =>
            \E a \in Attempt : tx[x].snap[AttemptDoc(a)] = "consumed" /\ AttemptDoc(a) \in tx[x].missed

ConnectionsInv == StoreOK /\ RunsOK /\ CallsOK /\ CountsOK /\ EvidenceOK /\ DeletionOK

(***************************************************************************)
(* Documents                                                               *)
(***************************************************************************)
\* Documents of two kinds are two documents.
LEMMA DocKinds ==
  /\ ConnectionDoc \in Docs /\ \A a \in Attempt : AttemptDoc(a) \in Docs
  /\ JobDocs \subseteq Docs /\ Scrobbles \subseteq Docs
  /\ \A i \in Id : SyncDoc(i) \in JobDocs /\ ScrobbleDocs(i) \subseteq Scrobbles
  /\ \A i \in Id, r \in Revision : CleanupDoc(i, r) \in JobDocs
  /\ \A j \in JobDocs : j # ConnectionDoc /\ j \notin Scrobbles /\ \A a : j # AttemptDoc(a)
  /\ \A d \in Scrobbles : d # ConnectionDoc /\ \A a : d # AttemptDoc(a)
  /\ \A a : AttemptDoc(a) # ConnectionDoc
  /\ \A a, b : AttemptDoc(a) = AttemptDoc(b) => a = b
  /\ \A i, x \in Id : \A d : d \in ScrobbleDocs(i) /\ d \in ScrobbleDocs(x) => i = x
  /\ \A d \in Scrobbles : \E i \in Id : d \in ScrobbleDocs(i)
BY DEF Docs, JobDocs, Scrobbles, ScrobbleDocs, ScrobbleDoc, SyncDoc, CleanupDoc, AttemptDoc, ConnectionDoc

\* The first id and the first revision exist, the next one does below the limit, and no
\* connection is absent.
LEMMA Bounds ==
  /\ 1 \in Id /\ 1 \in Revision /\ 0 \notin Id /\ NoScrobble \notin Revision /\ NoScrobble = 0
  /\ Id \subseteq Nat /\ Revision \subseteq Nat
  /\ \A r \in Revision : r < MaxRevision => r + 1 \in Revision
  /\ Absent.id = 0 /\ Absent.state = "absent" /\ Absent \notin ConnectionValue
BY ConnectionsAssumption DEF Id, Revision, NoScrobble, Absent, ConnectionValue, Open

(***************************************************************************)
(* Steps of the database                                                   *)
(***************************************************************************)
\* A commit of typed documents.
LEMMA StoreCommitted ==
  ASSUME StoreOK, NEW c \in OpenClients, NEW t, Typed(t), NEW touched \in SUBSET Docs,
         CommitTouching(c, t, touched)
  PROVE  StoreOK' /\ Committed(c, t, touched \cup Changed(tx[c].snap, t))
<1> DEFINE W == touched \cup Changed(tx[c].snap, t)
<1>1. DOMAIN t = Docs /\ DOMAIN db = Docs
  BY DEF StoreOK, Typed
<1>2. Transactions' /\ Committed(c, t, W)
  BY <1>1, CommitTouchingKeepsTransactions DEF StoreOK
<1> HIDE DEF W
<1>3. \A d \in Docs : db'[d] = t[d] \/ db'[d] = db[d]
  BY <1>1, <1>2 DEF Committed
<1>4. Typed(db')
  <2>1. DOMAIN db' = Docs
    BY <1>1, <1>2 DEF Committed
  <2>2. db'[ConnectionDoc] \in ConnectionValue \cup {Absent}
    BY <1>3, DocKinds DEF StoreOK, Typed
  <2>3. \A a \in Attempt : db'[AttemptDoc(a)] \in AttemptState
    BY <1>3, DocKinds DEF StoreOK, Typed
  <2>4. \A d \in Scrobbles : db'[d] \in Revision \cup {NoScrobble}
    BY <1>3, DocKinds DEF StoreOK, Typed
  <2>5. \A j \in JobDocs : db'[j] \in JobValue
    BY <1>3, DocKinds DEF StoreOK, Typed
  <2> QED BY <2>1, <2>2, <2>3, <2>4, <2>5 DEF Typed
<1>5. \A x \in OpenClients' : x \in OpenClients /\ tx'[x].snap = tx[x].snap
  BY <1>2 DEF Committed, FallBehind
<1> QED BY <1>2, <1>4, <1>5 DEF StoreOK, W

\* A write of typed documents.
LEMMA StoreWritten ==
  ASSUME StoreOK, NEW t, Typed(t), Write(t)
  PROVE  StoreOK' /\ db' = t /\ FallBehind(OpenClients, Changed(db, t))
<1>1. DOMAIN t = Docs /\ DOMAIN db = Docs /\ db' = t
  BY DEF StoreOK, Typed, Write
<1>2. Transactions' /\ FallBehind(OpenClients, Changed(db, t))
  BY <1>1, WriteKeepsTransactions DEF StoreOK
<1>3. \A x \in OpenClients' : x \in OpenClients /\ tx'[x].snap = tx[x].snap
  BY <1>2 DEF FallBehind
<1> QED BY <1>1, <1>2, <1>3 DEF StoreOK

\* Evidence changes together with the connection.
LEMMA EvidenceAdvances ==
  ASSUME EvidenceOK, EvidenceIn(db'), NEW others, others \subseteq OpenClients, NEW W, FallBehind(others, W),
         ConnectionDoc \notin W => \A d \in Scrobbles : db'[d] = db[d]
  PROVE  EvidenceOK'
<1> SUFFICES ASSUME NEW c \in OpenClients', ConnectionDoc \notin tx'[c].missed, NEW d \in Scrobbles
             PROVE  tx'[c].snap[d] = db'[d]
  BY DEF EvidenceOK, EvidenceIn
<1>1. c \in OpenClients /\ tx'[c].snap = tx[c].snap /\ tx'[c].missed = tx[c].missed \cup W
  BY DEF FallBehind
<1> QED BY <1>1 DEF EvidenceOK

\* A step that leaves both alone.
LEMMA EvidenceStays ==
  ASSUME EvidenceOK, NEW others, others \subseteq OpenClients, NEW W, FallBehind(others, W),
         db'[ConnectionDoc] = db[ConnectionDoc], \A d \in Scrobbles : db'[d] = db[d]
  PROVE  EvidenceOK'
<1>1. EvidenceIn(db')
  BY DocKinds DEF EvidenceOK, EvidenceIn
<1> QED BY <1>1, EvidenceAdvances

\* Attempts only go on, and a connection that appears is a deletion's conflict.
LEMMA DeletionAdvances ==
  ASSUME DeletionOK, NEW others, others \subseteq OpenClients, NEW W, FallBehind(others, W),
         UNCHANGED <<call, clerk>>,
         \A a \in Attempt : db[AttemptDoc(a)] \in Past => db'[AttemptDoc(a)] \in Past,
         \A a \in Attempt : db[AttemptDoc(a)] = "deleted" => db'[AttemptDoc(a)] = "deleted",
         \/ gone' = gone /\ (gone => db'[ConnectionDoc] = Absent)
         \/ /\ ~clerk /\ db'[ConnectionDoc] = Absent
            /\ \A c \in Caller, a \in Attempt : Exchanged(c, a) => db'[AttemptDoc(a)] = "deleted",
         \/ db'[ConnectionDoc] # Absent => db[ConnectionDoc] # Absent
         \/ \A x \in Caller \cap others : tx[x].req.op = "delete" =>
              \E a \in Attempt : tx[x].snap[AttemptDoc(a)] = "consumed" /\ AttemptDoc(a) \in W
  PROVE  DeletionOK'
<1>1. \A c \in OpenClients' : /\ c \in OpenClients /\ tx'[c].snap = tx[c].snap /\ tx'[c].req = tx[c].req
                              /\ tx'[c].missed = tx[c].missed \cup W
  BY DEF FallBehind
<1>2. \A c \in Caller, a \in Attempt : Exchanged(c, a)' => Exchanged(c, a)
  BY <1>1 DEF Exchanged
<1>3. \A c \in Caller, a \in Attempt : Consumed(c, a)' => Consumed(c, a)
  BY DEF Consumed
<1>4. \A x \in Caller : Deletes(x)' => Deletes(x) /\ x \in others /\ tx[x].req.op = "delete"
  BY <1>1 DEF Deletes, FallBehind
<1>5. gone' => ~clerk' /\ db'[ConnectionDoc] = Absent
  BY DEF DeletionOK
<1>6. \A c \in OpenClients', a \in Attempt :
        tx'[c].snap[AttemptDoc(a)] = "deleted" => db'[AttemptDoc(a)] = "deleted"
  BY <1>1 DEF DeletionOK
<1>7. \A c \in Caller, a \in Attempt : Consumed(c, a)' \/ Exchanged(c, a)' => db'[AttemptDoc(a)] \in Past
  BY <1>2, <1>3 DEF DeletionOK
<1>8. ASSUME NEW c \in Caller, NEW a \in Attempt, Exchanged(c, a)'
      PROVE  /\ gone' => db'[AttemptDoc(a)] = "deleted"
             /\ \A x \in Caller : Deletes(x)' => tx'[x].snap[AttemptDoc(a)] \in Past
  <2>1. Exchanged(c, a)
    BY <1>2, <1>8
  <2>2. gone' => db'[AttemptDoc(a)] = "deleted"
    BY <2>1 DEF DeletionOK
  <2> QED BY <1>1, <1>4, <2>1, <2>2 DEF DeletionOK, Deletes
<1>9. ASSUME NEW x \in Caller, Deletes(x)'
      PROVE  /\ ~clerk'
             /\ tx'[x].snap[ConnectionDoc] = Absent /\ db'[ConnectionDoc] # Absent =>
                  \E a \in Attempt : tx'[x].snap[AttemptDoc(a)] = "consumed" /\ AttemptDoc(a) \in tx'[x].missed
  <2>1. /\ Deletes(x) /\ x \in others /\ tx[x].req.op = "delete" /\ tx'[x].snap = tx[x].snap
        /\ tx'[x].missed = tx[x].missed \cup W
    BY <1>1, <1>4, <1>9 DEF Deletes
  <2> QED BY <2>1 DEF DeletionOK
<1> QED BY <1>5, <1>6, <1>7, <1>8, <1>9 DEF DeletionOK

\* A write of one job document.
LEMMA JobWritten ==
  ASSUME StoreOK, EvidenceOK, DeletionOK, NEW j \in JobDocs, NEW v \in JobValue,
         Write([db EXCEPT ![j] = v]), UNCHANGED <<call, clerk, gone>>
  PROVE  /\ StoreOK' /\ EvidenceOK' /\ DeletionOK' /\ OpenClients' = OpenClients
         /\ \A x \in OpenClients : tx'[x].req = tx[x].req
<1> DEFINE t == [db EXCEPT ![j] = v]
<1>1. DOMAIN t = Docs /\ (\A d \in Docs \ {j} : t[d] = db[d]) /\ t[j] = v
  BY DocKinds DEF StoreOK, Typed
<1> HIDE DEF t
<1>2. Typed(t)
  BY <1>1, DocKinds DEF StoreOK, Typed
<1>3. StoreOK' /\ db' = t /\ FallBehind(OpenClients, Changed(db, t))
  BY <1>2, StoreWritten DEF t
<1>4. /\ t[ConnectionDoc] = db[ConnectionDoc] /\ \A d \in Scrobbles : t[d] = db[d]
      /\ \A a \in Attempt : t[AttemptDoc(a)] = db[AttemptDoc(a)]
  BY <1>1, DocKinds
<1>5. EvidenceOK'
  BY <1>3, <1>4, EvidenceStays
<1>6. DeletionOK'
  BY <1>3, <1>4, DeletionAdvances DEF DeletionOK
<1> QED BY <1>3, <1>5, <1>6 DEF FallBehind

(***************************************************************************)
(* Steps of the workers' runs                                              *)
(***************************************************************************)
\* A worker at a step of a job has a job.
LEMMA JobRuns ==
  ASSUME RunsOK, NEW w \in Worker
  PROVE  /\ run[w].pc \in JobSteps => run[w] \in JobRun
         /\ run[w].pc = "due" => run[w] \in DueRun
         /\ run[w].pc \in {"idle", "due"} \cup JobSteps
         /\ run[w].pc = "idle" <=> run[w] = NoRun
BY DEF RunsOK, AnyRun, IdleRun, DueRun, JobRun, NoRun, JobSteps

\* One worker's run changes, and with it whether it has a transaction open.
LEMMA RunMoves ==
  ASSUME RunsOK, NEW w \in Worker, NEW r \in AnyRun, run' = [run EXCEPT ![w] = r],
         OpenClients' \ {w} = OpenClients \ {w}, w \in OpenClients' <=> r.pc \in {"storing", "cleaning"},
         r.pc = "orphaned" => r.id \in Id /\ r.rev + 1 \in Revision
  PROVE  RunsOK'
<1>1. run' \in [Worker -> AnyRun] /\ run'[w] = r /\ \A v \in Worker \ {w} : run'[v] = run[v]
  BY DEF RunsOK
<1>2. \A v \in Worker \ {w} : v \in OpenClients' <=> v \in OpenClients
  OBVIOUS
<1> QED BY <1>1, <1>2 DEF RunsOK

\* Its program counter alone.
LEMMA RunGoes ==
  ASSUME RunsOK, NEW w \in Worker, run[w].pc \in JobSteps, NEW pc \in JobSteps, Goes(w, pc),
         OpenClients' \ {w} = OpenClients \ {w}, w \in OpenClients' <=> pc \in {"storing", "cleaning"},
         pc = "orphaned" => run[w].id \in Id /\ run[w].rev + 1 \in Revision
  PROVE  RunsOK'
<1> DEFINE r == [run[w] EXCEPT !.pc = pc]
<1>1. run[w] \in JobRun
  BY JobRuns
<1>2. r \in JobRun /\ r.pc = pc /\ r.id = run[w].id /\ r.rev = run[w].rev
  BY <1>1 DEF JobRun
<1>3. run' = [run EXCEPT ![w] = r]
  BY DEF Goes
<1> HIDE DEF r
<1> QED BY <1>2, <1>3, RunMoves DEF AnyRun

\* The runs of the workers go on while callers commit and give up.
LEMMA RunsStay ==
  ASSUME RunsOK, UNCHANGED run, \A w \in Worker : w \in OpenClients' <=> w \in OpenClients
  PROVE  RunsOK'
BY DEF RunsOK

\* Requests stay what they were while nobody begins.
LEMMA CallsStay ==
  ASSUME CallsOK, UNCHANGED call,
         \A x \in OpenClients' : x \in OpenClients /\ tx'[x].req = tx[x].req
  PROVE  CallsOK'
BY DEF CallsOK

\* A step that changes neither documents nor open transactions, nor a call.
LEMMA NothingStored ==
  ASSUME StoreOK, EvidenceOK, DeletionOK, CallsOK, UNCHANGED <<db, tx, call, gone>>, clerk' => clerk
  PROVE  StoreOK' /\ EvidenceOK' /\ DeletionOK' /\ CallsOK'
<1>1. StoreOK'
  BY DEF StoreOK, Transactions, SnapshotShape, SnapshotsAreCurrent, OpenClients
<1>2. EvidenceOK' /\ CallsOK'
  BY DEF EvidenceOK, CallsOK, OpenClients
<1>3. DeletionOK'
  BY DEF DeletionOK, Consumed, Exchanged, Deletes, OpenClients
<1> QED BY <1>1, <1>2, <1>3

\* A transaction that is dropped.
LEMMA Dropped ==
  ASSUME StoreOK, EvidenceOK, DeletionOK, CallsOK, NEW c,
         tx' = [x \in OpenClients \ {c} |-> tx[x]], UNCHANGED <<db, call, gone, clerk>>
  PROVE  StoreOK' /\ EvidenceOK' /\ DeletionOK' /\ CallsOK' /\ OpenClients' = OpenClients \ {c}
<1>1. Transactions' /\ OpenClients' = OpenClients \ {c} /\ \A x \in OpenClients \ {c} : tx'[x] = tx[x]
  BY DropKeepsTransactions DEF StoreOK
<1>2. StoreOK' /\ EvidenceOK' /\ CallsOK'
  BY <1>1 DEF StoreOK, EvidenceOK, CallsOK
<1>3. DeletionOK'
  BY <1>1 DEF DeletionOK, Consumed, Exchanged, Deletes
<1> QED BY <1>1, <1>2, <1>3

\* A worker's transaction that begins, or begins again.
LEMMA WorkerBegins ==
  ASSUME StoreOK, EvidenceOK, DeletionOK, CallsOK, NEW w \in Worker, Transactions', OpenClients' = OpenClients \cup {w},
         tx'[w].snap = db, tx'[w].missed = {}, \A x \in OpenClients \ {w} : tx'[x] = tx[x],
         UNCHANGED <<db, call, gone, clerk>>
  PROVE  StoreOK' /\ EvidenceOK' /\ DeletionOK' /\ CallsOK'
<1>1. \A c \in Caller : (c \in OpenClients' <=> c \in OpenClients) /\ (c \in OpenClients => tx'[c] = tx[c])
  BY ConnectionsAssumption
<1>2. StoreOK' /\ EvidenceOK' /\ CallsOK'
  BY <1>1 DEF StoreOK, EvidenceOK, CallsOK
<1>3. /\ \A c \in Caller, a \in Attempt : Exchanged(c, a)' <=> Exchanged(c, a)
      /\ \A c \in Caller, a \in Attempt : Consumed(c, a)' <=> Consumed(c, a)
      /\ \A c \in Caller : Deletes(c)' <=> Deletes(c)
  BY <1>1 DEF Exchanged, Consumed, Deletes
<1>4. DeletionOK'
  BY <1>1, <1>3 DEF DeletionOK, Deletes
<1> QED BY <1>2, <1>4

(***************************************************************************)
(* The actions of the workers                                              *)
(***************************************************************************)
\* What enqueueing, leasing and closing make of a job is a job.
LEMMA JobValues ==
  /\ \A i \in Id, r \in Revision : Requeued(i, r) \in JobValue
  /\ \A v \in JobValue : Blank(v) \in JobValue
  /\ \A v \in JobValue : \A i \in Id, r \in Revision : Enqueued(v, i, r) \in JobValue
  /\ \A v \in JobValue, h \in Worker \cup {NoOne} : [v EXCEPT !.holder = h] \in JobValue
  /\ \A v \in JobValue, s \in {"absent", "pending", "running", "done"} : [v EXCEPT !.status = s] \in JobValue
<1>1. \A i \in Id, r \in Revision : Requeued(i, r) \in JobValue
  BY DEF JobValue, Requeued
<1>2. \A v \in JobValue : Blank(v) \in JobValue
  BY DEF JobValue, Blank
<1>3. \A v \in JobValue : \A i \in Id, r \in Revision : Enqueued(v, i, r) \in JobValue
  BY <1>1 DEF Enqueued
<1>4. \A v \in JobValue, h \in Worker \cup {NoOne} : [v EXCEPT !.holder = h] \in JobValue
  BY DEF JobValue
<1>5. \A v \in JobValue, s \in {"absent", "pending", "running", "done"} : [v EXCEPT !.status = s] \in JobValue
  BY DEF JobValue
<1> QED BY <1>1, <1>2, <1>3, <1>4, <1>5

\* Leasing a job.
LEMMA AcquireKeeps ==
  ASSUME ConnectionsInv, NEW w \in Worker, NEW j \in JobDocs, Acquire(w, j) PROVE ConnectionsInv'
<1> DEFINE v == [db[j] EXCEPT !.status = "running", !.holder = w]
           r == [pc |-> "acquired", doc |-> j, id |-> db[j].id, rev |-> db[j].rev]
<1>1. db[j] \in JobValue /\ DOMAIN db = Docs /\ j \in Docs
  BY DocKinds DEF ConnectionsInv, StoreOK, Typed
<1>2. v \in JobValue /\ r \in JobRun /\ r.pc = "acquired"
  BY <1>1 DEF JobValue, JobRun, JobSteps
<1>3. Write([db EXCEPT ![j] = v])
  <2>1. [db EXCEPT ![j].status = "running", ![j].holder = w] = [db EXCEPT ![j] = v]
    BY <1>1
  <2> QED BY <2>1 DEF Acquire
<1>4. /\ run' = [run EXCEPT ![w] = r] /\ run[w].pc = "idle" /\ w \notin OpenClients
      /\ UNCHANGED <<call, clerk, gone, requests, faults>> /\ expired' = expired \ {j}
  BY DEF Acquire
<1> HIDE DEF v, r
<1>5. /\ StoreOK' /\ EvidenceOK' /\ DeletionOK' /\ OpenClients' = OpenClients
      /\ \A x \in OpenClients : tx'[x].req = tx[x].req
  BY <1>2, <1>3, <1>4, JobWritten DEF ConnectionsInv
<1>6. RunsOK'
  BY <1>2, <1>4, <1>5, RunMoves DEF ConnectionsInv, AnyRun
<1>7. CallsOK' /\ CountsOK'
  BY <1>4, <1>5, CallsStay DEF ConnectionsInv, CountsOK
<1> QED BY <1>5, <1>6, <1>7 DEF ConnectionsInv

\* Leaving a job as v.
LEMMA EndKeeps ==
  ASSUME ConnectionsInv, NEW w \in Worker, NEW v \in JobValue, End(w, v), faults' \in 0..MaxFaults,
         run[w].pc \in JobSteps \ {"storing", "cleaning"}
  PROVE  ConnectionsInv'
<1> DEFINE j == run[w].doc
           u == [v EXCEPT !.holder = NoOne]
<1>1. j \in JobDocs
  BY JobRuns DEF ConnectionsInv, JobRun
<1>2. u \in JobValue
  BY JobValues
<1>3. /\ Write([db EXCEPT ![j] = u]) /\ run' = [run EXCEPT ![w] = NoRun]
      /\ UNCHANGED <<call, expired, clerk, gone, requests>>
  BY DEF End
<1> HIDE DEF j, u
<1>4. /\ StoreOK' /\ EvidenceOK' /\ DeletionOK' /\ OpenClients' = OpenClients
      /\ \A x \in OpenClients : tx'[x].req = tx[x].req
  BY <1>1, <1>2, <1>3, JobWritten DEF ConnectionsInv
<1>5. w \notin OpenClients
  BY DEF ConnectionsInv, RunsOK
<1>6. NoRun \in AnyRun /\ NoRun.pc = "idle"
  BY DEF AnyRun, IdleRun, NoRun
<1>7. RunsOK'
  BY <1>3, <1>4, <1>5, <1>6, RunMoves DEF ConnectionsInv
<1>8. CallsOK' /\ CountsOK'
  BY <1>3, <1>4, CallsStay DEF ConnectionsInv, CountsOK
<1> QED BY <1>4, <1>7, <1>8 DEF ConnectionsInv

\* A job that is closed, goes on with its next page, is superseded or fails.
LEMMA EndsKeep ==
  ASSUME ConnectionsInv, NEW w \in Worker, Close(w) \/ Continue(w) \/ Superseded(w) \/ Fail(w)
  PROVE  ConnectionsInv'
<1>1. run[w].pc \in JobSteps \ {"storing", "cleaning"}
  BY DEF Close, Continue, Superseded, Fail, At, JobSteps
<1>2. run[w] \in JobRun
  BY <1>1, JobRuns DEF ConnectionsInv
<1>3. Held(w) \in JobValue /\ run[w].id \in Id \cup {0} /\ run[w].rev \in Revision \cup {0}
  BY <1>2 DEF ConnectionsInv, StoreOK, Typed, Held, JobRun
<1>4. faults \in 0..MaxFaults /\ MaxFaults \in Nat
  BY ConnectionsAssumption DEF ConnectionsInv, CountsOK
<1>5. PICK v \in JobValue : End(w, v) /\ faults' \in 0..MaxFaults
  <2>1. CASE Close(w)
    <3>1. [Held(w) EXCEPT !.status = "done", !.id = run[w].id, !.rev = run[w].rev] \in JobValue
      BY <1>3 DEF JobValue
    <3>2. [Blank(Held(w)) EXCEPT !.status = "done"] \in JobValue
      BY <1>3, JobValues
    <3> QED BY <1>4, <2>1, <3>1, <3>2 DEF Close
  <2>2. CASE Continue(w) \/ Superseded(w)
    <3>1. \A s \in {"pending", "done"} : [Held(w) EXCEPT !.status = s] \in JobValue
      BY <1>3, JobValues
    <3> QED BY <1>4, <2>2, <3>1 DEF Continue, Superseded
  <2>3. CASE Fail(w)
    <3>1. PICK s \in {"pending", "done"} : End(w, [Held(w) EXCEPT !.status = s])
      BY <2>3 DEF Fail
    <3>2. [Held(w) EXCEPT !.status = s] \in JobValue
      BY <1>3, JobValues
    <3>3. faults' \in 0..MaxFaults
      BY <1>4, <2>3 DEF Fail, MayFail
    <3> QED BY <3>1, <3>2, <3>3
  <2> QED BY <2>1, <2>2, <2>3
<1> QED BY <1>1, <1>5, EndKeeps

\* Putting a job in line, for a connection that is orphaned or due.
LEMMA EnqueuesKeep ==
  ASSUME ConnectionsInv, NEW w \in Worker, EnqueueCleanup(w) \/ EnqueueDue(w) PROVE ConnectionsInv'
<1>1. PICK j \in JobDocs, v \in JobValue : Write([db EXCEPT ![j] = v])
  <2>1. CASE EnqueueCleanup(w)
    <3> DEFINE i == run[w].id
               r == run[w].rev + 1
    <3>1. i \in Id /\ r \in Revision
      BY <2>1 DEF EnqueueCleanup, At, ConnectionsInv, RunsOK
    <3>2. CleanupDoc(i, r) \in JobDocs /\ Requeued(i, r) \in JobValue
      BY <3>1, DocKinds, JobValues
    <3>3. db[CleanupDoc(i, r)] \in JobValue
      BY <3>2 DEF ConnectionsInv, StoreOK, Typed
    <3> QED BY <2>1, <3>2, <3>3 DEF EnqueueCleanup
  <2>2. CASE EnqueueDue(w)
    <3> DEFINE i == run[w].id
               r == run[w].rev
    <3>1. i \in Id /\ r \in Revision
      BY <2>2, JobRuns DEF EnqueueDue, ConnectionsInv, DueRun
    <3>2. SyncDoc(i) \in JobDocs
      BY <3>1, DocKinds
    <3>3. Enqueued(db[SyncDoc(i)], i, r) \in JobValue
      BY <3>1, <3>2, JobValues DEF ConnectionsInv, StoreOK, Typed
    <3> QED BY <2>2, <3>2, <3>3 DEF EnqueueDue
  <2> QED BY <2>1, <2>2
<1>2. UNCHANGED <<call, expired, clerk, gone, requests, faults>>
  BY DEF EnqueueCleanup, EnqueueDue
<1>3. /\ StoreOK' /\ EvidenceOK' /\ DeletionOK' /\ OpenClients' = OpenClients
      /\ \A x \in OpenClients : tx'[x].req = tx[x].req
  BY <1>1, <1>2, JobWritten DEF ConnectionsInv
<1>4. w \notin OpenClients
  BY DEF EnqueueCleanup, EnqueueDue, At, ConnectionsInv, RunsOK
<1>5. RunsOK'
  <2>1. CASE EnqueueCleanup(w)
    BY <1>3, <1>4, <2>1, RunGoes DEF EnqueueCleanup, At, JobSteps, ConnectionsInv
  <2>2. CASE EnqueueDue(w)
    <3>1. NoRun \in AnyRun /\ NoRun.pc = "idle"
      BY DEF AnyRun, IdleRun, NoRun
    <3> QED BY <1>3, <1>4, <2>2, <3>1, RunMoves DEF EnqueueDue, ConnectionsInv
  <2> QED BY <2>1, <2>2
<1>6. CallsOK' /\ CountsOK'
  BY <1>2, <1>3, CallsStay DEF ConnectionsInv, CountsOK
<1> QED BY <1>3, <1>5, <1>6 DEF ConnectionsInv

\* Reading the connection, and asking Clerk for its owner.
LEMMA ReadsKeep ==
  ASSUME ConnectionsInv, NEW w \in Worker, ReadConnection(w) \/ OwnerIsThere(w) PROVE ConnectionsInv'
<1>1. PICK pc \in {"read", "closing", "fetching"} : Goes(w, pc)
  BY DEF ReadConnection, OwnerIsThere
<1>2. run[w].pc \in {"acquired", "read"} /\ UNCHANGED <<db, tx, call, expired, clerk, gone, requests, faults>>
  BY DEF ReadConnection, OwnerIsThere, At
<1>3. StoreOK' /\ EvidenceOK' /\ DeletionOK' /\ CallsOK'
  BY <1>2, NothingStored DEF ConnectionsInv
<1>4. OpenClients' = OpenClients /\ w \notin OpenClients
  BY <1>2 DEF OpenClients, ConnectionsInv, RunsOK
<1>5. pc \in JobSteps /\ pc \notin {"storing", "cleaning"} /\ pc # "orphaned" /\ run[w].pc \in JobSteps
  BY <1>2 DEF JobSteps
<1>6. RunsOK'
  BY <1>1, <1>4, <1>5, RunGoes DEF ConnectionsInv
<1>7. CountsOK'
  BY <1>2 DEF ConnectionsInv, CountsOK
<1> QED BY <1>3, <1>6, <1>7 DEF ConnectionsInv

\* A write of a connection's state and revision.
LEMMA ConnectionWritten ==
  ASSUME StoreOK, EvidenceOK, DeletionOK, NEW k \in ConnectionValue, db[ConnectionDoc] # Absent,
         k.id = db[ConnectionDoc].id, k.since = db[ConnectionDoc].since, k.rev = db[ConnectionDoc].rev + 1,
         Write([db EXCEPT ![ConnectionDoc] = k]), UNCHANGED <<call, clerk, gone>>
  PROVE  /\ StoreOK' /\ EvidenceOK' /\ DeletionOK' /\ OpenClients' = OpenClients
         /\ \A x \in OpenClients : tx'[x].req = tx[x].req
<1> DEFINE t == [db EXCEPT ![ConnectionDoc] = k]
<1>1. DOMAIN t = Docs /\ (\A d \in Docs \ {ConnectionDoc} : t[d] = db[d]) /\ t[ConnectionDoc] = k
  BY DocKinds DEF StoreOK, Typed
<1>2. Write(t)
  OBVIOUS
<1> HIDE DEF t
<1>3. (\A d \in Scrobbles : t[d] = db[d]) /\ \A a \in Attempt : t[AttemptDoc(a)] = db[AttemptDoc(a)]
  BY <1>1, DocKinds
<1>4. Typed(t)
  BY <1>1, <1>3, DocKinds DEF StoreOK, Typed
<1>5. StoreOK' /\ db' = t /\ FallBehind(OpenClients, Changed(db, t))
  BY <1>2, <1>4, StoreWritten
<1>6. EvidenceIn(t)
  <2>1. \A i \in Id : \A d \in ScrobbleDocs(i) : t[d] = db[d]
    BY <1>3, DocKinds
  <2>2. k.since <= k.rev
    <3>1. db[ConnectionDoc] \in ConnectionValue
      BY DEF StoreOK, Typed
    <3>2. db[ConnectionDoc].since <= db[ConnectionDoc].rev /\ db[ConnectionDoc].since \in Nat /\ db[ConnectionDoc].rev \in Nat
      BY <3>1, Bounds DEF ConnectionValue, EvidenceOK, EvidenceIn
    <3> QED BY <3>2
  <2> QED BY <1>1, <1>3, <2>1, <2>2 DEF EvidenceOK, EvidenceIn
<1>7. ConnectionDoc \in Changed(db, t)
  <2>1. db[ConnectionDoc].rev \in Nat
    BY Bounds DEF StoreOK, Typed, ConnectionValue
  <2>2. k # db[ConnectionDoc]
    BY <2>1
  <2> QED BY <1>1, <2>2, DocKinds DEF Changed, StoreOK, Typed
<1>8. EvidenceOK'
  BY <1>5, <1>6, <1>7, EvidenceAdvances
<1>9. DeletionOK'
  BY <1>3, <1>5, DeletionAdvances DEF DeletionOK
<1> QED BY <1>5, <1>8, <1>9 DEF FallBehind

\* The pilot that ended, or the owner that is gone: the connection stops.
LEMMA WorkerMovesKeeps ==
  ASSUME ConnectionsInv, NEW w \in Worker, PilotEnded(w) \/ OwnerIsGone(w) PROVE ConnectionsInv'
<1>1. PICK state \in {"paused", "disconnected"}, pc \in {"closing", "orphaned"} : WorkerMoves(w, state, pc)
  BY DEF PilotEnded, OwnerIsGone
<1>2. run[w].pc = "read" /\ UNCHANGED <<call, expired, clerk, gone, requests, faults>>
  BY <1>1 DEF WorkerMoves, At
<1>3. w \notin OpenClients /\ run[w].pc \in JobSteps
  BY <1>2 DEF ConnectionsInv, RunsOK, JobSteps
<1>4. CASE IsFor(db[ConnectionDoc], w, "active")
  <2> DEFINE k == [db[ConnectionDoc] EXCEPT !.state = state, !.rev = @ + 1]
  <2>1. /\ db[ConnectionDoc].rev < MaxRevision /\ Goes(w, pc)
        /\ Write([db EXCEPT ![ConnectionDoc] = k])
    BY <1>1, <1>4 DEF WorkerMoves
  <2>2. db[ConnectionDoc] # Absent /\ db[ConnectionDoc] \in ConnectionValue
    BY <1>4, Bounds DEF IsFor, ConnectionsInv, StoreOK, Typed
  <2>3. db[ConnectionDoc].id \in Id /\ db[ConnectionDoc].rev + 1 \in Revision
    BY <2>1, <2>2, Bounds DEF ConnectionValue
  <2>4. /\ k \in ConnectionValue /\ k.id = db[ConnectionDoc].id /\ k.since = db[ConnectionDoc].since
        /\ k.rev = db[ConnectionDoc].rev + 1
    BY <2>2, <2>3 DEF ConnectionValue, Open
  <2> HIDE DEF k
  <2>5. /\ StoreOK' /\ EvidenceOK' /\ DeletionOK' /\ OpenClients' = OpenClients
        /\ \A x \in OpenClients : tx'[x].req = tx[x].req
    BY <1>2, <2>1, <2>2, <2>4, ConnectionWritten DEF ConnectionsInv
  <2>6. run[w].id \in Id /\ run[w].rev + 1 \in Revision
    BY <1>4, <2>3 DEF IsFor
  <2>7. RunsOK'
    BY <1>3, <2>1, <2>5, <2>6, RunGoes DEF ConnectionsInv, JobSteps
  <2>8. CallsOK' /\ CountsOK'
    BY <1>2, <2>5, CallsStay DEF ConnectionsInv, CountsOK
  <2> QED BY <2>5, <2>7, <2>8 DEF ConnectionsInv
<1>5. CASE ~IsFor(db[ConnectionDoc], w, "active")
  <2>1. Goes(w, "closing") /\ UNCHANGED <<db, tx>>
    BY <1>1, <1>5 DEF WorkerMoves
  <2>2. StoreOK' /\ EvidenceOK' /\ DeletionOK' /\ CallsOK' /\ OpenClients' = OpenClients
    BY <1>2, <2>1, NothingStored DEF ConnectionsInv, OpenClients
  <2>3. RunsOK'
    BY <1>3, <2>1, <2>2, RunGoes DEF ConnectionsInv, JobSteps
  <2>4. CountsOK'
    BY <1>2 DEF ConnectionsInv, CountsOK
  <2> QED BY <2>2, <2>3, <2>4 DEF ConnectionsInv
<1> QED BY <1>4, <1>5

\* A worker's transaction that begins.
LEMMA StartsKeep ==
  ASSUME ConnectionsInv, NEW w \in Worker, StartPage(w) \/ StartCleanup(w) PROVE ConnectionsInv'
<1>1. PICK op \in {"sync", "cleanup"}, pc \in {"storing", "cleaning"} : Begin(w, [op |-> op]) /\ Goes(w, pc)
  BY DEF StartPage, StartCleanup
<1>2. run[w].pc \in JobSteps /\ UNCHANGED <<call, expired, clerk, gone, requests, faults>>
  BY DEF StartPage, StartCleanup, At, JobSteps
<1>3. w \in Client
  BY ConnectionsAssumption
<1>4. /\ Transactions' /\ db' = db /\ OpenClients' = OpenClients \cup {w} /\ w \notin OpenClients
      /\ tx'[w] = Fresh([op |-> op]) /\ \A x \in OpenClients : tx'[x] = tx[x]
  BY <1>1, <1>3, BeginKeepsTransactions DEF ConnectionsInv, StoreOK
<1>5. StoreOK' /\ EvidenceOK' /\ DeletionOK' /\ CallsOK'
  BY <1>2, <1>4, WorkerBegins DEF ConnectionsInv, Fresh
<1>6. RunsOK'
  BY <1>1, <1>2, <1>4, RunGoes DEF ConnectionsInv, JobSteps
<1>7. CountsOK'
  BY <1>2 DEF ConnectionsInv, CountsOK
<1> QED BY <1>5, <1>6, <1>7 DEF ConnectionsInv

\* A worker's transaction that ran into a conflict runs again.
LEMMA RetryJobKeeps ==
  ASSUME ConnectionsInv, NEW w \in Worker, RetryJob(w) PROVE ConnectionsInv'
<1>1. Retry(w) /\ w \in OpenClients /\ UNCHANGED <<call, run, expired, clerk, gone, requests, faults>>
  BY DEF RetryJob
<1>2. /\ Transactions' /\ db' = db /\ OpenClients' = OpenClients
      /\ tx'[w] = Fresh(tx[w].req) /\ \A x \in OpenClients \ {w} : tx'[x] = tx[x]
  BY <1>1, RetryKeepsTransactions DEF ConnectionsInv, StoreOK
<1>3. OpenClients' = OpenClients \cup {w}
  BY <1>1, <1>2
<1>4. StoreOK' /\ EvidenceOK' /\ DeletionOK' /\ CallsOK'
  BY <1>1, <1>2, <1>3, WorkerBegins DEF ConnectionsInv, Fresh
<1>5. RunsOK' /\ CountsOK'
  BY <1>1, <1>2, RunsStay DEF ConnectionsInv, CountsOK
<1> QED BY <1>4, <1>5 DEF ConnectionsInv

\* Leaving a job without touching it: superseded, the lease lost, or dead.
LEMMA DropsKeep ==
  ASSUME ConnectionsInv, NEW w \in Worker, Supersede(w) \/ LoseLease(w) \/ Crash(w) PROVE ConnectionsInv'
<1>1. tx' = [c \in OpenClients \ {w} |-> tx[c]] /\ UNCHANGED <<db, call, expired, clerk, gone, requests>>
  BY DEF Supersede, LoseLease, Crash, Drop
<1>2. StoreOK' /\ EvidenceOK' /\ DeletionOK' /\ CallsOK' /\ OpenClients' = OpenClients \ {w}
  BY <1>1, Dropped DEF ConnectionsInv
<1>3. RunsOK'
  <2>1. CASE Supersede(w)
    <3>1. run[w].pc \in JobSteps /\ Goes(w, "superseded")
      BY <2>1 DEF Supersede, At, JobSteps
    <3> QED BY <1>2, <3>1, RunGoes DEF ConnectionsInv, JobSteps
  <2>2. CASE LoseLease(w) \/ Crash(w)
    <3>1. run' = [run EXCEPT ![w] = NoRun]
      BY <2>2 DEF LoseLease, Crash, Drop
    <3>2. NoRun \in AnyRun /\ NoRun.pc = "idle"
      BY DEF AnyRun, IdleRun, NoRun
    <3> QED BY <1>2, <3>1, <3>2, RunMoves DEF ConnectionsInv
  <2> QED BY <2>1, <2>2
<1>4. CountsOK'
  <2>1. faults' \in 0..MaxFaults
    BY ConnectionsAssumption DEF Supersede, LoseLease, Crash, MayFail, ConnectionsInv, CountsOK
  <2> QED BY <1>1, <2>1 DEF ConnectionsInv, CountsOK
<1> QED BY <1>2, <1>3, <1>4 DEF ConnectionsInv

\* Time passes for a lease; a due connection is read; the owner leaves Clerk.
LEMMA QuietStepsKeep ==
  ASSUME ConnectionsInv,
         (\E j \in JobDocs : Expire(j)) \/ (\E w \in Worker : ReadDue(w)) \/ LeaveClerk
  PROVE  ConnectionsInv'
<1>1. UNCHANGED <<db, tx, call, gone>> /\ (clerk' => clerk) /\ clerk' \in BOOLEAN
  <2>1. clerk \in BOOLEAN
    BY DEF ConnectionsInv, CountsOK
  <2>2. CASE \E j \in JobDocs : Expire(j)
    BY <2>1, <2>2 DEF Expire
  <2>3. CASE \E w \in Worker : ReadDue(w)
    BY <2>1, <2>3 DEF ReadDue
  <2>4. CASE LeaveClerk
    BY <2>4 DEF LeaveClerk
  <2> QED BY <2>2, <2>3, <2>4
<1>2. StoreOK' /\ EvidenceOK' /\ DeletionOK' /\ CallsOK' /\ OpenClients' = OpenClients
  BY <1>1, NothingStored DEF ConnectionsInv, OpenClients
<1>3. RunsOK'
  <2>1. CASE (\E j \in JobDocs : Expire(j)) \/ LeaveClerk
    BY <1>2, <2>1, RunsStay DEF Expire, LeaveClerk, ConnectionsInv
  <2>2. ASSUME NEW w \in Worker, ReadDue(w) PROVE RunsOK'
    <3> DEFINE r == [pc |-> "due", id |-> db[ConnectionDoc].id, rev |-> db[ConnectionDoc].rev]
    <3>1. run' = [run EXCEPT ![w] = r] /\ w \notin OpenClients /\ db[ConnectionDoc].state = "active"
      BY <2>2 DEF ReadDue
    <3>2. db[ConnectionDoc] \in ConnectionValue
      BY <3>1, Bounds DEF ConnectionsInv, StoreOK, Typed
    <3>3. r \in DueRun /\ r.pc = "due"
      BY <3>2 DEF ConnectionValue, DueRun
    <3> HIDE DEF r
    <3> QED BY <1>2, <3>1, <3>3, RunMoves DEF ConnectionsInv, AnyRun
  <2> QED BY <2>1, <2>2
<1>4. CountsOK'
  <2>1. faults' \in 0..MaxFaults
    BY ConnectionsAssumption DEF Expire, ReadDue, LeaveClerk, MayFail, ConnectionsInv, CountsOK
  <2>2. requests' \in 0..MaxRequests
    BY ConnectionsAssumption, <2>1 DEF Expire, ReadDue, LeaveClerk, Requested, ConnectionsInv, CountsOK
  <2>3. expired' \subseteq JobDocs
    BY DEF Expire, ReadDue, LeaveClerk, ConnectionsInv, CountsOK
  <2> QED BY <1>1, <2>1, <2>2, <2>3 DEF ConnectionsInv, CountsOK
<1> QED BY <1>2, <1>3, <1>4 DEF ConnectionsInv

(***************************************************************************)
(* Commits                                                                 *)
(***************************************************************************)
\* Evidence is committed together with the connection it belongs to.
LEMMA EvidenceCommitted ==
  ASSUME StoreOK, EvidenceOK, NEW c \in OpenClients, NEW t, Typed(t), NEW W, Committed(c, t, W),
         ConnectionDoc \notin W => W \cap Scrobbles = {},
         ConnectionDoc \in W /\ EvidenceIn(tx[c].snap) => EvidenceIn(t)
  PROVE  EvidenceOK'
<1>1. CASE ConnectionDoc \in W
  <2>1. ConnectionDoc \notin tx[c].missed /\ tx[c].snap[ConnectionDoc] = db[ConnectionDoc] /\ db'[ConnectionDoc] = t[ConnectionDoc]
    BY <1>1 DEF Committed
  <2>2. \A d \in Scrobbles : tx[c].snap[d] = db[d]
    BY <2>1 DEF EvidenceOK
  <2>3. \A d \in Scrobbles : d \in DOMAIN db
    BY DocKinds DEF StoreOK, Typed
  <2>4. \A d \in Scrobbles : db'[d] = t[d]
    BY <2>2, <2>3 DEF Committed
  <2>5. EvidenceIn(tx[c].snap)
    BY <2>1, <2>2, DocKinds DEF EvidenceOK, EvidenceIn
  <2>6. EvidenceIn(t)
    BY <1>1, <2>5
  <2>7. EvidenceIn(db')
    BY <2>1, <2>4, <2>6, DocKinds DEF EvidenceIn
  <2> QED BY <1>1, <2>7, EvidenceAdvances DEF Committed
<1>2. CASE ConnectionDoc \notin W
  <2>1. ConnectionDoc \in DOMAIN db /\ Scrobbles \subseteq DOMAIN db
    BY DocKinds DEF StoreOK, Typed
  <2>2. db'[ConnectionDoc] = db[ConnectionDoc] /\ \A d \in Scrobbles : db'[d] = db[d]
    BY <1>2, <2>1 DEF Committed
  <2> QED BY <2>2, EvidenceStays DEF Committed
<1> QED BY <1>1, <1>2

\* A commit of typed documents, which writes evidence only together with its
\* connection, and attempts as they were or as deleted.
Wrote(c, t, touched) == touched \cup Changed(tx[c].snap, t)
Commits(c, t, touched) ==
  /\ c \in OpenClients /\ Typed(t) /\ touched \subseteq Docs /\ CommitTouching(c, t, touched)
  /\ ConnectionDoc \notin Wrote(c, t, touched) => Wrote(c, t, touched) \cap Scrobbles = {}
  /\ ConnectionDoc \in Wrote(c, t, touched) /\ EvidenceIn(tx[c].snap) => EvidenceIn(t)
  /\ \A a \in Attempt : t[AttemptDoc(a)] \in {"deleted", tx[c].snap[AttemptDoc(a)]}

\* A connection that it makes is every open deletion's conflict.
Conflicts(c, t, touched) ==
  ~gone /\ \A x \in Caller : Deletes(x) =>
    \E a \in Attempt : tx[x].snap[AttemptDoc(a)] = "consumed" /\ AttemptDoc(a) \in Wrote(c, t, touched)

\* A commit that leaves an absent connection absent, or conflicts with every deletion.
LEMMA CommitKeeps ==
  ASSUME StoreOK, EvidenceOK, DeletionOK, UNCHANGED <<call, clerk, gone>>,
         NEW c, NEW t, NEW touched, Commits(c, t, touched),
         (t[ConnectionDoc] # Absent => tx[c].snap[ConnectionDoc] # Absent) \/ Conflicts(c, t, touched)
  PROVE  /\ StoreOK' /\ EvidenceOK' /\ DeletionOK' /\ OpenClients' = OpenClients \ {c}
         /\ \A x \in OpenClients' : x \in OpenClients /\ tx'[x].req = tx[x].req
<1> DEFINE W == Wrote(c, t, touched)
<1>0. /\ c \in OpenClients /\ Typed(t) /\ touched \in SUBSET Docs /\ CommitTouching(c, t, touched)
      /\ ConnectionDoc \notin W => W \cap Scrobbles = {}
      /\ ConnectionDoc \in W /\ EvidenceIn(tx[c].snap) => EvidenceIn(t)
      /\ \A a \in Attempt : t[AttemptDoc(a)] \in {"deleted", tx[c].snap[AttemptDoc(a)]}
  BY DEF Commits
<1>1. StoreOK' /\ Committed(c, t, W)
  BY <1>0, StoreCommitted DEF Wrote
<1> HIDE DEF W
<1>2. EvidenceOK'
  BY <1>0, <1>1, EvidenceCommitted
<1>3. ConnectionDoc \in DOMAIN db /\ \A a \in Attempt : AttemptDoc(a) \in DOMAIN db
  BY DocKinds DEF StoreOK, Typed
<1>4. \A a \in Attempt : db'[AttemptDoc(a)] \in {"deleted", db[AttemptDoc(a)]}
  <2> SUFFICES ASSUME NEW a \in Attempt PROVE db'[AttemptDoc(a)] \in {"deleted", db[AttemptDoc(a)]}
    OBVIOUS
  <2>1. CASE AttemptDoc(a) \in W
    <3>1. db'[AttemptDoc(a)] = t[AttemptDoc(a)] /\ tx[c].snap[AttemptDoc(a)] = db[AttemptDoc(a)]
      BY <1>1, <2>1 DEF Committed
    <3> QED BY <1>0, <3>1
  <2>2. CASE AttemptDoc(a) \notin W
    BY <1>1, <1>3, <2>2 DEF Committed
  <2> QED BY <2>1, <2>2
<1>5. /\ \A a \in Attempt : db[AttemptDoc(a)] \in Past => db'[AttemptDoc(a)] \in Past
      /\ \A a \in Attempt : db[AttemptDoc(a)] = "deleted" => db'[AttemptDoc(a)] = "deleted"
  BY <1>4 DEF Past
<1>6. \/ db'[ConnectionDoc] = db[ConnectionDoc]
      \/ db'[ConnectionDoc] = t[ConnectionDoc] /\ db[ConnectionDoc] = tx[c].snap[ConnectionDoc]
  BY <1>1, <1>3 DEF Committed
<1>7. FallBehind(OpenClients \ {c}, W) /\ OpenClients \ {c} \subseteq OpenClients
  BY <1>1 DEF Committed
<1>8. gone => db'[ConnectionDoc] = Absent
  <2> SUFFICES ASSUME gone PROVE db'[ConnectionDoc] = Absent
    OBVIOUS
  <2>1. db[ConnectionDoc] = Absent
    BY DEF DeletionOK
  <2>2. tx[c].snap[ConnectionDoc] = Absent => t[ConnectionDoc] = Absent
    BY DEF Conflicts
  <2> QED BY <1>6, <2>1, <2>2
<1>9. \/ db'[ConnectionDoc] # Absent => db[ConnectionDoc] # Absent
      \/ \A x \in Caller \cap (OpenClients \ {c}) : tx[x].req.op = "delete" =>
           \E a \in Attempt : tx[x].snap[AttemptDoc(a)] = "consumed" /\ AttemptDoc(a) \in W
  BY <1>6 DEF Deletes, Conflicts, W
<1>10. DeletionOK'
  BY <1>5, <1>7, <1>8, <1>9, DeletionAdvances
<1> QED BY <1>1, <1>2, <1>7, <1>10 DEF FallBehind

\* What removing the attempts, or the connection and what it holds, leaves.
LEMMA Removals ==
  ASSUME NEW s, Typed(s)
  PROVE  /\ Typed(DropAttempts(s)) /\ DropAttempts(s)[ConnectionDoc] = s[ConnectionDoc]
         /\ \A a \in Attempt : DropAttempts(s)[AttemptDoc(a)] = IF s[AttemptDoc(a)] = "unborn" THEN "unborn" ELSE "deleted"
         /\ \A d \in Scrobbles : DropAttempts(s)[d] = s[d]
         /\ \A j \in JobDocs : DropAttempts(s)[j] = s[j]
<1> DEFINE t == DropAttempts(s)
<1>1. DOMAIN t = Docs
  BY DEF Typed, DropAttempts
<1>2. \A d \in Docs : t[d] = IF \E a \in Attempt : d = AttemptDoc(a) /\ s[d] # "unborn" THEN "deleted" ELSE s[d]
  BY DEF Typed, DropAttempts
<1> HIDE DEF t
<1>3. t[ConnectionDoc] = s[ConnectionDoc]
  BY <1>2, DocKinds
<1>4. \A a \in Attempt : t[AttemptDoc(a)] = IF s[AttemptDoc(a)] = "unborn" THEN "unborn" ELSE "deleted"
  BY <1>2, DocKinds
<1>5. \A d \in Scrobbles : t[d] = s[d]
  BY <1>2, DocKinds
<1>6. \A j \in JobDocs : t[j] = s[j]
  BY <1>2, DocKinds
<1>7. Typed(t)
  BY <1>1, <1>3, <1>4, <1>5, <1>6 DEF Typed, AttemptState
<1> QED BY <1>3, <1>4, <1>5, <1>6, <1>7 DEF t

\* Removing a connection removes everything that was captured for it, and no attempt.
LEMMA RemovedConnection ==
  ASSUME NEW s, Typed(s), s[ConnectionDoc] # Absent
  PROVE  LET t == Without(s, s[ConnectionDoc])
         IN  /\ Typed(t) /\ t[ConnectionDoc] = Absent
             /\ EvidenceIn(s) => \A d \in Scrobbles : t[d] = NoScrobble
             /\ \A a \in Attempt : t[AttemptDoc(a)] = s[AttemptDoc(a)]
<1> DEFINE k == s[ConnectionDoc]
           t == Without(s, k)
<1>1. DOMAIN t = Docs
  BY DEF Typed, Without
<1>2. \A d \in Docs : t[d] = IF d = ConnectionDoc THEN Absent
                             ELSE IF d \in ScrobbleDocs(k.id) THEN NoScrobble
                             ELSE IF d \in JobDocs /\ s[d].id = k.id THEN Blank(s[d])
                             ELSE s[d]
  BY DEF Typed, Without
<1>3. k \in ConnectionValue /\ k.id \in Id
  BY DEF Typed, ConnectionValue
<1> HIDE DEF t, k
<1>4. t[ConnectionDoc] = Absent
  BY <1>2, DocKinds
<1>5. \A a \in Attempt : t[AttemptDoc(a)] = s[AttemptDoc(a)]
  <2> SUFFICES ASSUME NEW a \in Attempt PROVE t[AttemptDoc(a)] = s[AttemptDoc(a)]
    OBVIOUS
  <2>1. AttemptDoc(a) \in Docs /\ AttemptDoc(a) # ConnectionDoc /\ AttemptDoc(a) \notin JobDocs /\ AttemptDoc(a) \notin Scrobbles
    BY DocKinds
  <2>2. ScrobbleDocs(k.id) \subseteq Scrobbles
    BY <1>3, DocKinds
  <2> QED BY <1>2, <2>1, <2>2
<1>6. ASSUME EvidenceIn(s), NEW d \in Scrobbles PROVE t[d] = NoScrobble
  <2>1. PICK i \in Id : d \in ScrobbleDocs(i)
    BY DocKinds
  <2>2. d \in ScrobbleDocs(k.id) \/ s[d] = NoScrobble
    BY <1>6, <2>1 DEF EvidenceIn, k
  <2>3. d \in Docs /\ d # ConnectionDoc /\ d \notin JobDocs
    BY DocKinds
  <2> QED BY <1>2, <2>2, <2>3
<1>7. \A j \in JobDocs : t[j] \in JobValue
  <2> SUFFICES ASSUME NEW j \in JobDocs PROVE t[j] \in {s[j], Blank(s[j])}
    BY JobValues DEF Typed
  <2>1. j \in Docs /\ j # ConnectionDoc /\ j \notin Scrobbles
    BY DocKinds
  <2>2. ScrobbleDocs(k.id) \subseteq Scrobbles
    BY <1>3, DocKinds
  <2> QED BY <1>2, <2>1, <2>2
<1>8. \A d \in Scrobbles : t[d] \in {NoScrobble, s[d]}
  BY <1>2, DocKinds
<1>9. Typed(t)
  BY <1>1, <1>4, <1>5, <1>7, <1>8 DEF Typed
<1> QED BY <1>4, <1>5, <1>6, <1>9 DEF t, k

\* A scrobble captured at the connection's revision is evidence of it.
LEMMA PageIsEvidence ==
  ASSUME NEW s, Typed(s), s[ConnectionDoc] # Absent, NEW i, i = s[ConnectionDoc].id, NEW r, r = s[ConnectionDoc].rev,
         NEW t \in Pages(s, i, r)
  PROVE  /\ Typed(t) /\ (EvidenceIn(s) => EvidenceIn(t))
         /\ t[ConnectionDoc] = s[ConnectionDoc] /\ \A a \in Attempt : t[AttemptDoc(a)] = s[AttemptDoc(a)]
<1>1. CASE t = s
  BY <1>1
<1>2. ASSUME NEW n \in 1..MaxScrobbles, t = [s EXCEPT ![ScrobbleDoc(i, n)] = r]
      PROVE  /\ Typed(t) /\ (EvidenceIn(s) => EvidenceIn(t))
             /\ t[ConnectionDoc] = s[ConnectionDoc] /\ \A a \in Attempt : t[AttemptDoc(a)] = s[AttemptDoc(a)]
  <2> DEFINE e == ScrobbleDoc(i, n)
  <2>1. s[ConnectionDoc] \in ConnectionValue /\ i \in Id /\ r \in Revision
    BY DEF Typed, ConnectionValue
  <2>2. e \in ScrobbleDocs(i) /\ e \in Scrobbles /\ e \in Docs
    BY <2>1, DocKinds DEF ScrobbleDocs
  <2>3. DOMAIN t = Docs /\ t[e] = r /\ \A d \in Docs \ {e} : t[d] = s[d]
    BY <1>2, <2>2 DEF Typed
  <2> HIDE DEF e
  <2>4. t[ConnectionDoc] = s[ConnectionDoc]
    BY <2>2, <2>3, DocKinds
  <2>5. \A a \in Attempt : t[AttemptDoc(a)] = s[AttemptDoc(a)]
    BY <2>2, <2>3, DocKinds
  <2>6. \A j \in JobDocs : t[j] = s[j]
    BY <2>2, <2>3, DocKinds
  <2>7. \A d \in Scrobbles : d = e \/ t[d] = s[d]
    BY <2>2, <2>3, DocKinds
  <2>8. Typed(t)
    BY <2>1, <2>2, <2>3, <2>4, <2>5, <2>6, <2>7 DEF Typed
  <2>9. ASSUME EvidenceIn(s) PROVE EvidenceIn(t)
    <3>1. s[ConnectionDoc].since <= r
      BY <2>9 DEF EvidenceIn
    <3>2. \A d \in Scrobbles : t[d] # NoScrobble => t[d] >= s[ConnectionDoc].since
      BY <2>1, <2>3, <2>7, <2>9, <3>1, Bounds DEF EvidenceIn, ConnectionValue
    <3>3. ASSUME NEW x \in Id, NEW d \in ScrobbleDocs(x), t[d] # NoScrobble PROVE t[ConnectionDoc].id = x
      <4>1. CASE d = e
        <5>1. x = i
          BY <2>1, <2>2, <4>1, DocKinds
        <5> QED BY <2>4, <5>1
      <4>2. CASE d # e
        <5>1. s[d] # NoScrobble
          BY <2>7, <3>3, <4>2, DocKinds
        <5> QED BY <2>4, <2>9, <5>1 DEF EvidenceIn
      <4> QED BY <4>1, <4>2
    <3> QED BY <2>4, <2>9, <3>2, <3>3 DEF EvidenceIn
  <2> QED BY <2>4, <2>5, <2>8, <2>9
<1> QED BY <1>1, <1>2 DEF Pages, Free

\* storePage: the scrobbles of a page, and the job that captured them.
LEMMA CommitPageKeeps ==
  ASSUME ConnectionsInv, NEW w \in Worker, CommitPage(w) PROVE ConnectionsInv'
<1> DEFINE s == tx[w].snap
<1>1. /\ run[w].pc = "storing" /\ run[w].doc \in SyncDocs /\ IsFor(s[ConnectionDoc], w, "active")
      /\ UNCHANGED <<call, expired, clerk, gone, requests, faults>>
  BY DEF CommitPage, At
<1>2. PICK t \in Pages(s, run[w].id, run[w].rev) : CommitTouching(w, t, Fenced(w))
  BY DEF CommitPage
<1>3. PICK pc \in {"fetching", "closing"} : Goes(w, pc)
  BY DEF CommitPage
<1>4. w \in OpenClients /\ Typed(s) /\ s[ConnectionDoc] # Absent
  BY <1>1, Bounds DEF ConnectionsInv, RunsOK, StoreOK, IsFor
<1>5. run[w].id = s[ConnectionDoc].id /\ run[w].rev = s[ConnectionDoc].rev
  BY <1>1 DEF IsFor
<1>6. /\ Typed(t) /\ (EvidenceIn(s) => EvidenceIn(t))
      /\ t[ConnectionDoc] = s[ConnectionDoc] /\ \A a \in Attempt : t[AttemptDoc(a)] = s[AttemptDoc(a)]
  BY <1>2, <1>4, <1>5, PageIsEvidence
<1>7. Fenced(w) \in SUBSET Docs /\ ConnectionDoc \in Fenced(w)
  BY <1>1, DocKinds DEF Fenced, SyncDocs
<1>8. Commits(w, t, Fenced(w))
  BY <1>2, <1>4, <1>6, <1>7 DEF Commits, Wrote
<1>9. t[ConnectionDoc] # Absent => tx[w].snap[ConnectionDoc] # Absent
  BY <1>6
<1>10. /\ StoreOK' /\ EvidenceOK' /\ DeletionOK' /\ OpenClients' = OpenClients \ {w}
       /\ \A x \in OpenClients' : x \in OpenClients /\ tx'[x].req = tx[x].req
  BY <1>1, <1>8, <1>9, CommitKeeps DEF ConnectionsInv
<1>11. RunsOK'
  BY <1>1, <1>3, <1>10, RunGoes DEF ConnectionsInv, JobSteps
<1>12. CallsOK' /\ CountsOK'
  BY <1>1, <1>10, CallsStay DEF ConnectionsInv, CountsOK
<1> QED BY <1>10, <1>11, <1>12 DEF ConnectionsInv

\* cleanupJob: a disconnected connection goes with all that hangs on it.
LEMMA CommitCleanupKeeps ==
  ASSUME ConnectionsInv, NEW w \in Worker, CommitCleanup(w) PROVE ConnectionsInv'
<1> DEFINE s == tx[w].snap
           k == s[ConnectionDoc]
           j == run[w].doc
           u == [Without(DropAttempts(s), k) EXCEPT ![j] = s[j]]
           t == IF Cleanable(k, w) THEN u ELSE s
<1>1. /\ run[w].pc = "cleaning" /\ j \in JobDocs /\ Goes(w, "closing") /\ CommitTouching(w, t, {j})
      /\ UNCHANGED <<call, expired, clerk, gone, requests, faults>>
  BY DEF CommitCleanup, At, CleanupDocs
<1>2. w \in OpenClients /\ Typed(s)
  BY <1>1 DEF ConnectionsInv, RunsOK, StoreOK
<1>3. {j} \in SUBSET Docs /\ j \notin Scrobbles /\ j # ConnectionDoc /\ \A a \in Attempt : j # AttemptDoc(a)
  BY <1>1, DocKinds
<1>4. /\ Typed(t) /\ (EvidenceIn(s) => EvidenceIn(t))
      /\ \A a \in Attempt : t[AttemptDoc(a)] \in {"deleted", s[AttemptDoc(a)]}
      /\ t[ConnectionDoc] # Absent => s[ConnectionDoc] # Absent
      /\ t[ConnectionDoc] # s[ConnectionDoc] \/ \A d \in Scrobbles : t[d] = s[d]
  <2>1. CASE ~Cleanable(k, w)
    BY <1>2, <2>1
  <2>2. CASE Cleanable(k, w)
    <3> DEFINE e == DropAttempts(s)
               v == Without(e, k)
    <3>1. k # Absent
      BY <2>2, Bounds DEF Cleanable, IsFor
    <3>2. /\ Typed(e) /\ e[ConnectionDoc] = k /\ \A d \in Scrobbles : e[d] = s[d]
          /\ \A a \in Attempt : e[AttemptDoc(a)] \in {"deleted", s[AttemptDoc(a)]}
      BY <1>2, Removals
    <3> HIDE DEF e
    <3>3. ASSUME EvidenceIn(s) PROVE EvidenceIn(e)
      BY <3>2, <3>3, DocKinds DEF EvidenceIn
    <3>4. t = [v EXCEPT ![j] = s[j]]
      BY <2>2 DEF e
    <3>5. /\ Typed(v) /\ v[ConnectionDoc] = Absent /\ \A a \in Attempt : v[AttemptDoc(a)] = e[AttemptDoc(a)]
          /\ EvidenceIn(e) => \A d \in Scrobbles : v[d] = NoScrobble
      BY <3>1, <3>2, RemovedConnection
    <3> HIDE DEF v
    <3>6. DOMAIN t = Docs /\ t[j] = s[j] /\ \A d \in Docs \ {j} : t[d] = v[d]
      BY <1>3, <3>4, <3>5 DEF Typed
    <3> HIDE DEF t
    <3>7. /\ t[ConnectionDoc] = Absent /\ \A d \in Scrobbles : t[d] = v[d]
          /\ \A a \in Attempt : t[AttemptDoc(a)] = v[AttemptDoc(a)]
      BY <1>3, <3>5, <3>6, DocKinds
    <3>8. \A x \in JobDocs : t[x] \in JobValue
      BY <1>2, <3>5, <3>6, DocKinds DEF Typed
    <3>9. Typed(t)
      BY <3>5, <3>6, <3>7, <3>8 DEF Typed
    <3>10. EvidenceIn(s) => EvidenceIn(t)
      BY <3>3, <3>5, <3>7, DocKinds DEF EvidenceIn
    <3> QED BY <3>1, <3>2, <3>5, <3>7, <3>9, <3>10
  <2> QED BY <2>1, <2>2
<1>5. Scrobbles \subseteq DOMAIN s /\ ConnectionDoc \in DOMAIN s
  BY <1>2, DocKinds DEF Typed
<1>6. s = tx[w].snap
  OBVIOUS
<1> HIDE DEF t, s
<1>7. Commits(w, t, {j})
  <2>1. ConnectionDoc \notin Wrote(w, t, {j}) => Wrote(w, t, {j}) \cap Scrobbles = {}
    BY <1>3, <1>4, <1>5, <1>6 DEF Changed, Wrote
  <2> QED BY <1>1, <1>2, <1>3, <1>4, <1>6, <2>1 DEF Commits
<1>8. t[ConnectionDoc] # Absent => tx[w].snap[ConnectionDoc] # Absent
  BY <1>4, <1>6
<1>9. /\ StoreOK' /\ EvidenceOK' /\ DeletionOK' /\ OpenClients' = OpenClients \ {w}
      /\ \A x \in OpenClients' : x \in OpenClients /\ tx'[x].req = tx[x].req
  BY <1>1, <1>7, <1>8, CommitKeeps DEF ConnectionsInv
<1>10. RunsOK'
  BY <1>1, <1>2, <1>9, RunGoes DEF ConnectionsInv, JobSteps
<1>11. CallsOK' /\ CountsOK'
  BY <1>1, <1>9, CallsStay DEF ConnectionsInv, CountsOK
<1> QED BY <1>9, <1>10, <1>11 DEF ConnectionsInv

(***************************************************************************)
(* The actions of the callers                                              *)
(***************************************************************************)
\* A write of one attempt.
LEMMA AttemptWritten ==
  ASSUME StoreOK, EvidenceOK, NEW a \in Attempt, NEW v \in AttemptState, Write([db EXCEPT ![AttemptDoc(a)] = v])
  PROVE  /\ StoreOK' /\ EvidenceOK' /\ (\E W : FallBehind(OpenClients, W))
         /\ db'[ConnectionDoc] = db[ConnectionDoc] /\ db'[AttemptDoc(a)] = v
         /\ \A b \in Attempt \ {a} : db'[AttemptDoc(b)] = db[AttemptDoc(b)]
<1> DEFINE t == [db EXCEPT ![AttemptDoc(a)] = v]
<1>1. DOMAIN t = Docs /\ (\A d \in Docs \ {AttemptDoc(a)} : t[d] = db[d]) /\ t[AttemptDoc(a)] = v
  BY DocKinds DEF StoreOK, Typed
<1>2. Write(t)
  OBVIOUS
<1> HIDE DEF t
<1>3. /\ t[ConnectionDoc] = db[ConnectionDoc] /\ \A d \in Scrobbles : t[d] = db[d]
      /\ \A j \in JobDocs : t[j] = db[j]
  BY <1>1, DocKinds
<1>4. \A b \in Attempt \ {a} : t[AttemptDoc(b)] = db[AttemptDoc(b)]
  BY <1>1, DocKinds
<1>5. Typed(t)
  BY <1>1, <1>3, <1>4 DEF StoreOK, Typed
<1>6. StoreOK' /\ db' = t /\ FallBehind(OpenClients, Changed(db, t))
  BY <1>2, <1>5, StoreWritten
<1>7. EvidenceOK'
  BY <1>3, <1>6, EvidenceStays
<1> QED BY <1>1, <1>3, <1>4, <1>6, <1>7

\* The open transactions are as they were, or fell behind.
LEMMA TransactionsStay ==
  ASSUME RunsOK, UNCHANGED run, NEW W, FallBehind(OpenClients, W)
  PROVE  RunsOK' /\ OpenClients' = OpenClients /\ \A x \in OpenClients : tx'[x].req = tx[x].req
BY RunsStay DEF FallBehind

\* An attempt is started, or lapses.
LEMMA AttemptsKeep ==
  ASSUME ConnectionsInv, NEW a \in Attempt, Start(a) \/ DropAttempt(a) PROVE ConnectionsInv'
<1>1. UNCHANGED <<call, run, expired, clerk, gone, requests, faults>>
  BY DEF Start, DropAttempt
<1>2. PICK v \in AttemptState : /\ Write([db EXCEPT ![AttemptDoc(a)] = v])
                                /\ v = "deleted" \/ db[AttemptDoc(a)] \notin Past
  BY DEF Start, DropAttempt, AttemptState, Past
<1>3. PICK W : FallBehind(OpenClients, W)
  BY <1>2, AttemptWritten DEF ConnectionsInv
<1>4. /\ StoreOK' /\ EvidenceOK'
      /\ db'[ConnectionDoc] = db[ConnectionDoc] /\ db'[AttemptDoc(a)] = v
      /\ \A b \in Attempt \ {a} : db'[AttemptDoc(b)] = db[AttemptDoc(b)]
  BY <1>2, AttemptWritten DEF ConnectionsInv
<1>5. /\ \A b \in Attempt : db[AttemptDoc(b)] \in Past => db'[AttemptDoc(b)] \in Past
      /\ \A b \in Attempt : db[AttemptDoc(b)] = "deleted" => db'[AttemptDoc(b)] = "deleted"
  BY <1>2, <1>4 DEF Past
<1>6. DeletionOK'
  <2>1. gone' = gone /\ (gone => db'[ConnectionDoc] = Absent)
    BY <1>1, <1>4 DEF ConnectionsInv, DeletionOK
  <2> QED BY <1>1, <1>3, <1>4, <1>5, <2>1, DeletionAdvances DEF ConnectionsInv
<1>7. RunsOK' /\ CallsOK' /\ CountsOK'
  BY <1>1, <1>3, TransactionsStay, CallsStay DEF ConnectionsInv, CountsOK
<1> QED BY <1>4, <1>6, <1>7 DEF ConnectionsInv

\* Consuming an attempt.
LEMMA ConsumeKeeps ==
  ASSUME ConnectionsInv, NEW c \in Caller, NEW a \in Attempt, Consume(c, a) PROVE ConnectionsInv'
<1> DEFINE r == [pc |-> "exchanging", attempt |-> a]
<1>1. /\ Write([db EXCEPT ![AttemptDoc(a)] = "consumed"]) /\ db[AttemptDoc(a)] = "open"
      /\ call' = [call EXCEPT ![c] = r] /\ Requested /\ c \notin OpenClients
      /\ UNCHANGED <<run, expired, clerk, gone, faults>>
  BY DEF Consume
<1>2. "consumed" \in AttemptState
  BY DEF AttemptState
<1>3. PICK W : FallBehind(OpenClients, W)
  BY <1>1, <1>2, AttemptWritten DEF ConnectionsInv
<1>4. /\ StoreOK' /\ EvidenceOK'
      /\ db'[ConnectionDoc] = db[ConnectionDoc] /\ db'[AttemptDoc(a)] = "consumed"
      /\ \A b \in Attempt \ {a} : db'[AttemptDoc(b)] = db[AttemptDoc(b)]
  BY <1>1, <1>2, AttemptWritten DEF ConnectionsInv
<1>5. RunsOK' /\ OpenClients' = OpenClients /\ \A x \in OpenClients : tx'[x].req = tx[x].req
  BY <1>1, <1>3, TransactionsStay DEF ConnectionsInv
<1>6. call' \in [Caller -> AnyCall] /\ call'[c] = r /\ \A x \in Caller \ {c} : call'[x] = call[x]
  BY <1>1 DEF ConnectionsInv, CallsOK, AnyCall
<1>7. CallsOK' /\ CountsOK'
  <2>1. requests' \in 0..MaxRequests
    BY <1>1, ConnectionsAssumption DEF Requested, ConnectionsInv, CountsOK
  <2> QED BY <1>1, <1>5, <1>6, <2>1 DEF ConnectionsInv, CallsOK, CountsOK
<1>8. DeletionOK'
  <2>1. \A x \in Caller, b \in Attempt : Exchanged(x, b)' => Exchanged(x, b)
    BY <1>1, <1>5, <1>6 DEF Exchanged
  <2>2. \A x \in Caller, b \in Attempt : Consumed(x, b)' => Consumed(x, b) \/ b = a
    BY <1>6 DEF Consumed
  <2>3. \A x \in Caller : Deletes(x)' => Deletes(x)
    BY <1>5 DEF Deletes
  <2>4. \A x \in OpenClients : tx'[x].snap = tx[x].snap /\ tx[x].missed \subseteq tx'[x].missed
    BY <1>3 DEF FallBehind
  <2>5. gone' => ~clerk' /\ db'[ConnectionDoc] = Absent
    BY <1>1, <1>4 DEF ConnectionsInv, DeletionOK
  <2>6. \A x \in OpenClients', b \in Attempt : tx'[x].snap[AttemptDoc(b)] = "deleted" => db'[AttemptDoc(b)] = "deleted"
    BY <1>1, <1>4, <1>5, <2>4 DEF ConnectionsInv, DeletionOK
  <2>7. \A x \in Caller, b \in Attempt : Consumed(x, b)' \/ Exchanged(x, b)' => db'[AttemptDoc(b)] \in Past
    BY <1>1, <1>4, <2>1, <2>2 DEF ConnectionsInv, DeletionOK, Past
  <2>8. ASSUME NEW x \in Caller, NEW b \in Attempt, Exchanged(x, b)'
        PROVE  /\ gone' => db'[AttemptDoc(b)] = "deleted"
               /\ \A y \in Caller : Deletes(y)' => tx'[y].snap[AttemptDoc(b)] \in Past
    <3>1. Exchanged(x, b)
      BY <2>1, <2>8
    <3>2. db[AttemptDoc(b)] \in Past
      BY <3>1 DEF ConnectionsInv, DeletionOK
    <3>3. b # a
      BY <1>1, <3>2 DEF Past
    <3>4. gone' => db'[AttemptDoc(b)] = "deleted"
      BY <1>1, <1>4, <3>1, <3>3 DEF ConnectionsInv, DeletionOK
    <3> QED BY <2>3, <2>4, <3>1, <3>4 DEF ConnectionsInv, DeletionOK, Deletes
  <2>9. ASSUME NEW x \in Caller, Deletes(x)'
        PROVE  /\ ~clerk'
               /\ tx'[x].snap[ConnectionDoc] = Absent /\ db'[ConnectionDoc] # Absent =>
                    \E b \in Attempt : tx'[x].snap[AttemptDoc(b)] = "consumed" /\ AttemptDoc(b) \in tx'[x].missed
    <3>1. Deletes(x) /\ x \in OpenClients
      BY <2>3, <2>9 DEF Deletes
    <3>2. tx'[x].snap = tx[x].snap /\ tx[x].missed \subseteq tx'[x].missed
      BY <2>4, <3>1
    <3> QED BY <1>1, <1>4, <3>1, <3>2 DEF ConnectionsInv, DeletionOK
  <2> QED BY <2>5, <2>6, <2>7, <2>8, <2>9 DEF DeletionOK
<1> QED BY <1>4, <1>5, <1>7, <1>8 DEF ConnectionsInv

\* The token is exchanged while the owner's account exists, so before any deletion.
LEMMA ExchangeKeeps ==
  ASSUME ConnectionsInv, NEW c \in Caller, Exchange(c) PROVE ConnectionsInv'
<1>1. /\ call[c].pc = "exchanging" /\ clerk /\ call' = [call EXCEPT ![c].pc = "exchanged"]
      /\ UNCHANGED <<db, tx, run, expired, clerk, gone, requests, faults>>
  BY DEF Exchange
<1>2. call[c] \in [pc: {"exchanging", "exchanged"}, attempt: Attempt]
  BY <1>1 DEF ConnectionsInv, CallsOK, AnyCall, NoCall
<1>3. /\ call' \in [Caller -> AnyCall] /\ call'[c].pc = "exchanged" /\ call'[c].attempt = call[c].attempt
      /\ \A x \in Caller \ {c} : call'[x] = call[x]
  BY <1>1, <1>2 DEF ConnectionsInv, CallsOK, AnyCall
<1>4. StoreOK' /\ EvidenceOK' /\ RunsOK' /\ CountsOK' /\ OpenClients' = OpenClients
  BY <1>1 DEF ConnectionsInv, StoreOK, EvidenceOK, RunsOK, CountsOK, Transactions, SnapshotShape, SnapshotsAreCurrent, OpenClients
<1>5. CallsOK'
  BY <1>1, <1>3, <1>4 DEF ConnectionsInv, CallsOK
<1>6. DeletionOK'
  <2>1. \A x \in Caller, a \in Attempt : Consumed(x, a)' => Consumed(x, a)
    BY <1>1, <1>3 DEF Consumed
  <2>2. \A x \in Caller, a \in Attempt : Exchanged(x, a)' => Exchanged(x, a) \/ Consumed(x, a)
    BY <1>1, <1>3, <1>4 DEF Exchanged, Consumed
  <2>3. \A x \in Caller : Deletes(x)' <=> Deletes(x)
    BY <1>1, <1>4 DEF Deletes
  <2>4. ~gone /\ \A x \in Caller : ~Deletes(x)
    BY <1>1 DEF ConnectionsInv, DeletionOK
  <2> QED BY <1>1, <1>4, <2>1, <2>2, <2>3, <2>4 DEF ConnectionsInv, DeletionOK
<1> QED BY <1>4, <1>5, <1>6 DEF ConnectionsInv

\* A callback that ends before its transaction, and a transaction that is given up.
LEMMA RefusalsKeep ==
  ASSUME ConnectionsInv, NEW c \in Caller, Refuse(c) \/ GiveUp(c) PROVE ConnectionsInv'
<1>1. CASE Refuse(c)
  <2>1. call' = [call EXCEPT ![c] = NoCall] /\ UNCHANGED <<db, tx, run, expired, clerk, gone, requests, faults>>
    BY <1>1 DEF Refuse
  <2>2. call' \in [Caller -> AnyCall] /\ call'[c].pc = "idle" /\ \A x \in Caller \ {c} : call'[x] = call[x]
    BY <2>1 DEF ConnectionsInv, CallsOK, AnyCall, NoCall
  <2>3. StoreOK' /\ EvidenceOK' /\ RunsOK' /\ CountsOK' /\ OpenClients' = OpenClients
    BY <2>1 DEF ConnectionsInv, StoreOK, EvidenceOK, RunsOK, CountsOK, Transactions, SnapshotShape, SnapshotsAreCurrent, OpenClients
  <2>4. CallsOK'
    BY <2>1, <2>2, <2>3 DEF ConnectionsInv, CallsOK
  <2>5. DeletionOK'
    <3>1. \A x \in Caller, a \in Attempt : Consumed(x, a)' => Consumed(x, a)
      BY <2>1, <2>2 DEF Consumed
    <3>2. \A x \in Caller, a \in Attempt : Exchanged(x, a)' => Exchanged(x, a)
      BY <2>1, <2>2, <2>3 DEF Exchanged
    <3>3. \A x \in Caller : Deletes(x)' <=> Deletes(x)
      BY <2>1, <2>3 DEF Deletes
    <3> QED BY <2>1, <2>3, <3>1, <3>2, <3>3 DEF ConnectionsInv, DeletionOK
  <2> QED BY <2>3, <2>4, <2>5 DEF ConnectionsInv
<1>2. CASE GiveUp(c)
  <2>1. /\ tx' = [x \in OpenClients \ {c} |-> tx[x]]
        /\ UNCHANGED <<db, call, run, expired, clerk, gone, requests, faults>>
    BY <1>2 DEF GiveUp, Abort
  <2>2. StoreOK' /\ EvidenceOK' /\ DeletionOK' /\ CallsOK' /\ OpenClients' = OpenClients \ {c}
    BY <2>1, Dropped DEF ConnectionsInv
  <2>3. RunsOK' /\ CountsOK'
    BY <2>1, <2>2, RunsStay, ConnectionsAssumption DEF ConnectionsInv, CountsOK
  <2> QED BY <2>2, <2>3 DEF ConnectionsInv
<1> QED BY <1>1, <1>2

\* What beginning a transaction of a caller leaves as it was.
LEMMA CallerBegins ==
  ASSUME ConnectionsInv, NEW c \in Caller, NEW request \in AnyRequest, Begin(c, request), UNCHANGED run
  PROVE  /\ StoreOK' /\ EvidenceOK' /\ RunsOK' /\ db' = db /\ c \notin OpenClients /\ OpenClients' = OpenClients \cup {c}
         /\ tx'[c].req = request /\ tx'[c].snap = db /\ \A x \in OpenClients : tx'[x] = tx[x]
         /\ \A x \in Caller \cap OpenClients' : tx'[x].req \in AnyRequest
<1>1. c \in Client /\ c \notin Worker
  BY ConnectionsAssumption
<1>2. /\ Transactions' /\ db' = db /\ c \notin OpenClients /\ OpenClients' = OpenClients \cup {c}
      /\ tx'[c] = Fresh(request) /\ \A x \in OpenClients : tx'[x] = tx[x]
  BY <1>1, BeginKeepsTransactions DEF ConnectionsInv, StoreOK
<1>3. tx'[c].req = request /\ tx'[c].snap = db
  BY <1>2 DEF Fresh
<1>4. StoreOK' /\ EvidenceOK'
  BY <1>2, <1>3 DEF ConnectionsInv, StoreOK, EvidenceOK
<1>5. RunsOK'
  BY <1>1, <1>2, RunsStay DEF ConnectionsInv
<1>6. \A x \in Caller \cap OpenClients' : tx'[x].req \in AnyRequest
  BY <1>2, <1>3 DEF ConnectionsInv, CallsOK
<1> QED BY <1>2, <1>3, <1>4, <1>5, <1>6

\* The callback opens its transaction after the exchange of the token.
LEMMA BeginCallbackKeeps ==
  ASSUME ConnectionsInv, NEW c \in Caller, BeginCallback(c) PROVE ConnectionsInv'
<1> DEFINE request == [op |-> "callback", attempt |-> call[c].attempt]
<1>1. /\ call[c].pc = "exchanged" /\ Begin(c, request) /\ call' = [call EXCEPT ![c] = NoCall]
      /\ UNCHANGED <<run, expired, clerk, gone, requests, faults>>
  BY DEF BeginCallback
<1>2. request \in AnyRequest /\ request.op = "callback" /\ request.attempt = call[c].attempt
  BY <1>1 DEF ConnectionsInv, CallsOK, AnyCall, NoCall, AnyRequest
<1> HIDE DEF request
<1>3. /\ StoreOK' /\ EvidenceOK' /\ RunsOK' /\ db' = db /\ c \notin OpenClients /\ OpenClients' = OpenClients \cup {c}
      /\ tx'[c].req = request /\ tx'[c].snap = db /\ \A x \in OpenClients : tx'[x] = tx[x]
      /\ \A x \in Caller \cap OpenClients' : tx'[x].req \in AnyRequest
  BY <1>1, <1>2, CallerBegins
<1>4. call' \in [Caller -> AnyCall] /\ call'[c].pc = "idle" /\ \A x \in Caller \ {c} : call'[x] = call[x]
  BY <1>1 DEF ConnectionsInv, CallsOK, AnyCall, NoCall
<1>5. CallsOK' /\ CountsOK'
  BY <1>1, <1>3, <1>4 DEF ConnectionsInv, CallsOK, CountsOK
<1>6. DeletionOK'
  <2>1. \A x \in Caller, a \in Attempt : Consumed(x, a)' => Consumed(x, a)
    BY <1>1, <1>4 DEF Consumed
  <2>2. \A x \in Caller, a \in Attempt : Exchanged(x, a)' => Exchanged(x, a)
    BY <1>1, <1>2, <1>3, <1>4 DEF Exchanged
  <2>3. \A x \in Caller : Deletes(x)' => Deletes(x) /\ x # c
    BY <1>2, <1>3 DEF Deletes
  <2> QED BY <1>1, <1>3, <2>1, <2>2, <2>3 DEF ConnectionsInv, DeletionOK, Deletes
<1> QED BY <1>3, <1>5, <1>6 DEF ConnectionsInv

\* A deletion begins when the Clerk account is gone, on the database as it is.
LEMMA RequestsBegin ==
  ASSUME ConnectionsInv, NEW c \in Caller, BeginMutation(c) \/ BeginDeletion(c) PROVE ConnectionsInv'
<1>1. PICK op \in {"pause", "resume", "disconnect", "delete"} : Begin(c, [op |-> op]) /\ (op = "delete" => ~clerk)
  BY DEF BeginMutation, BeginDeletion
<1>2. Requested /\ UNCHANGED <<call, run, expired, clerk, gone, faults>>
  BY DEF BeginMutation, BeginDeletion
<1> DEFINE request == [op |-> op]
<1>3. request \in AnyRequest /\ request.op = op
  BY DEF AnyRequest
<1>4. Begin(c, request)
  BY <1>1
<1> HIDE DEF request
<1>5. /\ StoreOK' /\ EvidenceOK' /\ RunsOK' /\ db' = db /\ c \notin OpenClients /\ OpenClients' = OpenClients \cup {c}
      /\ tx'[c].req = request /\ tx'[c].snap = db /\ \A x \in OpenClients : tx'[x] = tx[x]
      /\ \A x \in Caller \cap OpenClients' : tx'[x].req \in AnyRequest
  BY <1>2, <1>3, <1>4, CallerBegins
<1>6. requests' \in 0..MaxRequests
  BY <1>2, ConnectionsAssumption DEF Requested, ConnectionsInv, CountsOK
<1>7. CallsOK' /\ CountsOK'
  BY <1>2, <1>5, <1>6 DEF ConnectionsInv, CallsOK, CountsOK
<1>8. DeletionOK'
  <2>1. \A x \in Caller, a \in Attempt : Consumed(x, a)' => Consumed(x, a)
    BY <1>2 DEF Consumed
  <2>2. \A x \in Caller, a \in Attempt : Exchanged(x, a)' => Exchanged(x, a)
    BY <1>2, <1>3, <1>5 DEF Exchanged
  <2>3. \A x \in Caller : Deletes(x)' => IF x = c THEN ~clerk ELSE Deletes(x)
    BY <1>1, <1>3, <1>5 DEF Deletes
  <2>4. gone' => ~clerk' /\ db'[ConnectionDoc] = Absent
    BY <1>2, <1>5 DEF ConnectionsInv, DeletionOK
  <2>5. \A x \in OpenClients', a \in Attempt : tx'[x].snap[AttemptDoc(a)] = "deleted" => db'[AttemptDoc(a)] = "deleted"
    BY <1>5 DEF ConnectionsInv, DeletionOK
  <2>6. \A x \in Caller, a \in Attempt : Consumed(x, a)' \/ Exchanged(x, a)' => db'[AttemptDoc(a)] \in Past
    BY <1>5, <2>1, <2>2 DEF ConnectionsInv, DeletionOK
  <2>7. ASSUME NEW x \in Caller, NEW a \in Attempt, Exchanged(x, a)'
        PROVE  /\ gone' => db'[AttemptDoc(a)] = "deleted"
               /\ \A y \in Caller : Deletes(y)' => tx'[y].snap[AttemptDoc(a)] \in Past
    <3>1. Exchanged(x, a) /\ db[AttemptDoc(a)] \in Past
      BY <2>2, <2>7 DEF ConnectionsInv, DeletionOK
    <3>2. gone' => db'[AttemptDoc(a)] = "deleted"
      BY <1>2, <1>5, <3>1 DEF ConnectionsInv, DeletionOK
    <3>3. ASSUME NEW y \in Caller, Deletes(y)' PROVE tx'[y].snap[AttemptDoc(a)] \in Past
      <4>1. CASE y = c
        BY <1>5, <3>1, <4>1
      <4>2. CASE y # c
        BY <1>5, <2>3, <3>1, <3>3, <4>2 DEF ConnectionsInv, DeletionOK, Deletes
      <4> QED BY <4>1, <4>2
    <3> QED BY <3>2, <3>3
  <2>8. ASSUME NEW x \in Caller, Deletes(x)'
        PROVE  /\ ~clerk'
               /\ tx'[x].snap[ConnectionDoc] = Absent /\ db'[ConnectionDoc] # Absent =>
                    \E a \in Attempt : tx'[x].snap[AttemptDoc(a)] = "consumed" /\ AttemptDoc(a) \in tx'[x].missed
    <3>1. CASE x = c
      BY <1>2, <1>5, <2>3, <2>8, <3>1
    <3>2. CASE x # c
      <4>1. Deletes(x) /\ x \in OpenClients /\ tx'[x] = tx[x]
        BY <1>5, <2>3, <2>8, <3>2 DEF Deletes
      <4> QED BY <1>2, <1>5, <4>1 DEF ConnectionsInv, DeletionOK
    <3> QED BY <3>1, <3>2
  <2> QED BY <2>4, <2>5, <2>6, <2>7, <2>8 DEF DeletionOK
<1> QED BY <1>5, <1>7, <1>8 DEF ConnectionsInv

\* A commit of a caller that is not a deletion.
LEMMA CallerCommits ==
  ASSUME ConnectionsInv, NEW c \in Caller, NEW t, NEW touched, Commits(c, t, touched),
         UNCHANGED <<call, run, expired, clerk, requests, faults, gone>>,
         (t[ConnectionDoc] # Absent => tx[c].snap[ConnectionDoc] # Absent) \/ Conflicts(c, t, touched)
  PROVE  ConnectionsInv'
<1>1. /\ StoreOK' /\ EvidenceOK' /\ DeletionOK' /\ OpenClients' = OpenClients \ {c}
      /\ \A x \in OpenClients' : x \in OpenClients /\ tx'[x].req = tx[x].req
  BY CommitKeeps DEF ConnectionsInv
<1>2. RunsOK' /\ CallsOK' /\ CountsOK'
  BY <1>1, RunsStay, CallsStay, ConnectionsAssumption DEF ConnectionsInv, CountsOK
<1> QED BY <1>1, <1>2 DEF ConnectionsInv

\* A connection that changes its state and revision, with at most one job put in line.
LEMMA StateChanges ==
  ASSUME NEW s, Typed(s), s[ConnectionDoc] \in ConnectionValue, NEW k \in ConnectionValue,
         k.id = s[ConnectionDoc].id, k.since = s[ConnectionDoc].since, k.rev = s[ConnectionDoc].rev + 1,
         NEW t, DOMAIN t = Docs, t[ConnectionDoc] = k,
         NEW j \in JobDocs, t[j] \in JobValue, \A d \in Docs \ {ConnectionDoc, j} : t[d] = s[d]
  PROVE  /\ Typed(t) /\ (EvidenceIn(s) => EvidenceIn(t)) /\ ConnectionDoc \in Changed(s, t)
         /\ \A a \in Attempt : t[AttemptDoc(a)] = s[AttemptDoc(a)]
<1>1. \A a \in Attempt : t[AttemptDoc(a)] = s[AttemptDoc(a)]
  BY DocKinds
<1>2. \A d \in Scrobbles : t[d] = s[d]
  BY DocKinds
<1>3. \A x \in JobDocs : t[x] \in JobValue
  BY DocKinds DEF Typed
<1>4. Typed(t)
  BY <1>1, <1>2, <1>3 DEF Typed
<1>5. s[ConnectionDoc].rev \in Nat /\ s[ConnectionDoc].since \in Nat
  BY Bounds DEF ConnectionValue
<1>6. ConnectionDoc \in Changed(s, t)
  <2>1. k # s[ConnectionDoc]
    BY <1>5
  <2> QED BY <2>1, DocKinds DEF Typed, Changed
<1>7. ASSUME EvidenceIn(s) PROVE EvidenceIn(t)
  <2>1. s[ConnectionDoc] # Absent
    BY Bounds
  <2>2. k.since <= k.rev
    BY <1>5, <1>7, <2>1 DEF EvidenceIn
  <2>3. \A d \in Scrobbles : t[d] # NoScrobble => t[d] >= k.since
    BY <1>2, <1>7, <2>1 DEF EvidenceIn
  <2>4. ASSUME NEW i \in Id, NEW d \in ScrobbleDocs(i), t[d] # NoScrobble PROVE k.id = i
    <3>1. d \in Scrobbles
      BY DocKinds
    <3> QED BY <1>2, <1>7, <2>4, <3>1 DEF EvidenceIn
  <2> QED BY <2>2, <2>3, <2>4 DEF EvidenceIn
<1> QED BY <1>1, <1>4, <1>6, <1>7

\* A mutation of the connection.
LEMMA MutationCommits ==
  ASSUME ConnectionsInv, NEW c \in Caller, c \in OpenClients,
         UNCHANGED <<call, run, expired, clerk, requests, faults, gone>>,
         NEW k \in ConnectionValue, tx[c].snap[ConnectionDoc] \in ConnectionValue,
         k.id = tx[c].snap[ConnectionDoc].id, k.since = tx[c].snap[ConnectionDoc].since,
         k.rev = tx[c].snap[ConnectionDoc].rev + 1,
         NEW t, DOMAIN t = Docs, t[ConnectionDoc] = k,
         NEW j \in JobDocs, t[j] \in JobValue, \A d \in Docs \ {ConnectionDoc, j} : t[d] = tx[c].snap[d],
         NEW touched, touched \subseteq {j}, CommitTouching(c, t, touched)
  PROVE  ConnectionsInv'
<1> DEFINE s == tx[c].snap
<1>0. s = tx[c].snap
  OBVIOUS
<1>1. Typed(s) /\ s[ConnectionDoc] # Absent
  BY Bounds DEF ConnectionsInv, StoreOK
<1> HIDE DEF s
<1>2. /\ Typed(t) /\ (EvidenceIn(s) => EvidenceIn(t)) /\ ConnectionDoc \in Changed(s, t)
      /\ \A a \in Attempt : t[AttemptDoc(a)] = s[AttemptDoc(a)]
  BY <1>0, <1>1, StateChanges
<1>3. touched \subseteq Docs
  BY DocKinds
<1>4. ConnectionDoc \in Wrote(c, t, touched)
  BY <1>0, <1>2 DEF Wrote
<1>5. Commits(c, t, touched)
  BY <1>0, <1>2, <1>3, <1>4 DEF Commits
<1> QED BY <1>0, <1>1, <1>5, CallerCommits

\* Pausing, resuming and disconnecting.
LEMMA MutationsKeep ==
  ASSUME ConnectionsInv, NEW c \in Caller, Pause(c) \/ Resume(c) \/ Disconnect(c) PROVE ConnectionsInv'
<1> DEFINE s == tx[c].snap
           k == s[ConnectionDoc]
           l(state) == [k EXCEPT !.state = state, !.rev = @ + 1]
<1>1. c \in OpenClients /\ UNCHANGED <<call, run, expired, clerk, requests, faults, gone>>
  BY DEF Pause, Resume, Disconnect, Running, Settle
<1>2. k.state \in Open /\ k.rev < MaxRevision
  BY DEF Pause, Resume, Disconnect, Open
<1>3. DOMAIN s = Docs /\ k \in ConnectionValue /\ \A j \in JobDocs : s[j] \in JobValue
  BY <1>1, <1>2, Bounds DEF ConnectionsInv, StoreOK, Typed, Open
<1>4. k.id \in Id /\ k.rev + 1 \in Revision
  BY <1>2, <1>3, Bounds DEF ConnectionValue
<1>5. \A state \in Open \cup {"disconnected"} :
        /\ l(state) \in ConnectionValue /\ l(state).id = k.id /\ l(state).since = k.since
        /\ l(state).rev = k.rev + 1
  BY <1>3, <1>4 DEF ConnectionValue
<1>6. SyncDoc(k.id) \in JobDocs /\ CleanupDoc(k.id, k.rev + 1) \in JobDocs /\ Requeued(k.id, k.rev + 1) \in JobValue
  BY <1>4, DocKinds, JobValues
<1>7. s = tx[c].snap /\ k = tx[c].snap[ConnectionDoc]
  OBVIOUS
<1>8. ASSUME NEW state \in Open \cup {"disconnected"}, NEW j \in JobDocs, NEW t, DOMAIN t = Docs,
             t[ConnectionDoc] = l(state), t[j] \in JobValue, \A d \in Docs \ {ConnectionDoc, j} : t[d] = s[d],
             NEW touched, touched \subseteq {j}, CommitTouching(c, t, touched)
      PROVE  ConnectionsInv'
  <2> DEFINE m == l(state)
  <2> HIDE DEF l, k, s
  <2>1. m \in ConnectionValue /\ m.id = k.id /\ m.since = k.since /\ m.rev = k.rev + 1 /\ t[ConnectionDoc] = m
    BY <1>5, <1>8
  <2> HIDE DEF m
  <2> QED BY <1>1, <1>3, <1>7, <1>8, <2>1, MutationCommits
<1>9. CASE Pause(c)
  <2> DEFINE j == SyncDoc(k.id)
             t == [s EXCEPT ![ConnectionDoc] = l("paused")]
  <2>1. CommitTouching(c, t, {})
    BY <1>9 DEF Pause, Settle
  <2>2. j \in JobDocs /\ s[j] \in JobValue
    BY <1>3, <1>6
  <2>3. DOMAIN t = Docs /\ t[ConnectionDoc] = l("paused") /\ t[j] = s[j] /\ \A d \in Docs \ {ConnectionDoc, j} : t[d] = s[d]
    BY <1>3, <2>2, DocKinds
  <2> HIDE DEF t, j, l
  <2> QED BY <1>8, <2>1, <2>2, <2>3 DEF Open
<1>10. CASE Resume(c)
  <2> DEFINE j == SyncDoc(k.id)
             t == [s EXCEPT ![ConnectionDoc] = l("active"), ![j] = Requeued(k.id, k.rev + 1)]
  <2>1. CommitTouching(c, t, {j})
    BY <1>10 DEF Resume, Settle
  <2>2. j \in JobDocs
    BY <1>6
  <2>3. /\ DOMAIN t = Docs /\ t[ConnectionDoc] = l("active") /\ t[j] = Requeued(k.id, k.rev + 1)
        /\ \A d \in Docs \ {ConnectionDoc, j} : t[d] = s[d]
    BY <1>3, <2>2, DocKinds
  <2> HIDE DEF t, j, l
  <2> QED BY <1>6, <1>8, <2>1, <2>2, <2>3 DEF Open
<1>11. CASE Disconnect(c)
  <2> DEFINE j == CleanupDoc(k.id, k.rev + 1)
             t == [s EXCEPT ![ConnectionDoc] = l("disconnected"), ![j] = Requeued(k.id, k.rev + 1)]
  <2>1. CommitTouching(c, t, {})
    BY <1>11 DEF Disconnect, Settle
  <2>2. j \in JobDocs
    BY <1>6
  <2>3. /\ DOMAIN t = Docs /\ t[ConnectionDoc] = l("disconnected") /\ t[j] = Requeued(k.id, k.rev + 1)
        /\ \A d \in Docs \ {ConnectionDoc, j} : t[d] = s[d]
    BY <1>3, <2>2, DocKinds
  <2> HIDE DEF t, j, l
  <2> QED BY <1>6, <1>8, <2>1, <2>2, <2>3
<1> QED BY <1>9, <1>10, <1>11

\* The callback of a consumed attempt writes it, so that no account that is gone,
\* or is being removed, gets a connection.
LEMMA CallbackConflicts ==
  ASSUME ConnectionsInv, NEW c \in Caller, Running(c, "callback"), NEW t,
         tx[c].snap[AttemptDoc(tx[c].req.attempt)] = "consumed",
         CommitTouching(c, t, FencedAttempt(tx[c].req.attempt))
  PROVE  tx[c].req.attempt \in Attempt /\ Conflicts(c, t, FencedAttempt(tx[c].req.attempt))
<1> DEFINE a == tx[c].req.attempt
           W == Wrote(c, t, FencedAttempt(a))
<1>1. c \in OpenClients /\ tx[c].req.op = "callback"
  BY DEF Running
<1>2. a \in Attempt
  BY <1>1 DEF ConnectionsInv, CallsOK, AnyRequest
<1>3. AttemptDoc(a) \in W /\ AttemptDoc(a) \in DOMAIN db
  BY <1>2, DocKinds DEF Wrote, FencedAttempt, ConnectionsInv, StoreOK, Typed
<1>4. W \cap tx[c].missed = {}
  BY DEF CommitTouching, Wrote
<1>5. db[AttemptDoc(a)] = "consumed"
  BY <1>1, <1>3, <1>4 DEF ConnectionsInv, StoreOK, Transactions, SnapshotsAreCurrent
<1>6. Exchanged(c, a)
  BY <1>1 DEF Exchanged
<1>7. ~gone
  BY <1>2, <1>5, <1>6 DEF ConnectionsInv, DeletionOK
<1>8. ASSUME NEW x \in Caller, Deletes(x) PROVE tx[x].snap[AttemptDoc(a)] = "consumed"
  <2>1. tx[x].snap[AttemptDoc(a)] \in Past /\ x \in OpenClients
    BY <1>2, <1>6, <1>8 DEF ConnectionsInv, DeletionOK, Deletes
  <2>2. tx[x].snap[AttemptDoc(a)] # "deleted"
    BY <1>2, <1>5, <2>1 DEF ConnectionsInv, DeletionOK
  <2> QED BY <2>1, <2>2 DEF Past
<1> QED BY <1>2, <1>3, <1>7, <1>8 DEF Conflicts

\* A callback's commit, of a connection that starts without evidence.
LEMMA CallbackCommits ==
  ASSUME ConnectionsInv, NEW c \in Caller, Running(c, "callback"),
         UNCHANGED <<call, run, expired, clerk, requests, faults, gone>>,
         NEW a, a = tx[c].req.attempt, tx[c].snap[AttemptDoc(a)] = "consumed",
         NEW k \in ConnectionValue, k.since = k.rev, tx[c].snap[ConnectionDoc] # k,
         NEW j \in JobDocs, NEW t, DOMAIN t = Docs, t[ConnectionDoc] = k, t[j] \in JobValue,
         \A d \in Docs \ {ConnectionDoc, j} : t[d] = tx[c].snap[d] \/ (d \in Scrobbles /\ t[d] = NoScrobble),
         EvidenceIn(tx[c].snap) => \A d \in Scrobbles : t[d] = NoScrobble,
         CommitTouching(c, t, FencedAttempt(a))
  PROVE  ConnectionsInv'
<1> DEFINE s == tx[c].snap
<1>1. c \in OpenClients /\ Typed(s)
  BY DEF Running, ConnectionsInv, StoreOK
<1>2. a \in Attempt /\ Conflicts(c, t, FencedAttempt(a))
  BY CallbackConflicts
<1>3. \A b \in Attempt : t[AttemptDoc(b)] = s[AttemptDoc(b)]
  BY DocKinds
<1>4. \A d \in Scrobbles : t[d] \in {NoScrobble, s[d]}
  BY DocKinds
<1>5. \A x \in JobDocs : t[x] \in JobValue
  BY <1>1, DocKinds DEF Typed
<1>6. Typed(t)
  BY <1>1, <1>3, <1>4, <1>5 DEF Typed
<1>7. ASSUME EvidenceIn(s) PROVE EvidenceIn(t)
  <2>1. k.since <= k.rev
    BY Bounds DEF ConnectionValue
  <2> QED BY <1>7, <2>1, DocKinds DEF EvidenceIn
<1>8. ConnectionDoc \in Wrote(c, t, FencedAttempt(a))
  BY <1>1, DocKinds DEF Typed, Changed, Wrote
<1>9. FencedAttempt(a) \subseteq Docs
  BY <1>2, DocKinds DEF FencedAttempt
<1>10. \A b \in Attempt : t[AttemptDoc(b)] \in {"deleted", s[AttemptDoc(b)]}
  BY <1>3
<1>11. Commits(c, t, FencedAttempt(a))
  BY <1>1, <1>6, <1>7, <1>8, <1>9, <1>10 DEF Commits
<1> QED BY <1>2, <1>11, CallerCommits

\* The callback commits the first connection of an account.
LEMMA ConnectKeeps ==
  ASSUME ConnectionsInv, NEW c \in Caller, Connect(c) PROVE ConnectionsInv'
<1> DEFINE s == tx[c].snap
           a == tx[c].req.attempt
           i == Cardinality(Ids(s)) + 1
           k == [state |-> "active", id |-> i, rev |-> 1, since |-> 1]
           j == SyncDoc(i)
           t == [s EXCEPT ![ConnectionDoc] = k, ![j] = Requeued(i, 1)]
<1>1. /\ Running(c, "callback") /\ s[AttemptDoc(a)] = "consumed" /\ s[ConnectionDoc] = Absent /\ i \in Id
      /\ CommitTouching(c, t, FencedAttempt(a)) /\ UNCHANGED <<call, run, expired, clerk, requests, faults, gone>>
  BY DEF Connect, Settle
<1> HIDE DEF i
<1>2. DOMAIN s = Docs
  BY <1>1 DEF ConnectionsInv, StoreOK, Typed, Running
<1>3. k \in ConnectionValue /\ k.since = k.rev
  BY <1>1, Bounds DEF ConnectionValue, Open
<1>4. k # Absent
  BY <1>3, Bounds
<1>5. j \in JobDocs /\ Requeued(i, 1) \in JobValue
  BY <1>1, Bounds, DocKinds, JobValues
<1>6. /\ DOMAIN t = Docs /\ t[ConnectionDoc] = k /\ t[j] = Requeued(i, 1)
      /\ \A d \in Docs \ {ConnectionDoc, j} : t[d] = s[d]
  BY <1>2, <1>5, DocKinds
<1>7. ASSUME EvidenceIn(s), NEW d \in Scrobbles PROVE t[d] = NoScrobble
  <2>1. t[d] = s[d]
    BY <1>5, <1>6, DocKinds
  <2>2. PICK x \in Id : d \in ScrobbleDocs(x)
    BY DocKinds
  <2>3. s[d] # NoScrobble => Absent.id = x
    BY <1>1, <1>7, <2>2 DEF EvidenceIn
  <2> QED BY <2>1, <2>3, Bounds
<1>8. a = tx[c].req.attempt /\ s = tx[c].snap
  OBVIOUS
<1> HIDE DEF t, j, k, a, s
<1> QED BY <1>1, <1>3, <1>4, <1>5, <1>6, <1>7, <1>8, CallbackCommits

\* The callback commits a connection that there was before, without its evidence.
LEMMA ReconnectKeeps ==
  ASSUME ConnectionsInv, NEW c \in Caller, Reconnect(c) PROVE ConnectionsInv'
<1> DEFINE s == tx[c].snap
           a == tx[c].req.attempt
           l == s[ConnectionDoc]
           k == [l EXCEPT !.state = "active", !.rev = @ + 1, !.since = l.rev + 1]
           j == SyncDoc(l.id)
           f == ForgetEvidence(s, l.id)
           t == [f EXCEPT ![ConnectionDoc] = k, ![j] = Requeued(l.id, l.rev + 1)]
<1>1. /\ Running(c, "callback") /\ s[AttemptDoc(a)] = "consumed" /\ l.state = "disconnected" /\ l.rev < MaxRevision
      /\ CommitTouching(c, t, FencedAttempt(a)) /\ UNCHANGED <<call, run, expired, clerk, requests, faults, gone>>
  BY DEF Reconnect, Settle
<1>2. DOMAIN s = Docs /\ l \in ConnectionValue
  BY <1>1, Bounds DEF ConnectionsInv, StoreOK, Typed, Running
<1>3. l.id \in Id /\ l.rev \in Nat /\ l.rev + 1 \in Revision
  BY <1>1, <1>2, Bounds DEF ConnectionValue
<1>4. k \in ConnectionValue /\ k.since = k.rev /\ k.rev = l.rev + 1
  BY <1>2, <1>3 DEF ConnectionValue, Open
<1>5. k # l
  <2>1. k.rev # l.rev
    BY <1>3, <1>4
  <2> HIDE DEF k, l
  <2> QED BY <2>1
<1>6. j \in JobDocs /\ Requeued(l.id, l.rev + 1) \in JobValue
  BY <1>3, DocKinds, JobValues
<1>7. DOMAIN f = Docs /\ \A d \in Docs : f[d] = IF d \in ScrobbleDocs(l.id) THEN NoScrobble ELSE s[d]
  BY <1>2 DEF ForgetEvidence
<1> HIDE DEF f
<1>8. /\ DOMAIN t = Docs /\ t[ConnectionDoc] = k /\ t[j] = Requeued(l.id, l.rev + 1)
      /\ \A d \in Docs \ {ConnectionDoc, j} : t[d] = f[d]
  BY <1>6, <1>7, DocKinds
<1>9. \A d \in Docs \ {ConnectionDoc, j} : t[d] = s[d] \/ (d \in Scrobbles /\ t[d] = NoScrobble)
  BY <1>3, <1>7, <1>8, DocKinds
<1>10. ASSUME EvidenceIn(s), NEW d \in Scrobbles PROVE t[d] = NoScrobble
  <2>1. t[d] = IF d \in ScrobbleDocs(l.id) THEN NoScrobble ELSE s[d]
    BY <1>6, <1>7, <1>8, DocKinds
  <2>2. PICK x \in Id : d \in ScrobbleDocs(x)
    BY DocKinds
  <2>3. s[d] # NoScrobble => l.id = x
    BY <1>10, <2>2 DEF EvidenceIn
  <2> QED BY <2>1, <2>2, <2>3
<1>11. a = tx[c].req.attempt /\ s = tx[c].snap /\ s[ConnectionDoc] = l
  OBVIOUS
<1> HIDE DEF t, j, k, l, a, s
<1> QED BY <1>1, <1>4, <1>5, <1>6, <1>8, <1>9, <1>10, <1>11, CallbackCommits

\* The deletion of the account.
LEMMA DeleteAccountKeeps ==
  ASSUME ConnectionsInv, NEW c \in Caller, DeleteAccount(c) PROVE ConnectionsInv'
<1> DEFINE s == tx[c].snap
           k == s[ConnectionDoc]
           e == DropAttempts(s)
           t == IF e[ConnectionDoc] = Absent THEN e ELSE Without(e, e[ConnectionDoc])
           W == {} \cup Changed(s, t)
<1>1. /\ Deletes(c) /\ c \in OpenClients /\ CommitTouching(c, t, {}) /\ gone' = TRUE
      /\ UNCHANGED <<call, run, expired, clerk, requests, faults>>
  BY DEF DeleteAccount, Running, Settle, Deletes
<1>2. Typed(s)
  BY <1>1 DEF ConnectionsInv, StoreOK
<1>3. /\ Typed(e) /\ e[ConnectionDoc] = k /\ \A d \in Scrobbles : e[d] = s[d]
      /\ \A a \in Attempt : e[AttemptDoc(a)] = IF s[AttemptDoc(a)] = "unborn" THEN "unborn" ELSE "deleted"
  BY <1>2, Removals
<1> HIDE DEF e
<1>4. EvidenceIn(s) => EvidenceIn(e)
  BY <1>3, DocKinds DEF EvidenceIn
<1>5. /\ Typed(t) /\ t[ConnectionDoc] = Absent /\ \A a \in Attempt : t[AttemptDoc(a)] = e[AttemptDoc(a)]
      /\ EvidenceIn(s) => EvidenceIn(t)
      /\ k = Absent => \A d \in Scrobbles : t[d] = s[d]
  <2>1. CASE e[ConnectionDoc] = Absent
    BY <1>3, <1>4, <2>1
  <2>2. CASE e[ConnectionDoc] # Absent
    <3> DEFINE v == Without(e, e[ConnectionDoc])
    <3>1. /\ Typed(v) /\ v[ConnectionDoc] = Absent /\ \A a \in Attempt : v[AttemptDoc(a)] = e[AttemptDoc(a)]
          /\ EvidenceIn(e) => \A d \in Scrobbles : v[d] = NoScrobble
      BY <1>3, <2>2, RemovedConnection
    <3>2. t = v
      BY <2>2
    <3> HIDE DEF t, v
    <3>3. EvidenceIn(e) => EvidenceIn(v)
      BY <3>1, DocKinds DEF EvidenceIn
    <3> QED BY <1>3, <1>4, <2>2, <3>1, <3>2, <3>3
  <2> QED BY <2>1, <2>2
<1> HIDE DEF t
<1>6. W = {} \cup Changed(tx[c].snap, t)
  OBVIOUS
<1>7. StoreOK' /\ Committed(c, t, W) /\ W \cap tx[c].missed = {}
  <2>1. {} \in SUBSET Docs
    OBVIOUS
  <2>2. StoreOK' /\ Committed(c, t, W)
    BY <1>1, <1>5, <2>1, StoreCommitted DEF ConnectionsInv
  <2> QED BY <1>1, <2>2 DEF CommitTouching
<1>8. Scrobbles \subseteq DOMAIN s /\ ConnectionDoc \in DOMAIN s /\ \A a \in Attempt : AttemptDoc(a) \in DOMAIN s
  BY <1>2, DocKinds DEF Typed
<1>9. ConnectionDoc \notin W => k = Absent
  BY <1>5, <1>8 DEF Changed
<1>10. ConnectionDoc \notin W => W \cap Scrobbles = {}
  <2>1. ASSUME k = Absent, NEW d \in Scrobbles PROVE d \notin W
    BY <1>5, <2>1 DEF Changed
  <2> QED BY <1>9, <2>1
<1>11. s = tx[c].snap /\ DOMAIN db = Docs
  BY DEF ConnectionsInv, StoreOK, Typed
<1> HIDE DEF W, s, k
<1>12. EvidenceOK'
  BY <1>1, <1>5, <1>7, <1>10, <1>11, EvidenceCommitted DEF ConnectionsInv
<1>13. \A a \in Attempt : AttemptDoc(a) \in W => db'[AttemptDoc(a)] = t[AttemptDoc(a)] /\ s[AttemptDoc(a)] = db[AttemptDoc(a)]
  BY <1>7, <1>11 DEF Committed
<1>14. \A a \in Attempt : AttemptDoc(a) \notin W => db'[AttemptDoc(a)] = db[AttemptDoc(a)] /\ t[AttemptDoc(a)] = s[AttemptDoc(a)]
  BY <1>7, <1>11, DocKinds DEF Committed
<1>15. ~clerk /\ clerk' = clerk
  BY <1>1 DEF ConnectionsInv, DeletionOK
<1>16. db'[ConnectionDoc] = Absent
  <2>1. CASE ConnectionDoc \in W
    BY <1>5, <1>7, <2>1 DEF Committed
  <2>2. CASE ConnectionDoc \notin W
    <3>1. tx[c].snap[ConnectionDoc] = Absent /\ db'[ConnectionDoc] = db[ConnectionDoc]
      BY <1>7, <1>9, <1>11, <2>2, DocKinds DEF Committed, k
    <3>2. SUFFICES ASSUME db[ConnectionDoc] # Absent PROVE FALSE
      BY <3>1
    <3>3. PICK a \in Attempt : tx[c].snap[AttemptDoc(a)] = "consumed" /\ AttemptDoc(a) \in tx[c].missed
      BY <1>1, <3>1, <3>2 DEF ConnectionsInv, DeletionOK
    <3>4. t[AttemptDoc(a)] = "deleted"
      BY <1>3, <1>5, <1>11, <3>3
    <3>5. AttemptDoc(a) \in W
      BY <1>11, <1>14, <3>3, <3>4
    <3> QED BY <1>7, <3>3, <3>5
  <2> QED BY <2>1, <2>2
<1>17. ASSUME NEW x \in Caller, NEW a \in Attempt, Exchanged(x, a) PROVE db'[AttemptDoc(a)] = "deleted"
  <2>1. s[AttemptDoc(a)] \in Past
    BY <1>1, <1>11, <1>17 DEF ConnectionsInv, DeletionOK
  <2>2. t[AttemptDoc(a)] = "deleted"
    BY <1>3, <1>5, <2>1 DEF Past
  <2>3. CASE AttemptDoc(a) \in W
    BY <1>13, <2>2, <2>3
  <2>4. CASE AttemptDoc(a) \notin W
    <3>1. tx[c].snap[AttemptDoc(a)] = "deleted"
      BY <1>11, <1>14, <2>2, <2>4
    <3>2. db[AttemptDoc(a)] = "deleted"
      BY <1>1, <3>1 DEF ConnectionsInv, DeletionOK
    <3> QED BY <1>14, <2>4, <3>2
  <2> QED BY <2>3, <2>4
<1>18. /\ \A a \in Attempt : db[AttemptDoc(a)] \in Past => db'[AttemptDoc(a)] \in Past
       /\ \A a \in Attempt : db[AttemptDoc(a)] = "deleted" => db'[AttemptDoc(a)] = "deleted"
  <2> SUFFICES ASSUME NEW a \in Attempt PROVE db[AttemptDoc(a)] \in Past => db'[AttemptDoc(a)] \in {"deleted", db[AttemptDoc(a)]}
    BY DEF Past
  <2>1. CASE AttemptDoc(a) \in W
    BY <1>3, <1>5, <1>13, <2>1 DEF Past
  <2>2. CASE AttemptDoc(a) \notin W
    BY <1>14, <2>2
  <2> QED BY <2>1, <2>2
<1>19. FallBehind(OpenClients \ {c}, W) /\ OpenClients \ {c} \subseteq OpenClients
  BY <1>7 DEF Committed
<1>20. DeletionOK'
  <2>1. \/ gone' = gone /\ (gone => db'[ConnectionDoc] = Absent)
        \/ /\ ~clerk /\ db'[ConnectionDoc] = Absent
           /\ \A x \in Caller, a \in Attempt : Exchanged(x, a) => db'[AttemptDoc(a)] = "deleted"
    BY <1>15, <1>16, <1>17
  <2> QED BY <1>1, <1>16, <1>18, <1>19, <2>1, DeletionAdvances DEF ConnectionsInv
<1>21. RunsOK' /\ CallsOK' /\ CountsOK'
  BY <1>1, <1>19, RunsStay, CallsStay, ConnectionsAssumption DEF ConnectionsInv, CountsOK, FallBehind
<1> QED BY <1>7, <1>12, <1>20, <1>21 DEF ConnectionsInv

(***************************************************************************)
(* The theorems                                                            *)
(***************************************************************************)
LEMMA ConnectionsStart == ASSUME ConnectionsInit PROVE ConnectionsInv
<1>1. /\ tx = [c \in {} |-> {}] /\ call = [c \in Caller |-> NoCall] /\ run = [w \in Worker |-> NoRun]
      /\ expired = {} /\ clerk = TRUE /\ gone = FALSE /\ requests = 0 /\ faults = 0
  BY DEF ConnectionsInit
<1>2. OpenClients = {}
  BY <1>1 DEF OpenClients
<1>3. /\ Typed(Unused) /\ Unused[ConnectionDoc] = Absent
      /\ \A a \in Attempt : Unused[AttemptDoc(a)] = "unborn"
      /\ \A d \in Scrobbles : Unused[d] = NoScrobble
  <2>1. Unused[ConnectionDoc] = Absent
    BY DocKinds DEF Unused, ConnectionDoc
  <2>2. \A a \in Attempt : Unused[AttemptDoc(a)] = "unborn"
    <3> SUFFICES ASSUME NEW a \in Attempt PROVE AttemptDoc(a) \in Docs /\ AttemptDoc(a)[1] = "attempt"
      BY DEF Unused
    <3> QED BY DocKinds DEF AttemptDoc
  <2>3. \A d \in Scrobbles : Unused[d] = NoScrobble
    <3> SUFFICES ASSUME NEW d \in Scrobbles PROVE d \in Docs /\ d[1] = "scrobble"
      BY DEF Unused
    <3> QED BY DocKinds DEF Scrobbles, ScrobbleDocs, ScrobbleDoc
  <2>4. \A j \in JobDocs : Unused[j] = NoJob
    <3> SUFFICES ASSUME NEW j \in JobDocs PROVE j \in Docs /\ j[1] \in {"sync", "cleanup"}
      BY DEF Unused
    <3> QED BY DocKinds DEF JobDocs, SyncDoc, CleanupDoc
  <2>5. NoJob \in JobValue
    BY DEF NoJob, JobValue
  <2>6. DOMAIN Unused = Docs
    BY DEF Unused
  <2> QED BY <2>1, <2>2, <2>3, <2>4, <2>5, <2>6 DEF Typed, AttemptState
<1>4. /\ Typed(db) /\ \A d \in Scrobbles : db[d] = NoScrobble
      /\ db[ConnectionDoc] # Absent => db[ConnectionDoc].since = db[ConnectionDoc].rev /\ db[ConnectionDoc].rev = 1
  <2>1. CASE db = Unused
    BY <1>3, <2>1
  <2>2. CASE db # Unused
    <3> DEFINE k == [state |-> "active", id |-> 1, rev |-> 1, since |-> 1]
               t == [Unused EXCEPT ![ConnectionDoc] = k, ![SyncDoc(1)] = Requeued(1, 1)]
    <3>1. db = t
      BY <2>2 DEF ConnectionsInit, FirstConnections
    <3>2. k \in ConnectionValue /\ SyncDoc(1) \in JobDocs /\ Requeued(1, 1) \in JobValue
      BY Bounds, DocKinds, JobValues DEF ConnectionValue, Open
    <3>3. k.since = k.rev /\ k.rev = 1
      OBVIOUS
    <3>4. /\ DOMAIN t = Docs /\ t[ConnectionDoc] = k /\ t[SyncDoc(1)] = Requeued(1, 1)
          /\ \A d \in Docs \ {ConnectionDoc, SyncDoc(1)} : t[d] = Unused[d]
      BY <1>3, <3>2, DocKinds DEF Typed
    <3> HIDE DEF t, k
    <3>5. \A d \in Scrobbles : t[d] = NoScrobble
      BY <1>3, <3>2, <3>4, DocKinds
    <3>6. \A a \in Attempt : t[AttemptDoc(a)] = "unborn"
      BY <1>3, <3>2, <3>4, DocKinds
    <3>7. \A j \in JobDocs : t[j] \in JobValue
      BY <1>3, <3>2, <3>4, DocKinds DEF Typed
    <3> QED BY <3>1, <3>2, <3>3, <3>4, <3>5, <3>6, <3>7 DEF Typed, AttemptState
  <2> QED BY <2>1, <2>2
<1>5. StoreOK
  BY <1>1, <1>2, <1>4 DEF StoreOK, Transactions, SnapshotShape, SnapshotsAreCurrent
<1>6. RunsOK
  BY <1>1, <1>2 DEF RunsOK, AnyRun, IdleRun, NoRun
<1>7. CallsOK
  BY <1>1, <1>2 DEF CallsOK, AnyCall
<1>8. CountsOK
  <2>1. requests \in 0..MaxRequests /\ faults \in 0..MaxFaults
    BY <1>1, ConnectionsAssumption
  <2>2. expired \subseteq JobDocs /\ clerk \in BOOLEAN /\ gone \in BOOLEAN
    BY <1>1
  <2> QED BY <2>1, <2>2 DEF CountsOK
<1>9. EvidenceOK
  <2>1. db[ConnectionDoc] # Absent => db[ConnectionDoc].since <= db[ConnectionDoc].rev
    BY <1>4
  <2> QED BY <1>2, <1>4, <2>1, DocKinds DEF EvidenceOK, EvidenceIn
<1>10. DeletionOK
  BY <1>1, <1>2 DEF DeletionOK, Consumed, Exchanged, Deletes, NoCall
<1> QED BY <1>5, <1>6, <1>7, <1>8, <1>9, <1>10 DEF ConnectionsInv

\* A step that changes nothing keeps the invariant.
LEMMA StutteringKeepsConnections ==
  ASSUME ConnectionsInv, UNCHANGED connVars PROVE ConnectionsInv'
<1>1. UNCHANGED <<db, tx, call, run, expired, clerk, gone, requests, faults>>
  BY DEF connVars
<1>2. StoreOK' /\ EvidenceOK' /\ DeletionOK' /\ CallsOK' /\ OpenClients' = OpenClients
  BY <1>1, NothingStored DEF ConnectionsInv, OpenClients
<1>3. RunsOK' /\ CountsOK'
  BY <1>1, <1>2, RunsStay DEF ConnectionsInv, CountsOK
<1> QED BY <1>2, <1>3 DEF ConnectionsInv

\* Every step, and stuttering, keeps the invariant.
LEMMA StepsKeepConnections ==
  ASSUME ConnectionsInv, [ConnectionsNext]_connVars PROVE ConnectionsInv'
<1>1. CASE UNCHANGED connVars
  BY <1>1, StutteringKeepsConnections
<1>2. CASE ApiNext
  <2>1. CASE \E a \in Attempt : Start(a) \/ DropAttempt(a) \/ (\E c \in Caller : Consume(c, a))
    BY <2>1, AttemptsKeep, ConsumeKeeps
  <2>2. ASSUME NEW c \in Caller,
               \/ Exchange(c) \/ BeginCallback(c) \/ Refuse(c) \/ Connect(c) \/ Reconnect(c)
               \/ BeginMutation(c) \/ Pause(c) \/ Resume(c) \/ Disconnect(c)
               \/ BeginDeletion(c) \/ DeleteAccount(c) \/ GiveUp(c)
        PROVE  ConnectionsInv'
    <3>1. CASE Exchange(c) \/ BeginCallback(c) \/ Refuse(c) \/ GiveUp(c)
      BY <3>1, ExchangeKeeps, BeginCallbackKeeps, RefusalsKeep
    <3>2. CASE Connect(c) \/ Reconnect(c)
      BY <3>2, ConnectKeeps, ReconnectKeeps
    <3>3. CASE BeginMutation(c) \/ BeginDeletion(c)
      BY <3>3, RequestsBegin
    <3>4. CASE Pause(c) \/ Resume(c) \/ Disconnect(c)
      BY <3>4, MutationsKeep
    <3>5. CASE DeleteAccount(c)
      BY <3>5, DeleteAccountKeeps
    <3> QED BY <2>2, <3>1, <3>2, <3>3, <3>4, <3>5
  <2>3. CASE LeaveClerk
    BY <2>3, QuietStepsKeep
  <2> QED BY <1>2, <2>1, <2>2, <2>3 DEF ApiNext
<1>3. ASSUME NEW w \in Worker, JobStep(w) \/ PilotEnded(w) \/ Fail(w) \/ Crash(w) \/ ReadDue(w)
      PROVE  ConnectionsInv'
  <2>1. CASE ReadConnection(w) \/ OwnerIsThere(w)
    BY <2>1, ReadsKeep
  <2>2. CASE PilotEnded(w) \/ OwnerIsGone(w)
    BY <2>2, WorkerMovesKeeps
  <2>3. CASE EnqueueCleanup(w) \/ EnqueueDue(w)
    BY <2>3, EnqueuesKeep
  <2>4. CASE StartPage(w) \/ StartCleanup(w) \/ RetryJob(w)
    BY <2>4, StartsKeep, RetryJobKeeps
  <2>5. CASE CommitPage(w) \/ CommitCleanup(w)
    BY <2>5, CommitPageKeeps, CommitCleanupKeeps
  <2>6. CASE Supersede(w) \/ LoseLease(w) \/ Crash(w)
    BY <2>6, DropsKeep
  <2>7. CASE Close(w) \/ Continue(w) \/ Superseded(w) \/ Fail(w)
    BY <2>7, EndsKeep
  <2>8. CASE ReadDue(w)
    BY <2>8, QuietStepsKeep
  <2> QED BY <1>3, <2>1, <2>2, <2>3, <2>4, <2>5, <2>6, <2>7, <2>8 DEF JobStep
<1>4. ASSUME NEW j \in JobDocs, Expire(j) \/ (\E w \in Worker : Acquire(w, j)) PROVE ConnectionsInv'
  BY <1>4, QuietStepsKeep, AcquireKeeps
<1> QED BY <1>1, <1>2, <1>3, <1>4 DEF ConnectionsNext

\* Every behaviour of the connection satisfies the invariant.
THEOREM ConnectionsInvariance == ConnectionsSpec => []ConnectionsInv
<1>1. ConnectionsInit => ConnectionsInv
  BY ConnectionsStart
<1>2. ConnectionsInv /\ [ConnectionsNext]_connVars => ConnectionsInv'
  BY StepsKeepConnections
<1> QED BY <1>1, <1>2, PTL DEF ConnectionsSpec

\* Documents, calls and runs have their types in every behaviour.
THEOREM ConnectionsAreTyped == ConnectionsSpec => []ConnectionsTypeOK
<1>1. ConnectionsInv => ConnectionsTypeOK
  <2> SUFFICES ASSUME ConnectionsInv PROVE ConnectionsTypeOK
    OBVIOUS
  <2>1. \A c \in Caller : call[c].pc \in {"idle", "exchanging", "exchanged"}
    BY DEF ConnectionsInv, CallsOK, AnyCall, NoCall
  <2>2. \A w \in Worker : run[w].pc \in {"idle", "due", "acquired", "read", "fetching", "storing",
                                         "orphaned", "cleaning", "closing", "superseded"}
    BY JobRuns DEF ConnectionsInv, JobSteps
  <2> QED BY <2>1, <2>2 DEF ConnectionsInv, StoreOK, Transactions, Typed, CountsOK, ConnectionsTypeOK, AttemptState
<1> QED BY <1>1, ConnectionsInvariance, PTL

\* Scrobbles never outlive their connection, and nothing captured under an
\* earlier authorization is left (persistPage, cleanupJob, completeAuthorization).
THEOREM EvidenceStaysWithItsConnection == ConnectionsSpec => []EvidenceIsOfTheConnection
<1>1. ConnectionsInv => EvidenceIsOfTheConnection
  <2> SUFFICES ASSUME ConnectionsInv PROVE EvidenceIsOfTheConnection
    OBVIOUS
  <2>1. EvidenceIn(db) /\ db[ConnectionDoc] \in ConnectionValue \cup {Absent}
    BY DEF ConnectionsInv, EvidenceOK, StoreOK, Typed
  <2>2. NoOrphanEvidence
    BY <2>1 DEF EvidenceIn, NoOrphanEvidence
  <2>3. NothingFromBefore
    BY <2>1, DocKinds DEF EvidenceIn, NothingFromBefore, ConnectionValue
  <2> QED BY <2>2, <2>3 DEF EvidenceIsOfTheConnection
<1> QED BY <1>1, ConnectionsInvariance, PTL

\* Once the account's data is removed nothing brings back a connection, nor any
\* scrobble (cleanupUserData, completeAuthorization).
THEOREM DeletionIsFinal == ConnectionsSpec => []DeletedStaysDeleted
<1>1. ConnectionsInv => DeletedStaysDeleted
  <2> SUFFICES ASSUME ConnectionsInv, gone
               PROVE  db[ConnectionDoc] = Absent /\ \A d \in Scrobbles : db[d] = NoScrobble
    BY DEF DeletedStaysDeleted
  <2>1. db[ConnectionDoc] = Absent
    BY DEF ConnectionsInv, DeletionOK
  <2>2. ASSUME NEW d \in Scrobbles PROVE db[d] = NoScrobble
    <3>1. PICK i \in Id : d \in ScrobbleDocs(i)
      BY DocKinds
    <3>2. db[d] # NoScrobble => Absent.id = i
      BY <2>1, <3>1 DEF ConnectionsInv, EvidenceOK, EvidenceIn
    <3> QED BY <3>2, Bounds
  <2> QED BY <2>1, <2>2
<1> QED BY <1>1, ConnectionsInvariance, PTL

(***************************************************************************)
(* What a step may store and remove                                        *)
(***************************************************************************)
Captures(i, d) ==
  LET k == db[ConnectionDoc]
  IN  db'[d] \notin {db[d], NoScrobble} => k.state = "active" /\ k.id = i /\ k.rev = db'[d]
Removes ==
  db[ConnectionDoc] # Absent /\ db'[ConnectionDoc] = Absent => gone' \/ db[ConnectionDoc].state = "disconnected"
Decided == (\A i \in Id : \A d \in ScrobbleDocs(i) : Captures(i, d)) /\ Removes

\* A step that leaves the database alone captures and removes nothing.
LEMMA QuietStepDecides == ASSUME UNCHANGED db PROVE Decided
BY DEF Decided, Captures, Removes

\* A write of a document that is no scrobble and does not remove the connection captures
\* and removes nothing.
LEMMA WriteDecides ==
  ASSUME ConnectionsInv, NEW e, e \notin Scrobbles, NEW v, e = ConnectionDoc => v # Absent,
         Write([db EXCEPT ![e] = v])
  PROVE  Decided
<1>1. \A d \in Docs : db'[d] = IF d = e THEN v ELSE db[d]
  BY DEF Write, ConnectionsInv, StoreOK, Typed
<1>2. \A i \in Id : \A d \in ScrobbleDocs(i) : db'[d] = db[d]
  BY <1>1, DocKinds
<1>3. Removes
  BY <1>1, DocKinds DEF Removes
<1> QED BY <1>2, <1>3 DEF Decided, Captures

\* A commit that stores no scrobble, and removes no connection that stays authorized.
LEMMA CommitDecides ==
  ASSUME ConnectionsInv, NEW c \in OpenClients, NEW t, NEW touched, CommitTouching(c, t, touched),
         \A d \in Scrobbles : t[d] \in {tx[c].snap[d], NoScrobble},
         \/ t[ConnectionDoc] # Absent \/ gone' \/ tx[c].snap[ConnectionDoc].state \in {"disconnected", "absent"}
  PROVE  Decided
<1> DEFINE W == Wrote(c, t, touched)
<1>1. \A d \in Docs : \/ db'[d] = db[d]
                      \/ db'[d] = t[d] /\ tx[c].snap[d] = db[d]
  BY DEF CommitTouching, ConnectionsInv, StoreOK, Typed, Transactions, SnapshotsAreCurrent
<1>2. \A i \in Id : \A d \in ScrobbleDocs(i) : db'[d] \in {db[d], NoScrobble}
  <2> SUFFICES ASSUME NEW d \in Scrobbles PROVE db'[d] \in {db[d], NoScrobble}
    BY DocKinds
  <2> QED BY <1>1, DocKinds
<1>3. Removes
  <2>1. db[ConnectionDoc] # Absent => db[ConnectionDoc].state # "absent"
    BY DEF ConnectionsInv, StoreOK, Typed, ConnectionValue, Open
  <2>2. \/ db'[ConnectionDoc] = db[ConnectionDoc]
        \/ db'[ConnectionDoc] = t[ConnectionDoc] /\ tx[c].snap[ConnectionDoc] = db[ConnectionDoc]
    BY <1>1, DocKinds
  <2> QED BY <2>1, <2>2 DEF Removes
<1> QED BY <1>2, <1>3 DEF Decided, Captures

\* A page is captured only for the connection that is active at the time.
LEMMA PageDecides ==
  ASSUME ConnectionsInv, NEW w \in Worker, CommitPage(w) PROVE Decided
<1> DEFINE s == tx[w].snap
           i == run[w].id
           r == run[w].rev
<1>1. w \in OpenClients /\ IsFor(s[ConnectionDoc], w, "active")
  BY DEF CommitPage, At, ConnectionsInv, RunsOK
<1>2. PICK t \in Pages(s, i, r) : CommitTouching(w, t, Fenced(w))
  BY DEF CommitPage
<1>3. \A d \in Docs : \/ db'[d] = db[d]
                      \/ db'[d] = t[d] /\ s[d] = db[d]
  BY <1>1, <1>2 DEF CommitTouching, ConnectionsInv, StoreOK, Typed, Transactions, SnapshotsAreCurrent
<1>4. db'[ConnectionDoc] = t[ConnectionDoc] /\ s[ConnectionDoc] = db[ConnectionDoc]
  <2>1. ConnectionDoc \in Wrote(w, t, Fenced(w)) /\ Wrote(w, t, Fenced(w)) \cap tx[w].missed = {}
    BY <1>2 DEF CommitTouching, Wrote, Fenced
  <2>2. ConnectionDoc \in DOMAIN db
    BY DocKinds DEF ConnectionsInv, StoreOK, Typed
  <2> QED BY <1>1, <1>2, <2>1, <2>2 DEF CommitTouching, Wrote, ConnectionsInv, StoreOK, Transactions, SnapshotsAreCurrent
<1>5. db[ConnectionDoc].state = "active" /\ db[ConnectionDoc].id = i /\ db[ConnectionDoc].rev = r
  BY <1>1, <1>4 DEF IsFor
<1>6. Typed(s) /\ s[ConnectionDoc] # Absent
  BY <1>1, <1>4, <1>5, Bounds DEF ConnectionsInv, StoreOK
<1>7. Removes
  <2>1. t[ConnectionDoc] = s[ConnectionDoc]
    BY <1>2, <1>4, <1>5, <1>6, PageIsEvidence
  <2> QED BY <1>4, <2>1 DEF Removes
<1>8. ASSUME NEW x \in Id, NEW d \in ScrobbleDocs(x) PROVE Captures(x, d)
  <2>1. d \in Docs
    BY DocKinds
  <2>2. CASE t[d] = s[d]
    BY <1>3, <2>1, <2>2 DEF Captures
  <2>3. CASE t[d] # s[d]
    <3>1. PICK n \in 1..MaxScrobbles : t = [s EXCEPT ![ScrobbleDoc(i, n)] = r]
      <4> DEFINE Least == { y \in Free(s, i) : \A z \in Free(s, i) : y <= z }
                 Page(n) == [s EXCEPT ![ScrobbleDoc(i, n)] = r]
      <4>1. t # s
        BY <2>3
      <4>2. Least \subseteq 1..MaxScrobbles
        BY DEF Free
      <4>3. Pages(s, i, r) = {s} \cup { Page(n) : n \in Least }
        BY DEF Pages
      <4> HIDE DEF Least, Page
      <4>4. PICK n \in Least : t = Page(n)
        BY <1>2, <4>1, <4>3
      <4> QED BY <4>2, <4>4 DEF Page
    <3>2. i \in Id
      BY <1>4, <1>5, <1>6 DEF Typed, ConnectionValue
    <3>3. DOMAIN s = Docs
      BY <1>6 DEF Typed
    <3>4. d = ScrobbleDoc(i, n) /\ t[d] = r
      BY <2>1, <2>3, <3>1, <3>3
    <3>5. x = i
      <4>1. d \in ScrobbleDocs(i)
        BY <3>4 DEF ScrobbleDocs
      <4> HIDE DEF i
      <4> QED BY <3>2, <4>1, DocKinds
    <3>6. db'[d] = db[d] \/ db'[d] = r
      BY <1>3, <2>1, <3>4
    <3> HIDE DEF r, i
    <3> QED BY <1>5, <3>5, <3>6 DEF Captures
  <2> QED BY <2>2, <2>3
<1> QED BY <1>7, <1>8 DEF Decided

\* The owner and the callback capture nothing, and remove only what they may.
LEMMA MutationsDecide ==
  ASSUME ConnectionsInv, NEW c \in Caller, Connect(c) \/ Reconnect(c) \/ Pause(c) \/ Resume(c) \/ Disconnect(c)
  PROVE  Decided
<1> DEFINE s == tx[c].snap
           l == s[ConnectionDoc]
           f == ForgetEvidence(s, l.id)
<1>1. c \in OpenClients
  BY DEF Connect, Reconnect, Pause, Resume, Disconnect, Running
<1>2. Typed(s) /\ DOMAIN s = Docs
  BY <1>1 DEF ConnectionsInv, StoreOK, Typed
<1>3. DOMAIN f = Docs /\ \A d \in Scrobbles : f[d] \in {s[d], NoScrobble}
  BY <1>2, DocKinds DEF ForgetEvidence
<1>4. Absent.state = "absent"
  BY Bounds
<1>5. ASSUME NEW g \in {s, f}, NEW k, k.state # "absent",
             NEW j, j # ConnectionDoc, j \notin Scrobbles, NEW v, NEW touched,
             \/ CommitTouching(c, [g EXCEPT ![ConnectionDoc] = k, ![j] = v], touched)
             \/ CommitTouching(c, [g EXCEPT ![ConnectionDoc] = k], touched)
      PROVE  Decided
  <2> DEFINE t == [g EXCEPT ![ConnectionDoc] = k]
             u == [g EXCEPT ![ConnectionDoc] = k, ![j] = v]
  <2>0. DOMAIN g = Docs
    BY <1>2, <1>3
  <2>1. t[ConnectionDoc] = k /\ u[ConnectionDoc] = k
    <3> HIDE DEF s, f
    <3> QED BY <1>5, <2>0, DocKinds
  <2>2. \A d \in Scrobbles : t[d] = g[d] /\ u[d] = g[d]
    <3> HIDE DEF s, f
    <3> QED BY <1>5, <2>0, DocKinds
  <2>3. k # Absent
    BY <1>4, <1>5
  <2>4. CommitTouching(c, u, touched) \/ CommitTouching(c, t, touched)
    BY <1>5
  <2> HIDE DEF t, u, f
  <2>5. \A d \in Scrobbles : t[d] \in {s[d], NoScrobble} /\ u[d] \in {s[d], NoScrobble}
    BY <1>3, <2>2
  <2> QED BY <1>1, <2>1, <2>3, <2>4, <2>5, CommitDecides
<1>6. /\ \A i : SyncDoc(i) # ConnectionDoc /\ SyncDoc(i) \notin Scrobbles
      /\ \A i, r : CleanupDoc(i, r) # ConnectionDoc /\ CleanupDoc(i, r) \notin Scrobbles
  BY DEF SyncDoc, CleanupDoc, ConnectionDoc, Scrobbles, ScrobbleDocs, ScrobbleDoc
<1>7. l.state # "absent" => l \in ConnectionValue
  BY <1>2, <1>4 DEF Typed
<1> DEFINE m(state) == [l EXCEPT !.state = state, !.rev = @ + 1]
<1>8. CASE Connect(c)
  <2> DEFINE i == Cardinality(Ids(s)) + 1
             k == [state |-> "active", id |-> i, rev |-> 1, since |-> 1]
  <2>1. \E touched : CommitTouching(c, [s EXCEPT ![ConnectionDoc] = k, ![SyncDoc(i)] = Requeued(i, 1)], touched)
    BY <1>8 DEF Connect, Settle
  <2>2. k.state # "absent"
    OBVIOUS
  <2> HIDE DEF s, f, k, i
  <2> QED BY <1>5, <1>6, <2>1, <2>2
<1>9. CASE Reconnect(c)
  <2> DEFINE k == [l EXCEPT !.state = "active", !.rev = @ + 1, !.since = l.rev + 1]
  <2>1. /\ l.state = "disconnected"
        /\ \E touched : CommitTouching(c, [f EXCEPT ![ConnectionDoc] = k, ![SyncDoc(l.id)] = Requeued(l.id, l.rev + 1)], touched)
    BY <1>9 DEF Reconnect, Settle
  <2>2. k.state # "absent"
    BY <1>7, <2>1 DEF ConnectionValue
  <2> HIDE DEF s, f, k, l
  <2> QED BY <1>5, <1>6, <2>1, <2>2
<1>10. CASE Pause(c) \/ Resume(c) \/ Disconnect(c)
  <2>1. l.state # "absent"
    BY <1>10 DEF Pause, Resume, Disconnect, Open
  <2>2. \A state \in {"active", "paused", "disconnected"} : m(state).state # "absent"
    BY <1>7, <2>1 DEF ConnectionValue
  <2>3. CASE Pause(c)
    <3>1. \E touched : CommitTouching(c, [s EXCEPT ![ConnectionDoc] = m("paused")], touched)
      BY <2>3 DEF Pause, Settle
    <3> HIDE DEF m, l, s, f
    <3> QED BY <1>5, <1>6, <2>2, <3>1
  <2>4. CASE Resume(c)
    <3>1. \E touched : CommitTouching(c, [s EXCEPT ![ConnectionDoc] = m("active"), ![SyncDoc(l.id)] = Requeued(l.id, l.rev + 1)], touched)
      BY <2>4 DEF Resume, Settle
    <3> HIDE DEF m, l, s, f
    <3> QED BY <1>5, <1>6, <2>2, <3>1
  <2>5. CASE Disconnect(c)
    <3>1. \E touched : CommitTouching(c, [s EXCEPT ![ConnectionDoc] = m("disconnected"),
                                                  ![CleanupDoc(l.id, l.rev + 1)] = Requeued(l.id, l.rev + 1)], touched)
      BY <2>5 DEF Disconnect, Settle
    <3> HIDE DEF m, l, s, f
    <3> QED BY <1>5, <1>6, <2>2, <3>1
  <2> QED BY <1>10, <2>3, <2>4, <2>5
<1> QED BY <1>8, <1>9, <1>10

\* The deletion of the account and the cleanup capture nothing, and remove only what is
\* disconnected or without an owner.
LEMMA RemovalsDecide ==
  ASSUME ConnectionsInv,
         (\E c \in Caller : DeleteAccount(c)) \/ (\E w \in Worker : CommitCleanup(w))
  PROVE  Decided
<1>1. ASSUME NEW s, Typed(s), NEW t, t = DropAttempts(s) \/ (s[ConnectionDoc] # Absent /\ t = Without(DropAttempts(s), s[ConnectionDoc]))
      PROVE  DOMAIN t = Docs /\ \A d \in Scrobbles : t[d] \in {s[d], NoScrobble}
  <2> DEFINE e == DropAttempts(s)
  <2>1. Typed(e) /\ e[ConnectionDoc] = s[ConnectionDoc] /\ \A d \in Scrobbles : e[d] = s[d]
    BY <1>1, Removals
  <2> HIDE DEF e
  <2>2. CASE t = e
    BY <2>1, <2>2 DEF Typed
  <2>3. CASE s[ConnectionDoc] # Absent /\ t = Without(e, s[ConnectionDoc])
    <3>1. DOMAIN t = Docs
      BY <2>1, <2>3 DEF Without, Typed
    <3>2. ASSUME NEW d \in Scrobbles PROVE t[d] \in {e[d], NoScrobble}
      <4>1. d \in DOMAIN e /\ d # ConnectionDoc /\ d \notin JobDocs
        BY <2>1, DocKinds DEF Typed
      <4> QED BY <2>3, <4>1 DEF Without
    <3> QED BY <2>1, <3>1, <3>2
  <2> QED BY <1>1, <2>2, <2>3 DEF e
<1>2. ASSUME NEW c \in Caller, DeleteAccount(c) PROVE Decided
  <2> DEFINE s == tx[c].snap
             e == DropAttempts(s)
             t == IF e[ConnectionDoc] = Absent THEN e ELSE Without(e, e[ConnectionDoc])
  <2>1. c \in OpenClients /\ CommitTouching(c, t, {}) /\ gone'
    BY <1>2 DEF DeleteAccount, Running, Settle
  <2>2. Typed(s)
    BY <2>1 DEF ConnectionsInv, StoreOK
  <2>3. e[ConnectionDoc] = s[ConnectionDoc]
    BY <2>2, Removals
  <2>4. t = e \/ (s[ConnectionDoc] # Absent /\ t = Without(e, s[ConnectionDoc]))
    BY <2>3
  <2> HIDE DEF t
  <2>5. \A d \in Scrobbles : t[d] \in {s[d], NoScrobble}
    BY <1>1, <2>2, <2>4
  <2> QED BY <2>1, <2>5, CommitDecides
<1>3. ASSUME NEW w \in Worker, CommitCleanup(w) PROVE Decided
  <2> DEFINE s == tx[w].snap
             k == s[ConnectionDoc]
             j == run[w].doc
             v == Without(DropAttempts(s), k)
             t == IF Cleanable(k, w) THEN [v EXCEPT ![j] = s[j]] ELSE s
  <2>1. run[w].pc = "cleaning" /\ j \in JobDocs /\ CommitTouching(w, t, {j})
    BY <1>3 DEF CommitCleanup, At, CleanupDocs
  <2>2. w \in OpenClients /\ Typed(s)
    BY <2>1 DEF ConnectionsInv, RunsOK, StoreOK
  <2>3. CASE Cleanable(k, w)
    <3>1. k.state = "disconnected" /\ k # Absent
      BY <2>3, Bounds DEF Cleanable, IsFor
    <3>2. DOMAIN v = Docs /\ \A d \in Scrobbles : v[d] \in {s[d], NoScrobble}
      BY <1>1, <2>2, <3>1
    <3>3. t = [v EXCEPT ![j] = s[j]]
      BY <2>3
    <3> HIDE DEF v, t, s
    <3>4. \A d \in Scrobbles : t[d] = v[d]
      BY <2>1, <3>2, <3>3, DocKinds
    <3>5. \A d \in Scrobbles : t[d] \in {s[d], NoScrobble}
      BY <3>2, <3>4
    <3> QED BY <2>1, <2>2, <3>1, <3>5, CommitDecides DEF s
  <2>4. CASE ~Cleanable(k, w)
    <3>1. t = s
      BY <2>4
    <3>2. s[ConnectionDoc] # Absent \/ s[ConnectionDoc].state = "absent"
      BY Bounds
    <3> HIDE DEF t
    <3> QED BY <2>1, <2>2, <3>1, <3>2, CommitDecides
  <2> QED BY <2>3, <2>4
<1> QED BY <1>2, <1>3

\* A job, an attempt or a connection that is written in a single update.
LEMMA UpdatesDecide ==
  ASSUME ConnectionsInv,
         \/ \E a \in Attempt : Start(a) \/ DropAttempt(a) \/ (\E c \in Caller : Consume(c, a))
         \/ \E w \in Worker : \/ PilotEnded(w) \/ OwnerIsGone(w) \/ EnqueueCleanup(w) \/ EnqueueDue(w)
                              \/ Close(w) \/ Continue(w) \/ Superseded(w) \/ Fail(w) \/ (\E j \in JobDocs : Acquire(w, j))
  PROVE  Decided
<1>1. CASE \E a \in Attempt : Start(a) \/ DropAttempt(a) \/ (\E c \in Caller : Consume(c, a))
  <2>1. PICK a \in Attempt : \E v : Write([db EXCEPT ![AttemptDoc(a)] = v])
    BY <1>1 DEF Start, DropAttempt, Consume
  <2>2. PICK v : Write([db EXCEPT ![AttemptDoc(a)] = v])
    BY <2>1
  <2>3. AttemptDoc(a) \notin Scrobbles /\ AttemptDoc(a) # ConnectionDoc
    BY DocKinds
  <2> QED BY <2>2, <2>3, WriteDecides
<1>2. ASSUME NEW w \in Worker, PilotEnded(w) \/ OwnerIsGone(w) PROVE Decided
  <2>1. PICK state \in {"paused", "disconnected"} : \E pc : WorkerMoves(w, state, pc)
    BY <1>2 DEF PilotEnded, OwnerIsGone
  <2>2. CASE UNCHANGED db
    BY <2>2, QuietStepDecides
  <2>3. CASE ~UNCHANGED db
    <3> DEFINE k == [db[ConnectionDoc] EXCEPT !.state = state, !.rev = @ + 1]
    <3>1. Write([db EXCEPT ![ConnectionDoc] = k]) /\ db[ConnectionDoc].state = "active"
      BY <2>1, <2>3 DEF WorkerMoves, IsFor
    <3>2. k.state = state /\ state # "absent"
      BY <3>1, Bounds DEF ConnectionsInv, StoreOK, Typed, ConnectionValue
    <3>3. k # Absent
      BY <3>2, Bounds
    <3> HIDE DEF k
    <3> QED BY <3>1, <3>3, DocKinds, WriteDecides
  <2> QED BY <2>2, <2>3
<1>3. ASSUME NEW w \in Worker, \/ EnqueueCleanup(w) \/ EnqueueDue(w) \/ Close(w) \/ Continue(w) \/ Superseded(w)
                               \/ Fail(w) \/ (\E j \in JobDocs : Acquire(w, j))
      PROVE  Decided
  <2>1. /\ \A i : SyncDoc(i) # ConnectionDoc /\ SyncDoc(i) \notin Scrobbles
        /\ \A i, r : CleanupDoc(i, r) # ConnectionDoc /\ CleanupDoc(i, r) \notin Scrobbles
    BY DEF SyncDoc, CleanupDoc, ConnectionDoc, Scrobbles, ScrobbleDocs, ScrobbleDoc
  <2>2. CASE EnqueueCleanup(w) \/ EnqueueDue(w)
    <3>1. PICK j, v : Write([db EXCEPT ![j] = v]) /\ j # ConnectionDoc /\ j \notin Scrobbles
      BY <2>1, <2>2 DEF EnqueueCleanup, EnqueueDue
    <3> QED BY <3>1, WriteDecides
  <2>3. CASE \/ Close(w) \/ Continue(w) \/ Superseded(w) \/ Fail(w)
    <3>1. \E job : End(w, job)
      <4>1. CASE Close(w)
        BY <4>1 DEF Close
      <4>2. CASE Continue(w) \/ Superseded(w)
        BY <4>2 DEF Continue, Superseded
      <4>3. CASE Fail(w)
        BY <4>3 DEF Fail
      <4> QED BY <2>3, <4>1, <4>2, <4>3
    <3>2. PICK v : Write([db EXCEPT ![run[w].doc] = v])
      BY <3>1 DEF End
    <3>3. run[w].pc \in JobSteps
      <4>1. run[w].pc \in {"closing", "fetching", "superseded", "acquired", "read", "orphaned"}
        BY <2>3 DEF Close, Continue, Superseded, Fail, At
      <4> QED BY <4>1 DEF JobSteps
    <3>4. run[w].doc \in JobDocs
      BY <3>3, JobRuns DEF ConnectionsInv, JobRun
    <3>5. run[w].doc # ConnectionDoc /\ run[w].doc \notin Scrobbles
      BY <3>4, DocKinds
    <3> QED BY <3>2, <3>5, WriteDecides
  <2>4. ASSUME NEW j \in JobDocs, Acquire(w, j) PROVE Decided
    <3> DEFINE v == [db[j] EXCEPT !.status = "running", !.holder = w]
    <3>1. [db EXCEPT ![j].status = "running", ![j].holder = w] = [db EXCEPT ![j] = v]
      BY DocKinds DEF ConnectionsInv, StoreOK, Typed
    <3>2. Write([db EXCEPT ![j] = v])
      BY <2>4, <3>1 DEF Acquire
    <3>3. j # ConnectionDoc /\ j \notin Scrobbles
      BY DocKinds
    <3> HIDE DEF v
    <3> QED BY <3>2, <3>3, WriteDecides
  <2> QED BY <1>3, <2>2, <2>3, <2>4
<1> QED BY <1>1, <1>2, <1>3

\* No step, and no stuttering, breaks the rules of the states.
LEMMA StepsDecide ==
  ASSUME ConnectionsInv, [ConnectionsNext]_connVars PROVE Decided
<1>1. CASE UNCHANGED connVars
  BY <1>1, QuietStepDecides DEF connVars
<1>2. CASE ApiNext
  <2>1. CASE \E a \in Attempt : Start(a) \/ DropAttempt(a) \/ (\E c \in Caller : Consume(c, a))
    BY <2>1, UpdatesDecide
  <2>2. ASSUME NEW c \in Caller, Connect(c) \/ Reconnect(c) \/ Pause(c) \/ Resume(c) \/ Disconnect(c) PROVE Decided
    BY <2>2, MutationsDecide
  <2>3. ASSUME NEW c \in Caller, DeleteAccount(c) PROVE Decided
    BY <2>3, RemovalsDecide
  <2>4. ASSUME NEW c \in Caller, \/ Exchange(c) \/ BeginCallback(c) \/ Refuse(c) \/ BeginMutation(c)
                                 \/ BeginDeletion(c) \/ GiveUp(c)
        PROVE  Decided
    <3>1. UNCHANGED db
      BY <2>4 DEF Exchange, BeginCallback, Refuse, BeginMutation, BeginDeletion, GiveUp, Begin, Abort
    <3> QED BY <3>1, QuietStepDecides
  <2>5. CASE LeaveClerk
    BY <2>5, QuietStepDecides DEF LeaveClerk
  <2> QED BY <1>2, <2>1, <2>2, <2>3, <2>4, <2>5 DEF ApiNext
<1>3. ASSUME NEW w \in Worker, JobStep(w) \/ PilotEnded(w) \/ Fail(w) \/ Crash(w) \/ ReadDue(w) PROVE Decided
  <2>1. CASE \/ PilotEnded(w) \/ OwnerIsGone(w) \/ EnqueueCleanup(w) \/ EnqueueDue(w)
             \/ Close(w) \/ Continue(w) \/ Superseded(w) \/ Fail(w)
    BY <2>1, UpdatesDecide
  <2>2. CASE CommitPage(w)
    BY <2>2, PageDecides
  <2>3. CASE CommitCleanup(w)
    BY <2>3, RemovalsDecide
  <2>4. CASE \/ ReadConnection(w) \/ OwnerIsThere(w) \/ StartPage(w) \/ StartCleanup(w) \/ RetryJob(w)
             \/ Supersede(w) \/ LoseLease(w) \/ Crash(w) \/ ReadDue(w)
    <3>1. UNCHANGED db
      BY <2>4 DEF ReadConnection, OwnerIsThere, StartPage, StartCleanup, RetryJob, Supersede, LoseLease, Crash,
                  ReadDue, Drop, Begin, Retry
    <3> QED BY <3>1, QuietStepDecides
  <2> QED BY <1>3, <2>1, <2>2, <2>3, <2>4 DEF JobStep
<1>4. ASSUME NEW j \in JobDocs, Expire(j) \/ (\E w \in Worker : Acquire(w, j)) PROVE Decided
  <2>1. CASE Expire(j)
    BY <2>1, QuietStepDecides DEF Expire
  <2>2. CASE \E w \in Worker : Acquire(w, j)
    BY <2>2, UpdatesDecide
  <2> QED BY <1>4, <2>1, <2>2
<1> QED BY <1>1, <1>2, <1>3, <1>4 DEF ConnectionsNext

\* Scrobbles are stored only at the revision of an active connection, and only
\* a disconnected connection, or one whose account goes, is removed (persistPage,
\* cleanupJob).
THEOREM StateRules == ConnectionsSpec => TheStateDecides
<1>1. ConnectionsInv /\ [ConnectionsNext]_connVars => Decided
  BY StepsDecide
<1>2. Decided =>
        /\ \A i \in Id : \A d \in ScrobbleDocs(i) :
              LET k == db[ConnectionDoc]
              IN  db'[d] \notin {db[d], NoScrobble} => k.state = "active" /\ k.id = i /\ k.rev = db'[d]
        /\ db[ConnectionDoc] # Absent /\ db'[ConnectionDoc] = Absent
           => gone' \/ db[ConnectionDoc].state = "disconnected"
  BY DEF Decided, Captures, Removes
<1> QED BY <1>1, <1>2, ConnectionsInvariance, PTL DEF ConnectionsSpec, TheStateDecides, OnlyActiveCaptures, OnlyDisconnectedIsCleaned
=============================================================================
