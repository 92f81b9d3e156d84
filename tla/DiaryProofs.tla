---------------------------- MODULE DiaryProofs -----------------------------
(***************************************************************************)
(* What a detect pass publishes, against the switches of the automatic     *)
(* diary, the entries that the owner logs while it runs, late scrobbles,   *)
(* and the owner's decisions (AutoDiary).                                  *)
(*                                                                         *)
(* A pass works on a snapshot, so nothing that it checks is known to be    *)
(* true when it commits.  Two writes make up for that.  The connection is  *)
(* written by every pass, so a pass that commits has its state, opt-in and *)
(* window from the database as it is.  The album's fence is written by a   *)
(* pass that asks for entries nearby and by everyone who logs one, so such *)
(* a pass has missed no entry, except one that was moved or deleted since. *)
(* For this first part (DiaryInv) the reconciliation of a pass may be any. *)
(*                                                                         *)
(* The second part is about reconciliation and receipts (SiteInv).  Stored *)
(* detections share no scrobble, and no two of their plays an id; a play   *)
(* is published if and only if there is one receipt of it.  Reconciliation *)
(* keeps this because groups that share no events are treated apart, and   *)
(* because a group that has published is updated only if each published    *)
(* play stays where it is, and held otherwise; the owner's decisions keep  *)
(* it because they write the detection and the receipts.  It is not known  *)
(* of the worker's snapshot that its receipts are all there are: only its  *)
(* detections are, but for what the owner decided.                         *)
(***************************************************************************)
EXTENDS AutoDiary, TransactionProofs, FiniteSetTheorems, SequenceTheorems

\* An open transaction that has not missed the fence knows every entry, except one that
\* was deleted or moved since its snapshot.
KnowsEntries(c) ==
  \A m \in Manual :
    \/ db[ManualDoc(m)] \in {tx[c].snap[ManualDoc(m)], NoEntry}
    \/ db[ManualDoc(m)].moved
EntriesAreFenced == \A c \in OpenClients : FenceDoc \in tx[c].missed \/ KnowsEntries(c)

DiaryInv == Transactions /\ DOMAIN db = DiaryDocs /\ EntriesAreFenced

\* The documents of the diary are not each other.
LEMMA DocumentsDiffer ==
  /\ ReceiptsDoc("worker") \notin Detections \cup Entries
  /\ ReceiptsDoc("worker") # ReceiptsDoc("owner")
  /\ \A d \in {ConnectionDoc, EvidenceDoc, CatalogDoc, ClockDoc, FenceDoc} :
       d # ReceiptsDoc("worker") /\ d \notin Detections \cup Entries
  /\ \A d \in Entries : d # ReceiptsDoc("owner") /\ d \notin Detections
  /\ \A i : DetectionDoc(i) # ReceiptsDoc("worker") /\ DetectionDoc(i) \notin Entries
<1>1. \A x, y, z : <<x, y>> # <<z>>
  OBVIOUS
<1>2. \A u, v, x, y : <<u, v>> = <<x, y>> => u = x /\ v = y
  OBVIOUS
<1> QED BY <1>1, <1>2 DEF ReceiptsDoc, Detections, DetectionDoc, Entries, ManualDoc, ConnectionDoc, EvidenceDoc,
              CatalogDoc, ClockDoc, FenceDoc

\* Which documents there are.
LEMMA DocumentsExist ==
  /\ ConnectionDoc \in DiaryDocs /\ EvidenceDoc \in DiaryDocs /\ CatalogDoc \in DiaryDocs
  /\ ClockDoc \in DiaryDocs /\ FenceDoc \in DiaryDocs
  /\ ReceiptsDoc("worker") \in DiaryDocs /\ ReceiptsDoc("owner") \in DiaryDocs
  /\ \A m \in Manual : ManualDoc(m) \in DiaryDocs /\ ManualDoc(m) \in Entries
  /\ \A i \in Slots : DetectionDoc(i) \in DiaryDocs /\ DetectionDoc(i) \in Detections
BY DEF DiaryDocs, Entries, Detections

\* What a step may do to an entry that it does not fence: leave it, delete it or move it.
Minds(m) ==
  \/ db[ManualDoc(m)]' \in {db[ManualDoc(m)], NoEntry}
  \/ db[ManualDoc(m)]'.moved

\* What a step is that no pass takes.
Quiet == DiaryInv' /\ PassReceipts(db)' = PassReceipts(db)

\* A step keeps the invariant that fences the entries it touches, or minds them.
LEMMA FencedStepKeepsDiary ==
  ASSUME DiaryInv, Transactions', DOMAIN db' = DOMAIN db,
         NEW others, others \subseteq OpenClients, NEW W, FallBehind(others, W),
         FenceDoc \in W \/ \A m \in Manual : Minds(m)
  PROVE  DiaryInv'
<1>1. EntriesAreFenced'
  <2> SUFFICES ASSUME NEW c \in others, FenceDoc \notin tx[c].missed, FenceDoc \notin W
               PROVE  KnowsEntries(c)'
    BY DEF FallBehind, EntriesAreFenced
  <2>1. KnowsEntries(c) /\ tx'[c].snap = tx[c].snap
    BY DEF DiaryInv, EntriesAreFenced, FallBehind
  <2> QED BY <2>1 DEF KnowsEntries, Minds
<1> QED BY <1>1 DEF DiaryInv

\* A write of the owner or the surroundings, outside any transaction.
LEMMA WriteIsQuiet ==
  ASSUME DiaryInv, NEW t, DOMAIN t = DOMAIN db,
         NEW touched, touched \subseteq DOMAIN db, WriteTouching(t, touched),
         t[ReceiptsDoc("worker")] = db[ReceiptsDoc("worker")],
         \/ FenceDoc \in touched
         \/ \A m \in Manual : t[ManualDoc(m)] \in {db[ManualDoc(m)], NoEntry} \/ t[ManualDoc(m)].moved
  PROVE  Quiet
<1>1. Transactions' /\ FallBehind(OpenClients, touched \cup Changed(db, t))
  BY WriteTouchingKeepsTransactions DEF DiaryInv
<1>2. db' = t
  BY DEF WriteTouching
<1>3. FenceDoc \in touched \cup Changed(db, t) \/ \A m \in Manual : Minds(m)
  BY <1>2 DEF Minds
<1>4. DiaryInv'
  BY <1>1, <1>2, <1>3, FencedStepKeepsDiary
<1> QED BY <1>2, <1>4 DEF Quiet, PassReceipts

\* The same for a write that touches no document but those it changes.
LEMMA PlainWriteIsQuiet ==
  ASSUME DiaryInv, NEW t, DOMAIN t = DOMAIN db, Write(t),
         t[ReceiptsDoc("worker")] = db[ReceiptsDoc("worker")],
         \A m \in Manual : t[ManualDoc(m)] \in {db[ManualDoc(m)], NoEntry} \/ t[ManualDoc(m)].moved
  PROVE  Quiet
<1>1. {} \cup Changed(db, t) = Changed(db, t)
  OBVIOUS
<1>2. WriteTouching(t, {})
  BY <1>1 DEF Write, WriteTouching
<1> QED BY <1>2, WriteIsQuiet

\* A transaction that leaves the entries of its snapshot alone keeps the invariant.
LEMMA CommitKeepsDiary ==
  ASSUME DiaryInv, NEW c \in OpenClients, NEW t, DOMAIN t = DOMAIN db,
         NEW touched, touched \subseteq DOMAIN db, CommitTouching(c, t, touched),
         \A d \in Entries : t[d] = tx[c].snap[d]
  PROVE  DiaryInv' /\ Committed(c, t, touched \cup Changed(tx[c].snap, t))
<1> DEFINE W == touched \cup Changed(tx[c].snap, t)
<1>1. Transactions' /\ Committed(c, t, W)
  BY CommitTouchingKeepsTransactions DEF DiaryInv
<1> HIDE DEF W
<1>2. ASSUME NEW m \in Manual
      PROVE  db'[ManualDoc(m)] = db[ManualDoc(m)]
  <2>1. ManualDoc(m) \in DOMAIN db /\ ManualDoc(m) \in Entries
    BY DocumentsExist DEF DiaryInv
  <2>2. CASE ManualDoc(m) \in W
    BY <1>1, <2>1, <2>2 DEF Committed
  <2>3. CASE ManualDoc(m) \notin W
    BY <1>1, <2>1, <2>3 DEF Committed
  <2> QED BY <2>2, <2>3
<1>3. \A m \in Manual : Minds(m)
  BY <1>2 DEF Minds
<1>4. /\ FallBehind(OpenClients \ {c}, W) /\ DOMAIN db' = DOMAIN db
      /\ OpenClients \ {c} \subseteq OpenClients
  BY <1>1 DEF Committed
<1>5. DiaryInv'
  BY <1>1, <1>3, <1>4, FencedStepKeepsDiary
<1> QED BY <1>1, <1>5 DEF W

\* A decision of the owner writes one detection and the owner's receipts.
LEMMA ResolvedDocuments ==
  ASSUME NEW s, NEW req
  PROVE  /\ DOMAIN Resolved(s, req) = DOMAIN s
         /\ \A d \in DOMAIN s : d # DetectionDoc(req.slot) /\ d # ReceiptsDoc("owner")
              => Resolved(s, req)[d] = s[d]
BY Zenon DEF Resolved

\* confirm and dismiss: the owner's decision is no publication of a pass.
LEMMA ResolveIsQuiet ==
  ASSUME DiaryInv, NEW c \in OpenClients, NEW touched, touched \subseteq DOMAIN db,
         CommitTouching(c, Resolved(tx[c].snap, tx[c].req), touched),
         touched \subseteq {FenceDoc}
  PROVE  Quiet
<1> DEFINE s == tx[c].snap
           t == Resolved(s, tx[c].req)
           W == touched \cup Changed(s, t)
<1>1. DOMAIN s = DOMAIN db
  BY DEF DiaryInv, Transactions, SnapshotShape
<1>2. /\ DOMAIN t = DOMAIN db
      /\ \A d \in DOMAIN db : d # DetectionDoc(tx[c].req.slot) /\ d # ReceiptsDoc("owner") => t[d] = s[d]
  BY <1>1, ResolvedDocuments
<1>3. ReceiptsDoc("worker") \in DOMAIN db /\ Entries \subseteq DOMAIN db
  BY DocumentsExist DEF DiaryInv, DiaryDocs
<1>4. t[ReceiptsDoc("worker")] = s[ReceiptsDoc("worker")] /\ \A d \in Entries : t[d] = s[d]
  BY <1>2, <1>3, DocumentsDiffer
<1>5. DiaryInv' /\ Committed(c, t, W)
  <2> HIDE DEF t
  <2> QED BY <1>2, <1>4, CommitKeepsDiary DEF t
<1>6. ReceiptsDoc("worker") \notin W
  BY <1>4, DocumentsDiffer DEF Changed
<1>7. db'[ReceiptsDoc("worker")] = db[ReceiptsDoc("worker")]
  <2> HIDE DEF W, t, s
  <2> QED BY <1>3, <1>5, <1>6 DEF Committed
<1> QED BY <1>5, <1>7 DEF Quiet, PassReceipts

\* A transaction begins, again or for the first time, or ends without a commit.
LEMMA FreshIsQuiet ==
  ASSUME DiaryInv, Transactions', db' = db,
         \A x \in OpenClients' : (x \in OpenClients /\ tx'[x] = tx[x]) \/ tx'[x].snap = db
  PROVE  Quiet
<1>1. EntriesAreFenced'
  BY DEF DiaryInv, EntriesAreFenced, KnowsEntries
<1> QED BY <1>1 DEF DiaryInv, Quiet, PassReceipts

\* A pass makes no document of its own, and leaves the entries of its snapshot alone.
LEMMA PassDocuments ==
  ASSUME NEW s, NEW D
  PROVE  /\ DOMAIN DetectPass(s, D) = DOMAIN s
         /\ \A d \in Entries \cap DOMAIN s : DetectPass(s, D)[d] = s[d]
<1>1. \A d \in Entries : d \notin Detections /\ d # ReceiptsDoc("worker") /\ d # ConnectionDoc
  BY DocumentsDiffer
<1> QED BY <1>1 DEF DetectPass

\* Its receipts grow by the plays that it publishes, and it publishes none without asking
\* for entries nearby.
LEMMA PassReceiptsGrow ==
  ASSUME NEW s, NEW D, ReceiptsDoc("worker") \in DOMAIN s,
         NEW r \in DetectPass(s, D)[ReceiptsDoc("worker")] \ s[ReceiptsDoc("worker")]
  PROVE  /\ PlaysWhere(s, D, Asks) # {}
         /\ \E d, p, play : Publishes(s, d, p, play) /\ r = Receipt(p, play, "published")
<1> DEFINE receipts == { Receipt(D[x[1]].plays[x[2]], PlaysOf[D[x[1]].events][x[2]], "published") :
                            x \in PlaysWhere(s, D, Publishes) }
<1>1. DetectPass(s, D)[ReceiptsDoc("worker")] = s[ReceiptsDoc("worker")] \cup receipts
  BY DocumentsDiffer, Zenon DEF DetectPass
<1>2. PICK x \in PlaysWhere(s, D, Publishes) :
        r = Receipt(D[x[1]].plays[x[2]], PlaysOf[D[x[1]].events][x[2]], "published")
  BY <1>1
<1>3. Publishes(s, D[x[1]], D[x[1]].plays[x[2]], PlaysOf[D[x[1]].events][x[2]])
  BY DEF PlaysWhere
<1>4. Asks(s, D[x[1]], D[x[1]].plays[x[2]], PlaysOf[D[x[1]].events][x[2]])
  BY <1>3 DEF Publishes
<1>5. x \in PlaysWhere(s, D, Asks)
  BY <1>4 DEF PlaysWhere
<1> QED BY <1>2, <1>3, <1>5

\* detectJob: what a pass commits, which always writes the connection.
LEMMA DetectCommits ==
  ASSUME DiaryInv, Detect
  PROVE  LET s == tx[Worker].snap
             t == DetectPass(s, Reconciled(s))
         IN  /\ Worker \in OpenClients /\ DOMAIN s = DOMAIN db /\ DiaryInv'
             /\ Committed(Worker, t, Touched(s, Reconciled(s)) \cup Changed(s, t))
<1> DEFINE s == tx[Worker].snap
           D == Reconciled(s)
           t == DetectPass(s, D)
<1>1. Worker \in OpenClients /\ CommitTouching(Worker, t, Touched(s, D))
  BY DEF Detect
<1>2. DOMAIN s = DOMAIN db /\ Entries \subseteq DOMAIN db
  BY <1>1 DEF DiaryInv, Transactions, SnapshotShape, DiaryDocs
<1>3. DOMAIN t = DOMAIN db /\ \A d \in Entries : t[d] = s[d]
  BY <1>2, PassDocuments
<1>4. Touched(s, D) \subseteq DOMAIN db
  BY DocumentsExist DEF Touched, DiaryInv
<1> HIDE DEF D, t
<1>5. DiaryInv' /\ Committed(Worker, t, Touched(s, D) \cup Changed(s, t))
  BY <1>1, <1>3, <1>4, CommitKeepsDiary
<1> QED BY <1>1, <1>2, <1>5 DEF D, t

\* detectJob: a pass publishes what its owner wants and has not logged.
LEMMA DetectPublishes ==
  ASSUME DiaryInv, Detect
  PROVE  DiaryInv' /\ OptInIsNotAnImport /\ LoggedEntriesComeFirst
<1> DEFINE s == tx[Worker].snap
           D == Reconciled(s)
           t == DetectPass(s, D)
           R == ReceiptsDoc("worker")
           W == Touched(s, D) \cup Changed(s, t)
<1>1. Worker \in OpenClients /\ DOMAIN s = DOMAIN db /\ DiaryInv' /\ Committed(Worker, t, W)
  BY DetectCommits
<1>2. R \in DOMAIN db
  BY DocumentsExist DEF DiaryInv
<1>3. SUFFICES ASSUME NEW r \in db'[R] \ db[R]
               PROVE  /\ Enabled(db) /\ Connection(db).state = "active"
                      /\ At[r.qualifier] >= Connection(db).enabledAt
                      /\ \A m \in Manual :
                           LET entry == db[ManualDoc(m)] IN
                           entry # NoEntry /\ entry.date \in Near[r.first] => entry.moved
  BY <1>1 DEF OptInIsNotAnImport, LoggedEntriesComeFirst, PassReceipts
<1>4. R \in W /\ db'[R] = t[R] /\ s[R] = db[R]
  <2> HIDE DEF W, t, s, R
  <2> QED BY <1>1, <1>2, <1>3 DEF Committed, s
<1>5. /\ PlaysWhere(s, D, Asks) # {}
      /\ \E d, p, play : Publishes(s, d, p, play) /\ r = Receipt(p, play, "published")
  <2> HIDE DEF s, D
  <2> QED BY <1>1, <1>2, <1>3, <1>4, PassReceiptsGrow
<1>6. PICK d, p, play : Publishes(s, d, p, play) /\ r = Receipt(p, play, "published")
  BY <1>5
<1>7. r.first = FirstOf(play) /\ r.qualifier = QualifierOf(play)
  BY <1>6 DEF Receipt
<1>8. ConnectionDoc \in W /\ FenceDoc \in W
  BY <1>5 DEF Touched
<1>9. s[ConnectionDoc] = db[ConnectionDoc] /\ FenceDoc \notin tx[Worker].missed
  <2> HIDE DEF W, t
  <2> QED BY <1>1, <1>8 DEF Committed
<1>10. /\ Enabled(db) /\ Connection(db).state = "active"
       /\ At[r.qualifier] >= Connection(db).enabledAt
  BY <1>6, <1>7, <1>9 DEF Publishes, Asks, Eligible, Enabled, Connection
<1>11. KnowsEntries(Worker)
  BY <1>1, <1>9 DEF DiaryInv, EntriesAreFenced
<1>12. ASSUME NEW m \in Manual, db[ManualDoc(m)] # NoEntry, db[ManualDoc(m)].date \in Near[r.first]
       PROVE  db[ManualDoc(m)].moved
  <2>1. s[ManualDoc(m)].date \notin Near[r.first]
    BY <1>6, <1>7 DEF Publishes, NearbyEntries
  <2> QED BY <1>11, <1>12, <2>1 DEF KnowsEntries
<1> QED BY <1>10, <1>12

\* The owner's requests: they begin, end, and begin again.
LEMMA ResolvesAreQuiet ==
  ASSUME DiaryInv, NEW c \in Client,
         \/ BeginDetect
         \/ \E op \in {"confirm", "dismiss"}, i \in Slots : BeginResolve(c, op, i)
         \/ Confirm(c) \/ Dismiss(c) \/ RefuseResolve(c) \/ Again(c)
  PROVE  Quiet
<1>1. Transactions /\ FenceDoc \in DOMAIN db
  BY DocumentsExist DEF DiaryInv
<1>2. ASSUME NEW x \in Client, NEW request, Begin(x, request)
      PROVE  Quiet
  <2>1. /\ Transactions' /\ db' = db /\ OpenClients' = OpenClients \cup {x}
        /\ tx'[x] = Fresh(request) /\ \A y \in OpenClients : tx'[y] = tx[y]
    BY <1>1, <1>2, BeginKeepsTransactions
  <2>2. Fresh(request).snap = db
    BY DEF Fresh
  <2> QED BY <2>1, <2>2, FreshIsQuiet
<1>3. CASE BeginDetect
  BY <1>2, <1>3, AutoDiaryAssumption DEF BeginDetect
<1>4. CASE \E op \in {"confirm", "dismiss"}, i \in Slots : BeginResolve(c, op, i)
  BY <1>2, <1>4 DEF BeginResolve
<1>5. CASE Confirm(c)
  <2>1. /\ c \in OpenClients
        /\ CommitTouching(c, Resolved(tx[c].snap, tx[c].req), {FenceDoc})
    BY <1>5 DEF Confirm
  <2> QED BY <1>1, <2>1, ResolveIsQuiet
<1>6. CASE Dismiss(c)
  <2>1. c \in OpenClients /\ Commit(c, Resolved(tx[c].snap, tx[c].req))
    BY <1>6 DEF Dismiss
  <2>2. {} \cup Changed(tx[c].snap, Resolved(tx[c].snap, tx[c].req))
          = Changed(tx[c].snap, Resolved(tx[c].snap, tx[c].req))
    OBVIOUS
  <2>3. CommitTouching(c, Resolved(tx[c].snap, tx[c].req), {})
    BY <2>1, <2>2 DEF Commit, CommitTouching
  <2> QED BY <2>1, <2>3, ResolveIsQuiet
<1>7. CASE RefuseResolve(c)
  <2>1. tx' = [x \in OpenClients \ {c} |-> tx[x]] /\ db' = db
    BY <1>7 DEF RefuseResolve, Abort
  <2> QED BY <1>1, <2>1, DropKeepsTransactions, FreshIsQuiet
<1>8. CASE Again(c)
  <2>1. /\ Transactions' /\ db' = db /\ OpenClients' = OpenClients
        /\ tx'[c] = Fresh(tx[c].req) /\ \A y \in OpenClients \ {c} : tx'[y] = tx[y]
    BY <1>1, <1>8, RetryKeepsTransactions DEF Again
  <2>2. Fresh(tx[c].req).snap = db
    BY DEF Fresh
  <2> QED BY <2>1, <2>2, FreshIsQuiet
<1> QED BY <1>3, <1>4, <1>5, <1>6, <1>7, <1>8

\* createListen, updateListen and deleteListen: who logs an entry writes the fence.
LEMMA EntriesAreQuiet ==
  ASSUME DiaryInv, NEW m \in Manual, DeleteEntry(m) \/ \E date \in Date : LogEntry(m, date) \/ Redate(m, date)
  PROVE  Quiet
<1> DEFINE To(value) == [db EXCEPT ![ManualDoc(m)] = value]
<1>1. /\ ManualDoc(m) \in DOMAIN db /\ FenceDoc \in DOMAIN db
      /\ ManualDoc(m) # ReceiptsDoc("worker")
  BY DocumentsExist, DocumentsDiffer DEF DiaryInv
<1>2. ASSUME NEW value
      PROVE  /\ DOMAIN To(value) = DOMAIN db
             /\ To(value)[ReceiptsDoc("worker")] = db[ReceiptsDoc("worker")]
             /\ \A n \in Manual : To(value)[ManualDoc(n)] \in {db[ManualDoc(n)], value}
  BY <1>1, DocumentsExist DEF DiaryInv
<1>3. CASE DeleteEntry(m)
  <2>1. Write(To(NoEntry))
    BY <1>3 DEF DeleteEntry
  <2> HIDE DEF To
  <2> QED BY <1>2, <2>1, PlainWriteIsQuiet
<1>4. ASSUME NEW date \in Date, LogEntry(m, date)
      PROVE  Quiet
  <2>1. WriteTouching(To([date |-> date, moved |-> FALSE]), {FenceDoc})
    BY <1>4 DEF LogEntry
  <2> HIDE DEF To
  <2> QED BY <1>1, <1>2, <2>1, WriteIsQuiet
<1>5. ASSUME NEW date \in Date, Redate(m, date)
      PROVE  Quiet
  <2> DEFINE moved == [date |-> date, moved |-> TRUE]
  <2>1. Write(To(moved))
    BY <1>5 DEF Redate
  <2>2. \A n \in Manual : To(moved)[ManualDoc(n)] = db[ManualDoc(n)] \/ To(moved)[ManualDoc(n)].moved
    BY <1>2
  <2>3. /\ DOMAIN To(moved) = DOMAIN db
        /\ To(moved)[ReceiptsDoc("worker")] = db[ReceiptsDoc("worker")]
    BY <1>2
  <2> HIDE DEF To, moved
  <2> QED BY <2>1, <2>2, <2>3, PlainWriteIsQuiet
<1> QED BY <1>3, <1>4, <1>5

\* The switches, the catalog, late scrobbles and the clock write documents of their own.
LEMMA SurroundingsAreQuiet ==
  ASSUME DiaryInv,
         \/ \E on \in BOOLEAN : SetAutoDiary(on)
         \/ Pause \/ Resume \/ Remap \/ Rebase \/ Tick
         \/ \E e \in Event : Capture(e)
  PROVE  Quiet
<1> DEFINE Own == {ConnectionDoc, EvidenceDoc, CatalogDoc, ClockDoc}
<1>1. ASSUME NEW t, DOMAIN t = DOMAIN db, Write(t), NEW d \in Own,
             \A x \in DOMAIN db : x # d => t[x] = db[x]
      PROVE  Quiet
  <2>1. ReceiptsDoc("worker") \in DOMAIN db /\ ReceiptsDoc("worker") # d
    BY DocumentsExist, DocumentsDiffer DEF DiaryInv
  <2>2. \A m \in Manual : ManualDoc(m) \in DOMAIN db /\ ManualDoc(m) # d
    BY DocumentsExist, DocumentsDiffer DEF DiaryInv
  <2> QED BY <1>1, <2>1, <2>2, PlainWriteIsQuiet
<1>2. ASSUME NEW on \in BOOLEAN, SetAutoDiary(on)
      PROVE  Quiet
  <2> DEFINE t == [db EXCEPT ![ConnectionDoc].enabledAt = IF on THEN Now(db) ELSE 0]
  <2>1. Write(t)
    BY <1>2 DEF SetAutoDiary
  <2>2. DOMAIN t = DOMAIN db /\ \A x \in DOMAIN db : x # ConnectionDoc => t[x] = db[x]
    OBVIOUS
  <2> HIDE DEF t
  <2> QED BY <1>1, <2>1, <2>2
<1>3. CASE Pause \/ Resume
  <2> DEFINE To(state) == [db EXCEPT ![ConnectionDoc].state = state]
  <2>1. PICK state \in {"active", "paused"} : Write(To(state))
    BY <1>3 DEF Pause, Resume
  <2>2. DOMAIN To(state) = DOMAIN db /\ \A x \in DOMAIN db : x # ConnectionDoc => To(state)[x] = db[x]
    OBVIOUS
  <2> HIDE DEF To
  <2> QED BY <1>1, <2>1, <2>2
<1>4. CASE Remap
  <2> DEFINE t == [db EXCEPT ![CatalogDoc].mapped = ~@]
  <2>1. Write(t)
    BY <1>4 DEF Remap
  <2>2. DOMAIN t = DOMAIN db /\ \A x \in DOMAIN db : x # CatalogDoc => t[x] = db[x]
    OBVIOUS
  <2> HIDE DEF t
  <2> QED BY <1>1, <2>1, <2>2
<1>5. CASE Rebase
  <2> DEFINE t == [db EXCEPT ![CatalogDoc].baseline = 1 - @]
  <2>1. Write(t)
    BY <1>5 DEF Rebase
  <2>2. DOMAIN t = DOMAIN db /\ \A x \in DOMAIN db : x # CatalogDoc => t[x] = db[x]
    OBVIOUS
  <2> HIDE DEF t
  <2> QED BY <1>1, <2>1, <2>2
<1>6. CASE Tick
  <2> DEFINE To(now) == [db EXCEPT ![ClockDoc] = now]
  <2>1. PICK i \in DOMAIN Moments \ {1} : Write(To(Moments[i]))
    BY <1>6 DEF Tick
  <2>2. \A now : DOMAIN To(now) = DOMAIN db /\ \A x \in DOMAIN db : x # ClockDoc => To(now)[x] = db[x]
    OBVIOUS
  <2> HIDE DEF To
  <2> QED BY <1>1, <2>1, <2>2
<1>7. ASSUME NEW e \in Event, Capture(e)
      PROVE  Quiet
  <2> DEFINE t == [db EXCEPT ![EvidenceDoc] = @ \cup {e}]
  <2>1. Write(t)
    BY <1>7 DEF Capture
  <2>2. DOMAIN t = DOMAIN db /\ \A x \in DOMAIN db : x # EvidenceDoc => t[x] = db[x]
    OBVIOUS
  <2> HIDE DEF t
  <2> QED BY <1>1, <2>1, <2>2
<1> QED BY <1>2, <1>3, <1>4, <1>5, <1>6, <1>7

\* Every step keeps the invariant, and only a pass publishes.
LEMMA StepsKeepDiary ==
  ASSUME DiaryInv, [DiaryNext]_diaryVars
  PROVE  Quiet \/ Detect
<1>1. CASE UNCHANGED diaryVars
  BY <1>1 DEF diaryVars, Quiet, DiaryInv, PassReceipts, Transactions, SnapshotShape, SnapshotsAreCurrent,
              OpenClients, EntriesAreFenced, KnowsEntries
<1>2. CASE DiaryNext
  BY <1>2, ResolvesAreQuiet, EntriesAreQuiet, SurroundingsAreQuiet, AutoDiaryAssumption DEF DiaryNext
<1> QED BY <1>1, <1>2

\* At first nobody has a transaction open.
LEMMA DiaryStarts == DiaryInit => DiaryInv
BY DEF DiaryInit, DiaryInv, Transactions, SnapshotShape, SnapshotsAreCurrent, OpenClients, EntriesAreFenced

\* Entries are fenced, in every reachable state: an open pass that did not miss the
\* album's fence knows every entry that was not moved or deleted since.
THEOREM DiaryInvariance == DiarySpec => []DiaryInv
<1>1. DiaryInv /\ [DiaryNext]_diaryVars => DiaryInv'
  BY StepsKeepDiary, DetectPublishes DEF Quiet
<1> QED BY <1>1, DiaryStarts, PTL DEF DiarySpec

\* Only what qualified after the owner opted in enters the diary by itself, and nothing
\* after the owner switched it off or paused, even in the middle of a pass: publication.js
\* reads the connection from the snapshot, and is right because every pass writes it.
THEOREM PassesRespectOptIn == DiarySpec => OptInSteps
<1>1. DiaryInv /\ [DiaryNext]_diaryVars => [OptInIsNotAnImport]_diaryVars
  BY StepsKeepDiary, DetectPublishes DEF Quiet, OptInIsNotAnImport
<1> QED BY <1>1, DiaryInvariance, PTL DEF DiarySpec, OptInSteps

\* No automatic entry is added next to one that the owner logged for those days before
\* the pass committed, because createListen and a pass that publishes both write the
\* album's fence.
THEOREM LoggedEntriesStayAlone == DiarySpec => LoggedSteps
<1>1. DiaryInv /\ [DiaryNext]_diaryVars => [LoggedEntriesComeFirst]_diaryVars
  BY StepsKeepDiary, DetectPublishes DEF Quiet, LoggedEntriesComeFirst
<1> QED BY <1>1, DiaryInvariance, PTL DEF DiarySpec, LoggedSteps

(***************************************************************************)
(* Numbers and finite sets                                                 *)
(***************************************************************************)
\* The natural numbers are well-founded.
LEMMA LeastNumber ==
  ASSUME NEW S \in SUBSET Nat, S # {}
  PROVE  \E n \in S : \A m \in S : n <= m
<1> DEFINE R == OpToRel(<, Nat)
<1>1. IsWellFoundedOn(R, Nat)
  BY NatLessThanWellFounded
<1>2. \A x, y \in Nat : y < x => <<y, x>> \in R
  BY DEF OpToRel
<1> HIDE DEF R
<1>3. PICK x \in S : \A y \in S : ~(<<y, x>> \in R)
  BY <1>1, WFMin
<1>4. ASSUME NEW y \in S PROVE x <= y
  <2>1. x \in Nat /\ y \in Nat /\ ~(y < x)
    BY <1>2, <1>3
  <2> QED BY <2>1
<1> QED BY <1>3, <1>4

\* Induction over the natural numbers, for a set that is closed under successor.
LEMMA CountingUp ==
  ASSUME NEW T, 0 \in T, \A n \in Nat : n \in T => n + 1 \in T
  PROVE  Nat \subseteq T
<1> SUFFICES ASSUME Nat \ T # {} PROVE FALSE
  OBVIOUS
<1>1. PICK x \in Nat \ T : \A y \in Nat \ T : x <= y
  <2> DEFINE U == Nat \ T
  <2>1. U \in SUBSET Nat /\ U # {}
    OBVIOUS
  <2> HIDE DEF U
  <2>2. \E x \in U : \A y \in U : x <= y
    BY <2>1, LeastNumber
  <2> QED BY <2>2 DEF U
<1>2. x # 0 /\ x - 1 \in Nat /\ (x - 1) + 1 = x /\ x - 1 < x
  BY <1>1
<1>3. x - 1 \in T
  BY <1>1, <1>2
<1> QED BY <1>1, <1>2, <1>3

\* Disjoint parts of a finite set, of n elements or more each, are not more than fit in.
LEMMA PartsFitIn ==
  ASSUME NEW n \in Nat \ {0}
  PROVE  \A m \in Nat : \A P, U : \A part \in [P -> SUBSET U] :
           /\ IsFiniteSet(P) /\ Cardinality(P) = m /\ IsFiniteSet(U)
           /\ \A p \in P : n <= Cardinality(part[p])
           /\ \A p, q \in P : p # q => part[p] \cap part[q] = {}
           => n * m <= Cardinality(U)
<1> DEFINE Fits(P, U, part) ==
             /\ IsFiniteSet(P) /\ IsFiniteSet(U)
             /\ \A p \in P : n <= Cardinality(part[p])
             /\ \A p, q \in P : p # q => part[p] \cap part[q] = {}
           T == { m \in Nat : \A P, U : \A part \in [P -> SUBSET U] :
                                Fits(P, U, part) /\ Cardinality(P) = m => n * m <= Cardinality(U) }
<1>1. 0 \in T
  BY FS_CardinalityType
<1>2. ASSUME NEW m \in Nat, m \in T PROVE m + 1 \in T
  <2> SUFFICES ASSUME NEW P, NEW U, NEW part \in [P -> SUBSET U], Fits(P, U, part), Cardinality(P) = m + 1
               PROVE  n * (m + 1) <= Cardinality(U)
    OBVIOUS
  <2>1. PICK p \in P : TRUE
    BY FS_EmptySet
  <2> DEFINE Q == P \ {p}
             V == U \ part[p]
             rest == [q \in Q |-> part[q]]
  <2>2. IsFiniteSet(Q) /\ Cardinality(Q) = m
    <3>1. IsFiniteSet(P \ {p}) /\ Cardinality(P \ {p}) = Cardinality(P) - 1
      BY <2>1, FS_RemoveElement
    <3>2. (m + 1) - 1 = m
      OBVIOUS
    <3> HIDE DEF Fits
    <3> QED BY <3>1, <3>2
  <2>3. part[p] \subseteq U /\ IsFiniteSet(part[p]) /\ IsFiniteSet(V)
    BY <2>1, FS_Subset
  <2>4. Cardinality(U) = Cardinality(V) + Cardinality(part[p])
    <3>1. V \cup part[p] = U /\ V \cap part[p] = {}
      BY <2>3
    <3>2. Cardinality(V \cup part[p]) = Cardinality(V) + Cardinality(part[p]) - Cardinality(V \cap part[p])
      BY <2>3, FS_Union
    <3>3. Cardinality({}) = 0 /\ Cardinality(V) \in Nat /\ Cardinality(part[p]) \in Nat
      BY <2>3, FS_EmptySet, FS_CardinalityType
    <3>4. Cardinality(V \cup part[p]) = Cardinality(U) /\ Cardinality(V \cap part[p]) = 0
      BY <3>1, <3>3
    <3> HIDE DEF V, Fits
    <3> QED BY <3>2, <3>3, <3>4
  <2>5. rest \in [Q -> SUBSET V] /\ \A q \in Q : rest[q] = part[q]
    BY <2>1
  <2> HIDE DEF Q, V, rest
  <2>6. Fits(Q, V, rest)
    BY <2>2, <2>3, <2>5 DEF Q
  <2> HIDE DEF Fits
  <2>7. n * m <= Cardinality(V)
    BY <1>2, <2>2, <2>5, <2>6
  <2>8. n <= Cardinality(part[p]) /\ Cardinality(V) \in Nat /\ Cardinality(part[p]) \in Nat
    BY <2>1, <2>3, FS_CardinalityType DEF Fits
  <2>9. n * (m + 1) = n * m + n /\ n * m \in Nat
    OBVIOUS
  <2> QED BY <2>4, <2>7, <2>8, <2>9
<1> HIDE DEF T
<1>3. Nat \subseteq T
  BY <1>1, <1>2, CountingUp
<1> QED BY <1>3 DEF T

(***************************************************************************)
(* Scrobbles in the order of their times                                   *)
(***************************************************************************)
\* Sets of scrobbles are finite.
LEMMA EventsAreFinite ==
  ASSUME NEW E \in SUBSET Event
  PROVE  IsFiniteSet(E) /\ Cardinality(E) \in Nat /\ Cardinality(E) <= Cardinality(Event) /\ Cardinality(Event) \in Nat
BY DetectionAssumption, FS_Subset, FS_CardinalityType

\* In the order of their times, each scrobble of a set has one place.
LEMMA InTimeIsInjective ==
  ASSUME NEW E \in SUBSET Event
  PROVE  \A i, j \in 1 .. Cardinality(E) :
           InTime(E)[i] \in E /\ (InTime(E)[i] = InTime(E)[j] => i = j)
<1> DEFINE n == Cardinality(E)
           rank == [e \in E |-> Cardinality(Before(E, e))]
<1>1. IsFiniteSet(E) /\ n \in Nat
  BY EventsAreFinite
<1>2. ASSUME NEW e \in E
      PROVE  Before(E, e) \in SUBSET E /\ IsFiniteSet(Before(E, e)) /\ rank[e] \in 0 .. n - 1
  <2>1. Before(E, e) \in SUBSET E /\ e \notin Before(E, e)
    BY DetectionAssumption DEF Before
  <2>2. IsFiniteSet(Before(E, e)) /\ Cardinality(Before(E, e)) <= n /\ Cardinality(Before(E, e)) # n
    BY <1>1, <1>2, <2>1, FS_Subset
  <2>3. Cardinality(Before(E, e)) \in Nat
    BY <2>2, FS_CardinalityType
  <2> QED BY <1>1, <2>1, <2>2, <2>3
<1>3. ASSUME NEW e \in E, NEW f \in E, At[e] < At[f]
      PROVE  rank[e] # rank[f]
  <2>1. Before(E, e) \in SUBSET Before(E, f) /\ e \in Before(E, f) /\ e \notin Before(E, e)
    BY <1>3, DetectionAssumption DEF Before
  <2> QED BY <1>2, <2>1, FS_Subset
<1>4. \A e, f \in E : rank[e] = rank[f] => e = f
  <2> SUFFICES ASSUME NEW e \in E, NEW f \in E, e # f PROVE rank[e] # rank[f]
    OBVIOUS
  <2>1. At[e] \in Nat /\ At[f] \in Nat /\ At[e] # At[f]
    BY DetectionAssumption
  <2>2. At[e] < At[f] \/ At[f] < At[e]
    BY <2>1
  <2> HIDE DEF rank
  <2> QED BY <1>3, <2>2
<1>5. rank \in Injection(E, 0 .. n - 1)
  <2>1. rank \in [E -> 0 .. n - 1]
    BY <1>2
  <2> HIDE DEF rank
  <2> QED BY <1>4, <2>1 DEF Injection, IsInjective
<1>6. IsFiniteSet(0 .. n - 1) /\ Cardinality(0 .. n - 1) = n
  BY <1>1, FS_Interval
<1>7. rank \in Surjection(E, 0 .. n - 1)
  <2> HIDE DEF rank
  <2> QED BY <1>5, <1>6, FS_Injection
<1>8. ASSUME NEW i \in 1 .. n
      PROVE  InTime(E)[i] \in E /\ rank[InTime(E)[i]] = i - 1
  <2>1. i - 1 \in 0 .. n - 1
    BY <1>1
  <2>2. \E e \in E : rank[e] = i - 1
    <3> HIDE DEF rank
    <3> QED BY <1>7, <2>1 DEF Surjection
  <2>3. \E e \in E : Cardinality(Before(E, e)) = i - 1
    BY <2>2
  <2>4. InTime(E)[i] = CHOOSE e \in E : Cardinality(Before(E, e)) = i - 1
    BY DEF InTime
  <2> QED BY <2>3, <2>4
<1> HIDE DEF rank
<1> QED BY <1>1, <1>8

(***************************************************************************)
(* The plays of a session                                                  *)
(***************************************************************************)
PlayRecord == [credited : Seq(Event), needed : Nat]
CreditedTo(play) == { play.credited[j] : j \in DOMAIN play.credited }

\* A play of some of the scrobbles S, none twice, and with enough of them once it qualifies.
FinePlay(play, S) ==
  /\ play \in PlayRecord /\ play.credited # <<>> /\ CreditedTo(play) \subseteq S
  /\ \A i, j \in DOMAIN play.credited : play.credited[i] = play.credited[j] => i = j
  /\ Qualified(play) => Required <= Len(play.credited)
\* No more than n plays that share no scrobble.
FinePlays(plays, S, n) ==
  /\ plays \in Seq(PlayRecord) /\ Len(plays) <= n
  /\ \A i \in DOMAIN plays : FinePlay(plays[i], S)
  /\ \A i, j \in DOMAIN plays : i # j => CreditedTo(plays[i]) \cap CreditedTo(plays[j]) = {}

\* A play stays fine when it is credited with one scrobble more.
LEMMA CreditedIsFine ==
  ASSUME NEW S \in SUBSET Event, NEW e \in Event \ S, NEW play, play = NewPlay \/ FinePlay(play, S)
  PROVE  FinePlay(Credited(play, e), S \cup {e}) /\ CreditedTo(Credited(play, e)) \subseteq CreditedTo(play) \cup {e}
<1> DEFINE c == play.credited
           more == Append(c, e)
           new == Credited(play, e)
<1>1. /\ c \in Seq(Event) /\ play.needed \in Nat /\ CreditedTo(play) \subseteq S
      /\ \A i, j \in DOMAIN c : c[i] = c[j] => i = j
      /\ Qualified(play) => Required <= Len(c)
  <2>1. CASE play = NewPlay
    BY <2>1 DEF NewPlay, CreditedTo, Qualified
  <2>2. CASE FinePlay(play, S)
    BY <2>2 DEF FinePlay, PlayRecord
  <2> QED BY <2>1, <2>2
<1>2. \A i \in DOMAIN c : c[i] \in S
  BY <1>1 DEF CreditedTo
<1>3. Len(c) \in Nat /\ DOMAIN c = 1 .. Len(c)
  BY <1>1, LenProperties
<1> HIDE DEF c
<1>4. /\ more \in Seq(Event) /\ Len(more) = Len(c) + 1 /\ DOMAIN more = 1 .. Len(c) + 1
      /\ \A i \in 1 .. Len(c) : more[i] = c[i]
      /\ more[Len(c) + 1] = e
  BY <1>1, <1>3, AppendProperties, LenProperties
<1> HIDE DEF more
<1>5. new.credited = more /\ new.needed = IF ~Qualified(play) /\ Len(more) >= Required THEN Len(more) ELSE play.needed
  BY DEF Credited, c, more
<1>6. new = [credited |-> more, needed |-> IF ~Qualified(play) /\ Len(more) >= Required THEN Len(more) ELSE play.needed]
  BY DEF Credited, c, more
<1>7. new \in PlayRecord
  BY <1>1, <1>3, <1>4, <1>6 DEF PlayRecord
<1> HIDE DEF new
<1>8. new.credited # <<>>
  BY <1>3, <1>4, <1>5
<1>9. \A i \in DOMAIN more : more[i] \in CreditedTo(play) \cup {e}
  <2> SUFFICES ASSUME NEW i \in DOMAIN more PROVE more[i] \in CreditedTo(play) \cup {e}
    OBVIOUS
  <2>1. CASE i = Len(c) + 1
    BY <1>4, <2>1
  <2>2. CASE i # Len(c) + 1
    <3>1. i \in DOMAIN c /\ more[i] = c[i]
      BY <1>3, <1>4, <2>2
    <3> QED BY <3>1 DEF CreditedTo, c
  <2> QED BY <2>1, <2>2
<1>10. CreditedTo(new) \subseteq CreditedTo(play) \cup {e}
  BY <1>5, <1>9 DEF CreditedTo
<1>11. \A i, j \in DOMAIN more : more[i] = more[j] => i = j
  <2> SUFFICES ASSUME NEW i \in DOMAIN more, NEW j \in DOMAIN more, more[i] = more[j] PROVE i = j
    OBVIOUS
  <2>1. \A k \in DOMAIN more : k # Len(c) + 1 => k \in DOMAIN c /\ more[k] = c[k] /\ more[k] # e
    BY <1>2, <1>3, <1>4
  <2>2. CASE i = Len(c) + 1 \/ j = Len(c) + 1
    BY <1>4, <2>1, <2>2
  <2>3. CASE i # Len(c) + 1 /\ j # Len(c) + 1
    BY <1>1, <2>1, <2>3 DEF c
  <2> QED BY <2>2, <2>3
<1>12. Qualified(new) => Required <= Len(more)
  BY <1>1, <1>3, <1>4, <1>5, DetectionAssumption DEF Qualified, c
<1>13. FinePlay(new, S \cup {e})
  BY <1>1, <1>5, <1>7, <1>8, <1>10, <1>11, <1>12 DEF FinePlay
<1> QED BY <1>10, <1>13 DEF new

\* So do all plays, when the earliest one that lacks the track, or a new one, takes it.
LEMMA CreditPositionIsFine ==
  ASSUME NEW S \in SUBSET Event, NEW e \in Event \ S, NEW n \in Nat, NEW plays, FinePlays(plays, S, n)
  PROVE  FinePlays(CreditPosition(plays, e), S \cup {e}, n + 1)
<1> DEFINE lacking == { i \in DOMAIN plays : TrackOf[e] \notin Positions(plays[i]) }
           earliest == CHOOSE i \in lacking : \A j \in lacking : i <= j
<1>1. /\ plays \in Seq(PlayRecord) /\ Len(plays) \in Nat /\ Len(plays) <= n /\ DOMAIN plays = 1 .. Len(plays)
      /\ \A i \in DOMAIN plays : FinePlay(plays[i], S)
      /\ \A i, j \in DOMAIN plays : i # j => CreditedTo(plays[i]) \cap CreditedTo(plays[j]) = {}
  BY LenProperties DEF FinePlays
<1>2. ASSUME NEW play, FinePlay(play, S) PROVE FinePlay(play, S \cup {e}) /\ e \notin CreditedTo(play)
  BY <1>2 DEF FinePlay
<1>3. FinePlays(plays, S \cup {e}, n + 1)
  <2>1. Len(plays) <= n + 1
    BY <1>1
  <2>2. \A i \in DOMAIN plays : FinePlay(plays[i], S \cup {e})
    BY <1>1, <1>2
  <2> QED BY <1>1, <2>1, <2>2, Zenon DEF FinePlays
<1>4. CASE lacking # {}
  <2>1. earliest \in lacking
    <3>1. lacking \in SUBSET Nat
      BY <1>1
    <3>2. \E i \in lacking : \A j \in lacking : i <= j
      BY <1>4, <3>1, LeastNumber
    <3> QED BY <3>2
  <2> DEFINE new == Credited(plays[earliest], e)
             t == [plays EXCEPT ![earliest] = new]
  <2>2. earliest \in 1 .. Len(plays)
    BY <1>1, <2>1
  <2> HIDE DEF earliest
  <2>3. FinePlay(new, S \cup {e}) /\ CreditedTo(new) \subseteq CreditedTo(plays[earliest]) \cup {e} /\ new \in PlayRecord
    <3>1. FinePlay(plays[earliest], S)
      BY <1>1, <2>2
    <3>2. FinePlay(new, S \cup {e}) /\ CreditedTo(new) \subseteq CreditedTo(plays[earliest]) \cup {e}
      BY <3>1, CreditedIsFine
    <3> QED BY <3>2 DEF FinePlay
  <2> HIDE DEF new
  <2>4. /\ t \in Seq(PlayRecord) /\ Len(t) = Len(plays) /\ DOMAIN t = 1 .. Len(plays)
        /\ \A j \in 1 .. Len(plays) : t[j] = IF j = earliest THEN new ELSE plays[j]
    BY <1>1, <2>2, <2>3, ExceptSeq
  <2> HIDE DEF t
  <2>5. \A i \in DOMAIN t : FinePlay(t[i], S \cup {e})
    BY <1>1, <1>2, <2>3, <2>4
  <2>6. \A i \in 1 .. Len(plays) : e \notin CreditedTo(plays[i])
    BY <1>1, <1>2
  <2>7. \A i, j \in DOMAIN t : i # j => CreditedTo(t[i]) \cap CreditedTo(t[j]) = {}
    <3> SUFFICES ASSUME NEW i \in 1 .. Len(plays), NEW j \in 1 .. Len(plays), i # j
                 PROVE  CreditedTo(t[i]) \cap CreditedTo(t[j]) = {}
      BY <2>4
    <3>1. CreditedTo(plays[i]) \cap CreditedTo(plays[j]) = {}
      BY <1>1
    <3>2. CASE i = earliest
      <4>1. t[i] = new /\ t[j] = plays[j]
        BY <2>4, <3>2
      <4> QED BY <2>3, <2>6, <3>1, <3>2, <4>1
    <3>3. CASE j = earliest
      <4>1. t[j] = new /\ t[i] = plays[i]
        BY <2>4, <3>3
      <4> QED BY <2>3, <2>6, <3>1, <3>3, <4>1
    <3>4. CASE i # earliest /\ j # earliest
      BY <2>4, <3>1, <3>4
    <3> QED BY <3>2, <3>3, <3>4
  <2>8. FinePlays(t, S \cup {e}, n + 1)
    <3>1. Len(t) <= n + 1
      BY <1>1, <2>4
    <3> QED BY <2>4, <2>5, <2>7, <3>1, Zenon DEF FinePlays
  <2>9. CreditPosition(plays, e) = t
    BY <1>4 DEF CreditPosition, t, new, earliest
  <2> QED BY <2>8, <2>9
<1>5. CASE lacking = {} /\ plays # <<>> /\ ~Qualified(Last(plays))
  <2>1. CreditPosition(plays, e) = plays
    BY <1>5 DEF CreditPosition
  <2> QED BY <1>3, <2>1
<1>6. CASE lacking = {} /\ ~(plays # <<>> /\ ~Qualified(Last(plays)))
  <2> DEFINE new == Credited(NewPlay, e)
             t == Append(plays, new)
  <2>1. FinePlay(new, S \cup {e}) /\ CreditedTo(new) \subseteq {e} /\ new \in PlayRecord
    <3>1. CreditedTo(NewPlay) = {}
      BY DEF CreditedTo, NewPlay
    <3>2. FinePlay(new, S \cup {e}) /\ CreditedTo(new) \subseteq CreditedTo(NewPlay) \cup {e}
      BY CreditedIsFine
    <3> QED BY <3>1, <3>2 DEF FinePlay
  <2> HIDE DEF new
  <2>2. /\ t \in Seq(PlayRecord) /\ Len(t) = Len(plays) + 1 /\ DOMAIN t = 1 .. Len(plays) + 1
        /\ \A j \in 1 .. Len(plays) : t[j] = plays[j]
        /\ t[Len(plays) + 1] = new
    BY <1>1, <2>1, AppendProperties, LenProperties
  <2> HIDE DEF t
  <2>3. \A i \in DOMAIN t : i \in 1 .. Len(plays) \/ i = Len(plays) + 1
    BY <1>1, <2>2
  <2>4. \A i \in DOMAIN t : FinePlay(t[i], S \cup {e})
    BY <1>1, <1>2, <2>1, <2>2, <2>3
  <2>5. \A i \in 1 .. Len(plays) : e \notin CreditedTo(plays[i])
    BY <1>1, <1>2
  <2>6. \A i, j \in DOMAIN t : i # j => CreditedTo(t[i]) \cap CreditedTo(t[j]) = {}
    BY <1>1, <2>1, <2>2, <2>3, <2>5
  <2>7. FinePlays(t, S \cup {e}, n + 1)
    <3>1. Len(t) <= n + 1
      BY <1>1, <2>2
    <3> QED BY <2>2, <2>4, <2>6, <3>1, Zenon DEF FinePlays
  <2>8. CreditPosition(plays, e) = t
    BY <1>6 DEF CreditPosition, t, new
  <2> QED BY <2>7, <2>8
<1> QED BY <1>4, <1>5, <1>6

\* f credits the first m of the scrobbles q one after another.
Credits(f, q, m) == f = [n \in 0 .. m |-> IF n = 0 THEN <<>> ELSE CreditPosition(f[n - 1], q[n])]

\* There is such a function for as many scrobbles as there are.
LEMMA CreditsExist ==
  ASSUME NEW q
  PROVE  \A m \in Nat : \E f : Credits(f, q, m)
<1> DEFINE T == { m \in Nat : \E f : Credits(f, q, m) }
<1>1. 0 \in T
  <2> DEFINE f == [n \in 0 .. 0 |-> <<>>]
  <2>1. \A n \in 0 .. 0 : n = 0
    OBVIOUS
  <2>2. Credits(f, q, 0)
    BY <2>1 DEF Credits
  <2> QED BY <2>2
<1>2. ASSUME NEW m \in Nat, m \in T PROVE m + 1 \in T
  <2>1. PICK f : Credits(f, q, m)
    BY <1>2
  <2> DEFINE last == CreditPosition(f[m], q[m + 1])
             g == [n \in 0 .. (m + 1) |-> IF n = m + 1 THEN last ELSE f[n]]
  <2>2. \A n \in 0 .. m : f[n] = IF n = 0 THEN <<>> ELSE CreditPosition(f[n - 1], q[n])
    BY <2>1 DEF Credits
  <2> HIDE DEF last
  <2>3. /\ \A n \in 0 .. m : n \in 0 .. (m + 1) /\ n # m + 1 /\ g[n] = f[n]
        /\ g[m + 1] = last /\ m \in 0 .. m /\ (m + 1) - 1 = m /\ m + 1 # 0
    OBVIOUS
  <2>4. g = [n \in 0 .. (m + 1) |-> g[n]]
    OBVIOUS
  <2> HIDE DEF g
  <2>5. ASSUME NEW n \in 0 .. (m + 1)
        PROVE  g[n] = IF n = 0 THEN <<>> ELSE CreditPosition(g[n - 1], q[n])
    <3>1. CASE n = m + 1
      <4>1. g[n - 1] = f[m] /\ n # 0 /\ g[n] = last
        BY <2>3, <3>1
      <4> QED BY <3>1, <4>1 DEF last
    <3>2. CASE n = 0
      <4>1. n \in 0 .. m
        BY <3>2
      <4> QED BY <2>2, <2>3, <3>2, <4>1
    <3>3. CASE n # 0 /\ n # m + 1
      <4>1. n \in 0 .. m /\ n - 1 \in 0 .. m
        BY <3>3
      <4> QED BY <2>2, <2>3, <3>3, <4>1
    <3> QED BY <3>1, <3>2, <3>3
  <2>6. Credits(g, q, m + 1)
    BY <2>4, <2>5 DEF Credits
  <2> QED BY <2>6
<1> HIDE DEF T
<1>3. Nat \subseteq T
  BY <1>1, <1>2, CountingUp
<1> QED BY <1>3 DEF T

\* The plays of any scrobbles are fine: each has enough of them once it qualifies, and no
\* two plays share any.
LEMMA PlaysAreFine ==
  ASSUME NEW E \in SUBSET Event
  PROVE  FinePlays(PlaysOf[E], E, Cardinality(E))
<1> DEFINE c == Cardinality(E)
           q == InTime(E)
           First(n) == { q[i] : i \in 1 .. n }
<1>1. c \in Nat
  BY EventsAreFinite
<1>2. \A i, j \in 1 .. c : q[i] \in E /\ (q[i] = q[j] => i = j)
  BY InTimeIsInjective
<1>3. PICK f : Credits(f, q, c) /\ PlaysOf[E] = f[c]
  <2>1. \E f : Credits(f, q, c)
    BY <1>1, CreditsExist
  <2> DEFINE choice == CHOOSE f : Credits(f, q, c)
  <2>2. Credits(choice, q, c)
    BY <2>1
  <2>3. PlaysOf[E] = choice[c]
    BY DEF PlaysOf, Credits
  <2> HIDE DEF choice
  <2> QED BY <2>2, <2>3
<1> HIDE DEF c, q
<1>4. \A n \in 0 .. c : f[n] = IF n = 0 THEN <<>> ELSE CreditPosition(f[n - 1], q[n])
  BY <1>3 DEF Credits
<1> DEFINE T == { n \in Nat : n <= c => FinePlays(f[n], First(n), n) }
<1>5. 0 \in T
  <2>1. f[0] = <<>>
    BY <1>1, <1>4
  <2>2. FinePlays(<<>>, First(0), 0)
    BY EmptySeq DEF FinePlays
  <2> QED BY <2>1, <2>2
<1>6. ASSUME NEW n \in Nat, n \in T PROVE n + 1 \in T
  <2> SUFFICES ASSUME n + 1 <= c PROVE FinePlays(f[n + 1], First(n + 1), n + 1)
    OBVIOUS
  <2>1. n + 1 \in 0 .. c /\ (n + 1) - 1 = n /\ n + 1 # 0 /\ n + 1 \in 1 .. c /\ n <= c
        /\ \A i \in 1 .. n : i \in 1 .. c /\ i # n + 1
    BY <1>1
  <2>2. f[n + 1] = CreditPosition(f[n], q[n + 1])
    BY <1>4, <2>1
  <2>3. FinePlays(f[n], First(n), n)
    BY <1>6, <2>1
  <2>4. First(n) \in SUBSET Event /\ q[n + 1] \in Event \ First(n)
    BY <1>2, <2>1
  <2>5. First(n + 1) = First(n) \cup {q[n + 1]}
    <3>1. \A i \in 1 .. (n + 1) : i \in 1 .. n \/ i = n + 1
      OBVIOUS
    <3>2. \A i \in 1 .. n : i \in 1 .. (n + 1)
      OBVIOUS
    <3> QED BY <3>1, <3>2
  <2> HIDE DEF First, T
  <2> QED BY <2>2, <2>3, <2>4, <2>5, CreditPositionIsFine
<1> HIDE DEF T
<1>7. c \in T
  BY <1>1, <1>5, <1>6, CountingUp
<1>8. FinePlays(f[c], First(c), c) /\ First(c) \subseteq E
  BY <1>1, <1>2, <1>7 DEF T
<1> HIDE DEF First
<1>9. FinePlays(f[c], E, c)
  BY <1>8 DEF FinePlays, FinePlay
<1> QED BY <1>3, <1>9 DEF c

(***************************************************************************)
(* Sessions                                                                *)
(***************************************************************************)
\* Sessions of some of the scrobbles S, none of them in two.
FineSessions(sessions, S) ==
  /\ sessions \in Seq(Seq(Event))
  /\ \A i \in DOMAIN sessions : sessions[i] # <<>> /\ ToSet(sessions[i]) \subseteq S
  /\ \A i, j \in DOMAIN sessions : i # j => ToSet(sessions[i]) \cap ToSet(sessions[j]) = {}

\* What a sequence has after one more element.
LEMMA AppendedSet ==
  ASSUME NEW T, NEW s \in Seq(T), NEW e
  PROVE  ToSet(Append(s, e)) = ToSet(s) \cup {e}
<1>1. Len(s) \in Nat /\ DOMAIN s = 1 .. Len(s)
  BY LenProperties
<1> DEFINE more == Append(s, e)
<1>2. /\ s \in Seq(T \cup {e}) /\ e \in T \cup {e}
  <2>1. \A i \in 1 .. Len(s) : s[i] \in T
    BY ElementOfSeq
  <2> QED BY <1>1, <2>1, SeqDef
<1>3. /\ DOMAIN more = 1 .. Len(s) + 1 /\ more[Len(s) + 1] = e
      /\ \A i \in 1 .. Len(s) : more[i] = s[i]
  <2>1. more \in Seq(T \cup {e}) /\ Len(more) = Len(s) + 1
    BY <1>2, AppendProperties
  <2> QED BY <1>2, <2>1, AppendProperties, LenProperties
<1> HIDE DEF more
<1>4. \A i \in DOMAIN more : i \in DOMAIN s \/ i = Len(s) + 1
  BY <1>1, <1>3
<1>5. \A i \in DOMAIN s : i \in DOMAIN more
  BY <1>1, <1>3
<1>6. Len(s) + 1 \in DOMAIN more
  BY <1>1, <1>3
<1> QED BY <1>1, <1>3, <1>4, <1>5, <1>6 DEF ToSet, more

\* A scrobble more opens a session or joins the newest.
LEMMA ExtendedIsFine ==
  ASSUME NEW S \in SUBSET Event, NEW e \in Event \ S, NEW sessions, FineSessions(sessions, S)
  PROVE  FineSessions(Extended(sessions, e), S \cup {e})
<1>1. /\ sessions \in Seq(Seq(Event)) /\ Len(sessions) \in Nat /\ DOMAIN sessions = 1 .. Len(sessions)
      /\ \A i \in DOMAIN sessions : sessions[i] \in Seq(Event) /\ sessions[i] # <<>> /\ ToSet(sessions[i]) \subseteq S
      /\ \A i, j \in DOMAIN sessions : i # j => ToSet(sessions[i]) \cap ToSet(sessions[j]) = {}
  BY LenProperties, ElementOfSeq DEF FineSessions
<1> DEFINE opened == Append(sessions, <<e>>)
           n == Len(sessions)
           joined == [sessions EXCEPT ![n] = Append(@, e)]
<1>2. FineSessions(opened, S \cup {e})
  <2>1. <<e>> \in Seq(Event) /\ <<e>> # <<>> /\ ToSet(<<e>>) = {e}
    BY DEF ToSet
  <2>2. /\ opened \in Seq(Seq(Event)) /\ DOMAIN opened = 1 .. n + 1
        /\ \A j \in 1 .. n : opened[j] = sessions[j]
        /\ opened[n + 1] = <<e>>
    BY <1>1, <2>1, AppendProperties, LenProperties
  <2> HIDE DEF opened
  <2>3. \A i \in DOMAIN opened : (i \in 1 .. n /\ i \in DOMAIN sessions) \/ i = n + 1
    BY <1>1, <2>2
  <2>4. \A i \in DOMAIN opened : opened[i] # <<>> /\ ToSet(opened[i]) \subseteq S \cup {e}
    BY <1>1, <2>1, <2>2, <2>3
  <2>5. \A i \in DOMAIN sessions : e \notin ToSet(sessions[i])
    BY <1>1
  <2>6. \A i, j \in DOMAIN opened : i # j => ToSet(opened[i]) \cap ToSet(opened[j]) = {}
    <3> SUFFICES ASSUME NEW i \in DOMAIN opened, NEW j \in DOMAIN opened, i # j
                 PROVE  ToSet(opened[i]) \cap ToSet(opened[j]) = {}
      OBVIOUS
    <3>1. CASE i = n + 1
      <4>1. opened[i] = <<e>> /\ opened[j] = sessions[j] /\ j \in DOMAIN sessions
        BY <2>2, <2>3, <3>1
      <4>2. e \notin ToSet(sessions[j])
        BY <2>5, <4>1
      <4> QED BY <2>1, <4>1, <4>2
    <3>2. CASE j = n + 1
      <4>1. opened[j] = <<e>> /\ opened[i] = sessions[i] /\ i \in DOMAIN sessions
        BY <2>2, <2>3, <3>2
      <4>2. e \notin ToSet(sessions[i])
        BY <2>5, <4>1
      <4> QED BY <2>1, <4>1, <4>2
    <3>3. CASE i # n + 1 /\ j # n + 1
      <4>1. /\ opened[i] = sessions[i] /\ i \in DOMAIN sessions
            /\ opened[j] = sessions[j] /\ j \in DOMAIN sessions
        BY <2>2, <2>3, <3>3
      <4> QED BY <1>1, <4>1
    <3> QED BY <3>1, <3>2, <3>3
  <2> QED BY <2>2, <2>4, <2>6 DEF FineSessions
<1>3. ASSUME sessions # <<>>
      PROVE  FineSessions(joined, S \cup {e})
  <2>1. n \in 1 .. n /\ n \in DOMAIN sessions
    BY <1>1, <1>3, EmptySeq
  <2>2. /\ Append(sessions[n], e) \in Seq(Event) /\ Append(sessions[n], e) # <<>>
        /\ ToSet(Append(sessions[n], e)) = ToSet(sessions[n]) \cup {e}
    BY <1>1, <2>1, AppendProperties, AppendedSet
  <2> DEFINE longer == Append(sessions[n], e)
  <2>3. /\ joined \in Seq(Seq(Event)) /\ DOMAIN joined = 1 .. n
        /\ \A j \in 1 .. n : joined[j] = IF j = n THEN longer ELSE sessions[j]
    <3>1. joined = [sessions EXCEPT ![n] = longer]
      OBVIOUS
    <3> HIDE DEF longer, joined
    <3> QED BY <1>1, <2>1, <2>2, <3>1, ExceptSeq DEF longer
  <2> HIDE DEF joined, longer
  <2>4. ASSUME NEW i \in DOMAIN joined
        PROVE  joined[i] # <<>> /\ ToSet(joined[i]) \subseteq S \cup {e}
    <3>1. CASE i = n
      <4>1. joined[i] = longer
        BY <2>3, <3>1
      <4>2. ToSet(sessions[n]) \subseteq S
        BY <1>1, <2>1
      <4> QED BY <2>2, <4>1, <4>2 DEF longer
    <3>2. CASE i # n
      <4>1. i \in 1 .. n
        BY <2>3
      <4>2. joined[i] = sessions[i]
        BY <2>3, <3>2, <4>1
      <4>3. i \in DOMAIN sessions
        BY <1>1, <4>1
      <4> QED BY <1>1, <4>2, <4>3
    <3> QED BY <3>1, <3>2
  <2>5. \A i \in DOMAIN sessions : e \notin ToSet(sessions[i])
    BY <1>1
  <2>6. \A i, j \in DOMAIN joined : i # j => ToSet(joined[i]) \cap ToSet(joined[j]) = {}
    <3> SUFFICES ASSUME NEW i \in 1 .. n, NEW j \in 1 .. n, i # j
                 PROVE  ToSet(joined[i]) \cap ToSet(joined[j]) = {}
      BY <2>3
    <3>1. /\ ToSet(sessions[i]) \cap ToSet(sessions[j]) = {}
          /\ e \notin ToSet(sessions[i]) /\ e \notin ToSet(sessions[j])
      BY <1>1, <2>5
    <3>2. CASE i = n
      <4>1. joined[i] = longer /\ joined[j] = sessions[j]
        BY <2>3, <3>2
      <4> QED BY <2>2, <3>1, <3>2, <4>1 DEF longer
    <3>3. CASE j = n
      <4>1. joined[j] = longer /\ joined[i] = sessions[i]
        BY <2>3, <3>3
      <4> QED BY <2>2, <3>1, <3>3, <4>1 DEF longer
    <3>4. CASE i # n /\ j # n
      BY <2>3, <3>1, <3>4
    <3> QED BY <3>2, <3>3, <3>4
  <2> QED BY <2>3, <2>4, <2>6 DEF FineSessions
<1>4. Extended(sessions, e) = opened \/ (sessions # <<>> /\ Extended(sessions, e) = joined)
  <2>1. CASE sessions = <<>>
    BY <2>1 DEF Extended
  <2>2. CASE sessions # <<>>
    BY <2>2 DEF Extended
  <2> QED BY <2>1, <2>2
<1> HIDE DEF opened, joined
<1> QED BY <1>2, <1>3, <1>4

\* f extends the sessions by the first m of the scrobbles q one after another.
Opens(f, q, m) == f = [n \in 0 .. m |-> IF n = 0 THEN <<>> ELSE Extended(f[n - 1], q[n])]

\* There is such a function for as many scrobbles as there are.
LEMMA OpensExist ==
  ASSUME NEW q
  PROVE  \A m \in Nat : \E f : Opens(f, q, m)
<1> DEFINE T == { m \in Nat : \E f : Opens(f, q, m) }
<1>1. 0 \in T
  <2> DEFINE f == [n \in 0 .. 0 |-> <<>>]
  <2>1. \A n \in 0 .. 0 : n = 0
    OBVIOUS
  <2>2. Opens(f, q, 0)
    BY <2>1 DEF Opens
  <2> QED BY <2>2
<1>2. ASSUME NEW m \in Nat, m \in T PROVE m + 1 \in T
  <2>1. PICK f : Opens(f, q, m)
    BY <1>2
  <2> DEFINE last == Extended(f[m], q[m + 1])
             g == [n \in 0 .. (m + 1) |-> IF n = m + 1 THEN last ELSE f[n]]
  <2>2. \A n \in 0 .. m : f[n] = IF n = 0 THEN <<>> ELSE Extended(f[n - 1], q[n])
    BY <2>1 DEF Opens
  <2> HIDE DEF last
  <2>3. /\ \A n \in 0 .. m : n \in 0 .. (m + 1) /\ n # m + 1 /\ g[n] = f[n]
        /\ g[m + 1] = last /\ m \in 0 .. m /\ (m + 1) - 1 = m /\ m + 1 # 0
    OBVIOUS
  <2>4. g = [n \in 0 .. (m + 1) |-> g[n]]
    OBVIOUS
  <2> HIDE DEF g
  <2>5. ASSUME NEW n \in 0 .. (m + 1)
        PROVE  g[n] = IF n = 0 THEN <<>> ELSE Extended(g[n - 1], q[n])
    <3>1. CASE n = m + 1
      <4>1. g[n - 1] = f[m] /\ n # 0 /\ g[n] = last
        BY <2>3, <3>1
      <4> QED BY <3>1, <4>1 DEF last
    <3>2. CASE n = 0
      <4>1. n \in 0 .. m
        BY <3>2
      <4> QED BY <2>2, <2>3, <3>2, <4>1
    <3>3. CASE n # 0 /\ n # m + 1
      <4>1. n \in 0 .. m /\ n - 1 \in 0 .. m
        BY <3>3
      <4> QED BY <2>2, <2>3, <3>3, <4>1
    <3> QED BY <3>1, <3>2, <3>3
  <2>6. Opens(g, q, m + 1)
    BY <2>4, <2>5 DEF Opens
  <2> QED BY <2>6
<1> HIDE DEF T
<1>3. Nat \subseteq T
  BY <1>1, <1>2, CountingUp
<1> QED BY <1>3 DEF T

\* Sessions are sets of the scrobbles that they are made of, and share none.
LEMMA SessionsAreApart ==
  ASSUME NEW E \in SUBSET Event
  PROVE  /\ DetectSessions[E] \subseteq SUBSET E
         /\ \A f, h \in DetectSessions[E] : f # h => f \cap h = {}
<1> DEFINE c == Cardinality(E)
           q == InTime(E)
           First(n) == { q[i] : i \in 1 .. n }
<1>1. c \in Nat
  BY EventsAreFinite
<1>2. \A i, j \in 1 .. c : q[i] \in E /\ (q[i] = q[j] => i = j)
  BY InTimeIsInjective
<1>3. PICK f : Opens(f, q, c) /\ DetectSessions[E] = { ToSet(x) : x \in ToSet(f[c]) }
  <2>1. \E f : Opens(f, q, c)
    BY <1>1, OpensExist
  <2> DEFINE choice == CHOOSE f : Opens(f, q, c)
  <2>2. Opens(choice, q, c)
    BY <2>1
  <2>3. DetectSessions[E] = { ToSet(x) : x \in ToSet(choice[c]) }
    BY DEF DetectSessions, Opens
  <2> HIDE DEF choice
  <2> QED BY <2>2, <2>3
<1> HIDE DEF c, q
<1>4. \A n \in 0 .. c : f[n] = IF n = 0 THEN <<>> ELSE Extended(f[n - 1], q[n])
  BY <1>3 DEF Opens
<1> DEFINE T == { n \in Nat : n <= c => FineSessions(f[n], First(n)) }
<1>5. 0 \in T
  <2>1. f[0] = <<>>
    BY <1>1, <1>4
  <2>2. FineSessions(<<>>, First(0))
    BY EmptySeq DEF FineSessions
  <2> QED BY <2>1, <2>2
<1>6. ASSUME NEW n \in Nat, n \in T PROVE n + 1 \in T
  <2> SUFFICES ASSUME n + 1 <= c PROVE FineSessions(f[n + 1], First(n + 1))
    OBVIOUS
  <2>1. n + 1 \in 0 .. c /\ (n + 1) - 1 = n /\ n + 1 # 0 /\ n + 1 \in 1 .. c /\ n <= c
        /\ \A i \in 1 .. n : i \in 1 .. c /\ i # n + 1
    BY <1>1
  <2>2. f[n + 1] = Extended(f[n], q[n + 1])
    BY <1>4, <2>1
  <2>3. FineSessions(f[n], First(n))
    BY <1>6, <2>1
  <2>4. First(n) \in SUBSET Event /\ q[n + 1] \in Event \ First(n)
    BY <1>2, <2>1
  <2>5. First(n + 1) = First(n) \cup {q[n + 1]}
    <3>1. \A i \in 1 .. (n + 1) : i \in 1 .. n \/ i = n + 1
      OBVIOUS
    <3>2. \A i \in 1 .. n : i \in 1 .. (n + 1)
      OBVIOUS
    <3> QED BY <3>1, <3>2
  <2> HIDE DEF First, T
  <2> QED BY <2>2, <2>3, <2>4, <2>5, ExtendedIsFine
<1> HIDE DEF T
<1>7. c \in T
  BY <1>1, <1>5, <1>6, CountingUp
<1>8. FineSessions(f[c], First(c)) /\ First(c) \subseteq E
  BY <1>1, <1>2, <1>7 DEF T
<1> HIDE DEF First
<1>9. \A x \in ToSet(f[c]) : \E i \in DOMAIN f[c] : x = f[c][i]
  BY DEF ToSet
<1>10. DetectSessions[E] \subseteq SUBSET E
  BY <1>3, <1>8, <1>9 DEF FineSessions
<1>11. ASSUME NEW g \in DetectSessions[E], NEW h \in DetectSessions[E], g # h
       PROVE  g \cap h = {}
  <2>1. PICK i \in DOMAIN f[c] : g = ToSet(f[c][i])
    BY <1>3, <1>9
  <2>2. PICK j \in DOMAIN f[c] : h = ToSet(f[c][j])
    BY <1>3, <1>9
  <2> QED BY <1>8, <1>11, <2>1, <2>2 DEF FineSessions
<1> QED BY <1>10, <1>11

(***************************************************************************)
(* Groups of stored detections and fresh sessions                          *)
(***************************************************************************)
\* A group is of stored detections and fresh sessions, and no two groups share any, or
\* any event.
LEMMA GroupsAreApart ==
  ASSUME NEW s
  PROVE  /\ \A g \in Groups(s) : g.stored \subseteq Stored(s) /\ g.fresh \subseteq FreshSessions(s)
         /\ \A g, h \in Groups(s) : g # h =>
              /\ g.stored \cap h.stored = {} /\ g.fresh \cap h.fresh = {}
              /\ EventsOf(s, g) \cap EventsOf(s, h) = {}
<1> DEFINE all == [stored |-> Stored(s), fresh |-> FreshSessions(s)]
           some == [stored : SUBSET Stored(s), fresh : SUBSET FreshSessions(s)]
           closed == { g \in some : (g.stored # {} \/ g.fresh # {}) /\ Closed(s, all, g) }
<1>1. \A g \in Groups(s) :
        g \in closed /\ \A h \in closed : h.stored \subseteq g.stored /\ h.fresh \subseteq g.fresh => h = g
  BY Zenon DEF Groups
<1>2. all.stored = Stored(s) /\ all.fresh = FreshSessions(s)
  OBVIOUS
<1> HIDE DEF all
<1>3. ASSUME NEW g \in Groups(s), NEW h \in Groups(s), g # h
      PROVE  /\ g.stored \cap h.stored = {} /\ g.fresh \cap h.fresh = {}
             /\ EventsOf(s, g) \cap EventsOf(s, h) = {}
  <2> DEFINE m == [stored |-> g.stored \cap h.stored, fresh |-> g.fresh \cap h.fresh]
  <2>1. g \in some /\ h \in some /\ Closed(s, all, g) /\ Closed(s, all, h)
    BY <1>1
  <2>2. m \in some /\ m.stored = g.stored \cap h.stored /\ m.fresh = g.fresh \cap h.fresh
    BY <2>1
  <2> HIDE DEF m
  <2>3. EventsOf(s, m) \subseteq EventsOf(s, g) /\ EventsOf(s, m) \subseteq EventsOf(s, h)
    BY <2>2 DEF EventsOf
  <2>4. Closed(s, all, m)
    BY <2>1, <2>2, <2>3 DEF Closed
  <2>5. ~(m.stored # {} \/ m.fresh # {})
    <3>1. SUFFICES ASSUME m.stored # {} \/ m.fresh # {} PROVE m = g /\ m = h
      BY <1>3
    <3>2. m \in closed
      BY <2>2, <2>4, <3>1
    <3> QED BY <1>1, <2>2, <3>2
  <2>6. \A x \in EventsOf(s, g) : x \notin EventsOf(s, h)
    <3> SUFFICES ASSUME NEW x \in EventsOf(s, g) PROVE x \notin EventsOf(s, h)
      OBVIOUS
    <3>1. CASE \E i \in g.stored : x \in s[DetectionDoc(i)].events
      <4>1. PICK i \in g.stored : x \in s[DetectionDoc(i)].events
        BY <3>1
      <4>2. i \in all.stored \ h.stored
        BY <1>2, <2>1, <2>2, <2>5
      <4> QED BY <2>1, <4>1, <4>2 DEF Closed
    <3>2. CASE \E f \in g.fresh : x \in f
      <4>1. PICK f \in g.fresh : x \in f
        BY <3>2
      <4>2. f \in all.fresh \ h.fresh
        BY <1>2, <2>1, <2>2, <2>5
      <4> QED BY <2>1, <4>1, <4>2 DEF Closed
    <3> QED BY <3>1, <3>2 DEF EventsOf
  <2> QED BY <2>2, <2>5, <2>6
<1>4. \A g \in Groups(s) : g.stored \subseteq Stored(s) /\ g.fresh \subseteq FreshSessions(s)
  BY <1>1
<1> QED BY <1>3, <1>4

\* Every stored detection is in a group: the smallest closed one that it is in.
LEMMA StoredHaveGroups ==
  ASSUME NEW s, NEW i \in Stored(s)
  PROVE  \E g \in Groups(s) : i \in g.stored
<1> DEFINE all == [stored |-> Stored(s), fresh |-> FreshSessions(s)]
           some == [stored : SUBSET Stored(s), fresh : SUBSET FreshSessions(s)]
           closed == { g \in some : (g.stored # {} \/ g.fresh # {}) /\ Closed(s, all, g) }
           with == { g \in closed : i \in g.stored }
           m == [stored |-> { j \in Stored(s) : \A g \in with : j \in g.stored },
                 fresh |-> { f \in FreshSessions(s) : \A g \in with : f \in g.fresh }]
<1>1. \A g \in closed :
        (\A h \in closed : h.stored \subseteq g.stored /\ h.fresh \subseteq g.fresh => h = g) => g \in Groups(s)
  BY Zenon DEF Groups
<1>2. all.stored = Stored(s) /\ all.fresh = FreshSessions(s)
  OBVIOUS
<1>3. /\ m \in some /\ i \in m.stored
      /\ \A g \in with : m.stored \subseteq g.stored /\ m.fresh \subseteq g.fresh
      /\ \A j \in Stored(s) \ m.stored : \E g \in with : j \notin g.stored
      /\ \A f \in FreshSessions(s) \ m.fresh : \E g \in with : f \notin g.fresh
  OBVIOUS
<1> HIDE DEF all, m
<1>4. \A g \in with : EventsOf(s, m) \subseteq EventsOf(s, g)
  BY <1>3 DEF EventsOf
<1>5. Closed(s, all, m)
  <2>1. ASSUME NEW j \in Stored(s) \ m.stored
        PROVE  s[DetectionDoc(j)].events \cap EventsOf(s, m) = {}
    <3>1. PICK g \in with : j \notin g.stored
      BY <1>3
    <3>2. s[DetectionDoc(j)].events \cap EventsOf(s, g) = {}
      BY <1>2, <3>1 DEF Closed
    <3> QED BY <1>4, <3>2
  <2>2. ASSUME NEW f \in FreshSessions(s) \ m.fresh
        PROVE  f \cap EventsOf(s, m) = {}
    <3>1. PICK g \in with : f \notin g.fresh
      BY <1>3
    <3>2. f \cap EventsOf(s, g) = {}
      BY <1>2, <3>1 DEF Closed
    <3> QED BY <1>4, <3>2
  <2> QED BY <1>2, <2>1, <2>2 DEF Closed
<1>6. m \in closed
  BY <1>3, <1>5
<1>7. ASSUME NEW h \in closed, h.stored \subseteq m.stored, h.fresh \subseteq m.fresh
      PROVE  h = m
  <2>1. CASE i \in h.stored
    <3>1. m.stored \subseteq h.stored /\ m.fresh \subseteq h.fresh
      BY <1>3, <2>1
    <3>2. h.stored = m.stored /\ h.fresh = m.fresh /\ h \in some
      BY <1>7, <3>1
    <3> QED BY <1>3, <3>2
  <2>2. CASE i \notin h.stored
    <3> DEFINE rest == [stored |-> m.stored \ h.stored, fresh |-> m.fresh \ h.fresh]
    <3>1. /\ rest \in some /\ i \in rest.stored
          /\ rest.stored = m.stored \ h.stored /\ rest.fresh = m.fresh \ h.fresh
      BY <1>3, <2>2
    <3> HIDE DEF rest
    <3>2. EventsOf(s, rest) \subseteq EventsOf(s, m)
      BY <3>1 DEF EventsOf
    <3>3. EventsOf(s, rest) \cap EventsOf(s, h) = {}
      <4>1. \A j \in rest.stored : s[DetectionDoc(j)].events \cap EventsOf(s, h) = {}
        BY <1>2, <3>1 DEF Closed
      <4>2. \A f \in rest.fresh : f \cap EventsOf(s, h) = {}
        BY <1>2, <3>1 DEF Closed
      <4> QED BY <4>1, <4>2 DEF EventsOf
    <3>4. ASSUME NEW j \in Stored(s) \ rest.stored
          PROVE  s[DetectionDoc(j)].events \cap EventsOf(s, rest) = {}
      <4>1. CASE j \in h.stored
        <5>1. s[DetectionDoc(j)].events \subseteq EventsOf(s, h)
          BY <4>1 DEF EventsOf
        <5> QED BY <3>3, <5>1
      <4>2. CASE j \notin m.stored
        <5>1. s[DetectionDoc(j)].events \cap EventsOf(s, m) = {}
          BY <1>2, <1>5, <4>2 DEF Closed
        <5> QED BY <3>2, <5>1
      <4> QED BY <3>1, <4>1, <4>2
    <3>5. ASSUME NEW f \in FreshSessions(s) \ rest.fresh
          PROVE  f \cap EventsOf(s, rest) = {}
      <4>1. CASE f \in h.fresh
        <5>1. f \subseteq EventsOf(s, h)
          BY <4>1 DEF EventsOf
        <5> QED BY <3>3, <5>1
      <4>2. CASE f \notin m.fresh
        <5>1. f \cap EventsOf(s, m) = {}
          BY <1>2, <1>5, <4>2 DEF Closed
        <5> QED BY <3>2, <5>1
      <4> QED BY <3>1, <4>1, <4>2
    <3>6. Closed(s, all, rest)
      BY <1>2, <3>4, <3>5 DEF Closed
    <3>7. rest \in with
      BY <3>1, <3>6
    <3>8. m.stored \subseteq rest.stored /\ m.fresh \subseteq rest.fresh
      BY <1>3, <3>7
    <3>9. h.stored = {} /\ h.fresh = {}
      BY <1>7, <3>1, <3>8
    <3> QED BY <3>9
  <2> QED BY <2>1, <2>2
<1>8. m \in Groups(s)
  BY <1>1, <1>6, <1>7
<1> QED BY <1>3, <1>8

(***************************************************************************)
(* What the detections are, between passes and during one                  *)
(***************************************************************************)
Waiting == {"needs_confirmation", "manual_duplicate"}
PlayStates ==
  [id : Nat \X Event, published : BOOLEAN,
   publication : {"none", "published", "dismissed", "suppressed"} \cup Waiting]
DetectionRecords == [events : SUBSET Event, baseline : {0, 1}, held : BOOLEAN, plays : Seq(PlayStates)]

\* The plays of a detection are those of its events, and what is published qualifies.
Documented(d) ==
  /\ d \in DetectionRecords /\ Len(d.plays) = Len(PlaysOf[d.events])
  /\ \A k \in DOMAIN d.plays : d.plays[k].published => Qualified(PlaysOf[d.events][k])
\* So does what awaits its owner, once a pass has decided it.
SoundDetection(d) ==
  /\ Documented(d)
  /\ \A k \in DOMAIN d.plays : d.plays[k].publication \in Waiting => Qualified(PlaysOf[d.events][k])
\* What a pass changes of a detection and its owner does not.
Outline(d) == [events |-> d.events, ids |-> [k \in DOMAIN d.plays |-> d.plays[k].id]]
\* The detections share no event, are of the events in evidence, and no two of their plays
\* have an id in common; each id was minted before pass n.
WellArranged(outlines, evidence, n) ==
  /\ \A i \in Slots : outlines[i].events \subseteq evidence
  /\ \A i, j \in Slots : i # j => outlines[i].events \cap outlines[j].events = {}
  /\ \A i \in Slots : \A k \in DOMAIN outlines[i].ids : outlines[i].ids[k][1] < n
  /\ \A i, j \in Slots : \A k \in DOMAIN outlines[i].ids, l \in DOMAIN outlines[j].ids :
       outlines[i].ids[k] = outlines[j].ids[l] => i = j /\ k = l
Outlines(s) == [i \in Slots |-> Outline(s[DetectionDoc(i)])]

SoundSite(s) ==
  /\ DOMAIN s = DiaryDocs
  /\ s[ConnectionDoc] \in [state : {"active", "paused"}, enabledAt : Nat, passes : Nat]
  /\ s[CatalogDoc] \in [mapped : BOOLEAN, baseline : {0, 1}]
  /\ s[ClockDoc] \in Nat /\ s[EvidenceDoc] \in SUBSET Event
  /\ \A i \in Slots : SoundDetection(s[DetectionDoc(i)])
  /\ WellArranged(Outlines(s), s[EvidenceDoc], Connection(s).passes)

\* Every published play has one receipt of it, and every such receipt its play.
PublishedReceipts(s) == { r \in Receipts(s) : r.outcome = "published" }
PublishedAs(d, id) == \E k \in DOMAIN d.plays : d.plays[k].published /\ d.plays[k].id = id
Receipted(s) ==
  /\ \A r \in PublishedReceipts(s) : \E i \in Slots : PublishedAs(s[DetectionDoc(i)], r.id)
  /\ \A i \in Slots : \A k \in DOMAIN s[DetectionDoc(i)].plays :
       s[DetectionDoc(i)].plays[k].published =>
         \E r \in PublishedReceipts(s) : r.id = s[DetectionDoc(i)].plays[k].id
  /\ \A r, q \in PublishedReceipts(s) : r.id = q.id => r = q

\* What the transactions under way know: the worker's, every detection but for the
\* decisions of the owner; the owner's, which detection is to be decided on.
TransactionsAreSound ==
  /\ \A c \in OpenClients : SoundSite(tx[c].snap)
  /\ \A c \in OpenClients \ {Worker} : tx[c].req.op \in {"confirm", "dismiss"} /\ tx[c].req.slot \in Slots
  /\ Worker \in OpenClients =>
       /\ tx[Worker].req.op = "detect" /\ Outlines(tx[Worker].snap) = Outlines(db)
       /\ tx[Worker].snap[EvidenceDoc] \subseteq db[EvidenceDoc]
SiteInv == SoundSite(db) /\ Receipted(db) /\ TransactionsAreSound

(***************************************************************************)
(* Reconciliation                                                          *)
(***************************************************************************)
\* What reconciliation makes of the plays of a detection: the publication of each stays
\* with its ordinal, and a play that is new to the slot is new to the album.
PlayFollows(s, d, new, k) ==
  \/ /\ k \in DOMAIN d.plays
     /\ new.plays[k].id = d.plays[k].id /\ new.plays[k].published = d.plays[k].published
  \/ /\ new.plays[k].id = <<Connection(s).passes, FirstOf(PlaysOf[new.events][k])>>
     /\ ~new.plays[k].published
Follows(s, d, new) ==
  /\ Documented(new)
  /\ \A k \in DOMAIN new.plays : PlayFollows(s, d, new, k)
  /\ \A k \in DOMAIN d.plays : d.plays[k].published =>
       k \in DOMAIN new.plays /\ new.plays[k].published /\ new.plays[k].id = d.plays[k].id

\* A session has as many plays as scrobbles at most, and each begins with one of them.
LEMMA PlaysHaveFirsts ==
  ASSUME NEW E \in SUBSET Event
  PROVE  /\ PlaysOf[E] \in Seq(PlayRecord) /\ Len(PlaysOf[E]) \in Nat /\ Len(PlaysOf[E]) <= Cardinality(E)
         /\ DOMAIN PlaysOf[E] = 1 .. Len(PlaysOf[E])
         /\ \A k \in DOMAIN PlaysOf[E] :
              FirstOf(PlaysOf[E][k]) \in E /\ FirstOf(PlaysOf[E][k]) \in CreditedTo(PlaysOf[E][k])
         /\ \A k, l \in DOMAIN PlaysOf[E] : FirstOf(PlaysOf[E][k]) = FirstOf(PlaysOf[E][l]) => k = l
<1>1. /\ PlaysOf[E] \in Seq(PlayRecord) /\ Len(PlaysOf[E]) <= Cardinality(E)
      /\ \A k \in DOMAIN PlaysOf[E] : FinePlay(PlaysOf[E][k], E)
      /\ \A k, l \in DOMAIN PlaysOf[E] : k # l => CreditedTo(PlaysOf[E][k]) \cap CreditedTo(PlaysOf[E][l]) = {}
  BY PlaysAreFine DEF FinePlays
<1>2. Len(PlaysOf[E]) \in Nat /\ DOMAIN PlaysOf[E] = 1 .. Len(PlaysOf[E])
  BY <1>1, LenProperties
<1>3. ASSUME NEW play, FinePlay(play, E)
      PROVE  FirstOf(play) \in CreditedTo(play) /\ CreditedTo(play) \subseteq E
  <2>1. play.credited \in Seq(Event) /\ play.credited # <<>> /\ CreditedTo(play) \subseteq E
    BY <1>3 DEF FinePlay, PlayRecord
  <2>2. Len(play.credited) \in Nat /\ DOMAIN play.credited = 1 .. Len(play.credited) /\ Len(play.credited) # 0
    BY <2>1, LenProperties, EmptySeq
  <2>3. 1 \in DOMAIN play.credited
    BY <2>2
  <2> QED BY <2>1, <2>3 DEF FirstOf, CreditedTo
<1>4. \A k \in DOMAIN PlaysOf[E] :
        FirstOf(PlaysOf[E][k]) \in E /\ FirstOf(PlaysOf[E][k]) \in CreditedTo(PlaysOf[E][k])
  BY <1>1, <1>3
<1>5. ASSUME NEW k \in DOMAIN PlaysOf[E], NEW l \in DOMAIN PlaysOf[E], k # l
      PROVE  FirstOf(PlaysOf[E][k]) # FirstOf(PlaysOf[E][l])
  BY <1>1, <1>4, <1>5
<1> QED BY <1>1, <1>2, <1>4, <1>5

\* A detection has no more plays than there are scrobbles.
LEMMA PlaysAreFew ==
  ASSUME NEW d, Documented(d), NEW k \in DOMAIN d.plays
  PROVE  /\ d.events \in SUBSET Event /\ k \in DOMAIN PlaysOf[d.events] /\ k \in 1 .. Cardinality(Event)
         /\ d.plays[k] \in PlayStates
<1>1. /\ Len(d.plays) = Len(PlaysOf[d.events])
      /\ d.plays \in Seq(PlayStates) /\ d.events \in SUBSET Event
  BY DEF Documented, DetectionRecords
<1>2. k \in 1 .. Len(d.plays) /\ d.plays[k] \in PlayStates
  BY <1>1, LenProperties, ElementOfSeq
<1>3. k \in DOMAIN PlaysOf[d.events] /\ Len(PlaysOf[d.events]) \in Nat
      /\ Len(PlaysOf[d.events]) <= Cardinality(d.events)
  BY <1>1, <1>2, PlaysHaveFirsts
<1>4. k \in 1 .. Cardinality(Event)
  BY <1>1, <1>2, <1>3, EventsAreFinite
<1> QED BY <1>1, <1>2, <1>3, <1>4

\* An empty slot is a detection of nothing.
LEMMA NothingIsDocumented ==
  /\ Documented(NoDetection) /\ NoDetection.events = {} /\ DOMAIN NoDetection.plays = {}
<1>1. /\ NoDetection.events = {} /\ NoDetection.plays = <<>> /\ NoDetection.baseline = 0
      /\ NoDetection.held = FALSE
  BY DEF NoDetection
<1>2. <<>> \in Seq(PlayStates) /\ Len(<<>>) = 0 /\ DOMAIN <<>> = {}
  BY EmptySeq
<1>3. NoDetection \in DetectionRecords
  BY <1>2 DEF NoDetection, DetectionRecords
<1>4. Len(PlaysOf[{}]) = 0
  <2>1. {} \in SUBSET Event /\ Cardinality({}) = 0
    BY FS_EmptySet
  <2>2. Len(PlaysOf[{}]) \in Nat /\ Len(PlaysOf[{}]) <= 0
    BY <2>1, PlaysHaveFirsts
  <2> QED BY <2>2
<1> QED BY <1>1, <1>2, <1>3, <1>4 DEF Documented

\* detectionDocument: the detection of a session in the place of another.
LEMMA DocumentFollows ==
  ASSUME NEW s, Connection(s).passes \in Nat, s[CatalogDoc].baseline \in {0, 1},
         NEW d, Documented(d), NEW f \in SUBSET Event, PublishedPlays(d) = {} \/ Preserves(d, f)
  PROVE  Follows(s, d, Document(s, d, f)) /\ Document(s, d, f).events = f
<1> DEFINE fresh == PlaysOf[f]
           before == PlaysOf[d.events]
           n == Connection(s).passes
           Had(i) == i \in DOMAIN d.plays
           Same(i) == Had(i) /\ FirstOf(before[i]) = FirstOf(fresh[i])
           Play(i) == [id |-> IF Had(i) THEN d.plays[i].id ELSE <<n, FirstOf(fresh[i])>>,
                       published |-> Had(i) /\ d.plays[i].published,
                       publication |-> IF Same(i) THEN d.plays[i].publication ELSE "none"]
           plays == [i \in DOMAIN fresh |-> Play(i)]
           new == [events |-> f, baseline |-> s[CatalogDoc].baseline, held |-> FALSE, plays |-> plays]
<1>1. Document(s, d, f) = new
  BY DEF Document
<1>2. /\ Len(fresh) \in Nat /\ DOMAIN fresh = 1 .. Len(fresh)
      /\ \A k \in DOMAIN fresh : FirstOf(fresh[k]) \in Event
  BY PlaysHaveFirsts
<1>3. d.plays \in Seq(PlayStates)
  BY DEF Documented, DetectionRecords
<1>4. \A k \in DOMAIN d.plays : d.plays[k] \in PlayStates
  BY <1>3, LenProperties, ElementOfSeq
<1> HIDE DEF fresh, before, n
<1>5. ASSUME NEW i \in DOMAIN fresh
      PROVE  Play(i) \in PlayStates
  <2> DEFINE publication == IF Same(i) THEN d.plays[i].publication ELSE "none"
             id == IF Had(i) THEN d.plays[i].id ELSE <<n, FirstOf(fresh[i])>>
             published == Had(i) /\ d.plays[i].published
  <2>1. id \in Nat \X Event
    BY <1>2, <1>4 DEF PlayStates, n
  <2>2. published \in BOOLEAN
    OBVIOUS
  <2>3. publication \in {"none", "published", "dismissed", "suppressed"} \cup Waiting
    BY <1>4 DEF PlayStates
  <2> HIDE DEF publication, id, published
  <2>4. [id |-> id, published |-> published, publication |-> publication] \in PlayStates
    BY <2>1, <2>2, <2>3 DEF PlayStates
  <2> QED BY <2>4 DEF id, published, publication
<1>6. \A i \in DOMAIN fresh : plays[i] = Play(i)
  OBVIOUS
<1>7. plays \in Seq(PlayStates) /\ Len(plays) = Len(fresh) /\ DOMAIN plays = DOMAIN fresh
  <2> HIDE DEF Play
  <2>1. plays \in [1 .. Len(fresh) -> PlayStates]
    BY <1>2, <1>5
  <2> HIDE DEF plays
  <2> QED BY <1>2, <2>1, LenProperties, SeqDef
<1>8. \A i \in DOMAIN fresh :
        /\ plays[i].id = IF Had(i) THEN d.plays[i].id ELSE <<n, FirstOf(fresh[i])>>
        /\ plays[i].published = (Had(i) /\ d.plays[i].published)
  BY <1>6
<1> HIDE DEF plays
<1>9. new \in DetectionRecords
  BY <1>7 DEF DetectionRecords
<1>10. new.events = f /\ new.plays = plays
  OBVIOUS
<1> HIDE DEF new
<1>11. ASSUME NEW k \in DOMAIN d.plays, d.plays[k].published
       PROVE  k \in DOMAIN fresh /\ Qualified(fresh[k])
  <2>1. k \in PublishedPlays(d)
    BY <1>11 DEF PublishedPlays
  <2> QED BY <2>1 DEF Preserves, fresh
<1>12. Documented(new)
  <2>1. \A k \in DOMAIN plays : plays[k].published => Qualified(fresh[k])
    BY <1>7, <1>8, <1>11
  <2> QED BY <1>7, <1>9, <1>10, <2>1 DEF Documented, fresh
<1>13. \A k \in DOMAIN plays : PlayFollows(s, d, new, k)
  <2>1. ASSUME NEW k \in DOMAIN plays
        PROVE  \/ k \in DOMAIN d.plays /\ plays[k].id = d.plays[k].id /\ plays[k].published = d.plays[k].published
               \/ plays[k].id = <<n, FirstOf(fresh[k])>> /\ ~plays[k].published
    <3>1. CASE Had(k)
      <4>1. d.plays[k].published \in BOOLEAN
        BY <1>4, <3>1 DEF PlayStates
      <4> QED BY <1>7, <1>8, <3>1, <4>1
    <3>2. CASE ~Had(k)
      BY <1>7, <1>8, <3>2
    <3> QED BY <3>1, <3>2
  <2> QED BY <1>10, <2>1 DEF PlayFollows, fresh, n
<1>14. \A k \in DOMAIN d.plays : d.plays[k].published =>
         k \in DOMAIN plays /\ plays[k].published /\ plays[k].id = d.plays[k].id
  BY <1>7, <1>8, <1>11
<1> QED BY <1>1, <1>10, <1>12, <1>13, <1>14 DEF Follows

\* planReconciliation: a detection with a published play is never replaced, and it is only
\* updated to a session that preserves what is published.
LEMMA TreatmentIsCareful ==
  ASSUME NEW s, NEW g
  PROVE  /\ Treatment(s, g) \in {"insert", "hold", "update", "replace"}
         /\ Treatment(s, g) = "insert" <=> g.stored = {}
         /\ Treatment(s, g) = "replace" => \A i \in g.stored : PublishedPlays(s[DetectionDoc(i)]) = {}
         /\ Treatment(s, g) = "update" =>
              /\ OneToOne(g)
              /\ \A i \in g.stored, f \in g.fresh :
                   PublishedPlays(s[DetectionDoc(i)]) = {} \/ Preserves(s[DetectionDoc(i)], f)
<1> DEFINE D == { s[DetectionDoc(i)] : i \in g.stored }
           frozen  == \E d \in D : d.baseline # s[CatalogDoc].baseline
           expired == \E d \in D : ~(d.events \subseteq Retained(s))
           fewer == HowMany(g.fresh) < HowMany({ d.events : d \in D })
           published == \E d \in D : PublishedPlays(d) # {}
           preserved == \A d \in D, f \in g.fresh : Preserves(d, f)
<1>1. Treatment(s, g) =
        CASE g.stored = {} -> "insert"
          [] g.stored # {} /\ (g.fresh = {} \/ frozen) -> "hold"
          [] OTHER ->
               IF published THEN IF OneToOne(g) /\ preserved THEN "update" ELSE "hold"
               ELSE IF expired /\ fewer THEN "hold"
               ELSE IF OneToOne(g) THEN "update" ELSE "replace"
  BY Zenon DEF Treatment
<1>2. ~published => \A i \in g.stored : PublishedPlays(s[DetectionDoc(i)]) = {}
  OBVIOUS
<1>3. preserved => \A i \in g.stored, f \in g.fresh : Preserves(s[DetectionDoc(i)], f)
  OBVIOUS
<1> HIDE DEF frozen, expired, fewer, published, preserved
<1>4. CASE g.stored = {}
  BY <1>1, <1>4
<1>5. CASE g.stored # {} /\ (g.fresh = {} \/ frozen)
  BY <1>1, <1>5
<1>6. CASE g.stored # {} /\ ~(g.fresh = {} \/ frozen)
  <2>1. Treatment(s, g) =
          IF published THEN IF OneToOne(g) /\ preserved THEN "update" ELSE "hold"
          ELSE IF expired /\ fewer THEN "hold"
          ELSE IF OneToOne(g) THEN "update" ELSE "replace"
    BY <1>1, <1>6
  <2> QED BY <1>2, <1>3, <1>6, <2>1
<1> QED BY <1>4, <1>5, <1>6

\* The groups with their treatments: those that two slots or sessions are in share nothing,
\* and every stored detection is in one.
LEMMA TreatedAreApart ==
  ASSUME NEW s
  PROVE  /\ \A g \in Treated(s) :
              /\ g.stored \subseteq Stored(s) /\ g.fresh \subseteq FreshSessions(s)
              /\ g.as \in {"insert", "hold", "update", "replace"}
              /\ g.as = "insert" <=> g.stored = {}
              /\ g.as = "replace" => \A i \in g.stored : PublishedPlays(s[DetectionDoc(i)]) = {}
              /\ g.as = "update" => \E i \in g.stored, f \in g.fresh :
                   /\ g.stored = {i} /\ g.fresh = {f}
                   /\ PublishedPlays(s[DetectionDoc(i)]) = {} \/ Preserves(s[DetectionDoc(i)], f)
         /\ \A g, h \in Treated(s) : g # h =>
              /\ g.stored \cap h.stored = {} /\ g.fresh \cap h.fresh = {}
              /\ EventsOf(s, g) \cap EventsOf(s, h) = {}
         /\ \A i \in Stored(s) : \E g \in Treated(s) : i \in g.stored
<1> DEFINE Of(g) == [stored |-> g.stored, fresh |-> g.fresh, as |-> Treatment(s, g)]
<1>1. \A g \in Treated(s) : \E h \in Groups(s) : g = Of(h)
  BY DEF Treated
<1>2. \A g \in Groups(s) : Of(g) \in Treated(s)
  BY DEF Treated
<1>3. \A g : /\ Of(g).stored = g.stored /\ Of(g).fresh = g.fresh /\ Of(g).as = Treatment(s, g)
             /\ EventsOf(s, Of(g)) = EventsOf(s, g)
  BY DEF EventsOf
<1> HIDE DEF Of
<1>4. ASSUME NEW g \in Treated(s)
      PROVE  /\ g.stored \subseteq Stored(s) /\ g.fresh \subseteq FreshSessions(s)
             /\ g.as \in {"insert", "hold", "update", "replace"}
             /\ g.as = "insert" <=> g.stored = {}
             /\ g.as = "replace" => \A i \in g.stored : PublishedPlays(s[DetectionDoc(i)]) = {}
             /\ g.as = "update" => \E i \in g.stored, f \in g.fresh :
                  /\ g.stored = {i} /\ g.fresh = {f}
                  /\ PublishedPlays(s[DetectionDoc(i)]) = {} \/ Preserves(s[DetectionDoc(i)], f)
  <2>1. PICK h \in Groups(s) : g = Of(h)
    BY <1>1
  <2>2. g.stored = h.stored /\ g.fresh = h.fresh /\ g.as = Treatment(s, h)
    BY <1>3, <2>1
  <2>3. h.stored \subseteq Stored(s) /\ h.fresh \subseteq FreshSessions(s)
    BY GroupsAreApart
  <2> QED BY <2>2, <2>3, TreatmentIsCareful DEF OneToOne
<1>5. ASSUME NEW g \in Treated(s), NEW h \in Treated(s), g # h
      PROVE  /\ g.stored \cap h.stored = {} /\ g.fresh \cap h.fresh = {}
             /\ EventsOf(s, g) \cap EventsOf(s, h) = {}
  <2>1. PICK a \in Groups(s) : g = Of(a)
    BY <1>1
  <2>2. PICK b \in Groups(s) : h = Of(b)
    BY <1>1
  <2>3. a # b
    BY <1>5, <2>1, <2>2
  <2> QED BY <1>3, <2>1, <2>2, <2>3, GroupsAreApart
<1>6. \A i \in Stored(s) : \E g \in Treated(s) : i \in g.stored
  BY <1>2, <1>3, StoredHaveGroups
<1> QED BY <1>4, <1>5, <1>6

\* A fresh session is of scrobbles in evidence, and no two share one.
LEMMA FreshAreApart ==
  ASSUME NEW s, s[EvidenceDoc] \in SUBSET Event
  PROVE  /\ FreshSessions(s) \subseteq SUBSET s[EvidenceDoc]
         /\ \A f, h \in FreshSessions(s) : f # h => f \cap h = {}
<1>1. Retained(s) \in SUBSET Event /\ Retained(s) \subseteq s[EvidenceDoc]
  BY DEF Retained
<1> QED BY <1>1, SessionsAreApart DEF FreshSessions

\* A slot that is kept holds its detection, or the one session of its group.
LEMMA KeptFollow ==
  ASSUME NEW s, SoundSite(s), NEW i \in Kept(Treated(s))
  PROVE  \E g \in Treated(s) :
           LET d == s[DetectionDoc(i)]  new == Keep(s, Treated(s), i)
           IN  /\ i \in g.stored /\ g.as \in {"hold", "update"} /\ Follows(s, d, new)
               /\ g.as = "hold" => new.events = d.events
               /\ g.as = "update" => g.stored = {i} /\ g.fresh = {new.events}
<1> DEFINE groups == Treated(s)
           d == s[DetectionDoc(i)]
           g == CHOOSE h \in groups : i \in h.stored
           new == Keep(s, groups, i)
<1>1. PICK h \in groups : i \in h.stored /\ h.as # "replace"
  BY DEF Kept
<1>2. g \in groups /\ i \in g.stored /\ g.as # "replace"
  <2>1. g \in groups /\ i \in g.stored
    BY <1>1
  <2> HIDE DEF g
  <2>2. g = h
    BY <1>1, <2>1, TreatedAreApart
  <2> QED BY <1>1, <2>1, <2>2
<1>3. i \in Stored(s) /\ g.as \in {"hold", "update"}
  <2> HIDE DEF g
  <2> QED BY <1>2, TreatedAreApart
<1>4. Documented(d) /\ d \in DetectionRecords /\ i \in Slots
  BY <1>3 DEF SoundSite, SoundDetection, Documented, Stored
<1>5. new = IF g.as = "hold" THEN [d EXCEPT !.held = TRUE] ELSE Document(s, d, CHOOSE f \in g.fresh : TRUE)
  BY Zenon DEF Keep
<1> HIDE DEF g, new, d
<1>6. CASE g.as = "hold"
  <2>1. new = [d EXCEPT !.held = TRUE]
    BY <1>5, <1>6
  <2>2. new \in DetectionRecords /\ new.events = d.events /\ new.plays = d.plays
    BY <1>4, <2>1 DEF DetectionRecords
  <2>3. Documented(new)
    BY <1>4, <2>2 DEF Documented
  <2>4. Follows(s, d, new)
    BY <2>2, <2>3 DEF Follows, PlayFollows
  <2> QED BY <1>2, <1>3, <1>6, <2>2, <2>4 DEF new, d
<1>7. CASE g.as = "update"
  <2>1. PICK f \in g.fresh : /\ g.stored = {i} /\ g.fresh = {f}
                             /\ PublishedPlays(d) = {} \/ Preserves(d, f)
    BY <1>2, <1>7, TreatedAreApart DEF d
  <2>2. new = Document(s, d, f)
    <3>1. (CHOOSE x \in g.fresh : TRUE) = f
      BY <2>1
    <3> QED BY <1>5, <1>7, <3>1
  <2>3. f \in SUBSET Event
    BY <1>2, TreatedAreApart, FreshAreApart DEF SoundSite
  <2>4. Connection(s).passes \in Nat /\ s[CatalogDoc].baseline \in {0, 1}
    BY DEF SoundSite, Connection
  <2>5. Follows(s, d, new) /\ new.events = f
    BY <1>4, <2>1, <2>2, <2>3, <2>4, DocumentFollows
  <2> QED BY <1>2, <1>3, <1>7, <2>1, <2>5 DEF new, d
<1> QED BY <1>3, <1>6, <1>7

\* A slot that is not kept is empty, or has a session that is added; nothing that was in it
\* was published.
LEMMA AddedFollow ==
  ASSUME NEW s, SoundSite(s), NEW i \in Slots \ Kept(Treated(s)), NEW place
  PROVE  LET added == Added(Treated(s))
             new == Add(s, added, place, i)
         IN  /\ Follows(s, s[DetectionDoc(i)], new)
             /\ new.events = {} \/ \E f \in added : place[f] = i /\ new.events = f
<1> DEFINE groups == Treated(s)
           added == Added(groups)
           d == s[DetectionDoc(i)]
           new == Add(s, added, place, i)
           here == { f \in added : place[f] = i }
<1>1. ASSUME NEW k \in DOMAIN d.plays
      PROVE  ~d.plays[k].published
  <2>1. CASE i \in Stored(s)
    <3>1. PICK g \in groups : i \in g.stored
      BY <2>1, TreatedAreApart
    <3>2. g.as = "replace"
      BY <3>1 DEF Kept
    <3>3. PublishedPlays(d) = {}
      BY <3>1, <3>2, TreatedAreApart
    <3> QED BY <1>1, <3>3 DEF PublishedPlays
  <2>2. CASE i \notin Stored(s)
    <3>1. d = NoDetection
      BY <2>2 DEF Stored
    <3> QED BY <1>1, <3>1, NothingIsDocumented
  <2> QED BY <2>1, <2>2
<1>2. new = IF here = {} THEN NoDetection ELSE Document(s, NoDetection, CHOOSE f \in here : TRUE)
  BY Zenon DEF Add
<1> HIDE DEF new, d
<1>3. CASE here = {}
  <2>1. Documented(new) /\ new.events = {} /\ DOMAIN new.plays = {}
    BY <1>2, <1>3, NothingIsDocumented
  <2>2. Follows(s, d, new)
    BY <1>1, <2>1 DEF Follows
  <2> QED BY <2>1, <2>2 DEF new, d
<1>4. CASE here # {}
  <2>1. PICK f \in here : new = Document(s, NoDetection, f)
    <3>1. (CHOOSE f \in here : TRUE) \in here
      BY <1>4
    <3> QED BY <1>2, <1>4, <3>1
  <2>2. f \in SUBSET Event
    <3>1. PICK g \in groups : f \in g.fresh
      BY DEF Added
    <3> QED BY <3>1, TreatedAreApart, FreshAreApart DEF SoundSite
  <2>3. Connection(s).passes \in Nat /\ s[CatalogDoc].baseline \in {0, 1}
    BY DEF SoundSite, Connection
  <2>4. PublishedPlays(NoDetection) = {}
    BY NothingIsDocumented DEF PublishedPlays
  <2>5. Follows(s, NoDetection, new) /\ new.events = f
    BY <2>1, <2>2, <2>3, <2>4, NothingIsDocumented, DocumentFollows
  <2>6. \A k \in DOMAIN new.plays : PlayFollows(s, d, new, k)
    BY <2>5, NothingIsDocumented DEF Follows, PlayFollows
  <2>7. Follows(s, d, new)
    BY <1>1, <2>5, <2>6 DEF Follows
  <2> QED BY <2>5, <2>7 DEF new, d
<1> QED BY <1>3, <1>4

\* reconcileConnection: every slot's next detection follows the one that was there, and they
\* share no event.
LEMMA ReconciledFollows ==
  ASSUME NEW s, SoundSite(s)
  PROVE  /\ \A i \in Slots : /\ Follows(s, s[DetectionDoc(i)], Reconciled(s)[i])
                             /\ Reconciled(s)[i].events \subseteq s[EvidenceDoc]
         /\ \A i, j \in Slots : i # j => Reconciled(s)[i].events \cap Reconciled(s)[j].events = {}
<1> DEFINE groups == Treated(s)
           added == Added(groups)
           kept == Kept(groups)
           place == CHOOSE p \in [added -> Slots \ kept] : \A f, h \in added : p[f] = p[h] => f = h
           R == Reconciled(s)
           D(i) == s[DetectionDoc(i)]
<1>1. \A i \in Slots : R[i] = IF i \in kept THEN Keep(s, groups, i) ELSE Add(s, added, place, i)
  BY Zenon DEF Reconciled
<1> HIDE DEF R, place
<1>2. s[EvidenceDoc] \in SUBSET Event
  BY DEF SoundSite
<1>3. ASSUME NEW i \in Slots, i \in kept
      PROVE  \E g \in groups :
               /\ i \in g.stored /\ g.as \in {"hold", "update"} /\ Follows(s, D(i), R[i])
               /\ g.as = "hold" => R[i].events = D(i).events
               /\ g.as = "update" => g.stored = {i} /\ g.fresh = {R[i].events}
  BY <1>1, <1>3, KeptFollow
<1>4. ASSUME NEW i \in Slots, i \notin kept
      PROVE  /\ Follows(s, D(i), R[i])
             /\ R[i].events = {} \/ \E f \in added : place[f] = i /\ R[i].events = f
  BY <1>1, <1>4, AddedFollow
<1>5. ASSUME NEW i \in Slots
      PROVE  D(i).events \subseteq s[EvidenceDoc]
  BY DEF SoundSite, WellArranged, Outlines, Outline
<1>6. ASSUME NEW f \in added
      PROVE  /\ \E g \in groups : f \in g.fresh /\ g.as \in {"insert", "replace"}
             /\ f \in FreshSessions(s) /\ f \subseteq s[EvidenceDoc]
  <2>1. PICK g \in groups : f \in g.fresh /\ g.as \in {"insert", "replace"}
    BY DEF Added
  <2> QED BY <1>2, <2>1, TreatedAreApart, FreshAreApart
<1>7. ASSUME NEW i \in Slots
      PROVE  Follows(s, D(i), R[i]) /\ R[i].events \subseteq s[EvidenceDoc]
  <2>1. CASE i \in kept
    <3>1. PICK g \in groups :
            /\ i \in g.stored /\ g.as \in {"hold", "update"} /\ Follows(s, D(i), R[i])
            /\ g.as = "hold" => R[i].events = D(i).events
            /\ g.as = "update" => g.stored = {i} /\ g.fresh = {R[i].events}
      BY <1>3, <2>1
    <3>2. CASE g.as = "hold"
      BY <1>5, <3>1, <3>2
    <3>3. CASE g.as = "update"
      <4>1. R[i].events \in FreshSessions(s)
        BY <3>1, <3>3, TreatedAreApart
      <4> QED BY <1>2, <3>1, <4>1, FreshAreApart
    <3> QED BY <3>1, <3>2, <3>3
  <2>2. CASE i \notin kept
    BY <1>4, <1>6, <2>2
  <2> QED BY <2>1, <2>2
<1>8. ASSUME NEW i \in Slots, NEW j \in Slots, i # j, i \in kept
      PROVE  R[i].events \cap R[j].events = {}
  <2>1. PICK g \in groups :
          /\ i \in g.stored /\ g.as \in {"hold", "update"}
          /\ g.as = "hold" => R[i].events = D(i).events
          /\ g.as = "update" => g.stored = {i} /\ g.fresh = {R[i].events}
    BY <1>3, <1>8
  <2>2. R[i].events \subseteq EventsOf(s, g)
    BY <2>1 DEF EventsOf
  <2>3. CASE j \in kept
    <3>1. PICK h \in groups :
            /\ j \in h.stored /\ h.as \in {"hold", "update"}
            /\ h.as = "hold" => R[j].events = D(j).events
            /\ h.as = "update" => h.stored = {j} /\ h.fresh = {R[j].events}
      BY <1>3, <2>3
    <3>2. R[j].events \subseteq EventsOf(s, h)
      BY <3>1 DEF EventsOf
    <3>3. CASE g # h
      <4>1. EventsOf(s, g) \cap EventsOf(s, h) = {}
        BY <3>3, TreatedAreApart
      <4> QED BY <2>2, <3>2, <4>1
    <3>4. CASE g = h
      <4>1. g.as = "hold"
        BY <1>8, <2>1, <3>1, <3>4
      <4>2. D(i).events \cap D(j).events = {}
        BY <1>8 DEF SoundSite, WellArranged, Outlines, Outline
      <4> QED BY <2>1, <3>1, <3>4, <4>1, <4>2
    <3> QED BY <3>3, <3>4
  <2>4. CASE j \notin kept
    <3>1. CASE R[j].events = {}
      BY <3>1
    <3>2. CASE R[j].events # {}
      <4>1. R[j].events \in added
        BY <1>4, <2>4, <3>2
      <4>2. PICK h \in groups : R[j].events \in h.fresh /\ h.as \in {"insert", "replace"}
        BY <1>6, <4>1
      <4>3. R[j].events \subseteq EventsOf(s, h)
        BY <4>2 DEF EventsOf
      <4>4. EventsOf(s, g) \cap EventsOf(s, h) = {}
        BY <2>1, <4>2, TreatedAreApart
      <4> QED BY <2>2, <4>3, <4>4
    <3> QED BY <3>1, <3>2
  <2> QED BY <2>3, <2>4
<1>9. ASSUME NEW i \in Slots, NEW j \in Slots, i # j, i \notin kept, j \notin kept
      PROVE  R[i].events \cap R[j].events = {}
  <2>1. CASE R[i].events = {} \/ R[j].events = {}
    BY <2>1
  <2>2. CASE R[i].events # {} /\ R[j].events # {}
    <3>1. PICK f \in added : place[f] = i /\ R[i].events = f
      BY <1>4, <1>9, <2>2
    <3>2. PICK h \in added : place[h] = j /\ R[j].events = h
      BY <1>4, <1>9, <2>2
    <3>3. f # h
      BY <1>9, <3>1, <3>2
    <3>4. f \cap h = {}
      BY <1>2, <1>6, <3>3, FreshAreApart
    <3> QED BY <3>1, <3>2, <3>4
  <2> QED BY <2>1, <2>2
<1>10. ASSUME NEW i \in Slots, NEW j \in Slots, i # j
       PROVE  R[i].events \cap R[j].events = {}
  BY <1>8, <1>9, <1>10
<1> QED BY <1>7, <1>10 DEF R

(***************************************************************************)
(* A detect pass                                                           *)
(***************************************************************************)
\* What a pass decides of a detection that reconciliation has written.
Decide(s, d) == [d EXCEPT !.plays = [k \in DOMAIN d.plays |-> NextPlay(s, d, k)]]

\* nextPlayState: only a play that qualifies is published, or offered to its owner.
LEMMA NextPublicationIsSound ==
  ASSUME NEW s, NEW d, NEW p, NEW play, ~p.published
  PROVE  LET next == NextPublication(s, d, p, play)
         IN  /\ next \in {"none", "published", "dismissed", "suppressed"} \cup Waiting
             /\ next = "published" <=> Publishes(s, d, p, play)
             /\ next \in Waiting \cup {"published"} => Qualified(play)
<1> DEFINE prior == PriorReceipts(s, p, play)
           nearby == NearbyEntries(s, play)
           dismissed == \E r \in prior : r.outcome = "dismissed"
           next == NextPublication(s, d, p, play)
<1>1. Eligible(s, d, p, play) => Enabled(s) /\ Qualified(play) /\ prior = {}
  BY DEF Eligible
<1>2. Asks(s, d, p, play) => Eligible(s, d, p, play)
  BY DEF Asks
<1>3. Publishes(s, d, p, play) => Asks(s, d, p, play) /\ nearby = {}
  BY DEF Publishes
<1>4. next =
        CASE ~Enabled(s) \/ ~Qualified(play) -> "none"
          [] Enabled(s) /\ Qualified(play) /\ prior # {} -> IF dismissed THEN "dismissed" ELSE "suppressed"
          [] Publishes(s, d, p, play) -> "published"
          [] Eligible(s, d, p, play) /\ ~Asks(s, d, p, play) -> "needs_confirmation"
          [] Asks(s, d, p, play) /\ nearby # {} -> "manual_duplicate"
          [] OTHER -> "none"
  BY Zenon DEF NextPublication
<1> HIDE DEF prior, nearby, dismissed, next
<1>5. CASE ~Enabled(s) \/ ~Qualified(play)
  <2>1. next = "none"
    BY <1>1, <1>2, <1>3, <1>4, <1>5
  <2> QED BY <1>1, <1>2, <1>3, <1>5, <2>1 DEF next, Waiting
<1>6. CASE Enabled(s) /\ Qualified(play) /\ prior # {}
  <2>1. next \in {"dismissed", "suppressed"}
    BY <1>1, <1>2, <1>3, <1>4, <1>6
  <2> QED BY <1>1, <1>2, <1>3, <1>6, <2>1 DEF next, Waiting
<1>7. CASE Enabled(s) /\ Qualified(play) /\ prior = {}
  <2>1. CASE Publishes(s, d, p, play)
    <3>1. next = "published"
      BY <1>2, <1>3, <1>4, <1>7, <2>1
    <3> QED BY <1>7, <2>1, <3>1 DEF next
  <2>2. CASE ~Publishes(s, d, p, play)
    <3>1. next \in {"none", "needs_confirmation", "manual_duplicate"}
      BY <1>2, <1>4, <1>7, <2>2
    <3> QED BY <1>7, <2>2, <3>1 DEF next, Waiting
  <2> QED BY <2>1, <2>2
<1> QED BY <1>5, <1>6, <1>7

\* So the detection is sound, and only the publication of its plays is new.
LEMMA DecideIsSound ==
  ASSUME NEW s, NEW d, Documented(d)
  PROVE  /\ SoundDetection(Decide(s, d)) /\ Outline(Decide(s, d)) = Outline(d)
         /\ Decide(s, d).events = d.events /\ DOMAIN Decide(s, d).plays = DOMAIN d.plays
         /\ \A k \in DOMAIN d.plays :
              /\ Decide(s, d).plays[k].id = d.plays[k].id
              /\ Decide(s, d).plays[k].published <=>
                   d.plays[k].published \/ Publishes(s, d, d.plays[k], PlaysOf[d.events][k])
<1> DEFINE Play(k) == PlaysOf[d.events][k]
           new == Decide(s, d)
           plays == [k \in DOMAIN d.plays |-> NextPlay(s, d, k)]
<1>1. /\ d \in DetectionRecords /\ d.plays \in Seq(PlayStates)
      /\ Len(d.plays) \in Nat /\ DOMAIN d.plays = 1 .. Len(d.plays)
      /\ \A k \in DOMAIN d.plays : d.plays[k] \in PlayStates
      /\ \A k \in DOMAIN d.plays : d.plays[k].published => Qualified(Play(k))
  BY LenProperties, ElementOfSeq DEF Documented, DetectionRecords
<1>2. ASSUME NEW k \in DOMAIN d.plays
      PROVE  /\ NextPlay(s, d, k) \in PlayStates
             /\ NextPlay(s, d, k).id = d.plays[k].id
             /\ NextPlay(s, d, k).published <=> d.plays[k].published \/ Publishes(s, d, d.plays[k], Play(k))
             /\ NextPlay(s, d, k).published \/ NextPlay(s, d, k).publication \in Waiting => Qualified(Play(k))
  <2> DEFINE p == d.plays[k]
             next == NextPublication(s, d, p, Play(k))
  <2>1. NextPlay(s, d, k) = IF p.published THEN p ELSE [p EXCEPT !.publication = next, !.published = (next = "published")]
    BY Zenon DEF NextPlay
  <2>2. p \in PlayStates /\ (p.published => Qualified(Play(k)))
    BY <1>1
  <2>3. ~p.published =>
          /\ next \in {"none", "published", "dismissed", "suppressed"} \cup Waiting
          /\ next = "published" <=> Publishes(s, d, p, Play(k))
          /\ next \in Waiting \cup {"published"} => Qualified(Play(k))
    BY NextPublicationIsSound
  <2> HIDE DEF p, next, Play
  <2>4. CASE p.published
    BY <2>1, <2>2, <2>4 DEF p
  <2>5. CASE ~p.published
    <3> DEFINE q == [p EXCEPT !.publication = next, !.published = (next = "published")]
    <3>1. /\ q \in PlayStates /\ q.id = p.id /\ q.publication = next
          /\ q.published = (next = "published")
      BY <2>2, <2>3, <2>5 DEF PlayStates
    <3>2. NextPlay(s, d, k) = q
      BY <2>1, <2>5
    <3> HIDE DEF q
    <3> QED BY <2>3, <2>5, <3>1, <3>2 DEF p
  <2> QED BY <2>4, <2>5
<1>3. /\ new = [d EXCEPT !.plays = plays] /\ DOMAIN plays = DOMAIN d.plays
      /\ \A k \in DOMAIN d.plays : plays[k] = NextPlay(s, d, k)
  BY DEF Decide
<1>4. plays \in Seq(PlayStates) /\ Len(plays) = Len(d.plays)
  <2>1. plays \in [1 .. Len(d.plays) -> PlayStates]
    BY <1>1, <1>2
  <2> HIDE DEF plays
  <2> QED BY <1>1, <2>1, LenProperties, SeqDef
<1> HIDE DEF plays, new
<1>5. new \in DetectionRecords /\ new.events = d.events /\ new.plays = plays
  BY <1>1, <1>3, <1>4 DEF DetectionRecords
<1>6. /\ Documented(new)
      /\ \A k \in DOMAIN new.plays : new.plays[k].publication \in Waiting => Qualified(PlaysOf[new.events][k])
  <2>1. Len(new.plays) = Len(PlaysOf[new.events])
    BY <1>4, <1>5 DEF Documented
  <2>2. \A k \in DOMAIN new.plays :
          new.plays[k].published \/ new.plays[k].publication \in Waiting => Qualified(PlaysOf[new.events][k])
    BY <1>2, <1>3, <1>5
  <2> QED BY <1>5, <2>1, <2>2 DEF Documented
<1>7. Outline(new) = Outline(d)
  <2>1. [k \in DOMAIN new.plays |-> new.plays[k].id] = [k \in DOMAIN d.plays |-> d.plays[k].id]
    BY <1>2, <1>3, <1>5
  <2> QED BY <1>5, <2>1 DEF Outline
<1>8. /\ new.events = d.events /\ DOMAIN new.plays = DOMAIN d.plays
      /\ \A k \in DOMAIN d.plays :
           /\ new.plays[k].id = d.plays[k].id
           /\ new.plays[k].published <=> d.plays[k].published \/ Publishes(s, d, d.plays[k], Play(k))
  BY <1>2, <1>3, <1>5
<1> QED BY <1>6, <1>7, <1>8 DEF SoundDetection, new

\* More of the documents that are not each other.
LEMMA OwnerDiffers ==
  /\ ReceiptsDoc("owner") \notin Detections \cup Entries /\ ReceiptsDoc("owner") # ConnectionDoc
  /\ \A d \in {EvidenceDoc, CatalogDoc, ClockDoc, FenceDoc} : d # ConnectionDoc /\ d # ReceiptsDoc("owner")
  /\ EvidenceDoc # CatalogDoc /\ EvidenceDoc # ClockDoc /\ CatalogDoc # ClockDoc
  /\ \A i, j : DetectionDoc(i) = DetectionDoc(j) => i = j
<1>1. \A x, y, z : <<x, y>> # <<z>>
  OBVIOUS
<1>2. \A u, v, x, y : <<u, v>> = <<x, y>> => u = x /\ v = y
  OBVIOUS
<1>3. \A x, y : <<x>> = <<y>> => x = y
  OBVIOUS
<1> QED BY <1>1, <1>2, <1>3 DEF ReceiptsDoc, Detections, DetectionDoc, Entries, ManualDoc, ConnectionDoc,
              EvidenceDoc, CatalogDoc, ClockDoc, FenceDoc

\* publishConnection: what a pass writes.
LEMMA PassWrites ==
  ASSUME NEW s, DOMAIN s = DiaryDocs, s[ConnectionDoc] \in [state : {"active", "paused"}, enabledAt : Nat, passes : Nat],
         NEW D
  PROVE  LET t == DetectPass(s, D)
             n == Connection(s).passes
         IN  /\ DOMAIN t = DOMAIN s
             /\ \A i \in Slots : t[DetectionDoc(i)] = Decide(s, D[i])
             /\ t[ReceiptsDoc("worker")] = s[ReceiptsDoc("worker")] \cup
                  { Receipt(D[x[1]].plays[x[2]], PlaysOf[D[x[1]].events][x[2]], "published") :
                      x \in PlaysWhere(s, D, Publishes) }
             /\ \A d \in {EvidenceDoc, CatalogDoc, ClockDoc, FenceDoc, ReceiptsDoc("owner")} : t[d] = s[d]
             /\ t[ConnectionDoc] \in [state : {"active", "paused"}, enabledAt : Nat, passes : Nat]
             /\ Connection(t).passes = IF PlaysWhere(s, D, Minted) # {} THEN n + 1 ELSE n
<1> DEFINE t == DetectPass(s, D)
           c == s[ConnectionDoc]
           receipts == { Receipt(D[x[1]].plays[x[2]], PlaysOf[D[x[1]].events][x[2]], "published") :
                           x \in PlaysWhere(s, D, Publishes) }
           minted == PlaysWhere(s, D, Minted) # {}
<1>1. t = [d \in DOMAIN s |->
             IF d \in Detections THEN Decide(s, D[d[2]])
             ELSE IF d = ReceiptsDoc("worker") THEN s[d] \cup receipts
             ELSE IF d = ConnectionDoc /\ minted THEN [s[d] EXCEPT !.passes = @ + 1]
             ELSE s[d]]
  BY Zenon DEF DetectPass, Decide
<1> HIDE DEF t, receipts, minted
<1>2. /\ ConnectionDoc \in DOMAIN s /\ ReceiptsDoc("worker") \in DOMAIN s
      /\ ConnectionDoc \notin Detections /\ ConnectionDoc # ReceiptsDoc("worker")
      /\ ReceiptsDoc("worker") \notin Detections
  BY DocumentsExist, DocumentsDiffer
<1>3. \A i \in Slots : t[DetectionDoc(i)] = Decide(s, D[i])
  <2> SUFFICES ASSUME NEW i \in Slots PROVE t[DetectionDoc(i)] = Decide(s, D[i])
    OBVIOUS
  <2>1. DetectionDoc(i) \in DOMAIN s /\ DetectionDoc(i) \in Detections /\ DetectionDoc(i)[2] = i
    BY DocumentsExist DEF DetectionDoc
  <2> QED BY <1>1, <2>1
<1>4. t[ReceiptsDoc("worker")] = s[ReceiptsDoc("worker")] \cup receipts
  BY <1>1, <1>2
<1>5. ASSUME NEW d \in {EvidenceDoc, CatalogDoc, ClockDoc, FenceDoc, ReceiptsDoc("owner")}
      PROVE  t[d] = s[d]
  <2>1. d \in DOMAIN s
    BY DocumentsExist
  <2>2. d \notin Detections
    BY DocumentsDiffer, OwnerDiffers
  <2>3. d # ReceiptsDoc("worker") /\ d # ConnectionDoc
    BY DocumentsDiffer, OwnerDiffers
  <2> QED BY <1>1, <2>1, <2>2, <2>3
<1>6. t[ConnectionDoc] = IF minted THEN [c EXCEPT !.passes = @ + 1] ELSE c
  BY <1>1, <1>2
<1>7. /\ t[ConnectionDoc] \in [state : {"active", "paused"}, enabledAt : Nat, passes : Nat]
      /\ t[ConnectionDoc].passes = IF minted THEN c.passes + 1 ELSE c.passes
  BY <1>6
<1>8. DOMAIN t = DOMAIN s
  BY <1>1
<1> QED BY <1>3, <1>4, <1>5, <1>7, <1>8 DEF Connection, t, receipts, minted

\* What well arranged outlines say of the detections.
LEMMA ArrangedDetections ==
  ASSUME NEW s, NEW E, NEW n, WellArranged(Outlines(s), E, n)
  PROVE  /\ \A i \in Slots : s[DetectionDoc(i)].events \subseteq E
         /\ \A i, j \in Slots : i # j => s[DetectionDoc(i)].events \cap s[DetectionDoc(j)].events = {}
         /\ \A i \in Slots : \A k \in DOMAIN s[DetectionDoc(i)].plays : s[DetectionDoc(i)].plays[k].id[1] < n
         /\ \A i, j \in Slots :
              \A k \in DOMAIN s[DetectionDoc(i)].plays, l \in DOMAIN s[DetectionDoc(j)].plays :
                s[DetectionDoc(i)].plays[k].id = s[DetectionDoc(j)].plays[l].id => i = j /\ k = l
<1> DEFINE O == Outlines(s)
<1>1. \A i \in Slots :
        /\ O[i].events = s[DetectionDoc(i)].events /\ DOMAIN O[i].ids = DOMAIN s[DetectionDoc(i)].plays
        /\ \A k \in DOMAIN s[DetectionDoc(i)].plays : O[i].ids[k] = s[DetectionDoc(i)].plays[k].id
  BY DEF Outlines, Outline
<1> HIDE DEF O
<1>2. WellArranged(O, E, n)
  BY DEF O
<1>3. /\ \A i \in Slots : s[DetectionDoc(i)].events \subseteq E
      /\ \A i, j \in Slots : i # j => s[DetectionDoc(i)].events \cap s[DetectionDoc(j)].events = {}
  BY <1>1, <1>2 DEF WellArranged
<1>4. \A i \in Slots : \A k \in DOMAIN s[DetectionDoc(i)].plays : s[DetectionDoc(i)].plays[k].id[1] < n
  <2> SUFFICES ASSUME NEW i \in Slots, NEW k \in DOMAIN s[DetectionDoc(i)].plays
               PROVE  s[DetectionDoc(i)].plays[k].id[1] < n
    OBVIOUS
  <2>1. O[i].ids[k] = s[DetectionDoc(i)].plays[k].id /\ k \in DOMAIN O[i].ids
    BY <1>1
  <2>2. O[i].ids[k][1] < n
    BY <1>2, <2>1 DEF WellArranged
  <2> QED BY <2>1, <2>2
<1>5. ASSUME NEW i \in Slots, NEW j \in Slots,
             NEW k \in DOMAIN s[DetectionDoc(i)].plays, NEW l \in DOMAIN s[DetectionDoc(j)].plays,
             s[DetectionDoc(i)].plays[k].id = s[DetectionDoc(j)].plays[l].id
      PROVE  i = j /\ k = l
  <2>1. /\ O[i].ids[k] = s[DetectionDoc(i)].plays[k].id /\ k \in DOMAIN O[i].ids
        /\ O[j].ids[l] = s[DetectionDoc(j)].plays[l].id /\ l \in DOMAIN O[j].ids
    BY <1>1
  <2>2. O[i].ids[k] = O[j].ids[l]
    BY <1>5, <2>1
  <2> QED BY <1>2, <2>1, <2>2 DEF WellArranged
<1> QED BY <1>3, <1>4, <1>5

\* Which plays a pass has minted.
LEMMA WhoIsMinted == \A s, d, p, play : Minted(s, d, p, play) <=> p.id[1] = Connection(s).passes
BY DEF Minted

\* Where reconciliation has written, the ids of the plays are their own: those that were
\* there, and those that this pass mints.
LEMMA ReconciledIsArranged ==
  ASSUME NEW s, SoundSite(s), NEW n \in Nat, Connection(s).passes <= n,
         PlaysWhere(s, Reconciled(s), Minted) # {} => Connection(s).passes < n
  PROVE  WellArranged([i \in Slots |-> Outline(Reconciled(s)[i])], s[EvidenceDoc], n)
<1> DEFINE R == Reconciled(s)
           D(i) == s[DetectionDoc(i)]
           O == [i \in Slots |-> Outline(R[i])]
           m == Connection(s).passes
           New(i, k) == R[i].plays[k].id = <<m, FirstOf(PlaysOf[R[i].events][k])>>
           Old(i, k) == k \in DOMAIN D(i).plays /\ R[i].plays[k].id = D(i).plays[k].id
<1>1. \A i \in Slots :
        /\ O[i].events = R[i].events /\ DOMAIN O[i].ids = DOMAIN R[i].plays
        /\ \A k \in DOMAIN R[i].plays : O[i].ids[k] = R[i].plays[k].id
  BY DEF Outline
<1>2. /\ \A i \in Slots : Follows(s, D(i), R[i]) /\ R[i].events \subseteq s[EvidenceDoc]
      /\ \A i, j \in Slots : i # j => R[i].events \cap R[j].events = {}
  BY ReconciledFollows
<1>3. /\ \A i \in Slots : \A k \in DOMAIN D(i).plays : D(i).plays[k].id[1] < m
      /\ \A i, j \in Slots : \A k \in DOMAIN D(i).plays, l \in DOMAIN D(j).plays :
           D(i).plays[k].id = D(j).plays[l].id => i = j /\ k = l
  BY ArrangedDetections DEF SoundSite
<1>4. m \in Nat /\ s[EvidenceDoc] \in SUBSET Event
  BY DEF SoundSite, Connection
<1> HIDE DEF R, D, O, m
<1>5. ASSUME NEW i \in Slots, NEW k \in DOMAIN R[i].plays
      PROVE  /\ Old(i, k) \/ New(i, k)
             /\ R[i].events \in SUBSET Event /\ k \in DOMAIN PlaysOf[R[i].events] /\ k \in 1 .. Cardinality(Event)
             /\ R[i].plays[k].id \in Nat \X Event
  <2>1. Old(i, k) \/ New(i, k)
    BY <1>2 DEF Follows, PlayFollows, m
  <2>2. Documented(R[i])
    BY <1>2 DEF Follows
  <2>3. R[i].plays[k].id \in Nat \X Event
    BY <2>2, PlaysAreFew DEF PlayStates
  <2> QED BY <2>1, <2>2, <2>3, PlaysAreFew
<1>6. ASSUME NEW i \in Slots, NEW k \in DOMAIN R[i].plays
      PROVE  R[i].plays[k].id[1] < n
  <2>1. CASE Old(i, k)
    <3>1. R[i].plays[k].id[1] < m /\ R[i].plays[k].id[1] \in Nat
      BY <1>3, <1>5, <2>1
    <3> QED BY <1>4, <3>1 DEF m
  <2>2. CASE New(i, k)
    <3>1. R[i].plays[k].id[1] = m
      BY <2>2
    <3>2. Minted(s, R[i], R[i].plays[k], PlaysOf[R[i].events][k])
      BY <3>1, WhoIsMinted DEF m
    <3> DEFINE x == <<i, k>>
    <3>3. x \in Slots \X (1 .. Cardinality(Event)) /\ x[1] = i /\ x[2] = k
      BY <1>5
    <3> HIDE DEF x
    <3>4. x \in PlaysWhere(s, R, Minted)
      BY <3>2, <3>3 DEF PlaysWhere
    <3> QED BY <3>1, <3>4 DEF m, R
  <2> QED BY <1>5, <2>1, <2>2
<1>7. ASSUME NEW i \in Slots, NEW j \in Slots, NEW k \in DOMAIN R[i].plays, NEW l \in DOMAIN R[j].plays,
             R[i].plays[k].id = R[j].plays[l].id
      PROVE  i = j /\ k = l
  <2>1. CASE Old(i, k) /\ Old(j, l)
    <3>1. k \in DOMAIN D(i).plays /\ l \in DOMAIN D(j).plays /\ D(i).plays[k].id = D(j).plays[l].id
      BY <1>7, <2>1
    <3> QED BY <1>3, <3>1
  <2>2. CASE Old(i, k) /\ New(j, l)
    <3>1. R[i].plays[k].id[1] < m /\ R[j].plays[l].id[1] = m
      BY <1>3, <2>2
    <3> QED BY <1>4, <1>7, <3>1
  <2>3. CASE New(i, k) /\ Old(j, l)
    <3>1. R[j].plays[l].id[1] < m /\ R[i].plays[k].id[1] = m
      BY <1>3, <2>3
    <3> QED BY <1>4, <1>7, <3>1
  <2>4. CASE New(i, k) /\ New(j, l)
    <3>1. FirstOf(PlaysOf[R[i].events][k]) = FirstOf(PlaysOf[R[j].events][l])
      <4>1. <<m, FirstOf(PlaysOf[R[i].events][k])>> = <<m, FirstOf(PlaysOf[R[j].events][l])>>
        BY <1>7, <2>4
      <4> QED BY <4>1
    <3>2. FirstOf(PlaysOf[R[i].events][k]) \in R[i].events /\ FirstOf(PlaysOf[R[j].events][l]) \in R[j].events
      BY <1>5, PlaysHaveFirsts
    <3>3. i = j
      BY <1>2, <3>1, <3>2
    <3>4. k = l
      BY <1>5, <3>1, <3>3, PlaysHaveFirsts
    <3> QED BY <3>3, <3>4
  <2> QED BY <1>5, <2>1, <2>2, <2>3, <2>4
<1>8. WellArranged(O, s[EvidenceDoc], n)
  <2>1. \A i \in Slots : O[i].events \subseteq s[EvidenceDoc]
    BY <1>1, <1>2
  <2>2. \A i, j \in Slots : i # j => O[i].events \cap O[j].events = {}
    BY <1>1, <1>2
  <2>3. \A i \in Slots : \A k \in DOMAIN O[i].ids : O[i].ids[k][1] < n
    BY <1>1, <1>6
  <2>4. \A i, j \in Slots : \A k \in DOMAIN O[i].ids, l \in DOMAIN O[j].ids :
          O[i].ids[k] = O[j].ids[l] => i = j /\ k = l
    BY <1>1, <1>7
  <2> QED BY <2>1, <2>2, <2>3, <2>4 DEF WellArranged
<1> QED BY <1>8 DEF O, R

\* A pass makes a sound site of a sound site.
LEMMA PassIsSound ==
  ASSUME NEW s, SoundSite(s)
  PROVE  SoundSite(DetectPass(s, Reconciled(s)))
<1> DEFINE R == Reconciled(s)
           t == DetectPass(s, R)
           n == Connection(s).passes
           minted == PlaysWhere(s, R, Minted) # {}
<1>1. /\ DOMAIN t = DiaryDocs
      /\ \A i \in Slots : t[DetectionDoc(i)] = Decide(s, R[i])
      /\ t[EvidenceDoc] = s[EvidenceDoc] /\ t[CatalogDoc] = s[CatalogDoc] /\ t[ClockDoc] = s[ClockDoc]
      /\ t[ConnectionDoc] \in [state : {"active", "paused"}, enabledAt : Nat, passes : Nat]
      /\ Connection(t).passes = IF minted THEN n + 1 ELSE n
  BY PassWrites DEF SoundSite
<1>2. n \in Nat
  BY DEF SoundSite, Connection
<1>3. \A i \in Slots : Documented(R[i])
  BY ReconciledFollows DEF Follows
<1>4. WellArranged([i \in Slots |-> Outline(R[i])], s[EvidenceDoc], Connection(t).passes)
  <2>1. Connection(t).passes \in Nat /\ n <= Connection(t).passes /\ (minted => n < Connection(t).passes)
    BY <1>1, <1>2
  <2> HIDE DEF t
  <2> QED BY <2>1, ReconciledIsArranged
<1> HIDE DEF t, R
<1>5. Outlines(t) = [i \in Slots |-> Outline(R[i])]
  BY <1>1, <1>3, DecideIsSound DEF Outlines
<1>6. \A i \in Slots : SoundDetection(t[DetectionDoc(i)])
  BY <1>1, <1>3, DecideIsSound
<1>7. SoundSite(t)
  BY <1>1, <1>4, <1>5, <1>6 DEF SoundSite
<1> QED BY <1>7 DEF t, R

\* nextPlayState: nothing is published twice, as one play or as the other.
LEMMA PublicationIsFirst ==
  \A s, d, p, play : Publishes(s, d, p, play) => ~p.published /\ PriorReceipts(s, p, play) = {}
BY Zenon DEF Publishes, Asks, Eligible

\* What a pass publishes is news: its play was not published, and no receipt has its id.
LEMMA PublishedIsNews ==
  ASSUME NEW s, SoundSite(s), NEW x \in PlaysWhere(s, Reconciled(s), Publishes)
  PROVE  LET i == x[1]  k == x[2]  new == Reconciled(s)[i]
         IN  /\ i \in Slots /\ k \in DOMAIN new.plays
             /\ Publishes(s, new, new.plays[k], PlaysOf[new.events][k]) /\ ~new.plays[k].published
             /\ \A r \in Receipts(s) : r.id # new.plays[k].id
             /\ ~(k \in DOMAIN s[DetectionDoc(i)].plays /\ s[DetectionDoc(i)].plays[k].published)
<1> DEFINE i == x[1]
           k == x[2]
           new == Reconciled(s)[i]
           play == PlaysOf[new.events][k]
<1>1. i \in Slots /\ k \in DOMAIN new.plays /\ Publishes(s, new, new.plays[k], play)
  BY DEF PlaysWhere
<1>2. ~new.plays[k].published /\ PriorReceipts(s, new.plays[k], play) = {}
  BY <1>1, PublicationIsFirst
<1>3. \A r \in Receipts(s) : r.id # new.plays[k].id
  BY <1>2 DEF PriorReceipts
<1>4. Follows(s, s[DetectionDoc(i)], new)
  BY <1>1, ReconciledFollows
<1> HIDE DEF i, k, new
<1>5. ~(k \in DOMAIN s[DetectionDoc(i)].plays /\ s[DetectionDoc(i)].plays[k].published)
  BY <1>2, <1>4 DEF Follows
<1> QED BY <1>1, <1>2, <1>3, <1>5 DEF i, k, new

\* b is the database after a pass on the snapshot s wrote the documents W, which had not
\* changed, and a is the database before.
Merged(s, a, b, W) ==
  LET t == DetectPass(s, Reconciled(s))
  IN  /\ ConnectionDoc \in W
      /\ \A d \in DiaryDocs : \/ d \in W /\ s[d] = a[d] /\ b[d] = t[d]
                              \/ d \notin W /\ b[d] = a[d] /\ t[d] = s[d]

\* What the pass published is there, and so is what was published.
PlaysMerged(s, a, b, i) ==
  LET old == a[DetectionDoc(i)]  new == b[DetectionDoc(i)]  R == Reconciled(s)[i]
  IN  /\ \A k \in DOMAIN new.plays : new.plays[k].published =>
           \/ k \in DOMAIN old.plays /\ old.plays[k].published /\ old.plays[k].id = new.plays[k].id
           \/ /\ k \in DOMAIN R.plays /\ new.plays[k].id = R.plays[k].id
              /\ Publishes(s, R, R.plays[k], PlaysOf[R.events][k])
      /\ \A k \in DOMAIN old.plays : old.plays[k].published =>
           k \in DOMAIN new.plays /\ new.plays[k].published /\ new.plays[k].id = old.plays[k].id
      /\ \A x \in PlaysWhere(s, Reconciled(s), Publishes) : x[1] = i =>
           /\ x[2] \in DOMAIN new.plays /\ new.plays[x[2]].published
           /\ new.plays[x[2]].id = R.plays[x[2]].id
           /\ old = s[DetectionDoc(i)]

\* Each slot's plays, after a pass.
LEMMA MergedPlays ==
  ASSUME NEW s, SoundSite(s), NEW a, SoundSite(a), NEW b, NEW W, Merged(s, a, b, W), NEW i \in Slots
  PROVE  PlaysMerged(s, a, b, i)
<1> DEFINE doc == DetectionDoc(i)
           R == Reconciled(s)[i]
           T == Decide(s, R)
           Newly(k) == Publishes(s, R, R.plays[k], PlaysOf[R.events][k])
<1>1. \/ doc \in W /\ s[doc] = a[doc] /\ b[doc] = T
      \/ doc \notin W /\ b[doc] = a[doc] /\ T = s[doc]
  <2>1. doc \in DiaryDocs
    BY DocumentsExist
  <2>2. DetectPass(s, Reconciled(s))[doc] = T
    BY PassWrites DEF SoundSite
  <2> HIDE DEF doc, T
  <2> QED BY <2>1, <2>2 DEF Merged
<1>2. Follows(s, s[doc], R) /\ Documented(R)
  BY ReconciledFollows DEF Follows
<1>3. /\ DOMAIN T.plays = DOMAIN R.plays
      /\ \A k \in DOMAIN R.plays : T.plays[k].id = R.plays[k].id /\ (T.plays[k].published <=> R.plays[k].published \/ Newly(k))
  BY <1>2, DecideIsSound
<1>4. /\ \A k \in DOMAIN R.plays : R.plays[k].published =>
           k \in DOMAIN s[doc].plays /\ s[doc].plays[k].published /\ s[doc].plays[k].id = R.plays[k].id
      /\ \A k \in DOMAIN s[doc].plays : s[doc].plays[k].published =>
           k \in DOMAIN R.plays /\ R.plays[k].published /\ R.plays[k].id = s[doc].plays[k].id
  BY <1>2 DEF Follows, PlayFollows
<1>5. ASSUME NEW x \in PlaysWhere(s, Reconciled(s), Publishes), x[1] = i
      PROVE  /\ x[2] \in DOMAIN R.plays /\ Newly(x[2])
             /\ ~(x[2] \in DOMAIN s[doc].plays /\ s[doc].plays[x[2]].published)
  BY <1>5, PublishedIsNews
<1> HIDE DEF doc, R, T, Newly
<1>6. CASE doc \in W /\ s[doc] = a[doc] /\ b[doc] = T
  <2>1. \A k \in DOMAIN T.plays : T.plays[k].published =>
          \/ k \in DOMAIN s[doc].plays /\ s[doc].plays[k].published /\ s[doc].plays[k].id = T.plays[k].id
          \/ k \in DOMAIN R.plays /\ T.plays[k].id = R.plays[k].id /\ Newly(k)
    BY <1>3, <1>4
  <2>2. \A k \in DOMAIN s[doc].plays : s[doc].plays[k].published =>
          k \in DOMAIN T.plays /\ T.plays[k].published /\ T.plays[k].id = s[doc].plays[k].id
    BY <1>3, <1>4
  <2>3. \A x \in PlaysWhere(s, Reconciled(s), Publishes) : x[1] = i =>
          x[2] \in DOMAIN T.plays /\ T.plays[x[2]].published /\ T.plays[x[2]].id = R.plays[x[2]].id
    BY <1>3, <1>5
  <2> QED BY <1>6, <2>1, <2>2, <2>3 DEF PlaysMerged, doc, R, Newly
<1>7. CASE doc \notin W /\ b[doc] = a[doc] /\ T = s[doc]
  <2>1. \A x \in PlaysWhere(s, Reconciled(s), Publishes) : x[1] # i
    BY <1>3, <1>5, <1>7
  <2> QED BY <1>7, <2>1 DEF PlaysMerged, doc, R, Newly
<1> QED BY <1>1, <1>6, <1>7

\* The receipts after a pass are those before, and those of what it published.
LEMMA MergedReceipts ==
  ASSUME NEW s, SoundSite(s), NEW a, NEW b, NEW W, Merged(s, a, b, W)
  PROVE  LET R == Reconciled(s)
         IN  PublishedReceipts(b) = PublishedReceipts(a) \cup
               { Receipt(R[x[1]].plays[x[2]], PlaysOf[R[x[1]].events][x[2]], "published") :
                   x \in PlaysWhere(s, R, Publishes) }
<1> DEFINE R == Reconciled(s)
           t == DetectPass(s, R)
           Of(x) == Receipt(R[x[1]].plays[x[2]], PlaysOf[R[x[1]].events][x[2]], "published")
           where == PlaysWhere(s, R, Publishes)
           receipts == { Of(x) : x \in where }
           worker == ReceiptsDoc("worker")
           owner == ReceiptsDoc("owner")
<1>1. t[worker] = s[worker] \cup receipts /\ t[owner] = s[owner]
  BY PassWrites DEF SoundSite
<1>2. \A x \in where : Of(x).id = R[x[1]].plays[x[2]].id /\ Of(x).outcome = "published"
  BY DEF Receipt
<1>3. \A x \in where : Of(x) \notin Receipts(s)
  <2> SUFFICES ASSUME NEW x \in where PROVE Of(x) \notin Receipts(s)
    OBVIOUS
  <2>1. \A r \in Receipts(s) : r.id # R[x[1]].plays[x[2]].id
    BY PublishedIsNews
  <2> HIDE DEF Of, R, where
  <2> QED BY <1>2, <2>1
<1>4. worker \in DiaryDocs /\ owner \in DiaryDocs
  BY DocumentsExist
<1>5. /\ \/ worker \in W /\ s[worker] = a[worker] /\ b[worker] = t[worker]
         \/ worker \notin W /\ b[worker] = a[worker] /\ t[worker] = s[worker]
      /\ \/ owner \in W /\ s[owner] = a[owner] /\ b[owner] = t[owner]
         \/ owner \notin W /\ b[owner] = a[owner] /\ t[owner] = s[owner]
  <2> HIDE DEF worker, owner, t
  <2> QED BY <1>4 DEF Merged, t, R
<1>6. \A r \in receipts : r \notin s[worker] /\ r.outcome = "published"
  BY <1>2, <1>3 DEF Receipts
<1> HIDE DEF receipts, t, worker, owner
<1>7. b[worker] = a[worker] \cup receipts /\ b[owner] = a[owner]
  BY <1>1, <1>5, <1>6
<1>8. PublishedReceipts(b) = PublishedReceipts(a) \cup receipts
  BY <1>6, <1>7 DEF PublishedReceipts, Receipts, worker, owner
<1> QED BY <1>8 DEF receipts

\* So after a pass every published play has its receipt, and every receipt its play.
LEMMA PassKeepsReceipts ==
  ASSUME NEW s, SoundSite(s), NEW a, SoundSite(a), Receipted(a), NEW b, NEW W, Merged(s, a, b, W)
  PROVE  Receipted(b)
<1> DEFINE R == Reconciled(s)
           Of(x) == Receipt(R[x[1]].plays[x[2]], PlaysOf[R[x[1]].events][x[2]], "published")
           Id(x) == R[x[1]].plays[x[2]].id
           where == PlaysWhere(s, R, Publishes)
           old == PublishedReceipts(a)
           A(i) == a[DetectionDoc(i)]
           B(i) == b[DetectionDoc(i)]
<1>1. PublishedReceipts(b) = old \cup { Of(x) : x \in where }
  BY MergedReceipts
<1>2. \A x \in where : Of(x).id = Id(x)
  BY DEF Receipt
<1>3. \A x \in where :
        /\ x[1] \in Slots /\ x[2] \in DOMAIN R[x[1]].plays
        /\ ~R[x[1]].plays[x[2]].published
        /\ ~(x[2] \in DOMAIN s[DetectionDoc(x[1])].plays /\ s[DetectionDoc(x[1])].plays[x[2]].published)
        /\ x \in Slots \X (1 .. Cardinality(Event))
  BY PublishedIsNews DEF PlaysWhere
<1>4. ASSUME NEW i \in Slots
      PROVE  /\ \A k \in DOMAIN B(i).plays : B(i).plays[k].published =>
                  \/ k \in DOMAIN A(i).plays /\ A(i).plays[k].published /\ A(i).plays[k].id = B(i).plays[k].id
                  \/ /\ k \in DOMAIN R[i].plays /\ B(i).plays[k].id = R[i].plays[k].id
                     /\ Publishes(s, R[i], R[i].plays[k], PlaysOf[R[i].events][k])
             /\ \A k \in DOMAIN A(i).plays : A(i).plays[k].published =>
                  k \in DOMAIN B(i).plays /\ B(i).plays[k].published /\ B(i).plays[k].id = A(i).plays[k].id
             /\ \A x \in where : x[1] = i =>
                  /\ x[2] \in DOMAIN B(i).plays /\ B(i).plays[x[2]].published
                  /\ B(i).plays[x[2]].id = R[i].plays[x[2]].id
                  /\ A(i) = s[DetectionDoc(i)]
  <2>1. PlaysMerged(s, a, b, i)
    BY MergedPlays
  <2> QED BY <2>1, Zenon DEF PlaysMerged
<1>5. ASSUME NEW x \in where
      PROVE  \A r \in old : r.id # Id(x)
  <2> SUFFICES ASSUME NEW r \in old, r.id = Id(x) PROVE FALSE
    OBVIOUS
  <2> DEFINE i == x[1]
             k == x[2]
  <2>1. PICK j \in Slots : PublishedAs(A(j), r.id)
    BY DEF Receipted
  <2>2. PICK l \in DOMAIN A(j).plays : A(j).plays[l].published /\ A(j).plays[l].id = Id(x)
    BY <2>1 DEF PublishedAs
  <2>3. i \in Slots /\ k \in DOMAIN R[i].plays /\ A(i) = s[DetectionDoc(i)]
    BY <1>3, <1>4
  <2>4. PlayFollows(s, A(i), R[i], k)
    <3>1. Follows(s, s[DetectionDoc(i)], R[i])
      BY <2>3, ReconciledFollows
    <3> QED BY <2>3, <3>1 DEF Follows
  <2>5. ~(k \in DOMAIN A(i).plays /\ A(i).plays[k].published)
    BY <1>3, <2>3
  <2>5b. \/ k \in DOMAIN A(i).plays /\ R[i].plays[k].id = A(i).plays[k].id
         \/ R[i].plays[k].id = <<Connection(s).passes, FirstOf(PlaysOf[R[i].events][k])>>
    <3> HIDE DEF A, R, i, k
    <3> QED BY <2>4, Zenon DEF PlayFollows
  <2>6. CASE k \in DOMAIN A(i).plays /\ R[i].plays[k].id = A(i).plays[k].id
    <3>1. A(j).plays[l].id = A(i).plays[k].id
      BY <2>2, <2>6
    <3>2. WellArranged(Outlines(a), a[EvidenceDoc], Connection(a).passes)
      BY DEF SoundSite
    <3>3. j = i /\ l = k
      BY <2>2, <2>3, <2>6, <3>1, <3>2, ArrangedDetections
    <3> QED BY <2>2, <2>5, <3>3
  <2>7. CASE R[i].plays[k].id = <<Connection(s).passes, FirstOf(PlaysOf[R[i].events][k])>>
    <3>1. Connection(s) = Connection(a)
      BY DocumentsExist DEF Merged, Connection
    <3>2. A(j).plays[l].id[1] = Connection(a).passes
      BY <2>2, <2>7, <3>1
    <3>3. A(j).plays[l].id[1] < Connection(a).passes /\ Connection(a).passes \in Nat
      BY <2>2, ArrangedDetections DEF SoundSite, Connection
    <3> QED BY <3>2, <3>3
  <2> QED BY <2>5b, <2>6, <2>7
<1>6. ASSUME NEW x \in where, NEW y \in where, Id(x) = Id(y)
      PROVE  x = y
  <2> DEFINE O == [i \in Slots |-> Outline(R[i])]
  <2>1. WellArranged(O, s[EvidenceDoc], Connection(s).passes + 1)
    <3>1. Connection(s).passes \in Nat
      BY DEF SoundSite, Connection
    <3> QED BY <3>1, ReconciledIsArranged
  <2>2. \A z \in where : /\ x[1] \in Slots /\ z[2] \in DOMAIN O[z[1]].ids /\ O[z[1]].ids[z[2]] = Id(z)
    BY <1>3 DEF Outline
  <2> HIDE DEF O, Id, where
  <2>3. x[1] = y[1] /\ x[2] = y[2]
    BY <1>3, <1>6, <2>1, <2>2 DEF WellArranged
  <2>4. x = <<x[1], x[2]>> /\ y = <<y[1], y[2]>>
    BY <1>3
  <2> QED BY <2>3, <2>4
<1> HIDE DEF R, Of, where, old, A, B
<1>7. \A r \in PublishedReceipts(b) : \E i \in Slots : PublishedAs(B(i), r.id)
  <2>1. ASSUME NEW r \in old
        PROVE  \E i \in Slots : PublishedAs(B(i), r.id)
    <3>1. PICK i \in Slots : PublishedAs(A(i), r.id)
      BY DEF Receipted, old, A
    <3>2. PublishedAs(B(i), r.id)
      BY <1>4, <3>1 DEF PublishedAs
    <3> QED BY <3>2
  <2>2. ASSUME NEW x \in where
        PROVE  \E i \in Slots : PublishedAs(B(i), Of(x).id)
    <3>1. PublishedAs(B(x[1]), Of(x).id) /\ x[1] \in Slots
      BY <1>2, <1>3, <1>4 DEF PublishedAs
    <3> QED BY <3>1
  <2> QED BY <1>1, <2>1, <2>2
<1>8. ASSUME NEW i \in Slots, NEW k \in DOMAIN B(i).plays, B(i).plays[k].published
      PROVE  \E r \in PublishedReceipts(b) : r.id = B(i).plays[k].id
  <2>1. CASE k \in DOMAIN A(i).plays /\ A(i).plays[k].published /\ A(i).plays[k].id = B(i).plays[k].id
    <3>1. \E r \in old : r.id = A(i).plays[k].id
      BY <2>1 DEF Receipted, old, A
    <3> QED BY <1>1, <2>1, <3>1
  <2>2. CASE /\ k \in DOMAIN R[i].plays /\ B(i).plays[k].id = R[i].plays[k].id
             /\ Publishes(s, R[i], R[i].plays[k], PlaysOf[R[i].events][k])
    <3> DEFINE x == <<i, k>>
    <3>1. k \in 1 .. Cardinality(Event)
      <4>1. Documented(R[i])
        BY ReconciledFollows DEF Follows, R
      <4> QED BY <2>2, <4>1, PlaysAreFew
    <3>2. x \in Slots \X (1 .. Cardinality(Event)) /\ x[1] = i /\ x[2] = k
      BY <3>1
    <3> HIDE DEF x
    <3>3. x \in where
      BY <2>2, <3>2 DEF PlaysWhere, where
    <3>4. Of(x).id = B(i).plays[k].id
      BY <1>2, <2>2, <3>2, <3>3
    <3> QED BY <1>1, <3>3, <3>4
  <2> QED BY <1>4, <1>8, <2>1, <2>2
<1>9. ASSUME NEW r \in PublishedReceipts(b), NEW q \in PublishedReceipts(b), r.id = q.id
      PROVE  r = q
  <2>1. CASE r \in old /\ q \in old
    BY <1>9, <2>1 DEF Receipted, old
  <2>2. CASE r \in old /\ \E x \in where : q = Of(x)
    BY <1>2, <1>5, <1>9, <2>2
  <2>3. CASE q \in old /\ \E x \in where : r = Of(x)
    BY <1>2, <1>5, <1>9, <2>3
  <2>4. CASE \E x, y \in where : r = Of(x) /\ q = Of(y)
    <3>1. PICK x \in where, y \in where : r = Of(x) /\ q = Of(y)
      BY <2>4
    <3>2. Id(x) = Id(y)
      BY <1>2, <1>9, <3>1
    <3> QED BY <1>6, <3>1, <3>2
  <2> QED BY <1>1, <2>1, <2>2, <2>3, <2>4
<1> QED BY <1>7, <1>8, <1>9 DEF Receipted, B

\* The detections stay well arranged when there is more evidence.
LEMMA MoreEvidence ==
  ASSUME NEW O, NEW E, NEW n, WellArranged(O, E, n), NEW F, E \subseteq F
  PROVE  WellArranged(O, F, n)
BY Zenon DEF WellArranged

\* The outline of a slot.
LEMMA OutlineOf == \A s : \A i \in Slots : Outlines(s)[i] = Outline(s[DetectionDoc(i)])
BY DEF Outlines

\* The database after a pass is a sound site, though its owner decided plays meanwhile.
LEMMA MergedIsSound ==
  ASSUME NEW s, SoundSite(s), NEW a, SoundSite(a), NEW b, DOMAIN b = DiaryDocs, NEW W, Merged(s, a, b, W),
         Outlines(s) = Outlines(a), s[EvidenceDoc] \subseteq a[EvidenceDoc]
  PROVE  SoundSite(b)
<1> DEFINE t == DetectPass(s, Reconciled(s))
<1>1. SoundSite(t) /\ \A d \in {EvidenceDoc, CatalogDoc, ClockDoc} : t[d] = s[d]
  BY PassIsSound, PassWrites DEF SoundSite
<1>2. /\ ConnectionDoc \in W
      /\ \A d \in DiaryDocs : \/ d \in W /\ s[d] = a[d] /\ b[d] = t[d]
                              \/ d \notin W /\ b[d] = a[d] /\ t[d] = s[d]
  BY DEF Merged
<1> HIDE DEF t
<1>3. b[ConnectionDoc] = t[ConnectionDoc] /\ \A d \in {EvidenceDoc, CatalogDoc, ClockDoc} : b[d] = a[d]
  BY <1>1, <1>2, DocumentsExist
<1>4. \A i \in Slots : SoundDetection(b[DetectionDoc(i)])
  <2> SUFFICES ASSUME NEW i \in Slots PROVE SoundDetection(b[DetectionDoc(i)])
    OBVIOUS
  <2>1. b[DetectionDoc(i)] \in {a[DetectionDoc(i)], t[DetectionDoc(i)]}
    BY <1>2, DocumentsExist
  <2> QED BY <1>1, <2>1 DEF SoundSite
<1>5. Outlines(b) = Outlines(t)
  <2>1. ASSUME NEW i \in Slots
        PROVE  Outline(b[DetectionDoc(i)]) = Outline(t[DetectionDoc(i)])
    <3>1. DetectionDoc(i) \in DiaryDocs
      BY DocumentsExist
    <3>2. Outline(s[DetectionDoc(i)]) = Outline(a[DetectionDoc(i)])
      BY OutlineOf
    <3> QED BY <1>2, <3>1, <3>2
  <2> QED BY <2>1 DEF Outlines
<1>6. WellArranged(Outlines(b), b[EvidenceDoc], Connection(b).passes)
  <2>1. WellArranged(Outlines(b), s[EvidenceDoc], Connection(b).passes)
    BY <1>1, <1>3, <1>5 DEF SoundSite, Connection
  <2> QED BY <1>3, <2>1, MoreEvidence
<1>7. /\ b[ConnectionDoc] \in [state : {"active", "paused"}, enabledAt : Nat, passes : Nat]
      /\ b[CatalogDoc] \in [mapped : BOOLEAN, baseline : {0, 1}]
      /\ b[ClockDoc] \in Nat /\ b[EvidenceDoc] \in SUBSET Event
  BY <1>1, <1>3 DEF SoundSite
<1> QED BY <1>4, <1>6, <1>7 DEF SoundSite

\* A transaction stays sound whatever commits, if the worker's still knows the detections.
LEMMA OthersStaySound ==
  ASSUME TransactionsAreSound, NEW others, others \subseteq OpenClients, NEW W, FallBehind(others, W),
         Worker \in others => Outlines(db') = Outlines(db) /\ db[EvidenceDoc] \subseteq db'[EvidenceDoc]
  PROVE  TransactionsAreSound'
<1>1. /\ OpenClients' = others
      /\ \A c \in others : c \in OpenClients /\ tx'[c].req = tx[c].req /\ tx'[c].snap = tx[c].snap
  BY DEF FallBehind
<1>2. \A c \in OpenClients' : SoundSite(tx'[c].snap)
  BY <1>1 DEF TransactionsAreSound
<1>3. \A c \in OpenClients' \ {Worker} : tx'[c].req.op \in {"confirm", "dismiss"} /\ tx'[c].req.slot \in Slots
  BY <1>1 DEF TransactionsAreSound
<1>4. Worker \in OpenClients' =>
        /\ tx'[Worker].req.op = "detect" /\ Outlines(tx'[Worker].snap) = Outlines(db')
        /\ tx'[Worker].snap[EvidenceDoc] \subseteq db'[EvidenceDoc]
  BY <1>1 DEF TransactionsAreSound
<1> QED BY <1>2, <1>3, <1>4 DEF TransactionsAreSound

\* detectJob: a pass that commits keeps the site sound.
LEMMA DetectKeepsSite ==
  ASSUME DiaryInv, SiteInv, Detect
  PROVE  SiteInv'
<1> DEFINE s == tx[Worker].snap
           t == DetectPass(s, Reconciled(s))
           W == Touched(s, Reconciled(s)) \cup Changed(s, t)
<1>1. Worker \in OpenClients /\ Committed(Worker, t, W)
  BY DetectCommits
<1>2. /\ SoundSite(s) /\ SoundSite(db) /\ Receipted(db) /\ Outlines(s) = Outlines(db)
      /\ s[EvidenceDoc] \subseteq db[EvidenceDoc]
  BY <1>1 DEF SiteInv, TransactionsAreSound
<1>3. ConnectionDoc \in W
  BY DEF Touched
<1> HIDE DEF s, W
<1>4. DOMAIN db' = DiaryDocs /\ Merged(s, db, db', W)
  <2>1. DOMAIN db = DiaryDocs
    BY DEF DiaryInv
  <2>2. \A d \in DiaryDocs : \/ d \in W /\ s[d] = db[d] /\ db'[d] = t[d]
                             \/ d \notin W /\ db'[d] = db[d] /\ t[d] = s[d]
    <3> HIDE DEF t
    <3> QED BY <1>1, <2>1 DEF Committed, s
  <2>3. DOMAIN db' = DOMAIN db
    BY <1>1 DEF Committed
  <2> QED BY <1>3, <2>1, <2>2, <2>3 DEF Merged
<1> HIDE DEF t
<1>5. SoundSite(db')
  BY <1>2, <1>4, MergedIsSound
<1>6. Receipted(db')
  BY <1>2, <1>4, PassKeepsReceipts
<1>7. TransactionsAreSound'
  <2>1. FallBehind(OpenClients \ {Worker}, W)
    BY <1>1 DEF Committed
  <2> QED BY <2>1, OthersStaySound DEF SiteInv
<1> QED BY <1>5, <1>6, <1>7 DEF SiteInv

(***************************************************************************)
(* The owner's decisions                                                   *)
(***************************************************************************)
Outcome(confirmed) == IF confirmed THEN "published" ELSE "dismissed"
\* A detection whose k-th play the owner has confirmed or dismissed.
Settled(d, k, confirmed) ==
  LET play == [d.plays[k] EXCEPT !.publication = Outcome(confirmed), !.published = confirmed]
  IN  [d EXCEPT !.plays = [d.plays EXCEPT ![k] = play]]

\* It is sound if the play awaited its owner, for such a play qualifies.
LEMMA SettledIsSound ==
  ASSUME NEW d, SoundDetection(d), NEW k \in DOMAIN d.plays, d.plays[k].publication \in Waiting,
         NEW confirmed \in BOOLEAN
  PROVE  LET new == Settled(d, k, confirmed)
         IN  /\ SoundDetection(new) /\ Outline(new) = Outline(d) /\ new # d
             /\ DOMAIN new.plays = DOMAIN d.plays
             /\ \A l \in DOMAIN d.plays :
                  /\ new.plays[l].id = d.plays[l].id
                  /\ new.plays[l].published = IF l = k THEN confirmed ELSE d.plays[l].published
<1> DEFINE new == Settled(d, k, confirmed)
           play == [d.plays[k] EXCEPT !.publication = Outcome(confirmed), !.published = confirmed]
           plays == [d.plays EXCEPT ![k] = play]
<1>1. /\ d \in DetectionRecords /\ d.plays \in Seq(PlayStates) /\ Len(d.plays) = Len(PlaysOf[d.events])
      /\ Len(d.plays) \in Nat /\ DOMAIN d.plays = 1 .. Len(d.plays)
      /\ \A l \in DOMAIN d.plays : d.plays[l] \in PlayStates
  BY LenProperties, ElementOfSeq DEF SoundDetection, Documented, DetectionRecords
<1>2. \A l \in DOMAIN d.plays : d.plays[l].published \/ d.plays[l].publication \in Waiting
                                  => Qualified(PlaysOf[d.events][l])
  BY DEF SoundDetection, Documented
<1>3. Outcome(confirmed) \in {"published", "dismissed"} /\ Outcome(confirmed) \notin Waiting
  BY DEF Outcome, Waiting
<1>4. /\ play \in PlayStates /\ play.id = d.plays[k].id /\ play.published = confirmed
      /\ play.publication = Outcome(confirmed)
  BY <1>1, <1>3 DEF PlayStates
<1>5. new = [d EXCEPT !.plays = plays]
  BY DEF Settled
<1> HIDE DEF new, play
<1>6. /\ DOMAIN plays = DOMAIN d.plays /\ plays[k] = play
      /\ \A l \in DOMAIN d.plays : l # k => plays[l] = d.plays[l]
  OBVIOUS
<1>7. plays \in Seq(PlayStates) /\ Len(plays) = Len(d.plays)
  <2>1. plays \in [1 .. Len(d.plays) -> PlayStates]
    BY <1>1, <1>4
  <2> HIDE DEF plays
  <2> QED BY <1>1, <2>1, LenProperties, SeqDef
<1> HIDE DEF plays
<1>8. new \in DetectionRecords /\ new.events = d.events /\ new.plays = plays
  BY <1>1, <1>5, <1>7 DEF DetectionRecords
<1>9. \A l \in DOMAIN d.plays :
        /\ new.plays[l].id = d.plays[l].id
        /\ new.plays[l].published = IF l = k THEN confirmed ELSE d.plays[l].published
  BY <1>4, <1>6, <1>8
<1>10. SoundDetection(new)
  <2>1. \A l \in DOMAIN d.plays : plays[l].published \/ plays[l].publication \in Waiting
                                    => Qualified(PlaysOf[d.events][l])
    BY <1>2, <1>4, <1>6
  <2> QED BY <1>1, <1>6, <1>7, <1>8, <2>1 DEF SoundDetection, Documented
<1>11. Outline(new) = Outline(d)
  <2>1. [l \in DOMAIN new.plays |-> new.plays[l].id] = [l \in DOMAIN d.plays |-> d.plays[l].id]
    BY <1>6, <1>8, <1>9
  <2> QED BY <1>8, <2>1 DEF Outline
<1>12. new # d
  <2>1. new.plays[k].publication # d.plays[k].publication
    BY <1>3, <1>4, <1>6, <1>8
  <2> QED BY <2>1
<1> QED BY <1>6, <1>8, <1>9, <1>10, <1>11, <1>12 DEF new

\* resolvePlay: which play the request names, what is written of it, and its receipt.
Settles(s, t, slot, k, confirmed) ==
  LET d == s[DetectionDoc(slot)]
      receipt == Receipt(d.plays[k], PlaysOf[d.events][k], Outcome(confirmed))
  IN  /\ k \in DOMAIN d.plays /\ ~d.plays[k].published /\ d.plays[k].publication \in Waiting
      /\ t[DetectionDoc(slot)] = Settled(d, k, confirmed)
      /\ t[ReceiptsDoc("owner")] = s[ReceiptsDoc("owner")] \cup {receipt}
      /\ receipt \notin s[ReceiptsDoc("owner")]
      /\ \A doc \in DOMAIN s : doc # DetectionDoc(slot) /\ doc # ReceiptsDoc("owner") => t[doc] = s[doc]

\* The request names one play, which awaits its owner and has no receipt.
LEMMA ResolvedSettles ==
  ASSUME NEW s, SoundSite(s), NEW req, req.slot \in Slots, Resolvable(s, req)
  PROVE  \E k : Settles(s, Resolved(s, req), req.slot, k, req.op = "confirm")
<1> DEFINE doc == DetectionDoc(req.slot)
           owner == ReceiptsDoc("owner")
           d == s[doc]
           i == CHOOSE k \in DOMAIN d.plays : d.plays[k].id = req.id
           confirmed == req.op = "confirm"
           receipt == Receipt(d.plays[i], PlaysOf[d.events][i], Outcome(confirmed))
           t == Resolved(s, req)
<1>1. PICK k \in DOMAIN d.plays :
        /\ d.plays[k].id = req.id /\ ~d.plays[k].published
        /\ d.plays[k].publication \in {"needs_confirmation", "manual_duplicate"}
        /\ PriorReceipts(s, d.plays[k], PlaysOf[d.events][k]) = {}
  BY DEF Resolvable
<1>2. i \in DOMAIN d.plays /\ d.plays[i].id = req.id
  BY <1>1
<1>3. i = k
  <2>1. WellArranged(Outlines(s), s[EvidenceDoc], Connection(s).passes)
    BY DEF SoundSite
  <2> HIDE DEF i
  <2> QED BY <1>1, <1>2, <2>1, ArrangedDetections
<1>4. /\ doc \in DOMAIN s /\ owner \in DOMAIN s /\ doc # owner
  BY DocumentsExist, OwnerDiffers DEF SoundSite
<1>5. t = [s EXCEPT ![doc].plays[i].publication = Outcome(confirmed),
                    ![doc].plays[i].published = confirmed,
                    ![owner] = @ \cup {receipt}]
  BY Zenon DEF Resolved, Outcome
<1> HIDE DEF t, i
<1>6. /\ t[owner] = s[owner] \cup {receipt}
      /\ \A x \in DOMAIN s : x # doc /\ x # owner => t[x] = s[x]
  BY <1>4, <1>5
<1>7. t[doc] = Settled(d, i, confirmed)
  <2> DEFINE p == d.plays[i]
             p1 == [p EXCEPT !.publication = Outcome(confirmed)]
             p2 == [p1 EXCEPT !.published = confirmed]
             d1 == [d EXCEPT !.plays = [d.plays EXCEPT ![i] = p1]]
             d2 == [d EXCEPT !.plays = [d.plays EXCEPT ![i] = p2]]
             s1 == [s EXCEPT ![doc] = d1]
             s2 == [s1 EXCEPT ![doc] = d2]
  <2>1. d \in DetectionRecords
    BY DEF SoundSite, SoundDetection, Documented
  <2>2. d1.plays[i] = p1 /\ [d1 EXCEPT !.plays = [d1.plays EXCEPT ![i] = p2]] = d2
    <3> HIDE DEF p1, p2, d
    <3> QED BY <1>2, <2>1 DEF DetectionRecords
  <2>3. s1[doc] = d1
    BY <1>4
  <2>4. t = [[s1 EXCEPT ![doc] = [s1[doc] EXCEPT !.plays = [s1[doc].plays EXCEPT ![i] =
                                    [s1[doc].plays[i] EXCEPT !.published = confirmed]]]]
               EXCEPT ![owner] = s[owner] \cup {receipt}]
    BY <1>4, <1>5
  <2>5. t = [s2 EXCEPT ![owner] = s[owner] \cup {receipt}]
    <3> HIDE DEF s1, d1, receipt, confirmed, p1
    <3> QED BY <2>2, <2>3, <2>4
  <2>6. t[doc] = d2
    <3> HIDE DEF d2, d1, receipt
    <3> QED BY <1>4, <2>5
  <2> QED BY <2>6, Zenon DEF Settled
<1>8. receipt \notin s[owner]
  <2>1. receipt.id = d.plays[i].id
    BY DEF Receipt
  <2>2. \A r \in Receipts(s) : r.id # d.plays[i].id
    BY <1>1, <1>3 DEF PriorReceipts
  <2> QED BY <2>1, <2>2 DEF Receipts
<1> QED BY <1>1, <1>3, <1>6, <1>7, <1>8 DEF Settles, Waiting, t

\* A decision of the owner keeps the site sound: a play that is confirmed has one receipt.
LEMMA SettledKeepsSite ==
  ASSUME NEW a, SoundSite(a), Receipted(a), NEW b, DOMAIN b = DiaryDocs,
         NEW slot \in Slots, NEW k, NEW confirmed \in BOOLEAN, Settles(a, b, slot, k, confirmed)
  PROVE  /\ SoundSite(b) /\ Receipted(b) /\ Outlines(b) = Outlines(a)
         /\ b[EvidenceDoc] = a[EvidenceDoc]
<1> DEFINE doc == DetectionDoc(slot)
           d == a[doc]
           receipt == Receipt(d.plays[k], PlaysOf[d.events][k], Outcome(confirmed))
           A(i) == a[DetectionDoc(i)].plays
           B(i) == b[DetectionDoc(i)].plays
<1>1. /\ k \in DOMAIN d.plays /\ ~d.plays[k].published /\ d.plays[k].publication \in Waiting
      /\ b[doc] = Settled(d, k, confirmed)
      /\ b[ReceiptsDoc("owner")] = a[ReceiptsDoc("owner")] \cup {receipt}
      /\ \A x \in DiaryDocs : x # doc /\ x # ReceiptsDoc("owner") => b[x] = a[x]
  BY DEF Settles, SoundSite
<1>2. /\ \A x \in {ConnectionDoc, EvidenceDoc, CatalogDoc, ClockDoc, ReceiptsDoc("worker")} : b[x] = a[x]
      /\ \A i \in Slots : i # slot => b[DetectionDoc(i)] = a[DetectionDoc(i)]
  <2>1. \A x \in {ConnectionDoc, EvidenceDoc, CatalogDoc, ClockDoc, ReceiptsDoc("worker")} :
          x \in DiaryDocs /\ x # doc /\ x # ReceiptsDoc("owner")
    BY DocumentsExist, DocumentsDiffer, OwnerDiffers
  <2>2. \A i \in Slots : i # slot =>
          DetectionDoc(i) \in DiaryDocs /\ DetectionDoc(i) # doc /\ DetectionDoc(i) # ReceiptsDoc("owner")
    BY DocumentsExist, OwnerDiffers
  <2> QED BY <1>1, <2>1, <2>2
<1>3. /\ SoundDetection(b[doc]) /\ Outline(b[doc]) = Outline(d) /\ DOMAIN B(slot) = DOMAIN A(slot)
      /\ \A l \in DOMAIN A(slot) :
           /\ B(slot)[l].id = A(slot)[l].id
           /\ B(slot)[l].published = IF l = k THEN confirmed ELSE A(slot)[l].published
  <2>1. SoundDetection(d)
    BY DEF SoundSite
  <2> QED BY <1>1, <2>1, SettledIsSound
<1>4. Outlines(b) = Outlines(a)
  BY <1>2, <1>3 DEF Outlines
<1>5. SoundSite(b)
  <2>1. \A i \in Slots : SoundDetection(b[DetectionDoc(i)])
    BY <1>2, <1>3 DEF SoundSite
  <2>2. WellArranged(Outlines(b), b[EvidenceDoc], Connection(b).passes)
    BY <1>2, <1>4 DEF SoundSite, Connection
  <2> QED BY <1>2, <2>1, <2>2 DEF SoundSite
<1>6. receipt.id = A(slot)[k].id /\ receipt.outcome = Outcome(confirmed)
  BY DEF Receipt
<1> HIDE DEF receipt, d, doc, A, B
<1>7. PublishedReceipts(b) = PublishedReceipts(a) \cup (IF confirmed THEN {receipt} ELSE {})
  <2>1. Receipts(b) = Receipts(a) \cup {receipt}
    BY <1>1, <1>2 DEF Receipts
  <2> QED BY <1>6, <2>1 DEF PublishedReceipts, Outcome
<1>8. ASSUME NEW i \in Slots
      PROVE  /\ DOMAIN B(i) = DOMAIN A(i)
             /\ \A l \in DOMAIN A(i) :
                  /\ B(i)[l].id = A(i)[l].id
                  /\ i # slot \/ l # k => B(i)[l].published = A(i)[l].published
  BY <1>2, <1>3 DEF A, B
<1>9. k \in DOMAIN A(slot) /\ ~A(slot)[k].published /\ B(slot)[k].published = confirmed
  BY <1>1, <1>3 DEF A, d, doc
<1>10. /\ \A r \in PublishedReceipts(a) : \E i \in Slots : \E l \in DOMAIN A(i) : A(i)[l].published /\ A(i)[l].id = r.id
       /\ \A i \in Slots : \A l \in DOMAIN A(i) : A(i)[l].published =>
            \E r \in PublishedReceipts(a) : r.id = A(i)[l].id
       /\ \A r, q \in PublishedReceipts(a) : r.id = q.id => r = q
  BY DEF Receipted, PublishedAs, A
<1>11. \A r \in PublishedReceipts(b) : \E i \in Slots : \E l \in DOMAIN B(i) : B(i)[l].published /\ B(i)[l].id = r.id
  <2>1. ASSUME NEW r \in PublishedReceipts(a)
        PROVE  \E i \in Slots : \E l \in DOMAIN B(i) : B(i)[l].published /\ B(i)[l].id = r.id
    <3>0. PICK i \in Slots : \E l \in DOMAIN A(i) : A(i)[l].published /\ A(i)[l].id = r.id
      BY <1>10
    <3>1. PICK l \in DOMAIN A(i) : A(i)[l].published /\ A(i)[l].id = r.id
      BY <3>0
    <3>2. i # slot \/ l # k
      BY <1>9, <3>1
    <3>3. l \in DOMAIN B(i) /\ B(i)[l].published /\ B(i)[l].id = r.id
      BY <1>8, <3>1, <3>2
    <3> QED BY <3>3
  <2>2. confirmed => B(slot)[k].published /\ k \in DOMAIN B(slot) /\ B(slot)[k].id = receipt.id
    BY <1>6, <1>8, <1>9
  <2> QED BY <1>7, <2>1, <2>2
<1>12. ASSUME NEW i \in Slots, NEW l \in DOMAIN B(i), B(i)[l].published
       PROVE  \E r \in PublishedReceipts(b) : r.id = B(i)[l].id
  <2>1. CASE i = slot /\ l = k
    BY <1>6, <1>7, <1>8, <1>9, <1>12, <2>1
  <2>2. CASE i # slot \/ l # k
    <3>1. l \in DOMAIN A(i) /\ A(i)[l].published /\ A(i)[l].id = B(i)[l].id
      BY <1>8, <1>12, <2>2
    <3> QED BY <1>7, <1>10, <3>1
  <2> QED BY <2>1, <2>2
<1>13. \A r \in PublishedReceipts(a) : r.id # receipt.id
  <2> SUFFICES ASSUME NEW r \in PublishedReceipts(a), r.id = receipt.id PROVE FALSE
    OBVIOUS
  <2>0. PICK i \in Slots : \E l \in DOMAIN A(i) : A(i)[l].published /\ A(i)[l].id = r.id
    BY <1>10
  <2>1. PICK l \in DOMAIN A(i) : A(i)[l].published /\ A(i)[l].id = r.id
    BY <2>0
  <2>2. WellArranged(Outlines(a), a[EvidenceDoc], Connection(a).passes)
    BY DEF SoundSite
  <2>3. i = slot /\ l = k
    BY <1>6, <1>9, <2>1, <2>2, ArrangedDetections DEF A
  <2> QED BY <1>9, <2>1, <2>3
<1>14. \A r, q \in PublishedReceipts(b) : r.id = q.id => r = q
  BY <1>7, <1>10, <1>13
<1>15. Receipted(b)
  BY <1>11, <1>12, <1>14 DEF Receipted, PublishedAs, B
<1> QED BY <1>2, <1>4, <1>5, <1>15

\* resolvePlay: a decision that commits knows the detection and the owner's receipts as
\* they are, for it writes both.
LEMMA ResolveKeepsSite ==
  ASSUME DiaryInv, SiteInv, NEW c \in OpenClients, tx[c].req.op \in {"confirm", "dismiss"},
         Resolvable(tx[c].snap, tx[c].req), NEW touched, touched \subseteq {FenceDoc},
         CommitTouching(c, Resolved(tx[c].snap, tx[c].req), touched)
  PROVE  SiteInv'
<1> DEFINE s == tx[c].snap
           req == tx[c].req
           t == Resolved(s, req)
           W == touched \cup Changed(s, t)
           confirmed == req.op = "confirm"
           doc == DetectionDoc(req.slot)
           owner == ReceiptsDoc("owner")
<1>1. c # Worker /\ SoundSite(s) /\ req.slot \in Slots /\ SoundSite(db) /\ Receipted(db) /\ DOMAIN db = DiaryDocs
  BY DEF SiteInv, TransactionsAreSound, SoundSite
<1>2. PICK k : Settles(s, t, req.slot, k, confirmed)
  <2> HIDE DEF s, req
  <2>1. Resolvable(s, req)
    BY DEF s, req
  <2> QED BY <1>1, <2>1, ResolvedSettles
<1>3. Committed(c, t, W)
  <2>1. DOMAIN t = DOMAIN db
    BY <1>1, ResolvedDocuments DEF SoundSite
  <2>2. touched \subseteq DOMAIN db
    BY <1>1, DocumentsExist
  <2> HIDE DEF t
  <2> QED BY <2>1, <2>2, CommitTouchingKeepsTransactions DEF DiaryInv, t
<1> HIDE DEF t
<1>4. /\ k \in DOMAIN s[doc].plays /\ s[doc].plays[k].publication \in Waiting
      /\ t[doc] = Settled(s[doc], k, confirmed)
      /\ \A x \in DOMAIN s : x # doc /\ x # owner => t[x] = s[x]
  BY <1>2, Zenon DEF Settles
<1>5. doc \in W /\ owner \in W
  <2>1. doc \in DOMAIN s /\ owner \in DOMAIN s
    BY <1>1, DocumentsExist DEF SoundSite
  <2>2. t[doc] # s[doc]
    <3>1. SoundDetection(s[doc])
      BY <1>1 DEF SoundSite
    <3>2. confirmed \in BOOLEAN
      OBVIOUS
    <3> HIDE DEF s, doc, confirmed
    <3> QED BY <1>4, <3>1, <3>2, SettledIsSound
  <2>3. t[owner] # s[owner]
    <3> HIDE DEF s, req, owner
    <3> QED BY <1>2 DEF Settles, owner
  <2> QED BY <2>1, <2>2, <2>3 DEF Changed
<1>6. s[doc] = db[doc] /\ db'[doc] = t[doc] /\ s[owner] = db[owner] /\ db'[owner] = t[owner]
  <2> HIDE DEF W
  <2> QED BY <1>3, <1>5 DEF Committed
<1>7. \A x \in DOMAIN db : x # doc /\ x # owner => db'[x] = db[x]
  <2> SUFFICES ASSUME NEW x \in DOMAIN db, x # doc, x # owner PROVE db'[x] = db[x]
    OBVIOUS
  <2>1. t[x] = s[x]
    BY <1>1, <1>4 DEF SoundSite
  <2> HIDE DEF W
  <2> QED BY <1>3, <2>1 DEF Committed
<1>8. Settles(db, db', req.slot, k, confirmed)
  <2> HIDE DEF s, req, confirmed
  <2> QED BY <1>2, <1>6, <1>7 DEF Settles
<1>9. DOMAIN db' = DiaryDocs
  BY <1>1, <1>3 DEF Committed
<1>10. /\ SoundSite(db') /\ Receipted(db') /\ Outlines(db') = Outlines(db)
      /\ db'[EvidenceDoc] = db[EvidenceDoc]
  BY <1>1, <1>8, <1>9, SettledKeepsSite
<1>11. TransactionsAreSound'
  <2>1. FallBehind(OpenClients \ {c}, W)
    BY <1>3 DEF Committed
  <2> HIDE DEF W
  <2> QED BY <1>10, <2>1, OthersStaySound DEF SiteInv
<1> QED BY <1>10, <1>11 DEF SiteInv

(***************************************************************************)
(* Every step                                                              *)
(***************************************************************************)
\* What a transaction asks for.
Requests(x, req) ==
  \/ x = Worker /\ req.op = "detect"
  \/ x # Worker /\ req.op \in {"confirm", "dismiss"} /\ req.slot \in Slots

\* A transaction begins, again or for the first time, or ends without a commit.
LEMMA FreshKeepsSite ==
  ASSUME SiteInv, db' = db,
         \A x \in OpenClients' :
           \/ x \in OpenClients /\ tx'[x] = tx[x]
           \/ tx'[x].snap = db /\ Requests(x, tx'[x].req)
  PROVE  SiteInv'
<1>1. \A c \in OpenClients' : SoundSite(tx'[c].snap)
  BY DEF SiteInv, TransactionsAreSound
<1>2. \A c \in OpenClients' \ {Worker} : tx'[c].req.op \in {"confirm", "dismiss"} /\ tx'[c].req.slot \in Slots
  BY DEF SiteInv, TransactionsAreSound, Requests
<1>3. Worker \in OpenClients' =>
        /\ tx'[Worker].req.op = "detect" /\ Outlines(tx'[Worker].snap) = Outlines(db')
        /\ tx'[Worker].snap[EvidenceDoc] \subseteq db'[EvidenceDoc]
  BY DEF SiteInv, TransactionsAreSound, Requests
<1>4. TransactionsAreSound'
  BY <1>1, <1>2, <1>3 DEF TransactionsAreSound
<1>5. SoundSite(db') /\ Receipted(db')
  BY DEF SiteInv
<1> QED BY <1>4, <1>5 DEF SiteInv

\* What open transactions ask for.
LEMMA OpenRequests ==
  ASSUME SiteInv, NEW c \in OpenClients
  PROVE  Requests(c, tx[c].req)
BY DEF SiteInv, TransactionsAreSound, Requests

\* The owner's requests and the passes: they begin, end, and begin again.
LEMMA RequestsKeepSite ==
  ASSUME DiaryInv, SiteInv, NEW c \in Client,
         \/ BeginDetect
         \/ \E op \in {"confirm", "dismiss"}, i \in Slots : BeginResolve(c, op, i)
         \/ Confirm(c) \/ Dismiss(c) \/ RefuseResolve(c) \/ Again(c)
  PROVE  SiteInv'
<1>1. Transactions
  BY DEF DiaryInv
<1>2. ASSUME NEW x \in Client, NEW request, Begin(x, request), Requests(x, request)
      PROVE  SiteInv'
  <2>1. /\ db' = db /\ OpenClients' = OpenClients \cup {x}
        /\ tx'[x] = Fresh(request) /\ \A y \in OpenClients : tx'[y] = tx[y]
    BY <1>1, <1>2, BeginKeepsTransactions
  <2>2. Fresh(request).snap = db /\ Fresh(request).req = request
    BY DEF Fresh
  <2> QED BY <1>2, <2>1, <2>2, FreshKeepsSite
<1>3. CASE BeginDetect
  <2>1. Requests(Worker, [op |-> "detect"])
    BY DEF Requests
  <2> QED BY <1>2, <1>3, <2>1, AutoDiaryAssumption DEF BeginDetect
<1>4. CASE \E op \in {"confirm", "dismiss"}, i \in Slots : BeginResolve(c, op, i)
  <2>1. PICK op \in {"confirm", "dismiss"}, i \in Slots : BeginResolve(c, op, i)
    BY <1>4
  <2>2. PICK id : c # Worker /\ Begin(c, [op |-> op, slot |-> i, id |-> id])
    BY <2>1 DEF BeginResolve
  <2>3. Requests(c, [op |-> op, slot |-> i, id |-> id])
    BY <2>2 DEF Requests
  <2> QED BY <1>2, <2>2, <2>3
<1>5. CASE Confirm(c)
  <2>1. /\ c \in OpenClients /\ tx[c].req.op = "confirm" /\ Resolvable(tx[c].snap, tx[c].req)
        /\ CommitTouching(c, Resolved(tx[c].snap, tx[c].req), {FenceDoc})
    BY <1>5 DEF Confirm
  <2> QED BY <2>1, ResolveKeepsSite
<1>6. CASE Dismiss(c)
  <2>1. /\ c \in OpenClients /\ tx[c].req.op = "dismiss" /\ Resolvable(tx[c].snap, tx[c].req)
        /\ Commit(c, Resolved(tx[c].snap, tx[c].req))
    BY <1>6 DEF Dismiss
  <2>2. {} \cup Changed(tx[c].snap, Resolved(tx[c].snap, tx[c].req))
          = Changed(tx[c].snap, Resolved(tx[c].snap, tx[c].req))
    OBVIOUS
  <2>3. CommitTouching(c, Resolved(tx[c].snap, tx[c].req), {})
    BY <2>1, <2>2 DEF Commit, CommitTouching
  <2> QED BY <2>1, <2>3, ResolveKeepsSite
<1>7. CASE RefuseResolve(c)
  <2>1. tx' = [x \in OpenClients \ {c} |-> tx[x]] /\ db' = db
    BY <1>7 DEF RefuseResolve, Abort
  <2> QED BY <1>1, <2>1, DropKeepsTransactions, FreshKeepsSite
<1>8. CASE Again(c)
  <2>1. /\ db' = db /\ c \in OpenClients /\ OpenClients' = OpenClients
        /\ tx'[c] = Fresh(tx[c].req) /\ \A y \in OpenClients \ {c} : tx'[y] = tx[y]
    BY <1>1, <1>8, RetryKeepsTransactions DEF Again
  <2>2. Fresh(tx[c].req).snap = db /\ Fresh(tx[c].req).req = tx[c].req
    BY DEF Fresh
  <2> QED BY <2>1, <2>2, OpenRequests, FreshKeepsSite
<1> QED BY <1>3, <1>4, <1>5, <1>6, <1>7, <1>8

\* A write outside any transaction that leaves the detections and the receipts alone.
LEMMA WriteKeepsSite ==
  ASSUME DiaryInv, SiteInv, NEW t, DOMAIN t = DOMAIN db,
         NEW touched, touched \subseteq DOMAIN db, WriteTouching(t, touched),
         \A d \in Detections \cup {ReceiptsDoc("worker"), ReceiptsDoc("owner")} : t[d] = db[d],
         t[ConnectionDoc] \in [state : {"active", "paused"}, enabledAt : Nat, passes : Nat],
         Connection(t).passes = Connection(db).passes,
         t[CatalogDoc] \in [mapped : BOOLEAN, baseline : {0, 1}],
         t[ClockDoc] \in Nat, t[EvidenceDoc] \in SUBSET Event, db[EvidenceDoc] \subseteq t[EvidenceDoc]
  PROVE  SiteInv'
<1>1. /\ db' = t /\ FallBehind(OpenClients, touched \cup Changed(db, t))
  BY WriteTouchingKeepsTransactions DEF DiaryInv, WriteTouching
<1>2. \A i \in Slots : t[DetectionDoc(i)] = db[DetectionDoc(i)]
  BY DocumentsExist
<1>3. Outlines(t) = Outlines(db)
  BY <1>2 DEF Outlines
<1>4. SoundSite(t)
  <2>1. WellArranged(Outlines(t), db[EvidenceDoc], Connection(t).passes)
    BY <1>3 DEF SiteInv, SoundSite
  <2>2. WellArranged(Outlines(t), t[EvidenceDoc], Connection(t).passes)
    BY <2>1, MoreEvidence
  <2>3. \A i \in Slots : SoundDetection(t[DetectionDoc(i)])
    BY <1>2 DEF SiteInv, SoundSite
  <2>4. DOMAIN t = DiaryDocs
    BY DEF DiaryInv
  <2> QED BY <2>2, <2>3, <2>4 DEF SoundSite
<1>5. Receipted(t)
  <2>1. PublishedReceipts(t) = PublishedReceipts(db)
    BY DEF PublishedReceipts, Receipts
  <2>2. Receipted(db)
    BY DEF SiteInv
  <2> QED BY <1>2, <2>1, <2>2 DEF Receipted
<1>6. TransactionsAreSound'
  <2> DEFINE W == touched \cup Changed(db, t)
  <2>1. FallBehind(OpenClients, W)
    BY <1>1
  <2> HIDE DEF W
  <2> QED BY <1>1, <1>3, <2>1, OthersStaySound DEF SiteInv
<1> QED BY <1>1, <1>4, <1>5, <1>6 DEF SiteInv

\* The same for a write of one document that is neither, or of a manual entry.
LEMMA PlainWriteKeepsSite ==
  ASSUME DiaryInv, SiteInv, NEW doc \in {ConnectionDoc, EvidenceDoc, CatalogDoc, ClockDoc} \cup Entries,
         NEW t, DOMAIN t = DOMAIN db, \A d \in DOMAIN db : d # doc => t[d] = db[d],
         NEW touched, touched \subseteq DOMAIN db, WriteTouching(t, touched),
         doc = ConnectionDoc =>
           /\ t[doc] \in [state : {"active", "paused"}, enabledAt : Nat, passes : Nat]
           /\ t[doc].passes = db[doc].passes,
         doc = CatalogDoc => t[doc] \in [mapped : BOOLEAN, baseline : {0, 1}],
         doc = ClockDoc => t[doc] \in Nat,
         doc = EvidenceDoc => t[doc] \in SUBSET Event /\ db[doc] \subseteq t[doc]
  PROVE  SiteInv'
<1>1. \A d \in Detections \cup {ReceiptsDoc("worker"), ReceiptsDoc("owner")} : d \in DOMAIN db /\ d # doc
  BY DocumentsExist, DocumentsDiffer, OwnerDiffers DEF DiaryInv, DiaryDocs
<1>2. \A d \in {ConnectionDoc, EvidenceDoc, CatalogDoc, ClockDoc} : d \in DOMAIN db
  BY DocumentsExist DEF DiaryInv
<1>3. /\ db[ConnectionDoc] \in [state : {"active", "paused"}, enabledAt : Nat, passes : Nat]
      /\ db[CatalogDoc] \in [mapped : BOOLEAN, baseline : {0, 1}]
      /\ db[ClockDoc] \in Nat /\ db[EvidenceDoc] \in SUBSET Event
  BY DEF SiteInv, SoundSite
<1>4. \A d \in Detections \cup {ReceiptsDoc("worker"), ReceiptsDoc("owner")} : t[d] = db[d]
  BY <1>1
<1>5. /\ t[ConnectionDoc] \in [state : {"active", "paused"}, enabledAt : Nat, passes : Nat]
      /\ t[ConnectionDoc].passes = db[ConnectionDoc].passes
  BY <1>2, <1>3
<1>6. t[CatalogDoc] \in [mapped : BOOLEAN, baseline : {0, 1}] /\ t[ClockDoc] \in Nat
  BY <1>2, <1>3
<1>7. t[EvidenceDoc] \in SUBSET Event /\ db[EvidenceDoc] \subseteq t[EvidenceDoc]
  BY <1>2, <1>3
<1> QED BY <1>4, <1>5, <1>6, <1>7, WriteKeepsSite DEF Connection

\* The kinds of documents that a write outside any transaction goes to.
LEMMA KindsDiffer ==
  /\ \A d \in Entries : d \notin {ConnectionDoc, EvidenceDoc, CatalogDoc, ClockDoc}
  /\ ConnectionDoc \notin {EvidenceDoc, CatalogDoc, ClockDoc}
  /\ EvidenceDoc # CatalogDoc /\ EvidenceDoc # ClockDoc /\ CatalogDoc # ClockDoc
  /\ FenceDoc \notin {ConnectionDoc, EvidenceDoc, CatalogDoc, ClockDoc}
<1>1. \A x, y : <<x>> = <<y>> => x = y
  OBVIOUS
<1>2. FenceDoc \notin {ConnectionDoc, EvidenceDoc, CatalogDoc, ClockDoc}
  BY <1>1 DEF ConnectionDoc, EvidenceDoc, CatalogDoc, ClockDoc, FenceDoc
<1> QED BY <1>2, DocumentsDiffer, OwnerDiffers

\* A write touches what it changes.
LEMMA WriteTouchesNothing == \A t : Write(t) => WriteTouching(t, {})
<1>1. \A t : {} \cup Changed(db, t) = Changed(db, t)
  OBVIOUS
<1> QED BY <1>1 DEF Write, WriteTouching

\* createListen, updateListen and deleteListen.
LEMMA EntriesKeepSite ==
  ASSUME DiaryInv, SiteInv, NEW m \in Manual,
         DeleteEntry(m) \/ \E date \in Date : LogEntry(m, date) \/ Redate(m, date)
  PROVE  SiteInv'
<1> DEFINE To(value) == [db EXCEPT ![ManualDoc(m)] = value]
<1>1. /\ ManualDoc(m) \in Entries /\ {} \subseteq DOMAIN db /\ {FenceDoc} \subseteq DOMAIN db
      /\ ManualDoc(m) \notin {ConnectionDoc, EvidenceDoc, CatalogDoc, ClockDoc}
  BY DocumentsExist, KindsDiffer DEF DiaryInv
<1>2. \A value : DOMAIN To(value) = DOMAIN db /\ \A d \in DOMAIN db : d # ManualDoc(m) => To(value)[d] = db[d]
  OBVIOUS
<1>3. PICK value : WriteTouching(To(value), {}) \/ WriteTouching(To(value), {FenceDoc})
  <2>1. \/ Write(To(NoEntry))
        \/ \E value : Write(To(value)) \/ WriteTouching(To(value), {FenceDoc})
    BY Zenon DEF DeleteEntry, LogEntry, Redate
  <2> HIDE DEF To
  <2> QED BY <2>1, WriteTouchesNothing
<1> HIDE DEF To
<1> QED BY <1>1, <1>2, <1>3, PlainWriteKeepsSite

\* The switches, the catalog, late scrobbles and the clock.
LEMMA SurroundingsKeepSite ==
  ASSUME DiaryInv, SiteInv,
         \/ \E on \in BOOLEAN : SetAutoDiary(on)
         \/ Pause \/ Resume \/ Remap \/ Rebase \/ Tick
         \/ \E e \in Event : Capture(e)
  PROVE  SiteInv'
<1>1. /\ db[ConnectionDoc] \in [state : {"active", "paused"}, enabledAt : Nat, passes : Nat]
      /\ db[CatalogDoc] \in [mapped : BOOLEAN, baseline : {0, 1}]
      /\ db[ClockDoc] \in Nat /\ db[EvidenceDoc] \in SUBSET Event
  BY DEF SiteInv, SoundSite
<1>2. /\ {ConnectionDoc, EvidenceDoc, CatalogDoc, ClockDoc} \subseteq DOMAIN db /\ {} \subseteq DOMAIN db
  BY DocumentsExist DEF DiaryInv
<1>3. ASSUME NEW c \in [state : {"active", "paused"}, enabledAt : Nat, passes : Nat],
             c.passes = db[ConnectionDoc].passes, Write([db EXCEPT ![ConnectionDoc] = c])
      PROVE  SiteInv'
  <2> DEFINE t == [db EXCEPT ![ConnectionDoc] = c]
  <2>1. /\ DOMAIN t = DOMAIN db /\ t[ConnectionDoc] = c
        /\ \A d \in DOMAIN db : d # ConnectionDoc => t[d] = db[d]
    BY <1>2
  <2>2. WriteTouching(t, {})
    BY <1>3, WriteTouchesNothing
  <2> HIDE DEF t
  <2> QED BY <1>2, <1>3, <2>1, <2>2, KindsDiffer, PlainWriteKeepsSite
<1>4. ASSUME NEW c \in [mapped : BOOLEAN, baseline : {0, 1}], Write([db EXCEPT ![CatalogDoc] = c])
      PROVE  SiteInv'
  <2> DEFINE t == [db EXCEPT ![CatalogDoc] = c]
  <2>1. /\ DOMAIN t = DOMAIN db /\ t[CatalogDoc] = c
        /\ \A d \in DOMAIN db : d # CatalogDoc => t[d] = db[d]
    BY <1>2
  <2>2. WriteTouching(t, {})
    BY <1>4, WriteTouchesNothing
  <2> HIDE DEF t
  <2> QED BY <1>2, <2>1, <2>2, KindsDiffer, PlainWriteKeepsSite
<1>5. ASSUME NEW on \in BOOLEAN, SetAutoDiary(on)
      PROVE  SiteInv'
  <2> DEFINE c == [db[ConnectionDoc] EXCEPT !.enabledAt = IF on THEN Now(db) ELSE 0]
  <2>1. Write([db EXCEPT ![ConnectionDoc] = c])
    BY <1>5 DEF SetAutoDiary
  <2>2. /\ c \in [state : {"active", "paused"}, enabledAt : Nat, passes : Nat]
        /\ c.passes = db[ConnectionDoc].passes
    BY <1>1 DEF Now
  <2> HIDE DEF c
  <2> QED BY <1>3, <2>1, <2>2
<1>6. CASE Pause \/ Resume
  <2> DEFINE To(state) == [db[ConnectionDoc] EXCEPT !.state = state]
  <2>1. PICK state \in {"active", "paused"} : Write([db EXCEPT ![ConnectionDoc] = To(state)])
    BY <1>6 DEF Pause, Resume
  <2>2. /\ To(state) \in [state : {"active", "paused"}, enabledAt : Nat, passes : Nat]
        /\ To(state).passes = db[ConnectionDoc].passes
    BY <1>1
  <2> HIDE DEF To
  <2> QED BY <1>3, <2>1, <2>2
<1>7. CASE Remap
  <2> DEFINE c == [db[CatalogDoc] EXCEPT !.mapped = ~@]
  <2>1. Write([db EXCEPT ![CatalogDoc] = c])
    BY <1>7 DEF Remap
  <2>2. c \in [mapped : BOOLEAN, baseline : {0, 1}]
    BY <1>1
  <2> HIDE DEF c
  <2> QED BY <1>4, <2>1, <2>2
<1>8. CASE Rebase
  <2> DEFINE c == [db[CatalogDoc] EXCEPT !.baseline = 1 - @]
  <2>1. Write([db EXCEPT ![CatalogDoc] = c])
    BY <1>8 DEF Rebase
  <2>2. c \in [mapped : BOOLEAN, baseline : {0, 1}]
    BY <1>1
  <2> HIDE DEF c
  <2> QED BY <1>4, <2>1, <2>2
<1>9. CASE Tick
  <2> DEFINE To(now) == [db EXCEPT ![ClockDoc] = now]
  <2>1. PICK i \in DOMAIN Moments \ {1} : Write(To(Moments[i]))
    BY <1>9 DEF Tick
  <2>2. Moments[i] \in Nat
    BY AutoDiaryAssumption, ElementOfSeq, LenProperties
  <2>3. /\ DOMAIN To(Moments[i]) = DOMAIN db /\ To(Moments[i])[ClockDoc] = Moments[i]
        /\ \A d \in DOMAIN db : d # ClockDoc => To(Moments[i])[d] = db[d]
    BY <1>2
  <2>4. WriteTouching(To(Moments[i]), {})
    BY <2>1, WriteTouchesNothing
  <2> HIDE DEF To
  <2> QED BY <1>2, <2>2, <2>3, <2>4, KindsDiffer, PlainWriteKeepsSite
<1>10. ASSUME NEW e \in Event, Capture(e)
       PROVE  SiteInv'
  <2> DEFINE t == [db EXCEPT ![EvidenceDoc] = @ \cup {e}]
  <2>1. WriteTouching(t, {})
    BY <1>10, WriteTouchesNothing DEF Capture
  <2>2. /\ DOMAIN t = DOMAIN db /\ t[EvidenceDoc] = db[EvidenceDoc] \cup {e}
        /\ \A d \in DOMAIN db : d # EvidenceDoc => t[d] = db[d]
    BY <1>2
  <2>3. t[EvidenceDoc] \in SUBSET Event /\ db[EvidenceDoc] \subseteq t[EvidenceDoc]
    BY <1>1, <2>2
  <2> HIDE DEF t
  <2> QED BY <1>2, <2>1, <2>2, <2>3, KindsDiffer, PlainWriteKeepsSite
<1> QED BY <1>5, <1>6, <1>7, <1>8, <1>9, <1>10

\* Every step keeps the site sound.
LEMMA StepsKeepSite ==
  ASSUME DiaryInv, SiteInv, [DiaryNext]_diaryVars
  PROVE  SiteInv'
<1>1. CASE UNCHANGED diaryVars
  <2>1. db' = db /\ tx' = tx
    BY <1>1 DEF diaryVars
  <2>2. \A x \in OpenClients' : x \in OpenClients /\ tx'[x] = tx[x]
    BY <2>1 DEF OpenClients
  <2> QED BY <2>1, <2>2, FreshKeepsSite
<1>2. CASE DiaryNext
  BY <1>2, DetectKeepsSite, RequestsKeepSite, EntriesKeepSite, SurroundingsKeepSite, AutoDiaryAssumption
     DEF DiaryNext
<1> QED BY <1>1, <1>2

\* At first nothing is stored.
LEMMA SiteStarts == DiaryInit => SiteInv
<1> SUFFICES ASSUME DiaryInit PROVE SiteInv
  OBVIOUS
<1>1. PICK scene \in Scenes : db = [d \in DiaryDocs |-> FirstValue(d, scene)]
  BY DEF DiaryInit
<1>2. tx = [c \in {} |-> {}]
  BY DEF DiaryInit
<1>3. /\ FirstValue(ConnectionDoc, scene) = [state |-> "active", enabledAt |-> scene.enabledAt, passes |-> 1]
      /\ FirstValue(EvidenceDoc, scene) = scene.captured
      /\ FirstValue(CatalogDoc, scene) = [mapped |-> TRUE, baseline |-> 0]
      /\ FirstValue(ClockDoc, scene) = Moments[1]
  <2>1. \A d \in {ConnectionDoc, EvidenceDoc, CatalogDoc, ClockDoc} :
          d # FenceDoc /\ d \notin Detections \cup Entries
    BY KindsDiffer, DocumentsDiffer
  <2>2. ConnectionDoc # EvidenceDoc /\ ConnectionDoc # CatalogDoc /\ ConnectionDoc # ClockDoc
        /\ EvidenceDoc # CatalogDoc /\ EvidenceDoc # ClockDoc /\ CatalogDoc # ClockDoc
    BY KindsDiffer
  <2>3. FirstValue(ConnectionDoc, scene) = [state |-> "active", enabledAt |-> scene.enabledAt, passes |-> 1]
    BY <2>1, <2>2 DEF FirstValue
  <2>4. FirstValue(EvidenceDoc, scene) = scene.captured
    BY <2>1, <2>2 DEF FirstValue
  <2>5. FirstValue(CatalogDoc, scene) = [mapped |-> TRUE, baseline |-> 0]
    BY <2>1, <2>2 DEF FirstValue
  <2>6. FirstValue(ClockDoc, scene) = Moments[1]
    BY <2>1, <2>2 DEF FirstValue
  <2> QED BY <2>3, <2>4, <2>5, <2>6
<1>4. \A i \in Slots : FirstValue(DetectionDoc(i), scene) = NoDetection
  <2> SUFFICES ASSUME NEW i \in Slots PROVE FirstValue(DetectionDoc(i), scene) = NoDetection
    OBVIOUS
  <2>1. /\ DetectionDoc(i) \in Detections /\ DetectionDoc(i) \notin Entries
        /\ DetectionDoc(i) \notin {ConnectionDoc, EvidenceDoc, CatalogDoc, ClockDoc, FenceDoc}
    BY DocumentsExist, DocumentsDiffer
  <2> QED BY <2>1 DEF FirstValue
<1>5. \A who \in {"worker", "owner"} : FirstValue(ReceiptsDoc(who), scene) = {}
  <2> SUFFICES ASSUME NEW who \in {"worker", "owner"} PROVE FirstValue(ReceiptsDoc(who), scene) = {}
    OBVIOUS
  <2>1. ReceiptsDoc(who) \notin {ConnectionDoc, EvidenceDoc, CatalogDoc, ClockDoc, FenceDoc} \cup Detections \cup Entries
    BY DocumentsDiffer, OwnerDiffers
  <2> QED BY <2>1 DEF FirstValue
<1>6. /\ db[ConnectionDoc] = [state |-> "active", enabledAt |-> scene.enabledAt, passes |-> 1]
      /\ db[EvidenceDoc] = scene.captured /\ db[CatalogDoc] = [mapped |-> TRUE, baseline |-> 0]
      /\ db[ClockDoc] = Moments[1] /\ \A i \in Slots : db[DetectionDoc(i)] = NoDetection
      /\ db[ReceiptsDoc("worker")] = {} /\ db[ReceiptsDoc("owner")] = {}
  BY <1>1, <1>3, <1>4, <1>5, DocumentsExist
<1>7. /\ DOMAIN db = DiaryDocs /\ Moments[1] \in Nat /\ scene.captured \subseteq Event /\ scene.enabledAt \in Nat
  <2>1. Len(Moments) \in Nat /\ Len(Moments) # 0
    BY AutoDiaryAssumption, EmptySeq, LenProperties
  <2>2. Moments[1] \in Nat
    BY <2>1, AutoDiaryAssumption, ElementOfSeq
  <2> QED BY <1>1, <2>2, AutoDiaryAssumption
<1>8. SoundDetection(NoDetection)
  BY NothingIsDocumented DEF SoundDetection
<1>9. WellArranged(Outlines(db), db[EvidenceDoc], Connection(db).passes)
  <2>1. Outline(NoDetection).events = {} /\ DOMAIN Outline(NoDetection).ids = {}
    BY NothingIsDocumented DEF Outline
  <2>2. \A i \in Slots : Outlines(db)[i].events = {} /\ DOMAIN Outlines(db)[i].ids = {}
    BY <1>6, <2>1, OutlineOf
  <2> QED BY <2>2 DEF WellArranged
<1>10. SoundSite(db)
  BY <1>6, <1>7, <1>8, <1>9 DEF SoundSite
<1>11. Receipted(db)
  <2>1. PublishedReceipts(db) = {} /\ \A i \in Slots : DOMAIN db[DetectionDoc(i)].plays = {}
    BY <1>6, NothingIsDocumented DEF PublishedReceipts, Receipts
  <2> QED BY <2>1 DEF Receipted
<1>12. TransactionsAreSound
  BY <1>2 DEF TransactionsAreSound, OpenClients
<1> QED BY <1>10, <1>11, <1>12 DEF SiteInv

(***************************************************************************)
(* What follows                                                            *)
(***************************************************************************)
\* A play that qualifies is credited with as many scrobbles as it takes.
LEMMA QualifiedHaveEnough ==
  ASSUME NEW E \in SUBSET Event, NEW k \in DOMAIN PlaysOf[E]
  PROVE  LET part == CreditedTo(PlaysOf[E][k])
         IN  /\ part \in SUBSET E /\ IsFiniteSet(part)
             /\ Qualified(PlaysOf[E][k]) => Required <= Cardinality(part)
<1> DEFINE play == PlaysOf[E][k]
           c == play.credited
           part == CreditedTo(play)
<1>1. /\ play \in PlayRecord /\ part \in SUBSET E
      /\ \A i, j \in DOMAIN c : c[i] = c[j] => i = j
      /\ Qualified(play) => Required <= Len(c)
  BY PlaysAreFine DEF FinePlays, FinePlay
<1> HIDE DEF play
<1>2. /\ Len(c) \in Nat /\ DOMAIN c = 1 .. Len(c) /\ c \in Seq(Event)
  BY <1>1, LenProperties DEF PlayRecord
<1>3. IsFiniteSet(part) /\ Cardinality(part) \in Nat
  BY <1>1, EventsAreFinite, FS_CardinalityType
<1>4. Len(c) <= Cardinality(part)
  <2> DEFINE f == [i \in 1 .. Len(c) |-> c[i]]
  <2>1. \A i \in 1 .. Len(c) : c[i] \in part
    BY <1>2 DEF CreditedTo
  <2>2. f \in Injection(1 .. Len(c), part)
    <3> HIDE DEF c, part
    <3> QED BY <1>1, <1>2, <2>1 DEF Injection, IsInjective, c
  <2>3. \A n \in Nat : Cardinality(1 .. n) = n
    BY FS_Interval
  <2> HIDE DEF f, c, part
  <2>4. Cardinality(1 .. Len(c)) <= Cardinality(part)
    BY <1>3, <2>2, FS_Injection
  <2> QED BY <1>2, <2>3, <2>4
<1> QED BY <1>1, <1>2, <1>3, <1>4, DetectionAssumption DEF play

\* The scrobbles that the plays behind a receipt are credited with.
Evidence(s, r) ==
  { e \in Event : \E i \in Slots : \E k \in DOMAIN s[DetectionDoc(i)].plays :
      LET d == s[DetectionDoc(i)]
      IN  d.plays[k].published /\ d.plays[k].id = r.id /\ e \in CreditedTo(PlaysOf[d.events][k]) }

\* They are captured scrobbles, enough of them, and no other receipt's.
LEMMA EvidenceIsApart ==
  ASSUME NEW s, SoundSite(s), Receipted(s), NEW r \in PublishedReceipts(s)
  PROVE  /\ Evidence(s, r) \in SUBSET s[EvidenceDoc] /\ s[EvidenceDoc] \in SUBSET Event
         /\ Required <= Cardinality(Evidence(s, r))
         /\ \A q \in PublishedReceipts(s) : q # r => Evidence(s, r) \cap Evidence(s, q) = {}
<1> DEFINE D(i) == s[DetectionDoc(i)]
           Of(i, k) == CreditedTo(PlaysOf[D(i).events][k])
           Backs(x, i, k) == D(i).plays[k].published /\ D(i).plays[k].id = x.id
<1>1. /\ \A i \in Slots : D(i).events \subseteq s[EvidenceDoc]
      /\ \A i, j \in Slots : i # j => D(i).events \cap D(j).events = {}
  BY ArrangedDetections DEF SoundSite
<1>2. s[EvidenceDoc] \in SUBSET Event /\ \A i \in Slots : Documented(D(i))
  BY DEF SoundSite, SoundDetection
<1>3. \A i \in Slots : \A k \in DOMAIN D(i).plays : D(i).events \in SUBSET Event /\ k \in DOMAIN PlaysOf[D(i).events]
  BY <1>2, PlaysAreFew
<1>4. \A i \in Slots : \A k \in DOMAIN D(i).plays :
        /\ Of(i, k) \in SUBSET D(i).events
        /\ D(i).plays[k].published => Required <= Cardinality(Of(i, k))
  <2> SUFFICES ASSUME NEW i \in Slots, NEW k \in DOMAIN D(i).plays
               PROVE  /\ Of(i, k) \in SUBSET D(i).events
                      /\ D(i).plays[k].published => Required <= Cardinality(Of(i, k))
    OBVIOUS
  <2>1. D(i).plays[k].published => Qualified(PlaysOf[D(i).events][k])
    BY <1>2 DEF Documented
  <2> HIDE DEF D
  <2> QED BY <1>3, <2>1, QualifiedHaveEnough
<1>5. ASSUME NEW i \in Slots, NEW k \in DOMAIN D(i).plays, NEW l \in DOMAIN D(i).plays, k # l
      PROVE  Of(i, k) \cap Of(i, l) = {}
  <2> HIDE DEF D
  <2> QED BY <1>3, <1>5, PlaysAreFine DEF FinePlays
<1>6. \A x : Evidence(s, x) = { e \in Event : \E i \in Slots : \E k \in DOMAIN D(i).plays :
                                  Backs(x, i, k) /\ e \in Of(i, k) }
  BY Zenon DEF Evidence
<1> HIDE DEF D, Of
<1>7. Evidence(s, r) \in SUBSET s[EvidenceDoc]
  BY <1>1, <1>4, <1>6
<1>8. Required <= Cardinality(Evidence(s, r))
  <2>1. PICK i \in Slots : PublishedAs(D(i), r.id)
    BY DEF Receipted, D
  <2>2. PICK k \in DOMAIN D(i).plays : Backs(r, i, k)
    BY <2>1 DEF PublishedAs
  <2>3. Of(i, k) \in SUBSET D(i).events /\ Required <= Cardinality(Of(i, k))
    BY <1>4, <2>2
  <2>4. Of(i, k) \in SUBSET Evidence(s, r)
    BY <1>1, <1>2, <1>6, <2>2, <2>3
  <2>5. IsFiniteSet(Evidence(s, r))
    BY <1>2, <1>7, EventsAreFinite
  <2>6. Cardinality(Of(i, k)) <= Cardinality(Evidence(s, r))
    BY <2>4, <2>5, FS_Subset
  <2>7. IsFiniteSet(Of(i, k)) /\ Cardinality(Of(i, k)) \in Nat /\ Cardinality(Evidence(s, r)) \in Nat
    BY <2>4, <2>5, FS_Subset, FS_CardinalityType
  <2>8. Required \in Nat
    BY DetectionAssumption
  <2> QED BY <2>3, <2>6, <2>7, <2>8
<1>9. ASSUME NEW q \in PublishedReceipts(s), NEW e \in Evidence(s, r), e \in Evidence(s, q)
      PROVE  q = r
  <2>1. PICK i \in Slots : \E k \in DOMAIN D(i).plays : Backs(r, i, k) /\ e \in Of(i, k)
    BY <1>6
  <2>2. PICK k \in DOMAIN D(i).plays : Backs(r, i, k) /\ e \in Of(i, k)
    BY <2>1
  <2>3. PICK j \in Slots : \E l \in DOMAIN D(j).plays : Backs(q, j, l) /\ e \in Of(j, l)
    BY <1>6, <1>9
  <2>4. PICK l \in DOMAIN D(j).plays : Backs(q, j, l) /\ e \in Of(j, l)
    BY <2>3
  <2>5. i = j
    BY <1>1, <1>4, <2>2, <2>4
  <2>6. k = l
    BY <1>5, <2>2, <2>4, <2>5
  <2>7. q.id = r.id
    BY <2>2, <2>4, <2>5, <2>6
  <2> QED BY <2>7 DEF Receipted
<1> QED BY <1>2, <1>7, <1>8, <1>9

\* So the published receipts need no more scrobbles than were captured.
LEMMA PublishedFit ==
  ASSUME NEW s, SoundSite(s), Receipted(s)
  PROVE  Required * Cardinality(PublishedReceipts(s)) <= Cardinality(s[EvidenceDoc])
<1> DEFINE P == PublishedReceipts(s)
           U == s[EvidenceDoc]
           part == [r \in P |-> Evidence(s, r)]
           some == [r \in P |-> CHOOSE e : e \in part[r]]
<1>1. Required \in Nat \ {0}
  BY DetectionAssumption
<1>2. U \in SUBSET Event
  BY DEF SoundSite
<1>3. IsFiniteSet(U)
  BY <1>2, EventsAreFinite
<1>4. /\ part \in [P -> SUBSET U] /\ \A r \in P : Required <= Cardinality(part[r])
      /\ \A r, q \in P : r # q => part[r] \cap part[q] = {}
  BY EvidenceIsApart
<1> HIDE DEF part, P, U
<1>5. \A r \in P : part[r] # {}
  <2>1. Cardinality({}) = 0
    BY FS_EmptySet
  <2> QED BY <1>1, <1>4, <2>1
<1>6. \A r \in P : some[r] \in part[r]
  BY <1>5
<1>7. some \in Injection(P, U)
  <2>1. some \in [P -> U]
    BY <1>4, <1>6
  <2>2. \A r, q \in P : some[r] = some[q] => r = q
    BY <1>4, <1>6
  <2> HIDE DEF some
  <2> QED BY <2>1, <2>2 DEF Injection, IsInjective
<1>8. IsFiniteSet(P) /\ Cardinality(P) \in Nat
  <2> HIDE DEF some
  <2> QED BY <1>3, <1>7, FS_Injection, FS_CardinalityType
<1> QED BY <1>1, <1>3, <1>4, <1>8, PartsFitIn DEF P, U

\* A sound site is typed as the code has it.
LEMMA SitesAreTyped == DiaryInv /\ SiteInv => DiaryTypeOK
<1> SUFFICES ASSUME DiaryInv, SiteInv PROVE DiaryTypeOK
  OBVIOUS
<1>1. SnapshotShape /\ SnapshotsAreCurrent
  BY DEF DiaryInv, Transactions
<1>2. ASSUME NEW i \in Stored(db)
      PROVE  LET d == db[DetectionDoc(i)] IN
             /\ d.events \subseteq db[EvidenceDoc] /\ d.held \in BOOLEAN
             /\ Len(d.plays) = Len(PlaysOf[d.events])
             /\ \A j \in Stored(db) \ {i} : d.events \cap db[DetectionDoc(j)].events = {}
             /\ \A k \in DOMAIN d.plays : d.plays[k].published =>
                  Cardinality({ r \in Receipts(db) : r.id = d.plays[k].id /\ r.outcome = "published" }) = 1
  <2> DEFINE d == db[DetectionDoc(i)]
             Of(k) == { r \in Receipts(db) : r.id = d.plays[k].id /\ r.outcome = "published" }
  <2>1. i \in Slots /\ Stored(db) \subseteq Slots
    BY DEF Stored
  <2>2. SoundSite(db) /\ Receipted(db)
    BY DEF SiteInv
  <2>3. d.held \in BOOLEAN /\ Len(d.plays) = Len(PlaysOf[d.events])
    BY <2>1, <2>2 DEF SoundSite, SoundDetection, Documented, DetectionRecords
  <2>4. d.events \subseteq db[EvidenceDoc] /\ \A j \in Stored(db) \ {i} : d.events \cap db[DetectionDoc(j)].events = {}
    BY <2>1, <2>2, ArrangedDetections DEF SoundSite
  <2>5. ASSUME NEW k \in DOMAIN d.plays, d.plays[k].published
        PROVE  Cardinality(Of(k)) = 1
    <3>1. PICK r \in PublishedReceipts(db) : r.id = d.plays[k].id
      BY <2>1, <2>2, <2>5 DEF Receipted
    <3>2. \A q \in Of(k) : q = r
      BY <2>2, <3>1 DEF Receipted, PublishedReceipts
    <3>3. r \in Of(k)
      BY <3>1 DEF PublishedReceipts
    <3> HIDE DEF Of
    <3>4. Of(k) = {r}
      BY <3>2, <3>3
    <3> QED BY <3>4, FS_Singleton
  <2> QED BY <2>3, <2>4, <2>5
<1> QED BY <1>1, <1>2 DEF DiaryTypeOK

\* The site is sound in every reachable state.
THEOREM SiteInvariance == DiarySpec => []SiteInv
<1>1. DiaryInv /\ SiteInv /\ [DiaryNext]_diaryVars => SiteInv'
  BY StepsKeepSite
<1> QED BY <1>1, SiteStarts, DiaryInvariance, PTL DEF DiarySpec

\* Detections, plays and receipts have the fields that detectionDocument and
\* publishConnection give them, stored sessions share no scrobble, and every published
\* play has one receipt: whatever was merged, split, held, confirmed and detected again.
THEOREM DiaryIsTyped == DiarySpec => []DiaryTypeOK
<1>1. DiaryInv /\ SiteInv => DiaryTypeOK
  BY SitesAreTyped
<1> QED BY <1>1, SiteInvariance, DiaryInvariance, PTL

\* What was played is in the diary once: for any scrobbles, gaps and sessions, the plays
\* that passes published or the owner confirmed never need more scrobbles than were
\* captured (planReconciliation holds a session that would lose a published play, and the
\* receipts keep a play from being published again).
THEOREM PublishedWerePlayed == DiarySpec => []PublishedPlaysWerePlayed
<1>1. SiteInv => PublishedPlaysWerePlayed
  BY PublishedFit DEF SiteInv, PublishedPlaysWerePlayed, PublishedReceipts
<1> QED BY <1>1, SiteInvariance, PTL
=============================================================================
