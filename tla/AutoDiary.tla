----------------------------- MODULE AutoDiary ------------------------------
(***************************************************************************)
(* The plays of one album that detection finds, and the diary entries that *)
(* are made of them: lib/listening/reconciliation.js and publication.js    *)
(* against manual entries, owner decisions, requests of the automatic      *)
(* diary, and scrobbles that arrive late.                                  *)
(*                                                                         *)
(* A detect pass is one transaction of the worker: it brings the stored    *)
(* detections in line with the sessions computed afresh, then decides      *)
(* every unpublished play.  It is fenced by a write to the connection, and *)
(* against manual entries by a write to the album's diary fence.           *)
(*                                                                         *)
(* The owner has saved a time zone, which the automatic diary requires,    *)
(* and the clock stops before the receipts and the detections expire.      *)
(* Deleting an automatic entry writes none of the documents kept here.     *)
(***************************************************************************)
EXTENDS SnapshotTransactions, DetectionRules, TLC

CONSTANTS Worker,          \* the client that runs detect passes
          Slots,           \* room for stored detections
          Manual,          \* manual diary entries of the album
          Date, Near,      \* their dates, and Near[e]: those within a day of a play that e opens
          Moments,         \* what the clock shows, increasing
          Recency,         \* publishRecencyMs
          Retention,       \* how long scrobbles are evidence
          Scenes           \* what a behaviour starts with, and how many requests of which kinds come

ASSUME AutoDiaryAssumption ==
  /\ Worker \in Client /\ Slots \subseteq Nat /\ Near \in [Event -> SUBSET Date] /\ Recency \in Nat
  /\ Moments \in Seq(Nat) /\ Moments # <<>>
  /\ \A scene \in Scenes : scene.captured \subseteq Event /\ scene.enabledAt \in Nat

VARIABLES requests,        \* how many more will come
          kinds            \* the kinds of requests of this behaviour
diaryVars == <<db, tx, requests, kinds>>

ConnectionDoc == <<"connection">>
FenceDoc == <<"fence">>                  \* DiaryAlbumFence
EvidenceDoc == <<"evidence">>            \* captured scrobbles
CatalogDoc == <<"catalog">>              \* mapping and baseline
ClockDoc == <<"clock">>
DetectionDoc(i) == <<"detection", i>>
ManualDoc(m) == <<"manual", m>>
ReceiptsDoc(who) == <<"receipts", who>>  \* by who wrote them

Detections == { DetectionDoc(i) : i \in Slots }
NoDetection == [events |-> {}, baseline |-> 0, held |-> FALSE, plays |-> <<>>]
NoEntry == [date |-> "none", moved |-> FALSE]
Stored(s) == { i \in Slots : s[DetectionDoc(i)] # NoDetection }
Now(s) == s[ClockDoc]
Connection(s) == s[ConnectionDoc]
Enabled(s) == Connection(s).enabledAt # 0
Receipts(s) == s[ReceiptsDoc("worker")] \cup s[ReceiptsDoc("owner")]

\* playEvidenceExpiry: the evidence of a play expires with the credited event
\* whose loss leaves fewer than Required.
EvidenceExpiry(play) ==
  At[play.credited[Len(play.credited) - Required + 1]] + Retention
Lapsed(s, play) == Qualified(play) /\ EvidenceExpiry(play) <= Now(s)

(***************************************************************************)
(* Reconciliation                                                          *)
(***************************************************************************)
Retained(s) == { e \in s[EvidenceDoc] : At[e] + Retention > Now(s) }
FreshSessions(s) == IF s[CatalogDoc].mapped THEN DetectSessions[Retained(s)] ELSE {}

\* slip: each stored detection alone with the sessions that share its events.
OneByOne(s) ==
  LET stored == Stored(s)  fresh == FreshSessions(s)
      Sharing(i) == { f \in fresh : f \cap s[DetectionDoc(i)].events # {} }
  IN  { [stored |-> {i}, fresh |-> Sharing(i)] : i \in stored }
      \cup { [stored |-> {}, fresh |-> {f}] : f \in fresh \ UNION { Sharing(i) : i \in stored } }
\* The groups of stored detections and fresh sessions that share events, directly
\* or through others.
EventsOf(s, g) == (UNION { s[DetectionDoc(i)].events : i \in g.stored }) \cup (UNION g.fresh)
Closed(s, all, g) ==
  /\ \A i \in all.stored \ g.stored : s[DetectionDoc(i)].events \cap EventsOf(s, g) = {}
  /\ \A f \in all.fresh \ g.fresh : f \cap EventsOf(s, g) = {}
Groups(s) ==
  LET all == [stored |-> Stored(s), fresh |-> FreshSessions(s)]
      closed == { g \in [stored : SUBSET all.stored, fresh : SUBSET all.fresh] :
                    (g.stored # {} \/ g.fresh # {}) /\ Closed(s, all, g) }
  IN  { g \in closed : \A h \in closed :
          h.stored \subseteq g.stored /\ h.fresh \subseteq g.fresh => h = g }

PublishedPlays(d) == { i \in DOMAIN d.plays : d.plays[i].published }
\* preservesPublished
Preserves(d, f) ==
  LET fresh == PlaysOf[f]  stored == PlaysOf[d.events]
  IN  \A i \in PublishedPlays(d) :
        i \in DOMAIN fresh /\ Qualified(fresh[i]) /\ FirstOf(fresh[i]) = FirstOf(stored[i])
OneToOne(g) == \E i \in g.stored, f \in g.fresh : g.stored = {i} /\ g.fresh = {f}

\* slip: a published session is replaced like any other.
ReplacesPublished(s, g) ==
  CASE g.stored = {} -> "insert"
    [] g.stored # {} /\ g.fresh = {} -> "hold"
    [] OTHER -> IF OneToOne(g) THEN "update" ELSE "replace"

\* planReconciliation, for one group: insert, hold, update or replace.
HowMany(groups) == MapThenSumSet(LAMBDA E : Cardinality(QualifiedPlays(E)), groups)
Treatment(s, g) ==
  LET D == { s[DetectionDoc(i)] : i \in g.stored }
      frozen  == \E d \in D : d.baseline # s[CatalogDoc].baseline
      expired == \E d \in D : ~(d.events \subseteq Retained(s))
  IN  CASE g.stored = {} -> "insert"
        [] g.stored # {} /\ (g.fresh = {} \/ frozen) -> "hold"
        [] OTHER ->
             IF \E d \in D : PublishedPlays(d) # {}
             THEN IF OneToOne(g) /\ \A d \in D, f \in g.fresh : Preserves(d, f) THEN "update" ELSE "hold"
             ELSE IF expired /\ HowMany(g.fresh) < HowMany({ d.events : d \in D }) THEN "hold"
             ELSE IF OneToOne(g) THEN "update" ELSE "replace"

\* detectionDocument: the session f, stored in place of d. A play keeps its id by its
\* ordinal, and its publication only while it starts with the same event.
Document(s, d, f) ==
  LET fresh == PlaysOf[f]  before == PlaysOf[d.events]
      Play(i) ==
        LET kept == i \in DOMAIN d.plays
            same == kept /\ FirstOf(before[i]) = FirstOf(fresh[i])
        IN  [id |-> IF kept THEN d.plays[i].id ELSE <<Connection(s).passes, FirstOf(fresh[i])>>,
             published |-> kept /\ d.plays[i].published,
             publication |-> IF same THEN d.plays[i].publication ELSE "none"]
  IN  [events |-> f, baseline |-> s[CatalogDoc].baseline, held |-> FALSE,
       plays |-> [i \in DOMAIN fresh |-> Play(i)]]

\* reconcileConnection, up to publication: every slot's next detection. What is kept
\* is held or updated in its slot; a session that is added takes one that is left.
Treated(s) == { [stored |-> g.stored, fresh |-> g.fresh, as |-> Treatment(s, g)] : g \in Groups(s) }
Added(groups) == UNION { g.fresh : g \in { h \in groups : h.as \in {"insert", "replace"} } }
Kept(groups) == UNION { g.stored : g \in { h \in groups : h.as # "replace" } }
Keep(s, groups, i) ==
  LET g == CHOOSE h \in groups : i \in h.stored
      d == s[DetectionDoc(i)]
  IN  IF g.as = "hold" THEN [d EXCEPT !.held = TRUE]
      ELSE Document(s, d, CHOOSE f \in g.fresh : TRUE)
Add(s, added, place, i) ==
  LET here == { f \in added : place[f] = i }
  IN  IF here = {} THEN NoDetection ELSE Document(s, NoDetection, CHOOSE f \in here : TRUE)
Reconciled(s) ==
  LET groups == Treated(s)  added == Added(groups)  kept == Kept(groups)
      place == CHOOSE p \in [added -> Slots \ kept] : \A f, h \in added : p[f] = p[h] => f = h
  IN  [i \in Slots |-> IF i \in kept THEN Keep(s, groups, i) ELSE Add(s, added, place, i)]

(***************************************************************************)
(* Publication                                                             *)
(***************************************************************************)
\* priorReceipt
Receipt(p, play, outcome) ==
  [id |-> p.id, first |-> FirstOf(play), qualifier |-> QualifierOf(play), outcome |-> outcome]
PriorReceipts(s, p, play) ==
  { r \in Receipts(s) : r.id = p.id \/ r.first = FirstOf(play) \/ r.qualifier = QualifierOf(play) }
NearbyEntries(s, play) == { m \in Manual : s[ManualDoc(m)].date \in Near[FirstOf(play)] }

\* nextPlayState, up to manualNearby, which reads the entries behind the fence.
Eligible(s, d, p, play) ==
  /\ Enabled(s) /\ ~p.published /\ Qualified(play) /\ PriorReceipts(s, p, play) = {}
  /\ ~d.held /\ ~Lapsed(s, play)
  /\ At[QualifierOf(play)] >= Connection(s).enabledAt
Asks(s, d, p, play) ==
  Eligible(s, d, p, play) /\ Now(s) - At[QualifierOf(play)] <= Recency
Publishes(s, d, p, play) ==
  Asks(s, d, p, play) /\ NearbyEntries(s, play) = {} /\ Connection(s).state = "active"
NextPublication(s, d, p, play) ==
  LET prior == PriorReceipts(s, p, play)
  IN  CASE ~Enabled(s) \/ ~Qualified(play) -> "none"
        [] Enabled(s) /\ Qualified(play) /\ prior # {} ->
             IF \E r \in prior : r.outcome = "dismissed" THEN "dismissed" ELSE "suppressed"
        [] Publishes(s, d, p, play) -> "published"
        [] Eligible(s, d, p, play) /\ ~Asks(s, d, p, play) -> "needs_confirmation"
        [] Asks(s, d, p, play) /\ NearbyEntries(s, play) # {} -> "manual_duplicate"
        [] OTHER -> "none"
NextPlay(s, d, i) ==
  LET p == d.plays[i]  next == NextPublication(s, d, p, PlaysOf[d.events][i])
  IN  IF p.published THEN p
      ELSE [p EXCEPT !.publication = next, !.published = (next = "published")]


Quietly == UNCHANGED <<requests, kinds>>

(***************************************************************************)
(* The detect job                                                          *)
(***************************************************************************)
PlaysWhere(s, D, C(_, _, _, _)) ==
  { x \in Slots \X (1 .. Cardinality(Event)) :
      x[2] \in DOMAIN D[x[1]].plays /\ C(s, D[x[1]], D[x[1]].plays[x[2]], PlaysOf[D[x[1]].events][x[2]]) }
Minted(s, d, p, play) == p.id[1] = Connection(s).passes

\* publishConnection, on the detections D that reconciliation has written.
DetectPass(s, D) ==
  LET receipts == { Receipt(D[x[1]].plays[x[2]], PlaysOf[D[x[1]].events][x[2]], "published") :
                      x \in PlaysWhere(s, D, Publishes) }
      Decided(d) == [d EXCEPT !.plays = [k \in DOMAIN d.plays |-> NextPlay(s, d, k)]]
      minted == PlaysWhere(s, D, Minted) # {}
  IN  [d \in DOMAIN s |->
         IF d \in Detections THEN Decided(D[d[2]])
         ELSE IF d = ReceiptsDoc("worker") THEN s[d] \cup receipts
         ELSE IF d = ConnectionDoc /\ minted THEN [s[d] EXCEPT !.passes = @ + 1]
         ELSE s[d]]
\* Two slips: only the album is fenced, or only the connection.
FencesEntriesOnly(s, D) == IF PlaysWhere(s, D, Asks) # {} THEN {FenceDoc} ELSE {}
FencesConnectionOnly(s, D) == {ConnectionDoc}
Touched(s, D) == {ConnectionDoc} \cup (IF PlaysWhere(s, D, Asks) # {} THEN {FenceDoc} ELSE {})

\* A pass that changes nothing is not begun: it leaves no trace.
BeginDetect ==
  /\ Worker \notin OpenClients
  /\ DetectPass(db, Reconciled(db)) # db
  /\ Begin(Worker, [op |-> "detect"]) /\ Quietly
Detect ==
  /\ Worker \in OpenClients
  /\ LET s == tx[Worker].snap  D == Reconciled(s)
     IN  CommitTouching(Worker, DetectPass(s, D), Touched(s, D))
  /\ Quietly

Requested(kind) ==
  kind \in kinds /\ requests > 0 /\ requests' = requests - 1 /\ UNCHANGED kinds

(***************************************************************************)
(* The owner                                                               *)
(***************************************************************************)
\* resolvePlay: confirm or dismiss a play that awaits its owner.
Resolvable(s, req) ==
  LET d == s[DetectionDoc(req.slot)]
  IN  \E i \in DOMAIN d.plays :
        LET p == d.plays[i]  play == PlaysOf[d.events][i]
        IN  /\ p.id = req.id /\ ~p.published
            /\ p.publication \in {"needs_confirmation", "manual_duplicate"}
            /\ PriorReceipts(s, p, play) = {}
            /\ req.op = "confirm" => ~Lapsed(s, play)
BeginResolve(c, op, slot) ==
  \E i \in DOMAIN db[DetectionDoc(slot)].plays :
    LET req == [op |-> op, slot |-> slot, id |-> db[DetectionDoc(slot)].plays[i].id]
    IN  c # Worker /\ Resolvable(db, req) /\ Begin(c, req) /\ Requested("resolve")

Resolved(s, req) ==
  LET d == s[DetectionDoc(req.slot)]
      i == CHOOSE k \in DOMAIN d.plays : d.plays[k].id = req.id
      confirmed == req.op = "confirm"
      outcome == IF confirmed THEN "published" ELSE "dismissed"
  IN  [s EXCEPT ![DetectionDoc(req.slot)].plays[i].publication = outcome,
                ![DetectionDoc(req.slot)].plays[i].published = confirmed,
                ![ReceiptsDoc("owner")] = @ \cup {Receipt(d.plays[i], PlaysOf[d.events][i], outcome)}]
\* readHolds: the catalog is read outside the transaction's snapshot.
HoldsNothing(s, d, catalog) ==
  /\ ~d.held /\ catalog.mapped /\ catalog.baseline = d.baseline
  /\ \A i \in DOMAIN d.plays : ~Lapsed(s, PlaysOf[d.events][i])
Dismiss(c) ==
  /\ c \in OpenClients /\ tx[c].req.op = "dismiss" /\ Resolvable(tx[c].snap, tx[c].req)
  /\ Commit(c, Resolved(tx[c].snap, tx[c].req)) /\ Quietly
Confirm(c) ==
  /\ c \in OpenClients /\ tx[c].req.op = "confirm"
  /\ LET s == tx[c].snap IN
     /\ Resolvable(s, tx[c].req)
     /\ \E now \in {s, db} : HoldsNothing(s, s[DetectionDoc(tx[c].req.slot)], now[CatalogDoc])
     /\ CommitTouching(c, Resolved(s, tx[c].req), {FenceDoc})
  /\ Quietly
RefuseResolve(c) == c # Worker /\ c \in OpenClients /\ tx[c].missed # {} /\ Abort(c) /\ Quietly
Again(c) == Retry(c) /\ Quietly

\* createListen writes the fence; updateListen and deleteListen only the entry.
LogEntry(m, date) ==
  /\ db[ManualDoc(m)] = NoEntry
  /\ WriteTouching([db EXCEPT ![ManualDoc(m)] = [date |-> date, moved |-> FALSE]], {FenceDoc})
  /\ Requested("entry")
Redate(m, date) ==
  /\ db[ManualDoc(m)].date \notin {"none", date}
  /\ Write([db EXCEPT ![ManualDoc(m)] = [date |-> date, moved |-> TRUE]]) /\ Requested("entry")
DeleteEntry(m) ==
  /\ db[ManualDoc(m)] # NoEntry
  /\ Write([db EXCEPT ![ManualDoc(m)] = NoEntry]) /\ Requested("entry")

\* setAutoDiary: switching on again starts a new window.
SetAutoDiary(on) ==
  /\ Enabled(db) # on /\ Requested("switch")
  /\ Write([db EXCEPT ![ConnectionDoc].enabledAt = IF on THEN Now(db) ELSE 0])
Pause ==
  /\ Connection(db).state = "active" /\ Requested("switch")
  /\ Write([db EXCEPT ![ConnectionDoc].state = "paused"])
Resume ==
  /\ Connection(db).state = "paused" /\ Requested("switch")
  /\ Write([db EXCEPT ![ConnectionDoc].state = "active"])

(***************************************************************************)
(* The surroundings                                                        *)
(***************************************************************************)
\* The mapping is revoked or approved again; the track list is replaced.
Remap == /\ Requested("catalog") /\ Write([db EXCEPT ![CatalogDoc].mapped = ~@])
Rebase == /\ Requested("catalog") /\ Write([db EXCEPT ![CatalogDoc].baseline = 1 - @])
\* A window of scrobbles is completed that made e visible, however late.
Capture(e) ==
  /\ Connection(db).state = "active" /\ e \notin db[EvidenceDoc] /\ At[e] <= Now(db)
  /\ Write([db EXCEPT ![EvidenceDoc] = @ \cup {e}]) /\ Quietly
Tick ==
  \E i \in DOMAIN Moments \ {1} :
    /\ Moments[i - 1] = Now(db)
    /\ Write([db EXCEPT ![ClockDoc] = Moments[i]]) /\ Quietly

Entries == { ManualDoc(m) : m \in Manual }
DiaryDocs ==
  {ConnectionDoc, EvidenceDoc, CatalogDoc, ClockDoc, FenceDoc}
    \cup Detections \cup Entries \cup { ReceiptsDoc(who) : who \in {"worker", "owner"} }
FirstValue(d, scene) ==
  CASE d = ConnectionDoc -> [state |-> "active", enabledAt |-> scene.enabledAt, passes |-> 1]
    [] d = EvidenceDoc -> scene.captured
    [] d = CatalogDoc -> [mapped |-> TRUE, baseline |-> 0]
    [] d = ClockDoc -> Moments[1]
    [] d = FenceDoc -> 0
    [] d \in Detections -> NoDetection
    [] d \in Entries -> NoEntry
    [] OTHER -> {}

DiaryInit ==
  \E scene \in Scenes :
    /\ db = [d \in DiaryDocs |-> FirstValue(d, scene)]
    /\ tx = [c \in {} |-> {}]
    /\ requests = scene.requests /\ kinds = scene.kinds
DiaryNext ==
  \/ BeginDetect \/ Detect
  \/ \E c \in Client :
       \/ \E op \in {"confirm", "dismiss"}, i \in Slots : BeginResolve(c, op, i)
       \/ Confirm(c) \/ Dismiss(c) \/ RefuseResolve(c) \/ Again(c)
  \/ \E m \in Manual : DeleteEntry(m) \/ \E date \in Date : LogEntry(m, date) \/ Redate(m, date)
  \/ \E on \in BOOLEAN : SetAutoDiary(on)
  \/ Pause \/ Resume \/ Remap \/ Rebase \/ Tick
  \/ \E e \in Event : Capture(e)
DiarySpec == DiaryInit /\ [][DiaryNext]_diaryVars

(***************************************************************************)
(* Properties                                                              *)
(***************************************************************************)
\* Detections, plays and receipts have the fields the code gives them, stored
\* sessions share no event, and every published play has one receipt.
DiaryTypeOK ==
  /\ SnapshotShape /\ SnapshotsAreCurrent
  /\ \A i \in Stored(db) : LET d == db[DetectionDoc(i)] IN
       /\ d.events \subseteq db[EvidenceDoc] /\ d.held \in BOOLEAN
       /\ Len(d.plays) = Len(PlaysOf[d.events])
       /\ \A j \in Stored(db) \ {i} : d.events \cap db[DetectionDoc(j)].events = {}
       /\ \A k \in DOMAIN d.plays : d.plays[k].published =>
            Cardinality({ r \in Receipts(db) : r.id = d.plays[k].id /\ r.outcome = "published" }) = 1

PassReceipts(s) == s[ReceiptsDoc("worker")]
\* What was played is in the diary once: however late scrobbles merge or split sessions,
\* and whatever is held, remapped, confirmed twice or deleted, the plays that were
\* published never need more scrobbles than were captured.
PublishedPlaysWerePlayed ==
  Required * Cardinality({ r \in Receipts(db) : r.outcome = "published" }) <= Cardinality(db[EvidenceDoc])

\* Only what qualified after the owner opted in enters the diary by itself, and nothing
\* does once the owner has switched it off or paused, even in the middle of a pass.
OptInIsNotAnImport ==
  \A r \in PassReceipts(db)' \ PassReceipts(db) :
    /\ Enabled(db) /\ Connection(db).state = "active"
    /\ At[r.qualifier] >= Connection(db).enabledAt
OptInSteps == [][OptInIsNotAnImport]_diaryVars

\* No automatic entry is added next to one that the owner logged for those days before
\* the pass committed. (An entry that was only moved there is not fenced.)
LoggedEntriesComeFirst ==
  \A r \in PassReceipts(db)' \ PassReceipts(db) : \A m \in Manual :
    LET entry == db[ManualDoc(m)] IN
    entry # NoEntry /\ entry.date \in Near[r.first] => entry.moved
LoggedSteps == [][LoggedEntriesComeFirst]_diaryVars

\* models/AutomaticListen.js:4: reprocessing cannot resurrect a dismissed entry. The
\* plays that the owner dismissed and those that a pass published afterwards never need
\* more scrobbles than were captured.
DismissedStaysDismissed ==
  Required * Cardinality(PassReceipts(db) \cup { r \in Receipts(db) : r.outcome = "dismissed" })
    <= Cardinality(db[EvidenceDoc])
=============================================================================
