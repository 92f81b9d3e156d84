--------------------------- MODULE CatalogReviews ---------------------------
(***************************************************************************)
(* What moderators decide about one catalog album at one revision of it:   *)
(* its standard track list (a baseline) and the Last.fm name that stands   *)
(* for it (a mapping).  Both are bound to the album's catalogRevision.     *)
(* A correction leaves them behind; a filled cover or filled tracks carry  *)
(* them along.  Scrobbles are resolved through the mapping as they are     *)
(* captured, and again by the reprocess jobs that every decision enqueues. *)
(*                                                                         *)
(* The album is either there from the start, or published by the approval  *)
(* of a suggestion, together with the track list selected for it.          *)
(***************************************************************************)
EXTENDS SnapshotTransactions, Naturals, FiniteSets, TLC

CONSTANTS Event,           \* scrobbles with the name in question
          Request,         \* request ids (requestId, planHash)
          Scenes,          \* what a behaviour starts with, and how many requests of which kinds come
          MaxRevision      \* bound on the album's revisions

CatalogReviewsAssumption == MaxRevision \in Nat \ {0}

VARIABLES requests,        \* how many more will come
          covers,          \* cover fills that are still to be carried: the revisions they started from
          kinds            \* the kinds of requests of this behaviour
reviewVars == <<db, tx, requests, covers, kinds>>

Source == {"moderation", "baseline", "catalog", "stale"}       \* who enqueues reprocess jobs
Target == {"album", "submission"}
AlbumDoc   == <<"album">>
SubmissionDoc == <<"suggestion">>
HeadDoc(t) == <<"head", t>>
CandidateDoc(t, r) == <<"candidate", t, r>>
MappingDoc == <<"mapping">>
CaseDoc    == <<"case">>
EventDoc(e) == <<"event", e>>
JobsDoc(s) == <<"jobs", s>>                \* the keys of its jobs
DoneDoc(s) == <<"done", s>>                \* those that are done

Unpublished  == [rev |-> 0, meta |-> 0, tracks |-> FALSE, cover |-> FALSE]
\* A head and its active baseline, which are only written together; [at, meta] are
\* the baseline's catalogRevision and, for the properties, what its reviewer saw.
NoHead   == [status |-> "none", rev |-> 0, target |-> 0, chosen |-> FALSE,
             at |-> 0, meta |-> 0, applied |-> [r \in {} |-> ""]]
\* [meta, checked] of a mapping are for the properties: what the album said when its
\* reviewer decided, and whether moderate compared the revision with that.
NoMapping == [status |-> "none", rev |-> 0, at |-> 0, meta |-> 0, checked |-> FALSE]
\* The candidate is the album at the revision at which it was found, 0 while it is not
\* among the candidates; asked, that a refresh of an approved case waits for discovery.
NoCase    == [status |-> "none", rev |-> 0, candidate |-> 0, asked |-> FALSE]
Fresh     == [resolution |-> "absent", rev |-> 0, at |-> 0]

Album(s)  == s[AlbumDoc]
Head(s, t) == s[HeadDoc(t)]
Exists(s, t) == IF t = "album" THEN Album(s).rev > 0 ELSE s[SubmissionDoc].status = "pending"
TargetRevision(s, t) == IF t = "album" THEN Album(s).rev ELSE s[SubmissionDoc].rev
\* activeBaselineFor
Usable(s) ==
  LET h == Head(s, "album") IN h.status = "reviewed" /\ h.target = Album(s).rev /\ h.at = Album(s).rev
Stale(s) == s[MappingDoc].status = "active" /\ s[MappingDoc].at # Album(s).rev

Pending(s, src) == s[JobsDoc(src)] \ s[DoneDoc(src)]
LastOnly(s, src, token) == [s EXCEPT ![JobsDoc(src)] = {<<s[MappingDoc].rev, token>>}]     \* slip: one key for all
Enqueue(s, src, token) == [s EXCEPT ![JobsDoc(src)] = @ \cup {<<s[MappingDoc].rev, token>>}]
EnqueueReprocess(s, token) ==
  IF s[MappingDoc].status = "active" THEN Enqueue(s, "baseline", token) ELSE s

Requested(kind) ==
  /\ kind \in kinds /\ requests > 0 /\ requests' = requests - 1
  /\ UNCHANGED <<covers, kinds>>
Quietly == UNCHANGED <<requests, covers, kinds>>
Running(c, op) == c \in OpenClients /\ tx[c].req.op = op

(***************************************************************************)
(* Track lists                                                             *)
(***************************************************************************)
\* storeCandidate, of a preview or a recommendation; and its expiry.
Preview(t) ==
  LET d == CandidateDoc(t, TargetRevision(db, t)) IN
  /\ "preview" \in kinds /\ Exists(db, t) /\ db[d] = "none"
  /\ Write([db EXCEPT ![d] = "stored"]) /\ Quietly
\* Candidates of an earlier revision are not asked for again.
Expire(t) ==
  LET d == CandidateDoc(t, TargetRevision(db, t)) IN
  /\ "preview" \in kinds /\ Exists(db, t) /\ db[d] = "stored"
  /\ Write([db EXCEPT ![d] = "none"]) /\ Quietly

\* The next head: one more revision and one more audit entry.
Decided(s, t, id, action, fields) ==
  [s EXCEPT ![HeadDoc(t)] = [fields EXCEPT !.rev = Head(s, t).rev + 1,
                                           !.applied = (id :> action) @@ Head(s, t).applied]]
Allowed(s, t, action) ==
  LET h == Head(s, t)
      current == h.status = "reviewed" /\ h.target = TargetRevision(s, t)
  IN  CASE action = "confirm" -> ~current
        [] action = "defer"   -> ~current
        [] action = "replace" -> h.status = "reviewed"
        [] action = "revoke"  -> TRUE
\* performCommand. Empty tracks are filled from the candidate: that is a new
\* catalog revision, and the mappings of the old one come along.
Filled(s) ==
  LET r == Album(s).rev IN
  [s EXCEPT ![AlbumDoc] = [@ EXCEPT !.rev = r + 1, !.tracks = TRUE],
            ![MappingDoc] = IF @.status = "active" /\ @.at = r THEN [@ EXCEPT !.at = r + 1] ELSE @]
Performed(s, t, action, id) ==
  LET picks == action \in {"confirm", "replace"}
      r == TargetRevision(s, t)
      filled == IF picks /\ t = "album" /\ ~Album(s).tracks THEN Filled(s) ELSE s
      h == [Head(s, t) EXCEPT
              !.status = CASE picks -> "reviewed" [] action = "defer" -> "deferred" [] OTHER -> "revoked",
              !.target = TargetRevision(filled, t), !.chosen = picks,
              !.at = IF picks /\ t = "album" THEN TargetRevision(filled, t) ELSE 0,
              !.meta = IF picks /\ t = "album" THEN Album(s).meta ELSE 0]
      decided == Decided(filled, t, id, action, h)
      kept == IF picks THEN [decided EXCEPT ![CandidateDoc(t, r)] = "kept"] ELSE decided
  IN  IF t = "album" THEN EnqueueReprocess(kept, Head(s, t).rev + 1) ELSE kept
\* A request id that was applied is answered without a change. Here and below, only
\* requests are begun that their first snapshot lets through: the others leave no trace.
CommandAllowed(s, req) ==
  LET t == req.target IN
  /\ Exists(s, t) /\ req.id \notin DOMAIN Head(s, t).applied
  /\ req.targetRevision = TargetRevision(s, t) /\ req.revision = Head(s, t).rev
  /\ Allowed(s, t, req.action)
  /\ req.action \in {"confirm", "replace"} => s[CandidateDoc(t, req.targetRevision)] # "none"
BeginCommand(c, t, action, id) ==
  LET req == [op |-> "command", target |-> t, action |-> action, id |-> id,
              revision |-> Head(db, t).rev, targetRevision |-> TargetRevision(db, t)]
  IN  Requested("command") /\ CommandAllowed(db, req) /\ TargetRevision(db, t) < MaxRevision /\ Begin(c, req)
PerformCommand(c) ==
  /\ Running(c, "command") /\ CommandAllowed(tx[c].snap, tx[c].req)
  /\ Commit(c, Performed(tx[c].snap, tx[c].req.target, tx[c].req.action, tx[c].req.id)) /\ Quietly

\* queueEnrichmentCandidate, for the one candidate of an operator's plan.
QueueAllowed(s, id, r) ==
  LET h == Head(s, "album") IN
  /\ r = Album(s).rev /\ id \notin DOMAIN h.applied
  /\ h.status \notin {"reviewed", "stale"} /\ (h.status # "none" => h.target = r)
BeginQueue(c, id) ==
  /\ Requested("queue") /\ Exists(db, "album") /\ QueueAllowed(db, id, Album(db).rev)
  /\ Begin(c, [op |-> "queue", id |-> id, targetRevision |-> Album(db).rev])
QueueCandidate(c) ==
  /\ Running(c, "queue")
  /\ LET s == tx[c].snap  req == tx[c].req  r == req.targetRevision  h == Head(s, "album")
         d == CandidateDoc("album", r)
     IN  /\ QueueAllowed(s, req.id, r)
         /\ Commit(c, Decided([s EXCEPT ![d] = IF @ = "none" THEN "stored" ELSE @], "album", req.id, "queue",
                              [h EXCEPT !.status = "pending", !.target = r, !.chosen = TRUE]))
         /\ Quietly

(***************************************************************************)
(* Changes of the catalog                                                  *)
(***************************************************************************)
\* approveCatalogCorrection, for its part in this: the album moves on, and
\* invalidateAlbumBaseline marks a reviewed head of another revision stale.
Corrected(s) == [s EXCEPT ![AlbumDoc] = [@ EXCEPT !.rev = @ + 1, !.meta = @ + 1]]
Invalidated(s, c) ==
  LET h == Head(s, "album") IN
  IF h.status # "reviewed" \/ h.target = Album(s).rev THEN s
  ELSE EnqueueReprocess(
         Decided(s, "album", <<c, h.rev>>, "invalidate", [h EXCEPT !.status = "stale", !.at = 0, !.meta = 0]),
         h.rev + 1)
BeginCorrection(c) ==
  /\ Requested("correct") /\ Exists(db, "album") /\ Album(db).rev < MaxRevision
  /\ Begin(c, [op |-> "correct", revision |-> Album(db).rev])
ApplyCorrection(c) ==
  /\ Running(c, "correct")
  /\ tx[c].req.revision = Album(tx[c].snap).rev
  /\ Commit(c, Invalidated(Corrected(tx[c].snap), c)) /\ Quietly

\* The cover backfill's guarded update, and the transaction that carries the
\* reviews from the revision before it to the one after.
FillCover ==
  /\ "cover" \in kinds /\ Exists(db, "album") /\ ~Album(db).cover /\ Album(db).rev < MaxRevision
  /\ Write([db EXCEPT ![AlbumDoc] = [@ EXCEPT !.rev = @ + 1, !.cover = TRUE]])
  /\ covers' = covers \cup {Album(db).rev} /\ UNCHANGED <<requests, kinds>>
BeginCarry(c, from) ==
  /\ from \in covers /\ Begin(c, [op |-> "carry", from |-> from])
  /\ covers' = covers \ {from} /\ UNCHANGED <<requests, kinds>>
CarriesBaseline(s, h, from) == h.status = "reviewed" /\ h.target = from /\ h.at = from
MovesAll(m, from) == m.status = "active"                       \* slip: from whatever revision
CarriesMapping(m, from) == m.status = "active" /\ m.at = from
Carried(s, c, from) ==
  LET h == Head(s, "album")  m == s[MappingDoc]
      based == IF CarriesBaseline(s, h, from)
               THEN Decided(s, "album", <<c, h.rev>>, "carry_forward", [h EXCEPT !.target = from + 1, !.at = from + 1])
               ELSE s
  IN  IF CarriesMapping(m, from)
      THEN Enqueue([based EXCEPT ![MappingDoc].at = from + 1], "catalog", from + 1) ELSE based
CarryReviews(c) ==
  /\ Running(c, "carry")
  /\ LET s == tx[c].snap  from == tx[c].req.from
     IN Album(s).rev = from + 1 /\ Commit(c, Carried(s, c, from))
  /\ Quietly

(***************************************************************************)
(* A suggestion with a selected track list, and its publication            *)
(***************************************************************************)
ReviseSuggestion ==
  /\ Exists(db, "submission") /\ db[SubmissionDoc].rev < MaxRevision /\ Requested("publish")
  /\ Write([db EXCEPT ![SubmissionDoc].rev = @ + 1])
BeginApproval(c) ==
  /\ Requested("publish") /\ Exists(db, "submission")
  /\ Begin(c, [op |-> "publish", revision |-> db[SubmissionDoc].rev])
SelectedAt(s, r) == LET h == Head(s, "submission") IN h.status = "reviewed" /\ h.target = r /\ h.chosen
\* publishSubmissionBaseline: the selection becomes the album's baseline.
Published(s, c, r) ==
  LET album == [rev |-> 1, meta |-> r, tracks |-> SelectedAt(s, r), cover |-> FALSE]
      created == [s EXCEPT ![AlbumDoc] = album, ![SubmissionDoc].status = "approved"]
      sh == Head(s, "submission")
  IN  IF ~SelectedAt(s, r) THEN created
      ELSE Decided([created EXCEPT ![HeadDoc("submission")] =
                      [sh EXCEPT !.status = "revoked", !.chosen = FALSE, !.rev = @ + 1]],
                   "album", <<c, 0>>, "publish",
                   [NoHead EXCEPT !.status = "reviewed", !.target = 1, !.at = 1, !.meta = r])
ApproveSuggestion(c) ==
  /\ Running(c, "publish")
  /\ LET s == tx[c].snap  r == tx[c].req.revision
     IN  /\ Exists(s, "submission") /\ s[SubmissionDoc].rev = r
         /\ Commit(c, Published(s, c, r)) /\ Quietly

(***************************************************************************)
(* Mapping moderation and discovery                                        *)
(***************************************************************************)
Action == {"approve", "reject", "no_catalog_match", "revoke", "reconfirm", "refresh"}
Undecided == {"pending", "rejected", "no_catalog_match"}
\* A reconfirmation names the revision that was reviewed; an approval may do so.
\* Otherwise it is held to the case's candidate, and to nothing if there is none.
ExpectedRevision(s, req) ==
  IF req.named THEN req.catalogRevision ELSE s[CaseDoc].candidate
\* moderate: the moderator saw the album at the request's catalogRevision.
ModerationAllowed(s, req) ==
  LET m == s[MappingDoc]  st == s[CaseDoc].status
  IN  CASE req.action = "approve"   -> /\ st \in Undecided /\ Exists(s, "album")
                                       /\ ExpectedRevision(s, req) \in {0, Album(s).rev}
        [] req.action = "reconfirm" -> /\ st = "approved" /\ m.status = "active"
                                       /\ req.catalogRevision = Album(s).rev /\ m.at # Album(s).rev
        [] req.action = "revoke"    -> m.status = "active"
        [] req.action = "refresh"   -> st \in Undecided \cup {"approved"}
        [] OTHER                    -> st \in Undecided
CaseAfter(st, action) ==
  CASE action \in {"approve", "reconfirm"} -> "approved"
    [] action = "refresh" -> IF st = "approved" THEN "approved" ELSE "pending"
    [] action = "revoke"  -> "pending"
    [] action = "reject"  -> "rejected"
    [] OTHER              -> action
Moderated(s, req) ==
  LET m == s[MappingDoc]  action == req.action
      mapping == CASE action \in {"approve", "reconfirm"} ->
                        [status |-> "active", rev |-> m.rev + 1, at |-> Album(s).rev,
                         meta |-> req.meta, checked |-> ExpectedRevision(s, req) # 0]
                   [] action = "revoke" -> [m EXCEPT !.status = "revoked", !.rev = @ + 1]
                   [] OTHER -> m
      decided == [s EXCEPT ![MappingDoc] = mapping,
                           ![CaseDoc] = [@ EXCEPT !.status = CaseAfter(@, action), !.rev = @ + 1,
                                           !.asked = IF action = "refresh" THEN s[CaseDoc].status = "approved" ELSE @]]
  IN  IF mapping.rev = m.rev THEN decided ELSE Enqueue(decided, "moderation", 0)
BeginModeration(c, action, named) ==
  LET req == [op |-> "moderate", action |-> action, revision |-> db[CaseDoc].rev,
              named |-> named, catalogRevision |-> Album(db).rev, meta |-> Album(db).meta]
  IN  /\ action # "approve" => named = (action = "reconfirm")
      /\ Requested("moderate") /\ db[CaseDoc].rev > 0 /\ ModerationAllowed(db, req) /\ Begin(c, req)
Moderate(c) ==
  /\ Running(c, "moderate")
  /\ LET s == tx[c].snap  req == tx[c].req
     IN  s[CaseDoc].rev = req.revision /\ ModerationAllowed(s, req) /\ Commit(c, Moderated(s, req))
  /\ Quietly

\* discoveryJob, of a run that finds something else than what the case says: it may
\* close a pending case, reopen a closed one if the evidence has changed, and replaces
\* the candidate, if nobody decided since it read the case and searched the catalog.
AfterDiscovery(st, found) ==
  CASE st = "pending" -> {IF found THEN "pending" ELSE "no_catalog_match"}
    [] st \in {"rejected", "no_catalog_match"} -> {st, "pending"}
    [] OTHER -> {st}
BeginDiscovery(c, found, next) ==
  LET v == db[CaseDoc]  candidate == IF found THEN Album(db).rev ELSE 0 IN
  /\ v.rev > 0 /\ (v.status = "approved" => v.asked) /\ next \in AfterDiscovery(v.status, found)
  /\ (next # v.status \/ candidate # v.candidate) /\ Requested("discover")
  /\ Begin(c, [op |-> "discover", case |-> [v EXCEPT !.status = next, !.rev = @ + 1, !.candidate = candidate,
                                                    !.asked = FALSE]])
StoreDiscovery(c) ==
  /\ Running(c, "discover")
  /\ Commit(c, [tx[c].snap EXCEPT ![CaseDoc] = tx[c].req.case]) /\ Quietly

(***************************************************************************)
(* Scrobbles                                                               *)
(***************************************************************************)
\* resolveRow and reprocessJob's target.
Resolution(s) ==
  LET m == s[MappingDoc] IN
  IF m.status # "active" THEN [resolution |-> "unresolved", rev |-> 0, at |-> 0]
  ELSE IF Stale(s) THEN [resolution |-> "unavailable", rev |-> m.rev, at |-> 0]
  ELSE [resolution |-> "matched", rev |-> m.rev, at |-> m.at]
BeginCapture(c, e) ==
  /\ "capture" \in kinds /\ db[EventDoc(e)].resolution = "absent" /\ Begin(c, [op |-> "capture", event |-> e]) /\ Quietly
\* persistPage writes the mapping's fence, or counts the encounter on its case.
Fenced(s) == IF s[MappingDoc].status = "active" THEN {MappingDoc} ELSE {CaseDoc}
Capture(c) ==
  /\ Running(c, "capture")
  /\ LET s == tx[c].snap
         seen == [s EXCEPT ![EventDoc(tx[c].req.event)] = Resolution(s)]
         counted == IF s[MappingDoc].status = "active" \/ s[CaseDoc].rev > 0 THEN seen
                    ELSE [seen EXCEPT ![CaseDoc] = [NoCase EXCEPT !.status = "pending", !.rev = 1]]
     IN  CommitTouching(c, counted, Fenced(s))
  /\ Quietly

BeginReprocess(c, src, job) ==
  /\ "capture" \in kinds
  /\ job \in Pending(db, src) /\ job[1] = db[MappingDoc].rev
  /\ Begin(c, [op |-> "reprocess", source |-> src, job |-> job]) /\ Quietly
\* All of the mapping's scrobbles in one page. A crash between the page and the
\* job's completion only repeats the page.
Captured(s) == { e \in Event : s[EventDoc(e)].resolution # "absent" }
Reprocess(c) ==
  /\ Running(c, "reprocess")
  /\ LET s == tx[c].snap  job == tx[c].req.job
     IN  /\ job[1] = s[MappingDoc].rev
         /\ CommitTouching(c, [d \in { EventDoc(e) : e \in Captured(s) } |-> Resolution(s)]
                                @@ [s EXCEPT ![DoneDoc(tx[c].req.source)] = @ \cup {job}],
                           IF Captured(s) = {} THEN {} ELSE {MappingDoc})
  /\ Quietly
\* A job for another mapping revision has nothing to do.
SkipReprocess(src, job) ==
  /\ "capture" \in kinds
  /\ job \in Pending(db, src) /\ job[1] # db[MappingDoc].rev
  /\ Write([db EXCEPT ![DoneDoc(src)] = @ \cup {job}]) /\ Quietly
ScheduleStale ==
  /\ "capture" \in kinds /\ Stale(db) /\ <<db[MappingDoc].rev, Album(db).rev>> \notin db[JobsDoc("stale")]
  /\ Write(Enqueue(db, "stale", Album(db).rev)) /\ Quietly

\* A moderation is not retried: it begins when the page is read, and the fresh snapshot
\* is that of its transaction, which starts when the decision is sent.
RetryRequest(c) == c \in OpenClients /\ tx[c].req.op # "discover" /\ Retry(c) /\ Quietly
\* A request that nobody interfered with is let through, as when it was begun.
RefuseRequest(c) == c \in OpenClients /\ tx[c].missed # {} /\ Abort(c) /\ Quietly

(***************************************************************************)
(* The specification                                                       *)
(***************************************************************************)
Docs(album, suggestion, mapping, case, candidate) ==
  (AlbumDoc :> album) @@ (SubmissionDoc :> suggestion) @@ (MappingDoc :> mapping)
  @@ (CaseDoc :> case)
  @@ [d \in { HeadDoc(t) : t \in Target } |-> NoHead]
  @@ [d \in { CandidateDoc(t, r) : t \in Target, r \in 1..MaxRevision } |-> IF d[3] = 1 THEN candidate ELSE "none"]
  @@ [d \in { EventDoc(e) : e \in Event } |-> Fresh]
  @@ [d \in { JobsDoc(s) : s \in Source } \cup { DoneDoc(s) : s \in Source } |-> {}]
\* The states that the scenes name: an album alone, one with a mapping, a suggestion.
FirstAlbum(tracks) == [rev |-> 1, meta |-> 1, tracks |-> tracks, cover |-> FALSE]
NoSuggestion == [status |-> "none", rev |-> 0]
FirstMapping == [status |-> "active", rev |-> 1, at |-> 1, meta |-> 1, checked |-> TRUE]
FirstCase(candidate) == [status |-> "approved", rev |-> 1, candidate |-> candidate, asked |-> FALSE]
First(start) ==
  CASE start = "album"      -> { Docs(FirstAlbum(t), NoSuggestion, NoMapping, NoCase, "none") : t \in BOOLEAN }
    [] start = "mapped"     -> { Docs(FirstAlbum(t), NoSuggestion, FirstMapping, FirstCase(r), "stored") :
                                   t \in BOOLEAN, r \in {0, 1} }
    [] start = "suggestion" -> { Docs(Unpublished, [status |-> "pending", rev |-> 1], NoMapping, NoCase, "none") }
ReviewsInit ==
  /\ \E scene \in Scenes : db \in First(scene.start) /\ kinds = scene.kinds /\ requests = scene.requests
  /\ tx = [c \in {} |-> 0] /\ covers = {}

ReviewsNext ==
  \/ FillCover \/ ReviseSuggestion \/ ScheduleStale
  \/ \E t \in Target : Preview(t) \/ Expire(t)
  \/ \E src \in Source : \E job \in Pending(db, src) :
       SkipReprocess(src, job) \/ \E c \in Client : BeginReprocess(c, src, job)
  \/ \E c \in Client :
       \/ PerformCommand(c) \/ QueueCandidate(c) \/ ApplyCorrection(c) \/ CarryReviews(c)
       \/ ApproveSuggestion(c) \/ Moderate(c) \/ Capture(c) \/ Reprocess(c)
       \/ StoreDiscovery(c) \/ RetryRequest(c) \/ RefuseRequest(c)
       \/ BeginCorrection(c) \/ BeginApproval(c)
       \/ \E t \in Target, action \in {"confirm", "replace", "defer", "revoke"}, id \in Request :
            BeginCommand(c, t, action, id)
       \/ \E id \in Request : BeginQueue(c, id)
       \/ \E from \in covers : BeginCarry(c, from)
       \/ \E action \in Action, named \in BOOLEAN : BeginModeration(c, action, named)
       \/ \E found \in BOOLEAN, next \in Undecided \cup {"approved"} : BeginDiscovery(c, found, next)
       \/ \E e \in Event : BeginCapture(c, e)
ReviewsSpec == ReviewsInit /\ [][ReviewsNext]_reviewVars

(***************************************************************************)
(* Properties                                                              *)
(***************************************************************************)
CatalogReviewsTypeOK ==
  /\ Album(db) \in [rev: 0..(MaxRevision + 1), meta: Nat, tracks: BOOLEAN, cover: BOOLEAN]
  /\ \A t \in Target : /\ Head(db, t).status \in {"none", "pending", "reviewed", "stale", "deferred", "revoked"}
                       /\ Head(db, t).target \in 0..(MaxRevision + 1)
  /\ db[MappingDoc].status \in {"none", "active", "revoked"}
  /\ \A e \in Event : db[EventDoc(e)].resolution \in {"absent", "unresolved", "unavailable", "matched"}
  /\ \A s \in Source : db[DoneDoc(s)] \subseteq db[JobsDoc(s)]
  /\ SnapshotShape

MappingIsReviewed == db[MappingDoc].meta = Album(db).meta
InUse == db[MappingDoc].status = "active" /\ ~Stale(db)
\* A baseline that is in use was decided on what the album says now: only covers and
\* filled tracks have changed since.  So was a mapping whose reviewer's revision moderate
\* had something to compare with: every reconfirmed one, and the approved ones whose
\* request named the revision or whose album was a candidate of the case.
\* docs/LASTFM_SYNC.md:84 says of every one, "An approved mapping pins the catalog
\* revision it was reviewed against": of the others (moderation.js:346-348 skips the
\* comparison, AlbumMappings.jsx:262-265 leaves the revision out) that is false, for the
\* album may be corrected between the moderator's reading and the decision.
InUseMeansReviewed ==
  /\ Usable(db) => Head(db, "album").meta = Album(db).meta
  /\ InUse /\ db[MappingDoc].checked => MappingIsReviewed

\* Once the reprocess jobs are done, the scrobbles say what the mapping says: none
\* was captured past a decision that it did not see.
ScrobblesFollowTheMapping ==
  ~Stale(db) /\ (\A s \in Source : Pending(db, s) = {}) =>
    \A e \in Captured(db) : db[EventDoc(e)] = Resolution(db)
=============================================================================
