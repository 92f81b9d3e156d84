---------------------------- MODULE Suggestions ----------------------------
(***************************************************************************)
(* Suggestions for the album catalog, from the contributor's form to the   *)
(* moderator's decision and the published album.                           *)
(*                                                                         *)
(* A suggestion proposes a new album or a correction of one.  What it says *)
(* is abstracted to the external references (a barcode, a provider's id)   *)
(* by which an album is identified: the duplicate checks and the unique    *)
(* index of the catalog are about them.  The track list that an approval   *)
(* publishes or invalidates is in CatalogReviews, genre suggestions are in *)
(* Genres; the contributor is never the moderator who decides.             *)
(***************************************************************************)
EXTENDS SnapshotTransactions, Naturals, FiniteSets

CONSTANTS Submission,      \* suggestions that may be made
          Moderator,       \* moderators' requests, each of which creates one album at most
          Contributor,     \* contributors' requests
          Ref,             \* external references
          Imported,        \* the album that the catalog starts with
          NoAlbum,
          MaxRevision,     \* bound on the revisions of a suggestion
          MaxCatalog,      \* bound on the revisions of an album
          MaxRequests      \* bound on requests

ASSUME SuggestionsAssumption ==
  /\ Client = Moderator \cup Contributor /\ Moderator \cap Contributor = {}
  /\ NoAlbum \notin Moderator \cup {Imported} /\ Imported \notin Moderator
  /\ MaxRevision \in Nat \ {0} /\ MaxCatalog \in Nat \ {0} /\ MaxRequests \in Nat

VARIABLES call,            \* what a request has read and not yet written
          requests

suggestionVars == <<db, tx, call, requests>>

Album    == Moderator \cup {Imported}    \* an album is named by the request that creates it
Revision == 1..MaxRevision
Decision == {"approved", "needs_changes", "rejected", "duplicate"}
Matching == {"pending", "needs_changes", "approved"}            \* slip: those that a duplicate may be of
Active   == {"pending", "needs_changes"}
Settled  == {"approved", "rejected", "duplicate", "withdrawn"}
SubmissionDoc(s)  == <<"submission", s>>
AlbumDoc(a)       == <<"album", a>>
RefDoc(r)         == <<"reference", r>>                  \* the entry of the unique index
NoteDoc(s, n, st) == <<"notification", <<s, n, st>>>>
SubmissionDocs == { SubmissionDoc(s) : s \in Submission }
AlbumDocs      == { AlbumDoc(a) : a \in Album }
RefDocs        == { RefDoc(r) : r \in Ref }
NoteDocs       == { NoteDoc(s, n, st) : s \in Submission, n \in Revision, st \in Decision }
CatalogDocs    == SubmissionDocs \cup AlbumDocs \cup RefDocs \cup NoteDocs

Unmade == [status |-> "absent", type |-> "new_album", rev |-> 0, refs |-> {}, flagged |-> FALSE,
           target |-> NoAlbum, base |-> 0, album |-> NoAlbum, published |-> "no", applied |-> {}]
NoEntry == [rev |-> 0, refs |-> {}]
Idle    == [pc |-> "idle"]

Requested == requests < MaxRequests /\ requests' = requests + 1

(***************************************************************************)
(* Duplicates                                                              *)
(***************************************************************************)
CatalogMatches(s, refs) == { a \in Album : s[AlbumDoc(a)].refs \cap refs # {} }
SubmissionMatches(s, refs, self) ==
  { x \in Submission \ {self} : s[SubmissionDoc(x)].status \in Active /\ s[SubmissionDoc(x)].refs \cap refs # {} }

(***************************************************************************)
(* The contributor                                                         *)
(***************************************************************************)
\* The next revision, as the form has it.
Composed(s, type, target, refs) ==
  LET sub == db[SubmissionDoc(s)]
  IN  [sub EXCEPT !.status = "pending", !.type = type, !.rev = sub.rev + 1, !.refs = refs, !.target = target,
         !.base = IF target = NoAlbum THEN 0 ELSE db[AlbumDoc(target)].rev,
         !.flagged = target = NoAlbum /\ (CatalogMatches(db, refs) # {} \/ SubmissionMatches(db, refs, s) # {})]

\* What the handler of a new suggestion or of a revision reads: the suggestion,
\* the target's revision, the possible duplicates. Here and below, a request about
\* a suggestion or an album that does not exist is refused and leaves no trace.
Compose(c, s, type, target, refs) ==
  /\ c \in Contributor /\ call[c] = Idle /\ Requested
  /\ LET sub == db[SubmissionDoc(s)]
     IN  /\ \/ sub.status = "absent"
            \/ sub.status = "needs_changes" /\ sub.type = type /\ sub.target = target
                 /\ sub.rev < MaxRevision
         /\ (target # NoAlbum) <=> (type = "catalog_correction")
         /\ target # NoAlbum => db[AlbumDoc(target)].rev > 0 /\ refs \cap db[AlbumDoc(target)].refs = {}
         /\ call' = [call EXCEPT ![c] =
              [pc |-> "composed", sub |-> s, seen |-> sub.rev, as |-> Composed(s, type, target, refs)]]
  /\ UNCHANGED <<db, tx>>

\* The write that follows: a creation, or a revision of what still needs changes
\* at the revision that was read.
Save(c) ==
  LET s == call[c].sub IN
  /\ call[c].pc = "composed"
  /\ db[SubmissionDoc(s)].rev = call[c].seen
  /\ db[SubmissionDoc(s)].status \in {"absent", "needs_changes"}
  /\ Write([db EXCEPT ![SubmissionDoc(s)] = call[c].as])
  /\ call' = [call EXCEPT ![c] = Idle] /\ UNCHANGED requests

\* A suggestion of which only the status changes.
Restated(t, s, st) == [t EXCEPT ![SubmissionDoc(s)] = [t[SubmissionDoc(s)] EXCEPT !.status = st]]

Withdraw(s) ==
  /\ db[SubmissionDoc(s)].status \in Active
  /\ Write(Restated(db, s, "withdrawn"))
  /\ UNCHANGED <<call, requests>>

(***************************************************************************)
(* The moderator                                                           *)
(***************************************************************************)
\* The moderation queue shows a revision; bulk approval sends it back.
LoadQueue(c, s) ==
  /\ c \in Moderator /\ call[c] = Idle /\ c \notin OpenClients /\ Requested
  /\ db[SubmissionDoc(s)].status = "pending"
  /\ call' = [call EXCEPT ![c] = [pc |-> "looked", sub |-> s, seen |-> db[SubmissionDoc(s)].rev]]
  /\ UNCHANGED <<db, tx>>

\* approveItem: what is possibly a duplicate needs a review of its own.
PlanItem(c) ==
  /\ call[c].pc = "looked"
  /\ LET sub == db[SubmissionDoc(call[c].sub)]
     IN  sub.status = "pending" /\ sub.rev = call[c].seen /\ ~sub.flagged
  /\ call' = [call EXCEPT ![c].pc = "planned"]
  /\ UNCHANGED <<db, tx, requests>>

\* The first half of approveAlbumSubmission, outside the transaction. The cover
\* may add the references of the release that it was found for.
Preliminary(c, s, expected, choice, confirm, found, applied) ==
  /\ db[SubmissionDoc(s)].status = "pending"
  /\ expected # 0 => db[SubmissionDoc(s)].rev = expected
  /\ choice # NoAlbum => db[AlbumDoc(choice)].rev > 0
  /\ choice # NoAlbum \/ db[SubmissionDoc(s)].type # "new_album" => found = {}
  /\ db[SubmissionDoc(s)].type # "new_album" => choice = NoAlbum /\ ~confirm
  /\ db[SubmissionDoc(s)].type = "new_album" => applied
  /\ call' = [call EXCEPT ![c] =
       [pc |-> "read",
        req |-> [op |-> "approve", sub |-> s, rev |-> db[SubmissionDoc(s)].rev,
                 choice |-> choice, confirm |-> confirm, found |-> found, applied |-> applied]]]
  /\ UNCHANGED <<db, tx>>
ReadToApprove(c, s, choice, confirm, found, applied) ==
  /\ c \in Moderator /\ call[c] = Idle /\ c \notin OpenClients /\ Requested
  /\ Preliminary(c, s, 0, choice, confirm, found, applied)
ReadInBulk(c, found) ==
  /\ call[c].pc = "planned" /\ UNCHANGED requests
  /\ Preliminary(c, call[c].sub, call[c].seen, NoAlbum, FALSE, found, TRUE)

BeginApproval(c) ==
  /\ call[c].pc = "read"
  /\ Begin(c, call[c].req)
  /\ call' = [call EXCEPT ![c] = Idle] /\ UNCHANGED requests

GiveUp(c) == /\ call[c] # Idle /\ call' = [call EXCEPT ![c] = Idle]
             /\ UNCHANGED <<db, tx, requests>>

Running(c, op) == c \in OpenClients /\ tx[c].req.op = op
Finish(c, t) == Commit(c, t) /\ UNCHANGED <<call, requests>>

\* The status, and the contributor's notification in the same transaction.
Announced(t, s, st) == [t EXCEPT ![NoteDoc(s, t[SubmissionDoc(s)].rev, st)] = TRUE]
Approved(t, s, a, kind, refs) ==
  Announced([t EXCEPT ![SubmissionDoc(s)] = [t[SubmissionDoc(s)] EXCEPT !.status = "approved", !.album = a,
                                                           !.published = kind, !.applied = refs]],
            s, "approved")

\* createCatalogAlbum; two albums with one reference collide in the index.
Entered(t, a, rev, refs) ==
  [d \in DOMAIN t |-> IF d = AlbumDoc(a) THEN [rev |-> rev, refs |-> refs]
                      ELSE IF d \in { RefDoc(r) : r \in refs } THEN a ELSE t[d]]
Created(t, a, refs) == Entered(t, a, 1, refs)

\* What was read before the cover was looked up is what is approved.
NotChecked(c, sub) == sub.status = "pending"                    \* slip: a later revision will do
StillAsRead(c, sub) == sub.status = "pending" /\ sub.rev = tx[c].req.rev

ApproveNewAlbum(c) ==
  /\ Running(c, "approve")
  /\ LET t == tx[c].snap  req == tx[c].req  s == req.sub  sub == t[SubmissionDoc(s)]
         refs == sub.refs \cup req.found
     IN  /\ sub.type = "new_album" /\ StillAsRead(c, sub)
         /\ IF req.choice = NoAlbum
            THEN /\ t[AlbumDoc(c)].rev = 0
                 /\ CatalogMatches(t, refs) = {}
                 /\ req.confirm \/ SubmissionMatches(t, refs, s) = {}
                 /\ Finish(c, Approved(Created(t, c, refs), s, c, "created", refs))
            ELSE /\ t[AlbumDoc(req.choice)].rev > 0
                 /\ Finish(c, Approved(t, s, req.choice, "linked", {}))

\* The patch of a correction adds references; the album moves one revision on.
ReplacingPatch(t, a, refs) == Entered(t, a, t[AlbumDoc(a)].rev + 1, refs)   \* slip: references are replaced
Corrected(t, a, refs)      == Entered(t, a, t[AlbumDoc(a)].rev + 1, t[AlbumDoc(a)].refs \cup refs)
ApproveCorrection(c) ==
  /\ Running(c, "approve")
  /\ LET t == tx[c].snap  req == tx[c].req  s == req.sub  sub == t[SubmissionDoc(s)]
         refs == IF req.applied THEN sub.refs ELSE {}
     IN  /\ sub.type = "catalog_correction" /\ StillAsRead(c, sub)
         /\ t[AlbumDoc(sub.target)].rev = sub.base
         /\ CatalogMatches(t, refs) \subseteq {sub.target}
         /\ t[AlbumDoc(sub.target)].rev < MaxCatalog
         /\ Finish(c, Approved(Corrected(t, sub.target, refs), s, sub.target, "corrected", refs))

\* Request changes, reject, mark as a duplicate. Every attempt of the driver is
\* held to the revision that the first one read.
BeginCommand(c, s, st, of) ==
  /\ c \in Moderator /\ call[c] = Idle /\ Requested /\ db[SubmissionDoc(s)].status # "absent"
  /\ Begin(c, [op |-> "command", sub |-> s, to |-> st, of |-> of, rev |-> db[SubmissionDoc(s)].rev])
  /\ UNCHANGED call
Command(c) ==
  /\ Running(c, "command")
  /\ LET t == tx[c].snap  req == tx[c].req  sub == t[SubmissionDoc(req.sub)]
     IN  /\ StillAsRead(c, sub)
         /\ req.to = "duplicate" => req.of # req.sub /\ t[SubmissionDoc(req.of)].status = "approved"
         /\ Finish(c, Announced(Restated(t, req.sub, req.to), req.sub, req.to))

RetryRequest(c) == Retry(c) /\ UNCHANGED <<call, requests>>
RefuseRequest(c) == Abort(c) /\ UNCHANGED <<call, requests>>

(***************************************************************************)
(* The specification                                                       *)
(***************************************************************************)
SuggestionsInit ==
  /\ db = [d \in CatalogDocs |-> IF d \in SubmissionDocs THEN Unmade
                                 ELSE IF d \in RefDocs THEN NoAlbum
                                 ELSE IF d \in NoteDocs THEN FALSE
                                 ELSE IF d = AlbumDoc(Imported) THEN [rev |-> 1, refs |-> {}] ELSE NoEntry]
  /\ tx = [c \in {} |-> 0]
  /\ call = [c \in Client |-> Idle]
  /\ requests = 0

Payload == { refs \in SUBSET Ref : Cardinality(refs) <= 1 }
SuggestionsNext ==
  \/ \E s \in Submission : Withdraw(s)
  \/ \E c \in Contributor : Save(c)
  \/ \E c \in Contributor, s \in Submission, refs \in Payload :
       \/ Compose(c, s, "new_album", NoAlbum, refs)
       \/ \E a \in Album : Compose(c, s, "catalog_correction", a, refs)
  \/ \E c \in Moderator :
       \/ PlanItem(c) \/ BeginApproval(c) \/ ApproveNewAlbum(c) \/ ApproveCorrection(c) \/ Command(c)
       \/ RetryRequest(c) \/ RefuseRequest(c)
       \/ \E found \in Payload : ReadInBulk(c, found)
       \/ \E s \in Submission :
            \/ LoadQueue(c, s)
            \/ \E a \in Album \cup {NoAlbum}, confirm, applied \in BOOLEAN, found \in Payload :
                 ReadToApprove(c, s, a, confirm, found, applied)
            \/ \E st \in {"needs_changes", "rejected"} : BeginCommand(c, s, st, s)
            \/ \E of \in Submission \ {s} : BeginCommand(c, s, "duplicate", of)
  \/ \E c \in Client : GiveUp(c)

SuggestionsSpec == SuggestionsInit /\ [][SuggestionsNext]_suggestionVars

(***************************************************************************)
(* Properties                                                              *)
(***************************************************************************)
SubmissionType ==
  [status: {"absent", "pending", "needs_changes"} \cup Settled, type: {"new_album", "catalog_correction"},
   rev: 0..MaxRevision, refs: SUBSET Ref, flagged: BOOLEAN, target: Album \cup {NoAlbum},
   base: 0..MaxCatalog, album: Album \cup {NoAlbum}, published: {"no", "created", "linked", "corrected"},
   applied: SUBSET Ref]
SuggestionsTypeOK ==
  /\ \A s \in Submission : db[SubmissionDoc(s)] \in SubmissionType
  /\ \A a \in Album : db[AlbumDoc(a)] \in [rev: 0..MaxCatalog, refs: SUBSET Ref]
  /\ SnapshotShape

Sub(s) == db[SubmissionDoc(s)]

\* The catalog keeps its word: what was approved is in the album that the
\* suggestion names, every album but the imported one was created by exactly one
\* approval, and no reference identifies two albums.
CatalogKeepsItsWord ==
  /\ \A s \in Submission : Sub(s).status = "approved" =>
       /\ db[AlbumDoc(Sub(s).album)].rev > 0
       /\ Sub(s).applied \subseteq db[AlbumDoc(Sub(s).album)].refs
  /\ \A a \in Moderator : Cardinality({ s \in Submission : Sub(s).published = "created" /\ Sub(s).album = a })
                            = IF db[AlbumDoc(a)].rev > 0 THEN 1 ELSE 0
  /\ \A a, b \in Album : a # b => db[AlbumDoc(a)].refs \cap db[AlbumDoc(b)].refs = {}

\* The contributor was told of every decision about a revision, and of a final
\* decision only when it is the one that stands.
ContributorsAreTold ==
  \A s \in Submission :
    /\ Sub(s).status \in Decision => db[NoteDoc(s, Sub(s).rev, Sub(s).status)]
    /\ \A n \in Revision, st \in Decision \cap Settled :
         db[NoteDoc(s, n, st)] => Sub(s).status = st /\ Sub(s).rev = n

\* A decision is final, and it is about the revision that the moderator's
\* request read: nobody approves or rejects a revision that arrived meanwhile.
DecisionIsInformed ==
  \A s \in Submission :
    /\ Sub(s).status \in Settled => Sub(s)' = Sub(s)
    /\ Sub(s).status = "pending" /\ Sub(s)'.status \in Decision =>
         \E c \in OpenClients : c \notin OpenClients' /\ tx[c].req.sub = s /\ tx[c].req.rev = Sub(s).rev
DecisionsAreInformed == [][DecisionIsInformed]_suggestionVars
=============================================================================
