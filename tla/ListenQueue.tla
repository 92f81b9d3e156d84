---------------------------- MODULE ListenQueue ----------------------------
(***************************************************************************)
(* The listen-next queue in the user's profile.  Its own requests run      *)
(* outside transactions and write conditionally on queueRevision; listens, *)
(* manual or automatic, take their album out inside the transaction that   *)
(* creates them.  Several tabs and the listening worker meet on the one    *)
(* profile document.                                                       *)
(*                                                                         *)
(* The stored documents are the profile and the number of listens in the   *)
(* diary; the catalog does not change.                                     *)
(***************************************************************************)
EXTENDS SnapshotTransactions, QueueProfiles

VARIABLES call,    \* each caller's request and what became of it
          work,    \* how far the server is with it
          view,    \* the queue that callers have on screen
          sent

queueVars == <<db, tx, call, work, view, sent>>

Present == Album \ Missing
Position == {"none", "top", "bottom"}
Request ==
  [op: {"add"}, album: Present, position: Position] \cup [op: {"remove"}, album: Present]
NoCall == [req |-> [op |-> "none"], outcome |-> "open"]
NoWork == [pc |-> "idle", attempts |-> 0, rev |-> 0, next |-> <<>>]

\* The queued albums that the catalog still resolves (resolveAlbums).
Visible(p) == Only(EffectiveQueue(p), Present)
OnScreen(p) == [revision |-> p.rev, shown |-> Visible(p)]

(***************************************************************************)
(* placeAlbum and the change each request makes of the queue it loaded     *)
(***************************************************************************)
NoRoom(q, r)    == r.op = "add" /\ r.album \notin Elements(q) /\ Len(q) >= MaxQueue
Rest(q, a)      == IF a \in Elements(q) THEN Without(q, a) ELSE q
PlaceAlbum(q, a, position) ==
  IF a \in Elements(q) /\ position = "none" THEN q
  ELSE IF position = "top" THEN <<a>> \o Rest(q, a) ELSE Rest(q, a) \o <<a>>
Change(q, r) == IF r.op = "add" THEN PlaceAlbum(q, r.album, r.position) ELSE Rest(q, r.album)

(***************************************************************************)
(* Requests on the queue                                                   *)
(***************************************************************************)
\* GET /profile/me/queue.
ReadQueue(c) ==
  /\ call[c] = NoCall
  /\ view' = [view EXCEPT ![c] = OnScreen(db.profile)]
  /\ view' # view
  /\ UNCHANGED <<db, tx, call, work, sent>>

\* A permutation of what is on screen, sent with its revision.
Permuted(seq) == { q \in [DOMAIN seq -> Elements(seq)] : Injective(q) }
ReorderOf(c) ==
  [op: {"reorder"}, revision: {view[c].revision}, seen: {view[c].shown}, order: Permuted(view[c].shown)]

\* The request arrives; ensureProfile writes the profile before anything else.
SendRequest(c) ==
  /\ sent < MaxRequests /\ call[c] = NoCall
  /\ \E r \in Request \cup ReorderOf(c) : call' = [call EXCEPT ![c].req = r]
  /\ work' = [work EXCEPT ![c].pc = "load"]
  /\ WriteTouching(db, {"profile"})
  /\ sent' = sent + 1
  /\ UNCHANGED view

Conclude(c, outcome) ==
  /\ call' = [call EXCEPT ![c].outcome = outcome]
  /\ work' = [work EXCEPT ![c] = NoWork]

\* One attempt of mutateQueue: load, and work out the next queue.
LoadToMutate(c) ==
  /\ work[c].pc = "load" /\ call[c].req.op # "reorder"
  /\ LET r == call[c].req  q == Visible(db.profile)
     IN  \/ NoRoom(q, r) /\ Conclude(c, "full")
         \/ /\ ~NoRoom(q, r) /\ Change(q, r) = EffectiveQueue(db.profile)
            /\ Conclude(c, "ok")
         \/ /\ ~NoRoom(q, r) /\ Change(q, r) # EffectiveQueue(db.profile)
            /\ work' = [work EXCEPT ![c] = [@ EXCEPT !.pc = "write", !.rev = db.profile.rev, !.next = Change(q, r)]]
            /\ UNCHANGED call
  /\ UNCHANGED <<db, tx, view, sent>>

\* reorderQueue does not try again: its first attempt is the last.
AnyOrder(c) ==                                  \* slip: the revision is not compared
  Elements(call[c].req.order) = Elements(Visible(db.profile))
KnownOrder(c) ==
  /\ call[c].req.revision = db.profile.rev
  /\ Elements(call[c].req.order) = Elements(Visible(db.profile))
LoadToReorder(c) ==
  /\ work[c].pc = "load" /\ call[c].req.op = "reorder"
  /\ \/ ~KnownOrder(c) /\ Conclude(c, "changed")
     \/ /\ KnownOrder(c)
        /\ work' = [work EXCEPT ![c] = [pc |-> "write", attempts |-> WriteAttempts - 1,
                                        rev |-> db.profile.rev, next |-> call[c].req.order]]
        /\ UNCHANGED call
  /\ UNCHANGED <<db, tx, view, sent>>

\* writeQueue: the filter on queueRevision, and the write.
RevisionHolds(c) == db.profile.rev = work[c].rev
Written(p, q, rev) == [p EXCEPT !.queue = q, !.rev = rev + 1, !.legacy = {}]

WriteQueue(c) ==
  /\ work[c].pc = "write" /\ RevisionHolds(c)
  /\ Write([db EXCEPT !.profile = Written(@, work[c].next, work[c].rev)])
  /\ Conclude(c, "ok")
  /\ UNCHANGED <<view, sent>>

OneAttemptMore(c) == work[c].attempts = WriteAttempts      \* slip: an off-by-one of the attempts
LastAttempt(c) == work[c].attempts + 1 = WriteAttempts
LoseRace(c) ==
  /\ work[c].pc = "write" /\ ~RevisionHolds(c)
  /\ IF LastAttempt(c) THEN Conclude(c, "changed")
     ELSE work' = [work EXCEPT ![c] = [NoWork EXCEPT !.pc = "load", !.attempts = work[c].attempts + 1]]
          /\ UNCHANGED call
  /\ UNCHANGED <<db, tx, view, sent>>

Answer(c) ==
  /\ call[c].outcome # "open"
  /\ call' = [call EXCEPT ![c] = NoCall]
  /\ UNCHANGED <<db, tx, work, view, sent>>

(***************************************************************************)
(* Listens                                                                 *)
(***************************************************************************)
StartListen(l) ==
  /\ sent < MaxRequests
  /\ \E a \in Present : Begin(l, [op |-> "listen", album |-> a])
  /\ sent' = sent + 1
  /\ UNCHANGED <<call, work, view>>

\* createListen upserts the profile and so always writes it: the queue cannot
\* have changed since the snapshot.
ListenDocs == {"profile"}
CommitListen(l) ==
  /\ l \in OpenClients
  /\ CommitTouching(l, [tx[l].snap EXCEPT !.profile = WithoutListened(@, tx[l].req.album), !.diary = @ + 1],
                     ListenDocs)
  /\ UNCHANGED <<call, work, view, sent>>

GiveUpListen(l) == (Retry(l) \/ Abort(l)) /\ UNCHANGED <<call, work, view, sent>>

(***************************************************************************)
(* The specification                                                       *)
(***************************************************************************)
QueueInit ==
  /\ \E p \in StartProfiles : db = [profile |-> p, diary |-> 0]
  /\ tx = [l \in {} |-> {}]
  /\ call = [c \in Caller |-> NoCall]
  /\ work = [c \in Caller |-> NoWork]
  /\ view = [c \in Caller |-> OnScreen(db.profile)]
  /\ sent = 0

QueueNext ==
  \/ \E c \in Caller : \/ ReadQueue(c) \/ SendRequest(c) \/ LoadToMutate(c) \/ LoadToReorder(c)
                       \/ WriteQueue(c) \/ LoseRace(c) \/ Answer(c)
  \/ \E l \in Client : StartListen(l) \/ CommitListen(l) \/ GiveUpListen(l)

QueueSpec == QueueInit /\ [][QueueNext]_queueVars

(***************************************************************************)
(* Properties                                                              *)
(***************************************************************************)
\* Profiles, calls, work and screens have their types.
QueueTypeOK ==
  /\ db \in [profile: Profile, diary: Nat] /\ SnapshotShape
  /\ \A l \in OpenClients : tx[l].snap \in [profile: Profile, diary: Nat]
  /\ \A c \in Caller :
       /\ call[c].outcome \in {"open", "ok", "full", "changed"}
       /\ work[c] \in [pc: {"idle", "load", "write"}, attempts: 0..(WriteAttempts - 1), rev: Nat, next: Seq(Album)]
       /\ view[c] \in [revision: Nat, shown: Seq(Album)]
  /\ sent \in 0..MaxRequests

\* However requests and listens race, the stored queue repeats no album and
\* never outgrows its limit (placeAlbum is checked on a queue loaded earlier).
QueueIsBounded ==
  Injective(db.profile.queue) /\ Len(db.profile.queue) <= MaxQueue

\* Every change of what the owner sees moves the revision on, so that a
\* conditional write can tell (writeQueue, removeListenedAlbum).
RevisionsTellChanges ==
  [][Visible(db'.profile) # Visible(db.profile) => db'.profile.rev > db.profile.rev]_queueVars

\* "Creating a listen for a queued album removes it": once the listen is
\* committed its album is not queued, even if it was added in the meantime.
ListenedLeaves ==
  [][ \A l \in Client :
        l \in OpenClients /\ l \notin DOMAIN tx' /\ db'.diary # db.diary
        => tx[l].req.album \notin Elements(EffectiveQueue(db'.profile)) ]_queueVars

\* Callers are served one at a time: no acknowledged request is lost, none
\* takes effect twice or after a refusal, and a reorder replaces only the order
\* that its caller saw (mutateQueue, reorderQueue, removeListenedAlbum).
Promise == INSTANCE AtomicQueue WITH
  queue <- Visible(db.profile),
  Request <- Request \cup [op: {"reorder"}, revision: Nat, seen: Seq(Album), order: Seq(Album)]
ServedAtomically == Promise!AtomicSpec

\* Each queue request is served in one step, and its revisions tell what changed.
ServedInOneStep == ServedAtomically /\ ListenedLeaves /\ RevisionsTellChanges
=============================================================================
