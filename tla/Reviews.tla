------------------------------ MODULE Reviews ------------------------------
(***************************************************************************)
(* Reviews with their likes, pins, comment threads, reports, moderation    *)
(* and notifications, and the part of account deletion that concerns them. *)
(*                                                                         *)
(* Ids are random UUIDs: an id is "unborn", then used, then "gone" and     *)
(* never used again, and a client only names ids that exist or existed.    *)
(* A revision that a handler increments is a document written: it is in    *)
(* the `touched' set of its commit, and nothing else is kept of it.        *)
(* A repeated Idempotency-Key, or the same text within ten minutes, makes  *)
(* a creation return the comment there is: such a request ends in Abort.   *)
(***************************************************************************)
EXTENDS SnapshotTransactions, Naturals

CONSTANTS User, Review, Comment,     \* Clerk users, review ids, comment ids
          Nobody,                    \* no user, no comment, no notification
          Anonymous,                 \* DELETED_AUTHOR_ID
          Requests,                  \* what clients may ask for
          FirstStates,               \* databases to start from
          MaxRequests                \* bound on the requests of a behaviour

VARIABLE sent                        \* requests sent so far

revVars == <<db, tx, sent>>

(***************************************************************************)
(* Documents                                                               *)
(***************************************************************************)
FenceDoc(u)     == <<"fence", u>>            \* the account: TRUE once it is deleted
ReviewDoc(r)    == <<"review", r>>
CommentDoc(c)   == <<"comment", c>>
ReportDoc(c, u) == <<"report", <<c, u>>>>
AuditDoc(c)     == <<"audit", c>>            \* its moderation events
LikeDoc(r, u)   == <<"like", <<r, u>>>>
PinDoc(u)       == <<"pin", u>>              \* pinnedReviewId of the profile
\* A notification's value is its actor.  Its key is unique per recipient.
CommentNote(c, u)    == <<"commentNote", <<c, u>>>>
LikeNote(r, u)       == <<"likeNote", <<r, u>>>>          \* u liked: to the review's author
FollowedNote(r, u)   == <<"followedNote", <<r, u>>>>      \* to the follower u

ReviewNotes(r)  == { LikeNote(r, u) : u \in User } \cup { FollowedNote(r, u) : u \in User }
About(c) == { ReportDoc(c, u) : u \in User } \cup { CommentNote(c, u) : u \in User } \cup {AuditDoc(c)}

ReviewDocs ==
  { FenceDoc(u) : u \in User } \cup { PinDoc(u) : u \in User }
  \cup { LikeDoc(r, u) : r \in Review, u \in User }
  \cup (UNION { {ReviewDoc(r)} \cup ReviewNotes(r) : r \in Review })
  \cup (UNION { {CommentDoc(c)} \cup About(c) : c \in Comment })

Status == {"visible", "deleted_by_author", "removed_by_moderator"}
CommentValue ==
  [status: {"unborn", "gone"}]
  \cup [status: Status, review: Review, parent: Comment \cup {Nobody},
        author: User \cup {Anonymous}, replyTo: User \cup {Nobody}, body: BOOLEAN]
ReportOutcome == {"open", "dismissed", "actioned"}
ReviewValue ==
  [status: {"unborn", "gone"}]
  \cup [status: {"live"}, author: User \cup {Anonymous}, fannedOut: BOOLEAN]

\* What a deleted document reads as.
Blank(d) == CASE d[1] \in {"review", "comment"} -> [status |-> "gone"]
              [] d[1] = "audit"                 -> {}
              [] d[1] \in {"like", "fence"}     -> FALSE
              [] OTHER                          -> Nobody
Without(s, D) == [d \in DOMAIN s |-> IF d \in D THEN Blank(d) ELSE s[d]]

Request ==
  [op: {"deleteReview", "like", "unlike", "pin"}, review: Review, user: User]
  \cup [op: {"fanOut"}, review: Review, user: User, recipients: SUBSET User]
  \cup [op: {"createComment"}, review: Review, user: User, parent: Comment \cup {Nobody}]
  \cup [op: {"deleteComment", "report"}, comment: Comment, user: User]
  \cup [op: {"remove", "dismiss"}, comment: Comment]
  \cup [op: {"deleteAccount"}, user: User]

ASSUME ReviewsAssumption ==
  /\ Nobody \notin User \cup Comment \cup Review \cup ReportOutcome /\ Anonymous \notin User
  /\ Requests \subseteq Request
  /\ MaxRequests \in Nat

(***************************************************************************)
(* Reading a state s of the documents                                      *)
(***************************************************************************)
LiveReview(s, r)   == s[ReviewDoc(r)].status = "live"
OwnReview(s, r, u) == LiveReview(s, r) /\ s[ReviewDoc(r)].author = u
Present(s)         == { c \in Comment : s[CommentDoc(c)].status \in Status }
Visible(s)         == { c \in Comment : s[CommentDoc(c)].status = "visible" }
Replies(s, c)      == { d \in Present(s) : s[CommentDoc(d)].parent = c }
CommentsBy(s, u)   == { c \in Present(s) : s[CommentDoc(c)].author = u }
OnReview(s, r)     == { c \in Present(s) : s[CommentDoc(c)].review = r }

\* The top-level comment whose thread a comment belongs to.
Thread(s, c) == IF s[CommentDoc(c)].parent = Nobody THEN c ELSE s[CommentDoc(c)].parent

(***************************************************************************)
(* Cleanup: cascade.js                                                     *)
(***************************************************************************)
HardDelete(s, C) == Without(s, UNION { {CommentDoc(c)} \cup About(c) : c \in C })

\* Author-deleted comments of P that no reply of any status is left under.
EmptyTombstones(s, P) ==
  { p \in P : s[CommentDoc(p)].status = "deleted_by_author" /\ Replies(s, p) = {} }
RemoveEmptyTombstones(s, P) == HardDelete(s, EmptyTombstones(s, P))

\* A tombstone for its author: no text, no reports, no notifications.
Tombstone(s, c) ==
  [Without(s, About(c) \ {AuditDoc(c)}) EXCEPT
     ![CommentDoc(c)].status = "deleted_by_author", ![CommentDoc(c)].body = FALSE]

\* Tombstones without author, for the deletion of the account.  A moderator
\* removal keeps its status.
Nameless(k) ==
  [k EXCEPT !.author = Anonymous, !.replyTo = Nobody, !.body = FALSE,
            !.status = IF k.status = "visible" THEN "deleted_by_author" ELSE k.status]
CommentDocs(C) == { CommentDoc(c) : c \in C }
Forgotten(s, C) == Without(s, UNION { About(c) \ {AuditDoc(c)} : c \in C })
Anonymized(s, C) ==
  LET theirs == CommentDocs(C)  bare == Forgotten(s, C)
  IN  [d \in DOMAIN s |-> IF d \in theirs THEN Nameless(s[d]) ELSE bare[d]]

\* replyToUserId is cleared where it names u.
Naming(s, u) == CommentDocs({ c \in Present(s) : s[CommentDoc(c)].replyTo = u })
Addressed(s, D, whom) == [d \in DOMAIN s |-> IF d \in D THEN [s[d] EXCEPT !.replyTo = whom] ELSE s[d]]
Renamed(s, u) == Addressed(s, Naming(s, u), Anonymous)      \* slip: it is given the anonymous author
Unnamed(s, u) == Addressed(s, Naming(s, u), Nobody)

\* u's top-level comments that somebody else replied to.
Answered(s, u) ==
  { c \in CommentsBy(s, u) : \E d \in Replies(s, c) : s[CommentDoc(d)].author # u }

RemoveAccountComments(s, u) ==
  LET named   == Unnamed(Without(s, { ReportDoc(c, u) : c \in Comment }), u)
      own     == CommentsBy(s, u)
      parents == { s[CommentDoc(c)].parent : c \in own } \ {Nobody}
  IN  RemoveEmptyTombstones(
        HardDelete(Anonymized(named, Answered(s, u)), own \ Answered(s, u)), parents)

(***************************************************************************)
(* The handlers that run in a transaction                                  *)
(***************************************************************************)
Running(x, op) == x \in OpenClients /\ tx[x].req.op = op
\* The callback made `after' of its snapshot.
Finish(x, after, touched) == (\E t \in {after} : CommitTouching(x, t, touched)) /\ UNCHANGED sent

\* deleteOwnedReview.
DeleteReview(x) ==
  /\ Running(x, "deleteReview")
  /\ LET s == tx[x].snap  r == tx[x].req.review
         pins == { PinDoc(u) : u \in { v \in User : s[PinDoc(v)] = r } }
     IN  /\ OwnReview(s, r, tx[x].req.user)
         /\ Finish(x, Without(HardDelete(s, OnReview(s, r)),
                              {ReviewDoc(r)} \cup { LikeDoc(r, u) : u \in User } \cup ReviewNotes(r) \cup pins),
                   {})

Unclaimed(r) == {}                     \* slip: the review is only read
ClaimReview(r) == {ReviewDoc(r)}

\* mutateReviewLike, with recordReviewLike unless the author muted it.
LikeReview(x) ==
  /\ Running(x, "like")
  /\ LET s == tx[x].snap  r == tx[x].req.review  u == tx[x].req.user
         to == s[ReviewDoc(r)].author
         liked == [s EXCEPT ![LikeDoc(r, u)] = TRUE]
     IN  /\ LiveReview(s, r)
         /\ \/ Finish(x, liked, ClaimReview(r))
            \/ /\ to \notin {u, Anonymous}
               /\ Finish(x, [liked EXCEPT ![LikeNote(r, u)] = u], ClaimReview(r))

UnlikeReview(x) ==
  /\ Running(x, "unlike")
  /\ LET s == tx[x].snap  r == tx[x].req.review
     IN  /\ LiveReview(s, r)
         /\ Finish(x, [s EXCEPT ![LikeDoc(r, tx[x].req.user)] = FALSE], ClaimReview(r))

\* PUT /me with a pinned review.
PinReview(x) ==
  /\ Running(x, "pin")
  /\ LET s == tx[x].snap  r == tx[x].req.review  u == tx[x].req.user
     IN  /\ OwnReview(s, r, u)
         /\ Finish(x, [s EXCEPT ![PinDoc(u)] = r], ClaimReview(r))

\* fanOutFollowedReview: the recipients were found before the transaction, the
\* author and the receipt are checked again in it.
AlwaysUndelivered(s, r) == TRUE        \* slip: the receipt is not checked
Undelivered(s, r) == ~s[ReviewDoc(r)].fannedOut
FanOut(x) ==
  /\ Running(x, "fanOut")
  /\ LET s == tx[x].snap  r == tx[x].req.review  u == tx[x].req.user
         new == { FollowedNote(r, v) : v \in tx[x].req.recipients }
     IN  /\ OwnReview(s, r, u) /\ Undelivered(s, r)
         /\ Finish(x, [d \in DOMAIN s |-> IF d \in new /\ s[d] = Nobody THEN u
                                         ELSE IF d = ReviewDoc(r) THEN [s[d] EXCEPT !.fannedOut = TRUE] ELSE s[d]],
                   ClaimReview(r))

\* claimActiveAccount and claimComment: read, and written to conflict.
UnclaimedAccount(u) == {}              \* slip: the account is only read
ClaimAccount(u) == {FenceDoc(u)}
ClaimComments(C) == CommentDocs(C)

\* Whom recordCommentNotifications may notify; each may have muted it.
Recipients(s, r, u, thread, replyTo) ==
  (IF thread = Nobody THEN {s[ReviewDoc(r)].author}
   ELSE {replyTo} \cup (IF thread \in Visible(s) THEN {s[CommentDoc(thread)].author} ELSE {}))
  \ {u, Nobody, Anonymous}

\* The comment c with the value k, and its notifications of the users in told.
Posted(s, c, told, k) ==
  [d \in DOMAIN s |-> IF d = CommentDoc(c) THEN k
                      ELSE IF d \in { CommentNote(c, v) : v \in told } THEN k.author ELSE s[d]]

\* createComment.  A reply to a reply joins its thread and names whom it answers.
CreateComment(x) ==
  /\ Running(x, "createComment")
  /\ LET s == tx[x].snap  r == tx[x].req.review  u == tx[x].req.user  p == tx[x].req.parent
         top     == p = Nobody
         thread  == IF top THEN Nobody ELSE Thread(s, p)
         replyTo == IF top \/ thread = p THEN Nobody ELSE s[CommentDoc(p)].author
         claimed == ClaimReview(r) \cup ClaimAccount(u) \cup ClaimComments({p, thread} \ {Nobody})
     IN  /\ ~s[FenceDoc(u)] /\ LiveReview(s, r)
         /\ top \/ p \in Visible(s) \cap OnReview(s, r)
         /\ top \/ thread \in Present(s)
         /\ \E c \in Comment, told \in SUBSET Recipients(s, r, u, thread, replyTo) :
              /\ db[CommentDoc(c)].status = "unborn" /\ s[CommentDoc(c)].status = "unborn"
              /\ Finish(x, Posted(s, c, told, [status |-> "visible", review |-> r, parent |-> thread,
                                               author |-> u, replyTo |-> replyTo, body |-> TRUE]),
                        claimed)

\* deleteComment: a comment with replies becomes a tombstone, any other goes.
DeleteComment(x) ==
  /\ Running(x, "deleteComment")
  /\ LET s == tx[x].snap  c == tx[x].req.comment
     IN  /\ c \in Visible(s) \cap CommentsBy(s, tx[x].req.user)
         /\ Finish(x, IF s[CommentDoc(c)].parent = Nobody /\ Replies(s, c) # {} THEN Tombstone(s, c)
                      ELSE RemoveEmptyTombstones(HardDelete(s, {c}), {Thread(s, c)} \ {c}),
                   ClaimComments({c}))

\* fileReport.  A repeat returns the first report.
Report(x) ==
  /\ Running(x, "report")
  /\ LET s == tx[x].snap  c == tx[x].req.comment  u == tx[x].req.user
     IN  /\ ~s[FenceDoc(u)]
         /\ c \in Visible(s) \ CommentsBy(s, u)
         /\ Finish(x, [s EXCEPT ![ReportDoc(c, u)] = IF @ = Nobody THEN "open" ELSE @],
                   ClaimAccount(u) \cup ClaimComments({c}))

\* closeReports: the open ones only.
OpenReports(s, c) == { u \in User : s[ReportDoc(c, u)] = "open" }
Closed(s, c, outcome) ==
  LET open == { ReportDoc(c, u) : u \in OpenReports(s, c) }
  IN  [d \in DOMAIN s |-> IF d \in open THEN outcome ELSE s[d]]

\* removeComment, by a moderator.
RemoveComment(x) ==
  /\ Running(x, "remove")
  /\ LET s == tx[x].snap  c == tx[x].req.comment
         hidden == [Without(s, { CommentNote(c, u) : u \in User })
                      EXCEPT ![CommentDoc(c)].status = "removed_by_moderator"]
     IN  /\ c \in Visible(s)
         /\ Finish(x, [Closed(hidden, c, "actioned") EXCEPT ![AuditDoc(c)] = @ \cup {"removed"}], {})

\* dismissReports, by a moderator, whatever the comment's status.
DismissReports(x) ==
  /\ Running(x, "dismiss")
  /\ LET s == tx[x].snap  c == tx[x].req.comment
     IN  /\ c \in Present(s) /\ OpenReports(s, c) # {}
         /\ Finish(x, [Closed(s, c, "dismissed") EXCEPT ![AuditDoc(c)] = @ \cup {"dismissed"}],
                   ClaimComments({c}))

\* removeAccountData: reviews stay under a server-only author, comments go or
\* lose author and text, notifications go both ways.
OwnReviews(s, u) == { r \in Review : OwnReview(s, r, u) }
AccountNotes(s, u) ==
  (UNION { { d \in ReviewNotes(r) : s[d] = u } \cup {FollowedNote(r, u)} : r \in Review })
  \cup { d \in UNION { About(c) : c \in Comment } : d[1] = "commentNote" /\ (s[d] = u \/ d[2][2] = u) }
  \cup { LikeNote(r, v) : r \in OwnReviews(s, u), v \in User }
AccountWiped(s, u) ==
  Without(RemoveAccountComments(s, u), {PinDoc(u)} \cup AccountNotes(s, u) \cup { LikeDoc(r, u) : r \in Review })
AccountDeleted(s, u) ==
  LET theirs == { ReviewDoc(r) : r \in OwnReviews(s, u) }  wiped == AccountWiped(s, u)
  IN  [d \in DOMAIN s |-> IF d \in theirs THEN [s[d] EXCEPT !.author = Anonymous]
                          ELSE IF d = FenceDoc(u) THEN TRUE ELSE wiped[d]]

\* From Clerk's webhook.
DeleteAccount(x) ==
  /\ Running(x, "deleteAccount")
  /\ LET s == tx[x].snap  u == tx[x].req.user
     IN  Finish(x, AccountDeleted(s, u), {FenceDoc(u)} \cup ClaimComments(Answered(s, u)))

(***************************************************************************)
(* Single writes                                                           *)
(***************************************************************************)
Sent == sent < MaxRequests /\ sent' = sent + 1

\* POST /review.
CreateReview(r, u) ==
  /\ db[ReviewDoc(r)].status = "unborn"
  /\ Write([db EXCEPT ![ReviewDoc(r)] = [status |-> "live", author |-> u, fannedOut |-> FALSE]])
  /\ Sent

\* editOwnedReview and editComment claim the revision with the text.
EditReview(r, u) ==
  /\ OwnReview(db, r, u)
  /\ WriteTouching(db, {ReviewDoc(r)})
  /\ Sent

EditComment(c, u) ==
  /\ c \in Visible(db) \cap CommentsBy(db, u)
  /\ WriteTouching([db EXCEPT ![CommentDoc(c)].body = TRUE], {CommentDoc(c)})
  /\ Sent

\* PUT /me without a pinned review.
Unpin(u) ==
  /\ db[PinDoc(u)] # Nobody
  /\ Write([db EXCEPT ![PinDoc(u)] = Nobody])
  /\ Sent

\* clearNotifications of all of a user's.
NotesTo(s, u) ==
  { FollowedNote(r, u) : r \in Review } \cup { CommentNote(c, u) : c \in Comment }
  \cup { LikeNote(r, v) : r \in OwnReviews(s, u), v \in User }
ClearNotifications(u) ==
  /\ \E d \in NotesTo(db, u) : db[d] # Nobody
  /\ Write(Without(db, NotesTo(db, u)))
  /\ Sent

(***************************************************************************)
(* The specification                                                       *)
(***************************************************************************)
NewSite ==
  [d \in ReviewDocs |-> CASE d[1] \in {"review", "comment"} -> [status |-> "unborn"]
                          [] OTHER -> Blank(d)]

\* A request names what exists or did; an account is deleted once.
Known(q) ==
  /\ q.op \in {"deleteReview", "like", "unlike", "pin", "fanOut", "createComment"}
     => db[ReviewDoc(q.review)].status # "unborn"
  /\ q.op \in {"deleteComment", "report", "remove", "dismiss"}
     => db[CommentDoc(q.comment)].status # "unborn"
  /\ q.op = "createComment" /\ q.parent # Nobody => db[CommentDoc(q.parent)].status # "unborn"

SendRequest(x) ==
  /\ Sent
  /\ \E q \in Requests : Known(q) /\ Begin(x, q)

Handle(x) ==
  \/ DeleteReview(x) \/ LikeReview(x) \/ UnlikeReview(x) \/ PinReview(x) \/ FanOut(x)
  \/ CreateComment(x) \/ DeleteComment(x) \/ Report(x)
  \/ RemoveComment(x) \/ DismissReports(x) \/ DeleteAccount(x)

ReviewsInit ==
  /\ db \in FirstStates
  /\ tx = [x \in {} |-> {}]
  /\ sent = 0

ReviewsNext ==
  \/ \E x \in Client : SendRequest(x) \/ Handle(x) \/ ((Retry(x) \/ Abort(x)) /\ UNCHANGED sent)
  \/ \E u \in User : Unpin(u) \/ ClearNotifications(u)
  \/ \E r \in Review, u \in User : CreateReview(r, u) \/ EditReview(r, u)
  \/ \E c \in Comment, u \in User : EditComment(c, u)

ReviewsSpec == ReviewsInit /\ [][ReviewsNext]_revVars

(***************************************************************************)
(* Properties                                                              *)
(***************************************************************************)
\* Documents and snapshots have their types.
TypedSite(s) ==
  /\ DOMAIN s = ReviewDocs
  /\ \A r \in Review : s[ReviewDoc(r)] \in ReviewValue
  /\ \A c \in Comment : /\ s[CommentDoc(c)] \in CommentValue
                        /\ s[AuditDoc(c)] \subseteq {"removed", "dismissed"}
  /\ \A u \in User :
       /\ s[FenceDoc(u)] \in BOOLEAN /\ s[PinDoc(u)] \in Review \cup {Nobody}
       /\ \A r \in Review : /\ s[LikeDoc(r, u)] \in BOOLEAN
                            /\ s[LikeNote(r, u)] \in User \cup {Nobody} /\ s[FollowedNote(r, u)] \in User \cup {Nobody}
       /\ \A c \in Comment : /\ s[ReportDoc(c, u)] \in ReportOutcome \cup {Nobody}
                             /\ s[CommentNote(c, u)] \in User \cup {Nobody}
ReviewsTypeOK ==
  TypedSite(db) /\ SnapshotShape /\ (\A x \in OpenClients : TypedSite(tx[x].snap)) /\ sent \in 0..MaxRequests

\* Nothing hangs on a deleted review or under a deleted comment: a review that
\* is deleted while it is commented on, liked or pinned, and a comment that is
\* deleted while it is answered, conflict with it (claimReview, claimComment).
NoOrphans(s) ==
  /\ \A c \in Present(s) :
       LET k == s[CommentDoc(c)]
       IN  /\ LiveReview(s, k.review)
           /\ k.parent # Nobody => /\ k.parent \in Present(s) \cap OnReview(s, k.review)
                                   /\ s[CommentDoc(k.parent)].parent = Nobody
  /\ \A u \in User, r \in Review : s[LikeDoc(r, u)] => LiveReview(s, r)
  /\ \A u \in User : s[PinDoc(u)] # Nobody => OwnReview(s, s[PinDoc(u)], u)

\* A notification is about something its recipient can open, by the actor it
\* names: comment and review deletion, moderator removal and anonymization take
\* the notifications with them, also those of a delivery that is under way
\* (recordCommentNotifications, recordReviewLike, fanOutFollowedReview).
NotificationsPointSomewhere(s) ==
  /\ \A c \in Comment, u \in User :
       s[CommentNote(c, u)] # Nobody => c \in Visible(s) \cap CommentsBy(s, s[CommentNote(c, u)])
  /\ \A r \in Review, u \in User :
       /\ s[LikeNote(r, u)] # Nobody => LiveReview(s, r) /\ s[ReviewDoc(r)].author # Anonymous
       /\ s[FollowedNote(r, u)] # Nobody => OwnReview(s, r, s[FollowedNote(r, u)])

\* An open report waits in the moderators' queue for a comment that is still
\* visible, and no report outlives its comment: "claiming the comment keeps a
\* report from outliving a comment deleted at the same moment" (fileReport).
OpenReportsAreActionable(s) ==
  \A c \in Comment :
    /\ OpenReports(s, c) # {} => c \in Visible(s)
    /\ c \notin Present(s) => \A u \in User : s[ReportDoc(c, u)] = Nobody

\* "Comment text is never kept under an anonymous author", nor on a comment
\* its author deleted, and what is still shown has an author
\* (removeAccountComments, deleteComment, editComment).
NoTextWithoutAuthor(s) ==
  \A c \in Present(s) :
    LET k == s[CommentDoc(c)]
    IN  /\ k.body => k.author # Anonymous /\ k.status # "deleted_by_author"
        /\ k.status = "visible" => k.author # Anonymous

\* "In-flight writes cannot survive deletion": a deleted account has no
\* comments and no reports, and no reply names it (AccountFence).
DeletedAccountsAreSilent(s) ==
  \A u \in User : s[FenceDoc(u)] =>
    /\ CommentsBy(s, u) = {}
    /\ \A c \in Comment : s[ReportDoc(c, u)] = Nobody
    /\ \A c \in Present(s) : s[CommentDoc(c)].replyTo # u

\* Nothing points to what is gone, and an account leaves nothing behind.
NothingDangles == NoOrphans(db) /\ NotificationsPointSomewhere(db) /\ OpenReportsAreActionable(db)
AccountsLeaveNothing == DeletedAccountsAreSilent(db) /\ NoTextWithoutAuthor(db)

\* A behaviour may begin with any site on which that is so.
ASSUME FirstStatesAssumption ==
  \A s \in FirstStates :
    /\ TypedSite(s) /\ NoOrphans(s) /\ NotificationsPointSomewhere(s) /\ OpenReportsAreActionable(s)
    /\ DeletedAccountsAreSilent(s) /\ NoTextWithoutAuthor(s)

\* What a moderator removed is never visible again, nor does it pass for a
\* comment that its author deleted: it stays, or it goes with its review or its
\* account (removeComment against editComment, deleteComment and cleanup).
RemovalIsFinal ==
  [][ \A c \in Comment : db[CommentDoc(c)].status = "removed_by_moderator"
                         => db'[CommentDoc(c)].status \in {"removed_by_moderator", "gone"} ]_revVars

\* "Clearing notifications must not let a creation retry fan out again": once
\* followers were told of a review, they are not told again (fanOutFollowedReview).
DeliveredOnce ==
  [][ \A r \in Review, u \in User :
        LiveReview(db, r) /\ db[ReviewDoc(r)].fannedOut /\ db[FollowedNote(r, u)] = Nobody
        => db'[FollowedNote(r, u)] = Nobody ]_revVars

\* What was settled once stays so.
SettledOnce == RemovalIsFinal /\ DeliveredOnce

\* "An author-deleted tombstone exists only to hold its thread together. Once
\* no reply of any status remains under it, it is removed too." (cascade.js)
TombstonesHoldThreads ==
  \A c \in Comment : db[CommentDoc(c)].status = "deleted_by_author" => Replies(db, c) # {}
=============================================================================
