--------------------------- MODULE ReviewsProofs ---------------------------
(***************************************************************************)
(* Proofs about Reviews.  A handler leaves a sound site where it found     *)
(* one, but it works on a snapshot, and the site has moved on.  What saves *)
(* it is that a document which comes to refer to others is only written    *)
(* together with them: a new comment with its review, its author's fence   *)
(* and the comments it answers, a like with its review, a report with its  *)
(* comment.  So a transaction that missed a reference has missed what it   *)
(* refers to as well, and two steps from one snapshot that both commit     *)
(* make a sound site together.                                             *)
(*                                                                         *)
(* And about ReviewIdMigration.  What saves the migration from its faults  *)
(* and reruns is that no two plans assign the same identity, and that a    *)
(* review of a plan either still wants one or has the plan's: so a batch   *)
(* that was applied stays applied, whoever applied it.                     *)
(***************************************************************************)
EXTENDS Reviews, ReviewIdMigration, TransactionProofs, FiniteSetTheorems

(***************************************************************************)
(* The invariant                                                           *)
(***************************************************************************)
\* What each document that refers to others needs of them.
SoundComment(s, c) ==
  LET k == s[CommentDoc(c)]
  IN  c \in Present(s) =>
        /\ LiveReview(s, k.review)
        /\ k.parent # Nobody => /\ k.parent \in Present(s) /\ s[CommentDoc(k.parent)].review = k.review
                                /\ s[CommentDoc(k.parent)].parent = Nobody
        /\ k.body => k.author # Anonymous /\ k.status # "deleted_by_author"
        /\ k.status = "visible" => k.author # Anonymous
        /\ k.author \in User => ~s[FenceDoc(k.author)]
        /\ k.replyTo \in User => ~s[FenceDoc(k.replyTo)]
SoundReport(s, c, u) ==
  s[ReportDoc(c, u)] # Nobody =>
    c \in Present(s) /\ ~s[FenceDoc(u)] /\ (s[ReportDoc(c, u)] = "open" => c \in Visible(s))
SoundNote(s, c, u) ==
  s[CommentNote(c, u)] # Nobody => c \in Visible(s) /\ s[CommentDoc(c)].author = s[CommentNote(c, u)]
SoundLike(s, r, u) ==
  /\ s[LikeDoc(r, u)] => LiveReview(s, r)
  /\ s[LikeNote(r, u)] # Nobody => LiveReview(s, r) /\ s[ReviewDoc(r)].author # Anonymous
  /\ s[FollowedNote(r, u)] # Nobody => OwnReview(s, r, s[FollowedNote(r, u)])
SoundPin(s, u) == s[PinDoc(u)] # Nobody => OwnReview(s, s[PinDoc(u)], u)

Sound(s) ==
  /\ \A c \in Comment : SoundComment(s, c)
  /\ \A c \in Comment, u \in User : SoundReport(s, c, u) /\ SoundNote(s, c, u)
  /\ \A r \in Review, u \in User : SoundLike(s, r, u)
  /\ \A u \in User : SoundPin(s, u)
Site(s) == TypedSite(s) /\ Sound(s)

\* The state t of a document came after the state s, and what it newly refers to is in W.
LaterComment(s, W, t, c) ==
  LET k == s[CommentDoc(c)]  n == t[CommentDoc(c)]
  IN  /\ k.status = "gone" => n.status = "gone"
      /\ k.status = "removed_by_moderator" => n.status \in {"removed_by_moderator", "gone"}
      /\ c \in Present(s) => c \in Present(t) \/ n.status = "gone"
      /\ c \in Present(s) /\ c \in Present(t) =>
           /\ n.review = k.review /\ n.parent = k.parent
           /\ n.author \in {k.author, Anonymous} /\ n.replyTo \in {k.replyTo, Nobody}
      /\ c \in Present(t) /\ c \notin Present(s) =>
           /\ ReviewDoc(n.review) \in W
           /\ n.parent # Nobody => CommentDoc(n.parent) \in W
           /\ n.author \in User => FenceDoc(n.author) \in W
           /\ n.replyTo \in User => \/ FenceDoc(n.replyTo) \in W
                                    \/ \E p \in CommentsBy(s, n.replyTo) : CommentDoc(p) \in W
LaterReport(s, W, t, c, u) ==
  t[ReportDoc(c, u)] \notin {Nobody, s[ReportDoc(c, u)]} =>
    CommentDoc(c) \in W /\ (s[ReportDoc(c, u)] = Nobody => FenceDoc(u) \in W)
LaterNote(s, W, t, c, u) ==
  t[CommentNote(c, u)] \notin {Nobody, s[CommentNote(c, u)]} => CommentDoc(c) \in W
LaterLike(s, W, t, r, u) ==
  /\ t[LikeDoc(r, u)] /\ ~s[LikeDoc(r, u)] => ReviewDoc(r) \in W
  /\ t[LikeNote(r, u)] \notin {Nobody, s[LikeNote(r, u)]} => ReviewDoc(r) \in W
  /\ t[FollowedNote(r, u)] \notin {Nobody, s[FollowedNote(r, u)]} => ReviewDoc(r) \in W
LaterPin(s, W, t, u) == t[PinDoc(u)] \notin {Nobody, s[PinDoc(u)]} => ReviewDoc(t[PinDoc(u)]) \in W

Follows(s, W, t) ==
  /\ \A c \in Comment : LaterComment(s, W, t, c)
  /\ \A c \in Comment, u \in User : LaterReport(s, W, t, c, u) /\ LaterNote(s, W, t, c, u)
  /\ \A r \in Review, u \in User : LaterLike(s, W, t, r, u)
  /\ \A u \in User : LaterPin(s, W, t, u)

\* Every transaction works on a sound site, of which it missed what it says.
ReviewsInv ==
  /\ Transactions /\ Site(db) /\ sent \in 0..MaxRequests
  /\ \A x \in OpenClients : tx[x].req \in Request /\ Site(tx[x].snap) /\ Follows(tx[x].snap, tx[x].missed, db)

\* Only followers who were never told of a review are told of it.
ToldOnce(s, t) ==
  \A r \in Review, u \in User :
    s[FollowedNote(r, u)] = Nobody /\ t[FollowedNote(r, u)] # Nobody => ~(LiveReview(s, r) /\ s[ReviewDoc(r)].fannedOut)
\* What a handler does that made t of s and wrote the documents W.
SafeStep(s, W, t) == Site(t) /\ Follows(s, W, t) /\ Changed(s, t) \subseteq W /\ W \subseteq ReviewDocs /\ ToldOnce(s, t)

(***************************************************************************)
(* Documents                                                               *)
(***************************************************************************)
\* Every named document is one of the site.
LEMMA DocsAreDocs ==
  /\ \A u \in User : FenceDoc(u) \in ReviewDocs /\ PinDoc(u) \in ReviewDocs
  /\ \A r \in Review : ReviewDoc(r) \in ReviewDocs
  /\ \A c \in Comment : CommentDoc(c) \in ReviewDocs /\ AuditDoc(c) \in ReviewDocs
  /\ \A r \in Review, u \in User :
       LikeDoc(r, u) \in ReviewDocs /\ LikeNote(r, u) \in ReviewDocs /\ FollowedNote(r, u) \in ReviewDocs
  /\ \A c \in Comment, u \in User : ReportDoc(c, u) \in ReviewDocs /\ CommentNote(c, u) \in ReviewDocs
<1>1. \A u \in User : FenceDoc(u) \in ReviewDocs /\ PinDoc(u) \in ReviewDocs
  BY DEF ReviewDocs
<1>2. ASSUME NEW r \in Review PROVE {ReviewDoc(r)} \cup ReviewNotes(r) \subseteq ReviewDocs
  <2> DEFINE F == { {ReviewDoc(x)} \cup ReviewNotes(x) : x \in Review }
  <2>1. UNION F \subseteq ReviewDocs
    BY DEF ReviewDocs
  <2>2. {ReviewDoc(r)} \cup ReviewNotes(r) \in F
    OBVIOUS
  <2> HIDE DEF F
  <2> QED BY <2>1, <2>2
<1>3. ASSUME NEW c \in Comment PROVE {CommentDoc(c)} \cup About(c) \subseteq ReviewDocs
  <2> DEFINE F == { {CommentDoc(x)} \cup About(x) : x \in Comment }
  <2>1. UNION F \subseteq ReviewDocs
    BY DEF ReviewDocs
  <2>2. {CommentDoc(c)} \cup About(c) \in F
    OBVIOUS
  <2> HIDE DEF F
  <2> QED BY <2>1, <2>2
<1>4. \A r \in Review, u \in User : LikeDoc(r, u) \in ReviewDocs
  BY DEF ReviewDocs
<1>5. \A r \in Review, u \in User : LikeNote(r, u) \in ReviewDocs /\ FollowedNote(r, u) \in ReviewDocs
  BY <1>2 DEF ReviewNotes
<1>6. \A c \in Comment : AuditDoc(c) \in ReviewDocs /\ \A u \in User : ReportDoc(c, u) \in ReviewDocs /\ CommentNote(c, u) \in ReviewDocs
  BY <1>3 DEF About
<1> QED BY <1>1, <1>2, <1>3, <1>4, <1>5, <1>6

\* What the runs check of a site is what the invariant says of it.
LEMMA SoundSites ==
  ASSUME NEW s, TypedSite(s)
  PROVE  Sound(s) <=> /\ NoOrphans(s) /\ NotificationsPointSomewhere(s) /\ OpenReportsAreActionable(s)
                      /\ NoTextWithoutAuthor(s) /\ DeletedAccountsAreSilent(s)
<1>1. ASSUME Sound(s) PROVE NoOrphans(s)
  BY <1>1 DEF Sound, SoundComment, SoundLike, SoundPin, NoOrphans, Present, OnReview, TypedSite
<1>2. ASSUME Sound(s) PROVE NotificationsPointSomewhere(s)
  BY <1>2 DEF Sound, SoundNote, SoundLike, NotificationsPointSomewhere, Visible, Present, CommentsBy, Status
<1>3. ASSUME Sound(s) PROVE OpenReportsAreActionable(s)
  BY <1>3, ReviewsAssumption DEF Sound, SoundReport, OpenReportsAreActionable, OpenReports, ReportOutcome
<1>4. ASSUME Sound(s) PROVE NoTextWithoutAuthor(s)
  BY <1>4 DEF Sound, SoundComment, NoTextWithoutAuthor, Present
<1>5. ASSUME Sound(s) PROVE DeletedAccountsAreSilent(s)
  BY <1>5 DEF Sound, SoundComment, SoundReport, DeletedAccountsAreSilent, CommentsBy, Present
<1>6. ASSUME NoOrphans(s), NotificationsPointSomewhere(s), OpenReportsAreActionable(s),
             NoTextWithoutAuthor(s), DeletedAccountsAreSilent(s)
      PROVE  Sound(s)
  <2>1. ASSUME NEW c \in Comment PROVE SoundComment(s, c)
    BY <1>6 DEF SoundComment, NoOrphans, NoTextWithoutAuthor, DeletedAccountsAreSilent, CommentsBy, OnReview, Present
  <2>2. ASSUME NEW c \in Comment, NEW u \in User PROVE SoundReport(s, c, u)
    BY <1>6 DEF SoundReport, OpenReportsAreActionable, OpenReports, DeletedAccountsAreSilent, TypedSite
  <2>3. ASSUME NEW c \in Comment, NEW u \in User PROVE SoundNote(s, c, u)
    BY <1>6 DEF SoundNote, NotificationsPointSomewhere, CommentsBy
  <2>4. ASSUME NEW r \in Review, NEW u \in User PROVE SoundLike(s, r, u)
    BY <1>6 DEF SoundLike, NotificationsPointSomewhere, NoOrphans
  <2>5. ASSUME NEW u \in User PROVE SoundPin(s, u)
    BY <1>6 DEF SoundPin, NoOrphans
  <2> QED BY <2>1, <2>2, <2>3, <2>4, <2>5 DEF Sound
<1> QED BY <1>1, <1>2, <1>3, <1>4, <1>5, <1>6

(***************************************************************************)
(* Two steps from one site                                                 *)
(***************************************************************************)
\* Two different comments and their parts, of a site and of one that came after it.
LEMMA LaterFields ==
  ASSUME NEW s, NEW W, NEW t, TypedSite(s), TypedSite(t), Follows(s, W, t), NEW c \in Present(t)
  PROVE  /\ c \in Comment /\ LaterComment(s, W, t, c)
         /\ t[CommentDoc(c)].review \in Review /\ t[CommentDoc(c)].parent \in Comment \cup {Nobody}
         /\ t[CommentDoc(c)].author \in User \cup {Anonymous} /\ t[CommentDoc(c)].replyTo \in User \cup {Nobody}
         /\ t[CommentDoc(c)].body \in BOOLEAN
BY DEF Present, Follows, TypedSite, CommentValue, Status

\* Of a site s and two that came after it, a by writing A and b by writing B, make a
\* site n that has the documents of A from a and those of B from b.
Merged(s, A, a, B, b, n) ==
  /\ Site(s) /\ Site(a) /\ Site(b) /\ TypedSite(n)
  /\ Follows(s, A, a) /\ Follows(s, B, b) /\ A \cap B = {}
  /\ \A d \in ReviewDocs : /\ d \notin A => a[d] = s[d] /\ n[d] = b[d]
                           /\ d \notin B => b[d] = s[d] /\ n[d] = a[d]

\* In such a site a comment that is not in A has what it needs.
LEMMA MergedComments ==
  ASSUME NEW s, NEW A, NEW a, NEW B, NEW b, NEW n, Merged(s, A, a, B, b, n),
         NEW c \in Comment, CommentDoc(c) \notin A
  PROVE  SoundComment(n, c)
<1> DEFINE k == n[CommentDoc(c)]
<1> SUFFICES ASSUME c \in Present(n) PROVE SoundComment(n, c)
  BY DEF SoundComment
<1>1. TypedSite(s) /\ TypedSite(a) /\ TypedSite(b) /\ TypedSite(n)
  BY DEF Merged, Site
<1>2. n[CommentDoc(c)] = b[CommentDoc(c)] /\ a[CommentDoc(c)] = s[CommentDoc(c)] /\ c \in Present(b)
  BY DocsAreDocs DEF Merged, Present
<1>3. SoundComment(b, c) /\ LaterComment(s, B, b, c)
  BY DEF Merged, Site, Sound, Follows
<1>4. /\ k.review \in Review /\ k.parent \in Comment \cup {Nobody} /\ k.author \in User \cup {Anonymous}
      /\ k.replyTo \in User \cup {Nobody} /\ k.body \in BOOLEAN
  BY <1>1, <1>2, LaterFields DEF Merged
<1>5. ASSUME NEW d \in ReviewDocs, d \in A PROVE d \notin B /\ n[d] = a[d] /\ b[d] = s[d]
  BY <1>5 DEF Merged
<1>6. ASSUME NEW d \in ReviewDocs, d \notin A PROVE n[d] = b[d] /\ a[d] = s[d]
  BY <1>6 DEF Merged
<1>7. \A x \in Comment : SoundComment(a, x)
  BY DEF Merged, Site, Sound
<1>8. LiveReview(n, k.review)
  <2>1. CASE ReviewDoc(k.review) \notin A
    BY <2>1, <1>2, <1>3, <1>4, <1>6, DocsAreDocs DEF SoundComment, LiveReview
  <2>2. CASE ReviewDoc(k.review) \in A
    <3>1. ReviewDoc(k.review) \notin B /\ n[ReviewDoc(k.review)] = a[ReviewDoc(k.review)]
      BY <2>2, <1>4, <1>5, DocsAreDocs
    <3>2. c \in Present(s) /\ s[CommentDoc(c)].review = k.review
      BY <3>1, <1>2, <1>3 DEF LaterComment
    <3>3. c \in Present(a) /\ a[CommentDoc(c)].review = k.review
      BY <3>2, <1>2 DEF Present
    <3> QED BY <3>1, <3>3, <1>7 DEF SoundComment, LiveReview
  <2> QED BY <2>1, <2>2
<1>9. ASSUME k.parent # Nobody
      PROVE  k.parent \in Present(n) /\ n[CommentDoc(k.parent)].review = k.review /\ n[CommentDoc(k.parent)].parent = Nobody
  <2>1. CommentDoc(k.parent) \in ReviewDocs /\ k.parent \in Comment
    BY <1>4, <1>9, DocsAreDocs
  <2>2. CASE CommentDoc(k.parent) \notin A
    <3>1. n[CommentDoc(k.parent)] = b[CommentDoc(k.parent)]
      BY <2>1, <2>2, <1>6
    <3> QED BY <3>1, <1>2, <1>3, <1>9 DEF SoundComment, Present
  <2>3. CASE CommentDoc(k.parent) \in A
    <3>1. CommentDoc(k.parent) \notin B /\ n[CommentDoc(k.parent)] = a[CommentDoc(k.parent)]
      BY <2>1, <2>3, <1>5
    <3>2. c \in Present(s) /\ s[CommentDoc(c)].review = k.review /\ s[CommentDoc(c)].parent = k.parent
      BY <3>1, <1>2, <1>3, <1>9 DEF LaterComment
    <3>3. c \in Present(a) /\ a[CommentDoc(c)].review = k.review /\ a[CommentDoc(c)].parent = k.parent
      BY <3>2, <1>2 DEF Present
    <3> QED BY <3>1, <3>3, <1>7, <1>9 DEF SoundComment, Present
  <2> QED BY <2>2, <2>3
<1>10. /\ k.body => k.author # Anonymous /\ k.status # "deleted_by_author"
       /\ k.status = "visible" => k.author # Anonymous
  BY <1>2, <1>3 DEF SoundComment
<1>11. ASSUME k.author \in User PROVE ~n[FenceDoc(k.author)]
  <2>1. CASE FenceDoc(k.author) \notin A
    BY <2>1, <1>2, <1>3, <1>6, <1>11, DocsAreDocs DEF SoundComment
  <2>2. CASE FenceDoc(k.author) \in A
    <3>1. FenceDoc(k.author) \notin B /\ n[FenceDoc(k.author)] = a[FenceDoc(k.author)]
      BY <2>2, <1>5, <1>11, DocsAreDocs
    <3>2. c \in Present(s) /\ s[CommentDoc(c)].author = k.author
      BY <3>1, <1>2, <1>3, <1>11, ReviewsAssumption DEF LaterComment
    <3>3. c \in Present(a) /\ a[CommentDoc(c)].author = k.author
      BY <3>2, <1>2 DEF Present
    <3> QED BY <3>1, <3>3, <1>7, <1>11 DEF SoundComment
  <2> QED BY <2>1, <2>2
<1>12. ASSUME k.replyTo \in User PROVE ~n[FenceDoc(k.replyTo)]
  <2>1. CASE FenceDoc(k.replyTo) \notin A
    BY <2>1, <1>2, <1>3, <1>6, <1>12, DocsAreDocs DEF SoundComment
  <2>2. CASE FenceDoc(k.replyTo) \in A
    <3>1. FenceDoc(k.replyTo) \notin B /\ n[FenceDoc(k.replyTo)] = a[FenceDoc(k.replyTo)]
      BY <2>2, <1>5, <1>12, DocsAreDocs
    <3>2. CASE c \in Present(s)
      <4>1. s[CommentDoc(c)].replyTo = k.replyTo
        BY <3>2, <1>2, <1>3, <1>12, ReviewsAssumption DEF LaterComment
      <4>2. c \in Present(a) /\ a[CommentDoc(c)].replyTo = k.replyTo
        BY <3>2, <4>1, <1>2 DEF Present
      <4> QED BY <3>1, <4>2, <1>7, <1>12 DEF SoundComment
    <3>3. CASE c \notin Present(s)
      <4>1. PICK p \in CommentsBy(s, k.replyTo) : CommentDoc(p) \in B
        BY <3>1, <3>3, <1>2, <1>3, <1>12 DEF LaterComment
      <4>2. p \in Comment /\ CommentDoc(p) \in ReviewDocs /\ CommentDoc(p) \notin A
        BY <4>1, <1>5, DocsAreDocs DEF CommentsBy, Present
      <4>3. a[CommentDoc(p)] = s[CommentDoc(p)]
        BY <4>2, <1>6
      <4>4. p \in Present(a) /\ a[CommentDoc(p)].author = k.replyTo
        BY <4>1, <4>2, <4>3 DEF CommentsBy, Present
      <4> QED BY <3>1, <4>2, <4>4, <1>7, <1>12 DEF SoundComment
    <3> QED BY <3>2, <3>3
  <2> QED BY <2>1, <2>2
<1> QED BY <1>8, <1>9, <1>10, <1>11, <1>12 DEF SoundComment

\* The same of the reports of a comment and of the notifications about it.
LEMMA MergedReports ==
  ASSUME NEW s, NEW A, NEW a, NEW B, NEW b, NEW n, Merged(s, A, a, B, b, n), NEW c \in Comment, NEW u \in User
  PROVE  /\ ReportDoc(c, u) \notin A => SoundReport(n, c, u)
         /\ CommentNote(c, u) \notin A => SoundNote(n, c, u)
<1>1. /\ ReportDoc(c, u) \in ReviewDocs /\ CommentNote(c, u) \in ReviewDocs
      /\ CommentDoc(c) \in ReviewDocs /\ FenceDoc(u) \in ReviewDocs
  BY DocsAreDocs
<1>2. ASSUME NEW d \in ReviewDocs, d \in A PROVE d \notin B /\ n[d] = a[d] /\ b[d] = s[d]
  BY <1>2 DEF Merged
<1>3. ASSUME NEW d \in ReviewDocs, d \notin A PROVE n[d] = b[d] /\ a[d] = s[d]
  BY <1>3 DEF Merged
<1>4. /\ SoundReport(a, c, u) /\ SoundNote(a, c, u) /\ SoundReport(b, c, u) /\ SoundNote(b, c, u)
      /\ LaterReport(s, B, b, c, u) /\ LaterNote(s, B, b, c, u)
  BY DEF Merged, Site, Sound, Follows
<1>5. ASSUME ReportDoc(c, u) \notin A PROVE SoundReport(n, c, u)
  <2> SUFFICES ASSUME n[ReportDoc(c, u)] # Nobody
               PROVE  /\ c \in Present(n) /\ ~n[FenceDoc(u)]
                      /\ n[ReportDoc(c, u)] = "open" => c \in Visible(n)
    BY DEF SoundReport
  <2>1. b[ReportDoc(c, u)] = n[ReportDoc(c, u)] /\ a[ReportDoc(c, u)] = s[ReportDoc(c, u)]
    BY <1>1, <1>3, <1>5
  <2>2. c \in Present(n) /\ (n[ReportDoc(c, u)] = "open" => c \in Visible(n))
    <3>1. CASE CommentDoc(c) \notin A
      BY <3>1, <2>1, <1>1, <1>3, <1>4 DEF SoundReport, Present, Visible
    <3>2. CASE CommentDoc(c) \in A
      <4>1. CommentDoc(c) \notin B /\ n[CommentDoc(c)] = a[CommentDoc(c)]
        BY <3>2, <1>1, <1>2
      <4>2. a[ReportDoc(c, u)] = n[ReportDoc(c, u)]
        BY <4>1, <2>1, <1>4 DEF LaterReport
      <4> QED BY <4>1, <4>2, <1>4 DEF SoundReport, Present, Visible
    <3> QED BY <3>1, <3>2
  <2>3. ~n[FenceDoc(u)]
    <3>1. CASE FenceDoc(u) \notin A
      BY <3>1, <2>1, <1>1, <1>3, <1>4 DEF SoundReport
    <3>2. CASE FenceDoc(u) \in A
      <4>1. FenceDoc(u) \notin B /\ n[FenceDoc(u)] = a[FenceDoc(u)]
        BY <3>2, <1>1, <1>2
      <4>2. a[ReportDoc(c, u)] # Nobody
        BY <4>1, <2>1, <1>4 DEF LaterReport
      <4> QED BY <4>1, <4>2, <1>4 DEF SoundReport
    <3> QED BY <3>1, <3>2
  <2> QED BY <2>2, <2>3
<1>6. ASSUME CommentNote(c, u) \notin A PROVE SoundNote(n, c, u)
  <2>1. b[CommentNote(c, u)] = n[CommentNote(c, u)] /\ a[CommentNote(c, u)] = s[CommentNote(c, u)]
    BY <1>1, <1>3, <1>6
  <2>2. CASE CommentDoc(c) \notin A
    BY <2>1, <2>2, <1>1, <1>3, <1>4 DEF SoundNote, Visible
  <2>3. CASE CommentDoc(c) \in A
    <3>1. CommentDoc(c) \notin B /\ n[CommentDoc(c)] = a[CommentDoc(c)]
      BY <2>3, <1>1, <1>2
    <3> QED BY <3>1, <2>1, <1>4 DEF LaterNote, SoundNote, Visible
  <2> QED BY <2>2, <2>3
<1> QED BY <1>5, <1>6

\* The same of likes, of the notifications about a review, and of pins.
LEMMA MergedLikes ==
  ASSUME NEW s, NEW A, NEW a, NEW B, NEW b, NEW n, Merged(s, A, a, B, b, n), NEW r \in Review, NEW u \in User
  PROVE  /\ LikeDoc(r, u) \notin A => (n[LikeDoc(r, u)] => LiveReview(n, r))
         /\ LikeNote(r, u) \notin A =>
              (n[LikeNote(r, u)] # Nobody => LiveReview(n, r) /\ n[ReviewDoc(r)].author # Anonymous)
         /\ FollowedNote(r, u) \notin A =>
              (n[FollowedNote(r, u)] # Nobody => OwnReview(n, r, n[FollowedNote(r, u)]))
<1>1. /\ LikeDoc(r, u) \in ReviewDocs /\ LikeNote(r, u) \in ReviewDocs /\ FollowedNote(r, u) \in ReviewDocs
      /\ ReviewDoc(r) \in ReviewDocs
  BY DocsAreDocs
<1>2. ASSUME NEW d \in ReviewDocs, d \in A PROVE d \notin B /\ n[d] = a[d] /\ b[d] = s[d]
  BY <1>2 DEF Merged
<1>3. ASSUME NEW d \in ReviewDocs, d \notin A PROVE n[d] = b[d] /\ a[d] = s[d]
  BY <1>3 DEF Merged
<1>4. SoundLike(a, r, u) /\ SoundLike(b, r, u) /\ LaterLike(s, B, b, r, u)
  BY DEF Merged, Site, Sound, Follows
<1>5. CASE ReviewDoc(r) \notin A
  BY <1>5, <1>1, <1>3, <1>4 DEF SoundLike, LiveReview, OwnReview
<1>6. CASE ReviewDoc(r) \in A
  <2>1. ReviewDoc(r) \notin B /\ n[ReviewDoc(r)] = a[ReviewDoc(r)]
    BY <1>6, <1>1, <1>2
  <2> QED BY <2>1, <1>1, <1>3, <1>4 DEF SoundLike, LaterLike, LiveReview, OwnReview
<1> QED BY <1>5, <1>6

\* A pin that is not in A points to a review of its owner.
LEMMA MergedPins ==
  ASSUME NEW s, NEW A, NEW a, NEW B, NEW b, NEW n, Merged(s, A, a, B, b, n), NEW u \in User, PinDoc(u) \notin A
  PROVE  SoundPin(n, u)
<1> DEFINE r == n[PinDoc(u)]
<1> SUFFICES ASSUME r # Nobody PROVE OwnReview(n, r, u)
  BY DEF SoundPin
<1>1. PinDoc(u) \in ReviewDocs /\ r \in Review /\ ReviewDoc(r) \in ReviewDocs
  BY DocsAreDocs DEF Merged, TypedSite
<1>2. SoundPin(a, u) /\ SoundPin(b, u) /\ LaterPin(s, B, b, u)
  BY DEF Merged, Site, Sound, Follows
<1>3. b[PinDoc(u)] = r /\ a[PinDoc(u)] = s[PinDoc(u)]
  BY <1>1 DEF Merged
<1>4. CASE ReviewDoc(r) \notin A
  <2>1. n[ReviewDoc(r)] = b[ReviewDoc(r)]
    BY <1>1, <1>4 DEF Merged
  <2> QED BY <2>1, <1>2, <1>3 DEF SoundPin, LiveReview, OwnReview
<1>5. CASE ReviewDoc(r) \in A
  <2>1. ReviewDoc(r) \notin B /\ n[ReviewDoc(r)] = a[ReviewDoc(r)]
    BY <1>1, <1>5 DEF Merged
  <2> QED BY <2>1, <1>2, <1>3 DEF SoundPin, LaterPin, LiveReview, OwnReview
<1> QED BY <1>4, <1>5

\* Two steps from one sound site make a sound site.
LEMMA MergedSitesAreSound ==
  ASSUME NEW s, NEW A, NEW a, NEW B, NEW b, NEW n, Merged(s, A, a, B, b, n)
  PROVE  Site(n)
<1>1. Merged(s, B, b, A, a, n)
  BY DEF Merged
<1>2. \A d : d \notin A \/ d \notin B
  BY DEF Merged
<1>3. \A c \in Comment : SoundComment(n, c)
  <2> SUFFICES ASSUME NEW c \in Comment PROVE SoundComment(n, c)
    OBVIOUS
  <2>1. CASE CommentDoc(c) \notin A
    BY <2>1, MergedComments
  <2>2. CASE CommentDoc(c) \notin B
    BY <2>2, <1>1, MergedComments
  <2> QED BY <2>1, <2>2, <1>2
<1>4. ASSUME NEW c \in Comment, NEW u \in User PROVE SoundReport(n, c, u) /\ SoundNote(n, c, u)
  <2>1. (ReportDoc(c, u) \notin A => SoundReport(n, c, u)) /\ (CommentNote(c, u) \notin A => SoundNote(n, c, u))
    BY MergedReports
  <2>2. (ReportDoc(c, u) \notin B => SoundReport(n, c, u)) /\ (CommentNote(c, u) \notin B => SoundNote(n, c, u))
    BY <1>1, MergedReports
  <2> QED BY <2>1, <2>2, <1>2
<1>5. ASSUME NEW r \in Review, NEW u \in User PROVE SoundLike(n, r, u)
  BY <1>1, <1>2, MergedLikes DEF SoundLike
<1>6. \A u \in User : SoundPin(n, u)
  BY <1>1, <1>2, MergedPins
<1>7. TypedSite(n)
  BY DEF Merged
<1> QED BY <1>3, <1>4, <1>5, <1>6, <1>7 DEF Site, Sound

(***************************************************************************)
(* What came after what                                                    *)
(***************************************************************************)
\* A site comes after itself.
LEMMA FollowsItself ==
  ASSUME NEW s, NEW W, TypedSite(s)
  PROVE  Follows(s, W, s)
<1>1. ASSUME NEW c \in Comment PROVE LaterComment(s, W, s, c)
  BY DEF LaterComment
<1>2. ASSUME NEW c \in Comment, NEW u \in User PROVE LaterReport(s, W, s, c, u) /\ LaterNote(s, W, s, c, u)
  BY DEF LaterReport, LaterNote
<1>3. ASSUME NEW r \in Review, NEW u \in User PROVE LaterLike(s, W, s, r, u)
  BY DEF LaterLike
<1>4. ASSUME NEW u \in User PROVE LaterPin(s, W, s, u)
  BY DEF LaterPin
<1> QED BY <1>1, <1>2, <1>3, <1>4 DEF Follows

\* What comes after a later site comes after the earlier one.
LEMMA FollowsOn ==
  ASSUME NEW s, NEW V, NEW a, NEW W, NEW b, TypedSite(s), TypedSite(a), TypedSite(b),
         Follows(s, V, a), Follows(a, W, b)
  PROVE  Follows(s, V \cup W, b)
<1>1. ASSUME NEW c \in Comment PROVE LaterComment(s, V \cup W, b, c)
  <2> DEFINE k == s[CommentDoc(c)]
             m == a[CommentDoc(c)]
             n == b[CommentDoc(c)]
  <2>1. LaterComment(s, V, a, c) /\ LaterComment(a, W, b, c)
    BY DEF Follows
  <2>2. /\ k.status = "gone" => n.status = "gone"
        /\ k.status = "removed_by_moderator" => n.status \in {"removed_by_moderator", "gone"}
        /\ c \in Present(s) => c \in Present(b) \/ n.status = "gone"
    BY <2>1 DEF LaterComment
  <2>3. c \in Present(s) /\ c \in Present(b) => c \in Present(a)
    BY <2>1 DEF LaterComment, Present, Status
  <2>4. c \in Present(s) /\ c \in Present(b) =>
           /\ n.review = k.review /\ n.parent = k.parent
           /\ n.author \in {k.author, Anonymous} /\ n.replyTo \in {k.replyTo, Nobody}
    BY <2>1, <2>3 DEF LaterComment
  <2>5. ASSUME c \in Present(b), c \notin Present(s)
        PROVE  /\ ReviewDoc(n.review) \in V \cup W
               /\ n.parent # Nobody => CommentDoc(n.parent) \in V \cup W
               /\ n.author \in User => FenceDoc(n.author) \in V \cup W
               /\ n.replyTo \in User => \/ FenceDoc(n.replyTo) \in V \cup W
                                        \/ \E p \in CommentsBy(s, n.replyTo) : CommentDoc(p) \in V \cup W
    <3>1. CASE c \in Present(a)
      BY <2>1, <2>5, <3>1, ReviewsAssumption DEF LaterComment
    <3>2. CASE c \notin Present(a)
      <4>1. /\ ReviewDoc(n.review) \in W
            /\ n.parent # Nobody => CommentDoc(n.parent) \in W
            /\ n.author \in User => FenceDoc(n.author) \in W
            /\ n.replyTo \in User => \/ FenceDoc(n.replyTo) \in W
                                     \/ \E p \in CommentsBy(a, n.replyTo) : CommentDoc(p) \in W
        BY <2>1, <2>5, <3>2 DEF LaterComment
      <4>2. ASSUME n.replyTo \in User, NEW p \in CommentsBy(a, n.replyTo), CommentDoc(p) \in W
            PROVE  \/ FenceDoc(n.replyTo) \in V \cup W
                   \/ \E q \in CommentsBy(s, n.replyTo) : CommentDoc(q) \in V \cup W
        <5>1. p \in Comment /\ p \in Present(a) /\ a[CommentDoc(p)].author = n.replyTo
          BY <4>2 DEF CommentsBy, Present
        <5>2. LaterComment(s, V, a, p)
          BY <5>1 DEF Follows
        <5>3. CASE p \in Present(s)
          <6>1. s[CommentDoc(p)].author = n.replyTo
            BY <4>2, <5>1, <5>2, <5>3, ReviewsAssumption DEF LaterComment
          <6>2. p \in CommentsBy(s, n.replyTo)
            BY <6>1, <5>3 DEF CommentsBy
          <6> QED BY <6>2, <4>2
        <5>4. CASE p \notin Present(s)
          BY <4>2, <5>1, <5>2, <5>4 DEF LaterComment
        <5> QED BY <5>3, <5>4
      <4> QED BY <4>1, <4>2
    <3> QED BY <3>1, <3>2
  <2> QED BY <2>2, <2>4, <2>5 DEF LaterComment
<1>2. ASSUME NEW c \in Comment, NEW u \in User
      PROVE  LaterReport(s, V \cup W, b, c, u) /\ LaterNote(s, V \cup W, b, c, u)
  BY DEF Follows, LaterReport, LaterNote
<1>3. ASSUME NEW r \in Review, NEW u \in User PROVE LaterLike(s, V \cup W, b, r, u)
  BY DEF Follows, LaterLike
<1>4. ASSUME NEW u \in User PROVE LaterPin(s, V \cup W, b, u)
  BY DEF Follows, LaterPin
<1> QED BY <1>1, <1>2, <1>3, <1>4 DEF Follows

\* What a step from s to t writes comes after any site that has those documents from s.
LEMMA FollowsWherever ==
  ASSUME NEW s, NEW W, NEW t, NEW cur, NEW n, Follows(s, W, t),
         \A d \in ReviewDocs : /\ d \in W => cur[d] = s[d] /\ n[d] = t[d]
                               /\ d \notin W => n[d] = cur[d]
  PROVE  Follows(cur, W, n)
<1>1. ASSUME NEW c \in Comment PROVE LaterComment(cur, W, n, c)
  <2>1. CASE CommentDoc(c) \notin W
    BY <2>1, DocsAreDocs DEF LaterComment, Present
  <2>2. CASE CommentDoc(c) \in W
    <3>1. /\ n[CommentDoc(c)] = t[CommentDoc(c)] /\ cur[CommentDoc(c)] = s[CommentDoc(c)]
          /\ (c \in Present(n) <=> c \in Present(t)) /\ (c \in Present(cur) <=> c \in Present(s))
      BY <2>2, DocsAreDocs DEF Present
    <3>2. \A u : \A p \in CommentsBy(s, u) : CommentDoc(p) \in W => p \in CommentsBy(cur, u)
      BY DocsAreDocs DEF CommentsBy, Present
    <3>3. LaterComment(s, W, t, c)
      BY DEF Follows
    <3> QED BY <3>1, <3>2, <3>3 DEF LaterComment
  <2> QED BY <2>1, <2>2
<1>2. ASSUME NEW c \in Comment, NEW u \in User PROVE LaterReport(cur, W, n, c, u) /\ LaterNote(cur, W, n, c, u)
  <2>1. LaterReport(s, W, t, c, u) /\ LaterNote(s, W, t, c, u)
    BY DEF Follows
  <2> QED BY <2>1, DocsAreDocs DEF LaterReport, LaterNote
<1>3. ASSUME NEW r \in Review, NEW u \in User PROVE LaterLike(cur, W, n, r, u)
  <2>1. LaterLike(s, W, t, r, u)
    BY DEF Follows
  <2> QED BY <2>1, DocsAreDocs DEF LaterLike
<1>4. ASSUME NEW u \in User PROVE LaterPin(cur, W, n, u)
  <2>1. LaterPin(s, W, t, u)
    BY DEF Follows
  <2> QED BY <2>1, DocsAreDocs DEF LaterPin
<1> QED BY <1>1, <1>2, <1>3, <1>4 DEF Follows

(***************************************************************************)
(* Steps of the database                                                   *)
(***************************************************************************)
\* What a step may never do: show what a moderator removed, or tell a follower twice.
Settled ==
  /\ \A c \in Comment : db[CommentDoc(c)].status = "removed_by_moderator"
                        => db'[CommentDoc(c)].status \in {"removed_by_moderator", "gone"}
  /\ ToldOnce(db, db')

\* A site whose documents are each of one of two typed sites is typed.
LEMMA MixedSitesAreTyped ==
  ASSUME NEW a, NEW b, TypedSite(a), TypedSite(b), NEW n, DOMAIN n = ReviewDocs,
         \A d \in ReviewDocs : n[d] \in {a[d], b[d]}
  PROVE  TypedSite(n)
<1>1. \A r \in Review : n[ReviewDoc(r)] \in ReviewValue
  BY DocsAreDocs DEF TypedSite
<1>2. \A c \in Comment : n[CommentDoc(c)] \in CommentValue /\ n[AuditDoc(c)] \subseteq {"removed", "dismissed"}
  BY DocsAreDocs DEF TypedSite
<1>3. \A u \in User : n[FenceDoc(u)] \in BOOLEAN /\ n[PinDoc(u)] \in Review \cup {Nobody}
  BY DocsAreDocs DEF TypedSite
<1>4. \A r \in Review, u \in User :
        /\ n[LikeDoc(r, u)] \in BOOLEAN
        /\ n[LikeNote(r, u)] \in User \cup {Nobody} /\ n[FollowedNote(r, u)] \in User \cup {Nobody}
  BY DocsAreDocs DEF TypedSite
<1>5. \A c \in Comment, u \in User :
        /\ n[ReportDoc(c, u)] \in ReportOutcome \cup {Nobody}
        /\ n[CommentNote(c, u)] \in User \cup {Nobody}
  BY DocsAreDocs DEF TypedSite
<1> QED BY <1>1, <1>2, <1>3, <1>4, <1>5 DEF TypedSite

\* The transactions that a step leaves open have missed what it wrote.
LEMMA OthersFollow ==
  ASSUME ReviewsInv, NEW W, NEW others, others \subseteq OpenClients, FallBehind(others, W),
         Transactions', Site(db'), Follows(db, W, db'), sent' \in 0..MaxRequests
  PROVE  ReviewsInv'
<1>1. ASSUME NEW y \in OpenClients'
      PROVE  tx'[y].req \in Request /\ Site(tx'[y].snap) /\ Follows(tx'[y].snap, tx'[y].missed, db')
  <2>1. y \in others /\ y \in OpenClients
    BY <1>1 DEF FallBehind
  <2>2. tx'[y].req = tx[y].req /\ tx'[y].snap = tx[y].snap /\ tx'[y].missed = tx[y].missed \cup W
    BY <2>1 DEF FallBehind
  <2>3. tx[y].req \in Request /\ Site(tx[y].snap) /\ Follows(tx[y].snap, tx[y].missed, db) /\ Site(db)
    BY <2>1 DEF ReviewsInv
  <2>4. Follows(tx[y].snap, tx[y].missed \cup W, db')
    BY <2>3, FollowsOn DEF Site
  <2> QED BY <2>2, <2>3, <2>4
<1> QED BY <1>1 DEF ReviewsInv

\* A commit of what a safe step made of the snapshot.
LEMMA CommitIsSafe ==
  ASSUME ReviewsInv, NEW x \in OpenClients, NEW t, NEW touched, touched \subseteq ReviewDocs,
         SafeStep(tx[x].snap, touched \cup Changed(tx[x].snap, t), t),
         CommitTouching(x, t, touched), sent' \in 0..MaxRequests
  PROVE  ReviewsInv' /\ Settled
<1> DEFINE s == tx[x].snap
           W == touched \cup Changed(s, t)
<1>1. /\ Transactions /\ Site(db) /\ Site(s) /\ Follows(s, tx[x].missed, db)
      /\ Site(t) /\ Follows(s, W, t) /\ ToldOnce(s, t) /\ W \subseteq ReviewDocs
  BY DEF ReviewsInv, SafeStep
<1>2. DOMAIN t = ReviewDocs /\ DOMAIN db = ReviewDocs
  BY <1>1 DEF Site, TypedSite
<1>3. Transactions' /\ Committed(x, t, W)
  BY <1>1, <1>2, CommitTouchingKeepsTransactions
<1> HIDE DEF W
<1>4. /\ \A d \in W : d \notin tx[x].missed /\ s[d] = db[d] /\ db'[d] = t[d]
      /\ \A d \in ReviewDocs \ W : db'[d] = db[d] /\ t[d] = s[d]
      /\ DOMAIN db' = ReviewDocs
  BY <1>2, <1>3 DEF Committed
<1>5. \A d \in ReviewDocs \ tx[x].missed : s[d] = db[d]
  BY <1>1, <1>2 DEF Transactions, SnapshotsAreCurrent
<1>6. TypedSite(db')
  <2>1. \A d \in ReviewDocs : db'[d] \in {t[d], db[d]}
    BY <1>4
  <2> QED BY <2>1, <1>1, <1>4, MixedSitesAreTyped DEF Site
<1>7. Merged(s, tx[x].missed, db, W, t, db')
  BY <1>1, <1>4, <1>5, <1>6 DEF Merged
<1>8. Site(db')
  BY <1>7, MergedSitesAreSound
<1>9. Follows(db, W, db')
  BY <1>1, <1>4, FollowsWherever
<1>10. ReviewsInv'
  BY <1>3, <1>8, <1>9, OthersFollow DEF Committed
<1>11. ASSUME NEW r \in Review, NEW u \in User, db[FollowedNote(r, u)] = Nobody, db'[FollowedNote(r, u)] # Nobody
       PROVE  ~(LiveReview(db, r) /\ db[ReviewDoc(r)].fannedOut)
  <2>1. FollowedNote(r, u) \in W
    BY <1>4, <1>11, DocsAreDocs
  <2>2. s[FollowedNote(r, u)] = Nobody /\ t[FollowedNote(r, u)] # Nobody
    BY <2>1, <1>4, <1>11
  <2>3. ReviewDoc(r) \in W
    BY <2>2, <1>1 DEF Follows, LaterLike
  <2>4. s[ReviewDoc(r)] = db[ReviewDoc(r)]
    BY <2>3, <1>4
  <2> QED BY <2>2, <2>4, <1>1 DEF ToldOnce, LiveReview
<1>12. \A c \in Comment : LaterComment(db, W, db', c)
  BY <1>9 DEF Follows
<1> QED BY <1>10, <1>11, <1>12 DEF Settled, LaterComment, ToldOnce

\* A single write that is a safe step.
LEMMA WriteIsSafe ==
  ASSUME ReviewsInv, NEW t, NEW touched, touched \subseteq ReviewDocs,
         SafeStep(db, touched \cup Changed(db, t), t), WriteTouching(t, touched), sent' \in 0..MaxRequests
  PROVE  ReviewsInv' /\ Settled
<1> DEFINE W == touched \cup Changed(db, t)
<1>1. /\ Transactions /\ Site(db) /\ Site(t) /\ Follows(db, W, t) /\ ToldOnce(db, t) /\ db' = t
  BY DEF ReviewsInv, SafeStep, WriteTouching
<1>2. DOMAIN t = DOMAIN db /\ touched \subseteq DOMAIN db
  BY <1>1 DEF Site, TypedSite
<1>3. Transactions' /\ FallBehind(OpenClients, W)
  BY <1>1, <1>2, WriteTouchingKeepsTransactions
<1> HIDE DEF W
<1>4. ReviewsInv'
  BY <1>1, <1>3, OthersFollow
<1>5. \A c \in Comment : LaterComment(db, W, db', c)
  BY <1>1 DEF Follows
<1> QED BY <1>1, <1>4, <1>5 DEF Settled, LaterComment

\* A step that leaves the database alone leaves everything settled.
LEMMA QuietStepsSettle ==
  ASSUME db' = db
  PROVE  Settled
BY DEF Settled, ToldOnce

(***************************************************************************)
(* Taking documents out                                                    *)
(***************************************************************************)
QuietNotes(s, t) ==
  \A r \in Review, u \in User : t[FollowedNote(r, u)] \in {Nobody, s[FollowedNote(r, u)]}
\* A part of a handler that tells no follower anything.
Keeps(s, W, t) == Site(t) /\ Follows(s, W, t) /\ QuietNotes(s, t)

\* Two parts, one after the other.
LEMMA KeepsTwice ==
  ASSUME NEW s, NEW W, NEW a, NEW b, Site(s), Keeps(s, W, a), Keeps(a, W, b)
  PROVE  Keeps(s, W, b)
<1>1. W \cup W = W
  OBVIOUS
<1>2. Follows(s, W \cup W, b)
  BY FollowsOn DEF Keeps, Site
<1>3. QuietNotes(s, b)
  BY DEF Keeps, QuietNotes
<1> QED BY <1>1, <1>2, <1>3 DEF Keeps

\* Who tells no follower anything tells none twice.
LEMMA QuietNotesTellOnce ==
  ASSUME NEW s, NEW t, QuietNotes(s, t)
  PROVE  ToldOnce(s, t)
BY DEF QuietNotes, ToldOnce

\* t is s without the documents of D.
Taken(s, D, t) ==
  /\ DOMAIN t = ReviewDocs
  /\ \A d \in ReviewDocs : d \notin D => t[d] = s[d]
  /\ \A r \in Review : ReviewDoc(r) \in D => t[ReviewDoc(r)] = [status |-> "gone"]
  /\ \A c \in Comment : /\ CommentDoc(c) \in D => t[CommentDoc(c)] = [status |-> "gone"]
                        /\ AuditDoc(c) \in D => t[AuditDoc(c)] = {}
  /\ \A u \in User : /\ FenceDoc(u) \in D => t[FenceDoc(u)] = FALSE
                     /\ PinDoc(u) \in D => t[PinDoc(u)] = Nobody
  /\ \A r \in Review, u \in User : /\ LikeDoc(r, u) \in D => t[LikeDoc(r, u)] = FALSE
                                   /\ LikeNote(r, u) \in D => t[LikeNote(r, u)] = Nobody
                                   /\ FollowedNote(r, u) \in D => t[FollowedNote(r, u)] = Nobody
  /\ \A c \in Comment, u \in User : /\ ReportDoc(c, u) \in D => t[ReportDoc(c, u)] = Nobody
                                    /\ CommentNote(c, u) \in D => t[CommentNote(c, u)] = Nobody

\* Without does that to each kind of document.
LEMMA WithoutDocs ==
  ASSUME NEW s, DOMAIN s = ReviewDocs, NEW D
  PROVE  Taken(s, D, Without(s, D))
<1> DEFINE t == Without(s, D)
<1>1. /\ \A r : Blank(ReviewDoc(r)) = [status |-> "gone"]
      /\ \A c : Blank(CommentDoc(c)) = [status |-> "gone"] /\ Blank(AuditDoc(c)) = {}
      /\ \A u : Blank(FenceDoc(u)) = FALSE /\ Blank(PinDoc(u)) = Nobody
      /\ \A r, u : Blank(LikeDoc(r, u)) = FALSE /\ Blank(LikeNote(r, u)) = Nobody /\ Blank(FollowedNote(r, u)) = Nobody
      /\ \A c, u : Blank(ReportDoc(c, u)) = Nobody /\ Blank(CommentNote(c, u)) = Nobody
  BY DEF Blank, ReviewDoc, CommentDoc, AuditDoc, FenceDoc, PinDoc, LikeDoc, LikeNote, FollowedNote, ReportDoc, CommentNote
<1>2. DOMAIN t = ReviewDocs /\ \A d \in ReviewDocs : t[d] = IF d \in D THEN Blank(d) ELSE s[d]
  BY DEF Without
<1> HIDE DEF t
<1> QED BY <1>1, <1>2, DocsAreDocs DEF Taken, t

\* Whatever refers to a document of D is itself of D.
Enclosed(s, D) ==
  /\ \A c \in Present(s) : CommentDoc(c) \notin D =>
       /\ ReviewDoc(s[CommentDoc(c)].review) \notin D
       /\ s[CommentDoc(c)].parent # Nobody => CommentDoc(s[CommentDoc(c)].parent) \notin D
  /\ \A c \in Comment, u \in User : CommentDoc(c) \in D =>
       /\ ReportDoc(c, u) \in D \/ s[ReportDoc(c, u)] = Nobody
       /\ CommentNote(c, u) \in D \/ s[CommentNote(c, u)] = Nobody
  /\ \A r \in Review, u \in User : ReviewDoc(r) \in D =>
       /\ LikeDoc(r, u) \in D \/ ~s[LikeDoc(r, u)]
       /\ LikeNote(r, u) \in D \/ s[LikeNote(r, u)] = Nobody
       /\ FollowedNote(r, u) \in D \/ s[FollowedNote(r, u)] = Nobody
       /\ s[PinDoc(u)] = r => PinDoc(u) \in D

\* Such documents may be taken out.
LEMMA WithoutKeeps ==
  ASSUME NEW s, Site(s), NEW D, Enclosed(s, D), NEW W
  PROVE  Keeps(s, W, Without(s, D))
<1> DEFINE t == Without(s, D)
<1>1. TypedSite(s) /\ DOMAIN s = ReviewDocs
  BY DEF Site, TypedSite
<1>0. Taken(s, D, t)
  BY <1>1, WithoutDocs
<1> HIDE DEF t
<1>2. /\ DOMAIN t = ReviewDocs
      /\ \A d \in ReviewDocs : d \notin D => t[d] = s[d]
  BY <1>0 DEF Taken
<1>3. \A r \in Review : ReviewDoc(r) \in D => t[ReviewDoc(r)] = [status |-> "gone"]
  BY <1>0 DEF Taken
<1>4. \A c \in Comment : /\ CommentDoc(c) \in D => t[CommentDoc(c)] = [status |-> "gone"]
                         /\ AuditDoc(c) \in D => t[AuditDoc(c)] = {}
  BY <1>0 DEF Taken
<1>5. \A u \in User : /\ FenceDoc(u) \in D => t[FenceDoc(u)] = FALSE
                      /\ PinDoc(u) \in D => t[PinDoc(u)] = Nobody
  BY <1>0 DEF Taken
<1>6. \A r \in Review, u \in User : /\ LikeDoc(r, u) \in D => t[LikeDoc(r, u)] = FALSE
                                    /\ LikeNote(r, u) \in D => t[LikeNote(r, u)] = Nobody
                                    /\ FollowedNote(r, u) \in D => t[FollowedNote(r, u)] = Nobody
  BY <1>0 DEF Taken
<1>7. \A c \in Comment, u \in User : /\ ReportDoc(c, u) \in D => t[ReportDoc(c, u)] = Nobody
                                     /\ CommentNote(c, u) \in D => t[CommentNote(c, u)] = Nobody
  BY <1>0 DEF Taken
<1>8. TypedSite(t)
  <2>1. \A r \in Review : t[ReviewDoc(r)] \in ReviewValue
    BY <1>1, <1>2, <1>3, DocsAreDocs DEF TypedSite, ReviewValue
  <2>2. \A c \in Comment : t[CommentDoc(c)] \in CommentValue
    BY <1>1, <1>2, <1>4, DocsAreDocs DEF TypedSite, CommentValue
  <2>3. \A c \in Comment : t[AuditDoc(c)] \subseteq {"removed", "dismissed"}
    BY <1>1, <1>2, <1>4, DocsAreDocs DEF TypedSite
  <2>4. \A u \in User : t[FenceDoc(u)] \in BOOLEAN /\ t[PinDoc(u)] \in Review \cup {Nobody}
    BY <1>1, <1>2, <1>5, DocsAreDocs DEF TypedSite
  <2>5. \A r \in Review, u \in User :
          /\ t[LikeDoc(r, u)] \in BOOLEAN
          /\ t[LikeNote(r, u)] \in User \cup {Nobody} /\ t[FollowedNote(r, u)] \in User \cup {Nobody}
    BY <1>1, <1>2, <1>6, DocsAreDocs DEF TypedSite
  <2>6. \A c \in Comment, u \in User :
          t[ReportDoc(c, u)] \in ReportOutcome \cup {Nobody} /\ t[CommentNote(c, u)] \in User \cup {Nobody}
    BY <1>1, <1>2, <1>7, DocsAreDocs DEF TypedSite
  <2> QED BY <1>2, <2>1, <2>2, <2>3, <2>4, <2>5, <2>6 DEF TypedSite
<1>9. /\ \A c \in Present(t) : c \in Present(s) /\ CommentDoc(c) \notin D /\ t[CommentDoc(c)] = s[CommentDoc(c)]
      /\ \A c \in Present(s) : CommentDoc(c) \notin D => c \in Present(t)
  BY <1>2, <1>4, DocsAreDocs DEF Present, Status
<1>10. \A r \in Review : ReviewDoc(r) \notin D => t[ReviewDoc(r)] = s[ReviewDoc(r)]
  BY <1>2, DocsAreDocs
<1>11. \A u \in User : t[FenceDoc(u)] => s[FenceDoc(u)]
  BY <1>2, <1>5, DocsAreDocs
<1>12. ASSUME NEW c \in Comment PROVE SoundComment(t, c)
  <2> SUFFICES ASSUME c \in Present(t) PROVE SoundComment(t, c)
    BY DEF SoundComment
  <2> DEFINE k == s[CommentDoc(c)]
  <2>1. c \in Present(s) /\ CommentDoc(c) \notin D /\ t[CommentDoc(c)] = k
    BY <1>9
  <2>2. /\ k.review \in Review /\ k.parent \in Comment \cup {Nobody} /\ k.author \in User \cup {Anonymous}
        /\ k.replyTo \in User \cup {Nobody}
    BY <1>1, <2>1 DEF TypedSite, Present, CommentValue, Status
  <2>3. SoundComment(s, c)
    BY DEF Site, Sound
  <2>4. LiveReview(t, k.review)
    BY <1>10, <2>1, <2>2, <2>3 DEF Enclosed, SoundComment, LiveReview
  <2>5. k.parent # Nobody => /\ k.parent \in Present(t) /\ t[CommentDoc(k.parent)].review = k.review
                             /\ t[CommentDoc(k.parent)].parent = Nobody
    BY <1>9, <2>1, <2>2, <2>3 DEF Enclosed, SoundComment
  <2> QED BY <1>11, <2>1, <2>2, <2>3, <2>4, <2>5 DEF SoundComment
<1>13. ASSUME NEW c \in Comment, NEW u \in User PROVE SoundReport(t, c, u) /\ SoundNote(t, c, u)
  <2>1. SoundReport(s, c, u) /\ SoundNote(s, c, u)
    BY DEF Site, Sound
  <2>2. SoundReport(t, c, u)
    <3> SUFFICES ASSUME t[ReportDoc(c, u)] # Nobody PROVE SoundReport(t, c, u)
      BY DEF SoundReport
    <3>1. ReportDoc(c, u) \notin D /\ t[ReportDoc(c, u)] = s[ReportDoc(c, u)]
      BY <1>2, <1>7, DocsAreDocs
    <3>2. CommentDoc(c) \notin D /\ t[CommentDoc(c)] = s[CommentDoc(c)]
      BY <3>1, <1>2, DocsAreDocs DEF Enclosed
    <3> QED BY <1>11, <2>1, <3>1, <3>2 DEF SoundReport, Present, Visible
  <2>3. SoundNote(t, c, u)
    <3> SUFFICES ASSUME t[CommentNote(c, u)] # Nobody PROVE SoundNote(t, c, u)
      BY DEF SoundNote
    <3>1. CommentNote(c, u) \notin D /\ t[CommentNote(c, u)] = s[CommentNote(c, u)]
      BY <1>2, <1>7, DocsAreDocs
    <3>2. CommentDoc(c) \notin D /\ t[CommentDoc(c)] = s[CommentDoc(c)]
      BY <3>1, <1>2, DocsAreDocs DEF Enclosed
    <3> QED BY <2>1, <3>1, <3>2 DEF SoundNote, Visible
  <2> QED BY <2>2, <2>3
<1>14. ASSUME NEW r \in Review, NEW u \in User PROVE SoundLike(t, r, u)
  <2>1. SoundLike(s, r, u)
    BY DEF Site, Sound
  <2>2. CASE ReviewDoc(r) \in D
    BY <1>2, <1>6, <2>2, DocsAreDocs DEF Enclosed, SoundLike
  <2>3. CASE ReviewDoc(r) \notin D
    BY <1>2, <1>6, <1>10, <2>1, <2>3, DocsAreDocs DEF SoundLike, LiveReview, OwnReview
  <2> QED BY <2>2, <2>3
<1>15. ASSUME NEW u \in User PROVE SoundPin(t, u)
  <2> SUFFICES ASSUME t[PinDoc(u)] # Nobody PROVE OwnReview(t, t[PinDoc(u)], u)
    BY DEF SoundPin
  <2>1. PinDoc(u) \notin D /\ t[PinDoc(u)] = s[PinDoc(u)]
    BY <1>2, <1>5, DocsAreDocs
  <2>2. SoundPin(s, u) /\ s[PinDoc(u)] \in Review
    BY <1>1, <2>1 DEF Site, Sound, TypedSite
  <2>3. ReviewDoc(s[PinDoc(u)]) \notin D
    BY <2>1, <2>2 DEF Enclosed
  <2> QED BY <1>10, <2>1, <2>2, <2>3 DEF SoundPin, OwnReview, LiveReview
<1>16. Follows(s, W, t)
  <2>1. ASSUME NEW c \in Comment PROVE LaterComment(s, W, t, c)
    <3>1. CASE CommentDoc(c) \in D
      <4>1. t[CommentDoc(c)].status = "gone" /\ c \notin Present(t)
        BY <1>4, <1>9, <3>1
      <4> QED BY <4>1 DEF LaterComment
    <3>2. CASE CommentDoc(c) \notin D
      <4>1. t[CommentDoc(c)] = s[CommentDoc(c)] /\ (c \in Present(t) <=> c \in Present(s))
        BY <1>2, <1>9, <3>2, DocsAreDocs
      <4> QED BY <4>1 DEF LaterComment
    <3> QED BY <3>1, <3>2
  <2>2. ASSUME NEW c \in Comment, NEW u \in User PROVE LaterReport(s, W, t, c, u) /\ LaterNote(s, W, t, c, u)
    BY <1>2, <1>7, DocsAreDocs DEF LaterReport, LaterNote
  <2>3. ASSUME NEW r \in Review, NEW u \in User PROVE LaterLike(s, W, t, r, u)
    BY <1>2, <1>6, DocsAreDocs DEF LaterLike
  <2>4. ASSUME NEW u \in User PROVE LaterPin(s, W, t, u)
    BY <1>2, <1>5, DocsAreDocs DEF LaterPin
  <2> QED BY <2>1, <2>2, <2>3, <2>4 DEF Follows
<1>17. QuietNotes(s, t)
  BY <1>2, <1>6, DocsAreDocs DEF QuietNotes
<1>18. Sound(t)
  BY <1>12, <1>13, <1>14, <1>15 DEF Sound
<1> QED BY <1>8, <1>16, <1>17, <1>18 DEF Keeps, Site, t

(***************************************************************************)
(* Editing comments                                                        *)
(***************************************************************************)
\* Documents of two kinds, or of two ids, are two documents.
LEMMA Kinds ==
  /\ \A u : FenceDoc(u)[1] = "fence" /\ PinDoc(u)[1] = "pin"
  /\ \A r : ReviewDoc(r)[1] = "review"
  /\ \A c : CommentDoc(c)[1] = "comment" /\ AuditDoc(c)[1] = "audit"
  /\ \A r, u : LikeDoc(r, u)[1] = "like" /\ LikeNote(r, u)[1] = "likeNote" /\ FollowedNote(r, u)[1] = "followedNote"
  /\ \A c, u : ReportDoc(c, u)[1] = "report" /\ CommentNote(c, u)[1] = "commentNote"
BY DEF FenceDoc, PinDoc, ReviewDoc, CommentDoc, AuditDoc, LikeDoc, LikeNote, FollowedNote, ReportDoc, CommentNote

\* Different subjects have different documents.
LEMMA Ids ==
  /\ \A u, v : (FenceDoc(u) = FenceDoc(v) => u = v) /\ (PinDoc(u) = PinDoc(v) => u = v)
  /\ \A r, x : ReviewDoc(r) = ReviewDoc(x) => r = x
  /\ \A c, x : (CommentDoc(c) = CommentDoc(x) => c = x) /\ (AuditDoc(c) = AuditDoc(x) => c = x)
  /\ \A r, u, x, v : /\ LikeDoc(r, u) = LikeDoc(x, v) => r = x /\ u = v
                     /\ LikeNote(r, u) = LikeNote(x, v) => r = x /\ u = v
                     /\ FollowedNote(r, u) = FollowedNote(x, v) => r = x /\ u = v
  /\ \A c, u, x, v : /\ ReportDoc(c, u) = ReportDoc(x, v) => c = x /\ u = v
                     /\ CommentNote(c, u) = CommentNote(x, v) => c = x /\ u = v
BY DEF FenceDoc, PinDoc, ReviewDoc, CommentDoc, AuditDoc, LikeDoc, LikeNote, FollowedNote, ReportDoc, CommentNote

\* What is about a comment is a report of it, a notification or its audit trail.
LEMMA AboutComments ==
  /\ \A c, d : d \in About(c) => d[1] \in {"report", "commentNote", "audit"}
  /\ \A c : \A u \in User : ReportDoc(c, u) \in About(c) /\ CommentNote(c, u) \in About(c)
  /\ \A c, x, u : ReportDoc(c, u) \in About(x) => c = x
  /\ \A c, x, u : CommentNote(c, u) \in About(x) => c = x
<1>1. \A c, d : d \in About(c) <=> d = AuditDoc(c) \/ \E u \in User : d = ReportDoc(c, u) \/ d = CommentNote(c, u)
  BY DEF About
<1>2. \A c, d : d \in About(c) => d[1] \in {"report", "commentNote", "audit"}
  BY <1>1, Kinds
<1>3. \A c : \A u \in User : ReportDoc(c, u) \in About(c) /\ CommentNote(c, u) \in About(c)
  BY DEF About
<1>4. \A c, x, u : /\ ReportDoc(c, u) # AuditDoc(x) /\ CommentNote(c, u) # AuditDoc(x)
                  /\ \A v : ReportDoc(c, u) # CommentNote(x, v)
  BY DEF ReportDoc, AuditDoc, CommentNote
<1>5. \A c, x, u : ReportDoc(c, u) \in About(x) => c = x
  BY <1>1, <1>4, Ids
<1>6. \A c, x, u : CommentNote(c, u) \in About(x) => c = x
  BY <1>1, <1>4, Ids
<1> QED BY <1>2, <1>3, <1>5, <1>6

\* The notifications about a review.
LEMMA AboutReviews ==
  /\ \A r, d : d \in ReviewNotes(r) => d[1] \in {"likeNote", "followedNote"}
  /\ \A r : \A u \in User : LikeNote(r, u) \in ReviewNotes(r) /\ FollowedNote(r, u) \in ReviewNotes(r)
  /\ \A r, x, u : LikeNote(r, u) \in ReviewNotes(x) => r = x
  /\ \A r, x, u : FollowedNote(r, u) \in ReviewNotes(x) => r = x
<1>1. \A r, d : d \in ReviewNotes(r) <=> \E u \in User : d = LikeNote(r, u) \/ d = FollowedNote(r, u)
  BY DEF ReviewNotes
<1>2. \A r, d : d \in ReviewNotes(r) => d[1] \in {"likeNote", "followedNote"}
  BY <1>1, Kinds
<1>3. \A r : \A u \in User : LikeNote(r, u) \in ReviewNotes(r) /\ FollowedNote(r, u) \in ReviewNotes(r)
  BY DEF ReviewNotes
<1>4. \A r, x, u, v : LikeNote(r, u) # FollowedNote(x, v)
  BY DEF LikeNote, FollowedNote
<1>5. \A r, x, u : LikeNote(r, u) \in ReviewNotes(x) => r = x
  BY <1>1, <1>4, Ids
<1>6. \A r, x, u : FollowedNote(r, u) \in ReviewNotes(x) => r = x
  BY <1>1, <1>4, Ids
<1> QED BY <1>2, <1>3, <1>5, <1>6

\* An edit leaves a comment where it is and takes no more than its author and text.
\* A new report is of a comment that is there, by an account that is.
EditedComment(s, t, c) ==
  LET k == s[CommentDoc(c)]  n == t[CommentDoc(c)]
  IN  n = k \/ /\ c \in Present(s) /\ c \in Present(t)
               /\ n.review = k.review /\ n.parent = k.parent
               /\ n.author \in {k.author, Anonymous} /\ n.replyTo \in {k.replyTo, Nobody}
               /\ n.body => n.author # Anonymous /\ n.status # "deleted_by_author"
               /\ n.status = "visible" => n.author # Anonymous
               /\ k.status = "removed_by_moderator" => n.status = "removed_by_moderator"
EditedAbout(s, W, t, c, u) ==
  /\ LaterReport(s, W, t, c, u)
  /\ t[ReportDoc(c, u)] # Nobody => s[ReportDoc(c, u)] # Nobody \/ (c \in Present(s) /\ ~s[FenceDoc(u)])
  /\ t[ReportDoc(c, u)] = "open" => s[ReportDoc(c, u)] \in {Nobody, "open"} /\ (c \in Visible(s) => c \in Visible(t))
                                    /\ (s[ReportDoc(c, u)] = Nobody => c \in Visible(s))
  /\ t[CommentNote(c, u)] \in {Nobody, s[CommentNote(c, u)]}
  /\ t[CommentNote(c, u)] # Nobody => (c \in Visible(s) => c \in Visible(t))
                                      /\ t[CommentDoc(c)].author = s[CommentDoc(c)].author

SameButComments(s, t) ==
  /\ \A r \in Review : t[ReviewDoc(r)] = s[ReviewDoc(r)]
  /\ \A u \in User : t[FenceDoc(u)] = s[FenceDoc(u)] /\ t[PinDoc(u)] = s[PinDoc(u)]
  /\ \A r \in Review, u \in User :
       /\ t[LikeDoc(r, u)] = s[LikeDoc(r, u)]
       /\ t[LikeNote(r, u)] = s[LikeNote(r, u)] /\ t[FollowedNote(r, u)] = s[FollowedNote(r, u)]

\* What else is the same but comments and what is about them.
LEMMA OnlyComments ==
  ASSUME NEW s, NEW t,
         \A d \in ReviewDocs : d[1] \notin {"comment", "report", "commentNote", "audit"} => t[d] = s[d]
  PROVE  SameButComments(s, t)
BY DocsAreDocs, Kinds DEF SameButComments

\* An edit of comments keeps the site sound.
LEMMA EditKeeps ==
  ASSUME NEW s, NEW W, NEW t, Site(s), TypedSite(t), SameButComments(s, t),
         \A c \in Comment : EditedComment(s, t, c),
         \A c \in Comment, u \in User : EditedAbout(s, W, t, c, u)
  PROVE  Keeps(s, W, t)
<1>1. TypedSite(s) /\ Sound(s)
  BY DEF Site
<1>2. \A c \in Comment : c \in Present(s) <=> c \in Present(t)
  BY DEF EditedComment, Present
<1>3. \A c \in Present(s) :
        /\ c \in Comment /\ t[CommentDoc(c)].review = s[CommentDoc(c)].review
        /\ t[CommentDoc(c)].parent = s[CommentDoc(c)].parent
        /\ t[CommentDoc(c)].author \in {s[CommentDoc(c)].author, Anonymous}
        /\ t[CommentDoc(c)].replyTo \in {s[CommentDoc(c)].replyTo, Nobody}
  BY DEF EditedComment, Present
<1>4. ASSUME NEW c \in Comment PROVE SoundComment(t, c)
  <2> SUFFICES ASSUME c \in Present(t) PROVE SoundComment(t, c)
    BY DEF SoundComment
  <2> DEFINE k == s[CommentDoc(c)]
             n == t[CommentDoc(c)]
  <2>1. c \in Present(s) /\ SoundComment(s, c) /\ EditedComment(s, t, c)
    BY <1>1, <1>2 DEF Sound
  <2>2. k.review \in Review /\ k.parent \in Comment \cup {Nobody}
    BY <1>1, <2>1 DEF TypedSite, Present, CommentValue, Status
  <2>3. LiveReview(t, n.review)
    BY <1>3, <2>1, <2>2 DEF SoundComment, LiveReview, SameButComments
  <2>4. n.parent # Nobody => /\ n.parent \in Present(t) /\ t[CommentDoc(n.parent)].review = n.review
                             /\ t[CommentDoc(n.parent)].parent = Nobody
    BY <1>2, <1>3, <2>1, <2>2 DEF SoundComment
  <2>5. /\ n.body => n.author # Anonymous /\ n.status # "deleted_by_author"
        /\ n.status = "visible" => n.author # Anonymous
    BY <2>1 DEF SoundComment, EditedComment
  <2>6. /\ n.author \in User => ~t[FenceDoc(n.author)]
        /\ n.replyTo \in User => ~t[FenceDoc(n.replyTo)]
    BY <1>3, <2>1, ReviewsAssumption DEF SoundComment, SameButComments
  <2> QED BY <2>3, <2>4, <2>5, <2>6 DEF SoundComment
<1>5. ASSUME NEW c \in Comment, NEW u \in User PROVE SoundReport(t, c, u) /\ SoundNote(t, c, u)
  <2>1. SoundReport(s, c, u) /\ SoundNote(s, c, u) /\ EditedAbout(s, W, t, c, u) /\ t[FenceDoc(u)] = s[FenceDoc(u)]
    BY <1>1 DEF Sound, SameButComments
  <2>2. SoundReport(t, c, u)
    BY <1>2, <2>1 DEF SoundReport, EditedAbout
  <2>3. SoundNote(t, c, u)
    BY <2>1 DEF SoundNote, EditedAbout
  <2> QED BY <2>2, <2>3
<1>6. ASSUME NEW r \in Review, NEW u \in User PROVE SoundLike(t, r, u)
  BY <1>1 DEF Sound, SoundLike, SameButComments, LiveReview, OwnReview
<1>7. ASSUME NEW u \in User PROVE SoundPin(t, u)
  BY <1>1 DEF Sound, SoundPin, SameButComments, OwnReview, LiveReview, TypedSite
<1>8. Follows(s, W, t)
  <2>1. ASSUME NEW c \in Comment PROVE LaterComment(s, W, t, c)
    <3>1. EditedComment(s, t, c) /\ (c \in Present(s) <=> c \in Present(t))
      BY <1>2
    <3> QED BY <1>3, <3>1 DEF LaterComment, EditedComment, Present, Status
  <2>2. ASSUME NEW c \in Comment, NEW u \in User PROVE LaterReport(s, W, t, c, u) /\ LaterNote(s, W, t, c, u)
    BY DEF LaterReport, LaterNote, EditedAbout
  <2>3. ASSUME NEW r \in Review, NEW u \in User PROVE LaterLike(s, W, t, r, u)
    BY DEF LaterLike, SameButComments
  <2>4. ASSUME NEW u \in User PROVE LaterPin(s, W, t, u)
    BY DEF LaterPin, SameButComments
  <2> QED BY <2>1, <2>2, <2>3, <2>4 DEF Follows
<1>9. QuietNotes(s, t)
  BY DEF QuietNotes, SameButComments
<1> QED BY <1>4, <1>5, <1>6, <1>7, <1>8, <1>9 DEF Keeps, Site, Sound

(***************************************************************************)
(* Cleanup                                                                 *)
(***************************************************************************)
\* The documents that go with the comments of C.
Threads(C) == UNION { {CommentDoc(c)} \cup About(c) : c \in C }

\* They are comments, reports, notifications of comments and audits, and no others of the comments.
LEMMA ThreadDocs ==
  ASSUME NEW C
  PROVE  /\ \A d : d \in Threads(C) <=> \E c \in C : d = CommentDoc(c) \/ d \in About(c)
         /\ \A d \in Threads(C) : d[1] \in {"comment", "report", "commentNote", "audit"}
         /\ \A c : CommentDoc(c) \in Threads(C) <=> c \in C
<1>1. \A d : d \in Threads(C) <=> \E c \in C : d = CommentDoc(c) \/ d \in About(c)
  BY DEF Threads
<1>2. \A c, d : d \in About(c) => d[1] \in {"report", "commentNote", "audit"}
  BY AboutComments
<1>3. \A d \in Threads(C) : d[1] \in {"comment", "report", "commentNote", "audit"}
  BY <1>1, <1>2, Kinds
<1>4. \A c, x : CommentDoc(c) \notin About(x)
  BY <1>2, Kinds
<1>5. \A c : CommentDoc(c) \in Threads(C) <=> c \in C
  BY <1>1, <1>4, Ids
<1> QED BY <1>1, <1>3, <1>5

\* Comments may be deleted whose replies are deleted with them.
LEMMA HardDeleteKeeps ==
  ASSUME NEW s, Site(s), NEW C, C \subseteq Comment,
         \A c \in Present(s) : s[CommentDoc(c)].parent \in C => c \in C, NEW W
  PROVE  /\ Keeps(s, W, HardDelete(s, C))
         /\ Taken(s, Threads(C), HardDelete(s, C))
<1>1. HardDelete(s, C) = Without(s, Threads(C))
  BY DEF HardDelete, Threads
<1>2. Enclosed(s, Threads(C))
  <2>1. ASSUME NEW c \in Present(s), CommentDoc(c) \notin Threads(C)
        PROVE  /\ ReviewDoc(s[CommentDoc(c)].review) \notin Threads(C)
               /\ s[CommentDoc(c)].parent # Nobody => CommentDoc(s[CommentDoc(c)].parent) \notin Threads(C)
    <3>1. \A r : ReviewDoc(r) \notin Threads(C)
      BY ThreadDocs, Kinds
    <3>2. s[CommentDoc(c)].parent \notin C
      BY <2>1, ThreadDocs
    <3> QED BY <3>1, <3>2, ThreadDocs
  <2>2. ASSUME NEW c \in Comment, NEW u \in User, CommentDoc(c) \in Threads(C)
        PROVE  ReportDoc(c, u) \in Threads(C) /\ CommentNote(c, u) \in Threads(C)
    <3>1. c \in C
      BY <2>2, ThreadDocs
    <3> QED BY <3>1, ThreadDocs, AboutComments
  <2>3. \A r \in Review : ReviewDoc(r) \notin Threads(C)
    BY ThreadDocs, Kinds
  <2> QED BY <2>1, <2>2, <2>3 DEF Enclosed
<1>3. DOMAIN s = ReviewDocs
  BY DEF Site, TypedSite
<1> QED BY <1>1, <1>2, <1>3, WithoutKeeps, WithoutDocs

\* What is left of the comments after a deletion.
LEMMA HardDeleteLeaves ==
  ASSUME NEW s, NEW C, NEW t, Taken(s, Threads(C), t)
  PROVE  /\ Present(t) = Present(s) \ C
         /\ \A c \in Comment \ C : t[CommentDoc(c)] = s[CommentDoc(c)]
         /\ \A c \in Comment \ C, u \in User : t[ReportDoc(c, u)] = s[ReportDoc(c, u)]
         /\ SameButComments(s, t)
<1>1. \A c \in Comment \ C : t[CommentDoc(c)] = s[CommentDoc(c)]
  BY ThreadDocs, DocsAreDocs DEF Taken
<1>2. \A c \in Comment : c \in C => t[CommentDoc(c)] = [status |-> "gone"]
  BY ThreadDocs DEF Taken
<1>3. Present(t) = Present(s) \ C
  BY <1>1, <1>2 DEF Present, Status
<1>4. ASSUME NEW c \in Comment \ C, NEW u \in User PROVE t[ReportDoc(c, u)] = s[ReportDoc(c, u)]
  <2>1. \A x \in C : ReportDoc(c, u) # CommentDoc(x) /\ ReportDoc(c, u) \notin About(x)
    BY Kinds, AboutComments
  <2>2. ReportDoc(c, u) \notin Threads(C)
    BY <2>1, ThreadDocs
  <2> QED BY <2>2, DocsAreDocs DEF Taken
<1>5. \A d \in ReviewDocs : d[1] \notin {"comment", "report", "commentNote", "audit"} => t[d] = s[d]
  BY ThreadDocs DEF Taken
<1> QED BY <1>1, <1>3, <1>4, <1>5, OnlyComments

\* Tombstones without replies may be deleted.
LEMMA RemoveEmptyTombstonesKeeps ==
  ASSUME NEW s, Site(s), NEW P, P \subseteq Comment, NEW W
  PROVE  /\ Keeps(s, W, RemoveEmptyTombstones(s, P))
         /\ Taken(s, Threads(EmptyTombstones(s, P)), RemoveEmptyTombstones(s, P))
<1>1. EmptyTombstones(s, P) \subseteq Comment
  BY DEF EmptyTombstones
<1>2. \A c \in Present(s) : s[CommentDoc(c)].parent \notin EmptyTombstones(s, P)
  BY DEF EmptyTombstones, Replies
<1> QED BY <1>1, <1>2, HardDeleteKeeps DEF RemoveEmptyTombstones

(***************************************************************************)
(* The handlers                                                            *)
(***************************************************************************)
\* What a handler without a fan-out does is a safe step.
LEMMA KeepsIsSafe ==
  ASSUME NEW s, NEW touched, touched \subseteq ReviewDocs, NEW t, Site(s),
         Keeps(s, touched \cup Changed(s, t), t)
  PROVE  SafeStep(s, touched \cup Changed(s, t), t)
BY QuietNotesTellOnce DEF SafeStep, Keeps, Changed, Site, TypedSite

\* A review goes with its comments, likes, notifications and pins.
LEMMA DeleteReviewKeeps ==
  ASSUME NEW s, Site(s), NEW r \in Review, NEW W
  PROVE  Keeps(s, W, Without(HardDelete(s, OnReview(s, r)),
                             {ReviewDoc(r)} \cup { LikeDoc(r, u) : u \in User } \cup ReviewNotes(r)
                             \cup { PinDoc(u) : u \in { v \in User : s[PinDoc(v)] = r } }))
<1> DEFINE C == OnReview(s, r)
           a == HardDelete(s, C)
           D == {ReviewDoc(r)} \cup { LikeDoc(r, u) : u \in User } \cup ReviewNotes(r)
                \cup { PinDoc(u) : u \in { v \in User : s[PinDoc(v)] = r } }
<1>1. C \subseteq Comment
  BY DEF OnReview, Present
<1>2. ASSUME NEW c \in Present(s), s[CommentDoc(c)].parent \in C PROVE c \in C
  <2>1. c \in Comment /\ SoundComment(s, c) /\ s[CommentDoc(c)].parent # Nobody
    BY <1>1, <1>2, ReviewsAssumption DEF Site, Sound, Present
  <2> QED BY <1>2, <2>1 DEF SoundComment, OnReview
<1>3. Keeps(s, W, a) /\ Taken(s, Threads(C), a)
  BY <1>1, <1>2, HardDeleteKeeps
<1>4. Present(a) = Present(s) \ C /\ SameButComments(s, a) /\ \A c \in Comment \ C : a[CommentDoc(c)] = s[CommentDoc(c)]
  BY <1>3, HardDeleteLeaves
<1> HIDE DEF a
<1>5. /\ \A d \in D : d[1] \in {"review", "like", "likeNote", "followedNote", "pin"}
      /\ \A x : ReviewDoc(x) \in D => x = r
      /\ \A u \in User : LikeDoc(r, u) \in D /\ LikeNote(r, u) \in D /\ FollowedNote(r, u) \in D
      /\ \A u \in User : s[PinDoc(u)] = r => PinDoc(u) \in D
  <2>1. \A d \in D : d[1] \in {"review", "like", "likeNote", "followedNote", "pin"}
    BY Kinds, AboutReviews
  <2>2. ASSUME NEW x, ReviewDoc(x) \in D PROVE x = r
    <3>1. ReviewDoc(x) \notin ReviewNotes(r) /\ \A u : ReviewDoc(x) # LikeDoc(r, u) /\ ReviewDoc(x) # PinDoc(u)
      BY Kinds, AboutReviews
    <3> QED BY <2>2, <3>1, Ids
  <2>3. \A u \in User : LikeDoc(r, u) \in D /\ LikeNote(r, u) \in D /\ FollowedNote(r, u) \in D
    BY AboutReviews
  <2>4. \A u \in User : s[PinDoc(u)] = r => PinDoc(u) \in D
    OBVIOUS
  <2> QED BY <2>1, <2>2, <2>3, <2>4
<1> HIDE DEF D
<1>6. Enclosed(a, D)
  <2>1. ASSUME NEW c \in Present(a), CommentDoc(c) \notin D
        PROVE  /\ ReviewDoc(a[CommentDoc(c)].review) \notin D
               /\ a[CommentDoc(c)].parent # Nobody => CommentDoc(a[CommentDoc(c)].parent) \notin D
    <3>1. c \in Present(s) /\ c \notin C /\ a[CommentDoc(c)] = s[CommentDoc(c)] /\ c \in Comment
      BY <1>4 DEF Present
    <3>2. s[CommentDoc(c)].review # r
      BY <3>1 DEF OnReview
    <3>3. \A x : CommentDoc(x) \notin D
      BY <1>5, Kinds
    <3> QED BY <1>5, <3>1, <3>2, <3>3
  <2>2. \A c : CommentDoc(c) \notin D
    BY <1>5, Kinds
  <2>3. ASSUME NEW x \in Review, NEW u \in User, ReviewDoc(x) \in D
        PROVE  /\ LikeDoc(x, u) \in D /\ LikeNote(x, u) \in D /\ FollowedNote(x, u) \in D
               /\ a[PinDoc(u)] = x => PinDoc(u) \in D
    BY <1>4, <1>5, <2>3 DEF SameButComments
  <2> QED BY <2>1, <2>2, <2>3 DEF Enclosed
<1>7. Keeps(a, W, Without(a, D))
  BY <1>3, <1>6, WithoutKeeps DEF Keeps
<1> HIDE DEF C
<1>8. Keeps(s, W, Without(a, D))
  BY <1>3, <1>7, KeepsTwice
<1> QED BY <1>8 DEF a, D, C

(***************************************************************************)
(* Likes, pins, deliveries and accounts                                    *)
(***************************************************************************)
\* The comments of t, their reports, notifications and audit trails are those of s.
CommentsStay(s, t) ==
  /\ \A c \in Comment : t[CommentDoc(c)] = s[CommentDoc(c)] /\ t[AuditDoc(c)] = s[AuditDoc(c)]
  /\ \A c \in Comment, u \in User :
       t[ReportDoc(c, u)] = s[ReportDoc(c, u)] /\ t[CommentNote(c, u)] = s[CommentNote(c, u)]

\* No comment and no report is left of u, and no reply names it.
Silent(s, u) ==
  /\ \A c \in Present(s) : s[CommentDoc(c)].author # u /\ s[CommentDoc(c)].replyTo # u
  /\ \A c \in Comment : s[ReportDoc(c, u)] = Nobody

\* Reviews stay live, and only silent accounts are deleted.
AccountsAndReviews(s, t) ==
  /\ \A r \in Review : t[ReviewDoc(r)] \in ReviewValue /\ (LiveReview(s, r) => LiveReview(t, r))
  /\ \A u \in User : t[FenceDoc(u)] \in BOOLEAN /\ (t[FenceDoc(u)] => s[FenceDoc(u)] \/ Silent(s, u))

\* The likes, notifications and pins of t are sound, and follow on those of s.
Edges(s, W, t) ==
  /\ \A u \in User : t[PinDoc(u)] \in Review \cup {Nobody} /\ SoundPin(t, u) /\ LaterPin(s, W, t, u)
  /\ \A r \in Review, u \in User :
       /\ t[LikeDoc(r, u)] \in BOOLEAN
       /\ t[LikeNote(r, u)] \in User \cup {Nobody} /\ t[FollowedNote(r, u)] \in User \cup {Nobody}
       /\ SoundLike(t, r, u) /\ LaterLike(s, W, t, r, u)

\* What is around the comments may change as long as that is so.
LEMMA AroundComments ==
  ASSUME NEW s, Site(s), NEW W, NEW t, DOMAIN t = ReviewDocs,
         CommentsStay(s, t), AccountsAndReviews(s, t), Edges(s, W, t)
  PROVE  Site(t) /\ Follows(s, W, t)
<1>1. TypedSite(s) /\ Sound(s)
  BY DEF Site
<1>2. \A c : c \in Present(t) <=> c \in Present(s)
  BY DEF CommentsStay, Present
<1>3. TypedSite(t)
  BY <1>1 DEF TypedSite, CommentsStay, AccountsAndReviews, Edges
<1>4. ASSUME NEW c \in Comment PROVE SoundComment(t, c)
  <2> SUFFICES ASSUME c \in Present(t) PROVE SoundComment(t, c)
    BY DEF SoundComment
  <2> DEFINE k == s[CommentDoc(c)]
  <2>1. c \in Present(s) /\ t[CommentDoc(c)] = k /\ SoundComment(s, c)
    BY <1>1, <1>2 DEF CommentsStay, Sound
  <2>2. k.review \in Review /\ k.parent \in Comment \cup {Nobody}
    BY <1>1, <2>1 DEF TypedSite, Present, CommentValue, Status
  <2>3. LiveReview(t, k.review)
    BY <2>1, <2>2 DEF SoundComment, AccountsAndReviews
  <2>4. k.parent # Nobody => /\ k.parent \in Present(t) /\ t[CommentDoc(k.parent)].review = k.review
                             /\ t[CommentDoc(k.parent)].parent = Nobody
    BY <1>2, <2>1, <2>2 DEF SoundComment, CommentsStay
  <2>5. /\ k.author \in User => ~t[FenceDoc(k.author)]
        /\ k.replyTo \in User => ~t[FenceDoc(k.replyTo)]
    BY <2>1 DEF SoundComment, AccountsAndReviews, Silent
  <2> QED BY <2>1, <2>3, <2>4, <2>5 DEF SoundComment
<1>5. ASSUME NEW c \in Comment, NEW u \in User PROVE SoundReport(t, c, u) /\ SoundNote(t, c, u)
  <2>1. /\ SoundReport(s, c, u) /\ SoundNote(s, c, u) /\ t[CommentDoc(c)] = s[CommentDoc(c)]
        /\ t[ReportDoc(c, u)] = s[ReportDoc(c, u)] /\ t[CommentNote(c, u)] = s[CommentNote(c, u)]
    BY <1>1 DEF Sound, CommentsStay
  <2>2. s[ReportDoc(c, u)] # Nobody => ~t[FenceDoc(u)]
    BY <2>1 DEF AccountsAndReviews, Silent, SoundReport
  <2> QED BY <2>1, <2>2 DEF SoundReport, SoundNote, Present, Visible
<1>6. Sound(t)
  BY <1>4, <1>5 DEF Sound, Edges
<1>7. \A c \in Comment : LaterComment(s, W, t, c)
  BY <1>2 DEF LaterComment, CommentsStay
<1>8. \A c \in Comment, u \in User : LaterReport(s, W, t, c, u) /\ LaterNote(s, W, t, c, u)
  BY DEF LaterReport, LaterNote, CommentsStay
<1> QED BY <1>3, <1>6, <1>7, <1>8 DEF Site, Follows, Edges

\* What else is the same when only documents of these kinds are written.
LEMMA OnlyEdges ==
  ASSUME NEW s, NEW t, Site(s),
         \A d \in ReviewDocs : d[1] \notin {"like", "likeNote", "followedNote", "pin"} => t[d] = s[d]
  PROVE  CommentsStay(s, t) /\ AccountsAndReviews(s, t)
<1>1. \A c \in Comment : t[CommentDoc(c)] = s[CommentDoc(c)] /\ t[AuditDoc(c)] = s[AuditDoc(c)]
  BY DocsAreDocs, Kinds
<1>2. \A c \in Comment, u \in User :
        t[ReportDoc(c, u)] = s[ReportDoc(c, u)] /\ t[CommentNote(c, u)] = s[CommentNote(c, u)]
  BY DocsAreDocs, Kinds
<1>3. \A r \in Review : t[ReviewDoc(r)] = s[ReviewDoc(r)]
  BY DocsAreDocs, Kinds
<1>4. \A u \in User : t[FenceDoc(u)] = s[FenceDoc(u)]
  BY DocsAreDocs, Kinds
<1> QED BY <1>1, <1>2, <1>3, <1>4 DEF CommentsStay, AccountsAndReviews, LiveReview, Site, TypedSite

\* A user likes a live review, and its author may be told.
LEMMA LikeKeeps ==
  ASSUME NEW s, Site(s), NEW r \in Review, NEW u \in User, LiveReview(s, r),
         NEW W, ReviewDoc(r) \in W, NEW t, DOMAIN t = ReviewDocs,
         \A d \in ReviewDocs : d \notin {LikeDoc(r, u), LikeNote(r, u)} => t[d] = s[d],
         t[LikeDoc(r, u)] = TRUE,
         t[LikeNote(r, u)] = s[LikeNote(r, u)] \/ (t[LikeNote(r, u)] = u /\ s[ReviewDoc(r)].author # Anonymous)
  PROVE  Keeps(s, W, t)
<1>1. /\ CommentsStay(s, t) /\ AccountsAndReviews(s, t)
      /\ \A x \in Review : t[ReviewDoc(x)] = s[ReviewDoc(x)]
      /\ \A v \in User : t[PinDoc(v)] = s[PinDoc(v)]
      /\ \A x \in Review, v \in User : t[FollowedNote(x, v)] = s[FollowedNote(x, v)]
  <2>1. \A d \in ReviewDocs : d[1] \notin {"like", "likeNote"} => t[d] = s[d]
    BY Kinds
  <2>2. CommentsStay(s, t) /\ AccountsAndReviews(s, t)
    BY <2>1, OnlyEdges
  <2> QED BY <2>1, <2>2, DocsAreDocs, Kinds
<1>2. \A x \in Review, v \in User :
        \/ x = r /\ v = u
        \/ t[LikeDoc(x, v)] = s[LikeDoc(x, v)] /\ t[LikeNote(x, v)] = s[LikeNote(x, v)]
  <2>1. \A x, v : LikeDoc(x, v) # LikeNote(r, u) /\ LikeNote(x, v) # LikeDoc(r, u)
    BY DEF LikeDoc, LikeNote
  <2> QED BY <2>1, Ids, DocsAreDocs
<1>3. Edges(s, W, t)
  <2>1. ASSUME NEW v \in User PROVE t[PinDoc(v)] \in Review \cup {Nobody} /\ SoundPin(t, v) /\ LaterPin(s, W, t, v)
    <3>1. SoundPin(s, v) /\ s[PinDoc(v)] \in Review \cup {Nobody} /\ t[PinDoc(v)] = s[PinDoc(v)]
      BY <1>1 DEF Site, Sound, TypedSite
    <3> QED BY <3>1, <1>1 DEF SoundPin, LaterPin, OwnReview, LiveReview
  <2>2. ASSUME NEW x \in Review, NEW v \in User
        PROVE  /\ t[LikeDoc(x, v)] \in BOOLEAN
               /\ t[LikeNote(x, v)] \in User \cup {Nobody} /\ t[FollowedNote(x, v)] \in User \cup {Nobody}
               /\ SoundLike(t, x, v) /\ LaterLike(s, W, t, x, v)
    <3>1. /\ SoundLike(s, x, v) /\ t[ReviewDoc(x)] = s[ReviewDoc(x)] /\ t[FollowedNote(x, v)] = s[FollowedNote(x, v)]
          /\ s[LikeDoc(x, v)] \in BOOLEAN /\ s[LikeNote(x, v)] \in User \cup {Nobody}
          /\ s[FollowedNote(x, v)] \in User \cup {Nobody}
      BY <1>1 DEF Site, Sound, TypedSite
    <3>2. CASE x = r /\ v = u
      BY <3>1, <3>2 DEF SoundLike, LaterLike, LiveReview, OwnReview
    <3>3. CASE t[LikeDoc(x, v)] = s[LikeDoc(x, v)] /\ t[LikeNote(x, v)] = s[LikeNote(x, v)]
      BY <3>1, <3>3 DEF SoundLike, LaterLike, LiveReview, OwnReview
    <3> QED BY <1>2, <3>2, <3>3
  <2> QED BY <2>1, <2>2 DEF Edges
<1>4. QuietNotes(s, t)
  BY <1>1 DEF QuietNotes
<1> QED BY <1>1, <1>3, <1>4, AroundComments DEF Keeps

\* A user pins its own review.
LEMMA PinKeeps ==
  ASSUME NEW s, Site(s), NEW r \in Review, NEW u \in User, OwnReview(s, r, u),
         NEW W, ReviewDoc(r) \in W, NEW t, DOMAIN t = ReviewDocs,
         \A d \in ReviewDocs : d # PinDoc(u) => t[d] = s[d], t[PinDoc(u)] = r
  PROVE  Keeps(s, W, t)
<1>1. \A d \in ReviewDocs : d[1] # "pin" => t[d] = s[d]
  BY Kinds
<1>2. /\ CommentsStay(s, t) /\ AccountsAndReviews(s, t)
      /\ \A x \in Review : t[ReviewDoc(x)] = s[ReviewDoc(x)]
      /\ \A x \in Review, v \in User : /\ t[FollowedNote(x, v)] = s[FollowedNote(x, v)]
                                       /\ t[LikeNote(x, v)] = s[LikeNote(x, v)] /\ t[LikeDoc(x, v)] = s[LikeDoc(x, v)]
  <2>1. CommentsStay(s, t) /\ AccountsAndReviews(s, t)
    BY <1>1, OnlyEdges
  <2> QED BY <1>1, <2>1, DocsAreDocs, Kinds
<1>3. \A v \in User : v # u => t[PinDoc(v)] = s[PinDoc(v)]
  BY Ids, DocsAreDocs
<1>4. ASSUME NEW v \in User PROVE t[PinDoc(v)] \in Review \cup {Nobody} /\ SoundPin(t, v) /\ LaterPin(s, W, t, v)
  <2>1. SoundPin(s, v) /\ s[PinDoc(v)] \in Review \cup {Nobody}
    BY DEF Site, Sound, TypedSite
  <2> QED BY <2>1, <1>2, <1>3 DEF SoundPin, LaterPin, OwnReview, LiveReview
<1>5. ASSUME NEW x \in Review, NEW v \in User
      PROVE  /\ t[LikeDoc(x, v)] \in BOOLEAN
             /\ t[LikeNote(x, v)] \in User \cup {Nobody} /\ t[FollowedNote(x, v)] \in User \cup {Nobody}
             /\ SoundLike(t, x, v) /\ LaterLike(s, W, t, x, v)
  <2>1. /\ SoundLike(s, x, v) /\ s[LikeDoc(x, v)] \in BOOLEAN
        /\ s[LikeNote(x, v)] \in User \cup {Nobody} /\ s[FollowedNote(x, v)] \in User \cup {Nobody}
    BY DEF Site, Sound, TypedSite
  <2> QED BY <2>1, <1>2 DEF SoundLike, LaterLike, OwnReview, LiveReview
<1>6. Edges(s, W, t)
  BY <1>4, <1>5 DEF Edges
<1>7. QuietNotes(s, t)
  BY <1>2 DEF QuietNotes
<1> QED BY <1>2, <1>6, <1>7, AroundComments DEF Keeps

\* A review is made, or stays what it is but for its receipt, and its followers
\* are told of it while that receipt is not there.
LEMMA FollowersAreTold ==
  ASSUME NEW s, Site(s), NEW r \in Review, NEW u \in User, LiveReview(s, r) => OwnReview(s, r, u),
         NEW W, ReviewDoc(r) \in W, NEW t, DOMAIN t = ReviewDocs,
         \A d \in ReviewDocs : d # ReviewDoc(r) /\ (\A v \in User : d # FollowedNote(r, v)) => t[d] = s[d],
         t[ReviewDoc(r)] \in ReviewValue, OwnReview(t, r, u),
         \A v \in User : t[FollowedNote(r, v)] \in {s[FollowedNote(r, v)], u},
         \A v \in User : t[FollowedNote(r, v)] # s[FollowedNote(r, v)] => LiveReview(s, r) /\ ~s[ReviewDoc(r)].fannedOut
  PROVE  Site(t) /\ Follows(s, W, t) /\ ToldOnce(s, t)
<1>1. \A d \in ReviewDocs : d[1] \notin {"review", "followedNote"} => t[d] = s[d]
  BY Kinds
<1>2. /\ \A c \in Comment : t[CommentDoc(c)] = s[CommentDoc(c)] /\ t[AuditDoc(c)] = s[AuditDoc(c)]
      /\ \A c \in Comment, v \in User :
           t[ReportDoc(c, v)] = s[ReportDoc(c, v)] /\ t[CommentNote(c, v)] = s[CommentNote(c, v)]
      /\ \A v \in User : t[FenceDoc(v)] = s[FenceDoc(v)] /\ t[PinDoc(v)] = s[PinDoc(v)]
      /\ \A x \in Review, v \in User : t[LikeNote(x, v)] = s[LikeNote(x, v)] /\ t[LikeDoc(x, v)] = s[LikeDoc(x, v)]
  BY <1>1, DocsAreDocs, Kinds
<1>3. /\ \A x \in Review : x # r => t[ReviewDoc(x)] = s[ReviewDoc(x)]
      /\ \A x \in Review, v \in User : x # r => t[FollowedNote(x, v)] = s[FollowedNote(x, v)]
  <2>1. ASSUME NEW x \in Review, x # r PROVE t[ReviewDoc(x)] = s[ReviewDoc(x)]
    <3>1. \A v \in User : ReviewDoc(x) # FollowedNote(r, v)
      BY Kinds
    <3> QED BY <2>1, <3>1, Ids, DocsAreDocs
  <2>2. ASSUME NEW x \in Review, NEW v \in User, x # r PROVE t[FollowedNote(x, v)] = s[FollowedNote(x, v)]
    <3>1. FollowedNote(x, v) # ReviewDoc(r)
      BY Kinds
    <3>2. \A w \in User : FollowedNote(x, v) # FollowedNote(r, w)
      BY <2>2, Ids
    <3> QED BY <3>1, <3>2, DocsAreDocs
  <2> QED BY <2>1, <2>2
<1>4. \A x \in Review : /\ LiveReview(s, x) => LiveReview(t, x) /\ t[ReviewDoc(x)].author = s[ReviewDoc(x)].author
                        /\ t[ReviewDoc(x)] \in ReviewValue
  BY <1>3 DEF Site, TypedSite, OwnReview, LiveReview
<1>5. CommentsStay(s, t) /\ AccountsAndReviews(s, t)
  BY <1>2, <1>4 DEF CommentsStay, AccountsAndReviews, Site, TypedSite
<1>6. ASSUME NEW v \in User PROVE t[PinDoc(v)] \in Review \cup {Nobody} /\ SoundPin(t, v) /\ LaterPin(s, W, t, v)
  <2>1. SoundPin(s, v) /\ s[PinDoc(v)] \in Review \cup {Nobody} /\ t[PinDoc(v)] = s[PinDoc(v)]
    BY <1>2 DEF Site, Sound, TypedSite
  <2> QED BY <2>1, <1>4 DEF SoundPin, LaterPin, OwnReview
<1>7. ASSUME NEW x \in Review, NEW v \in User
      PROVE  /\ t[LikeDoc(x, v)] \in BOOLEAN
             /\ t[LikeNote(x, v)] \in User \cup {Nobody} /\ t[FollowedNote(x, v)] \in User \cup {Nobody}
             /\ SoundLike(t, x, v) /\ LaterLike(s, W, t, x, v)
  <2>1. /\ SoundLike(s, x, v) /\ s[LikeDoc(x, v)] \in BOOLEAN
        /\ s[LikeNote(x, v)] \in User \cup {Nobody} /\ s[FollowedNote(x, v)] \in User \cup {Nobody}
    BY DEF Site, Sound, TypedSite
  <2>2. /\ t[LikeNote(x, v)] = s[LikeNote(x, v)] /\ t[LikeDoc(x, v)] = s[LikeDoc(x, v)]
        /\ LiveReview(s, x) => LiveReview(t, x) /\ t[ReviewDoc(x)].author = s[ReviewDoc(x)].author
    BY <1>2, <1>4
  <2>3. CASE x = r
    <3>1. /\ t[FollowedNote(x, v)] \in {s[FollowedNote(x, v)], u} /\ OwnReview(t, x, u) /\ ReviewDoc(x) \in W
          /\ LiveReview(s, x) => OwnReview(s, x, u)
      BY <2>3
    <3> QED BY <2>1, <2>2, <3>1 DEF SoundLike, LaterLike, OwnReview
  <2>4. CASE x # r
    <3>1. t[FollowedNote(x, v)] = s[FollowedNote(x, v)]
      BY <2>4, <1>3
    <3> QED BY <2>1, <2>2, <3>1 DEF SoundLike, LaterLike, OwnReview
  <2> QED BY <2>3, <2>4
<1>8. Edges(s, W, t)
  BY <1>6, <1>7 DEF Edges
<1>9. ToldOnce(s, t)
  BY <1>3 DEF ToldOnce
<1> QED BY <1>5, <1>8, <1>9, AroundComments

(***************************************************************************)
(* Comments and reports                                                    *)
(***************************************************************************)
\* A new comment's value: it is written with all that it refers to.
Postable(s, W, k) ==
  /\ k \in CommentValue /\ k.status = "visible" /\ k.review \in Review /\ k.author \in User
  /\ LiveReview(s, k.review) /\ ReviewDoc(k.review) \in W
  /\ ~s[FenceDoc(k.author)] /\ FenceDoc(k.author) \in W
  /\ k.parent # Nobody => /\ k.parent \in Present(s) /\ s[CommentDoc(k.parent)].review = k.review
                          /\ s[CommentDoc(k.parent)].parent = Nobody /\ CommentDoc(k.parent) \in W
  /\ k.replyTo \in User => \E p \in CommentsBy(s, k.replyTo) : CommentDoc(p) \in W

\* A comment that is posted with what it refers to keeps the site sound.
LEMMA PostedKeeps ==
  ASSUME NEW s, Site(s), NEW c \in Comment, s[CommentDoc(c)].status = "unborn",
         NEW W, CommentDoc(c) \in W, NEW k, Postable(s, W, k), NEW said, said \subseteq User
  PROVE  Keeps(s, W, Posted(s, c, said, k))
<1> DEFINE t == Posted(s, c, said, k)
<1>1. TypedSite(s) /\ Sound(s) /\ DOMAIN s = ReviewDocs
  BY DEF Site, TypedSite
<1>2. /\ DOMAIN t = ReviewDocs
      /\ \A d \in ReviewDocs : t[d] = IF d = CommentDoc(c) THEN k
                                      ELSE IF d \in { CommentNote(c, v) : v \in said } THEN k.author ELSE s[d]
  BY <1>1 DEF Posted
<1> HIDE DEF t
<1>3. \A d \in ReviewDocs : d[1] \notin {"comment", "commentNote"} => t[d] = s[d]
  BY <1>2, Kinds
<1>4. /\ SameButComments(s, t)
      /\ \A x \in Comment : t[AuditDoc(x)] = s[AuditDoc(x)]
      /\ \A x \in Comment, v \in User : t[ReportDoc(x, v)] = s[ReportDoc(x, v)]
  BY <1>3, OnlyComments, DocsAreDocs, Kinds
<1>5. t[CommentDoc(c)] = k /\ \A x \in Comment \ {c} : t[CommentDoc(x)] = s[CommentDoc(x)]
  <2>1. \A x, v : CommentDoc(x) # CommentNote(c, v)
    BY Kinds
  <2> QED BY <2>1, <1>2, Ids, DocsAreDocs
<1>6. \A x \in Comment, v \in User :
        t[CommentNote(x, v)] = s[CommentNote(x, v)] \/ (x = c /\ t[CommentNote(x, v)] = k.author)
  <2>1. \A x, v : CommentNote(x, v) # CommentDoc(c) /\ (x # c => CommentNote(x, v) \notin { CommentNote(c, w) : w \in said })
    BY Kinds, Ids
  <2> QED BY <2>1, <1>2, DocsAreDocs
<1>7. c \notin Present(s) /\ c \in Present(t) /\ \A x \in Comment \ {c} : x \in Present(t) <=> x \in Present(s)
  BY <1>5 DEF Present, Status, Postable
<1>8. TypedSite(t)
  <2>1. \A x \in Comment : t[CommentDoc(x)] \in CommentValue
    BY <1>1, <1>5 DEF TypedSite, Postable
  <2>2. \A x \in Comment, v \in User : t[CommentNote(x, v)] \in User \cup {Nobody}
    BY <1>1, <1>6 DEF TypedSite, Postable
  <2> QED BY <1>1, <1>2, <1>4, <2>1, <2>2 DEF TypedSite, SameButComments
<1>9. ASSUME NEW x \in Comment PROVE SoundComment(t, x)
  <2>1. CASE x = c
    <3>1. LiveReview(t, k.review) /\ ~t[FenceDoc(k.author)]
      BY <1>4 DEF Postable, SameButComments, LiveReview
    <3>2. k.parent # Nobody => /\ k.parent \in Present(t) /\ t[CommentDoc(k.parent)].review = k.review
                               /\ t[CommentDoc(k.parent)].parent = Nobody
      BY <1>5, <1>7 DEF Postable, Present
    <3>3. ASSUME k.replyTo \in User PROVE ~t[FenceDoc(k.replyTo)]
      <4>1. PICK p \in CommentsBy(s, k.replyTo) : CommentDoc(p) \in W
        BY <3>3 DEF Postable
      <4>2. p \in Present(s) /\ p \in Comment /\ s[CommentDoc(p)].author = k.replyTo
        BY DEF CommentsBy, Present
      <4>3. SoundComment(s, p)
        BY <1>1, <4>2 DEF Sound
      <4> QED BY <3>3, <4>2, <4>3, <1>4 DEF SoundComment, SameButComments
    <3>4. k.author # Anonymous /\ k.status = "visible"
      BY ReviewsAssumption DEF Postable
    <3> QED BY <2>1, <1>5, <3>1, <3>2, <3>3, <3>4 DEF SoundComment
  <2>2. CASE x # c
    <3> SUFFICES ASSUME x \in Present(t) PROVE SoundComment(t, x)
      BY DEF SoundComment
    <3> DEFINE m == s[CommentDoc(x)]
    <3>1. x \in Present(s) /\ t[CommentDoc(x)] = m /\ SoundComment(s, x)
      BY <2>2, <1>1, <1>5, <1>7 DEF Sound
    <3>2. m.review \in Review
      BY <1>1, <3>1 DEF TypedSite, Present, CommentValue, Status
    <3>3. LiveReview(t, m.review)
      BY <1>4, <3>1, <3>2 DEF SoundComment, LiveReview, SameButComments
    <3>4. m.parent # Nobody => /\ m.parent \in Present(t) /\ t[CommentDoc(m.parent)].review = m.review
                               /\ t[CommentDoc(m.parent)].parent = Nobody
      BY <1>5, <1>7, <3>1 DEF SoundComment, Present
    <3>5. /\ m.author \in User => ~t[FenceDoc(m.author)]
          /\ m.replyTo \in User => ~t[FenceDoc(m.replyTo)]
      BY <1>4, <3>1 DEF SoundComment, SameButComments
    <3> QED BY <3>1, <3>3, <3>4, <3>5 DEF SoundComment
  <2> QED BY <2>1, <2>2
<1>10. ASSUME NEW x \in Comment, NEW v \in User PROVE SoundReport(t, x, v) /\ SoundNote(t, x, v)
  <2>1. SoundReport(s, x, v) /\ SoundNote(s, x, v)
    BY <1>1 DEF Sound
  <2>2. SoundReport(t, x, v)
    BY <2>1, <1>4, <1>5, <1>7 DEF SoundReport, SameButComments, Visible
  <2>3. CASE x = c
    <3>1. s[CommentNote(x, v)] = Nobody
      BY <2>1, <2>3 DEF SoundNote, Visible
    <3> QED BY <2>2, <2>3, <3>1, <1>5, <1>6 DEF SoundNote, Visible, Postable
  <2>4. CASE x # c
    BY <2>1, <2>2, <2>4, <1>5, <1>6 DEF SoundNote, Visible
  <2> QED BY <2>3, <2>4
<1>11. ASSUME NEW r \in Review, NEW u \in User PROVE SoundLike(t, r, u)
  BY <1>1, <1>4 DEF Sound, SoundLike, SameButComments, LiveReview, OwnReview
<1>12. ASSUME NEW u \in User PROVE SoundPin(t, u)
  BY <1>1, <1>4 DEF Sound, SoundPin, SameButComments, OwnReview, LiveReview, TypedSite
<1>13. Follows(s, W, t)
  <2>1. ASSUME NEW x \in Comment PROVE LaterComment(s, W, t, x)
    <3>1. CASE x = c
      BY <3>1, <1>5, <1>7 DEF LaterComment, Postable
    <3>2. CASE x # c
      BY <3>2, <1>5, <1>7 DEF LaterComment
    <3> QED BY <3>1, <3>2
  <2>2. ASSUME NEW x \in Comment, NEW u \in User PROVE LaterReport(s, W, t, x, u) /\ LaterNote(s, W, t, x, u)
    BY <1>4, <1>6 DEF LaterReport, LaterNote
  <2>3. ASSUME NEW r \in Review, NEW u \in User PROVE LaterLike(s, W, t, r, u)
    BY <1>4 DEF LaterLike, SameButComments
  <2>4. ASSUME NEW u \in User PROVE LaterPin(s, W, t, u)
    BY <1>4 DEF LaterPin, SameButComments
  <2> QED BY <2>1, <2>2, <2>3, <2>4 DEF Follows
<1>14. QuietNotes(s, t)
  BY <1>4 DEF QuietNotes, SameButComments
<1>15. Site(t)
  BY <1>8, <1>9, <1>10, <1>11, <1>12 DEF Site, Sound
<1> QED BY <1>13, <1>14, <1>15 DEF Keeps, t

\* An edit of one comment, its reports, notifications and audit trail.
LEMMA OneCommentKeeps ==
  ASSUME NEW s, Site(s), NEW c \in Comment, NEW W, NEW t, DOMAIN t = ReviewDocs,
         \A d \in ReviewDocs : d # CommentDoc(c) /\ d \notin About(c) => t[d] = s[d],
         t[CommentDoc(c)] \in CommentValue, t[AuditDoc(c)] \subseteq {"removed", "dismissed"},
         \A u \in User : t[ReportDoc(c, u)] \in ReportOutcome \cup {Nobody},
         EditedComment(s, t, c), \A u \in User : EditedAbout(s, W, t, c, u)
  PROVE  Keeps(s, W, t)
<1>1. TypedSite(s) /\ DOMAIN s = ReviewDocs
  BY DEF Site, TypedSite
<1>2. \A d \in ReviewDocs : d[1] \notin {"comment", "report", "commentNote", "audit"} => t[d] = s[d]
  BY Kinds, AboutComments
<1>3. SameButComments(s, t)
  BY <1>2, OnlyComments
<1>4. ASSUME NEW x \in Comment, x # c
      PROVE  /\ t[CommentDoc(x)] = s[CommentDoc(x)] /\ t[AuditDoc(x)] = s[AuditDoc(x)]
             /\ \A u \in User : t[ReportDoc(x, u)] = s[ReportDoc(x, u)] /\ t[CommentNote(x, u)] = s[CommentNote(x, u)]
  <2>1. CommentDoc(x) # CommentDoc(c) /\ CommentDoc(x) \notin About(c)
    BY <1>4, Ids, Kinds, AboutComments
  <2>2. AuditDoc(x) # CommentDoc(c) /\ AuditDoc(x) \notin About(c)
    <3>1. \A u : AuditDoc(x) # ReportDoc(c, u) /\ AuditDoc(x) # CommentNote(c, u)
      BY Kinds
    <3> QED BY <3>1, <1>4, Ids, Kinds DEF About
  <2>3. \A u \in User : ReportDoc(x, u) # CommentDoc(c) /\ ReportDoc(x, u) \notin About(c)
    BY <1>4, Kinds, AboutComments
  <2>4. \A u \in User : CommentNote(x, u) # CommentDoc(c) /\ CommentNote(x, u) \notin About(c)
    BY <1>4, Kinds, AboutComments
  <2> QED BY <2>1, <2>2, <2>3, <2>4, DocsAreDocs
<1>5. TypedSite(t)
  <2>1. \A x \in Comment : t[CommentDoc(x)] \in CommentValue /\ t[AuditDoc(x)] \subseteq {"removed", "dismissed"}
    BY <1>1, <1>4 DEF TypedSite
  <2>2. \A x \in Comment, u \in User : t[ReportDoc(x, u)] \in ReportOutcome \cup {Nobody}
    BY <1>1, <1>4 DEF TypedSite
  <2>3. \A x \in Comment, u \in User : t[CommentNote(x, u)] \in User \cup {Nobody}
    BY <1>1, <1>4 DEF TypedSite, EditedAbout
  <2> QED BY <1>1, <1>3, <2>1, <2>2, <2>3 DEF TypedSite, SameButComments
<1>6. \A x \in Comment : EditedComment(s, t, x)
  BY <1>4 DEF EditedComment
<1>7. ASSUME NEW x \in Comment, NEW u \in User PROVE EditedAbout(s, W, t, x, u)
  <2>1. CASE x # c
    <3>1. /\ t[CommentDoc(x)] = s[CommentDoc(x)] /\ t[ReportDoc(x, u)] = s[ReportDoc(x, u)]
          /\ t[CommentNote(x, u)] = s[CommentNote(x, u)]
      BY <2>1, <1>4
    <3> QED BY <3>1, ReviewsAssumption DEF EditedAbout, LaterReport, Visible, ReportOutcome
  <2> QED BY <2>1
<1> QED BY <1>3, <1>5, <1>6, <1>7, EditKeeps

\* A comment with another status and another text.
Rewritten(k, status, body) == [k EXCEPT !.status = status, !.body = body]
CommentThere == [status: Status, review: Review, parent: Comment \cup {Nobody},
                 author: User \cup {Anonymous}, replyTo: User \cup {Nobody}, body: BOOLEAN]

Differs(n, k, status, body) ==
  /\ n \in CommentValue /\ n.status = status /\ n.body = body
  /\ n.review = k.review /\ n.parent = k.parent
  /\ n.author = k.author /\ n.replyTo = k.replyTo

\* Rewriting a comment keeps all but its status and its text.
LEMMA RewrittenComments ==
  ASSUME NEW k \in CommentThere, NEW status \in Status, NEW body \in BOOLEAN
  PROVE  Differs(Rewritten(k, status, body), k, status, body)
<1> DEFINE n == Rewritten(k, status, body)
<1>1. n \in CommentThere
  BY DEF Rewritten, CommentThere
<1>2. /\ n.status = status /\ n.body = body
      /\ n.review = k.review /\ n.parent = k.parent
      /\ n.author = k.author /\ n.replyTo = k.replyTo
  BY DEF Rewritten, CommentThere
<1> QED BY <1>1, <1>2 DEF CommentValue, CommentThere, Differs

\* A comment that is shown has an author, and all that it refers to.
LEMMA ShownComments ==
  ASSUME NEW s, Site(s), NEW c \in Visible(s)
  PROVE  /\ c \in Comment /\ c \in Present(s) /\ SoundComment(s, c)
         /\ s[CommentDoc(c)].author \in User /\ s[CommentDoc(c)].author # Anonymous
         /\ s[CommentDoc(c)] \in CommentThere
<1>1. c \in Comment /\ c \in Present(s) /\ SoundComment(s, c)
  BY DEF Visible, Present, Status, Site, Sound
<1>2. s[CommentDoc(c)] \in CommentThere /\ s[CommentDoc(c)].status = "visible"
  BY <1>1 DEF CommentValue, CommentThere, Visible, Site, TypedSite
<1> QED BY <1>1, <1>2 DEF SoundComment, CommentThere

\* deleteComment: a comment with replies becomes a tombstone.
LEMMA TombstoneKeeps ==
  ASSUME NEW s, Site(s), NEW c \in Visible(s), NEW W
  PROVE  Keeps(s, W, Tombstone(s, c))
<1> DEFINE D == About(c) \ {AuditDoc(c)}
           a == Without(s, D)
           t == Tombstone(s, c)
           k == s[CommentDoc(c)]
<1>1. c \in Comment /\ c \in Present(s) /\ DOMAIN s = ReviewDocs
  BY ShownComments DEF Site, TypedSite
<1>2. Taken(s, D, a)
  BY <1>1, WithoutDocs
<1>3. CommentDoc(c) \notin D /\ AuditDoc(c) \notin D
  BY Kinds, AboutComments
<1>4. \A u \in User : ReportDoc(c, u) \in D /\ CommentNote(c, u) \in D
  BY AboutComments, Kinds
<1> HIDE DEF D
<1>5. DOMAIN a = ReviewDocs /\ a[CommentDoc(c)] = k
  BY <1>1, <1>2, <1>3, DocsAreDocs DEF Taken
<1> HIDE DEF a
<1>6. t = [a EXCEPT ![CommentDoc(c)] = Rewritten(k, "deleted_by_author", FALSE)]
  BY <1>1, <1>5, DocsAreDocs DEF Tombstone, Rewritten, a, D
<1>7. /\ DOMAIN t = ReviewDocs /\ t[CommentDoc(c)] = Rewritten(k, "deleted_by_author", FALSE)
      /\ \A d \in ReviewDocs : d # CommentDoc(c) => t[d] = a[d]
  BY <1>1, <1>5, <1>6, DocsAreDocs
<1> HIDE DEF t
<1>8. \A u \in User : t[ReportDoc(c, u)] = Nobody /\ t[CommentNote(c, u)] = Nobody
  BY <1>1, <1>2, <1>4, <1>7, Kinds, DocsAreDocs DEF Taken
<1>9. t[AuditDoc(c)] = s[AuditDoc(c)]
  BY <1>1, <1>2, <1>3, <1>7, Kinds, DocsAreDocs DEF Taken
<1>10. \A d \in ReviewDocs : d # CommentDoc(c) /\ d \notin About(c) => t[d] = s[d]
  BY <1>2, <1>7 DEF Taken, D
<1>11. Differs(t[CommentDoc(c)], k, "deleted_by_author", FALSE)
  <2>1. k \in CommentThere /\ "deleted_by_author" \in Status /\ FALSE \in BOOLEAN
    BY ShownComments DEF Status
  <2> HIDE DEF k
  <2> QED BY <1>7, <2>1, RewrittenComments
<1>12. EditedComment(s, t, c)
  BY <1>1, <1>11 DEF EditedComment, Differs, Present, Status, Visible
<1>13. \A u \in User : EditedAbout(s, W, t, c, u)
  BY <1>8, ReviewsAssumption DEF EditedAbout, LaterReport, ReportOutcome
<1>14. t[AuditDoc(c)] \subseteq {"removed", "dismissed"}
  BY <1>1, <1>9 DEF Site, TypedSite
<1>15. Keeps(s, W, t)
  BY <1>1, <1>7, <1>8, <1>10, <1>11, <1>12, <1>13, <1>14, OneCommentKeeps DEF Differs
<1> QED BY <1>15 DEF t

\* closeReports leaves a report that was not open as it was, and everything else.
LEMMA ClosedReports ==
  ASSUME NEW s, DOMAIN s = ReviewDocs, NEW c \in Comment, NEW outcome
  PROVE  /\ DOMAIN Closed(s, c, outcome) = ReviewDocs
         /\ \A d \in ReviewDocs : d[1] # "report" => Closed(s, c, outcome)[d] = s[d]
         /\ \A d \in ReviewDocs : d \notin About(c) => Closed(s, c, outcome)[d] = s[d]
         /\ \A u \in User : Closed(s, c, outcome)[ReportDoc(c, u)] =
                              IF s[ReportDoc(c, u)] = "open" THEN outcome ELSE s[ReportDoc(c, u)]
<1> DEFINE open == { ReportDoc(c, u) : u \in OpenReports(s, c) }
           t == Closed(s, c, outcome)
<1>1. DOMAIN t = ReviewDocs /\ \A d \in ReviewDocs : t[d] = IF d \in open THEN outcome ELSE s[d]
  BY DEF Closed
<1>2. \A d \in open : d[1] = "report" /\ d \in About(c)
  BY Kinds, AboutComments DEF OpenReports
<1>3. \A u \in User : ReportDoc(c, u) \in open <=> s[ReportDoc(c, u)] = "open"
  BY Ids DEF OpenReports
<1> HIDE DEF open, t
<1>4. \A u \in User : t[ReportDoc(c, u)] = IF s[ReportDoc(c, u)] = "open" THEN outcome ELSE s[ReportDoc(c, u)]
  BY <1>1, <1>3, DocsAreDocs
<1> QED BY <1>1, <1>2, <1>4 DEF t

\* removeComment: the comment is hidden with its text, and its open reports are closed.
Hidden(s, c) ==
  [Without(s, { CommentNote(c, u) : u \in User }) EXCEPT ![CommentDoc(c)].status = "removed_by_moderator"]
Removed(s, c) == [Closed(Hidden(s, c), c, "actioned") EXCEPT ![AuditDoc(c)] = @ \cup {"removed"}]

\* A moderator's removal keeps the site sound.
LEMMA RemovedKeeps ==
  ASSUME NEW s, Site(s), NEW c \in Visible(s), NEW W, Changed(s, Removed(s, c)) \subseteq W
  PROVE  Keeps(s, W, Removed(s, c))
<1> DEFINE D == { CommentNote(c, u) : u \in User }
           a == Without(s, D)
           h == Hidden(s, c)
           b == Closed(h, c, "actioned")
           t == Removed(s, c)
           k == s[CommentDoc(c)]
<1>1. c \in Comment /\ c \in Present(s) /\ DOMAIN s = ReviewDocs /\ k \in CommentThere /\ SoundComment(s, c)
  BY ShownComments DEF Site, TypedSite
<1>2. Taken(s, D, a)
  BY <1>1, WithoutDocs
<1>3. \A d \in D : d[1] = "commentNote" /\ d \in About(c)
  BY AboutComments, Kinds
<1>4. \A u \in User : CommentNote(c, u) \in D
  OBVIOUS
<1>5. h = [a EXCEPT ![CommentDoc(c)].status = "removed_by_moderator"]
  BY DEF Hidden
<1> HIDE DEF D, a, h, k
<1>6. DOMAIN a = ReviewDocs /\ a[CommentDoc(c)] = k
  BY <1>1, <1>2, <1>3, Kinds, DocsAreDocs DEF Taken, k
<1>7. /\ DOMAIN h = ReviewDocs /\ h[CommentDoc(c)] = [k EXCEPT !.status = "removed_by_moderator"]
      /\ \A d \in ReviewDocs : d # CommentDoc(c) => h[d] = a[d]
  BY <1>1, <1>5, <1>6, DocsAreDocs
<1>8. /\ DOMAIN b = ReviewDocs
      /\ \A d \in ReviewDocs : d[1] # "report" => b[d] = h[d]
      /\ \A d \in ReviewDocs : d \notin About(c) => b[d] = h[d]
      /\ \A u \in User : b[ReportDoc(c, u)] = IF h[ReportDoc(c, u)] = "open" THEN "actioned" ELSE h[ReportDoc(c, u)]
  BY <1>1, <1>7, ClosedReports
<1>9. t = [b EXCEPT ![AuditDoc(c)] = b[AuditDoc(c)] \cup {"removed"}]
  BY DEF Removed, h
<1> HIDE DEF b, t
<1>10. /\ DOMAIN t = ReviewDocs /\ t[AuditDoc(c)] = b[AuditDoc(c)] \cup {"removed"}
       /\ \A d \in ReviewDocs : d # AuditDoc(c) => t[d] = b[d]
  BY <1>1, <1>8, <1>9, DocsAreDocs
<1>11. t[CommentDoc(c)] = [k EXCEPT !.status = "removed_by_moderator"]
  BY <1>1, <1>7, <1>8, <1>10, Kinds, DocsAreDocs
<1>12. /\ t[CommentDoc(c)] \in CommentValue /\ t[CommentDoc(c)].status = "removed_by_moderator"
       /\ t[CommentDoc(c)].body = k.body
       /\ t[CommentDoc(c)].review = k.review /\ t[CommentDoc(c)].parent = k.parent
       /\ t[CommentDoc(c)].author = k.author /\ t[CommentDoc(c)].replyTo = k.replyTo
  <2>1. [k EXCEPT !.status = "removed_by_moderator"] \in CommentThere
    BY <1>1 DEF CommentThere, Status
  <2> QED BY <1>1, <1>11, <2>1 DEF CommentThere, CommentValue
<1>13. t[AuditDoc(c)] \subseteq {"removed", "dismissed"}
  <2>1. b[AuditDoc(c)] = s[AuditDoc(c)]
    BY <1>1, <1>2, <1>3, <1>7, <1>8, Kinds, DocsAreDocs DEF Taken
  <2> QED BY <1>1, <1>10, <2>1 DEF Site, TypedSite
<1>14. ASSUME NEW u \in User
       PROVE  /\ t[ReportDoc(c, u)] = IF s[ReportDoc(c, u)] = "open" THEN "actioned" ELSE s[ReportDoc(c, u)]
              /\ t[CommentNote(c, u)] = Nobody
  <2>1. h[ReportDoc(c, u)] = s[ReportDoc(c, u)]
    BY <1>1, <1>2, <1>3, <1>7, Kinds, DocsAreDocs DEF Taken
  <2>2. h[CommentNote(c, u)] = Nobody
    BY <1>1, <1>2, <1>4, <1>7, Kinds, DocsAreDocs DEF Taken
  <2> QED BY <2>1, <2>2, <1>1, <1>8, <1>10, Kinds, DocsAreDocs
<1>15. \A d \in ReviewDocs : d # CommentDoc(c) /\ d \notin About(c) => t[d] = s[d]
  <2>1. AuditDoc(c) \in About(c)
    BY DEF About
  <2> QED BY <2>1, <1>2, <1>3, <1>7, <1>8, <1>10 DEF Taken
<1>16. k.status = "visible"
  BY DEF Visible, k
<1>17. EditedComment(s, t, c)
  BY <1>1, <1>12, <1>16, ReviewsAssumption DEF EditedComment, SoundComment, Present, Status, k
<1>18. CommentDoc(c) \in W
  BY <1>1, <1>12, <1>16, DocsAreDocs DEF Changed, k, t
<1>19. \A u \in User : EditedAbout(s, W, t, c, u)
  BY <1>14, <1>18, ReviewsAssumption DEF EditedAbout, LaterReport, ReportOutcome
<1>20. \A u \in User : t[ReportDoc(c, u)] \in ReportOutcome \cup {Nobody}
  BY <1>1, <1>14 DEF Site, TypedSite, ReportOutcome
<1>21. Keeps(s, W, t)
  BY <1>1, <1>10, <1>12, <1>13, <1>15, <1>17, <1>19, <1>20, OneCommentKeeps
<1> QED BY <1>21 DEF t

\* dismissReports: the comment stays, and its open reports are closed.
Dismissed(s, c) == [Closed(s, c, "dismissed") EXCEPT ![AuditDoc(c)] = @ \cup {"dismissed"}]

\* Dismissing reports keeps the site sound.
LEMMA DismissedKeeps ==
  ASSUME NEW s, Site(s), NEW c \in Comment, NEW W, CommentDoc(c) \in W
  PROVE  Keeps(s, W, Dismissed(s, c))
<1> DEFINE b == Closed(s, c, "dismissed")
           t == Dismissed(s, c)
<1>1. DOMAIN s = ReviewDocs
  BY DEF Site, TypedSite
<1>2. /\ DOMAIN b = ReviewDocs
      /\ \A d \in ReviewDocs : d[1] # "report" => b[d] = s[d]
      /\ \A d \in ReviewDocs : d \notin About(c) => b[d] = s[d]
      /\ \A u \in User : b[ReportDoc(c, u)] = IF s[ReportDoc(c, u)] = "open" THEN "dismissed" ELSE s[ReportDoc(c, u)]
  BY <1>1, ClosedReports
<1>3. t = [b EXCEPT ![AuditDoc(c)] = b[AuditDoc(c)] \cup {"dismissed"}]
  BY DEF Dismissed
<1> HIDE DEF b, t
<1>4. /\ DOMAIN t = ReviewDocs /\ t[AuditDoc(c)] = b[AuditDoc(c)] \cup {"dismissed"}
      /\ \A d \in ReviewDocs : d # AuditDoc(c) => t[d] = b[d]
  BY <1>2, <1>3, DocsAreDocs
<1>5. t[CommentDoc(c)] = s[CommentDoc(c)] /\ \A u \in User : t[CommentNote(c, u)] = s[CommentNote(c, u)]
  BY <1>2, <1>4, Kinds, DocsAreDocs
<1>6. t[AuditDoc(c)] \subseteq {"removed", "dismissed"}
  <2>1. b[AuditDoc(c)] = s[AuditDoc(c)]
    BY <1>2, Kinds, DocsAreDocs
  <2> QED BY <1>4, <2>1 DEF Site, TypedSite
<1>7. \A u \in User :
        t[ReportDoc(c, u)] = IF s[ReportDoc(c, u)] = "open" THEN "dismissed" ELSE s[ReportDoc(c, u)]
  BY <1>2, <1>4, Kinds, DocsAreDocs
<1>8. \A d \in ReviewDocs : d # CommentDoc(c) /\ d \notin About(c) => t[d] = s[d]
  <2>1. AuditDoc(c) \in About(c)
    BY DEF About
  <2> QED BY <2>1, <1>2, <1>4
<1>9. EditedComment(s, t, c)
  BY <1>5 DEF EditedComment
<1>10. \A u \in User : EditedAbout(s, W, t, c, u)
  BY <1>5, <1>7, ReviewsAssumption DEF EditedAbout, LaterReport, ReportOutcome, Visible
<1>11. /\ t[CommentDoc(c)] \in CommentValue
       /\ \A u \in User : t[ReportDoc(c, u)] \in ReportOutcome \cup {Nobody}
  BY <1>5, <1>7 DEF Site, TypedSite, ReportOutcome
<1>12. Keeps(s, W, t)
  BY <1>4, <1>6, <1>8, <1>9, <1>10, <1>11, OneCommentKeeps
<1> QED BY <1>12 DEF t

\* editComment: a comment that is shown is given another text.
LEMMA EditedKeeps ==
  ASSUME NEW s, Site(s), NEW c \in Visible(s), NEW W
  PROVE  Keeps(s, W, [s EXCEPT ![CommentDoc(c)].body = TRUE])
<1> DEFINE k == s[CommentDoc(c)]
           t == [s EXCEPT ![CommentDoc(c)].body = TRUE]
<1>1. c \in Comment /\ c \in Present(s) /\ DOMAIN s = ReviewDocs /\ k \in CommentThere /\ k.author # Anonymous
  BY ShownComments DEF Site, TypedSite
<1>2. k.status = "visible"
  BY DEF Visible
<1> HIDE DEF k
<1>3. /\ DOMAIN t = ReviewDocs /\ t[CommentDoc(c)] = [k EXCEPT !.body = TRUE]
      /\ \A d \in ReviewDocs : d # CommentDoc(c) => t[d] = s[d]
  BY <1>1, DocsAreDocs DEF k
<1> HIDE DEF t
<1>4. /\ t[CommentDoc(c)] \in CommentValue /\ t[CommentDoc(c)].status = "visible"
      /\ t[CommentDoc(c)].review = k.review /\ t[CommentDoc(c)].parent = k.parent
      /\ t[CommentDoc(c)].author = k.author /\ t[CommentDoc(c)].replyTo = k.replyTo
  <2>1. [k EXCEPT !.body = TRUE] \in CommentThere
    BY <1>1 DEF CommentThere
  <2> QED BY <1>1, <1>2, <1>3, <2>1 DEF CommentThere, CommentValue
<1>5. /\ t[AuditDoc(c)] = s[AuditDoc(c)]
      /\ \A u \in User : t[ReportDoc(c, u)] = s[ReportDoc(c, u)] /\ t[CommentNote(c, u)] = s[CommentNote(c, u)]
  BY <1>1, <1>3, Kinds, DocsAreDocs
<1>6. EditedComment(s, t, c)
  BY <1>1, <1>2, <1>4, ReviewsAssumption DEF EditedComment, Present, Status, k
<1>7. \A u \in User : EditedAbout(s, W, t, c, u)
  BY <1>1, <1>2, <1>4, <1>5, ReviewsAssumption DEF EditedAbout, LaterReport, ReportOutcome, Visible, k
<1>8. t[AuditDoc(c)] \subseteq {"removed", "dismissed"} /\ \A u \in User : t[ReportDoc(c, u)] \in ReportOutcome \cup {Nobody}
  BY <1>1, <1>5 DEF Site, TypedSite
<1>9. Keeps(s, W, t)
  BY <1>1, <1>3, <1>4, <1>6, <1>7, <1>8, OneCommentKeeps
<1> QED BY <1>9 DEF t

\* fileReport: an account that is there reports a comment that is shown.
LEMMA ReportKeeps ==
  ASSUME NEW s, Site(s), NEW c \in Visible(s), NEW u \in User, ~s[FenceDoc(u)],
         NEW W, CommentDoc(c) \in W, FenceDoc(u) \in W,
         NEW t, DOMAIN t = ReviewDocs, \A d \in ReviewDocs : d # ReportDoc(c, u) => t[d] = s[d],
         t[ReportDoc(c, u)] = IF s[ReportDoc(c, u)] = Nobody THEN "open" ELSE s[ReportDoc(c, u)]
  PROVE  Keeps(s, W, t)
<1>1. c \in Comment /\ c \in Present(s)
  BY ShownComments
<1>2. t[CommentDoc(c)] = s[CommentDoc(c)] /\ t[AuditDoc(c)] = s[AuditDoc(c)]
  BY <1>1, Kinds, DocsAreDocs
<1>3. \A v \in User : t[CommentNote(c, v)] = s[CommentNote(c, v)]
  BY <1>1, Kinds, DocsAreDocs
<1>4. \A v \in User : v # u => t[ReportDoc(c, v)] = s[ReportDoc(c, v)]
  BY <1>1, Ids, DocsAreDocs
<1>5. \A d \in ReviewDocs : d # CommentDoc(c) /\ d \notin About(c) => t[d] = s[d]
  BY AboutComments
<1>6. EditedComment(s, t, c)
  BY <1>2 DEF EditedComment
<1>7. ASSUME NEW v \in User PROVE EditedAbout(s, W, t, c, v)
  <2>1. c \in Visible(t)
    BY <1>2 DEF Visible
  <2>2. CASE v = u
    BY <2>1, <2>2, <1>1, <1>2, <1>3, ReviewsAssumption DEF EditedAbout, LaterReport, ReportOutcome
  <2>3. CASE v # u
    BY <2>1, <2>3, <1>2, <1>3, <1>4, ReviewsAssumption DEF EditedAbout, LaterReport, ReportOutcome
  <2> QED BY <2>2, <2>3
<1>8. \A v \in User : t[ReportDoc(c, v)] \in ReportOutcome \cup {Nobody}
  BY <1>1, <1>4 DEF Site, TypedSite, ReportOutcome
<1>9. t[CommentDoc(c)] \in CommentValue /\ t[AuditDoc(c)] \subseteq {"removed", "dismissed"}
  BY <1>1, <1>2 DEF Site, TypedSite
<1> QED BY <1>1, <1>5, <1>6, <1>7, <1>8, <1>9, OneCommentKeeps

\* deleteComment: a comment without replies goes, and the tombstone that it was the last reply to.
LEMMA DeletedKeeps ==
  ASSUME NEW s, Site(s), NEW c \in Visible(s), s[CommentDoc(c)].parent # Nobody \/ Replies(s, c) = {}, NEW W
  PROVE  Keeps(s, W, RemoveEmptyTombstones(HardDelete(s, {c}), {Thread(s, c)} \ {c}))
<1>1. c \in Comment /\ c \in Present(s) /\ SoundComment(s, c)
  BY ShownComments
<1>2. ASSUME NEW d \in Present(s), s[CommentDoc(d)].parent \in {c} PROVE d \in {c}
  <2>1. d \in Comment /\ SoundComment(s, d)
    BY DEF Present, Site, Sound
  <2>2. s[CommentDoc(c)].parent = Nobody
    BY <1>1, <1>2, <2>1, ReviewsAssumption DEF SoundComment
  <2>3. d \in Replies(s, c)
    BY <1>2 DEF Replies
  <2> QED BY <2>2, <2>3
<1>3. Keeps(s, W, HardDelete(s, {c}))
  BY <1>1, <1>2, HardDeleteKeeps
<1>4. {Thread(s, c)} \ {c} \subseteq Comment
  BY <1>1 DEF Thread, SoundComment, Present
<1> DEFINE a == HardDelete(s, {c})
<1> HIDE DEF a
<1>5. Site(a) /\ Keeps(s, W, a)
  BY <1>3 DEF Keeps, a
<1>6. Keeps(a, W, RemoveEmptyTombstones(a, {Thread(s, c)} \ {c}))
  BY <1>4, <1>5, RemoveEmptyTombstonesKeeps
<1>7. Keeps(s, W, RemoveEmptyTombstones(a, {Thread(s, c)} \ {c}))
  BY <1>5, <1>6, KeepsTwice
<1> QED BY <1>7 DEF a

(***************************************************************************)
(* The deletion of an account                                              *)
(***************************************************************************)
\* The comments of t are those of s, some without author or addressee.
SameThreads(s, t) ==
  /\ Present(t) = Present(s) /\ SameButComments(s, t)
  /\ \A c \in Present(s) : t[CommentDoc(c)].parent = s[CommentDoc(c)].parent
  /\ \A c \in Comment, u \in User : t[ReportDoc(c, u)] \in {Nobody, s[ReportDoc(c, u)]}

\* The reports that u filed go.
LEMMA UnreportedKeeps ==
  ASSUME NEW s, Site(s), NEW u \in User, NEW W,
         NEW t, t = Without(s, { ReportDoc(c, u) : c \in Comment })
  PROVE  /\ Keeps(s, W, t) /\ SameThreads(s, t)
         /\ \A c \in Comment : t[CommentDoc(c)] = s[CommentDoc(c)] /\ t[ReportDoc(c, u)] = Nobody
<1> DEFINE D == { ReportDoc(c, u) : c \in Comment }
<1>1. DOMAIN s = ReviewDocs
  BY DEF Site, TypedSite
<1>2. Taken(s, D, t)
  BY <1>1, WithoutDocs
<1>3. \A d \in D : d[1] = "report"
  BY Kinds
<1>4. \A c \in Comment : ReportDoc(c, u) \in D
  OBVIOUS
<1>5. t = Without(s, D)
  OBVIOUS
<1> HIDE DEF D
<1>6. Enclosed(s, D)
  BY <1>3, Kinds DEF Enclosed
<1>7. Keeps(s, W, t)
  BY <1>5, <1>6, WithoutKeeps
<1>8. \A d \in ReviewDocs : d[1] # "report" => t[d] = s[d]
  BY <1>2, <1>3 DEF Taken
<1>9. SameButComments(s, t)
  BY <1>8, OnlyComments
<1>10. \A c \in Comment : t[CommentDoc(c)] = s[CommentDoc(c)] /\ t[ReportDoc(c, u)] = Nobody
  BY <1>2, <1>4, <1>8, Kinds, DocsAreDocs DEF Taken
<1>11. Present(t) = Present(s)
  BY <1>10 DEF Present
<1>12. \A c \in Comment, v \in User : t[ReportDoc(c, v)] \in {Nobody, s[ReportDoc(c, v)]}
  BY <1>2, DocsAreDocs DEF Taken
<1>13. \A c \in Present(s) : t[CommentDoc(c)].parent = s[CommentDoc(c)].parent
  BY <1>10 DEF Present
<1> QED BY <1>7, <1>9, <1>10, <1>11, <1>12, <1>13 DEF SameThreads

\* No reply names u any more.
LEMMA UnnamedKeeps ==
  ASSUME NEW s, Site(s), NEW u \in User, NEW W, NEW t, t = Unnamed(s, u)
  PROVE  /\ Keeps(s, W, t) /\ SameThreads(s, t)
         /\ \A c \in Present(s) : t[CommentDoc(c)].replyTo # u /\ t[CommentDoc(c)].author = s[CommentDoc(c)].author
<1> DEFINE N == { c \in Present(s) : s[CommentDoc(c)].replyTo = u }
<1>1. TypedSite(s) /\ Sound(s) /\ DOMAIN s = ReviewDocs
  BY DEF Site, TypedSite
<1>2. /\ DOMAIN t = ReviewDocs
      /\ \A d \in ReviewDocs : t[d] = IF d \in CommentDocs(N) THEN [s[d] EXCEPT !.replyTo = Nobody] ELSE s[d]
  BY <1>1 DEF Unnamed, Addressed, Naming
<1>3. /\ \A d \in CommentDocs(N) : d[1] = "comment"
      /\ \A c : CommentDoc(c) \in CommentDocs(N) <=> c \in N
  BY Kinds, Ids DEF CommentDocs
<1>4. \A d \in ReviewDocs : d[1] # "comment" => t[d] = s[d]
  BY <1>2, <1>3
<1>5. SameButComments(s, t)
  BY <1>4, OnlyComments
<1>6. /\ \A c \in Comment : t[AuditDoc(c)] = s[AuditDoc(c)]
      /\ \A c \in Comment, v \in User :
           t[ReportDoc(c, v)] = s[ReportDoc(c, v)] /\ t[CommentNote(c, v)] = s[CommentNote(c, v)]
  BY <1>4, Kinds, DocsAreDocs
<1>7. \A c \in Comment : t[CommentDoc(c)] = IF c \in N THEN [s[CommentDoc(c)] EXCEPT !.replyTo = Nobody] ELSE s[CommentDoc(c)]
  BY <1>2, <1>3, DocsAreDocs
<1>8. ASSUME NEW c \in Present(s)
      PROVE  /\ c \in Comment /\ s[CommentDoc(c)] \in CommentThere
             /\ t[CommentDoc(c)] \in CommentThere
             /\ t[CommentDoc(c)].replyTo = IF c \in N THEN Nobody ELSE s[CommentDoc(c)].replyTo
             /\ t[CommentDoc(c)].review = s[CommentDoc(c)].review /\ t[CommentDoc(c)].parent = s[CommentDoc(c)].parent
             /\ t[CommentDoc(c)].author = s[CommentDoc(c)].author /\ t[CommentDoc(c)].body = s[CommentDoc(c)].body
             /\ t[CommentDoc(c)].status = s[CommentDoc(c)].status
  <2>1. c \in Comment /\ s[CommentDoc(c)] \in CommentThere
    BY <1>1 DEF Present, TypedSite, CommentValue, CommentThere, Status
  <2> DEFINE k == s[CommentDoc(c)]
             n == t[CommentDoc(c)]
  <2>2. k \in CommentThere /\ n = IF c \in N THEN [k EXCEPT !.replyTo = Nobody] ELSE k
    BY <1>7, <2>1
  <2> HIDE DEF k, n, N
  <2>3. /\ n \in CommentThere /\ n.replyTo = IF c \in N THEN Nobody ELSE k.replyTo
        /\ n.review = k.review /\ n.parent = k.parent /\ n.author = k.author /\ n.body = k.body /\ n.status = k.status
    BY <2>2 DEF CommentThere
  <2> QED BY <2>1, <2>3 DEF k, n
<1>9. \A c \in Comment : c \notin Present(s) => t[CommentDoc(c)] = s[CommentDoc(c)]
  BY <1>7
<1>10. \A c : c \in Present(t) <=> c \in Present(s)
  BY <1>8, <1>9 DEF Present
<1>11. TypedSite(t)
  <2>1. \A c \in Comment : t[CommentDoc(c)] \in CommentValue
    BY <1>1, <1>8, <1>9 DEF TypedSite, CommentValue, CommentThere
  <2> QED BY <1>1, <1>2, <1>5, <1>6, <2>1 DEF TypedSite, SameButComments
<1>12. ASSUME NEW c \in Comment PROVE EditedComment(s, t, c)
  <2>1. CASE c \in Present(s)
    <3>1. SoundComment(s, c) /\ c \in Present(t)
      BY <1>1, <1>10, <2>1 DEF Sound
    <3> QED BY <2>1, <3>1, <1>8 DEF EditedComment, SoundComment
  <2>2. CASE c \notin Present(s)
    BY <1>9, <2>2 DEF EditedComment
  <2> QED BY <2>1, <2>2
<1>13. ASSUME NEW c \in Comment, NEW v \in User PROVE EditedAbout(s, W, t, c, v)
  <2>1. /\ t[ReportDoc(c, v)] = s[ReportDoc(c, v)] /\ t[CommentNote(c, v)] = s[CommentNote(c, v)]
        /\ c \in Visible(s) => c \in Visible(t)
    BY <1>6, <1>8 DEF Visible, Present, Status
  <2>2. s[CommentNote(c, v)] # Nobody => c \in Present(s)
    BY <1>1 DEF Sound, SoundNote, Visible, Present, Status
  <2> QED BY <1>8, <2>1, <2>2, ReviewsAssumption DEF EditedAbout, LaterReport, ReportOutcome
<1>14. Keeps(s, W, t)
  BY <1>5, <1>11, <1>12, <1>13, EditKeeps
<1>15. \A c \in Present(s) : t[CommentDoc(c)].replyTo # u /\ t[CommentDoc(c)].author = s[CommentDoc(c)].author
  BY <1>8, ReviewsAssumption
<1>16. SameThreads(s, t)
  BY <1>5, <1>6, <1>8, <1>10 DEF SameThreads
<1> QED BY <1>14, <1>15, <1>16

\* A comment without author, addressee and text.
LEMMA NamelessComments ==
  ASSUME NEW k \in CommentThere, NEW n, n = Nameless(k)
  PROVE  /\ n \in CommentThere /\ n.author = Anonymous /\ n.replyTo = Nobody /\ n.body = FALSE
         /\ n.review = k.review /\ n.parent = k.parent
         /\ n.status = IF k.status = "visible" THEN "deleted_by_author" ELSE k.status
<1> DEFINE status == IF k.status = "visible" THEN "deleted_by_author" ELSE k.status
<1>1. status \in Status
  BY DEF CommentThere, Status
<1>2. n = [k EXCEPT !.author = Anonymous, !.replyTo = Nobody, !.body = FALSE, !.status = status]
  BY DEF Nameless
<1> HIDE DEF status
<1>3. n \in CommentThere /\ n.author = Anonymous /\ n.replyTo = Nobody /\ n.body = FALSE
  BY <1>1, <1>2 DEF CommentThere
<1>4. n.review = k.review /\ n.parent = k.parent /\ n.status = status
  BY <1>2 DEF CommentThere
<1> QED BY <1>3, <1>4 DEF status

\* The comments of C lose author and text, and what is about them goes but the audit trail.
LEMMA AnonymizedKeeps ==
  ASSUME NEW s, Site(s), NEW C, C \subseteq Present(s), NEW W, NEW t, t = Anonymized(s, C)
  PROVE  /\ Keeps(s, W, t) /\ SameThreads(s, t)
         /\ \A c \in C : t[CommentDoc(c)].author = Anonymous /\ t[CommentDoc(c)].replyTo = Nobody
         /\ \A c \in Present(s) \ C : t[CommentDoc(c)] = s[CommentDoc(c)]
<1> DEFINE D == UNION { About(c) \ {AuditDoc(c)} : c \in C }
           a == Without(s, D)
<1>1. TypedSite(s) /\ Sound(s) /\ DOMAIN s = ReviewDocs
  BY DEF Site, TypedSite
<1>2. Taken(s, D, a)
  BY <1>1, WithoutDocs
<1>3. \A d : d \in D <=> \E c \in C : d \in About(c) /\ d # AuditDoc(c)
  OBVIOUS
<1>4. a = Forgotten(s, C)
  BY DEF Forgotten
<1> HIDE DEF D, a
<1>5. /\ DOMAIN t = ReviewDocs
      /\ \A d \in ReviewDocs : t[d] = IF d \in CommentDocs(C) THEN Nameless(s[d]) ELSE a[d]
  BY <1>1, <1>4 DEF Anonymized
<1>6. /\ \A d \in CommentDocs(C) : d[1] = "comment"
      /\ \A c : CommentDoc(c) \in CommentDocs(C) <=> c \in C
  BY Kinds, Ids DEF CommentDocs
<1>7. \A d \in D : d[1] \in {"report", "commentNote"}
  <2>1. \A c, d : d \in About(c) /\ d # AuditDoc(c) => \E u \in User : d = ReportDoc(c, u) \/ d = CommentNote(c, u)
    BY DEF About
  <2> QED BY <2>1, <1>3, Kinds
<1>8. ASSUME NEW c \in C, NEW u \in User PROVE ReportDoc(c, u) \in D /\ CommentNote(c, u) \in D
  BY <1>3, AboutComments, Kinds
<1>9. \A d \in ReviewDocs : d[1] # "comment" => t[d] = a[d]
  BY <1>5, <1>6
<1>10. \A d \in ReviewDocs : d[1] \notin {"comment", "report", "commentNote"} => t[d] = s[d]
  BY <1>2, <1>7, <1>9 DEF Taken
<1>11. SameButComments(s, t) /\ \A c \in Comment : t[AuditDoc(c)] = s[AuditDoc(c)]
  BY <1>10, OnlyComments, Kinds, DocsAreDocs
<1>12. ASSUME NEW c \in Comment, NEW u \in User
       PROVE  /\ t[ReportDoc(c, u)] \in {Nobody, s[ReportDoc(c, u)]} /\ t[CommentNote(c, u)] \in {Nobody, s[CommentNote(c, u)]}
              /\ c \in C => t[ReportDoc(c, u)] = Nobody /\ t[CommentNote(c, u)] = Nobody
  <2>1. t[ReportDoc(c, u)] = a[ReportDoc(c, u)] /\ t[CommentNote(c, u)] = a[CommentNote(c, u)]
    BY <1>9, Kinds, DocsAreDocs
  <2>2. a[ReportDoc(c, u)] \in {Nobody, s[ReportDoc(c, u)]} /\ a[CommentNote(c, u)] \in {Nobody, s[CommentNote(c, u)]}
    BY <1>2, DocsAreDocs DEF Taken
  <2>3. c \in C => a[ReportDoc(c, u)] = Nobody /\ a[CommentNote(c, u)] = Nobody
    BY <1>2, <1>8 DEF Taken
  <2> QED BY <2>1, <2>2, <2>3
<1>13. \A c \in Comment : t[CommentDoc(c)] = IF c \in C THEN Nameless(s[CommentDoc(c)]) ELSE s[CommentDoc(c)]
  <2>1. \A c \in Comment : a[CommentDoc(c)] = s[CommentDoc(c)]
    BY <1>2, <1>7, Kinds, DocsAreDocs DEF Taken
  <2> QED BY <2>1, <1>5, <1>6, DocsAreDocs
<1>14. \A c \in Present(s) : c \in Comment /\ s[CommentDoc(c)] \in CommentThere
  BY <1>1 DEF Present, TypedSite, CommentValue, CommentThere, Status
<1>15. ASSUME NEW c \in C
       PROVE  LET k == s[CommentDoc(c)]  n == t[CommentDoc(c)]
              IN  /\ c \in Comment /\ n \in CommentThere /\ n.author = Anonymous /\ n.replyTo = Nobody /\ n.body = FALSE
                  /\ n.review = k.review /\ n.parent = k.parent
                  /\ n.status = IF k.status = "visible" THEN "deleted_by_author" ELSE k.status
  BY <1>13, <1>14, NamelessComments
<1>16. \A c \in Comment \ C : t[CommentDoc(c)] = s[CommentDoc(c)]
  BY <1>13
<1>17. \A c : c \in Present(t) <=> c \in Present(s)
  BY <1>14, <1>15, <1>16 DEF Present, CommentThere
<1>18. TypedSite(t)
  <2>1. \A c \in Comment : t[CommentDoc(c)] \in CommentValue
    BY <1>1, <1>15, <1>16 DEF TypedSite, CommentValue, CommentThere
  <2>2. \A c \in Comment, u \in User :
          t[ReportDoc(c, u)] \in ReportOutcome \cup {Nobody} /\ t[CommentNote(c, u)] \in User \cup {Nobody}
    BY <1>1, <1>12 DEF TypedSite
  <2> QED BY <1>1, <1>5, <1>11, <2>1, <2>2 DEF TypedSite, SameButComments
<1>19. ASSUME NEW c \in Comment PROVE EditedComment(s, t, c)
  <2>1. CASE c \in C
    <3>1. c \in Present(s) /\ c \in Present(t)
      BY <1>17, <2>1
    <3> QED BY <2>1, <3>1, <1>15 DEF EditedComment
  <2>2. CASE c \notin C
    BY <1>16, <2>2 DEF EditedComment
  <2> QED BY <2>1, <2>2
<1>20. ASSUME NEW c \in Comment, NEW u \in User PROVE EditedAbout(s, W, t, c, u)
  <2>1. CASE c \in C
    BY <1>12, <2>1, ReviewsAssumption DEF EditedAbout, LaterReport, ReportOutcome
  <2>2. CASE c \notin C
    BY <1>12, <1>16, <2>2, ReviewsAssumption DEF EditedAbout, LaterReport, ReportOutcome, Visible
  <2> QED BY <2>1, <2>2
<1>21. Keeps(s, W, t)
  BY <1>11, <1>18, <1>19, <1>20, EditKeeps
<1>22. SameThreads(s, t)
  BY <1>11, <1>12, <1>14, <1>15, <1>16, <1>17 DEF SameThreads
<1> QED BY <1>14, <1>15, <1>16, <1>21, <1>22

\* removeAccountComments: nothing is left that u wrote, reported or is named in.
LEMMA RemovedAccountComments ==
  ASSUME NEW s, Site(s), NEW u \in User, NEW W, NEW t, t = RemoveAccountComments(s, u)
  PROVE  Keeps(s, W, t) /\ Silent(t, u) /\ SameButComments(s, t)
<1> DEFINE a == Without(s, { ReportDoc(c, u) : c \in Comment })
           b == Unnamed(a, u)
           own == CommentsBy(s, u)
           C == Answered(s, u)
           parents == { s[CommentDoc(c)].parent : c \in own } \ {Nobody}
           d == Anonymized(b, C)
           e == HardDelete(d, own \ C)
           f == RemoveEmptyTombstones(e, parents)
<1>1. t = f
  BY DEF RemoveAccountComments
<1>2. TypedSite(s) /\ Sound(s)
  BY DEF Site
<1>3. /\ Keeps(s, W, a) /\ SameThreads(s, a)
      /\ \A c \in Comment : a[CommentDoc(c)] = s[CommentDoc(c)] /\ a[ReportDoc(c, u)] = Nobody
  BY UnreportedKeeps
<1>4. C \subseteq own /\ own \subseteq Present(s) /\ Present(s) \subseteq Comment
  BY DEF Answered, CommentsBy, Present
<1>5. parents \subseteq Comment
  BY <1>2, <1>4 DEF TypedSite, CommentValue, Present, Status
<1>6. \A c \in Present(s) : c \in own <=> s[CommentDoc(c)].author = u
  BY DEF CommentsBy
<1>7. \A c \in own \ C, x \in Present(s) : s[CommentDoc(x)].parent = c => x \in own
  BY <1>6 DEF Answered, Replies
<1>8. ASSUME NEW c \in C, s[CommentDoc(c)].parent # Nobody PROVE FALSE
  <2>1. PICK x \in Present(s) : s[CommentDoc(x)].parent = c
    BY DEF Answered, Replies
  <2>2. SoundComment(s, x) /\ c # Nobody
    BY <1>2, <1>4, <2>1, ReviewsAssumption DEF Sound, Present
  <2> QED BY <2>1, <2>2, <1>8 DEF SoundComment
<1> HIDE DEF a, own, C, parents
<1>9. Site(a)
  BY <1>3 DEF Keeps
<1>10. /\ Keeps(a, W, b) /\ SameThreads(a, b)
       /\ \A c \in Present(a) : b[CommentDoc(c)].replyTo # u /\ b[CommentDoc(c)].author = a[CommentDoc(c)].author
  BY <1>9, UnnamedKeeps
<1> HIDE DEF b
<1>11. Site(b) /\ C \subseteq Present(b)
  BY <1>3, <1>4, <1>10 DEF Keeps, SameThreads
<1>12. /\ Keeps(b, W, d) /\ SameThreads(b, d)
       /\ \A c \in C : d[CommentDoc(c)].author = Anonymous /\ d[CommentDoc(c)].replyTo = Nobody
       /\ \A c \in Present(b) \ C : d[CommentDoc(c)] = b[CommentDoc(c)]
  BY <1>11, AnonymizedKeeps
<1> HIDE DEF d
<1>13. /\ Present(d) = Present(s)
       /\ \A c \in Present(s) : d[CommentDoc(c)].parent = s[CommentDoc(c)].parent
       /\ \A c \in Comment : d[ReportDoc(c, u)] = Nobody
       /\ SameButComments(s, d)
  <2>1. Present(d) = Present(s) /\ \A c \in Present(s) : d[CommentDoc(c)].parent = s[CommentDoc(c)].parent
    BY <1>3, <1>10, <1>12 DEF SameThreads
  <2>2. \A c \in Comment : d[ReportDoc(c, u)] = Nobody
    BY <1>3, <1>10, <1>12 DEF SameThreads
  <2>3. SameButComments(s, d)
    BY <1>3, <1>10, <1>12 DEF SameThreads, SameButComments
  <2> QED BY <2>1, <2>2, <2>3
<1>14. \A c \in Present(d) : d[CommentDoc(c)].parent \in own \ C => c \in own \ C
  <2> SUFFICES ASSUME NEW c \in Present(s), s[CommentDoc(c)].parent \in own \ C PROVE c \in own \ C
    BY <1>13
  <2>1. s[CommentDoc(c)].parent # Nobody
    BY <1>4, ReviewsAssumption
  <2> QED BY <2>1, <1>7, <1>8
<1>15. Site(d) /\ own \ C \subseteq Comment
  BY <1>4, <1>12 DEF Keeps
<1>16. Keeps(d, W, e) /\ Taken(d, Threads(own \ C), e)
  BY <1>14, <1>15, HardDeleteKeeps
<1> HIDE DEF e
<1>17. /\ Present(e) = Present(d) \ (own \ C) /\ SameButComments(d, e)
       /\ \A c \in Comment \ (own \ C) : e[CommentDoc(c)] = d[CommentDoc(c)]
  <2>1. Taken(d, Threads(own \ C), e)
    BY <1>16
  <2> QED BY <2>1, HardDeleteLeaves
<1>18. Site(e)
  BY <1>16 DEF Keeps
<1>19. Keeps(e, W, f) /\ Taken(e, Threads(EmptyTombstones(e, parents)), f)
  BY <1>5, <1>18, RemoveEmptyTombstonesKeeps
<1>20. /\ Present(f) \subseteq Present(e) /\ SameButComments(e, f)
       /\ \A c \in Present(f) : f[CommentDoc(c)] = e[CommentDoc(c)]
  <2>1. /\ Present(f) = Present(e) \ EmptyTombstones(e, parents) /\ SameButComments(e, f)
        /\ \A c \in Comment \ EmptyTombstones(e, parents) : f[CommentDoc(c)] = e[CommentDoc(c)]
    BY <1>19, HardDeleteLeaves
  <2>2. Present(f) \subseteq Comment
    BY DEF Present
  <2> QED BY <2>1, <2>2
<1> HIDE DEF f
<1>21. Keeps(s, W, f)
  <2>1. Keeps(s, W, b)
    BY <1>3, <1>10, KeepsTwice
  <2>2. Keeps(s, W, d)
    BY <1>12, <2>1, KeepsTwice
  <2>3. Keeps(s, W, e)
    BY <1>16, <2>2, KeepsTwice
  <2> QED BY <1>19, <2>3, KeepsTwice
<1>22. ASSUME NEW c \in Present(f) PROVE f[CommentDoc(c)].author # u /\ f[CommentDoc(c)].replyTo # u
  <2>1. c \in Present(s) /\ c \in Comment /\ (c \in C \/ c \notin own) /\ f[CommentDoc(c)] = d[CommentDoc(c)]
    BY <1>4, <1>13, <1>17, <1>20
  <2>2. CASE c \in C
    BY <1>12, <2>1, <2>2, ReviewsAssumption
  <2>3. CASE c \notin own
    <3>1. c \notin C /\ c \in Present(a) /\ c \in Present(b)
      BY <1>3, <1>4, <1>10, <2>1, <2>3 DEF SameThreads
    <3>2. d[CommentDoc(c)] = b[CommentDoc(c)] /\ b[CommentDoc(c)].replyTo # u /\ b[CommentDoc(c)].author = s[CommentDoc(c)].author
      BY <1>3, <1>10, <1>12, <2>1, <3>1
    <3> QED BY <1>6, <2>1, <2>3, <3>2
  <2> QED BY <2>1, <2>2, <2>3
<1>23. ASSUME NEW c \in Comment PROVE f[ReportDoc(c, u)] = Nobody
  <2>1. e[ReportDoc(c, u)] \in {Nobody, d[ReportDoc(c, u)]}
    BY <1>16, DocsAreDocs DEF Taken
  <2>2. f[ReportDoc(c, u)] \in {Nobody, e[ReportDoc(c, u)]}
    BY <1>19, DocsAreDocs DEF Taken
  <2> QED BY <1>13, <2>1, <2>2
<1>24. SameButComments(s, f)
  BY <1>13, <1>17, <1>20 DEF SameButComments
<1> QED BY <1>1, <1>21, <1>22, <1>23, <1>24 DEF Silent

\* The notifications that an account takes with it are notifications, and all that it must.
LEMMA AccountNotesAreNotes ==
  ASSUME NEW s, NEW u \in User
  PROVE  /\ \A d \in AccountNotes(s, u) : d[1] \in {"likeNote", "followedNote", "commentNote"}
         /\ \A r \in Review, v \in User :
              /\ OwnReview(s, r, u) => LikeNote(r, v) \in AccountNotes(s, u)
              /\ s[FollowedNote(r, v)] = u => FollowedNote(r, v) \in AccountNotes(s, u)
<1> DEFINE F == { { d \in ReviewNotes(r) : s[d] = u } \cup {FollowedNote(r, u)} : r \in Review }
           G == { d \in UNION { About(c) : c \in Comment } : d[1] = "commentNote" /\ (s[d] = u \/ d[2][2] = u) }
           H == { LikeNote(r, v) : r \in OwnReviews(s, u), v \in User }
<1>1. AccountNotes(s, u) = (UNION F) \cup G \cup H
  BY DEF AccountNotes
<1>2. \A d : d \in UNION F <=> \E r \in Review : (d \in ReviewNotes(r) /\ s[d] = u) \/ d = FollowedNote(r, u)
  OBVIOUS
<1>3. \A d \in UNION F : d[1] \in {"likeNote", "followedNote"}
  BY <1>2, AboutReviews, Kinds
<1>4. \A d \in G : d[1] = "commentNote"
  OBVIOUS
<1>5. \A d \in H : d[1] = "likeNote"
  BY Kinds
<1>6. \A r \in Review, v \in User : OwnReview(s, r, u) => LikeNote(r, v) \in H
  BY DEF OwnReviews
<1>7. \A r \in Review, v \in User : s[FollowedNote(r, v)] = u => FollowedNote(r, v) \in UNION F
  BY <1>2, AboutReviews
<1> HIDE DEF F, G, H
<1> QED BY <1>1, <1>3, <1>4, <1>5, <1>6, <1>7

\* The account's comments, notifications, likes and pin are gone.
LEMMA WipedKeeps ==
  ASSUME NEW s, Site(s), NEW u \in User, NEW W, NEW t, t = AccountWiped(s, u)
  PROVE  /\ Keeps(s, W, t) /\ Silent(t, u) /\ t[PinDoc(u)] = Nobody
         /\ \A r \in Review : t[ReviewDoc(r)] = s[ReviewDoc(r)]
         /\ \A v \in User : t[FenceDoc(v)] = s[FenceDoc(v)]
         /\ \A r \in Review, v \in User : /\ OwnReview(s, r, u) => t[LikeNote(r, v)] = Nobody
                                          /\ t[FollowedNote(r, v)] # u
<1> DEFINE a == RemoveAccountComments(s, u)
           D == {PinDoc(u)} \cup AccountNotes(s, u) \cup { LikeDoc(r, u) : r \in Review }
<1>1. Keeps(s, W, a) /\ Silent(a, u) /\ SameButComments(s, a)
  BY RemovedAccountComments
<1>2. t = Without(a, D)
  BY DEF AccountWiped
<1>3. \A d \in D : d[1] \in {"pin", "like", "likeNote", "followedNote", "commentNote"}
  BY AccountNotesAreNotes, Kinds
<1>4. /\ PinDoc(u) \in D
      /\ \A r \in Review, v \in User : /\ OwnReview(s, r, u) => LikeNote(r, v) \in D
                                       /\ s[FollowedNote(r, v)] = u => FollowedNote(r, v) \in D
  BY AccountNotesAreNotes
<1> HIDE DEF a, D
<1>5. Enclosed(a, D)
  BY <1>3, Kinds DEF Enclosed
<1>6. Site(a) /\ DOMAIN a = ReviewDocs
  BY <1>1 DEF Keeps, Site, TypedSite
<1>7. Keeps(s, W, t)
  BY <1>1, <1>2, <1>5, <1>6, WithoutKeeps, KeepsTwice
<1>8. Taken(a, D, t)
  BY <1>2, <1>6, WithoutDocs
<1>9. \A d \in ReviewDocs : d[1] \notin {"pin", "like", "likeNote", "followedNote", "commentNote"} => t[d] = a[d]
  BY <1>3, <1>8 DEF Taken
<1>10. /\ \A c \in Comment : t[CommentDoc(c)] = a[CommentDoc(c)] /\ t[ReportDoc(c, u)] = a[ReportDoc(c, u)]
       /\ \A r \in Review : t[ReviewDoc(r)] = a[ReviewDoc(r)]
       /\ \A v \in User : t[FenceDoc(v)] = a[FenceDoc(v)]
  BY <1>9, DocsAreDocs, Kinds
<1>11. Silent(t, u)
  BY <1>1, <1>10 DEF Silent, Present
<1>12. t[PinDoc(u)] = Nobody
  BY <1>4, <1>8 DEF Taken
<1>13. ASSUME NEW r \in Review, NEW v \in User
       PROVE  /\ OwnReview(s, r, u) => t[LikeNote(r, v)] = Nobody
              /\ t[FollowedNote(r, v)] # u
  <2>1. OwnReview(s, r, u) => t[LikeNote(r, v)] = Nobody
    BY <1>4, <1>8 DEF Taken
  <2>2. CASE s[FollowedNote(r, v)] = u
    BY <1>4, <1>8, <2>2, ReviewsAssumption DEF Taken
  <2>3. CASE s[FollowedNote(r, v)] # u
    <3>1. t[FollowedNote(r, v)] \in {Nobody, a[FollowedNote(r, v)]}
      BY <1>8, DocsAreDocs DEF Taken
    <3>2. a[FollowedNote(r, v)] = s[FollowedNote(r, v)]
      BY <1>1 DEF SameButComments
    <3>3. u # Nobody
      BY ReviewsAssumption
    <3> QED BY <2>1, <2>3, <3>1, <3>2, <3>3
  <2> QED BY <2>1, <2>2, <2>3
<1> QED BY <1>1, <1>7, <1>10, <1>11, <1>12, <1>13 DEF SameButComments

\* And its reviews stay under another name.
LEMMA AccountDeletedKeeps ==
  ASSUME NEW s, Site(s), NEW u \in User, NEW W
  PROVE  Keeps(s, W, AccountDeleted(s, u))
<1> DEFINE a == AccountWiped(s, u)
           t == AccountDeleted(s, u)
           theirs == { ReviewDoc(r) : r \in OwnReviews(s, u) }
           Unsigned(k) == [k EXCEPT !.author = Anonymous]
<1>1. /\ Keeps(s, W, a) /\ Silent(a, u) /\ a[PinDoc(u)] = Nobody
      /\ \A r \in Review : a[ReviewDoc(r)] = s[ReviewDoc(r)]
      /\ \A v \in User : a[FenceDoc(v)] = s[FenceDoc(v)]
      /\ \A r \in Review, v \in User : /\ OwnReview(s, r, u) => a[LikeNote(r, v)] = Nobody
                                       /\ a[FollowedNote(r, v)] # u
  BY WipedKeeps
<1>2. Site(a) /\ TypedSite(a) /\ Sound(a) /\ TypedSite(s) /\ DOMAIN s = ReviewDocs
  BY <1>1 DEF Keeps, Site, TypedSite
<1>3. /\ DOMAIN t = ReviewDocs
      /\ \A d \in ReviewDocs : t[d] = IF d \in theirs THEN Unsigned(s[d])
                                      ELSE IF d = FenceDoc(u) THEN TRUE ELSE a[d]
  BY <1>2 DEF AccountDeleted
<1>4. /\ \A d \in theirs : d[1] = "review"
      /\ \A r \in Review : ReviewDoc(r) \in theirs <=> OwnReview(s, r, u)
  BY Kinds, Ids DEF OwnReviews
<1> HIDE DEF a, t, theirs, Unsigned
<1>5. \A d \in ReviewDocs : d[1] \notin {"review", "fence"} => t[d] = a[d]
  BY <1>3, <1>4, Kinds
<1>6. /\ CommentsStay(a, t)
      /\ \A v \in User : t[PinDoc(v)] = a[PinDoc(v)]
      /\ \A r \in Review, v \in User : /\ t[LikeDoc(r, v)] = a[LikeDoc(r, v)] /\ t[LikeNote(r, v)] = a[LikeNote(r, v)]
                                       /\ t[FollowedNote(r, v)] = a[FollowedNote(r, v)]
  BY <1>5, DocsAreDocs, Kinds DEF CommentsStay
<1>7. \A r \in Review : t[ReviewDoc(r)] = IF OwnReview(s, r, u) THEN Unsigned(s[ReviewDoc(r)])
                                         ELSE a[ReviewDoc(r)]
  <2>1. \A r : ReviewDoc(r) # FenceDoc(u)
    BY Kinds
  <2> QED BY <2>1, <1>3, <1>4, DocsAreDocs
<1>8. ASSUME NEW r \in Review
      PROVE  /\ t[ReviewDoc(r)] \in ReviewValue /\ (LiveReview(a, r) => LiveReview(t, r))
             /\ ~OwnReview(s, r, u) => t[ReviewDoc(r)] = a[ReviewDoc(r)]
  <2> DEFINE k == s[ReviewDoc(r)]
  <2>1. k \in ReviewValue /\ a[ReviewDoc(r)] = k
    BY <1>1, <1>2 DEF TypedSite
  <2>2. CASE OwnReview(s, r, u)
    <3>1. k.status = "live" /\ t[ReviewDoc(r)] = Unsigned(k)
      BY <1>7, <2>2 DEF OwnReview, LiveReview
    <3> HIDE DEF k
    <3>2. t[ReviewDoc(r)] \in ReviewValue /\ t[ReviewDoc(r)].status = "live"
      BY <2>1, <3>1 DEF ReviewValue, Unsigned
    <3> QED BY <2>2, <3>2 DEF LiveReview
  <2>3. CASE ~OwnReview(s, r, u)
    BY <1>7, <2>1, <2>3 DEF LiveReview
  <2> QED BY <2>2, <2>3
<1>9. ASSUME NEW v \in User PROVE t[FenceDoc(v)] \in BOOLEAN /\ (t[FenceDoc(v)] => a[FenceDoc(v)] \/ Silent(a, v))
  <2>1. FenceDoc(v) \in ReviewDocs /\ FenceDoc(v) \notin theirs /\ (FenceDoc(v) = FenceDoc(u) => v = u)
    BY <1>4, DocsAreDocs, Kinds, Ids
  <2> QED BY <1>1, <1>2, <1>3, <2>1 DEF TypedSite
<1>10. AccountsAndReviews(a, t)
  BY <1>8, <1>9 DEF AccountsAndReviews
<1>11. ASSUME NEW v \in User PROVE t[PinDoc(v)] \in Review \cup {Nobody} /\ SoundPin(t, v) /\ LaterPin(a, W, t, v)
  <2>1. SoundPin(a, v) /\ a[PinDoc(v)] \in Review \cup {Nobody} /\ t[PinDoc(v)] = a[PinDoc(v)]
    BY <1>2, <1>6 DEF Sound, TypedSite
  <2>2. ASSUME a[PinDoc(v)] # Nobody PROVE OwnReview(t, a[PinDoc(v)], v)
    <3>1. v # u /\ a[PinDoc(v)] \in Review /\ OwnReview(a, a[PinDoc(v)], v)
      BY <1>1, <2>1, <2>2 DEF SoundPin
    <3>2. ~OwnReview(s, a[PinDoc(v)], u)
      BY <1>1, <3>1 DEF OwnReview, LiveReview
    <3> QED BY <1>8, <3>1, <3>2 DEF OwnReview, LiveReview
  <2> QED BY <2>1, <2>2 DEF SoundPin, LaterPin
<1>12. ASSUME NEW r \in Review, NEW v \in User
       PROVE  /\ t[LikeDoc(r, v)] \in BOOLEAN
              /\ t[LikeNote(r, v)] \in User \cup {Nobody} /\ t[FollowedNote(r, v)] \in User \cup {Nobody}
              /\ SoundLike(t, r, v) /\ LaterLike(a, W, t, r, v)
  <2>1. /\ SoundLike(a, r, v) /\ a[LikeDoc(r, v)] \in BOOLEAN
        /\ a[LikeNote(r, v)] \in User \cup {Nobody} /\ a[FollowedNote(r, v)] \in User \cup {Nobody}
        /\ t[LikeDoc(r, v)] = a[LikeDoc(r, v)] /\ t[LikeNote(r, v)] = a[LikeNote(r, v)]
        /\ t[FollowedNote(r, v)] = a[FollowedNote(r, v)]
    BY <1>2, <1>6 DEF Sound, TypedSite
  <2>2. LaterLike(a, W, t, r, v)
    BY <2>1 DEF LaterLike
  <2>3. CASE OwnReview(s, r, u)
    <3>1. a[LikeNote(r, v)] = Nobody /\ a[FollowedNote(r, v)] # u /\ a[ReviewDoc(r)].author = u
      BY <1>1, <2>3 DEF OwnReview
    <3> QED BY <1>8, <2>1, <2>2, <3>1 DEF SoundLike, OwnReview
  <2>4. CASE ~OwnReview(s, r, u)
    <3>1. t[ReviewDoc(r)] = a[ReviewDoc(r)]
      BY <1>8, <2>4
    <3> QED BY <2>1, <2>2, <3>1 DEF SoundLike, OwnReview, LiveReview
  <2> QED BY <2>3, <2>4
<1>13. Edges(a, W, t)
  BY <1>11, <1>12 DEF Edges
<1>14. Keeps(a, W, t)
  BY <1>2, <1>3, <1>6, <1>10, <1>13, AroundComments DEF Keeps, QuietNotes
<1>15. Keeps(s, W, t)
  BY <1>1, <1>14, KeepsTwice
<1> QED BY <1>15 DEF t

(***************************************************************************)
(* The actions                                                             *)
(***************************************************************************)
\* What a request carries.
LEMMA RequestFields ==
  ASSUME NEW q \in Request
  PROVE  /\ q.op \in {"deleteReview", "like", "unlike", "pin", "fanOut", "createComment"} => q.review \in Review /\ q.user \in User
         /\ q.op = "fanOut" => q.recipients \subseteq User
         /\ q.op = "createComment" => q.parent \in Comment \cup {Nobody}
         /\ q.op \in {"deleteComment", "report", "remove", "dismiss"} => q.comment \in Comment
         /\ q.op \in {"deleteComment", "report", "deleteAccount"} => q.user \in User
BY DEF Request

\* The transaction of x, on the snapshot s, does what op asks of it.
LEMMA RunningOn ==
  ASSUME ReviewsInv, NEW x, NEW op, Running(x, op)
  PROVE  /\ x \in OpenClients /\ Site(tx[x].snap) /\ DOMAIN tx[x].snap = ReviewDocs
         /\ tx[x].req \in Request /\ tx[x].req.op = op
BY DEF ReviewsInv, Running, Site, TypedSite

\* A handler that tells no follower anything.
LEMMA HandlerIsSafe ==
  ASSUME ReviewsInv, NEW x \in OpenClients, NEW t, NEW touched, touched \subseteq ReviewDocs,
         Keeps(tx[x].snap, touched \cup Changed(tx[x].snap, t), t), Finish(x, t, touched)
  PROVE  ReviewsInv' /\ Settled
<1>1. Site(tx[x].snap) /\ sent \in 0..MaxRequests
  BY DEF ReviewsInv
<1>2. SafeStep(tx[x].snap, touched \cup Changed(tx[x].snap, t), t)
  BY <1>1, KeepsIsSafe
<1>3. CommitTouching(x, t, touched) /\ sent' = sent
  BY DEF Finish
<1> QED BY <1>1, <1>2, <1>3, CommitIsSafe

\* A single write that tells no follower anything.
LEMMA SingleWriteIsSafe ==
  ASSUME ReviewsInv, NEW t, NEW touched, touched \subseteq ReviewDocs,
         Keeps(db, touched \cup Changed(db, t), t), WriteTouching(t, touched), Sent
  PROVE  ReviewsInv' /\ Settled
<1>1. Site(db) /\ sent \in 0..MaxRequests /\ MaxRequests \in Nat
  BY ReviewsAssumption DEF ReviewsInv
<1>2. SafeStep(db, touched \cup Changed(db, t), t)
  BY <1>1, KeepsIsSafe
<1>3. sent' \in 0..MaxRequests
  BY <1>1 DEF Sent
<1> QED BY <1>2, <1>3, WriteIsSafe

\* Deleting a review.
LEMMA DeleteReviewIsSafe ==
  ASSUME ReviewsInv, NEW x, DeleteReview(x)
  PROVE  ReviewsInv' /\ Settled
<1> DEFINE s == tx[x].snap
           r == tx[x].req.review
           t == Without(HardDelete(s, OnReview(s, r)),
                        {ReviewDoc(r)} \cup { LikeDoc(r, u) : u \in User } \cup ReviewNotes(r)
                        \cup { PinDoc(u) : u \in { v \in User : s[PinDoc(v)] = r } })
<1>1. Running(x, "deleteReview") /\ Finish(x, t, {})
  BY DEF DeleteReview
<1>2. x \in OpenClients /\ Site(s) /\ r \in Review
  BY <1>1, RunningOn, RequestFields
<1>3. Keeps(s, {} \cup Changed(s, t), t)
  BY <1>2, DeleteReviewKeeps
<1> HIDE DEF s, t
<1> QED BY <1>1, <1>2, <1>3, HandlerIsSafe DEF s

\* Liking a review.
LEMMA LikeReviewIsSafe ==
  ASSUME ReviewsInv, NEW x, LikeReview(x)
  PROVE  ReviewsInv' /\ Settled
<1> DEFINE s == tx[x].snap
           r == tx[x].req.review
           u == tx[x].req.user
           liked == [s EXCEPT ![LikeDoc(r, u)] = TRUE]
<1>1. /\ Running(x, "like") /\ LiveReview(s, r)
      /\ \/ Finish(x, liked, ClaimReview(r))
         \/ /\ s[ReviewDoc(r)].author \notin {u, Anonymous}
            /\ Finish(x, [liked EXCEPT ![LikeNote(r, u)] = u], ClaimReview(r))
  BY DEF LikeReview
<1>2. x \in OpenClients /\ Site(s) /\ DOMAIN s = ReviewDocs /\ r \in Review /\ u \in User
  BY <1>1, RunningOn, RequestFields
<1> HIDE DEF r, u
<1>3. ClaimReview(r) \subseteq ReviewDocs /\ ReviewDoc(r) \in ClaimReview(r)
  BY <1>2, DocsAreDocs DEF ClaimReview
<1>4. LikeNote(r, u) # LikeDoc(r, u) /\ LikeDoc(r, u) \in ReviewDocs /\ LikeNote(r, u) \in ReviewDocs
  BY <1>2, Kinds, DocsAreDocs
<1>5. ASSUME NEW t, t = liked, Finish(x, t, ClaimReview(r))
      PROVE  ReviewsInv' /\ Settled
  <2>1. /\ DOMAIN t = ReviewDocs /\ t[LikeDoc(r, u)] = TRUE /\ t[LikeNote(r, u)] = s[LikeNote(r, u)]
        /\ \A d \in ReviewDocs : d \notin {LikeDoc(r, u), LikeNote(r, u)} => t[d] = s[d]
    BY <1>2, <1>4, <1>5
  <2> HIDE DEF liked
  <2>2. Keeps(s, ClaimReview(r) \cup Changed(s, t), t)
    BY <1>1, <1>2, <1>3, <2>1, LikeKeeps
  <2> QED BY <1>2, <1>3, <1>5, <2>2, HandlerIsSafe
<1>6. ASSUME NEW t, t = [liked EXCEPT ![LikeNote(r, u)] = u], Finish(x, t, ClaimReview(r)),
             s[ReviewDoc(r)].author # Anonymous
      PROVE  ReviewsInv' /\ Settled
  <2>1. /\ DOMAIN t = ReviewDocs /\ t[LikeDoc(r, u)] = TRUE /\ t[LikeNote(r, u)] = u
        /\ \A d \in ReviewDocs : d \notin {LikeDoc(r, u), LikeNote(r, u)} => t[d] = s[d]
    BY <1>2, <1>4, <1>6
  <2> HIDE DEF liked
  <2>2. Keeps(s, ClaimReview(r) \cup Changed(s, t), t)
    BY <1>1, <1>2, <1>3, <1>6, <2>1, LikeKeeps
  <2> QED BY <1>2, <1>3, <1>6, <2>2, HandlerIsSafe
<1> HIDE DEF liked, s
<1> QED BY <1>1, <1>5, <1>6

\* Taking a like back.
LEMMA UnlikeReviewIsSafe ==
  ASSUME ReviewsInv, NEW x, UnlikeReview(x)
  PROVE  ReviewsInv' /\ Settled
<1> DEFINE s == tx[x].snap
           r == tx[x].req.review
           u == tx[x].req.user
           t == [s EXCEPT ![LikeDoc(r, u)] = FALSE]
<1>1. Running(x, "unlike") /\ Finish(x, t, ClaimReview(r))
  BY DEF UnlikeReview
<1>2. x \in OpenClients /\ Site(s) /\ DOMAIN s = ReviewDocs /\ r \in Review /\ u \in User
  BY <1>1, RunningOn, RequestFields
<1>3. ClaimReview(r) \subseteq ReviewDocs
  BY <1>2, DocsAreDocs DEF ClaimReview
<1>4. t = Without(s, {LikeDoc(r, u)})
  <2>1. Blank(LikeDoc(r, u)) = FALSE
    BY DEF Blank, LikeDoc
  <2> QED BY <1>2, <2>1 DEF Without
<1> HIDE DEF s, r, u, t
<1>5. Enclosed(s, {LikeDoc(r, u)})
  BY Kinds DEF Enclosed
<1>6. Keeps(s, ClaimReview(r) \cup Changed(s, t), t)
  BY <1>2, <1>4, <1>5, WithoutKeeps
<1> QED BY <1>1, <1>2, <1>3, <1>6, HandlerIsSafe DEF s

\* Pinning a review.
LEMMA PinReviewIsSafe ==
  ASSUME ReviewsInv, NEW x, PinReview(x)
  PROVE  ReviewsInv' /\ Settled
<1> DEFINE s == tx[x].snap
           r == tx[x].req.review
           u == tx[x].req.user
           t == [s EXCEPT ![PinDoc(u)] = r]
<1>1. Running(x, "pin") /\ OwnReview(s, r, u) /\ Finish(x, t, ClaimReview(r))
  BY DEF PinReview
<1>2. x \in OpenClients /\ Site(s) /\ DOMAIN s = ReviewDocs /\ r \in Review /\ u \in User
  BY <1>1, RunningOn, RequestFields
<1>3. ClaimReview(r) \subseteq ReviewDocs /\ ReviewDoc(r) \in ClaimReview(r)
  BY <1>2, DocsAreDocs DEF ClaimReview
<1>4. DOMAIN t = ReviewDocs /\ t[PinDoc(u)] = r /\ \A d \in ReviewDocs : d # PinDoc(u) => t[d] = s[d]
  BY <1>2, DocsAreDocs
<1> HIDE DEF s, r, u, t
<1>5. Keeps(s, ClaimReview(r) \cup Changed(s, t), t)
  BY <1>1, <1>2, <1>3, <1>4, PinKeeps
<1> QED BY <1>1, <1>2, <1>3, <1>5, HandlerIsSafe DEF s

\* Telling the followers of a review.
LEMMA FanOutIsSafe ==
  ASSUME ReviewsInv, NEW x, FanOut(x)
  PROVE  ReviewsInv' /\ Settled
<1> DEFINE s == tx[x].snap
           r == tx[x].req.review
           u == tx[x].req.user
           new == { FollowedNote(r, v) : v \in tx[x].req.recipients }
           t == [d \in DOMAIN s |-> IF d \in new /\ s[d] = Nobody THEN u
                                    ELSE IF d = ReviewDoc(r) THEN [s[d] EXCEPT !.fannedOut = TRUE] ELSE s[d]]
           k == s[ReviewDoc(r)]
<1>1. Running(x, "fanOut") /\ OwnReview(s, r, u) /\ ~s[ReviewDoc(r)].fannedOut /\ Finish(x, t, ClaimReview(r))
  BY DEF FanOut, Undelivered
<1>2. /\ x \in OpenClients /\ Site(s) /\ DOMAIN s = ReviewDocs /\ r \in Review /\ u \in User
      /\ tx[x].req.recipients \subseteq User
  BY <1>1, RunningOn, RequestFields
<1>3. /\ \A d \in new : d[1] = "followedNote"
      /\ \A d \in new : \E v \in User : d = FollowedNote(r, v)
  BY <1>2, Kinds
<1>4. ClaimReview(r) \subseteq ReviewDocs /\ ReviewDoc(r) \in ClaimReview(r) /\ ReviewDoc(r) \in ReviewDocs
  BY <1>2, DocsAreDocs DEF ClaimReview
<1>5. ReviewDoc(r) \notin new
  BY <1>3, Kinds
<1>6. /\ DOMAIN t = ReviewDocs /\ t[ReviewDoc(r)] = [k EXCEPT !.fannedOut = TRUE]
      /\ \A d \in ReviewDocs : d # ReviewDoc(r) => t[d] = IF d \in new /\ s[d] = Nobody THEN u ELSE s[d]
  BY <1>2, <1>4, <1>5
<1>7. k \in ReviewValue /\ k.status = "live" /\ k.author = u
  BY <1>1, <1>2 DEF Site, TypedSite, OwnReview, LiveReview
<1> HIDE DEF s, r, u, new, t, k
<1>8. t[ReviewDoc(r)] \in ReviewValue /\ t[ReviewDoc(r)].status = "live" /\ t[ReviewDoc(r)].author = u
  BY <1>6, <1>7 DEF ReviewValue
<1>9. OwnReview(t, r, u)
  BY <1>8 DEF OwnReview, LiveReview
<1>10. \A v \in User : t[FollowedNote(r, v)] \in {s[FollowedNote(r, v)], u}
  BY <1>2, <1>6, Kinds, DocsAreDocs
<1>11. \A d \in ReviewDocs : d # ReviewDoc(r) /\ (\A v \in User : d # FollowedNote(r, v)) => t[d] = s[d]
  BY <1>3, <1>6
<1> DEFINE W == ClaimReview(r) \cup Changed(s, t)
<1>12. W \subseteq ReviewDocs /\ ReviewDoc(r) \in W
  BY <1>2, <1>4 DEF Changed
<1> HIDE DEF W
<1>13. Site(t) /\ Follows(s, W, t) /\ ToldOnce(s, t)
  <2>1. /\ LiveReview(s, r) => OwnReview(s, r, u)
        /\ \A v \in User : t[FollowedNote(r, v)] # s[FollowedNote(r, v)] => LiveReview(s, r) /\ ~s[ReviewDoc(r)].fannedOut
    BY <1>1 DEF OwnReview
  <2> QED BY <1>2, <1>6, <1>8, <1>9, <1>10, <1>11, <1>12, <2>1, FollowersAreTold
<1>14. SafeStep(s, W, t)
  BY <1>12, <1>13 DEF SafeStep, W
<1>15. CommitTouching(x, t, ClaimReview(r)) /\ sent' \in 0..MaxRequests
  BY <1>1 DEF Finish, ReviewsInv
<1> QED BY <1>2, <1>4, <1>14, <1>15, CommitIsSafe DEF W, s

\* Posting a comment.
LEMMA CreateCommentIsSafe ==
  ASSUME ReviewsInv, NEW x, CreateComment(x)
  PROVE  ReviewsInv' /\ Settled
<1> DEFINE s == tx[x].snap
           r == tx[x].req.review
           u == tx[x].req.user
           p == tx[x].req.parent
           top == p = Nobody
           thread == IF top THEN Nobody ELSE Thread(s, p)
           replyTo == IF top \/ thread = p THEN Nobody ELSE s[CommentDoc(p)].author
           claimed == ClaimReview(r) \cup ClaimAccount(u) \cup ClaimComments({p, thread} \ {Nobody})
           k == [status |-> "visible", review |-> r, parent |-> thread,
                 author |-> u, replyTo |-> replyTo, body |-> TRUE]
<1>1. /\ Running(x, "createComment") /\ ~s[FenceDoc(u)] /\ LiveReview(s, r)
      /\ top \/ p \in Visible(s) \cap OnReview(s, r)
      /\ top \/ thread \in Present(s)
      /\ \E c \in Comment, said \in SUBSET Recipients(s, r, u, thread, replyTo) :
           s[CommentDoc(c)].status = "unborn" /\ Finish(x, Posted(s, c, said, k), claimed)
  BY Zenon DEF CreateComment
<1>2. PICK c \in Comment, said \in SUBSET Recipients(s, r, u, thread, replyTo) :
           s[CommentDoc(c)].status = "unborn" /\ Finish(x, Posted(s, c, said, k), claimed)
  BY <1>1, Zenon
<1>3. /\ x \in OpenClients /\ Site(s) /\ DOMAIN s = ReviewDocs /\ r \in Review /\ u \in User
      /\ p \in Comment \cup {Nobody}
  BY <1>1, RunningOn, RequestFields
<1> DEFINE t == Posted(s, c, said, k)
           W == claimed \cup Changed(s, t)
<1>4. Finish(x, t, claimed)
  BY <1>2
<1>5. /\ k.status = "visible" /\ k.review = r /\ k.parent = thread /\ k.author = u /\ k.replyTo = replyTo
      /\ k = [status |-> "visible", review |-> r, parent |-> thread, author |-> u, replyTo |-> replyTo, body |-> TRUE]
  OBVIOUS
<1>6. top => thread = Nobody /\ replyTo = Nobody
  OBVIOUS
<1>7. ASSUME ~top
      PROVE  /\ p \in Visible(s) /\ p \in Present(s) /\ p \in Comment /\ s[CommentDoc(p)].review = r /\ thread \in Present(s)
             /\ thread = IF s[CommentDoc(p)].parent = Nobody THEN p ELSE s[CommentDoc(p)].parent
             /\ replyTo = IF thread = p THEN Nobody ELSE s[CommentDoc(p)].author
  BY <1>1, <1>7, Zenon DEF Visible, OnReview, Present, Thread
<1>8. /\ ReviewDoc(r) \in claimed /\ FenceDoc(u) \in claimed
      /\ \A q \in {p, thread} \ {Nobody} : CommentDoc(q) \in claimed
      /\ \A d \in claimed : d = ReviewDoc(r) \/ d = FenceDoc(u) \/ \E q \in {p, thread} \ {Nobody} : d = CommentDoc(q)
  BY DEF ClaimReview, ClaimAccount, ClaimComments, CommentDocs
<1>9. c \in Comment /\ s[CommentDoc(c)].status = "unborn"
  BY <1>2
<1>10. said \in SUBSET Recipients(s, r, u, thread, replyTo)
  OBVIOUS
<1> HIDE DEF s, r, u, p, top, thread, replyTo, claimed, k, t
<1>11. ASSUME ~top
       PROVE  /\ thread \in Comment /\ s[CommentDoc(thread)].review = r /\ s[CommentDoc(thread)].parent = Nobody
              /\ s[CommentDoc(p)].author \in User /\ p \in CommentsBy(s, s[CommentDoc(p)].author)
  <2>1. SoundComment(s, p) /\ s[CommentDoc(p)].author \in User
    BY <1>3, <1>7, <1>11, ShownComments
  <2>2. p \in CommentsBy(s, s[CommentDoc(p)].author)
    BY <1>7, <1>11 DEF CommentsBy
  <2> QED BY <1>7, <1>11, <2>1, <2>2 DEF SoundComment, Present
<1>12. thread \in Comment \cup {Nobody} /\ replyTo \in User \cup {Nobody}
  BY <1>6, <1>7, <1>11
<1>13. said \subseteq User
  <2>1. r \in Review /\ Site(s) /\ thread \in Visible(s) => s[CommentDoc(thread)].author \in User
    BY ShownComments
  <2>2. s[ReviewDoc(r)].author \in User \cup {Anonymous}
    BY <1>1, <1>3 DEF Site, TypedSite, ReviewValue, LiveReview
  <2> QED BY <1>3, <1>12, <1>10, <2>1, <2>2 DEF Recipients
<1>14. k \in CommentValue
  BY <1>3, <1>5, <1>12 DEF CommentValue, Status
<1>15. thread # Nobody => /\ thread \in Present(s) /\ s[CommentDoc(thread)].review = r
                          /\ s[CommentDoc(thread)].parent = Nobody /\ CommentDoc(thread) \in W
  BY <1>6, <1>7, <1>8, <1>11
<1>16. replyTo \in User => \E q \in CommentsBy(s, replyTo) : CommentDoc(q) \in W
  <2> SUFFICES ASSUME replyTo \in User PROVE \E q \in CommentsBy(s, replyTo) : CommentDoc(q) \in W
    OBVIOUS
  <2>1. ~top /\ replyTo # Nobody
    BY <1>6, ReviewsAssumption
  <2>2. replyTo = s[CommentDoc(p)].author /\ p # Nobody
    BY <1>7, <2>1, ReviewsAssumption
  <2> QED BY <1>8, <1>11, <2>1, <2>2
<1>17. Postable(s, W, k)
  BY <1>1, <1>3, <1>5, <1>8, <1>14, <1>15, <1>16 DEF Postable
<1>18. DOMAIN t = ReviewDocs /\ t[CommentDoc(c)] = k
  BY <1>3, <1>9, DocsAreDocs DEF Posted, t
<1>19. CommentDoc(c) \in W
  BY <1>3, <1>5, <1>9, <1>18, DocsAreDocs DEF Changed
<1>20. Keeps(s, W, t)
  BY <1>3, <1>13, <1>9, <1>17, <1>19, PostedKeeps DEF t
<1>21. claimed \subseteq ReviewDocs
  BY <1>3, <1>8, <1>12, DocsAreDocs
<1> QED BY <1>3, <1>4, <1>20, <1>21, HandlerIsSafe DEF s

\* Deleting a comment.
LEMMA DeleteCommentIsSafe ==
  ASSUME ReviewsInv, NEW x, DeleteComment(x)
  PROVE  ReviewsInv' /\ Settled
<1> DEFINE s == tx[x].snap
           c == tx[x].req.comment
           empty == RemoveEmptyTombstones(HardDelete(s, {c}), {Thread(s, c)} \ {c})
           t == IF s[CommentDoc(c)].parent = Nobody /\ Replies(s, c) # {} THEN Tombstone(s, c) ELSE empty
<1>1. Running(x, "deleteComment") /\ c \in Visible(s) /\ Finish(x, t, ClaimComments({c}))
  BY DEF DeleteComment
<1>2. x \in OpenClients /\ Site(s) /\ c \in Comment
  BY <1>1, RunningOn, RequestFields
<1>3. ClaimComments({c}) \subseteq ReviewDocs
  BY <1>2, DocsAreDocs DEF ClaimComments, CommentDocs
<1> HIDE DEF s, c
<1>4. Keeps(s, ClaimComments({c}) \cup Changed(s, t), t)
  <2>1. CASE s[CommentDoc(c)].parent = Nobody /\ Replies(s, c) # {}
    <3>1. t = Tombstone(s, c)
      BY <2>1
    <3> HIDE DEF t
    <3> QED BY <1>1, <1>2, <3>1, TombstoneKeeps
  <2>2. CASE ~(s[CommentDoc(c)].parent = Nobody /\ Replies(s, c) # {})
    <3>1. t = RemoveEmptyTombstones(HardDelete(s, {c}), {Thread(s, c)} \ {c})
      BY <2>2
    <3> HIDE DEF t, empty
    <3> QED BY <1>1, <1>2, <2>2, <3>1, DeletedKeeps
  <2> QED BY <2>1, <2>2
<1> HIDE DEF t
<1> QED BY <1>1, <1>2, <1>3, <1>4, HandlerIsSafe DEF s

\* Reporting a comment.
LEMMA ReportIsSafe ==
  ASSUME ReviewsInv, NEW x, Report(x)
  PROVE  ReviewsInv' /\ Settled
<1> DEFINE s == tx[x].snap
           c == tx[x].req.comment
           u == tx[x].req.user
           v == IF s[ReportDoc(c, u)] = Nobody THEN "open" ELSE s[ReportDoc(c, u)]
           t == [s EXCEPT ![ReportDoc(c, u)] = v]
           claimed == ClaimAccount(u) \cup ClaimComments({c})
<1>1. Running(x, "report") /\ ~s[FenceDoc(u)] /\ c \in Visible(s) /\ Finish(x, t, claimed)
  BY DEF Report
<1>2. x \in OpenClients /\ Site(s) /\ DOMAIN s = ReviewDocs /\ c \in Comment /\ u \in User
  BY <1>1, RunningOn, RequestFields
<1>3. claimed \subseteq ReviewDocs /\ CommentDoc(c) \in claimed /\ FenceDoc(u) \in claimed
  BY <1>2, DocsAreDocs DEF ClaimAccount, ClaimComments, CommentDocs
<1>4. /\ DOMAIN t = ReviewDocs /\ \A d \in ReviewDocs : d # ReportDoc(c, u) => t[d] = s[d]
      /\ t[ReportDoc(c, u)] = IF s[ReportDoc(c, u)] = Nobody THEN "open" ELSE s[ReportDoc(c, u)]
  BY <1>2, DocsAreDocs
<1> HIDE DEF s, c, u, t, claimed, v
<1>5. Keeps(s, claimed \cup Changed(s, t), t)
  BY <1>1, <1>2, <1>3, <1>4, ReportKeeps
<1> QED BY <1>1, <1>2, <1>3, <1>5, HandlerIsSafe DEF s

\* A moderator removes a comment.
LEMMA RemoveCommentIsSafe ==
  ASSUME ReviewsInv, NEW x, RemoveComment(x)
  PROVE  ReviewsInv' /\ Settled
<1> DEFINE s == tx[x].snap
           c == tx[x].req.comment
           t == Removed(s, c)
<1>1. Running(x, "remove") /\ c \in Visible(s) /\ Finish(x, t, {})
  BY DEF RemoveComment, Removed, Hidden
<1>2. x \in OpenClients /\ Site(s)
  BY <1>1, RunningOn
<1> HIDE DEF s, c
<1>3. Keeps(s, {} \cup Changed(s, t), t)
  BY <1>1, <1>2, RemovedKeeps
<1> HIDE DEF t
<1> QED BY <1>1, <1>2, <1>3, HandlerIsSafe DEF s

\* A moderator dismisses the reports of a comment.
LEMMA DismissReportsIsSafe ==
  ASSUME ReviewsInv, NEW x, DismissReports(x)
  PROVE  ReviewsInv' /\ Settled
<1> DEFINE s == tx[x].snap
           c == tx[x].req.comment
           t == Dismissed(s, c)
<1>1. Running(x, "dismiss") /\ Finish(x, t, ClaimComments({c}))
  BY DEF DismissReports, Dismissed
<1>2. x \in OpenClients /\ Site(s) /\ c \in Comment
  BY <1>1, RunningOn, RequestFields
<1>3. ClaimComments({c}) \subseteq ReviewDocs /\ CommentDoc(c) \in ClaimComments({c})
  BY <1>2, DocsAreDocs DEF ClaimComments, CommentDocs
<1> HIDE DEF s, c
<1>4. Keeps(s, ClaimComments({c}) \cup Changed(s, t), t)
  BY <1>2, <1>3, DismissedKeeps
<1> HIDE DEF t
<1> QED BY <1>1, <1>2, <1>3, <1>4, HandlerIsSafe DEF s

\* An account is deleted.
LEMMA DeleteAccountIsSafe ==
  ASSUME ReviewsInv, NEW x, DeleteAccount(x)
  PROVE  ReviewsInv' /\ Settled
<1> DEFINE s == tx[x].snap
           u == tx[x].req.user
           t == AccountDeleted(s, u)
           claimed == {FenceDoc(u)} \cup ClaimComments(Answered(s, u))
<1>1. Running(x, "deleteAccount") /\ Finish(x, t, claimed)
  BY DEF DeleteAccount
<1>2. x \in OpenClients /\ Site(s) /\ u \in User
  BY <1>1, RunningOn, RequestFields
<1>3. claimed \subseteq ReviewDocs
  <2>1. Answered(s, u) \subseteq Comment
    BY DEF Answered, CommentsBy, Present
  <2> QED BY <1>2, <2>1, DocsAreDocs DEF ClaimComments, CommentDocs
<1> HIDE DEF s, u, claimed
<1>4. Keeps(s, claimed \cup Changed(s, t), t)
  BY <1>2, AccountDeletedKeeps
<1> HIDE DEF t
<1> QED BY <1>1, <1>2, <1>3, <1>4, HandlerIsSafe DEF s

(***************************************************************************)
(* Single writes                                                           *)
(***************************************************************************)
\* A write is one that touches nothing else.
LEMMA PlainWrite ==
  ASSUME NEW t, Write(t)
  PROVE  WriteTouching(t, {})
<1>1. {} \cup Changed(db, t) = Changed(db, t)
  OBVIOUS
<1> QED BY <1>1 DEF Write, WriteTouching

\* Writing a review.
LEMMA CreateReviewIsSafe ==
  ASSUME ReviewsInv, NEW r \in Review, NEW u \in User, CreateReview(r, u)
  PROVE  ReviewsInv' /\ Settled
<1> DEFINE k == [status |-> "live", author |-> u, fannedOut |-> FALSE]
           t == [db EXCEPT ![ReviewDoc(r)] = k]
           W == {} \cup Changed(db, t)
<1>1. db[ReviewDoc(r)].status = "unborn" /\ WriteTouching(t, {}) /\ Sent
  BY PlainWrite DEF CreateReview
<1>2. Site(db) /\ DOMAIN db = ReviewDocs /\ ReviewDoc(r) \in ReviewDocs
  BY DocsAreDocs DEF ReviewsInv, Site, TypedSite
<1>3. DOMAIN t = ReviewDocs /\ t[ReviewDoc(r)] = k /\ \A d \in ReviewDocs : d # ReviewDoc(r) => t[d] = db[d]
  BY <1>2
<1>4. k \in ReviewValue /\ k.status = "live" /\ k.author = u
  BY DEF ReviewValue
<1> HIDE DEF k, t
<1>5. W \subseteq ReviewDocs /\ ReviewDoc(r) \in W
  BY <1>1, <1>2, <1>3, <1>4 DEF Changed
<1>6. /\ ~LiveReview(db, r) /\ OwnReview(t, r, u)
      /\ \A v \in User : t[FollowedNote(r, v)] = db[FollowedNote(r, v)]
  <2>1. \A v \in User : FollowedNote(r, v) # ReviewDoc(r) /\ FollowedNote(r, v) \in ReviewDocs
    BY Kinds, DocsAreDocs
  <2> QED BY <1>1, <1>3, <1>4, <2>1 DEF LiveReview, OwnReview
<1> HIDE DEF W
<1>7. Site(t) /\ Follows(db, W, t) /\ ToldOnce(db, t)
  BY <1>2, <1>3, <1>4, <1>5, <1>6, FollowersAreTold
<1>8. SafeStep(db, W, t)
  BY <1>5, <1>7 DEF SafeStep, W
<1>9. sent' \in 0..MaxRequests
  BY <1>1, ReviewsAssumption DEF Sent, ReviewsInv
<1> QED BY <1>1, <1>8, <1>9, WriteIsSafe DEF W

\* Editing a review.
LEMMA EditReviewIsSafe ==
  ASSUME ReviewsInv, NEW r \in Review, NEW u \in User, EditReview(r, u)
  PROVE  ReviewsInv' /\ Settled
<1>1. WriteTouching(db, {ReviewDoc(r)}) /\ Sent /\ {ReviewDoc(r)} \subseteq ReviewDocs
  BY DocsAreDocs DEF EditReview
<1>2. Site(db)
  BY DEF ReviewsInv
<1>3. Keeps(db, {ReviewDoc(r)} \cup Changed(db, db), db)
  BY <1>2, FollowsItself DEF Keeps, QuietNotes, Site
<1> QED BY <1>1, <1>3, SingleWriteIsSafe

\* Editing a comment.
LEMMA EditCommentIsSafe ==
  ASSUME ReviewsInv, NEW c \in Comment, NEW u \in User, EditComment(c, u)
  PROVE  ReviewsInv' /\ Settled
<1> DEFINE t == [db EXCEPT ![CommentDoc(c)].body = TRUE]
<1>1. c \in Visible(db) /\ WriteTouching(t, {CommentDoc(c)}) /\ Sent /\ {CommentDoc(c)} \subseteq ReviewDocs
  BY DocsAreDocs DEF EditComment
<1>2. Site(db)
  BY DEF ReviewsInv
<1>3. Keeps(db, {CommentDoc(c)} \cup Changed(db, t), t)
  BY <1>1, <1>2, EditedKeeps
<1> HIDE DEF t
<1> QED BY <1>1, <1>3, SingleWriteIsSafe

\* Notifications and pins may be taken out of any site.
LEMMA TakingNotesKeeps ==
  ASSUME NEW s, Site(s), NEW D, \A d \in D : d[1] \notin {"review", "comment"}, NEW W
  PROVE  Keeps(s, W, Without(s, D))
<1>1. Enclosed(s, D)
  BY Kinds DEF Enclosed
<1> QED BY <1>1, WithoutKeeps

\* Saving a profile without a pinned review.
LEMMA UnpinIsSafe ==
  ASSUME ReviewsInv, NEW u \in User, Unpin(u)
  PROVE  ReviewsInv' /\ Settled
<1> DEFINE t == [db EXCEPT ![PinDoc(u)] = Nobody]
<1>1. WriteTouching(t, {}) /\ Sent
  BY PlainWrite DEF Unpin
<1>2. Site(db) /\ DOMAIN db = ReviewDocs
  BY DEF ReviewsInv, Site, TypedSite
<1>3. t = Without(db, {PinDoc(u)})
  <2>1. Blank(PinDoc(u)) = Nobody
    BY DEF Blank, PinDoc
  <2> QED BY <1>2, <2>1 DEF Without
<1> HIDE DEF t
<1>4. Keeps(db, {} \cup Changed(db, t), t)
  BY <1>2, <1>3, Kinds, TakingNotesKeeps
<1> QED BY <1>1, <1>4, SingleWriteIsSafe

\* Clearing one's notifications.
LEMMA ClearNotificationsIsSafe ==
  ASSUME ReviewsInv, NEW u \in User, ClearNotifications(u)
  PROVE  ReviewsInv' /\ Settled
<1> DEFINE t == Without(db, NotesTo(db, u))
<1>1. WriteTouching(t, {}) /\ Sent
  BY PlainWrite DEF ClearNotifications
<1>2. Site(db)
  BY DEF ReviewsInv
<1>3. \A d \in NotesTo(db, u) : d[1] \notin {"review", "comment"}
  BY Kinds DEF NotesTo
<1>4. Keeps(db, {} \cup Changed(db, t), t)
  BY <1>2, <1>3, TakingNotesKeeps
<1> HIDE DEF t
<1> QED BY <1>1, <1>4, SingleWriteIsSafe

\* A request begins a transaction on the site as it is.
LEMMA SendRequestIsSafe ==
  ASSUME ReviewsInv, NEW x \in Client, SendRequest(x)
  PROVE  ReviewsInv' /\ Settled
<1>1. PICK q \in Requests : Begin(x, q)
  BY DEF SendRequest
<1>2. /\ Transactions /\ Site(db) /\ TypedSite(db)
      /\ \A y \in OpenClients : tx[y].req \in Request /\ Site(tx[y].snap) /\ Follows(tx[y].snap, tx[y].missed, db)
  BY DEF ReviewsInv, Site
<1>3. /\ Transactions' /\ db' = db /\ OpenClients' = OpenClients \cup {x}
      /\ tx'[x] = Fresh(q) /\ \A y \in OpenClients : tx'[y] = tx[y]
  BY <1>1, <1>2, BeginKeepsTransactions
<1>4. sent' \in 0..MaxRequests
  BY ReviewsAssumption DEF SendRequest, Sent, ReviewsInv
<1>5. tx'[x].req \in Request /\ Site(tx'[x].snap) /\ Follows(tx'[x].snap, tx'[x].missed, db')
  BY <1>2, <1>3, FollowsItself, ReviewsAssumption DEF Fresh
<1>6. ReviewsInv'
  BY <1>2, <1>3, <1>4, <1>5 DEF ReviewsInv
<1> QED BY <1>3, <1>6, QuietStepsSettle

\* A retry works on the site as it is.
LEMMA RetryIsSafe ==
  ASSUME ReviewsInv, NEW x, Retry(x), UNCHANGED sent
  PROVE  ReviewsInv' /\ Settled
<1>1. /\ Transactions /\ Site(db) /\ TypedSite(db)
      /\ \A y \in OpenClients : tx[y].req \in Request /\ Site(tx[y].snap) /\ Follows(tx[y].snap, tx[y].missed, db)
  BY DEF ReviewsInv, Site
<1>2. /\ Transactions' /\ db' = db /\ x \in OpenClients /\ OpenClients' = OpenClients
      /\ tx'[x] = Fresh(tx[x].req) /\ \A y \in OpenClients \ {x} : tx'[y] = tx[y]
  BY <1>1, RetryKeepsTransactions
<1>3. tx'[x].req \in Request /\ Site(tx'[x].snap) /\ Follows(tx'[x].snap, tx'[x].missed, db')
  BY <1>1, <1>2, FollowsItself DEF Fresh
<1>4. ReviewsInv'
  BY <1>1, <1>2, <1>3 DEF ReviewsInv
<1> QED BY <1>2, <1>4, QuietStepsSettle

\* A transaction that fails leaves nothing.
LEMMA AbortIsSafe ==
  ASSUME ReviewsInv, NEW x, Abort(x), UNCHANGED sent
  PROVE  ReviewsInv' /\ Settled
<1>1. Transactions /\ tx' = [y \in OpenClients \ {x} |-> tx[y]] /\ db' = db
  BY DEF ReviewsInv, Abort
<1>2. Transactions' /\ OpenClients' = OpenClients \ {x} /\ \A y \in OpenClients \ {x} : tx'[y] = tx[y]
  BY <1>1, DropKeepsTransactions
<1>3. ReviewsInv'
  BY <1>1, <1>2 DEF ReviewsInv
<1> QED BY <1>1, <1>3, QuietStepsSettle

\* Every step of the reviews, in one of the transactions or outside them.
LEMMA NextIsSafe ==
  ASSUME ReviewsInv, [ReviewsNext]_revVars
  PROVE  ReviewsInv' /\ Settled
<1>1. CASE UNCHANGED revVars
  <2>1. db' = db /\ tx' = tx /\ sent' = sent /\ OpenClients' = OpenClients
    BY <1>1 DEF revVars, OpenClients
  <2>2. Transactions'
    BY <2>1 DEF ReviewsInv, Transactions, SnapshotShape, SnapshotsAreCurrent
  <2>3. ReviewsInv'
    BY <2>1, <2>2 DEF ReviewsInv
  <2> QED BY <2>1, <2>3, QuietStepsSettle
<1>2. ASSUME NEW x \in Client, Handle(x) PROVE ReviewsInv' /\ Settled
  BY <1>2, DeleteReviewIsSafe, LikeReviewIsSafe, UnlikeReviewIsSafe, PinReviewIsSafe, FanOutIsSafe,
     CreateCommentIsSafe, DeleteCommentIsSafe, ReportIsSafe, RemoveCommentIsSafe, DismissReportsIsSafe,
     DeleteAccountIsSafe DEF Handle
<1>3. ASSUME NEW x \in Client, (Retry(x) \/ Abort(x)) /\ UNCHANGED sent PROVE ReviewsInv' /\ Settled
  BY <1>3, RetryIsSafe, AbortIsSafe
<1>4. ASSUME NEW u \in User, Unpin(u) \/ ClearNotifications(u) PROVE ReviewsInv' /\ Settled
  BY <1>4, UnpinIsSafe, ClearNotificationsIsSafe
<1>5. ASSUME NEW r \in Review, NEW u \in User, CreateReview(r, u) \/ EditReview(r, u) PROVE ReviewsInv' /\ Settled
  BY <1>5, CreateReviewIsSafe, EditReviewIsSafe
<1>6. ASSUME NEW c \in Comment, NEW u \in User, EditComment(c, u) PROVE ReviewsInv' /\ Settled
  BY <1>6, EditCommentIsSafe
<1> QED BY <1>1, <1>2, <1>3, <1>4, <1>5, <1>6, SendRequestIsSafe DEF ReviewsNext

\* The sites to begin with are sound and nobody works on them.
LEMMA ReviewsBegin ==
  ASSUME ReviewsInit
  PROVE  ReviewsInv
<1>1. db \in FirstStates /\ OpenClients = {} /\ sent = 0
  BY DEF ReviewsInit, OpenClients
<1>2. Site(db)
  BY <1>1, FirstStatesAssumption, SoundSites DEF Site
<1>3. Transactions
  BY <1>1 DEF Transactions, SnapshotShape, SnapshotsAreCurrent
<1> QED BY <1>1, <1>2, <1>3, ReviewsAssumption DEF ReviewsInv

(***************************************************************************)
(* The theorems                                                            *)
(***************************************************************************)
\* In every behaviour each open transaction works on a sound site, and whatever
\* its documents newly refer to since then, it missed: the invariant that
\* carries the claims of reviewRevision, claimComment and AccountFence.
THEOREM ReviewsInvariance == ReviewsSpec => []ReviewsInv
<1>1. ReviewsInv /\ [ReviewsNext]_revVars => ReviewsInv'
  BY NextIsSafe
<1> QED BY <1>1, ReviewsBegin, PTL DEF ReviewsSpec

\* The documents and the snapshots of the reviews keep their types.
THEOREM ReviewsTypes == ReviewsSpec => []ReviewsTypeOK
<1>1. ReviewsInv => ReviewsTypeOK
  BY DEF ReviewsInv, ReviewsTypeOK, Site, Transactions
<1> QED BY <1>1, ReviewsInvariance, PTL

\* However likes, pins, comments, reports, removals and deletions of comments,
\* reviews and accounts interleave, no comment, like, pin, notification or open
\* report points to what is gone (NoOrphans, NotificationsPointSomewhere,
\* OpenReportsAreActionable).
THEOREM NothingEverDangles == ReviewsSpec => []NothingDangles
<1>1. ReviewsInv => NothingDangles
  BY SoundSites DEF ReviewsInv, Site, NothingDangles
<1> QED BY <1>1, ReviewsInvariance, PTL

\* A deleted account keeps no comment, report or mention, whatever was in flight
\* when its fence rose, and no text stays without its author.
THEOREM AccountsLeaveNothingEver == ReviewsSpec => []AccountsLeaveNothing
<1>1. ReviewsInv => AccountsLeaveNothing
  BY SoundSites DEF ReviewsInv, Site, AccountsLeaveNothing
<1> QED BY <1>1, ReviewsInvariance, PTL

\* No step brings back what a moderator removed, and none tells a follower a
\* second time of a review whose followers were told (fanOutFollowedReview's receipt).
THEOREM SettledForGood == ReviewsSpec => SettledOnce
<1>1. ReviewsInv /\ [ReviewsNext]_revVars => Settled
  BY NextIsSafe
<1>2. Settled => [ \A c \in Comment : db[CommentDoc(c)].status = "removed_by_moderator"
                     => db'[CommentDoc(c)].status \in {"removed_by_moderator", "gone"} ]_revVars
  BY DEF Settled
<1>3. Settled => [ \A r \in Review, u \in User :
                     LiveReview(db, r) /\ db[ReviewDoc(r)].fannedOut /\ db[FollowedNote(r, u)] = Nobody
                     => db'[FollowedNote(r, u)] = Nobody ]_revVars
  BY DEF Settled, ToldOnce
<1> QED BY <1>1, <1>2, <1>3, ReviewsInvariance, PTL DEF ReviewsSpec, SettledOnce, RemovalIsFinal, DeliveredOnce

\* The site without a review is one to begin with: the assumption has an instance.
LEMMA NewSiteIsSound == TypedSite(NewSite) /\ Sound(NewSite)
<1>1. /\ DOMAIN NewSite = ReviewDocs
      /\ \A d \in ReviewDocs : d[1] \in {"review", "comment"} => NewSite[d] = [status |-> "unborn"]
      /\ \A d \in ReviewDocs : d[1] = "audit" => NewSite[d] = {}
      /\ \A d \in ReviewDocs : d[1] \in {"like", "fence"} => NewSite[d] = FALSE
      /\ \A d \in ReviewDocs : d[1] \in {"pin", "likeNote", "followedNote", "report", "commentNote"} => NewSite[d] = Nobody
  BY DEF NewSite, Blank
<1> DEFINE n == NewSite
<1> HIDE DEF n
<1>2. /\ \A r \in Review : n[ReviewDoc(r)] = [status |-> "unborn"]
      /\ \A c \in Comment : n[CommentDoc(c)] = [status |-> "unborn"] /\ n[AuditDoc(c)] = {}
  BY <1>1, DocsAreDocs, Kinds DEF n
<1>3. /\ \A u \in User : n[FenceDoc(u)] = FALSE /\ n[PinDoc(u)] = Nobody
      /\ \A r \in Review, u \in User : /\ n[LikeDoc(r, u)] = FALSE
                                       /\ n[LikeNote(r, u)] = Nobody /\ n[FollowedNote(r, u)] = Nobody
      /\ \A c \in Comment, u \in User : n[ReportDoc(c, u)] = Nobody /\ n[CommentNote(c, u)] = Nobody
  BY <1>1, DocsAreDocs, Kinds DEF n
<1>4. [status |-> "unborn"] \in ReviewValue /\ [status |-> "unborn"] \in CommentValue
  BY DEF ReviewValue, CommentValue
<1>5. TypedSite(n)
  BY <1>1, <1>2, <1>3, <1>4 DEF TypedSite, n
<1>6. Present(n) = {}
  BY <1>2 DEF Present, Status
<1>7. Sound(n)
  BY <1>3, <1>6 DEF Sound, SoundComment, SoundReport, SoundNote, SoundLike, SoundPin
<1> QED BY <1>5, <1>7 DEF n

(***************************************************************************)
(* The migration of identities                                             *)
(***************************************************************************)
\* What a review may have in place of an identity, and the types of the parts of the state.
NoIds == {Missing, Null, Invalid}
Partly(S) == UNION { [D -> S] : D \in SUBSET Document }
Assignment == [nth : Nat, id : Nat, was : {Missing, Null}]
ReviewRecord == [content : Nat, id : NoIds \cup Nat]
PlanRecord ==
  [contents : Partly(Nat), blocked : BOOLEAN, assignments : Partly(Assignment), kept : Partly(NoIds \cup Nat)]
FileRecord == [there : BOOLEAN, done : SUBSET Nat, complete : BOOLEAN]
RunRecord ==
  [pc : {"check", "open", "create", "batch", "record", "index", "verify", "read", "complete"},
   plan : Nat, batch : Nat, changed : BOOLEAN, wrote : BOOLEAN, file : FileRecord]
Outcome ==
  [how : {"nothing", "failed", "committed", "unknown", "done"}, wrote : BOOLEAN, plan : Nat, lost : BOOLEAN]

\* The variables have their types: the documents are numbers, the plans and their progress correspond.
MigrationTypes ==
  /\ There \in SUBSET Document /\ reviews \in [There -> ReviewRecord]
  /\ unique \in BOOLEAN /\ minted \in Nat
  /\ plans \in Seq(PlanRecord) /\ progress \in Seq(FileRecord)
  /\ Len(plans) = Len(progress) /\ Len(plans) <= MaxPlans
  /\ run \in [Operator -> {NoRun} \cup RunRecord] /\ told \in Outcome
  /\ runs \in 0..MaxRuns /\ writes \in 0..MaxWrites /\ faults \in 0..MaxFaults

\* What a plan that is not blocked has seen: no two reviews are alike, and no identity is invalid.
Clean == Distinct /\ Invalid \notin IdsOf(reviews)

\* The reviews of a batch that are still there have the identities of the plan.
AllAssigned(p, b) == \A r \in InBatch(p, b) \cap There : reviews[r].id = plans[p].assignments[r].id

\* Every identity that a review has was given by a user's server or by a plan.
IdsAreGiven == \A r \in There : IsId(reviews[r].id) => reviews[r].id \in 1..minted

\* What a plan promises for as long as it may be applied. Its identities are its own: no review has one but the
\* one it is for. If it is not blocked, the reviews are clean, and those that have no identity yet are its own.
PlanHolds(p) ==
  /\ Assignees(p) \subseteq DOMAIN plans[p].contents
  /\ \A r \in Assignees(p) :
       /\ plans[p].assignments[r].nth \in 1..Cardinality(Assignees(p))
       /\ plans[p].assignments[r].id \in 1..minted
       /\ \A s \in There : reviews[s].id = plans[p].assignments[r].id => s = r
  /\ ~plans[p].blocked => Clean /\ \A r \in There : IsId(reviews[r].id) \/ r \in Assignees(p)

\* No two assignments, of one plan or of two, give the same identity.
PlansAreApart ==
  \A p, q \in DOMAIN plans : \A r \in Assignees(p), s \in Assignees(q) :
    plans[p].assignments[r].id = plans[q].assignments[s].id => p = q /\ r = s

\* What a progress file of a plan, or a copy of one, says is so: it lists batches that the collection has, and is
\* complete only when the migration is over.
FileHolds(f, p) == (\A b \in f.done : AllAssigned(p, b)) /\ (f.complete => Verified)
ProgressHolds == \A p \in DOMAIN progress : FileHolds(progress[p], p)

\* What a running application knows: its plan is not blocked, the batches behind it are in the collection, and once
\* it is through with them all the index is next. Its copy of the file is true, however old.
RecordHolds(r) ==
  /\ r.plan \in DOMAIN plans /\ ~plans[r.plan].blocked
  /\ r.wrote => r.changed
  /\ r.pc \in {"check", "open", "create"} => r.batch = 0
  /\ \A b \in 0..r.batch : b < r.batch => AllAssigned(r.plan, b)
  /\ r.pc = "record" => AllAssigned(r.plan, r.batch)
  /\ r.pc \in {"index", "verify", "read", "complete"} => Batches(r.plan) = r.batch
  /\ r.pc \in {"verify", "read", "complete"} => unique
  /\ FileHolds(r.file, r.plan)
RunHolds(o) == run[o] # NoRun => RecordHolds(run[o])

\* The inductive invariant.
MigrationInv ==
  /\ MigrationTypes /\ IdsAreGiven /\ PlansAreApart /\ ProgressHolds /\ OperatorIsTold
  /\ \A p \in DOMAIN plans : PlanHolds(p)
  /\ \A o \in Operator : RunHolds(o)
  /\ told.how = "done" => told.plan \in DOMAIN plans

(***************************************************************************)
(* Batches and ranks                                                       *)
(***************************************************************************)
\* What the quotient of two numbers is.
LEMMA QuotientBounds ==
  ASSUME NEW x \in Nat, NEW d \in Nat \ {0}
  PROVE  /\ x \div d \in Nat /\ (x \div d) * d <= x /\ x < (x \div d + 1) * d
<1>1. x \div d \in Nat
  OBVIOUS
<1>2. x = ((x \div d) * d) + (x % d) /\ x % d \in 0..(d - 1)
  OBVIOUS
<1> QED BY <1>1, <1>2

\* The batches, the last of which may be short, hold every number of a plan's assignments.
LEMMA BatchOfNth ==
  ASSUME NEW c \in Nat, NEW n \in 1..c, NEW d \in Nat \ {0}
  PROVE  LET b == (n - 1) \div d IN b \in Nat /\ n \in b * d + 1 .. (b + 1) * d /\ b < (c + d - 1) \div d
<1> DEFINE b == (n - 1) \div d
           e == (c + d - 1) \div d
<1>1. b \in Nat /\ b * d <= n - 1 /\ n - 1 < (b + 1) * d
  BY QuotientBounds
<1>2. e \in Nat /\ c + d - 1 < (e + 1) * d
  BY QuotientBounds
<1>3. n \in b * d + 1 .. (b + 1) * d
  BY <1>1
<1>4. b < e
  <2> SUFFICES ASSUME e <= b PROVE FALSE BY <1>1, <1>2
  <2> HIDE DEF b, e
  <2>1. (e + 1) * d = e * d + d BY <1>2
  <2>2. c <= e * d
    BY <2>1, <1>2
  <2>3. e * d <= b * d
    <3>1. PICK k \in Nat : b = e + k BY <1>1, <1>2
    <3>2. b * d = e * d + k * d BY <1>2, <3>1
    <3>3. k * d \in Nat /\ e * d \in Nat BY <1>2
    <3> QED BY <3>2, <3>3
  <2>4. b * d \in Nat /\ e * d \in Nat BY <1>1, <1>2
  <2>5. n \in Nat /\ n <= c OBVIOUS
  <2> HIDE DEF b, e
  <2> QED BY <2>2, <2>3, <2>4, <2>5, <1>1
<1> QED BY <1>1, <1>3, <1>4

\* The rank of a document among some is one of 1 to their number ...
LEMMA RankIsANumber ==
  ASSUME NEW U, U \subseteq Nat, IsFiniteSet(U), NEW r \in U
  PROVE  Cardinality({ s \in U : s <= r }) \in 1..Cardinality(U)
<1> DEFINE B == { s \in U : s <= r }
<1>1. IsFiniteSet(B) /\ Cardinality(B) <= Cardinality(U)
  BY FS_Subset
<1>2. Cardinality(B) \in Nat /\ Cardinality(U) \in Nat
  BY <1>1, FS_CardinalityType
<1>3. r \in B OBVIOUS
<1>4. Cardinality(B) # 0
  BY <1>1, <1>3, FS_EmptySet
<1> QED BY <1>1, <1>2, <1>4

\* ... and no two documents have the same rank.
LEMMA RankTellsApart ==
  ASSUME NEW U, U \subseteq Nat, IsFiniteSet(U), NEW r \in U, NEW q \in U,
         Cardinality({ s \in U : s <= r }) = Cardinality({ s \in U : s <= q })
  PROVE  r = q
<1> DEFINE B(x) == { s \in U : s <= x }
<1>1. ASSUME NEW x \in U, NEW y \in U, x < y, Cardinality(B(x)) = Cardinality(B(y))
      PROVE  FALSE
  <2>0. \A s \in U : s \in Nat OBVIOUS
  <2>1. B(x) \subseteq B(y) 
    <3> SUFFICES ASSUME NEW s \in U, s <= x PROVE s <= y OBVIOUS
    <3> QED BY <2>0, <1>1
  <2>2. IsFiniteSet(B(y)) BY FS_Subset
  <2>3. B(x) = B(y) BY <2>1, <2>2, <1>1, FS_Subset
  <2>4. y \in B(y) OBVIOUS
  <2>5. y \notin B(x) BY <1>1
  <2> QED BY <2>3, <2>4, <2>5
<1>2. r \in Nat /\ q \in Nat OBVIOUS
<1>3. Cardinality(B(r)) = Cardinality(B(q)) OBVIOUS
<1> QED BY <1>1, <1>2, <1>3

(***************************************************************************)
(* Types of the migration                                                  *)
(***************************************************************************)
\* A process that is not idle has all the fields of an application.
LEMMA RunIsARecord ==
  ASSUME MigrationTypes, NEW o \in Operator, run[o] # NoRun \/ run[o].pc # "idle"
  PROVE  run[o] \in RunRecord /\ run[o] # NoRun /\ run \in [Operator -> {NoRun} \cup RunRecord]
BY DEF MigrationTypes, NoRun

\* A plan has its fields, and assigns identities to a finite number of documents.
LEMMA PlanIsARecord ==
  ASSUME MigrationTypes, NEW p \in DOMAIN plans
  PROVE  /\ plans[p] \in PlanRecord /\ p \in Nat \ {0} /\ p \in 1..Len(plans) /\ p \in DOMAIN progress
         /\ plans[p].assignments \in [Assignees(p) -> Assignment]
         /\ Assignees(p) \subseteq Document /\ IsFiniteSet(Assignees(p)) /\ Cardinality(Assignees(p)) \in Nat
<1>1. plans[p] \in PlanRecord /\ p \in Nat \ {0} /\ p \in 1..Len(plans) /\ p \in DOMAIN progress
  BY DEF MigrationTypes
<1>2. plans[p].assignments \in Partly(Assignment)
  BY <1>1 DEF PlanRecord
<1>3. PICK D \in SUBSET Document : plans[p].assignments \in [D -> Assignment]
  BY <1>2 DEF Partly
<1>4. Assignees(p) = D
  BY <1>3 DEF Assignees
<1>5. IsFiniteSet(D)
  BY FS_Subset, ReviewIdAssumption
<1> QED BY <1>1, <1>3, <1>4, <1>5, FS_CardinalityType

\* A progress file belongs to a plan and has its fields.
LEMMA ProgressIsARecord ==
  ASSUME MigrationTypes, NEW p \in DOMAIN progress
  PROVE  progress[p] \in FileRecord /\ p \in DOMAIN plans
<1>1. progress \in Seq(FileRecord) /\ plans \in Seq(PlanRecord) /\ Len(plans) = Len(progress)
  BY DEF MigrationTypes
<1> QED BY <1>1

\* A file written over another is one, and leaves the files of the other plans.
LEMMA FileIsWritten ==
  ASSUME MigrationTypes, NEW p \in DOMAIN plans, NEW f \in FileRecord, progress' = [progress EXCEPT ![p] = f]
  PROVE  /\ progress' \in Seq(FileRecord) /\ Len(progress') = Len(progress) /\ DOMAIN progress' = DOMAIN progress
         /\ progress'[p] = f /\ \A q \in DOMAIN progress \ {p} : progress'[q] = progress[q]
<1>1. progress \in Seq(FileRecord) /\ p \in DOMAIN progress
  BY PlanIsARecord DEF MigrationTypes
<1> QED BY <1>1

\* An operator's process may end or go on.
LEMMA RunAdvances ==
  ASSUME MigrationTypes, NEW o \in Operator, NEW r \in {NoRun} \cup RunRecord, run' = [run EXCEPT ![o] = r]
  PROVE  run' \in [Operator -> {NoRun} \cup RunRecord]
BY DEF MigrationTypes

\* The end of an application, whatever it tells the operator, is well typed.
LEMMA EndIsTyped ==
  ASSUME MigrationTypes, NEW o \in Operator, run[o] \in RunRecord,
         (\E how \in {"committed", "unknown", "done"} : Ends(o, how)) \/ Fails(o) \/ FailsUnseen(o)
  PROVE  run' \in [Operator -> {NoRun} \cup RunRecord] /\ told' \in Outcome
<1>1. run' = [run EXCEPT ![o] = NoRun]
  BY DEF Ends, Fails, FailsUnseen
<1>2. run' \in [Operator -> {NoRun} \cup RunRecord]
  BY <1>1, RunAdvances
<1>3. run[o].wrote \in BOOLEAN /\ run[o].plan \in Nat /\ Failure(o) \in {"committed", "failed"}
  BY DEF RunRecord, Failure
<1>4. told' \in Outcome
  <2>1. ASSUME NEW how \in {"committed", "failed", "unknown", "done"}, NEW lost \in BOOLEAN, NEW wrote \in BOOLEAN
        PROVE  [how |-> how, wrote |-> wrote, plan |-> run[o].plan, lost |-> lost] \in Outcome
    BY <1>3 DEF Outcome
  <2>2. \/ \E how \in {"committed", "failed", "unknown", "done"} :
             told' = [how |-> how, wrote |-> run[o].wrote, plan |-> run[o].plan, lost |-> FALSE]
        \/ told' = [how |-> Failure(o), wrote |-> TRUE, plan |-> run[o].plan, lost |-> TRUE]
    BY <1>3 DEF Ends, Fails, FailsUnseen
  <2> QED BY <2>1, <2>2, <1>3
<1> QED BY <1>2, <1>4

\* The documents to be given an identity are finitely many, and ranked.
LEMMA DocumentsAreFinite ==
  ASSUME MigrationTypes
  PROVE  /\ There \subseteq Document /\ Document \subseteq Nat /\ Unassigned \subseteq Nat
         /\ IsFiniteSet(Unassigned) /\ Cardinality(Unassigned) \in Nat
         /\ \A r \in Unassigned : Rank(r) \in 1..Cardinality(Unassigned)
<1>1. There \subseteq Document /\ Document \subseteq Nat /\ Unassigned \subseteq Nat /\ IsFiniteSet(Unassigned)
  BY FS_Subset, ReviewIdAssumption DEF MigrationTypes, Unassigned
<1> QED BY <1>1, FS_CardinalityType, RankIsANumber DEF Rank

\* A new plan is a plan.
LEMMA DryRunIsTyped ==
  ASSUME MigrationTypes, NEW o \in Operator, DryRun(o)
  PROVE  MigrationTypes'
<1> DEFINE new == [contents |-> Contents, blocked |-> Blocked, assignments |-> Assignments,
                   kept |-> [r \in There \ Unassigned |-> reviews[r].id]]
<1>1. \A r \in There : reviews[r] \in ReviewRecord
  BY DEF MigrationTypes
<1>2. There \in SUBSET Document /\ Unassigned \in SUBSET Document
  BY DEF MigrationTypes, Unassigned
<1>3. Contents \in Partly(Nat)
  <2>1. Contents \in [There -> Nat]
    BY <1>1 DEF Contents, ReviewRecord
  <2> QED BY <2>1, <1>2 DEF Partly
<1>4. Assignments \in Partly(Assignment)
  <2>1. ASSUME NEW r \in Unassigned
        PROVE  [nth |-> Rank(r), id |-> minted + Rank(r), was |-> reviews[r].id] \in Assignment
    <3>1. Rank(r) \in Nat /\ minted \in Nat
      BY DocumentsAreFinite DEF MigrationTypes
    <3>2. reviews[r].id \in {Missing, Null}
      BY DEF Unassigned
    <3> QED BY <3>1, <3>2 DEF Assignment
  <2>2. Assignments \in [Unassigned -> Assignment]
    BY <2>1 DEF Assignments
  <2> QED BY <2>2, <1>2 DEF Partly
<1>5. new.kept \in Partly(NoIds \cup Nat)
  <2>1. [r \in There \ Unassigned |-> reviews[r].id] \in [There \ Unassigned -> NoIds \cup Nat]
    BY <1>1 DEF ReviewRecord
  <2>2. There \ Unassigned \in SUBSET Document
    BY <1>2
  <2> QED BY <2>1, <2>2 DEF Partly
<1>6. Blocked \in BOOLEAN
  BY DEF Blocked
<1>7. new \in PlanRecord
  BY <1>3, <1>4, <1>5, <1>6 DEF PlanRecord
<1> HIDE DEF new
<1>8. plans' = Append(plans, new) /\ Len(plans) < MaxPlans /\ progress' = Append(progress, NoFile)
  BY DEF DryRun, new
<1>9. plans' \in Seq(PlanRecord) /\ Len(plans') = Len(plans) + 1 /\ Len(plans') <= MaxPlans
  <2>1. plans \in Seq(PlanRecord) /\ MaxPlans \in Nat
    BY ReviewIdAssumption DEF MigrationTypes
  <2> QED BY <2>1, <1>7, <1>8
<1>10. progress' \in Seq(FileRecord) /\ Len(progress') = Len(progress) + 1
  <2>1. progress \in Seq(FileRecord)
    BY DEF MigrationTypes
  <2>2. NoFile \in FileRecord
    BY DEF NoFile, FileRecord
  <2> QED BY <2>1, <2>2, <1>8
<1>11. minted' \in Nat
  BY DocumentsAreFinite DEF DryRun, MigrationTypes
<1>12. runs' \in 0..MaxRuns
  BY ReviewIdAssumption DEF DryRun, Started, MigrationTypes
<1>13. UNCHANGED <<reviews, unique, run, told, writes, faults>>
  BY DEF DryRun
<1> QED BY <1>9, <1>10, <1>11, <1>12, <1>13 DEF MigrationTypes, There

\* The start of an application keeps the types.
LEMMA ApplyIsTyped ==
  ASSUME MigrationTypes, NEW o \in Operator, NEW p \in DOMAIN plans, Apply(o, p)
  PROVE  MigrationTypes'
<1>1. [pc |-> "check", plan |-> p, batch |-> 0, changed |-> FALSE, wrote |-> FALSE, file |-> NoFile] \in RunRecord
  BY PlanIsARecord DEF RunRecord, FileRecord, NoFile
<1>2. run' \in [Operator -> {NoRun} \cup RunRecord]
  BY <1>1, RunAdvances DEF Apply
<1>3. runs' \in 0..MaxRuns
  BY ReviewIdAssumption DEF Apply, Started, MigrationTypes
<1> QED BY <1>2, <1>3 DEF Apply, MigrationTypes, There

\* Faults are counted within their bound.
LEMMA FaultIsTyped ==
  ASSUME MigrationTypes, Fault \/ UNCHANGED faults
  PROVE  faults' \in 0..MaxFaults
BY ReviewIdAssumption DEF Fault, MigrationTypes

\* An application keeps the types if what it changes is well typed: it leaves the plans and the counters alone.
LEMMA RestIsTyped ==
  ASSUME MigrationTypes, UNCHANGED <<plans, runs, writes, minted>>, There' \in SUBSET Document, reviews' \in [There' -> ReviewRecord],
         unique' \in BOOLEAN, progress' \in Seq(FileRecord), Len(progress') = Len(progress),
         run' \in [Operator -> {NoRun} \cup RunRecord], told' \in Outcome, faults' \in 0..MaxFaults
  PROVE  MigrationTypes'
BY DEF MigrationTypes

\* Reviews that are left alone stay well typed ...
LEMMA ReviewsStayTyped ==
  ASSUME MigrationTypes, UNCHANGED reviews
  PROVE  There' \in SUBSET Document /\ reviews' \in [There' -> ReviewRecord]
BY DEF MigrationTypes, There

\* ... and so does the progress.
LEMMA ProgressStaysTyped ==
  ASSUME MigrationTypes, UNCHANGED progress
  PROVE  progress' \in Seq(FileRecord) /\ Len(progress') = Len(progress)
BY DEF MigrationTypes

\* The death of an application keeps the types.
LEMMA DieIsTyped ==
  ASSUME MigrationTypes, NEW o \in Operator, Die(o)
  PROVE  MigrationTypes'
<1>1. run' \in [Operator -> {NoRun} \cup RunRecord] /\ faults' \in 0..MaxFaults
  BY RunAdvances, FaultIsTyped DEF Die
<1> QED BY <1>1 DEF Die, MigrationTypes, There

\* A batch changes identities and nothing else.
LEMMA AssignedIsTyped ==
  ASSUME MigrationTypes, NEW p \in DOMAIN plans, NEW b, reviews' = Assigned(plans[p], InBatch(p, b))
  PROVE  There' = There /\ There' \in SUBSET Document /\ reviews' \in [There' -> ReviewRecord]
<1>1. ASSUME NEW r \in There
      PROVE  /\ reviews[r] \in ReviewRecord
             /\ r \in InBatch(p, b) => [reviews[r] EXCEPT !.id = plans[p].assignments[r].id] \in ReviewRecord
  <2>1. reviews[r] \in ReviewRecord
    BY DEF MigrationTypes
  <2>2. r \in InBatch(p, b) => plans[p].assignments[r].id \in Nat
    BY PlanIsARecord DEF InBatch, Assignment
  <2> QED BY <2>1, <2>2 DEF ReviewRecord
<1>2. There' = There
  BY DEF Assigned, There
<1>3. reviews' \in [There -> ReviewRecord]
  BY <1>1 DEF Assigned
<1> QED BY <1>2, <1>3 DEF MigrationTypes

\* The step that runs a batch keeps the types.
LEMMA RunBatchIsTyped ==
  ASSUME MigrationTypes, NEW o \in Operator, RunBatch(o), run[o].plan \in DOMAIN plans
  PROVE  MigrationTypes'
<1>1. run[o] \in RunRecord
  BY RunIsARecord DEF RunBatch
<1>2. faults' \in 0..MaxFaults
  BY FaultIsTyped DEF RunBatch
<1>3. There' \in SUBSET Document /\ reviews' \in [There' -> ReviewRecord]
  <2>1. CASE UNCHANGED reviews
    BY <2>1, ReviewsStayTyped
  <2>2. CASE ~UNCHANGED reviews
    BY <2>2, AssignedIsTyped DEF RunBatch, CommitBatch, Plan, Batch
  <2> QED BY <2>1, <2>2
<1>4. run' \in [Operator -> {NoRun} \cup RunRecord] /\ told' \in Outcome
  <2>1. CASE (\E how \in {"committed", "unknown", "done"} : Ends(o, how)) \/ Fails(o) \/ FailsUnseen(o)
    BY <2>1, <1>1, EndIsTyped
  <2>2. CASE ~((\E how \in {"committed", "unknown", "done"} : Ends(o, how)) \/ Fails(o) \/ FailsUnseen(o))
    <3>1. /\ run' = [run EXCEPT ![o].pc = "record", ![o].changed = @ \/ Updates(o), ![o].wrote = @ \/ reviews' # reviews]
          /\ UNCHANGED told
      BY <2>2 DEF RunBatch
    <3> DEFINE changed == run[o].changed \/ Updates(o)
               wrote   == run[o].wrote \/ reviews' # reviews
    <3>2. changed \in BOOLEAN /\ wrote \in BOOLEAN
      OBVIOUS
    <3>3. run' = [run EXCEPT ![o] = [run[o] EXCEPT !.pc = "record", !.changed = changed, !.wrote = wrote]]
      BY <3>1, <1>1 DEF RunRecord, MigrationTypes
    <3> HIDE DEF changed, wrote
    <3>4. [run[o] EXCEPT !.pc = "record", !.changed = changed, !.wrote = wrote] \in RunRecord
      BY <1>1, <3>2 DEF RunRecord
    <3> QED BY <3>1, <3>3, <3>4, RunAdvances DEF MigrationTypes
  <2> QED BY <2>1, <2>2
<1>5. UNCHANGED <<unique, minted, plans, progress, runs, writes>>
  BY DEF RunBatch
<1> QED BY <1>2, <1>3, <1>4, <1>5, RestIsTyped, ProgressStaysTyped DEF MigrationTypes

\* Users' writes keep the types.
LEMMA UsersAreTyped ==
  ASSUME MigrationTypes, NEW r \in Document, Insert(r) \/ Touch(r) \/ Delete(r)
  PROVE  MigrationTypes'
<1>1. \A s \in There : reviews[s] \in ReviewRecord
  BY DEF MigrationTypes
<1>2. minted \in Nat /\ There \in SUBSET Document
  BY DEF MigrationTypes
<1>3. There' \in SUBSET Document /\ reviews' \in [There' -> ReviewRecord] /\ minted' \in Nat
  <2>1. CASE Insert(r)
    <3>1. [content |-> 0, id |-> minted + 1] \in ReviewRecord
      BY <1>2 DEF ReviewRecord
    <3> QED BY <2>1, <3>1, <1>1, <1>2 DEF Insert, There
  <2>2. CASE Touch(r)
    <3>1. reviews' = [reviews EXCEPT ![r] = [reviews[r] EXCEPT !.content = @ + 1]] /\ r \in There /\ minted' = minted
      BY <2>2 DEF Touch
    <3>2. [reviews[r] EXCEPT !.content = @ + 1] \in ReviewRecord
      BY <3>1, <1>1 DEF ReviewRecord
    <3>3. reviews \in [There -> ReviewRecord]
      BY DEF MigrationTypes
    <3>4. reviews' \in [There -> ReviewRecord]
      BY <3>1, <3>2, <3>3
    <3> QED BY <3>1, <3>4, <1>2 DEF There
  <2>3. CASE Delete(r)
    BY <2>3, <1>1, <1>2 DEF Delete, There
  <2> QED BY <2>1, <2>2, <2>3
<1>4. writes' \in 0..MaxWrites /\ UNCHANGED <<unique, plans, progress, run, told, runs, faults>>
  BY ReviewIdAssumption DEF Insert, Touch, Delete, Writes, MigrationTypes
<1> QED BY <1>3, <1>4 DEF MigrationTypes

(***************************************************************************)
(* What happens to a review                                                *)
(***************************************************************************)
\* How a review may change: it keeps its identity or its want of one, ...
SameId(r)  == r \in There /\ reviews'[r].id = reviews[r].id

\* ... it is given the identity that a plan has for it, ...
GetsId(r)  == /\ r \in There /\ reviews[r].id \in {Missing, Null}
            /\ \E p \in DOMAIN plans : r \in Assignees(p) /\ reviews'[r].id = plans[p].assignments[r].id

\* ... or it is new, unknown to all plans, and comes with an identity of its own.
ComesWithId(r) == /\ r \notin There /\ \A p \in DOMAIN plans : r \notin DOMAIN plans[p].contents
            /\ reviews'[r].id = minted + 1 /\ minted' = minted + 1
            /\ There' = There \cup {r}

\* A step after which every review has changed in one of these ways.
OrderlyChange ==
  /\ UNCHANGED plans /\ minted' \in Nat /\ minted' >= minted
  /\ \A r \in There' : SameId(r) \/ GetsId(r) \/ ComesWithId(r)

\* The part of the invariant that is about the reviews and the plans.
ReviewParts == MigrationTypes /\ IdsAreGiven /\ PlansAreApart /\ \A p \in DOMAIN plans : PlanHolds(p)

\* The numbers stand for identities.
LEMMA NumbersAreIds ==
  ASSUME NEW n \in Nat
  PROVE  IsId(n)
BY ReviewIdAssumption DEF IsId

\* What a plan assigns is an identity, and it assigns it to a review without one.
LEMMA PlannedIdIsGiven ==
  ASSUME ReviewParts, NEW p \in DOMAIN plans, NEW r \in Assignees(p)
  PROVE  /\ plans[p].assignments[r].id \in 1..minted /\ minted \in Nat /\ IsId(plans[p].assignments[r].id)
         /\ plans[p].assignments[r].was \in {Missing, Null} /\ ~IsId(plans[p].assignments[r].was)
<1>1. plans[p].assignments[r].id \in 1..minted /\ minted \in Nat
  BY DEF ReviewParts, PlanHolds, MigrationTypes
<1>2. plans[p].assignments[r].was \in {Missing, Null}
  <2>1. plans[p].assignments[r] \in Assignment
    BY PlanIsARecord DEF ReviewParts
  <2> QED BY <2>1 DEF Assignment
<1> QED BY <1>1, <1>2, NumbersAreIds DEF IsId

\* What PlansAreApart says of two assignments.
LEMMA PlannedIdsDiffer ==
  ASSUME ReviewParts, NEW p \in DOMAIN plans, NEW q \in DOMAIN plans, NEW r \in Assignees(p), NEW s \in Assignees(q),
         plans[p].assignments[r].id = plans[q].assignments[s].id
  PROVE  p = q /\ r = s
<1>1. \A x \in Assignees(p), y \in Assignees(q) : plans[p].assignments[x].id = plans[q].assignments[y].id => p = q /\ x = y
  BY Zenon DEF ReviewParts, PlansAreApart
<1> QED BY <1>1, Zenon

\* After an orderly change, who has an identity has one that was given.
LEMMA WhoHasAGivenId ==
  ASSUME ReviewParts, OrderlyChange, NEW r \in There', IsId(reviews'[r].id)
  PROVE  /\ SameId(r) => IsId(reviews[r].id) /\ reviews[r].id \in 1..minted
         /\ GetsId(r) => reviews'[r].id \in 1..minted
         /\ reviews'[r].id \in 1..minted'
<1>1. minted \in Nat /\ minted' \in Nat /\ minted' >= minted
  BY DEF ReviewParts, MigrationTypes, OrderlyChange
<1>2. SameId(r) => IsId(reviews[r].id) /\ reviews[r].id \in 1..minted
  BY DEF SameId, ReviewParts, IdsAreGiven
<1>3. GetsId(r) => reviews'[r].id \in 1..minted
  BY PlannedIdIsGiven DEF GetsId
<1>4. ComesWithId(r) => reviews'[r].id \in 1..minted'
  BY <1>1 DEF ComesWithId
<1> QED BY <1>1, <1>2, <1>3, <1>4 DEF OrderlyChange, SameId

\* An orderly change gives no two reviews the same identity: those that plans give are held by no other review,
\* and that of a new review is new.
LEMMA HoldersStayApart ==
  ASSUME ReviewParts, OrderlyChange, Distinct
  PROVE  Distinct'
<1> SUFFICES ASSUME NEW r \in There', NEW s \in There', r # s, IsId(reviews'[r].id), reviews'[r].id = reviews'[s].id
             PROVE  FALSE
  BY DEF Distinct, There, IsId
<1>0. minted \in Nat
  BY DEF ReviewParts, MigrationTypes
<1>1. (SameId(r) \/ GetsId(r) \/ ComesWithId(r)) /\ (SameId(s) \/ GetsId(s) \/ ComesWithId(s))
  BY DEF OrderlyChange
<1>2. CASE SameId(r) /\ SameId(s)
  BY <1>2 DEF SameId, Distinct
<1>3. ASSUME NEW x, NEW y, {x, y} = {r, s}, SameId(x), GetsId(y)
      PROVE  FALSE
  <2>1. reviews[x].id = reviews'[y].id /\ x # y /\ x \in There
    BY <1>3 DEF SameId
  <2>2. PICK p \in DOMAIN plans : y \in Assignees(p) /\ reviews'[y].id = plans[p].assignments[y].id
    BY <1>3 DEF GetsId
  <2> QED BY <2>1, <2>2 DEF ReviewParts, PlanHolds
<1>4. CASE GetsId(r) /\ GetsId(s)
  <2>1. PICK p \in DOMAIN plans : r \in Assignees(p) /\ reviews'[r].id = plans[p].assignments[r].id
    BY <1>4 DEF GetsId
  <2>2. PICK q \in DOMAIN plans : s \in Assignees(q) /\ reviews'[s].id = plans[q].assignments[s].id
    BY <1>4 DEF GetsId
  <2>3. plans[p].assignments[r].id = plans[q].assignments[s].id
    BY <2>1, <2>2
  <2> QED BY <2>1, <2>2, <2>3, PlannedIdsDiffer
<1>5. ASSUME NEW x, NEW y, {x, y} = {r, s}, ComesWithId(x), SameId(y) \/ GetsId(y)
      PROVE  FALSE
  <2>1. y \in There' /\ IsId(reviews'[y].id) /\ reviews'[y].id = minted + 1
    BY <1>5 DEF ComesWithId
  <2>2. reviews'[y].id \in 1..minted
    BY <2>1, <1>5, WhoHasAGivenId DEF SameId
  <2> QED BY <2>1, <2>2, <1>0
<1>6. CASE ComesWithId(r) /\ ComesWithId(s)
  BY <1>6 DEF ComesWithId
<1> QED BY <1>1, <1>2, <1>3, <1>4, <1>5, <1>6

\* In an orderly change no identity is lost or becomes invalid.
LEMMA IdentityComes ==
  ASSUME ReviewParts, OrderlyChange, NEW r \in There'
  PROVE  /\ r \in There /\ IsId(reviews[r].id) => reviews'[r].id = reviews[r].id
         /\ r \in There /\ reviews[r].id # Invalid => reviews'[r].id # Invalid
         /\ SameId(r) \/ IsId(reviews'[r].id)
<1>0. minted + 1 \in Nat
  BY DEF ReviewParts, MigrationTypes
<1>1. CASE SameId(r)
  BY <1>1 DEF SameId
<1>2. CASE GetsId(r)
  BY <1>2, PlannedIdIsGiven DEF GetsId, IsId
<1>3. CASE ComesWithId(r)
  BY <1>0, <1>3, NumbersAreIds DEF ComesWithId
<1> QED BY <1>1, <1>2, <1>3 DEF OrderlyChange

\* An orderly change keeps the reviews clean.
LEMMA ReviewsStayClean ==
  ASSUME ReviewParts, OrderlyChange, Clean
  PROVE  Clean'
<1>1. Distinct'
  BY HoldersStayApart DEF Clean
<1>2. ASSUME NEW r \in There'
      PROVE  reviews'[r].id # Invalid
  <2>1. CASE SameId(r)
    BY <2>1 DEF SameId, Clean, IdsOf, There
  <2>2. CASE ~SameId(r)
    BY <2>2, IdentityComes DEF IsId
  <2> QED BY <2>1, <2>2
<1> QED BY <1>1, <1>2 DEF Clean, IdsOf, There

\* An orderly change keeps what a plan promises.
LEMMA PlanKeepsHolding ==
  ASSUME ReviewParts, OrderlyChange, NEW p \in DOMAIN plans
  PROVE  PlanHolds(p)'
<1>0. plans' = plans /\ Assignees(p)' = Assignees(p) /\ PlanHolds(p)
  BY DEF OrderlyChange, Assignees, ReviewParts
<1>1. minted \in Nat /\ minted' \in Nat /\ minted' >= minted
  BY DEF ReviewParts, MigrationTypes, OrderlyChange
<1>2. (Assignees(p) \subseteq DOMAIN plans[p].contents)'
  BY <1>0 DEF PlanHolds
<1>3. ASSUME NEW r \in Assignees(p)
      PROVE  /\ plans[p].assignments[r].nth \in 1..Cardinality(Assignees(p))
             /\ plans[p].assignments[r].id \in 1..minted'
             /\ \A s \in There' : reviews'[s].id = plans[p].assignments[r].id => s = r
  <2>1. plans[p].assignments[r].nth \in 1..Cardinality(Assignees(p)) /\ plans[p].assignments[r].id \in 1..minted
    BY <1>0 DEF PlanHolds
  <2>2. ASSUME NEW s \in There', reviews'[s].id = plans[p].assignments[r].id
        PROVE  s = r
    <3>1. CASE SameId(s)
      BY <3>1, <2>2, <1>0 DEF SameId, PlanHolds
    <3>2. CASE GetsId(s)
      <4>1. PICK q \in DOMAIN plans : s \in Assignees(q) /\ reviews'[s].id = plans[q].assignments[s].id
        BY <3>2 DEF GetsId
      <4>2. plans[p].assignments[r].id = plans[q].assignments[s].id
          BY <4>1, <2>2
        <4> QED BY <4>1, <4>2, PlannedIdsDiffer
    <3>3. CASE ComesWithId(s)
      BY <3>3, <2>1, <2>2, <1>1 DEF ComesWithId
    <3> QED BY <3>1, <3>2, <3>3 DEF OrderlyChange
  <2> QED BY <2>1, <2>2, <1>1
<1>4. ASSUME ~plans[p].blocked
      PROVE  Clean' /\ \A r \in There' : IsId(reviews'[r].id) \/ r \in Assignees(p)
  <2>1. Clean /\ \A r \in There : IsId(reviews[r].id) \/ r \in Assignees(p)
    BY <1>0, <1>4 DEF PlanHolds
  <2>2. \A r \in There' : IsId(reviews'[r].id) \/ r \in Assignees(p)
    BY <2>1, IdentityComes DEF SameId
  <2> QED BY <2>1, <2>2, ReviewsStayClean
<1>5. \A x : IsId(x)' <=> IsId(x)
  BY DEF IsId
<1>6. \A r \in Assignees(p)' :
        /\ plans'[p].assignments[r].nth \in 1..Cardinality(Assignees(p)')
        /\ plans'[p].assignments[r].id \in 1..minted'
        /\ \A s \in There' : reviews'[s].id = plans'[p].assignments[r].id => s = r
  BY <1>0, <1>3
<1>7. ~plans'[p].blocked => Clean' /\ \A r \in There' : IsId(reviews'[r].id) \/ r \in Assignees(p)'
  BY <1>0, <1>4
<1> QED BY <1>2, <1>6, <1>7 DEF PlanHolds, IsId

\* So it keeps all of that part of the invariant.
LEMMA ReviewPartsStay ==
  ASSUME ReviewParts, MigrationTypes', OrderlyChange
  PROVE  ReviewParts'
<1>1. IdsAreGiven'
  BY WhoHasAGivenId DEF IdsAreGiven, IsId, There
<1>2. PlansAreApart'
  BY DEF ReviewParts, PlansAreApart, OrderlyChange, Assignees
<1>3. \A p \in DOMAIN plans' : PlanHolds(p)'
  BY PlanKeepsHolding DEF OrderlyChange
<1> QED BY <1>1, <1>2, <1>3 DEF ReviewParts

\* Of the plans there are, what is assigned stays assigned; the index stays; and what was verified would be again.
StillHolds ==
  /\ \A p \in DOMAIN plans :
       /\ p \in DOMAIN plans' /\ plans'[p] = plans[p] /\ (PlanDone(p) => PlanDone(p)')
       /\ \A b \in Nat : AllAssigned(p, b) => AllAssigned(p, b)'
  /\ (unique => unique') /\ (Verified => Verified')

\* An orderly change, while the index stays, is of that kind: an identity is not lost, and no review of a plan comes
\* back once it was deleted.
LEMMA OrderlyChangeKeeps ==
  ASSUME ReviewParts, OrderlyChange, unique => unique'
  PROVE  StillHolds
<1>1. plans' = plans
  BY DEF OrderlyChange
<1>2. ASSUME NEW p \in DOMAIN plans, NEW r \in Assignees(p), r \in There', r \in There => reviews[r].id = plans[p].assignments[r].id
      PROVE  reviews'[r].id = plans[p].assignments[r].id
  <2>1. r \in DOMAIN plans[p].contents
    BY DEF ReviewParts, PlanHolds
  <2>2. r \in There
    BY <1>2, <2>1 DEF OrderlyChange, SameId, GetsId, ComesWithId
  <2> QED BY <1>2, <2>2, PlannedIdIsGiven, IdentityComes
<1>3. ASSUME NEW p \in DOMAIN plans, NEW b \in Nat, AllAssigned(p, b)
      PROVE  AllAssigned(p, b)'
  <2>1. InBatch(p, b)' = InBatch(p, b) /\ InBatch(p, b) \subseteq Assignees(p)
    BY <1>1 DEF InBatch, Assignees
  <2>2. \A r \in InBatch(p, b) : r \in There' => reviews'[r].id = plans[p].assignments[r].id
    BY <1>2, <1>3, <2>1 DEF AllAssigned
  <2> QED BY <1>1, <2>1, <2>2 DEF AllAssigned, There
<1>4. ASSUME NEW p \in DOMAIN plans, PlanDone(p)
      PROVE  PlanDone(p)'
  <2>1. Assignees(p)' = Assignees(p)
    BY <1>1 DEF Assignees
  <2>2. \A r \in Assignees(p) : r \in There' => reviews'[r].id = plans[p].assignments[r].id
    BY <1>2, <1>4 DEF PlanDone
  <2> QED BY <1>1, <2>1, <2>2 DEF PlanDone, There
<1>5. ASSUME Verified
      PROVE  Verified'
  <2>1. Distinct'
    BY <1>5, HoldersStayApart DEF Verified
  <2>2. \A r \in There' : IsId(reviews'[r].id)
    BY <1>5, IdentityComes DEF Verified, SameId
  <2> QED BY <2>1, <2>2, <1>5 DEF Verified, There, IsId
<1> QED BY <1>1, <1>3, <1>4, <1>5 DEF StillHolds

\* To change nothing is an orderly change.
LEMMA NothingHappensOrderly ==
  ASSUME ReviewParts, UNCHANGED <<reviews, plans, minted>>
  PROVE  OrderlyChange
BY DEF OrderlyChange, SameId, There, ReviewParts, MigrationTypes

\* Users' writes are orderly changes.
LEMMA UsersAreOrderly ==
  ASSUME ReviewParts, NEW r \in Document, Insert(r) \/ Touch(r) \/ Delete(r)
  PROVE  OrderlyChange
<1>1. minted \in Nat /\ minted' \in Nat /\ minted' >= minted /\ plans' = plans /\ reviews \in [There -> ReviewRecord]
  BY DEF Insert, Touch, Delete, Writes, ReviewParts, MigrationTypes
<1>2. CASE Insert(r)
  <2>1. There' = There \cup {r} /\ reviews'[r].id = minted + 1 /\ \A s \in There : s # r /\ reviews'[s] = reviews[s]
    BY <1>2 DEF Insert, There
  <2>2. ComesWithId(r) /\ \A s \in There : SameId(s)
    BY <1>2, <2>1 DEF ComesWithId, SameId, Insert
  <2> QED BY <1>1, <2>1, <2>2 DEF OrderlyChange
<1>3. CASE Touch(r)
  <2>1. There' = There /\ \A s \in There : reviews'[s].id = reviews[s].id
    <3>1. reviews' = [reviews EXCEPT ![r] = [reviews[r] EXCEPT !.content = @ + 1]]
      BY <1>3 DEF Touch
    <3>2. [reviews[r] EXCEPT !.content = @ + 1].id = reviews[r].id
      BY <1>1, <1>3 DEF ReviewRecord, Touch
    <3> QED BY <3>1, <3>2, <1>1 DEF There
  <2> QED BY <1>1, <2>1 DEF OrderlyChange, SameId
<1>4. CASE Delete(r)
  BY <1>1, <1>4 DEF Delete, OrderlyChange, SameId, There
<1> QED BY <1>2, <1>3, <1>4

\* So is the commit of a batch: only who has no identity is given one.
LEMMA CommitIsOrderly ==
  ASSUME ReviewParts, NEW p \in DOMAIN plans, NEW b, reviews' = Assigned(plans[p], InBatch(p, b)), UNCHANGED <<plans, minted>>
  PROVE  OrderlyChange
<1>1. There' = There
  BY AssignedIsTyped DEF ReviewParts
<1>2. ASSUME NEW r \in There, ~SameId(r)
      PROVE  GetsId(r)
  <2>1. /\ r \in InBatch(p, b) /\ AssignmentFilter(r, plans[p].assignments[r])
        /\ reviews'[r] = [reviews[r] EXCEPT !.id = plans[p].assignments[r].id]
    BY <1>2 DEF SameId, Assigned
  <2>2. r \in Assignees(p)
    BY <2>1 DEF InBatch
  <2>3. reviews[r].id \in {Missing, Null}
    BY <2>1, <2>2, PlannedIdIsGiven DEF AssignmentFilter
  <2>4. reviews[r] \in ReviewRecord
    BY DEF ReviewParts, MigrationTypes
  <2>5. reviews'[r].id = plans[p].assignments[r].id
    BY <2>1, <2>4 DEF ReviewRecord
  <2> QED BY <2>2, <2>3, <2>5 DEF GetsId
<1> QED BY <1>1, <1>2 DEF OrderlyChange, ReviewParts, MigrationTypes

\* After the commit of a batch all of it is assigned, and if it changed anything then one of its updates did.
LEMMA CommitAssigns ==
  ASSUME ReviewParts, NEW p \in DOMAIN plans, NEW b, Applies(plans[p], InBatch(p, b)),
         reviews' = Assigned(plans[p], InBatch(p, b)), UNCHANGED plans
  PROVE  /\ AllAssigned(p, b)'
         /\ reviews' # reviews => \E r \in InBatch(p, b) : AssignmentFilter(r, plans[p].assignments[r])
<1>1. InBatch(p, b)' = InBatch(p, b) /\ There' = There
  BY AssignedIsTyped DEF InBatch, Assignees, ReviewParts
<1>2. \A r \in There : reviews[r] \in ReviewRecord
  BY DEF ReviewParts, MigrationTypes
<1>3. ASSUME NEW r \in InBatch(p, b), r \in There
      PROVE  reviews'[r].id = plans[p].assignments[r].id
  <2>1. CASE AssignmentFilter(r, plans[p].assignments[r])
    <3>1. reviews'[r] = [reviews[r] EXCEPT !.id = plans[p].assignments[r].id]
      BY <1>3, <2>1 DEF Assigned
    <3> QED BY <3>1, <1>2, <1>3 DEF ReviewRecord
  <2>2. CASE ~AssignmentFilter(r, plans[p].assignments[r])
    <3>1. reviews'[r] = reviews[r]
      BY <1>3, <2>2 DEF Assigned
    <3> QED BY <3>1, <2>2, <1>3 DEF Applies
  <2> QED BY <2>1, <2>2
<1>4. AllAssigned(p, b)'
  BY <1>1, <1>3 DEF AllAssigned
<1>5. ASSUME \A r \in InBatch(p, b) : ~AssignmentFilter(r, plans[p].assignments[r])
      PROVE  reviews' = reviews
  <2>1. reviews' = [r \in There |-> reviews[r]]
    BY <1>5 DEF Assigned
  <2>2. reviews = [r \in There |-> reviews[r]]
    BY DEF ReviewParts, MigrationTypes
  <2> QED BY <2>1, <2>2
<1> QED BY <1>4, <1>5

\* A new plan promises what plans promise, as its identities are new, and leaves what the others have promised.
LEMMA DryRunIsOrderly ==
  ASSUME ReviewParts, NEW o \in Operator, DryRun(o)
  PROVE  /\ ReviewParts' /\ StillHolds
         /\ progress' = Append(progress, NoFile)
<1> DEFINE new == [contents |-> Contents, blocked |-> Blocked, assignments |-> Assignments,
                   kept |-> [r \in There \ Unassigned |-> reviews[r].id]]
<1>0. PICK n \in Nat : n = Len(plans) + 1
  BY DEF ReviewParts, MigrationTypes
<1>1. MigrationTypes /\ MigrationTypes'
  BY DryRunIsTyped DEF ReviewParts
<1>2. plans' = Append(plans, new) /\ plans \in Seq(PlanRecord)
  BY <1>1 DEF DryRun, MigrationTypes
<1>3. new.contents = Contents /\ new.blocked = Blocked /\ new.assignments = Assignments
  OBVIOUS
<1> HIDE DEF new
<1>4. DOMAIN plans' = DOMAIN plans \cup {n} /\ n \notin DOMAIN plans /\ plans'[n] = new /\ \A p \in DOMAIN plans : plans'[p] = plans[p]
  BY <1>0, <1>2
<1>5. reviews' = reviews /\ unique' = unique /\ There' = There
  BY DEF DryRun, There
<1>6. minted \in Nat /\ minted' = minted + Cardinality(Unassigned) /\ Cardinality(Unassigned) \in Nat
  BY <1>1, DocumentsAreFinite DEF DryRun, MigrationTypes
<1>7. \A p \in DOMAIN plans : Assignees(p)' = Assignees(p)
  BY <1>4 DEF Assignees
<1>8. Assignees(n)' = Unassigned
  BY <1>3, <1>4 DEF Assignees, Assignments
<1>9. ASSUME NEW r \in Unassigned
      PROVE  /\ plans'[n].assignments[r].nth = Rank(r) /\ plans'[n].assignments[r].id = minted + Rank(r)
             /\ Rank(r) \in 1..Cardinality(Unassigned)
  BY <1>1, <1>3, <1>4, <1>9, DocumentsAreFinite DEF Assignments
<1>10. (Clean' <=> Clean) /\ (Distinct' <=> Distinct) /\ (Verified' <=> Verified)
  BY <1>5 DEF Clean, Distinct, Verified, IdsOf, IsId, There
<1>11. ASSUME NEW p \in DOMAIN plans
       PROVE  PlanHolds(p)'
  <2>0. PlanHolds(p)
    BY DEF ReviewParts
  <2>1. \A r \in Assignees(p) : plans[p].assignments[r].id \in 1..minted'
    BY <2>0, <1>6 DEF PlanHolds
  <2> QED BY <2>0, <2>1, <1>4, <1>5, <1>7, <1>10 DEF PlanHolds, IsId
<1>12. PlanHolds(n)'
  <2>1. Assignees(n)' \subseteq DOMAIN plans'[n].contents
    BY <1>3, <1>4, <1>8 DEF Contents, Unassigned
  <2>2. ASSUME NEW r \in Unassigned
        PROVE  /\ plans'[n].assignments[r].nth \in 1..Cardinality(Unassigned) /\ plans'[n].assignments[r].id \in 1..minted'
               /\ \A s \in There : reviews[s].id # plans'[n].assignments[r].id
    <3>1. /\ plans'[n].assignments[r].id = minted + Rank(r) /\ Rank(r) \in 1..Cardinality(Unassigned)
          /\ plans'[n].assignments[r].nth = Rank(r)
      BY <1>9
    <3>2. ASSUME NEW s \in There, reviews[s].id = minted + Rank(r)
          PROVE  FALSE
      <4>1. reviews[s].id \in Nat
        BY <3>1, <3>2, <1>6
      <4>2. reviews[s].id \in 1..minted
        BY <4>1, NumbersAreIds DEF ReviewParts, IdsAreGiven
      <4> QED BY <4>2, <3>1, <3>2, <1>6
    <3> QED BY <3>1, <3>2, <1>6
  <2>3. ~plans'[n].blocked => Clean' /\ \A r \in There : IsId(reviews[r].id) \/ r \in Unassigned
    <3>1. plans'[n].blocked = Blocked
      BY <1>3, <1>4
    <3>2. SUFFICES ASSUME ~Blocked PROVE Clean /\ \A r \in There : IsId(reviews[r].id) \/ r \in Unassigned
      BY <3>1, <1>10
    <3>3. Clean
      BY <3>2 DEF Blocked, Clean
    <3>4. \A r \in There : reviews[r].id # Invalid
      BY <3>3 DEF Clean, IdsOf, There
    <3> QED BY <3>3, <3>4 DEF IsId, Unassigned
  <2> QED BY <2>1, <2>2, <2>3, <1>5, <1>8 DEF PlanHolds, IsId
<1>13. PlansAreApart'
  <2>1. ASSUME NEW p \in DOMAIN plans', NEW q \in DOMAIN plans', NEW r \in Assignees(p)', NEW s \in Assignees(q)',
               plans'[p].assignments[r].id = plans'[q].assignments[s].id
        PROVE  p = q /\ r = s
    <3>1. CASE p # n /\ q # n
      BY <3>1, <2>1, <1>4, <1>7, PlannedIdsDiffer
    <3>2. CASE p = n /\ q = n
      <4>1. Rank(r) = Rank(s)
        BY <3>2, <2>1, <1>6, <1>8, <1>9
      <4> QED BY <4>1, <3>2, <1>1, <1>8, RankTellsApart, DocumentsAreFinite DEF Rank
    <3>3. ASSUME NEW x \in DOMAIN plans, NEW y \in Assignees(x), NEW z \in Unassigned,
                 plans[x].assignments[y].id = minted + Rank(z)
          PROVE  FALSE
      <4>1. plans[x].assignments[y].id \in 1..minted
        BY PlannedIdIsGiven
      <4> QED BY <4>1, <3>3, <1>6, <1>9
    <3>4. CASE p = n /\ q # n
      BY <3>3, <3>4, <2>1, <1>4, <1>7, <1>8, <1>9
    <3>5. CASE p # n /\ q = n
      BY <3>3, <3>5, <2>1, <1>4, <1>7, <1>8, <1>9
    <3> QED BY <3>1, <3>2, <3>4, <3>5
  <2> QED BY <2>1 DEF PlansAreApart
<1>14. IdsAreGiven'
  BY <1>5, <1>6 DEF ReviewParts, IdsAreGiven, IsId
<1>15. StillHolds
  BY <1>4, <1>5, <1>7, <1>10 DEF StillHolds, AllAssigned, PlanDone, InBatch
<1>16. \A p \in DOMAIN plans' : PlanHolds(p)'
  BY <1>4, <1>11, <1>12
<1> QED BY <1>1, <1>13, <1>14, <1>15, <1>16 DEF ReviewParts, DryRun

\* An application that is through with all batches of its plan finds every review with an identity of its own, and
\* those of the plan with the ones they were to get.
LEMMA BatchesCoverAll ==
  ASSUME ReviewParts, NEW r \in RunRecord, RecordHolds(r), Batches(r.plan) = r.batch
  PROVE  Indexable /\ Distinct /\ (\A x \in There : IsId(reviews[x].id)) /\ PlanDone(r.plan)
<1> DEFINE p == r.plan
<1>1. p \in DOMAIN plans /\ ~plans[p].blocked /\ \A b \in 0..r.batch : b < r.batch => AllAssigned(p, b)
  BY DEF RecordHolds
<1>2. r.batch \in Nat
  BY DEF RunRecord
<1>3. PlanHolds(p) /\ Cardinality(Assignees(p)) \in Nat
  BY <1>1, PlanIsARecord DEF ReviewParts
<1>4. ASSUME NEW x \in Assignees(p), x \in There
      PROVE  reviews[x].id = plans[p].assignments[x].id /\ IsId(reviews[x].id)
  <2>1. plans[p].assignments[x].nth \in 1..Cardinality(Assignees(p))
    BY <1>3 DEF PlanHolds
  <2>2. PICK b \in Nat : /\ plans[p].assignments[x].nth \in b * BatchSize + 1 .. (b + 1) * BatchSize
                         /\ b < (Cardinality(Assignees(p)) + BatchSize - 1) \div BatchSize
    BY <2>1, <1>3, BatchOfNth, ReviewIdAssumption
  <2>3. b < r.batch /\ b \in 0..r.batch
    BY <2>2, <1>2 DEF Batches
  <2>4. x \in InBatch(p, b)
    BY <2>2 DEF InBatch
  <2>5. reviews[x].id = plans[p].assignments[x].id
    BY <1>1, <1>4, <2>3, <2>4 DEF AllAssigned
  <2> QED BY <2>5, <1>1, PlannedIdIsGiven
<1>5. \A x \in There : IsId(reviews[x].id)
  BY <1>1, <1>3, <1>4 DEF PlanHolds
<1>6. Distinct
  BY <1>1, <1>3 DEF PlanHolds, Clean
<1> QED BY <1>4, <1>5, <1>6 DEF Indexable, Distinct, PlanDone

(***************************************************************************)
(* What happens to an application                                          *)
(***************************************************************************)
\* What a file says stays so while others act ...
LEMMA FileKeepsHolding ==
  ASSUME StillHolds, NEW p \in DOMAIN plans, NEW f \in FileRecord, FileHolds(f, p)
  PROVE  FileHolds(f, p)'
<1>1. f.done \subseteq Nat
  BY DEF FileRecord
<1> QED BY <1>1 DEF FileHolds, StillHolds

\* ... and so does what an application knows.
LEMMA RecordKeepsHolding ==
  ASSUME StillHolds, NEW r \in RunRecord, RecordHolds(r)
  PROVE  RecordHolds(r)'
<1>1. PICK p \in DOMAIN plans : p = r.plan
  BY DEF RecordHolds
<1>2. p \in DOMAIN plans' /\ plans'[p] = plans[p] /\ (unique => unique')
  BY DEF StillHolds
<1>3. Batches(p)' = Batches(p)
  BY <1>2 DEF Batches, Assignees
<1>4. \A b \in Nat : AllAssigned(p, b) => AllAssigned(p, b)'
  BY DEF StillHolds
<1>5. r.batch \in Nat /\ r.file \in FileRecord
  BY DEF RunRecord
<1>6. \A b \in 0..r.batch : b < r.batch => AllAssigned(p, b)'
  BY <1>1, <1>4, <1>5 DEF RecordHolds
<1>7. FileHolds(r.file, p)'
  BY <1>1, <1>5, FileKeepsHolding DEF RecordHolds
<1>8. r.pc = "record" => AllAssigned(p, r.batch)'
  BY <1>1, <1>4, <1>5 DEF RecordHolds
<1> QED BY <1>1, <1>2, <1>3, <1>6, <1>7, <1>8 DEF RecordHolds

\* So the processes that take no step know what they knew.
LEMMA RunKeepsHolding ==
  ASSUME MigrationTypes, StillHolds, NEW o \in Operator, RunHolds(o), run'[o] = run[o]
  PROVE  RunHolds(o)'
<1>1. PICK r \in {NoRun} \cup RunRecord : r = run[o]
  BY DEF MigrationTypes
<1>2. r # NoRun => RecordHolds(r)'
  BY <1>1, RecordKeepsHolding DEF RunHolds
<1>3. NoRun' = NoRun
  BY DEF NoRun
<1> QED BY <1>1, <1>2, <1>3 DEF RunHolds

\* What the operator is told of is so.
DonePlans == (told.how = "done" => told.plan \in DOMAIN plans) /\ OperatorIsTold

\* The parts of the invariant.
LEMMA InvariantParts ==
  MigrationInv <=> ReviewParts /\ ProgressHolds /\ DonePlans /\ \A o \in Operator : RunHolds(o)
BY DEF MigrationInv, ReviewParts, DonePlans

\* The progress files stay true while others act.
LEMMA ProgressKeepsHolding ==
  ASSUME MigrationTypes, ProgressHolds, StillHolds, UNCHANGED progress
  PROVE  ProgressHolds'
<1>1. ASSUME NEW p \in DOMAIN progress
      PROVE  FileHolds(progress[p], p)'
  <2>1. PICK f \in FileRecord : f = progress[p] /\ p \in DOMAIN plans
    BY ProgressIsARecord
  <2>2. FileHolds(f, p)'
    BY <2>1, FileKeepsHolding DEF ProgressHolds
  <2> QED BY <2>1, <2>2
<1> QED BY <1>1 DEF ProgressHolds

\* And so they do if one of them is overwritten by what is true of its plan.
LEMMA OverwritingKeepsHolding ==
  ASSUME MigrationTypes, ProgressHolds, StillHolds, NEW p \in DOMAIN plans, NEW f \in FileRecord,
         FileHolds(f, p)', progress' = [progress EXCEPT ![p] = f]
  PROVE  ProgressHolds'
<1>1. ASSUME NEW q \in DOMAIN progress, q # p
      PROVE  FileHolds(progress[q], q)'
  <2>1. PICK g \in FileRecord : g = progress[q] /\ q \in DOMAIN plans
    BY ProgressIsARecord
  <2>2. FileHolds(g, q)'
    BY <2>1, FileKeepsHolding DEF ProgressHolds
  <2>3. progress'[q] = g
    BY <1>1, <2>1, FileIsWritten
  <2> QED BY <2>2, <2>3
<1>2. progress'[p] = f /\ DOMAIN progress' = DOMAIN progress
  BY FileIsWritten
<1> QED BY <1>1, <1>2 DEF ProgressHolds

\* What the operator was told stays so: the identities that his plan gave are kept.
LEMMA DonePlansStay ==
  ASSUME DonePlans, UNCHANGED told, StillHolds
  PROVE  DonePlans'
<1>1. told' = told
  OBVIOUS
<1>2. ASSUME told.how = "done"
      PROVE  told.plan \in DOMAIN plans' /\ Verified' /\ PlanDone(told.plan)'
  <2>1. PICK p \in DOMAIN plans : p = told.plan
    BY <1>2 DEF DonePlans
  <2>2. p \in DOMAIN plans' /\ Verified' /\ PlanDone(p)'
    BY <1>2, <2>1 DEF DonePlans, OperatorIsTold, StillHolds
  <2>3. told'.plan = p
    BY <1>1, <2>1
  <2> QED BY <2>1, <2>2, <2>3
<1> QED BY <1>1, <1>2 DEF DonePlans, OperatorIsTold

\* An application that ends before it is complete tells the operator the truth: it fails plainly only if it knows of
\* no change, and it knows of all it made unless the error of the session hid one.
LEMMA EndIsTold ==
  ASSUME MigrationTypes, NEW o \in Operator, RunHolds(o), run[o] \in RunRecord, run[o] # NoRun,
         (\E how \in {"committed", "unknown"} : Ends(o, how)) \/ Fails(o) \/ FailsUnseen(o)
  PROVE  DonePlans' /\ RunHolds(o)' /\ \A x \in Operator \ {o} : run'[x] = run[x]
<1>1. run' = [run EXCEPT ![o] = NoRun]
  BY DEF Ends, Fails, FailsUnseen
<1>2. run'[o] = NoRun /\ \A x \in Operator \ {o} : run'[x] = run[x]
  BY <1>1 DEF MigrationTypes
<1>3. RunHolds(o)'
  BY <1>2 DEF RunHolds, NoRun
<1>4. Failure(o) \in {"committed", "failed"} /\ (Failure(o) = "failed" => ~run[o].wrote)
  BY DEF Failure, RunHolds, RecordHolds
<1>5. told'.how # "done" /\ (told'.how = "failed" => told'.lost \/ ~told'.wrote)
  <2>1. CASE FailsUnseen(o)
    BY <2>1, <1>4 DEF FailsUnseen
  <2>2. CASE Fails(o)
    BY <2>2, <1>4 DEF Fails, Ends
  <2>3. CASE \E how \in {"committed", "unknown"} : Ends(o, how)
    BY <2>3 DEF Ends
  <2> QED BY <2>1, <2>2, <2>3
<1> QED BY <1>2, <1>3, <1>5 DEF DonePlans, OperatorIsTold

\* A step of one operator's process leaves what the others' know.
LEMMA OthersKeepHolding ==
  ASSUME MigrationInv, StillHolds, NEW o \in Operator, RunHolds(o)', \A x \in Operator \ {o} : run'[x] = run[x]
  PROVE  \A x \in Operator : RunHolds(x)'
BY RunKeepsHolding DEF MigrationInv

\* A step that leaves the reviews and the plans alone keeps what is about them.
LEMMA SameReviewsKeep ==
  ASSUME MigrationInv, MigrationTypes', UNCHANGED <<reviews, plans, minted>>, unique => unique'
  PROVE  StillHolds /\ ReviewParts'
BY NothingHappensOrderly, OrderlyChangeKeeps, ReviewPartsStay, InvariantParts

(***************************************************************************)
(* The steps of the migration                                              *)
(***************************************************************************)
\* A dry run keeps the invariant.
LEMMA DryRunKeepsInv ==
  ASSUME MigrationInv, NEW o \in Operator, DryRun(o)
  PROVE  MigrationInv'
<1>1. ReviewParts /\ MigrationTypes /\ ReviewParts' /\ StillHolds /\ progress' = Append(progress, NoFile)
  BY InvariantParts, DryRunIsOrderly DEF ReviewParts
<1>2. UNCHANGED <<run, told>>
  BY DEF DryRun
<1>3. \A x \in Operator : RunHolds(x)'
  BY <1>1, <1>2, RunKeepsHolding DEF MigrationInv
<1>4. PICK n \in Nat : n = Len(progress) + 1
  BY <1>1 DEF MigrationTypes
<1>5. /\ DOMAIN progress' = DOMAIN progress \cup {n} /\ \A p \in DOMAIN progress : progress'[p] = progress[p]
      /\ progress'[n] = NoFile
  <2>1. progress \in Seq(FileRecord)
    BY <1>1 DEF MigrationTypes
  <2> QED BY <2>1, <1>1, <1>4
<1>6. ProgressHolds'
  <2>1. ASSUME NEW p \in DOMAIN progress
        PROVE  FileHolds(progress[p], p)'
    <3>1. PICK f \in FileRecord : f = progress[p] /\ p \in DOMAIN plans
      BY <1>1, ProgressIsARecord
    <3>2. FileHolds(f, p)'
      BY <1>1, <3>1, FileKeepsHolding DEF MigrationInv, ProgressHolds
    <3> QED BY <1>5, <3>1, <3>2
  <2>2. FileHolds(progress[n], n)'
    BY <1>5 DEF FileHolds, NoFile
  <2> QED BY <2>1, <2>2, <1>5 DEF ProgressHolds
<1>7. DonePlans'
  BY <1>1, <1>2, DonePlansStay, InvariantParts
<1> QED BY <1>1, <1>3, <1>6, <1>7 DEF MigrationInv, ReviewParts, DonePlans

\* The start of an application keeps the invariant.
LEMMA ApplyKeepsInv ==
  ASSUME MigrationInv, NEW o \in Operator, NEW p \in DOMAIN plans, Apply(o, p)
  PROVE  MigrationInv'
<1>1. MigrationTypes /\ MigrationTypes' /\ UNCHANGED <<reviews, unique, plans, minted, progress, told>>
  BY ApplyIsTyped DEF MigrationInv, Apply
<1>2. StillHolds /\ ReviewParts'
  BY <1>1, SameReviewsKeep
<1>3. /\ run'[o] = [pc |-> "check", plan |-> p, batch |-> 0, changed |-> FALSE, wrote |-> FALSE, file |-> NoFile]
      /\ \A x \in Operator \ {o} : run'[x] = run[x]
  BY <1>1 DEF Apply, MigrationTypes
<1>4. RunHolds(o)'
  BY <1>1, <1>3 DEF RunHolds, RecordHolds, FileHolds, NoFile, Apply
<1> QED BY <1>1, <1>2, <1>3, <1>4, OthersKeepHolding, ProgressKeepsHolding, DonePlansStay, InvariantParts
       DEF MigrationInv, ReviewParts, DonePlans

\* What is known of the process that takes a step.
LEMMA ActorIsRunning ==
  ASSUME MigrationInv, NEW o \in Operator, run[o] # NoRun \/ run[o].pc # "idle"
  PROVE  /\ ReviewParts /\ MigrationTypes /\ ProgressHolds /\ RunHolds(o) /\ run[o] # NoRun /\ run[o] \in RunRecord
         /\ RecordHolds(run[o]) /\ run[o].plan \in DOMAIN plans /\ run[o].batch \in Nat /\ run[o].changed \in BOOLEAN
         /\ run[o].file \in FileRecord
<1>1. ReviewParts /\ MigrationTypes /\ ProgressHolds /\ RunHolds(o) /\ run[o] # NoRun /\ run[o] \in RunRecord
  BY RunIsARecord DEF MigrationInv, ReviewParts
<1> QED BY <1>1 DEF RunHolds, RecordHolds, RunRecord

\* The end of an application that is not complete keeps the invariant.
LEMMA EndKeepsInv ==
  ASSUME MigrationInv, MigrationTypes', StillHolds, ReviewParts', ProgressHolds', NEW o \in Operator, run[o] # NoRun,
         (\E how \in {"committed", "unknown"} : Ends(o, how)) \/ Fails(o) \/ FailsUnseen(o)
  PROVE  MigrationInv'
<1>1. MigrationTypes /\ RunHolds(o) /\ run[o] \in RunRecord
  BY RunIsARecord DEF MigrationInv
<1>2. DonePlans' /\ RunHolds(o)' /\ \A x \in Operator \ {o} : run'[x] = run[x]
  BY <1>1, EndIsTold
<1> QED BY <1>1, <1>2, OthersKeepHolding DEF MigrationInv, ReviewParts, DonePlans

\* A step after which an application goes on keeps the invariant if what it knows then is so.
LEMMA AdvanceKeepsInv ==
  ASSUME MigrationInv, MigrationTypes', StillHolds, ReviewParts', ProgressHolds', NEW o \in Operator, NEW r \in RunRecord,
         run' = [run EXCEPT ![o] = r], UNCHANGED told, RecordHolds(r)'
  PROVE  MigrationInv'
<1>1. MigrationTypes /\ run'[o] = r /\ \A x \in Operator \ {o} : run'[x] = run[x]
  BY DEF MigrationInv, MigrationTypes
<1>2. RunHolds(o)'
  BY <1>1 DEF RunHolds
<1> QED BY <1>1, <1>2, OthersKeepHolding, DonePlansStay, InvariantParts DEF MigrationInv, ReviewParts, DonePlans

\* What a step may do to the file of its plan: leave it, or overwrite it with what is true.
Files(o) ==
  \/ UNCHANGED progress
  \/ \E f \in FileRecord : FileHolds(f, run[o].plan) /\ progress' = [progress EXCEPT ![run[o].plan] = f]

\* The reviews and the plans, which a step of a process leaves, unless it runs a batch.
Still == UNCHANGED <<reviews, plans, minted, runs, writes>> /\ unique' \in {unique, TRUE} /\ (Fault \/ UNCHANGED faults)

\* Such a step, if it ends or advances its process well typed, keeps what is about the reviews, the plans and the files.
LEMMA StillStepKeeps ==
  ASSUME MigrationInv, NEW o \in Operator, run[o] # NoRun, Still, Files(o),
         run' \in [Operator -> {NoRun} \cup RunRecord], told' \in Outcome
  PROVE  MigrationTypes' /\ StillHolds /\ ReviewParts' /\ ProgressHolds'
<1>1. MigrationTypes /\ ProgressHolds /\ run[o].plan \in DOMAIN plans
  BY ActorIsRunning
<1>2. PICK p \in DOMAIN plans : p = run[o].plan
  BY <1>1
<1>3. UNCHANGED <<reviews, plans, minted>> /\ (unique => unique')
  <2>1. UNCHANGED <<reviews, plans, minted>> /\ unique' \in {unique, TRUE}
    BY DEF Still
  <2>2. unique => unique'
    BY <2>1, Zenon
  <2> QED BY <2>1, <2>2
<1>4. CASE UNCHANGED progress
  <2>1. MigrationTypes'
    BY <1>1, <1>4, FaultIsTyped DEF Still, MigrationTypes, There
  <2> QED BY <1>1, <1>4, <1>3, <2>1, SameReviewsKeep, ProgressKeepsHolding
<1>5. CASE ~UNCHANGED progress
  <2>1. PICK f \in FileRecord : FileHolds(f, p) /\ progress' = [progress EXCEPT ![p] = f]
    BY <1>2, <1>5 DEF Files
  <2>2. progress' \in Seq(FileRecord) /\ Len(progress') = Len(progress)
    BY <1>1, <2>1, FileIsWritten
  <2>3. MigrationTypes'
    BY <1>1, <2>2, FaultIsTyped DEF Still, MigrationTypes, There
  <2>4. StillHolds /\ ReviewParts'
    BY <1>3, <2>3, SameReviewsKeep
  <2>5. FileHolds(f, p)'
    BY <2>1, <2>4, FileKeepsHolding
  <2> QED BY <1>1, <2>1, <2>3, <2>4, <2>5, OverwritingKeepsHolding
<1> QED BY <1>4, <1>5

\* If it ends it, then it keeps the invariant, ...
LEMMA StillEndKeepsInv ==
  ASSUME MigrationInv, NEW o \in Operator, run[o] # NoRun, Still, Files(o), Fails(o)
  PROVE  MigrationInv'
<1>1. MigrationTypes /\ run[o] \in RunRecord
  BY ActorIsRunning
<1>2. run' \in [Operator -> {NoRun} \cup RunRecord] /\ told' \in Outcome
  BY <1>1, EndIsTyped
<1> QED BY <1>2, StillStepKeeps, EndKeepsInv

\* ... and if it advances it, then it does so if what the process knows then was so before, but for the index.
LEMMA StillAdvanceKeepsInv ==
  ASSUME MigrationInv, NEW o \in Operator, run[o] # NoRun, Still, Files(o), NEW r \in RunRecord,
         run' = [run EXCEPT ![o] = r], UNCHANGED told,
         NEW q \in RunRecord, RecordHolds(q), r = q \/ (r = [q EXCEPT !.pc = "verify"] /\ q.pc = "index" /\ unique')
  PROVE  MigrationInv'
<1>1. MigrationTypes
  BY ActorIsRunning
<1>2. run' \in [Operator -> {NoRun} \cup RunRecord] /\ told' \in Outcome
  BY <1>1, RunAdvances DEF MigrationTypes
<1>3. MigrationTypes' /\ StillHolds /\ ReviewParts' /\ ProgressHolds'
  BY <1>2, StillStepKeeps
<1>4. RecordHolds(q)'
  BY <1>3, RecordKeepsHolding
<1>5. RecordHolds(r)'
  <2>1. CASE r = q
    BY <2>1, <1>4
  <2>2. CASE r = [q EXCEPT !.pc = "verify"] /\ q.pc = "index" /\ unique'
    <3>1. /\ r.pc = "verify" /\ r.plan = q.plan /\ r.batch = q.batch /\ r.changed = q.changed /\ r.wrote = q.wrote
          /\ r.file = q.file
      BY <2>2 DEF RunRecord
    <3> QED BY <1>4, <2>2, <3>1 DEF RecordHolds
  <2> QED BY <2>1, <2>2
<1> QED BY <1>3, <1>5, AdvanceKeepsInv

\* The check of the target keeps the invariant.
LEMMA CheckTargetKeepsInv ==
  ASSUME MigrationInv, NEW o \in Operator, CheckTarget(o)
  PROVE  MigrationInv'
<1>1. run[o] # NoRun /\ run[o] \in RunRecord /\ RecordHolds(run[o]) /\ MigrationTypes
  BY ActorIsRunning DEF CheckTarget
<1>2. Still /\ Files(o)
  BY DEF CheckTarget, FaultOr, Still, Files
<1>3. CASE Fails(o)
  BY <1>1, <1>2, <1>3, StillEndKeepsInv
<1>4. CASE ~Fails(o)
  <2>1. PICK r \in RunRecord : r = [run[o] EXCEPT !.pc = "open"]
    BY <1>1 DEF RunRecord
  <2>2. RecordHolds(r)
    BY <1>1, <2>1 DEF RecordHolds, RunRecord, CheckTarget
  <2>3. run' = [run EXCEPT ![o] = r] /\ UNCHANGED told
    BY <1>4, <2>1 DEF CheckTarget
  <2> QED BY <1>1, <1>2, <2>2, <2>3, StillAdvanceKeepsInv
<1> QED BY <1>3, <1>4

\* Where an application is after a batch, or after none.
LEMMA AfterBatchIs ==
  ASSUME NEW o, NEW b
  PROVE  AfterBatch(o, b) \in {"index", "batch"} /\ (AfterBatch(o, b) = "index" => Batches(run[o].plan) = b)
BY DEF AfterBatch

\* The reading of the progress file keeps the invariant: what the process copies is so.
LEMMA ReadProgressKeepsInv ==
  ASSUME MigrationInv, NEW o \in Operator, ReadProgress(o)
  PROVE  MigrationInv'
<1> DEFINE p == run[o].plan
           pc == IF progress[p].there THEN AfterBatch(o, 0) ELSE "create"
<1>1. /\ run[o] # NoRun /\ run[o] \in RunRecord /\ RecordHolds(run[o]) /\ MigrationTypes /\ ProgressHolds
      /\ p \in DOMAIN plans /\ run[o].pc = "open"
  BY ActorIsRunning DEF ReadProgress
<1>2. Still /\ Files(o)
  BY DEF ReadProgress, Still, Files
<1>3. progress[p] \in FileRecord /\ FileHolds(progress[p], p)
  BY <1>1, PlanIsARecord, ProgressIsARecord DEF ProgressHolds
<1>4. pc \in {"index", "batch", "create"} /\ (pc = "index" => Batches(p) = 0)
  BY AfterBatchIs
<1>5. run' = [run EXCEPT ![o] = [run[o] EXCEPT !.file = progress[p], !.pc = pc]] /\ UNCHANGED told
  BY <1>1 DEF ReadProgress, MigrationTypes
<1> HIDE DEF pc
<1>6. PICK r \in RunRecord : r = [run[o] EXCEPT !.file = progress[p], !.pc = pc]
  BY <1>1, <1>3, <1>4 DEF RunRecord
<1>7. /\ r.pc = pc /\ r.file = progress[p] /\ r.plan = p /\ r.batch = run[o].batch /\ r.changed = run[o].changed
      /\ r.wrote = run[o].wrote
  BY <1>1, <1>6 DEF RunRecord
<1>8. RecordHolds(r)
  BY <1>1, <1>3, <1>4, <1>7 DEF RecordHolds
<1> QED BY <1>1, <1>2, <1>5, <1>6, <1>8, StillAdvanceKeepsInv

\* The making of the progress file keeps the invariant: an empty one says nothing.
LEMMA CreateProgressKeepsInv ==
  ASSUME MigrationInv, NEW o \in Operator, CreateProgress(o)
  PROVE  MigrationInv'
<1> DEFINE p == run[o].plan
<1>1. /\ run[o] # NoRun /\ run[o] \in RunRecord /\ RecordHolds(run[o]) /\ MigrationTypes
      /\ p \in DOMAIN plans /\ run[o].pc = "create"
  BY ActorIsRunning DEF CreateProgress
<1>2. PICK f \in FileRecord : f = NewFile /\ FileHolds(f, p)
  <2>1. NewFile \in FileRecord
    BY DEF FileRecord, NewFile
  <2>2. FileHolds(NewFile, p)
    BY DEF NewFile, FileHolds
  <2> QED BY <2>1, <2>2
<1>3. Still /\ Files(o)
  BY <1>2 DEF CreateProgress, Overwrite, Still, Files
<1>4. CASE Fails(o)
  BY <1>1, <1>3, <1>4, StillEndKeepsInv
<1>5. CASE ~Fails(o)
  <2> DEFINE pc == AfterBatch(o, 0)
  <2>1. pc \in {"index", "batch"} /\ (pc = "index" => Batches(p) = 0)
    BY AfterBatchIs
  <2>2. run' = [run EXCEPT ![o] = [run[o] EXCEPT !.file = f, !.pc = pc]] /\ UNCHANGED told
    BY <1>1, <1>2, <1>5 DEF CreateProgress, Overwrite, MigrationTypes
  <2> HIDE DEF pc
  <2>3. PICK r \in RunRecord : r = [run[o] EXCEPT !.file = f, !.pc = pc]
    BY <1>1, <2>1 DEF RunRecord
  <2>4. /\ r.pc = pc /\ r.file = f /\ r.plan = p /\ r.batch = run[o].batch /\ r.changed = run[o].changed
        /\ r.wrote = run[o].wrote
    BY <1>1, <2>3 DEF RunRecord
  <2>5. RecordHolds(r)
    BY <1>1, <1>2, <2>1, <2>4 DEF RecordHolds
  <2> QED BY <1>1, <1>3, <2>2, <2>3, <2>5, StillAdvanceKeepsInv
<1> QED BY <1>4, <1>5

\* The step that runs a batch keeps the invariant, and changes the reviews in order.
LEMMA RunBatchKeepsInv ==
  ASSUME MigrationInv, NEW o \in Operator, RunBatch(o)
  PROVE  MigrationInv' /\ OrderlyChange
<1> DEFINE p == run[o].plan
<1>1. /\ run[o] # NoRun /\ run[o] \in RunRecord /\ RecordHolds(run[o]) /\ MigrationTypes /\ ReviewParts /\ ProgressHolds
      /\ p \in DOMAIN plans /\ run[o].batch \in Nat /\ run[o].changed \in BOOLEAN /\ run[o].pc = "batch"
  BY ActorIsRunning DEF RunBatch
<1>2. MigrationTypes' /\ UNCHANGED <<unique, plans, minted, progress>>
  BY <1>1, RunBatchIsTyped DEF RunBatch
<1>3. OrderlyChange
  <2>1. UNCHANGED reviews \/ CommitBatch(o)
    BY DEF RunBatch
  <2>2. CASE UNCHANGED reviews
    BY <2>2, <1>1, <1>2, NothingHappensOrderly
  <2>3. CASE CommitBatch(o)
    BY <2>3, <1>1, <1>2, CommitIsOrderly DEF CommitBatch, Plan, Batch
  <2> QED BY <2>1, <2>2, <2>3
<1>4. StillHolds /\ ReviewParts' /\ ProgressHolds'
  BY <1>1, <1>2, <1>3, OrderlyChangeKeeps, ReviewPartsStay, ProgressKeepsHolding
<1>5. CASE (\E how \in {"committed", "unknown"} : Ends(o, how)) \/ Fails(o) \/ FailsUnseen(o)
  BY <1>1, <1>2, <1>3, <1>4, <1>5, EndKeepsInv
<1>6. CASE ~((\E how \in {"committed", "unknown"} : Ends(o, how)) \/ Fails(o) \/ FailsUnseen(o))
  <2> DEFINE changed == run[o].changed \/ Updates(o)
             wrote   == run[o].wrote \/ reviews' # reviews
  <2>1. /\ CommitBatch(o) /\ UNCHANGED told
        /\ run' = [run EXCEPT ![o].pc = "record", ![o].changed = @ \/ Updates(o), ![o].wrote = @ \/ reviews' # reviews]
    BY <1>6 DEF RunBatch
  <2>2. PICK q \in DOMAIN plans, b \in Nat : q = p /\ b = run[o].batch
    BY <1>1
  <2>3. AllAssigned(q, b)' /\ (reviews' # reviews => Updates(o))
    <3>1. Applies(plans[q], InBatch(q, b)) /\ reviews' = Assigned(plans[q], InBatch(q, b))
      BY <2>1, <2>2 DEF CommitBatch, Plan, Batch
    <3>2. /\ AllAssigned(q, b)'
          /\ reviews' # reviews => \E s \in InBatch(q, b) : AssignmentFilter(s, plans[q].assignments[s])
      BY <1>1, <1>2, <3>1, CommitAssigns
    <3> QED BY <2>2, <3>2 DEF Updates, Batch, Plan
  <2>4. changed \in BOOLEAN /\ wrote \in BOOLEAN /\ (wrote => changed)
    BY <1>1, <2>3 DEF RecordHolds
  <2>5. run' = [run EXCEPT ![o] = [run[o] EXCEPT !.pc = "record", !.changed = changed, !.wrote = wrote]]
    BY <2>1, <1>1 DEF RunRecord, MigrationTypes
  <2> HIDE DEF changed, wrote
  <2>6. PICK x \in RunRecord : x = [run[o] EXCEPT !.changed = changed, !.wrote = wrote]
    BY <1>1, <2>4 DEF RunRecord
  <2>7. PICK r \in RunRecord : r = [x EXCEPT !.pc = "record"]
    BY DEF RunRecord
  <2>8. /\ x.pc = "batch" /\ x.plan = q /\ x.batch = b /\ x.changed = changed /\ x.wrote = wrote /\ x.file = run[o].file
    BY <1>1, <2>2, <2>6 DEF RunRecord
  <2>9. /\ r.pc = "record" /\ r.plan = q /\ r.batch = b /\ r.changed = x.changed /\ r.wrote = x.wrote /\ r.file = x.file
    BY <2>7, <2>8 DEF RunRecord
  <2>10. RecordHolds(x)
    BY <1>1, <2>2, <2>4, <2>8 DEF RecordHolds
  <2>11. RecordHolds(x)'
    BY <1>4, <2>10, RecordKeepsHolding
  <2>12. RecordHolds(r)'
    BY <2>3, <2>8, <2>9, <2>11 DEF RecordHolds
  <2>13. run' = [run EXCEPT ![o] = r]
    BY <1>1, <2>5, <2>6, <2>7 DEF RunRecord
  <2> QED BY <1>2, <1>3, <1>4, <2>1, <2>12, <2>13, AdvanceKeepsInv
<1> QED BY <1>3, <1>5, <1>6

\* The step that records a batch keeps the invariant, whatever it overwrites.
LEMMA RecordProgressKeepsInv ==
  ASSUME MigrationInv, NEW o \in Operator, RecordProgress(o)
  PROVE  MigrationInv'
<1> DEFINE p == run[o].plan
           n == run[o].batch + 1
<1>1. /\ run[o] # NoRun /\ run[o] \in RunRecord /\ RecordHolds(run[o]) /\ MigrationTypes /\ run[o].pc = "record"
      /\ p \in DOMAIN plans /\ run[o].batch \in Nat /\ run[o].file \in FileRecord
  BY ActorIsRunning DEF RecordProgress
<1>2. FileHolds(run[o].file, p) /\ AllAssigned(p, run[o].batch)
  BY <1>1 DEF RecordHolds
<1>3. PICK f \in FileRecord : f = [run[o].file EXCEPT !.done = @ \cup {run[o].batch}]
  BY <1>1 DEF FileRecord
<1>4. FileHolds(f, p)
  <2>1. f.done = run[o].file.done \cup {run[o].batch} /\ f.complete = run[o].file.complete
    BY <1>1, <1>3 DEF FileRecord
  <2> QED BY <1>2, <2>1 DEF FileHolds
<1>5. Still /\ Files(o)
  BY <1>3, <1>4 DEF RecordProgress, Overwrite, Still, Files
<1>6. CASE Fails(o)
  BY <1>1, <1>5, <1>6, StillEndKeepsInv
<1>7. CASE ~Fails(o)
  <2> DEFINE pc == AfterBatch(o, n)
  <2>1. pc \in {"index", "batch"} /\ (pc = "index" => Batches(p) = n)
    BY AfterBatchIs
  <2>2. run' = [run EXCEPT ![o] = [run[o] EXCEPT !.file = f, !.batch = n, !.pc = pc]] /\ UNCHANGED told
    BY <1>1, <1>3, <1>7 DEF RecordProgress, Overwrite, MigrationTypes
  <2>3. n \in Nat /\ \A b \in 0..n : b < n => b \in 0..run[o].batch /\ (b < run[o].batch \/ b = run[o].batch)
    BY <1>1
  <2> HIDE DEF pc, n
  <2>4. PICK r \in RunRecord : r = [run[o] EXCEPT !.file = f, !.batch = n, !.pc = pc]
    BY <1>1, <2>1, <2>3 DEF RunRecord
  <2>5. /\ r.pc = pc /\ r.file = f /\ r.plan = p /\ r.batch = n /\ r.changed = run[o].changed
        /\ r.wrote = run[o].wrote
    BY <1>1, <2>4 DEF RunRecord
  <2>6. \A b \in 0..n : b < n => AllAssigned(p, b)
    BY <1>1, <1>2, <2>3 DEF RecordHolds
  <2>7. RecordHolds(r)
    BY <1>1, <1>4, <2>1, <2>5, <2>6 DEF RecordHolds
  <2> QED BY <1>1, <1>5, <2>2, <2>4, <2>7, StillAdvanceKeepsInv
<1> QED BY <1>6, <1>7

\* The step that makes the index keeps the invariant.
LEMMA EnsureUniqueIndexKeepsInv ==
  ASSUME MigrationInv, NEW o \in Operator, EnsureUniqueIndex(o)
  PROVE  MigrationInv'
<1>1. /\ run[o] # NoRun /\ run[o] \in RunRecord /\ RecordHolds(run[o]) /\ MigrationTypes /\ run[o].pc = "index"
      /\ run[o].changed \in BOOLEAN
  BY ActorIsRunning DEF EnsureUniqueIndex
<1>2. Still /\ Files(o)
  BY DEF EnsureUniqueIndex, FaultOr, Still, Files
<1>3. CASE Fails(o)
  BY <1>1, <1>2, <1>3, StillEndKeepsInv
<1>4. CASE ~Fails(o)
  <2> DEFINE changed == run[o].changed \/ ~unique
  <2>1. UNCHANGED told /\ unique' /\ changed \in BOOLEAN /\ (run[o].changed => changed)
    BY <1>4 DEF EnsureUniqueIndex
  <2>2. run' = [run EXCEPT ![o] = [run[o] EXCEPT !.pc = "verify", !.changed = changed]]
    BY <1>1, <1>4 DEF EnsureUniqueIndex, RunRecord, MigrationTypes
  <2> HIDE DEF changed
  <2>3. PICK q \in RunRecord : q = [run[o] EXCEPT !.changed = changed]
    BY <1>1, <2>1 DEF RunRecord
  <2>4. /\ q.pc = "index" /\ q.file = run[o].file /\ q.plan = run[o].plan /\ q.batch = run[o].batch /\ q.changed = changed
        /\ q.wrote = run[o].wrote
    BY <1>1, <2>3 DEF RunRecord
  <2>5. RecordHolds(q)
    BY <1>1, <2>1, <2>4 DEF RecordHolds
  <2>6. PICK r \in RunRecord : r = [q EXCEPT !.pc = "verify"]
    BY DEF RunRecord
  <2>7. run' = [run EXCEPT ![o] = r]
    BY <1>1, <2>2, <2>3, <2>6 DEF RunRecord
  <2> QED BY <1>1, <1>2, <2>1, <2>4, <2>5, <2>6, <2>7, StillAdvanceKeepsInv
<1> QED BY <1>3, <1>4

\* The steps that verify keep the invariant.
LEMMA VerifyKeepsInv ==
  ASSUME MigrationInv, NEW o \in Operator, Verify(o) \/ VerifyIdentities(o)
  PROVE  MigrationInv'
<1>1. /\ run[o] # NoRun /\ run[o] \in RunRecord /\ RecordHolds(run[o]) /\ MigrationTypes /\ run[o].pc \in {"verify", "read"}
      /\ run[o].file \in FileRecord
  BY ActorIsRunning DEF Verify, VerifyIdentities
<1>2. Still /\ Files(o)
  <2>1. FileHolds(run[o].file, run[o].plan)
    BY <1>1 DEF RecordHolds
  <2> QED BY <1>1, <2>1 DEF Verify, VerifyIdentities, FaultOr, Still, Files
<1>3. CASE Fails(o)
  BY <1>1, <1>2, <1>3, StillEndKeepsInv
<1>4. CASE ~Fails(o)
  <2>1. PICK pc \in {"read", "complete"} : run' = [run EXCEPT ![o] = [run[o] EXCEPT !.pc = pc]] /\ UNCHANGED told
    BY <1>4 DEF Verify, VerifyIdentities
  <2>2. PICK r \in RunRecord : r = [run[o] EXCEPT !.pc = pc]
    BY <1>1 DEF RunRecord
  <2>3. /\ r.pc = pc /\ r.file = run[o].file /\ r.plan = run[o].plan /\ r.batch = run[o].batch /\ r.changed = run[o].changed
        /\ r.wrote = run[o].wrote
    BY <1>1, <2>2 DEF RunRecord
  <2>4. RecordHolds(r)
    BY <1>1, <2>3 DEF RecordHolds
  <2> QED BY <1>1, <1>2, <2>1, <2>2, <2>4, StillAdvanceKeepsInv
<1> QED BY <1>3, <1>4

\* The step that completes an application keeps the invariant: what it records, and tells, was verified.
LEMMA CompleteKeepsInv ==
  ASSUME MigrationInv, NEW o \in Operator, Complete(o)
  PROVE  MigrationInv'
<1> DEFINE p == run[o].plan
<1>1. /\ run[o] # NoRun /\ run[o] \in RunRecord /\ RecordHolds(run[o]) /\ MigrationTypes /\ ReviewParts /\ p \in DOMAIN plans
      /\ run[o].pc = "complete" /\ run[o].file \in FileRecord
  BY ActorIsRunning DEF Complete
<1>2. Verified /\ PlanDone(p)
  BY <1>1, BatchesCoverAll DEF Verified, RecordHolds
<1>3. PICK f \in FileRecord : f = [run[o].file EXCEPT !.complete = TRUE]
  BY <1>1 DEF FileRecord
<1>4. FileHolds(f, p)
  <2>1. f.done = run[o].file.done /\ f.complete
    BY <1>1, <1>3 DEF FileRecord
  <2> QED BY <1>1, <1>2, <2>1 DEF FileHolds, RecordHolds
<1>5. Still /\ Files(o)
  BY <1>3, <1>4 DEF Complete, Still, Files
<1>6. CASE Fails(o)
  BY <1>1, <1>5, <1>6, StillEndKeepsInv
<1>7. CASE ~Fails(o)
  <2>1. Ends(o, "done")
    BY <1>7 DEF Complete
  <2>2. run' \in [Operator -> {NoRun} \cup RunRecord] /\ told' \in Outcome
    BY <1>1, <2>1, EndIsTyped
  <2>3. MigrationTypes' /\ StillHolds /\ ReviewParts' /\ ProgressHolds'
    BY <1>1, <1>5, <2>2, StillStepKeeps
  <2>4. run'[o] = NoRun /\ \A x \in Operator \ {o} : run'[x] = run[x]
    BY <2>1, <1>1 DEF Ends, MigrationTypes
  <2>5. RunHolds(o)'
    BY <2>4 DEF RunHolds, NoRun
  <2>6. PICK q \in DOMAIN plans : q = p
    BY <1>1
  <2>7. q \in DOMAIN plans' /\ Verified' /\ PlanDone(q)'
    BY <1>2, <2>3, <2>6 DEF StillHolds
  <2>8. told'.how = "done" /\ told'.plan = q
    BY <2>1, <2>6 DEF Ends
  <2>9. DonePlans'
    BY <2>7, <2>8 DEF DonePlans, OperatorIsTold
  <2>10. \A x \in Operator : RunHolds(x)'
    BY <2>3, <2>4, <2>5, OthersKeepHolding
  <2> QED BY <2>3, <2>9, <2>10 DEF MigrationInv, ReviewParts, DonePlans
<1> QED BY <1>6, <1>7

\* The death of a process keeps the invariant.
LEMMA DieKeepsInv ==
  ASSUME MigrationInv, NEW o \in Operator, Die(o)
  PROVE  MigrationInv'
<1>1. MigrationTypes /\ MigrationTypes' /\ UNCHANGED <<reviews, unique, plans, minted, progress, told>>
  BY DieIsTyped DEF MigrationInv, Die
<1>2. run'[o] = NoRun /\ \A x \in Operator \ {o} : run'[x] = run[x]
  BY <1>1 DEF Die, MigrationTypes
<1>3. RunHolds(o)'
  BY <1>2 DEF RunHolds, NoRun
<1>4. StillHolds /\ ReviewParts'
  BY <1>1, SameReviewsKeep
<1> QED BY <1>1, <1>2, <1>3, <1>4, OthersKeepHolding, ProgressKeepsHolding, DonePlansStay, InvariantParts
       DEF MigrationInv, ReviewParts, DonePlans

\* Users' writes keep the invariant, and change the reviews in order.
LEMMA UsersKeepInv ==
  ASSUME MigrationInv, NEW r \in Document, Insert(r) \/ Touch(r) \/ Delete(r)
  PROVE  MigrationInv' /\ OrderlyChange
<1>1. ReviewParts /\ MigrationTypes /\ MigrationTypes' /\ UNCHANGED <<unique, progress, told, run>>
  BY InvariantParts, UsersAreTyped DEF ReviewParts, Insert, Touch, Delete, Writes
<1>2. OrderlyChange
  BY <1>1, UsersAreOrderly
<1>3. StillHolds /\ ReviewParts'
  BY <1>1, <1>2, OrderlyChangeKeeps, ReviewPartsStay
<1>4. \A x \in Operator : RunHolds(x)'
  BY <1>1, <1>3, RunKeepsHolding DEF MigrationInv
<1> QED BY <1>1, <1>2, <1>3, <1>4, ProgressKeepsHolding, DonePlansStay, InvariantParts
       DEF MigrationInv, ReviewParts, DonePlans

\* A step in which nothing happens keeps the invariant.
LEMMA StutteringKeepsInv ==
  ASSUME MigrationInv, UNCHANGED migrationVars
  PROVE  MigrationInv'
<1>1. ReviewParts /\ MigrationTypes /\ MigrationTypes' /\ UNCHANGED <<reviews, plans, minted, unique, progress, told, run>>
  BY InvariantParts DEF ReviewParts, migrationVars, MigrationTypes, There
<1>3. StillHolds /\ ReviewParts'
  BY <1>1, SameReviewsKeep
<1>4. \A x \in Operator : RunHolds(x)'
  BY <1>1, <1>3, RunKeepsHolding DEF MigrationInv
<1> QED BY <1>1, <1>3, <1>4, ProgressKeepsHolding, DonePlansStay, InvariantParts
       DEF MigrationInv, ReviewParts, DonePlans

\* The invariant holds at the start.
LEMMA MigrationInitKeepsInv ==
  ASSUME MigrationInit
  PROVE  MigrationInv
<1>1. PICK first \in FirstReviews : reviews = [r \in DOMAIN first |-> [content |-> 0, id |-> first[r]]]
  BY DEF MigrationInit
<1>2. DOMAIN first \subseteq Document /\ (\A r \in DOMAIN first : first[r] \in NoIds \cup 1..Given) /\ Given \in Nat
  BY ReviewIdAssumption DEF NoIds
<1>3. There = DOMAIN first /\ \A r \in There : reviews[r].id = first[r] /\ reviews[r] \in ReviewRecord
  BY <1>1, <1>2 DEF There, ReviewRecord
<1>4. /\ unique = FALSE /\ minted = Given /\ plans = <<>> /\ progress = <<>> /\ run = [o \in Operator |-> NoRun]
      /\ told = [how |-> "nothing", wrote |-> FALSE, plan |-> 0, lost |-> FALSE] /\ runs = 0 /\ writes = 0 /\ faults = 0
  BY DEF MigrationInit
<1>5. MigrationTypes
  <2>1. reviews \in [There -> ReviewRecord]
    BY <1>1, <1>3
  <2>2. told \in Outcome
    BY <1>4 DEF Outcome
  <2>3. There \in SUBSET Document
    BY <1>2, <1>3
  <2>4. plans \in Seq(PlanRecord) /\ progress \in Seq(FileRecord) /\ Len(plans) = 0 /\ Len(progress) = 0
    BY <1>4
  <2>5. run \in [Operator -> {NoRun} \cup RunRecord]
    BY <1>4
  <2>6. {MaxPlans, MaxRuns, MaxWrites, MaxFaults} \subseteq Nat
    BY ReviewIdAssumption
  <2>7. Len(plans) <= MaxPlans /\ runs \in 0..MaxRuns /\ writes \in 0..MaxWrites /\ faults \in 0..MaxFaults
    BY <1>4, <2>4, <2>6
  <2> QED BY <1>2, <1>4, <2>1, <2>2, <2>3, <2>4, <2>5, <2>7 DEF MigrationTypes
<1>6. IdsAreGiven
  BY <1>2, <1>3, <1>4 DEF IdsAreGiven, IsId, NoIds
<1> QED BY <1>4, <1>5, <1>6 DEF MigrationInv, PlansAreApart, ProgressHolds, OperatorIsTold, RunHolds

\* The invariant says what the runs check.
LEMMA MigrationInvImplies ==
  ASSUME MigrationInv
  PROVE  MigrationTypeOK /\ IdentitiesHold
<1>1. MigrationTypes /\ ReviewParts /\ ProgressHolds
  BY InvariantParts DEF ReviewParts
<1>2. MigrationTypeOK
  BY <1>1 DEF MigrationTypes, MigrationTypeOK, RunRecord, Outcome
<1>3. CompleteMeansAll
  BY <1>1 DEF CompleteMeansAll, ProgressHolds, FileHolds
<1>4. IndexCanBeMade
  <2> SUFFICES ASSUME NEW o \in Operator
               PROVE  (run[o].pc = "index" => unique \/ Indexable) /\ (run[o].pc = "read" => Verified)
    BY DEF IndexCanBeMade
  <2>1. ASSUME run[o].pc \in {"index", "read"}
        PROVE  Indexable /\ Distinct /\ (\A r \in There : IsId(reviews[r].id)) /\ (run[o].pc = "read" => unique)
    <3>1. run[o] \in RunRecord /\ RecordHolds(run[o])
      BY <2>1, ActorIsRunning
    <3>2. Batches(run[o].plan) = run[o].batch /\ (run[o].pc = "read" => unique)
      BY <2>1, <3>1 DEF RecordHolds
    <3> QED BY <1>1, <3>1, <3>2, BatchesCoverAll
  <2> QED BY <2>1 DEF Verified
<1>5. ProgressIsTrue
  BY <1>1 DEF ProgressIsTrue, ProgressHolds, FileHolds, AllAssigned
<1> QED BY <1>2, <1>3, <1>4, <1>5 DEF IdentitiesHold, MigrationInv

\* Every step keeps the invariant.
LEMMA MigrationStepKeepsInv ==
  ASSUME MigrationInv, MigrationNext
  PROVE  MigrationInv'
BY DryRunKeepsInv, ApplyKeepsInv, CheckTargetKeepsInv, ReadProgressKeepsInv, CreateProgressKeepsInv, RunBatchKeepsInv,
   RecordProgressKeepsInv, EnsureUniqueIndexKeepsInv, VerifyKeepsInv, CompleteKeepsInv, DieKeepsInv, UsersKeepInv
   DEF MigrationNext

\* No step takes an identity from a review, or gives it another.
LEMMA MigrationStepLeavesIdentities ==
  ASSUME MigrationInv, MigrationNext
  PROVE  LeavesIdentities
<1>1. CASE OrderlyChange
  BY <1>1, IdentityComes, InvariantParts DEF LeavesIdentities, There
<1>2. CASE UNCHANGED reviews
  BY <1>2 DEF LeavesIdentities
<1>3. ASSUME NEW o \in Operator, ~UNCHANGED reviews,
             \/ DryRun(o) \/ (\E p \in DOMAIN plans : Apply(o, p)) \/ CheckTarget(o) \/ ReadProgress(o)
             \/ CreateProgress(o) \/ RunBatch(o) \/ RecordProgress(o) \/ EnsureUniqueIndex(o) \/ Verify(o) \/ VerifyIdentities(o) \/ Complete(o) \/ Die(o)
      PROVE  RunBatch(o)
  BY <1>3 DEF DryRun, Apply, CheckTarget, ReadProgress, CreateProgress, RecordProgress, EnsureUniqueIndex, Verify,
              VerifyIdentities, Complete, Die
<1> QED BY <1>1, <1>2, <1>3, RunBatchKeepsInv, UsersKeepInv DEF MigrationNext

(***************************************************************************)
(* The theorems about the migration                                        *)
(***************************************************************************)
\* The migration is safe to run beside users and other operators, and to run again after a fault: an operator who is told
\* that it is done (Complete) has every review with an identity of its own, those of his plan with the ones it gave, and
\* it stays so; the index can be made when it is time; what a progress file says, that it is complete or has a batch, is so
\* of the collection, though it may say less than it did, as operators overwrite it (RecordProgress); and one who is told
\* of a plain failure has changed nothing, unless the session's own error hid it.
THEOREM IdentitiesAreSafe == MigrationSpec => [](MigrationTypeOK /\ IdentitiesHold)
<1>1. MigrationInit => MigrationInv
  BY MigrationInitKeepsInv
<1>2. MigrationInv /\ [MigrationNext]_migrationVars => MigrationInv'
  BY MigrationStepKeepsInv, StutteringKeepsInv
<1>3. MigrationInv => MigrationTypeOK /\ IdentitiesHold
  BY MigrationInvImplies
<1> QED BY <1>1, <1>2, <1>3, PTL DEF MigrationSpec

\* A review that has an identity keeps it, whichever plans are applied, by whom and how often (CommitBatch).
THEOREM IdentitiesNeverChange == MigrationSpec => IdentitiesStay
<1>1. MigrationInit => MigrationInv
  BY MigrationInitKeepsInv
<1>2. MigrationInv /\ [MigrationNext]_migrationVars => MigrationInv'
  BY MigrationStepKeepsInv, StutteringKeepsInv
<1>3. MigrationInv /\ [MigrationNext]_migrationVars => [LeavesIdentities]_migrationVars
  BY MigrationStepLeavesIdentities
<1> QED BY <1>1, <1>2, <1>3, PTL DEF MigrationSpec, IdentitiesStay
=============================================================================
