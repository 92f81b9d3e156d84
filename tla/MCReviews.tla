----------------------------- MODULE MCReviews -----------------------------
(* Instances of Reviews for TLC.                                            *)
EXTENDS Reviews, TLC

CONSTANTS u1, u2, u3, r1, c1, c2, c3, x1, x2

MCSymmetry == Permutations(Client)

Comments(who, parents) == [op: {"createComment"}, review: Review, user: who, parent: parents]
OnComments(ops, who) == [op: ops, comment: Comment, user: who]

\* Every request, from two users; the reviewer's followers are the others.
AllRequests ==
  Comments(User, Comment \cup {Nobody}) \cup OnComments({"deleteComment", "report"}, User)
  \cup [op: {"remove", "dismiss"}, comment: Comment]
  \cup [op: {"deleteReview", "pin"}, review: Review, user: {u1}]
  \cup [op: {"like", "unlike"}, review: Review, user: {u2}]
  \cup [op: {"fanOut"}, review: Review, user: {u1}, recipients: {User \ {u1}}]
  \cup [op: {"deleteAccount"}, user: User]

\* Nothing but creations and deletions of comments.
ThreadRequests == Comments(User, Comment) \cup OnComments({"deleteComment"}, User)

Written(parent, author, replyTo) ==
  [status |-> "visible", review |-> r1, parent |-> parent, author |-> author,
   replyTo |-> replyTo, body |-> TRUE]
Reviewed == [NewSite EXCEPT ![ReviewDoc(r1)] = [status |-> "live", author |-> u1, fannedOut |-> FALSE]]
\* u2 commented on u1's review and u1 answered.
Answering ==
  [Reviewed EXCEPT ![CommentDoc(c1)] = Written(Nobody, u2, Nobody), ![CommentNote(c1, u1)] = u2,
                   ![CommentDoc(c2)] = Written(c1, u1, Nobody), ![CommentNote(c2, u2)] = u1]
\* The same with the comment reported by u1, or removed by a moderator.
Reported == [Answering EXCEPT ![ReportDoc(c1, u1)] = "open"]
Removed ==
  [Answering EXCEPT ![CommentDoc(c1)].status = "removed_by_moderator", ![CommentNote(c1, u1)] = Nobody,
                    ![AuditDoc(c1)] = {"removed"}]
Sites == {NewSite, Answering, Reported, Removed}
Threads == {Answering}
=============================================================================
