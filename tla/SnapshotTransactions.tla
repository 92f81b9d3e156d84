------------------------ MODULE SnapshotTransactions ------------------------
(***************************************************************************)
(* MongoDB multi-document transactions as the routes use them through      *)
(* boardMutations.transaction, runReviewTransaction and the listening      *)
(* modules' withTransaction.                                               *)
(*                                                                         *)
(* A transaction works on the snapshot taken at its first read.  Writing a *)
(* document that someone else committed since that snapshot is a write     *)
(* conflict: the driver aborts the attempt and runs the callback again on  *)
(* a fresh snapshot.  A unique-index race (error 11000) is retried by      *)
(* `transaction' itself, and is the same step here: both writers write the *)
(* same document.  Reads never conflict, so write skew is possible; the    *)
(* code under study closes it by "claiming" the documents it read, that is *)
(* by incrementing a revision on them.                                     *)
(*                                                                         *)
(* The number of retries is not bounded here: the driver retries a         *)
(* conflict for two minutes, and giving up is Abort.                       *)
(***************************************************************************)
LOCAL INSTANCE Naturals

CONSTANT Client        \* concurrent requests and jobs

VARIABLES db,          \* committed documents: a function from document to value
          tx           \* open transactions: a function from the clients that have one

OpenClients == DOMAIN tx

\* The documents that t gives another value than s.
Changed(s, t) == { d \in DOMAIN s : t[d] # s[d] }

\* startSession and the first read of withTransaction's callback.
Begin(c, request) ==
  /\ c \notin OpenClients
  /\ tx' = [x \in OpenClients \cup {c} |->
              IF x = c THEN [req |-> request, snap |-> db, missed |-> {}] ELSE tx[x]]
  /\ UNCHANGED db

\* The documents W became visible: every open snapshot is now behind on them.
Behind(others, W) ==
  [x \in others |-> [tx[x] EXCEPT !.missed = @ \cup W]]

\* The callback turned its snapshot into t, and the first committer wins.
Commit(c, t) ==
  LET W == Changed(tx[c].snap, t)
  IN  /\ W \cap tx[c].missed = {}
      /\ db' = [d \in DOMAIN db |-> IF d \in W THEN t[d] ELSE db[d]]
      /\ tx' = Behind(OpenClients \ {c}, W)

\* The same for a callback that also writes the documents in touched without
\* changing what the model keeps of them (a lease, a fence, an updatedAt).
CommitTouching(c, t, touched) ==
  LET W == touched \cup Changed(tx[c].snap, t)
  IN  /\ W \cap tx[c].missed = {}
      /\ db' = [d \in DOMAIN db |-> IF d \in W THEN t[d] ELSE db[d]]
      /\ tx' = Behind(OpenClients \ {c}, W)

\* A transient error: the callback runs again on a fresh snapshot.
Retry(c) ==
  /\ c \in OpenClients
  /\ tx[c].missed # {}
  /\ tx' = [tx EXCEPT ![c] = [req |-> tx[c].req, snap |-> db, missed |-> {}]]
  /\ UNCHANGED db

\* The callback threw (a 4xx), had nothing to write, or the driver gave up.
Abort(c) ==
  /\ c \in OpenClients
  /\ tx' = [x \in OpenClients \ {c} |-> tx[x]]
  /\ UNCHANGED db

\* A single write outside any transaction, which takes the database to t.
Write(t) ==
  /\ db' = t
  /\ tx' = Behind(OpenClients, Changed(db, t))

WriteTouching(t, touched) ==
  /\ db' = t
  /\ tx' = Behind(OpenClients, touched \cup Changed(db, t))

\* What a transaction did not miss is what it saw.
SnapshotsAreCurrent ==
  \A c \in OpenClients : \A d \in DOMAIN db \ tx[c].missed : tx[c].snap[d] = db[d]

\* No document appears or disappears: absence is a value.
SnapshotShape ==
  /\ OpenClients \subseteq Client
  /\ \A c \in OpenClients :
       /\ DOMAIN tx[c] = {"req", "snap", "missed"}
       /\ tx[c].missed \subseteq DOMAIN db
       /\ DOMAIN tx[c].snap = DOMAIN db
=============================================================================
