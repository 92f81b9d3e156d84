------------------------- MODULE TransactionProofs -------------------------
(***************************************************************************)
(* Facts about SnapshotTransactions that the proofs about its users need.  *)
(* Each step of a transaction keeps the shape of the open transactions and *)
(* the rule that a document a transaction did not miss is the one it saw.  *)
(***************************************************************************)
EXTENDS SnapshotTransactions, TLAPS

Transactions == SnapshotShape /\ SnapshotsAreCurrent

Fresh(request) == [req |-> request, snap |-> db, missed |-> {}]

\* What the documents W, committed now, do to the transactions of the clients in others.
FallBehind(others, W) ==
  /\ OpenClients' = others
  /\ \A x \in others : /\ tx'[x].req = tx[x].req /\ tx'[x].snap = tx[x].snap
                       /\ tx'[x].missed = tx[x].missed \cup W

\* The transaction of c, which made t of its snapshot, wrote the documents W.
Committed(c, t, W) ==
  /\ FallBehind(OpenClients \ {c}, W)
  /\ W \subseteq DOMAIN db /\ DOMAIN db' = DOMAIN db
  /\ \A d \in W : d \notin tx[c].missed /\ tx[c].snap[d] = db[d] /\ db'[d] = t[d]
  /\ \A d \in DOMAIN db \ W : db'[d] = db[d] /\ t[d] = tx[c].snap[d]

\* Every open transaction that did not miss the documents W is behind on them.
LEMMA AdvanceKeepsTransactions ==
  ASSUME Transactions, NEW t, DOMAIN t = DOMAIN db, db' = t,
         NEW W, W \subseteq DOMAIN db, Changed(db, t) \subseteq W,
         NEW others, others \subseteq OpenClients, tx' = Behind(others, W)
  PROVE  Transactions' /\ FallBehind(others, W)
<1>1. OpenClients' = others /\ others \subseteq Client
  BY DEF Behind, OpenClients, Transactions, SnapshotShape
<1>2. ASSUME NEW x \in others
      PROVE  /\ DOMAIN tx'[x] = {"req", "snap", "missed"}
             /\ tx'[x].req = tx[x].req /\ tx'[x].snap = tx[x].snap
             /\ tx'[x].missed = tx[x].missed \cup W
  <2>1. tx'[x] = [tx[x] EXCEPT !.missed = @ \cup W]
    BY <1>2 DEF Behind
  <2>2. DOMAIN tx[x] = {"req", "snap", "missed"}
    BY <1>2 DEF Transactions, SnapshotShape
  <2> QED BY <2>1, <2>2
<1>3. SnapshotShape'
  BY <1>1, <1>2 DEF SnapshotShape, Transactions
<1>4. SnapshotsAreCurrent'
  <2> SUFFICES ASSUME NEW x \in others, NEW d \in DOMAIN db, d \notin tx[x].missed, d \notin W
               PROVE  tx[x].snap[d] = t[d]
    BY <1>1, <1>2 DEF SnapshotsAreCurrent
  <2>1. tx[x].snap[d] = db[d]
    BY DEF Transactions, SnapshotsAreCurrent
  <2>2. t[d] = db[d]
    BY DEF Changed
  <2> QED BY <2>1, <2>2
<1> QED BY <1>1, <1>2, <1>3, <1>4 DEF Transactions, FallBehind

\* A commit writes what the transaction saw up to date, and leaves the rest alone.
LEMMA CommitTouchingKeepsTransactions ==
  ASSUME Transactions, NEW c \in OpenClients, NEW t, DOMAIN t = DOMAIN db,
         NEW touched, touched \subseteq DOMAIN db, CommitTouching(c, t, touched)
  PROVE  Transactions' /\ Committed(c, t, touched \cup Changed(tx[c].snap, t))
<1> DEFINE W == touched \cup Changed(tx[c].snap, t)
<1>1. DOMAIN tx[c].snap = DOMAIN db
  BY DEF Transactions, SnapshotShape
<1>2. W \subseteq DOMAIN db
  BY <1>1 DEF Changed
<1>3. /\ W \cap tx[c].missed = {}
      /\ db' = [d \in DOMAIN db |-> IF d \in W THEN t[d] ELSE db[d]]
      /\ tx' = Behind(OpenClients \ {c}, W)
  BY DEF CommitTouching
<1>4. \A d \in W : d \notin tx[c].missed /\ tx[c].snap[d] = db[d] /\ db'[d] = t[d]
  BY <1>2, <1>3 DEF Transactions, SnapshotsAreCurrent
<1>5. \A d \in DOMAIN db \ W : db'[d] = db[d] /\ t[d] = tx[c].snap[d]
  BY <1>1, <1>3 DEF Changed
<1>6. DOMAIN db' = DOMAIN db /\ Changed(db, db') \subseteq W
  BY <1>3 DEF Changed
<1> HIDE DEF W
<1>7. Transactions' /\ FallBehind(OpenClients \ {c}, W)
  BY <1>2, <1>3, <1>6, AdvanceKeepsTransactions
<1> QED BY <1>2, <1>4, <1>5, <1>6, <1>7 DEF W, Committed

\* The same without touched documents.
LEMMA CommitKeepsTransactions ==
  ASSUME Transactions, NEW c \in OpenClients, NEW t, DOMAIN t = DOMAIN db, Commit(c, t)
  PROVE  Transactions' /\ Committed(c, t, Changed(tx[c].snap, t))
<1>1. {} \cup Changed(tx[c].snap, t) = Changed(tx[c].snap, t)
  OBVIOUS
<1>2. CommitTouching(c, t, {})
  BY <1>1 DEF Commit, CommitTouching
<1> QED BY <1>1, <1>2, CommitTouchingKeepsTransactions

\* A write outside any transaction leaves every open snapshot behind.
LEMMA WriteTouchingKeepsTransactions ==
  ASSUME Transactions, NEW t, DOMAIN t = DOMAIN db,
         NEW touched, touched \subseteq DOMAIN db, WriteTouching(t, touched)
  PROVE  Transactions' /\ FallBehind(OpenClients, touched \cup Changed(db, t))
<1>1. touched \cup Changed(db, t) \subseteq DOMAIN db
  BY DEF Changed
<1> QED BY <1>1, AdvanceKeepsTransactions DEF WriteTouching

\* The same for a write that touches no document but those it changes.
LEMMA WriteKeepsTransactions ==
  ASSUME Transactions, NEW t, DOMAIN t = DOMAIN db, Write(t)
  PROVE  Transactions' /\ FallBehind(OpenClients, Changed(db, t))
<1>1. Changed(db, t) \subseteq DOMAIN db
  BY DEF Changed
<1> QED BY <1>1, AdvanceKeepsTransactions DEF Write

\* A transaction begins on the database as it is.
LEMMA BeginKeepsTransactions ==
  ASSUME Transactions, NEW c \in Client, NEW request, Begin(c, request)
  PROVE  /\ Transactions' /\ db' = db /\ c \notin OpenClients /\ OpenClients' = OpenClients \cup {c}
         /\ tx'[c] = Fresh(request) /\ \A x \in OpenClients : tx'[x] = tx[x]
<1>1. /\ OpenClients' = OpenClients \cup {c} /\ db' = db /\ c \notin OpenClients
      /\ tx'[c] = Fresh(request) /\ \A x \in OpenClients : tx'[x] = tx[x]
  BY DEF Begin, OpenClients, Fresh
<1>2. SnapshotShape'
  BY <1>1 DEF Transactions, SnapshotShape, Fresh
<1>3. SnapshotsAreCurrent'
  BY <1>1 DEF Transactions, SnapshotsAreCurrent, Fresh
<1> QED BY <1>1, <1>2, <1>3 DEF Transactions

\* A retry forgets what the transaction saw and missed.
LEMMA RetryKeepsTransactions ==
  ASSUME Transactions, NEW c, Retry(c)
  PROVE  /\ Transactions' /\ db' = db /\ c \in OpenClients /\ OpenClients' = OpenClients
         /\ tx'[c] = Fresh(tx[c].req) /\ \A x \in OpenClients \ {c} : tx'[x] = tx[x]
<1>1. /\ OpenClients' = OpenClients /\ db' = db /\ c \in OpenClients
      /\ tx'[c] = Fresh(tx[c].req) /\ \A x \in OpenClients \ {c} : tx'[x] = tx[x]
  BY DEF Retry, OpenClients, Fresh
<1>2. SnapshotShape'
  BY <1>1 DEF Transactions, SnapshotShape, Fresh
<1>3. SnapshotsAreCurrent'
  BY <1>1 DEF Transactions, SnapshotsAreCurrent, Fresh
<1> QED BY <1>1, <1>2, <1>3 DEF Transactions

\* A transaction that ends without a commit leaves the others as they are.
LEMMA DropKeepsTransactions ==
  ASSUME Transactions, NEW c, tx' = [x \in OpenClients \ {c} |-> tx[x]], db' = db
  PROVE  /\ Transactions' /\ OpenClients' = OpenClients \ {c}
         /\ \A x \in OpenClients \ {c} : tx'[x] = tx[x]
<1>1. OpenClients' = OpenClients \ {c} /\ \A x \in OpenClients \ {c} : tx'[x] = tx[x]
  BY DEF OpenClients
<1>2. SnapshotShape'
  BY <1>1 DEF Transactions, SnapshotShape
<1>3. SnapshotsAreCurrent'
  BY <1>1 DEF Transactions, SnapshotsAreCurrent
<1> QED BY <1>1, <1>2, <1>3 DEF Transactions
=============================================================================
