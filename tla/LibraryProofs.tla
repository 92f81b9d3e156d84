--------------------------- MODULE LibraryProofs ---------------------------
(***************************************************************************)
(* Proofs about Library.  The invariant that makes the claims work says    *)
(* what a transaction may have missed: if the database holds a membership, *)
(* an item or a pin that its snapshot does not, then the parents of it are *)
(* among the documents it missed, so that claiming a parent conflicts.     *)
(***************************************************************************)
EXTENDS Library, FiniteSetTheorems, FunctionTheorems, SequenceTheorems, TLAPS

(***************************************************************************)
(* Documents                                                               *)
(***************************************************************************)
\* Every named document is one of the library.
LEMMA DocsAreDocs ==
  /\ \A b \in Board : BoardDoc(b) \in LibraryDocs
  /\ \A b \in Board, a \in Album : ItemDoc(b, a) \in LibraryDocs
  /\ \A l \in Listen : ListenDoc(l) \in LibraryDocs
  /\ \A b \in Board, l \in Listen : MemberDoc(b, l) \in LibraryDocs
  /\ \A k \in Key : ReceiptDoc(k) \in LibraryDocs
  /\ \A a \in Album : FenceDoc(a) \in LibraryDocs
  /\ ProfileDoc \in LibraryDocs
BY DEF LibraryDocs

\* Documents of two kinds, or of two ids, are two documents.
LEMMA DocsDiffer ==
  /\ \A b, x : BoardDoc(b) = BoardDoc(x) => b = x
  /\ \A l, x : ListenDoc(l) = ListenDoc(x) => l = x
  /\ \A k, x : ReceiptDoc(k) = ReceiptDoc(x) => k = x
  /\ \A b, a, x, y : ItemDoc(b, a) = ItemDoc(x, y) => b = x /\ a = y
  /\ \A b, l, x, y : MemberDoc(b, l) = MemberDoc(x, y) => b = x /\ l = y
  /\ \A b, x, y : BoardDoc(b) # ItemDoc(x, y) /\ BoardDoc(b) # MemberDoc(x, y)
  /\ \A b, x : BoardDoc(b) # ListenDoc(x) /\ BoardDoc(b) # ReceiptDoc(x) /\ BoardDoc(b) # FenceDoc(x)
  /\ \A b : BoardDoc(b) # ProfileDoc
  /\ \A l, x, y : ListenDoc(l) # ItemDoc(x, y) /\ ListenDoc(l) # MemberDoc(x, y)
  /\ \A l, x : ListenDoc(l) # ReceiptDoc(x) /\ ListenDoc(l) # FenceDoc(x)
  /\ \A l : ListenDoc(l) # ProfileDoc
  /\ \A x, y, z : ReceiptDoc(z) # ItemDoc(x, y) /\ ReceiptDoc(z) # MemberDoc(x, y)
  /\ \A x, y, z : FenceDoc(z) # ItemDoc(x, y) /\ FenceDoc(z) # MemberDoc(x, y)
  /\ \A x, y, u, v : MemberDoc(u, v) # ItemDoc(x, y)
  /\ \A x, y : ReceiptDoc(x) # FenceDoc(y)
  /\ \A x, y : ProfileDoc # ItemDoc(x, y) /\ ProfileDoc # MemberDoc(x, y)
  /\ \A x : ProfileDoc # ReceiptDoc(x) /\ ProfileDoc # FenceDoc(x)
BY DEF BoardDoc, MemberDoc, ItemDoc, ListenDoc, ReceiptDoc, FenceDoc, ProfileDoc

(***************************************************************************)
(* Sequences of albums                                                     *)
(***************************************************************************)
\* An arrangement of albums is a sequence of them.
LEMMA ArrangementsAreSeqs ==
  ASSUME NEW S, S \subseteq Album
  PROVE  Arrangements(S) \subseteq Seq(Album)
<1>1. Cardinality(S) \in Nat
  BY FS_Subset, FS_CardinalityType, LibraryAssumption
<1> QED BY <1>1 DEF Arrangements

\* A board shows albums of the catalog.
LEMMA EntriesAreAlbums ==
  ASSUME NEW s, NEW b PROVE Entries(s, b) \subseteq Album
BY DEF Entries

\* The leading part of a sequence of albums is one.
LEMMA FirstNIsSeq ==
  ASSUME NEW q \in Seq(Album), NEW n \in Nat
  PROVE  FirstN(q, n) \in Seq(Album)
BY DEF FirstN

\* The members of a sequence of albums are albums.
LEMMA ElementsAreAlbums ==
  ASSUME NEW q \in Seq(Album) PROVE Elements(q) \subseteq Album
BY DEF Elements

\* Taking a member out of a queue leaves a queue.
LEMMA WithoutIsSeq ==
  ASSUME NEW q \in Seq(Album), NEW a \in Elements(q)
  PROVE  Without(q, a) \in Seq(Album)
<1> DEFINE p == CHOOSE i \in DOMAIN q : q[i] = a
<1>1. p \in 1..Len(q)
  BY DEF Elements
<1>2. SubSeq(q, 1, p - 1) \in Seq(Album) /\ SubSeq(q, p + 1, Len(q)) \in Seq(Album)
  <2> HIDE DEF p
  <2>1. \A i \in 1..Len(q) : q[i] \in Album
    OBVIOUS
  <2>2. (\A i \in 1..(p - 1) : q[i] \in Album) /\ (\A i \in (p + 1)..Len(q) : q[i] \in Album)
    BY <1>1, <2>1
  <2>3. 1 \in Int /\ p - 1 \in Int /\ p + 1 \in Int /\ Len(q) \in Int
    BY <1>1
  <2> QED BY <2>2, <2>3, SubSeqProperties
<1> QED BY <1>2 DEF Without

\* Whatever syncOrder stores is a sequence of albums.
LEMMA SyncedOrdersAreSeqs ==
  ASSUME NEW s, TypedDocs(s), NEW b \in Board
  PROVE  SyncedOrders(s, b) \subseteq Seq(Album)
<1> DEFINE order == s[BoardDoc(b)].order
<1>1. order \in Seq(Album)
  BY DEF TypedDocs, BoardValue
<1>2. Shown(order, Entries(s, b)) \subseteq Seq(Album)
  BY ArrangementsAreSeqs, EntriesAreAlbums DEF Shown
<1>3. Block(order, Entries(s, b)) \subseteq Seq(Album)
  <2>1. Entries(s, b) \cap Elements(order) \subseteq Album
    BY EntriesAreAlbums
  <2> QED BY <2>1, ArrangementsAreSeqs DEF Block
<1> QED BY <1>1, <1>2, <1>3 DEF SyncedOrders, ReconciledOrders

(***************************************************************************)
(* States of the documents                                                 *)
(***************************************************************************)
WellFormed(s) == LibraryDocs \subseteq DOMAIN s /\ TypedDocs(s)
Sound(s)      == MembersHaveParents(s) /\ ItemsHaveBoards(s) /\ PinIsLive(s)

\* Whatever t has that s has not, its parents are in W.
ParentsIn(s, t, W) ==
  /\ \A b \in Board, l \in Listen : t[MemberDoc(b, l)] /\ ~s[MemberDoc(b, l)] =>
       BoardDoc(b) \in W /\ ListenDoc(l) \in W
  /\ \A b \in Board, a \in Album : t[ItemDoc(b, a)] /\ ~s[ItemDoc(b, a)] => BoardDoc(b) \in W
  /\ t[ProfileDoc].pin \notin {NoBoard, s[ProfileDoc].pin} => BoardDoc(t[ProfileDoc].pin) \in W

\* What every operation does to the state it is given.
SafeStep(s, t) ==
  /\ DOMAIN t = DOMAIN s /\ WellFormed(t) /\ Sound(t)
  /\ ParentsIn(s, t, Changed(s, t))

\* t differs from s at board documents only, and every board lives on.
OnlyBoards(s, t) ==
  /\ DOMAIN t = DOMAIN s /\ WellFormed(t)
  /\ \A x \in DOMAIN s : (\A b \in Board : x # BoardDoc(b)) => t[x] = s[x]
  /\ \A b \in Board : Live(s, b) => Live(t, b)
  /\ \A b \in Board : s[BoardDoc(b)].rev <= t[BoardDoc(b)].rev

Claimed(s, t, b) == /\ Live(t, b)
                    /\ Live(s, b) => s[BoardDoc(b)].rev < t[BoardDoc(b)].rev

\* The documents of the other kinds, one by one.
SameButBoards(s, t) ==
  /\ \A b \in Board, a \in Album : t[ItemDoc(b, a)] = s[ItemDoc(b, a)]
  /\ \A l \in Listen : t[ListenDoc(l)] = s[ListenDoc(l)]
  /\ \A b \in Board, l \in Listen : t[MemberDoc(b, l)] = s[MemberDoc(b, l)]
  /\ \A k \in Key : t[ReceiptDoc(k)] = s[ReceiptDoc(k)]
  /\ \A a \in Album : t[FenceDoc(a)] = s[FenceDoc(a)]
  /\ t[ProfileDoc] = s[ProfileDoc]

\* A state that differs at board documents only has the other documents unchanged.
LEMMA OnlyBoardsChange ==
  ASSUME NEW s, NEW t, WellFormed(s),
         \A x \in DOMAIN s : (\A b \in Board : x # BoardDoc(b)) => t[x] = s[x]
  PROVE  SameButBoards(s, t)
<1>1. \A x \in LibraryDocs : (\A b \in Board : x # BoardDoc(b)) => t[x] = s[x]
  BY DEF WellFormed
<1>2. \A b \in Board, a \in Album : t[ItemDoc(b, a)] = s[ItemDoc(b, a)]
  BY <1>1, DocsAreDocs, DocsDiffer
<1>3. \A l \in Listen : t[ListenDoc(l)] = s[ListenDoc(l)]
  BY <1>1, DocsAreDocs, DocsDiffer
<1>4. \A b \in Board, l \in Listen : t[MemberDoc(b, l)] = s[MemberDoc(b, l)]
  BY <1>1, DocsAreDocs, DocsDiffer
<1>5. \A k \in Key : t[ReceiptDoc(k)] = s[ReceiptDoc(k)]
  BY <1>1, DocsAreDocs, DocsDiffer
<1>6. \A a \in Album : t[FenceDoc(a)] = s[FenceDoc(a)]
  BY <1>1, DocsAreDocs, DocsDiffer
<1>7. t[ProfileDoc] = s[ProfileDoc]
  BY <1>1, DocsAreDocs, DocsDiffer
<1> QED BY <1>2, <1>3, <1>4, <1>5, <1>6, <1>7 DEF SameButBoards

\* How to show that an edit touches boards only and keeps them alive.
LEMMA BoardsOnlyIntro ==
  ASSUME NEW s, NEW t, WellFormed(s), DOMAIN t = DOMAIN s,
         \A x \in DOMAIN s : (\A b \in Board : x # BoardDoc(b)) => t[x] = s[x],
         \A b \in Board : /\ t[BoardDoc(b)] \in BoardValue
                          /\ Live(s, b) => Live(t, b)
                          /\ s[BoardDoc(b)].rev <= t[BoardDoc(b)].rev
  PROVE  OnlyBoards(s, t)
<1>1. SameButBoards(s, t)
  BY OnlyBoardsChange
<1>2. TypedDocs(t)
  BY <1>1 DEF WellFormed, TypedDocs, SameButBoards
<1> QED BY <1>2 DEF OnlyBoards, WellFormed

\* claimBoard with createDefault claims a live board or creates the default one.
LEMMA ClaimOrCreateEffect ==
  ASSUME NEW s, WellFormed(s), NEW b \in Board, Claimable(s, b, TRUE)
  PROVE  OnlyBoards(s, ClaimOrCreate(s, b)) /\ Claimed(s, ClaimOrCreate(s, b), b)
<1> DEFINE t == ClaimOrCreate(s, b)
<1>1. \A x \in Board : s[BoardDoc(x)] \in BoardValue
  BY DEF WellFormed, TypedDocs
<1>2. /\ DOMAIN t = DOMAIN s
      /\ \A x \in DOMAIN s : x # BoardDoc(b) => t[x] = s[x]
  BY DEF ClaimOrCreate, ClaimBoard
<1>3. BoardDoc(b) \in DOMAIN s
  BY DocsAreDocs DEF WellFormed
<1>4. CASE Live(s, b)
  <2>1. t[BoardDoc(b)] = [s[BoardDoc(b)] EXCEPT !.rev = @ + 1]
    BY <1>3, <1>4 DEF ClaimOrCreate, ClaimBoard
  <2>2. t[BoardDoc(b)] \in BoardValue /\ t[BoardDoc(b)].state = "live" /\ s[BoardDoc(b)].rev < t[BoardDoc(b)].rev
    BY <1>1, <2>1, <1>4 DEF BoardValue, Live
  <2> HIDE DEF t
  <2>3. \A x \in Board : s[BoardDoc(x)].rev <= t[BoardDoc(x)].rev /\ t[BoardDoc(x)] \in BoardValue
    BY <1>1, <1>2, <2>2, DocsDiffer, DocsAreDocs DEF BoardValue, WellFormed
  <2> QED BY <1>2, <1>3, <2>2, <2>3, <1>4, BoardsOnlyIntro, DocsDiffer, DocsAreDocs DEF Live, Claimed, t, WellFormed
<1>5. CASE ~Live(s, b)
  <2>1. t[BoardDoc(b)] = [s[BoardDoc(b)] EXCEPT !.state = "live"]
    BY <1>3, <1>5 DEF ClaimOrCreate
  <2>2. t[BoardDoc(b)] \in BoardValue /\ t[BoardDoc(b)].state = "live" /\ s[BoardDoc(b)].rev = t[BoardDoc(b)].rev
    BY <1>1, <2>1, <1>5 DEF BoardValue, Live, Life
  <2> HIDE DEF t
  <2>3. \A x \in Board : s[BoardDoc(x)].rev <= t[BoardDoc(x)].rev /\ t[BoardDoc(x)] \in BoardValue
    BY <1>1, <1>2, <2>2, DocsDiffer, DocsAreDocs DEF BoardValue, WellFormed
  <2> QED BY <1>2, <1>3, <2>2, <2>3, <1>5, BoardsOnlyIntro, DocsDiffer, DocsAreDocs DEF Live, Claimed, t, WellFormed
<1> QED BY <1>4, <1>5

\* claimBoard changes the revision of a live board, and nothing else.
LEMMA ClaimBoardEffect ==
  ASSUME NEW s, WellFormed(s), NEW b \in Board, Live(s, b)
  PROVE  OnlyBoards(s, ClaimBoard(s, b)) /\ Claimed(s, ClaimBoard(s, b), b)
<1>1. ClaimOrCreate(s, b) = ClaimBoard(s, b) /\ Claimable(s, b, TRUE)
  BY DEF ClaimOrCreate, Claimable
<1> QED BY <1>1, ClaimOrCreateEffect

\* Claiming a set of boards claims each of them.
LEMMA ClaimBoardsEffect ==
  ASSUME NEW s, WellFormed(s), NEW B \in SUBSET Board, \A b \in B : Live(s, b)
  PROVE  OnlyBoards(s, ClaimBoards(s, B)) /\ \A b \in B : Claimed(s, ClaimBoards(s, B), b)
<1> DEFINE t == ClaimBoards(s, B)
<1>1. \A x \in Board : s[BoardDoc(x)] \in BoardValue
  BY DEF WellFormed, TypedDocs
<1>2. /\ DOMAIN t = DOMAIN s
      /\ \A x \in DOMAIN s : (\A b \in Board : x # BoardDoc(b)) => t[x] = s[x]
  BY DEF ClaimBoards
<1>3. \A b \in B : t[BoardDoc(b)] = [s[BoardDoc(b)] EXCEPT !.rev = @ + 1]
  BY DocsAreDocs DEF ClaimBoards, WellFormed
<1>4. \A b \in Board \ B : t[BoardDoc(b)] = s[BoardDoc(b)]
  BY DocsAreDocs, DocsDiffer DEF ClaimBoards, WellFormed
<1> HIDE DEF t
<1>5. \A b \in B : /\ t[BoardDoc(b)] \in BoardValue
                   /\ t[BoardDoc(b)].state = s[BoardDoc(b)].state
                   /\ s[BoardDoc(b)].rev < t[BoardDoc(b)].rev
  <2> TAKE b \in B
  <2>1. s[BoardDoc(b)] \in BoardValue
    BY <1>1
  <2>2. t[BoardDoc(b)] = [s[BoardDoc(b)] EXCEPT !.rev = @ + 1]
    BY <1>3
  <2> QED BY <2>1, <2>2 DEF BoardValue
<1>6. \A b \in Board : /\ t[BoardDoc(b)] \in BoardValue
                       /\ Live(s, b) => Live(t, b)
                       /\ s[BoardDoc(b)].rev <= t[BoardDoc(b)].rev
  <2> SUFFICES ASSUME NEW b \in Board
               PROVE  /\ t[BoardDoc(b)] \in BoardValue
                      /\ Live(s, b) => Live(t, b)
                      /\ s[BoardDoc(b)].rev <= t[BoardDoc(b)].rev
    OBVIOUS
  <2>1. s[BoardDoc(b)].rev \in Nat
    BY <1>1 DEF BoardValue
  <2>2. t[BoardDoc(b)].rev \in Nat
    BY <1>1, <1>4, <1>5 DEF BoardValue
  <2> QED BY <1>1, <1>4, <1>5, <2>1, <2>2 DEF Live
<1>7. OnlyBoards(s, t)
  BY <1>2, <1>6, BoardsOnlyIntro
<1> QED BY <1>5, <1>6, <1>7 DEF Claimed, t

\* syncOrder touches nothing but the orders of its boards.
LEMMA SyncedEffect ==
  ASSUME NEW s, WellFormed(s), NEW B \in SUBSET Board, NEW t \in Synced(s, B)
  PROVE  OnlyBoards(s, t)
<1>1. PICK f \in [B -> UNION { SyncedOrders(s, b) : b \in B }] :
        /\ \A b \in B : f[b] \in SyncedOrders(s, b)
        /\ t = [x \in DOMAIN s |-> IF \E b \in B : x = BoardDoc(b)
                                   THEN [s[x] EXCEPT !.order = f[x[2]]] ELSE s[x]]
  BY DEF Synced
<1>2. \A x \in Board : s[BoardDoc(x)] \in BoardValue
  BY DEF WellFormed, TypedDocs
<1>3. /\ DOMAIN t = DOMAIN s
      /\ \A x \in DOMAIN s : (\A b \in Board : x # BoardDoc(b)) => t[x] = s[x]
  BY <1>1
<1>4. \A b \in B : t[BoardDoc(b)] = [s[BoardDoc(b)] EXCEPT !.order = f[b]]
  <2>1. \A b \in B : BoardDoc(b) \in DOMAIN s /\ BoardDoc(b)[2] = b
    BY DocsAreDocs DEF WellFormed, BoardDoc
  <2> QED BY <1>1, <2>1
<1>5. \A b \in Board \ B : t[BoardDoc(b)] = s[BoardDoc(b)]
  BY <1>1, DocsAreDocs, DocsDiffer DEF WellFormed
<1>6. \A b \in B : f[b] \in Seq(Album)
  BY <1>1, SyncedOrdersAreSeqs DEF WellFormed
<1>7. \A b \in B : /\ t[BoardDoc(b)] \in BoardValue
                   /\ t[BoardDoc(b)].state = s[BoardDoc(b)].state
                   /\ t[BoardDoc(b)].rev = s[BoardDoc(b)].rev
  BY <1>2, <1>4, <1>6 DEF BoardValue
<1>8. \A b \in Board : /\ t[BoardDoc(b)] \in BoardValue
                       /\ Live(s, b) => Live(t, b)
                       /\ s[BoardDoc(b)].rev <= t[BoardDoc(b)].rev
  <2>1. \A b \in Board : s[BoardDoc(b)].rev \in Nat
    BY <1>2 DEF BoardValue
  <2> QED BY <1>2, <1>5, <1>7, <2>1 DEF Live
<1> QED BY <1>3, <1>8, BoardsOnlyIntro

(***************************************************************************)
(* What an operation must do to be safe                                    *)
(***************************************************************************)
Touched(s, t, x) == t[x] # s[x]

\* An operation that deletes no board and no listen.
LEMMA SafeStepIntro ==
  ASSUME NEW s, NEW t, WellFormed(s), Sound(s), DOMAIN t = DOMAIN s, WellFormed(t),
         \A b \in Board : Live(s, b) => Live(t, b),
         \A l \in Listen : LiveListen(s, l) => LiveListen(t, l),
         \A b \in Board, l \in Listen : t[MemberDoc(b, l)] /\ ~s[MemberDoc(b, l)] =>
           /\ Live(t, b) /\ Touched(s, t, BoardDoc(b))
           /\ LiveListen(t, l) /\ Touched(s, t, ListenDoc(l)),
         \A b \in Board, a \in Album : t[ItemDoc(b, a)] /\ ~s[ItemDoc(b, a)] =>
           Live(t, b) /\ Touched(s, t, BoardDoc(b)),
         t[ProfileDoc].pin \notin {NoBoard, s[ProfileDoc].pin} =>
           Live(t, t[ProfileDoc].pin) /\ Touched(s, t, BoardDoc(t[ProfileDoc].pin))
  PROVE  SafeStep(s, t)
<1>1. MembersHaveParents(t)
  BY DEF Sound, MembersHaveParents
<1>2. ItemsHaveBoards(t)
  BY DEF Sound, ItemsHaveBoards
<1>3. t[ProfileDoc].pin \in Board \cup {NoBoard} /\ s[ProfileDoc].pin \in Board \cup {NoBoard}
  BY DEF WellFormed, TypedDocs, ProfileValue
<1>4. PinIsLive(t)
  BY <1>3, LibraryAssumption DEF Sound, PinIsLive
<1>5. \A b \in Board : Touched(s, t, BoardDoc(b)) => BoardDoc(b) \in Changed(s, t)
  BY DocsAreDocs DEF Touched, Changed, WellFormed
<1>6. \A l \in Listen : Touched(s, t, ListenDoc(l)) => ListenDoc(l) \in Changed(s, t)
  BY DocsAreDocs DEF Touched, Changed, WellFormed
<1>7. ParentsIn(s, t, Changed(s, t))
  BY <1>3, <1>5, <1>6 DEF ParentsIn
<1> QED BY <1>1, <1>2, <1>4, <1>7 DEF SafeStep, Sound

\* Claims, then an edit of other documents, then syncOrder.
LEMMA ClaimEditSync ==
  ASSUME NEW s, NEW s1, NEW s2, NEW t, WellFormed(s), OnlyBoards(s, s1),
         DOMAIN s2 = DOMAIN s1, WellFormed(s2),
         \A b \in Board : s2[BoardDoc(b)] = s1[BoardDoc(b)],
         OnlyBoards(s2, t)
  PROVE  /\ DOMAIN t = DOMAIN s /\ WellFormed(t)
         /\ SameButBoards(s, s1) /\ SameButBoards(s2, t)
         /\ \A b \in Board : Live(s, b) => Live(t, b)
         /\ \A b \in Board : Claimed(s, s1, b) => Live(t, b) /\ Touched(s, t, BoardDoc(b))
<1>1. /\ DOMAIN t = DOMAIN s /\ WellFormed(t)
      /\ \A b \in Board : Live(s, b) => Live(t, b)
  BY DEF OnlyBoards, Live
<1>2. SameButBoards(s, s1) /\ SameButBoards(s2, t)
  <2>1. SameButBoards(s, s1)
    BY OnlyBoardsChange DEF OnlyBoards
  <2>2. SameButBoards(s2, t)
    BY OnlyBoardsChange DEF OnlyBoards
  <2> QED BY <2>1, <2>2
<1>3. ASSUME NEW b \in Board, Claimed(s, s1, b)
      PROVE  Live(t, b) /\ Touched(s, t, BoardDoc(b))
  <2>1. Live(t, b)
    BY <1>3 DEF OnlyBoards, Live, Claimed
  <2>2. /\ s[BoardDoc(b)].rev \in Nat /\ s1[BoardDoc(b)].rev \in Nat
        /\ t[BoardDoc(b)].rev \in Nat
    BY DEF WellFormed, OnlyBoards, TypedDocs, BoardValue
  <2>3. CASE Live(s, b)
    <3>1. s[BoardDoc(b)].rev < s1[BoardDoc(b)].rev
      BY <1>3, <2>3 DEF Claimed
    <3>2. s1[BoardDoc(b)].rev <= t[BoardDoc(b)].rev
      BY DEF OnlyBoards
    <3>3. s[BoardDoc(b)].rev # t[BoardDoc(b)].rev
      BY <2>2, <3>1, <3>2
    <3> QED BY <2>1, <3>3 DEF Touched
  <2>4. CASE ~Live(s, b)
    BY <2>1, <2>4 DEF Touched, Live
  <2> QED BY <2>1, <2>3, <2>4
<1> QED BY <1>1, <1>2, <1>3

(***************************************************************************)
(* The operations                                                          *)
(***************************************************************************)
\* saveAlbum claims the board it saves on.
LEMMA SaveAlbumIsSafe ==
  ASSUME NEW s, WellFormed(s), Sound(s), NEW b \in Board, NEW a \in Album, Claimable(s, b, TRUE),
         NEW t \in Synced([ClaimOrCreate(s, b) EXCEPT ![ItemDoc(b, a)] = TRUE], {b})
  PROVE  SafeStep(s, t)
<1> DEFINE s1 == ClaimOrCreate(s, b)
           s2 == [s1 EXCEPT ![ItemDoc(b, a)] = TRUE]
<1>1. OnlyBoards(s, s1) /\ Claimed(s, s1, b)
  BY ClaimOrCreateEffect
<1> HIDE DEF s1
<1>2. /\ DOMAIN s2 = DOMAIN s1
      /\ \A x \in Board : s2[BoardDoc(x)] = s1[BoardDoc(x)]
      /\ \A x \in Board, y \in Album : s2[ItemDoc(x, y)] = (IF x = b /\ y = a THEN TRUE ELSE s1[ItemDoc(x, y)])
      /\ \A l \in Listen : s2[ListenDoc(l)] = s1[ListenDoc(l)]
      /\ \A x \in Board, l \in Listen : s2[MemberDoc(x, l)] = s1[MemberDoc(x, l)]
      /\ \A k \in Key : s2[ReceiptDoc(k)] = s1[ReceiptDoc(k)]
      /\ \A y \in Album : s2[FenceDoc(y)] = s1[FenceDoc(y)]
      /\ s2[ProfileDoc] = s1[ProfileDoc]
  BY <1>1, DocsAreDocs, DocsDiffer DEF OnlyBoards, WellFormed
<1> HIDE DEF s2
<1>3. WellFormed(s2)
  BY <1>1, <1>2 DEF OnlyBoards, WellFormed, TypedDocs
<1>4. OnlyBoards(s2, t)
  BY <1>3, SyncedEffect DEF s2, s1
<1>5. /\ DOMAIN t = DOMAIN s /\ WellFormed(t)
      /\ SameButBoards(s, s1) /\ SameButBoards(s2, t)
      /\ \A x \in Board : Live(s, x) => Live(t, x)
      /\ Live(t, b) /\ Touched(s, t, BoardDoc(b))
  BY <1>1, <1>2, <1>3, <1>4, ClaimEditSync
<1>6. \A l \in Listen : t[ListenDoc(l)] = s[ListenDoc(l)]
  BY <1>2, <1>5 DEF SameButBoards
<1>7. \A x \in Board, l \in Listen : t[MemberDoc(x, l)] = s[MemberDoc(x, l)]
  BY <1>2, <1>5 DEF SameButBoards
<1>8. t[ProfileDoc] = s[ProfileDoc]
  BY <1>2, <1>5 DEF SameButBoards
<1>9. \A x \in Board, y \in Album : t[ItemDoc(x, y)] # s[ItemDoc(x, y)] => x = b
  BY <1>2, <1>5 DEF SameButBoards
<1> QED BY <1>5, <1>6, <1>7, <1>8, <1>9, SafeStepIntro DEF LiveListen

\* removeAlbum only takes items and memberships away.
LEMMA RemoveAlbumIsSafe ==
  ASSUME NEW s, WellFormed(s), Sound(s), NEW b \in Board, NEW a \in Album, Live(s, b),
         NEW t \in Synced(RemoveFromBoard(ClaimBoard(s, b), b, a), {b})
  PROVE  SafeStep(s, t)
<1> DEFINE s1 == ClaimBoard(s, b)
           s2 == RemoveFromBoard(s1, b, a)
<1>1. OnlyBoards(s, s1) /\ Claimed(s, s1, b)
  BY ClaimBoardEffect
<1> HIDE DEF s1
<1>2. /\ DOMAIN s2 = DOMAIN s1
      /\ \A x \in Board : s2[BoardDoc(x)] = s1[BoardDoc(x)]
      /\ \A x \in Board, y \in Album : s2[ItemDoc(x, y)] \in {FALSE, s1[ItemDoc(x, y)]}
      /\ \A l \in Listen : s2[ListenDoc(l)] = s1[ListenDoc(l)]
      /\ \A x \in Board, l \in Listen : s2[MemberDoc(x, l)] \in {FALSE, s1[MemberDoc(x, l)]}
      /\ \A k \in Key : s2[ReceiptDoc(k)] = s1[ReceiptDoc(k)]
      /\ \A y \in Album : s2[FenceDoc(y)] = s1[FenceDoc(y)]
      /\ s2[ProfileDoc] = s1[ProfileDoc]
  BY <1>1, DocsAreDocs, DocsDiffer DEF OnlyBoards, WellFormed, RemoveFromBoard
<1> HIDE DEF s2
<1>3. WellFormed(s2)
  BY <1>1, <1>2 DEF OnlyBoards, WellFormed, TypedDocs
<1>4. OnlyBoards(s2, t)
  BY <1>3, SyncedEffect DEF s2, s1
<1>5. /\ DOMAIN t = DOMAIN s /\ WellFormed(t)
      /\ SameButBoards(s, s1) /\ SameButBoards(s2, t)
      /\ \A x \in Board : Live(s, x) => Live(t, x)
  BY <1>1, <1>2, <1>3, <1>4, ClaimEditSync
<1>6. \A l \in Listen : t[ListenDoc(l)] = s[ListenDoc(l)]
  BY <1>2, <1>5 DEF SameButBoards
<1>7. \A x \in Board, l \in Listen : t[MemberDoc(x, l)] => s[MemberDoc(x, l)]
  BY <1>2, <1>5 DEF SameButBoards
<1>8. t[ProfileDoc] = s[ProfileDoc]
  BY <1>2, <1>5 DEF SameButBoards
<1>9. \A x \in Board, y \in Album : t[ItemDoc(x, y)] => s[ItemDoc(x, y)]
  BY <1>2, <1>5 DEF SameButBoards
<1> QED BY <1>5, <1>6, <1>7, <1>8, <1>9, SafeStepIntro DEF LiveListen

\* setMembership claims both parents of the membership.
LEMMA SetMembershipIsSafe ==
  ASSUME NEW s, WellFormed(s), Sound(s), NEW b \in Board, NEW l \in Listen, NEW attached \in BOOLEAN,
         Claimable(s, b, attached), LiveListen(s, l),
         NEW t \in Synced([ClaimListen(ClaimOrCreate(s, b), l) EXCEPT ![MemberDoc(b, l)] = attached], {b})
  PROVE  SafeStep(s, t)
<1> DEFINE s1 == ClaimOrCreate(s, b)
           s2 == [ClaimListen(s1, l) EXCEPT ![MemberDoc(b, l)] = attached]
<1>0. Claimable(s, b, TRUE)
  BY DEF Claimable
<1>1. OnlyBoards(s, s1) /\ Claimed(s, s1, b)
  BY <1>0, ClaimOrCreateEffect
<1> HIDE DEF s1
<1>2. /\ DOMAIN s2 = DOMAIN s1
      /\ \A x \in Board : s2[BoardDoc(x)] = s1[BoardDoc(x)]
      /\ \A x \in Board, y \in Album : s2[ItemDoc(x, y)] = s1[ItemDoc(x, y)]
      /\ s2[ListenDoc(l)] = [s1[ListenDoc(l)] EXCEPT !.rev = @ + 1]
      /\ \A m \in Listen \ {l} : s2[ListenDoc(m)] = s1[ListenDoc(m)]
      /\ s2[MemberDoc(b, l)] = attached
      /\ \A x \in Board, m \in Listen : x # b \/ m # l => s2[MemberDoc(x, m)] = s1[MemberDoc(x, m)]
      /\ \A k \in Key : s2[ReceiptDoc(k)] = s1[ReceiptDoc(k)]
      /\ \A y \in Album : s2[FenceDoc(y)] = s1[FenceDoc(y)]
      /\ s2[ProfileDoc] = s1[ProfileDoc]
  BY <1>1, DocsAreDocs, DocsDiffer DEF OnlyBoards, WellFormed, ClaimListen
<1> HIDE DEF s2
<1>3. /\ s2[ListenDoc(l)] \in ListenValue /\ s2[ListenDoc(l)].state = "live"
      /\ s2[ListenDoc(l)].rev # s[ListenDoc(l)].rev
  <2>1. s1[ListenDoc(l)] = s[ListenDoc(l)] /\ s[ListenDoc(l)] \in ListenValue
    BY <1>1, OnlyBoardsChange DEF OnlyBoards, SameButBoards, WellFormed, TypedDocs
  <2>2. s[ListenDoc(l)] \in [state: {"live", "deleted"}, rev: Nat, album: Album, date: Date,
                             source: {"manual", "automatic"}]
    BY <2>1 DEF ListenValue, LiveListen
  <2>3. s2[ListenDoc(l)] = [s[ListenDoc(l)] EXCEPT !.rev = @ + 1]
    BY <1>2, <2>1
  <2> QED BY <2>2, <2>3 DEF ListenValue, LiveListen
<1>4. WellFormed(s2)
  BY <1>1, <1>2, <1>3 DEF OnlyBoards, WellFormed, TypedDocs
<1>5. OnlyBoards(s2, t)
  BY <1>4, SyncedEffect DEF s2, s1
<1>6. /\ DOMAIN t = DOMAIN s /\ WellFormed(t)
      /\ SameButBoards(s, s1) /\ SameButBoards(s2, t)
      /\ \A x \in Board : Live(s, x) => Live(t, x)
      /\ Live(t, b) /\ Touched(s, t, BoardDoc(b))
  BY <1>1, <1>2, <1>4, <1>5, ClaimEditSync
<1>7. /\ \A m \in Listen \ {l} : t[ListenDoc(m)] = s[ListenDoc(m)]
      /\ LiveListen(t, l) /\ Touched(s, t, ListenDoc(l))
  BY <1>2, <1>3, <1>6 DEF SameButBoards, LiveListen, Touched
<1>8. \A x \in Board, m \in Listen : x # b \/ m # l => t[MemberDoc(x, m)] = s[MemberDoc(x, m)]
  BY <1>2, <1>6 DEF SameButBoards
<1>9. t[ProfileDoc] = s[ProfileDoc]
  BY <1>2, <1>6 DEF SameButBoards
<1>10. \A x \in Board, y \in Album : t[ItemDoc(x, y)] = s[ItemDoc(x, y)]
  BY <1>2, <1>6 DEF SameButBoards
<1>11. \A m \in Listen : LiveListen(s, m) => LiveListen(t, m)
  BY <1>7 DEF LiveListen
<1> QED BY <1>6, <1>7, <1>8, <1>9, <1>10, <1>11, SafeStepIntro

\* Changing only boards that live on is safe.
LEMMA OnlyBoardsIsSafe ==
  ASSUME NEW s, NEW t, WellFormed(s), Sound(s), OnlyBoards(s, t)
  PROVE  SafeStep(s, t)
<1>1. SameButBoards(s, t)
  BY OnlyBoardsChange DEF OnlyBoards
<1> QED BY <1>1, SafeStepIntro DEF OnlyBoards, SameButBoards, LiveListen

\* Board b of s1, claimed since s, gets another order mode or order.
LEMMA BoardEditEffect ==
  ASSUME NEW s, WellFormed(s), NEW s1, OnlyBoards(s, s1), NEW b \in Board,
         NEW manual \in BOOLEAN, NEW order \in Seq(Album)
  PROVE  OnlyBoards(s, [s1 EXCEPT ![BoardDoc(b)].manual = manual, ![BoardDoc(b)].order = order])
<1> DEFINE t == [s1 EXCEPT ![BoardDoc(b)].manual = manual, ![BoardDoc(b)].order = order]
<1>1. /\ DOMAIN t = DOMAIN s1
      /\ \A x \in DOMAIN s1 : x # BoardDoc(b) => t[x] = s1[x]
      /\ t[BoardDoc(b)] = [s1[BoardDoc(b)] EXCEPT !.manual = manual, !.order = order]
  BY DocsAreDocs DEF OnlyBoards, WellFormed
<1> HIDE DEF t
<1>2. \A x \in Board : s1[BoardDoc(x)] \in BoardValue
  BY DEF OnlyBoards, WellFormed, TypedDocs
<1>3. /\ t[BoardDoc(b)] \in BoardValue
      /\ t[BoardDoc(b)].state = s1[BoardDoc(b)].state /\ t[BoardDoc(b)].rev = s1[BoardDoc(b)].rev
  BY <1>1, <1>2 DEF BoardValue
<1>4. \A x \in Board : x # b => t[BoardDoc(x)] = s1[BoardDoc(x)]
  BY <1>1, DocsAreDocs, DocsDiffer DEF OnlyBoards, WellFormed
<1>5. \A x \in Board : /\ t[BoardDoc(x)] \in BoardValue
                       /\ Live(s, x) => Live(t, x)
                       /\ s[BoardDoc(x)].rev <= t[BoardDoc(x)].rev
  BY <1>2, <1>3, <1>4 DEF OnlyBoards, Live
<1>6. \A x \in DOMAIN s : (\A y \in Board : x # BoardDoc(y)) => t[x] = s[x]
  BY <1>1 DEF OnlyBoards
<1> QED BY <1>1, <1>5, <1>6, BoardsOnlyIntro DEF OnlyBoards, t

\* updateBoard changes the board document alone.
LEMMA UpdateBoardIsSafe ==
  ASSUME NEW s, WellFormed(s), Sound(s), NEW b \in Board, Claimable(s, b, TRUE),
         NEW manual \in BOOLEAN, NEW order \in Seq(Album)
  PROVE  SafeStep(s, [ClaimOrCreate(s, b) EXCEPT ![BoardDoc(b)].manual = manual,
                                                 ![BoardDoc(b)].order = order])
BY ClaimOrCreateEffect, BoardEditEffect, OnlyBoardsIsSafe

\* reorderBoard changes the board document alone.
LEMMA ReorderBoardIsSafe ==
  ASSUME NEW s, WellFormed(s), Sound(s), NEW b \in Board, Live(s, b), NEW order \in Seq(Album)
  PROVE  SafeStep(s, [ClaimBoard(s, b) EXCEPT ![BoardDoc(b)].order = order])
<1> DEFINE s1 == ClaimBoard(s, b)
           t == [s1 EXCEPT ![BoardDoc(b)].order = order]
           u == [s1 EXCEPT ![BoardDoc(b)].manual = Manual(s1, b), ![BoardDoc(b)].order = order]
<1>1. OnlyBoards(s, s1)
  BY ClaimBoardEffect
<1>2. s1[BoardDoc(b)] \in BoardValue /\ BoardDoc(b) \in DOMAIN s1
  BY <1>1, DocsAreDocs DEF OnlyBoards, WellFormed, TypedDocs
<1>3. Manual(s1, b) \in BOOLEAN
  BY <1>2 DEF Manual, BoardValue
<1> HIDE DEF s1
<1>4. [s1[BoardDoc(b)] EXCEPT !.order = order]
        = [s1[BoardDoc(b)] EXCEPT !.manual = Manual(s1, b), !.order = order]
  BY <1>2 DEF BoardValue, Manual
<1>5. t = u
  BY <1>2, <1>4
<1>6. OnlyBoards(s, u)
  BY <1>1, <1>3, BoardEditEffect
<1> QED BY <1>5, <1>6, OnlyBoardsIsSafe DEF s1

\* PUT /me claims the board it pins.
LEMMA PinBoardIsSafe ==
  ASSUME NEW s, WellFormed(s), Sound(s), NEW b \in Board, Live(s, b)
  PROVE  SafeStep(s, [ClaimBoard(s, b) EXCEPT ![ProfileDoc].exists = TRUE, ![ProfileDoc].pin = b])
<1> DEFINE s1 == ClaimBoard(s, b)
           t == [s1 EXCEPT ![ProfileDoc].exists = TRUE, ![ProfileDoc].pin = b]
<1>1. OnlyBoards(s, s1) /\ Claimed(s, s1, b)
  BY ClaimBoardEffect
<1> HIDE DEF s1
<1>2. /\ DOMAIN t = DOMAIN s1
      /\ \A x \in DOMAIN s1 : x # ProfileDoc => t[x] = s1[x]
      /\ t[ProfileDoc] = [s1[ProfileDoc] EXCEPT !.exists = TRUE, !.pin = b]
  BY <1>1, DocsAreDocs DEF OnlyBoards, WellFormed
<1> HIDE DEF t
<1>3. /\ \A x \in Board : t[BoardDoc(x)] = s1[BoardDoc(x)]
      /\ \A x \in Board, a \in Album : t[ItemDoc(x, a)] = s1[ItemDoc(x, a)]
      /\ \A l \in Listen : t[ListenDoc(l)] = s1[ListenDoc(l)]
      /\ \A x \in Board, l \in Listen : t[MemberDoc(x, l)] = s1[MemberDoc(x, l)]
      /\ \A k \in Key : t[ReceiptDoc(k)] = s1[ReceiptDoc(k)]
      /\ \A a \in Album : t[FenceDoc(a)] = s1[FenceDoc(a)]
  BY <1>1, <1>2, DocsAreDocs, DocsDiffer DEF OnlyBoards, WellFormed
<1>4. t[ProfileDoc] \in ProfileValue /\ t[ProfileDoc].pin = b
  <2>1. s1[ProfileDoc] \in ProfileValue
    BY <1>1 DEF OnlyBoards, WellFormed, TypedDocs
  <2> QED BY <1>2, <2>1 DEF ProfileValue
<1>5. WellFormed(t)
  BY <1>1, <1>2, <1>3, <1>4 DEF OnlyBoards, WellFormed, TypedDocs
<1>6. SameButBoards(s, s1)
  BY <1>1, OnlyBoardsChange DEF OnlyBoards
<1>7. \A x \in Board : Live(s, x) => Live(t, x)
  BY <1>1, <1>3 DEF OnlyBoards, Live
<1>8. Live(t, b) /\ Touched(s, t, BoardDoc(b))
  <2>1. s[BoardDoc(b)] \in BoardValue /\ s1[BoardDoc(b)] \in BoardValue
    BY <1>1 DEF OnlyBoards, WellFormed, TypedDocs
  <2> QED BY <1>1, <1>3, <2>1 DEF Claimed, Live, Touched, BoardValue
<1>9. DOMAIN t = DOMAIN s
  BY <1>1, <1>2 DEF OnlyBoards
<1>10. \A x \in Board, a \in Album : t[ItemDoc(x, a)] = s[ItemDoc(x, a)]
  BY <1>3, <1>6 DEF SameButBoards
<1>11. \A l \in Listen : t[ListenDoc(l)] = s[ListenDoc(l)]
  BY <1>3, <1>6 DEF SameButBoards
<1>12. \A x \in Board, l \in Listen : t[MemberDoc(x, l)] = s[MemberDoc(x, l)]
  BY <1>3, <1>6 DEF SameButBoards
<1> QED BY <1>4, <1>5, <1>7, <1>8, <1>9, <1>10, <1>11, <1>12, SafeStepIntro DEF LiveListen, t, s1

\* Taking a listened album off the queue keeps a profile, and its pin.
LEMMA WithoutListenedIsProfile ==
  ASSUME NEW p \in ProfileValue, NEW a
  PROVE  WithoutListened(p, a) \in ProfileValue /\ WithoutListened(p, a).pin = p.pin
<1>1. CASE p.rev > 0 /\ a \in Elements(p.queue)
  <2>1. p.queue \in Seq(Album)
    BY DEF ProfileValue
  <2>2. Without(p.queue, a) \in Seq(Album)
    BY <1>1, <2>1, WithoutIsSeq
  <2>3. WithoutListened(p, a) = [p EXCEPT !.queue = Without(p.queue, a), !.rev = @ + 1]
    BY <1>1 DEF WithoutListened
  <2>4. WithoutListened(p, a) = [exists |-> p.exists, pin |-> p.pin, queue |-> Without(p.queue, a),
                                 legacy |-> p.legacy, rev |-> p.rev + 1]
    BY <2>3 DEF ProfileValue
  <2>5. /\ p.exists \in BOOLEAN /\ p.pin \in Board \cup {NoBoard} /\ p.legacy \in SUBSET Album
        /\ p.rev + 1 \in Nat
    BY DEF ProfileValue
  <2> QED BY <2>2, <2>4, <2>5 DEF ProfileValue
<1>2. CASE ~(p.rev > 0 /\ a \in Elements(p.queue)) /\ p.rev = 0 /\ a \in p.legacy
  <2>1. WithoutListened(p, a) = [p EXCEPT !.queue = <<>>, !.rev = 1, !.legacy = {}]
    BY <1>2 DEF WithoutListened
  <2>2. WithoutListened(p, a) = [exists |-> p.exists, pin |-> p.pin, queue |-> <<>>,
                                 legacy |-> {}, rev |-> 1]
    BY <2>1 DEF ProfileValue
  <2>3. <<>> \in Seq(Album) /\ {} \in SUBSET Album /\ 1 \in Nat
    OBVIOUS
  <2>4. p.exists \in BOOLEAN /\ p.pin \in Board \cup {NoBoard}
    BY DEF ProfileValue
  <2> QED BY <2>2, <2>3, <2>4 DEF ProfileValue
<1>3. CASE ~(p.rev > 0 /\ a \in Elements(p.queue)) /\ ~(p.rev = 0 /\ a \in p.legacy)
  BY <1>3 DEF WithoutListened
<1> QED BY <1>1, <1>2, <1>3

\* removeListenedAlbum changes the profile alone, and not its pin.
LEMMA RemoveListenedEffect ==
  ASSUME NEW s, WellFormed(s), NEW a
  PROVE  LET t == RemoveListened(s, a)
         IN  /\ DOMAIN t = DOMAIN s
             /\ \A x \in DOMAIN s : x # ProfileDoc => t[x] = s[x]
             /\ t[ProfileDoc] \in ProfileValue /\ t[ProfileDoc].pin = s[ProfileDoc].pin
<1> DEFINE p == [s[ProfileDoc] EXCEPT !.exists = TRUE]
<1>1. p \in ProfileValue /\ p.pin = s[ProfileDoc].pin
  <2>1. s[ProfileDoc] \in ProfileValue
    BY DEF WellFormed, TypedDocs
  <2> QED BY <2>1 DEF ProfileValue
<1>2. RemoveListened(s, a) = [s EXCEPT ![ProfileDoc] = WithoutListened(p, a)]
  BY DEF RemoveListened
<1>3. ProfileDoc \in DOMAIN s
  BY DocsAreDocs DEF WellFormed
<1> HIDE DEF p
<1>4. WithoutListened(p, a) \in ProfileValue /\ WithoutListened(p, a).pin = p.pin
  BY <1>1, WithoutListenedIsProfile
<1> QED BY <1>1, <1>2, <1>3, <1>4

\* fenceAlbumDiary changes the fence of its album alone.
LEMMA FenceAlbumEffect ==
  ASSUME NEW s, WellFormed(s), NEW a \in Album
  PROVE  LET t == FenceAlbum(s, a)
         IN  /\ DOMAIN t = DOMAIN s /\ WellFormed(t)
             /\ \A x \in DOMAIN s : x # FenceDoc(a) => t[x] = s[x]
<1> DEFINE t == FenceAlbum(s, a)
<1>1. /\ DOMAIN t = DOMAIN s
      /\ \A x \in DOMAIN s : x # FenceDoc(a) => t[x] = s[x]
      /\ t[FenceDoc(a)] = s[FenceDoc(a)] + 1
  BY DocsAreDocs DEF FenceAlbum, WellFormed
<1> HIDE DEF t
<1>2. /\ \A x \in Board : t[BoardDoc(x)] = s[BoardDoc(x)]
      /\ \A x \in Board, y \in Album : t[ItemDoc(x, y)] = s[ItemDoc(x, y)]
      /\ \A l \in Listen : t[ListenDoc(l)] = s[ListenDoc(l)]
      /\ \A x \in Board, l \in Listen : t[MemberDoc(x, l)] = s[MemberDoc(x, l)]
      /\ \A k \in Key : t[ReceiptDoc(k)] = s[ReceiptDoc(k)]
      /\ t[ProfileDoc] = s[ProfileDoc]
  BY <1>1, DocsAreDocs, DocsDiffer DEF WellFormed
<1>3. \A y \in Album : s[FenceDoc(y)] \in Nat
  BY DEF WellFormed, TypedDocs
<1>4. \A y \in Album : t[FenceDoc(y)] \in Nat
  <2> TAKE y \in Album
  <2>1. CASE FenceDoc(y) = FenceDoc(a)
    BY <1>1, <1>3, <2>1
  <2>2. CASE FenceDoc(y) # FenceDoc(a)
    BY <1>1, <1>3, <2>2, DocsAreDocs DEF WellFormed
  <2> QED BY <2>1, <2>2
<1>5. WellFormed(t)
  BY <1>1, <1>2, <1>4 DEF WellFormed, TypedDocs
<1> QED BY <1>1, <1>5 DEF t

\* What createListen does beside its claims: the listen, its receipt and its memberships.
ListenAdded(s1, s2, l, listen, k, receipt, B) ==
  /\ DOMAIN s2 = DOMAIN s1
  /\ \A x \in Board : s2[BoardDoc(x)] = s1[BoardDoc(x)]
  /\ \A x \in Board, y \in Album : s2[ItemDoc(x, y)] = s1[ItemDoc(x, y)]
  /\ s2[ListenDoc(l)] = listen
  /\ \A m \in Listen \ {l} : s2[ListenDoc(m)] = s1[ListenDoc(m)]
  /\ \A x \in B : s2[MemberDoc(x, l)] = TRUE
  /\ \A x \in Board, m \in Listen : m # l \/ x \notin B => s2[MemberDoc(x, m)] = s1[MemberDoc(x, m)]
  /\ s2[ReceiptDoc(k)] = receipt
  /\ \A j \in Key \ {k} : s2[ReceiptDoc(j)] = s1[ReceiptDoc(j)]
  /\ \A y \in Album : s2[FenceDoc(y)] = s1[FenceDoc(y)]
  /\ s2[ProfileDoc] = s1[ProfileDoc]

\* Nothing but these documents.
LEMMA NewListenEffect ==
  ASSUME NEW s1, WellFormed(s1), NEW B \in SUBSET Board, NEW k \in Key, NEW l \in Listen,
         NEW a, NEW date, NEW receipt
  PROVE  ListenAdded(s1, AttachAll([InsertListen(s1, l, a, date, "manual") EXCEPT ![ReceiptDoc(k)] = receipt], l, B),
                     l, [state |-> "live", rev |-> 0, album |-> a, date |-> date, source |-> "manual"],
                     k, receipt, B)
<1> DEFINE listen == [state |-> "live", rev |-> 0, album |-> a, date |-> date, source |-> "manual"]
           s2 == AttachAll([InsertListen(s1, l, a, date, "manual") EXCEPT ![ReceiptDoc(k)] = receipt], l, B)
<1>0. /\ LibraryDocs \subseteq DOMAIN s1 /\ ListenDoc(l) # ReceiptDoc(k)
      /\ \A b \in B : MemberDoc(b, l) # ReceiptDoc(k) /\ MemberDoc(b, l) # ListenDoc(l)
  BY DocsDiffer DEF WellFormed
<1> DEFINE u == [InsertListen(s1, l, a, date, "manual") EXCEPT ![ReceiptDoc(k)] = receipt]
<1>12. /\ DOMAIN u = DOMAIN s1 /\ u[ReceiptDoc(k)] = receipt /\ u[ListenDoc(l)] = listen
       /\ \A x \in DOMAIN s1 : x # ReceiptDoc(k) /\ x # ListenDoc(l) => u[x] = s1[x]
  BY <1>0, DocsAreDocs DEF InsertListen
<1> HIDE DEF u, listen
<1>13. s2 = AttachAll(u, l, B)
  BY DEF u
<1>14. DOMAIN s2 = DOMAIN s1
  BY <1>12, <1>13 DEF AttachAll
<1>15. \A x \in DOMAIN s1 : s2[x] = IF \E b \in B : x = MemberDoc(b, l) THEN TRUE ELSE u[x]
  BY <1>12, <1>13 DEF AttachAll
<1> HIDE DEF s2
<1>1. /\ DOMAIN s2 = DOMAIN s1
      /\ \A x \in DOMAIN s1 :
           /\ (\E b \in B : x = MemberDoc(b, l)) => s2[x] = TRUE
           /\ x = ReceiptDoc(k) => s2[x] = receipt
           /\ x = ListenDoc(l) => s2[x] = listen
           /\ x # ReceiptDoc(k) /\ x # ListenDoc(l) /\ ~(\E b \in B : x = MemberDoc(b, l)) => s2[x] = s1[x]
  BY <1>0, <1>12, <1>14, <1>15
<1>2. LibraryDocs \subseteq DOMAIN s1
  BY DEF WellFormed
<1> HIDE DEF s2, listen
<1>3. \A x \in B : s2[MemberDoc(x, l)] = TRUE
  BY <1>1, <1>2, DocsAreDocs
<1>7. \A x \in Board, m \in Listen : m # l \/ x \notin B => s2[MemberDoc(x, m)] = s1[MemberDoc(x, m)]
  <2> SUFFICES ASSUME NEW x \in Board, NEW m \in Listen, m # l \/ x \notin B
               PROVE  s2[MemberDoc(x, m)] = s1[MemberDoc(x, m)]
    OBVIOUS
  <2>1. ~\E b \in B : MemberDoc(x, m) = MemberDoc(b, l)
    BY DocsDiffer
  <2> QED BY <1>1, <1>2, <2>1, DocsAreDocs, DocsDiffer
<1>4. /\ s2[ListenDoc(l)] = listen
      /\ \A m \in Listen \ {l} : s2[ListenDoc(m)] = s1[ListenDoc(m)]
  BY <1>1, <1>2, DocsAreDocs, DocsDiffer
<1>5. /\ s2[ReceiptDoc(k)] = receipt
      /\ \A j \in Key \ {k} : s2[ReceiptDoc(j)] = s1[ReceiptDoc(j)]
  BY <1>1, <1>2, DocsAreDocs, DocsDiffer
<1>6. \A x \in Board : s2[BoardDoc(x)] = s1[BoardDoc(x)]
  <2> TAKE x \in Board
  <2>1. /\ BoardDoc(x) # ReceiptDoc(k) /\ BoardDoc(x) # ListenDoc(l)
        /\ ~\E b \in B : BoardDoc(x) = MemberDoc(b, l)
    BY DocsDiffer
  <2>2. BoardDoc(x) \in DOMAIN s1
    BY <1>2, DocsAreDocs
  <2> QED BY <1>1, <2>1, <2>2
<1>8. \A x \in Board, y \in Album : s2[ItemDoc(x, y)] = s1[ItemDoc(x, y)]
  BY <1>1, <1>2, DocsAreDocs, DocsDiffer
<1>9. \A y \in Album : s2[FenceDoc(y)] = s1[FenceDoc(y)]
  BY <1>1, <1>2, DocsAreDocs, DocsDiffer
<1>10. s2[ProfileDoc] = s1[ProfileDoc]
  BY <1>1, <1>2, DocsAreDocs, DocsDiffer
<1>11. ListenAdded(s1, s2, l, listen, k, receipt, B)
  BY <1>1, <1>3, <1>4, <1>5, <1>6, <1>7, <1>8, <1>9, <1>10 DEF ListenAdded
<1> QED BY <1>11 DEF s2, listen

\* createListen claims every board it attaches the new listen to.
LEMMA CreateListenIsSafe ==
  ASSUME NEW s, WellFormed(s), Sound(s), NEW a \in Album, NEW date \in Date,
         NEW B \in SUBSET Board, \A b \in B : Live(s, b), NEW k \in Key, NEW l \in Listen,
         s[ListenDoc(l)].state = "unborn",
         NEW input \in [album: Album, date: Date, boards: SUBSET Board],
         NEW t \in Synced(AttachAll([InsertListen(ClaimBoards(FenceAlbum(s, a), B), l, a, date, "manual")
                                       EXCEPT ![ReceiptDoc(k)] = [used |-> TRUE, listen |-> l, input |-> input]],
                                    l, B), B)
  PROVE  SafeStep(s, RemoveListened(t, a))
<1> DEFINE s0 == FenceAlbum(s, a)
           s1 == ClaimBoards(s0, B)
           receipt == [used |-> TRUE, listen |-> l, input |-> input]
           listen == [state |-> "live", rev |-> 0, album |-> a, date |-> date, source |-> "manual"]
           s2 == AttachAll([InsertListen(s1, l, a, date, "manual") EXCEPT ![ReceiptDoc(k)] = receipt], l, B)
           u == RemoveListened(t, a)
<1>1. /\ DOMAIN s0 = DOMAIN s /\ WellFormed(s0)
      /\ \A x \in DOMAIN s : x # FenceDoc(a) => s0[x] = s[x]
  BY FenceAlbumEffect
<1>2. /\ \A x \in Board : s0[BoardDoc(x)] = s[BoardDoc(x)]
      /\ \A x \in Board, y \in Album : s0[ItemDoc(x, y)] = s[ItemDoc(x, y)]
      /\ \A m \in Listen : s0[ListenDoc(m)] = s[ListenDoc(m)]
      /\ \A x \in Board, m \in Listen : s0[MemberDoc(x, m)] = s[MemberDoc(x, m)]
      /\ s0[ProfileDoc] = s[ProfileDoc]
  BY <1>1, DocsAreDocs, DocsDiffer DEF WellFormed
<1> HIDE DEF s0
<1>3. OnlyBoards(s0, s1) /\ \A b \in B : Claimed(s0, s1, b)
  BY <1>1, <1>2, ClaimBoardsEffect DEF Live
<1> HIDE DEF s1
<1>4. receipt \in ReceiptValue /\ listen \in ListenValue /\ listen.state = "live"
  BY DEF ReceiptValue, ListenValue
<1> HIDE DEF receipt
<1>5. /\ DOMAIN s2 = DOMAIN s1
      /\ \A x \in Board : s2[BoardDoc(x)] = s1[BoardDoc(x)]
      /\ \A x \in Board, y \in Album : s2[ItemDoc(x, y)] = s1[ItemDoc(x, y)]
      /\ s2[ListenDoc(l)] = listen
      /\ \A m \in Listen \ {l} : s2[ListenDoc(m)] = s1[ListenDoc(m)]
      /\ \A x \in B : s2[MemberDoc(x, l)] = TRUE
      /\ \A x \in Board, m \in Listen : m # l \/ x \notin B => s2[MemberDoc(x, m)] = s1[MemberDoc(x, m)]
      /\ s2[ReceiptDoc(k)] = receipt
      /\ \A j \in Key \ {k} : s2[ReceiptDoc(j)] = s1[ReceiptDoc(j)]
      /\ \A y \in Album : s2[FenceDoc(y)] = s1[FenceDoc(y)]
      /\ s2[ProfileDoc] = s1[ProfileDoc]
  <2>1. WellFormed(s1)
    BY <1>3 DEF OnlyBoards
  <2>2. ListenAdded(s1, s2, l, listen, k, receipt, B)
    BY <2>1, NewListenEffect
  <2> HIDE DEF s2, listen
  <2> QED BY <2>2 DEF ListenAdded
<1>6. OnlyBoards(s2, t) /\ WellFormed(s2)
  <2> HIDE DEF listen, s2
  <2>1. WellFormed(s2)
    BY <1>3, <1>4, <1>5 DEF OnlyBoards, WellFormed, TypedDocs
  <2>2. t \in Synced(s2, B)
    BY DEF s2, s1, s0, receipt
  <2> QED BY <2>1, <2>2, SyncedEffect
<1> HIDE DEF s2, listen
<1>7. /\ DOMAIN t = DOMAIN s0 /\ WellFormed(t)
      /\ SameButBoards(s0, s1) /\ SameButBoards(s2, t)
      /\ \A x \in Board : Live(s0, x) => Live(t, x)
      /\ \A b \in B : Live(t, b) /\ Touched(s0, t, BoardDoc(b))
  BY <1>1, <1>3, <1>5, <1>6, ClaimEditSync
<1>8. /\ DOMAIN u = DOMAIN t
      /\ \A x \in DOMAIN t : x # ProfileDoc => u[x] = t[x]
      /\ u[ProfileDoc] \in ProfileValue /\ u[ProfileDoc].pin = t[ProfileDoc].pin
  BY <1>7, RemoveListenedEffect
<1> HIDE DEF u
<1>9. /\ \A x \in Board : u[BoardDoc(x)] = t[BoardDoc(x)]
      /\ \A x \in Board, y \in Album : u[ItemDoc(x, y)] = t[ItemDoc(x, y)]
      /\ \A m \in Listen : u[ListenDoc(m)] = t[ListenDoc(m)]
      /\ \A x \in Board, m \in Listen : u[MemberDoc(x, m)] = t[MemberDoc(x, m)]
      /\ \A j \in Key : u[ReceiptDoc(j)] = t[ReceiptDoc(j)]
      /\ \A y \in Album : u[FenceDoc(y)] = t[FenceDoc(y)]
  BY <1>7, <1>8, DocsAreDocs, DocsDiffer DEF WellFormed
<1>10. WellFormed(u)
  BY <1>7, <1>8, <1>9 DEF WellFormed, TypedDocs
<1>11. \A x \in Board : Live(s, x) => Live(u, x)
  BY <1>2, <1>7, <1>9 DEF Live
<1>12. \A b \in B : Live(u, b) /\ Touched(s, u, BoardDoc(b))
  BY <1>2, <1>7, <1>9 DEF Live, Touched
<1>13. \A m \in Listen : u[ListenDoc(m)] = IF m = l THEN listen ELSE s[ListenDoc(m)]
  BY <1>2, <1>5, <1>7, <1>9 DEF SameButBoards
<1>14. LiveListen(u, l) /\ Touched(s, u, ListenDoc(l))
  BY <1>4, <1>13 DEF LiveListen, Touched
<1>15. \A x \in Board, m \in Listen : u[MemberDoc(x, m)] = s2[MemberDoc(x, m)]
  BY <1>7, <1>9 DEF SameButBoards
<1>21. \A x \in Board, m \in Listen : s1[MemberDoc(x, m)] = s[MemberDoc(x, m)]
  BY <1>2, <1>7 DEF SameButBoards
<1>16. \A x \in Board, y \in Album : u[ItemDoc(x, y)] = s[ItemDoc(x, y)]
  BY <1>2, <1>5, <1>7, <1>9 DEF SameButBoards
<1>17. u[ProfileDoc].pin = s[ProfileDoc].pin
  BY <1>2, <1>5, <1>7, <1>8 DEF SameButBoards
<1>18. \A m \in Listen : LiveListen(s, m) => LiveListen(u, m)
  BY <1>13, <1>14 DEF LiveListen
<1>19. DOMAIN u = DOMAIN s
  BY <1>1, <1>7, <1>8
<1>20. \A x \in Board, m \in Listen : u[MemberDoc(x, m)] /\ ~s[MemberDoc(x, m)] => m = l /\ x \in B
  BY <1>5, <1>15, <1>21
<1> QED BY <1>10, <1>11, <1>12, <1>14, <1>16, <1>17, <1>18, <1>19, <1>20, SafeStepIntro DEF u

\* updateListen changes the listen alone, and keeps it alive.
LEMMA UpdateListenIsSafe ==
  ASSUME NEW s, WellFormed(s), Sound(s), NEW l \in Listen, LiveListen(s, l), NEW date \in Date
  PROVE  SafeStep(s, [ClaimListen(s, l) EXCEPT ![ListenDoc(l)].date = date])
<1> DEFINE t == [ClaimListen(s, l) EXCEPT ![ListenDoc(l)].date = date]
<1>1. s[ListenDoc(l)] \in [state: {"live", "deleted"}, rev: Nat, album: Album, date: Date,
                           source: {"manual", "automatic"}]
  <2>1. s[ListenDoc(l)] \in ListenValue
    BY DEF WellFormed, TypedDocs
  <2> QED BY <2>1 DEF ListenValue, LiveListen
<1>2. /\ DOMAIN t = DOMAIN s
      /\ \A x \in DOMAIN s : x # ListenDoc(l) => t[x] = s[x]
      /\ t[ListenDoc(l)] = [s[ListenDoc(l)] EXCEPT !.rev = @ + 1, !.date = date]
  BY DocsAreDocs DEF ClaimListen, WellFormed
<1> HIDE DEF t
<1>3. /\ \A b \in Board : t[BoardDoc(b)] = s[BoardDoc(b)]
      /\ \A b \in Board, a \in Album : t[ItemDoc(b, a)] = s[ItemDoc(b, a)]
      /\ \A m \in Listen \ {l} : t[ListenDoc(m)] = s[ListenDoc(m)]
      /\ \A b \in Board, m \in Listen : t[MemberDoc(b, m)] = s[MemberDoc(b, m)]
      /\ \A k \in Key : t[ReceiptDoc(k)] = s[ReceiptDoc(k)]
      /\ \A a \in Album : t[FenceDoc(a)] = s[FenceDoc(a)]
      /\ t[ProfileDoc] = s[ProfileDoc]
  BY <1>2, DocsAreDocs, DocsDiffer DEF WellFormed
<1>4. t[ListenDoc(l)] \in ListenValue /\ t[ListenDoc(l)].state = s[ListenDoc(l)].state
  <2> DEFINE v == s[ListenDoc(l)]
  <2>1. t[ListenDoc(l)] = [v EXCEPT !.rev = @ + 1, !.date = date]
    BY <1>2
  <2> HIDE DEF v
  <2>2. v \in [state: {"live", "deleted"}, rev: Nat, album: Album, date: Date,
               source: {"manual", "automatic"}]
    BY <1>1 DEF v
  <2>3. t[ListenDoc(l)] = [state |-> v.state, rev |-> v.rev + 1, album |-> v.album, date |-> date,
                           source |-> v.source]
    BY <2>1, <2>2
  <2>4. /\ v.state \in {"live", "deleted"} /\ v.rev + 1 \in Nat /\ v.album \in Album
        /\ v.source \in {"manual", "automatic"}
    BY <2>2
  <2>5. t[ListenDoc(l)] \in [state: {"live", "deleted"}, rev: Nat, album: Album, date: Date,
                             source: {"manual", "automatic"}]
    BY <2>3, <2>4
  <2> QED BY <2>3, <2>5 DEF ListenValue, v
<1>5. WellFormed(t)
  BY <1>2, <1>3, <1>4 DEF WellFormed, TypedDocs
<1>6. \A m \in Listen : LiveListen(s, m) => LiveListen(t, m)
  BY <1>3, <1>4 DEF LiveListen
<1>7. \A b \in Board : Live(s, b) => Live(t, b)
  BY <1>3 DEF Live
<1>8. SafeStep(s, t)
  BY <1>2, <1>3, <1>5, <1>6, <1>7, SafeStepIntro
<1> QED BY <1>8 DEF t

\* An operation that only removes memberships, items and the pin.
LEMMA ShrinkingIsSafe ==
  ASSUME NEW s, NEW t, DOMAIN t = DOMAIN s, WellFormed(t), Sound(t),
         \A b \in Board, l \in Listen : t[MemberDoc(b, l)] => s[MemberDoc(b, l)],
         \A b \in Board, a \in Album : t[ItemDoc(b, a)] => s[ItemDoc(b, a)],
         t[ProfileDoc].pin \in {NoBoard, s[ProfileDoc].pin}
  PROVE  SafeStep(s, t)
BY DEF SafeStep, ParentsIn

\* What deleteBoard does to the documents of the board it deletes.
BoardDropped(s1, t, b) ==
  /\ DOMAIN t = DOMAIN s1
  /\ \A x \in Board \ {b} : t[BoardDoc(x)] = s1[BoardDoc(x)]
  /\ t[BoardDoc(b)] = [s1[BoardDoc(b)] EXCEPT !.state = "deleted"]
  /\ \A k \in Key : t[ReceiptDoc(k)] = s1[ReceiptDoc(k)]
  /\ \A a \in Album : t[FenceDoc(a)] = s1[FenceDoc(a)]
  /\ \A l \in Listen : t[ListenDoc(l)] = s1[ListenDoc(l)]
  /\ \A x \in Board, a \in Album : t[ItemDoc(x, a)] = IF x = b THEN FALSE ELSE s1[ItemDoc(x, a)]
  /\ \A x \in Board, l \in Listen : t[MemberDoc(x, l)] = IF x = b THEN FALSE ELSE s1[MemberDoc(x, l)]
  /\ t[ProfileDoc] = IF s1[ProfileDoc].pin = b THEN [s1[ProfileDoc] EXCEPT !.pin = NoBoard]
                                               ELSE s1[ProfileDoc]

\* Nothing but the board, what it holds and the pin.
LEMMA DropBoardEffect ==
  ASSUME NEW s1, WellFormed(s1), NEW b \in Board
  PROVE  BoardDropped(s1, DropBoard(s1, b), b)
<1> DEFINE t == DropBoard(s1, b)
<1>1. /\ DOMAIN t = DOMAIN s1
      /\ \A x \in Board \ {b} : t[BoardDoc(x)] = s1[BoardDoc(x)]
      /\ t[BoardDoc(b)] = [s1[BoardDoc(b)] EXCEPT !.state = "deleted"]
      /\ \A k \in Key : t[ReceiptDoc(k)] = s1[ReceiptDoc(k)]
      /\ \A a \in Album : t[FenceDoc(a)] = s1[FenceDoc(a)]
      /\ \A l \in Listen : t[ListenDoc(l)] = s1[ListenDoc(l)]
  <2>1. DOMAIN t = DOMAIN s1
    BY DEF DropBoard
  <2>2. \A x \in Board \ {b} : t[BoardDoc(x)] = s1[BoardDoc(x)]
    <3> TAKE x \in Board \ {b}
    <3>1. /\ BoardDoc(x) \in DOMAIN s1
          /\ BoardDoc(x) # BoardDoc(b) /\ BoardDoc(x) # ProfileDoc
          /\ ~\E a \in Album : BoardDoc(x) = ItemDoc(b, a)
          /\ ~\E l \in Listen : BoardDoc(x) = MemberDoc(b, l)
      BY DocsAreDocs, DocsDiffer DEF WellFormed
    <3> QED BY <3>1 DEF DropBoard
  <2>3. t[BoardDoc(b)] = [s1[BoardDoc(b)] EXCEPT !.state = "deleted"]
    BY DocsAreDocs DEF WellFormed, DropBoard
  <2>4. \A k \in Key : t[ReceiptDoc(k)] = s1[ReceiptDoc(k)]
    <3> TAKE k \in Key
    <3>1. /\ ReceiptDoc(k) \in DOMAIN s1
          /\ ReceiptDoc(k) # BoardDoc(b) /\ ReceiptDoc(k) # ProfileDoc
          /\ ~\E a \in Album : ReceiptDoc(k) = ItemDoc(b, a)
          /\ ~\E l \in Listen : ReceiptDoc(k) = MemberDoc(b, l)
      BY DocsAreDocs, DocsDiffer DEF WellFormed
    <3> QED BY <3>1 DEF DropBoard
  <2>5. \A a \in Album : t[FenceDoc(a)] = s1[FenceDoc(a)]
    <3> TAKE a \in Album
    <3>1. /\ FenceDoc(a) \in DOMAIN s1
          /\ FenceDoc(a) # BoardDoc(b) /\ FenceDoc(a) # ProfileDoc
          /\ ~\E y \in Album : FenceDoc(a) = ItemDoc(b, y)
          /\ ~\E l \in Listen : FenceDoc(a) = MemberDoc(b, l)
      BY DocsAreDocs, DocsDiffer DEF WellFormed
    <3> QED BY <3>1 DEF DropBoard
  <2>6. \A l \in Listen : t[ListenDoc(l)] = s1[ListenDoc(l)]
    <3> TAKE l \in Listen
    <3>1. /\ ListenDoc(l) \in DOMAIN s1
          /\ ListenDoc(l) # BoardDoc(b) /\ ListenDoc(l) # ProfileDoc
          /\ ~\E a \in Album : ListenDoc(l) = ItemDoc(b, a)
          /\ ~\E m \in Listen : ListenDoc(l) = MemberDoc(b, m)
      BY DocsAreDocs, DocsDiffer DEF WellFormed
    <3> QED BY <3>1 DEF DropBoard
  <2> QED BY <2>1, <2>2, <2>3, <2>4, <2>5, <2>6
<1>2. \A x \in Board, a \in Album : t[ItemDoc(x, a)] = IF x = b THEN FALSE ELSE s1[ItemDoc(x, a)]
  <2> TAKE x \in Board, a \in Album
  <2>1. /\ ItemDoc(x, a) \in DOMAIN s1
        /\ (\E y \in Album : ItemDoc(x, a) = ItemDoc(b, y)) <=> x = b
        /\ ItemDoc(x, a) # BoardDoc(b) /\ ItemDoc(x, a) # ProfileDoc
        /\ ~\E l \in Listen : ItemDoc(x, a) = MemberDoc(b, l)
    BY DocsAreDocs, DocsDiffer DEF WellFormed
  <2> QED BY <2>1 DEF DropBoard
<1>3. \A x \in Board, l \in Listen : t[MemberDoc(x, l)] = IF x = b THEN FALSE ELSE s1[MemberDoc(x, l)]
  <2> TAKE x \in Board, l \in Listen
  <2>1. /\ MemberDoc(x, l) \in DOMAIN s1
        /\ (\E m \in Listen : MemberDoc(x, l) = MemberDoc(b, m)) <=> x = b
        /\ MemberDoc(x, l) # BoardDoc(b) /\ MemberDoc(x, l) # ProfileDoc
        /\ ~\E a \in Album : MemberDoc(x, l) = ItemDoc(b, a)
    BY DocsAreDocs, DocsDiffer DEF WellFormed
  <2> QED BY <2>1 DEF DropBoard
<1>4. t[ProfileDoc] = IF s1[ProfileDoc].pin = b THEN [s1[ProfileDoc] EXCEPT !.pin = NoBoard]
                                                ELSE s1[ProfileDoc]
  <2>1. /\ ProfileDoc \in DOMAIN s1
        /\ ProfileDoc # BoardDoc(b)
        /\ ~\E a \in Album : ProfileDoc = ItemDoc(b, a)
        /\ ~\E l \in Listen : ProfileDoc = MemberDoc(b, l)
    BY DocsAreDocs, DocsDiffer DEF WellFormed
  <2> QED BY <2>1 DEF DropBoard
<1> QED BY <1>1, <1>2, <1>3, <1>4 DEF BoardDropped, t

\* deleteBoard takes the items, the memberships and the pin with the board.
LEMMA DeleteBoardIsSafe ==
  ASSUME NEW s, WellFormed(s), Sound(s), NEW b \in Board, Live(s, b)
  PROVE  SafeStep(s, DropBoard(ClaimBoard(s, b), b))
<1> DEFINE s1 == ClaimBoard(s, b)
           t == DropBoard(s1, b)
<1>1. OnlyBoards(s, s1) /\ \A x \in Board \ {b} : s1[BoardDoc(x)] = s[BoardDoc(x)]
  <2>1. OnlyBoards(s, s1)
    BY ClaimBoardEffect
  <2>2. \A x \in Board \ {b} : s1[BoardDoc(x)] = s[BoardDoc(x)]
    BY DocsAreDocs, DocsDiffer DEF ClaimBoard, WellFormed
  <2> QED BY <2>1, <2>2
<1> HIDE DEF s1
<1>2. SameButBoards(s, s1)
  BY <1>1, OnlyBoardsChange DEF OnlyBoards
<1>20. BoardDropped(s1, t, b)
  BY <1>1, DropBoardEffect DEF OnlyBoards
<1> HIDE DEF t
<1>3. /\ DOMAIN t = DOMAIN s1
      /\ \A x \in Board \ {b} : t[BoardDoc(x)] = s1[BoardDoc(x)]
      /\ t[BoardDoc(b)] = [s1[BoardDoc(b)] EXCEPT !.state = "deleted"]
      /\ \A k \in Key : t[ReceiptDoc(k)] = s1[ReceiptDoc(k)]
      /\ \A a \in Album : t[FenceDoc(a)] = s1[FenceDoc(a)]
      /\ \A l \in Listen : t[ListenDoc(l)] = s1[ListenDoc(l)]
  BY <1>20 DEF BoardDropped
<1>4. \A x \in Board, a \in Album : t[ItemDoc(x, a)] = IF x = b THEN FALSE ELSE s1[ItemDoc(x, a)]
  BY <1>20 DEF BoardDropped
<1>5. \A x \in Board, l \in Listen : t[MemberDoc(x, l)] = IF x = b THEN FALSE ELSE s1[MemberDoc(x, l)]
  BY <1>20 DEF BoardDropped
<1>6. t[ProfileDoc] = IF s1[ProfileDoc].pin = b THEN [s1[ProfileDoc] EXCEPT !.pin = NoBoard]
                                                ELSE s1[ProfileDoc]
  BY <1>20 DEF BoardDropped
<1>7. t[BoardDoc(b)] \in BoardValue
  <2>1. s1[BoardDoc(b)] \in BoardValue
    BY <1>1 DEF OnlyBoards, WellFormed, TypedDocs
  <2> QED BY <1>3, <2>1 DEF BoardValue, Life
<1>8. t[ProfileDoc] \in ProfileValue /\ t[ProfileDoc].pin # b
      /\ t[ProfileDoc].pin \in {NoBoard, s[ProfileDoc].pin}
  <2>1. s1[ProfileDoc] \in ProfileValue /\ s1[ProfileDoc] = s[ProfileDoc]
    BY <1>1, <1>2 DEF OnlyBoards, WellFormed, TypedDocs, SameButBoards
  <2> QED BY <1>6, <2>1, LibraryAssumption DEF ProfileValue
<1>9. WellFormed(t)
  BY <1>1, <1>3, <1>4, <1>5, <1>7, <1>8 DEF OnlyBoards, WellFormed, TypedDocs
<1>10. \A x \in Board, l \in Listen : t[MemberDoc(x, l)] => x # b /\ s[MemberDoc(x, l)]
  BY <1>2, <1>5 DEF SameButBoards
<1>11. \A x \in Board, a \in Album : t[ItemDoc(x, a)] => x # b /\ s[ItemDoc(x, a)]
  BY <1>2, <1>4 DEF SameButBoards
<1>12. \A x \in Board \ {b} : Live(s, x) => Live(t, x)
  BY <1>1, <1>3 DEF Live
<1>13. \A l \in Listen : t[ListenDoc(l)] = s[ListenDoc(l)]
  BY <1>2, <1>3 DEF SameButBoards
<1>14. MembersHaveParents(t)
  BY <1>10, <1>12, <1>13 DEF Sound, MembersHaveParents, LiveListen
<1>15. ItemsHaveBoards(t)
  BY <1>11, <1>12 DEF Sound, ItemsHaveBoards
<1>16. PinIsLive(t)
  <2>1. s[ProfileDoc].pin \in Board \cup {NoBoard}
    BY DEF WellFormed, TypedDocs, ProfileValue
  <2> QED BY <1>8, <1>12, <2>1 DEF Sound, PinIsLive
<1>17. DOMAIN t = DOMAIN s
  BY <1>1, <1>3 DEF OnlyBoards
<1> QED BY <1>8, <1>9, <1>10, <1>11, <1>14, <1>15, <1>16, <1>17, ShrinkingIsSafe DEF Sound, t, s1

\* Deleting a listen takes its memberships with it.
LEMMA DropListenEffect ==
  ASSUME NEW s, WellFormed(s), NEW l \in Listen, LiveListen(s, l)
  PROVE  LET t == DropListen(ClaimListen(s, l), l)
         IN  /\ DOMAIN t = DOMAIN s /\ WellFormed(t)
             /\ \A b \in Board : t[BoardDoc(b)] = s[BoardDoc(b)]
             /\ \A b \in Board, a \in Album : t[ItemDoc(b, a)] = s[ItemDoc(b, a)]
             /\ \A m \in Listen \ {l} : t[ListenDoc(m)] = s[ListenDoc(m)]
             /\ \A b \in Board, m \in Listen : m # l => t[MemberDoc(b, m)] = s[MemberDoc(b, m)]
             /\ \A b \in Board : t[MemberDoc(b, l)] = FALSE
             /\ \A k \in Key : t[ReceiptDoc(k)] = s[ReceiptDoc(k)]
             /\ t[ProfileDoc] = s[ProfileDoc]
             /\ t[ListenDoc(l)].state = "deleted" /\ t[ListenDoc(l)].album = s[ListenDoc(l)].album
             /\ t[ListenDoc(l)].source = s[ListenDoc(l)].source
<1> DEFINE v == s[ListenDoc(l)]
           t == DropListen(ClaimListen(s, l), l)
<1>1. v \in [state: {"live", "deleted"}, rev: Nat, album: Album, date: Date,
             source: {"manual", "automatic"}]
  <2>1. s[ListenDoc(l)] \in ListenValue
    BY DEF WellFormed, TypedDocs
  <2> QED BY <2>1 DEF ListenValue, LiveListen
<1>2. /\ DOMAIN t = DOMAIN s
      /\ \A x \in DOMAIN s : x # ListenDoc(l) /\ ~(\E b \in Board : x = MemberDoc(b, l)) => t[x] = s[x]
      /\ \A x \in DOMAIN s : x # ListenDoc(l) /\ (\E b \in Board : x = MemberDoc(b, l)) => t[x] = FALSE
      /\ t[ListenDoc(l)] = [[v EXCEPT !.rev = @ + 1] EXCEPT !.state = "deleted"]
  BY DocsAreDocs DEF DropListen, ClaimListen, WellFormed
<1> HIDE DEF t, v
<1>3. \A b \in Board : t[BoardDoc(b)] = s[BoardDoc(b)]
  <2> TAKE b \in Board
  <2>1. /\ BoardDoc(b) \in DOMAIN s /\ BoardDoc(b) # ListenDoc(l)
        /\ ~\E x \in Board : BoardDoc(b) = MemberDoc(x, l)
    BY DocsAreDocs, DocsDiffer DEF WellFormed
  <2> QED BY <1>2, <2>1
<1>4. \A b \in Board, a \in Album : t[ItemDoc(b, a)] = s[ItemDoc(b, a)]
  <2> TAKE b \in Board, a \in Album
  <2>1. /\ ItemDoc(b, a) \in DOMAIN s /\ ItemDoc(b, a) # ListenDoc(l)
        /\ ~\E x \in Board : ItemDoc(b, a) = MemberDoc(x, l)
    BY DocsAreDocs, DocsDiffer DEF WellFormed
  <2> QED BY <1>2, <2>1
<1>5. \A m \in Listen \ {l} : t[ListenDoc(m)] = s[ListenDoc(m)]
  <2> TAKE m \in Listen \ {l}
  <2>1. /\ ListenDoc(m) \in DOMAIN s /\ ListenDoc(m) # ListenDoc(l)
        /\ ~\E x \in Board : ListenDoc(m) = MemberDoc(x, l)
    BY DocsAreDocs, DocsDiffer DEF WellFormed
  <2> QED BY <1>2, <2>1
<1>6. \A b \in Board, m \in Listen : m # l => t[MemberDoc(b, m)] = s[MemberDoc(b, m)]
  <2> SUFFICES ASSUME NEW b \in Board, NEW m \in Listen, m # l
               PROVE  t[MemberDoc(b, m)] = s[MemberDoc(b, m)]
    OBVIOUS
  <2>1. /\ MemberDoc(b, m) \in DOMAIN s /\ MemberDoc(b, m) # ListenDoc(l)
        /\ ~\E x \in Board : MemberDoc(b, m) = MemberDoc(x, l)
    BY DocsAreDocs, DocsDiffer DEF WellFormed
  <2> QED BY <1>2, <2>1
<1>7. \A b \in Board : t[MemberDoc(b, l)] = FALSE
  <2> TAKE b \in Board
  <2>1. MemberDoc(b, l) \in DOMAIN s /\ MemberDoc(b, l) # ListenDoc(l)
    BY DocsAreDocs, DocsDiffer DEF WellFormed
  <2> QED BY <1>2, <2>1
<1>8. /\ \A k \in Key : t[ReceiptDoc(k)] = s[ReceiptDoc(k)]
      /\ \A a \in Album : t[FenceDoc(a)] = s[FenceDoc(a)]
      /\ t[ProfileDoc] = s[ProfileDoc]
  <2>1. \A k \in Key : /\ ReceiptDoc(k) \in DOMAIN s /\ ReceiptDoc(k) # ListenDoc(l)
                       /\ ~\E x \in Board : ReceiptDoc(k) = MemberDoc(x, l)
    BY DocsAreDocs, DocsDiffer DEF WellFormed
  <2>2. \A a \in Album : /\ FenceDoc(a) \in DOMAIN s /\ FenceDoc(a) # ListenDoc(l)
                         /\ ~\E x \in Board : FenceDoc(a) = MemberDoc(x, l)
    BY DocsAreDocs, DocsDiffer DEF WellFormed
  <2>3. /\ ProfileDoc \in DOMAIN s /\ ProfileDoc # ListenDoc(l)
        /\ ~\E x \in Board : ProfileDoc = MemberDoc(x, l)
    BY DocsAreDocs, DocsDiffer DEF WellFormed
  <2> QED BY <1>2, <2>1, <2>2, <2>3
<1>9. /\ t[ListenDoc(l)] \in ListenValue
      /\ t[ListenDoc(l)].state = "deleted" /\ t[ListenDoc(l)].album = v.album
      /\ t[ListenDoc(l)].source = v.source
  <2>1. t[ListenDoc(l)] = [state |-> "deleted", rev |-> v.rev + 1, album |-> v.album, date |-> v.date,
                           source |-> v.source]
    BY <1>1, <1>2
  <2>2. /\ v.rev + 1 \in Nat /\ v.album \in Album /\ v.date \in Date
        /\ v.source \in {"manual", "automatic"}
    BY <1>1
  <2>3. t[ListenDoc(l)] \in [state: {"live", "deleted"}, rev: Nat, album: Album, date: Date,
                             source: {"manual", "automatic"}]
    BY <2>1, <2>2
  <2> QED BY <2>1, <2>3 DEF ListenValue
<1>10. WellFormed(t)
  <2>1. \A b \in Board, m \in Listen : t[MemberDoc(b, m)] \in BOOLEAN
    BY <1>6, <1>7 DEF WellFormed, TypedDocs
  <2>2. \A m \in Listen : t[ListenDoc(m)] \in ListenValue
    BY <1>5, <1>9 DEF WellFormed, TypedDocs
  <2> QED BY <1>2, <1>3, <1>4, <1>8, <2>1, <2>2 DEF WellFormed, TypedDocs
<1> QED BY <1>2, <1>3, <1>4, <1>5, <1>6, <1>7, <1>8, <1>9, <1>10 DEF t, v

\* deleteListen claims the boards of the listen and takes its memberships away.
LEMMA DeleteListenIsSafe ==
  ASSUME NEW s, WellFormed(s), Sound(s), NEW l \in Listen, LiveListen(s, l),
         NEW B \in SUBSET Board, \A b \in B : Live(s, b),
         NEW t \in Synced(DropListen(ClaimListen(ClaimBoards(s, B), l), l), B)
  PROVE  SafeStep(s, t)
<1> DEFINE s1 == ClaimBoards(s, B)
           s2 == DropListen(ClaimListen(s1, l), l)
<1>1. OnlyBoards(s, s1) /\ WellFormed(s1)
  BY ClaimBoardsEffect DEF OnlyBoards
<1>2. SameButBoards(s, s1)
  BY <1>1, OnlyBoardsChange DEF OnlyBoards
<1> HIDE DEF s1
<1>3. LiveListen(s1, l)
  BY <1>2 DEF LiveListen, SameButBoards
<1>4. /\ DOMAIN s2 = DOMAIN s1 /\ WellFormed(s2)
      /\ \A b \in Board : s2[BoardDoc(b)] = s1[BoardDoc(b)]
      /\ \A b \in Board, a \in Album : s2[ItemDoc(b, a)] = s1[ItemDoc(b, a)]
      /\ \A m \in Listen \ {l} : s2[ListenDoc(m)] = s1[ListenDoc(m)]
      /\ \A b \in Board, m \in Listen : m # l => s2[MemberDoc(b, m)] = s1[MemberDoc(b, m)]
      /\ \A b \in Board : s2[MemberDoc(b, l)] = FALSE
      /\ s2[ProfileDoc] = s1[ProfileDoc]
  BY <1>1, <1>3, DropListenEffect
<1> HIDE DEF s2
<1>5. OnlyBoards(s2, t)
  BY <1>4, SyncedEffect DEF s2, s1
<1>6. /\ DOMAIN t = DOMAIN s /\ WellFormed(t) /\ SameButBoards(s2, t)
      /\ \A b \in Board : Live(s, b) => Live(t, b)
  BY <1>1, <1>4, <1>5, ClaimEditSync
<1>7. \A b \in Board, m \in Listen : t[MemberDoc(b, m)] => m # l /\ s[MemberDoc(b, m)]
  BY <1>2, <1>4, <1>6 DEF SameButBoards
<1>8. \A b \in Board, a \in Album : t[ItemDoc(b, a)] = s[ItemDoc(b, a)]
  BY <1>2, <1>4, <1>6 DEF SameButBoards
<1>9. \A m \in Listen \ {l} : t[ListenDoc(m)] = s[ListenDoc(m)]
  BY <1>2, <1>4, <1>6 DEF SameButBoards
<1>10. t[ProfileDoc] = s[ProfileDoc]
  BY <1>2, <1>4, <1>6 DEF SameButBoards
<1>11. MembersHaveParents(t)
  BY <1>6, <1>7, <1>9 DEF Sound, MembersHaveParents, LiveListen
<1>12. ItemsHaveBoards(t)
  BY <1>6, <1>8 DEF Sound, ItemsHaveBoards
<1>13. PinIsLive(t)
  <2>1. s[ProfileDoc].pin \in Board \cup {NoBoard}
    BY DEF WellFormed, TypedDocs, ProfileValue
  <2> QED BY <1>6, <1>10, <2>1 DEF Sound, PinIsLive
<1> QED BY <1>6, <1>7, <1>8, <1>10, <1>11, <1>12, <1>13, ShrinkingIsSafe DEF Sound

(***************************************************************************)
(* Committing: the writes of a snapshot meet a database that moved on      *)
(***************************************************************************)
Merged(cur, t, W) == [x \in DOMAIN cur |-> IF x \in W THEN t[x] ELSE cur[x]]

\* A committed document comes from the transaction, which had not missed it,
\* or stays as it is, and then the transaction did not touch it.
LEMMA MergedDocs ==
  ASSUME NEW s, NEW cur, NEW t, NEW m, WellFormed(cur), DOMAIN s = DOMAIN cur, DOMAIN t = DOMAIN s,
         \A x \in DOMAIN cur \ m : s[x] = cur[x], Changed(s, t) \cap m = {}
  PROVE  \A x \in LibraryDocs :
           \/ /\ x \in Changed(s, t) /\ x \notin m /\ s[x] = cur[x]
              /\ Merged(cur, t, Changed(s, t))[x] = t[x]
           \/ /\ x \notin Changed(s, t) /\ t[x] = s[x]
              /\ Merged(cur, t, Changed(s, t))[x] = cur[x]
BY DEF WellFormed, Changed, Merged

\* The heart of the claims: first-committer-wins on the documents a transaction
\* writes keeps what depends on documents it only read.
LEMMA MergeIsSafe ==
  ASSUME NEW s, NEW cur, NEW t, NEW m, WellFormed(s), WellFormed(cur), Sound(cur),
         DOMAIN s = DOMAIN cur, \A x \in DOMAIN cur \ m : s[x] = cur[x],
         ParentsIn(s, cur, m), SafeStep(s, t), Changed(s, t) \cap m = {}
  PROVE  SafeStep(cur, Merged(cur, t, Changed(s, t)))
         /\ ParentsIn(cur, Merged(cur, t, Changed(s, t)), Changed(s, t))
<1> DEFINE W == Changed(s, t)
           new == Merged(cur, t, W)
<1>1. \A x \in LibraryDocs : \/ x \in W /\ x \notin m /\ s[x] = cur[x] /\ new[x] = t[x]
                             \/ x \notin W /\ t[x] = s[x] /\ new[x] = cur[x]
  <2>1. DOMAIN t = DOMAIN s
    BY DEF SafeStep
  <2> QED BY <2>1, MergedDocs
<1>2. DOMAIN new = DOMAIN cur
  BY DEF Merged
<1>3. WellFormed(t) /\ Sound(t) /\ ParentsIn(s, t, W)
  BY DEF SafeStep
<1>4. \A x \in W : x \in DOMAIN cur /\ (new[x] # cur[x] => x \in Changed(cur, new))
  BY <1>2 DEF Changed
<1> HIDE DEF W, new
<1>5. WellFormed(new)
  <2>1. \A b \in Board : new[BoardDoc(b)] \in BoardValue
    BY <1>1, <1>3, DocsAreDocs DEF WellFormed, TypedDocs
  <2>2. \A b \in Board, a \in Album : new[ItemDoc(b, a)] \in BOOLEAN
    BY <1>1, <1>3, DocsAreDocs DEF WellFormed, TypedDocs
  <2>3. \A l \in Listen : new[ListenDoc(l)] \in ListenValue
    BY <1>1, <1>3, DocsAreDocs DEF WellFormed, TypedDocs
  <2>4. \A b \in Board, l \in Listen : new[MemberDoc(b, l)] \in BOOLEAN
    BY <1>1, <1>3, DocsAreDocs DEF WellFormed, TypedDocs
  <2>5. \A k \in Key : new[ReceiptDoc(k)] \in ReceiptValue
    BY <1>1, <1>3, DocsAreDocs DEF WellFormed, TypedDocs
  <2>6. \A a \in Album : new[FenceDoc(a)] \in Nat
    BY <1>1, <1>3, DocsAreDocs DEF WellFormed, TypedDocs
  <2>7. new[ProfileDoc] \in ProfileValue
    BY <1>1, <1>3, DocsAreDocs DEF WellFormed, TypedDocs
  <2>8. LibraryDocs \subseteq DOMAIN new
    BY <1>2 DEF WellFormed
  <2> QED BY <2>1, <2>2, <2>3, <2>4, <2>5, <2>6, <2>7, <2>8 DEF WellFormed, TypedDocs
<1>6. MembersHaveParents(new)
  <2> SUFFICES ASSUME NEW b \in Board, NEW l \in Listen, new[MemberDoc(b, l)]
               PROVE  Live(new, b) /\ LiveListen(new, l)
    BY DEF MembersHaveParents
  <2>1. MemberDoc(b, l) \in LibraryDocs /\ BoardDoc(b) \in LibraryDocs /\ ListenDoc(l) \in LibraryDocs
    BY DocsAreDocs
  <2>2. CASE MemberDoc(b, l) \in W
    <3>1. t[MemberDoc(b, l)] /\ t[MemberDoc(b, l)] # s[MemberDoc(b, l)]
      BY <1>1, <2>1, <2>2 DEF W, Changed
    <3>2. s[MemberDoc(b, l)] \in BOOLEAN /\ t[MemberDoc(b, l)] \in BOOLEAN
      BY <1>3 DEF WellFormed, TypedDocs
    <3>3. BoardDoc(b) \in W /\ ListenDoc(l) \in W
      BY <1>3, <3>1, <3>2 DEF ParentsIn
    <3>4. Live(t, b) /\ LiveListen(t, l)
      BY <1>3, <3>1 DEF Sound, MembersHaveParents
    <3> QED BY <1>1, <2>1, <3>3, <3>4 DEF Live, LiveListen
  <2>3. CASE MemberDoc(b, l) \notin W
    <3>1. cur[MemberDoc(b, l)] /\ t[MemberDoc(b, l)] = s[MemberDoc(b, l)]
      BY <1>1, <2>1, <2>3
    <3>2. Live(cur, b) /\ LiveListen(cur, l)
      BY <3>1 DEF Sound, MembersHaveParents
    <3>3. BoardDoc(b) \notin m \/ ListenDoc(l) \notin m => Live(t, b) /\ LiveListen(t, l)
      BY <1>3, <3>1 DEF ParentsIn, Sound, MembersHaveParents
    <3> QED BY <1>1, <2>1, <3>2, <3>3 DEF Live, LiveListen
  <2> QED BY <2>2, <2>3
<1>7. ItemsHaveBoards(new)
  <2> SUFFICES ASSUME NEW b \in Board, NEW a \in Album, new[ItemDoc(b, a)]
               PROVE  Live(new, b)
    BY DEF ItemsHaveBoards
  <2>1. ItemDoc(b, a) \in LibraryDocs /\ BoardDoc(b) \in LibraryDocs
    BY DocsAreDocs
  <2>2. CASE ItemDoc(b, a) \in W
    <3>1. t[ItemDoc(b, a)] /\ t[ItemDoc(b, a)] # s[ItemDoc(b, a)]
      BY <1>1, <2>1, <2>2 DEF W, Changed
    <3>2. s[ItemDoc(b, a)] \in BOOLEAN /\ t[ItemDoc(b, a)] \in BOOLEAN
      BY <1>3 DEF WellFormed, TypedDocs
    <3>3. BoardDoc(b) \in W /\ Live(t, b)
      BY <1>3, <3>1, <3>2 DEF ParentsIn, Sound, ItemsHaveBoards
    <3> QED BY <1>1, <2>1, <3>3 DEF Live
  <2>3. CASE ItemDoc(b, a) \notin W
    <3>1. cur[ItemDoc(b, a)] /\ t[ItemDoc(b, a)] = s[ItemDoc(b, a)]
      BY <1>1, <2>1, <2>3
    <3>2. Live(cur, b)
      BY <3>1 DEF Sound, ItemsHaveBoards
    <3>3. BoardDoc(b) \notin m => Live(t, b)
      BY <1>3, <3>1 DEF ParentsIn, Sound, ItemsHaveBoards
    <3> QED BY <1>1, <2>1, <3>2, <3>3 DEF Live
  <2> QED BY <2>2, <2>3
<1>8. PinIsLive(new)
  <2> DEFINE p == new[ProfileDoc].pin
  <2> SUFFICES ASSUME p # NoBoard PROVE Live(new, p)
    BY DEF PinIsLive
  <2>1. p \in Board
    BY <1>5 DEF WellFormed, TypedDocs, ProfileValue
  <2>2. ProfileDoc \in LibraryDocs /\ BoardDoc(p) \in LibraryDocs
    BY <2>1, DocsAreDocs
  <2>3. CASE ProfileDoc \in W
    <3>1. t[ProfileDoc].pin = p /\ s[ProfileDoc] = cur[ProfileDoc]
      BY <1>1, <2>2, <2>3
    <3>2. Live(t, p)
      BY <1>3, <3>1 DEF Sound, PinIsLive
    <3>3. BoardDoc(p) \notin W => Live(cur, p)
      BY <1>3, <3>1 DEF ParentsIn, Sound, PinIsLive
    <3> QED BY <1>1, <2>2, <3>2, <3>3 DEF Live
  <2>4. CASE ProfileDoc \notin W
    <3>1. cur[ProfileDoc].pin = p /\ t[ProfileDoc] = s[ProfileDoc]
      BY <1>1, <2>2, <2>4
    <3>2. Live(cur, p)
      BY <3>1 DEF Sound, PinIsLive
    <3>3. BoardDoc(p) \notin m => Live(t, p)
      BY <1>3, <3>1 DEF ParentsIn, Sound, PinIsLive
    <3> QED BY <1>1, <2>2, <3>2, <3>3 DEF Live
  <2> QED BY <2>3, <2>4
<1>9. ParentsIn(cur, new, W)
  <2>1. \A b \in Board, l \in Listen : new[MemberDoc(b, l)] /\ ~cur[MemberDoc(b, l)] =>
          BoardDoc(b) \in W /\ ListenDoc(l) \in W
    BY <1>1, <1>3, DocsAreDocs DEF ParentsIn
  <2>2. \A b \in Board, a \in Album : new[ItemDoc(b, a)] /\ ~cur[ItemDoc(b, a)] => BoardDoc(b) \in W
    BY <1>1, <1>3, DocsAreDocs DEF ParentsIn
  <2>3. new[ProfileDoc].pin \notin {NoBoard, cur[ProfileDoc].pin} => BoardDoc(new[ProfileDoc].pin) \in W
    BY <1>1, <1>3, DocsAreDocs DEF ParentsIn
  <2> QED BY <2>1, <2>2, <2>3 DEF ParentsIn
<1>10. Changed(cur, new) = W
  BY <1>1, <1>2 DEF Changed, W, new, Merged
<1> QED BY <1>2, <1>5, <1>6, <1>7, <1>8, <1>9, <1>10 DEF SafeStep, Sound, W, new

(***************************************************************************)
(* The inductive invariant of the documents and the open transactions      *)
(***************************************************************************)
SnapshotOK(open) ==
  /\ DOMAIN open = {"req", "snap", "missed"}
  /\ open.req \in Request \cup ReorderRequest
  /\ open.missed \subseteq DOMAIN db
  /\ DOMAIN open.snap = DOMAIN db
  /\ WellFormed(open.snap) /\ Sound(open.snap)
  /\ \A x \in DOMAIN db \ open.missed : open.snap[x] = db[x]
  /\ ParentsIn(open.snap, db, open.missed)

StoreInv ==
  /\ WellFormed(db) /\ Sound(db)
  /\ OpenClients \subseteq Client
  /\ \A c \in OpenClients : SnapshotOK(tx[c])

\* The database takes a safe step: every open transaction is now behind on it.
LEMMA AdvanceKeepsStore ==
  ASSUME StoreInv, NEW t, SafeStep(db, t), db' = t, NEW others, others \subseteq OpenClients,
         NEW W, W \subseteq DOMAIN db, Changed(db, t) \subseteq W, tx' = Behind(others, W)
  PROVE  StoreInv'
<1>1. DOMAIN t = DOMAIN db /\ WellFormed(t) /\ Sound(t) /\ ParentsIn(db, t, Changed(db, t))
  BY DEF SafeStep
<1>2. OpenClients' = others /\ OpenClients' \subseteq Client
  BY DEF OpenClients, Behind, StoreInv
<1>3. ASSUME NEW c \in others PROVE SnapshotOK(tx[c])'
  <2> DEFINE o == tx[c]
             n == tx'[c]
  <2>1. SnapshotOK(o)
    BY <1>3 DEF StoreInv
  <2>2. n = [o EXCEPT !.missed = @ \cup W]
    BY <1>3 DEF Behind
  <2>3. /\ DOMAIN n = {"req", "snap", "missed"} /\ n.req = o.req /\ n.snap = o.snap
        /\ n.missed = o.missed \cup W
    BY <2>1, <2>2 DEF SnapshotOK
  <2> HIDE DEF n, o
  <2>4. \A x \in DOMAIN db \ n.missed : n.snap[x] = t[x]
    BY <2>1, <2>3 DEF SnapshotOK, Changed
  <2>5. ParentsIn(n.snap, t, n.missed)
    <3>1. ParentsIn(o.snap, db, o.missed)
      BY <2>1 DEF SnapshotOK
    <3>2. \A b \in Board, l \in Listen : t[MemberDoc(b, l)] /\ ~o.snap[MemberDoc(b, l)] =>
            BoardDoc(b) \in o.missed \cup W /\ ListenDoc(l) \in o.missed \cup W
      BY <1>1, <3>1 DEF ParentsIn
    <3>3. \A b \in Board, a \in Album : t[ItemDoc(b, a)] /\ ~o.snap[ItemDoc(b, a)] =>
            BoardDoc(b) \in o.missed \cup W
      BY <1>1, <3>1 DEF ParentsIn
    <3>4. t[ProfileDoc].pin \notin {NoBoard, o.snap[ProfileDoc].pin} =>
            BoardDoc(t[ProfileDoc].pin) \in o.missed \cup W
      BY <1>1, <3>1 DEF ParentsIn
    <3> QED BY <2>3, <3>2, <3>3, <3>4 DEF ParentsIn
  <2>6. n.missed \subseteq DOMAIN t /\ DOMAIN n.snap = DOMAIN t
    BY <1>1, <2>1, <2>3 DEF SnapshotOK
  <2>7. n.req \in Request \cup ReorderRequest /\ WellFormed(n.snap) /\ Sound(n.snap)
    BY <2>1, <2>3 DEF SnapshotOK
  <2>8. \A x \in DOMAIN t \ n.missed : n.snap[x] = t[x]
    BY <1>1, <2>4
  <2> QED BY <2>3, <2>5, <2>6, <2>7, <2>8 DEF SnapshotOK, n
<1> QED BY <1>1, <1>2, <1>3 DEF StoreInv

\* A commit of a safe step keeps the invariant.
LEMMA CommitKeepsStore ==
  ASSUME StoreInv, NEW c \in OpenClients, NEW t, SafeStep(tx[c].snap, t), Commit(c, t)
  PROVE  StoreInv'
<1> DEFINE s == tx[c].snap
           W == Changed(s, t)
           new == Merged(db, t, W)
<1>1. SnapshotOK(tx[c]) /\ WellFormed(db) /\ Sound(db)
  BY DEF StoreInv
<1>2. W \cap tx[c].missed = {} /\ db' = new /\ tx' = Behind(OpenClients \ {c}, W)
  BY DEF Commit, Merged
<1>3. SafeStep(db, new)
  BY <1>1, <1>2, MergeIsSafe DEF SnapshotOK
<1>4. W \subseteq DOMAIN db /\ Changed(db, new) \subseteq W
  BY <1>1 DEF SnapshotOK, Changed, Merged
<1> HIDE DEF W, new
<1> QED BY <1>2, <1>3, <1>4, AdvanceKeepsStore

\* So does a single write outside a transaction.
LEMMA WriteKeepsStore ==
  ASSUME StoreInv, NEW t, SafeStep(db, t), Write(t)
  PROVE  StoreInv'
<1>1. Changed(db, t) \subseteq DOMAIN db
  BY DEF Changed
<1> QED BY <1>1, AdvanceKeepsStore DEF Write

\* A fresh snapshot misses nothing.
LEMMA FreshSnapshotOK ==
  ASSUME StoreInv, NEW r \in Request \cup ReorderRequest
  PROVE  SnapshotOK([req |-> r, snap |-> db, missed |-> {}])
<1>1. \A b \in Board, l \in Listen : db[MemberDoc(b, l)] \in BOOLEAN
  BY DEF StoreInv, WellFormed, TypedDocs
<1> QED BY <1>1 DEF StoreInv, SnapshotOK, ParentsIn

\* So does opening a transaction.
LEMMA BeginKeepsStore ==
  ASSUME StoreInv, NEW c \in Client, NEW r \in Request \cup ReorderRequest, Begin(c, r)
  PROVE  StoreInv'
<1>1. OpenClients' = OpenClients \cup {c} /\ db' = db
  BY DEF Begin, OpenClients
<1>2. \A x \in OpenClients' : tx'[x] = IF x = c THEN [req |-> r, snap |-> db, missed |-> {}] ELSE tx[x]
  BY <1>1 DEF Begin
<1>3. \A x \in OpenClients' : SnapshotOK(tx'[x])
  BY <1>1, <1>2, FreshSnapshotOK DEF StoreInv
<1> QED BY <1>1, <1>3 DEF StoreInv, SnapshotOK

\* So does a retry or an abort.
LEMMA GiveUpKeepsStore ==
  ASSUME StoreInv, NEW c \in Client, GiveUp(c)
  PROVE  StoreInv'
<1>1. CASE Retry(c)
  <2>1. OpenClients' = OpenClients /\ db' = db /\ c \in OpenClients
    BY <1>1 DEF Retry, OpenClients
  <2>2. \A x \in OpenClients : tx'[x] = IF x = c THEN [req |-> tx[c].req, snap |-> db, missed |-> {}] ELSE tx[x]
    BY <1>1 DEF Retry, OpenClients
  <2>3. tx[c].req \in Request \cup ReorderRequest /\ \A x \in OpenClients : SnapshotOK(tx[x])
    BY <2>1 DEF StoreInv, SnapshotOK
  <2>4. SnapshotOK([req |-> tx[c].req, snap |-> db, missed |-> {}])
    BY <2>3, FreshSnapshotOK
  <2>5. \A x \in OpenClients' : SnapshotOK(tx'[x])
    BY <2>1, <2>2, <2>3, <2>4
  <2> QED BY <2>1, <2>5 DEF StoreInv, SnapshotOK
<1>2. CASE Abort(c)
  <2>1. OpenClients' = OpenClients \ {c} /\ db' = db
    BY <1>2 DEF Abort, OpenClients
  <2>2. \A x \in OpenClients' : tx'[x] = tx[x]
    BY <1>2, <2>1 DEF Abort
  <2>3. \A x \in OpenClients' : SnapshotOK(tx'[x])
    BY <2>1, <2>2 DEF StoreInv
  <2> QED BY <2>1, <2>3 DEF StoreInv, SnapshotOK
<1> QED BY <1>1, <1>2 DEF GiveUp

(***************************************************************************)
(* The actions                                                             *)
(***************************************************************************)
\* The fields of a request, by its operation.
LEMMA RequestFields ==
  ASSUME NEW r \in Request \cup ReorderRequest
  PROVE  /\ r.op \in {"saveAlbum", "removeAlbum"} => r.board \in Board /\ r.album \in Album
         /\ r.op \in {"deleteBoard", "pinBoard"} => r.board \in Board
         /\ r.op \in {"attach", "detach"} => r.board \in Board /\ r.listen \in Listen
         /\ r.op = "updateBoard" => r.board \in Board /\ r.manual \in BOOLEAN
         /\ r.op = "reorderBoard" => r.board \in Board /\ r.order \in Seq(Album)
         /\ r.op = "createListen" => /\ r.key \in Key /\ r.album \in Album /\ r.date \in Date
                                    /\ r.boards \in SUBSET Board
         /\ r.op = "updateListen" => r.listen \in Listen /\ r.date \in Date
         /\ r.op = "deleteListen" => r.listen \in Listen
BY DEF Request, ReorderRequest

\* A running transaction has a typed request and a sound snapshot.
LEMMA RunningTransaction ==
  ASSUME StoreInv, NEW c, NEW op, Running(c, op)
  PROVE  /\ c \in OpenClients /\ tx[c].req \in Request \cup ReorderRequest /\ tx[c].req.op = op
         /\ WellFormed(tx[c].snap) /\ Sound(tx[c].snap)
BY DEF Running, StoreInv, SnapshotOK

\* saveAlbum keeps the invariant.
LEMMA SaveAlbumKeepsStore ==
  ASSUME StoreInv, NEW c \in Client, SaveAlbum(c) PROVE StoreInv'
<1> DEFINE s == tx[c].snap  b == tx[c].req.board  a == tx[c].req.album
<1>1. c \in OpenClients /\ WellFormed(s) /\ Sound(s) /\ b \in Board /\ a \in Album
  BY RunningTransaction, RequestFields DEF SaveAlbum
<1>2. PICK t \in Synced([ClaimOrCreate(s, b) EXCEPT ![ItemDoc(b, a)] = TRUE], {b}) : Commit(c, t)
  BY DEF SaveAlbum, Finish
<1>3. SafeStep(s, t)
  BY <1>1, SaveAlbumIsSafe DEF SaveAlbum
<1> QED BY <1>1, <1>2, <1>3, CommitKeepsStore

\* removeAlbum keeps the invariant.
LEMMA RemoveAlbumKeepsStore ==
  ASSUME StoreInv, NEW c \in Client, RemoveAlbum(c) PROVE StoreInv'
<1> DEFINE s == tx[c].snap  b == tx[c].req.board  a == tx[c].req.album
<1>1. c \in OpenClients /\ WellFormed(s) /\ Sound(s) /\ b \in Board /\ a \in Album
  BY RunningTransaction, RequestFields DEF RemoveAlbum
<1>2. PICK t \in Synced(RemoveFromBoard(ClaimBoard(s, b), b, a), {b}) : Commit(c, t)
  BY DEF RemoveAlbum, Finish
<1>3. SafeStep(s, t)
  BY <1>1, RemoveAlbumIsSafe DEF RemoveAlbum
<1> QED BY <1>1, <1>2, <1>3, CommitKeepsStore

\* deleteBoard keeps the invariant.
LEMMA DeleteBoardKeepsStore ==
  ASSUME StoreInv, NEW c \in Client, DeleteBoard(c) PROVE StoreInv'
<1> DEFINE s == tx[c].snap  b == tx[c].req.board
<1>1. c \in OpenClients /\ WellFormed(s) /\ Sound(s) /\ b \in Board
  BY RunningTransaction, RequestFields DEF DeleteBoard
<1>2. SafeStep(s, DropBoard(ClaimBoard(s, b), b))
  BY <1>1, DeleteBoardIsSafe DEF DeleteBoard
<1>3. Commit(c, DropBoard(ClaimBoard(s, b), b))
  BY DEF DeleteBoard, Finish
<1> QED BY <1>1, <1>2, <1>3, CommitKeepsStore

\* setMembership keeps the invariant, attaching and detaching.
LEMMA SetMembershipKeepsStore ==
  ASSUME StoreInv, NEW c \in Client, SetMembership(c) PROVE StoreInv'
<1> DEFINE s == tx[c].snap  b == tx[c].req.board  l == tx[c].req.listen
           edit(on) == [ClaimListen(ClaimOrCreate(s, b), l) EXCEPT ![MemberDoc(b, l)] = on]
<1>1. PICK attached \in BOOLEAN :
        /\ Running(c, IF attached THEN "attach" ELSE "detach")
        /\ Claimable(s, b, attached) /\ LiveListen(s, l)
        /\ \E t \in Synced(edit(attached), {b}) : Commit(c, t)
  BY DEF SetMembership, Finish
<1>2. c \in OpenClients /\ WellFormed(s) /\ Sound(s) /\ b \in Board /\ l \in Listen
  BY <1>1, RunningTransaction, RequestFields
<1>3. PICK t \in Synced(edit(attached), {b}) : Commit(c, t)
  BY <1>1
<1>4. SafeStep(s, t)
  BY <1>1, <1>2, SetMembershipIsSafe
<1> QED BY <1>2, <1>3, <1>4, CommitKeepsStore

\* updateBoard keeps the invariant.
LEMMA UpdateBoardKeepsStore ==
  ASSUME StoreInv, NEW c \in Client, UpdateBoard(c) PROVE StoreInv'
<1> DEFINE s == tx[c].snap  b == tx[c].req.board  manual == tx[c].req.manual
           seeded == IF manual /\ ~Manual(s, b) THEN Arrangements(Entries(s, b))
                     ELSE IF manual THEN {s[BoardDoc(b)].order} ELSE {<<>>}
           edit(order) == [ClaimOrCreate(s, b) EXCEPT ![BoardDoc(b)].manual = manual,
                                                      ![BoardDoc(b)].order = order]
<1>1. /\ c \in OpenClients /\ WellFormed(s) /\ Sound(s) /\ b \in Board /\ manual \in BOOLEAN
      /\ Claimable(s, b, TRUE)
  BY RunningTransaction, RequestFields DEF UpdateBoard
<1>2. PICK order \in seeded : Commit(c, edit(order))
  BY DEF UpdateBoard, Finish
<1>3. order \in Seq(Album)
  <2>1. s[BoardDoc(b)].order \in Seq(Album)
    BY <1>1 DEF WellFormed, TypedDocs, BoardValue
  <2>2. Arrangements(Entries(s, b)) \subseteq Seq(Album)
    BY ArrangementsAreSeqs, EntriesAreAlbums
  <2>3. <<>> \in Seq(Album)
    OBVIOUS
  <2>4. seeded \in {Arrangements(Entries(s, b)), {s[BoardDoc(b)].order}, {<<>>}}
    OBVIOUS
  <2> HIDE DEF seeded, edit
  <2>5. order \in seeded
    BY <1>2
  <2> QED BY <2>1, <2>2, <2>3, <2>4, <2>5
<1>4. SafeStep(s, edit(order))
  BY <1>1, <1>3, UpdateBoardIsSafe
<1> HIDE DEF edit
<1> QED BY <1>1, <1>2, <1>4, CommitKeepsStore

\* reorderBoard keeps the invariant.
LEMMA ReorderBoardKeepsStore ==
  ASSUME StoreInv, NEW c \in Client, ReorderBoard(c) PROVE StoreInv'
<1> DEFINE s == tx[c].snap  b == tx[c].req.board  order == tx[c].req.order
           t == [ClaimBoard(s, b) EXCEPT ![BoardDoc(b)].order = order]
<1>1. c \in OpenClients /\ WellFormed(s) /\ Sound(s) /\ b \in Board /\ order \in Seq(Album)
  BY RunningTransaction, RequestFields DEF ReorderBoard
<1>2. SafeStep(s, t)
  BY <1>1, ReorderBoardIsSafe DEF ReorderBoard
<1>3. Commit(c, t)
  BY DEF ReorderBoard, Finish
<1> HIDE DEF t
<1> QED BY <1>1, <1>2, <1>3, CommitKeepsStore

\* Pinning a board keeps the invariant.
LEMMA PinBoardKeepsStore ==
  ASSUME StoreInv, NEW c \in Client, PinBoard(c) PROVE StoreInv'
<1> DEFINE s == tx[c].snap  b == tx[c].req.board
           t == [ClaimBoard(s, b) EXCEPT ![ProfileDoc].exists = TRUE, ![ProfileDoc].pin = b]
<1>1. c \in OpenClients /\ WellFormed(s) /\ Sound(s) /\ b \in Board
  BY RunningTransaction, RequestFields DEF PinBoard
<1>2. SafeStep(s, t)
  BY <1>1, PinBoardIsSafe DEF PinBoard
<1>3. Commit(c, t)
  BY DEF PinBoard, Finish
<1> HIDE DEF t
<1> QED BY <1>1, <1>2, <1>3, CommitKeepsStore

\* createListen keeps the invariant.
LEMMA CreateListenKeepsStore ==
  ASSUME StoreInv, NEW c \in Client, CreateListen(c) PROVE StoreInv'
<1> DEFINE s == tx[c].snap  r == tx[c].req
           input == [album |-> r.album, date |-> r.date, boards |-> r.boards]
           edit(l) == AttachAll([InsertListen(ClaimBoards(FenceAlbum(s, r.album), r.boards),
                                              l, r.album, r.date, "manual")
                                   EXCEPT ![ReceiptDoc(r.key)] = [used |-> TRUE, listen |-> l, input |-> input]],
                                l, r.boards)
<1>1. /\ c \in OpenClients /\ WellFormed(s) /\ Sound(s) /\ r.key \in Key /\ r.album \in Album
      /\ r.date \in Date /\ r.boards \in SUBSET Board /\ \A b \in r.boards : Live(s, b)
  BY RunningTransaction, RequestFields DEF CreateListen
<1>2. PICK l \in Listen : /\ s[ListenDoc(l)].state = "unborn"
                         /\ \E t \in Synced(edit(l), r.boards) : Commit(c, RemoveListened(t, r.album))
  BY DEF CreateListen, Finish
<1>3. PICK t \in Synced(edit(l), r.boards) : Commit(c, RemoveListened(t, r.album))
  BY <1>2
<1>4. input \in [album: Album, date: Date, boards: SUBSET Board]
  BY <1>1
<1>5. SafeStep(s, RemoveListened(t, r.album))
  BY <1>1, <1>2, <1>3, <1>4, CreateListenIsSafe
<1> QED BY <1>1, <1>3, <1>5, CommitKeepsStore

\* updateListen keeps the invariant.
LEMMA UpdateListenKeepsStore ==
  ASSUME StoreInv, NEW c \in Client, UpdateListen(c) PROVE StoreInv'
<1> DEFINE s == tx[c].snap  l == tx[c].req.listen
           t == [ClaimListen(s, l) EXCEPT ![ListenDoc(l)].date = tx[c].req.date]
<1>1. /\ c \in OpenClients /\ WellFormed(s) /\ Sound(s) /\ l \in Listen /\ tx[c].req.date \in Date
      /\ LiveListen(s, l)
  BY RunningTransaction, RequestFields DEF UpdateListen
<1>2. SafeStep(s, t)
  BY <1>1, UpdateListenIsSafe
<1>3. Commit(c, t)
  BY DEF UpdateListen, Finish
<1> HIDE DEF t
<1> QED BY <1>1, <1>2, <1>3, CommitKeepsStore

\* deleteListen keeps the invariant.
LEMMA DeleteListenKeepsStore ==
  ASSUME StoreInv, NEW c \in Client, DeleteListen(c) PROVE StoreInv'
<1> DEFINE s == tx[c].snap  l == tx[c].req.listen  B == { b \in Attached(s, l) : Live(s, b) }
<1>1. /\ c \in OpenClients /\ WellFormed(s) /\ Sound(s) /\ l \in Listen /\ LiveListen(s, l)
      /\ B \in SUBSET Board /\ \A b \in B : Live(s, b)
  BY RunningTransaction, RequestFields DEF DeleteListen, Attached
<1>2. PICK t \in Synced(DropListen(ClaimListen(ClaimBoards(s, B), l), l), B) : Commit(c, t)
  BY DEF DeleteListen, Finish
<1> HIDE DEF B
<1>3. SafeStep(s, t)
  BY <1>1, <1>2, DeleteListenIsSafe
<1> QED BY <1>1, <1>2, <1>3, CommitKeepsStore
\* Every transaction keeps the invariant.
LEMMA TransactionKeepsStore ==
  ASSUME StoreInv, NEW c \in Client, Transaction(c) PROVE StoreInv'
BY SaveAlbumKeepsStore, RemoveAlbumKeepsStore, DeleteBoardKeepsStore, SetMembershipKeepsStore,
   UpdateBoardKeepsStore, ReorderBoardKeepsStore, PinBoardKeepsStore, CreateListenKeepsStore,
   UpdateListenKeepsStore, DeleteListenKeepsStore DEF Transaction

\* Creating a board is a safe step.
LEMMA CreateBoardIsSafe ==
  ASSUME NEW s, WellFormed(s), Sound(s), NEW b \in Board
  PROVE  SafeStep(s, [s EXCEPT ![BoardDoc(b)].state = "live"])
<1> DEFINE t == [s EXCEPT ![BoardDoc(b)].state = "live"]
<1>1. s[BoardDoc(b)] \in BoardValue /\ BoardDoc(b) \in DOMAIN s
  BY DocsAreDocs DEF WellFormed, TypedDocs
<1>2. /\ DOMAIN t = DOMAIN s /\ \A x \in DOMAIN s : x # BoardDoc(b) => t[x] = s[x]
      /\ t[BoardDoc(b)] = [s[BoardDoc(b)] EXCEPT !.state = "live"]
  BY <1>1
<1> HIDE DEF t
<1>3. /\ t[BoardDoc(b)] \in BoardValue /\ Live(t, b)
      /\ s[BoardDoc(b)].rev \in Nat /\ t[BoardDoc(b)].rev = s[BoardDoc(b)].rev
  BY <1>1, <1>2 DEF BoardValue, Life, Live
<1>4. \A x \in Board : x # b => t[BoardDoc(x)] = s[BoardDoc(x)] /\ s[BoardDoc(x)] \in BoardValue
  BY <1>1, <1>2, DocsAreDocs, DocsDiffer DEF WellFormed, TypedDocs
<1>5. ASSUME NEW x \in Board
      PROVE  /\ t[BoardDoc(x)] \in BoardValue
             /\ Live(s, x) => Live(t, x)
             /\ s[BoardDoc(x)].rev <= t[BoardDoc(x)].rev
  BY <1>3, <1>4 DEF Live, BoardValue
<1>6. OnlyBoards(s, t)
  BY <1>2, <1>5, BoardsOnlyIntro
<1>7. SafeStep(s, t)
  BY <1>6, OnlyBoardsIsSafe
<1> QED BY <1>7 DEF t

\* Creating a board keeps the invariant.
LEMMA CreateBoardKeepsStore ==
  ASSUME StoreInv, NEW b \in Board, CreateBoard(b) PROVE StoreInv'
<1> DEFINE t == [db EXCEPT ![BoardDoc(b)].state = "live"]
<1>1. WellFormed(db) /\ Sound(db) /\ Write(t)
  BY DEF StoreInv, CreateBoard
<1>2. SafeStep(db, t)
  BY <1>1, CreateBoardIsSafe
<1> HIDE DEF t
<1> QED BY <1>1, <1>2, WriteKeepsStore

\* Unpinning is a safe step.
LEMMA UnpinBoardIsSafe ==
  ASSUME NEW s, WellFormed(s), Sound(s)
  PROVE  SafeStep(s, [s EXCEPT ![ProfileDoc].pin = NoBoard])
<1> DEFINE t == [s EXCEPT ![ProfileDoc].pin = NoBoard]
<1>1. ProfileDoc \in DOMAIN s
  BY DocsAreDocs DEF WellFormed
<1>2. /\ DOMAIN t = DOMAIN s /\ \A x \in DOMAIN s : x # ProfileDoc => t[x] = s[x]
      /\ t[ProfileDoc] = [s[ProfileDoc] EXCEPT !.pin = NoBoard]
  BY <1>1
<1> HIDE DEF t
<1>3. t[ProfileDoc] \in ProfileValue /\ t[ProfileDoc].pin = NoBoard
  <2>1. s[ProfileDoc] \in ProfileValue
    BY DEF WellFormed, TypedDocs
  <2> QED BY <1>2, <2>1 DEF ProfileValue
<1>4. /\ \A b \in Board : t[BoardDoc(b)] = s[BoardDoc(b)]
      /\ \A b \in Board, a \in Album : t[ItemDoc(b, a)] = s[ItemDoc(b, a)]
      /\ \A l \in Listen : t[ListenDoc(l)] = s[ListenDoc(l)]
      /\ \A b \in Board, l \in Listen : t[MemberDoc(b, l)] = s[MemberDoc(b, l)]
      /\ \A k \in Key : t[ReceiptDoc(k)] = s[ReceiptDoc(k)]
      /\ \A a \in Album : t[FenceDoc(a)] = s[FenceDoc(a)]
  BY <1>2, DocsAreDocs, DocsDiffer DEF WellFormed
<1>5. WellFormed(t)
  BY <1>2, <1>3, <1>4 DEF WellFormed, TypedDocs
<1>6. Sound(t)
  BY <1>3, <1>4 DEF Sound, MembersHaveParents, ItemsHaveBoards, PinIsLive, Live, LiveListen
<1>7. SafeStep(s, t)
  <2>1. \A b \in Board, l \in Listen : t[MemberDoc(b, l)] => s[MemberDoc(b, l)]
    BY <1>4
  <2>2. \A b \in Board, a \in Album : t[ItemDoc(b, a)] => s[ItemDoc(b, a)]
    BY <1>4
  <2>3. t[ProfileDoc].pin \in {NoBoard, s[ProfileDoc].pin}
    BY <1>3
  <2> QED BY <1>2, <1>5, <1>6, <2>1, <2>2, <2>3, ShrinkingIsSafe
<1> QED BY <1>7 DEF t

\* Unpinning keeps the invariant.
LEMMA UnpinBoardKeepsStore ==
  ASSUME StoreInv, UnpinBoard PROVE StoreInv'
<1> DEFINE t == [db EXCEPT ![ProfileDoc].pin = NoBoard]
<1>1. WellFormed(db) /\ Sound(db) /\ Write(t)
  BY DEF StoreInv, UnpinBoard
<1>2. SafeStep(db, t)
  BY <1>1, UnpinBoardIsSafe
<1> HIDE DEF t
<1> QED BY <1>1, <1>2, WriteKeepsStore

(***************************************************************************)
(* What clients see and send                                               *)
(***************************************************************************)
ScreenOK ==
  /\ DOMAIN view \subseteq Client
  /\ \A c \in DOMAIN view :
       view[c] \in [board: Board, revision: Nat, order: Seq(Album), complete: BOOLEAN]
  /\ sent \in 0..MaxRequests

\* A reorder is sent with a typed order.
LEMMA SendReorderKeepsInv ==
  ASSUME StoreInv, ScreenOK, NEW c \in Client, SendReorder(c)
  PROVE  StoreInv' /\ ScreenOK'
<1>1. c \in DOMAIN view /\ view[c] \in [board: Board, revision: Nat, order: Seq(Album), complete: BOOLEAN]
  BY DEF SendReorder, ScreenOK
<1>2. Arrangements(Elements(FirstN(view[c].order, OrderLimit))) \subseteq Seq(Album)
  <2>1. FirstN(view[c].order, OrderLimit) \in Seq(Album)
    BY <1>1, FirstNIsSeq, OrderLimitAssumption
  <2> QED BY <2>1, ElementsAreAlbums, ArrangementsAreSeqs
<1>3. PICK order \in Seq(Album) :
        Begin(c, [op |-> "reorderBoard", board |-> view[c].board, revision |-> view[c].revision,
                  seen |-> view[c].order, order |-> order])
  BY <1>2 DEF SendReorder
<1>4. [op |-> "reorderBoard", board |-> view[c].board, revision |-> view[c].revision,
       seen |-> view[c].order, order |-> order] \in ReorderRequest
  BY <1>1 DEF ReorderRequest
<1>5. StoreInv'
  BY <1>3, <1>4, BeginKeepsStore
<1>6. ScreenOK'
  BY LibraryAssumption DEF SendReorder, ScreenOK
<1> QED BY <1>5, <1>6

\* A request is sent as its client wrote it.
LEMMA SendRequestKeepsInv ==
  ASSUME StoreInv, ScreenOK, NEW c \in Client, SendRequest(c)
  PROVE  StoreInv' /\ ScreenOK'
<1>1. PICK r \in Requests : Begin(c, r)
  BY DEF SendRequest
<1>2. r \in Request \cup ReorderRequest
  BY LibraryAssumption
<1>3. StoreInv'
  BY <1>1, <1>2, BeginKeepsStore
<1>4. ScreenOK'
  BY LibraryAssumption DEF SendRequest, ScreenOK
<1> QED BY <1>3, <1>4

\* Reading a board keeps the invariant.
LEMMA ReadsKeepInv ==
  ASSUME StoreInv, ScreenOK, NEW c \in Client, NEW b \in Board, ReadBoard(c, b) \/ ReadEntries(c)
  PROVE  StoreInv' /\ ScreenOK'
<1>1. StoreInv'
  BY DEF ReadBoard, ReadEntries, StoreInv, SnapshotOK, OpenClients
<1>2. CASE ReadBoard(c, b)
  <2>1. db[BoardDoc(b)].rev \in Nat /\ db[BoardDoc(b)].order \in Seq(Album)
    BY DEF StoreInv, WellFormed, TypedDocs, BoardValue
  <2> QED BY <1>1, <1>2, <2>1 DEF ReadBoard, ScreenOK
<1>3. CASE ReadEntries(c)
  <2>1. c \in DOMAIN view /\ view[c] \in [board: Board, revision: Nat, order: Seq(Album), complete: BOOLEAN]
    BY <1>3 DEF ReadEntries, ScreenOK
  <2>2. PICK shown \in Shown(view[c].order, Entries(db, view[c].board)) :
          view' = [view EXCEPT ![c] = [@ EXCEPT !.order = shown, !.complete = TRUE]]
    BY <1>3 DEF ReadEntries
  <2>3. shown \in Seq(Album)
    BY <2>2, EntriesAreAlbums, ArrangementsAreSeqs DEF Shown
  <2>4. sent' = sent
    BY <1>3 DEF ReadEntries
  <2> QED BY <1>1, <2>1, <2>2, <2>3, <2>4 DEF ScreenOK
<1> QED BY <1>2, <1>3
(***************************************************************************)
(* The theorems                                                            *)
(***************************************************************************)
LibraryInv == StoreInv /\ ScreenOK

\* An empty library satisfies the invariant.
LEMMA InitialLibrary == LibraryInit => LibraryInv
<1> SUFFICES ASSUME LibraryInit PROVE LibraryInv
  OBVIOUS
<1>1. PICK p \in FirstProfiles : db = EmptyLibrary(p)
  BY DEF LibraryInit
<1>2. /\ \A x \in LibraryDocs : db[x] = EmptyLibrary(p)[x]
      /\ LibraryDocs \subseteq DOMAIN db
  BY <1>1 DEF EmptyLibrary
<1>3. p \in ProfileValue /\ p.pin = NoBoard
  <2>1. NewProfile \in ProfileValue /\ NewProfile.pin = NoBoard
    BY DEF NewProfile, ProfileValue
  <2>2. ASSUME NEW a \in LegacyAlbums, p = [NewProfile EXCEPT !.exists = TRUE, !.legacy = {a}]
        PROVE  p \in ProfileValue /\ p.pin = NoBoard
    <3> DEFINE n == NewProfile
    <3>1. {a} \in SUBSET Album
      BY LibraryAssumption
    <3>2. p = [n EXCEPT !.exists = TRUE, !.legacy = {a}]
      BY <2>2
    <3> HIDE DEF n
    <3> QED BY <2>1, <3>1, <3>2 DEF ProfileValue, n
  <2>3. CASE p = NewProfile
    BY <2>1, <2>3
  <2> QED BY <1>1, <2>2, <2>3 DEF FirstProfiles
<1>4. \A b \in Board : db[BoardDoc(b)] = [state |-> "unborn", rev |-> 0, manual |-> FALSE, order |-> <<>>]
  <2> TAKE b \in Board
  <2>1. BoardDoc(b) \in LibraryDocs /\ BoardDoc(b)[1] = "board"
    BY DocsAreDocs DEF BoardDoc
  <2> QED BY <1>2, <2>1 DEF EmptyLibrary
<1>5. \A b \in Board, a \in Album : db[ItemDoc(b, a)] = FALSE
  <2> TAKE b \in Board, a \in Album
  <2>1. ItemDoc(b, a) \in LibraryDocs /\ ItemDoc(b, a)[1] = "item"
    BY DocsAreDocs DEF ItemDoc
  <2> QED BY <1>2, <2>1 DEF EmptyLibrary
<1>6. \A l \in Listen : db[ListenDoc(l)] = [state |-> "unborn", rev |-> 0]
  <2> TAKE l \in Listen
  <2>1. ListenDoc(l) \in LibraryDocs /\ ListenDoc(l)[1] = "listen"
    BY DocsAreDocs DEF ListenDoc
  <2> QED BY <1>2, <2>1 DEF EmptyLibrary
<1>7. \A b \in Board, l \in Listen : db[MemberDoc(b, l)] = FALSE
  <2> TAKE b \in Board, l \in Listen
  <2>1. MemberDoc(b, l) \in LibraryDocs /\ MemberDoc(b, l)[1] = "member"
    BY DocsAreDocs DEF MemberDoc
  <2> QED BY <1>2, <2>1 DEF EmptyLibrary
<1>8. \A k \in Key : db[ReceiptDoc(k)] = [used |-> FALSE]
  <2> TAKE k \in Key
  <2>1. ReceiptDoc(k) \in LibraryDocs /\ ReceiptDoc(k)[1] = "receipt"
    BY DocsAreDocs DEF ReceiptDoc
  <2> QED BY <1>2, <2>1 DEF EmptyLibrary
<1>9. \A a \in Album : db[FenceDoc(a)] = 0
  <2> TAKE a \in Album
  <2>1. FenceDoc(a) \in LibraryDocs /\ FenceDoc(a)[1] = "fence"
    BY DocsAreDocs DEF FenceDoc
  <2> QED BY <1>2, <2>1 DEF EmptyLibrary
<1>10. db[ProfileDoc] = p
  <2>1. ProfileDoc \in LibraryDocs /\ ProfileDoc[1] = "profile"
    BY DocsAreDocs DEF ProfileDoc
  <2> QED BY <1>2, <2>1 DEF EmptyLibrary
<1>11. \A b \in Board : db[BoardDoc(b)] \in BoardValue
  <2>1. <<>> \in Seq(Album) /\ 0 \in Nat /\ FALSE \in BOOLEAN /\ "unborn" \in Life
    BY DEF Life
  <2>2. [state |-> "unborn", rev |-> 0, manual |-> FALSE, order |-> <<>>] \in BoardValue
    BY <2>1 DEF BoardValue
  <2> QED BY <1>4, <2>2
<1>12. \A l \in Listen : db[ListenDoc(l)] \in ListenValue
  BY <1>6 DEF ListenValue
<1>13. \A k \in Key : db[ReceiptDoc(k)] \in ReceiptValue
  <2>1. [used |-> FALSE] \in ReceiptValue
    <3>1. [used |-> FALSE] \in [used: {FALSE}]
      OBVIOUS
    <3> QED BY <3>1 DEF ReceiptValue
  <2> QED BY <1>8, <2>1
<1>14. WellFormed(db)
  <2>1. /\ \A b \in Board, a \in Album : db[ItemDoc(b, a)] \in BOOLEAN
        /\ \A b \in Board, l \in Listen : db[MemberDoc(b, l)] \in BOOLEAN
    BY <1>5, <1>7
  <2>2. \A a \in Album : db[FenceDoc(a)] \in Nat
    BY <1>9
  <2>3. db[ProfileDoc] \in ProfileValue
    BY <1>3, <1>10
  <2> QED BY <1>2, <1>11, <1>12, <1>13, <2>1, <2>2, <2>3 DEF WellFormed, TypedDocs
<1>15. Sound(db)
  BY <1>3, <1>5, <1>7, <1>10 DEF Sound, MembersHaveParents, ItemsHaveBoards, PinIsLive
<1>16. OpenClients = {} /\ DOMAIN view = {} /\ sent \in 0..MaxRequests
  BY LibraryAssumption DEF LibraryInit, OpenClients
<1> QED BY <1>14, <1>15, <1>16 DEF LibraryInv, StoreInv, ScreenOK

\* Every step, and stuttering, keeps the invariant.
LEMMA StepsKeepLibraryInv == LibraryInv /\ [LibraryNext]_libVars => LibraryInv'
<1> SUFFICES ASSUME LibraryInv, [LibraryNext]_libVars PROVE LibraryInv'
  OBVIOUS
<1>1. StoreInv /\ ScreenOK
  BY DEF LibraryInv
<1>2. ASSUME NEW c \in Client, SendRequest(c) PROVE LibraryInv'
  BY <1>1, <1>2, SendRequestKeepsInv DEF LibraryInv
<1>3. ASSUME NEW c \in Client, SendReorder(c) PROVE LibraryInv'
  BY <1>1, <1>3, SendReorderKeepsInv DEF LibraryInv
<1>4. ASSUME NEW c \in Client, Transaction(c) PROVE LibraryInv'
  <2>1. UNCHANGED <<view, sent>>
    BY <1>4 DEF Transaction, SaveAlbum, RemoveAlbum, DeleteBoard, SetMembership, UpdateBoard,
                ReorderBoard, PinBoard, CreateListen, UpdateListen, DeleteListen, Finish
  <2> QED BY <1>1, <1>4, <2>1, TransactionKeepsStore DEF LibraryInv, ScreenOK
<1>5. ASSUME NEW c \in Client, GiveUp(c) PROVE LibraryInv'
  <2>1. UNCHANGED <<view, sent>>
    BY <1>5 DEF GiveUp
  <2> QED BY <1>1, <1>5, <2>1, GiveUpKeepsStore DEF LibraryInv, ScreenOK
<1>6. ASSUME NEW c \in Client, (\E b \in Board : ReadBoard(c, b)) \/ ReadEntries(c) PROVE LibraryInv'
  BY <1>1, <1>6, ReadsKeepInv, LibraryAssumption DEF LibraryInv
<1>7. ASSUME NEW b \in Board, CreateBoard(b) PROVE LibraryInv'
  <2>1. UNCHANGED <<view, sent>>
    BY <1>7 DEF CreateBoard
  <2> QED BY <1>1, <1>7, <2>1, CreateBoardKeepsStore DEF LibraryInv, ScreenOK
<1>8. ASSUME UnpinBoard PROVE LibraryInv'
  <2>1. UNCHANGED <<view, sent>>
    BY <1>8 DEF UnpinBoard
  <2> QED BY <1>1, <1>8, <2>1, UnpinBoardKeepsStore DEF LibraryInv, ScreenOK
<1>9. CASE UNCHANGED libVars
  BY <1>1, <1>9 DEF libVars, LibraryInv, StoreInv, ScreenOK, SnapshotOK, OpenClients
<1> QED BY <1>2, <1>3, <1>4, <1>5, <1>6, <1>7, <1>8, <1>9 DEF LibraryNext

\* LibraryInv is an inductive invariant of the library.
THEOREM LibraryInvariance == LibrarySpec => []LibraryInv
BY InitialLibrary, StepsKeepLibraryInv, PTL DEF LibrarySpec

\* Every document, open snapshot, request and screen has its type, whatever the
\* requests: no operation of routes/utils/boardMutations.js writes a malformed one.
THEOREM LibraryTypes == LibrarySpec => []LibraryTypeOK
<1>1. LibraryInv => LibraryTypeOK
  BY DEF LibraryInv, StoreInv, ScreenOK, SnapshotOK, LibraryTypeOK, SnapshotShape, WellFormed
<1> QED BY <1>1, LibraryInvariance, PTL

\* No interleaving of attach, create, delete listen and delete board leaves a
\* membership without one of its parents, for any number of requests in flight.
THEOREM NoOrphanMembershipEver == LibrarySpec => []NoOrphanMembership
<1>1. LibraryInv => NoOrphanMembership
  BY DEF LibraryInv, StoreInv, Sound, NoOrphanMembership
<1> QED BY <1>1, LibraryInvariance, PTL

\* No save racing a board's deletion leaves an item on a dead board.
THEOREM NoOrphanItemEver == LibrarySpec => []NoOrphanItem
<1>1. LibraryInv => NoOrphanItem
  BY DEF LibraryInv, StoreInv, Sound, NoOrphanItem
<1> QED BY <1>1, LibraryInvariance, PTL

\* No pin racing a board's deletion leaves the profile pinning a dead board.
THEOREM NoDanglingPinEver == LibrarySpec => []NoDanglingPin
<1>1. LibraryInv => NoDanglingPin
  BY DEF LibraryInv, StoreInv, Sound, NoDanglingPin
<1> QED BY <1>1, LibraryInvariance, PTL

(***************************************************************************)
(* Orders and receipts.  What makes them hold is the claim of a board:     *)
(* its contents change only in transactions that raise its revision, and   *)
(* these leave its stored order reconciled, so that a transaction which    *)
(* writes a board it has not missed knows its contents too.                *)
(***************************************************************************)
\* What a stored order q is of a board whose albums are S.
Follows(q, S) ==
  /\ Injective(q) /\ Len(q) <= OrderLimit
  /\ Elements(q) \subseteq S
  /\ Cardinality(S) <= OrderLimit => Elements(q) = S

\* Sets of albums have a size.
LEMMA AlbumsAreFinite ==
  ASSUME NEW S, S \subseteq Album
  PROVE  IsFiniteSet(S) /\ Cardinality(S) \in Nat
BY FS_Subset, FS_CardinalityType, LibraryAssumption

\* A sequence without repetition that is as long as the set of its members is large names all of them.
LEMMA InjectiveFills ==
  ASSUME NEW S, S \subseteq Album, NEW q \in Seq(Album), Injective(q), Elements(q) \subseteq S,
         Len(q) = Cardinality(S)
  PROVE  Elements(q) = S
<1>1. IsFiniteSet(S) /\ Cardinality(S) \in Nat
  BY AlbumsAreFinite
<1>2. DOMAIN q = 1..Len(q) /\ Len(q) \in Nat
  OBVIOUS
<1>3. q \in Injection(1..Len(q), S)
  <2>1. q \in [1..Len(q) -> S]
    <3>1. \A i \in 1..Len(q) : q[i] \in S
      BY <1>2 DEF Elements
    <3> QED BY <1>2, <3>1
  <2> QED BY <2>1, <1>2 DEF Injection, IsInjective, Injective
<1>4. Cardinality(1..Len(q)) = Len(q)
  BY <1>2, FS_Interval
<1>5. q \in Surjection(1..Len(q), S)
  BY <1>1, <1>3, <1>4, FS_Injection
<1>6. \A x \in S : \E i \in 1..Len(q) : q[i] = x
  BY <1>5 DEF Surjection
<1> QED BY <1>2, <1>6 DEF Elements

\* An arrangement names each of its albums once.
LEMMA ArrangementsFill ==
  ASSUME NEW S, S \subseteq Album, NEW q \in Arrangements(S)
  PROVE  /\ q \in Seq(Album) /\ Injective(q) /\ Len(q) = Cardinality(S)
         /\ Elements(q) = S
<1>1. Cardinality(S) \in Nat
  BY AlbumsAreFinite
<1>2. q \in [1..Cardinality(S) -> S] /\ Injective(q)
  BY DEF Arrangements
<1>3. q \in Seq(Album) /\ Len(q) = Cardinality(S)
  BY <1>1, <1>2
<1>4. Elements(q) \subseteq S
  BY <1>2 DEF Elements
<1> QED BY <1>2, <1>3, <1>4, InjectiveFills

\* A sequence has at most as many members as places.
LEMMA ElementsAreFew ==
  ASSUME NEW q \in Seq(Album)
  PROVE  IsFiniteSet(Elements(q)) /\ Cardinality(Elements(q)) \in Nat /\ Cardinality(Elements(q)) <= Len(q)
<1>1. DOMAIN q = 1..Len(q) /\ Len(q) \in Nat
  OBVIOUS
<1>2. q \in Surjection(1..Len(q), Elements(q))
  <2>1. q \in [1..Len(q) -> Elements(q)]
    BY <1>1 DEF Elements
  <2>2. \A x \in Elements(q) : \E i \in 1..Len(q) : q[i] = x
    BY <1>1 DEF Elements
  <2> QED BY <2>1, <2>2 DEF Surjection
<1>3. IsFiniteSet(1..Len(q)) /\ Cardinality(1..Len(q)) = Len(q)
  BY <1>1, FS_Interval
<1>4. IsFiniteSet(Elements(q)) /\ Cardinality(Elements(q)) <= Cardinality(1..Len(q))
  BY <1>2, <1>3, FS_Surjection
<1> QED BY <1>3, <1>4, FS_CardinalityType

\* reconciledOrder stores an order that follows the albums of the board.
LEMMA ReconciledFollows ==
  ASSUME NEW S, S \subseteq Album, NEW order \in Seq(Album), Len(order) <= OrderLimit,
         NEW q \in ReconciledOrders(order, S)
  PROVE  q \in Seq(Album) /\ Follows(q, S)
<1>1. OrderLimit \in Nat /\ Cardinality(S) \in Nat
  BY OrderLimitAssumption, AlbumsAreFinite
<1>2. CASE Cardinality(S) <= OrderLimit
  <2>1. q \in Arrangements(S)
    BY <1>2 DEF ReconciledOrders, Shown
  <2> QED BY <1>1, <1>2, <2>1, ArrangementsFill DEF Follows
<1>3. CASE ~(Cardinality(S) <= OrderLimit)
  <2> DEFINE T == S \cap Elements(order)
  <2>1. q \in Arrangements(T) /\ T \subseteq Album
    BY <1>3 DEF ReconciledOrders, Block
  <2>2. IsFiniteSet(Elements(order)) /\ Cardinality(Elements(order)) <= Len(order)
        /\ Cardinality(Elements(order)) \in Nat
    BY ElementsAreFew
  <2>3. Cardinality(T) <= Cardinality(Elements(order)) /\ Cardinality(T) \in Nat
    BY <2>1, <2>2, FS_Subset, AlbumsAreFinite
  <2> HIDE DEF T
  <2>4. /\ q \in Seq(Album) /\ Injective(q) /\ Len(q) = Cardinality(T) /\ Elements(q) = T
    BY <2>1, ArrangementsFill
  <2>5. Len(q) <= OrderLimit
    BY <1>1, <2>2, <2>3, <2>4
  <2> QED BY <1>3, <2>4, <2>5 DEF Follows, T
<1> QED BY <1>2, <1>3

(***************************************************************************)
(* What every operation does to the contents of boards, beside keeping     *)
(* the parents of everything                                               *)
(***************************************************************************)
\* The albums saved on b and the listens attached to it are the same.
SameContents(s, t, b) ==
  /\ \A a \in Album : t[ItemDoc(b, a)] = s[ItemDoc(b, a)]
  /\ \A l \in Listen : t[MemberDoc(b, l)] = s[MemberDoc(b, l)]

\* A listen that was born is never of another album or source.
ListensStay(s, t) ==
  \A l \in Listen : s[ListenDoc(l)].state # "unborn" =>
    /\ t[ListenDoc(l)].state # "unborn"
    /\ t[ListenDoc(l)].album = s[ListenDoc(l)].album
    /\ t[ListenDoc(l)].source = s[ListenDoc(l)].source

\* Contents change only with the document of their board.
ContentsClaimed(s, t) ==
  \A b \in Board : t[BoardDoc(b)] = s[BoardDoc(b)] => SameContents(s, t, b)

\* Revisions never fall, and a live board changes only with its revision.
RevisionsTell(s, t) ==
  \A b \in Board : /\ s[BoardDoc(b)].rev <= t[BoardDoc(b)].rev
                   /\ Live(s, b) /\ t[BoardDoc(b)].rev = s[BoardDoc(b)].rev =>
                        t[BoardDoc(b)] = s[BoardDoc(b)]

\* A receipt is kept for ever, and a manual listen is born with one.
ReceiptsStay(s, t) ==
  \A k \in Key : s[ReceiptDoc(k)].used => t[ReceiptDoc(k)] = s[ReceiptDoc(k)]
BirthsReceipted(s, t) ==
  \A l \in Listen :
    /\ s[ListenDoc(l)].state = "unborn"
    /\ t[ListenDoc(l)].state # "unborn" /\ t[ListenDoc(l)].source = "manual"
    => \E k \in Key : /\ ~s[ReceiptDoc(k)].used
                      /\ t[ReceiptDoc(k)].used /\ t[ReceiptDoc(k)].listen = l

\* A manual board that is not live has been deleted: a new one starts unordered.
InOrder(s, b) ==
  /\ Live(s, b) /\ Manual(s, b) => Follows(s[BoardDoc(b)].order, Entries(s, b))
  /\ Manual(s, b) /\ ~Live(s, b) => s[BoardDoc(b)].state = "deleted" /\ b # DefaultBoard
AllInOrder(s) == \A b \in Board : InOrder(s, b)

Tidy(s, t) ==
  /\ ListensStay(s, t) /\ ContentsClaimed(s, t) /\ RevisionsTell(s, t)
  /\ ReceiptsStay(s, t) /\ BirthsReceipted(s, t)
  /\ AllInOrder(t)

\* A board with the same contents has the same albums.
LEMMA SameEntries ==
  ASSUME NEW s, NEW t, MembersHaveParents(s), MembersHaveParents(t), ListensStay(s, t),
         NEW b \in Board, SameContents(s, t, b)
  PROVE  Entries(t, b) = Entries(s, b)
<1>1. \A a \in Album : t[ItemDoc(b, a)] = s[ItemDoc(b, a)]
  BY DEF SameContents
<1>2. \A l \in Listen : t[MemberDoc(b, l)] = s[MemberDoc(b, l)]
  BY DEF SameContents
<1>3. ASSUME NEW l \in Listen, s[MemberDoc(b, l)]
      PROVE  LiveListen(s, l) /\ LiveListen(t, l) /\ t[ListenDoc(l)].album = s[ListenDoc(l)].album
  <2>1. LiveListen(s, l) /\ LiveListen(t, l)
    BY <1>2, <1>3 DEF MembersHaveParents
  <2> QED BY <2>1 DEF ListensStay, LiveListen
<1>4. \A l \in Listen, a \in Album :
        (t[MemberDoc(b, l)] /\ LiveListen(t, l) /\ t[ListenDoc(l)].album = a)
          <=> (s[MemberDoc(b, l)] /\ LiveListen(s, l) /\ s[ListenDoc(l)].album = a)
  BY <1>2, <1>3
<1> QED BY <1>1, <1>4 DEF Entries

\* A board with the same document and contents stays in order.
LEMMA StaysInOrder ==
  ASSUME NEW s, NEW t, MembersHaveParents(s), MembersHaveParents(t), ListensStay(s, t),
         NEW b \in Board, InOrder(s, b), SameContents(s, t, b), t[BoardDoc(b)] = s[BoardDoc(b)]
  PROVE  InOrder(t, b)
<1>1. Entries(t, b) = Entries(s, b)
  BY SameEntries
<1> QED BY <1>1 DEF InOrder, Live, Manual

\* So does one of which only the revision or the other fields moved.
LEMMA StaysInOrderClaimed ==
  ASSUME NEW s, NEW t, MembersHaveParents(s), MembersHaveParents(t), ListensStay(s, t),
         NEW b \in Board, InOrder(s, b), SameContents(s, t, b),
         t[BoardDoc(b)].state = s[BoardDoc(b)].state, t[BoardDoc(b)].manual = s[BoardDoc(b)].manual,
         t[BoardDoc(b)].order = s[BoardDoc(b)].order
  PROVE  InOrder(t, b)
<1>1. Entries(t, b) = Entries(s, b)
  BY SameEntries
<1> QED BY <1>1 DEF InOrder, Live, Manual

\* syncOrder leaves every board of B with an order that follows its albums, if
\* it was within the limit, and the other documents as they are.
LEMMA SyncedFollows ==
  ASSUME NEW s, WellFormed(s), NEW B \in SUBSET Board, NEW t \in Synced(s, B)
  PROVE  /\ SameButBoards(s, t)
         /\ \A b \in Board \ B : t[BoardDoc(b)] = s[BoardDoc(b)]
         /\ \A b \in B : /\ t[BoardDoc(b)].state = s[BoardDoc(b)].state
                         /\ t[BoardDoc(b)].rev = s[BoardDoc(b)].rev
                         /\ t[BoardDoc(b)].manual = s[BoardDoc(b)].manual
         /\ \A b \in Board : Entries(t, b) = Entries(s, b)
         /\ \A b \in B : Manual(s, b) /\ Len(s[BoardDoc(b)].order) <= OrderLimit =>
              Follows(t[BoardDoc(b)].order, Entries(t, b))
<1>1. PICK f \in [B -> UNION { SyncedOrders(s, b) : b \in B }] :
        /\ \A b \in B : f[b] \in SyncedOrders(s, b)
        /\ t = [x \in DOMAIN s |-> IF \E b \in B : x = BoardDoc(b)
                                   THEN [s[x] EXCEPT !.order = f[x[2]]] ELSE s[x]]
  BY DEF Synced
<1>2. \A x \in Board : s[BoardDoc(x)] \in BoardValue
  BY DEF WellFormed, TypedDocs
<1>3. SameButBoards(s, t)
  <2>1. \A x \in DOMAIN s : (\A b \in Board : x # BoardDoc(b)) => t[x] = s[x]
    BY <1>1
  <2> QED BY <2>1, OnlyBoardsChange
<1>4. \A b \in Board \ B : t[BoardDoc(b)] = s[BoardDoc(b)]
  BY <1>1, DocsAreDocs, DocsDiffer DEF WellFormed
<1>5. \A b \in B : t[BoardDoc(b)] = [s[BoardDoc(b)] EXCEPT !.order = f[b]]
  <2>1. \A b \in B : BoardDoc(b) \in DOMAIN s /\ BoardDoc(b)[2] = b
    BY DocsAreDocs DEF WellFormed, BoardDoc
  <2> QED BY <1>1, <2>1
<1>6. \A b \in B : /\ t[BoardDoc(b)].state = s[BoardDoc(b)].state
                   /\ t[BoardDoc(b)].rev = s[BoardDoc(b)].rev
                   /\ t[BoardDoc(b)].manual = s[BoardDoc(b)].manual
                   /\ t[BoardDoc(b)].order = f[b]
  BY <1>2, <1>5 DEF BoardValue
<1>7. \A b \in Board : Entries(t, b) = Entries(s, b)
  BY <1>3 DEF Entries, SameButBoards, LiveListen
<1>8. ASSUME NEW b \in B, Manual(s, b), Len(s[BoardDoc(b)].order) <= OrderLimit
      PROVE  Follows(t[BoardDoc(b)].order, Entries(t, b))
  <2>1. f[b] \in ReconciledOrders(s[BoardDoc(b)].order, Entries(s, b))
    BY <1>1, <1>8 DEF SyncedOrders
  <2>2. s[BoardDoc(b)].order \in Seq(Album) /\ Entries(s, b) \subseteq Album
    BY <1>2, EntriesAreAlbums DEF BoardValue
  <2>3. Follows(f[b], Entries(s, b))
    BY <1>8, <2>1, <2>2, ReconciledFollows
  <2> QED BY <1>6, <1>7, <2>3
<1> QED BY <1>3, <1>4, <1>6, <1>7, <1>8

\* The boards of B are claimed in s2, and nothing else happened to their
\* documents; the other boards are as they were.
BoardsClaimed(s, s2, B) ==
  /\ \A b \in B : /\ Claimable(s, b, TRUE) /\ Live(s2, b)
                  /\ s2[BoardDoc(b)].manual = s[BoardDoc(b)].manual
                  /\ s2[BoardDoc(b)].order = s[BoardDoc(b)].order
                  /\ s[BoardDoc(b)].rev <= s2[BoardDoc(b)].rev
                  /\ Live(s, b) => s[BoardDoc(b)].rev < s2[BoardDoc(b)].rev
  /\ \A b \in Board \ B : s2[BoardDoc(b)] = s[BoardDoc(b)] /\ SameContents(s, s2, b)

\* Claims of boards, an edit of what is theirs, and syncOrder on them.
LEMMA ClaimSyncIsTidy ==
  ASSUME NEW s, NEW s2, NEW B \in SUBSET Board, NEW t \in Synced(s2, B),
         WellFormed(s), Sound(s), AllInOrder(s), WellFormed(s2), MembersHaveParents(t),
         BoardsClaimed(s, s2, B), ListensStay(s, s2), ReceiptsStay(s, s2), BirthsReceipted(s, s2)
  PROVE  Tidy(s, t)
<1>1. /\ SameButBoards(s2, t)
      /\ \A b \in Board \ B : t[BoardDoc(b)] = s2[BoardDoc(b)]
      /\ \A b \in B : /\ t[BoardDoc(b)].state = s2[BoardDoc(b)].state
                      /\ t[BoardDoc(b)].rev = s2[BoardDoc(b)].rev
                      /\ t[BoardDoc(b)].manual = s2[BoardDoc(b)].manual
      /\ \A b \in B : Manual(s2, b) /\ Len(s2[BoardDoc(b)].order) <= OrderLimit =>
           Follows(t[BoardDoc(b)].order, Entries(t, b))
  BY SyncedFollows
<1>2. ListensStay(s, t) /\ ReceiptsStay(s, t) /\ BirthsReceipted(s, t)
  <2>1. ListensStay(s, t)
    BY <1>1 DEF ListensStay, SameButBoards
  <2>2. ReceiptsStay(s, t)
    BY <1>1 DEF ReceiptsStay, SameButBoards
  <2>3. BirthsReceipted(s, t)
    BY <1>1 DEF BirthsReceipted, SameButBoards
  <2> QED BY <2>1, <2>2, <2>3
<1>3. \A b \in Board \ B : SameContents(s, t, b) /\ t[BoardDoc(b)] = s[BoardDoc(b)]
  BY <1>1 DEF BoardsClaimed, SameContents, SameButBoards
<1>4. \A b \in Board : s[BoardDoc(b)] \in BoardValue /\ s2[BoardDoc(b)] \in BoardValue
  BY DEF WellFormed, TypedDocs
<1>5. ASSUME NEW b \in B
      PROVE  /\ s[BoardDoc(b)].rev <= t[BoardDoc(b)].rev
             /\ Live(s, b) => t[BoardDoc(b)].rev # s[BoardDoc(b)].rev
             /\ t[BoardDoc(b)] # s[BoardDoc(b)]
  <2>1. s[BoardDoc(b)].rev \in Nat /\ t[BoardDoc(b)].rev \in Nat
    BY <1>1, <1>4 DEF BoardValue
  <2>2. s[BoardDoc(b)].rev <= t[BoardDoc(b)].rev
    BY <1>1 DEF BoardsClaimed
  <2>3. Live(s, b) => s[BoardDoc(b)].rev < t[BoardDoc(b)].rev
    BY <1>1 DEF BoardsClaimed
  <2>4. Live(t, b)
    BY <1>1 DEF BoardsClaimed, Live
  <2> QED BY <2>1, <2>2, <2>3, <2>4 DEF Live
<1>6. ContentsClaimed(s, t)
  BY <1>3, <1>5 DEF ContentsClaimed
<1>7. RevisionsTell(s, t)
  <2>1. \A b \in Board : s[BoardDoc(b)].rev \in Nat
    BY <1>4 DEF BoardValue
  <2> QED BY <1>3, <1>5, <2>1 DEF RevisionsTell
<1>8. ASSUME NEW b \in Board PROVE InOrder(t, b)
  <2>1. CASE b \notin B
    BY <1>2, <1>3, <2>1, StaysInOrder DEF AllInOrder, Sound
  <2>2. CASE b \in B
    <3>1. Live(t, b) /\ Manual(t, b) = Manual(s, b)
      BY <1>1, <2>2 DEF BoardsClaimed, Live, Manual
    <3>2. ASSUME Manual(s, b)
          PROVE  Len(s[BoardDoc(b)].order) <= OrderLimit
      <4>1. Live(s, b)
        BY <2>2, <3>2 DEF BoardsClaimed, Claimable, AllInOrder, InOrder
      <4> QED BY <3>2, <4>1 DEF AllInOrder, InOrder, Follows
    <3>3. Manual(s, b) => Follows(t[BoardDoc(b)].order, Entries(t, b))
      BY <1>1, <2>2, <3>2 DEF BoardsClaimed, Manual
    <3> QED BY <3>1, <3>3 DEF InOrder
  <2> QED BY <2>1, <2>2
<1> QED BY <1>2, <1>6, <1>7, <1>8 DEF Tidy, AllInOrder

\* An operation that leaves every listen and receipt alone.
LEMMA SameListensAndReceipts ==
  ASSUME NEW s, NEW t,
         \A l \in Listen : t[ListenDoc(l)] = s[ListenDoc(l)],
         \A k \in Key : t[ReceiptDoc(k)] = s[ReceiptDoc(k)]
  PROVE  ListensStay(s, t) /\ ReceiptsStay(s, t) /\ BirthsReceipted(s, t)
BY DEF ListensStay, ReceiptsStay, BirthsReceipted

\* claimBoard, with and without creation, as BoardsClaimed has it.
LEMMA ClaimOrCreateClaims ==
  ASSUME NEW s, WellFormed(s), NEW b \in Board, Claimable(s, b, TRUE)
  PROVE  LET t == ClaimOrCreate(s, b)
         IN  /\ DOMAIN t = DOMAIN s /\ WellFormed(t) /\ SameButBoards(s, t)
             /\ BoardsClaimed(s, t, {b})
<1> DEFINE t == ClaimOrCreate(s, b)
<1>1. OnlyBoards(s, t) /\ Claimed(s, t, b)
  BY ClaimOrCreateEffect
<1>2. SameButBoards(s, t)
  BY <1>1, OnlyBoardsChange DEF OnlyBoards
<1>3. s[BoardDoc(b)] \in BoardValue /\ BoardDoc(b) \in DOMAIN s
  BY DocsAreDocs DEF WellFormed, TypedDocs
<1>4. t[BoardDoc(b)].manual = s[BoardDoc(b)].manual /\ t[BoardDoc(b)].order = s[BoardDoc(b)].order
  <2>1. t[BoardDoc(b)] \in {[s[BoardDoc(b)] EXCEPT !.rev = @ + 1], [s[BoardDoc(b)] EXCEPT !.state = "live"]}
    BY <1>3 DEF ClaimOrCreate, ClaimBoard
  <2> QED BY <1>3, <2>1 DEF BoardValue
<1>5. \A x \in Board \ {b} : t[BoardDoc(x)] = s[BoardDoc(x)]
  BY DocsAreDocs, DocsDiffer DEF ClaimOrCreate, ClaimBoard, WellFormed
<1> HIDE DEF t
<1>6. \A x \in Board : SameContents(s, t, x)
  BY <1>2 DEF SameButBoards, SameContents
<1> QED BY <1>1, <1>2, <1>4, <1>5, <1>6 DEF OnlyBoards, Claimed, BoardsClaimed, t

\* A claim of several boards.
LEMMA ClaimBoardsClaims ==
  ASSUME NEW s, WellFormed(s), NEW B \in SUBSET Board, \A b \in B : Live(s, b)
  PROVE  LET t == ClaimBoards(s, B)
         IN  /\ DOMAIN t = DOMAIN s /\ WellFormed(t) /\ SameButBoards(s, t)
             /\ BoardsClaimed(s, t, B)
<1> DEFINE t == ClaimBoards(s, B)
<1>1. OnlyBoards(s, t) /\ \A b \in B : Claimed(s, t, b)
  BY ClaimBoardsEffect
<1>2. SameButBoards(s, t)
  BY <1>1, OnlyBoardsChange DEF OnlyBoards
<1>3. \A b \in B : t[BoardDoc(b)] = [s[BoardDoc(b)] EXCEPT !.rev = @ + 1]
  BY DocsAreDocs DEF ClaimBoards, WellFormed
<1>4. \A b \in B : t[BoardDoc(b)].manual = s[BoardDoc(b)].manual /\ t[BoardDoc(b)].order = s[BoardDoc(b)].order
  <2>1. \A b \in B : s[BoardDoc(b)] \in BoardValue
    BY DEF WellFormed, TypedDocs
  <2> QED BY <1>3, <2>1 DEF BoardValue
<1>5. \A x \in Board \ B : t[BoardDoc(x)] = s[BoardDoc(x)]
  BY DocsAreDocs, DocsDiffer DEF ClaimBoards, WellFormed
<1> HIDE DEF t
<1>6. \A x \in Board : SameContents(s, t, x)
  BY <1>2 DEF SameButBoards, SameContents
<1> QED BY <1>1, <1>2, <1>4, <1>5, <1>6 DEF OnlyBoards, Claimed, BoardsClaimed, Claimable, t

(***************************************************************************)
(* The operations                                                          *)
(***************************************************************************)
\* An edit after the claims leaves the claims as they are.
LEMMA EditAfterClaims ==
  ASSUME NEW s, NEW s1, NEW s2, NEW B \in SUBSET Board, BoardsClaimed(s, s1, B),
         \A b \in Board : s2[BoardDoc(b)] = s1[BoardDoc(b)],
         \A b \in Board \ B : SameContents(s1, s2, b)
  PROVE  BoardsClaimed(s, s2, B)
<1>1. \A b \in Board \ B : SameContents(s, s2, b)
  BY DEF BoardsClaimed, SameContents
<1>2. \A b \in Board : Live(s2, b) <=> Live(s1, b)
  BY DEF Live
<1> QED BY <1>1, <1>2 DEF BoardsClaimed

\* saveAlbum is tidy: what it does to entries it does to the stored orders too.
LEMMA SaveAlbumIsTidy ==
  ASSUME NEW s, WellFormed(s), Sound(s), AllInOrder(s),
         NEW b \in Board, NEW a \in Album, Claimable(s, b, TRUE),
         NEW t \in Synced([ClaimOrCreate(s, b) EXCEPT ![ItemDoc(b, a)] = TRUE], {b})
  PROVE  Tidy(s, t)
<1> DEFINE s1 == ClaimOrCreate(s, b)
           s2 == [s1 EXCEPT ![ItemDoc(b, a)] = TRUE]
<1>1. DOMAIN s1 = DOMAIN s /\ WellFormed(s1) /\ SameButBoards(s, s1) /\ BoardsClaimed(s, s1, {b})
  BY ClaimOrCreateClaims
<1>2. MembersHaveParents(t)
  BY SaveAlbumIsSafe DEF SafeStep, Sound
<1> HIDE DEF s1
<1>3. /\ DOMAIN s2 = DOMAIN s1
      /\ \A x \in Board : s2[BoardDoc(x)] = s1[BoardDoc(x)]
      /\ \A x \in Board, y \in Album : s2[ItemDoc(x, y)] = (IF x = b /\ y = a THEN TRUE ELSE s1[ItemDoc(x, y)])
      /\ \A l \in Listen : s2[ListenDoc(l)] = s1[ListenDoc(l)]
      /\ \A x \in Board, l \in Listen : s2[MemberDoc(x, l)] = s1[MemberDoc(x, l)]
      /\ \A k \in Key : s2[ReceiptDoc(k)] = s1[ReceiptDoc(k)]
      /\ \A y \in Album : s2[FenceDoc(y)] = s1[FenceDoc(y)]
      /\ s2[ProfileDoc] = s1[ProfileDoc]
  <2>1. DOMAIN s2 = DOMAIN s1 /\ LibraryDocs \subseteq DOMAIN s1
    BY <1>1 DEF WellFormed
  <2>2. /\ \A x \in LibraryDocs : x # ItemDoc(b, a) => s2[x] = s1[x]
        /\ s2[ItemDoc(b, a)] = TRUE
    BY <2>1, DocsAreDocs
  <2> HIDE DEF s2
  <2>3. \A x \in Board, y \in Album : s2[ItemDoc(x, y)] = (IF x = b /\ y = a THEN TRUE ELSE s1[ItemDoc(x, y)])
    <3> SUFFICES ASSUME NEW x \in Board, NEW y \in Album
                 PROVE  s2[ItemDoc(x, y)] = (IF x = b /\ y = a THEN TRUE ELSE s1[ItemDoc(x, y)])
      OBVIOUS
    <3>1. ItemDoc(x, y) \in LibraryDocs /\ (ItemDoc(x, y) = ItemDoc(b, a) => x = b /\ y = a)
      BY DocsAreDocs, DocsDiffer
    <3>2. CASE x = b /\ y = a
      BY <2>2, <3>2
    <3>3. CASE ~(x = b /\ y = a)
      BY <2>2, <3>1, <3>3
    <3> QED BY <3>2, <3>3
  <2>4. \A x \in Board, l \in Listen : s2[MemberDoc(x, l)] = s1[MemberDoc(x, l)]
    <3> SUFFICES ASSUME NEW x \in Board, NEW l \in Listen
                 PROVE  s2[MemberDoc(x, l)] = s1[MemberDoc(x, l)]
      OBVIOUS
    <3>1. MemberDoc(x, l) \in LibraryDocs /\ MemberDoc(x, l) # ItemDoc(b, a)
      BY DocsAreDocs, DocsDiffer
    <3> QED BY <2>2, <3>1
  <2>5. /\ \A x \in Board : s2[BoardDoc(x)] = s1[BoardDoc(x)]
        /\ \A l \in Listen : s2[ListenDoc(l)] = s1[ListenDoc(l)]
        /\ s2[ProfileDoc] = s1[ProfileDoc]
    BY <2>2, DocsAreDocs, DocsDiffer
  <2>6. /\ \A k \in Key : s2[ReceiptDoc(k)] = s1[ReceiptDoc(k)]
        /\ \A y \in Album : s2[FenceDoc(y)] = s1[FenceDoc(y)]
    BY <2>2, DocsAreDocs, DocsDiffer
  <2> QED BY <2>1, <2>3, <2>4, <2>5, <2>6
<1>4. t \in Synced(s2, {b})
  BY DEF s1
<1> HIDE DEF s2
<1>5. WellFormed(s2)
  BY <1>1, <1>3 DEF WellFormed, TypedDocs
<1>6. BoardsClaimed(s, s2, {b})
  <2>1. \A x \in Board \ {b} : SameContents(s1, s2, x)
    BY <1>3 DEF SameContents
  <2> QED BY <1>1, <1>3, <2>1, EditAfterClaims
<1>7. ListensStay(s, s2) /\ ReceiptsStay(s, s2) /\ BirthsReceipted(s, s2)
  BY <1>1, <1>3, SameListensAndReceipts DEF SameButBoards
<1> QED BY <1>2, <1>4, <1>5, <1>6, <1>7, ClaimSyncIsTidy

\* removeAlbum is tidy: what it does to entries it does to the stored orders too.
LEMMA RemoveAlbumIsTidy ==
  ASSUME NEW s, WellFormed(s), Sound(s), AllInOrder(s),
         NEW b \in Board, NEW a \in Album, Live(s, b),
         NEW t \in Synced(RemoveFromBoard(ClaimBoard(s, b), b, a), {b})
  PROVE  Tidy(s, t)
<1> DEFINE s1 == ClaimBoard(s, b)
           s2 == RemoveFromBoard(s1, b, a)
<1>1. DOMAIN s1 = DOMAIN s /\ WellFormed(s1) /\ SameButBoards(s, s1) /\ BoardsClaimed(s, s1, {b})
  <2>1. ClaimOrCreate(s, b) = ClaimBoard(s, b) /\ Claimable(s, b, TRUE)
    BY DEF ClaimOrCreate, Claimable
  <2> QED BY <2>1, ClaimOrCreateClaims
<1>2. MembersHaveParents(t)
  BY RemoveAlbumIsSafe DEF SafeStep, Sound
<1> HIDE DEF s1
<1>3. /\ DOMAIN s2 = DOMAIN s1
      /\ \A x \in Board : s2[BoardDoc(x)] = s1[BoardDoc(x)]
      /\ \A x \in Board, y \in Album : s2[ItemDoc(x, y)] \in {FALSE, s1[ItemDoc(x, y)]}
      /\ \A x \in Board \ {b}, y \in Album : s2[ItemDoc(x, y)] = s1[ItemDoc(x, y)]
      /\ \A l \in Listen : s2[ListenDoc(l)] = s1[ListenDoc(l)]
      /\ \A x \in Board, l \in Listen : s2[MemberDoc(x, l)] \in {FALSE, s1[MemberDoc(x, l)]}
      /\ \A k \in Key : s2[ReceiptDoc(k)] = s1[ReceiptDoc(k)]
      /\ \A y \in Album : s2[FenceDoc(y)] = s1[FenceDoc(y)]
      /\ s2[ProfileDoc] = s1[ProfileDoc]
  <2>1. DOMAIN s2 = DOMAIN s1 /\ LibraryDocs \subseteq DOMAIN s1
    BY <1>1 DEF WellFormed, RemoveFromBoard
  <2>2. \A x \in LibraryDocs :
          x # ItemDoc(b, a) /\ (\A l \in Listen : x # MemberDoc(b, l)) => s2[x] = s1[x]
    BY <2>1 DEF RemoveFromBoard
  <2>3. \A x \in LibraryDocs : s2[x] \in {FALSE, s1[x]}
    BY <2>1 DEF RemoveFromBoard
  <2> HIDE DEF s2
  <2>4. \A x \in Board \ {b}, y \in Album : s2[ItemDoc(x, y)] = s1[ItemDoc(x, y)]
    BY <2>2, DocsAreDocs, DocsDiffer
  <2>5. /\ \A x \in Board, y \in Album : s2[ItemDoc(x, y)] \in {FALSE, s1[ItemDoc(x, y)]}
        /\ \A x \in Board, l \in Listen : s2[MemberDoc(x, l)] \in {FALSE, s1[MemberDoc(x, l)]}
    BY <2>3, DocsAreDocs
  <2>6. \A x \in Board : s2[BoardDoc(x)] = s1[BoardDoc(x)]
    BY <2>2, DocsAreDocs, DocsDiffer
  <2>7. \A l \in Listen : s2[ListenDoc(l)] = s1[ListenDoc(l)]
    BY <2>2, DocsAreDocs, DocsDiffer
  <2>8. \A k \in Key : s2[ReceiptDoc(k)] = s1[ReceiptDoc(k)]
    BY <2>2, DocsAreDocs, DocsDiffer
  <2>9. /\ \A y \in Album : s2[FenceDoc(y)] = s1[FenceDoc(y)]
        /\ s2[ProfileDoc] = s1[ProfileDoc]
    BY <2>2, DocsAreDocs, DocsDiffer
  <2> QED BY <2>1, <2>4, <2>5, <2>6, <2>7, <2>8, <2>9
<1>4. \A x \in Board \ {b}, l \in Listen : s2[MemberDoc(x, l)] = s1[MemberDoc(x, l)]
  BY <1>1, DocsAreDocs, DocsDiffer DEF WellFormed, RemoveFromBoard
<1>5. t \in Synced(s2, {b})
  BY DEF s1
<1> HIDE DEF s2
<1>6. WellFormed(s2)
  BY <1>1, <1>3 DEF WellFormed, TypedDocs
<1>7. BoardsClaimed(s, s2, {b})
  <2>1. \A x \in Board \ {b} : SameContents(s1, s2, x)
    BY <1>3, <1>4 DEF SameContents
  <2> QED BY <1>1, <1>3, <2>1, EditAfterClaims
<1>8. ListensStay(s, s2) /\ ReceiptsStay(s, s2) /\ BirthsReceipted(s, s2)
  BY <1>1, <1>3, SameListensAndReceipts DEF SameButBoards
<1> QED BY <1>2, <1>5, <1>6, <1>7, <1>8, ClaimSyncIsTidy

\* setMembership is tidy: what it does to entries it does to the stored orders too.
LEMMA SetMembershipIsTidy ==
  ASSUME NEW s, WellFormed(s), Sound(s), AllInOrder(s),
         NEW b \in Board, NEW l \in Listen, NEW attached \in BOOLEAN,
         Claimable(s, b, attached), LiveListen(s, l),
         NEW t \in Synced([ClaimListen(ClaimOrCreate(s, b), l) EXCEPT ![MemberDoc(b, l)] = attached], {b})
  PROVE  Tidy(s, t)
<1> DEFINE s1 == ClaimOrCreate(s, b)
           s2 == [ClaimListen(s1, l) EXCEPT ![MemberDoc(b, l)] = attached]
<1>0. Claimable(s, b, TRUE)
  BY DEF Claimable
<1>1. DOMAIN s1 = DOMAIN s /\ WellFormed(s1) /\ SameButBoards(s, s1) /\ BoardsClaimed(s, s1, {b})
  BY <1>0, ClaimOrCreateClaims
<1>2. MembersHaveParents(t)
  BY SetMembershipIsSafe DEF SafeStep, Sound
<1> HIDE DEF s1
<1>3. /\ DOMAIN s2 = DOMAIN s1
      /\ \A x \in Board : s2[BoardDoc(x)] = s1[BoardDoc(x)]
      /\ \A x \in Board, y \in Album : s2[ItemDoc(x, y)] = s1[ItemDoc(x, y)]
      /\ s2[ListenDoc(l)] = [s1[ListenDoc(l)] EXCEPT !.rev = @ + 1]
      /\ \A m \in Listen \ {l} : s2[ListenDoc(m)] = s1[ListenDoc(m)]
      /\ s2[MemberDoc(b, l)] = attached
      /\ \A x \in Board, m \in Listen : x # b \/ m # l => s2[MemberDoc(x, m)] = s1[MemberDoc(x, m)]
      /\ \A k \in Key : s2[ReceiptDoc(k)] = s1[ReceiptDoc(k)]
      /\ \A y \in Album : s2[FenceDoc(y)] = s1[FenceDoc(y)]
      /\ s2[ProfileDoc] = s1[ProfileDoc]
  BY <1>1, DocsAreDocs, DocsDiffer DEF WellFormed, ClaimListen
<1>4. t \in Synced(s2, {b})
  BY DEF s1
<1> HIDE DEF s2
<1>5. /\ s2[ListenDoc(l)] \in ListenValue /\ s2[ListenDoc(l)].state = "live"
      /\ s2[ListenDoc(l)].album = s[ListenDoc(l)].album /\ s2[ListenDoc(l)].source = s[ListenDoc(l)].source
  <2>1. s1[ListenDoc(l)] = s[ListenDoc(l)] /\ s[ListenDoc(l)] \in ListenValue
    BY <1>1 DEF SameButBoards, WellFormed, TypedDocs
  <2>2. s[ListenDoc(l)] \in [state: {"live", "deleted"}, rev: Nat, album: Album, date: Date,
                             source: {"manual", "automatic"}]
    BY <2>1 DEF ListenValue, LiveListen
  <2>3. s2[ListenDoc(l)] = [s[ListenDoc(l)] EXCEPT !.rev = @ + 1]
    BY <1>3, <2>1
  <2> QED BY <2>2, <2>3 DEF ListenValue, LiveListen
<1>6. WellFormed(s2)
  BY <1>1, <1>3, <1>5 DEF WellFormed, TypedDocs
<1>7. BoardsClaimed(s, s2, {b})
  <2>1. \A x \in Board \ {b} : SameContents(s1, s2, x)
    BY <1>3 DEF SameContents
  <2> QED BY <1>1, <1>3, <2>1, EditAfterClaims
<1>8. ListensStay(s, s2) /\ ReceiptsStay(s, s2) /\ BirthsReceipted(s, s2)
  <2>1. \A m \in Listen \ {l} : s2[ListenDoc(m)] = s[ListenDoc(m)]
    BY <1>1, <1>3 DEF SameButBoards
  <2>2. \A k \in Key : s2[ReceiptDoc(k)] = s[ReceiptDoc(k)]
    BY <1>1, <1>3 DEF SameButBoards
  <2>3. s[ListenDoc(l)].state = "live"
    BY DEF LiveListen
  <2> QED BY <1>5, <2>1, <2>2, <2>3 DEF ListensStay, ReceiptsStay, BirthsReceipted
<1> QED BY <1>2, <1>4, <1>6, <1>7, <1>8, ClaimSyncIsTidy

\* Board b of s1 gets another order mode or order in t.
BoardEdited(s1, t, b, manual, order) ==
  /\ t[BoardDoc(b)] = [s1[BoardDoc(b)] EXCEPT !.manual = manual, !.order = order]
  /\ \A x \in LibraryDocs : x # BoardDoc(b) => t[x] = s1[x]

\* A claimed board that gets an order which follows its albums is in order.
LEMMA BoardEditIsTidy ==
  ASSUME NEW s, NEW s1, WellFormed(s), Sound(s), AllInOrder(s), WellFormed(s1), SameButBoards(s, s1),
         NEW b \in Board, BoardsClaimed(s, s1, {b}),
         NEW t, SafeStep(s, t), NEW manual \in BOOLEAN, NEW order,
         BoardEdited(s1, t, b, manual, order),
         manual => Follows(order, Entries(s, b))
  PROVE  Tidy(s, t)
<1>1. MembersHaveParents(s) /\ MembersHaveParents(t)
  BY DEF SafeStep, Sound
<1>2. s[BoardDoc(b)] \in BoardValue /\ s1[BoardDoc(b)] \in BoardValue
  BY DEF WellFormed, TypedDocs
<1>3. /\ t[BoardDoc(b)].state = "live" /\ t[BoardDoc(b)].rev = s1[BoardDoc(b)].rev
      /\ t[BoardDoc(b)].manual = manual /\ t[BoardDoc(b)].order = order
  BY <1>2 DEF BoardsClaimed, BoardValue, Live, BoardEdited
<1>0. \A x \in LibraryDocs : x # BoardDoc(b) => t[x] = s1[x]
  BY DEF BoardEdited
<1>4. \A l \in Listen : t[ListenDoc(l)] = s[ListenDoc(l)]
  BY <1>0, DocsAreDocs, DocsDiffer DEF SameButBoards
<1>5. \A k \in Key : t[ReceiptDoc(k)] = s[ReceiptDoc(k)]
  BY <1>0, DocsAreDocs, DocsDiffer DEF SameButBoards
<1>6. ListensStay(s, t) /\ ReceiptsStay(s, t) /\ BirthsReceipted(s, t)
  BY <1>4, <1>5, SameListensAndReceipts
<1>7. \A x \in Board : SameContents(s, t, x)
  <2>1. \A x \in Board, a \in Album : t[ItemDoc(x, a)] = s[ItemDoc(x, a)]
    BY <1>0, DocsAreDocs, DocsDiffer DEF SameButBoards
  <2>2. \A x \in Board, l \in Listen : t[MemberDoc(x, l)] = s[MemberDoc(x, l)]
    BY <1>0, DocsAreDocs, DocsDiffer DEF SameButBoards
  <2> QED BY <2>1, <2>2 DEF SameContents
<1>8. \A x \in Board \ {b} : t[BoardDoc(x)] = s[BoardDoc(x)]
  BY <1>0, DocsAreDocs, DocsDiffer DEF BoardsClaimed
<1>9. RevisionsTell(s, t)
  <2>1. \A x \in Board : s[BoardDoc(x)].rev \in Nat
    BY DEF WellFormed, TypedDocs, BoardValue
  <2>2. /\ s[BoardDoc(b)].rev <= t[BoardDoc(b)].rev
        /\ Live(s, b) => s[BoardDoc(b)].rev < t[BoardDoc(b)].rev
    BY <1>3 DEF BoardsClaimed
  <2>3. t[BoardDoc(b)].rev \in Nat
    BY <1>2, <1>3 DEF BoardValue
  <2>4. Live(s, b) => t[BoardDoc(b)].rev # s[BoardDoc(b)].rev
    BY <2>1, <2>2, <2>3
  <2>5. \A x \in Board \ {b} : s[BoardDoc(x)].rev <= t[BoardDoc(x)].rev
    BY <1>8, <2>1
  <2> QED BY <1>8, <2>2, <2>4, <2>5 DEF RevisionsTell
<1>10. ASSUME NEW x \in Board PROVE InOrder(t, x)
  <2>1. CASE x # b
    BY <1>1, <1>6, <1>7, <1>8, <2>1, StaysInOrder DEF AllInOrder
  <2>2. CASE x = b
    <3>1. Entries(t, b) = Entries(s, b)
      BY <1>1, <1>6, <1>7, SameEntries
    <3> QED BY <1>3, <2>2, <3>1 DEF InOrder, Live, Manual
  <2> QED BY <2>1, <2>2
<1> QED BY <1>6, <1>7, <1>9, <1>10 DEF Tidy, AllInOrder, ContentsClaimed

\* The orders that updateBoard may store.
SeededOrders(s, b, manual) ==
  IF manual /\ ~Manual(s, b) THEN Arrangements(Entries(s, b))
  ELSE IF manual THEN {s[BoardDoc(b)].order} ELSE {<<>>}

\* updateBoard: a switch to manual order seeds it with an arrangement of the
\* albums, and a board that was manual keeps the order it had.
LEMMA UpdateBoardIsTidy ==
  ASSUME NEW s, WellFormed(s), Sound(s), AllInOrder(s), NEW b \in Board, Claimable(s, b, TRUE),
         NEW manual \in BOOLEAN,
         (manual /\ ~Manual(s, b)) => Cardinality(Entries(s, b)) <= OrderLimit,
         NEW order \in SeededOrders(s, b, manual)
  PROVE  Tidy(s, [ClaimOrCreate(s, b) EXCEPT ![BoardDoc(b)].manual = manual,
                                             ![BoardDoc(b)].order = order])
<1> DEFINE s1 == ClaimOrCreate(s, b)
           t == [s1 EXCEPT ![BoardDoc(b)].manual = manual, ![BoardDoc(b)].order = order]
<1>1. DOMAIN s1 = DOMAIN s /\ WellFormed(s1) /\ SameButBoards(s, s1) /\ BoardsClaimed(s, s1, {b})
  BY ClaimOrCreateClaims
<1>2. order \in Seq(Album) /\ (manual => Follows(order, Entries(s, b)))
  <2>1. CASE manual /\ ~Manual(s, b)
    <3>1. order \in Arrangements(Entries(s, b)) /\ Entries(s, b) \subseteq Album
      BY <2>1, EntriesAreAlbums DEF SeededOrders
    <3>2. order \in Seq(Album) /\ Injective(order) /\ Len(order) = Cardinality(Entries(s, b))
          /\ Elements(order) = Entries(s, b)
      BY <3>1, ArrangementsFill
    <3> QED BY <2>1, <3>2 DEF Follows
  <2>2. CASE manual /\ Manual(s, b)
    <3>1. order = s[BoardDoc(b)].order
      BY <2>2 DEF SeededOrders
    <3>2. Live(s, b)
      BY <2>2 DEF Claimable, AllInOrder, InOrder
    <3>3. order \in Seq(Album)
      BY <3>1 DEF WellFormed, TypedDocs, BoardValue
    <3> QED BY <2>2, <3>1, <3>2, <3>3 DEF AllInOrder, InOrder
  <2>3. CASE ~manual
    <3>1. order = <<>>
      BY <2>3 DEF SeededOrders
    <3> QED BY <2>3, <3>1
  <2> QED BY <2>1, <2>2, <2>3
<1>3. SafeStep(s, t)
  BY <1>2, UpdateBoardIsSafe
<1> HIDE DEF s1
<1>4. BoardEdited(s1, t, b, manual, order)
  BY <1>1, DocsAreDocs DEF WellFormed, BoardEdited
<1> HIDE DEF t
<1>5. Tidy(s, t)
  BY <1>1, <1>2, <1>3, <1>4, BoardEditIsTidy
<1> QED BY <1>5 DEF t, s1

\* reorderBoard: the order sent names as many albums of the board as it must.
LEMMA ReorderBoardIsTidy ==
  ASSUME NEW s, WellFormed(s), Sound(s), AllInOrder(s), NEW b \in Board, Live(s, b), Manual(s, b),
         NEW order \in Seq(Album), Injective(order),
         \/ Len(order) = Cardinality(Entries(s, b)) /\ Len(order) <= OrderLimit
         \/ Len(order) = OrderLimit /\ Cardinality(Entries(s, b)) > OrderLimit,
         Elements(order) \subseteq Entries(s, b)
  PROVE  Tidy(s, [ClaimBoard(s, b) EXCEPT ![BoardDoc(b)].order = order])
<1> DEFINE s1 == ClaimBoard(s, b)
           t == [s1 EXCEPT ![BoardDoc(b)].order = order]
<1>1. DOMAIN s1 = DOMAIN s /\ WellFormed(s1) /\ SameButBoards(s, s1) /\ BoardsClaimed(s, s1, {b})
  <2>1. ClaimOrCreate(s, b) = ClaimBoard(s, b) /\ Claimable(s, b, TRUE)
    BY DEF ClaimOrCreate, Claimable
  <2> QED BY <2>1, ClaimOrCreateClaims
<1>2. SafeStep(s, t)
  BY ReorderBoardIsSafe
<1>3. s1[BoardDoc(b)] \in BoardValue /\ BoardDoc(b) \in DOMAIN s1 /\ s1[BoardDoc(b)].manual = TRUE
  <2>1. s1[BoardDoc(b)] \in BoardValue /\ BoardDoc(b) \in DOMAIN s1
    BY <1>1, DocsAreDocs DEF WellFormed, TypedDocs
  <2>2. s1[BoardDoc(b)].manual = s[BoardDoc(b)].manual
    BY <1>1 DEF BoardsClaimed
  <2> QED BY <2>1, <2>2 DEF Manual, BoardValue
<1> HIDE DEF s1
<1>4. BoardEdited(s1, t, b, TRUE, order)
  <2>1. [s1[BoardDoc(b)] EXCEPT !.order = order] = [s1[BoardDoc(b)] EXCEPT !.manual = TRUE, !.order = order]
    BY <1>3 DEF BoardValue
  <2>2. t[BoardDoc(b)] = [s1[BoardDoc(b)] EXCEPT !.order = order]
    BY <1>3
  <2>3. \A x \in LibraryDocs : x # BoardDoc(b) => t[x] = s1[x]
    BY <1>1 DEF WellFormed
  <2> QED BY <2>1, <2>2, <2>3 DEF BoardEdited
<1>5. Follows(order, Entries(s, b))
  <2>1. Entries(s, b) \subseteq Album /\ Cardinality(Entries(s, b)) \in Nat /\ OrderLimit \in Nat
    BY EntriesAreAlbums, AlbumsAreFinite, OrderLimitAssumption
  <2>2. Cardinality(Entries(s, b)) <= OrderLimit => Len(order) = Cardinality(Entries(s, b))
    BY <2>1
  <2>3. Cardinality(Entries(s, b)) <= OrderLimit => Elements(order) = Entries(s, b)
    BY <2>1, <2>2, InjectiveFills
  <2>4. Len(order) <= OrderLimit
    BY <2>1
  <2> QED BY <2>3, <2>4 DEF Follows
<1> HIDE DEF t
<1>6. Tidy(s, t)
  BY <1>1, <1>2, <1>4, <1>5, BoardEditIsTidy
<1> QED BY <1>6 DEF t, s1

\* A claim of a board and an edit of the profile alone.
LEMMA PinBoardIsTidy ==
  ASSUME NEW s, WellFormed(s), Sound(s), AllInOrder(s), NEW b \in Board, Live(s, b)
  PROVE  Tidy(s, [ClaimBoard(s, b) EXCEPT ![ProfileDoc].exists = TRUE, ![ProfileDoc].pin = b])
<1> DEFINE s1 == ClaimBoard(s, b)
           t == [s1 EXCEPT ![ProfileDoc].exists = TRUE, ![ProfileDoc].pin = b]
<1>1. DOMAIN s1 = DOMAIN s /\ WellFormed(s1) /\ SameButBoards(s, s1) /\ BoardsClaimed(s, s1, {b})
  <2>1. ClaimOrCreate(s, b) = ClaimBoard(s, b) /\ Claimable(s, b, TRUE)
    BY DEF ClaimOrCreate, Claimable
  <2> QED BY <2>1, ClaimOrCreateClaims
<1>2. MembersHaveParents(s) /\ MembersHaveParents(t)
  BY PinBoardIsSafe DEF SafeStep, Sound
<1> HIDE DEF s1
<1>3. \A x \in LibraryDocs : x # ProfileDoc => t[x] = s1[x]
  BY <1>1 DEF WellFormed
<1> HIDE DEF t
<1>4. \A x \in Board : t[BoardDoc(x)] = s1[BoardDoc(x)]
  BY <1>3, DocsAreDocs, DocsDiffer
<1>5. \A l \in Listen : t[ListenDoc(l)] = s[ListenDoc(l)]
  BY <1>1, <1>3, DocsAreDocs, DocsDiffer DEF SameButBoards
<1>6. \A k \in Key : t[ReceiptDoc(k)] = s[ReceiptDoc(k)]
  BY <1>1, <1>3, DocsAreDocs, DocsDiffer DEF SameButBoards
<1>7. ListensStay(s, t) /\ ReceiptsStay(s, t) /\ BirthsReceipted(s, t)
  BY <1>5, <1>6, SameListensAndReceipts
<1>8. \A x \in Board : SameContents(s, t, x)
  <2>1. \A x \in Board, a \in Album : t[ItemDoc(x, a)] = s[ItemDoc(x, a)]
    BY <1>1, <1>3, DocsAreDocs, DocsDiffer DEF SameButBoards
  <2>2. \A x \in Board, l \in Listen : t[MemberDoc(x, l)] = s[MemberDoc(x, l)]
    BY <1>1, <1>3, DocsAreDocs, DocsDiffer DEF SameButBoards
  <2> QED BY <2>1, <2>2 DEF SameContents
<1>9. \A x \in Board \ {b} : t[BoardDoc(x)] = s[BoardDoc(x)]
  BY <1>1, <1>4 DEF BoardsClaimed
<1>10. \A x \in Board : s[BoardDoc(x)].rev \in Nat /\ s1[BoardDoc(x)].rev \in Nat
  BY <1>1 DEF WellFormed, TypedDocs, BoardValue
<1>11. s[BoardDoc(b)].rev < t[BoardDoc(b)].rev
  BY <1>1, <1>4 DEF BoardsClaimed
<1>12. RevisionsTell(s, t)
  BY <1>4, <1>9, <1>10, <1>11 DEF RevisionsTell
<1>13. ASSUME NEW x \in Board PROVE InOrder(t, x)
  <2>1. CASE x # b
    BY <1>2, <1>7, <1>8, <1>9, <2>1, StaysInOrder DEF AllInOrder
  <2>2. CASE x = b
    <3>1. /\ t[BoardDoc(b)].state = s[BoardDoc(b)].state /\ t[BoardDoc(b)].manual = s[BoardDoc(b)].manual
          /\ t[BoardDoc(b)].order = s[BoardDoc(b)].order
      BY <1>1, <1>4 DEF BoardsClaimed, Live
    <3> QED BY <1>2, <1>7, <1>8, <2>2, <3>1, StaysInOrderClaimed DEF AllInOrder
  <2> QED BY <2>1, <2>2
<1>14. Tidy(s, t)
  BY <1>7, <1>8, <1>12, <1>13 DEF Tidy, AllInOrder, ContentsClaimed
<1> QED BY <1>14 DEF t, s1

\* deleteBoard is tidy: what it does to entries it does to the stored orders too.
LEMMA DeleteBoardIsTidy ==
  ASSUME NEW s, WellFormed(s), Sound(s), AllInOrder(s), NEW b \in Board, Live(s, b), b # DefaultBoard
  PROVE  Tidy(s, DropBoard(ClaimBoard(s, b), b))
<1> DEFINE s1 == ClaimBoard(s, b)
           t == DropBoard(s1, b)
<1>1. DOMAIN s1 = DOMAIN s /\ WellFormed(s1) /\ SameButBoards(s, s1) /\ BoardsClaimed(s, s1, {b})
  <2>1. ClaimOrCreate(s, b) = ClaimBoard(s, b) /\ Claimable(s, b, TRUE)
    BY DEF ClaimOrCreate, Claimable
  <2> QED BY <2>1, ClaimOrCreateClaims
<1>2. MembersHaveParents(s) /\ MembersHaveParents(t)
  BY DeleteBoardIsSafe DEF SafeStep, Sound
<1> HIDE DEF s1
<1>3. BoardDropped(s1, t, b)
  BY <1>1, DropBoardEffect
<1> HIDE DEF t
<1>4. \A x \in Board \ {b} : t[BoardDoc(x)] = s[BoardDoc(x)]
  BY <1>1, <1>3 DEF BoardsClaimed, BoardDropped
<1>5. \A x \in Board \ {b} : SameContents(s, t, x)
  <2>1. ASSUME NEW x \in Board \ {b}, NEW a \in Album PROVE t[ItemDoc(x, a)] = s[ItemDoc(x, a)]
    <3>1. t[ItemDoc(x, a)] = IF x = b THEN FALSE ELSE s1[ItemDoc(x, a)]
      BY <1>3 DEF BoardDropped
    <3>2. s1[ItemDoc(x, a)] = s[ItemDoc(x, a)]
      BY <1>1 DEF SameButBoards
    <3> QED BY <3>1, <3>2
  <2>2. ASSUME NEW x \in Board \ {b}, NEW l \in Listen PROVE t[MemberDoc(x, l)] = s[MemberDoc(x, l)]
    <3>1. t[MemberDoc(x, l)] = IF x = b THEN FALSE ELSE s1[MemberDoc(x, l)]
      BY <1>3 DEF BoardDropped
    <3>2. s1[MemberDoc(x, l)] = s[MemberDoc(x, l)]
      BY <1>1 DEF SameButBoards
    <3> QED BY <3>1, <3>2
  <2> QED BY <2>1, <2>2 DEF SameContents
<1>6. ListensStay(s, t) /\ ReceiptsStay(s, t) /\ BirthsReceipted(s, t)
  BY <1>1, <1>3, SameListensAndReceipts DEF SameButBoards, BoardDropped
<1>7. /\ t[BoardDoc(b)].state = "deleted" /\ s[BoardDoc(b)].rev < t[BoardDoc(b)].rev
      /\ s[BoardDoc(b)].rev \in Nat /\ t[BoardDoc(b)].rev \in Nat
  <2>1. s1[BoardDoc(b)] \in BoardValue /\ s[BoardDoc(b)] \in BoardValue
    BY <1>1 DEF WellFormed, TypedDocs
  <2>2. t[BoardDoc(b)] = [s1[BoardDoc(b)] EXCEPT !.state = "deleted"]
    BY <1>3 DEF BoardDropped
  <2>3. s[BoardDoc(b)].rev < s1[BoardDoc(b)].rev
    BY <1>1 DEF BoardsClaimed
  <2> QED BY <2>1, <2>2, <2>3 DEF BoardValue
<1>8. t[BoardDoc(b)] # s[BoardDoc(b)]
  BY <1>7 DEF Live
<1>9. RevisionsTell(s, t)
  <2>1. \A x \in Board : s[BoardDoc(x)].rev \in Nat
    BY DEF WellFormed, TypedDocs, BoardValue
  <2>2. \A x \in Board \ {b} : s[BoardDoc(x)].rev <= t[BoardDoc(x)].rev
    BY <1>4, <2>1
  <2> QED BY <1>4, <1>7, <2>2 DEF RevisionsTell
<1>10. ASSUME NEW x \in Board PROVE InOrder(t, x)
  <2>1. CASE x # b
    BY <1>2, <1>4, <1>5, <1>6, <2>1, StaysInOrder DEF AllInOrder
  <2>2. CASE x = b
    BY <1>7, <2>2 DEF InOrder, Live
  <2> QED BY <2>1, <2>2
<1>11. Tidy(s, t)
  BY <1>5, <1>6, <1>8, <1>9, <1>10 DEF Tidy, AllInOrder, ContentsClaimed
<1> QED BY <1>11 DEF t, s1

\* The profile is no part of what Tidy says.
LEMMA ProfileAside ==
  ASSUME NEW s, NEW t, NEW u, Tidy(s, t), \A x \in LibraryDocs : x # ProfileDoc => u[x] = t[x]
  PROVE  Tidy(s, u)
<1>1. \A x \in Board : u[BoardDoc(x)] = t[BoardDoc(x)]
  BY DocsAreDocs, DocsDiffer
<1>2. \A x \in Board, a \in Album : u[ItemDoc(x, a)] = t[ItemDoc(x, a)]
  BY DocsAreDocs, DocsDiffer
<1>3. \A x \in Board, l \in Listen : u[MemberDoc(x, l)] = t[MemberDoc(x, l)]
  BY DocsAreDocs, DocsDiffer
<1>4. \A l \in Listen : u[ListenDoc(l)] = t[ListenDoc(l)]
  BY DocsAreDocs, DocsDiffer
<1>5. \A k \in Key : u[ReceiptDoc(k)] = t[ReceiptDoc(k)]
  BY DocsAreDocs, DocsDiffer
<1>6. \A x \in Board : Entries(u, x) = Entries(t, x)
  BY <1>2, <1>3, <1>4 DEF Entries, LiveListen
<1>7. AllInOrder(u)
  BY <1>1, <1>6 DEF Tidy, AllInOrder, InOrder, Live, Manual
<1>8. ListensStay(s, u)
  BY <1>4 DEF Tidy, ListensStay
<1>9. ReceiptsStay(s, u)
  BY <1>5 DEF Tidy, ReceiptsStay
<1>10. BirthsReceipted(s, u)
  BY <1>4, <1>5 DEF Tidy, BirthsReceipted
<1>11. ContentsClaimed(s, u)
  BY <1>1, <1>2, <1>3 DEF Tidy, ContentsClaimed, SameContents
<1>12. RevisionsTell(s, u)
  BY <1>1 DEF Tidy, RevisionsTell
<1> QED BY <1>7, <1>8, <1>9, <1>10, <1>11, <1>12 DEF Tidy

\* createListen is tidy: what it does to entries it does to the stored orders too.
LEMMA CreateListenIsTidy ==
  ASSUME NEW s, WellFormed(s), Sound(s), AllInOrder(s), NEW a \in Album, NEW date \in Date,
         NEW B \in SUBSET Board, \A b \in B : Live(s, b), NEW k \in Key, ~Receipted(s, k), NEW l \in Listen,
         s[ListenDoc(l)].state = "unborn",
         NEW input \in [album: Album, date: Date, boards: SUBSET Board],
         NEW t \in Synced(AttachAll([InsertListen(ClaimBoards(FenceAlbum(s, a), B), l, a, date, "manual")
                                       EXCEPT ![ReceiptDoc(k)] = [used |-> TRUE, listen |-> l, input |-> input]],
                                    l, B), B)
  PROVE  Tidy(s, RemoveListened(t, a))
<1> DEFINE s0 == FenceAlbum(s, a)
           s1 == ClaimBoards(s0, B)
           receipt == [used |-> TRUE, listen |-> l, input |-> input]
           listen == [state |-> "live", rev |-> 0, album |-> a, date |-> date, source |-> "manual"]
           s2 == AttachAll([InsertListen(s1, l, a, date, "manual") EXCEPT ![ReceiptDoc(k)] = receipt], l, B)
           u == RemoveListened(t, a)
<1>1. DOMAIN s0 = DOMAIN s /\ WellFormed(s0) /\ \A x \in DOMAIN s : x # FenceDoc(a) => s0[x] = s[x]
  BY FenceAlbumEffect
<1> HIDE DEF s0
<1>2. /\ \A x \in Board : s0[BoardDoc(x)] = s[BoardDoc(x)]
      /\ \A x \in Board, y \in Album : s0[ItemDoc(x, y)] = s[ItemDoc(x, y)]
      /\ \A m \in Listen : s0[ListenDoc(m)] = s[ListenDoc(m)]
      /\ \A x \in Board, m \in Listen : s0[MemberDoc(x, m)] = s[MemberDoc(x, m)]
      /\ \A j \in Key : s0[ReceiptDoc(j)] = s[ReceiptDoc(j)]
  BY <1>1, DocsAreDocs, DocsDiffer DEF WellFormed
<1>3. DOMAIN s1 = DOMAIN s0 /\ WellFormed(s1) /\ SameButBoards(s0, s1) /\ BoardsClaimed(s0, s1, B)
  <2>1. \A b \in B : Live(s0, b)
    BY <1>2 DEF Live
  <2> QED BY <1>1, <2>1, ClaimBoardsClaims
<1> HIDE DEF s1
<1>4. receipt.used = TRUE /\ receipt.listen = l /\ receipt \in ReceiptValue
  BY DEF ReceiptValue
<1> HIDE DEF receipt
<1>5. ListenAdded(s1, s2, l, listen, k, receipt, B)
  BY <1>3, NewListenEffect
<1>6. listen.source = "manual" /\ listen \in ListenValue
  BY DEF ListenValue
<1>7. t \in Synced(s2, B)
  BY DEF s0, s1, receipt
<1> HIDE DEF s2, listen
<1>8. WellFormed(s2)
  <2>1. \A x \in Board : s2[BoardDoc(x)] \in BoardValue
    BY <1>3, <1>5 DEF ListenAdded, WellFormed, TypedDocs
  <2>2. \A x \in Board, m \in Listen : s2[MemberDoc(x, m)] \in BOOLEAN
    BY <1>3, <1>5 DEF ListenAdded, WellFormed, TypedDocs
  <2>3. \A m \in Listen : s2[ListenDoc(m)] \in ListenValue
    BY <1>3, <1>5, <1>6 DEF ListenAdded, WellFormed, TypedDocs
  <2>4. \A j \in Key : s2[ReceiptDoc(j)] \in ReceiptValue
    BY <1>3, <1>4, <1>5 DEF ListenAdded, WellFormed, TypedDocs
  <2> QED BY <1>3, <1>5, <2>1, <2>2, <2>3, <2>4 DEF ListenAdded, WellFormed, TypedDocs
<1>9. BoardsClaimed(s, s2, B)
  <2>1. BoardsClaimed(s, s1, B)
    BY <1>2, <1>3 DEF BoardsClaimed, SameContents, Claimable, Live
  <2>2. \A x \in Board \ B : SameContents(s1, s2, x)
    BY <1>5 DEF ListenAdded, SameContents
  <2> QED BY <1>5, <2>1, <2>2, EditAfterClaims DEF ListenAdded
<1>10. \A m \in Listen \ {l} : s2[ListenDoc(m)] = s[ListenDoc(m)]
  BY <1>2, <1>3, <1>5 DEF ListenAdded, SameButBoards
<1>11. \A j \in Key \ {k} : s2[ReceiptDoc(j)] = s[ReceiptDoc(j)]
  BY <1>2, <1>3, <1>5 DEF ListenAdded, SameButBoards
<1>12. ListensStay(s, s2)
  BY <1>10 DEF ListensStay
<1>13. ReceiptsStay(s, s2)
  BY <1>11 DEF ReceiptsStay, Receipted
<1>14. BirthsReceipted(s, s2)
  BY <1>4, <1>5, <1>10 DEF BirthsReceipted, ListenAdded, Receipted
<1>15. SafeStep(s, u)
  BY CreateListenIsSafe DEF s2, s1, s0, receipt
<1>16. \A x \in LibraryDocs : x # ProfileDoc => u[x] = t[x]
  <2>1. WellFormed(t)
    BY <1>7, <1>8, SyncedEffect DEF OnlyBoards
  <2> QED BY <2>1, RemoveListenedEffect DEF WellFormed
<1> HIDE DEF u
<1>17. MembersHaveParents(t)
  <2>1. \A x \in Board, m \in Listen : /\ u[MemberDoc(x, m)] = t[MemberDoc(x, m)]
                                       /\ u[BoardDoc(x)] = t[BoardDoc(x)]
                                       /\ u[ListenDoc(m)] = t[ListenDoc(m)]
    BY <1>16, DocsAreDocs, DocsDiffer
  <2> QED BY <1>15, <2>1 DEF SafeStep, Sound, MembersHaveParents, Live, LiveListen
<1>18. Tidy(s, t)
  BY <1>7, <1>8, <1>9, <1>12, <1>13, <1>14, <1>17, ClaimSyncIsTidy
<1>19. Tidy(s, u)
  BY <1>16, <1>18, ProfileAside
<1> QED BY <1>19 DEF u

\* updateListen is tidy: what it does to entries it does to the stored orders too.
LEMMA UpdateListenIsTidy ==
  ASSUME NEW s, WellFormed(s), Sound(s), AllInOrder(s), NEW l \in Listen, LiveListen(s, l), NEW date \in Date
  PROVE  Tidy(s, [ClaimListen(s, l) EXCEPT ![ListenDoc(l)].date = date])
<1> DEFINE t == [ClaimListen(s, l) EXCEPT ![ListenDoc(l)].date = date]
<1>1. MembersHaveParents(s) /\ MembersHaveParents(t)
  BY UpdateListenIsSafe DEF SafeStep, Sound
<1>2. /\ \A x \in LibraryDocs : x # ListenDoc(l) => t[x] = s[x]
      /\ t[ListenDoc(l)] = [s[ListenDoc(l)] EXCEPT !.rev = @ + 1, !.date = date]
  BY DocsAreDocs DEF ClaimListen, WellFormed
<1> HIDE DEF t
<1>3. s[ListenDoc(l)] \in [state: {"live", "deleted"}, rev: Nat, album: Album, date: Date,
                           source: {"manual", "automatic"}]
  <2>1. s[ListenDoc(l)] \in ListenValue
    BY DEF WellFormed, TypedDocs
  <2> QED BY <2>1 DEF ListenValue, LiveListen
<1>4. /\ t[ListenDoc(l)].state = s[ListenDoc(l)].state /\ t[ListenDoc(l)].album = s[ListenDoc(l)].album
      /\ t[ListenDoc(l)].source = s[ListenDoc(l)].source
  <2> DEFINE v == s[ListenDoc(l)]
  <2>1. t[ListenDoc(l)] = [v EXCEPT !.rev = @ + 1, !.date = date]
    BY <1>2
  <2>2. v \in [state: {"live", "deleted"}, rev: Nat, album: Album, date: Date, source: {"manual", "automatic"}]
    BY <1>3
  <2> HIDE DEF v
  <2>3. t[ListenDoc(l)].state = v.state /\ t[ListenDoc(l)].album = v.album /\ t[ListenDoc(l)].source = v.source
    BY <2>1, <2>2
  <2> QED BY <2>3 DEF v
<1>5. \A m \in Listen \ {l} : t[ListenDoc(m)] = s[ListenDoc(m)]
  BY <1>2, DocsAreDocs, DocsDiffer
<1>6. \A x \in Board : t[BoardDoc(x)] = s[BoardDoc(x)]
  BY <1>2, DocsAreDocs, DocsDiffer
<1>7. \A x \in Board : SameContents(s, t, x)
  <2>1. \A x \in Board, a \in Album : t[ItemDoc(x, a)] = s[ItemDoc(x, a)]
    BY <1>2, DocsAreDocs, DocsDiffer
  <2>2. \A x \in Board, m \in Listen : t[MemberDoc(x, m)] = s[MemberDoc(x, m)]
    BY <1>2, DocsAreDocs, DocsDiffer
  <2> QED BY <2>1, <2>2 DEF SameContents
<1>8. \A k \in Key : t[ReceiptDoc(k)] = s[ReceiptDoc(k)]
  BY <1>2, DocsAreDocs, DocsDiffer
<1>9. ListensStay(s, t) /\ ReceiptsStay(s, t) /\ BirthsReceipted(s, t)
  BY <1>4, <1>5, <1>8 DEF ListensStay, ReceiptsStay, BirthsReceipted
<1>10. RevisionsTell(s, t)
  <2>1. \A x \in Board : s[BoardDoc(x)].rev \in Nat
    BY DEF WellFormed, TypedDocs, BoardValue
  <2> QED BY <1>6, <2>1 DEF RevisionsTell
<1>11. AllInOrder(t)
  BY <1>1, <1>6, <1>7, <1>9, StaysInOrder DEF AllInOrder
<1>12. Tidy(s, t)
  BY <1>7, <1>9, <1>10, <1>11 DEF Tidy, ContentsClaimed
<1> QED BY <1>12 DEF t

\* deleteListen: B are the boards that the listen is attached to.
LEMMA DeleteListenIsTidy ==
  ASSUME NEW s, WellFormed(s), Sound(s), AllInOrder(s), NEW l \in Listen, LiveListen(s, l),
         NEW B \in SUBSET Board, \A b \in B : Live(s, b), \A b \in Board \ B : ~s[MemberDoc(b, l)],
         NEW t \in Synced(DropListen(ClaimListen(ClaimBoards(s, B), l), l), B)
  PROVE  Tidy(s, t)
<1> DEFINE s1 == ClaimBoards(s, B)
           s2 == DropListen(ClaimListen(s1, l), l)
<1>1. DOMAIN s1 = DOMAIN s /\ WellFormed(s1) /\ SameButBoards(s, s1) /\ BoardsClaimed(s, s1, B)
  BY ClaimBoardsClaims
<1>2. MembersHaveParents(t)
  BY DeleteListenIsSafe DEF SafeStep, Sound
<1> HIDE DEF s1
<1>3. LiveListen(s1, l)
  BY <1>1 DEF LiveListen, SameButBoards
<1>4. /\ WellFormed(s2)
      /\ \A b \in Board : s2[BoardDoc(b)] = s1[BoardDoc(b)]
      /\ \A b \in Board, a \in Album : s2[ItemDoc(b, a)] = s1[ItemDoc(b, a)]
      /\ \A m \in Listen \ {l} : s2[ListenDoc(m)] = s1[ListenDoc(m)]
      /\ \A b \in Board, m \in Listen : m # l => s2[MemberDoc(b, m)] = s1[MemberDoc(b, m)]
      /\ \A b \in Board : s2[MemberDoc(b, l)] = FALSE
      /\ \A k \in Key : s2[ReceiptDoc(k)] = s1[ReceiptDoc(k)]
      /\ s2[ListenDoc(l)].state = "deleted" /\ s2[ListenDoc(l)].album = s1[ListenDoc(l)].album
      /\ s2[ListenDoc(l)].source = s1[ListenDoc(l)].source
  BY <1>1, <1>3, DropListenEffect
<1>5. t \in Synced(s2, B)
  BY DEF s1
<1> HIDE DEF s2
<1>6. BoardsClaimed(s, s2, B)
  <2>1. \A b \in Board \ B : s1[MemberDoc(b, l)] = FALSE
    <3>1. \A b \in Board : s[MemberDoc(b, l)] \in BOOLEAN /\ s1[MemberDoc(b, l)] = s[MemberDoc(b, l)]
      BY <1>1 DEF WellFormed, TypedDocs, SameButBoards
    <3> QED BY <3>1
  <2>2. \A b \in Board \ B, m \in Listen : s2[MemberDoc(b, m)] = s1[MemberDoc(b, m)]
    BY <1>4, <2>1
  <2>3. \A b \in Board \ B : SameContents(s1, s2, b)
    BY <1>4, <2>2 DEF SameContents
  <2> QED BY <1>1, <1>4, <2>3, EditAfterClaims
<1>7. ListensStay(s, s2)
  <2>1. \A m \in Listen : s1[ListenDoc(m)] = s[ListenDoc(m)]
    BY <1>1 DEF SameButBoards
  <2> QED BY <1>4, <2>1 DEF ListensStay
<1>8. ReceiptsStay(s, s2)
  BY <1>1, <1>4 DEF ReceiptsStay, SameButBoards
<1>9. BirthsReceipted(s, s2)
  <2>1. \A m \in Listen : s[ListenDoc(m)].state = "unborn" => s2[ListenDoc(m)] = s[ListenDoc(m)]
    BY <1>1, <1>4 DEF SameButBoards, LiveListen
  <2> QED BY <2>1 DEF BirthsReceipted
<1> QED BY <1>2, <1>4, <1>5, <1>6, <1>7, <1>8, <1>9, ClaimSyncIsTidy

\* Creating a board outside any transaction: a board nobody has seen is not ordered.
LEMMA CreateBoardIsTidy ==
  ASSUME NEW s, WellFormed(s), Sound(s), AllInOrder(s), NEW b \in Board, s[BoardDoc(b)].state = "unborn"
  PROVE  Tidy(s, [s EXCEPT ![BoardDoc(b)].state = "live"])
<1> DEFINE t == [s EXCEPT ![BoardDoc(b)].state = "live"]
<1>1. /\ \A x \in LibraryDocs : x # BoardDoc(b) => t[x] = s[x]
      /\ t[BoardDoc(b)] = [s[BoardDoc(b)] EXCEPT !.state = "live"]
  BY DocsAreDocs DEF WellFormed
<1> HIDE DEF t
<1>2. \A x \in Board : s[BoardDoc(x)] \in BoardValue
  BY DEF WellFormed, TypedDocs
<1>3. /\ t[BoardDoc(b)].state = "live" /\ t[BoardDoc(b)].rev = s[BoardDoc(b)].rev
      /\ t[BoardDoc(b)].manual = s[BoardDoc(b)].manual
  BY <1>1, <1>2 DEF BoardValue
<1>4. \A x \in Board \ {b} : t[BoardDoc(x)] = s[BoardDoc(x)]
  BY <1>1, DocsAreDocs, DocsDiffer
<1>5. \A l \in Listen : t[ListenDoc(l)] = s[ListenDoc(l)]
  BY <1>1, DocsAreDocs, DocsDiffer
<1>6. \A k \in Key : t[ReceiptDoc(k)] = s[ReceiptDoc(k)]
  BY <1>1, DocsAreDocs, DocsDiffer
<1>7. ListensStay(s, t) /\ ReceiptsStay(s, t) /\ BirthsReceipted(s, t)
  BY <1>5, <1>6, SameListensAndReceipts
<1>8. \A x \in Board : SameContents(s, t, x)
  <2>1. \A x \in Board, a \in Album : t[ItemDoc(x, a)] = s[ItemDoc(x, a)]
    BY <1>1, DocsAreDocs, DocsDiffer
  <2>2. \A x \in Board, m \in Listen : t[MemberDoc(x, m)] = s[MemberDoc(x, m)]
    BY <1>1, DocsAreDocs, DocsDiffer
  <2> QED BY <2>1, <2>2 DEF SameContents
<1>9. MembersHaveParents(s) /\ MembersHaveParents(t)
  <2>1. \A x \in Board : Live(s, x) => Live(t, x)
    BY <1>3, <1>4 DEF Live
  <2> QED BY <1>5, <1>8, <2>1 DEF Sound, MembersHaveParents, LiveListen, SameContents
<1>10. RevisionsTell(s, t)
  <2>1. \A x \in Board : s[BoardDoc(x)].rev \in Nat
    BY <1>2 DEF BoardValue
  <2>2. ~Live(s, b)
    BY DEF Live
  <2>3. \A x \in Board : t[BoardDoc(x)].rev = s[BoardDoc(x)].rev
    BY <1>3, <1>4
  <2> QED BY <1>4, <2>1, <2>2, <2>3 DEF RevisionsTell
<1>11. ASSUME NEW x \in Board PROVE InOrder(t, x)
  <2>1. CASE x # b
    BY <1>4, <1>7, <1>8, <1>9, <2>1, StaysInOrder DEF AllInOrder
  <2>2. CASE x = b
    <3>1. ~Manual(s, b)
      BY DEF AllInOrder, InOrder, Live
    <3> QED BY <1>3, <2>2, <3>1 DEF InOrder, Manual
  <2> QED BY <2>1, <2>2
<1>12. Tidy(s, t)
  BY <1>7, <1>8, <1>10, <1>11 DEF Tidy, AllInOrder, ContentsClaimed
<1> QED BY <1>12 DEF t

\* Changing the profile alone, as unpinning does.
LEMMA ProfileWriteIsTidy ==
  ASSUME NEW s, WellFormed(s), AllInOrder(s), NEW t, \A x \in LibraryDocs : x # ProfileDoc => t[x] = s[x]
  PROVE  Tidy(s, t)
<1>1. \A x \in Board : s[BoardDoc(x)].rev \in Nat
  BY DEF WellFormed, TypedDocs, BoardValue
<1>2. RevisionsTell(s, s)
  BY <1>1 DEF RevisionsTell
<1>3. Tidy(s, s)
  BY <1>2 DEF Tidy, ListensStay, ContentsClaimed, SameContents, ReceiptsStay, BirthsReceipted
<1> QED BY <1>3, ProfileAside

(***************************************************************************)
(* The inductive invariant                                                 *)
(***************************************************************************)
\* A client that read revision `revision' of board b saw what the
\* board still is, unless its revision has moved on.
Saw(cur, b, revision, order, complete) ==
  /\ revision <= cur[BoardDoc(b)].rev
  /\ revision = cur[BoardDoc(b)].rev =>
       /\ Live(cur, b)
       /\ IF complete THEN order \in Shown(cur[BoardDoc(b)].order, Entries(cur, b))
                      ELSE order = cur[BoardDoc(b)].order

\* Where a transaction has not missed a board it knows its contents.
KnowsContents(s, cur, missed) ==
  \A b \in Board : BoardDoc(b) \notin missed => SameContents(s, cur, b)

OrderedSnapshot(cur, open) ==
  /\ AllInOrder(open.snap) /\ ListensStay(open.snap, cur) /\ KnowsContents(open.snap, cur, open.missed)
  /\ open.req.op = "reorderBoard" =>
       Injective(open.req.order) /\ Saw(cur, open.req.board, open.req.revision, open.req.seen, TRUE)

OrderedScreen(cur, v) == Saw(cur, v.board, v.revision, v.order, v.complete)

OrderInv ==
  /\ AllInOrder(db) /\ OneListenPerKey
  /\ \A c \in OpenClients : OrderedSnapshot(db, tx[c])
  /\ \A c \in DOMAIN view : OrderedScreen(db, view[c])

(***************************************************************************)
(* Committing                                                              *)
(***************************************************************************)
\* A tidy step of a snapshot is a tidy step of the database: where it wrote a
\* board, the transaction knew its contents, and where it did not, it left
\* them alone.
LEMMA MergeIsTidy ==
  ASSUME NEW s, NEW cur, NEW t, NEW m, WellFormed(s), Sound(s), WellFormed(cur), Sound(cur), AllInOrder(cur),
         DOMAIN s = DOMAIN cur, \A x \in DOMAIN cur \ m : s[x] = cur[x],
         ParentsIn(s, cur, m), KnowsContents(s, cur, m), ListensStay(s, cur),
         SafeStep(s, t), Tidy(s, t), Changed(s, t) \cap m = {}
  PROVE  Tidy(cur, Merged(cur, t, Changed(s, t)))
<1> DEFINE W == Changed(s, t)
           new == Merged(cur, t, W)
<1>1. \A x \in LibraryDocs : \/ x \in W /\ x \notin m /\ s[x] = cur[x] /\ new[x] = t[x] /\ t[x] # s[x]
                             \/ x \notin W /\ t[x] = s[x] /\ new[x] = cur[x]
  <2>1. DOMAIN t = DOMAIN s
    BY DEF SafeStep
  <2>2. \A x \in W : t[x] # s[x]
    BY DEF Changed
  <2> QED BY <2>1, <2>2, MergedDocs
<1>2. Sound(t) /\ Sound(new)
  BY MergeIsSafe DEF SafeStep
<1> HIDE DEF W, new
<1>3. /\ ListensStay(s, t) /\ ContentsClaimed(s, t) /\ RevisionsTell(s, t)
      /\ ReceiptsStay(s, t) /\ BirthsReceipted(s, t) /\ AllInOrder(t)
  BY DEF Tidy
<1>4. /\ MembersHaveParents(cur) /\ MembersHaveParents(t) /\ MembersHaveParents(new)
  BY <1>2 DEF Sound
<1>5. \A l \in Listen :
        \/ s[ListenDoc(l)] = cur[ListenDoc(l)] /\ new[ListenDoc(l)] = t[ListenDoc(l)]
        \/ t[ListenDoc(l)] = s[ListenDoc(l)] /\ new[ListenDoc(l)] = cur[ListenDoc(l)]
  BY <1>1, DocsAreDocs
<1>6. \A k \in Key :
        \/ s[ReceiptDoc(k)] = cur[ReceiptDoc(k)] /\ new[ReceiptDoc(k)] = t[ReceiptDoc(k)]
        \/ t[ReceiptDoc(k)] = s[ReceiptDoc(k)] /\ new[ReceiptDoc(k)] = cur[ReceiptDoc(k)]
  BY <1>1, DocsAreDocs
<1>7. \A b \in Board :
        \/ /\ s[BoardDoc(b)] = cur[BoardDoc(b)] /\ new[BoardDoc(b)] = t[BoardDoc(b)]
           /\ BoardDoc(b) \notin m /\ t[BoardDoc(b)] # s[BoardDoc(b)]
        \/ t[BoardDoc(b)] = s[BoardDoc(b)] /\ new[BoardDoc(b)] = cur[BoardDoc(b)]
  BY <1>1, DocsAreDocs
<1>8. ListensStay(cur, new)
  BY <1>3, <1>5 DEF ListensStay
<1>9. ListensStay(t, new)
  BY <1>3, <1>5 DEF ListensStay
<1>10. ReceiptsStay(cur, new)
  BY <1>3, <1>6 DEF ReceiptsStay
<1>11. BirthsReceipted(cur, new)
  <2> SUFFICES ASSUME NEW l \in Listen, cur[ListenDoc(l)].state = "unborn",
                      new[ListenDoc(l)].state # "unborn", new[ListenDoc(l)].source = "manual"
               PROVE  \E k \in Key : /\ ~cur[ReceiptDoc(k)].used
                                     /\ new[ReceiptDoc(k)].used /\ new[ReceiptDoc(k)].listen = l
    BY DEF BirthsReceipted
  <2>1. s[ListenDoc(l)] = cur[ListenDoc(l)] /\ new[ListenDoc(l)] = t[ListenDoc(l)]
    BY <1>5
  <2>2. PICK k \in Key : ~s[ReceiptDoc(k)].used /\ t[ReceiptDoc(k)].used /\ t[ReceiptDoc(k)].listen = l
    BY <1>3, <2>1 DEF BirthsReceipted
  <2>3. t[ReceiptDoc(k)] # s[ReceiptDoc(k)]
    BY <2>2
  <2> QED BY <1>6, <2>2, <2>3
<1>12. ContentsClaimed(cur, new)
  <2> SUFFICES ASSUME NEW b \in Board, new[BoardDoc(b)] = cur[BoardDoc(b)]
               PROVE  SameContents(cur, new, b)
    BY DEF ContentsClaimed
  <2>1. SameContents(s, t, b)
    BY <1>3, <1>7 DEF ContentsClaimed
  <2>2. \A a \in Album : new[ItemDoc(b, a)] = cur[ItemDoc(b, a)]
    BY <1>1, <2>1, DocsAreDocs DEF SameContents
  <2>3. \A l \in Listen : new[MemberDoc(b, l)] = cur[MemberDoc(b, l)]
    BY <1>1, <2>1, DocsAreDocs DEF SameContents
  <2> QED BY <2>2, <2>3 DEF SameContents
<1>13. RevisionsTell(cur, new)
  <2>1. \A b \in Board : cur[BoardDoc(b)].rev \in Nat
    BY DEF WellFormed, TypedDocs, BoardValue
  <2> QED BY <1>3, <1>7, <2>1 DEF RevisionsTell, Live
<1>14. ASSUME NEW b \in Board PROVE InOrder(new, b)
  <2>1. CASE new[BoardDoc(b)] = cur[BoardDoc(b)]
    <3>1. SameContents(cur, new, b)
      BY <1>12, <2>1 DEF ContentsClaimed
    <3> QED BY <1>4, <1>8, <2>1, <3>1, StaysInOrder DEF AllInOrder
  <2>2. CASE new[BoardDoc(b)] # cur[BoardDoc(b)]
    <3>1. new[BoardDoc(b)] = t[BoardDoc(b)] /\ BoardDoc(b) \notin m
      BY <1>7, <2>2
    <3>2. SameContents(s, cur, b)
      BY <3>1 DEF KnowsContents
    <3>3. \A a \in Album : new[ItemDoc(b, a)] = t[ItemDoc(b, a)]
      BY <1>1, <3>2, DocsAreDocs DEF SameContents
    <3>4. \A l \in Listen : new[MemberDoc(b, l)] = t[MemberDoc(b, l)]
      BY <1>1, <3>2, DocsAreDocs DEF SameContents
    <3>5. SameContents(t, new, b)
      BY <3>3, <3>4 DEF SameContents
    <3>6. InOrder(t, b)
      BY <1>3 DEF AllInOrder
    <3> QED BY <1>4, <1>9, <3>1, <3>5, <3>6, StaysInOrder
  <2> QED BY <2>1, <2>2
<1>15. Tidy(cur, new)
  BY <1>8, <1>10, <1>11, <1>12, <1>13, <1>14 DEF Tidy, AllInOrder
<1> QED BY <1>15 DEF W, new

\* One listen for each key, still: a receipt that named a listen names it for ever.
LEMMA KeysKept ==
  ASSUME OneListenPerKey, NEW t, Tidy(db, t), db' = t
  PROVE  OneListenPerKey'
<1> SUFFICES ASSUME NEW l \in Listen, t[ListenDoc(l)].state # "unborn", t[ListenDoc(l)].source = "manual"
             PROVE  \E k \in Key : t[ReceiptDoc(k)].used /\ t[ReceiptDoc(k)].listen = l
  BY DEF OneListenPerKey
<1>1. CASE db[ListenDoc(l)].state = "unborn"
  BY <1>1 DEF Tidy, BirthsReceipted
<1>2. CASE db[ListenDoc(l)].state # "unborn"
  <2>1. db[ListenDoc(l)].source = "manual"
    BY <1>2 DEF Tidy, ListensStay
  <2>2. PICK k \in Key : db[ReceiptDoc(k)].used /\ db[ReceiptDoc(k)].listen = l
    BY <1>2, <2>1 DEF OneListenPerKey
  <2>3. t[ReceiptDoc(k)] = db[ReceiptDoc(k)]
    BY <2>2 DEF Tidy, ReceiptsStay
  <2> QED BY <2>2, <2>3
<1> QED BY <1>1, <1>2

\* What a client saw of a board it still is, or the board's revision tells.
LEMMA SightKept ==
  ASSUME NEW cur, NEW t, WellFormed(cur), WellFormed(t), MembersHaveParents(cur), MembersHaveParents(t),
         Tidy(cur, t), NEW b \in Board, NEW revision \in Nat, NEW order, NEW complete,
         Saw(cur, b, revision, order, complete)
  PROVE  Saw(t, b, revision, order, complete)
<1>1. /\ ListensStay(cur, t) /\ ContentsClaimed(cur, t) /\ RevisionsTell(cur, t)
  BY DEF Tidy
<1>2. cur[BoardDoc(b)].rev \in Nat /\ t[BoardDoc(b)].rev \in Nat
  BY DEF WellFormed, TypedDocs, BoardValue
<1>3. revision <= t[BoardDoc(b)].rev
  BY <1>1, <1>2 DEF Saw, RevisionsTell
<1>4. ASSUME revision = t[BoardDoc(b)].rev
      PROVE  /\ Live(t, b) /\ t[BoardDoc(b)] = cur[BoardDoc(b)] /\ Entries(t, b) = Entries(cur, b)
             /\ revision = cur[BoardDoc(b)].rev
  <2>1. revision = cur[BoardDoc(b)].rev
    BY <1>1, <1>2, <1>4 DEF Saw, RevisionsTell
  <2>2. Live(cur, b)
    BY <2>1 DEF Saw
  <2>3. t[BoardDoc(b)] = cur[BoardDoc(b)]
    BY <1>1, <1>4, <2>1, <2>2 DEF RevisionsTell
  <2>4. SameContents(cur, t, b)
    BY <1>1, <2>3 DEF ContentsClaimed
  <2>5. Entries(t, b) = Entries(cur, b)
    BY <1>1, <2>4, SameEntries
  <2> QED BY <2>1, <2>2, <2>3, <2>5 DEF Live
<1> QED BY <1>3, <1>4 DEF Saw

\* The database takes a tidy step: what snapshots and screens know of it stays true.
LEMMA AdvanceKeepsOrder ==
  ASSUME StoreInv, ScreenOK, OrderInv, NEW t, SafeStep(db, t), Tidy(db, t), db' = t,
         NEW others, others \subseteq OpenClients,
         NEW W, Changed(db, t) \subseteq W, tx' = Behind(others, W), view' = view
  PROVE  OrderInv'
<1>1. WellFormed(db) /\ WellFormed(t) /\ MembersHaveParents(db) /\ MembersHaveParents(t)
  BY DEF StoreInv, SafeStep, Sound
<1>2. /\ ListensStay(db, t) /\ ContentsClaimed(db, t) /\ AllInOrder(t)
  BY DEF Tidy
<1>3. OneListenPerKey'
  BY KeysKept DEF OrderInv
<1>4. OpenClients' = others
  BY DEF OpenClients, Behind
<1>5. ASSUME NEW c \in others PROVE OrderedSnapshot(t, tx'[c])
  <2> DEFINE o == tx[c]
             n == tx'[c]
  <2>1. OrderedSnapshot(db, o) /\ SnapshotOK(o)
    BY <1>5 DEF OrderInv, StoreInv
  <2>2. n = [o EXCEPT !.missed = @ \cup W]
    BY <1>5 DEF Behind
  <2>3. n.req = o.req /\ n.snap = o.snap /\ n.missed = o.missed \cup W
    BY <2>1, <2>2 DEF SnapshotOK
  <2> HIDE DEF n, o
  <2>4. ListensStay(o.snap, t)
    BY <1>2, <2>1 DEF OrderedSnapshot, ListensStay
  <2>5. KnowsContents(o.snap, t, n.missed)
    <3> SUFFICES ASSUME NEW b \in Board, BoardDoc(b) \notin n.missed
                 PROVE  SameContents(o.snap, t, b)
      BY DEF KnowsContents
    <3>1. SameContents(o.snap, db, b)
      BY <2>1, <2>3 DEF OrderedSnapshot, KnowsContents
    <3>2. t[BoardDoc(b)] = db[BoardDoc(b)]
      BY <1>1, <2>3, DocsAreDocs DEF Changed, WellFormed
    <3>3. SameContents(db, t, b)
      BY <1>2, <3>2 DEF ContentsClaimed
    <3> QED BY <3>1, <3>3 DEF SameContents
  <2>6. ASSUME o.req.op = "reorderBoard"
        PROVE  Injective(o.req.order) /\ Saw(t, o.req.board, o.req.revision, o.req.seen, TRUE)
    <3>1. o.req.board \in Board /\ o.req.revision \in Nat
      BY <2>1, <2>6 DEF SnapshotOK, Request, ReorderRequest
    <3>2. Injective(o.req.order) /\ Saw(db, o.req.board, o.req.revision, o.req.seen, TRUE)
      BY <2>1, <2>6 DEF OrderedSnapshot
    <3>3. ASSUME NEW complete, Saw(db, o.req.board, o.req.revision, o.req.seen, complete)
          PROVE  Saw(t, o.req.board, o.req.revision, o.req.seen, complete)
      BY <1>1, <3>1, <3>3, SightKept
    <3> QED BY <3>2, <3>3, Zenon
  <2>7. AllInOrder(o.snap)
    BY <2>1 DEF OrderedSnapshot
  <2> QED BY <2>3, <2>4, <2>5, <2>6, <2>7 DEF OrderedSnapshot, n
<1>6. ASSUME NEW c \in DOMAIN view PROVE OrderedScreen(t, view[c])
  <2>1. view[c].board \in Board /\ view[c].revision \in Nat
    BY <1>6 DEF ScreenOK
  <2>2. Saw(db, view[c].board, view[c].revision, view[c].order, view[c].complete)
    BY <1>6 DEF OrderInv, OrderedScreen
  <2>3. Saw(t, view[c].board, view[c].revision, view[c].order, view[c].complete)
    BY <1>1, <2>1, <2>2, SightKept
  <2> QED BY <2>3 DEF OrderedScreen
<1> QED BY <1>2, <1>3, <1>4, <1>5, <1>6 DEF OrderInv

\* Committing a tidy step of a snapshot.
LEMMA CommitKeepsOrder ==
  ASSUME StoreInv, ScreenOK, OrderInv, NEW c \in OpenClients, NEW t,
         SafeStep(tx[c].snap, t), Tidy(tx[c].snap, t), Commit(c, t), view' = view
  PROVE  OrderInv'
<1> DEFINE s == tx[c].snap
           W == Changed(s, t)
           new == Merged(db, t, W)
<1>1. SnapshotOK(tx[c]) /\ OrderedSnapshot(db, tx[c]) /\ WellFormed(db) /\ Sound(db) /\ AllInOrder(db)
  BY DEF StoreInv, OrderInv
<1>2. W \cap tx[c].missed = {} /\ db' = new /\ tx' = Behind(OpenClients \ {c}, W)
  BY DEF Commit, Merged
<1>3. SafeStep(db, new)
  BY <1>1, <1>2, MergeIsSafe DEF SnapshotOK
<1>4. Tidy(db, new)
  BY <1>1, <1>2, MergeIsTidy DEF SnapshotOK, OrderedSnapshot
<1>5. Changed(db, new) \subseteq W
  BY <1>1 DEF Changed, Merged
<1> HIDE DEF W, new
<1> QED BY <1>2, <1>3, <1>4, <1>5, AdvanceKeepsOrder

\* A single tidy write outside a transaction.
LEMMA WriteKeepsOrder ==
  ASSUME StoreInv, ScreenOK, OrderInv, NEW t, SafeStep(db, t), Tidy(db, t), Write(t), view' = view
  PROVE  OrderInv'
BY AdvanceKeepsOrder DEF Write

\* A transaction opened or run again now sees the board as it is.
LEMMA FreshSnapshotOrdered ==
  ASSUME StoreInv, OrderInv, NEW r,
         r.op = "reorderBoard" => Injective(r.order) /\ Saw(db, r.board, r.revision, r.seen, TRUE)
  PROVE  OrderedSnapshot(db, [req |-> r, snap |-> db, missed |-> {}])
<1>1. ListensStay(db, db) /\ KnowsContents(db, db, {})
  BY DEF ListensStay, KnowsContents, SameContents
<1> QED BY <1>1 DEF OrderedSnapshot, OrderInv

\* Opening a transaction.
LEMMA BeginKeepsOrder ==
  ASSUME StoreInv, ScreenOK, OrderInv, NEW c \in Client, NEW r, Begin(c, r),
         r.op = "reorderBoard" => Injective(r.order) /\ Saw(db, r.board, r.revision, r.seen, TRUE),
         DOMAIN view' \subseteq DOMAIN view, \A x \in DOMAIN view' : view'[x] = view[x]
  PROVE  OrderInv'
<1>1. OpenClients' = OpenClients \cup {c} /\ db' = db
  BY DEF Begin, OpenClients
<1>2. \A x \in OpenClients' : tx'[x] = IF x = c THEN [req |-> r, snap |-> db, missed |-> {}] ELSE tx[x]
  BY <1>1 DEF Begin
<1>3. \A x \in OpenClients' : OrderedSnapshot(db, tx'[x])
  BY <1>1, <1>2, FreshSnapshotOrdered DEF OrderInv
<1> QED BY <1>1, <1>3 DEF OrderInv, OneListenPerKey

\* Running a callback again, or giving up.
LEMMA GiveUpKeepsOrder ==
  ASSUME StoreInv, OrderInv, NEW c \in Client, GiveUp(c)
  PROVE  OrderInv'
<1>1. CASE Retry(c)
  <2>1. OpenClients' = OpenClients /\ db' = db /\ c \in OpenClients
    BY <1>1 DEF Retry, OpenClients
  <2>2. \A x \in OpenClients : tx'[x] = IF x = c THEN [req |-> tx[c].req, snap |-> db, missed |-> {}] ELSE tx[x]
    BY <1>1 DEF Retry, OpenClients
  <2>3. OrderedSnapshot(db, tx[c])
    BY <2>1 DEF OrderInv
  <2>4. OrderedSnapshot(db, [req |-> tx[c].req, snap |-> db, missed |-> {}])
    BY <2>3, FreshSnapshotOrdered DEF OrderedSnapshot
  <2>5. \A x \in OpenClients' : OrderedSnapshot(db, tx'[x])
    BY <2>1, <2>2, <2>4 DEF OrderInv
  <2> QED BY <2>1, <2>5 DEF OrderInv, OneListenPerKey, GiveUp
<1>2. CASE Abort(c)
  <2>1. OpenClients' = OpenClients \ {c} /\ db' = db
    BY <1>2 DEF Abort, OpenClients
  <2>2. \A x \in OpenClients' : tx'[x] = tx[x]
    BY <1>2, <2>1 DEF Abort
  <2> QED BY <2>1, <2>2 DEF OrderInv, OneListenPerKey, GiveUp
<1> QED BY <1>1, <1>2 DEF GiveUp

(***************************************************************************)
(* The actions                                                             *)
(***************************************************************************)
\* A running transaction has a typed request and a sound, ordered snapshot.
LEMMA RunningOrdered ==
  ASSUME StoreInv, OrderInv, NEW c, NEW op, Running(c, op)
  PROVE  /\ c \in OpenClients /\ tx[c].req \in Request \cup ReorderRequest /\ tx[c].req.op = op
         /\ WellFormed(tx[c].snap) /\ Sound(tx[c].snap) /\ AllInOrder(tx[c].snap)
BY RunningTransaction DEF Running, OrderInv, OrderedSnapshot

\* saveAlbum keeps the orders.
LEMMA SaveAlbumKeepsOrder ==
  ASSUME StoreInv, ScreenOK, OrderInv, NEW c \in Client, SaveAlbum(c) PROVE OrderInv'
<1> DEFINE s == tx[c].snap  b == tx[c].req.board  a == tx[c].req.album
<1>1. c \in OpenClients /\ WellFormed(s) /\ Sound(s) /\ AllInOrder(s) /\ b \in Board /\ a \in Album
  BY RunningOrdered, RequestFields DEF SaveAlbum
<1>2. PICK t \in Synced([ClaimOrCreate(s, b) EXCEPT ![ItemDoc(b, a)] = TRUE], {b}) :
        Commit(c, t) /\ view' = view
  BY DEF SaveAlbum, Finish
<1>3. Claimable(s, b, TRUE)
  BY DEF SaveAlbum
<1>4. SafeStep(s, t) /\ Tidy(s, t)
  BY <1>1, <1>3, SaveAlbumIsSafe, SaveAlbumIsTidy
<1> QED BY <1>1, <1>2, <1>4, CommitKeepsOrder

\* removeAlbum keeps the orders.
LEMMA RemoveAlbumKeepsOrder ==
  ASSUME StoreInv, ScreenOK, OrderInv, NEW c \in Client, RemoveAlbum(c) PROVE OrderInv'
<1> DEFINE s == tx[c].snap  b == tx[c].req.board  a == tx[c].req.album
<1>1. c \in OpenClients /\ WellFormed(s) /\ Sound(s) /\ AllInOrder(s) /\ b \in Board /\ a \in Album
  BY RunningOrdered, RequestFields DEF RemoveAlbum
<1>2. PICK t \in Synced(RemoveFromBoard(ClaimBoard(s, b), b, a), {b}) : Commit(c, t) /\ view' = view
  BY DEF RemoveAlbum, Finish
<1>3. Live(s, b)
  BY DEF RemoveAlbum
<1>4. SafeStep(s, t) /\ Tidy(s, t)
  BY <1>1, <1>3, RemoveAlbumIsSafe, RemoveAlbumIsTidy
<1> QED BY <1>1, <1>2, <1>4, CommitKeepsOrder

\* deleteBoard keeps the orders.
LEMMA DeleteBoardKeepsOrder ==
  ASSUME StoreInv, ScreenOK, OrderInv, NEW c \in Client, DeleteBoard(c) PROVE OrderInv'
<1> DEFINE s == tx[c].snap  b == tx[c].req.board  t == DropBoard(ClaimBoard(s, b), b)
<1>1. c \in OpenClients /\ WellFormed(s) /\ Sound(s) /\ AllInOrder(s) /\ b \in Board
  BY RunningOrdered, RequestFields DEF DeleteBoard
<1>2. Live(s, b) /\ b # DefaultBoard /\ Commit(c, t) /\ view' = view
  BY DEF DeleteBoard, Finish
<1>3. SafeStep(s, t) /\ Tidy(s, t)
  BY <1>1, <1>2, DeleteBoardIsSafe, DeleteBoardIsTidy
<1> HIDE DEF t
<1> QED BY <1>1, <1>2, <1>3, CommitKeepsOrder

\* setMembership keeps the orders, attaching and detaching.
LEMMA SetMembershipKeepsOrder ==
  ASSUME StoreInv, ScreenOK, OrderInv, NEW c \in Client, SetMembership(c) PROVE OrderInv'
<1> DEFINE s == tx[c].snap  b == tx[c].req.board  l == tx[c].req.listen
           edit(on) == [ClaimListen(ClaimOrCreate(s, b), l) EXCEPT ![MemberDoc(b, l)] = on]
<1>1. PICK attached \in BOOLEAN :
        /\ Running(c, IF attached THEN "attach" ELSE "detach")
        /\ Claimable(s, b, attached) /\ LiveListen(s, l)
        /\ \E t \in Synced(edit(attached), {b}) : Commit(c, t) /\ view' = view
  BY DEF SetMembership, Finish
<1>2. c \in OpenClients /\ WellFormed(s) /\ Sound(s) /\ AllInOrder(s) /\ b \in Board /\ l \in Listen
  BY <1>1, RunningOrdered, RequestFields
<1>3. PICK t \in Synced(edit(attached), {b}) : Commit(c, t) /\ view' = view
  BY <1>1
<1>4. SafeStep(s, t) /\ Tidy(s, t)
  BY <1>1, <1>2, SetMembershipIsSafe, SetMembershipIsTidy
<1> QED BY <1>2, <1>3, <1>4, CommitKeepsOrder

\* updateBoard keeps the orders.
LEMMA UpdateBoardKeepsOrder ==
  ASSUME StoreInv, ScreenOK, OrderInv, NEW c \in Client, UpdateBoard(c) PROVE OrderInv'
<1> DEFINE s == tx[c].snap  b == tx[c].req.board  manual == tx[c].req.manual
           seeded == SeededOrders(s, b, manual)
           edit(order) == [ClaimOrCreate(s, b) EXCEPT ![BoardDoc(b)].manual = manual,
                                                      ![BoardDoc(b)].order = order]
<1>1. /\ c \in OpenClients /\ WellFormed(s) /\ Sound(s) /\ AllInOrder(s) /\ b \in Board /\ manual \in BOOLEAN
      /\ Claimable(s, b, TRUE)
  BY RunningOrdered, RequestFields DEF UpdateBoard
<1>2. (manual /\ ~Manual(s, b)) => Cardinality(Entries(s, b)) <= OrderLimit
  BY DEF UpdateBoard
<1>3. PICK order \in seeded : Commit(c, edit(order)) /\ view' = view
  BY DEF UpdateBoard, Finish, SeededOrders
<1>4. Tidy(s, edit(order))
  BY <1>1, <1>2, <1>3, UpdateBoardIsTidy
<1>5. order \in Seq(Album)
  <2>1. s[BoardDoc(b)].order \in Seq(Album)
    BY <1>1 DEF WellFormed, TypedDocs, BoardValue
  <2>2. Arrangements(Entries(s, b)) \subseteq Seq(Album)
    BY ArrangementsAreSeqs, EntriesAreAlbums
  <2>3. <<>> \in Seq(Album)
    OBVIOUS
  <2>4. seeded \in {Arrangements(Entries(s, b)), {s[BoardDoc(b)].order}, {<<>>}}
    BY DEF SeededOrders
  <2> HIDE DEF seeded, edit
  <2>5. order \in seeded
    BY <1>3
  <2> QED BY <2>1, <2>2, <2>3, <2>4, <2>5
<1>6. SafeStep(s, edit(order))
  BY <1>1, <1>5, UpdateBoardIsSafe
<1> HIDE DEF edit
<1> QED BY <1>1, <1>3, <1>4, <1>6, CommitKeepsOrder

\* reorderBoard keeps the orders.
LEMMA ReorderBoardKeepsOrder ==
  ASSUME StoreInv, ScreenOK, OrderInv, NEW c \in Client, ReorderBoard(c) PROVE OrderInv'
<1> DEFINE s == tx[c].snap  b == tx[c].req.board  order == tx[c].req.order
           t == [ClaimBoard(s, b) EXCEPT ![BoardDoc(b)].order = order]
<1>1. /\ c \in OpenClients /\ WellFormed(s) /\ Sound(s) /\ AllInOrder(s) /\ b \in Board /\ order \in Seq(Album)
      /\ tx[c].req.op = "reorderBoard"
  BY RunningOrdered, RequestFields DEF ReorderBoard
<1>2. Injective(order)
  BY <1>1 DEF OrderInv, OrderedSnapshot
<1>3. /\ Live(s, b) /\ Manual(s, b)
      /\ \/ Len(order) = Cardinality(Entries(s, b)) /\ Len(order) <= OrderLimit
         \/ Len(order) = OrderLimit /\ Cardinality(Entries(s, b)) > OrderLimit
      /\ Elements(order) \subseteq Entries(s, b)
      /\ Commit(c, t) /\ view' = view
  BY DEF ReorderBoard, Finish
<1>4. SafeStep(s, t)
  BY <1>1, <1>3, ReorderBoardIsSafe
<1>5. Tidy(s, t)
  BY <1>1, <1>2, <1>3, ReorderBoardIsTidy
<1> HIDE DEF t
<1> QED BY <1>1, <1>3, <1>4, <1>5, CommitKeepsOrder

\* Pinning a board keeps the orders.
LEMMA PinBoardKeepsOrder ==
  ASSUME StoreInv, ScreenOK, OrderInv, NEW c \in Client, PinBoard(c) PROVE OrderInv'
<1> DEFINE s == tx[c].snap  b == tx[c].req.board
           t == [ClaimBoard(s, b) EXCEPT ![ProfileDoc].exists = TRUE, ![ProfileDoc].pin = b]
<1>1. c \in OpenClients /\ WellFormed(s) /\ Sound(s) /\ AllInOrder(s) /\ b \in Board
  BY RunningOrdered, RequestFields DEF PinBoard
<1>2. Live(s, b) /\ Commit(c, t) /\ view' = view
  BY DEF PinBoard, Finish
<1>3. SafeStep(s, t) /\ Tidy(s, t)
  BY <1>1, <1>2, PinBoardIsSafe, PinBoardIsTidy
<1> HIDE DEF t
<1> QED BY <1>1, <1>2, <1>3, CommitKeepsOrder

\* createListen keeps the orders.
LEMMA CreateListenKeepsOrder ==
  ASSUME StoreInv, ScreenOK, OrderInv, NEW c \in Client, CreateListen(c) PROVE OrderInv'
<1> DEFINE s == tx[c].snap  r == tx[c].req
           input == [album |-> r.album, date |-> r.date, boards |-> r.boards]
           edit(l) == AttachAll([InsertListen(ClaimBoards(FenceAlbum(s, r.album), r.boards),
                                              l, r.album, r.date, "manual")
                                   EXCEPT ![ReceiptDoc(r.key)] = [used |-> TRUE, listen |-> l, input |-> input]],
                                l, r.boards)
<1>1. /\ c \in OpenClients /\ WellFormed(s) /\ Sound(s) /\ AllInOrder(s)
      /\ r.key \in Key /\ r.album \in Album /\ r.date \in Date /\ r.boards \in SUBSET Board
  BY RunningOrdered, RequestFields DEF CreateListen
<1>2. (\A b \in r.boards : Live(s, b)) /\ ~Receipted(s, r.key)
  BY DEF CreateListen
<1>3. PICK l \in Listen : /\ s[ListenDoc(l)].state = "unborn"
                         /\ \E t \in Synced(edit(l), r.boards) :
                              Commit(c, RemoveListened(t, r.album)) /\ view' = view
  BY DEF CreateListen, Finish
<1>4. PICK t \in Synced(edit(l), r.boards) : Commit(c, RemoveListened(t, r.album)) /\ view' = view
  BY <1>3
<1>5. input \in [album: Album, date: Date, boards: SUBSET Board]
  BY <1>1
<1>6. SafeStep(s, RemoveListened(t, r.album))
  BY <1>1, <1>2, <1>3, <1>4, <1>5, CreateListenIsSafe
<1>7. Tidy(s, RemoveListened(t, r.album))
  BY <1>1, <1>2, <1>3, <1>4, <1>5, CreateListenIsTidy
<1> QED BY <1>1, <1>4, <1>6, <1>7, CommitKeepsOrder

\* updateListen keeps the orders.
LEMMA UpdateListenKeepsOrder ==
  ASSUME StoreInv, ScreenOK, OrderInv, NEW c \in Client, UpdateListen(c) PROVE OrderInv'
<1> DEFINE s == tx[c].snap  l == tx[c].req.listen
           t == [ClaimListen(s, l) EXCEPT ![ListenDoc(l)].date = tx[c].req.date]
<1>1. /\ c \in OpenClients /\ WellFormed(s) /\ Sound(s) /\ AllInOrder(s)
      /\ l \in Listen /\ tx[c].req.date \in Date /\ LiveListen(s, l)
  BY RunningOrdered, RequestFields DEF UpdateListen
<1>2. SafeStep(s, t) /\ Tidy(s, t)
  BY <1>1, UpdateListenIsSafe, UpdateListenIsTidy
<1>3. Commit(c, t) /\ view' = view
  BY DEF UpdateListen, Finish
<1> HIDE DEF t
<1> QED BY <1>1, <1>2, <1>3, CommitKeepsOrder

\* deleteListen keeps the orders: every board the listen was on is claimed.
LEMMA DeleteListenKeepsOrder ==
  ASSUME StoreInv, ScreenOK, OrderInv, NEW c \in Client, DeleteListen(c) PROVE OrderInv'
<1> DEFINE s == tx[c].snap  l == tx[c].req.listen  B == { b \in Attached(s, l) : Live(s, b) }
<1>1. /\ c \in OpenClients /\ WellFormed(s) /\ Sound(s) /\ AllInOrder(s) /\ l \in Listen /\ LiveListen(s, l)
      /\ B \in SUBSET Board /\ \A b \in B : Live(s, b)
  BY RunningOrdered, RequestFields DEF DeleteListen, Attached
<1>2. \A b \in Board \ B : ~s[MemberDoc(b, l)]
  BY <1>1 DEF Attached, Sound, MembersHaveParents
<1>3. PICK t \in Synced(DropListen(ClaimListen(ClaimBoards(s, B), l), l), B) : Commit(c, t) /\ view' = view
  BY DEF DeleteListen, Finish
<1> HIDE DEF B
<1>4. SafeStep(s, t)
  BY <1>1, <1>3, DeleteListenIsSafe
<1>5. Tidy(s, t)
  BY <1>1, <1>2, <1>3, DeleteListenIsTidy
<1> QED BY <1>1, <1>3, <1>4, <1>5, CommitKeepsOrder

\* Every transaction keeps the orders.
LEMMA TransactionKeepsOrder ==
  ASSUME StoreInv, ScreenOK, OrderInv, NEW c \in Client, Transaction(c) PROVE OrderInv'
BY SaveAlbumKeepsOrder, RemoveAlbumKeepsOrder, DeleteBoardKeepsOrder, SetMembershipKeepsOrder,
   UpdateBoardKeepsOrder, ReorderBoardKeepsOrder, PinBoardKeepsOrder, CreateListenKeepsOrder,
   UpdateListenKeepsOrder, DeleteListenKeepsOrder DEF Transaction

\* Creating a board keeps the orders.
LEMMA CreateBoardKeepsOrder ==
  ASSUME StoreInv, ScreenOK, OrderInv, NEW b \in Board, CreateBoard(b) PROVE OrderInv'
<1> DEFINE t == [db EXCEPT ![BoardDoc(b)].state = "live"]
<1>1. /\ WellFormed(db) /\ Sound(db) /\ AllInOrder(db) /\ Write(t) /\ view' = view
      /\ db[BoardDoc(b)].state = "unborn"
  BY DEF StoreInv, OrderInv, CreateBoard
<1>2. Tidy(db, t)
  BY <1>1, CreateBoardIsTidy
<1>3. SafeStep(db, t)
  BY <1>1, CreateBoardIsSafe
<1> HIDE DEF t
<1> QED BY <1>1, <1>2, <1>3, WriteKeepsOrder

\* Unpinning keeps the orders.
LEMMA UnpinBoardKeepsOrder ==
  ASSUME StoreInv, ScreenOK, OrderInv, UnpinBoard PROVE OrderInv'
<1> DEFINE t == [db EXCEPT ![ProfileDoc].pin = NoBoard]
<1>1. WellFormed(db) /\ Sound(db) /\ AllInOrder(db) /\ Write(t) /\ view' = view
  BY DEF StoreInv, OrderInv, UnpinBoard
<1>2. \A x \in LibraryDocs : x # ProfileDoc => t[x] = db[x]
  BY <1>1 DEF WellFormed
<1>3. SafeStep(db, t)
  BY <1>1, UnpinBoardIsSafe
<1> HIDE DEF t
<1>4. Tidy(db, t)
  BY <1>1, <1>2, ProfileWriteIsTidy
<1> QED BY <1>1, <1>3, <1>4, WriteKeepsOrder

(***************************************************************************)
(* What clients see and send                                               *)
(***************************************************************************)
\* A reorder is sent of what its client saw, with an order that repeats nothing.
LEMMA SendReorderKeepsOrder ==
  ASSUME StoreInv, ScreenOK, OrderInv, NEW c \in Client, SendReorder(c) PROVE OrderInv'
<1> DEFINE v == view[c]
<1>1. c \in DOMAIN view /\ v.complete = TRUE
  BY DEF SendReorder, ScreenOK
<1>2. Saw(db, v.board, v.revision, v.order, v.complete)
  BY <1>1 DEF OrderInv, OrderedScreen
<1>3. PICK order \in Arrangements(Elements(FirstN(v.order, OrderLimit))) :
        Begin(c, [op |-> "reorderBoard", board |-> v.board, revision |-> v.revision,
                  seen |-> v.order, order |-> order])
  BY DEF SendReorder
<1>4. Injective(order)
  BY <1>3 DEF Arrangements
<1> DEFINE r == [op |-> "reorderBoard", board |-> v.board, revision |-> v.revision,
                 seen |-> v.order, order |-> order]
<1>5. /\ r.board = v.board /\ r.revision = v.revision /\ r.seen = v.order /\ r.order = order
      /\ Begin(c, r)
  BY <1>3
<1>6. DOMAIN view' \subseteq DOMAIN view /\ \A x \in DOMAIN view' : view'[x] = view[x]
  BY DEF SendReorder
<1> HIDE DEF r, v
<1>7. Saw(db, r.board, r.revision, r.seen, TRUE)
  BY <1>1, <1>2, <1>5 DEF Saw
<1> QED BY <1>4, <1>5, <1>6, <1>7, BeginKeepsOrder

\* No other request says what its client saw.
LEMMA SendRequestKeepsOrder ==
  ASSUME StoreInv, ScreenOK, OrderInv, NEW c \in Client, SendRequest(c) PROVE OrderInv'
<1>1. PICK r \in Requests : Begin(c, r)
  BY DEF SendRequest
<1>2. r.op # "reorderBoard"
  BY <1>1, LibraryAssumption DEF Request
<1>3. view' = view
  BY DEF SendRequest
<1> QED BY <1>1, <1>2, <1>3, BeginKeepsOrder

\* A client reads a board as it is.
LEMMA ReadBoardKeepsOrder ==
  ASSUME StoreInv, ScreenOK, OrderInv, NEW c \in Client, NEW b \in Board, ReadBoard(c, b) PROVE OrderInv'
<1> DEFINE new == [board |-> b, revision |-> db[BoardDoc(b)].rev,
                   order |-> db[BoardDoc(b)].order, complete |-> FALSE]
<1>1. /\ Live(db, b) /\ db' = db /\ tx' = tx
      /\ view' = [x \in DOMAIN view \cup {c} |-> IF x = c THEN new ELSE view[x]]
  BY DEF ReadBoard
<1>2. db[BoardDoc(b)].rev \in Nat
  BY DEF StoreInv, WellFormed, TypedDocs, BoardValue
<1>3. /\ new.board = b /\ new.revision = db[BoardDoc(b)].rev /\ new.order = db[BoardDoc(b)].order
      /\ new.complete = FALSE
  OBVIOUS
<1> HIDE DEF new
<1>4. OrderedScreen(db, new)
  BY <1>1, <1>2, <1>3 DEF OrderedScreen, Saw
<1> QED BY <1>1, <1>4 DEF OrderInv, OneListenPerKey, OpenClients

\* The albums it reads afterwards are those of the board it read, if the
\* revision it has is still the board's.
LEMMA ReadEntriesKeepsOrder ==
  ASSUME StoreInv, ScreenOK, OrderInv, NEW c \in Client, ReadEntries(c) PROVE OrderInv'
<1> DEFINE v == view[c]
<1>1. /\ c \in DOMAIN view /\ ~v.complete /\ db' = db /\ tx' = tx
      /\ v \in [board: Board, revision: Nat, order: Seq(Album), complete: BOOLEAN]
  BY DEF ReadEntries, ScreenOK
<1>2. PICK shown \in Shown(v.order, Entries(db, v.board)) :
        view' = [view EXCEPT ![c] = [v EXCEPT !.order = shown, !.complete = TRUE]]
  BY Zenon DEF ReadEntries
<1>3. Saw(db, v.board, v.revision, v.order, v.complete)
  BY <1>1 DEF OrderInv, OrderedScreen
<1> DEFINE new == [v EXCEPT !.order = shown, !.complete = TRUE]
<1>4. DOMAIN view' = DOMAIN view /\ \A x \in DOMAIN view : view'[x] = IF x = c THEN new ELSE view[x]
  BY <1>2
<1> HIDE DEF v
<1>5. new.board = v.board /\ new.revision = v.revision /\ new.order = shown /\ new.complete = TRUE
  BY <1>1
<1> HIDE DEF new
<1>6. OrderedScreen(db, new)
  BY <1>1, <1>2, <1>3, <1>5 DEF OrderedScreen, Saw
<1> QED BY <1>1, <1>4, <1>6 DEF OrderInv, OneListenPerKey, OpenClients

(***************************************************************************)
(* The theorems                                                            *)
(***************************************************************************)
\* In an empty library no board is ordered and nothing has been seen.
LEMMA InitialOrder == LibraryInit => OrderInv
<1> SUFFICES ASSUME LibraryInit PROVE OrderInv
  OBVIOUS
<1>1. PICK p \in FirstProfiles : db = EmptyLibrary(p)
  BY DEF LibraryInit
<1>2. \A b \in Board : db[BoardDoc(b)] = [state |-> "unborn", rev |-> 0, manual |-> FALSE, order |-> <<>>]
  <2> TAKE b \in Board
  <2>1. BoardDoc(b) \in LibraryDocs /\ BoardDoc(b)[1] = "board"
    BY DocsAreDocs DEF BoardDoc
  <2> QED BY <1>1, <2>1 DEF EmptyLibrary
<1>3. \A l \in Listen : db[ListenDoc(l)] = [state |-> "unborn", rev |-> 0]
  <2> TAKE l \in Listen
  <2>1. ListenDoc(l) \in LibraryDocs /\ ListenDoc(l)[1] = "listen"
    BY DocsAreDocs DEF ListenDoc
  <2> QED BY <1>1, <2>1 DEF EmptyLibrary
<1>4. AllInOrder(db)
  BY <1>2 DEF AllInOrder, InOrder, Live, Manual
<1>5. OneListenPerKey
  BY <1>3 DEF OneListenPerKey
<1>6. OpenClients = {} /\ DOMAIN view = {}
  BY DEF LibraryInit, OpenClients
<1> QED BY <1>4, <1>5, <1>6 DEF OrderInv

\* Every step, and stuttering, keeps the orders and the receipts.
LEMMA StepsKeepOrder == LibraryInv /\ OrderInv /\ [LibraryNext]_libVars => OrderInv'
<1> SUFFICES ASSUME StoreInv, ScreenOK, OrderInv, [LibraryNext]_libVars PROVE OrderInv'
  BY DEF LibraryInv
<1>1. ASSUME NEW c \in Client, SendRequest(c) PROVE OrderInv'
  BY <1>1, SendRequestKeepsOrder
<1>2. ASSUME NEW c \in Client, SendReorder(c) PROVE OrderInv'
  BY <1>2, SendReorderKeepsOrder
<1>3. ASSUME NEW c \in Client, Transaction(c) PROVE OrderInv'
  BY <1>3, TransactionKeepsOrder
<1>4. ASSUME NEW c \in Client, GiveUp(c) PROVE OrderInv'
  BY <1>4, GiveUpKeepsOrder
<1>5. ASSUME NEW c \in Client, NEW b \in Board, ReadBoard(c, b) PROVE OrderInv'
  BY <1>5, ReadBoardKeepsOrder
<1>6. ASSUME NEW c \in Client, ReadEntries(c) PROVE OrderInv'
  BY <1>6, ReadEntriesKeepsOrder
<1>7. ASSUME NEW b \in Board, CreateBoard(b) PROVE OrderInv'
  BY <1>7, CreateBoardKeepsOrder
<1>8. ASSUME UnpinBoard PROVE OrderInv'
  BY <1>8, UnpinBoardKeepsOrder
<1>9. CASE UNCHANGED libVars
  BY <1>9 DEF libVars, OrderInv, OneListenPerKey, OpenClients
<1> QED BY <1>1, <1>2, <1>3, <1>4, <1>5, <1>6, <1>7, <1>8, <1>9 DEF LibraryNext

\* OrderInv is an inductive invariant of the library, beside LibraryInv.
THEOREM OrderInvariance == LibrarySpec => [](LibraryInv /\ OrderInv)
<1>1. LibraryInit => LibraryInv /\ OrderInv
  BY InitialLibrary, InitialOrder
<1>2. (LibraryInv /\ OrderInv) /\ [LibraryNext]_libVars => (LibraryInv /\ OrderInv)'
  BY StepsKeepLibraryInv, StepsKeepOrder
<1> QED BY <1>1, <1>2, PTL DEF LibrarySpec

\* However creations, retries under one Idempotency-Key and deletions
\* interleave, every manual listen ever made is the one a receipt names
\* (boardMutations.createListen).
THEOREM OneListenPerKeyEver == LibrarySpec => []OneListenPerKey
<1>1. OrderInv => OneListenPerKey
  BY DEF OrderInv
<1> QED BY <1>1, OrderInvariance, PTL

\* However saves, removals, attachments, listens and reorders interleave, the
\* stored order of a manual board is of the albums it has (syncOrder,
\* updateBoard, reorderBoard).
THEOREM OrdersFollowEntries == LibrarySpec => []OrderFollowsEntries
<1>1. OrderInv => OrderFollowsEntries
  BY DEF OrderInv, AllInOrder, InOrder, Follows, OrderFollowsEntries
<1> QED BY <1>1, OrderInvariance, PTL

(***************************************************************************)
(* What an accepted reorder replaces                                       *)
(***************************************************************************)
KnewTheBoard(r) ==
  /\ Elements(r.seen) = Entries(db, r.board)
  /\ r.seen \in Shown(db[BoardDoc(r.board)].order, Entries(db, r.board))

\* The revision that reorderBoard compares and raises is the database's, so
\* the board is the one its client saw.
LEMMA ReorderBoardKnew ==
  ASSUME StoreInv, OrderInv, NEW c \in Client, ReorderBoard(c)
  PROVE  KnewTheBoard(tx[c].req)
<1> DEFINE s == tx[c].snap  r == tx[c].req  b == r.board
           t == [ClaimBoard(s, b) EXCEPT ![BoardDoc(b)].order = r.order]
<1>1. /\ c \in OpenClients /\ WellFormed(s) /\ b \in Board /\ r.op = "reorderBoard"
      /\ r \in Request \cup ReorderRequest
  BY RunningOrdered, RequestFields DEF ReorderBoard
<1>2. SnapshotOK(tx[c]) /\ OrderedSnapshot(db, tx[c])
  BY <1>1 DEF StoreInv, OrderInv
<1>3. s[BoardDoc(b)].rev = r.revision /\ Commit(c, t)
  BY DEF ReorderBoard, AtRevision, Finish
<1>4. s[BoardDoc(b)] \in BoardValue /\ BoardDoc(b) \in DOMAIN s
  BY <1>1, DocsAreDocs DEF WellFormed, TypedDocs
<1>5. t[BoardDoc(b)].rev = s[BoardDoc(b)].rev + 1
  BY <1>4 DEF ClaimBoard, BoardValue
<1>6. BoardDoc(b) \in Changed(s, t)
  <2>1. s[BoardDoc(b)].rev \in Nat
    BY <1>4 DEF BoardValue
  <2> HIDE DEF t
  <2>2. t[BoardDoc(b)].rev # s[BoardDoc(b)].rev
    BY <1>5, <2>1
  <2>3. t[BoardDoc(b)] # s[BoardDoc(b)]
    BY <2>2
  <2> QED BY <1>4, <2>3 DEF Changed
<1>7. db[BoardDoc(b)] = s[BoardDoc(b)]
  <2>1. Changed(s, t) \cap tx[c].missed = {}
    BY <1>3, Zenon DEF Commit
  <2> HIDE DEF t
  <2> QED BY <1>2, <1>4, <1>6, <2>1 DEF SnapshotOK
<1>8. r.seen \in Shown(db[BoardDoc(b)].order, Entries(db, b))
  BY <1>1, <1>2, <1>3, <1>7 DEF OrderedSnapshot, Saw
<1>9. Elements(r.seen) = Entries(db, b)
  <2>1. r.seen \in Arrangements(Entries(db, b)) /\ Entries(db, b) \subseteq Album
    BY <1>8, EntriesAreAlbums DEF Shown
  <2> HIDE DEF r, b
  <2> QED BY <2>1, ArrangementsFill
<1> QED BY <1>8, <1>9 DEF KnewTheBoard

\* A reorder that ends with a change of the database is the one committing.
LEMMA OnlyReorderBoardReorders ==
  ASSUME StoreInv, LibraryNext, NEW c \in OpenClients, tx[c].req.op = "reorderBoard",
         c \notin DOMAIN tx', db' # db
  PROVE  ReorderBoard(c)
<1>1. ASSUME NEW t, Write(t) PROVE FALSE
  BY <1>1 DEF Write, Behind, OpenClients
<1>2. ASSUME NEW x \in OpenClients, NEW t, Commit(x, t) PROVE x = c
  BY <1>2 DEF Commit, Behind, OpenClients
<1>3. ASSUME NEW x \in Client, NEW op, Running(x, op), op # "reorderBoard", \E t : Commit(x, t) PROVE FALSE
  BY <1>2, <1>3 DEF Running
<1>4. ASSUME NEW x \in Client, Transaction(x) PROVE ReorderBoard(c)
  <2>1. CASE SaveAlbum(x)
    BY <1>3, <2>1 DEF SaveAlbum, Finish
  <2>2. CASE RemoveAlbum(x)
    BY <1>3, <2>2 DEF RemoveAlbum, Finish
  <2>3. CASE DeleteBoard(x)
    BY <1>3, <2>3 DEF DeleteBoard, Finish
  <2>4. CASE SetMembership(x)
    BY <1>3, <2>4 DEF SetMembership, Finish
  <2>5. CASE UpdateBoard(x)
    BY <1>3, <2>5 DEF UpdateBoard, Finish
  <2>6. CASE ReorderBoard(x)
    BY <1>2, <2>6 DEF ReorderBoard, Finish, Running
  <2>7. CASE PinBoard(x)
    BY <1>3, <2>7 DEF PinBoard, Finish
  <2>8. CASE CreateListen(x)
    BY <1>3, <2>8 DEF CreateListen, Finish
  <2>9. CASE UpdateListen(x)
    BY <1>3, <2>9 DEF UpdateListen, Finish
  <2>10. CASE DeleteListen(x)
    BY <1>3, <2>10 DEF DeleteListen, Finish
  <2> QED BY <1>4, <2>1, <2>2, <2>3, <2>4, <2>5, <2>6, <2>7, <2>8, <2>9, <2>10 DEF Transaction
<1>5. ASSUME NEW x \in Client, SendRequest(x) \/ SendReorder(x) \/ GiveUp(x) \/ ReadEntries(x)
      PROVE  FALSE
  BY <1>5, Zenon DEF SendRequest, SendReorder, Begin, GiveUp, Retry, Abort, ReadEntries
<1>6. ASSUME NEW x \in Client, NEW b \in Board, ReadBoard(x, b) PROVE FALSE
  BY <1>6 DEF ReadBoard
<1>7. ASSUME NEW b \in Board, CreateBoard(b) PROVE FALSE
  BY <1>1, <1>7 DEF CreateBoard
<1>8. ASSUME UnpinBoard PROVE FALSE
  BY <1>1, <1>8 DEF UnpinBoard
<1> QED BY <1>4, <1>5, <1>6, <1>7, <1>8 DEF LibraryNext

\* Whatever else happens to a board while its owner looks at it, a reorder that
\* is accepted replaces exactly what that client was shown (reorderBoard's
\* expectedRevision, and the claims of every other change of the board).
THEOREM ReordersKnewTheirBoards == LibrarySpec => ReorderKnewTheBoard
<1> DEFINE Knew ==
      \A c \in Client :
        /\ c \in OpenClients /\ tx[c].req.op = "reorderBoard"
        /\ c \notin DOMAIN tx' /\ db' # db
        => LET r == tx[c].req
           IN  /\ Elements(r.seen) = Entries(db, r.board)
               /\ r.seen \in Shown(db[BoardDoc(r.board)].order, Entries(db, r.board))
<1>1. LibraryInv /\ OrderInv /\ LibraryNext => Knew
  <2> SUFFICES ASSUME LibraryInv, OrderInv, LibraryNext, NEW c \in Client,
                      c \in OpenClients, tx[c].req.op = "reorderBoard", c \notin DOMAIN tx', db' # db
               PROVE  KnewTheBoard(tx[c].req)
    BY DEF KnewTheBoard
  <2> QED BY OnlyReorderBoardReorders, ReorderBoardKnew DEF LibraryInv
<1>2. (LibraryInv /\ OrderInv) /\ [LibraryNext]_libVars => [Knew]_libVars
  BY <1>1
<1>3. LibrarySpec => [][Knew]_libVars
  <2> HIDE DEF Knew
  <2> QED BY <1>2, OrderInvariance, PTL DEF LibrarySpec
<1> QED BY <1>3 DEF ReorderKnewTheBoard
=============================================================================
