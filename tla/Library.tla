------------------------------ MODULE Library ------------------------------
(***************************************************************************)
(* One user's library: boards, the albums saved on them, diary listens,    *)
(* the memberships that attach listens to boards, creation receipts, and   *)
(* the profile that pins a board and keeps the listen queue.  Every route  *)
(* filters by userId, so the libraries of two users share no document; the *)
(* clients are the requests one user has in flight.                        *)
(*                                                                         *)
(* Board and listen ids are random UUIDs: an id is "unborn", then "live",  *)
(* then "deleted" and never used again.  Save times are not kept, so where *)
(* the code sorts albums by savedAt the model allows every arrangement     *)
(* (BoardOrder models the sorting itself).                                 *)
(***************************************************************************)
EXTENDS SnapshotTransactions, QueueRules, OrderRules

CONSTANTS Board, DefaultBoard, NoBoard,   \* board ids, the default one, no pin
          Album, Listen, Key, Date,       \* catalog albums, listen ids, Idempotency-Keys, days
          LegacyAlbums,                   \* albums an old profile may have "listening next"
          Requests,                       \* the requests clients may send
          MaxRequests                     \* bound on the requests of a behaviour

VARIABLES view,    \* boards clients have on screen
          sent     \* requests sent so far

libVars == <<db, tx, view, sent>>

(***************************************************************************)
(* Documents                                                               *)
(***************************************************************************)
BoardDoc(b)     == <<"board", b>>
ItemDoc(b, a)   == <<"item", <<b, a>>>>
ListenDoc(l)    == <<"listen", l>>
MemberDoc(b, l) == <<"member", <<b, l>>>>
ReceiptDoc(k)   == <<"receipt", k>>
FenceDoc(a)     == <<"fence", a>>
ProfileDoc      == <<"profile", "me">>

LibraryDocs ==
  { BoardDoc(b) : b \in Board } \cup { ItemDoc(b, a) : b \in Board, a \in Album }
  \cup { ListenDoc(l) : l \in Listen } \cup { MemberDoc(b, l) : b \in Board, l \in Listen }
  \cup { ReceiptDoc(k) : k \in Key } \cup { FenceDoc(a) : a \in Album } \cup {ProfileDoc}

Life == {"unborn", "live", "deleted"}
BoardValue   == [state: Life, rev: Nat, manual: BOOLEAN, order: Seq(Album)]
ListenValue  == [state: {"unborn"}, rev: {0}]
                \cup [state: {"live", "deleted"}, rev: Nat, album: Album, date: Date,
                      source: {"manual", "automatic"}]
ReceiptValue == [used: {FALSE}]
                \cup [used: {TRUE}, listen: Listen,
                      input: [album: Album, date: Date, boards: SUBSET Board]]
ProfileValue == [exists: BOOLEAN, pin: Board \cup {NoBoard},
                 queue: Seq(Album), legacy: SUBSET Album, rev: Nat]

Request ==
  [op: {"saveAlbum", "removeAlbum"}, board: Board, album: Album]
  \cup [op: {"deleteBoard", "pinBoard"}, board: Board]
  \cup [op: {"attach", "detach"}, board: Board, listen: Listen]
  \cup [op: {"updateBoard"}, board: Board, manual: BOOLEAN]
  \cup [op: {"createListen"}, key: Key, album: Album, date: Date, boards: SUBSET Board]
  \cup [op: {"updateListen"}, listen: Listen, date: Date]
  \cup [op: {"deleteListen"}, listen: Listen]

ReorderRequest ==
  [op: {"reorderBoard"}, board: Board, revision: Nat, seen: Seq(Album), order: Seq(Album)]

ASSUME LibraryAssumption ==
  /\ IsFiniteSet(Album)
  /\ DefaultBoard \in Board /\ NoBoard \notin Board
  /\ MaxRequests \in Nat
  /\ LegacyAlbums \subseteq Album
  /\ Requests \subseteq Request

(***************************************************************************)
(* Reading a state s of the documents (a snapshot, or the database)        *)
(***************************************************************************)
Live(s, b)       == s[BoardDoc(b)].state = "live"
LiveListen(s, l) == s[ListenDoc(l)].state = "live"
Attached(s, l)   == { b \in Board : s[MemberDoc(b, l)] }
Manual(s, b)     == s[BoardDoc(b)].manual

\* Albums saved on purpose, and albums of attached listens (collectionEntries).
Entries(s, b) ==
  { a \in Album : \/ s[ItemDoc(b, a)]
                  \/ \E l \in Listen : /\ s[MemberDoc(b, l)] /\ LiveListen(s, l)
                                       /\ s[ListenDoc(l)].album = a }

(***************************************************************************)
(* The helpers every mutation is built from: state to state                *)
(***************************************************************************)
\* claimBoard and claimListen increment interactionRevision, so that a
\* concurrent transaction that claims or deletes the same parent conflicts.
ClaimBoard(s, b)  == [s EXCEPT ![BoardDoc(b)].rev = @ + 1]
UnclaimedListen(s, l) == s                  \* slip: the listen is only read
ClaimListen(s, l) == [s EXCEPT ![ListenDoc(l)].rev = @ + 1]

ClaimBoards(s, B) ==
  [d \in DOMAIN s |-> IF \E b \in B : d = BoardDoc(b) THEN [s[d] EXCEPT !.rev = @ + 1] ELSE s[d]]

\* createDefault: a first use of the default board creates it.
Claimable(s, b, createDefault) == Live(s, b) \/ (createDefault /\ b = DefaultBoard)
UnclaimedOrCreated(s, b) ==                  \* slip: a live board is only read
  IF Live(s, b) THEN s ELSE [s EXCEPT ![BoardDoc(b)].state = "live"]
ClaimOrCreate(s, b) ==
  IF Live(s, b) THEN ClaimBoard(s, b) ELSE [s EXCEPT ![BoardDoc(b)].state = "live"]

\* syncOrder on each board of B, after the membership changes already in s.
SyncedOrders(s, b) ==
  IF Manual(s, b) THEN ReconciledOrders(s[BoardDoc(b)].order, Entries(s, b))
                  ELSE {s[BoardDoc(b)].order}
Synced(s, B) ==
  LET choices == { f \in [B -> UNION { SyncedOrders(s, b) : b \in B }] :
                     \A b \in B : f[b] \in SyncedOrders(s, b) }
  IN  { [d \in DOMAIN s |-> IF \E b \in B : d = BoardDoc(b)
                              THEN [s[d] EXCEPT !.order = f[d[2]]] ELSE s[d]] : f \in choices }

\* A new listen takes its album out of the profile's queue.
RemoveListened(s, a) == [s EXCEPT ![ProfileDoc] = WithoutListened([@ EXCEPT !.exists = TRUE], a)]

FenceAlbum(s, a) == [s EXCEPT ![FenceDoc(a)] = @ + 1]

InsertUnsourced(s, l, a, date, source) ==     \* slip: the source is not stored
  [s EXCEPT ![ListenDoc(l)] = [state |-> "live", rev |-> 0, album |-> a, date |-> date]]
InsertListen(s, l, a, date, source) ==
  [s EXCEPT ![ListenDoc(l)] = [state |-> "live", rev |-> 0, album |-> a, date |-> date,
                               source |-> source]]

(***************************************************************************)
(* The transactions, one action each                                       *)
(***************************************************************************)
Running(c, op) == c \in OpenClients /\ tx[c].req.op = op
Finish(c, t)   == Commit(c, t) /\ UNCHANGED <<view, sent>>

SaveAlbum(c) ==
  /\ Running(c, "saveAlbum")
  /\ LET s == tx[c].snap  b == tx[c].req.board
     IN  /\ Claimable(s, b, TRUE)
         /\ \E t \in Synced([ClaimOrCreate(s, b) EXCEPT ![ItemDoc(b, tx[c].req.album)] = TRUE], {b}) :
              Finish(c, t)

RemoveFromBoard(s, b, a) ==
  [d \in DOMAIN s |->
     IF \/ d = ItemDoc(b, a)
        \/ \E l \in Listen : d = MemberDoc(b, l) /\ s[d] /\ s[ListenDoc(l)].album = a
     THEN FALSE ELSE s[d]]

RemoveAlbum(c) ==
  /\ Running(c, "removeAlbum")
  /\ LET s == tx[c].snap  b == tx[c].req.board
     IN  /\ Live(s, b)
         /\ \E t \in Synced(RemoveFromBoard(ClaimBoard(s, b), b, tx[c].req.album), {b}) : Finish(c, t)

DropBoardKeepPin(s, b) ==                     \* slip: the pin is not unset
  [d \in DOMAIN s |->
     IF d = BoardDoc(b) THEN [s[d] EXCEPT !.state = "deleted"]
     ELSE IF \/ \E a \in Album : d = ItemDoc(b, a)
             \/ \E l \in Listen : d = MemberDoc(b, l) THEN FALSE
     ELSE s[d]]

\* Items and memberships go with the board, and so does the pin.
DropBoard(s, b) ==
  [d \in DOMAIN s |->
     IF d = BoardDoc(b) THEN [s[d] EXCEPT !.state = "deleted"]
     ELSE IF \/ \E a \in Album : d = ItemDoc(b, a)
             \/ \E l \in Listen : d = MemberDoc(b, l) THEN FALSE
     ELSE IF d = ProfileDoc /\ s[d].pin = b THEN [s[d] EXCEPT !.pin = NoBoard]
     ELSE s[d]]

DeleteBoard(c) ==
  /\ Running(c, "deleteBoard")
  /\ LET s == tx[c].snap  b == tx[c].req.board
     IN  /\ Live(s, b) /\ b # DefaultBoard
         /\ Finish(c, DropBoard(ClaimBoard(s, b), b))

\* setMembership: both parents are claimed, attaching and detaching.
SetMembership(c) ==
  \E attached \in BOOLEAN :
    /\ Running(c, IF attached THEN "attach" ELSE "detach")
    /\ LET s == tx[c].snap  b == tx[c].req.board  l == tx[c].req.listen
       IN  /\ Claimable(s, b, attached) /\ LiveListen(s, l)
           /\ \E t \in Synced([ClaimListen(ClaimOrCreate(s, b), l) EXCEPT ![MemberDoc(b, l)] = attached], {b}) :
                Finish(c, t)

\* The order mode; a switch to manual order seeds it with the date order.
UpdateBoard(c) ==
  /\ Running(c, "updateBoard")
  /\ LET s == tx[c].snap  b == tx[c].req.board  manual == tx[c].req.manual
         seeded == IF manual /\ ~Manual(s, b) THEN Arrangements(Entries(s, b))
                   ELSE IF manual THEN {s[BoardDoc(b)].order} ELSE {<<>>}
     IN  /\ Claimable(s, b, TRUE)
         /\ (manual /\ ~Manual(s, b)) => Cardinality(Entries(s, b)) <= OrderLimit
         /\ \E order \in seeded :
              Finish(c, [ClaimOrCreate(s, b) EXCEPT ![BoardDoc(b)].manual = manual,
                                                    ![BoardDoc(b)].order = order])

AtAnyRevision(s, b, revision) == TRUE         \* slip: the revision is not compared
AtRevision(s, b, revision) == s[BoardDoc(b)].rev = revision

\* claimBoard with the revision the client read: a board that moved on is refused.
ReorderBoard(c) ==
  /\ Running(c, "reorderBoard")
  /\ LET s == tx[c].snap  b == tx[c].req.board  order == tx[c].req.order
     IN  /\ Live(s, b) /\ AtRevision(s, b, tx[c].req.revision)
         /\ Manual(s, b)
         /\ \/ Len(order) = Cardinality(Entries(s, b)) /\ Len(order) <= OrderLimit
            \/ Len(order) = OrderLimit /\ Cardinality(Entries(s, b)) > OrderLimit
         /\ Elements(order) \subseteq Entries(s, b)
         /\ Finish(c, [ClaimBoard(s, b) EXCEPT ![BoardDoc(b)].order = order])

\* PUT /me with a pinned board.
PinBoard(c) ==
  /\ Running(c, "pinBoard")
  /\ LET s == tx[c].snap  b == tx[c].req.board
     IN  /\ Live(s, b)
         /\ Finish(c, [ClaimBoard(s, b) EXCEPT ![ProfileDoc].exists = TRUE, ![ProfileDoc].pin = b])

ReceiptedAlive(s, k) ==                       \* slip: a deleted listen frees its key
  s[ReceiptDoc(k)].used /\ LiveListen(s, s[ReceiptDoc(k)].listen)
Receipted(s, k) == s[ReceiptDoc(k)].used

AttachAll(s, l, B) ==
  [d \in DOMAIN s |-> IF \E b \in B : d = MemberDoc(b, l) THEN TRUE ELSE s[d]]

\* A receipt for the key ends the request without a write (Abort): the caller
\* gets the first listen, IDEMPOTENCY_CONFLICT or LISTEN_DELETED.
CreateListen(c) ==
  /\ Running(c, "createListen")
  /\ LET s == tx[c].snap  r == tx[c].req
         input == [album |-> r.album, date |-> r.date, boards |-> r.boards]
     IN  /\ ~Receipted(s, r.key)
         /\ \A b \in r.boards : Live(s, b)
         /\ \E l \in Listen :
              /\ s[ListenDoc(l)].state = "unborn" /\ db[ListenDoc(l)].state = "unborn"
              /\ LET inserted == InsertListen(ClaimBoards(FenceAlbum(s, r.album), r.boards),
                                              l, r.album, r.date, "manual")
                     receipted == [inserted EXCEPT ![ReceiptDoc(r.key)] =
                                     [used |-> TRUE, listen |-> l, input |-> input]]
                 IN  \E t \in Synced(AttachAll(receipted, l, r.boards), r.boards) :
                       Finish(c, RemoveListened(t, r.album))

UpdateListen(c) ==
  /\ Running(c, "updateListen")
  /\ LET s == tx[c].snap  l == tx[c].req.listen
     IN  /\ LiveListen(s, l)
         /\ Finish(c, [ClaimListen(s, l) EXCEPT ![ListenDoc(l)].date = tx[c].req.date])

DropListen(s, l) ==
  [d \in DOMAIN s |->
     IF d = ListenDoc(l) THEN [s[d] EXCEPT !.state = "deleted"]
     ELSE IF \E b \in Board : d = MemberDoc(b, l) THEN FALSE ELSE s[d]]

DeleteListen(c) ==
  /\ Running(c, "deleteListen")
  /\ LET s == tx[c].snap  l == tx[c].req.listen  B == { b \in Attached(s, l) : Live(s, b) }
     IN  /\ LiveListen(s, l)
         /\ \E t \in Synced(DropListen(ClaimListen(ClaimBoards(s, B), l), l), B) : Finish(c, t)

(***************************************************************************)
(* Requests outside transactions                                           *)
(***************************************************************************)
\* POST /boards, and getDefaultBoard when the list is first opened.
CreateBoard(b) ==
  /\ db[BoardDoc(b)].state = "unborn"
  /\ Write([db EXCEPT ![BoardDoc(b)].state = "live"])
  /\ UNCHANGED <<view, sent>>

\* PUT /me without a pinned board.
UnpinBoard ==
  /\ db[ProfileDoc].pin # NoBoard
  /\ Write([db EXCEPT ![ProfileDoc].pin = NoBoard])
  /\ UNCHANGED <<view, sent>>

\* GET /boards/:boardId reads the board, and then its albums.
ReadBoard(c, b) ==
  /\ c \notin OpenClients /\ c \notin DOMAIN view
  /\ Live(db, b) /\ Manual(db, b)
  /\ view' = [x \in DOMAIN view \cup {c} |->
                IF x = c THEN [board |-> b, revision |-> db[BoardDoc(b)].rev,
                               order |-> db[BoardDoc(b)].order, complete |-> FALSE]
                ELSE view[x]]
  /\ UNCHANGED <<db, tx, sent>>

ReadEntries(c) ==
  /\ c \in DOMAIN view /\ ~view[c].complete
  /\ \E shown \in Shown(view[c].order, Entries(db, view[c].board)) :
       view' = [view EXCEPT ![c] = [@ EXCEPT !.order = shown, !.complete = TRUE]]
  /\ UNCHANGED <<db, tx, sent>>

\* The owner drags the leading albums into another order and saves it.
SendReorder(c) ==
  /\ c \in DOMAIN view /\ view[c].complete /\ sent < MaxRequests
  /\ \E order \in Arrangements(Elements(FirstN(view[c].order, OrderLimit))) :
       Begin(c, [op |-> "reorderBoard", board |-> view[c].board, revision |-> view[c].revision,
                 seen |-> view[c].order, order |-> order])
  /\ view' = [x \in DOMAIN view \ {c} |-> view[x]]
  /\ sent' = sent + 1

SendRequest(c) ==
  /\ sent < MaxRequests
  /\ \E r \in Requests : Begin(c, r)
  /\ sent' = sent + 1 /\ UNCHANGED view

(***************************************************************************)
(* The specification                                                       *)
(***************************************************************************)
EmptyLibrary(p) ==
  [d \in LibraryDocs |->
     CASE d[1] = "board"   -> [state |-> "unborn", rev |-> 0, manual |-> FALSE, order |-> <<>>]
       [] d[1] = "listen"  -> [state |-> "unborn", rev |-> 0]
       [] d[1] = "receipt" -> [used |-> FALSE]
       [] d[1] = "fence"   -> 0
       [] d[1] = "profile" -> p
       [] OTHER            -> FALSE]

NewProfile == [exists |-> FALSE, pin |-> NoBoard, queue |-> <<>>, legacy |-> {}, rev |-> 0]
FirstProfiles == {NewProfile} \cup { [NewProfile EXCEPT !.exists = TRUE, !.legacy = {a}] : a \in LegacyAlbums }

LibraryInit ==
  /\ \E p \in FirstProfiles : db = EmptyLibrary(p)
  /\ tx = [c \in {} |-> {}]
  /\ view = [c \in {} |-> {}]
  /\ sent = 0

Transaction(c) ==
  \/ SaveAlbum(c) \/ RemoveAlbum(c) \/ DeleteBoard(c) \/ SetMembership(c)
  \/ UpdateBoard(c) \/ ReorderBoard(c) \/ PinBoard(c)
  \/ CreateListen(c) \/ UpdateListen(c) \/ DeleteListen(c)

GiveUp(c) == (Retry(c) \/ Abort(c)) /\ UNCHANGED <<view, sent>>

LibraryNext ==
  \/ \E c \in Client : \/ SendRequest(c) \/ SendReorder(c) \/ Transaction(c) \/ GiveUp(c)
                       \/ (\E b \in Board : ReadBoard(c, b)) \/ ReadEntries(c)
  \/ \E b \in Board : CreateBoard(b)
  \/ UnpinBoard

LibrarySpec == LibraryInit /\ [][LibraryNext]_libVars

(***************************************************************************)
(* Properties                                                              *)
(***************************************************************************)
\* The documents have their types, and so have the snapshots.
TypedDocs(s) ==
  /\ \A b \in Board : s[BoardDoc(b)] \in BoardValue
  /\ \A b \in Board, a \in Album : s[ItemDoc(b, a)] \in BOOLEAN
  /\ \A l \in Listen : s[ListenDoc(l)] \in ListenValue
  /\ \A b \in Board, l \in Listen : s[MemberDoc(b, l)] \in BOOLEAN
  /\ \A k \in Key : s[ReceiptDoc(k)] \in ReceiptValue
  /\ \A a \in Album : s[FenceDoc(a)] \in Nat
  /\ s[ProfileDoc] \in ProfileValue

LibraryTypeOK ==
  /\ LibraryDocs \subseteq DOMAIN db /\ TypedDocs(db)
  /\ SnapshotShape
  /\ \A c \in OpenClients : TypedDocs(tx[c].snap) /\ tx[c].req \in Request \cup ReorderRequest
  /\ DOMAIN view \subseteq Client
  /\ \A c \in DOMAIN view :
       view[c] \in [board: Board, revision: Nat, order: Seq(Album), complete: BOOLEAN]
  /\ sent \in 0..MaxRequests

\* "A delete racing an attach conflicts and retries instead of leaving an
\* orphan": every membership has a live board and a live listen
\* (setMembership, createListen, deleteListen, deleteBoard).
MembersHaveParents(s) ==
  \A b \in Board, l \in Listen : s[MemberDoc(b, l)] => Live(s, b) /\ LiveListen(s, l)
NoOrphanMembership == MembersHaveParents(db)

\* A saved album is on a live board, whatever save races the board's deletion.
ItemsHaveBoards(s) == \A b \in Board, a \in Album : s[ItemDoc(b, a)] => Live(s, b)
NoOrphanItem == ItemsHaveBoards(db)

\* A profile never pins a board that is gone (PUT /me, deleteBoard).
PinIsLive(s) == s[ProfileDoc].pin # NoBoard => Live(s, s[ProfileDoc].pin)
NoDanglingPin == PinIsLive(db)

\* The stored order of a manual board repeats no album and names only albums
\* of the board, all of them up to the limit: no membership change by any
\* route leaves it behind (syncOrder, updateBoard, reorderBoard).
OrderFollowsEntries ==
  \A b \in Board :
    Live(db, b) /\ Manual(db, b) =>
      LET order == db[BoardDoc(b)].order
      IN  /\ Injective(order) /\ Len(order) <= OrderLimit
          /\ Elements(order) \subseteq Entries(db, b)
          /\ Cardinality(Entries(db, b)) <= OrderLimit => Elements(order) = Entries(db, b)

\* A creation retried or raced under one Idempotency-Key makes one listen: each
\* manual listen ever made is the one that some receipt names.
OneListenPerKey ==
  \A l \in Listen :
    LET listen == db[ListenDoc(l)]
    IN  listen.state # "unborn" /\ listen.source = "manual" =>
          \E k \in Key : db[ReceiptDoc(k)].used /\ db[ReceiptDoc(k)].listen = l

\* A reorder that is accepted replaces exactly what its client was looking at:
\* no arrangement and no album it had not seen is overwritten.
ReorderKnewTheBoard ==
  [][\A c \in Client :
       /\ c \in OpenClients /\ tx[c].req.op = "reorderBoard"
       /\ c \notin DOMAIN tx' /\ db' # db
       => LET r == tx[c].req
          IN  /\ Elements(r.seen) = Entries(db, r.board)
              /\ r.seen \in Shown(db[BoardDoc(r.board)].order, Entries(db, r.board))]_libVars
=============================================================================
