----------------------------- MODULE BoardOrder -----------------------------
(***************************************************************************)
(* The order of one board, with the save times that Library leaves out:    *)
(* what the board shows, what a manual board stores, and the draft of a    *)
(* reorder on the owner's board page while the board changes elsewhere.    *)
(*                                                                         *)
(* Every change claims the board in a transaction, so changes come one     *)
(* after another (Library); here each is one step.  Two changes may fall   *)
(* into the same millisecond.  Albums are numbers, for the comparison of   *)
(* their ids that breaks ties.                                             *)
(***************************************************************************)
EXTENDS OrderRules, SequencesExt

CONSTANTS Album,            \* numbers, compared as albumIds are
          Listen, AlbumOf,  \* diary listens, and their albums
          FirstBoards,      \* boards a behaviour may begin with
          MaxChanges        \* bound on the changes of a behaviour

BoardOrderAssumption ==
  Album \subseteq Nat /\ AlbumOf \in [Listen -> Album] /\ MaxChanges \in Nat /\ OrderLimit > 0

VARIABLES board,   \* saved and attached: the time each album was saved, each listen attached, or 0
          now,     \* milliseconds
          draft    \* the board page: what was read, and the order being made of it

orderVars == <<board, now, draft>>

Closed  == [open |-> FALSE, revision |-> 0, savedAt |-> <<>>, order |-> <<>>]
Least(S) == CHOOSE m \in S : \A n \in S : m <= n

(***************************************************************************)
(* Reading a board b                                                       *)
(***************************************************************************)
AttachTimes(b, a) == { b.attached[l] : l \in { k \in Listen : AlbumOf[k] = a } } \ {0}
Entries(b) == { a \in Album : b.saved[a] # 0 \/ AttachTimes(b, a) # {} }

\* An album saved on purpose has the time of that save, another one the time
\* its first listen was attached (collectionEntries).
SavedAt(b) == [a \in Entries(b) |-> IF b.saved[a] # 0 THEN b.saved[a] ELSE Least(AttachTimes(b, a))]

ByNewest(S, t) == SetToSortSeq(S, LAMBDA a, c : t[a] > t[c] \/ (t[a] = t[c] /\ a < c))
ByOldest(S, t) == SetToSortSeq(S, LAMBDA a, c : t[a] < t[c] \/ (t[a] = t[c] /\ a < c))

\* The stored order less the albums that left; it never repeats one.
BlockOf(b) == FirstN(Only(b.order, Entries(b)), OrderLimit)

Rest(b, S) == ByOldest(S, SavedAt(b))

OrderEntries(b) ==
  IF b.manual THEN BlockOf(b) \o Rest(b, Entries(b) \ Elements(BlockOf(b)))
  ELSE ByNewest(Entries(b), SavedAt(b))

(***************************************************************************)
(* Changing it                                                             *)
(***************************************************************************)
ShrunkOrder(b) == BlockOf(b)                  \* slip: no order takes in new albums
ReconciledOrder(b) ==
  IF Cardinality(Entries(b)) <= OrderLimit THEN OrderEntries(b) ELSE BlockOf(b)

\* claimBoard and syncOrder around a change of what is on the board.
Change(b) ==
  /\ board.revision < MaxChanges
  /\ board' = [b EXCEPT !.order = IF b.manual THEN ReconciledOrder(b) ELSE @, !.revision = @ + 1]
  /\ UNCHANGED draft

Clock == now' \in {now, now + 1}

SaveAlbum(a) ==
  /\ Clock
  /\ Change(IF board.saved[a] = 0 THEN [board EXCEPT !.saved[a] = now'] ELSE board)

RemoveAlbum(a) ==
  /\ Change([board EXCEPT !.saved[a] = 0,
                          !.attached = [l \in Listen |-> IF AlbumOf[l] = a THEN 0 ELSE @[l]]])
  /\ UNCHANGED now

Attach(l) ==
  /\ Clock
  /\ Change(IF board.attached[l] = 0 THEN [board EXCEPT !.attached[l] = now'] ELSE board)

\* A detach, or the deletion of the listen.
Detach(l) == Change([board EXCEPT !.attached[l] = 0]) /\ UNCHANGED now

CanSeed(b) == Cardinality(Entries(b)) <= OrderLimit
SeededOrder(b) == ByNewest(Entries(b), SavedAt(b))

\* nextSettings: what is asked for, or else what the board has; leaving manual
\* order also leaves the ranked display.
NextStyle(mode, style) ==
  IF style # "same" THEN style ELSE IF mode = "manual" THEN board.style ELSE "grid"

UpdateBoard(orderMode, displayStyle) ==
  LET mode == IF orderMode # "same" THEN orderMode ELSE IF board.manual THEN "manual" ELSE "added"
      style == NextStyle(mode, displayStyle)
  IN  /\ board.revision < MaxChanges
      /\ displayStyle = "ranked" => mode = "manual"
      /\ mode = "manual" /\ ~board.manual => CanSeed(board)
      /\ board' = [board EXCEPT !.manual = (mode = "manual"), !.style = style, !.revision = @ + 1,
                     !.order = IF mode # "manual" THEN <<>> ELSE IF board.manual THEN @ ELSE SeededOrder(board)]
      /\ UNCHANGED <<now, draft>>

(***************************************************************************)
(* The board page                                                          *)
(***************************************************************************)
OpenBoard ==
  /\ ~draft.open /\ board.manual
  /\ draft' = [open |-> TRUE, revision |-> board.revision, savedAt |-> SavedAt(board), order |-> OrderEntries(board)]
  /\ UNCHANGED <<board, now>>

Insert(seq, i, x) == SubSeq(seq, 1, i - 1) \o <<x>> \o SubSeq(seq, i, Len(seq))
MoveItem(seq, i, j) == Insert(Without(seq, seq[i]), j, seq[i])

NormalizeDraft(order, t) ==
  FirstN(order, OrderLimit) \o ByOldest(Elements(order) \ Elements(FirstN(order, OrderLimit)), t)

\* A drag or an arrow button; the page sorts what is past the limit.
MoveAlbum ==
  /\ draft.open
  /\ \E i, j \in DOMAIN draft.order :
       /\ i # j
       /\ draft' = [draft EXCEPT !.order = NormalizeDraft(MoveItem(@, i, j), draft.savedAt)]
  /\ UNCHANGED <<board, now>>

\* Only the ordered block is sent, with the revision that was read; a board
\* that moved on is read again instead, and the draft is gone.
SaveOrder ==
  LET albumIds == FirstN(draft.order, OrderLimit)
      expected == IF Cardinality(Entries(board)) < OrderLimit THEN Cardinality(Entries(board)) ELSE OrderLimit
  IN  /\ draft.open /\ board.revision < MaxChanges
      /\ IF /\ draft.revision = board.revision /\ board.manual
            /\ Len(albumIds) = expected /\ Elements(albumIds) \subseteq Entries(board)
         THEN board' = [board EXCEPT !.order = albumIds, !.revision = @ + 1]
         ELSE UNCHANGED board
      /\ draft' = Closed
      /\ UNCHANGED now

\* discardOrder, or the page is left.
Discard == draft.open /\ draft' = Closed /\ UNCHANGED <<board, now>>

(***************************************************************************)
(* The specification                                                       *)
(***************************************************************************)
OrderInit == board \in FirstBoards /\ now = MaxChanges /\ draft = Closed

OrderNext ==
  \/ \E a \in Album : SaveAlbum(a) \/ RemoveAlbum(a)
  \/ \E l \in Listen : Attach(l) \/ Detach(l)
  \/ \E mode \in {"same", "added", "manual"}, style \in {"same", "grid", "ranked"} : UpdateBoard(mode, style)
  \/ OpenBoard \/ MoveAlbum \/ SaveOrder \/ Discard

OrderSpec == OrderInit /\ [][OrderNext]_orderVars

(***************************************************************************)
(* Properties                                                              *)
(***************************************************************************)
\* The board has its type, its stored order keeps to the limit and repeats no
\* album, and a date-ordered board stores none.
BoardOrderTypeOK ==
  /\ board \in [saved: [Album -> Nat], attached: [Listen -> Nat], manual: BOOLEAN,
                style: {"grid", "ranked"}, order: Seq(Album), revision: 0..MaxChanges]
  /\ Injective(board.order) /\ Len(board.order) <= OrderLimit
  /\ ~board.manual => board.order = <<>>
  /\ now \in Nat /\ draft.order \in Seq(Album)

\* "A ranked board must be manual", after any sequence of settings
\* (nextSettings).
RankedIsManual == board.style = "ranked" => board.manual

Membership(b) == <<b.saved, b.attached>>
StaysManual == board.manual /\ board'.manual /\ Membership(board') # Membership(board)
Touched == { a \in Album : \/ board'.saved[a] # board.saved[a]
                           \/ AttachTimes(board', a) # AttachTimes(board, a) }

\* "A new album lands at the bottom and nothing visibly moves": through the
\* limit and back, saves and listens move no other album of a manual board,
\* and not even their own unless it is past the block (reconciledOrder).
NothingMoves ==
  [][ StaysManual =>
        LET stay == Entries(board) \cap Entries(board')
            fixed == IF Cardinality(Entries(board')) <= OrderLimit THEN stay
                     ELSE stay \ (Touched \ Elements(BlockOf(board)))
        IN  Only(OrderEntries(board'), fixed) = Only(OrderEntries(board), fixed) ]_orderVars

\* "A newly added album is therefore always last": also one that was on the
\* board before, and on a board past the limit, unless it shares its
\* millisecond with another (orderEntries, reconciledOrder).
NewAlbumIsLast ==
  [][ StaysManual =>
        \A a \in Entries(board') \ Entries(board) :
          \/ OrderEntries(board')[Cardinality(Entries(board'))] = a
          \/ /\ Cardinality(Entries(board')) > OrderLimit
             /\ \E c \in Entries(board) : SavedAt(board')[c] = SavedAt(board')[a] ]_orderVars

\* A switch to manual order changes nothing on screen (seededOrder).
SwitchKeepsTheDisplay ==
  [][ ~board.manual /\ board'.manual => OrderEntries(board') = OrderEntries(board) ]_orderVars

\* Library's membership changes allow the order that is really stored
\* (syncOrder against OrderRules).
OrderIsReconciled ==
  [][ StaysManual => board'.order \in ReconciledOrders(board.order, Entries(board')) ]_orderVars

\* "Keeps the draft identical to what a save will show": an order that is saved
\* is displayed exactly as the page had it (normalizeDraft, reorderBoard).
DraftIsWhatTheSaveShows ==
  [][ draft.open /\ ~draft'.open /\ board' # board => OrderEntries(board') = draft.order ]_orderVars
=============================================================================
