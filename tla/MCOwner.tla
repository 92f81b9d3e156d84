------------------------------ MODULE MCOwner ------------------------------
(* What a user owns and several actors write, an instance of each: the diary  *)
(* and its detect passes (MCAutoDiary), the listen queue under concurrent     *)
(* requests and listens, and a board through its limit and back.              *)
EXTENDS MCAutoDiary, QueueProfiles

CONSTANTS a1, a2, a3, lost, c1, c2, l1, l2

VARIABLES part,
          profile, listens, call, work, view, sent,                  \* of the queue
          board, now, draft                                          \* of one board
queueVars == <<profile, listens, call, work, view, sent>>
boardVars == <<board, now, draft>>

MCSymmetry == Permutations(Caller)

(* An empty queue, a legacy album, a queue with an album the catalog lost,    *)
(* and a full one.                                                            *)
SomeProfiles ==
  { [queue |-> <<>>, rev |-> 0, legacy |-> {}], [queue |-> <<>>, rev |-> 0, legacy |-> {a1}],
    [queue |-> <<lost, a1>>, rev |-> 1, legacy |-> {}], [queue |-> <<a1, a2>>, rev |-> 1, legacy |-> {}] }
Queue == INSTANCE ListenQueue WITH Client <- {l1}, db <- profile, tx <- listens

(* A new board; a manual one with a listened album and a saved one; and one   *)
(* past its limit, whose block an earlier removal left short. Both listens    *)
(* are of the one album.                                                      *)
Empty == [saved |-> [a \in 1..4 |-> 0], attached |-> [l \in {l1, l2} |-> 0], manual |-> FALSE,
          style |-> "grid", order |-> <<>>, revision |-> 0]
SomeBoards ==
  { Empty,
    [Empty EXCEPT !.saved[2] = 1, !.attached[l1] = 1, !.manual = TRUE, !.order = <<2, 1>>],
    [Empty EXCEPT !.saved[4] = 1, !.saved[3] = 2, !.attached[l1] = 3, !.manual = TRUE, !.order = <<3>>] }
Arranged == INSTANCE BoardOrder WITH
  Album <- 1..4, Listen <- {l1, l2}, AlbumOf <- [l \in {l1, l2} |-> 1], FirstBoards <- SomeBoards,
  OrderLimit <- 2, MaxChanges <- 3

ASSUME OwnerAssumption == Arranged!BoardOrderAssumption

\* The part that moves starts as its module says, the others at one of its starts.
OwnerInit ==
  /\ DiaryInit /\ Queue!QueueInit /\ Arranged!OrderInit
  /\ part \in {"diary", "queue", "board"}
  /\ part # "diary" => kinds = {"switch", "entry"}
  /\ part # "queue" => profile.profile.queue = <<>> /\ profile.profile.legacy = {}
  /\ part # "board" => board = Empty
DiaryStep == part = "diary" /\ DiaryNext /\ UNCHANGED <<part, queueVars, boardVars>>
QueueStep == part = "queue" /\ Queue!QueueNext /\ UNCHANGED <<part, diaryVars, boardVars>>
BoardStep == part = "board" /\ Arranged!OrderNext /\ UNCHANGED <<part, diaryVars, queueVars>>
OwnerSpec == OwnerInit /\ [][DiaryStep \/ QueueStep \/ BoardStep]_<<part, diaryVars, queueVars, boardVars>>

(* The properties, which the modules state; of the diary, its own.            *)
OwnerTypeOK ==
  /\ DiaryTypeOK /\ Queue!QueueTypeOK /\ Queue!QueueIsBounded
  /\ Arranged!BoardOrderTypeOK /\ Arranged!RankedIsManual
\* Queue requests are served one at a time.
ServedInOneStep == Queue!ServedInOneStep
\* What a board shows moves only when its owner moves it, as the draft showed it, and Library allows what is stored.
BoardsStayPut ==
  /\ Arranged!NothingMoves /\ Arranged!NewAlbumIsLast /\ Arranged!DraftIsWhatTheSaveShows
  /\ Arranged!SwitchKeepsTheDisplay /\ Arranged!OrderIsReconciled
=============================================================================
