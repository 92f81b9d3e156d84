------------------------------- MODULE Paging -------------------------------
(* Lists that are read page by page while they change.  A cursor names the    *)
(* last row of a page by what the list is sorted by, and the next page is a   *)
(* query for what follows it.  Popular reviews are ranked by the likes of a   *)
(* snapshot and then read as they are (readPopularReviewPage); the top level  *)
(* of a comment thread hides what has nothing to show, and reads on to fill   *)
(* its page (readThread).                                                     *)
EXTENDS Integers, Sequences, FiniteSets, SequencesExt

CONSTANTS Item,        \* the rows, by the number that breaks ties
          Sort,        \* the lists
          Limit,       \* rows of a page
          FillRounds,  \* queries that a page of a thread may take
          FirstItems,  \* the rows that a reader may find
          Score,       \* ratings, likes, visible replies or diary dates
          MaxNow,      \* bound on time
          MaxWrites    \* bound on changes

PagingAssumption ==
  /\ Item \subseteq Nat /\ Score \subseteq Nat /\ {Limit, FillRounds} \subseteq Nat \ {0}
  /\ {MaxNow, MaxWrites} \subseteq Nat

VARIABLES now, writes,
          items,    \* each row: whether it is there, when it was made, its score,
                    \* whether it shows text, and whether its album exists
          frozen,   \* the rows when the walk began, or as its snapshot has them
          walk,     \* the reader
          touched   \* rows that moved, came or went since the walk began

pagingVars == <<now, writes, items, frozen, walk, touched>>

(***************************************************************************)
(* Order                                                                   *)
(***************************************************************************)
RecentKey(i, r)  == <<-r.date, -i>>
HighestKey(i, r) == <<-r.score, -r.date, -i>>
LowestKey(i, r)  == <<r.score, -r.date, -i>>
PopularKey(i, r) == <<-r.score, -r.date, -i>>
DiaryKey(i, r)   == <<-r.score, -r.date, -i>>
RankingKey(i, r) == <<-r.date, -i>>
NoticeKey(i, r)  == <<-r.date, -i>>
QueueKey(i, r)   == <<r.date, i>>
ThreadKey(i, r)  == <<r.date, i>>
Key(s, i, r) ==
  [recent |-> RecentKey(i, r), highest |-> HighestKey(i, r), lowest |-> LowestKey(i, r),
   popular |-> PopularKey(i, r), diary |-> DiaryKey(i, r), rankings |-> RankingKey(i, r),
   notices |-> NoticeKey(i, r), queue |-> QueueKey(i, r), thread |-> ThreadKey(i, r)][s]

\* k comes after c; a cursor that lost its tie break is shorter.
Follows(k, c) == \E n \in DOMAIN c : k[n] > c[n] /\ \A m \in 1..n - 1 : k[m] = c[m]
Beyond(k, c) == c = <<>> \/ Follows(k, c)

FirstOf(s, n) == SubSeq(s, 1, IF n < Len(s) THEN n ELSE Len(s))
\* At most n rows of from, in the order of the list, after the cursor.
Rows(s, from, cursor, n) ==
  FirstOf(SetToSortSeq({ i \in Item : from[i].live /\ from[i].album /\ Beyond(Key(s, i, from[i]), cursor) },
                       LAMBDA i, j : Follows(Key(s, j, from[j]), Key(s, i, from[i]))), n)

\* A cursor of rankings names the album; without it only the time is left.
CursorOf(s, cursor, at) ==
  IF s = "rankings" /\ cursor # <<>> /\ ~items[at].album THEN FirstOf(cursor, 1) ELSE cursor

(***************************************************************************)
(* Reading                                                                 *)
(***************************************************************************)
NoWalk == [sort |-> "none", pc |-> "idle"]
\* Rounds and page are of the page that is being read.
Walk(s) == [sort |-> s, pc |-> "read", cursor |-> <<>>, at |-> 0, shown |-> <<>>, page |-> <<>>, batch |-> <<>>,
            round |-> 0, last |-> FALSE]

Start(s) ==
  /\ walk = NoWalk /\ walk' = Walk(s) /\ touched' = {} /\ frozen' = items
  /\ UNCHANGED <<now, writes, items>>

\* The page is rows, cut to its limit; it is the last one unless more follows.
Ended(rows, more, table, at) ==
  LET page == FirstOf(rows, Limit)
  IN  [walk EXCEPT !.shown = @ \o page, !.page = <<>>, !.batch = <<>>, !.round = 0,
                   !.pc = IF more THEN "read" ELSE "done",
                   !.cursor = IF more THEN Key(walk.sort, at, table[at]) ELSE @, !.at = IF more THEN at ELSE @]

\* One query is a page.
Plain == Sort \ {"popular", "thread"}
ReadPage ==
  /\ walk.pc = "read" /\ walk.sort \in Plain
  /\ LET s    == walk.sort
         rows == Rows(s, items, CursorOf(s, walk.cursor, walk.at), Limit + 1)
         more == Len(rows) > Limit
     IN  walk' = Ended(rows, more, items, IF more THEN rows[Limit] ELSE 0)
  /\ UNCHANGED <<now, writes, items, frozen, touched>>

\* Popular reviews: ranked at the snapshot that the first page took ...
LikesNow(first)  == items                   \* slip: every page is ranked anew
LikesAsOf(first) == IF first THEN items ELSE frozen
RankPopular ==
  /\ walk.pc = "read" /\ walk.sort = "popular"
  /\ frozen' = LikesAsOf(walk.cursor = <<>> /\ walk.page = <<>>)
  /\ walk' = [walk EXCEPT !.pc = "ranked", !.batch = Rows("popular", frozen', walk.cursor, Limit + 1)]
  /\ UNCHANGED <<now, writes, items, touched>>
\* ... and read as they are now; what is gone is made up for by the next rows.
StillThere(batch) == SelectSeq(batch, LAMBDA i : items[i].live)
ResolvePopular ==
  /\ walk.pc = "ranked"
  /\ LET rows == FirstOf(walk.page \o StillThere(walk.batch), Limit + 1)
         more == Len(rows) > Limit
     IN  walk' = IF Len(walk.batch) <= Limit \/ more
                 THEN Ended(rows, more, frozen, IF more THEN rows[Limit] ELSE 0)
                 ELSE [walk EXCEPT !.pc = "read", !.page = rows, 
                                     !.cursor = Key("popular", Last(walk.batch), frozen[Last(walk.batch)])]
  /\ UNCHANGED <<now, writes, items, frozen, touched>>
\* The database no longer has the snapshot: the reader starts over.
ForgetSnapshot ==
  /\ walk.pc \in {"read", "ranked"} /\ walk.sort = "popular" /\ walk.shown # <<>>
  /\ walk' = NoWalk
  /\ UNCHANGED <<now, writes, items, frozen, touched>>

\* A thread: its next comments are read, one more than the page has room for ...
ReadRoots ==
  /\ walk.pc = "read" /\ walk.sort = "thread"
  /\ LET wanted == Limit - Len(walk.page)
         rows   == Rows("thread", items, walk.cursor, wanted + 1)
     IN  walk' = [walk EXCEPT !.pc = "roots", !.last = Len(rows) <= wanted,
                              !.batch = [ n \in DOMAIN FirstOf(rows, wanted) |-> [id |-> rows[n], text |-> items[rows[n]].text] ]]
  /\ UNCHANGED <<now, writes, items, frozen, touched>>
\* ... then their visible replies are counted, and what has neither is hidden.
Shown(batch) == SelectSeq(batch, LAMBDA b : b.text \/ items[b.id].score > 0)
CountReplies ==
  /\ walk.pc = "roots"
  /\ LET found == Shown(walk.batch)
         rows  == walk.page \o [ n \in DOMAIN found |-> found[n].id ]
         full  == Len(rows) >= Limit \/ walk.round + 1 = FillRounds
         at    == IF walk.batch = <<>> THEN 0 ELSE Last(walk.batch).id
     IN  walk' = IF walk.last \/ full THEN Ended(rows, ~walk.last, items, at)
                 ELSE [walk EXCEPT !.pc = "read", !.page = rows, !.round = @ + 1,
                                     !.cursor = Key("thread", at, items[at])]
  /\ UNCHANGED <<now, writes, items, frozen, touched>>

(***************************************************************************)
(* Changes                                                                 *)
(***************************************************************************)
Write == walk.pc # "done" /\ writes < MaxWrites /\ writes' = writes + 1 /\ UNCHANGED <<now, frozen, walk>>
Touch(i) == touched' = touched \cup {i}
Create(i) ==
  /\ items[i].date = 0 /\ Write
  /\ items' = [items EXCEPT ![i] = [live |-> TRUE, date |-> now, score |-> 0, text |-> TRUE, album |-> TRUE]]
  /\ Touch(i)
\* A comment that has replies keeps its place.
Delete(i) ==
  /\ items[i].live /\ Write /\ Touch(i)
  /\ items' = IF walk.sort = "thread" /\ items[i].score > 0 THEN [items EXCEPT ![i].text = FALSE]
              ELSE [items EXCEPT ![i].live = FALSE]
DeleteAlbum(i) ==
  /\ items[i].live /\ items[i].album /\ walk.sort \in {"diary", "rankings"} /\ Write
  /\ items' = [items EXCEPT ![i].album = FALSE] /\ Touch(i)
\* A rating, a diary date, a like, or a reply: a tombstone goes with its last one.
Rescore(i, n) ==
  /\ items[i].live /\ items[i].score # n /\ Write
  /\ walk.sort \in {"highest", "lowest", "diary", "popular", "thread"}
  /\ items' = IF walk.sort = "thread" /\ n = 0 /\ ~items[i].text THEN [items EXCEPT ![i].live = FALSE]
              ELSE [items EXCEPT ![i].score = n]
  /\ touched' = IF walk.sort = "popular" THEN touched ELSE touched \cup {i}
\* A ranking is saved again, or a suggestion revised: it moves to now.
Renew(i) ==
  /\ items[i].live /\ items[i].album /\ items[i].date < now /\ walk.sort \in {"rankings", "queue"} /\ Write
  /\ items' = [items EXCEPT ![i].date = now] /\ Touch(i)
Tick ==
  /\ now < MaxNow /\ now' = now + 1
  /\ UNCHANGED <<writes, items, frozen, walk, touched>>

PagingInit ==
  /\ now = 1 /\ writes = 0 /\ items \in FirstItems /\ frozen = items /\ walk = NoWalk /\ touched = {}

PagingNext ==
  \/ \E s \in Sort : Start(s)
  \/ ReadPage \/ RankPopular \/ ResolvePopular \/ ForgetSnapshot \/ ReadRoots \/ CountReplies
  \/ walk # NoWalk /\ (\/ Tick
                       \/ \E i \in Item : Create(i) \/ Delete(i) \/ DeleteAlbum(i) \/ Renew(i) \/ \E n \in Score : Rescore(i, n))

PagingSpec == PagingInit /\ [][PagingNext]_pagingVars

(***************************************************************************)
(* Properties                                                              *)
(***************************************************************************)
PagingTypeOK ==
  /\ now \in 1..MaxNow /\ writes \in 0..MaxWrites /\ touched \subseteq Item
  /\ items \in [Item -> [live : BOOLEAN, date : 0..MaxNow, score : Score, text : BOOLEAN, album : BOOLEAN]]
  /\ walk # NoWalk =>
       /\ walk.sort \in Sort /\ walk.pc \in {"read", "ranked", "roots", "done"}
       /\ walk.shown \in Seq(Item) /\ Len(walk.page) <= Limit /\ walk.round < FillRounds

TimesShown(i) == Cardinality({ n \in DOMAIN walk.shown : walk.shown[n] = i })
Showable(i) == items[i].live /\ items[i].album /\ (walk.sort = "thread" => items[i].text \/ items[i].score > 0)
\* "which can skip only rankings changed in the same millisecond" (decodeRankingCursor)
TiesWithDeleted(i) ==
  walk.sort = "rankings" /\ \E j \in Item : ~items[j].album /\ items[i].date \in {items[j].date, frozen[j].date}

\* Who reads a list to its end has seen everything that stayed where it was, once.
EverythingOnce ==
  walk.pc = "done" =>
    \A i \in Item \ touched : Showable(i) /\ ~TiesWithDeleted(i) => TimesShown(i) = 1
\* Nothing is shown twice, but what moved down the list by an edit.
NothingTwice ==
  walk # NoWalk => \A i \in Item : TimesShown(i) > 1 => i \in touched /\ walk.sort \in {"highest", "lowest", "diary", "queue"}
\* What stayed where it was is shown in the order of the list, for popular
\* reviews in the order of the snapshot.
InOrder ==
  walk # NoWalk =>
    LET from == IF walk.sort = "popular" THEN frozen ELSE items
    IN  \A m, n \in DOMAIN walk.shown :
          m < n /\ {walk.shown[m], walk.shown[n]} \cap touched = {}
          => Follows(Key(walk.sort, walk.shown[n], from[walk.shown[n]]), Key(walk.sort, walk.shown[m], from[walk.shown[m]]))
\* "Never resurrect deleted reviews": what a page adds was there when it was read.
NoGhost ==
  walk # NoWalk /\ walk' # NoWalk /\ walk.sort # "thread" =>
    \A n \in DOMAIN walk'.shown \ DOMAIN walk.shown :
      items[walk'.shown[n]].live \/ walk'.shown[n] \in ToSet(walk.page)

\* Read page by page, a list is what it would be read at once.
ReadersMissNothing == EverythingOnce /\ NothingTwice /\ InOrder
=============================================================================
