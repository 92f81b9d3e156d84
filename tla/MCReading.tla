----------------------------- MODULE MCReading -----------------------------
(* What users write to each other, and how it is read while it changes, an    *)
(* instance of each: reviews and comments, the ranked feeds, lists read page  *)
(* by page, the notifications page, and the migration that gives old reviews  *)
(* an identity.                                                               *)
EXTENDS MCReviews, ReviewIdMigration

CONSTANTS f1, f2, missing, null, invalid

VARIABLES part,
          now, deleted, loads, entries, call,                            \* of the feeds
          clock, listWrites, items, frozen, walk, touched,               \* of the lists
          notes, rows, cursor, generation, session, loading, loadingMore, updating, inFlight, log \* of the page
feedVars == <<now, deleted, loads, entries, call>>
listVars == <<clock, listWrites, items, frozen, walk, touched>>
pageVars == <<notes, rows, cursor, generation, session, loading, loadingMore, updating, inFlight, log>>

(* Two feeds of a page of one among four albums, and room for one ranking.    *)
Feeds == INSTANCE SiteFeeds WITH
  Caller <- Client, Feed <- {f1, f2}, SizeOf <- (f1 :> 1) @@ (f2 :> 1), Album <- {1, 2, 3, 4}, Ranking <- <<1, 2, 3, 4>>,
  Ttl <- 1, MaxKeys <- 1, Slack <- 1, Growth <- 2, MaxLoads <- 3, MaxNow <- 1, MaxDeletions <- 2

(* Three rows that are there, one without text, and one that is still to come. *)
Row(live, date, score, text) == [live |-> live, date |-> date, score |-> score, text |-> text, album |-> TRUE]
SomeRows ==
  { <<Row(TRUE, 1, 1, TRUE), Row(TRUE, 1, 1, TRUE), Row(TRUE, 1, 0, FALSE), Row(FALSE, 0, 0, TRUE)>>,
    <<Row(TRUE, 1, 0, TRUE), Row(TRUE, 1, 0, TRUE), Row(TRUE, 1, 0, TRUE), Row(TRUE, 1, 1, TRUE)>>,
    <<Row(TRUE, 1, 1, FALSE), Row(TRUE, 1, 0, FALSE), Row(TRUE, 1, 0, FALSE), Row(TRUE, 1, 0, TRUE)>> }
AllSorts == {"recent", "highest", "lowest", "popular", "diary", "rankings", "notices", "queue", "thread"}
Lists == INSTANCE Paging WITH
  Item <- 1..4, Sort <- AllSorts, Limit <- 2, FillRounds <- 2, FirstItems <- SomeRows, Score <- 0..2, MaxNow <- 2, MaxWrites <- 2,
  now <- clock, writes <- listWrites

Notices == INSTANCE NotificationPage WITH
  MaxNotes <- 3, FirstNotes <- 2, PageSize <- 1, MaxRequests <- 4, sent <- inFlight

(* Two reviews, whose plan is blocked if their identities are alike, or not   *)
(* identities; two operators, and batches of one.                             *)
SomeReviews == { <<missing, null>>, <<missing, 1>>, <<1, 1>>, <<null, invalid>> }

ASSUME ReadingAssumption ==
  /\ Feeds!SiteFeedsAssumption /\ Lists!PagingAssumption /\ Notices!NotificationPageAssumption

NoReviews == ReviewsInit /\ db = NewSite
NoLists   == clock = 0 /\ listWrites = 0 /\ items = <<>> /\ frozen = <<>> /\ walk = Lists!NoWalk /\ touched = {}
NoIdentities ==
  /\ reviews = <<>> /\ unique = FALSE /\ minted = Given /\ plans = <<>> /\ progress = <<>> /\ run = [o \in Operator |-> NoRun]
  /\ told = [how |-> "nothing", wrote |-> FALSE, plan |-> 0, lost |-> FALSE] /\ runs = 0 /\ writes = 0 /\ faults = 0
ReadingInit ==
  /\ Feeds!FeedsInit /\ Notices!PageInit
  /\ \/ part = "reviews" /\ ReviewsInit /\ NoLists /\ NoIdentities
     \/ part \in {"feeds", "notices"} /\ NoReviews /\ NoLists /\ NoIdentities
     \/ part = "lists" /\ NoReviews /\ Lists!PagingInit /\ NoIdentities
     \/ part = "identities" /\ NoReviews /\ NoLists /\ MigrationInit

ReviewsStep == part = "reviews" /\ ReviewsNext /\ UNCHANGED <<part, feedVars, listVars, pageVars, migrationVars>>
FeedsStep   == part = "feeds" /\ Feeds!FeedsNext /\ UNCHANGED <<part, revVars, listVars, pageVars, migrationVars>>
ListsStep   == part = "lists" /\ Lists!PagingNext /\ UNCHANGED <<part, revVars, feedVars, pageVars, migrationVars>>
NoticesStep == part = "notices" /\ Notices!PageNext /\ UNCHANGED <<part, revVars, feedVars, listVars, migrationVars>>
IdentityStep == part = "identities" /\ MigrationNext /\ UNCHANGED <<part, revVars, feedVars, listVars, pageVars>>
ReadingNext == ReviewsStep \/ FeedsStep \/ ListsStep \/ NoticesStep \/ IdentityStep
ReadingSpec == ReadingInit /\ [][ReadingNext]_<<part, revVars, feedVars, listVars, pageVars, migrationVars>>

(* The properties, which the modules state; of the reviews, NothingDangles,  *)
(* AccountsLeaveNothing and SettledOnce, which hold of a new site as well.   *)
ReadingTypeOK ==
  /\ part = "reviews" => ReviewsTypeOK
  /\ part = "feeds"   => Feeds!FeedsTypeOK
  /\ part = "lists"   => Lists!PagingTypeOK
  /\ part = "notices" => Notices!PageTypeOK
  /\ part = "identities" => MigrationTypeOK
\* Feeds, lists and the page show what is there, once.
ReadersMissNothing ==
  /\ part = "feeds"   => Feeds!FeedsKeepTheirWord
  /\ part = "lists"   => Lists!ReadersMissNothing
  /\ part = "notices" => Notices!PageKeepsUp
\* What was deleted is not shown again, nor what was cleared, unless by a first page that
\* was asked for while the clear was in flight and arrives after it: that one does restore
\* cleared rows, against the comment at Notifications.jsx:342-343.
NothingDeletedIsShown ==
  [][/\ part = "lists" => Lists!NoGhost
     /\ part = "notices" => Notices!ClearedStaysAway]_<<listVars, pageVars>>
=============================================================================
