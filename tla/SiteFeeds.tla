------------------------------ MODULE SiteFeeds ------------------------------
(* The site-wide feeds, which one process ranks for everybody and keeps for a *)
(* while (routes/utils/feedCache.js, reviewFeeds.js).  Every call for a feed  *)
(* joins the ranking under way or still fresh; a ranking reads windows of     *)
(* growing size, each a query of its own, until it has as many current albums *)
(* as it wants; and a page is cut from it, per call, without what was deleted *)
(* since.  Feeds differ only in their page size here.                         *)
EXTENDS Naturals, Sequences, FiniteSets, SequencesExt

CONSTANTS Caller,       \* requests for a feed
          Feed,         \* keys of the cache
          SizeOf,       \* the page size of each feed
          Album,        \* what is ranked
          Ranking,      \* the albums, best first
          Ttl,          \* how long a ranking is shared
          MaxKeys,      \* how many rankings are kept
          Slack,        \* how many rows more than a page a ranking has
          Growth,       \* by which the window grows
          MaxLoads,     \* bound on rankings
          MaxNow,       \* bound on time
          MaxDeletions  \* bound on deletions

SiteFeedsAssumption ==
  /\ SizeOf \in [Feed -> Nat \ {0}] /\ {Ttl, MaxKeys, Growth} \subseteq Nat \ {0} /\ Growth > 1
  /\ Ranking \in Seq(Album) /\ IsInjective(Ranking)
  /\ {Slack, MaxLoads, MaxNow, MaxDeletions} \subseteq Nat

VARIABLES now,
          deleted,  \* the albums that the catalog lost
          loads,    \* the rankings that were ever started
          entries,  \* the cache: feeds with their ranking, in the order of insertion
          call      \* what each caller waits for

feedVars == <<now, deleted, loads, entries, call>>

Current(s) == SelectSeq(s, LAMBDA a : a \notin deleted)
FirstOf(s, n) == SubSeq(s, 1, IF n < Len(s) THEN n ELSE Len(s))
Wanted(f) == SizeOf[f] + Slack
NoCall    == [pc |-> "idle"]
Waiting   == { c \in Caller : call[c].pc = "waiting" }

(***************************************************************************)
(* The cache                                                               *)
(***************************************************************************)
Kept(f) == { i \in DOMAIN entries : entries[i].feed = f }
\* The ranking that a call for f joins, if it has not expired.
Fresh(f) == { i \in Kept(f) : entries[i].expires > now }
Without(f) == SelectSeq(entries, LAMBDA e : e.feed # f)
Newest(s) == SubSeq(s, IF Len(s) > MaxKeys THEN Len(s) - MaxKeys + 1 ELSE 1, Len(s))
\* A ranking that fails takes its own entry along, and no other.
Forget(l) == SelectSeq(entries, LAMBDA e : e.load # l)

Join(c, f) ==
  /\ c \notin Waiting
  /\ \E i \in Fresh(f) :
       call' = [call EXCEPT ![c] = [pc |-> "waiting", feed |-> f, load |-> entries[i].load, began |-> now]]
  /\ UNCHANGED <<now, deleted, loads, entries>>

StartLoad(c, f) ==
  /\ c \notin Waiting /\ Fresh(f) = {} /\ Len(loads) < MaxLoads
  /\ LET l == Len(loads) + 1
     IN  /\ loads' = Append(loads, [feed |-> f, state |-> "ranking", window |-> Wanted(f) + Slack, rows |-> <<>>,
                                    started |-> now, full |-> FALSE, lost |-> 0])
         /\ entries' = Newest(Append(Without(f), [feed |-> f, load |-> l, expires |-> now + Ttl]))
         /\ call' = [call EXCEPT ![c] = [pc |-> "waiting", feed |-> f, load |-> l, began |-> now]]
  /\ UNCHANGED <<now, deleted>>

(***************************************************************************)
(* A ranking                                                               *)
(***************************************************************************)
\* One query: the window is enough, or it is all there is, or it grows.
\* full and lost are bookkeeping: whether a page could be filled, and how many
\* albums were gone by then.
RankWindow(l) ==
  /\ loads[l].state = "ranking"
  /\ LET f == loads[l].feed
         rows == FirstOf(Ranking, loads[l].window)
         current == Current(rows)
     IN  loads' =
           IF Len(current) >= Wanted(f) \/ Len(rows) < loads[l].window
           THEN [loads EXCEPT ![l].state = "ranked", ![l].rows = FirstOf(current, Wanted(f)),
                              ![l].full = Len(Current(Ranking)) >= Wanted(f), ![l].lost = Cardinality(deleted)]
           ELSE [loads EXCEPT ![l].window = @ * Growth]
  /\ UNCHANGED <<now, deleted, entries, call>>

\* The query fails, for the callers who share it too.
FailLoad(l) ==
  /\ loads[l].state = "ranking"
  /\ loads' = [loads EXCEPT ![l].state = "failed"]
  /\ entries' = Forget(l)
  /\ call' = [c \in Caller |-> IF c \in Waiting /\ call[c].load = l THEN NoCall ELSE call[c]]
  /\ UNCHANGED <<now, deleted>>

\* The albums of the ranking are read again, and the page is cut.
Page(f, rows) == FirstOf(Current(rows), SizeOf[f])
Answer(c) ==
  /\ c \in Waiting /\ loads[call[c].load].state = "ranked"
  /\ call' = [call EXCEPT ![c] = [pc |-> "answered", feed |-> @.feed, load |-> @.load, began |-> @.began,
                                  page |-> Page(@.feed, loads[@.load].rows)]]
  /\ UNCHANGED <<now, deleted, loads, entries>>

(***************************************************************************)
(* The site                                                                *)
(***************************************************************************)
DeleteAlbum(a) ==
  /\ a \notin deleted /\ Cardinality(deleted) < MaxDeletions
  /\ deleted' = deleted \cup {a}
  /\ UNCHANGED <<now, loads, entries, call>>
Tick ==
  /\ now < MaxNow /\ now' = now + 1
  /\ UNCHANGED <<deleted, loads, entries, call>>

FeedsInit ==
  /\ now = 0 /\ deleted = {} /\ loads = <<>> /\ entries = <<>>
  /\ call = [c \in Caller |-> NoCall]

FeedsNext ==
  \/ \E c \in Caller : Answer(c) \/ \E f \in Feed : Join(c, f) \/ StartLoad(c, f)
  \/ \E l \in DOMAIN loads : RankWindow(l) \/ FailLoad(l)
  \/ \E a \in Album : DeleteAlbum(a)
  \/ Tick

FeedsSpec == FeedsInit /\ [][FeedsNext]_feedVars

(***************************************************************************)
(* Properties                                                              *)
(***************************************************************************)
FeedsTypeOK ==
  /\ now \in 0..MaxNow /\ deleted \subseteq Album
  /\ \A l \in DOMAIN loads : /\ loads[l].feed \in Feed /\ loads[l].started \in 0..MaxNow
                             /\ loads[l].state \in {"ranking", "ranked", "failed"}
                             /\ loads[l].rows \in Seq(Album)
  /\ Len(entries) <= MaxKeys
  /\ \A c \in Caller : call[c].pc \in {"idle", "waiting", "answered"}

\* Nobody is served, or waits for, a ranking of before the lifetime of a ranking
\* when the call came, nor for one that failed (get of feedCache.js: "Concurrent
\* requests for the same key share one in-flight ranking, and a failed ranking is
\* not cached").
RankingsAreRecent ==
  /\ \A c \in Caller : call[c].pc # "idle" =>
       /\ loads[call[c].load].started + Ttl > call[c].began
       /\ loads[call[c].load].state # "failed"
  /\ \A i \in DOMAIN entries : loads[entries[i].load].state # "failed"

\* What a feed ranks at once, it ranks once: of two rankings of one feed under way,
\* the older has expired or was pushed out of the cache.
OneRankingAtATime ==
  \A k, l \in DOMAIN loads :
    /\ k < l /\ loads[k].feed = loads[l].feed /\ {loads[k].state, loads[l].state} = {"ranking"}
    => \/ loads[l].started >= loads[k].started + Ttl
       \/ Cardinality({ f \in Feed : \E m \in k + 1..l - 1 : loads[m].feed = f } \ {loads[k].feed}) >= MaxKeys

\* "A catalog album or review deleted within the TTL is dropped without leaving the
\* page short": a page that could be filled when its feed was ranked is full while
\* no more than the slack was deleted since (cachedAlbumFeed, rankCurrent).
PagesStayFull ==
  \A c \in Caller : call[c].pc = "answered" =>
    LET load == loads[call[c].load]
    IN  /\ load.full /\ Cardinality(deleted) - load.lost <= Slack => Len(call[c].page) = SizeOf[call[c].feed]
        /\ IsInjective(call[c].page)

FeedsKeepTheirWord == RankingsAreRecent /\ OneRankingAtATime /\ PagesStayFull
=============================================================================
