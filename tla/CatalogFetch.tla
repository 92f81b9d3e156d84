----------------------------- MODULE CatalogFetch -----------------------------
(* The operator's fetch of a dataset: rankings from ListenBrainz, their albums *)
(* from MusicBrainz one by one, a selection by quotas, and three files that    *)
(* are put in place so that the dataset comes last.                            *)
EXTENDS Naturals, Sequences, FiniteSets, SequencesExt

CONSTANTS Configs,        \* the ranges, in order: [range, quota, limit]
          RankingsOf,     \* range -> rankings it may have: sequences of [group, release, image]
          Group, ArtistOf, \* release groups, and the first artist of each
          None,           \* no release; a group that is no identifier
          MaxPerPrimaryArtist, Retries,
          MaxRuns, MaxFaults \* bounds

CatalogFetchAssumption ==
  /\ {MaxPerPrimaryArtist, Retries, MaxRuns, MaxFaults} \subseteq Nat
  /\ \A i \in DOMAIN Configs : Configs[i].quota \in 0..Configs[i].limit

VARIABLES cache,    \* release groups that are on disk, from this run or an earlier one
          fetch,    \* the process
          artifacts, \* each file: the run that wrote it, 0 if there is none
          runs, outages,
          torn      \* bookkeeping: some run died, or could not undo what it had put in place

fetchVars == <<cache, fetch, artifacts, runs, outages, torn>>

(***************************************************************************)
(* Candidates                                                              *)
(***************************************************************************)
\* Of every range the rows up to its limit; an album's first image is its cover.
RowsOf(config, ranking) == SubSeq(ranking, 1, IF config.limit < Len(ranking) THEN config.limit ELSE Len(ranking))
RangeOrder(i) ==
  FoldLeft(LAMBDA order, row : IF row.group \in {None} \cup ToSet(order) THEN order ELSE Append(order, row.group),
           <<>>, RowsOf(Configs[i], fetch.rankings[i]))
EntriesOf(group) ==
  FlattenSeq([i \in DOMAIN Configs |->
                SelectSeq(RowsOf(Configs[i], fetch.rankings[i]), LAMBDA row : row.group = group)])
Signals(group) ==
  UNION { { [range |-> Configs[i].range, rank |-> k] :
              k \in { j \in DOMAIN RowsOf(Configs[i], fetch.rankings[i]) : fetch.rankings[i][j].group = group } } :
          i \in DOMAIN Configs }
FirstRelease(rows) == IF rows = <<>> THEN None ELSE Head(rows).release

MapReleaseGroup(group, range) ==
  LET named == SelectSeq(EntriesOf(group), LAMBDA row : row.release # None)
      cover == FirstRelease(SelectSeq(named, LAMBDA row : row.image))
  IN  [group |-> group, range |-> range, artist |-> ArtistOf[group], signals |-> Signals(group), cover |-> cover,
       release |-> IF cover # None THEN cover ELSE FirstRelease(named)]

ValidAlbumRow(row) ==
  /\ row.range \in { s.range : s \in row.signals }
  /\ row.cover # None => row.cover = row.release

(***************************************************************************)
(* Selection                                                               *)
(***************************************************************************)
NoFetch   == [pc |-> "idle"]
SelectedIn(range) == SelectSeq(fetch.selected, LAMBDA row : row.range = range)
Taken     == { row.group : row \in ToSet(fetch.selected) }
Waiting   == SelectSeq(RangeOrder(fetch.at), LAMBDA g : g \notin Taken \cup fetch.terminal)
RangeDone == Len(SelectedIn(Configs[fetch.at].range)) >= Configs[fetch.at].quota \/ Waiting = <<>>
Outage    == outages < MaxFaults /\ outages' = outages + 1
Capped(n) == n >= MaxPerPrimaryArtist

Begin ==
  /\ fetch = NoFetch /\ runs < MaxRuns /\ runs' = runs + 1
  /\ fetch' = [pc |-> "ranges", at |-> 1, attempt |-> 0, rankings |-> <<>>, selected |-> <<>>, terminal |-> {},
               staged |-> artifacts, placed |-> <<>>]
  /\ UNCHANGED <<cache, artifacts, outages, torn>>

\* A request is tried again unless its answer is final; each range is asked in turn.
FetchRange ==
  /\ fetch.pc = "ranges"
  /\ \/ \E ranking \in RankingsOf[Configs[fetch.at].range] :
          /\ fetch' = [fetch EXCEPT !.rankings = Append(@, ranking), !.attempt = 0,
                                    !.pc = IF fetch.at = Len(Configs) THEN "select" ELSE "ranges",
                                    !.at = IF fetch.at = Len(Configs) THEN 1 ELSE @ + 1]
          /\ UNCHANGED outages
     \/ Outage /\ fetch' = [fetch EXCEPT !.pc = "report"]
     \/ Outage /\ fetch' = IF fetch.attempt = Retries THEN [fetch EXCEPT !.pc = "report"] ELSE [fetch EXCEPT !.attempt = @ + 1]
  /\ UNCHANGED <<cache, artifacts, runs, torn>>

\* An album that is hydrated is selected, unless its row is not valid or its artist
\* has enough.
Reject(g) == [fetch EXCEPT !.terminal = @ \cup {g}, !.attempt = 0]
Choose(g) ==
  LET row == MapReleaseGroup(g, Configs[fetch.at].range)
  IN  IF ~ValidAlbumRow(row) \/ Capped(Len(SelectSeq(fetch.selected, LAMBDA r : r.artist = row.artist))) THEN Reject(g)
      ELSE [fetch EXCEPT !.selected = Append(@, row), !.attempt = 0]
HydrateReleaseGroup ==
  /\ fetch.pc = "select" /\ fetch.at <= Len(Configs) /\ ~RangeDone
  /\ LET g == Head(Waiting)
     IN  \/ g \in cache /\ fetch' = Choose(g) /\ UNCHANGED <<cache, outages>>
         \/ g \notin cache /\ fetch' = Choose(g) /\ cache' = cache \cup {g} /\ UNCHANGED outages
         \/ g \notin cache /\ Outage /\ fetch' = Reject(g) /\ UNCHANGED cache
         \/ g \notin cache /\ Outage /\ UNCHANGED cache
            /\ fetch' = IF fetch.attempt = Retries THEN Reject(g) ELSE [fetch EXCEPT !.attempt = @ + 1]
  /\ UNCHANGED <<artifacts, runs, torn>>
NextRange ==
  /\ fetch.pc = "select" /\ fetch.at <= Len(Configs) /\ RangeDone
  /\ fetch' = [fetch EXCEPT !.at = @ + 1]
  /\ UNCHANGED <<cache, artifacts, runs, outages, torn>>

(***************************************************************************)
(* Validation, which the importer repeats                                  *)
(***************************************************************************)
RankWithinLimit(row) == \A s \in row.signals : \A i \in DOMAIN Configs : Configs[i].range = s.range => s.rank <= Configs[i].limit
AcceptedRows(rows) ==
  FoldLeft(LAMBDA accepted, row :
             IF /\ ValidAlbumRow(row) /\ RankWithinLimit(row)
                /\ \A r \in ToSet(accepted) : r.group # row.group
                /\ Len(SelectSeq(accepted, LAMBDA r : r.artist = row.artist)) < MaxPerPrimaryArtist
                /\ \E i \in DOMAIN Configs :
                     Configs[i].range = row.range /\ Len(SelectSeq(accepted, LAMBDA r : r.range = row.range)) < Configs[i].quota
             THEN Append(accepted, row) ELSE accepted,
           <<>>, rows)
QuotasFilled == \A i \in DOMAIN Configs : Len(SelectedIn(Configs[i].range)) = Configs[i].quota
Complete ==
  /\ fetch.pc = "select" /\ fetch.at > Len(Configs)
  /\ fetch' = [fetch EXCEPT !.pc = IF QuotasFilled /\ AcceptedRows(fetch.selected) = fetch.selected THEN "stage" ELSE "report"]
  /\ UNCHANGED <<cache, artifacts, runs, outages, torn>>

\* A fetch that failed leaves its report.
WriteFetchReport ==
  /\ fetch.pc = "report" /\ fetch' = NoFetch
  /\ \/ artifacts' = [artifacts EXCEPT !.report = runs] /\ UNCHANGED outages
     \/ Outage /\ UNCHANGED artifacts
  /\ UNCHANGED <<cache, runs, torn>>

(***************************************************************************)
(* Publication                                                             *)
(***************************************************************************)
Destinations == <<"report", "checksum", "dataset">>
\* All three are written aside, and what they replace is copied.
StageArtifacts ==
  /\ fetch.pc = "stage"
  /\ \/ fetch' = [fetch EXCEPT !.pc = "publish", !.staged = artifacts] /\ UNCHANGED outages
     \/ Outage /\ fetch' = NoFetch
  /\ UNCHANGED <<cache, artifacts, runs, torn>>
Publish ==
  /\ fetch.pc = "publish"
  /\ LET f == Destinations[Len(fetch.placed) + 1]
     IN  \/ /\ artifacts' = [artifacts EXCEPT ![f] = runs] /\ UNCHANGED outages
            /\ fetch' = IF Len(fetch.placed) = 2 THEN NoFetch ELSE [fetch EXCEPT !.placed = Append(@, f)]
         \/ Outage /\ fetch' = [fetch EXCEPT !.pc = "rollback"] /\ UNCHANGED artifacts
  /\ UNCHANGED <<cache, runs, torn>>
\* What was put in place is put back, last first, and one failure does not end it.
Rollback ==
  /\ fetch.pc = "rollback"
  /\ IF fetch.placed = <<>> THEN fetch' = NoFetch /\ UNCHANGED <<artifacts, outages, torn>>
     ELSE LET f == Last(fetch.placed)
          IN  /\ fetch' = [fetch EXCEPT !.placed = Front(@)]
              /\ \/ artifacts' = [artifacts EXCEPT ![f] = fetch.staged[f]] /\ UNCHANGED <<outages, torn>>
                 \/ Outage /\ torn' = TRUE /\ UNCHANGED artifacts
  /\ UNCHANGED <<cache, runs>>
Crash == fetch # NoFetch /\ Outage /\ fetch' = NoFetch /\ torn' = TRUE /\ UNCHANGED <<cache, artifacts, runs>>

FetchInit ==
  /\ cache = {} /\ fetch = NoFetch /\ runs = 0 /\ outages = 0 /\ torn = FALSE
  /\ artifacts = [f \in ToSet(Destinations) |-> 0]
FetchNext ==
  \/ Begin \/ FetchRange \/ HydrateReleaseGroup \/ NextRange \/ Complete \/ WriteFetchReport
  \/ StageArtifacts \/ Publish \/ Rollback \/ Crash
FetchSpec == FetchInit /\ [][FetchNext]_fetchVars

(***************************************************************************)
(* Properties                                                              *)
(***************************************************************************)
\* Whatever the rankings and however they overlap, the selection that fills the
\* quotas is one that the validator, which counts on its own, accepts row by row.
GeneratedIsValid ==
  fetch.pc = "select" /\ fetch.at > Len(Configs) => AcceptedRows(fetch.selected) = fetch.selected

\* A range is filled in the order of its ranking: an album that ranks higher than
\* one that was selected for the range is selected too, or was refused.
RankedFirst ==
  fetch.pc \in {"select", "stage"} =>
    \A i \in DOMAIN Configs : \A row \in ToSet(SelectedIn(Configs[i].range)) :
      LET order == RangeOrder(i) IN
        \E k \in DOMAIN order : order[k] = row.group /\ \A j \in 1..k : order[j] \in Taken \cup fetch.terminal

\* The dataset marks the commit: the sidecars of its run were there before it. And
\* unless a run died, or failed to undo, the checksum is the dataset's.
PublishedWhole ==
  /\ artifacts.report >= artifacts.dataset /\ artifacts.checksum >= artifacts.dataset
  /\ fetch = NoFetch /\ ~torn => artifacts.checksum = artifacts.dataset

\* Type invariant.
FetchTypeOK ==
  /\ cache \subseteq Group /\ runs \in 0..MaxRuns /\ outages \in 0..MaxFaults /\ torn \in BOOLEAN
  /\ artifacts \in [ToSet(Destinations) -> 0..MaxRuns]
  /\ fetch = NoFetch \/ (fetch.attempt \in 0..Retries /\ fetch.at \in 1..(Len(Configs) + 1) /\ fetch.terminal \subseteq Group)
=============================================================================
