----------------------------- MODULE MCCatalog -----------------------------
(* The ways in which the catalog changes: suggestions, and beside them, each  *)
(* an instance of its own, genres, reviews of an album's track list and       *)
(* mapping, and the operator's tools, the fetch of a dataset and its import.  *)
EXTENDS Suggestions, Sequences, TLC

CONSTANTS None, m1, m2, p1, s1, s2, t1, r1, g1, g2, n1, n2, n3, a1, e1, q1

VARIABLES part, docs, txs, commands, covers, kinds,           \* of the genres and the reviews
          albums, edits, run, files, outcome, settled, faults, \* of the import
          cache, fetch, artifacts, runs, outages, torn         \* of the fetch
moderationVars == <<docs, txs, commands, covers, kinds>>
importVars     == <<albums, edits, run, files, outcome, settled, faults>>
fetchVars      == <<cache, fetch, artifacts, runs, outages, torn>>
catalogVars    == <<part, suggestionVars, moderationVars, importVars, fetchVars>>

(* Two suggestions of one contributor and two moderators, with one external  *)
(* reference to collide about.                                               *)
MCSymmetry == Permutations(Moderator) \cup Permutations(Submission)

(* Two genres, of which an album has one and may have no more.               *)
Tagged == INSTANCE Genres WITH
  Client <- Moderator, Seeded <- {g1, g2}, Album <- {a1}, Suggestion <- {t1}, Name <- {n1, n2, n3},
  NameOf <- (g1 :> n1) @@ (g2 :> n2), GenresOf <- (a1 :> <<g1>>),
  MaxGenres <- 1, MaxRevision <- 2, MaxRequests <- 2,
  db <- docs, tx <- txs, requests <- commands

(* An album alone, an album with a mapping, and a suggestion of one.         *)
Scene(start, n, ks) == [start |-> start, requests |-> n, kinds |-> ks]
SomeScenes ==
  { Scene("album", 2, {"preview", "command", "queue", "correct"}),
    Scene("album", 2, {"preview", "command", "cover"}),
    Scene("album", 3, {"moderate", "discover", "capture"}),
    Scene("mapped", 3, {"command", "capture"}),
    Scene("mapped", 2, {"moderate", "capture"}),
    Scene("mapped", 0, {"capture", "cover"}),
    Scene("mapped", 3, {"moderate", "correct", "cover"}),
    Scene("mapped", 2, {"capture", "correct", "command"}),
    Scene("suggestion", 3, {"publish", "command", "preview", "correct"}) }
Reviewed == INSTANCE CatalogReviews WITH
  Client <- Moderator, Event <- {e1}, Request <- {q1}, MaxRevision <- 3, Scenes <- SomeScenes,
  db <- docs, tx <- txs, requests <- commands

(* Two albums of which one dataset knows an earlier release than the other.   *)
Row(g, r, title, cover) == [group |-> g, release |-> r, title |-> title, cover |-> cover]
SomeDatasets == [early |-> <<Row("g1", "r1", "t1", "r1"), Row("g2", None, "t1", None)>>,
                 late  |-> <<Row("g1", "r2", "t2", None), Row("g2", "r1", "t2", "r1")>>]
FirstImport(i) == [a \in {1} |-> [dataset |-> "early", row |-> SomeDatasets.early[i]]]
Taken == INSTANCE CatalogImport WITH
  Album <- {1, 2, 3}, Group <- {"g1", "g2"}, Release <- {"r1", "r2"}, Custom <- "custom", Datasets <- SomeDatasets,
  FirstCatalogs <- { <<>>, FirstImport(1), FirstImport(2) }, MaxRuns <- 2, MaxEdits <- 1, MaxFaults <- 2

(* Two rankings that overlap, with limits and quotas to reach, and albums of  *)
(* one artist.                                                                *)
Entry(g, r, image) == [group |-> g, release |-> r, image |-> image]
Entries == { Entry("g1", "r1", FALSE), Entry("g1", "r2", TRUE), Entry("g2", "r3", TRUE), Entry(None, None, FALSE) }
SomeRankings ==
  [all  |-> { <<x, y, z>> : x \in Entries, y \in Entries, z \in { Entry("g3", None, FALSE), Entry("g2", "r3", TRUE) } },
   year |-> { <<Entry("g1", "r2", TRUE), Entry("g3", None, FALSE), Entry("g2", "r3", TRUE)>>,
              <<Entry("g2", "r3", TRUE), Entry("g4", None, FALSE), Entry("g3", None, FALSE)>> }]
Fetched == INSTANCE CatalogFetch WITH
  Configs <- <<[range |-> "all", quota |-> 2, limit |-> 2], [range |-> "year", quota |-> 1, limit |-> 2]>>,
  RankingsOf <- SomeRankings, Group <- {"g1", "g2", "g3", "g4"},
  ArtistOf <- [g1 |-> "x", g2 |-> "y", g3 |-> "x", g4 |-> "z"],
  MaxPerPrimaryArtist <- 1, Retries <- 1, MaxRuns <- 2, MaxFaults <- 2

ASSUME CatalogAssumption ==
  /\ Tagged!GenresAssumption /\ Reviewed!CatalogReviewsAssumption
  /\ Taken!CatalogImportAssumption /\ Fetched!CatalogFetchAssumption

NoModeration == docs = {} /\ txs = {} /\ commands = 0 /\ covers = {} /\ kinds = {}
NoImport     == albums = <<>> /\ edits = 0 /\ run = <<>> /\ files = <<>> /\ outcome = <<>> /\ settled = {} /\ faults = 0
NoFetch      == cache = {} /\ fetch = <<>> /\ artifacts = <<>> /\ runs = 0 /\ outages = 0 /\ torn = FALSE

CatalogInit ==
  /\ SuggestionsInit
  /\ \/ part = "suggestions" /\ NoModeration /\ NoImport /\ NoFetch
     \/ part = "genres"  /\ Tagged!GenresInit /\ covers = {} /\ kinds = {} /\ NoImport /\ NoFetch
     \/ part = "reviews" /\ Reviewed!ReviewsInit /\ NoImport /\ NoFetch
     \/ part = "import"  /\ Taken!ImportInit /\ NoModeration /\ NoFetch
     \/ part = "fetch"   /\ Fetched!FetchInit /\ NoModeration /\ NoImport
SuggestionsStep == part = "suggestions" /\ SuggestionsNext /\ UNCHANGED <<part, moderationVars, importVars, fetchVars>>
GenresStep  == part = "genres"  /\ Tagged!GenresNext /\ UNCHANGED <<part, suggestionVars, covers, kinds, importVars, fetchVars>>
ReviewsStep == part = "reviews" /\ Reviewed!ReviewsNext /\ UNCHANGED <<part, suggestionVars, importVars, fetchVars>>
ImportStep  == part = "import" /\ Taken!ImportNext /\ UNCHANGED <<part, suggestionVars, moderationVars, fetchVars>>
FetchStep   == part = "fetch" /\ Fetched!FetchNext /\ UNCHANGED <<part, suggestionVars, moderationVars, importVars>>
CatalogNext == SuggestionsStep \/ GenresStep \/ ReviewsStep \/ ImportStep \/ FetchStep
CatalogSpec == CatalogInit /\ [][CatalogNext]_catalogVars

(* The properties, which their modules state; of the suggestions,             *)
(* CatalogKeepsItsWord, ContributorsAreTold and DecisionsAreInformed.         *)
CatalogTypeOK ==
  /\ part = "suggestions" => SuggestionsTypeOK
  /\ part = "genres"      => Tagged!GenresTypeOK
  /\ part = "reviews"     => Reviewed!CatalogReviewsTypeOK
  /\ part = "import"      => Taken!ImportTypeOK
  /\ part = "fetch"       => Fetched!FetchTypeOK
\* Albums and suggestions fit the vocabulary, whose revisions tell every change.
AlbumsFitTheirGenres ==
  part = "genres" =>
    Tagged!AlbumsFitTheirGenres /\ Tagged!OneOpenSuggestion /\ Tagged!RevisionsTellVocabularyChanges
\* What is in use was reviewed, but for mappings whose approval the code compares with no
\* revision, and scrobbles follow it.
InUseMeansReviewed == part = "reviews" => Reviewed!InUseMeansReviewed /\ Reviewed!ScrobblesFollowTheMapping
\* What a tool leaves, wherever it fails: a catalog whose references have one owner,
\* a dataset that the importer accepts and whose files belong together, and reports
\* that say what was done.
ToolsTellTheTruth ==
  /\ part = "import" => Taken!CatalogHolds /\ Taken!ReportsAreTrue /\ Taken!RerunChangesNothing
  /\ part = "fetch"  => Fetched!GeneratedIsValid /\ Fetched!RankedFirst /\ Fetched!PublishedWhole
\* And what an import leaves alone: the fields that users own.
UsersKeepWhatTheyOwn == [][part = "import" => Taken!LeavesUsersFields]_catalogVars
=============================================================================
