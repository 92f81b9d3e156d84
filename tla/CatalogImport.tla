---------------------------- MODULE CatalogImport ----------------------------
(* The operator's import of a dataset into the catalog: a plan made from what *)
(* the catalog was, one transaction and two reports, while corrections, genre *)
(* approvals, suggestions and the cover backfill change the same albums.      *)
EXTENDS Naturals, Sequences, FiniteSets, FiniteSetsExt, SequencesExt

CONSTANTS Album,         \* the catalog's documents, numbered
          Group,         \* release groups of MusicBrainz
          Release,       \* and releases
          Datasets,      \* name -> rows, each [group, release, title, cover]
          FirstCatalogs, \* album -> the [dataset, row] that it came from
          None,          \* no release, no cover
          Custom,        \* a cover of no release
          MaxRuns, MaxEdits, MaxFaults   \* bounds

CatalogImportAssumption ==
  /\ {MaxRuns, MaxEdits, MaxFaults} \subseteq Nat /\ Album \subseteq Nat /\ {None, Custom} \cap Release = {}
  /\ \A n \in DOMAIN Datasets : \A row \in ToSet(Datasets[n]) : row.cover \in {None, row.release}

VARIABLES albums,    \* each document, or Absent
          edits,     \* how many others made
          faults,
          run,       \* the importer's process
          files,     \* the two reports: which run they are of, and what they say
          outcome,   \* of each run: what became of its transaction
          settled    \* the dataset and rows that the last import took, if nothing was edited since

importVars == <<albums, edits, faults, run, files, outcome, settled>>

(***************************************************************************)
(* Albums and rows                                                         *)
(***************************************************************************)
\* A field is its value and who owns it (its provenance). The title stands for all
\* fields that are merged as it is: artists, type, release date. rep is the release
\* that the provenance of the references names, cover.release the cover's, and from
\* the dataset that provenance names.
Absent == [source |-> "none"]
Provenance(dataset)   == <<dataset>>
BuildCatalogInput(row, dataset) ==
  [source |-> "import", from |-> Provenance(dataset), rev |-> 1, stamp |-> 0, genres |-> 0,
   title  |-> [value |-> row.title, by |-> "import"],
   cover  |-> [value |-> row.cover, by |-> "import", release |-> row.cover],
   refs   |-> [groups |-> {row.group}, releases |-> {row.release} \ {None}, others |-> 0, by |-> "import"],
   rep    |-> row.release]

Catalog(as)   == { a \in Album : as[a] # Absent }
Keys(d)       == d.refs.groups \cup d.refs.releases
Owners(as, k) == { a \in Catalog(as) : k \in Keys(as[a]) }

RepresentativeRelease(d) ==
  LET named == SelectSeq(<<d.cover.release, d.rep, d.cover.value>>, LAMBDA r : r \in Release)
  IN  IF named = <<>> THEN None ELSE Head(named)

\* What users own stays, and so do references to other providers and genres. A cover
\* is not replaced by none, and one that stays keeps the reference to its release.
Merged(old, new, field) == IF old[field].by = "user" THEN old[field] ELSE new[field]
MergedRefs(old, new) == IF old.refs.by = "user" THEN old.refs ELSE [new.refs EXCEPT !.others = old.refs.others]
KeepRepresentative(old, d) ==
  LET release == RepresentativeRelease(old)
  IN  IF release \in old.refs.releases
      THEN [d EXCEPT !.refs.releases = @ \cup {release}, !.rep = release] ELSE d
MergeImportedCatalog(old, new) ==
  LET stays  == old.cover.value # None /\ new.cover.value = None
      merged == [new EXCEPT !.rev = old.rev, !.stamp = old.stamp, !.genres = old.genres,
                            !.title = Merged(old, new, "title"),
                            !.cover = IF stays THEN old.cover ELSE Merged(old, new, "cover"),
                            !.refs = MergedRefs(old, new), !.rep = IF old.refs.by = "user" THEN old.rep ELSE @]
  IN  IF stays \/ (old.cover.by = "user" /\ old.cover.value # None) THEN KeepRepresentative(old, merged) ELSE merged

CoverIsReferenced(d) ==
  d.cover.value # None /\ RepresentativeRelease(d) # None => RepresentativeRelease(d) \in d.refs.releases
AssertFinalDocumentSemantics(d, group) == group \in d.refs.groups /\ CoverIsReferenced(d)

(***************************************************************************)
(* Preflight                                                               *)
(***************************************************************************)
\* What is planned for a row, given the albums that were read and the references
\* that earlier rows claim.
Planned(as, row, dataset, claimed) ==
  LET owners   == Owners(as, row.group)
      target   == IF Cardinality(owners) = 1 THEN CHOOSE a \in owners : TRUE ELSE 0
      incoming == BuildCatalogInput(row, dataset)
      document == IF target = 0 THEN incoming ELSE MergeImportedCatalog(as[target], incoming)
      refused  == \/ Cardinality(owners) > 1
                  \/ target # 0 /\ as[target].source # "import"
                  \/ ~AssertFinalDocumentSemantics(document, row.group)
                  \/ \E k \in Keys(document) : Owners(as, k) \ {target} # {}
                  \/ Keys(document) \cap claimed # {}
  IN  [row |-> row, target |-> target, document |-> document,
       action |-> CASE refused    -> "quarantined"
                    [] target = 0 -> "inserted"
                    [] OTHER      -> IF document = as[target] THEN "unchanged" ELSE "refreshed",
       rev   |-> IF target = 0 THEN 0 ELSE as[target].rev,
       stamp |-> IF target = 0 THEN 0 ELSE as[target].stamp]
Accepted(plan) == { p \in ToSet(plan) : p.action # "quarantined" }
PreflightImport(as, dataset) ==
  FoldLeft(LAMBDA plan, row : Append(plan, Planned(as, row, dataset, UNION { Keys(p.document) : p \in Accepted(plan) })),
           <<>>, Datasets[dataset])

(***************************************************************************)
(* The transaction                                                         *)
(***************************************************************************)
\* A refresh must find the album that was planned with, and no reference gets a
\* second owner.
AnyAlbum(as, p)          == as[p.target].source = "import"     \* slip: the album is found by its id alone
ConcurrencyFilter(as, p) == as[p.target].source = "import" /\ as[p.target].rev = p.rev /\ as[p.target].stamp = p.stamp
Operations(plan) == SelectSeq(plan, LAMBDA p : p.action \in {"inserted", "refreshed"})
\* A refresh sets what the dataset tells and leaves the genres alone.
BulkWrite(as, plan) ==
  FoldLeft(LAMBDA now, p :
             IF p.action = "inserted" THEN [now EXCEPT ![Min(Album \ Catalog(now))] = p.document]
             ELSE [now EXCEPT ![p.target] = [p.document EXCEPT !.rev = now[p.target].rev + 1,
                                               !.stamp = now[p.target].stamp + 1, !.genres = now[p.target].genres]],
           as, Operations(plan))
UniqueReferences(as) == \A a, b \in Catalog(as) : a # b => Keys(as[a]) \cap Keys(as[b]) = {}

(***************************************************************************)
(* A run of the importer                                                   *)
(***************************************************************************)
NoRun   == [pc |-> "idle"]
Reports == {"report", "quarantine"}
Nothing == [dataset |-> "none", rows |-> {}]
Number  == Len(outcome)
Fault   == faults < MaxFaults /\ faults' = faults + 1
Goes(pc) == run' = [run EXCEPT !.pc = pc, !.renamed = {}, !.failed = {}]

ReadDataset(dataset, apply) ==
  /\ run = NoRun /\ Len(outcome) < MaxRuns
  /\ outcome' = Append(outcome, "none")
  /\ run' = [pc |-> "find", dataset |-> dataset, apply |-> apply, keys |-> {}, plan |-> <<>>, edits |-> 0,
             staged |-> "none", renamed |-> {}, failed |-> {}]
  /\ UNCHANGED <<albums, edits, faults, files, settled>>

\* Two queries: the albums with a reference of a row, and then those with a
\* reference of one of these. The plan is made from the second.
FindOwners ==
  /\ run.pc = "find"
  /\ LET asked == UNION { {row.group, row.release} \ {None} : row \in ToSet(Datasets[run.dataset]) }
         found == UNION { Owners(albums, k) : k \in asked }
     IN  \/ run' = [run EXCEPT !.pc = "plan", !.keys = asked \cup UNION { Keys(albums[a]) : a \in found }] /\ UNCHANGED faults
         \/ Fault /\ Goes("fallback")
  /\ UNCHANGED <<albums, edits, files, outcome, settled>>
Preflight ==
  /\ run.pc = "plan"
  /\ LET found == UNION { Owners(albums, k) : k \in run.keys }
         as    == [a \in Album |-> IF a \in found THEN albums[a] ELSE Absent]
     IN  \/ run' = [run EXCEPT !.pc = "stage", !.plan = PreflightImport(as, run.dataset), !.edits = edits] /\ UNCHANGED faults
         \/ Fault /\ Goes("fallback")
  /\ UNCHANGED <<albums, edits, files, outcome, settled>>
\* Both reports of a success are written aside before anything else is.
StageReports ==
  /\ run.pc = "stage"
  /\ \/ /\ run' = [run EXCEPT !.pc = IF run.apply THEN "apply" ELSE "finalize",
                              !.staged = IF run.apply THEN "applied" ELSE "planned"]
        /\ UNCHANGED faults
     \/ Fault /\ Goes("fallback")
  /\ UNCHANGED <<albums, edits, files, outcome, settled>>

Fits ==
  /\ \A p \in ToSet(Operations(run.plan)) : p.target # 0 => ConcurrencyFilter(albums, p)
  /\ UniqueReferences(BulkWrite(albums, run.plan))
Commit(told) ==
  /\ Fits /\ albums' = BulkWrite(albums, run.plan) /\ outcome' = [outcome EXCEPT ![Number] = told]
  /\ settled' = IF edits = run.edits
                THEN [dataset |-> run.dataset, rows |-> { p.row : p \in Accepted(run.plan) }] ELSE Nothing
RollBack == outcome' = [outcome EXCEPT ![Number] = "rolled-back"] /\ UNCHANGED <<albums, settled>>
\* A fault rolls back; or it hides the answer to the commit, which the importer
\* takes for a rollback; or it comes after the commit, and ends the run.
ApplyImport ==
  /\ run.pc = "apply"
  /\ Cardinality(Album \ Catalog(albums)) >= Len(SelectSeq(run.plan, LAMBDA p : p.action = "inserted"))
  /\ \/ Commit("committed") /\ Goes("finalize") /\ UNCHANGED faults
     \/ Commit("unknown") /\ Goes("replace") /\ Fault
     \/ Commit("committed") /\ run' = NoRun /\ Fault
     \/ RollBack /\ Goes("replace") /\ (IF Fits THEN Fault ELSE UNCHANGED faults)
  /\ UNCHANGED <<edits, files>>

\* The staged reports are renamed, the second also if the first cannot be.
Rename(f) ==
  \/ files' = [files EXCEPT ![f] = [run |-> Number, says |-> run.staged]]
     /\ run' = [run EXCEPT !.renamed = @ \cup {f}] /\ UNCHANGED faults
  \/ Fault /\ run' = [run EXCEPT !.failed = @ \cup {f}] /\ UNCHANGED files
FinalizeStagedArtifacts(f) ==
  /\ run.pc \in {"finalize", "rename"} /\ f \notin run.renamed \cup run.failed
  /\ f = "quarantine" => "report" \in run.renamed \cup run.failed
  /\ Rename(f)
  /\ UNCHANGED <<albums, edits, outcome, settled>>
\* After a commit a failure only ends the run; before one the reports tell it, in
\* the staged files if neither is renamed yet, else in new ones.
Finalized ==
  /\ run.pc \in {"finalize", "rename"} /\ run.renamed \cup run.failed = Reports
  /\ IF run.failed = {} \/ (run.pc = "finalize" /\ run.apply) THEN run' = NoRun
     ELSE IF run.pc = "finalize" /\ run.renamed = {} THEN Goes("replace")
     ELSE Goes("fallback")
  /\ UNCHANGED <<albums, edits, faults, files, outcome, settled>>
StagedAsIs == run.staged                                       \* slip: they are renamed as they were staged
Replaced   == "failed"
ReplaceStagedJson ==
  /\ run.pc = "replace"
  /\ \/ run' = [run EXCEPT !.pc = "rename", !.staged = Replaced] /\ UNCHANGED faults
     \/ Fault /\ Goes("fallback")
  /\ UNCHANGED <<albums, edits, files, outcome, settled>>
WriteFailure ==
  /\ run.pc = "fallback"
  /\ \/ LET f == IF "report" \in run.renamed THEN "quarantine" ELSE "report"
        IN  /\ files' = [files EXCEPT ![f] = [run |-> Number, says |-> "failed"]]
            /\ run' = IF f = "quarantine" THEN NoRun ELSE [run EXCEPT !.renamed = {f}]
            /\ UNCHANGED faults
     \/ Fault /\ run' = NoRun /\ UNCHANGED files
  /\ UNCHANGED <<albums, edits, outcome, settled>>

Die == run # NoRun /\ Fault /\ run' = NoRun /\ UNCHANGED <<albums, edits, files, outcome, settled>>

(***************************************************************************)
(* Everybody else                                                          *)
(***************************************************************************)
Edit(a, d) ==
  /\ edits < MaxEdits /\ edits' = edits + 1
  /\ albums' = [albums EXCEPT ![a] = d] /\ settled' = Nothing
  /\ UNCHANGED <<faults, run, files, outcome>>
Free(k) == Owners(albums, k) = {}

\* An approved correction: the fields are the users' from then on.
Correct(a) ==
  LET d == [albums[a] EXCEPT !.rev = @ + 1, !.stamp = @ + 1]
  IN  /\ albums[a] # Absent
      /\ \/ Edit(a, [d EXCEPT !.title = [value |-> "corrected", by |-> "user"]])
         \/ Edit(a, [d EXCEPT !.cover = [value |-> Custom, by |-> "user", release |-> None]])
         \/ Edit(a, [d EXCEPT !.refs.others = @ + 1, !.refs.by = "user", !.rep = None])
         \/ \E k \in Group \cup Release :
              Free(k) /\ Edit(a, [d EXCEPT !.refs.groups = @ \cup ({k} \cap Group), !.refs.by = "user", !.rep = None,
                                           !.refs.releases = @ \cup ({k} \cap Release)])
\* Genres have a revision of their own.
ApproveGenres(a) == albums[a] # Absent /\ Edit(a, [albums[a] EXCEPT !.genres = @ + 1, !.stamp = @ + 1])
\* The cover that was found is of a release, to which the album gets a reference.
BackfillCover(a, release) ==
  /\ albums[a] # Absent /\ albums[a].cover.value = None
  /\ Owners(albums, release) \subseteq {a}
  /\ Edit(a, [albums[a] EXCEPT !.rev = @ + 1, !.stamp = @ + 1, !.refs.releases = @ \cup {release},
                               !.cover = [value |-> release, by |-> "import", release |-> release]])
\* A suggestion of a new album is approved.
Approve(g) ==
  /\ Free(g) /\ Album \ Catalog(albums) # {}
  /\ Edit(Min(Album \ Catalog(albums)),
          [BuildCatalogInput([group |-> g, release |-> None, title |-> "corrected", cover |-> None],
                             "none") EXCEPT !.source = "community"])

ImportInit ==
  /\ edits = 0 /\ faults = 0 /\ run = NoRun /\ outcome = <<>> /\ settled = Nothing
  /\ files = [f \in Reports |-> [run |-> 0, says |-> "none"]]
  /\ \E first \in FirstCatalogs :
       albums = [a \in Album |-> IF a \in DOMAIN first THEN BuildCatalogInput(first[a].row, first[a].dataset) ELSE Absent]
ImportNext ==
  \/ \E dataset \in DOMAIN Datasets, apply \in BOOLEAN : ReadDataset(dataset, apply)
  \/ FindOwners \/ Preflight \/ StageReports \/ ApplyImport
  \/ \E f \in Reports : FinalizeStagedArtifacts(f)
  \/ Finalized \/ ReplaceStagedJson \/ WriteFailure \/ Die
  \/ \E a \in Album : Correct(a) \/ ApproveGenres(a) \/ \E r \in Release : BackfillCover(a, r)
  \/ \E g \in Group : Approve(g)
ImportSpec == ImportInit /\ [][ImportNext]_importVars

(***************************************************************************)
(* Properties                                                              *)
(***************************************************************************)
\* Whoever writes, and from however old a plan: a MusicBrainz reference has one
\* owner, and a cover from the archive is one whose release the album refers to.
CatalogHolds == UniqueReferences(albums) /\ \A a \in Catalog(albums) : CoverIsReferenced(albums[a])

\* A report says "applied" only of a transaction that was committed, and "failed"
\* only of one that was not, the answer that got lost excepted.
ReportsAreTrue ==
  \A f \in Reports :
    /\ files[f].says = "applied" => outcome[files[f].run] = "committed"
    /\ files[f].says = "failed"  => outcome[files[f].run] # "committed"

\* An import can be run again: of a dataset whose rows were taken, and which nobody
\* has edited since they were planned, nothing is written a second time.
RerunChangesNothing ==
  run.pc \in {"stage", "apply"} /\ run.dataset = settled.dataset =>
    \A p \in ToSet(run.plan) : p.row \in settled.rows => p.action = "unchanged"

\* An import leaves alone the albums of the community and, in its own, every field
\* that users own, other providers' references and the genres, even if the users'
\* edit was made while the import was under way.
Ours(d) == { f \in {"title", "cover", "refs"} : d[f].by = "user" }
LeavesUsersFields ==
  edits' = edits =>
    \A a \in Catalog(albums) :
      LET old == albums[a] new == albums'[a] IN
        /\ new.genres = old.genres /\ new.refs.others = old.refs.others
        /\ \A f \in Ours(old) : new[f] = old[f]
        /\ old.source = "community" => new = old
UsersKeepWhatTheyOwn == [][LeavesUsersFields]_importVars

\* Type invariant.
ImportTypeOK ==
  /\ \A a \in Album : albums[a] = Absent \/ (albums[a].source \in {"import", "community"} /\ Keys(albums[a]) \subseteq Group \cup Release)
  /\ edits \in 0..MaxEdits /\ faults \in 0..MaxFaults
  /\ run = NoRun \/ run.pc \in {"find", "plan", "stage", "apply", "finalize", "replace", "rename", "fallback"}
  /\ \A f \in Reports : files[f].run \in 0..Number /\ files[f].says \in {"none", "applied", "planned", "failed"}
  /\ outcome \in Seq({"none", "committed", "unknown", "rolled-back"})
  /\ settled.dataset \in DOMAIN Datasets \cup {"none"}
=============================================================================
