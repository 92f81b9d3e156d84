-------------------------- MODULE ReviewIdMigration --------------------------
(* The migration that gives old reviews a public identity: a sealed plan, its *)
(* application in batches of one transaction each, and a check at the end,    *)
(* while users write, connections fail and the process may die and be rerun.  *)
EXTENDS Naturals, Sequences, FiniteSets

CONSTANTS Document,     \* of the collection of reviews, numbered
          FirstReviews, \* what the collection may hold: document -> identity
          Given,        \* how many identities were given before
          Missing, Null, Invalid, \* what is no identity
          Operator,     \* who may run it, at once
          BatchSize,
          MaxPlans, MaxRuns, MaxWrites, MaxFaults \* bounds

ASSUME ReviewIdAssumption ==
  /\ {Given, MaxPlans, MaxRuns, MaxWrites, MaxFaults} \subseteq Nat /\ BatchSize \in Nat \ {0}
  /\ IsFiniteSet(Document) /\ Document \subseteq Nat
  /\ {Missing, Null, Invalid} \cap Nat = {} /\ Invalid \notin {Missing, Null}
  /\ \A first \in FirstReviews :
       DOMAIN first \subseteq Document /\ \A r \in DOMAIN first : first[r] \in {Missing, Null, Invalid} \cup 1..Given

VARIABLES reviews,  \* each that is there: its content, counted, and its identity
          unique,   \* whether the index is there
          minted,   \* how many identities were generated
          plans,    \* the sealed reports
          progress, \* of each plan, the file beside it
          run,      \* of each operator, the process
          told,     \* what the last application that ended told the operator
          runs, writes, faults

migrationVars == <<reviews, unique, minted, plans, progress, run, told, runs, writes, faults>>

There    == DOMAIN reviews
IsId(x)  == x \notin {Missing, Null, Invalid}
Contents == [r \in There |-> reviews[r].content]
IdsOf(rs) == { rs[r].id : r \in DOMAIN rs }
Distinct == \A r, s \in There : r # s /\ IsId(reviews[r].id) => reviews[r].id # reviews[s].id

(***************************************************************************)
(* The plan                                                                *)
(***************************************************************************)
Unassigned == { r \in There : reviews[r].id \in {Missing, Null} }
BlockedByInvalid == Invalid \in IdsOf(reviews)                 \* slip: alike identities are left to the index
Blocked    == ~Distinct \/ Invalid \in IdsOf(reviews)
\* New identities for those without, in the order of the documents.
Rank(r)     == Cardinality({ s \in Unassigned : s <= r })
Assignments == [r \in Unassigned |-> [nth |-> Rank(r), id |-> minted + Rank(r), was |-> reviews[r].id]]
NoRun    == [pc |-> "idle"]
NoFile   == [there |-> FALSE, done |-> {}, complete |-> FALSE]
NewFile  == [there |-> TRUE, done |-> {}, complete |-> FALSE]
Started(o) == run[o] = NoRun /\ runs < MaxRuns /\ runs' = runs + 1
\* The report and its checksum are published without replacing others, or not at all.
DryRun(o) ==
  /\ Started(o) /\ Len(plans) < MaxPlans
  /\ plans' = Append(plans, [contents |-> Contents, blocked |-> Blocked, assignments |-> Assignments,
                             kept |-> [r \in There \ Unassigned |-> reviews[r].id]])
  /\ progress' = Append(progress, NoFile)
  /\ minted' = minted + Cardinality(Unassigned)
  /\ UNCHANGED <<reviews, unique, run, told, writes, faults>>

(***************************************************************************)
(* Application                                                             *)
(***************************************************************************)
Plan(o)  == plans[run[o].plan]
Fault    == faults < MaxFaults /\ faults' = faults + 1
FaultOr(refused) == Fault \/ (refused /\ UNCHANGED faults)
Assignees(p)   == DOMAIN plans[p].assignments
Batches(p)     == (Cardinality(Assignees(p)) + BatchSize - 1) \div BatchSize
InBatch(p, b)  == { r \in Assignees(p) : plans[p].assignments[r].nth \in b * BatchSize + 1 .. (b + 1) * BatchSize }
Batch(o)       == InBatch(run[o].plan, run[o].batch)

\* The documents and their contents are those of the plan, and so are the
\* identities, but for those that the plan assigns.
TargetMatchesPlan(o) ==
  /\ Contents = Plan(o).contents
  /\ \A r \in DOMAIN Plan(o).kept : reviews[r].id = Plan(o).kept[r]
  /\ \A r \in DOMAIN Plan(o).assignments :
       reviews[r].id \in {Plan(o).assignments[r].was, Plan(o).assignments[r].id}

\* A failure is a plain one only if this process has changed nothing.
Ends(o, how) ==
  /\ run' = [run EXCEPT ![o] = NoRun]
  /\ told' = [how |-> how, wrote |-> run[o].wrote, plan |-> run[o].plan, lost |-> FALSE]
Failure(o) == IF run[o].changed THEN "committed" ELSE "failed"
Fails(o)   == Ends(o, Failure(o))
\* The error of a session that cannot be ended takes the place of the batch's own.
FailsUnseen(o) ==
  /\ run' = [run EXCEPT ![o] = NoRun]
  /\ told' = [how |-> Failure(o), wrote |-> TRUE, plan |-> run[o].plan, lost |-> TRUE]

Apply(o, p) ==
  /\ Started(o) /\ ~plans[p].blocked
  /\ run' = [run EXCEPT ![o] = [pc |-> "check", plan |-> p, batch |-> 0, changed |-> FALSE, wrote |-> FALSE,
                                 file |-> NoFile]]
  /\ UNCHANGED <<reviews, unique, minted, plans, progress, told, writes, faults>>
CheckTarget(o) ==
  /\ run[o].pc = "check"
  /\ \/ TargetMatchesPlan(o) /\ run' = [run EXCEPT ![o].pc = "open"] /\ UNCHANGED <<told, faults>>
     \/ FaultOr(~TargetMatchesPlan(o)) /\ Fails(o)
  /\ UNCHANGED <<reviews, unique, minted, plans, progress, runs, writes>>

\* The progress file is read once, or made: from here on the process writes what it
\* read and what it did since, whatever another operator has written meanwhile.
AfterBatch(o, b) == IF b = Batches(run[o].plan) THEN "index" ELSE "batch"
ReadProgress(o) ==
  /\ run[o].pc = "open"
  /\ run' = [run EXCEPT ![o].file = progress[run[o].plan],
                       ![o].pc = IF progress[run[o].plan].there THEN AfterBatch(o, 0) ELSE "create"]
  /\ UNCHANGED <<reviews, unique, minted, plans, progress, told, runs, writes, faults>>
Overwrite(o, next) ==
  /\ progress' = [progress EXCEPT ![run[o].plan] = next] /\ UNCHANGED <<told, faults>>
CreateProgress(o) ==
  /\ run[o].pc = "create"
  /\ \/ Overwrite(o, NewFile) /\ run' = [run EXCEPT ![o].file = NewFile, ![o].pc = AfterBatch(o, 0)]
     \/ Fault /\ Fails(o) /\ UNCHANGED progress
  /\ UNCHANGED <<reviews, unique, minted, plans, runs, writes>>

\* One transaction: each review is as planned or has its identity already.
Overwritten(r, a)      == TRUE                                \* slip: whatever the document has
AssignmentFilter(r, a) == reviews[r].id = a.was
Assigned(plan, batch) ==
  [r \in There |-> IF r \in batch /\ AssignmentFilter(r, plan.assignments[r])
                   THEN [reviews[r] EXCEPT !.id = plan.assignments[r].id] ELSE reviews[r]]
Applies(plan, batch) ==
  \A r \in batch : LET a == plan.assignments[r]
                   IN  r \in There /\ (AssignmentFilter(r, a) \/ reviews[r].id = a.id)
Updates(o)     == \E r \in Batch(o) : AssignmentFilter(r, Plan(o).assignments[r])
CommitBatch(o) == Applies(Plan(o), Batch(o)) /\ reviews' = Assigned(Plan(o), Batch(o))
RunBatch(o) ==
  /\ run[o].pc = "batch"
  /\ \/ /\ CommitBatch(o) /\ UNCHANGED <<told, faults>>
        /\ run' = [run EXCEPT ![o].pc = "record", ![o].changed = @ \/ Updates(o), ![o].wrote = @ \/ reviews' # reviews]
     \/ ~Applies(Plan(o), Batch(o)) /\ Fails(o) /\ UNCHANGED <<reviews, faults>>
     \/ Fault /\ Fails(o) /\ UNCHANGED reviews
     \* The commit's answer is lost, or the session cannot be ended.
     \/ Fault /\ (CommitBatch(o) \/ UNCHANGED reviews) /\ Ends(o, "unknown")
     \/ Fault /\ CommitBatch(o) /\ Ends(o, "committed")
     \/ Fault /\ (CommitBatch(o) \/ UNCHANGED reviews) /\ FailsUnseen(o)
  /\ UNCHANGED <<unique, minted, plans, progress, runs, writes>>
RecordProgress(o) ==
  /\ run[o].pc = "record"
  /\ LET next == [run[o].file EXCEPT !.done = @ \cup {run[o].batch}]
     IN  \/ /\ Overwrite(o, next)
            /\ run' = [run EXCEPT ![o].file = next, ![o].batch = @ + 1, ![o].pc = AfterBatch(o, run[o].batch + 1)]
         \/ Fault /\ Fails(o) /\ UNCHANGED progress
  /\ UNCHANGED <<reviews, unique, minted, plans, runs, writes>>

\* Documents without an identity are alike to the index.
Indexable == Distinct /\ \A r, s \in There : r # s => reviews[r].id # reviews[s].id
EnsureUniqueIndex(o) ==
  /\ run[o].pc = "index"
  /\ \/ /\ unique \/ Indexable
        /\ unique' = TRUE /\ run' = [run EXCEPT ![o].pc = "verify", ![o].changed = @ \/ ~unique] /\ UNCHANGED <<told, faults>>
     \/ FaultOr(~unique /\ ~Indexable) /\ Fails(o) /\ UNCHANGED unique
  /\ UNCHANGED <<reviews, minted, plans, progress, runs, writes>>
\* The index is recorded, and then the target is read.
Verify(o) ==
  /\ run[o].pc = "verify"
  /\ \/ /\ progress' = [progress EXCEPT ![run[o].plan] = run[o].file]
        /\ \/ TargetMatchesPlan(o) /\ run' = [run EXCEPT ![o].pc = "read"] /\ UNCHANGED <<told, faults>>
           \/ FaultOr(~TargetMatchesPlan(o)) /\ Fails(o)
     \/ Fault /\ Fails(o) /\ UNCHANGED progress
  /\ UNCHANGED <<reviews, unique, minted, plans, runs, writes>>
Verified == unique /\ Distinct /\ \A r \in There : IsId(reviews[r].id)
VerifyIdentities(o) ==
  /\ run[o].pc = "read"
  /\ \/ Verified /\ run' = [run EXCEPT ![o].pc = "complete"] /\ UNCHANGED <<told, faults>>
     \/ FaultOr(~Verified) /\ Fails(o)
  /\ UNCHANGED <<reviews, unique, minted, plans, progress, runs, writes>>
Complete(o) ==
  /\ run[o].pc = "complete"
  /\ LET next == [run[o].file EXCEPT !.complete = TRUE]
     IN  \/ progress' = [progress EXCEPT ![run[o].plan] = next] /\ Ends(o, "done") /\ UNCHANGED faults
         \/ Fault /\ Fails(o) /\ UNCHANGED progress
  /\ UNCHANGED <<reviews, unique, minted, plans, runs, writes>>

Die(o) == run[o] # NoRun /\ Fault /\ run' = [run EXCEPT ![o] = NoRun] /\ UNCHANGED <<reviews, unique, minted, plans, progress, told, runs, writes>>

(***************************************************************************)
(* Users, who may write at any time                                        *)
(***************************************************************************)
Writes == writes < MaxWrites /\ writes' = writes + 1 /\ UNCHANGED <<unique, plans, progress, run, told, runs, faults>>
\* A new document has a number that no plan knows.
Insert(r) ==
  /\ r \notin There /\ \A p \in DOMAIN plans : r \notin DOMAIN plans[p].contents
  /\ reviews' = [s \in There \cup {r} |-> IF s = r THEN [content |-> 0, id |-> minted + 1] ELSE reviews[s]]
  /\ minted' = minted + 1 /\ Writes
\* A like counts as a change of the document, too.
Touch(r)  == r \in There /\ reviews' = [reviews EXCEPT ![r].content = @ + 1] /\ UNCHANGED minted /\ Writes
Delete(r) == r \in There /\ reviews' = [s \in There \ {r} |-> reviews[s]] /\ UNCHANGED minted /\ Writes

MigrationInit ==
  /\ \E first \in FirstReviews : reviews = [r \in DOMAIN first |-> [content |-> 0, id |-> first[r]]]
  /\ unique = FALSE /\ minted = Given /\ plans = <<>> /\ progress = <<>> /\ run = [o \in Operator |-> NoRun]
  /\ told = [how |-> "nothing", wrote |-> FALSE, plan |-> 0, lost |-> FALSE] /\ runs = 0 /\ writes = 0 /\ faults = 0
MigrationNext ==
  \/ \E o \in Operator :
       \/ DryRun(o) \/ (\E p \in DOMAIN plans : Apply(o, p)) \/ CheckTarget(o) \/ ReadProgress(o) \/ CreateProgress(o)
       \/ RunBatch(o) \/ RecordProgress(o)
       \/ EnsureUniqueIndex(o) \/ Verify(o) \/ VerifyIdentities(o) \/ Complete(o) \/ Die(o)
  \/ \E r \in Document : Insert(r) \/ Touch(r) \/ Delete(r)
MigrationSpec == MigrationInit /\ [][MigrationNext]_migrationVars

(***************************************************************************)
(* Properties                                                              *)
(***************************************************************************)
\* A review keeps the identity it has, whichever plan is applied and how often.
LeavesIdentities == \A r \in There \cap DOMAIN reviews' : IsId(reviews[r].id) => reviews'[r].id = reviews[r].id
IdentitiesStay   == [][LeavesIdentities]_migrationVars

\* A progress file that says complete says so of the collection: no review is without
\* an identity of its own, and none has come since. (The file may lose that word again,
\* and batches: a second operator with an older copy of it writes his.)
CompleteMeansAll == \A p \in DOMAIN progress : progress[p].complete => Verified

\* Whoever gets past the batches can make the index.
IndexCanBeMade ==
  \A o \in Operator :
    /\ run[o].pc = "index" => unique \/ Indexable
    /\ run[o].pc = "read"  => Verified

\* A batch is in the progress file only if the collection has it: every review of it
\* that is still there has an identity.
ProgressIsTrue ==
  \A p \in DOMAIN progress : \A b \in progress[p].done :
    \A r \in InBatch(p, b) \cap There : reviews[r].id = plans[p].assignments[r].id

PlanDone(p) == \A r \in Assignees(p) \cap There : reviews[r].id = plans[p].assignments[r].id
\* An operator who is told of a plain failure may take it for a rollback, unless
\* the session's own failure hid the batch's; one who is told that it is done, for the
\* collection as planned, whoever else ran a plan beside him: every review that the
\* plan gave an identity has that one, all others have theirs, and the index is there.
OperatorIsTold ==
  /\ told.how = "failed" /\ ~told.lost => ~told.wrote
  /\ told.how = "done" => Verified /\ PlanDone(told.plan)

\* Reviews get an identity each, and the operator is told what was done.
IdentitiesHold == CompleteMeansAll /\ IndexCanBeMade /\ ProgressIsTrue /\ OperatorIsTold

\* Type invariant.
MigrationTypeOK ==
  /\ There \subseteq Document /\ unique \in BOOLEAN /\ minted \in Nat
  /\ Len(plans) = Len(progress) /\ Len(plans) <= MaxPlans
  /\ \A o \in Operator : run[o] = NoRun \/ run[o].pc \in {"check", "open", "create", "batch", "record", "index", "verify", "read", "complete"}
  /\ told.how \in {"nothing", "failed", "committed", "unknown", "done"}
  /\ runs \in 0..MaxRuns /\ writes \in 0..MaxWrites /\ faults \in 0..MaxFaults
=============================================================================
