-------------------------------- MODULE Migrate --------------------------------
(***************************************************************************)
(* The "migrate" command of packages/databases on one database.  A run asks  *)
(* the palmares_migrations table where the last one stopped, runs the        *)
(* operations of each later file in a transaction of the adapter, and after  *)
(* every file tries to save it, and those it could not save before.  Saving  *)
(* is a write of its own, outside the transaction.                          *)
(*                                                                         *)
(* Files are numbered in the order the command runs them.                   *)
(***************************************************************************)
EXTENDS Naturals, Sequences, FiniteSets

CONSTANTS
  Runners,           \* migrate commands that may run at the same time
  NumFiles,          \* how many migration files will ever be deployed
  NumOperations,     \* operations in each file
  TableFile,         \* the file that creates palmares_migrations
  Repeatable,        \* files whose operations do not throw when run again
  SafeTransactions,  \* see Transactions below
  NewestFirst,       \* the adapter obeys the "ordering" option of a model
  MaxFaults          \* bound on crashes and failing statements

Files == 1..NumFiles

ASSUME MigrateAssumptions ==
  /\ NumFiles \in Nat /\ NumOperations \in Nat \ {0} /\ MaxFaults \in Nat
  /\ TableFile \in Files /\ Repeatable \subseteq Files
  /\ SafeTransactions \in BOOLEAN /\ NewestFirst \in BOOLEAN

VARIABLES
  deployed,           \* how many files there are on disk
  applied,            \* how many operations of each file the database has
  recorded, newest,   \* the files palmares_migrations lists, and the last of them
  closing,            \* transactions to be committed after they were reported done
  pc, file, upto,     \* where each run stands, the file it is at, its last one
  done,               \* operations of that file run so far
  saving, unsaved,    \* saves still to try for this file; migrationsToAddAfterIteration
  repeated, faults,   \* history: files run again; crashes and failures so far
  atRisk              \* history: files that a failure left in effect without a row

runVars == <<pc, file, upto, done, saving, unsaved>>
vars == <<deployed, applied, recorded, newest, closing, runVars, repeated, faults, atRisk>>

TypeOK ==
  /\ deployed \in Files
  /\ applied \in [Files -> 0..NumOperations]
  /\ recorded \subseteq Files /\ newest \in Files \cup {0}
  /\ closing \subseteq [file : Files, done : 1..NumOperations]
  /\ pc \in [Runners -> {"idle", "operating", "saving"}]
  /\ file \in [Runners -> Files] /\ upto \in [Runners -> Files]
  /\ done \in [Runners -> 0..NumOperations]
  /\ saving \in [Runners -> Seq(Files)] /\ unsaved \in [Runners -> Seq(Files)]
  /\ repeated \subseteq Files /\ faults \in 0..MaxFaults /\ atRisk \subseteq Files

Init ==
  /\ deployed \in TableFile..NumFiles
  /\ applied = [f \in Files |-> 0]
  /\ recorded = {} /\ newest = 0 /\ closing = {}
  /\ pc = [r \in Runners |-> "idle"]
  /\ file = [r \in Runners |-> 1] /\ upto = [r \in Runners |-> 1]
  /\ done = [r \in Runners |-> 0]
  /\ saving = [r \in Runners |-> << >>] /\ unsaved = [r \in Runners |-> << >>]
  /\ repeated = {} /\ faults = 0 /\ atRisk = {}

InEffect == {f \in Files : applied[f] > 0}
Unrecorded == InEffect \ recorded

\* Something goes wrong, and may lead to some files being run again.
Fault(lost) ==
  /\ faults < MaxFaults /\ faults' = faults + 1
  /\ atRisk' = atRisk \cup lost
NoFault == UNCHANGED <<faults, atRisk>>

\* A new version of the application brings its migration file.
Deploy ==
  /\ deployed < NumFiles
  /\ deployed' = deployed + 1
  /\ UNCHANGED <<applied, recorded, newest, closing, runVars, repeated, faults, atRisk>>

-----------------------------------------------------------------------------
AnyMigration == IF recorded = {} THEN {0} ELSE recorded  \* mutant: rows come unordered

\* What getLastMigrationName may find: the newest row when rows come ordered by
\* -id, any of them when the adapter does not order them.
LastMigration == IF recorded = {} THEN {0} ELSE IF NewestFirst THEN {newest} ELSE recorded

\* getLastMigration swallows a failing query and starts from the first file.
Start(r) ==
  /\ pc[r] = "idle"
  /\ \E last \in LastMigration \cup {0} :
       /\ IF last \in LastMigration THEN NoFault ELSE Fault(InEffect)
       /\ last < deployed
       /\ file' = [file EXCEPT ![r] = last + 1]
  /\ pc' = [pc EXCEPT ![r] = "operating"]
  /\ upto' = [upto EXCEPT ![r] = deployed]
  /\ done' = [done EXCEPT ![r] = 0]
  /\ UNCHANGED <<deployed, applied, recorded, newest, closing, saving, unsaved, repeated>>

Idle(r) ==
  /\ pc' = [pc EXCEPT ![r] = "idle"]
  /\ done' = [done EXCEPT ![r] = 0]
  /\ saving' = [saving EXCEPT ![r] = << >>]
  /\ unsaved' = [unsaved EXCEPT ![r] = << >>]
  /\ UNCHANGED <<file, upto>>

-----------------------------------------------------------------------------
\* Transactions.  A safe adapter commits before it reports success and rolls
\* back before it reports a failure.  Those of libs/sequelize-engine and
\* libs/drizzle-engine report both from inside the transaction's callback, and
\* never rethrow there: whatever was run is committed later.

\* The operation would find its own effects in the database.
Repeats(f, n) == n <= applied[f]

Operate(r) ==
  /\ pc[r] = "operating" /\ done[r] < NumOperations
  /\ Repeats(file[r], done[r] + 1) => file[r] \in Repeatable
  /\ done' = [done EXCEPT ![r] = @ + 1]
  /\ UNCHANGED <<deployed, applied, recorded, newest, closing, pc, file, upto,
                 saving, unsaved, repeated, faults, atRisk>>

Closing(r) == IF SafeTransactions \/ done[r] = 0 THEN {}
                                  ELSE {[file |-> file[r], done |-> done[r]]}

OperationFails(r) ==
  /\ pc[r] = "operating" /\ done[r] < NumOperations
  /\ IF Repeats(file[r], done[r] + 1) /\ file[r] \notin Repeatable THEN NoFault ELSE Fault(Unrecorded)
  /\ closing' = closing \cup Closing(r)
  /\ Idle(r)
  /\ UNCHANGED <<deployed, applied, recorded, newest, repeated>>

\* n operations of file f become part of the database, unless another run got
\* there first and they cannot be repeated.
CanTakeEffect(f) == applied[f] = 0 \/ f \in Repeatable
TakeEffect(f, n) ==
  /\ CanTakeEffect(f)
  /\ applied' = [applied EXCEPT ![f] = IF n > @ THEN n ELSE @]
  /\ repeated' = IF applied[f] > 0 THEN repeated \cup {f} ELSE repeated

BeginSavingThisOnly(r) ==  \* mutant: what could not be saved before is dropped
  /\ pc' = [pc EXCEPT ![r] = "saving"]
  /\ saving' = [saving EXCEPT ![r] = <<file[r]>>]
  /\ unsaved' = [unsaved EXCEPT ![r] = << >>]
  /\ UNCHANGED <<file, upto, done>>

\* Every save is tried again after each file.
BeginSaving(r) ==
  /\ pc' = [pc EXCEPT ![r] = "saving"]
  /\ saving' = [saving EXCEPT ![r] = Append(unsaved[r], file[r])]
  /\ unsaved' = [unsaved EXCEPT ![r] = << >>]
  /\ UNCHANGED <<file, upto, done>>

CommitEarly(r) ==  \* mutant: each operation in a transaction of its own
  /\ pc[r] = "operating" /\ done[r] > 0
  /\ TakeEffect(file[r], done[r])
  /\ BeginSaving(r)
  /\ UNCHANGED <<deployed, recorded, newest, closing, faults, atRisk>>

Commit(r) ==
  /\ pc[r] = "operating" /\ done[r] = NumOperations
  /\ IF SafeTransactions
       THEN TakeEffect(file[r], NumOperations) /\ UNCHANGED closing
       ELSE closing' = closing \cup Closing(r) /\ UNCHANGED <<applied, repeated>>
  /\ BeginSaving(r)
  /\ UNCHANGED <<deployed, recorded, newest, faults, atRisk>>

CommitFailsUnnoticed(r) ==  \* mutant: the error is swallowed
  /\ SafeTransactions
  /\ pc[r] = "operating" /\ done[r] = NumOperations
  /\ IF CanTakeEffect(file[r]) THEN Fault(Unrecorded) ELSE NoFault
  /\ BeginSaving(r)
  /\ UNCHANGED <<deployed, applied, recorded, newest, closing, repeated>>

CommitFails(r) ==
  /\ SafeTransactions
  /\ pc[r] = "operating" /\ done[r] = NumOperations
  /\ IF CanTakeEffect(file[r]) THEN Fault(Unrecorded) ELSE NoFault
  /\ Idle(r)
  /\ UNCHANGED <<deployed, applied, recorded, newest, closing, repeated>>

LateCommit(c) ==
  /\ closing' = closing \ {c}
  /\ \/ TakeEffect(c.file, c.done) /\ NoFault
     \/ /\ IF CanTakeEffect(c.file) THEN Fault(Unrecorded) ELSE NoFault
        /\ UNCHANGED <<applied, repeated>>
  /\ UNCHANGED <<deployed, recorded, newest, runVars>>

-----------------------------------------------------------------------------
TableExists == applied[TableFile] > 0

\* One turn of the loop of saveMigration: a save that fails, because the table
\* is not there yet or for any other reason, is kept for the next file.
SaveMigration(r) ==
  /\ pc[r] = "saving" /\ saving[r] # << >>
  /\ saving' = [saving EXCEPT ![r] = Tail(@)]
  /\ \/ /\ TableExists
        /\ recorded' = recorded \cup {Head(saving[r])}
        /\ newest' = Head(saving[r])
        /\ NoFault
        /\ UNCHANGED unsaved
     \/ /\ IF TableExists THEN Fault(Unrecorded) ELSE NoFault
        /\ unsaved' = [unsaved EXCEPT ![r] = Append(@, Head(saving[r]))]
        /\ UNCHANGED <<recorded, newest>>
  /\ UNCHANGED <<deployed, applied, closing, pc, file, upto, done, repeated>>

Proceed(r) ==
  /\ pc[r] = "saving" /\ saving[r] = << >> /\ file[r] < upto[r]
  /\ pc' = [pc EXCEPT ![r] = "operating"]
  /\ file' = [file EXCEPT ![r] = @ + 1]
  /\ done' = [done EXCEPT ![r] = 0]
  /\ UNCHANGED <<deployed, applied, recorded, newest, closing, upto, saving,
                 unsaved, repeated, faults, atRisk>>

\* The Migrate object goes away with the saves it still had to make.
Finish(r) ==
  /\ pc[r] = "saving" /\ saving[r] = << >> /\ file[r] = upto[r]
  /\ Idle(r)
  /\ UNCHANGED <<deployed, applied, recorded, newest, closing, repeated, faults, atRisk>>

Crash(r) ==
  /\ pc[r] # "idle" /\ Fault(Unrecorded)
  /\ Idle(r)
  /\ UNCHANGED <<deployed, applied, recorded, newest, closing, repeated>>

Step(r) == \/ Start(r) \/ Operate(r) \/ OperationFails(r) \/ Commit(r) \/ CommitFails(r)
           \/ SaveMigration(r) \/ Proceed(r) \/ Finish(r)

Next ==
  \/ Deploy
  \/ \E r \in Runners : Step(r) \/ Crash(r)
  \/ \E c \in closing : LateCommit(c)

Spec == Init /\ [][Next]_vars

\* A command is run until there is nothing left to do, and its statements settle.
FairSpec == Spec /\ \A r \in Runners : WF_vars(Step(r))

-----------------------------------------------------------------------------
\* "we guarantee that if the migration fails for some reason all of the actions
\* and changes will be rolled back" (migrate/migration.ts 76-80).
AllOrNothing == \A f \in Files : applied[f] \in {0, NumOperations}

\* With the shipped adapters too, as long as no statement fails of itself, also
\* when another run makes operations fail by having run them first.
WholeUnlessFaulty == faults = 0 => AllOrNothing

\* Whatever fails, and whoever else is migrating, files take effect in their
\* order, and one that is recorded has taken effect (migrate/index.ts 95-151).
History == INSTANCE MigrationHistory WITH inEffect <- InEffect
KeepsHistory == History!Spec

\* "we hold the data to save in PalmaresMigration until it is created in the
\* database so when it is created we can save all of the data"
\* (migrate/index.ts 28-29): a run without failures ends with a row for each file.
EveryRunIsRecorded ==
  [][\A r \in Runners :
       pc[r] = "saving" /\ pc'[r] = "idle" /\ faults' = 0 => 1..upto[r] \subseteq recorded']_vars

\* "This is the last migration file name that was evaluated by palmares. This way
\* we can filter only the migrations after that" (migrate/index.ts 62-63): after
\* any failures and crashes a file is only run again if one of them came while
\* it was in effect without a row, or kept the query from finding the last row.
OnlyFilesAtRiskRunTwice == repeated \subseteq atRisk

\* Every deployed file takes effect in the end (migrate/index.ts 95-151).
EveryFileRuns == \A f \in Files : deployed >= f ~> applied[f] = NumOperations
-----------------------------------------------------------------------------
\* The inductive invariant of the command under safe transactions: how what the
\* runs remember across their awaits, and what is recorded, rests on what is in
\* effect by now (migrate/index.ts 37-58, 95-143).

NothingIsClosing == closing = {}

EffectInOrder == \A f \in InEffect : 1..f \subseteq InEffect

RecordedInEffect == recorded \subseteq InEffect /\ (newest = 0 \/ newest \in recorded)

RunsFollowEffect ==
  \A r \in Runners : /\ pc[r] # "idle" => 1..(file[r] - 1) \subseteq InEffect
                     /\ pc[r] = "saving" => file[r] \in InEffect

SavesInEffect ==
  \A r \in Runners : saving[r] \in Seq(InEffect) /\ unsaved[r] \in Seq(InEffect)

\* What is remembered or recorded of a file is that it is in effect, whole and
\* after those before it, whoever else is migrating or has failed.
HistoryInv ==
  /\ NothingIsClosing /\ AllOrNothing /\ EffectInOrder /\ RecordedInEffect
  /\ RunsFollowEffect /\ SavesInEffect
=============================================================================
