----------------------------- MODULE MigrateProofs -----------------------------
(***************************************************************************)
(* The "migrate" command, for any number of commands, files, operations,    *)
(* crashes and failures.                                                    *)
(***************************************************************************)
EXTENDS Migrate, SequenceTheorems, TLAPS

\* A file number, and the one after it, is positive.
LEMMA FilesAreNumbers ==
  /\ Files \subseteq Nat \ {0} /\ TableFile \in Files /\ 1 \in Files /\ NumFiles \in Files
  /\ NumOperations \in Nat \ {0} /\ MaxFaults \in Nat
BY MigrateAssumptions DEF Files

\* The files up to one are those before it, and itself.
LEMMA UpTo ==
  ASSUME NEW f \in Files
  PROVE  1..f = 1..(f - 1) \cup {f}
<1>1. f \in Nat \ {0}
  BY FilesAreNumbers
<1>2. \A n \in Int : n >= 1 /\ n <= f <=> (n >= 1 /\ n <= f - 1) \/ n = f
  BY <1>1
<1>. QED BY <1>1, <1>2

\* A command that stops forgets its saves.
LEMMA IdleTypes ==
  ASSUME TypeOK, NEW r \in Runners, Idle(r)
  PROVE  /\ pc' \in [Runners -> {"idle", "operating", "saving"}]
         /\ file' \in [Runners -> Files] /\ upto' \in [Runners -> Files]
         /\ done' \in [Runners -> 0..NumOperations]
         /\ saving' \in [Runners -> Seq(Files)] /\ unsaved' \in [Runners -> Seq(Files)]
BY FilesAreNumbers DEF TypeOK, Idle

\* What a fault costs.
LEMMA FaultTypes ==
  ASSUME TypeOK, NEW lost \in SUBSET Files, Fault(lost) \/ NoFault
  PROVE  faults' \in 0..MaxFaults /\ atRisk' \subseteq Files
<1>1. faults \in 0..MaxFaults /\ MaxFaults \in Nat /\ atRisk \subseteq Files
  BY FilesAreNumbers DEF TypeOK
<1>2. CASE NoFault
  BY <1>1, <1>2 DEF NoFault
<1>3. CASE Fault(lost)
  <2>1. faults' \in 0..MaxFaults
    BY <1>1, <1>3 DEF Fault
  <2>2. atRisk' = atRisk \cup lost
    BY <1>3 DEF Fault
  <2>. QED BY <1>1, <2>1, <2>2
<1>. QED BY <1>2, <1>3

\* What is in effect, and what of it has no row.
LEMMA EffectTypes == InEffect \subseteq Files /\ Unrecorded \subseteq Files
BY DEF InEffect, Unrecorded

\* A transaction that takes effect.
LEMMA TakeEffectTypes ==
  ASSUME TypeOK, NEW f \in Files, NEW n \in 1..NumOperations, TakeEffect(f, n)
  PROVE  applied' \in [Files -> 0..NumOperations] /\ repeated' \subseteq Files
BY FilesAreNumbers DEF TypeOK, TakeEffect

\* The start of the saves of a file.
LEMMA BeginSavingTypes ==
  ASSUME TypeOK, NEW r \in Runners, BeginSaving(r)
  PROVE  /\ pc' \in [Runners -> {"idle", "operating", "saving"}]
         /\ file' \in [Runners -> Files] /\ upto' \in [Runners -> Files]
         /\ done' \in [Runners -> 0..NumOperations]
         /\ saving' \in [Runners -> Seq(Files)] /\ unsaved' \in [Runners -> Seq(Files)]
<1>1. Append(unsaved[r], file[r]) \in Seq(Files)
  BY DEF TypeOK
<1>. QED BY <1>1 DEF TypeOK, BeginSaving

\* The transaction a command leaves behind.
LEMMA ClosingTypes ==
  ASSUME TypeOK, NEW r \in Runners
  PROVE  Closing(r) \subseteq [file : Files, done : 1..NumOperations]
BY FilesAreNumbers DEF TypeOK, Closing

\* The steps of a command keep the types, ...
LEMMA StartTypes ==
  ASSUME TypeOK, NEW r \in Runners, Start(r)
  PROVE  TypeOK'
<1>1. LastMigration \cup {0} \subseteq Files \cup {0}
  BY DEF TypeOK, LastMigration
<1>2. PICK last \in Files \cup {0} :
        /\ Fault(InEffect) \/ NoFault
        /\ last < deployed /\ file' = [file EXCEPT ![r] = last + 1]
  BY <1>1 DEF Start
<1>3. last + 1 \in Files
  BY <1>2, FilesAreNumbers DEF TypeOK, Files
<1>4. file' \in [Runners -> Files] /\ faults' \in 0..MaxFaults /\ atRisk' \subseteq Files
  BY <1>2, <1>3, FaultTypes, EffectTypes DEF TypeOK
<1>5. done' \in [Runners -> 0..NumOperations]
  BY FilesAreNumbers DEF TypeOK, Start
<1>. QED BY <1>4, <1>5 DEF TypeOK, Start

\* One more operation is run, of those the file has.
LEMMA OperateTypes ==
  ASSUME TypeOK, NEW r \in Runners, Operate(r)
  PROVE  TypeOK'
<1>1. done[r] + 1 \in 0..NumOperations
  BY FilesAreNumbers DEF TypeOK, Operate
<1>. QED BY <1>1 DEF TypeOK, Operate

\* A failed operation may leave a transaction to be closed.
LEMMA OperationFailsTypes ==
  ASSUME TypeOK, NEW r \in Runners, OperationFails(r)
  PROVE  TypeOK'
<1>1. Fault(Unrecorded) \/ NoFault
  BY DEF OperationFails
<1>2. closing' \subseteq [file : Files, done : 1..NumOperations]
  BY ClosingTypes DEF OperationFails, TypeOK
<1>. QED BY <1>1, <1>2, IdleTypes, FaultTypes, EffectTypes DEF OperationFails, TypeOK

\* A finished file takes effect now or is left to be closed.
LEMMA CommitTypes ==
  ASSUME TypeOK, NEW r \in Runners, Commit(r)
  PROVE  TypeOK'
<1>1. closing' \subseteq [file : Files, done : 1..NumOperations]
  BY ClosingTypes DEF Commit, TypeOK
<1>2. applied' \in [Files -> 0..NumOperations] /\ repeated' \subseteq Files
  <2>1. file[r] \in Files /\ NumOperations \in 1..NumOperations
    BY FilesAreNumbers DEF TypeOK
  <2>. QED BY <2>1, TakeEffectTypes DEF Commit, TypeOK
<1>. QED BY <1>1, <1>2, BeginSavingTypes DEF Commit, TypeOK

\* A commit that fails only stops the command.
LEMMA CommitFailsTypes ==
  ASSUME TypeOK, NEW r \in Runners, CommitFails(r)
  PROVE  TypeOK'
<1>1. Fault(Unrecorded) \/ NoFault
  BY DEF CommitFails
<1>. QED BY <1>1, IdleTypes, FaultTypes, EffectTypes DEF CommitFails, TypeOK

\* A save goes to the table or waits with the unsaved ones.
LEMMA SaveMigrationTypes ==
  ASSUME TypeOK, NEW r \in Runners, SaveMigration(r)
  PROVE  TypeOK'
<1>1. /\ Head(saving[r]) \in Files /\ Tail(saving[r]) \in Seq(Files)
      /\ Append(unsaved[r], Head(saving[r])) \in Seq(Files)
  BY DEF TypeOK, SaveMigration
<1>2. Fault(Unrecorded) \/ NoFault
  BY DEF SaveMigration
<1>. QED BY <1>1, <1>2, FaultTypes, EffectTypes DEF TypeOK, SaveMigration

\* The next file is one of those the command has read.
LEMMA ProceedTypes ==
  ASSUME TypeOK, NEW r \in Runners, Proceed(r)
  PROVE  TypeOK'
<1>1. file[r] + 1 \in Files
  BY MigrateAssumptions DEF TypeOK, Proceed, Files
<1>2. file' \in [Runners -> Files]
  BY <1>1 DEF TypeOK, Proceed
<1>3. done' \in [Runners -> 0..NumOperations]
  BY FilesAreNumbers DEF TypeOK, Proceed
<1>. QED BY <1>2, <1>3 DEF TypeOK, Proceed

\* A command that is done forgets its saves.
LEMMA FinishTypes ==
  ASSUME TypeOK, NEW r \in Runners, Finish(r)
  PROVE  TypeOK'
BY IdleTypes DEF Finish, TypeOK

\* ... and so do crashes, deployments and late commits.
LEMMA CrashTypes ==
  ASSUME TypeOK, NEW r \in Runners, Crash(r)
  PROVE  TypeOK'
BY IdleTypes, FaultTypes, EffectTypes DEF Crash, TypeOK

\* One more file comes to disk, of those there are.
LEMMA DeployTypes ==
  ASSUME TypeOK, Deploy
  PROVE  TypeOK'
<1>1. deployed + 1 \in Files
  BY MigrateAssumptions DEF TypeOK, Deploy, Files
<1>. QED BY <1>1 DEF TypeOK, Deploy, runVars

\* A closed transaction takes effect, or does not.
LEMMA LateCommitTypes ==
  ASSUME TypeOK, NEW c \in closing, LateCommit(c)
  PROVE  TypeOK'
<1>1. c.file \in Files /\ c.done \in 1..NumOperations
  BY DEF TypeOK
<1>2. applied' \in [Files -> 0..NumOperations] /\ repeated' \subseteq Files
  BY <1>1, TakeEffectTypes DEF LateCommit, TypeOK
<1>3. Fault(Unrecorded) \/ NoFault
  BY DEF LateCommit
<1>. QED BY <1>2, <1>3, FaultTypes, EffectTypes DEF LateCommit, TypeOK, runVars

\* Every variable keeps its type, with safe transactions or without.
THEOREM MigrateTypeCorrect == Spec => []TypeOK
<1>1. Init => TypeOK
  BY MigrateAssumptions, FilesAreNumbers DEF Init, TypeOK, Files
<1>2. TypeOK /\ [Next]_vars => TypeOK'
  <2>. SUFFICES ASSUME TypeOK, [Next]_vars
                PROVE  TypeOK'
    OBVIOUS
  <2>1. CASE Next
    BY <2>1, DeployTypes, StartTypes, OperateTypes, OperationFailsTypes, CommitTypes,
       CommitFailsTypes, SaveMigrationTypes, ProceedTypes, FinishTypes, CrashTypes,
       LateCommitTypes DEF Next, Step
  <2>2. CASE UNCHANGED vars
    BY <2>2 DEF vars, runVars, TypeOK
  <2>. QED BY <2>1, <2>2
<1>. QED BY <1>1, <1>2, PTL DEF Spec

-----------------------------------------------------------------------------
(* The history under safe transactions.  A command never takes back what it  *)
(* has put in effect, so what another one remembers of it stays true.        *)

\* A sequence of files in effect stays one when more files are.
LEMMA SequenceOfMore ==
  ASSUME NEW S, NEW T, S \subseteq T, NEW s \in Seq(S)
  PROVE  s \in Seq(T)
<1>1. PICK n \in Nat : s \in [1..n -> S]
  BY SeqDef
<1>2. s \in [1..n -> T]
  BY <1>1
<1>. QED BY <1>2, SeqDef

\* Committing puts exactly the file of the transaction in effect, and whole.
LEMMA EffectOfCommit ==
  ASSUME SafeTransactions, TypeOK, NEW r \in Runners, Commit(r)
  PROVE  /\ applied' = [applied EXCEPT ![file[r]] = NumOperations]
         /\ InEffect' = InEffect \cup {file[r]}
         /\ closing' = closing /\ recorded' = recorded /\ newest' = newest
<1>1. /\ TakeEffect(file[r], NumOperations)
      /\ closing' = closing /\ recorded' = recorded /\ newest' = newest
  BY DEF Commit
<1>2. file[r] \in Files /\ applied \in [Files -> 0..NumOperations] /\ NumOperations \in Nat \ {0}
  BY FilesAreNumbers DEF TypeOK
<1>3. applied[file[r]] \in Nat /\ applied[file[r]] <= NumOperations
  BY <1>2
<1>4. (IF NumOperations > applied[file[r]] THEN NumOperations ELSE applied[file[r]]) = NumOperations
  BY <1>2, <1>3
<1>5. applied' = [applied EXCEPT ![file[r]] = NumOperations]
  BY <1>1, <1>4 DEF TakeEffect
<1>. QED BY <1>1, <1>2, <1>5 DEF InEffect

\* A command that stops, for whatever reason, remembers nothing.
LEMMA IdleHistory ==
  ASSUME TypeOK, HistoryInv, NEW r \in Runners, Idle(r),
         UNCHANGED <<applied, recorded, newest, closing>>
  PROVE  HistoryInv'
<1>1. InEffect' = InEffect
  BY DEF InEffect
<1>2. RunsFollowEffect'
  BY <1>1 DEF TypeOK, HistoryInv, RunsFollowEffect, Idle
<1>3. SavesInEffect'
  BY <1>1 DEF TypeOK, HistoryInv, SavesInEffect, Idle
<1>. QED BY <1>1, <1>2, <1>3 DEF HistoryInv, NothingIsClosing, AllOrNothing, EffectInOrder,
                                 RecordedInEffect

\* Under safe transactions a failing operation leaves nothing to be committed.
LEMMA OperationFailsHistory ==
  ASSUME SafeTransactions, TypeOK, HistoryInv, NEW r \in Runners, OperationFails(r)
  PROVE  HistoryInv'
<1>1. closing' = closing
  BY DEF OperationFails, Closing
<1>. QED BY <1>1, IdleHistory DEF OperationFails

\* A run starts after a file that is recorded, hence in effect, or at the first.
LEMMA StartHistory ==
  ASSUME TypeOK, HistoryInv, NEW r \in Runners, Start(r)
  PROVE  HistoryInv'
<1>1. InEffect' = InEffect
  BY DEF Start, InEffect
<1>2. PICK last \in LastMigration \cup {0} : file' = [file EXCEPT ![r] = last + 1]
  BY DEF Start
<1>3. last \in InEffect \cup {0}
  BY <1>2 DEF LastMigration, HistoryInv, RecordedInEffect
<1>4. last \in Nat /\ 1..last \subseteq InEffect /\ last + 1 - 1 = last
  BY <1>3, FilesAreNumbers DEF HistoryInv, EffectInOrder, InEffect
<1>5. RunsFollowEffect'
  BY <1>1, <1>2, <1>4 DEF TypeOK, HistoryInv, RunsFollowEffect, Start
<1>. QED BY <1>1, <1>5 DEF Start, HistoryInv, NothingIsClosing, AllOrNothing, EffectInOrder,
                           RecordedInEffect, SavesInEffect

\* Running an operation is seen by nobody before the commit.
LEMMA OperateHistory ==
  ASSUME TypeOK, HistoryInv, NEW r \in Runners, Operate(r)
  PROVE  HistoryInv'
<1>1. InEffect' = InEffect
  BY DEF Operate, InEffect
<1>. QED BY <1>1 DEF Operate, HistoryInv, NothingIsClosing, AllOrNothing, EffectInOrder,
                     RecordedInEffect, RunsFollowEffect, SavesInEffect

\* A commit extends what is in effect by the file after it, or repeats a file.
LEMMA CommitHistory ==
  ASSUME SafeTransactions, TypeOK, HistoryInv, NEW r \in Runners, Commit(r)
  PROVE  HistoryInv'
<1>1. /\ applied' = [applied EXCEPT ![file[r]] = NumOperations]
      /\ InEffect' = InEffect \cup {file[r]}
      /\ closing' = closing /\ recorded' = recorded /\ newest' = newest
  BY EffectOfCommit
<1>2. /\ pc[r] = "operating" /\ file[r] \in Files /\ file' = file
      /\ pc' = [pc EXCEPT ![r] = "saving"]
      /\ saving' = [saving EXCEPT ![r] = Append(unsaved[r], file[r])]
      /\ unsaved' = [unsaved EXCEPT ![r] = << >>]
  BY DEF Commit, BeginSaving, TypeOK
<1>3. 1..file[r] \subseteq InEffect'
  <2>1. 1..(file[r] - 1) \subseteq InEffect
    BY <1>2 DEF HistoryInv, RunsFollowEffect
  <2>2. 1..file[r] = 1..(file[r] - 1) \cup {file[r]}
    BY <1>2, UpTo
  <2>. QED BY <1>1, <2>1, <2>2
<1>4. NothingIsClosing' /\ AllOrNothing' /\ EffectInOrder' /\ RecordedInEffect'
  BY <1>1, <1>2, <1>3, FilesAreNumbers
     DEF TypeOK, HistoryInv, NothingIsClosing, AllOrNothing, EffectInOrder, RecordedInEffect
<1>5. RunsFollowEffect'
  BY <1>1, <1>2, <1>3 DEF TypeOK, HistoryInv, RunsFollowEffect
<1>6. ASSUME NEW q \in Runners
      PROVE  saving'[q] \in Seq(InEffect') /\ unsaved'[q] \in Seq(InEffect')
  <2>1. saving[q] \in Seq(InEffect') /\ unsaved[q] \in Seq(InEffect')
    BY <1>1, SequenceOfMore DEF HistoryInv, SavesInEffect
  <2>2. Append(unsaved[q], file[r]) \in Seq(InEffect')
    BY <1>1, <2>1
  <2>. QED BY <1>2, <2>1, <2>2 DEF TypeOK
<1>. QED BY <1>4, <1>5, <1>6 DEF HistoryInv, SavesInEffect

\* Only a file whose save is being tried is recorded, and it is in effect.
LEMMA SaveMigrationHistory ==
  ASSUME TypeOK, HistoryInv, NEW r \in Runners, SaveMigration(r)
  PROVE  HistoryInv'
<1>1. InEffect' = InEffect
  BY DEF SaveMigration, InEffect
<1>2. /\ Head(saving[r]) \in InEffect /\ Tail(saving[r]) \in Seq(InEffect)
      /\ Append(unsaved[r], Head(saving[r])) \in Seq(InEffect)
  BY DEF HistoryInv, SavesInEffect, SaveMigration
<1>3. RecordedInEffect'
  BY <1>1, <1>2 DEF HistoryInv, RecordedInEffect, SaveMigration
<1>4. SavesInEffect'
  BY <1>1, <1>2 DEF TypeOK, HistoryInv, SavesInEffect, SaveMigration
<1>. QED BY <1>1, <1>3, <1>4 DEF SaveMigration, HistoryInv, NothingIsClosing, AllOrNothing,
                                 EffectInOrder, RunsFollowEffect

\* The next file starts where the one before it is in effect.
LEMMA ProceedHistory ==
  ASSUME TypeOK, HistoryInv, NEW r \in Runners, Proceed(r)
  PROVE  HistoryInv'
<1>1. InEffect' = InEffect
  BY DEF Proceed, InEffect
<1>2. file[r] \in Nat /\ file[r] + 1 - 1 = file[r] /\ 1..file[r] \subseteq InEffect
  <2>1. file[r] \in Nat
    BY FilesAreNumbers DEF TypeOK
  <2>2. file[r] \in InEffect
    BY DEF HistoryInv, RunsFollowEffect, Proceed
  <2>. QED BY <2>1, <2>2 DEF HistoryInv, EffectInOrder
<1>3. /\ file' = [file EXCEPT ![r] = @ + 1] /\ pc' = [pc EXCEPT ![r] = "operating"]
      /\ file \in [Runners -> Files] /\ pc \in [Runners -> {"idle", "operating", "saving"}]
  BY DEF TypeOK, Proceed
<1>4. ASSUME NEW q \in Runners
      PROVE  /\ pc'[q] # "idle" => 1..(file'[q] - 1) \subseteq InEffect'
             /\ pc'[q] = "saving" => file'[q] \in InEffect'
  <2>1. CASE q = r
    BY <1>1, <1>2, <1>3, <2>1
  <2>2. CASE q # r
    BY <1>1, <1>3, <2>2 DEF HistoryInv, RunsFollowEffect
  <2>. QED BY <2>1, <2>2
<1>5. RunsFollowEffect'
  BY <1>4 DEF RunsFollowEffect
<1>. QED BY <1>1, <1>5 DEF Proceed, HistoryInv, NothingIsClosing, AllOrNothing, EffectInOrder,
                           RecordedInEffect, SavesInEffect

\* One step keeps the history.
LEMMA NextHistory ==
  ASSUME SafeTransactions, TypeOK, HistoryInv, [Next]_vars
  PROVE  HistoryInv'
<1>1. ASSUME UNCHANGED <<applied, recorded, newest, closing, runVars>>
      PROVE  HistoryInv'
  BY <1>1 DEF runVars, HistoryInv, InEffect, NothingIsClosing, AllOrNothing, EffectInOrder,
              RecordedInEffect, RunsFollowEffect, SavesInEffect
<1>2. CASE Deploy
  BY <1>1, <1>2 DEF Deploy
<1>3. ASSUME NEW r \in Runners, Step(r) \/ Crash(r)
      PROVE  HistoryInv'
  BY <1>3, IdleHistory, StartHistory, OperateHistory, OperationFailsHistory, CommitHistory,
     SaveMigrationHistory, ProceedHistory DEF Step, Crash, CommitFails, Finish
<1>4. ~ \E c \in closing : LateCommit(c)
  BY DEF HistoryInv, NothingIsClosing
<1>5. CASE UNCHANGED vars
  BY <1>1, <1>5 DEF vars
<1>. QED BY <1>2, <1>3, <1>4, <1>5 DEF Next

\* Under safe transactions all that commands remember or rows record of a file is
\* that it is in effect, for any number of commands at once, any files, and any
\* failures and crashes.
THEOREM HistoryCorrect ==
  ASSUME SafeTransactions
  PROVE  Spec => []HistoryInv
<1>1. Init => HistoryInv
  <2>. SUFFICES ASSUME Init
                PROVE  HistoryInv
    OBVIOUS
  <2>1. InEffect = {}
    BY DEF Init, InEffect
  <2>. QED BY <2>1 DEF Init, HistoryInv, NothingIsClosing, AllOrNothing, EffectInOrder,
                        RecordedInEffect, RunsFollowEffect, SavesInEffect
<1>2. TypeOK /\ HistoryInv /\ [Next]_vars => HistoryInv'
  BY NextHistory
<1>. QED BY <1>1, <1>2, MigrateTypeCorrect, PTL DEF Spec

-----------------------------------------------------------------------------
\* A commit is the abstract step that puts the next file in effect, or invisible.
LEMMA CommitRefines ==
  ASSUME SafeTransactions, TypeOK, HistoryInv, NEW r \in Runners, Commit(r)
  PROVE  [History!Next]_(History!vars)
<1>1. InEffect' = InEffect \cup {file[r]} /\ recorded' = recorded
  BY EffectOfCommit
<1>2. file[r] \in Files /\ 1..(file[r] - 1) \subseteq InEffect
  BY DEF TypeOK, HistoryInv, RunsFollowEffect, Commit
<1>3. CASE file[r] \in InEffect
  <2>1. InEffect' = InEffect
    BY <1>1, <1>3
  <2>. QED BY <1>1, <2>1 DEF History!vars
<1>4. CASE file[r] \notin InEffect
  <2>1. InEffect \subseteq 1..(file[r] - 1)
    <3>. SUFFICES ASSUME NEW f \in InEffect, f \notin 1..(file[r] - 1)
                  PROVE  FALSE
      OBVIOUS
    <3>0. f \in Nat \ {0} /\ file[r] \in Nat \ {0}
      BY <1>2, FilesAreNumbers DEF InEffect
    <3>1. file[r] \in 1..f
      BY <3>0
    <3>. QED BY <1>4, <3>1 DEF HistoryInv, EffectInOrder
  <2>2. InEffect = 1..(file[r] - 1)
    BY <1>2, <2>1
  <2>3. InEffect' = 1..file[r]
    BY <1>1, <1>2, <2>2, UpTo
  <2>4. History!TakeEffect(file[r])
    BY <1>1, <2>2, <2>3 DEF History!TakeEffect
  <2>. QED BY <1>2, <2>4 DEF History!Next, Files
<1>. QED BY <1>3, <1>4

\* A save that succeeds is the abstract step that records a file, or invisible.
LEMMA SaveMigrationRefines ==
  ASSUME TypeOK, HistoryInv, NEW r \in Runners, SaveMigration(r)
  PROVE  [History!Next]_(History!vars)
<1>1. InEffect' = InEffect
  BY DEF SaveMigration, InEffect
<1>2. CASE recorded' = recorded
  BY <1>1, <1>2 DEF History!vars
<1>3. CASE recorded' = recorded \cup {Head(saving[r])}
  <2>1. Head(saving[r]) \in InEffect
    BY DEF SaveMigration, HistoryInv, SavesInEffect
  <2>2. History!Record(Head(saving[r]))
    BY <1>1, <1>3, <2>1 DEF History!Record
  <2>. QED BY <2>1, <2>2 DEF History!Next, InEffect, Files
<1>. QED BY <1>2, <1>3 DEF SaveMigration

\* Under safe transactions the command implements the abstract history: files take
\* effect one after the other and are recorded only then.
THEOREM MigrateKeepsHistory ==
  ASSUME SafeTransactions
  PROVE  Spec => KeepsHistory
<1>1. Init => History!Init
  BY FilesAreNumbers DEF Init, History!Init, InEffect
<1>2. TypeOK /\ HistoryInv /\ [Next]_vars => [History!Next]_(History!vars)
  <2>. SUFFICES ASSUME TypeOK, HistoryInv, [Next]_vars
                PROVE  [History!Next]_(History!vars)
    OBVIOUS
  <2>1. ASSUME UNCHANGED <<applied, recorded>>
        PROVE  UNCHANGED History!vars
    BY <2>1 DEF History!vars, InEffect
  <2>2. ASSUME NEW r \in Runners, Step(r) \/ Crash(r)
        PROVE  [History!Next]_(History!vars)
    BY <2>1, <2>2, CommitRefines, SaveMigrationRefines
       DEF Step, Start, Operate, OperationFails, CommitFails, Proceed, Finish, Crash
  <2>3. ~ \E c \in closing : LateCommit(c)
    BY DEF HistoryInv, NothingIsClosing
  <2>4. CASE Deploy \/ UNCHANGED vars
    BY <2>1, <2>4 DEF Deploy, vars
  <2>. QED BY <2>2, <2>3, <2>4 DEF Next
<1>. QED BY <1>1, <1>2, MigrateTypeCorrect, HistoryCorrect, PTL
     DEF Spec, KeepsHistory, History!Spec
-----------------------------------------------------------------------------
(* One command at a time, on an adapter that orders its rows, whatever fails *)
(* and crashes: a file that is in effect is recorded, still to be saved, or   *)
(* at risk, and the next run starts after those that are not at risk.        *)

Elements(s) == {s[i] : i \in 1..Len(s)}
Ascending(s) == \A i, j \in 1..Len(s) : i < j => s[i] < s[j]

Unharmed == InEffect \ atRisk
Pending(r) == Elements(saving[r]) \cup Elements(unsaved[r])

\* A run is past all files in effect but those at risk, ...
RunsGoOn ==
  \A r \in Runners :
    /\ pc[r] # "idle" => TableFile <= upto[r]
    /\ pc[r] = "operating" => \A f \in Unharmed \cup Pending(r) : f < file[r]
    /\ pc[r] = "saving" => \A f \in Unharmed \cup Pending(r) : f <= file[r]

\* ... of which none is forgotten.
SavesAreKept ==
  \A r \in Runners :
    /\ Unharmed \subseteq recorded \cup Pending(r)
    /\ pc[r] = "idle" => unsaved[r] = << >>
    /\ pc[r] # "saving" => saving[r] = << >>

\* Saves are made in the order of the files, except of files at risk, ...
SavesGoOn ==
  \A r \in Runners :
    /\ Ascending(unsaved[r]) /\ Ascending(saving[r])
    /\ \A u \in Elements(unsaved[r]), s \in Elements(saving[r]) : u < s
    /\ \A f \in recorded \ atRisk, s \in Pending(r) : f < s
    /\ TableExists /\ unsaved[r] # << >> => Pending(r) \subseteq atRisk

\* ... so that the newest row is that of the last file, or a file at risk.
RowsGoOn ==
  /\ \A f \in recorded \ atRisk : f <= newest
  /\ ~TableExists => recorded = {} /\ \A f \in atRisk : 1..f \subseteq atRisk

RiskInv ==
  /\ TableFile <= deployed /\ repeated \subseteq atRisk /\ (faults = 0 => atRisk = {})
  /\ RunsGoOn /\ SavesAreKept /\ SavesGoOn /\ RowsGoOn

\* A sequence of saves and what is left of it.
LEMMA SavesAsSequences ==
  ASSUME NEW s \in Seq(Files), NEW f \in Files
  PROVE  /\ Elements(<< >>) = {} /\ Elements(s) \subseteq Files
         /\ Elements(Append(s, f)) = Elements(s) \cup {f}
         /\ s # << >> => Elements(s) = {Head(s)} \cup Elements(Tail(s))
<1>1. Elements(<< >>) = {} /\ Elements(s) \subseteq Files
  BY DEF Elements
<1>2. /\ Len(Append(s, f)) = Len(s) + 1 /\ Len(s) \in Nat
      /\ \A i \in 1..Len(s) : Append(s, f)[i] = s[i]
      /\ Append(s, f)[Len(s) + 1] = f
  OBVIOUS
<1>3. Elements(Append(s, f)) = Elements(s) \cup {f}
  <2>1. 1..(Len(s) + 1) = 1..Len(s) \cup {Len(s) + 1}
    BY <1>2
  <2>. QED BY <1>2, <2>1 DEF Elements
<1>4. ASSUME s # << >>
      PROVE  Elements(s) = {Head(s)} \cup Elements(Tail(s))
  <2>1. /\ Len(s) \in Nat \ {0} /\ Head(s) = s[1] /\ Len(Tail(s)) = Len(s) - 1
        /\ \A i \in 1..(Len(s) - 1) : Tail(s)[i] = s[i + 1]
    BY <1>4
  <2>2. ASSUME NEW i \in 1..Len(s)
        PROVE  s[i] \in {Head(s)} \cup Elements(Tail(s))
    <3>1. CASE i = 1
      BY <2>1, <3>1
    <3>2. CASE i # 1
      <4>1. i - 1 \in 1..(Len(s) - 1) /\ Tail(s)[i - 1] = s[i]
        BY <2>1, <3>2
      <4>. QED BY <2>1, <4>1 DEF Elements
    <3>. QED BY <3>1, <3>2
  <2>3. ASSUME NEW i \in 1..(Len(s) - 1)
        PROVE  Tail(s)[i] \in Elements(s)
    BY <2>1 DEF Elements
  <2>4. Head(s) \in Elements(s)
    BY <2>1 DEF Elements
  <2>. QED BY <2>1, <2>2, <2>3, <2>4 DEF Elements
<1>. QED BY <1>1, <1>3, <1>4

\* Saves stay in order when a later one is added, or the first is taken off.
LEMMA SavesInOrder ==
  ASSUME NEW s \in Seq(Files), NEW f \in Files, Ascending(s)
  PROVE  /\ Ascending(<< >>)
         /\ (\A e \in Elements(s) : e < f) => Ascending(Append(s, f))
         /\ s # << >> => Ascending(Tail(s)) /\ \A e \in Elements(Tail(s)) : Head(s) < e
<1>1. Ascending(<< >>)
  BY DEF Ascending
<1>2. ASSUME \A e \in Elements(s) : e < f
      PROVE  Ascending(Append(s, f))
  <2>1. /\ Len(Append(s, f)) = Len(s) + 1 /\ Len(s) \in Nat
        /\ \A i \in 1..Len(s) : Append(s, f)[i] = s[i]
        /\ Append(s, f)[Len(s) + 1] = f
    OBVIOUS
  <2>. SUFFICES ASSUME NEW i \in 1..(Len(s) + 1), NEW j \in 1..(Len(s) + 1), i < j
                PROVE  Append(s, f)[i] < Append(s, f)[j]
    BY <2>1 DEF Ascending
  <2>3. i \in 1..Len(s)
    BY <2>1
  <2>4. CASE j = Len(s) + 1
    BY <1>2, <2>1, <2>3, <2>4 DEF Elements
  <2>5. CASE j # Len(s) + 1
    <3>1. j \in 1..Len(s)
      BY <2>1, <2>5
    <3>. QED BY <2>1, <2>3, <3>1 DEF Ascending
  <2>. QED BY <2>4, <2>5
<1>3. ASSUME s # << >>
      PROVE  Ascending(Tail(s)) /\ \A e \in Elements(Tail(s)) : Head(s) < e
  <2>1. /\ Len(s) \in Nat \ {0} /\ Head(s) = s[1] /\ Len(Tail(s)) = Len(s) - 1
        /\ \A i \in 1..(Len(s) - 1) : Tail(s)[i] = s[i + 1]
    BY <1>3
  <2>2. \A i \in 1..(Len(s) - 1) : i + 1 \in 1..Len(s) /\ 1 < i + 1
    BY <2>1
  <2>3. 1 \in 1..Len(s)
    BY <2>1
  <2>4. \A e \in Elements(Tail(s)) : Head(s) < e
    BY <2>1, <2>2, <2>3 DEF Ascending, Elements
  <2>5. Ascending(Tail(s))
    <3>. SUFFICES ASSUME NEW i \in 1..(Len(s) - 1), NEW j \in 1..(Len(s) - 1), i < j
                  PROVE  Tail(s)[i] < Tail(s)[j]
      BY <2>1 DEF Ascending
    <3>2. i + 1 < j + 1
      BY <2>1
    <3>. QED BY <2>1, <2>2, <3>2 DEF Ascending
  <2>. QED BY <2>4, <2>5
<1>. QED BY <1>1, <1>2, <1>3

\* No two commands run at once.
OneCommand == \A p, q \in Runners : p = q

\* Faults are counted and never forgotten.
LEMMA FaultsStay ==
  ASSUME TypeOK, [Next]_vars, faults' = 0
  PROVE  faults = 0
<1>1. faults \in Nat
  BY FilesAreNumbers DEF TypeOK
<1>2. \A lost : Fault(lost) \/ NoFault => faults = 0
  BY <1>1 DEF Fault, NoFault
<1>. QED BY <1>2 DEF Next, Deploy, Step, Start, Operate, OperationFails, Commit, CommitFails,
                     SaveMigration, Proceed, Finish, Crash, LateCommit, NoFault, Fault, vars

\* What the database has of a file.
LEMMA EffectIsApplied ==
  ASSUME TypeOK, NEW f \in Files
  PROVE  /\ f \in InEffect <=> applied[f] # 0
         /\ TableExists <=> TableFile \in InEffect
BY FilesAreNumbers DEF TypeOK, InEffect, TableExists

\* Only a file at risk is run again, and then all that is in effect and not at
\* risk has its row.
LEMMA RepeatedIsAtRisk ==
  ASSUME TypeOK, RiskInv, NEW r \in Runners, pc[r] = "operating", applied[file[r]] > 0
  PROVE  file[r] \in atRisk /\ Unharmed \subseteq recorded
<1>1. file[r] \in Files /\ file[r] \in Nat \ {0} /\ file[r] \in InEffect
  BY FilesAreNumbers DEF TypeOK, InEffect
<1>2. file[r] \in atRisk
  BY <1>1 DEF RiskInv, RunsGoOn, Unharmed
<1>3. /\ Unharmed \subseteq recorded \cup Pending(r) /\ Pending(r) \subseteq Files
      /\ \A f \in Pending(r) : f < file[r]
      /\ unsaved[r] = << >> => Pending(r) = {}
  BY <1>1, SavesAsSequences DEF TypeOK, RiskInv, SavesAreKept, RunsGoOn, Pending
<1>4. CASE TableExists
  <2>1. Pending(r) \subseteq atRisk
    BY <1>3, <1>4 DEF RiskInv, SavesGoOn
  <2>. QED BY <1>2, <1>3, <2>1 DEF Unharmed
<1>5. CASE ~TableExists
  <2>1. 1..file[r] \subseteq atRisk
    BY <1>2, <1>5 DEF RiskInv, RowsGoOn
  <2>2. Pending(r) \subseteq 1..file[r]
    <3>. SUFFICES ASSUME NEW f \in Pending(r) PROVE f \in 1..file[r]
      OBVIOUS
    <3>2. f \in Nat \ {0} /\ f < file[r]
      BY <1>3, FilesAreNumbers
    <3>. QED BY <1>1, <3>2
  <2>. QED BY <1>2, <1>3, <2>1, <2>2 DEF Unharmed
<1>. QED BY <1>2, <1>4, <1>5

\* At the end of a run all that is in effect and not at risk has its row.
LEMMA FinishedIsRecorded ==
  ASSUME TypeOK, HistoryInv, RiskInv, NEW r \in Runners, Finish(r)
  PROVE  Unharmed \subseteq recorded
<1>1. pc[r] = "saving" /\ saving[r] = << >> /\ file[r] = upto[r] /\ TableFile <= file[r]
  BY DEF Finish, RiskInv, RunsGoOn
<1>2. TableExists
  <2>1. file[r] \in InEffect /\ 1..file[r] \subseteq InEffect
    BY <1>1 DEF HistoryInv, RunsFollowEffect, EffectInOrder
  <2>2. TableFile \in Files /\ file[r] \in Files
    BY FilesAreNumbers DEF TypeOK
  <2>3. TableFile \in 1..file[r]
    BY <1>1, <2>2, FilesAreNumbers
  <2>. QED BY <2>1, <2>2, <2>3, EffectIsApplied
<1>3. unsaved[r] = << >> => Pending(r) = {}
  BY <1>1 DEF Pending, Elements
<1>. QED BY <1>2, <1>3 DEF RiskInv, SavesAreKept, SavesGoOn, Unharmed

\* As long as there is no table, all that is in effect is without a row.
LEMMA NoTableNoRows ==
  ASSUME TypeOK, HistoryInv, RiskInv, ~TableExists,
         atRisk' = atRisk \cup Unrecorded \/ atRisk' = atRisk \cup InEffect
  PROVE  \A f \in atRisk' : 1..f \subseteq atRisk'
<1>1. atRisk' = atRisk \cup InEffect
  BY DEF RiskInv, RowsGoOn, Unrecorded
<1>2. \A f \in atRisk : 1..f \subseteq atRisk
  BY DEF RiskInv, RowsGoOn
<1>3. \A f \in InEffect : 1..f \subseteq InEffect
  BY DEF HistoryInv, EffectInOrder
<1>. QED BY <1>1, <1>2, <1>3

\* Without a failure nothing is at risk.
LEMMA FaultRisk ==
  ASSUME TypeOK, RiskInv, NEW lost, Fault(lost) \/ NoFault, faults' = 0
  PROVE  atRisk' = {}
<1>1. faults \in Nat
  BY FilesAreNumbers DEF TypeOK
<1>2. ~Fault(lost)
  BY <1>1 DEF Fault
<1>. QED BY <1>2 DEF NoFault, RiskInv

\* A command that stops forgets its saves: they have been made, or it failed and
\* those files are at risk.
LEMMA IdleRisk ==
  ASSUME OneCommand, TypeOK, HistoryInv, RiskInv, NEW r \in Runners, Idle(r),
         Fault(Unrecorded) \/ (NoFault /\ Unharmed \subseteq recorded),
         UNCHANGED <<deployed, applied, recorded, newest, repeated>>
  PROVE  RiskInv'
<1>1. /\ InEffect' = InEffect /\ TableExists' = TableExists
      /\ pc'[r] = "idle" /\ saving'[r] = << >> /\ unsaved'[r] = << >>
      /\ \A q \in Runners : q = r
  BY DEF OneCommand, TypeOK, Idle, InEffect, TableExists
<1>2. /\ atRisk \subseteq atRisk' /\ Unharmed' \subseteq recorded
      /\ atRisk' = atRisk \/ atRisk' = atRisk \cup Unrecorded
  BY <1>1 DEF Fault, NoFault, Unharmed, Unrecorded
<1>3. faults' = 0 => atRisk' = {}
  BY FaultRisk
<1>4. Pending(r)' = {} /\ Ascending(<< >>) /\ Elements(<< >>) = {}
  BY <1>1 DEF Pending, Elements, Ascending
<1>5. RunsGoOn' /\ SavesAreKept'
  BY <1>1, <1>2, <1>4 DEF RunsGoOn, SavesAreKept
<1>6. SavesGoOn'
  BY <1>1, <1>4 DEF SavesGoOn
<1>7. RowsGoOn'
  BY <1>1, <1>2, NoTableNoRows DEF RiskInv, RowsGoOn
<1>. QED BY <1>2, <1>3, <1>5, <1>6, <1>7 DEF RiskInv

\* A run starts after the newest row, and so after all files but those at risk.
LEMMA StartRisk ==
  ASSUME OneCommand, NewestFirst, TypeOK, HistoryInv, RiskInv, NEW r \in Runners, Start(r)
  PROVE  RiskInv'
<1>1. PICK last \in LastMigration \cup {0} :
        /\ IF last \in LastMigration THEN NoFault ELSE Fault(InEffect)
        /\ last < deployed
        /\ file' = [file EXCEPT ![r] = last + 1]
  BY DEF Start
<1>2. /\ InEffect' = InEffect /\ TableExists' = TableExists
      /\ UNCHANGED <<deployed, recorded, newest, saving, unsaved, repeated>>
      /\ pc[r] = "idle" /\ pc'[r] = "operating" /\ upto'[r] = deployed /\ file'[r] = last + 1
      /\ \A q \in Runners : q = r
  BY <1>1 DEF OneCommand, TypeOK, Start, InEffect, TableExists
<1>3. saving[r] = << >> /\ unsaved[r] = << >> /\ Pending(r) = {} /\ Pending(r)' = {}
  BY <1>2 DEF RiskInv, SavesAreKept, Pending, Elements
<1>4. /\ atRisk \subseteq atRisk'
      /\ atRisk' = atRisk \/ atRisk' = atRisk \cup InEffect
      /\ Unharmed' \subseteq Unharmed
  BY <1>1, <1>2 DEF Fault, NoFault, Unharmed
<1>5. faults' = 0 => atRisk' = {}
  BY <1>1, FaultRisk
<1>6. ASSUME NEW f \in Unharmed'
      PROVE  f < last + 1
  <2>1. f \in Files /\ last \in Nat /\ f \in Nat
    BY <1>1, FilesAreNumbers DEF TypeOK, Unharmed, InEffect, LastMigration
  <2>2. last \in LastMigration /\ f \in recorded \ atRisk
    BY <1>1, <1>2, <1>3, <1>4 DEF Fault, RiskInv, SavesAreKept, Unharmed
  <2>3. last = newest
    BY <2>2 DEF LastMigration
  <2>. QED BY <2>1, <2>2, <2>3 DEF RiskInv, RowsGoOn
<1>7. RunsGoOn' /\ SavesAreKept'
  BY <1>2, <1>3, <1>4, <1>6 DEF RiskInv, RunsGoOn, SavesAreKept
<1>8. SavesGoOn'
  BY <1>2, <1>3, <1>4 DEF RiskInv, SavesGoOn
<1>9. RowsGoOn'
  BY <1>2, <1>4, NoTableNoRows DEF RiskInv, RowsGoOn
<1>. QED BY <1>2, <1>4, <1>5, <1>7, <1>8, <1>9 DEF RiskInv

\* A commit puts a file in effect that comes after the others, or one at risk.
LEMMA CommitRisk ==
  ASSUME OneCommand, SafeTransactions, TypeOK, HistoryInv, RiskInv, NEW r \in Runners, Commit(r)
  PROVE  RiskInv'
<1>1. /\ InEffect' = InEffect \cup {file[r]} /\ TakeEffect(file[r], NumOperations)
      /\ UNCHANGED <<deployed, recorded, newest, file, upto, faults, atRisk>>
      /\ pc[r] = "operating" /\ file[r] \in Files /\ pc'[r] = "saving"
      /\ saving'[r] = Append(unsaved[r], file[r]) /\ unsaved'[r] = << >>
      /\ unsaved[r] \in Seq(Files) /\ saving[r] = << >>
      /\ \A q \in Runners : q = r
  BY EffectOfCommit DEF OneCommand, TypeOK, Commit, BeginSaving, RiskInv, SavesAreKept
<1>2. repeated' \subseteq atRisk
  BY <1>1, RepeatedIsAtRisk DEF RiskInv, TakeEffect
<1>3. Pending(r) = Elements(unsaved[r]) /\ Pending(r)' = Pending(r) \cup {file[r]}
  BY <1>1, SavesAsSequences DEF Pending
<1>4. Unharmed' \subseteq Unharmed \cup {file[r]}
  BY <1>1 DEF Unharmed
<1>5. \A f \in Unharmed \cup Pending(r) : f < file[r]
  BY <1>1 DEF RiskInv, RunsGoOn
<1>6. RunsGoOn'
  <2>1. \A f \in Unharmed \cup Pending(r) : f \in Nat
    BY <1>1, <1>3, SavesAsSequences, FilesAreNumbers DEF Unharmed, InEffect
  <2>2. file[r] \in Nat
    BY <1>1, FilesAreNumbers
  <2>3. \A f \in Unharmed' \cup Pending(r)' : f <= file'[r]
    BY <1>1, <1>3, <1>4, <1>5, <2>1, <2>2
  <2>4. TableFile <= upto'[r]
    BY <1>1 DEF RiskInv, RunsGoOn
  <2>. QED BY <1>1, <2>3, <2>4 DEF RunsGoOn
<1>7. SavesAreKept'
  BY <1>1, <1>3, <1>4 DEF RiskInv, SavesAreKept
<1>8. SavesGoOn'
  <2>1. Ascending(Append(unsaved[r], file[r])) /\ Ascending(<< >>) /\ Elements(<< >>) = {}
    BY <1>1, <1>3, <1>5, SavesInOrder, SavesAsSequences DEF RiskInv, SavesGoOn
  <2>2. \A f \in recorded \ atRisk : f < file[r]
    BY <1>5 DEF HistoryInv, RecordedInEffect, Unharmed
  <2>3. \A f \in recorded' \ atRisk', e \in Pending(r)' : f < e
    BY <1>1, <1>3, <2>2 DEF RiskInv, SavesGoOn
  <2>. QED BY <1>1, <2>1, <2>3 DEF SavesGoOn
<1>9. RowsGoOn'
  <2>1. TableExists => TableExists'
    BY <1>1, FilesAreNumbers, EffectIsApplied, CommitTypes DEF TypeOK, TableExists, InEffect
  <2>. QED BY <1>1, <2>1 DEF RiskInv, RowsGoOn
<1>. QED BY <1>1, <1>2, <1>6, <1>7, <1>8, <1>9 DEF RiskInv

\* A save is made, and is of the last of the files but those at risk, ...
LEMMA RecordingRisk ==
  ASSUME OneCommand, TypeOK, RiskInv, NEW r \in Runners, SaveMigration(r),
         TableExists, recorded' = recorded \cup {Head(saving[r])}, newest' = Head(saving[r]),
         NoFault, unsaved' = unsaved
  PROVE  RiskInv'
<1> DEFINE g == Head(saving[r])
<1>1. /\ InEffect' = InEffect /\ TableExists' = TableExists /\ pc[r] = "saving" /\ g \in Files
      /\ UNCHANGED <<pc, file, upto, deployed, repeated, atRisk, faults>>
      /\ saving[r] \in Seq(Files) /\ saving[r] # << >> /\ saving'[r] = Tail(saving[r])
      /\ \A q \in Runners : q = r
  BY DEF OneCommand, TypeOK, SaveMigration, InEffect, TableExists, NoFault
<1>2. /\ Elements(saving[r]) = {g} \cup Elements(saving'[r]) /\ Pending(r) = Pending(r)' \cup {g}
      /\ Ascending(saving'[r]) /\ \A s \in Elements(saving'[r]) : g < s
  BY <1>1, SavesAsSequences, SavesInOrder DEF RiskInv, SavesGoOn, Pending
<1>3. Unharmed' = Unharmed
  BY <1>1 DEF Unharmed
<1> HIDE DEF g
<1>4. RunsGoOn' /\ SavesAreKept'
  BY <1>1, <1>2, <1>3 DEF RiskInv, RunsGoOn, SavesAreKept, g
<1>5. ASSUME NEW f \in recorded' \ atRisk, NEW s \in Pending(r)'
      PROVE  f < s
  <2>1. CASE f \in recorded
    BY <1>2, <2>1 DEF RiskInv, SavesGoOn
  <2>2. CASE f = g
    <3>1. unsaved[r] = << >>
      BY <1>2, <2>2 DEF RiskInv, SavesGoOn
    <3>2. s \in Elements(saving'[r])
      BY <3>1, <1>1 DEF Pending, Elements
    <3>. QED BY <1>2, <2>2, <3>2
  <2>. QED BY <2>1, <2>2 DEF g
<1>6. SavesGoOn'
  BY <1>1, <1>2, <1>5 DEF RiskInv, SavesGoOn
<1>7. RowsGoOn'
  <2>1. \A f \in recorded \ atRisk : f < g
    BY <1>2 DEF RiskInv, SavesGoOn
  <2>2. g \in Nat /\ recorded \subseteq Nat
    BY <1>1, FilesAreNumbers DEF TypeOK
  <2>. QED BY <1>1, <2>1, <2>2 DEF RowsGoOn, g
<1>. QED BY <1>1, <1>4, <1>6, <1>7 DEF RiskInv

\* ... or is kept: the table is missing, or it failed and all that is kept is at risk.
LEMMA KeepingRisk ==
  ASSUME OneCommand, TypeOK, HistoryInv, RiskInv, NEW r \in Runners, SaveMigration(r),
         IF TableExists THEN Fault(Unrecorded) ELSE NoFault,
         unsaved' = [unsaved EXCEPT ![r] = Append(@, Head(saving[r]))],
         UNCHANGED <<recorded, newest>>
  PROVE  RiskInv'
<1> DEFINE g == Head(saving[r])
<1>1. /\ InEffect' = InEffect /\ TableExists' = TableExists /\ pc[r] = "saving" /\ g \in Files
      /\ UNCHANGED <<pc, file, upto, deployed, repeated, recorded, newest>>
      /\ saving[r] \in Seq(Files) /\ saving[r] # << >> /\ saving'[r] = Tail(saving[r])
      /\ unsaved[r] \in Seq(Files) /\ unsaved'[r] = Append(unsaved[r], g)
      /\ \A q \in Runners : q = r
  BY DEF OneCommand, TypeOK, SaveMigration, InEffect, TableExists
<1>2. /\ Elements(saving[r]) = {g} \cup Elements(saving'[r])
      /\ Elements(unsaved'[r]) = Elements(unsaved[r]) \cup {g}
      /\ Ascending(saving'[r]) /\ \A s \in Elements(saving'[r]) : g < s
      /\ Ascending(unsaved'[r])
  BY <1>1, SavesAsSequences, SavesInOrder DEF RiskInv, SavesGoOn
<1> HIDE DEF g
<1>3. Pending(r)' = Pending(r)
  BY <1>2 DEF Pending
<1>4. /\ atRisk \subseteq atRisk' /\ Unharmed' \subseteq Unharmed
      /\ ~TableExists => atRisk' = atRisk
      /\ TableExists => atRisk' = atRisk \cup Unrecorded
  BY <1>1 DEF Fault, NoFault, Unharmed
<1>5. faults' = 0 => atRisk' = {}
  BY FaultRisk
<1>6. TableExists => Pending(r) \subseteq atRisk'
  <2>1. ASSUME TableExists, NEW s \in Pending(r), s \notin atRisk'
        PROVE  FALSE
    <3>1. s \in InEffect
      BY DEF HistoryInv, SavesInEffect, Pending, Elements
    <3>2. s \in recorded \ atRisk
      BY <1>4, <2>1, <3>1 DEF Unrecorded
    <3>3. s < s /\ s \in Nat
      BY <3>2, FilesAreNumbers DEF TypeOK, RiskInv, SavesGoOn
    <3>. QED BY <3>3
  <2>. QED BY <2>1
<1>7. RunsGoOn' /\ SavesAreKept'
  BY <1>1, <1>3, <1>4 DEF RiskInv, RunsGoOn, SavesAreKept
<1>8. SavesGoOn'
  BY <1>1, <1>2, <1>3, <1>4, <1>6 DEF RiskInv, SavesGoOn
<1>9. RowsGoOn'
  BY <1>1, <1>4 DEF RiskInv, RowsGoOn
<1>. QED BY <1>1, <1>4, <1>5, <1>7, <1>8, <1>9 DEF RiskInv

\* The next file follows those that are in effect but not at risk.
LEMMA ProceedRisk ==
  ASSUME OneCommand, TypeOK, RiskInv, NEW r \in Runners, Proceed(r)
  PROVE  RiskInv'
<1>1. /\ InEffect' = InEffect /\ TableExists' = TableExists
      /\ pc[r] = "saving" /\ saving[r] = << >>
      /\ UNCHANGED <<recorded, newest, upto, saving, unsaved, deployed, repeated, faults, atRisk>>
      /\ pc'[r] = "operating" /\ file'[r] = file[r] + 1 /\ file[r] \in Nat
      /\ \A q \in Runners : q = r
  BY FilesAreNumbers DEF OneCommand, TypeOK, Proceed, InEffect, TableExists
<1>2. Unharmed' = Unharmed /\ Pending(r)' = Pending(r)
  BY <1>1 DEF Unharmed, Pending
<1>3. Unharmed \cup Pending(r) \subseteq Nat
  BY SavesAsSequences, FilesAreNumbers DEF TypeOK, Unharmed, InEffect, Pending
<1>4. RunsGoOn' /\ SavesAreKept'
  BY <1>1, <1>2, <1>3 DEF RiskInv, RunsGoOn, SavesAreKept
<1>5. SavesGoOn' /\ RowsGoOn'
  BY <1>1, <1>2 DEF RiskInv, SavesGoOn, RowsGoOn
<1>. QED BY <1>1, <1>4, <1>5 DEF RiskInv

\* One step.
LEMMA NextRisk ==
  ASSUME OneCommand, SafeTransactions, NewestFirst, TypeOK, HistoryInv, RiskInv, [Next]_vars
  PROVE  RiskInv'
<1>1. ASSUME UNCHANGED <<applied, recorded, newest, pc, file, upto, saving, unsaved, repeated,
                         faults, atRisk>>,
             TableFile <= deployed'
      PROVE  RiskInv'
  BY <1>1 DEF RiskInv, RunsGoOn, SavesAreKept, SavesGoOn, RowsGoOn, Unharmed, Pending,
              InEffect, TableExists
<1>2. CASE Deploy \/ UNCHANGED vars
  <2>1. TableFile <= deployed'
    BY <1>2, FilesAreNumbers DEF TypeOK, RiskInv, Deploy, vars
  <2>. QED BY <1>1, <1>2, <2>1 DEF Deploy, vars, runVars
<1>3. ASSUME NEW r \in Runners, OperationFails(r) \/ CommitFails(r)
      PROVE  RiskInv'
  <2>1. pc[r] = "operating" /\ (Fault(Unrecorded) \/ (NoFault /\ applied[file[r]] > 0))
    <3>1. /\ file[r] \in Files /\ applied \in [Files -> 0..NumOperations]
          /\ done[r] \in 0..NumOperations
      BY DEF TypeOK
    <3>2. applied[file[r]] \in 0..NumOperations /\ NumOperations \in Nat
      BY <3>1, FilesAreNumbers
    <3>3. done[r] + 1 > 0
      BY <3>1, <3>2
    <3>4. \/ Repeats(file[r], done[r] + 1) /\ NoFault
          \/ ~CanTakeEffect(file[r]) /\ NoFault
          \/ Fault(Unrecorded)
      BY <1>3 DEF OperationFails, CommitFails
    <3>5. pc[r] = "operating"
      BY <1>3 DEF OperationFails, CommitFails
    <3>. QED BY <3>1, <3>2, <3>4, <3>5, <3>3 DEF Repeats, CanTakeEffect
  <2>. QED BY <1>3, <2>1, RepeatedIsAtRisk, IdleRisk DEF OperationFails, CommitFails
<1>4. ASSUME NEW r \in Runners, Finish(r) \/ Crash(r)
      PROVE  RiskInv'
  BY <1>4, FinishedIsRecorded, IdleRisk DEF Finish, Crash, NoFault
<1>5. ASSUME NEW r \in Runners, Operate(r)
      PROVE  RiskInv'
  BY <1>1, <1>5 DEF Operate, RiskInv
<1>6. ASSUME NEW r \in Runners, SaveMigration(r)
      PROVE  RiskInv'
  BY <1>6, RecordingRisk, KeepingRisk DEF SaveMigration
<1>7. ~ \E c \in closing : LateCommit(c)
  BY DEF HistoryInv, NothingIsClosing
<1>. QED BY <1>2, <1>3, <1>4, <1>5, <1>6, <1>7, StartRisk, CommitRisk, ProceedRisk
         DEF Next, Step

\* One command at a time, whatever fails, agrees with its rows on all files but
\* those at risk.
LEMMA RiskCorrect ==
  ASSUME OneCommand, SafeTransactions, NewestFirst
  PROVE  Spec => []RiskInv
<1>1. Init => RiskInv
  <2>. SUFFICES ASSUME Init
                PROVE  RiskInv
    OBVIOUS
  <2>1. InEffect = {} /\ Elements(<< >>) = {} /\ Ascending(<< >>)
    BY DEF Init, InEffect, Elements, Ascending
  <2>. QED BY <2>1, FilesAreNumbers DEF Init, RiskInv, RunsGoOn, SavesAreKept, SavesGoOn,
                                        RowsGoOn, Unharmed, Pending
<1>2. TypeOK /\ HistoryInv /\ RiskInv /\ [Next]_vars => RiskInv'
  BY NextRisk
<1>. QED BY <1>1, <1>2, MigrateTypeCorrect, HistoryCorrect, PTL DEF Spec

\* Commands that run one at a time, on an adapter that orders its rows, only run a
\* file again if they failed or crashed while it was in effect without a row, or
\* could not read the last row (migrate/index.ts 62-63).
THEOREM RepeatsWereAtRisk ==
  ASSUME OneCommand, SafeTransactions, NewestFirst
  PROVE  Spec => []OnlyFilesAtRiskRunTwice
<1>1. RiskInv => OnlyFilesAtRiskRunTwice
  BY DEF RiskInv, OnlyFilesAtRiskRunTwice
<1>. QED BY <1>1, RiskCorrect, PTL

\* Such a command, if it does not fail, ends with a row for each of its files,
\* whichever of them creates the table (migrate/index.ts 28-29).
THEOREM RunsAreRecorded ==
  ASSUME OneCommand, SafeTransactions, NewestFirst
  PROVE  Spec => EveryRunIsRecorded
<1>1. TypeOK /\ HistoryInv /\ RiskInv /\ [Next]_vars =>
        \A r \in Runners :
          pc[r] = "saving" /\ pc'[r] = "idle" /\ faults' = 0 => 1..upto[r] \subseteq recorded'
  <2>. SUFFICES ASSUME TypeOK, HistoryInv, RiskInv, [Next]_vars, NEW r \in Runners,
                       pc[r] = "saving", pc'[r] = "idle", faults' = 0
                PROVE  1..upto[r] \subseteq recorded'
    OBVIOUS
  <2>1. faults = 0
    BY FaultsStay
  <2>2. ~Crash(r)
    BY <2>1 DEF Crash, Fault
  <2>3. ~UNCHANGED pc
    OBVIOUS
  <2>4. PICK q \in Runners : Start(q) \/ Commit(q) \/ OperationFails(q) \/ CommitFails(q)
                              \/ Proceed(q) \/ Finish(q) \/ Crash(q)
    BY <2>3 DEF Next, Deploy, Step, Operate, SaveMigration, LateCommit, vars, runVars
  <2>5. Finish(r)
    BY <2>2, <2>4 DEF OneCommand, TypeOK, Start, Commit, OperationFails, CommitFails, BeginSaving,
                      Proceed
  <2>6. Unharmed \subseteq recorded /\ recorded' = recorded
    BY <2>5, FinishedIsRecorded DEF Finish
  <2>7. 1..upto[r] \subseteq InEffect
    BY <2>5 DEF Finish, HistoryInv, RunsFollowEffect, EffectInOrder
  <2>. QED BY <2>1, <2>6, <2>7 DEF RiskInv, Unharmed
<1>. QED BY <1>1, RiskCorrect, MigrateTypeCorrect, HistoryCorrect, PTL DEF Spec, EveryRunIsRecorded

-----------------------------------------------------------------------------
(* Any adapter, as long as nothing fails of itself: an operation that finds its *)
(* own effects finds a whole file.                                             *)

\* What is still to be committed is a whole file, or part of one that is in effect.
PartsAreRepeated ==
  \A c \in closing : c.done = NumOperations \/ applied[c.file] = NumOperations

WholeInv == faults = 0 => AllOrNothing /\ PartsAreRepeated

\* A transaction that takes effect does so as a whole, or changes nothing.
LEMMA TakeEffectWhole ==
  ASSUME TypeOK, AllOrNothing, NEW f \in Files, NEW n \in 1..NumOperations, TakeEffect(f, n),
         n = NumOperations \/ applied[f] = NumOperations
  PROVE  /\ AllOrNothing'
         /\ \A g \in Files : applied[g] = NumOperations => applied'[g] = NumOperations
<1>1. applied \in [Files -> 0..NumOperations] /\ NumOperations \in Nat \ {0}
  BY FilesAreNumbers DEF TypeOK
<1>2. applied[f] \in Nat /\ applied[f] <= NumOperations /\ n \in Nat /\ n <= NumOperations
  BY <1>1
<1>3. (IF n > applied[f] THEN n ELSE applied[f]) = NumOperations
  BY <1>1, <1>2
<1>4. applied' = [applied EXCEPT ![f] = NumOperations]
  BY <1>3 DEF TakeEffect
<1>. QED BY <1>1, <1>4 DEF AllOrNothing

\* One step.
LEMMA NextWhole ==
  ASSUME TypeOK, WholeInv, [Next]_vars
  PROVE  WholeInv'
<1>. SUFFICES ASSUME faults' = 0
              PROVE  AllOrNothing' /\ PartsAreRepeated'
  BY DEF WholeInv
<1>1. faults = 0
  BY FaultsStay
<1>2. AllOrNothing /\ PartsAreRepeated
  BY <1>1 DEF WholeInv
<1>3. ASSUME UNCHANGED applied, closing' \subseteq closing
      PROVE  AllOrNothing' /\ PartsAreRepeated'
  BY <1>2, <1>3 DEF AllOrNothing, PartsAreRepeated
<1>4. ASSUME NEW r \in Runners, OperationFails(r)
      PROVE  AllOrNothing' /\ PartsAreRepeated'
  <2>1. Repeats(file[r], done[r] + 1)
    BY <1>1, <1>4 DEF OperationFails, Fault
  <2>2. file[r] \in Files /\ applied[file[r]] = NumOperations
    <3>1. file[r] \in Files /\ applied \in [Files -> 0..NumOperations] /\ done[r] \in 0..NumOperations
      BY DEF TypeOK
    <3>2. applied[file[r]] # 0
      BY <2>1, <3>1, FilesAreNumbers DEF Repeats
    <3>. QED BY <1>2, <3>1, <3>2 DEF AllOrNothing
  <2>3. \A c \in Closing(r) : c.file = file[r]
    BY DEF Closing
  <2>. QED BY <1>2, <1>4, <2>2, <2>3 DEF OperationFails, AllOrNothing, PartsAreRepeated
<1>5. ASSUME NEW r \in Runners, Commit(r)
      PROVE  AllOrNothing' /\ PartsAreRepeated'
  <2>1. file[r] \in Files /\ NumOperations \in 1..NumOperations /\ done[r] = NumOperations
    BY <1>5, FilesAreNumbers DEF TypeOK, Commit
  <2>2. CASE SafeTransactions
    <3>1. TakeEffect(file[r], NumOperations) /\ closing' = closing
      BY <1>5, <2>2 DEF Commit
    <3>2. /\ AllOrNothing'
          /\ \A g \in Files : applied[g] = NumOperations => applied'[g] = NumOperations
      BY <1>2, <2>1, <3>1, TakeEffectWhole
    <3>3. \A c \in closing : c.file \in Files
      BY DEF TypeOK
    <3>. QED BY <1>2, <3>1, <3>2, <3>3 DEF PartsAreRepeated
  <2>3. CASE ~SafeTransactions
    <3>1. UNCHANGED applied /\ closing' = closing \cup Closing(r)
      BY <1>5, <2>3 DEF Commit
    <3>2. \A c \in Closing(r) : c.done = NumOperations
      BY <2>1 DEF Closing
    <3>. QED BY <1>2, <3>1, <3>2 DEF AllOrNothing, PartsAreRepeated
  <2>. QED BY <2>2, <2>3
<1>6. ASSUME NEW c \in closing, LateCommit(c)
      PROVE  AllOrNothing' /\ PartsAreRepeated'
  <2>1. c.file \in Files /\ c.done \in 1..NumOperations /\ closing' \subseteq closing
    BY <1>6 DEF TypeOK, LateCommit
  <2>2. CASE UNCHANGED applied
    BY <1>3, <2>1, <2>2
  <2>3. CASE TakeEffect(c.file, c.done)
    <3>1. /\ AllOrNothing'
          /\ \A g \in Files : applied[g] = NumOperations => applied'[g] = NumOperations
      BY <1>2, <2>1, <2>3, TakeEffectWhole DEF PartsAreRepeated
    <3>2. \A d \in closing : d.file \in Files
      BY DEF TypeOK
    <3>. QED BY <1>2, <2>1, <3>1, <3>2 DEF PartsAreRepeated
  <2>. QED BY <1>6, <2>2, <2>3 DEF LateCommit
<1>. QED BY <1>3, <1>4, <1>5, <1>6 DEF Next, Deploy, Step, Start, Operate, CommitFails,
              SaveMigration, Proceed, Finish, Crash, vars

\* With the shipped adapters too a file is never half applied unless a statement
\* fails of itself or a command crashes, however many commands run at once
\* (migrate/migration.ts 76-80).
THEOREM FilesAreWholeUnlessFaulty == Spec => []WholeUnlessFaulty
<1>1. Init => WholeInv
  BY DEF Init, WholeInv, AllOrNothing, PartsAreRepeated
<1>2. TypeOK /\ WholeInv /\ [Next]_vars => WholeInv'
  BY NextWhole
<1>3. WholeInv => WholeUnlessFaulty
  BY DEF WholeInv, WholeUnlessFaulty
<1>. QED BY <1>1, <1>2, <1>3, MigrateTypeCorrect, PTL DEF Spec
=============================================================================
