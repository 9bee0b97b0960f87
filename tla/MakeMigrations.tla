--------------------------- MODULE MakeMigrations ---------------------------
(***************************************************************************)
(* The life of a project between two migrations: developers edit its       *)
(* models, and run the command makemigrations, which replays the migration *)
(* files, compares, asks, and writes the missing files one after the other *)
(* (_run, buildAndRun, generateFiles).  The command may be stopped between *)
(* two files.                                                              *)
(***************************************************************************)
EXTENDS ModelDiff

CONSTANTS
  NewDefinitions, \* the definitions a model is first written with
  MaxEdits,       \* bound: edits of the project
  MaxFieldEdits,  \* bound: those that edit the fields or options of a model
  MaxRuns,        \* bound: runs of the command after one edit
  MaxStops        \* bound: runs stopped half way

VARIABLES
  project,     \* the models the project lists
  files,       \* the migration files, in the order they were written
  recorded,    \* the models as the files say they are
  plan,        \* the files the running command has still to write
  last,        \* the name the next file depends on
  failed,      \* some run of the command threw
  upToDate,    \* the last run ended by itself, and nothing was edited since
  edited,      \* the models edited after a file had recorded them
  edits, fieldEdits, runs, stops

vars == <<project, files, recorded, plan, last, failed, upToDate, edited,
          edits, fieldEdits, runs, stops>>

Init ==
  /\ project = <<>> /\ files = <<>> /\ recorded = <<>> /\ plan = <<>> /\ last = 0
  /\ failed = FALSE /\ upToDate = TRUE /\ edited = {}
  /\ edits = 0 /\ fieldEdits = 0 /\ runs = 0 /\ stops = 0

-----------------------------------------------------------------------------
(* The developers.  The models they keep relate to models they keep.        *)

\* The models whose recorded definition the edit leaves behind.
Edit(models) ==
  /\ plan = <<>> /\ edits < MaxEdits
  /\ edits' = edits + 1
  /\ upToDate' = FALSE /\ runs' = 0
  /\ edited' = edited \cup (models \cap Names(recorded))
  /\ UNCHANGED <<files, recorded, plan, last, failed, stops>>

ListModel(m, definition, i) ==
  /\ m \notin Names(project)
  /\ Related(definition) \subseteq Names(project) \cup {m}
  /\ project' = InsertAt(project, i, [name |-> m, domain |-> DomainOf[m],
                                      definition |-> definition])
  /\ Edit({m}) /\ UNCHANGED fieldEdits

IsRelatedTo(m) == \E o \in ToSet(project) : m \in Related(o.definition)

DropModel(m) ==
  /\ m \in Names(project) /\ ~IsRelatedTo(m)
  /\ project' = SelectSeq(project, LAMBDA o : o.name # m)
  /\ Edit({}) /\ UNCHANGED fieldEdits

CallModel(m, n) ==
  /\ m \in Names(project) /\ ~IsRelatedTo(m) /\ n \notin Names(project)
  /\ project' = [i \in DOMAIN project |->
                   IF project[i].name = m
                   THEN [project[i] EXCEPT !.name = n, !.domain = DomainOf[n]]
                   ELSE project[i]]
  /\ Edit({n}) /\ UNCHANGED fieldEdits

Definition(m) == At(project, m).definition

Define(m, definition) ==
  /\ fieldEdits < MaxFieldEdits
  /\ fieldEdits' = fieldEdits + 1
  /\ project' = [i \in DOMAIN project |->
                   IF project[i].name = m THEN [project[i] EXCEPT !.definition = definition]
                                          ELSE project[i]]
  /\ Edit({m})

SetField(m, f, version) ==
  /\ m \in Names(project)
  /\ RelatedTo[f] \in Names(project) \cup {None}
  /\ ~(f \in DOMAIN Definition(m).fields /\ Definition(m).fields[f] = version)
  /\ Define(m, WithField(Definition(m), f, version))

DropField(m, f) ==
  /\ m \in Names(project) /\ f \in DOMAIN Definition(m).fields
  /\ Define(m, WithoutField(Definition(m), f))

CallField(m, f, g) ==
  /\ m \in Names(project) /\ f \in DOMAIN Definition(m).fields
  /\ RelatedTo[g] \in Names(project) \cup {None}
  /\ g \notin DOMAIN Definition(m).fields
  /\ Define(m, WithField(WithoutField(Definition(m), f), g, Definition(m).fields[f]))

SetOptions(m) ==
  /\ m \in Names(project)
  /\ Define(m, [Definition(m) EXCEPT !.options = 1 - @])

-----------------------------------------------------------------------------
(* The command.                                                             *)

\* Whatever the user may answer: a model may only become a new one, a field
\* any other field.
Answers ==
  LET models == Names(Missing(recorded, project))
      fields == {f \in Fields : /\ \E s \in ToSet(recorded) : f \in DOMAIN s.definition.fields
                                /\ \E o \in ToSet(project) : f \notin DOMAIN o.definition.fields}
  IN {a @@ b @@ [x \in Models \cup Fields |-> None] :
        a \in [models -> Names(Missing(project, recorded)) \cup {None}],
        b \in [fields -> Fields \cup {None}]}

NoChangesMade(ops) ==
  /\ ops = <<>>
  /\ upToDate' = TRUE
  /\ UNCHANGED <<plan, last, failed>>

RunThrows(ops, models) ==
  /\ ~CanReorder(ops, models)
  /\ failed' = TRUE
  /\ UNCHANGED <<plan, last, upToDate>>

FindChanges(ops, models) ==
  /\ ops # <<>> /\ CanReorder(ops, models)
  /\ plan' = FilesOf(ReorderOperations(ops, models))
  /\ last' = IF files = <<>> THEN 0 ELSE Last(GetMigrations(files)).name
  /\ upToDate' = FALSE
  /\ UNCHANGED failed

RunCommand ==
  /\ plan = <<>> /\ runs < MaxRuns
  /\ \E answer \in Answers :
       LET ops == ModelOperations(project, recorded, answer)
           models == ModelsByName(project, recorded, answer)
       IN NoChangesMade(ops) \/ RunThrows(ops, models) \/ FindChanges(ops, models)
  /\ runs' = runs + 1
  /\ UNCHANGED <<project, files, recorded, edited, edits, fieldEdits, stops>>

GenerateMigrationFile ==
  /\ plan # <<>>
  /\ LET file == [name |-> Len(files) + 1, dependsOn |-> last] @@ Head(plan)
         written == Append(files, file)
     IN /\ files' = written
        /\ recorded' = StateModels(written)
        /\ last' = file.name
  /\ plan' = Tail(plan)
  /\ upToDate' = (Tail(plan) = <<>>)
  /\ UNCHANGED <<project, failed, edited, edits, fieldEdits, runs, stops>>

\* The command ends between two files: those it has written stay.
Stop ==
  /\ plan # <<>> /\ stops < MaxStops
  /\ stops' = stops + 1
  /\ plan' = <<>>
  /\ UNCHANGED <<project, files, recorded, last, failed, upToDate, edited, edits, fieldEdits, runs>>

Edits ==
  \/ \E m \in Models, definition \in NewDefinitions, i \in 1..Len(project) + 1 :
       ListModel(m, definition, i)
  \/ \E m \in Models : DropModel(m) \/ SetOptions(m)
  \/ \E m, n \in Models : CallModel(m, n)
  \/ \E m \in Models, f \in Fields, version \in 1..2 : SetField(m, f, version)
  \/ \E m \in Models, f \in Fields : DropField(m, f)
  \/ \E m \in Models, f, g \in Fields : CallField(m, f, g)

Command == RunCommand \/ GenerateMigrationFile

Next == Edits \/ Command \/ Stop

Spec == Init /\ [][Next]_vars

\* A run goes on once it has started, and the developers run the command again
\* until it finds nothing to do.
\* This is WF_vars(Command), with CanRun for ENABLED <<Command>>_vars: a run
\* always ends in one of its three ways, and counts itself.
CanRun == plan # <<>> \/ runs < MaxRuns
Fairness == []<>~CanRun \/ []<><<Command>>_vars

FairSpec == Spec /\ Fairness
-----------------------------------------------------------------------------
\* Types, and a bound on the files: one for each stretch of operations.
TypeOK ==
  /\ Names(project) \subseteq Models
  /\ \A o \in ToSet(project) : /\ o.domain = DomainOf[o.name]
                               /\ DOMAIN o.definition.fields \subseteq Fields
  /\ \A i \in DOMAIN files : files[i].name = i /\ files[i].operations # <<>>
  /\ last \in 0..Len(files)
  /\ recorded = StateModels(files)
  /\ failed \in BOOLEAN /\ upToDate \in BOOLEAN /\ edited \subseteq Models

\* The files of one domain are run in the order they were written.
KeepsDomainOrder(order) ==
  \A i, j \in DOMAIN order :
    i < j /\ order[i].domain = order[j].domain => order[i].name < order[j].name

\* Every file comes after the one it depends on.
DependenciesComeFirst(order) ==
  \A i \in DOMAIN order :
    order[i].dependsOn = 0 \/ \E j \in 1..i - 1 : order[j].name = order[i].dependsOn

\* "just start from the first migration to the last and modify the model based on
\* that [...] The order of the migrations is crucial for this to work"
\* (migrations/actions/operation.ts 19-25): the files of each domain are replayed
\* from the first to the last, wherever those of the other domains go.
FirstToLast == KeepsDomainOrder(GetMigrations(files))

\* The files were never run in an order their dependencies forbid.
NeverMixedUp ==
  \A n \in 1..Len(files) : DependenciesComeFirst(GetMigrations(SubSeq(files, 1, n)))

HasRename == \E i \in DOMAIN files : \E j \in DOMAIN files[i].operations :
               files[i].operations[j].kind = "RenameModel"

\* After a run that ended by itself the files say what the project says, for
\* every model nobody edited once it was recorded, as long as no model rename
\* was confirmed: whatever was added, dropped, listed in another order or
\* answered, and whatever run was stopped half way before.
UneditedModelsAreRecorded ==
  upToDate /\ ~HasRename /\ NeverMixedUp =>
    /\ Names(recorded) = Names(project)
    /\ \A m \in Names(project) \ edited : At(recorded, m).definition = Definition(m)

\* Running all the files on an empty database, in the order they are found,
\* never creates a table that is there nor drops one that is not.
RunsOnAnEmptyDatabase(migrations) ==
  LET Step(db, op) ==
        IF op.kind = "CreateModel"
        THEN [tables |-> db.tables \cup {op.model}, ok |-> db.ok /\ op.model \notin db.tables]
        ELSE IF op.kind = "DeleteModel"
        THEN [tables |-> db.tables \ {op.model}, ok |-> db.ok /\ op.model \in db.tables]
        ELSE db
      Run1(db, file) == FoldLeft(Step, db, file.operations)
  IN FoldLeft(Run1, [tables |-> {}, ok |-> TRUE], migrations).ok

TablesAreMadeOnce == ~HasRename /\ NeverMixedUp => RunsOnAnEmptyDatabase(GetMigrations(files))

Flat(chunks) == FoldLeft(LAMBDA ops, c : ops \o c.operations, <<>>, chunks)

\* When a run only creates models, and creates every model they are related to,
\* without a circle, each model comes after those it is related to.
CanBeOrdered(ops) ==
  \E rank \in [{ops[i].model : i \in DOMAIN ops} -> 1..Len(ops)] :
    \A i \in DOMAIN ops : \A r \in Related(ops[i].definition) \ {ops[i].model} :
      r \in DOMAIN rank /\ rank[r] < rank[ops[i].model]

IsInOrder(ops) ==
  \A i \in DOMAIN ops : \A r \in Related(ops[i].definition) \ {ops[i].model} :
    \E j \in 1..i - 1 : ops[j].model = r

RelatedModelsComeFirst ==
  [][LET ops == Flat(plan')
     IN plan = <<>> /\ plan' # <<>> /\ (\A i \in DOMAIN ops : ops[i].kind = "CreateModel") /\ CanBeOrdered(ops)
          => IsInOrder(ops)]_vars

\* Unless a run throws, the files come to list exactly the models of the
\* project once the developers leave it alone and run the command a few times:
\* a rename, confirmed rightly or wrongly, loses the model only until the next run.
NamesSettle == <>[](Names(recorded) = Names(project)) \/ <>(failed \/ ~NeverMixedUp)

\* What the docs say of the command: it knows exactly what has changed, so once
\* it has recorded a change it has nothing more to record.
NothingIsLeft ==
  upToDate => \A answer \in Answers : ModelOperations(project, recorded, answer) = <<>>
=============================================================================
