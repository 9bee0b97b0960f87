----------------------------- MODULE ModelState -----------------------------
(***************************************************************************)
(* What the migration files say of the models: the order the files are put *)
(* in once they are found (databases/src/migrations/index.ts), the replay  *)
(* of their operations (state.ts, actions/models.ts, actions/fields.ts)    *)
(* and the models the replayed state is turned into.                       *)
(*                                                                         *)
(* An operation is a record [kind, model, domain, ...] as a migration file *)
(* holds it.  A file is [name, domain, dependsOn, operations]; its name is *)
(* the number of the file in the order the files were written, and 0 is    *)
(* the empty dependsOn of the first one.                                   *)
(***************************************************************************)
EXTENDS Naturals, Sequences, SequencesExt, FiniteSets

CONSTANTS
  Models,     \* the names a model may have
  Fields,     \* the names a field may have
  Domains,    \* the domains of the project, in the order of the settings
  DomainOf,   \* the domain a model is listed in
  RelatedTo,  \* the model a field is a foreign key to, or None
  None

ASSUME ModelStateAssumption ==
  /\ None \notin Models \cup Fields
  /\ DomainOf \in [Models -> ToSet(Domains)]
  /\ RelatedTo \in [Fields -> Models \cup {None}]

\* The definition of a model: its fields, each with the version of its
\* arguments, and the version of its options.
Empty == [fields |-> <<>>, options |-> 0]

WithField(def, field, version) ==
  [def EXCEPT !.fields = [f \in DOMAIN @ \cup {field} |->
                            IF f = field THEN version ELSE @[f]]]
WithoutField(def, field) ==
  [def EXCEPT !.fields = [f \in DOMAIN @ \ {field} |-> @[f]]]

\* __directlyRelatedTo of a model with these fields.
Related(def) == {RelatedTo[f] : f \in DOMAIN def.fields} \ {None}

-----------------------------------------------------------------------------
(* The class State: modelsByName in insertion order.  "made" is what the    *)
(* class of a state model holds (__lazyFields, __lazyOptions), "edited"     *)
(* what its instance holds (fields, options).                               *)

Names(entries) == {entries[i].name : i \in DOMAIN entries}
At(entries, name) == SelectSeq(entries, LAMBDA e : e.name = name)[1]

NewModel(name) ==
  [name |-> name, original |-> name, domain |-> None, made |-> Empty, edited |-> Empty]

Get(state, name) == IF name \in Names(state) THEN At(state, name) ELSE NewModel(name)

SetModel(state, entry) ==
  IF entry.name \in Names(state)
  THEN [i \in DOMAIN state |-> IF state[i].name = entry.name THEN entry ELSE state[i]]
  ELSE Append(state, entry)

RemoveModel(state, name) == SelectSeq(state, LAMBDA e : e.name # name)

\* stateForwards of each operation, in a file of this domain.
CreatesOnInstance(state, op, domain) ==  \* mutant
  SetModel(state, [Get(state, op.model) EXCEPT !.domain = domain, !.edited = op.definition])
CreateModelForwards(state, op, domain) ==
  SetModel(state, [Get(state, op.model) EXCEPT !.domain = domain, !.made = op.definition])

DeletesNothing(state, op) == state  \* mutant
DeleteModelForwards(state, op) == RemoveModel(state, op.model)

ChangeModelForwards(state, op, domain) ==
  SetModel(state, [Get(state, op.model) EXCEPT !.domain = domain, !.edited.options = op.options])

RenameKeepsOld(state, op, domain) ==  \* mutant
  SetModel(state, [Get(state, op.before) EXCEPT !.name = op.after, !.domain = domain])
RenameModelForwards(state, op, domain) ==
  RemoveModel(SetModel(state, [Get(state, op.before) EXCEPT !.name = op.after, !.domain = domain]),
              op.before)

PutFieldForwards(state, op, domain) ==
  SetModel(state, [Get(state, op.model) EXCEPT !.domain = domain,
                                               !.edited = WithField(@, op.field, op.version)])

DeleteFieldForwards(state, op, domain) ==
  SetModel(state, [Get(state, op.model) EXCEPT !.domain = domain,
                                               !.edited = WithoutField(@, op.field)])

RenameFieldForwards(state, op, domain) ==
  SetModel(state, [Get(state, op.model) EXCEPT
    !.domain = domain,
    !.edited = WithField(WithoutField(@, op.before), op.after, op.version)])

StateForwards(state, op, domain) ==
  CASE op.kind = "CreateModel" -> CreateModelForwards(state, op, domain)
    [] op.kind = "DeleteModel" -> DeleteModelForwards(state, op)
    [] op.kind = "ChangeModel" -> ChangeModelForwards(state, op, domain)
    [] op.kind = "RenameModel" -> RenameModelForwards(state, op, domain)
    [] op.kind \in {"CreateField", "ChangeField"} -> PutFieldForwards(state, op, domain)
    [] op.kind = "DeleteField" -> DeleteFieldForwards(state, op, domain)
    [] op.kind = "RenameField" -> RenameFieldForwards(state, op, domain)

\* State.buildState: every operation of every file, in the order given.
BuildState(files) ==
  FoldLeft(LAMBDA state, file :
             FoldLeft(LAMBDA s, op : StateForwards(s, op, file.domain), state, file.operations),
           <<>>, files)

\* initializeStateModels: one new class for each model of the state, made from
\* what its old class holds.
Initialized(state) ==
  [i \in DOMAIN state |-> [name |-> state[i].original, domain |-> state[i].domain,
                           definition |-> state[i].made]]

-----------------------------------------------------------------------------
(* The class Migrations: the files are found domain by domain, in the order *)
(* each domain's getMigrations lists its own, which is the order they were  *)
(* written in.  (A domain without getMigrations has its directory imported, *)
(* file by file, in whatever order the imports settle: not modelled.)       *)

FoundFiles(files) ==
  FoldLeft(LAMBDA found, d : found \o SelectSeq(files, LAMBDA f : f.domain = d), <<>>, Domains)

\* A file goes right after the one it depends on, if that one is in the list
\* already and not at its very beginning: an index of 0 is taken for a missing one.
PlaceFile(acc, file) ==
  LET isPlaced == /\ file.dependsOn \in DOMAIN acc.reference
                  /\ acc.reference[file.dependsOn] # 0
      index == IF isPlaced THEN acc.reference[file.dependsOn] + 1 ELSE Len(acc.order)
  IN [order |-> InsertAt(acc.order, index + 1, file),
      reference |-> [n \in DOMAIN acc.reference \cup {file.name} |->
                       IF n = file.name THEN index ELSE acc.reference[n]]]

ReorderMigrations(found) ==
  FoldLeft(PlaceFile, [order |-> <<>>, reference |-> <<>>], found).order

GetMigrations(files) == ReorderMigrations(FoundFiles(files))

\* The models as the files say they are.
StateModels(files) == Initialized(BuildState(GetMigrations(files)))
=============================================================================
