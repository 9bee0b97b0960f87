------------------------------ MODULE ModelDiff ------------------------------
(***************************************************************************)
(* The class MakeMigrations (databases/src/migrations/makemigrations): the *)
(* operations that lead from the models of the migration files (states) to *)
(* the models of the project (originals), the order they are written in,   *)
(* and the files they are split into.                                      *)
(*                                                                         *)
(* Both lists hold [name, domain, definition], in the order of the object  *)
(* they come from.  What the user would answer to "did you rename x to..." *)
(* is a function "answer" from every name to a name or None.               *)
(***************************************************************************)
EXTENDS ModelState, TLC

Missing(here, there) == SelectSeq(here, LAMBDA e : e.name \notin Names(there))

\* The renames the user confirms, in the order of the questions.  Lists of one
\* length: only the first new name is offered, with yes or no.  Otherwise: all
\* the new names that are still free.  A number that is not on the list answers
\* undefined (asker.ts, 34), at which #callbackIfRenamed throws: the command ends
\* before it writes a file, which is the state it began in, and is left out.
Offered(originals, states, taken) ==
  LET free == SelectSeq(Missing(originals, states), LAMBDA e : e.name \notin taken)
  IN IF Len(originals) = Len(states) THEN {free[1].name} ELSE Names(free)

Ask(originals, states, answer) ==
  FoldLeft(LAMBDA to, e :
             to @@ (e.name :> IF answer[e.name] \in Offered(originals, states, Range(to))
                              THEN answer[e.name] ELSE None),
           <<>>, Missing(states, originals))

\* The list of states once the confirmed renames are applied to it.
Renamed(states, to) ==
  [i \in DOMAIN states |->
     IF states[i].name \in DOMAIN to /\ to[states[i].name] # None
     THEN [name |-> to[states[i].name], entry |-> states[i]]
     ELSE [name |-> states[i].name, entry |-> states[i]]]

\* #getOperationsFromModelsOrFields, for models and for the fields of a model:
\* which are stale, and renamed or deleted, which are new, which may have changed.
Differences(originals, states, answer) ==
  LET to == Ask(originals, states, answer)
      renamed == Renamed(states, to)
      Stale(s) == IF to[s.name] = None THEN [kind |-> "delete", state |-> s]
                  ELSE [kind |-> "rename", state |-> s, original |-> At(originals, to[s.name])]
      Listed(o) == IF o.name \in Names(renamed)
                   THEN [kind |-> "change", original |-> o, state |-> At(renamed, o.name).entry]
                   ELSE [kind |-> "create", original |-> o]
      Each(list) == [i \in DOMAIN list |-> Listed(list[i])]
      missing == Missing(states, originals)
      stale == [i \in DOMAIN missing |-> Stale(missing[i])]
  IN IF Len(originals) = Len(states)
     THEN stale \o Each(originals)
     ELSE Each(SelectSeq(originals, LAMBDA o : o.name \in Names(states)))
          \o stale \o Each(Missing(originals, states))

-----------------------------------------------------------------------------
(* The operations, as they are written to the file.                         *)

FieldEntries(e) ==
  [i \in 1..Cardinality(DOMAIN e.definition.fields) |->
     LET f == SetToSeq(DOMAIN e.definition.fields)[i]
     IN [name |-> f, version |-> e.definition.fields[f]]]

FieldOperations(original, state, answer) ==
  LET Op(kind, e) == [kind |-> kind, model |-> e.name, domain |-> e.domain]
      Version(f) == [field |-> f.name, version |-> f.version]
      Ops(d) ==
        CASE d.kind = "create" -> <<Op("CreateField", original) @@ Version(d.original)>>
          [] d.kind = "delete" -> <<Op("DeleteField", state) @@ [field |-> d.state.name]>>
          [] d.kind = "rename" ->
               <<Op("RenameField", original)
                   @@ [before |-> d.state.name, after |-> d.original.name,
                       version |-> d.original.version]>>
          [] d.kind = "change" ->
               IF d.original.version = d.state.version THEN <<>>
               ELSE <<Op("ChangeField", original) @@ Version(d.original)>>
      differences == Differences(FieldEntries(original), FieldEntries(state), answer)
  IN FlattenSeq([i \in DOMAIN differences |-> Ops(differences[i])])

CreateModel(o) ==
  <<[kind |-> "CreateModel", model |-> o.name, domain |-> o.domain, definition |-> o.definition]>>
DeleteModel(s) == <<[kind |-> "DeleteModel", model |-> s.name, domain |-> s.domain]>>

\* The file gets the old name twice.
RenameModel(s, o) ==
  <<[kind |-> "RenameModel", model |-> o.name, domain |-> o.domain,
     before |-> s.name, after |-> s.name]>>

\* #modelWasUpdated: the operations on the fields come before the change of options.
ChangeModel(original, state, answer) ==
  FieldOperations(original, state, answer)
  \o IF original.definition.options = state.definition.options THEN <<>>
     ELSE <<[kind |-> "ChangeModel", model |-> original.name, domain |-> original.domain,
             options |-> original.definition.options]>>

ModelOperations(originals, states, answer) ==
  LET Ops(d) ==
        CASE d.kind = "create" -> CreateModel(d.original)
          [] d.kind = "delete" -> DeleteModel(d.state)
          [] d.kind = "rename" -> RenameModel(d.state, d.original)
          [] d.kind = "change" -> ChangeModel(d.original, d.state, answer)
      differences == Differences(originals, states, answer)
  IN FlattenSeq([i \in DOMAIN differences |-> Ops(differences[i])])

-----------------------------------------------------------------------------
(* #reorderOperations: as long as operations are pending, a pass takes those *)
(* whose related models have an operation before them.  A pass after one     *)
(* that took nothing takes its last operation whatever it is related to.     *)

\* The models by name, as the renames have left them.
ModelsByName(originals, states, answer) ==
  LET renamed == Renamed(states, Ask(originals, states, answer))
  IN [m \in Names(originals) \cup Names(renamed) |->
        IF m \in Names(originals) THEN At(originals, m) ELSE At(renamed, m).entry]

AlwaysGoes(op, done, models) == TRUE  \* mutant
CanGo(op, done, models) ==
  LET model == models[op.model]
  IN Related(model.definition) \subseteq {done[i].model : i \in DOMAIN done} \cup {model.name}

Pass(pending, ordered, models, previous) ==
  FoldLeft(LAMBDA acc, i :
             IF \/ CanGo(pending[i], acc.ordered, models)
                \/ i = Len(pending) /\ previous = Len(acc.ordered)
             THEN [acc EXCEPT !.ordered = Append(@, pending[i])]
             ELSE [acc EXCEPT !.pending = Append(@, pending[i])],
           [ordered |-> ordered, pending |-> <<>>], [i \in DOMAIN pending |-> i])

RECURSIVE Passes(_, _, _, _)
Passes(pending, ordered, models, previous) ==
  IF pending = <<>> THEN ordered
  ELSE LET pass == Pass(pending, ordered, models, previous)
       IN Passes(pass.pending, pass.ordered, models, Len(pass.ordered))

\* Before the first pass no number of operations is known: None.
ReorderOperations(ops, models) == Passes(ops, <<>>, models, None)

\* The reordering reads the related models of the model of each operation, and
\* throws if there is no such model.
CanReorder(ops, models) == \A i \in DOMAIN ops : ops[i].model \in DOMAIN models

\* generateFiles: a file for each stretch of operations of one domain.
FilesOf(ops) ==
  FoldLeft(LAMBDA chunks, op :
             IF chunks # <<>> /\ Last(chunks).domain = op.domain
             THEN [chunks EXCEPT ![Len(chunks)].operations = Append(@, op)]
             ELSE Append(chunks, [domain |-> op.domain, operations |-> <<op>>]),
           <<>>, ops)
=============================================================================
