------------------------------ MODULE QuerySets ------------------------------
(***************************************************************************)
(* A query with joins (databases/src/queries/queryset.ts).  The database is *)
(* asked once per query set, and the rows are put together in memory.  What *)
(* a join has to offer restricts its parent if the join is queried before   *)
(* it; otherwise what the parent has restricts the join.  Either way the    *)
(* keys travel as `in` clauses, and rows find each other through maps:      *)
(* "relations" for joins queried before, "mappings" for those after.        *)
(*                                                                         *)
(* The query set of each join has a table of its own.  A join that is       *)
(* direct has its foreign key, named like the join, in the table of the     *)
(* parent, any other in its own.                                            *)
(***************************************************************************)
EXTENDS Naturals, Sequences, FiniteSets, FiniteSetsExt, SequencesExt

CONSTANTS
  Root,       \* the query set a manager is given
  Joins,      \* the others, in the order they were joined
  None,
  MaxId,      \* bound: rows of a table
  Matching,   \* the ids of the rows a where on another field than the key accepts
  Queries,    \* the queries that may be asked
  Databases   \* what the database may hold

JoinSet == ToSet(Joins)
Nodes == {Root} \cup JoinSet

Id == "id"
Name == "name"
Fields == {Id, Name} \cup JoinSet
Values == 0..MaxId   \* 0 is null

ASSUME QuerySetsAssumptions ==
  /\ Root \notin JoinSet /\ None \notin Nodes \cup Fields /\ {Id, Name} \cap Nodes = {} /\ MaxId \in Nat
  /\ Joins \in Seq(JoinSet) /\ \A i, k \in DOMAIN Joins : Joins[i] = Joins[k] => i = k
  /\ \A q \in Queries :
       /\ q.type \in {"get", "set", "remove"}
       /\ \A i \in DOMAIN Joins : q.parent[Joins[i]] \in {Root} \cup {Joins[k] : k \in 1..i - 1}
       /\ q.where \in [Nodes -> {"none", "name", "id", "in"}] /\ q.data \in [Nodes -> Nat]
       /\ q.type # "set" => q.data = [n \in Nodes |-> 0]
       /\ q.direct \subseteq JoinSet
       /\ q.last \subseteq Nodes /\ q.removes \subseteq Nodes /\ q.omits \subseteq Nodes
  /\ \A d \in Databases : \A r \in d :
       r.table \in Nodes /\ r.id \in 1..MaxId /\ r.keys \in [JoinSet -> Values]

VARIABLES
  query,       \* [type, parent, direct, where, last, data, removes, omits]
  database,    \* rows [table, id, keys]
  hasSearch,   \* __hasSearch
  where,       \* __query.where: from each field to its clause
  data,        \* __query.data: the foreign keys of each row to write
  stage,       \* of __queryTheData of each query set
  before,      \* the joins in toQueryBeforeBase
  continued,   \* those whose parent went on
  threads,     \* <<n, j>>: n queried itself for its join j, or for itself
  fetched,     \* [of, for, rows]: what such a query returned
  cached,      \* __cachedData
  handed,      \* whose mappings a query set was handed as mapTo
  mappings,    \* [value, object] of each query set
  relations,   \* [field, value, join, object] of each query set
  childFilter, \* toFilterOnChildModelAsSet
  parentFilter,\* toFilterOnParentModelAsSet of each join
  links,       \* [from, join, to]: the relations assigned to the objects
  outcome,
  was, updated \* history: the rows before the query, the rows it updated

builderVars == <<hasSearch, where, data>>
memoryVars == <<handed, mappings, relations, childFilter, parentFilter, links>>
vars == <<query, database, builderVars, stage, before, continued, threads, fetched, cached,
          memoryVars, outcome, was, updated>>

JoinedTo(q, n) == {c \in JoinSet : q.parent[c] = n}
JoinsOf(n) == JoinedTo(query, n)
IsEarlier(c, d) == \E i, k \in DOMAIN Joins : i < k /\ Joins[i] = c /\ Joins[k] = d
Before(n) == JoinsOf(n) \cap before
After(n) == JoinsOf(n) \ before

\* fromCurrentModelsFieldData and fieldNameOnRelationToFilter of a join.
FieldHere(c) == IF c \in query.direct THEN c ELSE Id
FieldThere(c) == IF c \in query.direct THEN Id ELSE c
Value(row, field) == IF field \in {Id, Name} THEN row.id ELSE row.keys[field]

-----------------------------------------------------------------------------
(* What the calls of join, where, data and remove have made of the query.   *)

Clauses(q, n) ==
  CASE q.where[n] = "none" -> << >>
    [] q.where[n] = "name" -> [f \in {Name} |-> [in |-> FALSE, values |-> Matching]]
    [] q.where[n] = "id"   -> [f \in {Id} |-> [in |-> FALSE, values |-> {1}]]
    [] q.where[n] = "in"   -> [f \in {Id} |-> [in |-> TRUE, values |-> {1, 2}]]

\* join makes a new query set that takes __hasSearch only from what is joined.
HasSearch(q) ==
  LET built[n \in Nodes] ==
        LET joined == JoinedTo(q, n)
        IN \/ q.where[n] # "none" /\ (joined = {} \/ n \in q.last)
           \/ \E c \in joined : built[c] /\ \A d \in joined : ~IsEarlier(c, d)
  IN built

Init ==
  /\ query \in Queries /\ database \in Databases
  /\ hasSearch = [n \in Nodes |-> HasSearch(query)[n]]
  /\ where = [n \in Nodes |-> Clauses(query, n)]
  /\ data = [n \in Nodes |-> [i \in 1..query.data[n] |-> [c \in JoinSet |-> 0]]]
  /\ stage = [n \in Nodes |-> IF n = Root THEN "called" ELSE "idle"]
  /\ before = {} /\ continued = {} /\ threads = {} /\ fetched = {}
  /\ cached = [n \in Nodes |-> {}]
  /\ handed = [n \in Nodes |-> None]
  /\ mappings = [n \in Nodes |-> {}] /\ relations = [n \in Nodes |-> {}]
  /\ childFilter = [n \in Nodes |-> {}] /\ parentFilter = [n \in Nodes |-> {}]
  /\ links = {} /\ outcome = "running"
  /\ was = database /\ updated = {}

-----------------------------------------------------------------------------
(* __queryTheData up to its first await: the joins are sorted, in their      *)
(* order, into those queried before and after the base, and the first ones   *)
(* are called.                                                               *)

SearchesFirst(c, search) == search[c]  \* mutant: data of a direct join is not waited for
IsBefore(c, search) == search[c] \/ (query.data[c] > 0 /\ c \in query.direct)

\* A join that searches makes n search, and n each of the joins that come after.
Sorted(n) ==
  LET SearchesAt(c) == hasSearch[n] \/ \E d \in JoinsOf(n) : IsEarlier(d, c) /\ hasSearch[d]
  IN [m \in Nodes |-> \/ hasSearch[m]
                      \/ m = n /\ \E c \in JoinsOf(n) : hasSearch[c]
                      \/ m \in JoinsOf(n) /\ SearchesAt(m)]

\* An `in` of the parent is handed on by a where that calls itself for ever.
IsHandedAnIn(n, c) ==
  LET f == FieldHere(c) IN f \in DOMAIN where[n] /\ where[n][f].in /\ where[n][f].values # {}

Call(n) ==
  LET first == {c \in JoinsOf(n) : IsBefore(c, Sorted(n))}
  IN
  /\ stage[n] = "called"
  /\ hasSearch' = Sorted(n)
  /\ before' = before \cup first
  /\ stage' = [m \in Nodes |-> IF m = n THEN "waiting"
                               ELSE IF m \notin first THEN stage[m]
                               ELSE IF IsHandedAnIn(n, m) THEN "threw" ELSE "called"]
  /\ handed' = [m \in Nodes |-> IF m \in first THEN handed[n] ELSE handed[m]]
  /\ outcome' = IF \E c \in first : stage'[c] = "threw" THEN "threw" ELSE outcome
  /\ UNCHANGED <<query, database, where, data, continued, threads, fetched, cached, mappings,
                 relations, childFilter, parentFilter, links, was, updated>>

-----------------------------------------------------------------------------
(* A join queried before the base has returned.                              *)

\* __duringQueryAppendInsertedOrUpdatedDataToQuery: each row to write, once for
\* each of the values, when rows are created.
Appended(rows, field, values) ==
  FlattenSeq([i \in DOMAIN SetToSeq(values) |->
                [j \in DOMAIN rows |-> [rows[j] EXCEPT ![field] = SetToSeq(values)[i]]]])

AppendedTo(n, field, values, search) ==
  IF data[n] = << >> \/ search THEN data[n] ELSE Appended(data[n], field, values)

ReadsOnly(n, search) == query.data[n] = 0  \* mutant: updates are not restricted
TakesIn(n, search) == query.data[n] = 0 \/ search

With(clauses, field, values) ==
  [f \in DOMAIN clauses \cup {field} |->
     IF f = field THEN [in |-> TRUE, values |-> values] ELSE clauses[f]]

\* Only a clause of another kind on the same field stays as it is.
Restricted(n, field, values) ==
  IF field \in DOMAIN where[n] /\ ~where[n][field].in THEN where[n]
  ELSE With(where[n], field, values)

Continue(n, c) ==
  LET f == FieldHere(c)
      search == hasSearch[n] \/ hasSearch[c]
  IN
  /\ stage[n] = "waiting" /\ c \in Before(n) \ continued /\ stage[c] = "done"
  /\ continued' = continued \cup {c}
  /\ hasSearch' = [hasSearch EXCEPT ![n] = search]
  /\ data' = [data EXCEPT ![n] = AppendedTo(n, f, parentFilter[c], search)]
  /\ where' = [where EXCEPT ![n] = IF TakesIn(n, search) THEN Restricted(n, f, parentFilter[c])
                                                         ELSE @]
  /\ UNCHANGED <<query, database, stage, before, threads, fetched, cached, memoryVars,
                 outcome, was, updated>>

-----------------------------------------------------------------------------
(* __duringQueryActuallyQueryTheDatabase up to the answer of the database:   *)
(* once for each join queried after the base, or once if there is none.      *)

Accepted(n) ==
  {r \in database : r.table = n /\ \A f \in DOMAIN where[n] : Value(r, f) \in where[n][f].values}

\* An empty `in` never reaches the database.
IsInvalid(n) == \E f \in DOMAIN where[n] : where[n][f].values = {}

Threads(n) == IF After(n) = {} THEN {n} ELSE After(n)

\* What goes for an update sends its first row only.
Created(n) ==
  LET last == Max({0} \cup {r.id : r \in {x \in database : x.table = n}})
      sent == IF hasSearch[n] THEN DOMAIN data[n] \cap {1} ELSE DOMAIN data[n]
  IN {[table |-> n, id |-> last + i, keys |-> data[n][i]] : i \in sent}

Fetch(n, j, rows) ==
  /\ fetched' = fetched \cup {[of |-> n, for |-> j, rows |-> rows]}
  /\ cached' = [cached EXCEPT ![n] = {[of |-> n, for |-> j, row |-> r] : r \in rows}]
  /\ UNCHANGED <<stage, outcome>>

Fail(n) ==
  /\ stage' = [stage EXCEPT ![n] = "threw"] /\ outcome' = "threw"
  /\ UNCHANGED <<fetched, cached>>

IsWritten(n) == query.type = "set" /\ query.data[n] > 0
IsRemoved(n) == query.type = "remove" /\ n \in query.removes

Base(n, j) ==
  /\ stage[n] = "waiting" /\ Before(n) \subseteq continued
  /\ j \in Threads(n) /\ <<n, j>> \notin threads
  /\ threads' = threads \cup {<<n, j>>}

Get(n, j) ==
  /\ Base(n, j) /\ ~IsInvalid(n) /\ ~IsWritten(n) /\ ~IsRemoved(n)
  /\ Fetch(n, j, Accepted(n))
  /\ UNCHANGED <<database, updated>>

GetNothing(n, j) ==
  /\ Base(n, j) /\ IsInvalid(n)
  /\ Fetch(n, j, {})
  /\ UNCHANGED <<database, updated>>

\* The engines update if there is anything to search for, and create otherwise.
Create(n, j) ==
  /\ Base(n, j) /\ ~IsInvalid(n) /\ IsWritten(n) /\ where[n] = << >>
  /\ database' = database \cup Created(n)
  /\ Fetch(n, j, Created(n))
  /\ UNCHANGED updated

Update(n, j) ==
  /\ Base(n, j) /\ ~IsInvalid(n) /\ IsWritten(n) /\ where[n] # << >>
  /\ updated' = updated \cup Accepted(n)
  /\ Fetch(n, j, Accepted(n))
  /\ UNCHANGED database

RemoveRows(n, j) ==
  /\ Base(n, j) /\ ~IsInvalid(n) /\ IsRemoved(n) /\ where[n] # << >>
  /\ database' = database \ Accepted(n)
  /\ Fetch(n, j, Accepted(n))
  /\ UNCHANGED updated

\* The database fails; the engines refuse to remove without a search.
DatabaseFails(n, j) ==
  /\ Base(n, j) /\ ~IsInvalid(n)
  /\ Fail(n)
  /\ UNCHANGED <<database, updated>>

Query(n, j) ==
  /\ \/ Get(n, j) \/ GetNothing(n, j) \/ Create(n, j) \/ Update(n, j) \/ RemoveRows(n, j)
     \/ DatabaseFails(n, j)
  /\ UNCHANGED <<query, builderVars, before, continued, memoryVars, was>>

-----------------------------------------------------------------------------
(* The loop over the rows, and what follows it.                              *)

\* A key that select left out is fetched too, and goes away once it was read.
IsReadAgain(n, field, read) == n \in query.omits /\ query.type = "get" /\ field = read

\* Objects are assigned to those that wait for them, and get what waits for them.
Linked(n, objects, get, own) ==
  {[from |-> p[1].object, join |-> n, to |-> p[2]] :
     p \in {q \in (IF handed[n] = None THEN {} ELSE mappings[handed[n]]) \X objects :
              q[1].value = Value(q[2].row, get)}}
  \cup
  {[from |-> p[2], join |-> p[1].join, to |-> p[1].object] :
     p \in {q \in own \X objects : /\ q[1].value = Value(q[2].row, q[1].field)
                                  /\ ~IsReadAgain(n, q[1].field, get)}}

EntriesByOwnKey(n, objects, get, field) ==  \* mutant: the two keys mixed up
  IF n \notin before THEN {}
  ELSE {[field |-> get, value |-> Value(o.row, get), join |-> n, object |-> o] : o \in objects}

\* What a query set queried before its parent leaves in the parent's relations.
Entries(n, objects, get, field) ==
  IF n \notin before THEN {}
  ELSE {[field |-> field, value |-> Value(o.row, get), join |-> n, object |-> o] : o \in objects}

\* A list is pushed to where another join has made the entry of the value.
Clashes(n, entries, isUnique) ==
  n # Root /\ ~isUnique /\
    \E e \in entries, d \in relations[query.parent[n]] :
      /\ d.field = e.field /\ d.value = e.value /\ d.join # n
      /\ \A x \in relations[query.parent[n]] :
           x.field = e.field /\ x.value = e.value => x.join # n

RelationsWith(n, entries) ==
  [m \in Nodes |-> IF n # Root /\ m = query.parent[n] THEN relations[m] \cup entries ELSE relations[m]]

TakeLast(f) ==
  LET n == f.of
      objects == {[of |-> n, for |-> f.for, row |-> r] : r \in f.rows}
      get == IF n = Root THEN None ELSE FieldThere(n)
      entries == Entries(n, objects, get, FieldHere(n))
  IN
  /\ f.for = n
  /\ IF Clashes(n, entries, n \in query.direct)
     THEN /\ stage' = [stage EXCEPT ![n] = "threw"] /\ outcome' = "threw"
          /\ UNCHANGED <<relations, parentFilter, links>>
     ELSE /\ links' = links \cup Linked(n, objects, get, relations[n])
          /\ relations' = RelationsWith(n, entries)
          /\ parentFilter' = [parentFilter EXCEPT ![n] = @ \cup {e.value : e \in entries}]
          /\ stage' = [stage EXCEPT ![n] = "done"]
          /\ outcome' = IF n = Root /\ outcome = "running" THEN "returned" ELSE outcome
  /\ UNCHANGED <<builderVars, handed, mappings, childFilter>>

\* The keys of n are read for the sake of its join j, and also where n itself
\* waits or is waited for.
TakeFor(f) ==
  LET n == f.of
      j == f.for
      objects == {[of |-> n, for |-> j, row |-> r] : r \in f.rows}
      get == FieldHere(j)
      entries == Entries(n, objects, get, FieldThere(j))
      values == childFilter[n] \cup {Value(r, get) : r \in f.rows}
      there == FieldThere(j)
  IN
  /\ j # n
  /\ IF Clashes(n, entries, j \in query.direct)
     THEN /\ stage' = [stage EXCEPT ![n] = "threw"] /\ outcome' = "threw"
          /\ UNCHANGED <<relations, links, mappings, childFilter, where, data, handed>>
     ELSE /\ links' = links \cup Linked(n, objects, get, relations[n])
          /\ relations' = RelationsWith(n, entries)
          /\ mappings' = [mappings EXCEPT ![n] =
                            @ \cup {[value |-> Value(o.row, get), object |-> o] : o \in objects}]
          /\ childFilter' = [childFilter EXCEPT ![n] = values]
          /\ data' = [data EXCEPT ![j] = AppendedTo(j, there, values, hasSearch[j])]
          /\ where' = [where EXCEPT ![j] = IF TakesIn(j, hasSearch[j])
                                           THEN With(@, there, values) ELSE @]
          /\ handed' = [handed EXCEPT ![j] = n]
          /\ stage' = [stage EXCEPT ![j] = "called"]
          /\ UNCHANGED outcome
  /\ UNCHANGED <<hasSearch, parentFilter>>

Take(f) ==
  /\ stage[f.of] = "waiting"
  /\ fetched' = fetched \ {f}
  /\ TakeLast(f) \/ TakeFor(f)
  /\ UNCHANGED <<query, database, before, continued, threads, cached, was, updated>>

\* The joins queried after the base have all returned.
Return(n) ==
  /\ stage[n] = "waiting" /\ Before(n) \subseteq continued
  /\ After(n) # {} /\ \A j \in After(n) : stage[j] = "done"
  /\ stage' = [stage EXCEPT ![n] = "done"]
  /\ outcome' = IF n = Root /\ outcome = "running" THEN "returned" ELSE outcome
  /\ UNCHANGED <<query, database, builderVars, before, continued, threads, fetched, cached,
                 memoryVars, was, updated>>

Done == outcome # "running" /\ UNCHANGED vars

Next ==
  \/ \E n \in Nodes : Call(n) \/ Return(n)
  \/ \E n, m \in Nodes : Continue(n, m) \/ Query(n, m)
  \/ \E f \in fetched : Take(f)
  \/ Done

Spec == Init /\ [][Next]_vars
-----------------------------------------------------------------------------
(* What was asked, read off the query and the rows it found alone.            *)

RowsOf(n) == {r \in was : r.table = n}
IsAccepted(n, r) ==
  LET clauses == Clauses(query, n)
  IN \A f \in DOMAIN clauses : Value(r, f) \in clauses[f].values

\* r is a row of the parent of c, x one of c.
AreRelated(c, r, x) == Value(r, FieldHere(c)) = Value(x, FieldThere(c)) /\ Value(x, FieldThere(c)) # 0

Searching ==
  LET searches[n \in Nodes] == query.where[n] # "none" \/ \E c \in JoinsOf(n) : searches[c]
  IN {n \in Nodes : searches[n]}

\* The rows the query asks for, each with a related one in every join needed.
Asked(needed) ==
  LET asked[n \in Nodes] ==
        {r \in RowsOf(n) : /\ IsAccepted(n, r)
                           /\ \A c \in JoinsOf(n) \cap needed : \E x \in asked[c] : AreRelated(c, r, x)}
  IN asked

Objects(n) == {o.row : o \in cached[n]}
LinkedTo(o, c) == {l.to.row : l \in {k \in links : k.from = o /\ k.join = c}}
RelatedIn(rows, r, c) == {x \in rows : AreRelated(c, r, x)}

TypeOK ==
  /\ query.type \in {"get", "set", "remove"}
  /\ stage \in [Nodes -> {"idle", "called", "waiting", "done", "threw"}]
  /\ continued \subseteq before /\ before \subseteq JoinSet
  /\ threads \subseteq Nodes \X Nodes
  /\ \A r \in database \cup was \cup updated :
       r.table \in Nodes /\ r.id \in 1..MaxId /\ r.keys \in [JoinSet -> Values]
  /\ \A n \in Nodes : \A o \in cached[n] : o.of = n /\ o.row.table = n
  /\ handed \in [Nodes -> Nodes \cup {None}]
  /\ outcome \in {"running", "returned", "threw"}

\* What a where of its own asks of n is kept: no plain clause stands on a key of
\* n that a join read before goes by, and none at all on the key a join that is
\* read after its parent goes by itself.
KeepsItsWhere(n) ==
  \A f \in DOMAIN Clauses(query, n) :
    /\ \A c \in Before(n) : FieldHere(c) = f => Clauses(query, n)[f].in
    /\ n \in JoinSet \ before /\ stage[n] # "idle" => f # FieldThere(n)

\* Those that search: __hasSearch is lost to a where that is given before a join,
\* and to a later join that does not search.
Searchers == {n \in Nodes : HasSearch(query)[n]}

\* The query sets a read can be put together from: one join at most is read
\* after the base and has none of its own, those read before it go by fields
\* of their own, no where is lost to them, and select did not leave out a key
\* that is read twice.
HaveKeysOfTheirOwn(joins) == \A c, d \in joins : c # d => FieldHere(c) # FieldHere(d)
KeysRead(n) == IF After(n) # {} THEN {FieldHere(j) : j \in After(n)}
               ELSE IF n = Root THEN {} ELSE {FieldThere(n)}
Fits(n) ==
  /\ \A c, d \in After(n) : c = d
  /\ After(n) # {} => n = Root
  /\ HaveKeysOfTheirOwn(Before(n)) /\ KeepsItsWhere(n)
  /\ n \in query.omits => \A c \in Before(n) : FieldHere(c) \notin KeysRead(n)
CanBeJoined == query.type = "get" /\ \A n \in Nodes : Fits(n)

\* A read that returned found the rows with a related one in every join, and
\* none without one in every join that searches; each object holds, of each of
\* its joins, the related rows that have a related one in every join of theirs.
JoinsRelate ==
  outcome = "returned" /\ CanBeJoined =>
    LET whole == Asked(JoinSet)
    IN /\ whole[Root] \subseteq Objects(Root) /\ Objects(Root) \subseteq Asked(Searchers)[Root]
       /\ \A n \in Nodes : \A o \in cached[n] : \A c \in JoinsOf(n) :
            LinkedTo(o, c) = RelatedIn(whole[c], o.row, c)

\* A query that creates, and has no where, wrote each row it was given once for
\* each row it belongs to, and the keys of the new rows refer to new rows.
CreatesAreWhole ==
  (/\ outcome = "returned" /\ query.type = "set" /\ Searching = {}
   /\ \A n \in Nodes : query.data[n] > 0 /\ Cardinality(After(n)) <= 1
   /\ \A n \in before : After(n) = {}) =>
    LET new == database \ was
        NewOf(n) == {r \in new : r.table = n}
        count[n \in Nodes] ==
          query.data[n] * FoldSet(LAMBDA c, k : count[c] * k, 1, JoinsOf(n) \cap query.direct)
                        * IF n = Root \/ n \in query.direct THEN 1 ELSE count[query.parent[n]]
    IN \A n \in Nodes :
         /\ Cardinality(NewOf(n)) = count[n]
         /\ \A c \in JoinsOf(n) :
              IF c \in query.direct
              THEN \A r \in NewOf(n) : \E x \in NewOf(c) : AreRelated(c, r, x)
              ELSE \A x \in NewOf(c) : \E r \in NewOf(n) : AreRelated(c, r, x)

\* Whatever a query came to, it updated and removed no row but those asked for,
\* of query sets that were to, and a query set with a where of its own or with
\* a join that searches creates nothing.  A join searches here if its where was
\* given after its own joins; the joins read before one query set go by
\* different keys, and no where is lost to them.
WritesAreAsked ==
  LET asked == Asked(Searchers)
  IN (\A n \in Nodes : HaveKeysOfTheirOwn(Before(n)) /\ KeepsItsWhere(n)) =>
       /\ \A r \in was \ database : r \in asked[r.table] /\ r.table \in query.removes
       /\ \A r \in updated : r \in asked[r.table] /\ query.data[r.table] > 0
       /\ \A r \in database \ was :
            query.where[r.table] = "none" /\ JoinsOf(r.table) \cap Searchers = {}
=============================================================================
