---------------------------- MODULE MCQuerySets ----------------------------
(* Queries of a model with two joins, next to one another or one in another. *)
EXTENDS QuerySets

CONSTANTS users, orders, mails   \* model values: the tables

MCJoins == <<orders, mails>>

OfShape(type, wheres, last, counts, removes, omits) ==
  {[type |-> type, parent |-> [c \in JoinSet |-> IF isNested /\ c = mails THEN orders ELSE users],
    direct |-> direct, where |-> wheres, last |-> last, data |-> counts, removes |-> removes,
    omits |-> omits] : isNested \in BOOLEAN, direct \in SUBSET JoinSet}

Nothing == [n \in Nodes |-> 0]
Wheres == [Nodes -> {"none", "name"}]

Reads ==
  UNION {OfShape("get", w, last, Nothing, {}, {}) : w \in Wheres, last \in {{}, Nodes}}
  \cup UNION {OfShape("get", [n \in Nodes |-> IF n = m THEN k ELSE "none"], {}, Nothing, {}, {}) :
                m \in Nodes, k \in {"id", "in"}}
  \cup UNION {OfShape("get", [n \in Nodes |-> IF n = m THEN "name" ELSE "none"], {}, Nothing, {}, {users, orders}) :
                m \in Nodes}

Counts == {[n \in Nodes |-> IF n = m THEN k ELSE 1] : m \in Nodes, k \in 0..2}
Writes ==
  UNION {OfShape("set", w, last, counts, {}, {}) :
           w \in Wheres, last \in {{}, Nodes}, counts \in Counts}

Removals ==
  UNION {OfShape("remove", w, Nodes, Nothing, removes, {}) :
           w \in Wheres, removes \in SUBSET Nodes}

\* Those with a where on the key of one of the query sets.
OneByKey == {[n \in Nodes |-> IF n = m THEN k ELSE other] : m \in Nodes, k \in {"id", "in"}, other \in {"none", "name"}}
WritesByKey ==
  UNION {OfShape("set", w, last, [n \in Nodes |-> 1], {}, {}) : w \in OneByKey, last \in {{}, Nodes}}
  \cup UNION {OfShape("remove", w, Nodes, Nothing, removes, {}) :
                w \in OneByKey, removes \in SUBSET Nodes}

MCQueries == Reads \cup Writes \cup Removals \cup WritesByKey

\* The first and the second row of each table refer to these.
References == {<<1, 1>>, <<1, 2>>, <<2, 1>>, <<0, 1>>}
MCDatabases ==
  {{[table |-> n, id |-> i, keys |-> [c \in JoinSet |-> refs[c][i]]] : n \in Nodes, i \in 1..2} :
     refs \in [JoinSet -> References]}
=============================================================================
