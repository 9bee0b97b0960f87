---------------------------- MODULE QuerySetsProofs ----------------------------
(***************************************************************************)
(* For any tree of joins, any query and any database: whatever a query comes *)
(* to, it writes nothing but what it was asked to, and a read puts the rows  *)
(* into the objects they belong to.                                         *)
(***************************************************************************)
EXTENDS QuerySets, FiniteSetTheorems, WellFoundedInduction, TLAPS

AskedRows == Asked(Searchers)

\* The query set that has a join.
Parent(c) == query.parent[c]
Started(n) == stage[n] \notin {"idle", "called"}

Types ==
  /\ query \in Queries /\ was \in Databases
  /\ DOMAIN hasSearch = Nodes /\ DOMAIN where = Nodes /\ DOMAIN parentFilter = Nodes
  /\ stage \in [Nodes -> {"idle", "called", "waiting", "done", "threw"}]
  /\ continued \subseteq before /\ before \subseteq JoinSet /\ threads \subseteq Nodes \X Nodes

-----------------------------------------------------------------------------
(* The order in which query sets are queried.                               *)

\* What searches at the start goes on searching.
SearchersSearch == \A n \in Searchers : hasSearch[n]

\* Joins wait for their parent to be queried, which sorts them, those that search
\* to be read before it.
JoinsWaitForParents ==
  /\ \A c \in JoinSet : ~Started(Parent(c)) => c \notin before /\ stage[c] = "idle"
  /\ \A n \in Nodes : stage[n] \in {"waiting", "done"} => JoinsOf(n) \cap Searchers \subseteq before

\* A parent goes on from a join once it has returned.
ContinuedAreDone == \A c \in continued : stage[c] = "done"

\* A query set asks the database after it was called, once for each thread, and a
\* join that is read after its parent waits for the answer of its own.
ThreadsAreOnce ==
  /\ \A t \in threads : Started(t[1])
  /\ \A c \in JoinSet \ before : stage[c] # "idle" => <<Parent(c), c>> \in threads
  /\ \A f \in fetched :
       /\ <<f.of, f.for>> \in threads
       /\ f.for # f.of => f.for \in JoinsOf(f.of) \ before /\ stage[f.for] = "idle"
       /\ \A g \in fetched : g.of = f.of /\ g.for = f.for => g = f

\* A query set that created rows has no clause, and gets none.
CreatorsHaveNoWhere ==
  \A r \in database \ was :
    /\ r.table \in Nodes /\ where[r.table] = << >> /\ Started(r.table)
    /\ Before(r.table) \subseteq continued /\ query.type = "set"

\* What restricts a query set besides its own where are `in` clauses.
OthersAreIns ==
  \A n \in Nodes : \A f \in DOMAIN where[n] \ DOMAIN Clauses(query, n) : where[n][f].in

Order ==
  /\ SearchersSearch /\ JoinsWaitForParents /\ ContinuedAreDone /\ ThreadsAreOnce
  /\ CreatorsHaveNoWhere /\ OthersAreIns

-----------------------------------------------------------------------------
(* What restricts the query sets, while no where is lost.                    *)

WheresAreKept == \A n \in Nodes : HaveKeysOfTheirOwn(Before(n)) /\ KeepsItsWhere(n)

ClausesStay ==
  \A n \in Nodes : \A f \in DOMAIN Clauses(query, n) :
    f \in DOMAIN where[n] /\ where[n][f] = Clauses(query, n)[f]

\* An `in` of its own on the key of a join that is read before stops the query.
InsStop ==
  \A n \in Nodes : \A c \in Before(n) :
    FieldHere(c) \in DOMAIN Clauses(query, n) => stage[c] = "threw"

\* A join that searches restricts its parent to what it found.
SearchersRestrict ==
  \A c \in continued \cap Searchers :
    /\ FieldHere(c) \in DOMAIN where[Parent(c)]
    /\ where[Parent(c)][FieldHere(c)].values = parentFilter[c]

\* What a query set that searches found, and what it restricts its parent to, was
\* asked for.
FoundWereAsked ==
  /\ \A f \in fetched : f.of \in Searchers => f.rows \subseteq AskedRows[f.of]
  /\ \A c \in JoinSet \cap Searchers : \A v \in parentFilter[c] :
       \E x \in AskedRows[c] : v = Value(x, FieldThere(c))

WrittenWereAsked ==
  /\ \A r \in was \ database : r \in AskedRows[r.table] /\ r.table \in query.removes
  /\ \A r \in updated : r \in AskedRows[r.table] /\ query.data[r.table] > 0
  /\ \A r \in database \ was :
       query.where[r.table] = "none" /\ JoinsOf(r.table) \cap Searchers = {}

Restrictions ==
  ClausesStay /\ InsStop /\ SearchersRestrict /\ FoundWereAsked /\ WrittenWereAsked

WritesInv == Types /\ Order /\ (WheresAreKept => Restrictions)

LEMMA AskedStay ==
  ASSUME UNCHANGED <<query, was>>
  PROVE  Searchers' = Searchers /\ AskedRows' = AskedRows
<1>1. Searchers' = Searchers
  BY DEF Searchers, HasSearch, JoinedTo
<1>2. Asked(Searchers)' = Asked(Searchers)
  BY <1>1 DEF Asked, IsAccepted, AreRelated, JoinsOf, JoinedTo, FieldHere, FieldThere, Clauses, RowsOf, Value
<1> QED
  BY <1>1, <1>2 DEF AskedRows

-----------------------------------------------------------------------------
(* What is defined along the tree of joins.                                 *)

LEMMA LeastNumber ==
  ASSUME NEW T \in SUBSET Nat, T # {}
  PROVE  \E n \in T : \A m \in T : n <= m
<1> DEFINE Less == OpToRel(<, Nat)
<1>1. IsWellFoundedOn(Less, Nat)
  BY NatLessThanWellFounded
<1>2. \A x, y \in Nat : x < y => <<x, y>> \in Less
  BY DEF OpToRel
<1> HIDE DEF Less
<1>3. PICK x \in T : \A y \in T : <<y, x>> \notin Less
  BY <1>1, WFMin
<1>4. \A y \in T : ~(y < x)
  BY <1>2, <1>3
<1>5. \A y \in T : y \in Nat /\ x \in Nat
  OBVIOUS
<1> QED
  BY <1>4, <1>5

\* Joins come after the query set that has them.
LEMMA JoinsComeLater ==
  ASSUME query \in Queries, NEW i \in DOMAIN Joins, NEW c \in JoinsOf(Joins[i])
  PROVE  \E j \in DOMAIN Joins : j > i /\ c = Joins[j]
<1>1. c \in JoinSet /\ query.parent[c] = Joins[i]
  BY DEF JoinsOf, JoinedTo
<1>2. Joins \in Seq(JoinSet) /\ Len(Joins) \in Nat /\ DOMAIN Joins = 1..Len(Joins) /\ Joins[i] # Root
  BY QuerySetsAssumptions
<1>3. PICK j \in DOMAIN Joins : c = Joins[j]
  BY <1>1 DEF JoinSet, ToSet
<1>4. Joins[i] \in {Root} \cup {Joins[k] : k \in 1..j - 1}
  BY <1>1, <1>3, QuerySetsAssumptions
<1>5. PICK k \in 1..j - 1 : Joins[i] = Joins[k]
  BY <1>2, <1>4
<1>6. k = i
  <2>1. \A a, b \in DOMAIN Joins : Joins[a] = Joins[b] => a = b
    BY QuerySetsAssumptions
  <2>2. k \in DOMAIN Joins
    BY <1>2
  <2> QED
    BY <1>5, <2>1, <2>2
<1> QED
  BY <1>2, <1>3, <1>5, <1>6

\* G asks nothing of the values for other query sets than the joins.
IsLocal(V, G) ==
  \A f, g \in [Nodes -> V] : \A n \in Nodes :
    (\A c \in JoinsOf(n) : f[c] = g[c]) => G[f][n] = G[g][n]

Solves(G, f, k) == \A i \in DOMAIN Joins : i + k > Len(Joins) => f[Joins[i]] = G[f][Joins[i]]

\* Then there is a function of the query sets that G leaves as it is: it is found
\* from the last join on.
LEMMA TreeRecursion ==
  ASSUME query \in Queries, NEW V, V # {}, NEW G \in [[Nodes -> V] -> [Nodes -> V]], IsLocal(V, G)
  PROVE  \E f \in [Nodes -> V] : f = G[f]
<1>1. Joins \in Seq(JoinSet) /\ Len(Joins) \in Nat /\ DOMAIN Joins = 1..Len(Joins)
  BY QuerySetsAssumptions
<1>2. \A i \in DOMAIN Joins : Joins[i] \in Nodes
  BY <1>1 DEF Nodes
<1>3. \E f \in [Nodes -> V] : Solves(G, f, 0)
  <2>1. PICK v \in V : TRUE
    OBVIOUS
  <2>2. [n \in Nodes |-> v] \in [Nodes -> V]
    OBVIOUS
  <2>3. \A i \in DOMAIN Joins : ~(i + 0 > Len(Joins))
    BY <1>1
  <2> QED
    BY <2>2, <2>3 DEF Solves
<1>4. ASSUME NEW k \in Nat, NEW f \in [Nodes -> V], Solves(G, f, k)
      PROVE  G[f] \in [Nodes -> V] /\ Solves(G, G[f], k + 1)
  <2>1. G[f] \in [Nodes -> V]
    OBVIOUS
  <2>2. ASSUME NEW i \in DOMAIN Joins, i + (k + 1) > Len(Joins)
        PROVE  G[f][Joins[i]] = G[G[f]][Joins[i]]
    <3>1. ASSUME NEW c \in JoinsOf(Joins[i]) PROVE f[c] = G[f][c]
      <4>1. PICK j \in DOMAIN Joins : j > i /\ c = Joins[j]
        BY JoinsComeLater
      <4>2. j + k > Len(Joins)
        BY <1>1, <2>2, <4>1
      <4> QED
        BY <1>4, <4>1, <4>2 DEF Solves
    <3> QED
      BY <1>2, <2>1, <3>1 DEF IsLocal
  <2> QED
    BY <2>1, <2>2 DEF Solves
<1>5. ASSUME NEW k \in Nat PROVE \E f \in [Nodes -> V] : Solves(G, f, k)
  <2> DEFINE T == {m \in Nat : ~\E f \in [Nodes -> V] : Solves(G, f, m)}
  <2> SUFFICES ASSUME T # {} PROVE FALSE
    OBVIOUS
  <2> HIDE DEF T
  <2>1. PICK m \in T : \A l \in T : m <= l
    BY LeastNumber DEF T
  <2>2. m \in Nat /\ m # 0
    BY <1>3 DEF T
  <2>3. m - 1 \in Nat /\ m - 1 \notin T /\ m - 1 + 1 = m
    BY <2>1, <2>2
  <2>4. PICK f \in [Nodes -> V] : Solves(G, f, m - 1)
    BY <2>3 DEF T
  <2>5. G[f] \in [Nodes -> V] /\ Solves(G, G[f], m)
    BY <1>4, <2>3, <2>4
  <2> QED
    BY <2>5 DEF T
<1>6. PICK f \in [Nodes -> V] : Solves(G, f, Len(Joins))
  BY <1>1, <1>5
<1>7. \A c \in JoinSet : f[c] = G[f][c]
  <2>1. \A i \in DOMAIN Joins : i + Len(Joins) > Len(Joins)
    BY <1>1
  <2> QED
    BY <1>6, <2>1 DEF Solves, JoinSet, ToSet
<1>8. G[f] \in [Nodes -> V]
  OBVIOUS
<1>9. \A n \in Nodes : G[f][n] = G[G[f]][n]
  BY <1>7, <1>8 DEF IsLocal, JoinsOf, JoinedTo
<1>10. G[G[f]] \in [Nodes -> V]
  BY <1>8
<1> QED
  BY <1>8, <1>9, <1>10

\* A query set searches by its own where or by one of its joins.
LEMMA SearchersHaveReasons ==
  ASSUME query \in Queries, NEW n \in Searchers
  PROVE  query.where[n] # "none" \/ JoinsOf(n) \cap Searchers # {}
<1> DEFINE Own(m) == query.where[m] # "none" /\ (JoinsOf(m) = {} \/ m \in query.last)
           IsLast(m, c) == \A d \in JoinsOf(m) : ~IsEarlier(c, d)
           Step(f, m) == Own(m) \/ \E c \in JoinsOf(m) : f[c] /\ IsLast(m, c)
           G == [f \in [Nodes -> BOOLEAN] |-> [m \in Nodes |-> Step(f, m)]]
<1>1. HasSearch(query) = CHOOSE f : f = [m \in Nodes |-> Step(f, m)]
  BY DEF HasSearch, JoinsOf
<1> HIDE DEF Own, IsLast
<1>2. \A f \in [Nodes -> BOOLEAN] : G[f] = [m \in Nodes |-> Step(f, m)]
  OBVIOUS
<1>3. G \in [[Nodes -> BOOLEAN] -> [Nodes -> BOOLEAN]]
  OBVIOUS
<1>4. IsLocal(BOOLEAN, G)
  <2> SUFFICES ASSUME NEW f \in [Nodes -> BOOLEAN], NEW g \in [Nodes -> BOOLEAN], NEW m \in Nodes,
                      \A c \in JoinsOf(m) : f[c] = g[c]
               PROVE  G[f][m] = G[g][m]
    BY DEF IsLocal
  <2>1. Step(f, m) <=> Step(g, m)
    OBVIOUS
  <2>2. G[f][m] = Step(f, m) /\ G[g][m] = Step(g, m)
    BY <1>2
  <2> QED
    BY <2>1, <2>2
<1> HIDE DEF G
<1>5. PICK f \in [Nodes -> BOOLEAN] : f = G[f]
  BY <1>3, <1>4, TreeRecursion
<1>6. f = [m \in Nodes |-> Step(f, m)]
  BY <1>2, <1>5
<1> HIDE DEF Step
<1>7. HasSearch(query) = [m \in Nodes |-> Step(HasSearch(query), m)]
  BY <1>1, <1>6
<1>8. Step(HasSearch(query), n)
  BY <1>7 DEF Searchers
<1>9. Own(n) => query.where[n] # "none"
  BY DEF Own
<1>10. \A c \in JoinsOf(n) : c \in Nodes
  BY DEF JoinsOf, JoinedTo, Nodes
<1> QED
  BY <1>8, <1>9, <1>10 DEF Searchers, Step

\* What is asked of a query set, by what is asked of its joins.
LEMMA AskedIs ==
  ASSUME query \in Queries, NEW N, NEW n \in Nodes
  PROVE  Asked(N)[n] =
           {r \in RowsOf(n) : /\ IsAccepted(n, r)
                              /\ \A c \in JoinsOf(n) \cap N : \E x \in Asked(N)[c] : AreRelated(c, r, x)}
<1> DEFINE IsAsked(f, m, r) ==
             IsAccepted(m, r) /\ \A c \in JoinsOf(m) \cap N : \E x \in f[c] : AreRelated(c, r, x)
           Step(f, m) == {r \in RowsOf(m) : IsAsked(f, m, r)}
           V == SUBSET was
           G == [f \in [Nodes -> V] |-> [m \in Nodes |-> Step(f, m)]]
<1>1. Asked(N) = CHOOSE f : f = [m \in Nodes |-> Step(f, m)]
  BY DEF Asked
<1> SUFFICES Asked(N) = [m \in Nodes |-> Step(Asked(N), m)]
  OBVIOUS
<1>2. \A m \in Nodes : RowsOf(m) \subseteq was
  BY DEF RowsOf
<1>3. ASSUME NEW f \in [Nodes -> V], NEW g \in [Nodes -> V], NEW m \in Nodes,
             \A c \in JoinsOf(m) : f[c] = g[c]
      PROVE  Step(f, m) = Step(g, m)
  BY <1>3
<1> HIDE DEF IsAsked
<1>4. \A f \in [Nodes -> V] : G[f] = [m \in Nodes |-> Step(f, m)]
  OBVIOUS
<1>5. G \in [[Nodes -> V] -> [Nodes -> V]]
  BY <1>2
<1> HIDE DEF Step
<1>6. IsLocal(V, G)
  BY <1>3, <1>4 DEF IsLocal
<1> HIDE DEF G, V
<1>7. V # {}
  BY DEF V
<1>8. PICK f \in [Nodes -> V] : f = G[f]
  BY <1>5, <1>6, <1>7, TreeRecursion
<1>9. f = [m \in Nodes |-> Step(f, m)]
  BY <1>4, <1>8
<1> QED
  BY <1>1, <1>9

-----------------------------------------------------------------------------
(* A query set that asks the database.                                      *)

Asks(n) == n \in Nodes /\ stage[n] = "waiting" /\ Before(n) \subseteq continued

\* One that searches, or has a join that does, asks with a where.
LEMMA SearchersHaveAWhere ==
  ASSUME Types, Order, Restrictions, NEW n, Asks(n),
         query.where[n] # "none" \/ JoinsOf(n) \cap Searchers # {}
  PROVE  where[n] # << >>
<1>1. n \in Nodes /\ DOMAIN << >> = {}
  BY DEF Asks
<1>2. CASE query.where[n] # "none"
  <2>1. query.where[n] \in {"name", "id", "in"}
    BY <1>1, <1>2, QuerySetsAssumptions DEF Types
  <2>2. \E f : f \in DOMAIN Clauses(query, n)
    BY <2>1 DEF Clauses
  <2> QED
    BY <1>1, <2>2 DEF Restrictions, ClausesStay
<1>3. CASE JoinsOf(n) \cap Searchers # {}
  <2>1. PICK c \in JoinsOf(n) \cap Searchers : TRUE
    BY <1>3
  <2>2. c \in continued /\ Parent(c) = n
    BY <2>1 DEF Asks, Order, JoinsWaitForParents, Before, JoinsOf, JoinedTo, Parent
  <2> QED
    BY <1>1, <2>1, <2>2 DEF Restrictions, SearchersRestrict
<1> QED
  BY <1>2, <1>3

\* It wrote nothing yet that it could find.
LEMMA SearchersFindWhatWas ==
  ASSUME Types, Order, NEW n, Asks(n), where[n] # << >>
  PROVE  Accepted(n) \subseteq was
BY DEF Accepted, Order, CreatorsHaveNoWhere

\* Keys that are the same are not null: one of the two is a primary key.
LEMMA SameKeysRelate ==
  ASSUME Types, NEW c, NEW r \in was, NEW x \in was, Value(r, FieldHere(c)) = Value(x, FieldThere(c))
  PROVE  AreRelated(c, r, x)
<1>1. r.id # 0 /\ x.id # 0
  BY QuerySetsAssumptions DEF Types
<1>2. FieldHere(c) = Id \/ FieldThere(c) = Id
  BY DEF FieldHere, FieldThere
<1> QED
  BY <1>1, <1>2 DEF AreRelated, Value

\* What the database accepts was asked for.
LEMMA AcceptedWereAsked ==
  ASSUME Types, Order, Restrictions, NEW n, Asks(n), NEW r \in Accepted(n), r \in was
  PROVE  r \in AskedRows[n]
<1>1. n \in Nodes /\ r \in RowsOf(n)
  BY DEF Asks, Accepted, RowsOf
<1>2. IsAccepted(n, r)
  <2>1. \A f \in DOMAIN where[n] : Value(r, f) \in where[n][f].values
    BY DEF Accepted
  <2> QED
    BY <1>1, <2>1 DEF IsAccepted, Restrictions, ClausesStay
<1>3. ASSUME NEW c \in JoinsOf(n) \cap Searchers
      PROVE  \E x \in AskedRows[c] : AreRelated(c, r, x)
  <2>1. c \in continued /\ c \in JoinSet /\ c \in Nodes /\ Parent(c) = n
    BY DEF Asks, Order, JoinsWaitForParents, Before, JoinsOf, JoinedTo, Parent, Nodes
  <2>2. Value(r, FieldHere(c)) \in parentFilter[c]
    BY <2>1, <1>3 DEF Accepted, Restrictions, SearchersRestrict
  <2>3. PICK x \in AskedRows[c] : Value(r, FieldHere(c)) = Value(x, FieldThere(c))
    BY <2>1, <2>2 DEF Restrictions, FoundWereAsked
  <2>4. x \in was
    BY <2>1, <2>3, AskedIs DEF AskedRows, Types, RowsOf
  <2> QED
    BY <2>3, <2>4, SameKeysRelate
<1>4. query \in Queries
  BY DEF Types
<1> QED
  BY <1>1, <1>2, <1>3, <1>4, AskedIs DEF AskedRows

\* The parent of a join is a query set.
LEMMA JoinsHaveParents ==
  ASSUME query \in Queries, NEW c \in JoinSet
  PROVE  Parent(c) \in Nodes
<1>1. Joins \in Seq(JoinSet) /\ DOMAIN Joins = 1..Len(Joins) /\ Len(Joins) \in Nat
  BY QuerySetsAssumptions
<1>2. PICK j \in DOMAIN Joins : c = Joins[j]
  BY DEF JoinSet, ToSet
<1>3. Parent(c) \in {Root} \cup {Joins[k] : k \in 1..j - 1}
  BY <1>2, QuerySetsAssumptions DEF Parent
<1>4. \A k \in 1..j - 1 : k \in DOMAIN Joins
  BY <1>1
<1> QED
  BY <1>1, <1>3, <1>4 DEF Nodes

-----------------------------------------------------------------------------
(* The steps.                                                               *)

\* No step takes back that a join is read before its parent, nor that a query set
\* was called: what one asks of the joins later, one may ask of them now.
LEMMA WheresWereKept ==
  ASSUME UNCHANGED query, before \subseteq before', WheresAreKept',
         \A c \in JoinSet \ before : stage[c] # "idle" => c \notin before' /\ stage'[c] # "idle"
  PROVE  WheresAreKept
<1> SUFFICES ASSUME NEW n \in Nodes
             PROVE  HaveKeysOfTheirOwn(Before(n)) /\ KeepsItsWhere(n)
  BY DEF WheresAreKept
<1>1. HaveKeysOfTheirOwn(Before(n))' /\ KeepsItsWhere(n)'
  BY DEF WheresAreKept
<1>2. Before(n) \subseteq Before(n)'
  BY DEF Before, JoinsOf, JoinedTo
<1>3. HaveKeysOfTheirOwn(Before(n))
  BY <1>1, <1>2 DEF HaveKeysOfTheirOwn, FieldHere
<1>4. ASSUME NEW f \in DOMAIN Clauses(query, n)
      PROVE  /\ \A c \in Before(n) : FieldHere(c) = f => Clauses(query, n)[f].in
             /\ n \in JoinSet \ before /\ stage[n] # "idle" => f # FieldThere(n)
  <2>1. Clauses(query, n)' = Clauses(query, n)
    BY DEF Clauses
  <2>2. /\ \A c \in Before(n)' : FieldHere(c)' = f => Clauses(query, n)[f].in
        /\ n \in JoinSet \ before' /\ stage'[n] # "idle" => f # FieldThere(n)'
    BY <1>1, <1>4, <2>1 DEF KeepsItsWhere
  <2>3. \A c : FieldHere(c)' = FieldHere(c) /\ FieldThere(c)' = FieldThere(c)
    BY DEF FieldHere, FieldThere
  <2> QED
    BY <1>2, <2>2, <2>3
<1> QED
  BY <1>3, <1>4 DEF KeepsItsWhere

LEMMA CallSorts ==
  ASSUME Types, Order, NEW n \in Nodes, Call(n)
  PROVE  \E first \in SUBSET JoinsOf(n) :
           /\ before' = before \cup first
           /\ \A c \in JoinsOf(n) : c \in JoinSet /\ c # n /\ c \notin before /\ stage[c] = "idle"
           /\ JoinsOf(n) \cap Searchers \subseteq first
           /\ stage[n] = "called" /\ stage'[n] = "waiting"
           /\ \A c \in first : stage'[c] = IF IsHandedAnIn(n, c) THEN "threw" ELSE "called"
           /\ \A m \in Nodes \ first : m # n => stage'[m] = stage[m]
<1> DEFINE first == {c \in JoinsOf(n) : IsBefore(c, Sorted(n))}
<1>1. /\ stage[n] = "called" /\ before' = before \cup first
      /\ stage' = [m \in Nodes |-> IF m = n THEN "waiting"
                                   ELSE IF m \notin first THEN stage[m]
                                   ELSE IF IsHandedAnIn(n, m) THEN "threw" ELSE "called"]
  BY DEF Call
<1>2. \A c \in JoinsOf(n) : c \in JoinSet /\ c \in Nodes /\ c # n /\ c \notin before /\ stage[c] = "idle"
  BY <1>1 DEF Order, JoinsWaitForParents, Started, Parent, JoinsOf, JoinedTo, Nodes
<1>3. ASSUME NEW c \in JoinsOf(n) \cap Searchers PROVE c \in first
  <2>1. hasSearch[c] /\ c \in Nodes
    BY <1>2 DEF Order, SearchersSearch
  <2>2. Sorted(n)[c]
    BY <2>1 DEF Sorted
  <2> QED
    BY <1>3, <2>2 DEF IsBefore
<1> HIDE DEF first
<1>4. first \in SUBSET JoinsOf(n)
  BY DEF first
<1> QED
  BY <1>1, <1>2, <1>3, <1>4

LEMMA CallKeepsOrder ==
  ASSUME Types, Order, NEW n \in Nodes, Call(n)
  PROVE  Types' /\ Order' /\ (WheresAreKept' => WheresAreKept)
<1>1. PICK first \in SUBSET JoinsOf(n) :
           /\ before' = before \cup first
           /\ \A c \in JoinsOf(n) : c \in JoinSet /\ c # n /\ c \notin before /\ stage[c] = "idle"
           /\ JoinsOf(n) \cap Searchers \subseteq first
           /\ stage[n] = "called" /\ stage'[n] = "waiting"
           /\ \A c \in first : stage'[c] = IF IsHandedAnIn(n, c) THEN "threw" ELSE "called"
           /\ \A m \in Nodes \ first : m # n => stage'[m] = stage[m]
  BY CallSorts
<1>2. UNCHANGED <<query, database, where, data, continued, threads, fetched, parentFilter, was, updated>>
  BY DEF Call
<1>3. Searchers' = Searchers /\ \A m : JoinsOf(m)' = JoinsOf(m)
  BY <1>2, AskedStay DEF JoinsOf, JoinedTo
<1>4. \A c : Parent(c)' = Parent(c) /\ (c \in JoinsOf(n) <=> c \in JoinSet /\ Parent(c) = n)
  BY <1>2 DEF Parent, JoinsOf, JoinedTo
<1>5. JoinSet \subseteq Nodes /\ stage \in [Nodes -> {"idle", "called", "waiting", "done", "threw"}]
  BY DEF Nodes, Types
<1>6. Types'
  <2>1. DOMAIN hasSearch' = Nodes /\ stage' \in [Nodes -> {"idle", "called", "waiting", "done", "threw"}]
    BY <1>5 DEF Call, Sorted
  <2> QED
    BY <1>1, <1>2, <2>1 DEF Types
<1>7. \A m \in Nodes : Started(m) => m # n /\ m \notin first
  BY <1>1 DEF Started
<1>8. \A m \in Nodes : Started(m) => Started(m)' /\ stage'[m] = stage[m]
  BY <1>1, <1>7 DEF Started
<1>9. SearchersSearch'
  <2>1. \A m \in Nodes : hasSearch[m] => Sorted(n)[m]
    BY DEF Sorted
  <2>2. hasSearch' = Sorted(n)
    BY DEF Call
  <2> QED
    BY <1>3, <2>1, <2>2 DEF Order, SearchersSearch, Searchers
<1>10. JoinsWaitForParents'
  <2>1. ASSUME NEW c \in JoinSet, ~Started(Parent(c))'
        PROVE  c \notin before' /\ stage'[c] = "idle"
    <3>1. Parent(c) \in Nodes
      BY QuerySetsAssumptions, JoinsHaveParents DEF Types, Parent
    <3>2. ~Started(Parent(c)) /\ Parent(c) # n
      BY <1>1, <1>4, <1>8, <2>1, <3>1 DEF Started
    <3>3. c \notin before /\ stage[c] = "idle" /\ c \notin first /\ c # n
      BY <1>1, <1>4, <3>2 DEF Order, JoinsWaitForParents
    <3> QED
      BY <1>1, <1>5, <3>3
  <2>2. ASSUME NEW m \in Nodes, stage'[m] \in {"waiting", "done"}
        PROVE  JoinsOf(m) \cap Searchers \subseteq before'
    <3>1. m # n => m \notin first /\ stage[m] \in {"waiting", "done"}
      BY <1>1, <2>2
    <3> QED
      BY <1>1, <3>1 DEF Order, JoinsWaitForParents
  <2> QED
    BY <1>3, <2>1, <2>2 DEF JoinsWaitForParents
<1>11. ContinuedAreDone'
  BY <1>1, <1>2, <1>5 DEF Order, ContinuedAreDone, Types
<1>12. ThreadsAreOnce'
  <2>1. \A t \in threads : Started(t[1])'
    BY <1>8 DEF Order, ThreadsAreOnce, Types
  <2>2. \A c \in JoinSet \ before' : stage'[c] # "idle" => <<Parent(c), c>> \in threads
    BY <1>1, <1>5 DEF Order, ThreadsAreOnce
  <2>3. ASSUME NEW f \in fetched, f.for # f.of
        PROVE  f.for \in JoinsOf(f.of) \ before' /\ stage'[f.for] = "idle"
    <3>1. <<f.of, f.for>> \in threads /\ f.for \in JoinsOf(f.of) \ before /\ stage[f.for] = "idle"
      BY <2>3 DEF Order, ThreadsAreOnce
    <3>2. Started(f.of) /\ f.of \in Nodes
      BY <3>1 DEF Order, ThreadsAreOnce, Types
    <3>3. f.for \in JoinSet /\ Parent(f.for) = f.of /\ f.of # n
      BY <1>7, <3>1, <3>2 DEF JoinsOf, JoinedTo, Parent
    <3>4. f.for \notin first /\ f.for # n
      BY <1>1, <1>4, <3>1, <3>3
    <3> QED
      BY <1>1, <1>5, <3>1, <3>3, <3>4
  <2> QED
    BY <1>2, <1>3, <1>4, <2>1, <2>2, <2>3 DEF Order, ThreadsAreOnce
<1>13. CreatorsHaveNoWhere'
  <2> SUFFICES ASSUME NEW r \in database \ was
               PROVE  /\ r.table \in Nodes /\ where[r.table] = << >> /\ Started(r.table)'
                      /\ Before(r.table)' \subseteq continued /\ query.type = "set"
    BY <1>2 DEF CreatorsHaveNoWhere
  <2>1. /\ r.table \in Nodes /\ where[r.table] = << >> /\ Started(r.table)
        /\ Before(r.table) \subseteq continued /\ query.type = "set"
    BY DEF Order, CreatorsHaveNoWhere
  <2>2. Before(r.table)' = Before(r.table)
    BY <1>1, <1>3, <1>4, <1>7, <2>1 DEF Before, JoinsOf, JoinedTo, Parent
  <2> QED
    BY <1>8, <2>1, <2>2
<1>14. OthersAreIns'
  <2>1. \A m : Clauses(query, m)' = Clauses(query, m)
    BY <1>2 DEF Clauses
  <2> QED
    BY <1>2, <2>1 DEF Order, OthersAreIns
<1>15. WheresAreKept' => WheresAreKept
  <2>1. \A c \in JoinSet \ before : stage[c] # "idle" => c \notin before' /\ stage'[c] # "idle"
    BY <1>1, <1>5
  <2> QED
    BY <1>1, <1>2, <2>1, WheresWereKept
<1> QED
  BY <1>6, <1>9, <1>10, <1>11, <1>12, <1>13, <1>14, <1>15 DEF Order

LEMMA CallKeepsRestrictions ==
  ASSUME Types, Order, NEW n \in Nodes, Call(n), WheresAreKept', Restrictions
  PROVE  Restrictions'
<1>1. PICK first \in SUBSET JoinsOf(n) :
           /\ before' = before \cup first
           /\ \A c \in JoinsOf(n) : c \in JoinSet /\ c # n /\ c \notin before /\ stage[c] = "idle"
           /\ JoinsOf(n) \cap Searchers \subseteq first
           /\ stage[n] = "called" /\ stage'[n] = "waiting"
           /\ \A c \in first : stage'[c] = IF IsHandedAnIn(n, c) THEN "threw" ELSE "called"
           /\ \A m \in Nodes \ first : m # n => stage'[m] = stage[m]
  BY CallSorts
<1>2. UNCHANGED <<query, database, where, data, continued, threads, fetched, parentFilter, was, updated>>
  BY DEF Call
<1>3. Searchers' = Searchers /\ AskedRows' = AskedRows /\ \A m : JoinsOf(m)' = JoinsOf(m)
  BY <1>2, AskedStay DEF JoinsOf, JoinedTo
<1>4. \A m : Clauses(query, m)' = Clauses(query, m) /\ Parent(m)' = Parent(m)
  BY <1>2 DEF Clauses, Parent
<1>5. \A c : FieldHere(c)' = FieldHere(c) /\ FieldThere(c)' = FieldThere(c)
  BY <1>2 DEF FieldHere, FieldThere
<1>6. ClausesStay'
  BY <1>2, <1>4 DEF Restrictions, ClausesStay
<1>7. InsStop'
  <2> SUFFICES ASSUME NEW m \in Nodes, NEW c \in Before(m)', FieldHere(c) \in DOMAIN Clauses(query, m)
               PROVE  stage'[c] = "threw"
    BY <1>4, <1>5 DEF InsStop
  <2>1. c \in JoinsOf(m) /\ c \in before \cup first /\ c \in Nodes
    BY <1>1, <1>3 DEF Before, JoinsOf, JoinedTo, Nodes
  <2>2. CASE c \in before
    <3>1. stage[c] = "threw"
      BY <2>1, <2>2 DEF Restrictions, InsStop, Before
    <3>2. c # n /\ c \notin first
      BY <1>1, <3>1
    <3> QED
      BY <1>1, <2>1, <3>1, <3>2
  <2>3. CASE c \in first
    <3>1. m = n
      BY <2>1, <2>3 DEF JoinsOf, JoinedTo
    <3> DEFINE f == FieldHere(c)
    <3>2. Clauses(query, n)[f].in
      BY <1>4, <1>5, <3>1 DEF WheresAreKept, KeepsItsWhere
    <3>3. f \in DOMAIN where[n] /\ where[n][f] = Clauses(query, n)[f]
      BY <3>1 DEF Restrictions, ClausesStay
    <3>4. Clauses(query, n)[f].values # {}
      <4>1. query.where[n] \in {"none", "name", "id", "in"}
        BY QuerySetsAssumptions DEF Types
      <4> HIDE DEF f
      <4>2. f \in DOMAIN Clauses(query, n)
        BY <3>1 DEF f
      <4> QED
        BY <3>2, <4>1, <4>2 DEF Clauses
    <3>5. IsHandedAnIn(n, c)
      BY <3>2, <3>3, <3>4 DEF IsHandedAnIn
    <3> QED
      BY <1>1, <2>3, <3>5
  <2> QED
    BY <2>1, <2>2, <2>3
<1>8. SearchersRestrict'
  BY <1>2, <1>3, <1>4, <1>5 DEF Restrictions, SearchersRestrict
<1>9. FoundWereAsked'
  BY <1>2, <1>3, <1>5 DEF Restrictions, FoundWereAsked, Value
<1>10. WrittenWereAsked'
  BY <1>2, <1>3 DEF Restrictions, WrittenWereAsked
<1> QED
  BY <1>6, <1>7, <1>8, <1>9, <1>10 DEF Restrictions

\* What a step does that calls nobody.
CallsNobody ==
  /\ UNCHANGED <<query, was, before>>
  /\ stage' \in [Nodes -> {"idle", "called", "waiting", "done", "threw"}]
  /\ \A m \in Nodes : stage'[m] # stage[m] => stage[m] = "waiting" /\ stage'[m] \in {"done", "threw"}

LEMMA CallingNobodyKeepsOrder ==
  ASSUME Types, Order, CallsNobody
  PROVE  /\ JoinsWaitForParents' /\ (UNCHANGED continued => ContinuedAreDone')
         /\ \A m \in Nodes : Started(m) => Started(m)'
         /\ \A m : Clauses(query, m)' = Clauses(query, m) /\ Parent(m)' = Parent(m)
         /\ \A m : JoinsOf(m)' = JoinsOf(m) /\ Before(m)' = Before(m)
         /\ \A m : FieldHere(m)' = FieldHere(m) /\ FieldThere(m)' = FieldThere(m)
         /\ Searchers' = Searchers /\ AskedRows' = AskedRows
         /\ WheresAreKept' => WheresAreKept
         /\ Restrictions => InsStop'
<1>1. UNCHANGED <<query, was, before>>
  BY DEF CallsNobody
<1>2. Searchers' = Searchers /\ AskedRows' = AskedRows
  BY <1>1, AskedStay
<1>3. \A m : Clauses(query, m)' = Clauses(query, m) /\ Parent(m)' = Parent(m)
  BY <1>1 DEF Clauses, Parent
<1>4. \A m : JoinsOf(m)' = JoinsOf(m) /\ Before(m)' = Before(m)
  BY <1>1 DEF JoinsOf, JoinedTo, Before
<1>5. \A m : FieldHere(m)' = FieldHere(m) /\ FieldThere(m)' = FieldThere(m)
  BY <1>1 DEF FieldHere, FieldThere
<1>6. \A m \in Nodes : Started(m) <=> Started(m)'
  BY DEF CallsNobody, Started
<1>7. JoinsWaitForParents'
  <2>1. ASSUME NEW c \in JoinSet, ~Started(Parent(c))'
        PROVE  c \notin before' /\ stage'[c] = "idle"
    <3>1. Parent(c) \in Nodes /\ c \in Nodes
      BY JoinsHaveParents DEF Types, Nodes
    <3>2. ~Started(Parent(c))
      BY <1>3, <1>6, <2>1, <3>1 DEF Started
    <3> QED
      BY <1>1, <3>1, <3>2 DEF Order, JoinsWaitForParents, CallsNobody
  <2>2. ASSUME NEW m \in Nodes, stage'[m] \in {"waiting", "done"}
        PROVE  JoinsOf(m) \cap Searchers \subseteq before'
    <3>1. stage[m] \in {"waiting", "done"}
      BY <2>2 DEF CallsNobody
    <3> QED
      BY <1>1, <3>1 DEF Order, JoinsWaitForParents
  <2> QED
    BY <1>2, <1>4, <2>1, <2>2 DEF JoinsWaitForParents
<1>8. UNCHANGED continued => ContinuedAreDone'
  BY DEF Order, ContinuedAreDone, Types, CallsNobody, Nodes
<1>9. WheresAreKept' => WheresAreKept
  <2>1. \A c \in JoinSet \ before : stage[c] # "idle" => c \notin before' /\ stage'[c] # "idle"
    BY <1>1 DEF CallsNobody, Nodes
  <2> QED
    BY <1>1, <2>1, WheresWereKept
<1>10. Restrictions => InsStop'
  <2> SUFFICES ASSUME Restrictions, NEW n \in Nodes, NEW c \in Before(n), FieldHere(c) \in DOMAIN Clauses(query, n)
               PROVE  stage'[c] = "threw"
    BY <1>3, <1>4, <1>5 DEF InsStop
  <2>1. stage[c] = "threw" /\ c \in Nodes
    BY DEF Restrictions, InsStop, Before, JoinsOf, JoinedTo, Nodes
  <2> QED
    BY <2>1 DEF CallsNobody
<1> QED
  BY <1>2, <1>3, <1>4, <1>5, <1>6, <1>7, <1>8, <1>9, <1>10

LEMMA ContinueKeepsInv ==
  ASSUME Types, Order, NEW n \in Nodes, NEW c \in Nodes, Continue(n, c)
  PROVE  /\ Types' /\ Order'
         /\ WheresAreKept' => WheresAreKept
         /\ WheresAreKept' /\ Restrictions => Restrictions'
<1> DEFINE search == hasSearch[n] \/ hasSearch[c]
           new == IF TakesIn(n, search) THEN Restricted(n, FieldHere(c), parentFilter[c]) ELSE where[n]
<1>1. /\ UNCHANGED <<query, database, stage, before, threads, fetched, parentFilter, was, updated>>
      /\ stage[n] = "waiting" /\ c \in Before(n) /\ c \notin continued /\ stage[c] = "done"
      /\ continued' = continued \cup {c}
  BY DEF Continue, memoryVars
<1>2. DOMAIN where' = Nodes /\ where'[n] = new /\ \A m \in Nodes : m # n => where'[m] = where[m]
  BY DEF Continue, Types
<1>3. c \in JoinSet /\ c \in before /\ Parent(c) = n /\ JoinSet \subseteq Nodes
  BY <1>1 DEF Before, JoinsOf, JoinedTo, Parent, Nodes
<1>4. CallsNobody
  <2>1. stage' = stage /\ stage \in [Nodes -> {"idle", "called", "waiting", "done", "threw"}]
    BY <1>1 DEF Types
  <2> QED
    BY <1>1, <2>1 DEF CallsNobody
<1>5. /\ JoinsWaitForParents'
      /\ \A m : Clauses(query, m)' = Clauses(query, m) /\ Parent(m)' = Parent(m)
      /\ \A m : JoinsOf(m)' = JoinsOf(m) /\ Before(m)' = Before(m)
      /\ \A m : FieldHere(m)' = FieldHere(m) /\ FieldThere(m)' = FieldThere(m)
      /\ Searchers' = Searchers /\ AskedRows' = AskedRows
      /\ WheresAreKept' => WheresAreKept
      /\ Restrictions => InsStop'
  BY <1>4, CallingNobodyKeepsOrder
<1>6. new = where[n] \/ new = With(where[n], FieldHere(c), parentFilter[c])
  BY DEF Restricted
<1> HIDE DEF new
<1>7. Types'
  BY <1>1, <1>2, <1>3 DEF Types, Continue
<1>8. SearchersSearch'
  <2>1. \A m \in Nodes : hasSearch[m] => hasSearch'[m]
    BY DEF Continue, Types
  <2> QED
    BY <1>5, <2>1 DEF Order, SearchersSearch, Searchers
<1>9. ContinuedAreDone' /\ ThreadsAreOnce'
  BY <1>1, <1>5 DEF Order, ContinuedAreDone, ThreadsAreOnce, Started
<1>10. CreatorsHaveNoWhere'
  <2> SUFFICES ASSUME NEW r \in database \ was
               PROVE  /\ r.table \in Nodes /\ where'[r.table] = << >> /\ Started(r.table)
                      /\ Before(r.table) \subseteq continued' /\ query.type = "set"
    BY <1>1, <1>5 DEF CreatorsHaveNoWhere, Started
  <2>1. /\ r.table \in Nodes /\ where[r.table] = << >> /\ Started(r.table)
        /\ Before(r.table) \subseteq continued /\ query.type = "set"
    BY DEF Order, CreatorsHaveNoWhere
  <2>2. r.table # n
    BY <1>1, <2>1
  <2> QED
    BY <1>1, <1>2, <2>1, <2>2
<1>11. OthersAreIns'
  <2> SUFFICES ASSUME NEW m \in Nodes, NEW f \in DOMAIN where'[m] \ DOMAIN Clauses(query, m)
               PROVE  where'[m][f].in
    BY <1>5 DEF OthersAreIns
  <2>1. CASE where'[m] = where[m]
    BY <2>1 DEF Order, OthersAreIns
  <2>2. CASE m = n /\ new = With(where[n], FieldHere(c), parentFilter[c])
    BY <1>2, <2>2 DEF Order, OthersAreIns, With
  <2> QED
    BY <1>2, <1>6, <2>1, <2>2
<1>12. ASSUME WheresAreKept', Restrictions PROVE Restrictions'
  <2>1. WheresAreKept
    BY <1>5, <1>12
  <2>2. FieldHere(c) \notin DOMAIN Clauses(query, n)
    BY <1>1, <1>12 DEF Restrictions, InsStop
  <2>3. ClausesStay'
    <3> SUFFICES ASSUME NEW m \in Nodes, NEW f \in DOMAIN Clauses(query, m)
                 PROVE  f \in DOMAIN where'[m] /\ where'[m][f] = Clauses(query, m)[f]
      BY <1>5 DEF ClausesStay
    <3>1. f \in DOMAIN where[m] /\ where[m][f] = Clauses(query, m)[f]
      BY <1>12 DEF Restrictions, ClausesStay
    <3>2. CASE where'[m] = where[m]
      BY <3>1, <3>2
    <3>3. CASE m = n /\ new = With(where[n], FieldHere(c), parentFilter[c])
      BY <1>2, <2>2, <3>1, <3>3 DEF With
    <3> QED
      BY <1>2, <1>6, <3>2, <3>3
  <2>4. SearchersRestrict'
    <3> SUFFICES ASSUME NEW d \in continued' \cap Searchers
                 PROVE  /\ FieldHere(d) \in DOMAIN where'[Parent(d)]
                        /\ where'[Parent(d)][FieldHere(d)].values = parentFilter[d]
      BY <1>1, <1>5 DEF SearchersRestrict
    <3>1. CASE d = c
      <4>1. TakesIn(n, search)
        BY <1>3, <3>1 DEF Order, SearchersSearch, TakesIn
      <4>2. ~(FieldHere(c) \in DOMAIN where[n] /\ ~where[n][FieldHere(c)].in)
        BY <2>2 DEF Order, OthersAreIns
      <4>3. new = With(where[n], FieldHere(c), parentFilter[c])
        BY <4>1, <4>2 DEF new, Restricted
      <4> QED
        BY <1>2, <1>3, <3>1, <4>3 DEF With
    <3>2. CASE d \in continued /\ d # c
      <4>1. d \in JoinSet /\ d \in before /\ Parent(d) \in Nodes
        BY <3>2, JoinsHaveParents DEF Types
      <4>2. /\ FieldHere(d) \in DOMAIN where[Parent(d)]
            /\ where[Parent(d)][FieldHere(d)].values = parentFilter[d]
        BY <1>12, <3>2 DEF Restrictions, SearchersRestrict
      <4>3. CASE where'[Parent(d)] = where[Parent(d)]
        BY <4>2, <4>3
      <4>4. CASE Parent(d) = n /\ new = With(where[n], FieldHere(c), parentFilter[c])
        <5>1. d \in Before(n)
          BY <4>1, <4>4 DEF Before, JoinsOf, JoinedTo, Parent
        <5>2. FieldHere(d) # FieldHere(c)
          BY <1>1, <2>1, <3>2, <5>1 DEF WheresAreKept, HaveKeysOfTheirOwn
        <5> QED
          BY <1>2, <4>2, <4>4, <5>2 DEF With
      <4> QED
        BY <1>2, <1>6, <4>1, <4>3, <4>4
    <3> QED
      BY <1>1, <3>1, <3>2
  <2>5. FoundWereAsked' /\ WrittenWereAsked'
    BY <1>1, <1>5, <1>12 DEF Restrictions, FoundWereAsked, WrittenWereAsked, Value
  <2> QED
    BY <1>5, <1>12, <2>3, <2>4, <2>5 DEF Restrictions
<1> QED
  BY <1>5, <1>7, <1>8, <1>9, <1>10, <1>11, <1>12 DEF Order

\* What a query set does when it asks the database.
AsksOnce(n, j) ==
  /\ UNCHANGED <<query, hasSearch, where, before, continued, parentFilter, was>>
  /\ Asks(n) /\ j \in Threads(n) /\ <<n, j>> \notin threads /\ threads' = threads \cup {<<n, j>>}
  /\ stage' = stage \/ stage' = [stage EXCEPT ![n] = "threw"]

\* What it got, and what it wrote.
Gets(n, j) ==
  \/ fetched' = fetched
  \/ \E rows : fetched' = fetched \cup {[of |-> n, for |-> j, rows |-> rows]} /\ rows \subseteq Accepted(n)
  \/ where[n] = << >> /\ \E rows : fetched' = fetched \cup {[of |-> n, for |-> j, rows |-> rows]}

Writes(n) ==
  \/ UNCHANGED <<database, updated>>
  \/ /\ UNCHANGED updated /\ where[n] = << >> /\ query.type = "set"
     /\ database \subseteq database' /\ \A r \in database' \ database : r.table = n
  \/ /\ UNCHANGED database /\ where[n] # << >> /\ IsWritten(n) /\ updated' = updated \cup Accepted(n)
  \/ /\ UNCHANGED updated /\ where[n] # << >> /\ IsRemoved(n) /\ database' = database \ Accepted(n)

LEMMA QueryAsksOnce ==
  ASSUME Types, NEW n \in Nodes, NEW j \in Nodes, Query(n, j)
  PROVE  AsksOnce(n, j) /\ Gets(n, j) /\ Writes(n)
<1>1. UNCHANGED <<query, hasSearch, where, before, continued, parentFilter, was>>
  BY DEF Query, builderVars, memoryVars
<1>2. Asks(n) /\ j \in Threads(n) /\ <<n, j>> \notin threads /\ threads' = threads \cup {<<n, j>>}
  BY DEF Query, Get, GetNothing, Create, Update, RemoveRows, DatabaseFails, Base, Asks
<1>3. CASE Get(n, j)
  BY <1>1, <1>2, <1>3 DEF Get, Fetch, AsksOnce, Gets, Writes
<1>4. CASE GetNothing(n, j)
  <2> DEFINE nothing == {}
  <2>1. fetched' = fetched \cup {[of |-> n, for |-> j, rows |-> nothing]} /\ nothing \subseteq Accepted(n)
    BY <1>4 DEF GetNothing, Fetch
  <2> HIDE DEF nothing
  <2>2. Gets(n, j)
    BY <2>1 DEF Gets
  <2>3. UNCHANGED <<stage, database, updated>>
    BY <1>4 DEF GetNothing, Fetch
  <2> QED
    BY <1>1, <1>2, <2>2, <2>3 DEF AsksOnce, Writes
<1>5. CASE Create(n, j)
  <2> DEFINE last == Max({0} \cup {r.id : r \in {x \in database : x.table = n}})
             sent == IF hasSearch[n] THEN DOMAIN data[n] \cap {1} ELSE DOMAIN data[n]
             Row(i) == [table |-> n, id |-> last + i, keys |-> data[n][i]]
  <2>1. \A r \in Created(n) : r.table = n
    <3>1. Created(n) = {Row(i) : i \in sent}
      BY DEF Created
    <3>2. \A i : Row(i).table = n
      OBVIOUS
    <3> HIDE DEF Row
    <3> QED
      BY <3>1, <3>2
  <2> HIDE DEF last, sent, Row
  <2> QED
    BY <1>1, <1>2, <1>5, <2>1 DEF Create, Fetch, AsksOnce, Gets, Writes, IsWritten
<1>6. CASE Update(n, j)
  BY <1>1, <1>2, <1>6 DEF Update, Fetch, AsksOnce, Gets, Writes
<1>7. CASE RemoveRows(n, j)
  BY <1>1, <1>2, <1>7 DEF RemoveRows, Fetch, AsksOnce, Gets, Writes
<1>8. CASE DatabaseFails(n, j)
  BY <1>1, <1>2, <1>8 DEF DatabaseFails, Fail, AsksOnce, Gets, Writes
<1> QED
  BY <1>3, <1>4, <1>5, <1>6, <1>7, <1>8 DEF Query

LEMMA QueryKeepsOrder ==
  ASSUME Types, Order, NEW n \in Nodes, NEW j \in Nodes, Query(n, j)
  PROVE  Types' /\ Order' /\ CallsNobody
<1>1. AsksOnce(n, j) /\ Gets(n, j) /\ Writes(n)
  BY QueryAsksOnce
<1>2. UNCHANGED <<query, hasSearch, where, before, continued, parentFilter, was>>
  BY <1>1 DEF AsksOnce
<1>3. /\ stage[n] = "waiting" /\ Before(n) \subseteq continued
      /\ <<n, j>> \notin threads /\ threads' = threads \cup {<<n, j>>}
      /\ j = n \/ j \in JoinsOf(n) \ before
  BY <1>1 DEF AsksOnce, Asks, Threads, After
<1>4. CallsNobody
  BY <1>1, <1>2, <1>3 DEF AsksOnce, CallsNobody, Types
<1>5. /\ JoinsWaitForParents' /\ ContinuedAreDone'
      /\ \A m \in Nodes : Started(m) => Started(m)'
      /\ \A m : Clauses(query, m)' = Clauses(query, m) /\ Parent(m)' = Parent(m)
      /\ \A m : JoinsOf(m)' = JoinsOf(m) /\ Before(m)' = Before(m)
      /\ Searchers' = Searchers
  BY <1>2, <1>4, CallingNobodyKeepsOrder
<1>6. Types'
  BY <1>2, <1>3, <1>4 DEF Types, CallsNobody
<1>7. SearchersSearch' /\ OthersAreIns'
  BY <1>2, <1>5 DEF Order, SearchersSearch, OthersAreIns
<1>8. ThreadsAreOnce'
  <2>1. \A t \in threads' : Started(t[1])'
    <3>1. Started(n)
      BY <1>3 DEF Started
    <3>2. \A t \in threads : t[1] \in Nodes /\ Started(t[1])
      BY DEF Order, ThreadsAreOnce, Types
    <3> QED
      BY <1>3, <1>5, <3>1, <3>2
  <2>2. ASSUME NEW c \in JoinSet \ before, stage'[c] # "idle" PROVE <<Parent(c), c>> \in threads'
    <3>1. stage[c] # "idle"
      BY <1>4, <2>2 DEF CallsNobody, Nodes
    <3> QED
      BY <1>3, <3>1 DEF Order, ThreadsAreOnce
  <2> DEFINE IsWaitedFor(f) ==
               /\ <<f.of, f.for>> \in threads'
               /\ f.for # f.of => f.for \in JoinsOf(f.of) \ before /\ stage'[f.for] = "idle"
  <2>3. \A f \in fetched : IsWaitedFor(f) /\ <<f.of, f.for>> \in threads
    <3> SUFFICES ASSUME NEW f \in fetched PROVE IsWaitedFor(f) /\ <<f.of, f.for>> \in threads
      OBVIOUS
    <3>1. /\ <<f.of, f.for>> \in threads
          /\ f.for # f.of => f.for \in JoinsOf(f.of) \ before /\ stage[f.for] = "idle"
      BY DEF Order, ThreadsAreOnce
    <3>2. f.for \in Nodes
      BY <3>1 DEF Types
    <3> QED
      BY <1>3, <1>4, <3>1, <3>2 DEF CallsNobody
  <2>4. j # n => j \in JoinsOf(n) \ before /\ stage'[j] = "idle"
    <3> SUFFICES ASSUME j # n PROVE stage'[j] = "idle"
      BY <1>3
    <3>1. j \in JoinSet \ before /\ Parent(j) = n
      BY <1>3 DEF JoinsOf, JoinedTo, Parent
    <3>2. stage[j] = "idle"
      BY <1>3, <3>1 DEF Order, ThreadsAreOnce
    <3> QED
      BY <1>4, <3>2 DEF CallsNobody
  <2>5. \A f \in fetched' : f \in fetched \/ (f.of = n /\ f.for = j)
    BY <1>1 DEF Gets
  <2>6. \A f \in fetched' : IsWaitedFor(f)
    BY <1>3, <2>3, <2>4, <2>5
  <2>7. \A f, g \in fetched' : g.of = f.of /\ g.for = f.for => g = f
    <3>1. \A f, g \in fetched : g.of = f.of /\ g.for = f.for => g = f
      BY DEF Order, ThreadsAreOnce
    <3>2. \A f \in fetched : ~(f.of = n /\ f.for = j)
      BY <1>3, <2>3
    <3>3. \A f, g \in fetched' \ fetched : f = g
      BY <1>1 DEF Gets
    <3> QED
      BY <2>5, <3>1, <3>2, <3>3
  <2> QED
    BY <1>2, <1>5, <2>1, <2>2, <2>6, <2>7 DEF ThreadsAreOnce
<1>9. CreatorsHaveNoWhere'
  <2> SUFFICES ASSUME NEW r \in database' \ was
               PROVE  /\ r.table \in Nodes /\ where[r.table] = << >> /\ Started(r.table)'
                      /\ Before(r.table) \subseteq continued /\ query.type = "set"
    BY <1>2, <1>5 DEF CreatorsHaveNoWhere
  <2>1. CASE r \in database
    BY <1>5, <2>1 DEF Order, CreatorsHaveNoWhere
  <2>2. CASE r \notin database
    <3>1. r.table = n /\ where[n] = << >> /\ query.type = "set"
      BY <1>1, <2>2 DEF Writes
    <3>2. Started(n)
      BY <1>3 DEF Started
    <3> QED
      BY <1>3, <1>5, <3>1, <3>2
  <2> QED
    BY <2>1, <2>2
<1> QED
  BY <1>4, <1>5, <1>6, <1>7, <1>8, <1>9 DEF Order

LEMMA QueryKeepsRestrictions ==
  ASSUME Types, Order, NEW n \in Nodes, NEW j \in Nodes, Query(n, j), Restrictions
  PROVE  Restrictions'
<1>1. AsksOnce(n, j) /\ Gets(n, j) /\ Writes(n) /\ CallsNobody
  BY QueryAsksOnce, QueryKeepsOrder
<1>2. UNCHANGED <<query, hasSearch, where, before, continued, parentFilter, was>> /\ Asks(n)
  BY <1>1 DEF AsksOnce
<1>3. /\ \A m : Clauses(query, m)' = Clauses(query, m) /\ Parent(m)' = Parent(m)
      /\ \A m : JoinsOf(m)' = JoinsOf(m)
      /\ \A m : FieldHere(m)' = FieldHere(m) /\ FieldThere(m)' = FieldThere(m)
      /\ Searchers' = Searchers /\ AskedRows' = AskedRows
      /\ InsStop'
  BY <1>1, CallingNobodyKeepsOrder
<1>4. where[n] # << >> => Accepted(n) \subseteq was /\ Accepted(n) \subseteq AskedRows[n]
  <2> SUFFICES ASSUME where[n] # << >>, NEW r \in Accepted(n) PROVE r \in was /\ r \in AskedRows[n]
    OBVIOUS
  <2>1. r \in was
    BY <1>2, SearchersFindWhatWas
  <2> QED
    BY <1>2, <2>1, AcceptedWereAsked
<1>5. \A r \in Accepted(n) : r \in database /\ r.table = n
  BY DEF Accepted
<1>6. n \in Searchers => where[n] # << >>
  <2> SUFFICES ASSUME n \in Searchers PROVE where[n] # << >>
    OBVIOUS
  <2>1. query.where[n] # "none" \/ JoinsOf(n) \cap Searchers # {}
    BY SearchersHaveReasons DEF Types
  <2> QED
    BY <1>2, <2>1, SearchersHaveAWhere
<1>7. where[n] = << >> => query.where[n] = "none" /\ JoinsOf(n) \cap Searchers = {}
  BY <1>2, SearchersHaveAWhere
<1>8. ClausesStay' /\ SearchersRestrict'
  BY <1>2, <1>3 DEF Restrictions, ClausesStay, SearchersRestrict
<1>9. FoundWereAsked'
  <2>1. ASSUME NEW f \in fetched', f.of \in Searchers PROVE f.rows \subseteq AskedRows[f.of]
    <3>1. CASE f \in fetched
      BY <2>1, <3>1 DEF Restrictions, FoundWereAsked
    <3>2. CASE f \notin fetched
      <4>1. f.of = n /\ (where[n] = << >> \/ f.rows \subseteq Accepted(n))
        BY <1>1, <3>2 DEF Gets
      <4> QED
        BY <1>4, <1>6, <2>1, <4>1
    <3> QED
      BY <3>1, <3>2
  <2> QED
    BY <1>2, <1>3, <2>1 DEF Restrictions, FoundWereAsked, Value
<1>10. WrittenWereAsked'
  <2>1. ASSUME NEW r \in was \ database' PROVE r \in AskedRows[r.table] /\ r.table \in query.removes
    <3>1. CASE r \notin database
      BY <3>1 DEF Restrictions, WrittenWereAsked
    <3>2. CASE r \in database
      BY <1>1, <1>4, <1>5, <2>1, <3>2 DEF Writes, IsRemoved
    <3> QED
      BY <3>1, <3>2
  <2>2. ASSUME NEW r \in updated' PROVE r \in AskedRows[r.table] /\ query.data[r.table] > 0
    <3>1. CASE r \in updated
      BY <3>1 DEF Restrictions, WrittenWereAsked
    <3>2. CASE r \notin updated
      BY <1>1, <1>4, <1>5, <2>2, <3>2 DEF Writes, IsWritten
    <3> QED
      BY <3>1, <3>2
  <2>3. ASSUME NEW r \in database' \ was
        PROVE  query.where[r.table] = "none" /\ JoinsOf(r.table) \cap Searchers = {}
    <3>1. CASE r \in database
      BY <2>3, <3>1 DEF Restrictions, WrittenWereAsked
    <3>2. CASE r \notin database
      BY <1>1, <1>7, <2>3, <3>2 DEF Writes
    <3> QED
      BY <3>1, <3>2
  <2> QED
    BY <1>2, <1>3, <2>1, <2>2, <2>3 DEF WrittenWereAsked
<1> QED
  BY <1>3, <1>8, <1>9, <1>10 DEF Restrictions

\* A step that only puts rows together.
Settles ==
  /\ CallsNobody /\ UNCHANGED <<database, hasSearch, where, continued, threads, updated>>
  /\ fetched' \subseteq fetched /\ DOMAIN parentFilter' = Nodes
  /\ \A c \in continued : parentFilter'[c] = parentFilter[c]

FiltersAreAsked(filter) ==
  \A c \in JoinSet \cap Searchers : \A v \in filter[c] : \E x \in AskedRows[c] : v = Value(x, FieldThere(c))

LEMMA SettlingKeepsInv ==
  ASSUME Types, Order, Settles
  PROVE  /\ Types' /\ Order' /\ (WheresAreKept' => WheresAreKept)
         /\ Restrictions /\ FiltersAreAsked(parentFilter') => Restrictions'
<1>1. /\ UNCHANGED <<query, was, before, database, hasSearch, where, continued, threads, updated>>
      /\ CallsNobody /\ fetched' \subseteq fetched /\ \A c \in continued : parentFilter'[c] = parentFilter[c]
  BY DEF Settles, CallsNobody
<1>2. /\ JoinsWaitForParents' /\ ContinuedAreDone'
      /\ \A m \in Nodes : Started(m) => Started(m)'
      /\ \A m : Clauses(query, m)' = Clauses(query, m) /\ Parent(m)' = Parent(m)
      /\ \A m : JoinsOf(m)' = JoinsOf(m) /\ Before(m)' = Before(m)
      /\ \A m : FieldHere(m)' = FieldHere(m) /\ FieldThere(m)' = FieldThere(m)
      /\ Searchers' = Searchers /\ AskedRows' = AskedRows
      /\ WheresAreKept' => WheresAreKept
      /\ Restrictions => InsStop'
  BY <1>1, CallingNobodyKeepsOrder
<1>3. Types'
  BY <1>1 DEF Types, Settles, CallsNobody
<1>4. SearchersSearch' /\ OthersAreIns'
  BY <1>1, <1>2 DEF Order, SearchersSearch, OthersAreIns
<1>5. ThreadsAreOnce'
  <2>1. \A t \in threads : Started(t[1])'
    BY <1>2 DEF Order, ThreadsAreOnce, Types
  <2>2. \A c \in JoinSet \ before : stage'[c] # "idle" => <<Parent(c), c>> \in threads
    BY <1>1 DEF Order, ThreadsAreOnce, CallsNobody, Nodes
  <2>3. ASSUME NEW f \in fetched
        PROVE  f.for # f.of => f.for \in JoinsOf(f.of) \ before /\ stage'[f.for] = "idle"
    <3>1. /\ <<f.of, f.for>> \in threads
          /\ f.for # f.of => f.for \in JoinsOf(f.of) \ before /\ stage[f.for] = "idle"
      BY DEF Order, ThreadsAreOnce
    <3>2. f.for \in Nodes
      BY <3>1 DEF Types
    <3> QED
      BY <1>1, <3>1, <3>2 DEF CallsNobody
  <2> QED
    BY <1>1, <1>2, <2>1, <2>2, <2>3 DEF Order, ThreadsAreOnce
<1>6. CreatorsHaveNoWhere'
  BY <1>1, <1>2 DEF Order, CreatorsHaveNoWhere
<1>7. ASSUME Restrictions, FiltersAreAsked(parentFilter') PROVE Restrictions'
  <2>1. ClausesStay' /\ SearchersRestrict'
    BY <1>1, <1>2, <1>7 DEF Restrictions, ClausesStay, SearchersRestrict
  <2>2. FoundWereAsked'
    BY <1>1, <1>2, <1>7 DEF Restrictions, FoundWereAsked, FiltersAreAsked, Value
  <2>3. WrittenWereAsked'
    BY <1>1, <1>2, <1>7 DEF Restrictions, WrittenWereAsked
  <2> QED
    BY <1>2, <1>7, <2>1, <2>2, <2>3 DEF Restrictions
<1> QED
  BY <1>2, <1>3, <1>4, <1>5, <1>6, <1>7 DEF Order

LEMMA ReturnKeepsInv ==
  ASSUME Types, Order, NEW n \in Nodes, Return(n)
  PROVE  /\ Types' /\ Order' /\ (WheresAreKept' => WheresAreKept)
         /\ Restrictions => Restrictions'
<1>1. Settles /\ parentFilter' = parentFilter
  <2>1. /\ UNCHANGED <<query, was, before, database, hasSearch, where, continued, threads, updated, fetched, parentFilter>>
        /\ stage[n] = "waiting" /\ stage' = [stage EXCEPT ![n] = "done"]
    BY DEF Return, builderVars, memoryVars
  <2>2. CallsNobody
    BY <2>1 DEF CallsNobody, Types
  <2> QED
    BY <2>1, <2>2 DEF Settles, Types
<1>2. Restrictions => FiltersAreAsked(parentFilter')
  BY <1>1 DEF Restrictions, FoundWereAsked, FiltersAreAsked
<1> QED
  BY <1>1, <1>2, SettlingKeepsInv

\* A query set is done with its rows, or two joins are in each other's way.
LEMMA TakeLastKeepsInv ==
  ASSUME Types, Order, NEW f \in fetched, Take(f), TakeLast(f)
  PROVE  /\ Types' /\ Order' /\ (WheresAreKept' => WheresAreKept)
         /\ Restrictions => Restrictions'
<1> DEFINE n == f.of
<1>1. n \in Nodes
  BY DEF Order, ThreadsAreOnce, Types
<1>2. /\ UNCHANGED <<query, was, before, database, hasSearch, where, continued, threads, updated>>
      /\ fetched' \subseteq fetched /\ stage[n] = "waiting"
  BY DEF Take, TakeLast, builderVars
<1>3. \/ stage' = [stage EXCEPT ![n] = "threw"] /\ parentFilter' = parentFilter
      \/ stage' = [stage EXCEPT ![n] = "done"] /\ DOMAIN parentFilter' = Nodes
  BY DEF TakeLast, Types
<1>4. CallsNobody
  BY <1>1, <1>2, <1>3 DEF CallsNobody, Types
<1>5. /\ DOMAIN parentFilter' = Nodes
      /\ \A c \in Nodes : c # n => parentFilter'[c] = parentFilter[c]
      /\ \A v \in parentFilter'[n] :
           v \in parentFilter[n] \/ (n # Root /\ \E r \in f.rows : v = Value(r, FieldThere(n)))
  <2> DEFINE objects == {[of |-> n, for |-> f.for, row |-> r] : r \in f.rows}
             get == IF n = Root THEN None ELSE FieldThere(n)
             entries == Entries(n, objects, get, FieldHere(n))
  <2>1. \/ parentFilter' = parentFilter
        \/ parentFilter' = [parentFilter EXCEPT ![n] = @ \cup {e.value : e \in entries}]
    BY DEF TakeLast
  <2>2. \A e \in entries : n \in JoinSet /\ \E r \in f.rows : e.value = Value(r, get)
    <3>1. n \in before => n \in JoinSet
      BY DEF Types
    <3>2. \A o \in objects : \E r \in f.rows : o.row = r
      OBVIOUS
    <3> HIDE DEF objects, get, n
    <3> QED
      BY <3>1, <3>2 DEF Entries
  <2>3. n \in JoinSet => n # Root
    BY QuerySetsAssumptions
  <2>4. DOMAIN parentFilter = Nodes
    BY DEF Types
  <2>5. \A e \in entries : n # Root /\ \E r \in f.rows : e.value = Value(r, FieldThere(n))
    BY <2>2, <2>3
  <2> HIDE DEF entries
  <2>6. CASE parentFilter' = parentFilter
    BY <2>4, <2>6
  <2>7. CASE parentFilter' = [parentFilter EXCEPT ![n] = @ \cup {e.value : e \in entries}]
    <3> DEFINE more == {e.value : e \in entries}
    <3>1. \A v \in more : n # Root /\ \E r \in f.rows : v = Value(r, FieldThere(n))
      BY <2>5
    <3> HIDE DEF more
    <3>2. parentFilter' = [parentFilter EXCEPT ![n] = @ \cup more]
      BY <2>7 DEF more
    <3> HIDE DEF n
    <3> QED
      BY <1>1, <2>4, <3>1, <3>2
  <2> QED
    BY <2>1, <2>6, <2>7
<1>6. \A c \in continued : c # n /\ c \in Nodes
  BY <1>2 DEF Order, ContinuedAreDone, Types, Nodes
<1>7. Settles
  BY <1>2, <1>4, <1>5, <1>6 DEF Settles
<1>8. Restrictions => FiltersAreAsked(parentFilter')
  <2> SUFFICES ASSUME Restrictions, NEW c \in JoinSet \cap Searchers, NEW v \in parentFilter'[c]
               PROVE  \E x \in AskedRows[c] : v = Value(x, FieldThere(c))
    BY DEF FiltersAreAsked
  <2>1. CASE v \in parentFilter[c]
    BY <2>1 DEF Restrictions, FoundWereAsked
  <2>2. CASE v \notin parentFilter[c]
    <3>1. c = n /\ \E r \in f.rows : v = Value(r, FieldThere(n))
      BY <1>5, <2>2 DEF Nodes
    <3>2. f.rows \subseteq AskedRows[n]
      BY <3>1 DEF Restrictions, FoundWereAsked
    <3> QED
      BY <3>1, <3>2
  <2> QED
    BY <2>1, <2>2
<1> QED
  BY <1>7, <1>8, SettlingKeepsInv

\* A query set calls the join its rows were read for, and restricts it to them.
CallsJoin(n, j) ==
  /\ UNCHANGED <<query, was, before, database, hasSearch, continued, threads, updated, parentFilter>>
  /\ stage' = [stage EXCEPT ![j] = "called"]
  /\ DOMAIN where' = Nodes /\ \A m \in Nodes : m # j => where'[m] = where[m]
  /\ \/ where'[j] = where[j]
     \/ \E values : where'[j] = With(where[j], FieldThere(j), values)

LEMMA TakeForCalls ==
  ASSUME Types, Order, NEW f \in fetched, Take(f), TakeFor(f)
  PROVE  (Settles /\ parentFilter' = parentFilter) \/ CallsJoin(f.of, f.for)
<1> DEFINE n == f.of
           j == f.for
           values == childFilter[n] \cup {Value(r, FieldHere(j)) : r \in f.rows}
<1>1. n \in Nodes
  BY DEF Order, ThreadsAreOnce, Types
<1>2. /\ UNCHANGED <<query, was, before, database, hasSearch, continued, threads, updated, parentFilter>>
      /\ fetched' \subseteq fetched /\ stage[n] = "waiting"
  BY DEF Take, TakeFor
<1>3. \/ stage' = [stage EXCEPT ![n] = "threw"] /\ where' = where
      \/ /\ stage' = [stage EXCEPT ![j] = "called"]
         /\ where' = [where EXCEPT ![j] = IF TakesIn(j, hasSearch[j]) THEN With(@, FieldThere(j), values) ELSE @]
  BY DEF TakeFor
<1> HIDE DEF values
<1>4. CASE stage' = [stage EXCEPT ![n] = "threw"] /\ where' = where
  <2>1. CallsNobody
    BY <1>1, <1>2, <1>4 DEF CallsNobody, Types
  <2> QED
    BY <1>2, <1>4, <2>1 DEF Settles, Types
<1>5. CASE /\ stage' = [stage EXCEPT ![j] = "called"]
           /\ where' = [where EXCEPT ![j] = IF TakesIn(j, hasSearch[j]) THEN With(@, FieldThere(j), values) ELSE @]
  <2>1. /\ DOMAIN where' = Nodes /\ \A m \in Nodes : m # j => where'[m] = where[m]
        /\ j \in Nodes => where'[j] = IF TakesIn(j, hasSearch[j])
                                     THEN With(where[j], FieldThere(j), values) ELSE where[j]
    BY <1>5 DEF Types
  <2>2. j \in Nodes
    BY <1>1 DEF Order, ThreadsAreOnce, Types, TakeFor, JoinsOf, JoinedTo, Nodes
  <2>3. \/ where'[j] = where[j]
        \/ \E given : where'[j] = With(where[j], FieldThere(j), given)
    BY <2>1, <2>2
  <2> QED
    BY <1>2, <1>5, <2>1, <2>3 DEF CallsJoin
<1> QED
  BY <1>3, <1>4, <1>5

LEMMA CallingAJoinKeepsInv ==
  ASSUME Types, Order, NEW f \in fetched, Take(f), TakeFor(f), CallsJoin(f.of, f.for)
  PROVE  /\ Types' /\ Order' /\ (WheresAreKept' => WheresAreKept)
         /\ WheresAreKept' /\ Restrictions => Restrictions'
<1> DEFINE n == f.of
           j == f.for
<1>1. /\ UNCHANGED <<query, was, before, database, hasSearch, continued, threads, updated, parentFilter>>
      /\ fetched' = fetched \ {f} /\ stage[n] = "waiting" /\ n # j
  BY DEF CallsJoin, Take, TakeFor
<1>2. /\ <<n, j>> \in threads /\ n \in Nodes /\ j \in JoinSet /\ j \in Nodes /\ j \notin before
      /\ Parent(j) = n /\ stage[j] = "idle"
  BY <1>1 DEF Order, ThreadsAreOnce, Types, JoinsOf, JoinedTo, Parent
<1>3. /\ stage'[j] = "called" /\ \A m \in Nodes : m # j => stage'[m] = stage[m] /\ where'[m] = where[m]
      /\ DOMAIN where' = Nodes /\ stage' \in [Nodes -> {"idle", "called", "waiting", "done", "threw"}]
      /\ where'[j] = where[j] \/ \E values : where'[j] = With(where[j], FieldThere(j), values)
  BY <1>2 DEF CallsJoin, Types
<1> HIDE DEF n, j
<1>4. Searchers' = Searchers /\ AskedRows' = AskedRows
  BY <1>1, AskedStay
<1>5. /\ \A m : Clauses(query, m)' = Clauses(query, m) /\ Parent(m)' = Parent(m)
      /\ \A m : JoinsOf(m)' = JoinsOf(m) /\ Before(m)' = Before(m)
      /\ \A m : FieldHere(m)' = FieldHere(m) /\ FieldThere(m)' = FieldThere(m)
  BY <1>1 DEF Clauses, Parent, JoinsOf, JoinedTo, Before, FieldHere, FieldThere
<1>6. \A m \in Nodes : (Started(m) <=> Started(m)') /\ (Started(m) => m # j)
  BY <1>2, <1>3 DEF Started
<1>7. JoinSet \subseteq Nodes
  BY DEF Nodes
<1>8. Types'
  BY <1>1, <1>3 DEF Types
<1>9. SearchersSearch' /\ ContinuedAreDone'
  BY <1>1, <1>2, <1>3, <1>4, <1>7 DEF Order, SearchersSearch, ContinuedAreDone, Types
<1>10. JoinsWaitForParents'
  <2>1. ASSUME NEW c \in JoinSet, ~Started(Parent(c))'
        PROVE  c \notin before /\ stage'[c] = "idle"
    <3>1. Parent(c) \in Nodes /\ c \in Nodes
      BY JoinsHaveParents DEF Types, Nodes
    <3>2. ~Started(Parent(c)) /\ Started(n)
      BY <1>1, <1>5, <1>6, <2>1, <3>1 DEF Started
    <3> QED
      BY <1>2, <1>3, <3>1, <3>2 DEF Order, JoinsWaitForParents
  <2>2. ASSUME NEW m \in Nodes, stage'[m] \in {"waiting", "done"}
        PROVE  JoinsOf(m) \cap Searchers \subseteq before
    <3>1. stage[m] \in {"waiting", "done"}
      BY <1>3, <2>2
    <3> QED
      BY <3>1 DEF Order, JoinsWaitForParents
  <2> QED
    BY <1>1, <1>4, <1>5, <2>1, <2>2 DEF JoinsWaitForParents
<1>11. ThreadsAreOnce'
  <2>1. \A t \in threads : Started(t[1])'
    BY <1>6 DEF Order, ThreadsAreOnce, Types
  <2>2. \A c \in JoinSet \ before : stage'[c] # "idle" => <<Parent(c), c>> \in threads
    BY <1>2, <1>3, <1>7 DEF Order, ThreadsAreOnce
  <2>3. ASSUME NEW g \in fetched, g # f, g.for # g.of
        PROVE  g.for \in JoinsOf(g.of) \ before /\ stage'[g.for] = "idle"
    <3>1. g.for \in JoinsOf(g.of) \ before /\ stage[g.for] = "idle"
      BY <2>3 DEF Order, ThreadsAreOnce
    <3>2. Parent(g.for) = g.of /\ g.for \in Nodes
      BY <3>1 DEF JoinsOf, JoinedTo, Parent, Nodes
    <3>3. g.for # j
      BY <1>2, <2>3, <3>2 DEF Order, ThreadsAreOnce, n, j
    <3> QED
      BY <1>3, <3>1, <3>2, <3>3
  <2> QED
    BY <1>1, <1>5, <2>1, <2>2, <2>3 DEF Order, ThreadsAreOnce
<1>12. CreatorsHaveNoWhere'
  <2> SUFFICES ASSUME NEW r \in database \ was
               PROVE  /\ r.table \in Nodes /\ where'[r.table] = << >> /\ Started(r.table)'
                      /\ Before(r.table) \subseteq continued /\ query.type = "set"
    BY <1>1, <1>5 DEF CreatorsHaveNoWhere
  <2>1. /\ r.table \in Nodes /\ where[r.table] = << >> /\ Started(r.table)
        /\ Before(r.table) \subseteq continued /\ query.type = "set"
    BY DEF Order, CreatorsHaveNoWhere
  <2> QED
    BY <1>3, <1>6, <2>1
<1>13. OthersAreIns'
  <2> SUFFICES ASSUME NEW m \in Nodes, NEW g \in DOMAIN where'[m] \ DOMAIN Clauses(query, m)
               PROVE  where'[m][g].in
    BY <1>5 DEF OthersAreIns
  <2>1. CASE where'[m] = where[m]
    BY <2>1 DEF Order, OthersAreIns
  <2>2. CASE where'[m] # where[m]
    <3>1. m = j
      BY <1>3, <2>2
    <3>2. PICK values : where'[j] = With(where[j], FieldThere(j), values)
      BY <1>3, <2>2, <3>1
    <3> QED
      BY <1>2, <3>1, <3>2 DEF Order, OthersAreIns, With
  <2> QED
    BY <2>1, <2>2
<1>14. WheresAreKept' => WheresAreKept
  <2>1. \A c \in JoinSet \ before : stage[c] # "idle" => c \notin before' /\ stage'[c] # "idle"
    BY <1>1, <1>3, <1>7
  <2> QED
    BY <1>1, <2>1, WheresWereKept
<1>15. ASSUME WheresAreKept', Restrictions PROVE Restrictions'
  <2>1. \A g \in DOMAIN Clauses(query, j) : g # FieldThere(j)
    <3>1. KeepsItsWhere(j)'
      BY <1>2, <1>15 DEF WheresAreKept
    <3> QED
      BY <1>1, <1>2, <1>3, <1>5, <3>1 DEF KeepsItsWhere
  <2>2. ClausesStay'
    <3> SUFFICES ASSUME NEW m \in Nodes, NEW g \in DOMAIN Clauses(query, m)
                 PROVE  g \in DOMAIN where'[m] /\ where'[m][g] = Clauses(query, m)[g]
      BY <1>5 DEF ClausesStay
    <3>1. g \in DOMAIN where[m] /\ where[m][g] = Clauses(query, m)[g]
      BY <1>15 DEF Restrictions, ClausesStay
    <3>2. CASE where'[m] = where[m]
      BY <3>1, <3>2
    <3>3. CASE where'[m] # where[m]
      <4>1. m = j
        BY <1>3, <3>3
      <4>2. PICK values : where'[j] = With(where[j], FieldThere(j), values)
        BY <1>3, <3>3, <4>1
      <4> QED
        BY <2>1, <3>1, <4>1, <4>2 DEF With
    <3> QED
      BY <3>2, <3>3
  <2>3. InsStop'
    <3> SUFFICES ASSUME NEW m \in Nodes, NEW c \in Before(m), FieldHere(c) \in DOMAIN Clauses(query, m)
                 PROVE  stage'[c] = "threw"
      BY <1>5 DEF InsStop
    <3>1. stage[c] = "threw" /\ c \in Nodes
      BY <1>15 DEF Restrictions, InsStop, Before, JoinsOf, JoinedTo, Nodes
    <3> QED
      BY <1>2, <1>3, <3>1
  <2>4. SearchersRestrict'
    <3> SUFFICES ASSUME NEW c \in continued \cap Searchers
                 PROVE  where'[Parent(c)] = where[Parent(c)]
      BY <1>1, <1>4, <1>5, <1>15 DEF Restrictions, SearchersRestrict
    <3>1. c \in JoinSet /\ c \in before /\ Parent(c) \in Nodes
      BY JoinsHaveParents DEF Types
    <3>2. Started(Parent(c))
      BY <3>1 DEF Order, JoinsWaitForParents
    <3> QED
      BY <1>3, <1>6, <3>1, <3>2
  <2>5. FoundWereAsked' /\ WrittenWereAsked'
    BY <1>1, <1>4, <1>5, <1>15 DEF Restrictions, FoundWereAsked, WrittenWereAsked, Value
  <2> QED
    BY <2>2, <2>3, <2>4, <2>5 DEF Restrictions
<1> QED
  BY <1>8, <1>9, <1>10, <1>11, <1>12, <1>13, <1>14, <1>15 DEF Order

-----------------------------------------------------------------------------
(* The theorems about writes.                                               *)

LEMMA InitImpliesWritesInv == Init => WritesInv
<1> SUFFICES ASSUME Init PROVE WritesInv
  OBVIOUS
<1>1. JoinSet \subseteq Nodes /\ Root \notin JoinSet
  BY QuerySetsAssumptions DEF Nodes
<1>2. Types
  BY DEF Init, Types
<1>3. SearchersSearch
  BY DEF Init, SearchersSearch, Searchers
<1>4. JoinsWaitForParents
  BY <1>1 DEF Init, JoinsWaitForParents
<1>5. ContinuedAreDone /\ ThreadsAreOnce
  BY <1>1 DEF Init, ContinuedAreDone, ThreadsAreOnce
<1>6. CreatorsHaveNoWhere /\ OthersAreIns
  BY DEF Init, CreatorsHaveNoWhere, OthersAreIns
<1>7. Restrictions
  <2>1. ClausesStay
    BY DEF Init, ClausesStay
  <2>2. InsStop /\ SearchersRestrict
    BY DEF Init, InsStop, SearchersRestrict, Before
  <2>3. FoundWereAsked
    BY <1>1 DEF Init, FoundWereAsked
  <2>4. WrittenWereAsked
    BY DEF Init, WrittenWereAsked
  <2> QED
    BY <2>1, <2>2, <2>3, <2>4 DEF Restrictions
<1> QED
  BY <1>2, <1>3, <1>4, <1>5, <1>6, <1>7 DEF WritesInv, Order

LEMMA NextKeepsWritesInv == WritesInv /\ [Next]_vars => WritesInv'
<1> SUFFICES ASSUME WritesInv, [Next]_vars PROVE WritesInv'
  OBVIOUS
<1> USE DEF WritesInv
<1>1. CASE \E n \in Nodes : Call(n)
  BY <1>1, CallKeepsOrder, CallKeepsRestrictions
<1>2. CASE \E n \in Nodes : Return(n)
  BY <1>2, ReturnKeepsInv
<1>3. CASE \E n, m \in Nodes : Continue(n, m)
  BY <1>3, ContinueKeepsInv
<1>4. CASE \E n, m \in Nodes : Query(n, m)
  <2>1. PICK n, m \in Nodes : Query(n, m)
    BY <1>4
  <2>2. Types' /\ Order' /\ CallsNobody
    BY <2>1, QueryKeepsOrder
  <2>3. WheresAreKept' => WheresAreKept
    BY <2>2, CallingNobodyKeepsOrder
  <2> QED
    BY <2>1, <2>2, <2>3, QueryKeepsRestrictions
<1>5. CASE \E f \in fetched : Take(f)
  <2>1. PICK f \in fetched : Take(f)
    BY <1>5
  <2>2. CASE TakeLast(f)
    BY <2>1, <2>2, TakeLastKeepsInv
  <2>3. CASE TakeFor(f)
    <3>1. CASE Settles /\ parentFilter' = parentFilter
      <4>1. Restrictions => FiltersAreAsked(parentFilter')
        BY <3>1 DEF Restrictions, FoundWereAsked, FiltersAreAsked
      <4> QED
        BY <3>1, <4>1, SettlingKeepsInv
    <3>2. CASE CallsJoin(f.of, f.for)
      BY <2>1, <2>3, <3>2, CallingAJoinKeepsInv
    <3> QED
      BY <2>1, <2>3, <3>1, <3>2, TakeForCalls
  <2> QED
    BY <2>1, <2>2, <2>3 DEF Take
<1>6. CASE UNCHANGED vars
  <2>1. Settles /\ parentFilter' = parentFilter
    BY <1>6 DEF vars, builderVars, memoryVars, Settles, CallsNobody, Types
  <2>2. Restrictions => FiltersAreAsked(parentFilter')
    BY <2>1 DEF Restrictions, FoundWereAsked, FiltersAreAsked
  <2> QED
    BY <2>1, <2>2, SettlingKeepsInv
<1> QED
  BY <1>1, <1>2, <1>3, <1>4, <1>5, <1>6 DEF Next, Done

\* What a query did so far is all it was asked to, in the invariant that makes it
\* so: joins wait for the query set that has them, threads ask once, and while no
\* where is lost everything a query set finds and hands on was asked for.
THEOREM QueriesKeepTheirOrder == Spec => []WritesInv
BY InitImpliesWritesInv, NextKeepsWritesInv, PTL DEF Spec

\* For any tree of joins, any wheres and any database: a query removes and updates
\* no row but those that fit its wheres and have related rows in every join that
\* searches, and creates none where a query set or a join searches
\* (databases/src/queries/queryset.ts 868-1085).
THEOREM OnlyAskedRowsAreWritten == Spec => []WritesAreAsked
<1>1. WritesInv => WritesAreAsked
  BY DEF WritesInv, WheresAreKept, Restrictions, WrittenWereAsked, WritesAreAsked, Searchers, AskedRows
<1> QED
  BY <1>1, QueriesKeepTheirOrder, PTL
-----------------------------------------------------------------------------
(* How rows find each other, while a read can be put together.               *)

Whole == Asked(JoinSet)

\* The query can still turn out to be one of those.
CanStillBeJoined ==
  query.type = "get" /\ WheresAreKept /\ \A n \in Nodes : Started(n) => Fits(n)

\* The rows of n with a related one in the joins that are read before it.
Offered(n) ==
  {r \in RowsOf(n) : IsAccepted(n, r) /\ \A c \in Before(n) : \E x \in Whole[c] : AreRelated(c, r, x)}

HasAsked(n) == \E j \in Nodes : <<n, j>> \in threads
IsTaken(n) == HasAsked(n) /\ stage[n] # "threw" /\ \A f \in fetched : f.of # n

Shapes ==
  /\ DOMAIN cached = Nodes /\ DOMAIN handed = Nodes /\ DOMAIN mappings = Nodes /\ DOMAIN relations = Nodes
  /\ DOMAIN childFilter = Nodes

\* What is over is over below.
DoneIsWhole ==
  /\ outcome = "returned" => stage[Root] = "done"
  /\ \A n \in Nodes : stage[n] = "done" => IsTaken(n) /\ \A c \in JoinsOf(n) : stage[c] = "done"
  /\ \A t \in threads : t[2] \in Threads(t[1]) /\ Before(t[1]) \subseteq continued

\* A join read before its parent has the parent look for what it found.
FiltersAreFound ==
  \A c \in JoinSet :
    parentFilter[c] = IF c \in before /\ stage[c] = "done" THEN {Value(o.row, FieldThere(c)) : o \in cached[c]}
                      ELSE {}

\* A clause that is not the query's own is from a join that was read before, or
\* from the parent that was.
WheresAreFound ==
  /\ \A n \in Nodes : stage[n] = "idle" => where[n] = Clauses(query, n)
  /\ \A c \in continued :
       FieldHere(c) \in DOMAIN where[Parent(c)] /\ where[Parent(c)][FieldHere(c)].values = parentFilter[c]
  /\ \A n \in Nodes : \A f \in DOMAIN where[n] \ DOMAIN Clauses(query, n) :
       \/ \E c \in continued : Parent(c) = n /\ f = FieldHere(c)
       \/ /\ n \in JoinSet \ before /\ f = FieldThere(n)
          /\ \A o \in cached[Parent(n)] : Value(o.row, FieldHere(n)) \in where[n][f].values

\* A query set found what is offered, or at least what is related to its parent's
\* if that was read before.
OfferedAreFound ==
  /\ \A n \in Nodes : \A o \in cached[n] : o.of = n /\ <<n, o.for>> \in threads /\ o.row \in Offered(n)
  /\ \A f \in fetched : cached[f.of] = {[of |-> f.of, for |-> f.for, row |-> r] : r \in f.rows}
  /\ \A n \in Nodes : HasAsked(n) /\ stage[n] # "threw" =>
       \A x \in Offered(n) :
         (n \in JoinSet \ before => \E o \in cached[Parent(n)] : AreRelated(n, o.row, x))
         => x \in Objects(n)

\* What joins leave for their parent, and a parent for the join read after it.
RelationOf(c, o) == [field |-> FieldHere(c), value |-> Value(o.row, FieldThere(c)), join |-> c, object |-> o]
MappingOf(j, o) == [value |-> Value(o.row, FieldHere(j)), object |-> o]
ObjectsWait ==
  /\ \A n \in Nodes : \A e \in relations[n] :
       /\ e.join \in Before(n) /\ stage[e.join] = "done"
       /\ e.object \in cached[e.join] /\ e = RelationOf(e.join, e.object)
  /\ \A c \in before : stage[c] = "done" => \A o \in cached[c] : RelationOf(c, o) \in relations[Parent(c)]
  /\ \A e \in mappings[Root] :
       /\ e.object \in cached[Root] /\ e.object.for # Root
       /\ e = MappingOf(e.object.for, e.object)
  /\ \A j \in JoinSet \ before : stage[j] # "idle" =>
       /\ Parent(j) = Root /\ handed[j] = Root
       /\ \A o \in cached[Root] : MappingOf(j, o) \in mappings[Root]

\* Only below the join read after the root the root's objects are handed on.
RootIsHanded ==
  /\ handed[Root] = None /\ \A n \in Nodes : handed[n] \in {None, Root}
  /\ \A c \in JoinsOf(Root) : handed[c] = Root => c \notin before

\* A link is from an object to one related to it, and none is left out.
LinksRelate ==
  /\ \A l \in links : l.join \in JoinsOf(l.from.of) =>
       l.to \in cached[l.join] /\ AreRelated(l.join, l.from.row, l.to.row)
  /\ \A c \in JoinSet : (IF c \in before THEN IsTaken(Parent(c)) ELSE stage[c] = "done") =>
       \A o \in cached[Parent(c)], x \in cached[c] :
         AreRelated(c, o.row, x.row) => [from |-> o, join |-> c, to |-> x] \in links

\* A read writes nothing.
Unwritten == query.type = "get" => database = was

JoinInv ==
  /\ Shapes /\ DoneIsWhole /\ FiltersAreFound /\ WheresAreFound /\ OfferedAreFound
  /\ ObjectsWait /\ RootIsHanded /\ LinksRelate
-----------------------------------------------------------------------------
(* What the steps leave alone.                                              *)

LEMMA QueryStays ==
  ASSUME UNCHANGED <<query, was>>
  PROVE  /\ Whole' = Whole
         /\ \A n : JoinsOf(n)' = JoinsOf(n) /\ Parent(n)' = Parent(n) /\ Clauses(query, n)' = Clauses(query, n)
         /\ \A n : FieldHere(n)' = FieldHere(n) /\ FieldThere(n)' = FieldThere(n)
         /\ \A n, r : RowsOf(n)' = RowsOf(n) /\ (IsAccepted(n, r)' <=> IsAccepted(n, r))
         /\ \A c, r, x : AreRelated(c, r, x)' <=> AreRelated(c, r, x)
         /\ \A c, o : RelationOf(c, o)' = RelationOf(c, o) /\ MappingOf(c, o)' = MappingOf(c, o)
<1>1. Whole' = Whole
  BY DEF Whole, Asked, IsAccepted, AreRelated, JoinsOf, JoinedTo, FieldHere, FieldThere, Clauses, RowsOf, Value
<1>2. \A n : JoinsOf(n)' = JoinsOf(n) /\ Parent(n)' = Parent(n) /\ Clauses(query, n)' = Clauses(query, n)
  BY DEF JoinsOf, JoinedTo, Parent, Clauses
<1>3. \A n : FieldHere(n)' = FieldHere(n) /\ FieldThere(n)' = FieldThere(n)
  BY DEF FieldHere, FieldThere
<1>4. \A n, r : RowsOf(n)' = RowsOf(n) /\ (IsAccepted(n, r)' <=> IsAccepted(n, r))
  BY DEF RowsOf, IsAccepted, Clauses, Value
<1>5. \A c, r, x : AreRelated(c, r, x)' <=> AreRelated(c, r, x)
  BY <1>3 DEF AreRelated, Value
<1>6. \A c, o : RelationOf(c, o)' = RelationOf(c, o) /\ MappingOf(c, o)' = MappingOf(c, o)
  BY <1>3 DEF RelationOf, MappingOf, Value
<1> QED
  BY <1>1, <1>2, <1>3, <1>4, <1>5, <1>6

\* A query set that was started stays so, with the joins it had read before it.
Goes ==
  /\ UNCHANGED <<query, was>> /\ before \subseteq before'
  /\ \A n \in Nodes : Started(n) => Started(n)' /\ Before(n)' = Before(n)
  /\ WheresAreKept' => WheresAreKept

LEMMA StartedGoOn ==
  ASSUME Types, Order, Goes
  PROVE  /\ \A n \in Nodes : Started(n) => /\ Offered(n)' = Offered(n) /\ After(n)' = After(n)
                                           /\ Threads(n)' = Threads(n)
         /\ \A c \in JoinSet : Started(c) \/ Started(Parent(c)) => (c \in before' <=> c \in before)
         /\ CanStillBeJoined' => CanStillBeJoined
<1>1. /\ Whole' = Whole
      /\ \A n : JoinsOf(n)' = JoinsOf(n) /\ Parent(n)' = Parent(n)
      /\ \A n : FieldHere(n)' = FieldHere(n) /\ FieldThere(n)' = FieldThere(n)
      /\ \A n, r : RowsOf(n)' = RowsOf(n) /\ (IsAccepted(n, r)' <=> IsAccepted(n, r))
      /\ \A c, r, x : AreRelated(c, r, x)' <=> AreRelated(c, r, x)
  BY QueryStays DEF Goes
<1>2. ASSUME NEW n \in Nodes, Started(n)
      PROVE  Offered(n)' = Offered(n) /\ After(n)' = After(n) /\ Threads(n)' = Threads(n)
  <2>1. Before(n)' = Before(n)
    BY <1>2 DEF Goes
  <2>2. After(n)' = After(n)
    BY <1>1, <2>1 DEF After, Before
  <2> QED
    BY <1>1, <2>1, <2>2 DEF Offered, Threads
<1>3. \A c \in JoinSet : Parent(c) \in Nodes /\ c \in JoinsOf(Parent(c)) /\ c \in Nodes
  BY JoinsHaveParents DEF Types, JoinsOf, JoinedTo, Parent, Nodes
<1>4. ASSUME NEW c \in JoinSet, Started(c) \/ Started(Parent(c)) PROVE c \in before' <=> c \in before
  <2>1. Started(Parent(c))
    BY <1>4 DEF Order, JoinsWaitForParents, Started
  <2>2. PICK p \in Nodes : p = Parent(c)
    BY <1>3
  <2>3. Before(p)' = Before(p) /\ JoinsOf(p)' = JoinsOf(p) /\ c \in JoinsOf(p)
    BY <1>1, <1>3, <2>1, <2>2 DEF Goes
  <2> QED
    BY <2>3 DEF Before
<1>5. ASSUME CanStillBeJoined' PROVE CanStillBeJoined
  <2>1. query.type = "get" /\ WheresAreKept
    BY <1>5 DEF CanStillBeJoined, Goes
  <2>2. ASSUME NEW n \in Nodes, Started(n) PROVE Fits(n)
    <3>1. Fits(n)' /\ Before(n)' = Before(n) /\ After(n)' = After(n)
      BY <1>2, <1>5, <2>2 DEF CanStillBeJoined, Goes
    <3>2. HaveKeysOfTheirOwn(Before(n)) /\ KeepsItsWhere(n)
      BY <2>1 DEF WheresAreKept
    <3>3. /\ \A c, d \in After(n) : c = d
          /\ After(n) # {} => n = Root
      BY <3>1 DEF Fits
    <3>4. n \in query.omits => \A c \in Before(n) : FieldHere(c) \notin KeysRead(n)
      BY <1>1, <3>1 DEF Fits, KeysRead, Goes
    <3> QED
      BY <3>2, <3>3, <3>4 DEF Fits
  <2> QED
    BY <2>1, <2>2 DEF CanStillBeJoined
<1> QED
  BY <1>2, <1>4, <1>5

\* What a query that can still be joined is like.
LEMMA JoinableIs ==
  ASSUME Types, Order, CanStillBeJoined
  PROVE  /\ \A n \in Nodes : query.data[n] = 0
         /\ \A c \in JoinSet : c \in Nodes /\ c # Root /\ Parent(c) \in Nodes /\ c \in JoinsOf(Parent(c))
         /\ \A n, c : c \in JoinsOf(n) => c \in JoinSet /\ Parent(c) = n
         /\ \A n \in Nodes : Started(n) => /\ \A c, d \in Threads(n) : c = d
                                           /\ n # Root => After(n) = {} /\ Threads(n) = {n} /\ Before(n) = JoinsOf(n)
         /\ \A t \in threads : Started(t[1]) /\ t[1] \in Nodes
<1>1. Root \notin JoinSet /\ \A q \in Queries : q.type # "set" => q.data = [n \in Nodes |-> 0]
  BY QuerySetsAssumptions
<1>2. \A n \in Nodes : query.data[n] = 0
  BY <1>1 DEF Types, CanStillBeJoined
<1>3. \A c \in JoinSet : c \in Nodes /\ c # Root /\ Parent(c) \in Nodes /\ c \in JoinsOf(Parent(c))
  BY <1>1, JoinsHaveParents DEF Types, JoinsOf, JoinedTo, Parent, Nodes
<1>4. \A n, c : c \in JoinsOf(n) => c \in JoinSet /\ Parent(c) = n
  BY DEF JoinsOf, JoinedTo, Parent
<1>5. ASSUME NEW n \in Nodes, Started(n)
      PROVE  /\ \A c, d \in Threads(n) : c = d
             /\ n # Root => After(n) = {} /\ Threads(n) = {n} /\ Before(n) = JoinsOf(n)
  <2>1. (\A c, d \in After(n) : c = d) /\ (After(n) # {} => n = Root)
    BY <1>5 DEF CanStillBeJoined, Fits
  <2> QED
    BY <2>1 DEF Threads, After, Before
<1>6. \A t \in threads : Started(t[1]) /\ t[1] \in Nodes
  BY DEF Order, ThreadsAreOnce, Types
<1> QED
  BY <1>2, <1>3, <1>4, <1>5, <1>6

\* What is offered of a query set other than the root is whole.
LEMMA OfferedIsWhole ==
  ASSUME Types, NEW n \in Nodes, Before(n) = JoinsOf(n)
  PROVE  Offered(n) = Whole[n]
<1>1. JoinsOf(n) \cap JoinSet = JoinsOf(n) /\ query \in Queries
  BY DEF JoinsOf, JoinedTo, Types
<1> QED
  BY <1>1, AskedIs DEF Offered, Whole

\* What is whole was asked for.
LEMMA MoreJoinsAskMore ==
  ASSUME query \in Queries, NEW M, NEW N, N \cap JoinSet \subseteq M, NEW n \in Nodes
  PROVE  Asked(M)[n] \subseteq Asked(N)[n]
<1>1. Joins \in Seq(JoinSet) /\ Len(Joins) \in Nat /\ DOMAIN Joins = 1..Len(Joins)
  BY QuerySetsAssumptions
<1>2. ASSUME NEW m \in Nodes, \A c \in JoinsOf(m) : Asked(M)[c] \subseteq Asked(N)[c]
      PROVE  Asked(M)[m] \subseteq Asked(N)[m]
  <2> SUFFICES ASSUME NEW r \in Asked(M)[m] PROVE r \in Asked(N)[m]
    OBVIOUS
  <2>1. /\ r \in RowsOf(m) /\ IsAccepted(m, r)
        /\ \A c \in JoinsOf(m) \cap M : \E x \in Asked(M)[c] : AreRelated(c, r, x)
    BY AskedIs
  <2>2. \A c \in JoinsOf(m) \cap N : \E x \in Asked(N)[c] : AreRelated(c, r, x)
    BY <1>2, <2>1 DEF JoinsOf, JoinedTo
  <2>3. Asked(N)[m] = {x \in RowsOf(m) : /\ IsAccepted(m, x)
                                         /\ \A c \in JoinsOf(m) \cap N : \E y \in Asked(N)[c] : AreRelated(c, x, y)}
    BY AskedIs
  <2> QED
    BY <2>1, <2>2, <2>3
<1>3. \A i \in DOMAIN Joins : Asked(M)[Joins[i]] \subseteq Asked(N)[Joins[i]]
  <2> DEFINE T == {k \in Nat : \E i \in DOMAIN Joins : i + k = Len(Joins) /\ ~(Asked(M)[Joins[i]] \subseteq Asked(N)[Joins[i]])}
  <2> SUFFICES ASSUME T # {} PROVE FALSE
    <3>1. \A i \in DOMAIN Joins : Len(Joins) - i \in Nat /\ i + (Len(Joins) - i) = Len(Joins)
      BY <1>1
    <3> QED
      BY <3>1
  <2> HIDE DEF T
  <2>1. PICK k \in T : \A l \in T : k <= l
    BY LeastNumber DEF T
  <2>2. PICK i \in DOMAIN Joins : i + k = Len(Joins) /\ ~(Asked(M)[Joins[i]] \subseteq Asked(N)[Joins[i]])
    BY <2>1 DEF T
  <2>3. ASSUME NEW c \in JoinsOf(Joins[i]) PROVE Asked(M)[c] \subseteq Asked(N)[c]
    <3>1. PICK j \in DOMAIN Joins : j > i /\ c = Joins[j]
      BY JoinsComeLater
    <3>2. Len(Joins) - j \in Nat /\ j + (Len(Joins) - j) = Len(Joins) /\ Len(Joins) - j < k /\ k \in Nat
      BY <1>1, <2>1, <2>2, <3>1 DEF T
    <3>3. Len(Joins) - j \notin T
      BY <2>1, <3>2
    <3> QED
      BY <3>1, <3>2, <3>3 DEF T
  <2>4. Joins[i] \in Nodes
    BY <1>1 DEF Nodes
  <2> QED
    BY <1>2, <2>2, <2>3, <2>4
<1>4. \A c \in JoinSet : Asked(M)[c] \subseteq Asked(N)[c]
  BY <1>3 DEF JoinSet, ToSet
<1> QED
  BY <1>2, <1>4 DEF JoinsOf, JoinedTo

\* When the root is done, all are.
LEMMA AllAreDone ==
  ASSUME Types, DoneIsWhole, stage[Root] = "done", NEW n \in Nodes
  PROVE  stage[n] = "done"
<1>1. Joins \in Seq(JoinSet) /\ Len(Joins) \in Nat /\ DOMAIN Joins = 1..Len(Joins)
  BY QuerySetsAssumptions
<1>2. \A i \in DOMAIN Joins : stage[Joins[i]] = "done"
  <2> DEFINE T == {i \in DOMAIN Joins : stage[Joins[i]] # "done"}
  <2> SUFFICES ASSUME T # {} PROVE FALSE
    OBVIOUS
  <2>1. T \in SUBSET Nat
    BY <1>1
  <2> HIDE DEF T
  <2>2. PICK i \in T : \A k \in T : i <= k
    BY <2>1, LeastNumber
  <2>3. i \in DOMAIN Joins /\ stage[Joins[i]] # "done" /\ Joins[i] \in JoinSet
    BY <1>1, <2>2 DEF T
  <2>4. Parent(Joins[i]) \in {Root} \cup {Joins[k] : k \in 1..i - 1}
    BY <2>3, QuerySetsAssumptions DEF Types, Parent
  <2>5. \A k \in 1..i - 1 : k \in DOMAIN Joins /\ k \notin T
    BY <1>1, <2>1, <2>2, <2>3
  <2>6. \A k \in 1..i - 1 : stage[Joins[k]] = "done"
    BY <2>5 DEF T
  <2>7. stage[Parent(Joins[i])] = "done" /\ Parent(Joins[i]) \in Nodes
    BY <2>3, <2>4, <2>6, JoinsHaveParents DEF Types
  <2>8. Joins[i] \in JoinsOf(Parent(Joins[i]))
    BY <2>3 DEF JoinsOf, JoinedTo, Parent
  <2> QED
    BY <2>3, <2>7, <2>8 DEF DoneIsWhole
<1> QED
  BY <1>2 DEF Nodes, JoinSet, ToSet
-----------------------------------------------------------------------------
(* A query set is called, and goes on from a join.                          *)

LEMMA CallGoes ==
  ASSUME Types, Order, NEW n \in Nodes, Call(n)
  PROVE  Goes
<1>1. PICK first \in SUBSET JoinsOf(n) :
           /\ before' = before \cup first
           /\ \A c \in JoinsOf(n) : c \in JoinSet /\ c # n /\ c \notin before /\ stage[c] = "idle"
           /\ JoinsOf(n) \cap Searchers \subseteq first
           /\ stage[n] = "called" /\ stage'[n] = "waiting"
           /\ \A c \in first : stage'[c] = IF IsHandedAnIn(n, c) THEN "threw" ELSE "called"
           /\ \A m \in Nodes \ first : m # n => stage'[m] = stage[m]
  BY CallSorts
<1>2. UNCHANGED <<query, was>> /\ (WheresAreKept' => WheresAreKept)
  BY CallKeepsOrder DEF Call
<1>3. ASSUME NEW m \in Nodes, Started(m) PROVE Started(m)' /\ Before(m)' = Before(m)
  <2>1. m # n /\ m \notin first
    BY <1>1, <1>3 DEF Started
  <2>2. JoinsOf(m) \cap first = {}
    BY <2>1 DEF JoinsOf, JoinedTo
  <2>3. JoinsOf(m)' = JoinsOf(m)
    BY <1>2 DEF JoinsOf, JoinedTo
  <2> QED
    BY <1>1, <1>3, <2>1, <2>2, <2>3 DEF Started, Before
<1> QED
  BY <1>1, <1>2, <1>3 DEF Goes

LEMMA CallKeepsJoins ==
  ASSUME Types, Order, CanStillBeJoined, JoinInv, NEW n \in Nodes, Call(n)
  PROVE  JoinInv'
<1>1. PICK first \in SUBSET JoinsOf(n) :
           /\ before' = before \cup first
           /\ \A c \in JoinsOf(n) : c \in JoinSet /\ c # n /\ c \notin before /\ stage[c] = "idle"
           /\ JoinsOf(n) \cap Searchers \subseteq first
           /\ stage[n] = "called" /\ stage'[n] = "waiting"
           /\ \A c \in first : stage'[c] = IF IsHandedAnIn(n, c) THEN "threw" ELSE "called"
           /\ \A m \in Nodes \ first : m # n => stage'[m] = stage[m]
  BY CallSorts
<1>2. /\ UNCHANGED <<query, was, where, continued, threads, fetched, cached>>
      /\ UNCHANGED <<mappings, relations, childFilter, parentFilter, links>>
      /\ outcome' \in {outcome, "threw"}
  BY DEF Call
<1>3. \A m \in Nodes : handed'[m] = IF m \in first THEN handed[n] ELSE handed[m]
  <2> DEFINE early == {c \in JoinsOf(n) : IsBefore(c, Sorted(n))}
  <2>2. handed' = [m \in Nodes |-> IF m \in early THEN handed[n] ELSE handed[m]]
    BY DEF Call
  <2>3. before' = before \cup early
    BY DEF Call
  <2>4. early = first
    BY <1>1, <2>3
  <2> HIDE DEF early
  <2> QED
    BY <2>2, <2>4
<1>4. /\ Whole' = Whole
      /\ \A m : JoinsOf(m)' = JoinsOf(m) /\ Parent(m)' = Parent(m) /\ Clauses(query, m)' = Clauses(query, m)
      /\ \A m : FieldHere(m)' = FieldHere(m) /\ FieldThere(m)' = FieldThere(m)
      /\ \A c, r, x : AreRelated(c, r, x)' <=> AreRelated(c, r, x)
      /\ \A c, o : RelationOf(c, o)' = RelationOf(c, o) /\ MappingOf(c, o)' = MappingOf(c, o)
  BY <1>2, QueryStays
<1>5. /\ \A m \in Nodes : Started(m) => /\ Offered(m)' = Offered(m) /\ Threads(m)' = Threads(m)
                                        /\ Before(m)' = Before(m) /\ m # n /\ m \notin first
      /\ \A c \in JoinSet : Started(c) \/ Started(Parent(c)) => (c \in before' <=> c \in before)
  BY <1>1, CallGoes, StartedGoOn DEF Goes, Started
<1>6. /\ \A c \in JoinSet : c \in Nodes /\ c # Root /\ Parent(c) \in Nodes /\ c \in JoinsOf(Parent(c))
      /\ \A m, c : c \in JoinsOf(m) => c \in JoinSet /\ Parent(c) = m
      /\ \A t \in threads : Started(t[1]) /\ t[1] \in Nodes
  BY JoinableIs
<1>7. /\ \A m \in Nodes : Started(m) => stage'[m] = stage[m]
      /\ \A m \in Nodes : stage'[m] = "done" => stage[m] = "done" /\ Started(m)
      /\ \A m \in Nodes : stage'[m] = "idle" => stage[m] = "idle"
      /\ \A m \in Nodes : stage'[m] # "idle" => stage[m] # "idle" \/ m \in first
  BY <1>1, <1>5 DEF Started
<1>8. \A m \in Nodes : HasAsked(m) => Started(m)
  BY <1>6 DEF HasAsked
<1>9. \A m \in Nodes : IsTaken(m)' <=> IsTaken(m)
  BY <1>2, <1>7, <1>8 DEF IsTaken, HasAsked
<1>10. Shapes'
  BY <1>2 DEF JoinInv, Shapes, Call
<1>11. DoneIsWhole'
  <2>1. outcome' = "returned" => stage'[Root] = "done"
    BY <1>2, <1>7 DEF JoinInv, DoneIsWhole, Started, Nodes
  <2>2. ASSUME NEW m \in Nodes, stage'[m] = "done"
        PROVE  IsTaken(m)' /\ \A c \in JoinsOf(m) : stage'[c] = "done"
    <3>1. IsTaken(m) /\ \A c \in JoinsOf(m) : stage[c] = "done" /\ c \in Nodes
      BY <1>6, <1>7, <2>2 DEF JoinInv, DoneIsWhole
    <3> QED
      BY <1>7, <1>9, <3>1 DEF Started
  <2>3. \A t \in threads : t[2] \in Threads(t[1])' /\ Before(t[1])' \subseteq continued
    <3> SUFFICES ASSUME NEW t \in threads PROVE t[2] \in Threads(t[1])' /\ Before(t[1])' \subseteq continued
      OBVIOUS
    <3>1. t[2] \in Threads(t[1]) /\ Before(t[1]) \subseteq continued /\ Started(t[1]) /\ t[1] \in Nodes
      BY <1>6 DEF JoinInv, DoneIsWhole
    <3> QED
      BY <1>5, <3>1
  <2> QED
    BY <1>2, <1>4, <2>1, <2>2, <2>3 DEF DoneIsWhole
<1>12. FiltersAreFound'
  <2>1. \A c \in JoinSet : c \in before' /\ stage'[c] = "done" <=> c \in before /\ stage[c] = "done"
    BY <1>5, <1>6, <1>7 DEF Started
  <2>2. \A o, c : Value(o.row, FieldThere(c))' = Value(o.row, FieldThere(c))
    BY <1>2, <1>4 DEF Value
  <2> QED
    BY <1>2, <1>4, <2>1 DEF JoinInv, FiltersAreFound, Value
<1>13. WheresAreFound'
  <2>1. \A m \in Nodes : stage'[m] = "idle" => where[m] = Clauses(query, m)
    BY <1>7 DEF JoinInv, WheresAreFound
  <2>2. ASSUME NEW m \in Nodes, NEW f \in DOMAIN where[m] \ DOMAIN Clauses(query, m)
        PROVE  \/ \E c \in continued : Parent(c) = m /\ f = FieldHere(c)
               \/ /\ m \in JoinSet \ before' /\ f = FieldThere(m)
                  /\ \A o \in cached[Parent(m)] : Value(o.row, FieldHere(m)) \in where[m][f].values
    <3>1. m \notin first
      BY <1>1, <2>2 DEF JoinInv, WheresAreFound
    <3> QED
      BY <1>1, <2>2, <3>1 DEF JoinInv, WheresAreFound
  <2> QED
    BY <1>2, <1>4, <2>1, <2>2 DEF JoinInv, WheresAreFound, Value
<1>14. OfferedAreFound'
  <2>1. ASSUME NEW m \in Nodes, NEW o \in cached[m]
        PROVE  o.of = m /\ <<m, o.for>> \in threads /\ o.row \in Offered(m)'
    <3>1. o.of = m /\ <<m, o.for>> \in threads /\ o.row \in Offered(m)
      BY DEF JoinInv, OfferedAreFound
    <3>2. Started(m)
      BY <1>6, <3>1
    <3> QED
      BY <1>5, <3>1, <3>2
  <2>2. ASSUME NEW m \in Nodes, HasAsked(m), stage'[m] # "threw", NEW x \in Offered(m)',
               m \in JoinSet \ before' => \E o \in cached[Parent(m)] : AreRelated(m, o.row, x)
        PROVE  x \in Objects(m)
    <3>1. Started(m) /\ stage[m] # "threw" /\ x \in Offered(m)
      BY <1>5, <1>7, <1>8, <2>2
    <3>2. m \in JoinSet \ before => \E o \in cached[Parent(m)] : AreRelated(m, o.row, x)
      BY <1>5, <2>2, <3>1
    <3> QED
      BY <2>2, <3>1, <3>2 DEF JoinInv, OfferedAreFound
  <2>3. \A m : Objects(m)' = Objects(m) /\ (HasAsked(m)' <=> HasAsked(m))
    BY <1>2 DEF Objects, HasAsked
  <2> QED
    BY <1>2, <1>4, <2>1, <2>2, <2>3 DEF JoinInv, OfferedAreFound
<1>15. ObjectsWait'
  <2>1. ASSUME NEW m \in Nodes, NEW e \in relations[m]
        PROVE  /\ e.join \in Before(m)' /\ stage'[e.join] = "done"
               /\ e.object \in cached[e.join] /\ e = RelationOf(e.join, e.object)
    <3>1. /\ e.join \in Before(m) /\ stage[e.join] = "done"
          /\ e.object \in cached[e.join] /\ e = RelationOf(e.join, e.object)
      BY DEF JoinInv, ObjectsWait
    <3>2. e.join \in Nodes /\ Started(e.join)
      BY <1>6, <3>1 DEF Before, Started
    <3> QED
      BY <1>1, <1>4, <1>7, <3>1, <3>2 DEF Before
  <2>2. \A c \in before' : stage'[c] = "done" => \A o \in cached[c] : RelationOf(c, o) \in relations[Parent(c)]
    <3> SUFFICES ASSUME NEW c \in before', stage'[c] = "done"
                 PROVE  \A o \in cached[c] : RelationOf(c, o) \in relations[Parent(c)]
      OBVIOUS
    <3>1. c \in JoinSet /\ c \in Nodes
      BY <1>1, <1>6 DEF Types
    <3>2. c \in before /\ stage[c] = "done"
      BY <1>5, <1>7, <3>1
    <3> QED
      BY <3>2 DEF JoinInv, ObjectsWait
  <2>3. ASSUME NEW j \in JoinSet \ before', stage'[j] # "idle"
        PROVE  /\ Parent(j) = Root /\ handed'[j] = Root
               /\ \A o \in cached[Root] : MappingOf(j, o) \in mappings[Root]
    <3>1. j \notin first /\ j \in Nodes /\ j \notin before
      BY <1>1, <1>6, <2>3
    <3>2. stage[j] # "idle" /\ handed'[j] = handed[j]
      BY <1>3, <1>7, <2>3, <3>1
    <3> QED
      BY <3>1, <3>2 DEF JoinInv, ObjectsWait
  <2> QED
    BY <1>2, <1>4, <2>1, <2>2, <2>3 DEF JoinInv, ObjectsWait
<1>16. RootIsHanded'
  <2>1. Root \in Nodes /\ Root \notin first /\ None # Root
    BY <1>1, <1>6, QuerySetsAssumptions DEF Nodes
  <2>2. handed'[Root] = None /\ \A m \in Nodes : handed'[m] \in {None, Root}
    BY <1>3, <2>1 DEF JoinInv, RootIsHanded
  <2>3. ASSUME NEW c \in JoinsOf(Root), handed'[c] = Root PROVE c \notin before'
    <3>1. c \in Nodes /\ Parent(c) = Root
      BY <1>6
    <3>2. c \in first => n = Root
      BY <1>1, <1>6, <3>1
    <3>3. c \notin first
      BY <1>3, <2>1, <2>3, <3>1, <3>2 DEF JoinInv, RootIsHanded
    <3>4. handed'[c] = handed[c]
      BY <1>3, <3>1, <3>3
    <3> QED
      BY <1>1, <2>3, <3>3, <3>4 DEF JoinInv, RootIsHanded
  <2> QED
    BY <1>4, <2>2, <2>3 DEF RootIsHanded
<1>17. LinksRelate'
  <2>1. ASSUME NEW c \in JoinSet, IF c \in before' THEN IsTaken(Parent(c)) ELSE stage'[c] = "done"
        PROVE  IF c \in before THEN IsTaken(Parent(c)) ELSE stage[c] = "done"
    <3>1. IsTaken(Parent(c)) => Started(Parent(c))
      BY <1>6, <1>8 DEF IsTaken
    <3> QED
      BY <1>1, <1>5, <1>6, <1>7, <2>1, <3>1
  <2>2. \A c \in JoinSet : IsTaken(Parent(c))' <=> IsTaken(Parent(c))
    <3> SUFFICES ASSUME NEW c \in JoinSet PROVE IsTaken(Parent(c))' <=> IsTaken(Parent(c))
      OBVIOUS
    <3>1. PICK p \in Nodes : p = Parent(c)
      BY <1>6
    <3> QED
      BY <1>4, <1>9, <3>1
  <2> QED
    BY <1>2, <1>4, <2>1, <2>2 DEF JoinInv, LinksRelate
<1> QED
  BY <1>10, <1>11, <1>12, <1>13, <1>14, <1>15, <1>16, <1>17 DEF JoinInv

LEMMA CallingNobodyGoes ==
  ASSUME Types, Order, CallsNobody
  PROVE  Goes
<1>1. /\ \A m : Before(m)' = Before(m)
      /\ \A m \in Nodes : Started(m) => Started(m)'
      /\ WheresAreKept' => WheresAreKept
  BY CallingNobodyKeepsOrder
<1> QED
  BY <1>1 DEF Goes, CallsNobody

LEMMA ContinueCallsNobody ==
  ASSUME Types, NEW n, NEW c, Continue(n, c)
  PROVE  CallsNobody
<1>1. UNCHANGED <<query, was, before, stage>>
  BY DEF Continue
<1> QED
  BY <1>1 DEF CallsNobody, Types

\* The `in` of a join comes to stand in the where of its parent, and takes away
\* none of the others.
LEMMA ContinueRestricts ==
  ASSUME Types, Order, Restrictions, CanStillBeJoined, NEW n \in Nodes, NEW c \in Nodes, Continue(n, c)
  PROVE  /\ where'[n] = With(where[n], FieldHere(c), parentFilter[c])
         /\ \A m \in Nodes : m # n => where'[m] = where[m]
         /\ FieldHere(c) \notin DOMAIN Clauses(query, n) \/ where[n][FieldHere(c)].in
         /\ \A d \in continued : Parent(d) = n => FieldHere(d) # FieldHere(c)
<1> DEFINE f == FieldHere(c)
<1>1. /\ stage[n] = "waiting" /\ c \in Before(n) /\ c \notin continued /\ query.data[n] = 0
      /\ where' = [where EXCEPT ![n] = IF TakesIn(n, hasSearch[n] \/ hasSearch[c])
                                       THEN Restricted(n, f, parentFilter[c]) ELSE @]
  BY JoinableIs DEF Continue
<1>2. where' = [where EXCEPT ![n] = Restricted(n, f, parentFilter[c])]
  BY <1>1 DEF TakesIn
<1>3. HaveKeysOfTheirOwn(Before(n)) /\ KeepsItsWhere(n)
  BY DEF CanStillBeJoined, WheresAreKept
<1>4. f \in DOMAIN where[n] => where[n][f].in
  <2> SUFFICES ASSUME f \in DOMAIN where[n] PROVE where[n][f].in
    OBVIOUS
  <2>1. CASE f \in DOMAIN Clauses(query, n)
    <3>1. where[n][f] = Clauses(query, n)[f]
      BY <2>1 DEF Restrictions, ClausesStay
    <3> QED
      BY <1>1, <1>3, <2>1, <3>1 DEF KeepsItsWhere
  <2>2. CASE f \notin DOMAIN Clauses(query, n)
    BY <2>2 DEF Order, OthersAreIns
  <2> QED
    BY <2>1, <2>2
<1>5. Restricted(n, f, parentFilter[c]) = With(where[n], f, parentFilter[c])
  BY <1>4 DEF Restricted
<1>6. ASSUME NEW d \in continued, Parent(d) = n PROVE FieldHere(d) # f
  <2>1. d \in Before(n) /\ d # c
    BY <1>1, <1>6 DEF Types, Before, JoinsOf, JoinedTo, Parent
  <2> QED
    BY <1>1, <1>3, <2>1 DEF HaveKeysOfTheirOwn
<1>7. f \in DOMAIN Clauses(query, n) => f \in DOMAIN where[n]
  BY DEF Restrictions, ClausesStay
<1> QED
  BY <1>2, <1>4, <1>5, <1>6, <1>7 DEF Types

LEMMA ContinueKeepsJoins ==
  ASSUME Types, Order, Restrictions, CanStillBeJoined, JoinInv, NEW n \in Nodes, NEW c \in Nodes, Continue(n, c)
  PROVE  JoinInv'
<1>1. /\ UNCHANGED <<query, was, stage, before, threads, fetched, cached, outcome>>
      /\ UNCHANGED <<handed, mappings, relations, childFilter, parentFilter, links>>
      /\ stage[n] = "waiting" /\ c \in Before(n) /\ c \notin continued /\ stage[c] = "done"
      /\ continued' = continued \cup {c}
  BY DEF Continue, memoryVars
<1>2. /\ Whole' = Whole
      /\ \A m : JoinsOf(m)' = JoinsOf(m) /\ Parent(m)' = Parent(m) /\ Clauses(query, m)' = Clauses(query, m)
      /\ \A m : FieldHere(m)' = FieldHere(m) /\ FieldThere(m)' = FieldThere(m)
      /\ \A m, r : RowsOf(m)' = RowsOf(m) /\ (IsAccepted(m, r)' <=> IsAccepted(m, r))
      /\ \A d, r, x : AreRelated(d, r, x)' <=> AreRelated(d, r, x)
      /\ \A d, o : RelationOf(d, o)' = RelationOf(d, o) /\ MappingOf(d, o)' = MappingOf(d, o)
  BY <1>1, QueryStays
<1>3. \A m : Before(m)' = Before(m) /\ After(m)' = After(m)
  BY <1>1, <1>2 DEF Before, After
<1>4. \A m : Offered(m)' = Offered(m) /\ Threads(m)' = Threads(m) /\ Objects(m)' = Objects(m)
  BY <1>1, <1>2, <1>3 DEF Offered, Threads, Objects
<1>5. \A m : (HasAsked(m)' <=> HasAsked(m)) /\ (IsTaken(m)' <=> IsTaken(m))
  BY <1>1 DEF HasAsked, IsTaken
<1>6. Parent(c) = n
  BY <1>1 DEF Before, JoinsOf, JoinedTo, Parent
<1>7. Shapes'
  BY <1>1 DEF JoinInv, Shapes
<1>8. DoneIsWhole'
  BY <1>1, <1>2, <1>3, <1>4, <1>5 DEF JoinInv, DoneIsWhole
<1>9. FiltersAreFound'
  BY <1>1, <1>2 DEF JoinInv, FiltersAreFound, Value
<1>10. WheresAreFound'
  <2> DEFINE f == FieldHere(c)
             w == With(where[n], f, parentFilter[c])
  <2>1. /\ where'[n] = w /\ \A m \in Nodes : m # n => where'[m] = where[m]
        /\ f \notin DOMAIN Clauses(query, n) \/ where[n][f].in
        /\ \A d \in continued : Parent(d) = n => FieldHere(d) # f
    BY ContinueRestricts
  <2>2. /\ DOMAIN w = DOMAIN where[n] \cup {f} /\ w[f].values = parentFilter[c]
        /\ \A g \in DOMAIN where[n] : g # f => w[g] = where[n][g]
    BY DEF With
  <2> HIDE DEF w, f
  <2>3. \A m \in Nodes : stage[m] = "idle" => where'[m] = Clauses(query, m)
    BY <1>1, <2>1 DEF JoinInv, WheresAreFound
  <2>4. ASSUME NEW d \in continued \cup {c}
        PROVE  FieldHere(d) \in DOMAIN where'[Parent(d)] /\ where'[Parent(d)][FieldHere(d)].values = parentFilter[d]
    <3>1. CASE d = c
      BY <1>6, <2>1, <2>2, <3>1 DEF f
    <3>2. CASE d \in continued
      <4>1. FieldHere(d) \in DOMAIN where[Parent(d)] /\ where[Parent(d)][FieldHere(d)].values = parentFilter[d]
        BY <3>2 DEF JoinInv, WheresAreFound
      <4>2. Parent(d) \in Nodes
        BY <3>2, JoinableIs DEF Types
      <4> QED
        BY <2>1, <2>2, <3>2, <4>1, <4>2
    <3> QED
      BY <3>1, <3>2
  <2>5. ASSUME NEW m \in Nodes, NEW g \in DOMAIN where'[m] \ DOMAIN Clauses(query, m)
        PROVE  \/ \E d \in continued \cup {c} : Parent(d) = m /\ g = FieldHere(d)
               \/ /\ m \in JoinSet \ before /\ g = FieldThere(m)
                  /\ \A o \in cached[Parent(m)] : Value(o.row, FieldHere(m)) \in where'[m][g].values
    <3>1. CASE m = n /\ g = f
      BY <1>6, <3>1 DEF f
    <3>2. CASE ~(m = n /\ g = f)
      <4>1. g \in DOMAIN where[m] /\ where'[m][g] = where[m][g]
        BY <2>1, <2>2, <2>5, <3>2
      <4>2. \/ \E d \in continued : Parent(d) = m /\ g = FieldHere(d)
            \/ /\ m \in JoinSet \ before /\ g = FieldThere(m)
               /\ \A o \in cached[Parent(m)] : Value(o.row, FieldHere(m)) \in where[m][g].values
        BY <2>5, <4>1 DEF JoinInv, WheresAreFound
      <4> QED
        BY <4>1, <4>2
    <3> QED
      BY <3>1, <3>2
  <2> QED
    BY <1>1, <1>2, <2>3, <2>4, <2>5 DEF WheresAreFound, Value
<1>11. OfferedAreFound'
  BY <1>1, <1>2, <1>4, <1>5 DEF JoinInv, OfferedAreFound
<1>12. ObjectsWait'
  BY <1>1, <1>2, <1>3 DEF JoinInv, ObjectsWait
<1>13. RootIsHanded'
  BY <1>1, <1>2 DEF JoinInv, RootIsHanded
<1>14. LinksRelate'
  <2>1. \A d \in JoinSet : IsTaken(Parent(d))' <=> IsTaken(Parent(d))
    BY <1>2, <1>5
  <2> QED
    BY <1>1, <1>2, <2>1 DEF JoinInv, LinksRelate
<1> QED
  BY <1>7, <1>8, <1>9, <1>10, <1>11, <1>12, <1>13, <1>14 DEF JoinInv
-----------------------------------------------------------------------------
(* The database answers.                                                    *)

\* A read gets the rows its where accepts, or fails.
LEMMA QueryReads ==
  ASSUME Types, Order, CanStillBeJoined, NEW n \in Nodes, NEW j \in Nodes, Query(n, j)
  PROVE  /\ Asks(n) /\ j \in Threads(n) /\ <<n, j>> \notin threads /\ threads' = threads \cup {<<n, j>>}
         /\ UNCHANGED <<query, was, where, before, continued, handed, mappings, relations, childFilter>>
         /\ UNCHANGED <<database, parentFilter, links>>
         /\ \/ /\ fetched' = fetched \cup {[of |-> n, for |-> j, rows |-> Accepted(n)]}
               /\ cached' = [cached EXCEPT ![n] = {[of |-> n, for |-> j, row |-> r] : r \in Accepted(n)}]
               /\ UNCHANGED <<stage, outcome>>
            \/ /\ stage' = [stage EXCEPT ![n] = "threw"] /\ outcome' = "threw"
               /\ UNCHANGED <<fetched, cached>>
<1>1. UNCHANGED <<query, was, where, before, continued, handed, mappings, relations, childFilter, parentFilter, links>>
  BY DEF Query, builderVars, memoryVars
<1>2. Asks(n) /\ j \in Threads(n) /\ <<n, j>> \notin threads /\ threads' = threads \cup {<<n, j>>}
  BY DEF Query, Get, GetNothing, Create, Update, RemoveRows, DatabaseFails, Base, Asks
<1>3. query.type = "get" /\ ~IsWritten(n) /\ ~IsRemoved(n)
  BY DEF CanStillBeJoined, IsWritten, IsRemoved
<1>4. Get(n, j) \/ GetNothing(n, j) \/ DatabaseFails(n, j)
  BY <1>3 DEF Query, Create, Update, RemoveRows
<1>5. CASE Get(n, j)
  BY <1>1, <1>2, <1>5 DEF Get, Fetch
<1>6. CASE GetNothing(n, j)
  <2>1. Accepted(n) = {}
    BY <1>6 DEF GetNothing, IsInvalid, Accepted
  <2>2. Fetch(n, j, Accepted(n)) /\ UNCHANGED database
    BY <1>6, <2>1 DEF GetNothing
  <2> QED
    BY <1>1, <1>2, <2>2 DEF Fetch
<1>7. CASE DatabaseFails(n, j)
  BY <1>1, <1>2, <1>7 DEF DatabaseFails, Fail
<1> QED
  BY <1>4, <1>5, <1>6, <1>7

\* What is found is what is offered.
LEMMA FoundAreOffered ==
  ASSUME Types, Order, Restrictions, CanStillBeJoined, JoinInv, database = was, NEW n, Asks(n)
  PROVE  /\ Accepted(n) \subseteq Offered(n)
         /\ \A x \in Offered(n) :
              (n \in JoinSet \ before => \E o \in cached[Parent(n)] : AreRelated(n, o.row, x)) => x \in Accepted(n)
<1>1. n \in Nodes /\ Before(n) \subseteq continued /\ query \in Queries
  BY DEF Asks, Types
<1>2. ASSUME NEW c \in Before(n)
      PROVE  /\ c \in JoinSet /\ c \in Nodes /\ Parent(c) = n
             /\ parentFilter[c] = {Value(o.row, FieldThere(c)) : o \in cached[c]}
             /\ FieldHere(c) \in DOMAIN where[n] /\ where[n][FieldHere(c)].values = parentFilter[c]
             /\ Objects(c) = Whole[c] /\ Whole[c] \subseteq was
  <2>1. c \in JoinSet /\ c \in Nodes /\ Parent(c) = n /\ c # Root /\ c \in before
    BY JoinableIs DEF Before
  <2>2. c \in continued /\ stage[c] = "done"
    BY <1>1 DEF Order, ContinuedAreDone
  <2>3. Offered(c) = Whole[c]
    BY <2>1, <2>2, JoinableIs, OfferedIsWhole DEF Started
  <2>4. HasAsked(c)
    BY <2>1, <2>2 DEF JoinInv, DoneIsWhole, IsTaken
  <2>5. \A o \in cached[c] : o.row \in Offered(c)
    BY <2>1 DEF JoinInv, OfferedAreFound
  <2>6. \A x \in Offered(c) : x \in Objects(c)
    BY <2>1, <2>2, <2>4 DEF JoinInv, OfferedAreFound
  <2>7. Objects(c) = Whole[c]
    BY <2>3, <2>5, <2>6 DEF Objects
  <2>8. Whole[c] \subseteq was
    BY <1>1, <2>1, AskedIs DEF Whole, RowsOf
  <2>9. parentFilter[c] = {Value(o.row, FieldThere(c)) : o \in cached[c]}
    BY <2>1, <2>2 DEF JoinInv, FiltersAreFound
  <2>10. FieldHere(c) \in DOMAIN where[n] /\ where[n][FieldHere(c)].values = parentFilter[c]
    BY <2>1, <2>2 DEF JoinInv, WheresAreFound
  <2> QED
    BY <2>1, <2>7, <2>8, <2>9, <2>10
<1>3. ASSUME NEW r \in Accepted(n) PROVE r \in Offered(n)
  <2>1. r \in RowsOf(n) /\ \A f \in DOMAIN where[n] : Value(r, f) \in where[n][f].values
    BY DEF Accepted, RowsOf
  <2>2. IsAccepted(n, r)
    BY <1>1, <2>1 DEF IsAccepted, Restrictions, ClausesStay
  <2>3. ASSUME NEW c \in Before(n) PROVE \E x \in Whole[c] : AreRelated(c, r, x)
    <3>1. PICK o \in cached[c] : Value(r, FieldHere(c)) = Value(o.row, FieldThere(c))
      BY <1>2, <2>1
    <3>2. o.row \in Whole[c] /\ o.row \in was /\ r \in was
      BY <1>2, <2>1 DEF Objects, RowsOf
    <3> QED
      BY <3>1, <3>2, SameKeysRelate
  <2> QED
    BY <2>1, <2>2, <2>3 DEF Offered
<1>4. ASSUME NEW x \in Offered(n),
             n \in JoinSet \ before => \E o \in cached[Parent(n)] : AreRelated(n, o.row, x)
      PROVE  x \in Accepted(n)
  <2>1. /\ x \in RowsOf(n) /\ IsAccepted(n, x)
        /\ \A c \in Before(n) : \E y \in Whole[c] : AreRelated(c, x, y)
    BY DEF Offered
  <2>2. ASSUME NEW f \in DOMAIN where[n] PROVE Value(x, f) \in where[n][f].values
    <3>1. CASE f \in DOMAIN Clauses(query, n)
      BY <1>1, <2>1, <3>1 DEF IsAccepted, Restrictions, ClausesStay
    <3>2. CASE \E c \in continued : Parent(c) = n /\ f = FieldHere(c)
      <4>1. PICK c \in Before(n) : f = FieldHere(c)
        BY <3>2 DEF Types, Before, JoinsOf, JoinedTo, Parent
      <4>2. PICK y \in Objects(c) : AreRelated(c, x, y)
        BY <1>2, <2>1, <4>1
      <4>3. PICK o \in cached[c] : y = o.row
        BY DEF Objects
      <4>4. Value(x, f) \in parentFilter[c]
        BY <1>2, <4>1, <4>2, <4>3 DEF AreRelated
      <4> QED
        BY <1>2, <4>1, <4>4
    <3>3. CASE /\ n \in JoinSet \ before /\ f = FieldThere(n)
               /\ \A o \in cached[Parent(n)] : Value(o.row, FieldHere(n)) \in where[n][f].values
      <4>1. PICK o \in cached[Parent(n)] : AreRelated(n, o.row, x)
        BY <1>4, <3>3
      <4> QED
        BY <3>3, <4>1 DEF AreRelated
    <3> QED
      BY <1>1, <2>2, <3>1, <3>2, <3>3 DEF JoinInv, WheresAreFound
  <2> QED
    BY <2>1, <2>2 DEF Accepted, RowsOf
<1> QED
  BY <1>3, <1>4

\* A query set that asks has nothing of an earlier answer.
LEMMA NothingWasFound ==
  ASSUME Types, Order, CanStillBeJoined, JoinInv, NEW n, Asks(n), NEW j \in Threads(n), <<n, j>> \notin threads
  PROVE  ~HasAsked(n) /\ cached[n] = {} /\ \A f \in fetched : f.of # n
<1>1. n \in Nodes /\ Started(n)
  BY DEF Asks, Started
<1>2. \A k : <<n, k>> \in threads => k = j
  <2> SUFFICES ASSUME NEW k, <<n, k>> \in threads PROVE k = j
    OBVIOUS
  <2>1. k \in Threads(n)
    BY DEF JoinInv, DoneIsWhole
  <2> QED
    BY <1>1, <2>1, JoinableIs
<1>3. \A k : <<n, k>> \notin threads
  BY <1>2
<1>4. cached[n] = {}
  <2>1. \A o \in cached[n] : <<n, o.for>> \in threads
    BY <1>1 DEF JoinInv, OfferedAreFound
  <2> QED
    BY <1>3, <2>1
<1>5. \A f \in fetched : f.of # n
  BY <1>3 DEF Order, ThreadsAreOnce
<1> QED
  BY <1>3, <1>4, <1>5 DEF HasAsked

LEMMA QueryKeepsJoins ==
  ASSUME Types, Order, Restrictions, CanStillBeJoined, JoinInv, database = was,
         NEW n \in Nodes, NEW j \in Nodes, Query(n, j)
  PROVE  JoinInv'
<1>1. /\ Asks(n) /\ j \in Threads(n) /\ <<n, j>> \notin threads /\ threads' = threads \cup {<<n, j>>}
      /\ UNCHANGED <<query, was, where, before, continued, handed, mappings, relations, childFilter>>
      /\ UNCHANGED <<database, parentFilter, links>>
      /\ \/ /\ fetched' = fetched \cup {[of |-> n, for |-> j, rows |-> Accepted(n)]}
            /\ cached' = [cached EXCEPT ![n] = {[of |-> n, for |-> j, row |-> r] : r \in Accepted(n)}]
            /\ UNCHANGED <<stage, outcome>>
         \/ /\ stage' = [stage EXCEPT ![n] = "threw"] /\ outcome' = "threw"
            /\ UNCHANGED <<fetched, cached>>
  BY QueryReads
<1>2. /\ Whole' = Whole
      /\ \A m : JoinsOf(m)' = JoinsOf(m) /\ Parent(m)' = Parent(m) /\ Clauses(query, m)' = Clauses(query, m)
      /\ \A m : FieldHere(m)' = FieldHere(m) /\ FieldThere(m)' = FieldThere(m)
      /\ \A m, r : RowsOf(m)' = RowsOf(m) /\ (IsAccepted(m, r)' <=> IsAccepted(m, r))
      /\ \A d, r, x : AreRelated(d, r, x)' <=> AreRelated(d, r, x)
      /\ \A d, o : RelationOf(d, o)' = RelationOf(d, o) /\ MappingOf(d, o)' = MappingOf(d, o)
  BY <1>1, QueryStays
<1>3. \A m : Before(m)' = Before(m) /\ After(m)' = After(m)
  BY <1>1, <1>2 DEF Before, After
<1>4. \A m : Offered(m)' = Offered(m) /\ Threads(m)' = Threads(m)
  BY <1>1, <1>2, <1>3 DEF Offered, Threads
<1>5. ~HasAsked(n) /\ cached[n] = {} /\ \A f \in fetched : f.of # n
  BY <1>1, NothingWasFound
<1>6. stage[n] = "waiting" /\ Before(n) \subseteq continued /\ n \in Nodes
  BY <1>1 DEF Asks
<1>7. /\ \A c \in JoinSet : c \in Nodes /\ c # Root /\ Parent(c) \in Nodes /\ c \in JoinsOf(Parent(c))
      /\ \A m, c : c \in JoinsOf(m) => c \in JoinSet /\ Parent(c) = m
      /\ \A t \in threads : Started(t[1]) /\ t[1] \in Nodes
      /\ Root \in Nodes /\ before \subseteq JoinSet
      /\ \A f \in fetched : f.of \in Nodes
      /\ \A m \in Nodes : \A e \in relations[m] : e.join \in Nodes
  <2>1. \A f \in fetched : f.of \in Nodes
    <3>1. \A f \in fetched : <<f.of, f.for>> \in threads
      BY DEF Order, ThreadsAreOnce
    <3>2. threads \subseteq Nodes \X Nodes
      BY DEF Types
    <3> QED
      BY <3>1, <3>2
  <2>2. \A m \in Nodes : \A e \in relations[m] : e.join \in before
    BY DEF JoinInv, ObjectsWait, Before
  <2> QED
    BY <2>1, <2>2, JoinableIs DEF Types, Nodes
<1>8. /\ \A m \in Nodes : m # n => cached'[m] = cached[m] /\ (HasAsked(m)' <=> HasAsked(m)) /\ Objects(m)' = Objects(m)
      /\ \A m \in Nodes : m # n => stage'[m] = stage[m]
  <2>1. \A m \in Nodes : m # n => cached'[m] = cached[m] /\ stage'[m] = stage[m]
    BY <1>1 DEF JoinInv, Shapes, Types
  <2>2. \A m : m # n => (HasAsked(m)' <=> HasAsked(m))
    BY <1>1 DEF HasAsked
  <2> QED
    BY <2>1, <2>2 DEF Objects
<1>9. \A m \in Nodes : m # n => (IsTaken(m)' <=> IsTaken(m))
  <2> SUFFICES ASSUME NEW m \in Nodes, m # n PROVE IsTaken(m)' <=> IsTaken(m)
    OBVIOUS
  <2>1. (\A f \in fetched' : f.of # m) <=> (\A f \in fetched : f.of # m)
    BY <1>1
  <2> QED
    BY <1>8, <2>1 DEF IsTaken
\* Joins that wait for n wait still.
<1>10. \A c \in JoinSet \ before : Parent(c) = n => stage[c] = "idle"
  BY <1>5, <1>7 DEF Order, ThreadsAreOnce, HasAsked
<1>11. ~IsTaken(n)'
  <2>1. CASE \E f \in fetched' : f.of = n
    BY <2>1 DEF IsTaken
  <2>2. CASE stage' = [stage EXCEPT ![n] = "threw"]
    BY <2>2 DEF IsTaken, Types
  <2>3. [of |-> n, for |-> j, rows |-> Accepted(n)] \in fetched' \/ stage' = [stage EXCEPT ![n] = "threw"]
    BY <1>1
  <2>4. [of |-> n, for |-> j, rows |-> Accepted(n)].of = n
    OBVIOUS
  <2> QED
    BY <2>1, <2>2, <2>3, <2>4
<1>12. \A m \in Nodes : stage'[m] = "done" <=> stage[m] = "done"
  BY <1>1, <1>6, <1>8 DEF Types
<1>13. \A m \in Nodes : stage'[m] = "idle" <=> stage[m] = "idle"
  BY <1>1, <1>6, <1>8 DEF Types
<1>14. Shapes'
  BY <1>1 DEF JoinInv, Shapes
<1>15. DoneIsWhole'
  <2>1. outcome' = "returned" => stage'[Root] = "done"
    BY <1>1, <1>12 DEF JoinInv, DoneIsWhole
  <2>2. \A m \in Nodes : stage'[m] = "done" => IsTaken(m)' /\ \A c \in JoinsOf(m) : stage'[c] = "done"
    <3> SUFFICES ASSUME NEW m \in Nodes, stage'[m] = "done"
                 PROVE  IsTaken(m)' /\ \A c \in JoinsOf(m) : stage'[c] = "done"
      OBVIOUS
    <3>1. stage[m] = "done" /\ m # n
      BY <1>6, <1>12
    <3>2. IsTaken(m) /\ \A c \in JoinsOf(m) : stage[c] = "done"
      BY <3>1 DEF JoinInv, DoneIsWhole
    <3> QED
      BY <1>7, <1>9, <1>12, <3>1, <3>2
  <2>3. \A t \in threads' : t[2] \in Threads(t[1]) /\ Before(t[1]) \subseteq continued
    BY <1>1, <1>6 DEF JoinInv, DoneIsWhole
  <2>4. \A t \in threads' : t[2] \in Threads(t[1])' /\ Before(t[1])' \subseteq continued'
    BY <1>1, <1>3, <1>4, <2>3
  <2> QED
    BY <1>2, <2>1, <2>2, <2>4 DEF DoneIsWhole
<1>16. FiltersAreFound'
  <2> SUFFICES ASSUME NEW c \in JoinSet
               PROVE  parentFilter[c] = IF c \in before /\ stage'[c] = "done"
                                        THEN {Value(o.row, FieldThere(c)) : o \in cached'[c]} ELSE {}
    BY <1>1, <1>2 DEF FiltersAreFound, Value
  <2>1. stage[c] = "done" => c # n
    BY <1>6
  <2> QED
    BY <1>7, <1>8, <1>12, <2>1 DEF JoinInv, FiltersAreFound
<1>17. WheresAreFound'
  <2>1. \A m \in Nodes : stage'[m] = "idle" => where[m] = Clauses(query, m)
    BY <1>13 DEF JoinInv, WheresAreFound
  <2>2. ASSUME NEW m \in Nodes, NEW f \in DOMAIN where[m] \ DOMAIN Clauses(query, m)
        PROVE  \/ \E c \in continued : Parent(c) = m /\ f = FieldHere(c)
               \/ /\ m \in JoinSet \ before /\ f = FieldThere(m)
                  /\ \A o \in cached'[Parent(m)] : Value(o.row, FieldHere(m)) \in where[m][f].values
    <3>1. stage[m] # "idle"
      BY <2>2 DEF JoinInv, WheresAreFound
    <3>2. m \in JoinSet \ before => cached'[Parent(m)] = cached[Parent(m)]
      BY <1>7, <1>8, <1>10, <3>1
    <3> QED
      BY <2>2, <3>2 DEF JoinInv, WheresAreFound
  <2> QED
    BY <1>1, <1>2, <2>1, <2>2 DEF JoinInv, WheresAreFound, Value
<1>18. OfferedAreFound'
  <2> DEFINE objects == {[of |-> n, for |-> j, row |-> r] : r \in Accepted(n)}
             new == [of |-> n, for |-> j, rows |-> Accepted(n)]
  <2>1. /\ cached'[n] # {} => cached'[n] = objects
        /\ stage'[n] # "threw" => cached'[n] = objects
    BY <1>1, <1>5, <1>6 DEF JoinInv, Shapes, Types
  <2>2. /\ Accepted(n) \subseteq Offered(n)
        /\ \A x \in Offered(n) :
             (n \in JoinSet \ before => \E o \in cached[Parent(n)] : AreRelated(n, o.row, x)) => x \in Accepted(n)
    BY <1>1, FoundAreOffered
  <2>3. \A o \in objects : o.of = n /\ o.for = j /\ o.row \in Offered(n)
    BY <2>2
  <2>4. {o.row : o \in objects} = Accepted(n)
    <3> SUFFICES ASSUME NEW r \in Accepted(n) PROVE r \in {o.row : o \in objects}
      OBVIOUS
    <3>1. [of |-> n, for |-> j, row |-> r] \in objects
      OBVIOUS
    <3> HIDE DEF objects
    <3> QED
      BY <3>1
  <2> HIDE DEF objects
  <2>5. ASSUME NEW m \in Nodes, NEW o \in cached'[m]
        PROVE  o.of = m /\ <<m, o.for>> \in threads' /\ o.row \in Offered(m)
    <3>1. CASE m = n
      BY <1>1, <2>1, <2>3, <2>5, <3>1
    <3>2. CASE m # n
      BY <1>1, <1>8, <2>5, <3>2 DEF JoinInv, OfferedAreFound
    <3> QED
      BY <3>1, <3>2
  <2>6. ASSUME NEW f \in fetched' PROVE cached'[f.of] = {[of |-> f.of, for |-> f.for, row |-> r] : r \in f.rows}
    <3>1. CASE f \in fetched
      <4>1. cached[f.of] = {[of |-> f.of, for |-> f.for, row |-> r] : r \in f.rows}
        BY <3>1 DEF JoinInv, OfferedAreFound
      <4> QED
        BY <1>5, <1>7, <1>8, <3>1, <4>1
    <3>2. CASE f \notin fetched
      <4>1. f = new /\ stage' = stage
        BY <1>1, <2>6, <3>2
      <4>2. f.of = n /\ f.for = j /\ f.rows = Accepted(n) /\ cached'[n] = objects
        BY <1>6, <2>1, <4>1
      <4> QED
        BY <4>2 DEF objects
    <3> QED
      BY <3>1, <3>2
  <2>7. ASSUME NEW m \in Nodes, HasAsked(m)', stage'[m] # "threw", NEW x \in Offered(m),
               m \in JoinSet \ before => \E o \in cached'[Parent(m)] : AreRelated(m, o.row, x)
        PROVE  x \in Objects(m)'
    <3>1. m \in JoinSet \ before => cached'[Parent(m)] = cached[Parent(m)]
      <4> SUFFICES ASSUME m \in JoinSet \ before, Parent(m) = n PROVE FALSE
        BY <1>7, <1>8
      <4>1. stage[m] = "idle" /\ m # n
        BY <1>6, <1>10
      <4>2. HasAsked(m)
        BY <1>8, <2>7, <4>1
      <4> QED
        BY <1>7, <4>1, <4>2 DEF HasAsked, Started
    <3>2. m \in JoinSet \ before => \E o \in cached[Parent(m)] : AreRelated(m, o.row, x)
      BY <2>7, <3>1
    <3>3. CASE m = n
      BY <2>1, <2>2, <2>4, <2>7, <3>2, <3>3 DEF Objects
    <3>4. CASE m # n
      BY <1>8, <2>7, <3>2, <3>4 DEF JoinInv, OfferedAreFound
    <3> QED
      BY <3>3, <3>4
  <2> QED
    BY <1>1, <1>2, <1>4, <2>5, <2>6, <2>7 DEF OfferedAreFound
<1>19. ObjectsWait'
  <2>1. ASSUME NEW m \in Nodes, NEW e \in relations[m]
        PROVE  /\ e.join \in Before(m) /\ stage'[e.join] = "done"
               /\ e.object \in cached'[e.join] /\ e = RelationOf(e.join, e.object)
    <3>1. /\ e.join \in Before(m) /\ stage[e.join] = "done"
          /\ e.object \in cached[e.join] /\ e = RelationOf(e.join, e.object)
      BY DEF JoinInv, ObjectsWait
    <3> QED
      BY <1>6, <1>7, <1>8, <3>1
  <2>2. \A c \in before : stage'[c] = "done" => \A o \in cached'[c] : RelationOf(c, o) \in relations[Parent(c)]
    BY <1>6, <1>7, <1>8, <1>12 DEF JoinInv, ObjectsWait
  <2>3. ASSUME NEW e \in mappings[Root]
        PROVE  e.object \in cached'[Root] /\ e.object.for # Root /\ e = MappingOf(e.object.for, e.object)
    <3>1. e.object \in cached[Root] /\ e.object.for # Root /\ e = MappingOf(e.object.for, e.object)
      BY DEF JoinInv, ObjectsWait
    <3> QED
      BY <1>5, <1>7, <1>8, <3>1
  <2>4. ASSUME NEW k \in JoinSet \ before, stage'[k] # "idle"
        PROVE  /\ Parent(k) = Root /\ handed[k] = Root
               /\ \A o \in cached'[Root] : MappingOf(k, o) \in mappings[Root]
    <3>1. stage[k] # "idle"
      BY <1>7, <1>13, <2>4
    <3>2. /\ Parent(k) = Root /\ handed[k] = Root
          /\ \A o \in cached[Root] : MappingOf(k, o) \in mappings[Root]
      BY <3>1 DEF JoinInv, ObjectsWait
    <3>3. Root # n
      BY <1>10, <3>1, <3>2
    <3> QED
      BY <1>7, <1>8, <3>2, <3>3
  <2> QED
    BY <1>1, <1>2, <1>3, <2>1, <2>2, <2>3, <2>4 DEF ObjectsWait
<1>20. RootIsHanded'
  BY <1>1, <1>2 DEF JoinInv, RootIsHanded
<1>21. LinksRelate'
  <2>1. ASSUME NEW l \in links, l.join \in JoinsOf(l.from.of)
        PROVE  l.to \in cached'[l.join] /\ AreRelated(l.join, l.from.row, l.to.row)
    <3>1. l.to \in cached[l.join] /\ AreRelated(l.join, l.from.row, l.to.row)
      BY <2>1 DEF JoinInv, LinksRelate
    <3>2. l.join \in Nodes
      BY <1>7, <2>1
    <3> QED
      BY <1>5, <1>8, <3>1, <3>2
  <2>2. ASSUME NEW c \in JoinSet, IF c \in before THEN IsTaken(Parent(c))' ELSE stage'[c] = "done",
               NEW o \in cached'[Parent(c)], NEW x \in cached'[c], AreRelated(c, o.row, x.row)
        PROVE  [from |-> o, join |-> c, to |-> x] \in links
    <3>1. PICK p \in Nodes : p = Parent(c)
      BY <1>7
    <3>2. IsTaken(Parent(c))' <=> IsTaken(p)'
      BY <1>2, <3>1
    <3>3. p # n /\ c # n /\ (IF c \in before THEN IsTaken(p) ELSE stage[c] = "done")
      <4>1. CASE c \in before
        <5>1. IsTaken(p) /\ p # n
          BY <1>9, <1>11, <2>2, <3>1, <3>2, <4>1
        <5>2. PICK k \in Nodes : <<p, k>> \in threads
          BY <5>1 DEF IsTaken, HasAsked
        <5>3. Before(p) \subseteq continued /\ c \in Before(p)
          BY <1>7, <3>1, <4>1, <5>2 DEF JoinInv, DoneIsWhole, Before
        <5>4. stage[c] = "done"
          BY <5>3 DEF Order, ContinuedAreDone
        <5> QED
          BY <1>6, <4>1, <5>1, <5>4
      <4>2. CASE c \notin before
        <5>1. stage[c] = "done"
          BY <1>7, <1>12, <2>2, <4>2
        <5> QED
          BY <1>6, <1>10, <3>1, <4>2, <5>1
      <4> QED
        BY <4>1, <4>2
    <3>4. o \in cached[Parent(c)] /\ x \in cached[c]
      BY <1>7, <1>8, <2>2, <3>1, <3>3
    <3> QED
      BY <2>2, <3>1, <3>3, <3>4 DEF JoinInv, LinksRelate
  <2> QED
    BY <1>1, <1>2, <2>1, <2>2 DEF LinksRelate
<1> QED
  BY <1>14, <1>15, <1>16, <1>17, <1>18, <1>19, <1>20, <1>21 DEF JoinInv
-----------------------------------------------------------------------------
(* Rows are put into each other.                                            *)

LEMMA TakenAreFound ==
  ASSUME Types, Order, CanStillBeJoined, JoinInv, NEW f \in fetched, Take(f)
  PROVE  /\ f.of \in Nodes /\ Started(f.of) /\ f.for \in Threads(f.of) /\ <<f.of, f.for>> \in threads
         /\ Before(f.of) \subseteq continued /\ \A c \in Before(f.of) : c \in JoinSet /\ stage[c] = "done"
         /\ \A g \in fetched : g.of = f.of => g = f
         /\ cached[f.of] = {[of |-> f.of, for |-> f.for, row |-> r] : r \in f.rows}
         /\ stage[f.of] = "waiting" /\ fetched' = fetched \ {f}
<1>1. stage[f.of] = "waiting" /\ fetched' = fetched \ {f}
  BY DEF Take
<1>2. <<f.of, f.for>> \in threads /\ f.of \in Nodes /\ Started(f.of)
  BY <1>1 DEF Order, ThreadsAreOnce, Types, Started
<1>3. f.for \in Threads(f.of) /\ Before(f.of) \subseteq continued
  BY <1>2 DEF JoinInv, DoneIsWhole
<1>4. \A c \in Before(f.of) : c \in JoinSet /\ stage[c] = "done"
  BY <1>3 DEF Order, ContinuedAreDone, Types
<1>5. ASSUME NEW g \in fetched, g.of = f.of PROVE g = f
  <2>1. <<g.of, g.for>> \in threads
    BY DEF Order, ThreadsAreOnce
  <2>2. g.for \in Threads(f.of)
    BY <1>5, <2>1 DEF JoinInv, DoneIsWhole
  <2>3. g.for = f.for
    BY <1>2, <1>3, <2>2, JoinableIs
  <2> QED
    BY <1>5, <2>3 DEF Order, ThreadsAreOnce
<1>6. cached[f.of] = {[of |-> f.of, for |-> f.for, row |-> r] : r \in f.rows}
  BY DEF JoinInv, OfferedAreFound
<1> QED
  BY <1>1, <1>2, <1>3, <1>4, <1>5, <1>6

\* The rows that were found are of the database.
LEMMA FoundWere ==
  ASSUME JoinInv, NEW n \in Nodes, NEW o \in cached[n]
  PROVE  o.row \in was /\ o.of = n
BY DEF JoinInv, OfferedAreFound, Offered, RowsOf

\* What is handed to a join is the root's, and the join is read for it.
LEMMA HandedAreTheRoots ==
  ASSUME Types, Order, CanStillBeJoined, JoinInv, NEW n \in Nodes, handed[n] # None, NEW e \in mappings[handed[n]],
         n \in JoinsOf(e.object.of)
  PROVE  e.object \in cached[Root] /\ e.value = Value(e.object.row, FieldHere(n))
<1>1. handed[n] = Root /\ Root \in Nodes
  BY DEF JoinInv, RootIsHanded, Nodes
<1>2. e.object \in cached[Root] /\ e.object.for # Root /\ e = MappingOf(e.object.for, e.object)
  BY <1>1 DEF JoinInv, ObjectsWait
<1>3. e.object.of = Root /\ <<Root, e.object.for>> \in threads
  BY <1>1, <1>2 DEF JoinInv, OfferedAreFound
<1>4. n \in After(Root)
  BY <1>1, <1>3 DEF JoinInv, RootIsHanded, After
<1>5. e.object.for \in Threads(Root) /\ Started(Root)
  BY <1>3, JoinableIs DEF JoinInv, DoneIsWhole
<1>6. n \in Threads(Root)
  BY <1>4 DEF Threads
<1>7. e.object.for = n
  BY <1>1, <1>5, <1>6, JoinableIs
<1>8. MappingOf(n, e.object).value = Value(e.object.row, FieldHere(n))
  BY DEF MappingOf
<1> QED
  BY <1>2, <1>7, <1>8

\* What is linked is related, and nothing is left out.
LEMMA LinkedAreRelated ==
  ASSUME Types, Order, CanStillBeJoined, JoinInv, NEW n \in Nodes, NEW get, n # Root => get = FieldThere(n)
  PROVE  \A l \in Linked(n, cached[n], get, relations[n]) : l.join \in JoinsOf(l.from.of) =>
           l.to \in cached[l.join] /\ AreRelated(l.join, l.from.row, l.to.row)
<1> DEFINE given == IF handed[n] = None THEN {} ELSE mappings[handed[n]]
<1>1. ASSUME NEW l \in Linked(n, cached[n], get, relations[n])
      PROVE  \/ \E e \in given, o \in cached[n] :
                  l = [from |-> e.object, join |-> n, to |-> o] /\ e.value = Value(o.row, get)
             \/ \E e \in relations[n], o \in cached[n] :
                  l = [from |-> o, join |-> e.join, to |-> e.object] /\ e.value = Value(o.row, e.field)
  <2> HIDE DEF given
  <2>1. CASE l \in {[from |-> p[1].object, join |-> n, to |-> p[2]] :
                      p \in {q \in given \X cached[n] : q[1].value = Value(q[2].row, get)}}
    BY <2>1
  <2>2. CASE l \in {[from |-> p[2], join |-> p[1].join, to |-> p[1].object] :
                      p \in {q \in relations[n] \X cached[n] : /\ q[1].value = Value(q[2].row, q[1].field)
                                                               /\ ~IsReadAgain(n, q[1].field, get)}}
    BY <2>2
  <2> QED
    BY <1>1, <2>1, <2>2 DEF Linked, given
<1> SUFFICES ASSUME NEW l \in Linked(n, cached[n], get, relations[n]), l.join \in JoinsOf(l.from.of)
             PROVE  l.to \in cached[l.join] /\ AreRelated(l.join, l.from.row, l.to.row)
  OBVIOUS
<1>2. CASE \E e \in given, o \in cached[n] :
             l = [from |-> e.object, join |-> n, to |-> o] /\ e.value = Value(o.row, get)
  <2>1. PICK e \in given, o \in cached[n] :
               l = [from |-> e.object, join |-> n, to |-> o] /\ e.value = Value(o.row, get)
    BY <1>2
  <2>2. handed[n] # None /\ e \in mappings[handed[n]] /\ n \in JoinsOf(e.object.of)
    BY <2>1
  <2>3. e.object \in cached[Root] /\ e.value = Value(e.object.row, FieldHere(n))
    BY <2>2, HandedAreTheRoots
  <2>4. get = FieldThere(n)
    BY <2>2, JoinableIs
  <2>5. e.object.row \in was /\ o.row \in was /\ Root \in Nodes
    BY <2>3, FoundWere DEF Nodes
  <2>6. AreRelated(n, e.object.row, o.row)
    BY <2>1, <2>3, <2>4, <2>5, SameKeysRelate
  <2> QED
    BY <2>1, <2>6
<1>3. CASE \E e \in relations[n], o \in cached[n] :
             l = [from |-> o, join |-> e.join, to |-> e.object] /\ e.value = Value(o.row, e.field)
  <2>1. PICK e \in relations[n], o \in cached[n] :
               l = [from |-> o, join |-> e.join, to |-> e.object] /\ e.value = Value(o.row, e.field)
    BY <1>3
  <2>2. e.join \in Before(n) /\ e.object \in cached[e.join] /\ e = RelationOf(e.join, e.object)
    BY DEF JoinInv, ObjectsWait
  <2>3. e.field = FieldHere(e.join) /\ e.value = Value(e.object.row, FieldThere(e.join))
    <3>1. \A c, x : RelationOf(c, x).field = FieldHere(c) /\ RelationOf(c, x).value = Value(x.row, FieldThere(c))
      BY DEF RelationOf
    <3> QED
      BY <2>2, <3>1
  <2>4. e.join \in Nodes
    BY <2>2, JoinableIs DEF Before
  <2>5. o.row \in was /\ e.object.row \in was
    BY <2>2, <2>4, FoundWere
  <2>6. AreRelated(e.join, o.row, e.object.row)
    BY <2>1, <2>3, <2>5, SameKeysRelate
  <2> QED
    BY <2>1, <2>2, <2>6
<1> QED
  BY <1>1, <1>2, <1>3

LEMMA RelatedAreLinked ==
  ASSUME Types, Order, CanStillBeJoined, JoinInv, NEW n \in Nodes, NEW get,
         n \in query.omits => \A c \in Before(n) : FieldHere(c) # get
  PROVE  /\ \A c \in Before(n) : stage[c] = "done" => \A o \in cached[n], x \in cached[c] :
              AreRelated(c, o.row, x.row) => [from |-> o, join |-> c, to |-> x] \in Linked(n, cached[n], get, relations[n])
         /\ n \in JoinSet \ before /\ stage[n] # "idle" /\ get = FieldThere(n) => \A o \in cached[Root], x \in cached[n] :
              AreRelated(n, o.row, x.row) => [from |-> o, join |-> n, to |-> x] \in Linked(n, cached[n], get, relations[n])
<1>1. ASSUME NEW c \in Before(n), stage[c] = "done", NEW o \in cached[n], NEW x \in cached[c], AreRelated(c, o.row, x.row)
      PROVE  [from |-> o, join |-> c, to |-> x] \in Linked(n, cached[n], get, relations[n])
  <2> DEFINE e == RelationOf(c, x)
             pairs == {q \in relations[n] \X cached[n] : /\ q[1].value = Value(q[2].row, q[1].field)
                                                         /\ ~IsReadAgain(n, q[1].field, get)}
  <2>1. c \in before /\ Parent(c) = n
    BY JoinableIs DEF Before
  <2>2. e \in relations[n]
    BY <1>1, <2>1 DEF JoinInv, ObjectsWait
  <2>3. e.field = FieldHere(c) /\ e.value = Value(x.row, FieldThere(c)) /\ e.join = c /\ e.object = x
    BY DEF RelationOf
  <2>4. e.value = Value(o.row, e.field) /\ ~IsReadAgain(n, e.field, get)
    BY <1>1, <2>3 DEF AreRelated, IsReadAgain
  <2> HIDE DEF e
  <2>5. <<e, o>> \in pairs
    BY <2>2, <2>4
  <2>6. [from |-> <<e, o>>[2], join |-> <<e, o>>[1].join, to |-> <<e, o>>[1].object] = [from |-> o, join |-> c, to |-> x]
    BY <2>3
  <2> HIDE DEF pairs
  <2>7. [from |-> o, join |-> c, to |-> x] \in {[from |-> p[2], join |-> p[1].join, to |-> p[1].object] : p \in pairs}
    BY <2>5, <2>6
  <2> QED
    BY <2>7 DEF Linked, pairs
<1>2. ASSUME n \in JoinSet \ before, stage[n] # "idle", get = FieldThere(n),
             NEW o \in cached[Root], NEW x \in cached[n], AreRelated(n, o.row, x.row)
      PROVE  [from |-> o, join |-> n, to |-> x] \in Linked(n, cached[n], get, relations[n])
  <2> DEFINE e == MappingOf(n, o)
             given == IF handed[n] = None THEN {} ELSE mappings[handed[n]]
             pairs == {q \in given \X cached[n] : q[1].value = Value(q[2].row, get)}
  <2>1. handed[n] = Root /\ e \in mappings[Root] /\ Root # None
    BY <1>2, QuerySetsAssumptions DEF JoinInv, ObjectsWait, Nodes
  <2>2. e \in given
    BY <2>1
  <2>3. e.value = Value(x.row, get) /\ e.object = o
    BY <1>2 DEF MappingOf, AreRelated
  <2> HIDE DEF e, given
  <2>4. <<e, x>> \in pairs
    BY <2>2, <2>3
  <2>5. [from |-> <<e, x>>[1].object, join |-> n, to |-> <<e, x>>[2]] = [from |-> o, join |-> n, to |-> x]
    BY <2>3
  <2> HIDE DEF pairs
  <2>6. [from |-> o, join |-> n, to |-> x] \in {[from |-> p[1].object, join |-> n, to |-> p[2]] : p \in pairs}
    BY <2>4, <2>5
  <2> QED
    BY <2>6 DEF Linked, pairs, given
<1> QED
  BY <1>1, <1>2

\* A query set is done with its joins and its rows, or fails.
IsSettled(n) ==
  /\ UNCHANGED <<query, was, before, continued, threads, cached, where, handed, mappings>>
  /\ stage[n] = "waiting" /\ stage'[n] \in {"done", "threw"} /\ \A m \in Nodes : m # n => stage'[m] = stage[m]
  /\ fetched' \subseteq fetched /\ \A g \in fetched \ fetched' : g.of = n
  /\ DOMAIN relations' = Nodes /\ DOMAIN childFilter' = Nodes
  /\ outcome' = "returned" => outcome = "returned" \/ (n = Root /\ stage'[n] = "done")
  /\ stage'[n] = "done" => IsTaken(n)' /\ \A c \in JoinsOf(n) : stage[c] = "done"
  \* What it leaves for its parent.
  /\ \A m \in Nodes : relations[m] \subseteq relations'[m]
  /\ \A m \in Nodes : \A e \in relations'[m] :
       \/ e \in relations[m]
       \/ /\ n \in Before(m) /\ stage'[n] = "done" /\ \E o \in cached[n] : e = RelationOf(n, o)
  /\ n \in before /\ stage'[n] = "done" => \A o \in cached[n] : RelationOf(n, o) \in relations'[Parent(n)]
  /\ \A c \in JoinSet : c # n => parentFilter'[c] = parentFilter[c]
  /\ n \in JoinSet => parentFilter'[n] = IF n \in before /\ stage'[n] = "done"
                                         THEN {Value(o.row, FieldThere(n)) : o \in cached[n]} ELSE {}
  \* What is linked.
  /\ links \subseteq links'
  /\ \A l \in links' : l \in links \/ (l.join \in JoinsOf(l.from.of) =>
                                         l.to \in cached[l.join] /\ AreRelated(l.join, l.from.row, l.to.row))
  /\ stage'[n] = "done" =>
       /\ \A c \in Before(n) : \A o \in cached[n], x \in cached[c] :
            AreRelated(c, o.row, x.row) => [from |-> o, join |-> c, to |-> x] \in links'
       /\ n \in JoinSet \ before => \A o \in cached[Root], x \in cached[n] :
            AreRelated(n, o.row, x.row) => [from |-> o, join |-> n, to |-> x] \in links'

LEMMA SettledKeepJoins ==
  ASSUME Types, Order, CanStillBeJoined, JoinInv, NEW n \in Nodes, IsSettled(n)
  PROVE  JoinInv'
<1>1. /\ UNCHANGED <<query, was, before, continued, threads, cached, where, handed, mappings>>
      /\ stage[n] = "waiting" /\ stage'[n] \in {"done", "threw"} /\ \A m \in Nodes : m # n => stage'[m] = stage[m]
      /\ fetched' \subseteq fetched /\ \A g \in fetched \ fetched' : g.of = n
  BY DEF IsSettled
<1>2. /\ Whole' = Whole
      /\ \A m : JoinsOf(m)' = JoinsOf(m) /\ Parent(m)' = Parent(m) /\ Clauses(query, m)' = Clauses(query, m)
      /\ \A m : FieldHere(m)' = FieldHere(m) /\ FieldThere(m)' = FieldThere(m)
      /\ \A m, r : RowsOf(m)' = RowsOf(m) /\ (IsAccepted(m, r)' <=> IsAccepted(m, r))
      /\ \A d, r, x : AreRelated(d, r, x)' <=> AreRelated(d, r, x)
      /\ \A d, o : RelationOf(d, o)' = RelationOf(d, o) /\ MappingOf(d, o)' = MappingOf(d, o)
  BY <1>1, QueryStays
<1>3. \A m : Before(m)' = Before(m) /\ After(m)' = After(m)
  BY <1>1, <1>2 DEF Before, After
<1>4. \A m : Offered(m)' = Offered(m) /\ Threads(m)' = Threads(m) /\ Objects(m)' = Objects(m)
  BY <1>1, <1>2, <1>3 DEF Offered, Threads, Objects
<1>5. \A m : HasAsked(m)' <=> HasAsked(m)
  BY <1>1 DEF HasAsked
<1>6. /\ \A c \in JoinSet : c \in Nodes /\ c # Root /\ Parent(c) \in Nodes /\ c \in JoinsOf(Parent(c))
      /\ \A m, c : c \in JoinsOf(m) => c \in JoinSet /\ Parent(c) = m
      /\ Root \in Nodes /\ before \subseteq JoinSet
  BY JoinableIs DEF Types, Nodes
<1>7. \A m \in Nodes : m # n => (IsTaken(m)' <=> IsTaken(m))
  <2> SUFFICES ASSUME NEW m \in Nodes, m # n PROVE IsTaken(m)' <=> IsTaken(m)
    OBVIOUS
  <2>1. (\A g \in fetched' : g.of # m) <=> (\A g \in fetched : g.of # m)
    BY <1>1
  <2> QED
    BY <1>1, <1>5, <2>1 DEF IsTaken
<1>8. IsTaken(n)' => stage'[n] = "done"
  BY <1>1 DEF IsTaken
<1>9. /\ \A m \in Nodes : stage[m] = "done" => stage'[m] = "done" /\ m # n
      /\ \A m \in Nodes : stage'[m] = "done" => stage[m] = "done" \/ m = n
      /\ \A m \in Nodes : stage'[m] = "idle" <=> stage[m] = "idle"
      /\ \A m \in Nodes : stage'[m] # "threw" => stage[m] # "threw"
  BY <1>1
<1>10. Shapes'
  BY <1>1 DEF JoinInv, Shapes, IsSettled
<1>11. DoneIsWhole'
  <2>1. outcome' = "returned" => stage'[Root] = "done"
    BY <1>6, <1>9 DEF JoinInv, DoneIsWhole, IsSettled
  <2>2. ASSUME NEW m \in Nodes, stage'[m] = "done"
        PROVE  IsTaken(m)' /\ \A c \in JoinsOf(m) : stage'[c] = "done"
    <3>1. CASE m = n
      <4>1. IsTaken(n)' /\ \A c \in JoinsOf(n) : stage[c] = "done"
        BY <2>2, <3>1 DEF IsSettled
      <4> QED
        BY <1>6, <1>9, <3>1, <4>1
    <3>2. CASE m # n
      <4>1. IsTaken(m) /\ \A c \in JoinsOf(m) : stage[c] = "done"
        BY <1>9, <2>2, <3>2 DEF JoinInv, DoneIsWhole
      <4> QED
        BY <1>6, <1>7, <1>9, <3>2, <4>1
    <3> QED
      BY <3>1, <3>2
  <2>3. \A t \in threads : t[2] \in Threads(t[1])' /\ Before(t[1])' \subseteq continued
    BY <1>3, <1>4 DEF JoinInv, DoneIsWhole
  <2> QED
    BY <1>1, <1>2, <2>1, <2>2, <2>3 DEF DoneIsWhole
<1>12. FiltersAreFound'
  <2> SUFFICES ASSUME NEW c \in JoinSet
               PROVE  parentFilter'[c] = IF c \in before /\ stage'[c] = "done"
                                         THEN {Value(o.row, FieldThere(c)) : o \in cached[c]} ELSE {}
    BY <1>1, <1>2 DEF FiltersAreFound, Value
  <2>1. CASE c = n
    BY <2>1 DEF IsSettled
  <2>2. CASE c # n
    <3>1. parentFilter'[c] = parentFilter[c] /\ stage'[c] = stage[c]
      BY <1>1, <1>6, <2>2 DEF IsSettled
    <3> QED
      BY <3>1 DEF JoinInv, FiltersAreFound
  <2> QED
    BY <2>1, <2>2
<1>13. WheresAreFound'
  <2>1. \A c \in continued : parentFilter'[c] = parentFilter[c]
    <3>1. \A c \in continued : c \in JoinSet /\ c # n
      BY <1>1 DEF Order, ContinuedAreDone, Types
    <3> QED
      BY <3>1 DEF IsSettled
  <2> QED
    BY <1>1, <1>2, <1>9, <2>1 DEF JoinInv, WheresAreFound, Value
<1>14. OfferedAreFound'
  BY <1>1, <1>2, <1>4, <1>5, <1>9 DEF JoinInv, OfferedAreFound
<1>15. ObjectsWait'
  <2>1. ASSUME NEW m \in Nodes, NEW e \in relations'[m]
        PROVE  /\ e.join \in Before(m) /\ stage'[e.join] = "done"
               /\ e.object \in cached[e.join] /\ e = RelationOf(e.join, e.object)
    <3>1. CASE e \in relations[m]
      <4>1. /\ e.join \in Before(m) /\ stage[e.join] = "done"
            /\ e.object \in cached[e.join] /\ e = RelationOf(e.join, e.object)
        BY <3>1 DEF JoinInv, ObjectsWait
      <4>2. e.join \in Nodes
        BY <1>6, <4>1 DEF Before
      <4> QED
        BY <1>9, <4>1, <4>2
    <3>2. CASE e \notin relations[m]
      <4>1. n \in Before(m) /\ stage'[n] = "done" /\ \E o \in cached[n] : e = RelationOf(n, o)
        BY <2>1, <3>2 DEF IsSettled
      <4>2. PICK o \in cached[n] : e = RelationOf(n, o)
        BY <4>1
      <4>3. e.join = n /\ e.object = o
        BY <4>2 DEF RelationOf
      <4> QED
        BY <4>1, <4>2, <4>3
    <3> QED
      BY <3>1, <3>2
  <2>2. ASSUME NEW c \in before, stage'[c] = "done", NEW o \in cached[c]
        PROVE  RelationOf(c, o) \in relations'[Parent(c)]
    <3>1. CASE c = n
      BY <2>2, <3>1 DEF IsSettled
    <3>2. CASE c # n
      <4>1. RelationOf(c, o) \in relations[Parent(c)] /\ Parent(c) \in Nodes
        BY <1>6, <1>9, <2>2, <3>2 DEF JoinInv, ObjectsWait
      <4> QED
        BY <4>1 DEF IsSettled
    <3> QED
      BY <3>1, <3>2
  <2>3. \A j \in JoinSet \ before : stage'[j] # "idle" => stage[j] # "idle"
    BY <1>6, <1>9
  <2> QED
    BY <1>1, <1>2, <1>3, <2>1, <2>2, <2>3 DEF JoinInv, ObjectsWait
<1>16. RootIsHanded'
  BY <1>1, <1>2 DEF JoinInv, RootIsHanded
<1>17. LinksRelate'
  <2>1. ASSUME NEW l \in links', l.join \in JoinsOf(l.from.of)
        PROVE  l.to \in cached[l.join] /\ AreRelated(l.join, l.from.row, l.to.row)
    BY <2>1 DEF IsSettled, JoinInv, LinksRelate
  <2>2. ASSUME NEW c \in JoinSet, IF c \in before THEN IsTaken(Parent(c))' ELSE stage'[c] = "done",
               NEW o \in cached[Parent(c)], NEW x \in cached[c], AreRelated(c, o.row, x.row)
        PROVE  [from |-> o, join |-> c, to |-> x] \in links'
    <3>1. PICK p \in Nodes : p = Parent(c)
      BY <1>6
    <3>2. IsTaken(Parent(c))' <=> IsTaken(p)'
      BY <1>2, <3>1
    <3>3. CASE c \in before /\ p = n
      <4>1. c \in Before(n) /\ stage'[n] = "done"
        BY <1>6, <1>8, <2>2, <3>1, <3>2, <3>3 DEF Before
      <4> QED
        BY <2>2, <3>1, <3>3, <4>1 DEF IsSettled
    <3>4. CASE c \notin before /\ c = n
      <4>1. Parent(n) = Root /\ stage'[n] = "done"
        BY <1>1, <2>2, <3>4 DEF JoinInv, ObjectsWait
      <4> QED
        BY <2>2, <3>4, <4>1 DEF IsSettled
    <3>5. CASE IF c \in before THEN p # n ELSE c # n
      <4>1. IF c \in before THEN IsTaken(Parent(c)) ELSE stage[c] = "done"
        BY <1>6, <1>7, <1>9, <2>2, <3>1, <3>2, <3>5
      <4>2. [from |-> o, join |-> c, to |-> x] \in links
        BY <2>2, <4>1 DEF JoinInv, LinksRelate
      <4> QED
        BY <4>2 DEF IsSettled
    <3> QED
      BY <3>3, <3>4, <3>5
  <2> QED
    BY <1>1, <1>2, <2>1, <2>2 DEF LinksRelate
<1> QED
  BY <1>10, <1>11, <1>12, <1>13, <1>14, <1>15, <1>16, <1>17 DEF JoinInv

LEMMA TakeLastSettles ==
  ASSUME Types, Order, CanStillBeJoined, JoinInv, NEW f \in fetched, Take(f), TakeLast(f)
  PROVE  IsSettled(f.of)
<1> DEFINE n == f.of
           objects == {[of |-> n, for |-> f.for, row |-> r] : r \in f.rows}
           get == IF n = Root THEN None ELSE FieldThere(n)
           entries == Entries(n, objects, get, FieldHere(n))
<1>1. /\ n \in Nodes /\ Started(n) /\ n \in Threads(n) /\ <<n, n>> \in threads
      /\ \A c \in Before(n) : c \in JoinSet /\ stage[c] = "done"
      /\ \A g \in fetched : g.of = n => g = f
      /\ cached[n] = objects /\ stage[n] = "waiting" /\ fetched' = fetched \ {f}
  BY TakenAreFound DEF TakeLast
<1>2. UNCHANGED <<query, was, before, continued, threads, cached, where, handed, mappings, childFilter>>
  BY DEF Take, TakeLast, builderVars
<1>3. \/ /\ stage' = [stage EXCEPT ![n] = "threw"] /\ outcome' = "threw"
         /\ UNCHANGED <<relations, parentFilter, links>>
      \/ /\ stage' = [stage EXCEPT ![n] = "done"]
         /\ outcome' = IF n = Root /\ outcome = "running" THEN "returned" ELSE outcome
         /\ relations' = RelationsWith(n, entries)
         /\ parentFilter' = [parentFilter EXCEPT ![n] = @ \cup {e.value : e \in entries}]
         /\ links' = links \cup Linked(n, objects, get, relations[n])
  BY DEF TakeLast
<1>4. /\ \A c \in JoinSet : c \in Nodes /\ c # Root /\ Parent(c) \in Nodes /\ c \in JoinsOf(Parent(c))
      /\ \A m, c : c \in JoinsOf(m) => c \in JoinSet /\ Parent(c) = m
      /\ before \subseteq JoinSet
  BY JoinableIs DEF Types
<1>5. After(n) = {} /\ JoinsOf(n) = Before(n)
  <2>1. Root \notin After(Root) /\ After(n) # {} => n = Root
    BY <1>1, <1>4 DEF CanStillBeJoined, Fits, After
  <2>2. After(n) = {}
    BY <1>1, <1>4, <2>1 DEF Threads, After
  <2> QED
    BY <2>2 DEF After, Before
<1>6. \A e : e \in entries <=> n \in before /\ \E o \in cached[n] : e = RelationOf(n, o)
  <2>1. n \in before => get = FieldThere(n)
    BY <1>4
  <2> HIDE DEF get, objects
  <2>2. entries = IF n \in before
                  THEN {[field |-> FieldHere(n), value |-> Value(o.row, get), join |-> n, object |-> o] : o \in objects}
                  ELSE {}
    BY DEF Entries
  <2> QED
    BY <1>1, <2>1, <2>2 DEF RelationOf
<1>7. n \in query.omits => \A c \in Before(n) : FieldHere(c) # get
  <2>1. CASE n = Root
    <3>1. \A c \in JoinSet : FieldHere(c) \in Fields
      BY DEF FieldHere, Fields
    <3> QED
      BY <1>1, <2>1, <3>1, QuerySetsAssumptions
  <2>2. CASE n # Root
    BY <1>1, <1>5, <2>2 DEF CanStillBeJoined, Fits, KeysRead
  <2> QED
    BY <2>1, <2>2
<1>8. /\ n # Root => get = FieldThere(n)
      /\ n \in JoinSet => n # Root /\ n \in JoinsOf(Parent(n)) /\ Parent(n) \in Nodes
  BY <1>4
<1>9. DOMAIN relations = Nodes /\ DOMAIN childFilter = Nodes /\ DOMAIN parentFilter = Nodes /\ DOMAIN stage = Nodes
  BY DEF JoinInv, Shapes, Types
<1>10. n \in JoinSet => parentFilter[n] = {}
  BY <1>1 DEF JoinInv, FiltersAreFound
<1>11. <<n, n>> \in threads' /\ \A g \in fetched' : g.of # n
  BY <1>1, <1>2
<1> HIDE DEF n, objects, get, entries
<1>12. CASE /\ stage' = [stage EXCEPT ![n] = "threw"] /\ outcome' = "threw"
            /\ UNCHANGED <<relations, parentFilter, links>>
  <2>1. stage'[n] = "threw" /\ \A m \in Nodes : m # n => stage'[m] = stage[m]
    BY <1>1, <1>9, <1>12
  <2> QED
    BY <1>1, <1>2, <1>9, <1>10, <1>12, <2>1 DEF IsSettled, n
<1>13. CASE /\ stage' = [stage EXCEPT ![n] = "done"]
            /\ outcome' = IF n = Root /\ outcome = "running" THEN "returned" ELSE outcome
            /\ relations' = RelationsWith(n, entries)
            /\ parentFilter' = [parentFilter EXCEPT ![n] = @ \cup {e.value : e \in entries}]
            /\ links' = links \cup Linked(n, objects, get, relations[n])
  <2>1. stage'[n] = "done" /\ \A m \in Nodes : m # n => stage'[m] = stage[m]
    BY <1>1, <1>9, <1>13
  <2>2. IsTaken(n)' /\ \A c \in JoinsOf(n) : stage[c] = "done"
    BY <1>1, <1>5, <1>11, <2>1 DEF IsTaken, HasAsked
  <2>3. outcome' = "returned" => outcome = "returned" \/ (n = Root /\ stage'[n] = "done")
    BY <1>13, <2>1
  <2>4. /\ DOMAIN relations' = Nodes
        /\ \A m \in Nodes : relations'[m] = IF n # Root /\ m = Parent(n) THEN relations[m] \cup entries ELSE relations[m]
    BY <1>13 DEF RelationsWith, Parent
  <2>5. \A m \in Nodes : \A e \in relations'[m] :
          \/ e \in relations[m]
          \/ n \in Before(m) /\ stage'[n] = "done" /\ \E o \in cached[n] : e = RelationOf(n, o)
    BY <1>4, <1>6, <1>8, <2>1, <2>4 DEF Before
  <2>6. n \in before => \A o \in cached[n] : RelationOf(n, o) \in relations'[Parent(n)]
    BY <1>4, <1>6, <1>8, <2>4
  <2>7. /\ \A c \in JoinSet : c # n => parentFilter'[c] = parentFilter[c]
        /\ n \in JoinSet => parentFilter'[n] = {e.value : e \in entries}
    BY <1>1, <1>4, <1>9, <1>10, <1>13
  <2>8. {e.value : e \in entries} = IF n \in before THEN {Value(o.row, FieldThere(n)) : o \in cached[n]} ELSE {}
    <3>1. CASE n \notin before
      BY <1>6, <3>1
    <3>2. CASE n \in before
      <4>1. \A o : RelationOf(n, o).value = Value(o.row, FieldThere(n))
        BY DEF RelationOf
      <4> QED
        BY <1>6, <3>2, <4>1
    <3> QED
      BY <3>1, <3>2
  <2>9. links' = links \cup Linked(n, cached[n], get, relations[n])
    BY <1>1, <1>13
  <2>10. \A l \in links' : l \in links \/ (l.join \in JoinsOf(l.from.of) =>
                                             l.to \in cached[l.join] /\ AreRelated(l.join, l.from.row, l.to.row))
    BY <1>1, <1>8, <2>9, LinkedAreRelated
  <2>11. /\ \A c \in Before(n) : \A o \in cached[n], x \in cached[c] :
              AreRelated(c, o.row, x.row) => [from |-> o, join |-> c, to |-> x] \in Linked(n, cached[n], get, relations[n])
         /\ n \in JoinSet \ before => \A o \in cached[Root], x \in cached[n] :
              AreRelated(n, o.row, x.row) => [from |-> o, join |-> n, to |-> x] \in Linked(n, cached[n], get, relations[n])
    BY <1>1, <1>7, <1>8, RelatedAreLinked
  <2>12. /\ links \subseteq links'
         /\ \A c \in Before(n) : \A o \in cached[n], x \in cached[c] :
              AreRelated(c, o.row, x.row) => [from |-> o, join |-> c, to |-> x] \in links'
         /\ n \in JoinSet \ before => \A o \in cached[Root], x \in cached[n] :
              AreRelated(n, o.row, x.row) => [from |-> o, join |-> n, to |-> x] \in links'
    BY <2>9, <2>11
  <2>13. n \in JoinSet => parentFilter'[n] = IF n \in before /\ stage'[n] = "done"
                                             THEN {Value(o.row, FieldThere(n)) : o \in cached[n]} ELSE {}
    BY <2>1, <2>7, <2>8
  <2>14. /\ \A m \in Nodes : relations[m] \subseteq relations'[m]
         /\ fetched' \subseteq fetched /\ \A g \in fetched \ fetched' : g.of = n
    BY <1>1, <2>4 DEF n
  <2>15. DOMAIN childFilter' = Nodes /\ UNCHANGED <<query, was, before, continued, threads, cached, where, handed, mappings>>
    BY <1>2, <1>9
  <2> QED
    BY <1>1, <2>1, <2>2, <2>3, <2>4, <2>5, <2>6, <2>7, <2>10, <2>12, <2>13, <2>14, <2>15 DEF IsSettled, n
<1> QED
  BY <1>3, <1>12, <1>13

\* The joins that are read after the root have all returned.
LEMMA ReturnSettles ==
  ASSUME Types, Order, CanStillBeJoined, JoinInv, NEW n \in Nodes, Return(n)
  PROVE  IsSettled(n)
<1>1. /\ UNCHANGED <<query, was, before, continued, threads, fetched, cached, where, handed, mappings>>
      /\ UNCHANGED <<relations, childFilter, parentFilter, links>>
      /\ stage[n] = "waiting" /\ stage' = [stage EXCEPT ![n] = "done"]
      /\ outcome' = IF n = Root /\ outcome = "running" THEN "returned" ELSE outcome
      /\ Before(n) \subseteq continued /\ After(n) # {} /\ \A j \in After(n) : stage[j] = "done"
  BY DEF Return, builderVars, memoryVars
<1>2. n = Root /\ n \notin JoinSet /\ Started(n)
  BY <1>1, QuerySetsAssumptions DEF CanStillBeJoined, Fits, Started
<1>3. stage'[n] = "done" /\ \A m \in Nodes : m # n => stage'[m] = stage[m]
  BY <1>1 DEF Types
<1>4. \A c \in JoinsOf(n) : stage[c] = "done"
  BY <1>1 DEF Order, ContinuedAreDone, Before, After
<1>5. HasAsked(n)
  <2>1. PICK j \in After(n) : stage[j] = "done"
    BY <1>1
  <2>2. j \in JoinSet \ before /\ Parent(j) = n /\ j \in Nodes
    BY JoinableIs DEF After
  <2>3. <<n, j>> \in threads
    BY <2>1, <2>2 DEF Order, ThreadsAreOnce
  <2> QED
    BY <2>2, <2>3 DEF HasAsked
<1>6. ASSUME NEW g \in fetched PROVE g.of # n
  <2> SUFFICES ASSUME g.of = n PROVE FALSE
    OBVIOUS
  <2>1. g.for \in After(n)
    BY <1>1 DEF Order, ThreadsAreOnce, JoinInv, DoneIsWhole, Threads
  <2>2. g.for # g.of
    BY <1>2, <2>1, JoinableIs DEF After
  <2> QED
    BY <1>1, <2>1, <2>2 DEF Order, ThreadsAreOnce
<1>7. IsTaken(n) /\ IsTaken(n)'
  BY <1>1, <1>3, <1>5, <1>6 DEF IsTaken, HasAsked
<1>8. \A c \in Before(n) : \A o \in cached[n], x \in cached[c] :
        AreRelated(c, o.row, x.row) => [from |-> o, join |-> c, to |-> x] \in links
  <2>1. \A c \in Before(n) : c \in JoinSet /\ c \in before /\ Parent(c) = n
    BY JoinableIs DEF Before
  <2> QED
    BY <1>7, <2>1 DEF JoinInv, LinksRelate
<1>9. \A c \in JoinSet : c # n
  BY <1>2
<1>10. \A l \in links : l.join \in JoinsOf(l.from.of) => l.to \in cached[l.join] /\ AreRelated(l.join, l.from.row, l.to.row)
  BY DEF JoinInv, LinksRelate
<1> QED
  BY <1>1, <1>2, <1>3, <1>4, <1>7, <1>8, <1>9, <1>10 DEF IsSettled, JoinInv, Shapes, Types

\* The root's rows are read for the join that is read after it: the root waits
\* for the join, and no other list is in the way.
LEMMA TakeForIsTheRoots ==
  ASSUME Types, Order, CanStillBeJoined, JoinInv, NEW f \in fetched, Take(f), TakeFor(f)
  PROVE  /\ f.of = Root /\ f.for \in After(Root) /\ stage[f.for] = "idle"
         /\ UNCHANGED <<query, was, before, continued, threads, cached, parentFilter, outcome>>
         /\ stage' = [stage EXCEPT ![f.for] = "called"] /\ handed' = [handed EXCEPT ![f.for] = Root]
         /\ links' = links \cup Linked(Root, cached[Root], FieldHere(f.for), relations[Root])
         /\ DOMAIN relations' = Nodes /\ \A m \in Nodes : relations'[m] = relations[m]
         /\ mappings' = [mappings EXCEPT ![Root] = @ \cup {MappingOf(f.for, o) : o \in cached[Root]}]
         /\ DOMAIN childFilter' = Nodes
         /\ \E values : /\ \A o \in cached[Root] : Value(o.row, FieldHere(f.for)) \in values
                        /\ where' = [where EXCEPT ![f.for] = With(@, FieldThere(f.for), values)]
<1> DEFINE n == f.of
           j == f.for
           objects == {[of |-> n, for |-> j, row |-> r] : r \in f.rows}
           get == FieldHere(j)
           entries == Entries(n, objects, get, FieldThere(j))
           values == childFilter[n] \cup {Value(r, get) : r \in f.rows}
<1>1. /\ n \in Nodes /\ Started(n) /\ cached[n] = objects
  BY TakenAreFound
<1>2. j # n /\ j \in JoinsOf(n) \ before /\ stage[j] = "idle"
  BY DEF Order, ThreadsAreOnce, TakeFor
<1>3. n = Root /\ j \in After(n) /\ j \in Nodes /\ Root \notin before
  <2>1. j \in After(n)
    BY <1>2 DEF After
  <2>2. n = Root
    BY <1>1, <2>1 DEF CanStillBeJoined, Fits
  <2> QED
    BY <1>2, <2>1, <2>2, JoinableIs, QuerySetsAssumptions DEF Types
<1>4. \A e, u : ~Clashes(n, e, u)
  BY <1>3 DEF Clashes
<1>5. /\ links' = links \cup Linked(n, objects, get, relations[n])
      /\ relations' = RelationsWith(n, entries)
      /\ mappings' = [mappings EXCEPT ![n] = @ \cup {[value |-> Value(o.row, get), object |-> o] : o \in objects}]
      /\ childFilter' = [childFilter EXCEPT ![n] = values]
      /\ where' = [where EXCEPT ![j] = IF TakesIn(j, hasSearch[j]) THEN With(@, FieldThere(j), values) ELSE @]
      /\ handed' = [handed EXCEPT ![j] = n]
      /\ stage' = [stage EXCEPT ![j] = "called"]
      /\ UNCHANGED <<outcome, parentFilter>>
  BY <1>4 DEF TakeFor
<1>6. UNCHANGED <<query, was, before, continued, threads, cached>>
  BY DEF Take
<1>7. DOMAIN relations' = Nodes /\ \A m \in Nodes : relations'[m] = relations[m]
  BY <1>3, <1>5 DEF RelationsWith
<1>8. {[value |-> Value(o.row, get), object |-> o] : o \in objects} = {MappingOf(j, o) : o \in objects}
  BY DEF MappingOf
<1>9. TakesIn(j, hasSearch[j])
  BY <1>3, JoinableIs DEF TakesIn
<1>10. \A o \in objects : Value(o.row, get) \in values
  OBVIOUS
<1>11. DOMAIN childFilter' = Nodes
  BY <1>5 DEF JoinInv, Shapes
<1> HIDE DEF n, j, objects, get, entries, values
<1>12. where' = [where EXCEPT ![j] = With(@, FieldThere(j), values)]
  BY <1>5, <1>9
<1>13. \E given : /\ \A o \in cached[Root] : Value(o.row, get) \in given
                  /\ where' = [where EXCEPT ![j] = With(@, FieldThere(j), given)]
  BY <1>1, <1>3, <1>10, <1>12
<1> QED
  BY <1>1, <1>2, <1>3, <1>4, <1>5, <1>6, <1>7, <1>8, <1>11, <1>13 DEF n, j, get

LEMMA TakeForKeepsJoins ==
  ASSUME Types, Order, CanStillBeJoined, JoinInv, NEW f \in fetched, Take(f), TakeFor(f)
  PROVE  JoinInv'
<1> DEFINE j == f.for
<1>1. /\ f.of = Root /\ j \in After(Root) /\ stage[j] = "idle"
      /\ UNCHANGED <<query, was, before, continued, threads, cached, parentFilter, outcome>>
      /\ stage' = [stage EXCEPT ![j] = "called"] /\ handed' = [handed EXCEPT ![j] = Root]
      /\ links' = links \cup Linked(Root, cached[Root], FieldHere(j), relations[Root])
      /\ DOMAIN relations' = Nodes /\ \A m \in Nodes : relations'[m] = relations[m]
      /\ mappings' = [mappings EXCEPT ![Root] = @ \cup {MappingOf(j, o) : o \in cached[Root]}]
      /\ DOMAIN childFilter' = Nodes
  BY TakeForIsTheRoots
<1>2. PICK values : /\ \A o \in cached[Root] : Value(o.row, FieldHere(j)) \in values
                    /\ where' = [where EXCEPT ![j] = With(@, FieldThere(j), values)]
  BY TakeForIsTheRoots
<1>3. /\ Started(Root) /\ <<Root, j>> \in threads /\ stage[Root] = "waiting" /\ fetched' \subseteq fetched
      /\ \A g \in fetched : g.of = Root => g \notin fetched'
      /\ \A g \in fetched : g.of # Root => g \in fetched'
      /\ \A c \in Before(Root) : stage[c] = "done"
  BY <1>1, TakenAreFound
<1> HIDE DEF j
<1>4. /\ Whole' = Whole
      /\ \A m : JoinsOf(m)' = JoinsOf(m) /\ Parent(m)' = Parent(m) /\ Clauses(query, m)' = Clauses(query, m)
      /\ \A m : FieldHere(m)' = FieldHere(m) /\ FieldThere(m)' = FieldThere(m)
      /\ \A m, r : RowsOf(m)' = RowsOf(m) /\ (IsAccepted(m, r)' <=> IsAccepted(m, r))
      /\ \A d, r, x : AreRelated(d, r, x)' <=> AreRelated(d, r, x)
      /\ \A d, o : RelationOf(d, o)' = RelationOf(d, o) /\ MappingOf(d, o)' = MappingOf(d, o)
  BY <1>1, QueryStays
<1>5. \A m : Before(m)' = Before(m) /\ After(m)' = After(m)
  BY <1>1, <1>4 DEF Before, After
<1>6. \A m : Offered(m)' = Offered(m) /\ Threads(m)' = Threads(m) /\ Objects(m)' = Objects(m)
  BY <1>1, <1>4, <1>5 DEF Offered, Threads, Objects
<1>7. \A m : HasAsked(m)' <=> HasAsked(m)
  BY <1>1 DEF HasAsked
<1>8. /\ \A c \in JoinSet : c \in Nodes /\ c # Root /\ Parent(c) \in Nodes /\ c \in JoinsOf(Parent(c))
      /\ \A m, c : c \in JoinsOf(m) => c \in JoinSet /\ Parent(c) = m
      /\ \A t \in threads : Started(t[1]) /\ t[1] \in Nodes
      /\ Root \in Nodes /\ before \subseteq JoinSet
  BY JoinableIs DEF Types, Nodes
<1>9. j \in JoinSet \ before /\ j \in Nodes /\ j # Root /\ Parent(j) = Root /\ ~HasAsked(j)
  <2>1. j \in JoinSet \ before /\ j \in Nodes /\ j # Root /\ Parent(j) = Root
    BY <1>1, <1>8 DEF After
  <2>2. ~Started(j)
    BY <1>1 DEF Started
  <2> QED
    BY <1>8, <2>1, <2>2 DEF HasAsked
<1>10. /\ stage'[j] = "called" /\ handed'[j] = Root /\ where'[j] = With(where[j], FieldThere(j), values)
       /\ \A m \in Nodes : m # j => stage'[m] = stage[m] /\ handed'[m] = handed[m] /\ where'[m] = where[m]
       /\ \A e : e \in mappings'[Root] <=> e \in mappings[Root] \/ \E o \in cached[Root] : e = MappingOf(j, o)
  BY <1>1, <1>2, <1>8, <1>9 DEF JoinInv, Shapes, Types
<1>11. /\ \A m \in Nodes : stage'[m] = "done" <=> stage[m] = "done"
       /\ \A m \in Nodes : stage'[m] = "idle" => stage[m] = "idle" /\ m # j
       /\ \A m \in Nodes : stage'[m] # "idle" => stage[m] # "idle" \/ m = j
       /\ \A m \in Nodes : stage'[m] = "threw" <=> stage[m] = "threw"
  BY <1>1, <1>10
<1>12. \A m \in Nodes : m # Root => (IsTaken(m)' <=> IsTaken(m))
  <2> SUFFICES ASSUME NEW m \in Nodes, m # Root PROVE IsTaken(m)' <=> IsTaken(m)
    OBVIOUS
  <2>1. (\A g \in fetched' : g.of # m) <=> (\A g \in fetched : g.of # m)
    BY <1>3
  <2> QED
    BY <1>7, <1>11, <2>1 DEF IsTaken
<1>13. Shapes'
  BY <1>1 DEF JoinInv, Shapes
<1>14. DoneIsWhole'
  <2>1. outcome' = "returned" => stage'[Root] = "done"
    BY <1>1, <1>8, <1>11 DEF JoinInv, DoneIsWhole
  <2>2. ASSUME NEW m \in Nodes, stage'[m] = "done"
        PROVE  IsTaken(m)' /\ \A c \in JoinsOf(m) : stage'[c] = "done"
    <3>1. m # Root /\ IsTaken(m) /\ \A c \in JoinsOf(m) : stage[c] = "done"
      BY <1>3, <1>11, <2>2 DEF JoinInv, DoneIsWhole
    <3> QED
      BY <1>8, <1>11, <1>12, <3>1
  <2>3. \A t \in threads : t[2] \in Threads(t[1])' /\ Before(t[1])' \subseteq continued
    BY <1>5, <1>6 DEF JoinInv, DoneIsWhole
  <2> QED
    BY <1>1, <1>4, <2>1, <2>2, <2>3 DEF DoneIsWhole
<1>15. FiltersAreFound'
  <2> SUFFICES ASSUME NEW c \in JoinSet
               PROVE  parentFilter[c] = IF c \in before /\ stage'[c] = "done"
                                        THEN {Value(o.row, FieldThere(c)) : o \in cached[c]} ELSE {}
    BY <1>1, <1>4 DEF FiltersAreFound, Value
  <2>1. stage'[c] = "done" <=> stage[c] = "done"
    BY <1>8, <1>11
  <2> QED
    BY <2>1 DEF JoinInv, FiltersAreFound
<1>16. WheresAreFound'
  <2>1. \A m \in Nodes : stage'[m] = "idle" => where'[m] = Clauses(query, m)
    BY <1>10, <1>11 DEF JoinInv, WheresAreFound
  <2>2. ASSUME NEW c \in continued
        PROVE  FieldHere(c) \in DOMAIN where'[Parent(c)] /\ where'[Parent(c)][FieldHere(c)].values = parentFilter[c]
    <3>1. c \in JoinSet /\ c \in before /\ Parent(c) \in Nodes
      BY <1>8 DEF Types
    <3>2. Started(Parent(c))
      BY <3>1 DEF Order, JoinsWaitForParents
    <3>3. Parent(c) # j
      BY <1>1, <3>2 DEF Started
    <3> QED
      BY <1>10, <3>1, <3>3 DEF JoinInv, WheresAreFound
  <2>3. ASSUME NEW m \in Nodes, NEW g \in DOMAIN where'[m] \ DOMAIN Clauses(query, m)
        PROVE  \/ \E c \in continued : Parent(c) = m /\ g = FieldHere(c)
               \/ /\ m \in JoinSet \ before /\ g = FieldThere(m)
                  /\ \A o \in cached[Parent(m)] : Value(o.row, FieldHere(m)) \in where'[m][g].values
    <3>1. CASE m = j
      <4>1. where[j] = Clauses(query, j)
        BY <1>1, <1>9 DEF JoinInv, WheresAreFound
      <4>2. g = FieldThere(j) /\ where'[j][g].values = values
        BY <1>10, <2>3, <3>1, <4>1 DEF With
      <4> QED
        BY <1>2, <1>9, <3>1, <4>2
    <3>2. CASE m # j
      BY <1>10, <2>3, <3>2 DEF JoinInv, WheresAreFound
    <3> QED
      BY <3>1, <3>2
  <2> QED
    BY <1>1, <1>4, <2>1, <2>2, <2>3 DEF WheresAreFound, Value
<1>17. OfferedAreFound'
  BY <1>1, <1>3, <1>4, <1>6, <1>7, <1>11 DEF JoinInv, OfferedAreFound
<1>18. ObjectsWait'
  <2>1. ASSUME NEW m \in Nodes, NEW e \in relations'[m]
        PROVE  /\ e.join \in Before(m) /\ stage'[e.join] = "done"
               /\ e.object \in cached[e.join] /\ e = RelationOf(e.join, e.object)
    <3>1. /\ e.join \in Before(m) /\ stage[e.join] = "done"
          /\ e.object \in cached[e.join] /\ e = RelationOf(e.join, e.object)
      BY <1>1 DEF JoinInv, ObjectsWait
    <3>2. e.join \in Nodes
      BY <1>8, <3>1 DEF Before
    <3> QED
      BY <1>11, <3>1, <3>2
  <2>2. ASSUME NEW c \in before, stage'[c] = "done", NEW o \in cached[c]
        PROVE  RelationOf(c, o) \in relations'[Parent(c)]
    <3>1. RelationOf(c, o) \in relations[Parent(c)] /\ Parent(c) \in Nodes
      BY <1>8, <1>11, <2>2 DEF JoinInv, ObjectsWait
    <3> QED
      BY <1>1, <3>1
  <2>3. ASSUME NEW e \in mappings'[Root]
        PROVE  e.object \in cached[Root] /\ e.object.for # Root /\ e = MappingOf(e.object.for, e.object)
    <3>1. CASE e \in mappings[Root]
      BY <3>1 DEF JoinInv, ObjectsWait
    <3>2. CASE e \notin mappings[Root]
      <4>1. PICK o \in cached[Root] : e = MappingOf(j, o)
        BY <1>10, <2>3, <3>2
      <4>2. e.object = o
        BY <4>1 DEF MappingOf
      <4>3. cached[Root] = {[of |-> Root, for |-> j, row |-> r] : r \in f.rows}
        BY <1>1 DEF JoinInv, OfferedAreFound, j
      <4>4. o.for = j
        BY <4>3
      <4> QED
        BY <1>9, <4>1, <4>2, <4>4
    <3> QED
      BY <3>1, <3>2
  <2>4. ASSUME NEW k \in JoinSet \ before, stage'[k] # "idle"
        PROVE  /\ Parent(k) = Root /\ handed'[k] = Root
               /\ \A o \in cached[Root] : MappingOf(k, o) \in mappings'[Root]
    <3>1. CASE k = j
      BY <1>9, <1>10, <3>1
    <3>2. CASE k # j
      BY <1>8, <1>10, <2>4, <3>2 DEF JoinInv, ObjectsWait
    <3> QED
      BY <3>1, <3>2
  <2> QED
    BY <1>1, <1>4, <1>5, <2>1, <2>2, <2>3, <2>4 DEF ObjectsWait
<1>19. RootIsHanded'
  BY <1>1, <1>4, <1>8, <1>9, <1>10 DEF JoinInv, RootIsHanded
<1>20. LinksRelate'
  <2>1. \A l \in links' : l.join \in JoinsOf(l.from.of) =>
          l.to \in cached[l.join] /\ AreRelated(l.join, l.from.row, l.to.row)
    <3>1. \A l \in Linked(Root, cached[Root], FieldHere(j), relations[Root]) : l.join \in JoinsOf(l.from.of) =>
            l.to \in cached[l.join] /\ AreRelated(l.join, l.from.row, l.to.row)
      BY <1>8, LinkedAreRelated
    <3> QED
      BY <1>1, <3>1 DEF JoinInv, LinksRelate
  <2>2. Root \in query.omits => \A c \in Before(Root) : FieldHere(c) # FieldHere(j)
    BY <1>1, <1>3, <1>8 DEF CanStillBeJoined, Fits, KeysRead
  <2>3. \A c \in Before(Root) : \A o \in cached[Root], x \in cached[c] :
          AreRelated(c, o.row, x.row) => [from |-> o, join |-> c, to |-> x] \in links'
    BY <1>1, <1>3, <1>8, <2>2, RelatedAreLinked
  <2>4. ASSUME NEW c \in JoinSet, IF c \in before THEN IsTaken(Parent(c))' ELSE stage'[c] = "done",
               NEW o \in cached[Parent(c)], NEW x \in cached[c], AreRelated(c, o.row, x.row)
        PROVE  [from |-> o, join |-> c, to |-> x] \in links'
    <3>1. PICK p \in Nodes : p = Parent(c)
      BY <1>8
    <3>2. IsTaken(Parent(c))' <=> IsTaken(p)'
      BY <1>4, <3>1
    <3>3. CASE c \in before /\ p = Root
      <4>1. c \in Before(Root)
        BY <1>8, <3>1, <3>3 DEF Before
      <4> QED
        BY <2>3, <2>4, <3>1, <3>3, <4>1
    <3>4. CASE ~(c \in before /\ p = Root)
      <4>1. IF c \in before THEN IsTaken(Parent(c)) ELSE stage[c] = "done"
        BY <1>8, <1>11, <1>12, <2>4, <3>1, <3>2, <3>4
      <4>2. [from |-> o, join |-> c, to |-> x] \in links
        BY <2>4, <4>1 DEF JoinInv, LinksRelate
      <4> QED
        BY <1>1, <4>2
    <3> QED
      BY <3>3, <3>4
  <2> QED
    BY <1>1, <1>4, <2>1, <2>4 DEF LinksRelate
<1> QED
  BY <1>13, <1>14, <1>15, <1>16, <1>17, <1>18, <1>19, <1>20 DEF JoinInv

LEMMA TakeGoes ==
  ASSUME Types, Order, NEW f \in fetched, Take(f)
  PROVE  Goes
<1>1. CASE CallsNobody
  BY <1>1, CallingNobodyGoes
<1>2. CASE TakeFor(f) /\ CallsJoin(f.of, f.for)
  <2>1. WheresAreKept' => WheresAreKept
    BY <1>2, CallingAJoinKeepsInv
  <2>2. /\ UNCHANGED <<query, was, before>> /\ stage' = [stage EXCEPT ![f.for] = "called"]
        /\ f.for # f.of
    BY <1>2 DEF CallsJoin, TakeFor
  <2>3. stage[f.for] = "idle"
    BY <2>2 DEF Order, ThreadsAreOnce
  <2>4. \A m \in Nodes : Started(m) => Started(m)'
    BY <2>2, <2>3 DEF Started, Types
  <2>5. \A m : Before(m)' = Before(m)
    BY <2>2 DEF Before, JoinsOf, JoinedTo
  <2> QED
    BY <2>1, <2>2, <2>4, <2>5 DEF Goes
<1>3. CASE TakeLast(f)
  <2>1. f.of \in Nodes
    BY DEF Order, ThreadsAreOnce, Types
  <2>2. UNCHANGED <<query, was, before>> /\ stage[f.of] = "waiting"
    BY DEF Take
  <2>3. \/ stage' = [stage EXCEPT ![f.of] = "threw"]
        \/ stage' = [stage EXCEPT ![f.of] = "done"]
    BY <1>3 DEF TakeLast
  <2>4. CallsNobody
    BY <2>1, <2>2, <2>3 DEF CallsNobody, Types
  <2> QED
    BY <1>1, <2>4
<1> QED
  BY <1>1, <1>2, <1>3, TakeForCalls DEF Take, Settles
-----------------------------------------------------------------------------
(* The theorems about reads.                                                *)

LEMMA InitImpliesJoinInv == Init => Unwritten /\ JoinInv
<1> SUFFICES ASSUME Init PROVE Unwritten /\ JoinInv
  OBVIOUS
<1>1. JoinSet \subseteq Nodes /\ Root \notin JoinSet /\ Root \in Nodes
  BY QuerySetsAssumptions DEF Nodes
<1>2. /\ before = {} /\ continued = {} /\ threads = {} /\ fetched = {} /\ links = {}
      /\ outcome = "running" /\ was = database
      /\ stage = [n \in Nodes |-> IF n = Root THEN "called" ELSE "idle"]
      /\ where = [n \in Nodes |-> Clauses(query, n)]
      /\ cached = [n \in Nodes |-> {}] /\ handed = [n \in Nodes |-> None]
      /\ mappings = [n \in Nodes |-> {}] /\ relations = [n \in Nodes |-> {}]
      /\ childFilter = [n \in Nodes |-> {}] /\ parentFilter = [n \in Nodes |-> {}]
  BY DEF Init
<1>3. \A n \in Nodes : stage[n] \in {"called", "idle"} /\ ~HasAsked(n)
  BY <1>2 DEF HasAsked
<1>4. Shapes /\ DoneIsWhole
  BY <1>1, <1>2, <1>3 DEF Shapes, DoneIsWhole
<1>5. FiltersAreFound
  BY <1>1, <1>2 DEF FiltersAreFound
<1>6. WheresAreFound
  BY <1>2 DEF WheresAreFound
<1>7. OfferedAreFound
  BY <1>2, <1>3 DEF OfferedAreFound
<1>8. ObjectsWait
  BY <1>1, <1>2 DEF ObjectsWait
<1>9. RootIsHanded
  <2>1. None # Root
    BY <1>1, QuerySetsAssumptions
  <2>2. \A c \in JoinsOf(Root) : handed[c] # Root
    BY <1>1, <1>2, <2>1 DEF JoinsOf, JoinedTo
  <2> QED
    BY <1>1, <1>2, <2>2 DEF RootIsHanded
<1>10. LinksRelate
  <2>1. ASSUME NEW c \in JoinSet PROVE ~(IF c \in before THEN IsTaken(Parent(c)) ELSE stage[c] = "done")
    BY <1>1, <1>2, <1>3
  <2> QED
    BY <1>2, <2>1 DEF LinksRelate
<1> QED
  BY <1>2, <1>4, <1>5, <1>6, <1>7, <1>8, <1>9, <1>10 DEF JoinInv, Unwritten

LEMMA StutteringKeepsJoins ==
  ASSUME JoinInv, UNCHANGED vars
  PROVE  JoinInv'
<1>1. /\ UNCHANGED <<query, was, stage, before, continued, threads, fetched, cached, where, outcome>>
      /\ UNCHANGED <<handed, mappings, relations, childFilter, parentFilter, links>>
  BY DEF vars, builderVars, memoryVars
<1>2. /\ Whole' = Whole
      /\ \A m : JoinsOf(m)' = JoinsOf(m) /\ Parent(m)' = Parent(m) /\ Clauses(query, m)' = Clauses(query, m)
      /\ \A m : FieldHere(m)' = FieldHere(m) /\ FieldThere(m)' = FieldThere(m)
      /\ \A m, r : RowsOf(m)' = RowsOf(m) /\ (IsAccepted(m, r)' <=> IsAccepted(m, r))
      /\ \A d, r, x : AreRelated(d, r, x)' <=> AreRelated(d, r, x)
      /\ \A d, o : RelationOf(d, o)' = RelationOf(d, o) /\ MappingOf(d, o)' = MappingOf(d, o)
  BY <1>1, QueryStays
<1>3. \A m : Before(m)' = Before(m) /\ After(m)' = After(m)
  BY <1>1, <1>2 DEF Before, After
<1>4. \A m : Offered(m)' = Offered(m) /\ Threads(m)' = Threads(m) /\ Objects(m)' = Objects(m)
  BY <1>1, <1>2, <1>3 DEF Offered, Threads, Objects
<1>5. \A m : (HasAsked(m)' <=> HasAsked(m)) /\ (IsTaken(m)' <=> IsTaken(m))
  BY <1>1 DEF HasAsked, IsTaken
<1>6. Shapes' /\ DoneIsWhole'
  BY <1>1, <1>2, <1>3, <1>4, <1>5 DEF JoinInv, Shapes, DoneIsWhole
<1>7. FiltersAreFound' /\ WheresAreFound'
  <2>1. FiltersAreFound'
    BY <1>1, <1>2 DEF JoinInv, FiltersAreFound, Value
  <2>2. WheresAreFound'
    BY <1>1, <1>2 DEF JoinInv, WheresAreFound, Value
  <2> QED
    BY <2>1, <2>2
<1>8. OfferedAreFound'
  BY <1>1, <1>2, <1>4, <1>5 DEF JoinInv, OfferedAreFound
<1>9. ObjectsWait' /\ RootIsHanded'
  BY <1>1, <1>2, <1>3 DEF JoinInv, ObjectsWait, RootIsHanded
<1>10. LinksRelate'
  <2>1. \A d \in JoinSet : IsTaken(Parent(d))' <=> IsTaken(Parent(d))
    BY <1>2, <1>5
  <2> QED
    BY <1>1, <1>2, <2>1 DEF JoinInv, LinksRelate
<1> QED
  BY <1>6, <1>7, <1>8, <1>9, <1>10 DEF JoinInv

\* Only what creates and what removes changes the rows of the database.
LEMMA ReadsWriteNothing ==
  ASSUME Unwritten, [Next]_vars
  PROVE  Unwritten'
<1> SUFFICES ASSUME query'.type = "get" PROVE database' = was'
  BY DEF Unwritten
<1>1. UNCHANGED <<query, was>>
  BY DEF Next, Call, Return, Continue, Query, Take, Done, vars
<1>2. query.type = "get" /\ database = was
  BY <1>1 DEF Unwritten
<1>3. ASSUME NEW n \in Nodes, NEW m \in Nodes, Query(n, m) PROVE UNCHANGED database
  BY <1>2, <1>3 DEF Query, Get, GetNothing, Create, Update, RemoveRows, DatabaseFails, IsWritten, IsRemoved
<1>4. UNCHANGED database
  BY <1>3 DEF Next, Call, Return, Continue, Take, Done, vars
<1> QED
  BY <1>1, <1>2, <1>4

ReadsInv == WritesInv /\ Unwritten /\ (CanStillBeJoined => JoinInv)

LEMMA NextKeepsReadsInv == ReadsInv /\ [Next]_vars => ReadsInv'
<1> SUFFICES ASSUME ReadsInv, [Next]_vars PROVE ReadsInv'
  OBVIOUS
<1>1. Types /\ Order /\ (WheresAreKept => Restrictions) /\ (CanStillBeJoined => JoinInv)
  BY DEF ReadsInv, WritesInv
<1>2. WritesInv' /\ Unwritten'
  BY NextKeepsWritesInv, ReadsWriteNothing DEF ReadsInv
<1> SUFFICES ASSUME CanStillBeJoined' PROVE JoinInv'
  BY <1>2 DEF ReadsInv
<1>3. Goes => CanStillBeJoined /\ JoinInv /\ Restrictions /\ database = was
  <2> SUFFICES ASSUME Goes PROVE CanStillBeJoined /\ JoinInv /\ Restrictions /\ database = was
    OBVIOUS
  <2>1. CanStillBeJoined
    BY <1>1, StartedGoOn
  <2> QED
    BY <1>1, <2>1 DEF CanStillBeJoined, ReadsInv, Unwritten
<1>4. CASE \E n \in Nodes : Call(n)
  BY <1>1, <1>3, <1>4, CallGoes, CallKeepsJoins
<1>5. CASE \E n \in Nodes : Return(n)
  <2>1. PICK n \in Nodes : Return(n)
    BY <1>5
  <2>2. CallsNobody
    BY <1>1, <2>1 DEF Return, CallsNobody, Types
  <2>3. CanStillBeJoined /\ JoinInv
    BY <1>1, <1>3, <2>2, CallingNobodyGoes
  <2> QED
    BY <1>1, <2>1, <2>3, ReturnSettles, SettledKeepJoins
<1>6. CASE \E n, m \in Nodes : Continue(n, m)
  <2>1. PICK n, m \in Nodes : Continue(n, m)
    BY <1>6
  <2>2. CanStillBeJoined /\ JoinInv /\ Restrictions
    BY <1>1, <1>3, <2>1, ContinueCallsNobody, CallingNobodyGoes
  <2> QED
    BY <1>1, <2>1, <2>2, ContinueKeepsJoins
<1>7. CASE \E n, m \in Nodes : Query(n, m)
  <2>1. PICK n, m \in Nodes : Query(n, m)
    BY <1>7
  <2>2. CallsNobody
    BY <1>1, <2>1, QueryKeepsOrder
  <2>3. CanStillBeJoined /\ JoinInv /\ Restrictions /\ database = was
    BY <1>1, <1>3, <2>2, CallingNobodyGoes
  <2> QED
    BY <1>1, <2>1, <2>3, QueryKeepsJoins
<1>8. CASE \E f \in fetched : Take(f)
  <2>1. PICK f \in fetched : Take(f)
    BY <1>8
  <2>2. CanStillBeJoined /\ JoinInv
    BY <1>1, <1>3, <2>1, TakeGoes
  <2>3. CASE TakeLast(f)
    <3>1. f.of \in Nodes
      BY <1>1 DEF Order, ThreadsAreOnce, Types
    <3> QED
      BY <1>1, <2>1, <2>2, <2>3, <3>1, TakeLastSettles, SettledKeepJoins
  <2>4. CASE TakeFor(f)
    BY <1>1, <2>1, <2>2, <2>4, TakeForKeepsJoins
  <2> QED
    BY <2>1, <2>3, <2>4 DEF Take
<1>9. CASE UNCHANGED vars
  <2>1. CallsNobody
    BY <1>1, <1>9 DEF vars, CallsNobody, Types
  <2>2. JoinInv
    BY <1>1, <1>3, <2>1, CallingNobodyGoes
  <2> QED
    BY <1>9, <2>2, StutteringKeepsJoins
<1> QED
  BY <1>4, <1>5, <1>6, <1>7, <1>8, <1>9 DEF Next, Done

\* What a read that can still be put together found so far is what it should, in
\* the invariant that makes it so: a query set finds the rows with whole related
\* ones in the joins read before it, restricts its parent to them, and leaves
\* there, or is handed, the objects that its own are to be linked with.
THEOREM ReadsKeepTheirJoins == Spec => []ReadsInv
<1>1. Init => ReadsInv
  BY InitImpliesWritesInv, InitImpliesJoinInv DEF ReadsInv
<1> QED
  BY <1>1, NextKeepsReadsInv, PTL DEF Spec

\* Every query set that was read holds its links once all is done.
LEMMA LinkedAreWhole ==
  ASSUME Types, Order, CanStillBeJoined, JoinInv, stage[Root] = "done",
         NEW n \in Nodes, NEW o \in cached[n], NEW c \in JoinsOf(n)
  PROVE  LinkedTo(o, c) = RelatedIn(Whole[c], o.row, c)
<1>1. c \in JoinSet /\ c \in Nodes /\ c # Root /\ Parent(c) = n /\ o.of = n
  BY JoinableIs, FoundWere
<1>2. stage[n] = "done" /\ stage[c] = "done" /\ IsTaken(n) /\ IsTaken(c)
  BY <1>1, AllAreDone DEF JoinInv, DoneIsWhole
<1>3. Offered(c) = Whole[c]
  BY <1>1, <1>2, JoinableIs, OfferedIsWhole DEF Started
<1>4. ASSUME NEW x \in LinkedTo(o, c) PROVE x \in RelatedIn(Whole[c], o.row, c)
  <2>1. PICK l \in links : l.from = o /\ l.join = c /\ x = l.to.row
    BY DEF LinkedTo
  <2>2. l.to \in cached[c] /\ AreRelated(c, o.row, x)
    BY <1>1, <2>1 DEF JoinInv, LinksRelate
  <2>3. x \in Offered(c)
    BY <1>1, <2>1, <2>2 DEF JoinInv, OfferedAreFound
  <2> QED
    BY <1>3, <2>2, <2>3 DEF RelatedIn
<1>5. ASSUME NEW x \in RelatedIn(Whole[c], o.row, c) PROVE x \in LinkedTo(o, c)
  <2>1. x \in Offered(c) /\ AreRelated(c, o.row, x)
    BY <1>3 DEF RelatedIn
  <2>2. x \in Objects(c)
    <3>1. HasAsked(c) /\ stage[c] # "threw"
      BY <1>2 DEF IsTaken
    <3> QED
      BY <1>1, <2>1, <3>1 DEF JoinInv, OfferedAreFound
  <2>3. PICK p \in cached[c] : p.row = x
    BY <2>2 DEF Objects
  <2>4. [from |-> o, join |-> c, to |-> p] \in links
    BY <1>1, <1>2, <2>1, <2>3 DEF JoinInv, LinksRelate
  <2>5. [from |-> o, join |-> c, to |-> p] \in {k \in links : k.from = o /\ k.join = c}
    BY <2>4
  <2>6. [from |-> o, join |-> c, to |-> p].to.row = x
    BY <2>3
  <2> QED
    BY <2>5, <2>6 DEF LinkedTo
<1> QED
  BY <1>4, <1>5

\* For any tree of joins, any wheres and any database: a read that returned found
\* the rows with a related one in every join and none without one in every join
\* that searches, and each object holds, of each of its joins, exactly the related
\* rows that have a related one in every join of theirs
\* (databases/src/queries/queryset.ts 588-1085).
THEOREM ObjectsHoldTheirRelated == Spec => []JoinsRelate
<1>1. ASSUME ReadsInv PROVE JoinsRelate
  <2> SUFFICES ASSUME outcome = "returned", CanBeJoined
               PROVE  /\ Whole[Root] \subseteq Objects(Root) /\ Objects(Root) \subseteq AskedRows[Root]
                      /\ \A n \in Nodes : \A o \in cached[n] : \A c \in JoinsOf(n) :
                           LinkedTo(o, c) = RelatedIn(Whole[c], o.row, c)
    BY DEF JoinsRelate, Whole, AskedRows
  <2>1. Types /\ Order /\ query \in Queries /\ Root \in Nodes /\ Root \notin JoinSet
    BY <1>1, QuerySetsAssumptions DEF ReadsInv, WritesInv, Types, Nodes
  <2>2. CanStillBeJoined
    BY DEF CanBeJoined, CanStillBeJoined, Fits, WheresAreKept
  <2>3. JoinInv
    BY <1>1, <2>2 DEF ReadsInv
  <2>4. stage[Root] = "done" /\ IsTaken(Root)
    BY <2>1, <2>3 DEF JoinInv, DoneIsWhole
  <2>5. Objects(Root) = Offered(Root)
    <3>1. \A o \in cached[Root] : o.row \in Offered(Root)
      BY <2>1, <2>3 DEF JoinInv, OfferedAreFound
    <3>2. \A x \in Offered(Root) : x \in Objects(Root)
      BY <2>1, <2>3, <2>4 DEF JoinInv, OfferedAreFound, IsTaken
    <3> QED
      BY <3>1, <3>2 DEF Objects
  <2>6. Whole[Root] \subseteq Offered(Root)
    <3>1. Whole[Root] = {r \in RowsOf(Root) : /\ IsAccepted(Root, r)
                                              /\ \A c \in JoinsOf(Root) \cap JoinSet : \E x \in Whole[c] : AreRelated(c, r, x)}
      BY <2>1, AskedIs DEF Whole
    <3>2. Before(Root) \subseteq JoinsOf(Root) \cap JoinSet
      BY DEF Before, JoinsOf, JoinedTo
    <3> QED
      BY <3>1, <3>2 DEF Offered
  <2>7. Offered(Root) \subseteq AskedRows[Root]
    <3>1. AskedRows[Root] = {r \in RowsOf(Root) : /\ IsAccepted(Root, r)
                                                  /\ \A c \in JoinsOf(Root) \cap Searchers : \E x \in AskedRows[c] : AreRelated(c, r, x)}
      BY <2>1, AskedIs DEF AskedRows
    <3>2. JoinsOf(Root) \cap Searchers \subseteq Before(Root)
      BY <2>1, <2>4 DEF Order, JoinsWaitForParents, Before
    <3>3. ASSUME NEW c \in JoinsOf(Root) \cap Searchers PROVE Whole[c] \subseteq AskedRows[c]
      <4>1. c \in Nodes
        BY <2>1, <2>2, JoinableIs
      <4> QED
        BY <2>1, <4>1, MoreJoinsAskMore DEF AskedRows, Whole
    <3> QED
      BY <3>1, <3>2, <3>3 DEF Offered
  <2>8. \A n \in Nodes : \A o \in cached[n] : \A c \in JoinsOf(n) : LinkedTo(o, c) = RelatedIn(Whole[c], o.row, c)
    BY <2>1, <2>2, <2>3, <2>4, LinkedAreWhole
  <2> QED
    BY <2>5, <2>6, <2>7, <2>8
<1> QED
  BY <1>1, ReadsKeepTheirJoins, PTL
=============================================================================
