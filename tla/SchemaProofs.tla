---------------------------- MODULE SchemaProofs ----------------------------
(***************************************************************************)
(* Overlapping calls of parse, for every tree of schemas and any number of *)
(* calls: no call validates by a schema whose fallbacks are not complete,  *)
(* and schemas without unions accept exactly what is valid and answer it   *)
(* by toInternal.                                                          *)
(***************************************************************************)
EXTENDS SchemaParse, FiniteSetTheorems, WellFoundedInduction, TLAPS

Kinds == {"no", "entries", "adapter", "made"}
Validating == {"parsing", "within", "judged", "over"}
Stages == {"idle", "building", "making"} \cup Validating

Types ==
  /\ tree \in Trees
  /\ making \in [Calls -> [Nodes -> Kinds]]
  /\ stage \in [Calls -> [Nodes -> Stages]]
  /\ DOMAIN fallbacks = Nodes
  /\ keys \in [Nodes -> SUBSET Nodes]
  /\ branch \in [Calls -> [Nodes -> Nat]]

Below(n) == ToSet(Entries(n))

\* What a call found in a schema it translates is what the schema has for good.
EntriesAreKnown ==
  \A n \in Nodes :
    n \in transformed \/ (\E c \in Calls : making[c][n] # "no") => n \in built \cup empty

\* What is below comes along, unless it is translated already.
EntriesComeAlong ==
  \A c \in Calls, n \in Nodes : making[c][n] = "entries" =>
    \A m \in Below(n) : making[c][m] # "no" \/ m \in transformed

MadeAreTransformed ==
  \A c \in Calls, n \in Nodes : making[c][n] = "made" => n \in transformed

\* A union is given its fallback at the start, an object after its entries.
UnionsHaveTheirs ==
  \A c \in Calls, n \in Nodes :
    making[c][n] # "no" /\ IsUnion(n) /\ ~AdapterHasUnion => "union" \in fallbacks[n]

ObjectsHaveTheirs ==
  \A c \in Calls, n \in Nodes : making[c][n] = "adapter" =>
    /\ Below(n) \subseteq transformed
    /\ IsObject(n) /\ (\E m \in Below(n) : NeedsFallback(m)) => "object" \in fallbacks[n]

\* A translated schema has all it will ever have, and so has what is below.
TransformedAreWhole ==
  \A n \in transformed :
    /\ n \in Nodes /\ Below(n) \subseteq transformed
    /\ RequiredFallbacks(n) \subseteq fallbacks[n]
    /\ tree[n].parser = "palmares" => n \in parsers

ValidatingAreTransformed ==
  \A c \in Calls, n \in Nodes : stage[c][n] \in Validating => n \in transformed

TranslationInv ==
  /\ EntriesAreKnown /\ EntriesComeAlong /\ MadeAreTransformed
  /\ UnionsHaveTheirs /\ ObjectsHaveTheirs /\ TransformedAreWhole

FallbacksInv == Types /\ TranslationInv /\ ValidatingAreTransformed

-----------------------------------------------------------------------------
\* What is below a schema are schemas.
LEMMA EntriesAreNodes ==
  ASSUME Types, NEW n \in Nodes
  PROVE  /\ Below(n) \subseteq Nodes
         /\ ToSet(tree[n].children) \subseteq Nodes
         /\ IsLeaf(n) => Below(n) = {}
<1>1. tree[n].children \in Seq(Nodes) /\ (IsLeaf(n) => tree[n].children = << >>)
  BY SchemaAssumptions DEF Types, Nodes, IsLeaf
<1>2. Entries(n) \in Seq(Nodes) /\ (IsLeaf(n) => Entries(n) = << >>)
  BY <1>1 DEF Entries
<1>3. ASSUME NEW s \in Seq(Nodes) PROVE ToSet(s) \subseteq Nodes
  BY DEF ToSet
<1>4. ToSet(<< >>) = {}
  BY DEF ToSet
<1> QED
  BY <1>1, <1>2, <1>3, <1>4 DEF Below

\* A schema is reached with all below it that is not translated, and nothing
\* that is.
LEMMA ReachedIsClosed ==
  ASSUME Types, NEW n \in Nodes \ transformed
  PROVE  /\ n \in Reached(n) /\ Reached(n) \subseteq Nodes \ transformed
         /\ \A m \in Reached(n) : Below(m) \ transformed \subseteq Reached(n)
<1> DEFINE IsClosed(S) == n \in S /\ \A m \in S : ToSet(Entries(m)) \ transformed \subseteq S
<1>1. Reached(n) = {m \in Nodes : \A S \in SUBSET Nodes : IsClosed(S) => m \in S}
  BY DEF Reached
<1>2. IsClosed(Nodes \ transformed)
  BY EntriesAreNodes DEF Below
<1>3. n \in Reached(n) /\ Reached(n) \subseteq Nodes \ transformed
  BY <1>1, <1>2
<1>4. ASSUME NEW m \in Reached(n), NEW k \in Below(m) \ transformed
      PROVE  k \in Reached(n)
  <2>1. k \in Nodes
    BY <1>1, <1>4, EntriesAreNodes
  <2>2. ASSUME NEW S \in SUBSET Nodes, IsClosed(S) PROVE k \in S
    BY <1>1, <1>4, <2>2 DEF Below
  <2> QED
    BY <1>1, <2>1, <2>2
<1> QED
  BY <1>3, <1>4

-----------------------------------------------------------------------------
\* What a step may do to schemas that are translated: nothing.
StaysWhole ==
  /\ UNCHANGED tree /\ transformed \subseteq transformed'
  /\ \A n \in transformed : /\ fallbacks'[n] = fallbacks[n]
                            /\ n \in parsers' <=> n \in parsers
                            /\ Entries(n)' = Entries(n)

\* Then what a translated schema asks of those below it, and what it needs
\* itself, are what they were.
LEMMA NeedsStay ==
  ASSUME Types, TransformedAreWhole, StaysWhole
  PROVE  \A n \in transformed :
           /\ n \in Nodes' /\ Below(n)' \subseteq transformed'
           /\ (\E m \in Below(n) : NeedsFallback(m))' <=> \E m \in Below(n) : NeedsFallback(m)
           /\ RequiredFallbacks(n)' \subseteq fallbacks'[n]
           /\ tree'[n].parser = "palmares" => n \in parsers'
<1> TAKE n \in transformed
<1>1. n \in Nodes' /\ Below(n)' = Below(n) /\ Below(n) \subseteq transformed
  BY DEF StaysWhole, TransformedAreWhole, Nodes, Below
<1>2. \A m \in transformed : NeedsFallback(m)' <=> NeedsFallback(m)
  BY DEF StaysWhole, NeedsFallback
<1>3. (\E m \in Below(n) : NeedsFallback(m))' <=> \E m \in Below(n) : NeedsFallback(m)
  BY <1>1, <1>2
<1>4. RequiredFallbacks(n)' = RequiredFallbacks(n)
  <2>1. Appended(n)' = Appended(n) /\ IsLeaf(n)' = IsLeaf(n) /\ IsUnion(n)' = IsUnion(n)
    BY DEF Appended, IsLeaf, IsUnion, StaysWhole
  <2> QED
    BY <1>3, <2>1 DEF RequiredFallbacks, Below
<1> QED
  BY <1>1, <1>3, <1>4 DEF StaysWhole, TransformedAreWhole

-----------------------------------------------------------------------------
\* The start of a translation.
LEMMA StartKeepsInv ==
  ASSUME Types, TranslationInv, NEW c \in Calls, NEW N \in SUBSET (Nodes \ transformed),
         StartMaking(c, N), UNCHANGED <<tree, built, transformed, parsers>>
  PROVE  /\ making' \in [Calls -> [Nodes -> Kinds]] /\ DOMAIN fallbacks' = Nodes
         /\ TranslationInv' /\ StaysWhole
<1> DEFINE reached == UNION {Reached(n) : n \in N}
<1>1. /\ reached \subseteq Nodes \ transformed
      /\ \A m \in reached : Below(m) \ transformed \subseteq reached
  BY ReachedIsClosed
<1> HIDE DEF reached
<1>2. /\ making' = [making EXCEPT ![c] = [n \in Nodes |->
           IF n \notin reached THEN @[n] ELSE IF IsLeaf(n) THEN "adapter" ELSE "entries"]]
      /\ fallbacks' = [n \in Nodes |->
           IF n \in reached /\ IsUnion(n) /\ ~AdapterHasUnion THEN fallbacks[n] \cup {"union"}
           ELSE fallbacks[n]]
      /\ empty' = empty \cup {n \in reached : n \notin built}
  BY Zenon DEF StartMaking, reached
<1>3. /\ making' \in [Calls -> [Nodes -> Kinds]]
      /\ \A d \in Calls, n \in Nodes : making'[d][n] =
           IF d # c \/ n \notin reached THEN making[d][n] ELSE IF IsLeaf(n) THEN "adapter" ELSE "entries"
  BY <1>2 DEF Types, Kinds
<1>4. Nodes' = Nodes /\ DOMAIN fallbacks' = Nodes
  BY <1>2 DEF Nodes
<1>5. \A n \in Nodes : n \in built \cup empty => Entries(n)' = Entries(n)
  BY <1>2 DEF Entries
<1>6. \A n \in reached : n \in built' \cup empty' /\ (Below(n)' = {} \/ Below(n)' = Below(n))
  BY <1>2 DEF Entries, Below, ToSet
<1>7. StaysWhole
  BY <1>1, <1>2, <1>5 DEF StaysWhole, TranslationInv, TransformedAreWhole, EntriesAreKnown, Types
<1>8. EntriesAreKnown'
  BY <1>2, <1>3, <1>4, <1>6 DEF TranslationInv, EntriesAreKnown
<1>9. EntriesComeAlong'
  <2> SUFFICES ASSUME NEW d \in Calls, NEW n \in Nodes, making'[d][n] = "entries", NEW m \in Below(n)'
               PROVE  making'[d][m] # "no" \/ m \in transformed
    BY <1>4 DEF EntriesComeAlong
  <2>1. CASE d = c /\ n \in reached
    BY <1>1, <1>3, <1>6, <2>1
  <2>2. CASE d # c \/ n \notin reached
    <3>1. making[d][n] = "entries"
      BY <1>3, <2>2
    <3>2. m \in Below(n)
      BY <1>5, <3>1 DEF TranslationInv, EntriesAreKnown, Below
    <3>3. m \in Nodes /\ (making[d][m] # "no" \/ m \in transformed)
      BY <3>1, <3>2, EntriesAreNodes DEF TranslationInv, EntriesComeAlong
    <3> QED
      BY <1>3, <3>3
  <2> QED
    BY <2>1, <2>2
<1>10. MadeAreTransformed'
  BY <1>3, <1>4 DEF TranslationInv, MadeAreTransformed
<1>11. UnionsHaveTheirs'
  BY <1>2, <1>3, <1>4 DEF TranslationInv, UnionsHaveTheirs, IsUnion
<1>12. ObjectsHaveTheirs'
  <2> SUFFICES ASSUME NEW d \in Calls, NEW n \in Nodes, making'[d][n] = "adapter"
               PROVE  /\ Below(n)' \subseteq transformed
                      /\ IsObject(n)' /\ (\E m \in Below(n) : NeedsFallback(m))' => "object" \in fallbacks'[n]
    BY <1>4 DEF ObjectsHaveTheirs
  <2>1. CASE d = c /\ n \in reached
    BY <1>3, <1>6, <2>1, EntriesAreNodes DEF IsLeaf, IsObject
  <2>2. CASE d # c \/ n \notin reached
    <3>1. making[d][n] = "adapter"
      BY <1>3, <2>2
    <3>2. Below(n)' = Below(n) /\ Below(n) \subseteq transformed
      BY <1>5, <3>1 DEF TranslationInv, EntriesAreKnown, ObjectsHaveTheirs, Below
    <3>3. \A m \in Below(n) : NeedsFallback(m)' <=> NeedsFallback(m)
      BY <1>7, <3>2 DEF StaysWhole, NeedsFallback
    <3> QED
      BY <1>2, <3>1, <3>2, <3>3 DEF TranslationInv, ObjectsHaveTheirs, IsObject
  <2> QED
    BY <2>1, <2>2
<1>13. TransformedAreWhole'
  BY <1>7, NeedsStay DEF TransformedAreWhole, TranslationInv
<1> QED
  BY <1>3, <1>4, <1>7, <1>8, <1>9, <1>10, <1>11, <1>12, <1>13 DEF TranslationInv

\* The entries of a schema are translated: it turns to the adapter.
LEMMA ComposeKeepsInv ==
  ASSUME Types, TranslationInv, NEW c \in Calls, NEW n \in Nodes, Compose(c, n)
  PROVE  /\ making' \in [Calls -> [Nodes -> Kinds]] /\ DOMAIN fallbacks' = Nodes
         /\ keys' \in [Nodes -> SUBSET Nodes]
         /\ TranslationInv' /\ StaysWhole
<1> DEFINE needing == {m \in Below(n) : NeedsFallback(m)}
           composes == IsObject(n) /\ needing # {}
<1>1. /\ UNCHANGED <<tree, built, empty, transformed, parsers>>
      /\ making[c][n] = "entries" /\ making' = [making EXCEPT ![c][n] = "adapter"]
      /\ \A m \in Below(n) : making[c][m] \notin {"entries", "adapter"}
      /\ IF composes THEN /\ fallbacks' = [fallbacks EXCEPT ![n] = @ \cup {"object"}]
                          /\ keys' = [keys EXCEPT ![n] = needing]
         ELSE UNCHANGED <<fallbacks, keys>>
  BY DEF Compose, EntriesAreMade, Below
<1>2. Below(n) \subseteq Nodes
  BY EntriesAreNodes
<1>3. /\ making' \in [Calls -> [Nodes -> Kinds]] /\ DOMAIN fallbacks' = Nodes
      /\ \A d \in Calls, m \in Nodes : making'[d][m] =
           IF d = c /\ m = n THEN "adapter" ELSE making[d][m]
      /\ \A m \in Nodes : fallbacks'[m] = IF m = n /\ composes THEN fallbacks[m] \cup {"object"}
                                          ELSE fallbacks[m]
  BY <1>1 DEF Types, Kinds
<1>4. keys' \in [Nodes -> SUBSET Nodes]
  <2>1. keys \in [Nodes -> SUBSET Nodes] /\ needing \in SUBSET Nodes
    BY <1>2 DEF Types
  <2> HIDE DEF needing, composes
  <2> QED
    BY <1>1, <2>1
<1>5. Nodes' = Nodes /\ \A m : Entries(m)' = Entries(m) /\ Below(m)' = Below(m) /\ IsObject(m)' = IsObject(m) /\ IsUnion(m)' = IsUnion(m)
  BY <1>1 DEF Nodes, Entries, Below, IsObject, IsUnion
<1>6. Below(n) \subseteq transformed
  BY <1>1, <1>2 DEF TranslationInv, EntriesComeAlong, MadeAreTransformed, Types, Kinds
<1>7. StaysWhole
  <2> SUFFICES ASSUME NEW m \in transformed PROVE fallbacks'[m] = fallbacks[m]
    BY <1>1, <1>5 DEF StaysWhole
  <2>1. m \in Nodes /\ RequiredFallbacks(m) \subseteq fallbacks[m]
    BY DEF TranslationInv, TransformedAreWhole
  <2>2. m = n /\ composes => "object" \in RequiredFallbacks(m)
    BY DEF RequiredFallbacks, Below, IsObject, IsLeaf, IsUnion
  <2> QED
    BY <1>3, <2>1, <2>2
<1>8. EntriesAreKnown' /\ EntriesComeAlong'
  BY <1>1, <1>3, <1>5, EntriesAreNodes DEF TranslationInv, EntriesAreKnown, EntriesComeAlong
<1>9. MadeAreTransformed' /\ UnionsHaveTheirs'
  BY <1>1, <1>3, <1>5 DEF TranslationInv, MadeAreTransformed, UnionsHaveTheirs
<1>10. ObjectsHaveTheirs'
  <2> SUFFICES ASSUME NEW d \in Calls, NEW m \in Nodes, making'[d][m] = "adapter"
               PROVE  /\ Below(m) \subseteq transformed
                      /\ IsObject(m) /\ (\E k \in Below(m) : NeedsFallback(k)') => "object" \in fallbacks'[m]
    BY <1>1, <1>5 DEF ObjectsHaveTheirs
  <2>1. Below(m) \subseteq transformed
    BY <1>3, <1>6 DEF TranslationInv, ObjectsHaveTheirs
  <2>2. \A k \in Below(m) : NeedsFallback(k)' <=> NeedsFallback(k)
    BY <1>7, <2>1 DEF StaysWhole, NeedsFallback
  <2>3. CASE d = c /\ m = n
    BY <1>3, <2>1, <2>2, <2>3
  <2>4. CASE ~(d = c /\ m = n)
    BY <1>3, <2>1, <2>2, <2>4 DEF TranslationInv, ObjectsHaveTheirs
  <2> QED
    BY <2>3, <2>4
<1>11. TransformedAreWhole'
  BY <1>1, <1>7, NeedsStay DEF TransformedAreWhole, TranslationInv
<1> QED
  BY <1>3, <1>4, <1>7, <1>8, <1>9, <1>10, <1>11 DEF TranslationInv

\* The adapter has translated a schema.
LEMMA TranslatedKeepsInv ==
  ASSUME Types, TranslationInv, NEW c \in Calls, NEW n \in Nodes, Translated(c, n)
  PROVE  /\ making' \in [Calls -> [Nodes -> Kinds]] /\ DOMAIN fallbacks' = Nodes
         /\ TranslationInv' /\ StaysWhole
<1>1. /\ UNCHANGED <<tree, built, empty, keys>>
      /\ making[c][n] = "adapter" /\ making' = [making EXCEPT ![c][n] = "made"]
      /\ fallbacks' = [fallbacks EXCEPT ![n] = @ \cup Appended(n)]
      /\ parsers' = IF tree[n].parser = "palmares" THEN parsers \cup {n} ELSE parsers
      /\ transformed' = transformed \cup {n}
  BY DEF Translated
<1>2. /\ making' \in [Calls -> [Nodes -> Kinds]] /\ DOMAIN fallbacks' = Nodes
      /\ \A d \in Calls, m \in Nodes : making'[d][m] =
           IF d = c /\ m = n THEN "made" ELSE making[d][m]
      /\ \A m \in Nodes : fallbacks'[m] = IF m = n THEN fallbacks[m] \cup Appended(m) ELSE fallbacks[m]
  BY <1>1 DEF Types, Kinds
<1>3. Nodes' = Nodes /\ \A m : Entries(m)' = Entries(m) /\ Below(m)' = Below(m)
                              /\ IsObject(m)' = IsObject(m) /\ IsUnion(m)' = IsUnion(m)
                              /\ IsLeaf(m)' = IsLeaf(m) /\ Appended(m)' = Appended(m)
  BY <1>1 DEF Nodes, Entries, Below, IsObject, IsUnion, IsLeaf, Appended
<1>4. Below(n) \subseteq transformed
  BY <1>1 DEF TranslationInv, ObjectsHaveTheirs
<1>5. StaysWhole
  <2> SUFFICES ASSUME NEW m \in transformed
               PROVE  fallbacks'[m] = fallbacks[m] /\ (m \in parsers' <=> m \in parsers)
    BY <1>1, <1>3 DEF StaysWhole
  <2>1. m \in Nodes /\ RequiredFallbacks(m) \subseteq fallbacks[m] /\ (tree[m].parser = "palmares" => m \in parsers)
    BY DEF TranslationInv, TransformedAreWhole
  <2>2. Appended(m) \subseteq RequiredFallbacks(m)
    BY DEF RequiredFallbacks, Appended
  <2> QED
    BY <1>1, <1>2, <2>1, <2>2
<1>6. EntriesAreKnown' /\ EntriesComeAlong'
  <2>1. n \in built \cup empty
    BY <1>1 DEF TranslationInv, EntriesAreKnown
  <2> QED
    BY <1>1, <1>2, <1>3, <2>1, EntriesAreNodes DEF TranslationInv, EntriesAreKnown, EntriesComeAlong
<1>7. MadeAreTransformed' /\ UnionsHaveTheirs'
  BY <1>1, <1>2, <1>3 DEF TranslationInv, MadeAreTransformed, UnionsHaveTheirs
<1>8. ObjectsHaveTheirs'
  <2> SUFFICES ASSUME NEW d \in Calls, NEW m \in Nodes, making'[d][m] = "adapter"
               PROVE  /\ Below(m) \subseteq transformed'
                      /\ IsObject(m) /\ (\E k \in Below(m) : NeedsFallback(k)') => "object" \in fallbacks'[m]
    BY <1>3 DEF ObjectsHaveTheirs
  <2>1. making[d][m] = "adapter"
    BY <1>2
  <2>2. Below(m) \subseteq transformed
    BY <2>1 DEF TranslationInv, ObjectsHaveTheirs
  <2>3. \A k \in Below(m) : NeedsFallback(k)' <=> NeedsFallback(k)
    BY <1>5, <2>2 DEF StaysWhole, NeedsFallback
  <2> QED
    BY <1>1, <1>2, <2>1, <2>2, <2>3 DEF TranslationInv, ObjectsHaveTheirs
<1>9. TransformedAreWhole'
  <2>1. ASSUME NEW m \in transformed
        PROVE  /\ m \in Nodes' /\ Below(m)' \subseteq transformed'
               /\ RequiredFallbacks(m)' \subseteq fallbacks'[m]
               /\ tree'[m].parser = "palmares" => m \in parsers'
    BY <1>5, NeedsStay DEF TranslationInv
  <2>2. /\ n \in Nodes' /\ Below(n)' \subseteq transformed'
        /\ tree'[n].parser = "palmares" => n \in parsers'
    BY <1>1, <1>3, <1>4
  <2>3. \A k \in Below(n) : NeedsFallback(k)' <=> NeedsFallback(k)
    BY <1>4, <1>5 DEF StaysWhole, NeedsFallback
  <2>4. RequiredFallbacks(n)' = RequiredFallbacks(n)
    BY <1>3, <2>3 DEF RequiredFallbacks, Below
  <2>5. fallbacks'[n] = fallbacks[n] \cup Appended(n)
    BY <1>2
  <2>6. IsUnion(n) /\ ~AdapterHasUnion => "union" \in fallbacks[n]
    BY <1>1 DEF TranslationInv, UnionsHaveTheirs
  <2>7. IsObject(n) /\ (\E m \in Below(n) : NeedsFallback(m)) => "object" \in fallbacks[n]
    BY <1>1 DEF TranslationInv, ObjectsHaveTheirs
  <2>8. IsLeaf(n) \/ IsUnion(n) \/ IsObject(n)
    BY SchemaAssumptions DEF Types, Nodes, IsLeaf, IsUnion, IsObject
  <2>9. RequiredFallbacks(n) \subseteq fallbacks'[n]
    BY <2>5, <2>6, <2>7, <2>8 DEF RequiredFallbacks, Below
  <2> QED
    BY <1>1, <2>1, <2>2, <2>4, <2>9 DEF TransformedAreWhole
<1> QED
  BY <1>2, <1>5, <1>6, <1>7, <1>8, <1>9 DEF TranslationInv

\* The fields of a model schema are in place.
LEMMA BuildKeepsInv ==
  ASSUME Types, TranslationInv, NEW n \in Nodes, Build(n), UNCHANGED makingVars
  PROVE  TranslationInv' /\ StaysWhole
<1>1. /\ UNCHANGED <<tree, empty, transformed, fallbacks, parsers, making>>
      /\ built' = built \cup {n}
  BY DEF Build, makingVars
<1>2. Nodes' = Nodes /\ \A m : m \in built \cup empty => Entries(m)' = Entries(m) /\ Below(m)' = Below(m)
  BY <1>1 DEF Nodes, Entries, Below
<1>3. StaysWhole
  BY <1>1, <1>2 DEF StaysWhole, TranslationInv, EntriesAreKnown, TransformedAreWhole
<1>4. EntriesAreKnown' /\ EntriesComeAlong'
  BY <1>1, <1>2 DEF TranslationInv, EntriesAreKnown, EntriesComeAlong
<1>5. MadeAreTransformed' /\ UnionsHaveTheirs'
  BY <1>1, <1>2 DEF TranslationInv, MadeAreTransformed, UnionsHaveTheirs, IsUnion
<1>6. \A m : (NeedsFallback(m)' <=> NeedsFallback(m)) /\ (IsObject(m)' <=> IsObject(m))
  BY <1>1 DEF NeedsFallback, IsObject
<1>7. ObjectsHaveTheirs'
  BY <1>1, <1>2, <1>6 DEF TranslationInv, ObjectsHaveTheirs, EntriesAreKnown
<1>8. TransformedAreWhole'
  BY <1>1, <1>3, NeedsStay DEF TransformedAreWhole, TranslationInv
<1> QED
  BY <1>3, <1>4, <1>5, <1>7, <1>8 DEF TranslationInv

\* A call answers, and leaves the translation to others.
LEMMA LeavingKeepsInv ==
  ASSUME Types, TranslationInv, NEW c \in Calls, UNCHANGED schemaVars,
         making' = [making EXCEPT ![c] = [n \in Nodes |-> "no"]]
  PROVE  making' \in [Calls -> [Nodes -> Kinds]] /\ TranslationInv'
<1>1. UNCHANGED <<tree, built, empty, transformed, fallbacks, parsers>>
  BY DEF schemaVars
<1>2. /\ making' \in [Calls -> [Nodes -> Kinds]]
      /\ \A d \in Calls, n \in Nodes : making'[d][n] = IF d = c THEN "no" ELSE making[d][n]
  BY DEF Types, Kinds
<1>3. Nodes' = Nodes /\ \A m : /\ Entries(m)' = Entries(m) /\ Below(m)' = Below(m)
                              /\ IsObject(m)' = IsObject(m) /\ IsUnion(m)' = IsUnion(m)
                              /\ NeedsFallback(m)' = NeedsFallback(m)
                              /\ RequiredFallbacks(m)' = RequiredFallbacks(m)
  BY <1>1 DEF Nodes, Entries, Below, IsObject, IsUnion, IsLeaf, NeedsFallback, RequiredFallbacks, Appended
<1>4. EntriesAreKnown' /\ EntriesComeAlong'
  BY <1>1, <1>2, <1>3 DEF TranslationInv, EntriesAreKnown, EntriesComeAlong
<1>5. MadeAreTransformed' /\ UnionsHaveTheirs' /\ ObjectsHaveTheirs'
  BY <1>1, <1>2, <1>3 DEF TranslationInv, MadeAreTransformed, UnionsHaveTheirs, ObjectsHaveTheirs
<1>6. TransformedAreWhole'
  BY <1>1, <1>3 DEF TranslationInv, TransformedAreWhole
<1> QED
  BY <1>2, <1>4, <1>5, <1>6 DEF TranslationInv

-----------------------------------------------------------------------------
\* What the parts say of a state is what FallbacksInv needs of it.
LEMMA InvOfParts ==
  ASSUME FallbacksInv, UNCHANGED tree,
         making' \in [Calls -> [Nodes -> Kinds]], stage' \in [Calls -> [Nodes -> Stages]],
         DOMAIN fallbacks' = Nodes, keys' \in [Nodes -> SUBSET Nodes],
         branch' \in [Calls -> [Nodes -> Nat]],
         TranslationInv', transformed \subseteq transformed',
         \A c \in Calls, n \in Nodes : stage'[c][n] \in Validating =>
           stage[c][n] \in Validating \/ n \in transformed
  PROVE  FallbacksInv'
<1>1. Nodes' = Nodes
  BY DEF Nodes
<1>2. Types'
  BY <1>1 DEF FallbacksInv, Types
<1>3. ValidatingAreTransformed'
  BY <1>1 DEF FallbacksInv, ValidatingAreTransformed
<1> QED
  BY <1>2, <1>3 DEF FallbacksInv

\* Schemas are parsed, each after its translation if nobody has made it.
LEMMA EnterKeepsInv ==
  ASSUME FallbacksInv, NEW c \in Calls, NEW N \in SUBSET Nodes, NEW data,
         NEW stages \in [Nodes -> Stages],
         \A n \in Nodes : stages[n] \in Validating => n \in transformed,
         Enter(c, N, data, stages),
         UNCHANGED <<tree, built, transformed, parsers, keys>>,
         branch' \in [Calls -> [Nodes -> Nat]]
  PROVE  FallbacksInv'
<1> DEFINE waiting == {n \in N : n \notin built}
           starting == Untranslated(N \ waiting)
<1>1. /\ stage' = [stage EXCEPT ![c] = [n \in Nodes |->
           IF n \in waiting THEN "building"
           ELSE IF n \in starting THEN "making"
           ELSE IF n \in N THEN "parsing" ELSE stages[n]]]
      /\ IF starting # {} THEN StartMaking(c, starting) ELSE StartNothing
  BY DEF Enter
<1>2. starting = (N \ waiting) \ transformed
  BY DEF Untranslated
<1> HIDE DEF waiting, starting
<1>3. stage \in [Calls -> [Nodes -> Stages]] /\ Types /\ TranslationInv
  BY DEF FallbacksInv, Types
<1>4. stage' \in [Calls -> [Nodes -> Stages]]
  BY <1>1, <1>3 DEF Stages, Validating
<1>5. \A d \in Calls, n \in Nodes : stage'[d][n] \in Validating =>
        stage[d][n] \in Validating \/ n \in transformed
  <2> SUFFICES ASSUME NEW d \in Calls, NEW n \in Nodes, stage'[d][n] \in Validating, d = c
               PROVE  n \in transformed
    BY <1>1, <1>3
  <2>1. stage'[d][n] = IF n \in waiting THEN "building"
           ELSE IF n \in starting THEN "making"
           ELSE IF n \in N THEN "parsing" ELSE stages[n]
    BY <1>1, <1>3
  <2> QED
    BY <1>2, <2>1 DEF Validating
<1>6. /\ making' \in [Calls -> [Nodes -> Kinds]] /\ DOMAIN fallbacks' = Nodes
      /\ TranslationInv'
  <2>1. CASE starting # {}
    BY <1>1, <1>2, <1>3, <2>1, StartKeepsInv
  <2>2. CASE starting = {}
    <3>1. UNCHANGED <<making, fallbacks, empty, tree, built, transformed, parsers>>
      BY <1>1, <2>2 DEF StartNothing
    <3>2. TranslationInv'
      BY <1>3, <3>1 DEF TranslationInv, EntriesAreKnown, EntriesComeAlong, MadeAreTransformed,
         UnionsHaveTheirs, ObjectsHaveTheirs, TransformedAreWhole, Nodes, Below, Entries,
         IsUnion, IsObject, IsLeaf, NeedsFallback, RequiredFallbacks, Appended
    <3> QED
      BY <1>3, <3>1, <3>2 DEF Types
  <2> QED
    BY <2>1, <2>2
<1>7. keys' \in [Nodes -> SUBSET Nodes]
  BY <1>3 DEF Types
<1> QED
  BY <1>4, <1>5, <1>6, <1>7, InvOfParts

\* A schema is one step further in a call, which needs it to be translated.
LEMMA StageKeepsInv ==
  ASSUME FallbacksInv, NEW c \in Calls, NEW n \in Nodes, NEW s \in Stages, n \in transformed,
         stage' = [stage EXCEPT ![c][n] = s],
         UNCHANGED <<schemaVars, making, branch>>
  PROVE  FallbacksInv'
<1>1. UNCHANGED <<tree, built, empty, transformed, fallbacks, parsers, keys, making>>
  BY DEF schemaVars
<1>2. Types /\ TranslationInv
  BY DEF FallbacksInv
<1>3. TranslationInv'
  BY <1>1, <1>2 DEF TranslationInv, EntriesAreKnown, EntriesComeAlong, MadeAreTransformed,
     UnionsHaveTheirs, ObjectsHaveTheirs, TransformedAreWhole, Nodes, Below, Entries,
     IsUnion, IsObject, IsLeaf, NeedsFallback, RequiredFallbacks, Appended
<1>4. /\ stage' \in [Calls -> [Nodes -> Stages]]
      /\ \A d \in Calls, m \in Nodes : stage'[d][m] = IF d = c /\ m = n THEN s ELSE stage[d][m]
  BY <1>2 DEF Types
<1> QED
  BY <1>1, <1>2, <1>3, <1>4, InvOfParts DEF Types

\* Whoever is ready to be validated is translated.
LEMMA ReadyIsTransformed ==
  ASSUME FallbacksInv, NEW c \in Calls, NEW n \in Nodes, IsReady(c, n) \/ stage[c][n] \in Validating
  PROVE  n \in transformed
BY DEF FallbacksInv, ValidatingAreTransformed, Validating, IsReady, TranslationInv, MadeAreTransformed

-----------------------------------------------------------------------------
\* The steps of a call that translates.
LEMMA MakingKeepsInv ==
  ASSUME FallbacksInv, NEW c \in Calls, Making(c)
  PROVE  FallbacksInv'
<1> PICK n \in Nodes : (Compose(c, n) \/ Translated(c, n)) /\ UNCHANGED callVars
  BY DEF Making
<1>1. UNCHANGED <<stage, branch>>
  BY DEF callVars
<1>2. Types /\ TranslationInv
  BY DEF FallbacksInv
<1>3. CASE Compose(c, n)
  <2>1. UNCHANGED <<tree, transformed>>
    BY <1>3 DEF Compose
  <2> QED
    BY <1>1, <1>2, <1>3, <2>1, ComposeKeepsInv, InvOfParts DEF Types
<1>4. CASE Translated(c, n)
  <2>1. UNCHANGED <<tree, keys>> /\ transformed \subseteq transformed'
    BY <1>4 DEF Translated
  <2> QED
    BY <1>1, <1>2, <1>4, <2>1, TranslatedKeepsInv, InvOfParts DEF Types
<1> QED
  BY <1>3, <1>4

\* The steps of a call that begins, or goes on after a wait.
LEMMA EnteringKeepsInv ==
  ASSUME FallbacksInv, NEW c \in Calls, NEW n \in Nodes,
         Begins(c) \/ Resume(c, n) \/ OpenObject(c, n) \/ OpenUnion(c, n)
  PROVE  FallbacksInv'
<1>1. /\ stage[c] \in [Nodes -> Stages] /\ keys[n] \in SUBSET Nodes
      /\ branch \in [Calls -> [Nodes -> Nat]] /\ Root \in Nodes
      /\ tree[n].children \in Seq(Nodes)
      /\ IsUnion(n) => tree[n].children # << >>
  BY SchemaAssumptions DEF FallbacksInv, Types, Nodes, IsUnion
<1>2. \A m \in Nodes : stage[c][m] \in Validating => m \in transformed
  BY DEF FallbacksInv, ValidatingAreTransformed
<1>3. ASSUME IsReady(c, n)
      PROVE  LET stages == [stage[c] EXCEPT ![n] = "within"]
             IN stages \in [Nodes -> Stages] /\ \A m \in Nodes : stages[m] \in Validating => m \in transformed
  <2>1. n \in transformed
    BY <1>3, ReadyIsTransformed
  <2>2. "within" \in Stages
    BY DEF Stages, Validating
  <2> QED
    BY <1>1, <1>2, <2>1, <2>2
<1>4. CASE Begins(c)
  <2> PICK data \in [Places -> Forms] : Parse(c, data)
    BY <1>4 DEF Begins
  <2>1. Enter(c, {Root}, data, stage[c]) /\ UNCHANGED <<tree, built, transformed, parsers, keys, branch>>
    BY DEF Parse
  <2> QED
    BY <1>1, <1>2, <2>1, EnterKeepsInv
<1>5. CASE Resume(c, n)
  <2>1. Enter(c, {n}, value[c], stage[c]) /\ UNCHANGED <<tree, built, transformed, parsers, keys, branch>>
    BY <1>5 DEF Resume
  <2> QED
    BY <1>1, <1>2, <2>1, EnterKeepsInv
<1>6. CASE OpenObject(c, n)
  <2>1. /\ IsReady(c, n)
        /\ Enter(c, keys[n], value[c], [stage[c] EXCEPT ![n] = "within"])
        /\ UNCHANGED <<tree, built, transformed, parsers, keys, branch>>
    BY <1>6 DEF OpenObject
  <2> QED
    BY <1>1, <1>3, <2>1, EnterKeepsInv
<1>7. CASE OpenUnion(c, n)
  <2>1. /\ IsReady(c, n) /\ IsUnion(n)
        /\ Enter(c, {tree[n].children[1]}, [value[c] EXCEPT ![n] = held[c][n]],
                 [stage[c] EXCEPT ![n] = "within"])
        /\ branch' = [branch EXCEPT ![c][n] = 1]
        /\ UNCHANGED <<tree, built, transformed, parsers, keys>>
    BY <1>7 DEF OpenUnion
  <2>2. tree[n].children[1] \in Nodes /\ branch' \in [Calls -> [Nodes -> Nat]]
    BY <1>1, <2>1
  <2> QED
    BY <1>1, <1>3, <2>1, <2>2, EnterKeepsInv
<1> QED
  BY <1>4, <1>5, <1>6, <1>7

\* The steps that judge a schema.
LEMMA JudgingKeepsInv ==
  ASSUME FallbacksInv, NEW c \in Calls, NEW n \in Nodes,
         JudgeLeaf(c, n) \/ CloseObject(c, n) \/ BranchFits(c, n) \/ JudgeUnion(c, n) \/ Deliver(c, n)
  PROVE  FallbacksInv'
<1>1. PICK s \in {"judged", "over"} : stage' = [stage EXCEPT ![c][n] = s]
  BY Zenon DEF JudgeLeaf, CloseObject, BranchFits, JudgeUnion, Deliver, Judged
<1>2. UNCHANGED <<schemaVars, making, branch>>
  BY DEF JudgeLeaf, CloseObject, BranchFits, JudgeUnion, Deliver, makingVars
<1>3. IsReady(c, n) \/ stage[c][n] \in Validating
  BY DEF JudgeLeaf, CloseObject, BranchFits, JudgeUnion, Deliver, Validating
<1>4. s \in Stages
  BY DEF Stages, Validating
<1> QED
  BY <1>1, <1>2, <1>3, <1>4, ReadyIsTransformed, StageKeepsInv

\* A branch has errors: the next one is tried, or the union has them all.
LEMMA BranchFailsKeepsInv ==
  ASSUME FallbacksInv, NEW c \in Calls, NEW n \in Nodes, BranchFails(c, n)
  PROVE  FallbacksInv'
<1>1. /\ branch \in [Calls -> [Nodes -> Nat]] /\ tree[n].children \in Seq(Nodes)
      /\ stage[c] \in [Nodes -> Stages]
  BY SchemaAssumptions DEF FallbacksInv, Types, Nodes
<1>2. \A m \in Nodes : stage[c][m] \in Validating => m \in transformed
  BY DEF FallbacksInv, ValidatingAreTransformed
<1>3. UNCHANGED <<tree, built, transformed, parsers, keys, schemas, tries>> /\ stage[c][n] = "within"
  BY DEF BranchFails
<1>4. CASE branch[c][n] < Len(tree[n].children)
  <2>1. /\ branch' = [branch EXCEPT ![c][n] = @ + 1]
        /\ Enter(c, {tree[n].children[branch[c][n] + 1]}, [value[c] EXCEPT ![n] = held[c][n]], stage[c])
    BY <1>4 DEF BranchFails
  <2>2. tree[n].children[branch[c][n] + 1] \in Nodes /\ branch' \in [Calls -> [Nodes -> Nat]]
    BY <1>1, <1>4, <2>1
  <2> QED
    BY <1>1, <1>2, <1>3, <2>1, <2>2, EnterKeepsInv
<1>5. CASE ~(branch[c][n] < Len(tree[n].children))
  <2>1. stage' = [stage EXCEPT ![c][n] = "judged"] /\ UNCHANGED branch /\ StartNothing
    BY <1>5 DEF BranchFails, Judged
  <2>2. UNCHANGED <<schemaVars, making, branch>>
    BY <1>3, <2>1 DEF StartNothing, schemaVars
  <2>3. n \in transformed /\ "judged" \in Stages
    BY <1>2, <1>3 DEF Validating, Stages
  <2> QED
    BY <2>1, <2>2, <2>3, StageKeepsInv
<1> QED
  BY <1>4, <1>5

\* The end of a call.
LEMMA AnswerKeepsInv ==
  ASSUME FallbacksInv, NEW c \in Calls, Answer(c)
  PROVE  FallbacksInv'
<1>1. /\ stage[c][Root] = "judged" /\ UNCHANGED schemaVars
      /\ stage' = [stage EXCEPT ![c] = [n \in Nodes |-> IF n = Root THEN "over" ELSE "idle"]]
      /\ branch' = [branch EXCEPT ![c] = [n \in Nodes |-> 0]]
      /\ making' = [making EXCEPT ![c] = [n \in Nodes |-> "no"]]
  BY DEF Answer
<1>2. UNCHANGED <<tree, transformed, fallbacks, keys>>
  BY <1>1 DEF schemaVars
<1>3. Types /\ TranslationInv
  BY DEF FallbacksInv
<1>4. making' \in [Calls -> [Nodes -> Kinds]] /\ TranslationInv'
  BY <1>1, <1>3, LeavingKeepsInv
<1>5. /\ stage' \in [Calls -> [Nodes -> Stages]] /\ branch' \in [Calls -> [Nodes -> Nat]]
      /\ \A d \in Calls, n \in Nodes : stage'[d][n] \in Validating => stage[d][n] \in Validating
  BY <1>1, <1>3 DEF Types, Stages, Validating
<1> QED
  BY <1>2, <1>3, <1>4, <1>5, InvOfParts DEF Types

-----------------------------------------------------------------------------
\* At the start nothing is translated, and nothing is parsed.
LEMMA InitImpliesFallbacksInv == Init => FallbacksInv
<1> SUFFICES ASSUME Init PROVE FallbacksInv
  OBVIOUS
<1>1. Types
  BY DEF Init, InitTranslation, Types, Kinds, Stages, Nodes
<1>2. \A c \in Calls, n \in Nodes : making[c][n] = "no" /\ stage[c][n] = "idle"
  BY DEF Init, InitTranslation
<1>3. transformed = {}
  BY DEF Init, InitTranslation
<1> QED
  BY <1>1, <1>2, <1>3 DEF FallbacksInv, TranslationInv, EntriesAreKnown, EntriesComeAlong,
     MadeAreTransformed, UnionsHaveTheirs, ObjectsHaveTheirs, TransformedAreWhole,
     ValidatingAreTransformed, Validating

LEMMA NextKeepsFallbacksInv == FallbacksInv /\ [Next]_vars => FallbacksInv'
<1> SUFFICES ASSUME FallbacksInv, [Next]_vars PROVE FallbacksInv'
  OBVIOUS
<1>1. ASSUME NEW c \in Calls, Begins(c) PROVE FallbacksInv'
  <2>1. Root \in Nodes
    BY SchemaAssumptions DEF FallbacksInv, Types, Nodes
  <2> QED
    BY <1>1, <2>1, EnteringKeepsInv
<1>2. ASSUME NEW c \in Calls, Making(c) PROVE FallbacksInv'
  BY <1>2, MakingKeepsInv
<1>3. ASSUME NEW c \in Calls, Parsing(c) PROVE FallbacksInv'
  BY <1>3, EnteringKeepsInv, JudgingKeepsInv, BranchFailsKeepsInv, AnswerKeepsInv DEF Parsing
<1>4. ASSUME NEW n \in Nodes, IsBuilt(n) PROVE FallbacksInv'
  <2>1. UNCHANGED <<tree, transformed, fallbacks, keys, making, stage, branch>>
    BY <1>4 DEF IsBuilt, Build, makingVars, callVars
  <2>2. Types /\ TranslationInv
    BY DEF FallbacksInv
  <2>3. TranslationInv'
    BY <1>4, <2>2, BuildKeepsInv DEF IsBuilt
  <2> QED
    BY <2>1, <2>2, <2>3, InvOfParts DEF Types
<1>5. ASSUME UNCHANGED vars PROVE FallbacksInv'
  <2>1. UNCHANGED <<tree, built, empty, transformed, fallbacks, parsers, keys, making, stage, branch>>
    BY <1>5 DEF vars, schemaVars, makingVars, callVars
  <2> QED
    BY <2>1 DEF FallbacksInv, Types, TranslationInv, EntriesAreKnown, EntriesComeAlong, MadeAreTransformed,
       UnionsHaveTheirs, ObjectsHaveTheirs, TransformedAreWhole, ValidatingAreTransformed, Nodes, Below,
       Entries, IsUnion, IsObject, IsLeaf, NeedsFallback, RequiredFallbacks, Appended
<1> QED
  BY <1>1, <1>2, <1>3, <1>4, <1>5 DEF Next

\* Whatever calls share a first translation, and whenever the fields of a model
\* schema come, the fallbacks of a translated schema never change again, and
\* every one of those below it is translated (utils.ts:210-245, object.ts:118-134).
THEOREM TranslationIsKept == Spec => []FallbacksInv
<1> QED
  BY InitImpliesFallbacksInv, NextKeepsFallbacksInv, PTL DEF Spec

\* No call validates by a schema some of whose fallbacks are still to come.
THEOREM FallbacksComplete == Spec => []FallbacksAreComplete
<1>1. FallbacksInv => FallbacksAreComplete
  BY DEF FallbacksInv, FallbacksAreComplete, ValidatingAreTransformed, Validating,
     TranslationInv, TransformedAreWhole
<1> QED
  BY <1>1, TranslationIsKept, PTL

-----------------------------------------------------------------------------
(* What is accepted.                                                        *)

\* Schemas of objects, inside one another, and leaves, in all of whose places
\* Palmares and the adapter agree.  Not among them are unions; model schemas
\* below the root, which may be reached before their fields; a leaf at the root
\* that Palmares parses, which it does too early the first time; and leaves with
\* a parser the adapter runs after Palmares has looked at their limit.
IsPlain ==
  /\ \A n \in Nodes :
       /\ ~IsUnion(n) /\ (tree[n].lazy => n = Root)
       /\ IsLeaf(n) => ~(tree[n].parser = "adapter" /\ tree[n].limit = "palmares")
  /\ IsLeaf(Root) => tree[Root].parser # "palmares"

Children(n) == ToSet(tree[n].children)
IsClosedBelow(S) == \A n \in S : Children(n) \subseteq S
Inside(n) == {m \in Nodes : \A S \in SUBSET Nodes : n \in S /\ IsClosedBelow(S) => m \in S}
Leaves(n) == {m \in Inside(n) : IsLeaf(m)}

\* An object has one translation, of what its leaves validate, however it came
\* about.
Only(variant) == [i \in {0} |-> variant]
IsMadeOf(part, n) ==
  /\ part = Only(part[0]) /\ DOMAIN part[0] \subseteq Children(n)
  /\ \A m \in DOMAIN part[0] : part[0][m] = Leaves(m)

HasEach(f) == DOMAIN f = Calls /\ \A c \in Calls : DOMAIN f[c] = Nodes
SchemasHoldLeaves ==
  /\ DOMAIN schemas = Nodes /\ HasEach(parts)
  /\ empty = {} /\ ~tries /\ \A n \in Nodes \ {Root} : n \in built
  /\ \A n \in transformed : schemas[n] = <<Leaves(n)>>
  /\ \A c \in Calls, n \in Nodes : IsObject(n) /\ making[c][n] \in {"entries", "adapter"} =>
       /\ IsMadeOf(parts[c][n], n)
       /\ \A m \in Children(n) :
            making[c][n] = "adapter" \/ making[c][m] \in {"no", "made"} => m \in DOMAIN parts[c][n][0]

\* An object parses exactly the keys that need it.
KeysNeedFallbacks ==
  /\ \A n \in Nodes : IsObject(n) /\ fallbacks[n] # {} =>
       /\ fallbacks[n] = {"object"} /\ Children(n) \subseteq transformed
       /\ keys[n] = {m \in Children(n) : NeedsFallback(m)}
  /\ \A n \in Nodes : IsLeaf(n) => fallbacks[n] \subseteq Appended(n)
  /\ \A n \in parsers : n \in transformed /\ tree[n].parser = "palmares"

\* What the translation of a plain schema keeps.
PlainInv == IsPlain /\ SchemasHoldLeaves /\ KeysNeedFallbacks

\* The keys of an object are parsed while it waits for them, and are over after.
StagesNest(c) ==
  \A n \in Nodes :
    /\ n # Root /\ stage[c][n] # "idle" =>
         /\ stage[c][n] \in Validating /\ NeedsFallback(n)
         /\ stage[c][tree[n].parent] \in {"within", "judged", "over"}
         /\ stage[c][Root] \in {"within", "judged"}
    /\ stage[c][n] = "within" =>
         IsObject(n) /\ fallbacks[n] # {} /\ \A m \in keys[n] : stage[c][m] # "idle"
    /\ stage[c][n] \in {"judged", "over"} /\ stage[c][Root] # "over" =>
         \A m \in Children(n) : NeedsFallback(m) => stage[c][m] = "over"

ParsedBy(n, v) == IF tree[n].parser = "palmares" /\ v = "s" THEN "n" ELSE v
FitsBelow(c, n) == \A m \in Leaves(n) : LeafFits(m, input[c][m])

\* The data is what was given, but for what was parsed and is over.
ValuesAreParsed(c) ==
  /\ stage[c][Root] # "idle" => input[c] \in [Places -> Forms]
  /\ stage[c][Root] \notin {"idle", "over"} =>
       /\ DOMAIN value[c] = Places
       /\ \A n \in Places : value[c][n] =
            IF stage[c][n] = "over" /\ LeafFits(n, input[c][n]) THEN ParsedBy(n, input[c][n]) ELSE input[c][n]
  /\ \A n \in Places : stage[c][n] \in {"making", "parsing", "judged"} => held[c][n] = ParsedBy(n, input[c][n])

\* As long as they are read, errors tell what fits.
ErrorsTell(c) ==
  /\ \A n \in Nodes : stage[c][n] \in {"judged", "over"} /\ (n = Root \/ stage[c][tree[n].parent] = "within") =>
       (errors[c][n] = {} <=> FitsBelow(c, n))
  /\ \A e \in seen[c] : e.at \in Nodes /\ stage[c][e.at] \in {"judged", "over"}

IsOnlyInternal(n) == tree[n].toInternal /\ \A m \in Nodes : tree[m].toInternal => m = n

\* toInternal runs at once, as long as it is alone.
TurnsAreTaken(c) ==
  /\ bubble[c] # << >> => \E n \in Nodes : tree[n].toInternal /\ stage[c][n] = "over"
  /\ \A n \in Nodes : IsOnlyInternal(n) =>
       LET last == IF stage[c][Root] = "over" THEN Root ELSE n
       IN stage[c][last] \in {"judged", "over"} /\ FitsBelow(c, last) => turns[c][n] = 1

CallInv(c) == StagesNest(c) /\ ValuesAreParsed(c) /\ ErrorsTell(c) /\ TurnsAreTaken(c)

AcceptInv ==
  /\ PlainInv
  /\ HasEach(held) /\ HasEach(errors) /\ HasEach(turns)
  /\ DOMAIN input = Calls /\ DOMAIN value = Calls /\ DOMAIN seen = Calls /\ DOMAIN bubble = Calls
  /\ \A c \in Calls : CallInv(c)

-----------------------------------------------------------------------------
(* The tree of a plain schema.                                              *)

LEMMA PlainTree ==
  ASSUME Types, IsPlain
  PROVE  /\ Root \in Nodes
         /\ \A n \in Nodes : Place(n) = n /\ (IsObject(n) \/ IsLeaf(n)) /\ ~(IsObject(n) /\ IsLeaf(n))
         /\ \A n \in Nodes : IsLeaf(n) => Children(n) = {}
         /\ \A n \in Nodes : Children(n) \subseteq Nodes /\ \A m \in Children(n) : m # Root /\ tree[m].parent = n
         /\ \A m \in Nodes \ {Root} : /\ tree[m].parent \in Nodes \ {m} /\ IsObject(tree[m].parent)
                                      /\ m \in Children(tree[m].parent)
<1>1. /\ Root \in Nodes
      /\ \A n \in Nodes : IsObject(n) \/ IsLeaf(n)
      /\ \A n \in Nodes : \A m \in Children(n) : m # Root /\ tree[m].parent = n
  BY SchemaAssumptions DEF Types, IsPlain, Nodes, IsObject, IsLeaf, IsUnion, Children
<1>2. ASSUME NEW n \in Nodes
      PROVE  Children(n) \subseteq Nodes /\ (IsLeaf(n) => Children(n) = {})
  <2>1. tree[n].children \in Seq(Nodes) /\ (IsLeaf(n) => tree[n].children = << >>)
    BY SchemaAssumptions DEF Types, Nodes, IsLeaf
  <2> QED
    BY <2>1 DEF Children, ToSet
<1>3. ASSUME NEW m \in Nodes \ {Root}
      PROVE  tree[m].parent \in Nodes \ {m} /\ m \in Children(tree[m].parent)
  <2>1. \E n \in Nodes \ {m} : m \in Children(n)
    <3> SUFFICES ASSUME \A n \in Nodes \ {m} : m \notin Children(n) PROVE FALSE
      OBVIOUS
    <3> DEFINE S == Nodes \ {m}
    <3>1. S \in SUBSET DOMAIN tree /\ Root \in S
      BY <1>1 DEF Nodes
    <3>2. \A n \in S : ToSet(tree[n].children) \subseteq S
      BY <1>2 DEF Children
    <3> HIDE DEF S
    <3>3. S = DOMAIN tree
      BY <3>1, <3>2, SchemaAssumptions DEF Types
    <3> QED
      BY <3>3 DEF S, Nodes
  <2> QED
    BY <1>1, <2>1
<1>4. \A n \in Nodes : Place(n) = n
  BY <1>1, <1>3 DEF Place, IsPlain
<1>5. \A m \in Nodes \ {Root} : IsObject(tree[m].parent)
  BY <1>1, <1>2, <1>3
<1> QED
  BY <1>1, <1>2, <1>3, <1>4, <1>5 DEF IsObject, IsLeaf

LEMMA InsideIsClosed ==
  ASSUME Types, IsPlain, NEW n \in Nodes
  PROVE  n \in Inside(n) /\ IsClosedBelow(Inside(n))
<1> SUFFICES ASSUME NEW m \in Inside(n), NEW k \in Children(m) PROVE k \in Inside(n)
  BY DEF Inside, IsClosedBelow
<1>1. m \in Nodes /\ k \in Nodes
  BY PlainTree DEF Inside
<1> QED
  BY <1>1 DEF Inside, IsClosedBelow

LEMMA LeavesOfLeaf ==
  ASSUME Types, IsPlain, NEW n \in Nodes, IsLeaf(n)
  PROVE  Leaves(n) = {n}
<1>1. IsClosedBelow({n})
  BY PlainTree DEF IsClosedBelow
<1> QED
  BY <1>1, InsideIsClosed DEF Leaves, Inside

LEMMA LeavesOfObject ==
  ASSUME Types, IsPlain, NEW n \in Nodes, IsObject(n)
  PROVE  Leaves(n) = UNION {Leaves(m) : m \in Children(n)}
<1>1. Children(n) \subseteq Nodes /\ ~IsLeaf(n)
  BY PlainTree
<1>2. ASSUME NEW m \in Children(n), NEW l \in Leaves(m) PROVE l \in Leaves(n)
  BY <1>1 DEF Leaves, Inside, IsClosedBelow
<1>3. ASSUME NEW l \in Leaves(n) PROVE \E m \in Children(n) : l \in Leaves(m)
  <2> DEFINE S == {n} \cup UNION {Inside(m) : m \in Children(n)}
  <2>1. S \in SUBSET Nodes
    BY DEF Inside
  <2>2. IsClosedBelow(S)
    <3> SUFFICES ASSUME NEW k \in S, NEW j \in Children(k) PROVE j \in S
      BY DEF IsClosedBelow
    <3>1. CASE k = n
      BY <1>1, <3>1, InsideIsClosed
    <3>2. ASSUME NEW m \in Children(n), k \in Inside(m) PROVE j \in S
      BY <1>1, <3>2, InsideIsClosed DEF IsClosedBelow
    <3> QED
      BY <3>1, <3>2
  <2>3. n \in S
    OBVIOUS
  <2>4. l \in S /\ IsLeaf(l)
    <3> HIDE DEF S
    <3> QED
      BY <2>1, <2>2, <2>3 DEF Leaves, Inside
  <2> QED
    BY <1>1, <2>4 DEF Leaves
<1> QED
  BY <1>2, <1>3

LEMMA LeavesOfRoot ==
  ASSUME Types, IsPlain
  PROVE  /\ Inside(Root) = Nodes
         /\ Leaves(Root) = {n \in Nodes : IsLeaf(n)} /\ Places = {n \in Nodes : IsLeaf(n)}
<1>1. ASSUME NEW S \in SUBSET Nodes, Root \in S, IsClosedBelow(S) PROVE S = Nodes
  BY <1>1, SchemaAssumptions DEF Types, Nodes, IsClosedBelow, Children
<1>2. Inside(Root) = Nodes /\ Leaves(Root) = {n \in Nodes : IsLeaf(n)}
  BY <1>1 DEF Leaves, Inside
<1>3. Places = {n \in Nodes : IsLeaf(n)}
  <2>1. \A n \in Nodes : Place(n) = n /\ (IsObject(n) <=> ~IsLeaf(n))
    BY PlainTree
  <2> QED
    BY <2>1 DEF Places
<1> QED
  BY <1>2, <1>3

LEMMA LeavesAreLeaves ==
  ASSUME NEW n, NEW m \in Leaves(n)
  PROVE  m \in Nodes /\ IsLeaf(m)
BY DEF Leaves, Inside

\* The whole is valid if what is in every leaf fits.
LEMMA ValidIfLeavesFit ==
  ASSUME Types, IsPlain, NEW c
  PROVE  IsValid(c) <=> FitsBelow(c, Root)
BY LeavesOfRoot DEF IsValid, FitsBelow, Fits

-----------------------------------------------------------------------------
(* The translations of an object, when each of its keys has one.            *)

LEMMA LeastNumber ==
  ASSUME NEW T \in SUBSET Nat, T # {}
  PROVE  \E n \in T : \A m \in T : n <= m
<1> DEFINE Less == OpToRel(<, Nat)
<1>1. IsWellFoundedOn(Less, Nat)
  BY NatLessThanWellFounded
<1>2. \A x, y \in Nat : x < y => <<x, y>> \in Less
  BY DEF OpToRel
<1> HIDE DEF Less
<1>3. PICK x \in T : \A y \in T : <<y, x>> \notin Less
  BY <1>1, WFMin
<1>4. \A y \in T : ~(y < x)
  BY <1>2, <1>3
<1> QED
  BY <1>3, <1>4

\* One more key is one more key of the one variant.
LEMMA SpreadOfOne ==
  ASSUME NEW variant, NEW key, NEW option
  PROVE  Spread(Only(variant), key, <<option>>) = Only(With(variant, key, option))
<1> DEFINE part == Only(variant)
           Assign(p, turn) ==
             LET choice == turn % Len(<<option>>)
                 index == (turn \div Len(<<option>>) + 1) * choice
                 base == IF index \in DOMAIN p THEN p[index] ELSE p[0]
             IN [i \in DOMAIN p \cup {index} |->
                   IF i = index THEN With(base, key, <<option>>[choice + 1]) ELSE p[i]]
           last == (Max(DOMAIN part) + 1) * Len(<<option>>)
           one == Only(With(variant, key, option))
           Turn(f, k) == IF k = 0 THEN part ELSE Assign(f[k - 1], k - 1)
           f == CHOOSE f : f = [k \in 0..last |-> Turn(f, k)]
           g == [k \in 0..1 |-> IF k = 0 THEN part ELSE one]
<1>1. Spread(part, key, <<option>>) = f[last]
  BY DEF Spread
<1>2. DOMAIN part = {0} /\ part[0] = variant
  BY DEF Only
<1> HIDE DEF part
<1>3. last = 1
  <2>1. Max({0}) = 0
    BY DEF Max
  <2> QED
    BY <1>2, <2>1
<1>4. Assign(part, 0) = one
  <2>1. 0 % 1 = 0 /\ (0 \div 1 + 1) * 0 = 0 /\ Len(<<option>>) = 1 /\ <<option>>[1] = option
    OBVIOUS
  <2> HIDE DEF one
  <2>2. Assign(part, 0) = [i \in {0} |-> IF i = 0 THEN With(variant, key, option) ELSE part[i]]
    BY <1>2, <2>1
  <2>3. Assign(part, 0) = [i \in {0} |-> With(variant, key, option)]
    BY <2>2
  <2> QED
    BY <2>3 DEF one, Only
<1> HIDE DEF Assign, one
<1>5. g = [k \in 0..1 |-> Turn(g, k)]
  BY <1>4
<1>6. f = [k \in 0..1 |-> Turn(f, k)]
  BY <1>3, <1>5
<1> HIDE DEF f
<1>7. f[1] = Assign(f[0], 0) /\ f[0] = part
  BY <1>6
<1> QED
  BY <1>1, <1>3, <1>4, <1>7 DEF one, part

\* Its translation validates all that its keys do.
LEMMA VariantsOfOne ==
  ASSUME NEW variant
  PROVE  Variants(Only(variant)) = <<UNION {variant[m] : m \in DOMAIN variant}>>
<1> DEFINE part == Only(variant)
           Before(k) == {j \in DOMAIN part : j < k}
           Index(i) == CHOOSE k \in DOMAIN part : Cardinality(Before(k)) = i - 1
<1>1. /\ Cardinality(DOMAIN part) = 1 /\ Cardinality({}) = 0
      /\ DOMAIN part = {0} /\ part[0] = variant
  BY FS_EmptySet, FS_Singleton DEF Only
<1> HIDE DEF part
<1>2. Before(0) = {}
  BY <1>1
<1>3. Index(1) = 0
  BY <1>1, <1>2
<1> HIDE DEF Index
<1>4. Variants(part) = [i \in 1..Cardinality(DOMAIN part) |-> UNION Range(part[Index(i)])]
  BY DEF Variants, Index
<1>5. Variants(part) = [i \in 1..1 |-> UNION Range(part[0])]
  BY <1>1, <1>3, <1>4
<1>6. Range(variant) = {variant[m] : m \in DOMAIN variant}
  BY DEF Range
<1> QED
  BY <1>1, <1>5, <1>6 DEF part

\* The keys an object starts with are those that are translated.
LEMMA FirstPartsHoldLeaves ==
  ASSUME Types, NEW n \in Nodes, Entries(n) = tree[n].children,
         \A m \in Children(n) \cap transformed : schemas[m] = <<Leaves(m)>>
  PROVE  /\ IsMadeOf(FirstParts(n), n)
         /\ Children(n) \cap transformed \subseteq DOMAIN FirstParts(n)[0]
<1> DEFINE E == tree[n].children
           K == Len(E)
           First(k) == {E[i] : i \in 1..k} \cap transformed
           Held(k) == [m \in First(k) |-> Leaves(m)]
           Step(f, k) == IF k = 0 THEN Only(<< >>)
                         ELSE LET m == E[k]
                              IN IF m \in transformed THEN Spread(f[k - 1], m, schemas[m]) ELSE f[k - 1]
           g == [k \in 0..K |-> Only(Held(k))]
           f == CHOOSE f : f = [k \in 0..K |-> Step(f, k)]
<1>1. E \in Seq(Nodes) /\ K \in Nat /\ Children(n) = {E[i] : i \in 1..K}
  <2>1. E \in Seq(Nodes)
    BY SchemaAssumptions DEF Types, Nodes
  <2> QED
    BY <2>1 DEF Children, ToSet
<1>2. FirstParts(n) = f[K]
  BY DEF FirstParts, Only
<1>3. Only(Held(0)) = Only(<< >>)
  <2>1. First(0) = {}
    OBVIOUS
  <2>2. Held(0) = << >>
    BY <2>1
  <2> QED
    BY <2>2
<1>4. ASSUME NEW k \in 1..K, E[k] \in transformed
      PROVE  Spread(Only(Held(k - 1)), E[k], schemas[E[k]])
               = Only(Held(k))
  <2>1. schemas[E[k]] = <<Leaves(E[k])>>
    BY <1>1, <1>4
  <2>2. First(k - 1) \cup {E[k]} = First(k)
    <3>1. 1..k = 1..k - 1 \cup {k}
      BY <1>1
    <3> QED
      BY <1>4, <3>1
  <2>3. With(Held(k - 1), E[k], Leaves(E[k])) = Held(k)
    <3> HIDE DEF First
    <3> QED
      BY <2>2 DEF With
  <2> HIDE DEF Held
  <2>4. Spread(Only(Held(k - 1)), E[k], <<Leaves(E[k])>>) = Only(With(Held(k - 1), E[k], Leaves(E[k])))
    BY SpreadOfOne
  <2> QED
    BY <2>1, <2>3, <2>4
<1>5. ASSUME NEW k \in 1..K, E[k] \notin transformed
      PROVE  Held(k - 1) = Held(k)
  <2>1. 1..k = 1..k - 1 \cup {k}
    BY <1>1
  <2> QED
    BY <1>5, <2>1
<1> HIDE DEF Held, First
<1>6. g = [k \in 0..K |-> Step(g, k)]
  <2> SUFFICES ASSUME NEW k \in 0..K PROVE g[k] = Step(g, k)
    OBVIOUS
  <2>1. CASE k = 0
    BY <1>1, <1>3, <2>1
  <2>2. CASE k # 0
    <3>1. k \in 1..K /\ k - 1 \in 0..K
      BY <1>1, <2>2
    <3>2. g[k - 1] = Only(Held(k - 1))
      BY <3>1
    <3> QED
      BY <1>4, <1>5, <2>2, <3>1, <3>2
  <2> QED
    BY <2>1, <2>2
<1> HIDE DEF g
<1>7. f = [k \in 0..K |-> Step(f, k)]
  BY <1>6
<1> HIDE DEF f, Step
<1>8. \A k \in 0..K : f[k] = g[k]
  <2> DEFINE T == {k \in 0..K : f[k] # g[k]}
  <2> SUFFICES ASSUME T # {} PROVE FALSE
    OBVIOUS
  <2>1. T \in SUBSET Nat
    BY <1>1
  <2>2. PICK k \in T : \A l \in T : k <= l
    BY <2>1, LeastNumber
  <2>3. k \in 0..K /\ f[k] = Step(f, k) /\ g[k] = Step(g, k)
    BY <1>6, <1>7
  <2>4. k = 0 \/ f[k - 1] = g[k - 1]
    BY <1>1, <2>2
  <2>5. Step(f, k) = Step(g, k)
    BY <2>4 DEF Step
  <2> QED
    BY <2>3, <2>5
<1>9. FirstParts(n) = Only(Held(K))
  <2>1. K \in 0..K
    BY <1>1
  <2>2. g[K] = Only(Held(K))
    BY <2>1 DEF g
  <2> QED
    BY <1>2, <1>8, <2>1, <2>2
<1> QED
  BY <1>1, <1>9 DEF IsMadeOf, Only, Held, First

-----------------------------------------------------------------------------
(* The translation of a plain schema.                                       *)

\* What depends on the tree only.
LEMMA TreeStays ==
  ASSUME UNCHANGED tree
  PROVE  /\ Nodes' = Nodes /\ Places' = Places /\ IsPlain' = IsPlain
         /\ \A n : /\ IsLeaf(n)' = IsLeaf(n) /\ IsObject(n)' = IsObject(n) /\ IsUnion(n)' = IsUnion(n)
                   /\ Children(n)' = Children(n) /\ Leaves(n)' = Leaves(n) /\ Appended(n)' = Appended(n)
         /\ \A part, n : IsMadeOf(part, n)' = IsMadeOf(part, n)
         /\ \A n, v : LeafFits(n, v)' = LeafFits(n, v) /\ ParsedBy(n, v)' = ParsedBy(n, v)
<1>1. Nodes' = Nodes
  BY DEF Nodes
<1>2. \A n : IsLeaf(n)' = IsLeaf(n) /\ IsObject(n)' = IsObject(n) /\ IsUnion(n)' = IsUnion(n)
  BY DEF IsLeaf, IsObject, IsUnion
<1>3. \A n : Children(n)' = Children(n) /\ Appended(n)' = Appended(n)
  BY DEF Children, Appended, IsLeaf, IsUnion
<1>4. Places' = Places /\ IsPlain' = IsPlain
  BY DEF Places, Place, IsPlain, Nodes, IsUnion, IsObject, IsLeaf
<1>5. \A n : Leaves(n)' = Leaves(n)
  BY <1>1, <1>2, <1>3 DEF Leaves, Inside, IsClosedBelow
<1>6. \A part, n : IsMadeOf(part, n)' = IsMadeOf(part, n)
  BY <1>3, <1>5 DEF IsMadeOf
<1>7. \A n, v : LeafFits(n, v)' = LeafFits(n, v) /\ ParsedBy(n, v)' = ParsedBy(n, v)
  BY DEF LeafFits, HasType, ParsedBy
<1> QED
  BY <1>1, <1>2, <1>3, <1>4, <1>5, <1>6, <1>7

\* An object knows its entries before it is translated.
LEMMA EntriesAreChildren ==
  ASSUME Types, TranslationInv, PlainInv, NEW n \in Nodes,
         \/ n # Root \/ n \in built \/ n \in transformed \/ \E c \in Calls : making[c][n] # "no"
  PROVE  n \in built /\ Entries(n) = tree[n].children /\ Below(n) = Children(n)
<1>1. n \in built
  BY DEF TranslationInv, EntriesAreKnown, PlainInv, SchemasHoldLeaves
<1> QED
  BY <1>1 DEF Entries, PlainInv, SchemasHoldLeaves, Below, Children

\* A translation that starts below the root does not come back to it.
LEMMA RootIsReachedFromItself ==
  ASSUME Types, TranslationInv, PlainInv, NEW n \in Nodes \ transformed, Root \in Reached(n)
  PROVE  n = Root
<1> SUFFICES ASSUME n # Root PROVE FALSE
  OBVIOUS
<1> DEFINE S == Nodes \ (transformed \cup {Root})
<1>1. \A m \in S : ToSet(Entries(m)) \ transformed \subseteq S
  <2> SUFFICES ASSUME NEW m \in S PROVE Below(m) \ transformed \subseteq S
    BY DEF Below
  <2>1. Below(m) = Children(m)
    BY EntriesAreChildren
  <2> QED
    BY <2>1, PlainTree DEF PlainInv
<1>2. n \in S /\ S \in SUBSET Nodes /\ Root \notin S
  OBVIOUS
<1> HIDE DEF S
<1> QED
  BY <1>1, <1>2 DEF Reached

LEMMA StartKeepsPlain ==
  ASSUME Types, TranslationInv, PlainInv, NEW c \in Calls, NEW N \in SUBSET ((built \cap Nodes) \ transformed),
         StartMaking(c, N), UNCHANGED <<tree, built, transformed, parsers, keys, schemas, tries>>
  PROVE  PlainInv'
<1> DEFINE reached == UNION {Reached(n) : n \in N}
<1>1. /\ reached \subseteq Nodes \ transformed
      /\ \A m \in reached : Below(m) \ transformed \subseteq reached
  BY ReachedIsClosed
<1>2. \A n \in reached : n \in built /\ Entries(n) = tree[n].children /\ Below(n) = Children(n)
  <2>1. Root \in reached => Root \in built
    BY RootIsReachedFromItself
  <2> HIDE DEF reached
  <2> QED
    BY <1>1, <2>1, EntriesAreChildren
<1> HIDE DEF reached
<1>3. /\ making' = [making EXCEPT ![c] = [n \in Nodes |->
           IF n \notin reached THEN @[n] ELSE IF IsLeaf(n) THEN "adapter" ELSE "entries"]]
      /\ parts' = [parts EXCEPT ![c] = [n \in Nodes |->
           IF n \in reached /\ IsObject(n) THEN FirstParts(n) ELSE @[n]]]
      /\ fallbacks' = [n \in Nodes |->
           IF n \in reached /\ IsUnion(n) /\ ~AdapterHasUnion THEN fallbacks[n] \cup {"union"}
           ELSE fallbacks[n]]
      /\ empty' = empty \cup {n \in reached : n \notin built}
  BY Zenon DEF StartMaking, reached
<1>4. /\ \A d \in Calls, n \in Nodes : making'[d][n] =
           IF d # c \/ n \notin reached THEN making[d][n] ELSE IF IsLeaf(n) THEN "adapter" ELSE "entries"
      /\ DOMAIN parts = Calls => \A d \in Calls, n \in Nodes : parts'[d][n] =
           IF d = c /\ n \in reached /\ IsObject(n) THEN FirstParts(n) ELSE parts[d][n]
      /\ HasEach(parts) => HasEach(parts)'
  BY <1>3, TreeStays DEF Types, Kinds, HasEach
<1>5. \A n \in Nodes : fallbacks'[n] = fallbacks[n] /\ (NeedsFallback(n)' <=> NeedsFallback(n))
  BY <1>3 DEF PlainInv, IsPlain, NeedsFallback
<1>6. KeysNeedFallbacks'
  <2>1. \A n \in Nodes : {m \in Children(n) : NeedsFallback(m)}' = {m \in Children(n) : NeedsFallback(m)}
    BY <1>5, TreeStays, PlainTree DEF PlainInv
  <2> QED
    BY <1>5, <2>1, TreeStays DEF PlainInv, KeysNeedFallbacks
<1>7. SchemasHoldLeaves'
  <2>1. empty' = {} /\ HasEach(parts) /\ DOMAIN parts = Calls
    BY <1>2, <1>3 DEF PlainInv, SchemasHoldLeaves, HasEach
  <2>2. ASSUME NEW d \in Calls, NEW n \in Nodes, IsObject(n), making'[d][n] \in {"entries", "adapter"}
        PROVE  /\ IsMadeOf(parts'[d][n], n)
               /\ \A m \in Children(n) :
                    making'[d][n] = "adapter" \/ making'[d][m] \in {"no", "made"} => m \in DOMAIN parts'[d][n][0]
    <3>1. Children(n) \subseteq Nodes /\ ~IsLeaf(n)
      BY <2>2, PlainTree DEF PlainInv
    <3>2. CASE d = c /\ n \in reached
      <4>1. parts'[d][n] = FirstParts(n) /\ making'[d][n] = "entries"
        BY <1>4, <2>1, <2>2, <3>1, <3>2
      <4>2. \A m \in Children(n) \cap transformed : schemas[m] = <<Leaves(m)>>
        BY DEF PlainInv, SchemasHoldLeaves
      <4>3. /\ IsMadeOf(FirstParts(n), n)
            /\ Children(n) \cap transformed \subseteq DOMAIN FirstParts(n)[0]
        BY <1>2, <3>2, <4>2, FirstPartsHoldLeaves
      <4>4. \A m \in Children(n) : making'[d][m] \in {"no", "made"} => m \in transformed
        BY <1>1, <1>2, <1>4, <3>1, <3>2
      <4> QED
        BY <4>1, <4>3, <4>4
    <3>3. CASE ~(d = c /\ n \in reached)
      <4>1. parts'[d][n] = parts[d][n] /\ making'[d][n] = making[d][n]
        BY <1>4, <2>1, <3>3
      <4>2. \A m \in Children(n) : making'[d][m] \in {"no", "made"} => making[d][m] = making'[d][m]
        BY <1>4, <3>1
      <4> QED
        BY <2>2, <4>1, <4>2 DEF PlainInv, SchemasHoldLeaves
    <3> QED
      BY <3>2, <3>3
  <2> QED
    BY <1>4, <2>1, <2>2, TreeStays DEF PlainInv, SchemasHoldLeaves
<1> QED
  BY <1>6, <1>7, TreeStays DEF PlainInv

\* What is in place for schemas that are translated stays, and so what an object
\* has to know of its keys.
LEMMA KeysStay ==
  ASSUME Types, PlainInv, StaysWhole, NEW n \in Nodes,
         fallbacks'[n] = fallbacks[n], keys'[n] = keys[n], IsObject(n), fallbacks[n] # {}
  PROVE  /\ fallbacks'[n] = {"object"} /\ Children(n) \subseteq transformed'
         /\ keys'[n] = {m \in Children(n) : NeedsFallback(m)'}
<1>1. /\ fallbacks[n] = {"object"} /\ Children(n) \subseteq transformed
      /\ keys[n] = {m \in Children(n) : NeedsFallback(m)}
  BY DEF PlainInv, KeysNeedFallbacks
<1>2. \A m \in transformed : NeedsFallback(m)' <=> NeedsFallback(m)
  BY DEF StaysWhole, NeedsFallback
<1> QED
  BY <1>1, <1>2 DEF StaysWhole

LEMMA ComposeKeepsPlain ==
  ASSUME Types, TranslationInv, PlainInv, NEW c \in Calls, NEW n \in Nodes, Compose(c, n)
  PROVE  PlainInv'
<1> DEFINE needing == {m \in Below(n) : NeedsFallback(m)}
           composes == IsObject(n) /\ needing # {}
<1>1. /\ UNCHANGED <<tree, built, empty, transformed, parsers, schemas, tries, parts>>
      /\ making[c][n] = "entries" /\ making' = [making EXCEPT ![c][n] = "adapter"]
      /\ \A m \in Below(n) : making[c][m] \notin {"entries", "adapter"}
      /\ IF composes THEN /\ fallbacks' = [fallbacks EXCEPT ![n] = @ \cup {"object"}]
                          /\ keys' = [keys EXCEPT ![n] = needing]
         ELSE UNCHANGED <<fallbacks, keys>>
  BY DEF Compose, EntriesAreMade, Below
<1>2. Below(n) = Children(n) /\ Children(n) \subseteq Nodes
  BY <1>1, EntriesAreChildren, PlainTree DEF PlainInv
<1>3. \A d \in Calls, m \in Nodes : making'[d][m] = IF d = c /\ m = n THEN "adapter" ELSE making[d][m]
  BY <1>1 DEF Types, Kinds
<1>4. TranslationInv' /\ StaysWhole
  BY ComposeKeepsInv
<1>5. Children(n) \subseteq transformed
  BY <1>1, <1>2, <1>3 DEF Types, Kinds, TranslationInv, EntriesComeAlong, MadeAreTransformed
<1>6. \A m \in Nodes : m # n => fallbacks'[m] = fallbacks[m] /\ keys'[m] = keys[m]
  BY <1>1 DEF Types
<1>7. KeysNeedFallbacks'
  <2>1. ASSUME NEW m \in Nodes, IsObject(m), fallbacks'[m] # {}
        PROVE  /\ fallbacks'[m] = {"object"} /\ Children(m) \subseteq transformed'
               /\ keys'[m] = {k \in Children(m) : NeedsFallback(k)'}
    <3>1. CASE m = n /\ composes
      <4>1. fallbacks'[m] = fallbacks[m] \cup {"object"} /\ keys'[m] = needing
        BY <1>1, <3>1 DEF Types
      <4>2. fallbacks[m] = {} \/ fallbacks[m] = {"object"}
        BY <2>1 DEF PlainInv, KeysNeedFallbacks
      <4>3. \A k \in Children(n) : NeedsFallback(k)' <=> NeedsFallback(k)
        BY <1>4, <1>5 DEF StaysWhole, NeedsFallback
      <4> QED
        BY <1>1, <1>2, <1>5, <3>1, <4>1, <4>2, <4>3
    <3>2. CASE ~(m = n /\ composes)
      <4>1. fallbacks'[m] = fallbacks[m] /\ keys'[m] = keys[m]
        BY <1>1, <1>6, <3>2
      <4> QED
        BY <1>4, <2>1, <4>1, KeysStay
    <3> QED
      BY <3>1, <3>2
  <2>2. ASSUME NEW m \in Nodes, IsLeaf(m) PROVE fallbacks'[m] \subseteq Appended(m)
    <3>1. fallbacks'[m] = fallbacks[m]
      BY <1>1, <1>6, <2>2, PlainTree DEF PlainInv
    <3> QED
      BY <2>2, <3>1 DEF PlainInv, KeysNeedFallbacks
  <2>3. \A m \in parsers' : m \in transformed' /\ tree'[m].parser = "palmares"
    BY <1>1 DEF PlainInv, KeysNeedFallbacks
  <2> QED
    BY <1>1, <2>1, <2>2, <2>3, TreeStays DEF KeysNeedFallbacks
<1>8. SchemasHoldLeaves'
  <2>1. ASSUME NEW d \in Calls, NEW m \in Nodes, IsObject(m), making'[d][m] \in {"entries", "adapter"}
        PROVE  /\ IsMadeOf(parts[d][m], m)
               /\ \A k \in Children(m) :
                    making'[d][m] = "adapter" \/ making'[d][k] \in {"no", "made"} => k \in DOMAIN parts[d][m][0]
    <3>1. making[d][m] \in {"entries", "adapter"}
      BY <1>1, <1>3, <2>1
    <3>2. /\ IsMadeOf(parts[d][m], m)
          /\ \A k \in Children(m) :
               making[d][m] = "adapter" \/ making[d][k] \in {"no", "made"} => k \in DOMAIN parts[d][m][0]
      BY <2>1, <3>1 DEF PlainInv, SchemasHoldLeaves
    <3>3. Children(m) \subseteq Nodes
      BY PlainTree DEF PlainInv
    <3>4. CASE d = c /\ m = n
      <4>1. \A k \in Children(n) : making[c][k] \in {"no", "made"}
        BY <1>1, <1>2 DEF Types, Kinds
      <4> QED
        BY <3>2, <3>4, <4>1
    <3>5. CASE ~(d = c /\ m = n)
      <4>1. making'[d][m] = making[d][m]
        BY <1>3, <3>5
      <4>2. \A k \in Children(m) : making'[d][k] \in {"no", "made"} => making[d][k] = making'[d][k]
        BY <1>3, <3>3
      <4> QED
        BY <3>2, <4>1, <4>2
    <3> QED
      BY <3>4, <3>5
  <2> QED
    BY <1>1, <2>1, TreeStays DEF PlainInv, SchemasHoldLeaves, HasEach
<1> QED
  BY <1>1, <1>7, <1>8, TreeStays DEF PlainInv

LEMMA TranslationOfPlain ==
  ASSUME Types, PlainInv, NEW c \in Calls, NEW n \in Nodes, making[c][n] = "adapter"
  PROVE  Translations(c, n) = <<Leaves(n)>>
<1>1. IsObject(n) \/ IsLeaf(n)
  BY PlainTree DEF PlainInv
<1>2. CASE IsLeaf(n)
  BY <1>2, LeavesOfLeaf DEF Translations, PlainInv, IsLeaf, IsObject, IsUnion
<1>3. CASE IsObject(n)
  <2> DEFINE variant == parts[c][n][0]
  <2>1. IsMadeOf(parts[c][n], n) /\ Children(n) \subseteq DOMAIN variant
    BY <1>3 DEF PlainInv, SchemasHoldLeaves
  <2>2. /\ parts[c][n] = Only(variant) /\ DOMAIN variant = Children(n)
        /\ \A m \in Children(n) : variant[m] = Leaves(m)
    BY <2>1 DEF IsMadeOf
  <2> HIDE DEF variant
  <2>3. Variants(Only(variant)) = <<UNION {variant[m] : m \in DOMAIN variant}>>
    BY VariantsOfOne
  <2>4. {variant[m] : m \in DOMAIN variant} = {Leaves(m) : m \in Children(n)}
    BY <2>2
  <2>5. Leaves(n) = UNION {Leaves(m) : m \in Children(n)}
    BY <1>3, LeavesOfObject DEF PlainInv
  <2> QED
    BY <1>3, <2>2, <2>3, <2>4, <2>5 DEF Translations
<1> QED
  BY <1>1, <1>2, <1>3

LEMMA TranslatedKeepsPlain ==
  ASSUME Types, TranslationInv, PlainInv, NEW c \in Calls, NEW n \in Nodes, Translated(c, n)
  PROVE  PlainInv'
<1> DEFINE p == tree[n].parent
           taken == n # Root /\ making[c][p] = "entries"
<1>1. /\ UNCHANGED <<tree, built, empty, keys>>
      /\ making[c][n] = "adapter" /\ making' = [making EXCEPT ![c][n] = "made"]
      /\ fallbacks' = [fallbacks EXCEPT ![n] = @ \cup Appended(n)]
      /\ parsers' = IF tree[n].parser = "palmares" THEN parsers \cup {n} ELSE parsers
      /\ transformed' = transformed \cup {n}
      /\ tries' = (tries \/ (IsUnion(n) /\ ~AdapterHasUnion /\ n # Root))
  BY DEF Translated
<1>2. Translations(c, n) = <<Leaves(n)>>
  BY <1>1, TranslationOfPlain
<1>3. schemas' = [schemas EXCEPT ![n] = <<Leaves(n)>>]
  BY <1>2 DEF Translated
<1>4. n # Root => p \in Nodes \ {n} /\ IsObject(p) /\ n \in Children(p)
  BY PlainTree DEF PlainInv
<1>5. parts' = IF taken THEN [parts EXCEPT ![c][n] = << >>, ![c][p] = Spread(@, n, <<Leaves(n)>>)]
               ELSE [parts EXCEPT ![c][n] = << >>]
  BY <1>2, <1>4 DEF Translated
<1>6. HasEach(parts) /\ HasEach(parts)'
  BY <1>1, <1>5, TreeStays DEF PlainInv, SchemasHoldLeaves, HasEach
<1>7. /\ \A d \in Calls, m \in Nodes : making'[d][m] = IF d = c /\ m = n THEN "made" ELSE making[d][m]
      /\ \A m \in Nodes : fallbacks'[m] = IF m = n THEN fallbacks[m] \cup Appended(m) ELSE fallbacks[m]
  BY <1>1 DEF Types, Kinds
<1>8. \A d \in Calls, m \in Nodes : ~(d = c /\ m = n) =>
        parts'[d][m] = IF taken /\ d = c /\ m = p THEN Spread(parts[c][p], n, <<Leaves(n)>>) ELSE parts[d][m]
  BY <1>4, <1>5, <1>6 DEF HasEach
<1>9. StaysWhole
  BY TranslatedKeepsInv
<1>10. ~IsUnion(n)
  BY DEF PlainInv, IsPlain
<1>11. KeysNeedFallbacks'
  <2>1. ASSUME NEW m \in Nodes, IsObject(m), fallbacks'[m] # {}
        PROVE  /\ fallbacks'[m] = {"object"} /\ Children(m) \subseteq transformed'
               /\ keys'[m] = {k \in Children(m) : NeedsFallback(k)'}
    <3>1. Appended(m) = {}
      BY <2>1, PlainTree DEF PlainInv, Appended, IsPlain
    <3>2. fallbacks'[m] = fallbacks[m] /\ keys'[m] = keys[m]
      BY <1>1, <1>7, <3>1
    <3> QED
      BY <1>9, <2>1, <3>2, KeysStay
  <2>2. \A m \in Nodes : IsLeaf(m) => fallbacks'[m] \subseteq Appended(m)
    BY <1>7 DEF PlainInv, KeysNeedFallbacks
  <2>3. \A m \in parsers' : m \in transformed' /\ tree'[m].parser = "palmares"
    BY <1>1 DEF PlainInv, KeysNeedFallbacks
  <2> QED
    BY <1>1, <2>1, <2>2, <2>3, TreeStays DEF KeysNeedFallbacks
<1>12. SchemasHoldLeaves'
  <2>1. ASSUME NEW d \in Calls, NEW m \in Nodes, IsObject(m), making'[d][m] \in {"entries", "adapter"}
        PROVE  /\ IsMadeOf(parts'[d][m], m)
               /\ \A k \in Children(m) :
                    making'[d][m] = "adapter" \/ making'[d][k] \in {"no", "made"} => k \in DOMAIN parts'[d][m][0]
    <3>1. ~(d = c /\ m = n) /\ making'[d][m] = making[d][m]
      BY <1>7, <2>1
    <3>2. /\ IsMadeOf(parts[d][m], m)
          /\ \A k \in Children(m) :
               making[d][m] = "adapter" \/ making[d][k] \in {"no", "made"} => k \in DOMAIN parts[d][m][0]
      BY <2>1, <3>1 DEF PlainInv, SchemasHoldLeaves
    <3>3. \A k \in Children(m) : k \in Nodes /\ k # Root /\ tree[k].parent = m
      BY PlainTree DEF PlainInv
    <3>4. CASE taken /\ d = c /\ m = p
      <4> DEFINE variant == parts[c][p][0]
      <4>1. parts[c][p] = Only(variant) /\ parts'[c][p] = Only(With(variant, n, Leaves(n)))
        <5>1. parts[c][p] = Only(variant)
          BY <3>2, <3>4 DEF IsMadeOf
        <5>2. parts'[c][p] = Spread(parts[c][p], n, <<Leaves(n)>>)
          BY <1>8, <3>1, <3>4
        <5> HIDE DEF variant, p
        <5> QED
          BY <5>1, <5>2, SpreadOfOne
      <4> HIDE DEF variant
      <4>2. parts'[d][m][0] = With(variant, n, Leaves(n)) /\ parts'[d][m] = Only(parts'[d][m][0])
        BY <3>4, <4>1 DEF Only
      <4>3. /\ DOMAIN variant \subseteq Children(m) /\ \A k \in DOMAIN variant : variant[k] = Leaves(k)
            /\ \A k \in Children(m) :
                 making[d][m] = "adapter" \/ making[d][k] \in {"no", "made"} => k \in DOMAIN variant
        BY <3>2, <3>4 DEF IsMadeOf, variant
      <4>4. n \in Children(m)
        BY <1>4, <3>4
      <4>5. IsMadeOf(parts'[d][m], m)
        BY <4>2, <4>3, <4>4 DEF IsMadeOf, With
      <4>6. DOMAIN parts'[d][m][0] = DOMAIN variant \cup {n}
        BY <4>2 DEF With
      <4>7. ASSUME NEW k \in Children(m), making'[d][m] = "adapter" \/ making'[d][k] \in {"no", "made"}, k # n
            PROVE  k \in DOMAIN variant
        BY <1>7, <3>1, <3>3, <4>3, <4>7
      <4> QED
        BY <4>5, <4>6, <4>7
    <3>5. CASE ~(taken /\ d = c /\ m = p)
      <4>1. parts'[d][m] = parts[d][m]
        BY <1>8, <3>1, <3>5
      <4>2. ASSUME NEW k \in Children(m), making'[d][k] \in {"no", "made"}, making[d][m] # "adapter"
            PROVE  making[d][k] \in {"no", "made"}
        <5>1. ~(d = c /\ k = n)
          BY <2>1, <3>1, <3>3, <3>5, <4>2
        <5> QED
          BY <1>7, <3>3, <4>2, <5>1
      <4> QED
        BY <3>1, <3>2, <4>1, <4>2
    <3> QED
      BY <3>4, <3>5
  <2>2. \A m \in transformed' : m \in Nodes /\ schemas'[m] = <<Leaves(m)>>
    BY <1>1, <1>3 DEF PlainInv, SchemasHoldLeaves, TranslationInv, TransformedAreWhole
  <2>3. ~tries' /\ DOMAIN schemas' = Nodes
    BY <1>1, <1>3, <1>10 DEF PlainInv, SchemasHoldLeaves
  <2>4. empty' = {} /\ \A m \in Nodes \ {Root} : m \in built'
    BY <1>1 DEF PlainInv, SchemasHoldLeaves
  <2> HIDE DEF taken, p
  <2> QED
    BY <1>1, <1>6, <2>1, <2>2, <2>3, <2>4, TreeStays DEF SchemasHoldLeaves
<1> QED
  BY <1>1, <1>11, <1>12, TreeStays DEF PlainInv

\* The other steps leave what is translated alone.
LEMMA OthersKeepPlain ==
  ASSUME Types, PlainInv, UNCHANGED <<tree, empty, transformed, fallbacks, parsers, keys, schemas, tries, parts>>,
         built \subseteq built',
         \A c \in Calls, n \in Nodes : making'[c][n] # making[c][n] => \A m \in Nodes : making'[c][m] = "no"
  PROVE  PlainInv'
<1>1. \A n : NeedsFallback(n)' <=> NeedsFallback(n)
  BY DEF NeedsFallback
<1>2. KeysNeedFallbacks'
  BY <1>1, TreeStays DEF PlainInv, KeysNeedFallbacks
<1>3. SchemasHoldLeaves'
  <2>1. ASSUME NEW c \in Calls, NEW n \in Nodes, IsObject(n), making'[c][n] \in {"entries", "adapter"}
        PROVE  making'[c][n] = making[c][n] /\ \A m \in Children(n) : making'[c][m] = making[c][m]
    BY <2>1, PlainTree DEF PlainInv
  <2> QED
    BY <2>1, TreeStays DEF PlainInv, SchemasHoldLeaves, HasEach
<1> QED
  BY <1>2, <1>3, TreeStays DEF PlainInv

LEMMA InitImpliesPlainInv == Init /\ IsPlain => PlainInv
<1> SUFFICES ASSUME Init, IsPlain PROVE PlainInv
  OBVIOUS
<1>1. KeysNeedFallbacks
  BY DEF Init, InitTranslation, KeysNeedFallbacks
<1>2. SchemasHoldLeaves
  BY DEF Init, InitTranslation, SchemasHoldLeaves, IsPlain, HasEach
<1> QED
  BY <1>1, <1>2 DEF PlainInv

-----------------------------------------------------------------------------
(* Leaves, and the fallbacks below a schema.                                *)

\* What the schema assumptions say of a leaf.
LEMMA LeafOptions ==
  ASSUME Types, NEW n \in Nodes
  PROVE  /\ tree[n].limit \in {"none", "adapter", "palmares"}
         /\ tree[n].parser \in {"none", "adapter", "palmares"}
         /\ tree[n].optional \in BOOLEAN /\ tree[n].toInternal \in BOOLEAN
BY SchemaAssumptions DEF Types, Nodes

\* What a translated leaf leaves to Palmares.
LEMMA TranslatedLeaf ==
  ASSUME FallbacksInv, PlainInv, NEW n \in transformed, IsLeaf(n)
  PROVE  /\ n \in Nodes
         /\ fallbacks[n] = IF tree[n].limit = "palmares" THEN {"optional", "type", "limit"} ELSE {}
         /\ n \in parsers <=> tree[n].parser = "palmares"
         /\ tree[n].parser = "adapter" => tree[n].limit # "palmares"
<1>1. n \in Nodes /\ Appended(n) \subseteq fallbacks[n] /\ (tree[n].parser = "palmares" => n \in parsers)
  BY DEF FallbacksInv, TranslationInv, TransformedAreWhole, RequiredFallbacks
<1>2. fallbacks[n] = Appended(n) /\ (n \in parsers => tree[n].parser = "palmares")
  BY <1>1 DEF PlainInv, KeysNeedFallbacks
<1>3. Appended(n) = IF tree[n].limit = "palmares" THEN {"optional", "type", "limit"} ELSE {}
  BY <1>1 DEF Appended, PlainInv, IsPlain
<1> QED
  BY <1>1, <1>2, <1>3 DEF PlainInv, IsPlain

\* The adapter accepts what fits, parsed or not.
LEMMA AdapterAcceptsParsed ==
  ASSUME FallbacksInv, PlainInv, NEW n \in Nodes, IsLeaf(n), NEW v \in Forms, LeafFits(n, v)
  PROVE  AdapterErrorsOfLeaf(n, ParsedBy(n, v)) = {}
<1>1. tree[n].limit \in {"none", "adapter", "palmares"} /\ tree[n].parser \in {"none", "adapter", "palmares"}
  BY LeafOptions DEF FallbacksInv
<1> QED
  BY <1>1 DEF Forms, LeafFits, AdapterErrorsOfLeaf, ParsedBy, HasType

\* Where Palmares has nothing to do, the adapter accepts what fits.
LEMMA AdapterJudges ==
  ASSUME FallbacksInv, PlainInv, NEW n \in transformed, IsLeaf(n), ~NeedsFallback(n), NEW v \in Forms
  PROVE  AdapterErrorsOfLeaf(n, v) = {} <=> LeafFits(n, v)
<1>1. n \in Nodes /\ tree[n].limit \in {"none", "adapter"} /\ tree[n].parser \in {"none", "adapter"}
  BY TranslatedLeaf, LeafOptions DEF FallbacksInv, NeedsFallback
<1> QED
  BY <1>1 DEF Forms, LeafFits, AdapterErrorsOfLeaf, HasType

\* And Palmares and the adapter together accept what fits.
LEMMA BothJudge ==
  ASSUME FallbacksInv, PlainInv, NEW n \in transformed, IsLeaf(n), NEW v \in Forms
  PROVE  FallbackErrors(n, ParsedBy(n, v)) \cup AdapterErrorsOfLeaf(n, ParsedBy(n, v)) = {}
           <=> LeafFits(n, v)
<1> DEFINE w == ParsedBy(n, v)
<1>1. /\ n \in Nodes
      /\ tree[n].limit \in {"none", "adapter", "palmares"} /\ tree[n].parser \in {"none", "adapter", "palmares"}
      /\ fallbacks[n] = IF tree[n].limit = "palmares" THEN {"optional", "type", "limit"} ELSE {}
      /\ tree[n].parser = "adapter" => tree[n].limit # "palmares"
  BY TranslatedLeaf, LeafOptions DEF FallbacksInv
<1>2. CASE tree[n].limit = "palmares"
  BY <1>1, <1>2 DEF Forms, LeafFits, AdapterErrorsOfLeaf, FallbackErrors, HasType, ParsedBy
<1>3. CASE tree[n].limit # "palmares"
  <2>1. FallbackErrors(n, w) = {}
    BY <1>1, <1>3 DEF FallbackErrors
  <2>2. AdapterErrorsOfLeaf(n, w) = {} <=> LeafFits(n, v)
    BY <1>1, <1>3 DEF Forms, LeafFits, AdapterErrorsOfLeaf, HasType, ParsedBy
  <2> QED
    BY <2>1, <2>2
<1> QED
  BY <1>2, <1>3

\* A translated object needs a fallback if one of its keys does.
LEMMA NeedsRise ==
  ASSUME FallbacksInv, PlainInv, NEW n \in transformed
  PROVE  /\ n \in Nodes /\ Children(n) \subseteq transformed
         /\ (\E m \in Children(n) : NeedsFallback(m)) => "object" \in fallbacks[n] /\ NeedsFallback(n)
<1>1. n \in Nodes /\ Below(n) = Children(n) /\ Below(n) \subseteq transformed
  BY EntriesAreChildren DEF FallbacksInv, TranslationInv, TransformedAreWhole
<1>2. (\E m \in Children(n) : NeedsFallback(m)) => "object" \in fallbacks[n]
  <2> SUFFICES ASSUME NEW m \in Children(n), NeedsFallback(m) PROVE "object" \in fallbacks[n]
    OBVIOUS
  <2>1. IsObject(n) /\ ~IsLeaf(n) /\ ~IsUnion(n)
    BY <1>1, PlainTree DEF PlainInv, FallbacksInv, IsPlain
  <2>2. "object" \in RequiredFallbacks(n)
    BY <1>1, <2>1 DEF RequiredFallbacks, Below
  <2> QED
    BY <2>2 DEF FallbacksInv, TranslationInv, TransformedAreWhole
<1> QED
  BY <1>1, <1>2 DEF NeedsFallback

LEMMA InsideIsLeast ==
  ASSUME NEW n, NEW S \in SUBSET Nodes, n \in S, \A m \in S : Children(m) \subseteq S
  PROVE  Inside(n) \subseteq S
BY DEF Inside, IsClosedBelow

\* Nothing below a schema without fallbacks has any.
LEMMA NothingIsNeededBelow ==
  ASSUME FallbacksInv, PlainInv, NEW n \in transformed, ~NeedsFallback(n), NEW m \in Leaves(n)
  PROVE  m \in transformed /\ ~NeedsFallback(m)
<1> DEFINE S == {k \in transformed : ~NeedsFallback(k)}
<1>1. n \in S /\ S \subseteq Nodes /\ \A k \in S : Children(k) \subseteq S
  BY NeedsRise
<1> HIDE DEF S
<1>2. m \in S
  BY <1>1, InsideIsLeast DEF Leaves
<1> QED
  BY <1>2 DEF S

\* When the keys of an object that need it are over, everything below is.
LEMMA BelowIsOver ==
  ASSUME FallbacksInv, PlainInv, NEW c, StagesNest(c), stage[c][Root] # "over", NEW n \in transformed,
         \A m \in Children(n) : NeedsFallback(m) => stage[c][m] = "over",
         NEW m \in Inside(n)
  PROVE  m \in transformed /\ (m # n /\ NeedsFallback(m) => stage[c][m] = "over")
<1> DEFINE S == {k \in transformed : k = n \/ (NeedsFallback(k) => stage[c][k] = "over")}
<1>1. n \in S /\ S \subseteq Nodes
  BY NeedsRise
<1>2. \A k \in S : Children(k) \subseteq S
  <2> SUFFICES ASSUME NEW k \in S, NEW l \in Children(k) PROVE l \in S
    OBVIOUS
  <2>1. k \in Nodes /\ l \in transformed /\ (NeedsFallback(l) => NeedsFallback(k))
    BY NeedsRise
  <2>2. CASE k = n
    BY <2>1, <2>2
  <2>3. CASE NeedsFallback(l) /\ stage[c][k] = "over"
    BY <2>1, <2>3 DEF StagesNest
  <2> QED
    BY <2>1, <2>2, <2>3
<1> HIDE DEF S
<1>3. m \in S
  BY <1>1, <1>2, InsideIsLeast
<1> QED
  BY <1>3 DEF S

-----------------------------------------------------------------------------
(* The calls.                                                               *)

\* A step of c is none of another call.
OnlyOf(c) ==
  \A d \in Calls \ {c} :
    /\ stage'[d] = stage[d] /\ input'[d] = input[d] /\ value'[d] = value[d] /\ held'[d] = held[d]
    /\ errors'[d] = errors[d] /\ seen'[d] = seen[d] /\ bubble'[d] = bubble[d] /\ turns'[d] = turns[d]

Shapes ==
  /\ HasEach(held) /\ HasEach(errors) /\ HasEach(turns)
  /\ DOMAIN input = Calls /\ DOMAIN value = Calls /\ DOMAIN seen = Calls /\ DOMAIN bubble = Calls

\* What other calls do to the translation changes nothing for a call that
\* validates by it.
LEMMA CallStays ==
  ASSUME FallbacksInv, PlainInv, PlainInv', StaysWhole, NEW c \in Calls, CallInv(c),
         stage'[c] = stage[c], input'[c] = input[c], value'[c] = value[c], held'[c] = held[c],
         errors'[c] = errors[c], seen'[c] = seen[c], bubble'[c] = bubble[c], turns'[c] = turns[c]
  PROVE  CallInv(c)'
<1>1. UNCHANGED tree /\ \A n \in transformed : fallbacks'[n] = fallbacks[n] /\ (NeedsFallback(n)' <=> NeedsFallback(n))
  BY DEF StaysWhole, NeedsFallback
<1>2. \A n \in Nodes : stage[c][n] \in Validating => n \in transformed
  BY DEF FallbacksInv, ValidatingAreTransformed
<1>3. StagesNest(c)'
  <2> SUFFICES ASSUME NEW n \in Nodes
               PROVE  /\ n # Root /\ stage[c][n] # "idle" =>
                           /\ stage[c][n] \in Validating /\ NeedsFallback(n)'
                           /\ stage[c][tree[n].parent] \in {"within", "judged", "over"}
                           /\ stage[c][Root] \in {"within", "judged"}
                      /\ stage[c][n] = "within" =>
                           IsObject(n) /\ fallbacks'[n] # {} /\ \A m \in keys'[n] : stage[c][m] # "idle"
                      /\ stage[c][n] \in {"judged", "over"} /\ stage[c][Root] # "over" =>
                           \A m \in Children(n) : NeedsFallback(m)' => stage[c][m] = "over"
    BY <1>1, TreeStays DEF StagesNest
  <2>1. n # Root /\ stage[c][n] # "idle" =>
          /\ stage[c][n] \in Validating /\ NeedsFallback(n)'
          /\ stage[c][tree[n].parent] \in {"within", "judged", "over"}
          /\ stage[c][Root] \in {"within", "judged"}
    BY <1>1, <1>2 DEF CallInv, StagesNest
  <2>2. ASSUME stage[c][n] = "within"
        PROVE  IsObject(n) /\ fallbacks'[n] # {} /\ \A m \in keys'[n] : stage[c][m] # "idle"
    <3>1. n \in transformed /\ IsObject(n) /\ fallbacks[n] # {} /\ \A m \in keys[n] : stage[c][m] # "idle"
      BY <1>2, <2>2 DEF Validating, CallInv, StagesNest
    <3>2. Children(n) \subseteq transformed /\ keys[n] = {m \in Children(n) : NeedsFallback(m)}
      BY <3>1 DEF PlainInv, KeysNeedFallbacks
    <3>3. keys'[n] = {m \in Children(n) : NeedsFallback(m)'}
      BY <1>1, <3>1, TreeStays DEF PlainInv, KeysNeedFallbacks
    <3> QED
      BY <1>1, <3>1, <3>2, <3>3
  <2>3. ASSUME stage[c][n] \in {"judged", "over"}, stage[c][Root] # "over"
        PROVE  \A m \in Children(n) : NeedsFallback(m)' => stage[c][m] = "over"
    <3>1. n \in transformed
      BY <1>2, <2>3 DEF Validating
    <3>2. Children(n) \subseteq transformed
      BY <3>1, NeedsRise
    <3> QED
      BY <1>1, <2>3, <3>2 DEF CallInv, StagesNest
  <2> QED
    BY <2>1, <2>2, <2>3
<1>4. ValuesAreParsed(c)'
  BY <1>1, TreeStays DEF CallInv, ValuesAreParsed
<1>5. \A n : FitsBelow(c, n)' <=> FitsBelow(c, n)
  BY <1>1, TreeStays DEF FitsBelow
<1>6. ErrorsTell(c)'
  BY <1>1, <1>5, TreeStays DEF CallInv, ErrorsTell
<1>7. TurnsAreTaken(c)'
  BY <1>1, <1>5, TreeStays DEF CallInv, TurnsAreTaken, IsOnlyInternal
<1> QED
  BY <1>3, <1>4, <1>6, <1>7 DEF CallInv

\* So a step of a call has to be looked at for this call only.
LEMMA OneCallSteps ==
  ASSUME FallbacksInv, AcceptInv, PlainInv', StaysWhole, NEW c \in Calls,
         OnlyOf(c), Shapes', CallInv(c)'
  PROVE  AcceptInv'
<1>1. \A d \in Calls \ {c} : CallInv(d)'
  BY CallStays DEF AcceptInv, OnlyOf
<1> QED
  BY <1>1 DEF AcceptInv, Shapes

\* When nothing is translated.
LEMMA QuietSteps ==
  ASSUME FallbacksInv, AcceptInv, UNCHANGED <<schemaVars, parts>>,
         \/ UNCHANGED making
         \/ \E c \in Calls : making' = [making EXCEPT ![c] = [n \in Nodes |-> "no"]]
  PROVE  /\ PlainInv' /\ StaysWhole
         /\ UNCHANGED <<tree, built, transformed, fallbacks, parsers, keys>>
         /\ \A n : (NeedsFallback(n)' <=> NeedsFallback(n))
<1>1. UNCHANGED <<tree, built, empty, transformed, fallbacks, parsers, keys, schemas, tries, parts>>
  BY DEF schemaVars
<1>2. \A c \in Calls, n \in Nodes : making'[c][n] # making[c][n] => \A m \in Nodes : making'[c][m] = "no"
  <2>1. ASSUME NEW c \in Calls, making' = [making EXCEPT ![c] = [n \in Nodes |-> "no"]],
               NEW d \in Calls, NEW n \in Nodes, making'[d][n] # making[d][n]
        PROVE  \A m \in Nodes : making'[d][m] = "no"
    BY <2>1 DEF FallbacksInv, Types
  <2> QED
    BY <2>1
<1>3. PlainInv'
  BY <1>1, <1>2, OthersKeepPlain DEF AcceptInv, FallbacksInv
<1>4. StaysWhole
  BY <1>1 DEF StaysWhole, Entries
<1> QED
  BY <1>1, <1>3, <1>4 DEF NeedsFallback

\* A schema is judged, after the keys that had to be parsed before it.
LEMMA JudgingAccepts ==
  ASSUME FallbacksInv, AcceptInv, NEW c \in Calls, NEW n \in Nodes, NEW es,
         stage[c][n] \in {"making", "parsing", "within"}, n \in transformed,
         Judged(c, n, es), es = {} <=> FitsBelow(c, n),
         \A m \in Children(n) : NeedsFallback(m) => stage[c][m] = "over",
         UNCHANGED <<schemaVars, makingVars, input, value, held, bubble>>,
         DOMAIN seen' = Calls, \A d \in Calls \ {c} : seen'[d] = seen[d],
         \A e \in seen'[c] : e \in seen[c] \/ e.at = n
  PROVE  AcceptInv'
<1>1. /\ errors' = [errors EXCEPT ![c] = [m \in Nodes |->
              IF m = n THEN es ELSE IF m \in Children(n) THEN {} ELSE @[m]]]
      /\ stage' = [stage EXCEPT ![c][n] = "judged"]
      /\ turns' = IF TurnsNow(c, n, es) THEN [turns EXCEPT ![c][n] = 1] ELSE turns
  BY DEF Judged, Children
<1>2. /\ PlainInv' /\ StaysWhole /\ UNCHANGED <<tree, built, transformed, fallbacks, parsers, keys>>
      /\ \A m : NeedsFallback(m)' <=> NeedsFallback(m)
  BY QuietSteps DEF makingVars
<1>3. /\ \A m \in Nodes : stage'[c][m] = IF m = n THEN "judged" ELSE stage[c][m]
      /\ \A m \in Nodes : errors'[c][m] = IF m = n THEN es ELSE IF m \in Children(n) THEN {} ELSE errors[c][m]
      /\ \A m \in Nodes : m # n => turns'[c][m] = turns[c][m]
      /\ turns'[c][n] = IF TurnsNow(c, n, es) THEN 1 ELSE turns[c][n]
      /\ \A d \in Calls \ {c} : stage'[d] = stage[d] /\ errors'[d] = errors[d] /\ turns'[d] = turns[d]
  BY <1>1 DEF FallbacksInv, Types, AcceptInv, HasEach
<1>4. OnlyOf(c) /\ Shapes'
  BY <1>1, <1>2, <1>3, TreeStays DEF OnlyOf, AcceptInv, Shapes, HasEach
<1>5. CallInv(c) /\ StagesNest(c) /\ ValuesAreParsed(c) /\ ErrorsTell(c) /\ TurnsAreTaken(c)
  BY DEF AcceptInv, CallInv
<1>6. /\ Root \in Nodes /\ ~(IsObject(n) /\ IsLeaf(n)) /\ Children(n) \subseteq Nodes
      /\ \A m \in Nodes : Children(m) \subseteq Nodes /\ \A k \in Children(m) : k # Root /\ tree[k].parent = m
      /\ \A m \in Nodes \ {Root} : tree[m].parent \in Nodes \ {m} /\ m \in Children(tree[m].parent)
  BY PlainTree DEF AcceptInv, PlainInv, FallbacksInv
<1>7. /\ stage[c][Root] \notin {"idle", "over"} /\ stage'[c][Root] # "over"
      /\ \A m \in Nodes : stage'[c][m] = "over" <=> stage[c][m] = "over"
  BY <1>3, <1>5, <1>6 DEF StagesNest
<1>8. \A m \in Nodes : n \in Children(m) => stage[c][m] = "within"
  BY <1>5, <1>6, <1>7 DEF StagesNest
<1>9. StagesNest(c)'
  <2>1. ASSUME NEW m \in Nodes, m # Root, stage'[c][m] # "idle"
        PROVE  /\ stage'[c][m] \in Validating /\ NeedsFallback(m)
               /\ stage'[c][tree[m].parent] \in {"within", "judged", "over"}
               /\ stage'[c][Root] \in {"within", "judged"}
    <3>1. stage[c][m] # "idle" /\ tree[m].parent \in Nodes
      BY <1>3, <1>6, <2>1
    <3> QED
      BY <1>3, <1>5, <1>6, <2>1, <3>1 DEF StagesNest, Validating
  <2>2. ASSUME NEW m \in Nodes, stage'[c][m] = "within"
        PROVE  IsObject(m) /\ fallbacks[m] # {} /\ \A k \in keys[m] : stage'[c][k] # "idle"
    <3>1. keys[m] \subseteq Nodes
      BY DEF FallbacksInv, Types
    <3> QED
      BY <1>3, <1>5, <2>2, <3>1 DEF StagesNest
  <2>3. ASSUME NEW m \in Nodes, stage'[c][m] \in {"judged", "over"}, NEW k \in Children(m), NeedsFallback(k)
        PROVE  stage'[c][k] = "over"
    BY <1>3, <1>5, <1>6, <1>7, <1>8, <2>3 DEF StagesNest
  <2> QED
    BY <1>2, <2>1, <2>2, <2>3, TreeStays DEF StagesNest
<1>10. ValuesAreParsed(c)'
  <2>1. Places \subseteq Nodes /\ \A m \in Places : IsLeaf(m)
    BY LeavesOfRoot DEF FallbacksInv, AcceptInv, PlainInv
  <2>2. \A m \in Places : stage'[c][m] \in {"making", "parsing", "judged"} => stage[c][m] \in {"making", "parsing", "judged"}
    BY <1>3, <1>5, <1>6, <2>1 DEF StagesNest
  <2>3. stage[c][Root] \notin {"idle", "over"}
    BY <1>7
  <2> QED
    BY <1>2, <1>5, <1>7, <2>1, <2>2, <2>3, TreeStays DEF ValuesAreParsed
<1>11. \A m : FitsBelow(c, m)' <=> FitsBelow(c, m)
  BY <1>2, TreeStays DEF FitsBelow
<1>12. ErrorsTell(c)'
  <2>1. ASSUME NEW m \in Nodes, stage'[c][m] \in {"judged", "over"}, m = Root \/ stage'[c][tree[m].parent] = "within"
        PROVE  errors'[c][m] = {} <=> FitsBelow(c, m)
    <3>1. CASE m = n
      BY <1>3, <3>1
    <3>2. CASE m # n
      <4>1. m # Root => stage[c][tree[m].parent] = "within" /\ tree[m].parent # n
        BY <1>3, <1>6, <2>1
      <4>2. m \notin Children(n)
        BY <1>6, <4>1
      <4> QED
        BY <1>3, <1>5, <2>1, <3>2, <4>1, <4>2 DEF ErrorsTell
    <3> QED
      BY <3>1, <3>2
  <2>2. \A e \in seen'[c] : e.at \in Nodes /\ stage'[c][e.at] \in {"judged", "over"}
    BY <1>3, <1>5 DEF ErrorsTell
  <2> QED
    BY <1>2, <1>11, <2>1, <2>2, TreeStays DEF ErrorsTell
<1>13. TurnsAreTaken(c)'
  <2>1. bubble'[c] # << >> => \E m \in Nodes : tree[m].toInternal /\ stage'[c][m] = "over"
    BY <1>5, <1>7 DEF TurnsAreTaken
  <2>2. ASSUME NEW m \in Nodes, IsOnlyInternal(m), stage'[c][m] \in {"judged", "over"}, FitsBelow(c, m)
        PROVE  turns'[c][m] = 1
    <3>1. CASE m = n
      <4>1. bubble[c] = << >>
        BY <1>5, <2>2, <3>1 DEF TurnsAreTaken, IsOnlyInternal
      <4>2. TurnsNow(c, n, es)
        BY <2>2, <3>1, <4>1 DEF TurnsNow, IsOnlyInternal
      <4> QED
        BY <1>3, <3>1, <4>2
    <3>2. CASE m # n
      BY <1>3, <1>5, <1>7, <2>2, <3>2 DEF TurnsAreTaken
    <3> QED
      BY <3>1, <3>2
  <2> QED
    BY <1>2, <1>7, <1>11, <2>1, <2>2, TreeStays DEF TurnsAreTaken, IsOnlyInternal
<1>14. CallInv(c)'
  BY <1>9, <1>10, <1>12, <1>13 DEF CallInv
<1> QED
  BY <1>2, <1>4, <1>14, OneCallSteps

\* Who is to be validated is translated, and in a call that is not over.
LEMMA ReadyToJudge ==
  ASSUME FallbacksInv, AcceptInv, NEW c \in Calls, NEW n \in Nodes,
         IsReady(c, n) \/ stage[c][n] \in {"within", "judged"}
  PROVE  /\ n \in transformed /\ stage[c][Root] \notin {"idle", "over"}
         /\ n # Root => stage[c][n] # "making"
<1>1. n \in transformed
  BY ReadyIsTransformed DEF Validating
<1>2. n # Root => stage[c][n] # "making" /\ stage[c][Root] \in {"within", "judged"}
  BY DEF AcceptInv, CallInv, StagesNest, IsReady, Validating
<1> QED
  BY <1>1, <1>2 DEF IsReady

LEMMA JudgeLeafAccepts ==
  ASSUME FallbacksInv, AcceptInv, NEW c \in Calls, NEW n \in Nodes, JudgeLeaf(c, n)
  PROVE  AcceptInv'
<1> DEFINE own == {e \in FallbackErrors(n, held[c][n]) : e \notin seen[c]}
           es == own \cup AdapterErrors(n, held[c][n])
           v == input[c][n]
<1>1. /\ IsReady(c, n) /\ IsLeaf(n) /\ Judged(c, n, es)
      /\ seen' = [seen EXCEPT ![c] = @ \cup es]
      /\ UNCHANGED <<schemaVars, makingVars, input, value, held, bubble>>
  BY DEF JudgeLeaf
<1>2. n \in transformed /\ stage[c][Root] \notin {"idle", "over"} /\ stage[c][n] \in {"making", "parsing"}
  BY <1>1, ReadyToJudge DEF IsReady
<1>3. n \in Places /\ Place(n) = n /\ Leaves(n) = {n} /\ Children(n) = {}
  BY <1>1, LeavesOfRoot, LeavesOfLeaf, PlainTree DEF FallbacksInv, AcceptInv, PlainInv
<1>4. v \in Forms /\ held[c][n] = ParsedBy(n, v)
  BY <1>2, <1>3 DEF AcceptInv, CallInv, ValuesAreParsed
<1>5. \A w : /\ \A e \in FallbackErrors(n, w) : e.at = n
             /\ \A e \in AdapterErrorsOfLeaf(n, w) : e.at = n
  BY <1>3 DEF FallbackErrors, AdapterErrorsOfLeaf, Error
<1>6. AdapterErrors(n, held[c][n]) = AdapterErrorsOfLeaf(n, held[c][n])
  BY <1>1 DEF AdapterErrors
<1>7. own = FallbackErrors(n, held[c][n])
  BY <1>2, <1>5 DEF AcceptInv, CallInv, ErrorsTell
<1>8. es = {} <=> LeafFits(n, v)
  BY <1>1, <1>2, <1>4, <1>6, <1>7, BothJudge DEF AcceptInv
<1>9. es = {} <=> FitsBelow(c, n)
  BY <1>3, <1>8 DEF FitsBelow
<1>10. \A e \in es : e.at = n
  BY <1>5, <1>6
<1> HIDE DEF es
<1>11. /\ DOMAIN seen' = Calls /\ \A d \in Calls \ {c} : seen'[d] = seen[d]
       /\ \A e \in seen'[c] : e \in seen[c] \/ e.at = n
  BY <1>1, <1>10 DEF AcceptInv
<1> QED
  BY <1>1, <1>2, <1>3, <1>9, <1>11, JudgingAccepts

\* What the adapter says of an object, whose keys are over, and what they said.
LEMMA ObjectIsJudged ==
  ASSUME FallbacksInv, AcceptInv, NEW c \in Calls, NEW n \in transformed, IsObject(n),
         stage[c][Root] \notin {"idle", "over"}, NEW ofKeys,
         \A m \in Children(n) : NeedsFallback(m) => stage[c][m] = "over",
         ofKeys = {} <=> \A m \in Children(n) : NeedsFallback(m) => FitsBelow(c, m)
  PROVE  ofKeys \cup ObjectErrors(c, n) = {} <=> FitsBelow(c, n)
<1>1. n \in Nodes /\ Children(n) \subseteq transformed /\ Children(n) \subseteq Nodes
  BY NeedsRise DEF FallbacksInv, AcceptInv, TranslationInv, TransformedAreWhole
<1>2. Leaves(n) = UNION {Leaves(m) : m \in Children(n)}
  BY <1>1, LeavesOfObject DEF FallbacksInv, AcceptInv, PlainInv
<1>3. \A m \in Leaves(n) : m \in Nodes /\ IsLeaf(m) /\ m \in Places /\ Place(m) = m
  BY LeavesAreLeaves, LeavesOfRoot, PlainTree DEF FallbacksInv, AcceptInv, PlainInv
<1>4. ObjectErrors(c, n) = UNION {AdapterErrorsOfLeaf(m, value[c][m]) : m \in Leaves(n)}
  <2>1. ~tries /\ schemas[n] = <<Leaves(n)>>
    BY DEF AcceptInv, PlainInv, SchemasHoldLeaves
  <2>2. ObjectErrors(c, n) = VariantErrors(c, Leaves(n))
    BY <2>1 DEF ObjectErrors
  <2>3. \A m \in Leaves(n) : AdapterErrors(m, value[c][Place(m)]) = AdapterErrorsOfLeaf(m, value[c][m])
    BY <1>3 DEF AdapterErrors
  <2> QED
    BY <2>2, <2>3 DEF VariantErrors
<1>5. \A m \in Leaves(n) : input[c][m] \in Forms /\ value[c][m] =
        IF stage[c][m] = "over" /\ LeafFits(m, input[c][m]) THEN ParsedBy(m, input[c][m]) ELSE input[c][m]
  BY <1>3 DEF AcceptInv, CallInv, ValuesAreParsed
<1>6. \A m \in Leaves(n) : m \in transformed /\ (NeedsFallback(m) => stage[c][m] = "over")
  <2>1. StagesNest(c) /\ PlainInv
    BY DEF AcceptInv, CallInv
  <2> SUFFICES ASSUME NEW m \in Leaves(n) PROVE m \in transformed /\ (NeedsFallback(m) => stage[c][m] = "over")
    OBVIOUS
  <2>2. m \in Inside(n) /\ m # n
    BY <1>1, <1>3, PlainTree DEF Leaves, FallbacksInv, AcceptInv, PlainInv
  <2> QED
    BY <2>1, <2>2, BelowIsOver
<1>7. ASSUME NEW m \in Leaves(n), LeafFits(m, input[c][m])
      PROVE  AdapterErrorsOfLeaf(m, value[c][m]) = {}
  <2>1. CASE stage[c][m] = "over"
    BY <1>3, <1>5, <1>7, <2>1, AdapterAcceptsParsed DEF AcceptInv
  <2>2. CASE ~NeedsFallback(m) /\ stage[c][m] # "over"
    BY <1>3, <1>5, <1>6, <1>7, <2>2, AdapterJudges DEF AcceptInv
  <2> QED
    BY <1>6, <2>1, <2>2
<1>8. ASSUME NEW k \in Children(n), ~NeedsFallback(k), NEW m \in Leaves(k), AdapterErrorsOfLeaf(m, value[c][m]) = {}
      PROVE  LeafFits(m, input[c][m])
  <2>1. m \in transformed /\ ~NeedsFallback(m) /\ m \in Leaves(n)
    BY <1>1, <1>2, <1>8, NothingIsNeededBelow DEF AcceptInv
  <2>2. tree[m].parser # "palmares"
    BY <1>3, <2>1, TranslatedLeaf DEF AcceptInv, NeedsFallback
  <2>3. value[c][m] = input[c][m]
    BY <1>5, <2>1, <2>2 DEF ParsedBy
  <2> QED
    BY <1>3, <1>5, <1>8, <2>1, <2>3, AdapterJudges DEF AcceptInv
<1>9. ASSUME FitsBelow(c, n) PROVE ofKeys \cup ObjectErrors(c, n) = {}
  <2>1. \A m \in Children(n) : FitsBelow(c, m)
    BY <1>2, <1>9 DEF FitsBelow
  <2>2. \A m \in Leaves(n) : AdapterErrorsOfLeaf(m, value[c][m]) = {}
    BY <1>7, <1>9 DEF FitsBelow
  <2> QED
    BY <1>4, <2>1, <2>2
<1>10. ASSUME ofKeys \cup ObjectErrors(c, n) = {} PROVE FitsBelow(c, n)
  <2>1. /\ ofKeys = {}
        /\ \A m \in Leaves(n) : AdapterErrorsOfLeaf(m, value[c][m]) = {}
    BY <1>4, <1>10
  <2> SUFFICES ASSUME NEW m \in Leaves(n) PROVE LeafFits(m, input[c][m])
    BY DEF FitsBelow
  <2>2. PICK k \in Children(n) : m \in Leaves(k)
    BY <1>2
  <2>3. CASE NeedsFallback(k)
    BY <2>1, <2>2, <2>3 DEF FitsBelow
  <2>4. CASE ~NeedsFallback(k)
    BY <1>8, <2>1, <2>2, <2>4
  <2> QED
    BY <2>3, <2>4
<1> QED
  BY <1>9, <1>10

LEMMA CloseObjectAccepts ==
  ASSUME FallbacksInv, AcceptInv, NEW c \in Calls, NEW n \in Nodes, CloseObject(c, n)
  PROVE  AcceptInv'
<1> DEFINE ofKeys == IF stage[c][n] = "within" THEN UNION {errors[c][m] : m \in keys[n]} ELSE {}
<1>1. /\ IsObject(n) /\ Judged(c, n, ofKeys \cup ObjectErrors(c, n))
      /\ \/ stage[c][n] = "within" /\ \A m \in keys[n] : stage[c][m] = "over"
         \/ IsReady(c, n) /\ "object" \notin fallbacks[n]
      /\ UNCHANGED <<schemaVars, makingVars, input, value, held, bubble, seen>>
  BY DEF CloseObject
<1>2. n \in transformed /\ stage[c][Root] \notin {"idle", "over"} /\ stage[c][n] \in {"making", "parsing", "within"}
  BY <1>1, ReadyToJudge DEF IsReady
<1>3. /\ \A m \in Children(n) : NeedsFallback(m) => stage[c][m] = "over"
      /\ ofKeys = {} <=> \A m \in Children(n) : NeedsFallback(m) => FitsBelow(c, m)
  <2>1. CASE stage[c][n] = "within"
    <3>1. keys[n] = {m \in Children(n) : NeedsFallback(m)} /\ \A m \in keys[n] : stage[c][m] = "over"
      BY <1>1, <2>1 DEF IsReady, AcceptInv, PlainInv, KeysNeedFallbacks, CallInv, StagesNest
    <3>2. \A m \in Children(n) : m \in Nodes /\ tree[m].parent = n
      BY PlainTree DEF AcceptInv, PlainInv, FallbacksInv
    <3>3. \A m \in keys[n] : errors[c][m] = {} <=> FitsBelow(c, m)
      BY <2>1, <3>1, <3>2 DEF AcceptInv, CallInv, ErrorsTell
    <3> QED
      BY <2>1, <3>1, <3>3
  <2>2. CASE stage[c][n] # "within"
    <3>1. \A m \in Children(n) : ~NeedsFallback(m)
      BY <1>1, <1>2, <2>2, NeedsRise DEF AcceptInv
    <3> QED
      BY <2>2, <3>1
  <2> QED
    BY <2>1, <2>2
<1> HIDE DEF ofKeys
<1>4. ofKeys \cup ObjectErrors(c, n) = {} <=> FitsBelow(c, n)
  BY <1>1, <1>2, <1>3, ObjectIsJudged
<1>5. DOMAIN seen' = Calls /\ seen' = seen
  BY <1>1 DEF AcceptInv
<1> QED
  BY <1>1, <1>2, <1>3, <1>4, <1>5, JudgingAccepts

\* A key that is judged is delivered to the object that waits for it.
LEMMA DeliverAccepts ==
  ASSUME FallbacksInv, AcceptInv, NEW c \in Calls, NEW n \in Nodes, Deliver(c, n)
  PROVE  AcceptInv'
<1>1. /\ stage[c][n] = "judged" /\ n # Root
      /\ stage' = [stage EXCEPT ![c][n] = "over"]
      /\ value' = IF errors[c][n] = {} /\ ~IsObject(n) THEN [value EXCEPT ![c][n] = held[c][n]] ELSE value
      /\ bubble' = IF tree[n].toInternal THEN [bubble EXCEPT ![c] = Append(@, n)] ELSE bubble
      /\ held' = [held EXCEPT ![c][n] = "none"]
      /\ UNCHANGED <<schemaVars, makingVars, input, errors, seen, turns>>
  BY DEF Deliver
<1>2. /\ PlainInv' /\ StaysWhole /\ UNCHANGED <<tree, built, transformed, fallbacks, parsers, keys>>
      /\ \A m : NeedsFallback(m)' <=> NeedsFallback(m)
  BY <1>1, QuietSteps DEF makingVars
<1>3. /\ \A m \in Nodes : stage'[c][m] = IF m = n THEN "over" ELSE stage[c][m]
      /\ \A m \in Nodes : held'[c][m] = IF m = n THEN "none" ELSE held[c][m]
      /\ \A d \in Calls \ {c} : /\ stage'[d] = stage[d] /\ held'[d] = held[d]
                                /\ value'[d] = value[d] /\ bubble'[d] = bubble[d]
  BY <1>1 DEF FallbacksInv, Types, AcceptInv, HasEach
<1>4. OnlyOf(c) /\ Shapes'
  BY <1>1, <1>2, <1>3, TreeStays DEF OnlyOf, AcceptInv, Shapes, HasEach
<1>5. StagesNest(c) /\ ValuesAreParsed(c) /\ ErrorsTell(c) /\ TurnsAreTaken(c)
  BY DEF AcceptInv, CallInv
<1>6. /\ Root \in Nodes /\ \A m \in Nodes : IsObject(m) <=> ~IsLeaf(m)
      /\ \A m \in Nodes : Children(m) \subseteq Nodes /\ \A k \in Children(m) : k # Root /\ tree[k].parent = m
      /\ \A m \in Nodes \ {Root} : tree[m].parent \in Nodes \ {m} /\ m \in Children(tree[m].parent)
  BY PlainTree DEF AcceptInv, PlainInv, FallbacksInv
<1>7. stage[c][Root] \in {"within", "judged"} /\ stage'[c][Root] = stage[c][Root]
  BY <1>1, <1>3, <1>5, <1>6 DEF StagesNest
<1>8. stage[c][tree[n].parent] = "within"
  BY <1>1, <1>5, <1>6, <1>7 DEF StagesNest
<1>9. StagesNest(c)'
  <2>1. ASSUME NEW m \in Nodes, m # Root, stage'[c][m] # "idle"
        PROVE  /\ stage'[c][m] \in Validating /\ NeedsFallback(m)
               /\ stage'[c][tree[m].parent] \in {"within", "judged", "over"}
               /\ stage'[c][Root] \in {"within", "judged"}
    <3>1. stage[c][m] # "idle" /\ tree[m].parent \in Nodes
      BY <1>1, <1>3, <1>6, <2>1
    <3> QED
      BY <1>3, <1>5, <1>7, <2>1, <3>1 DEF StagesNest, Validating
  <2>2. ASSUME NEW m \in Nodes, stage'[c][m] = "within"
        PROVE  IsObject(m) /\ fallbacks[m] # {} /\ \A k \in keys[m] : stage'[c][k] # "idle"
    <3>1. keys[m] \subseteq Nodes
      BY DEF FallbacksInv, Types
    <3> QED
      BY <1>3, <1>5, <2>2, <3>1 DEF StagesNest
  <2>3. ASSUME NEW m \in Nodes, stage'[c][m] \in {"judged", "over"}, NEW k \in Children(m), NeedsFallback(k)
        PROVE  stage'[c][k] = "over"
    BY <1>1, <1>3, <1>5, <1>6, <1>7, <2>3 DEF StagesNest
  <2> QED
    BY <1>2, <2>1, <2>2, <2>3, TreeStays DEF StagesNest
<1>10. ValuesAreParsed(c)'
  <2>1. Places \subseteq Nodes /\ \A m \in Nodes : m \in Places <=> ~IsObject(m)
    BY <1>6, LeavesOfRoot DEF FallbacksInv, AcceptInv, PlainInv
  <2>2. DOMAIN value'[c] = Places
    BY <1>1, <1>5, <1>7 DEF ValuesAreParsed, AcceptInv
  <2>3. ASSUME NEW m \in Places
        PROVE  value'[c][m] =
                 IF stage'[c][m] = "over" /\ LeafFits(m, input[c][m]) THEN ParsedBy(m, input[c][m]) ELSE input[c][m]
    <3>1. value[c][m] = IF stage[c][m] = "over" /\ LeafFits(m, input[c][m]) THEN ParsedBy(m, input[c][m]) ELSE input[c][m]
      BY <1>5, <1>7 DEF ValuesAreParsed
    <3>2. CASE m # n
      <4>1. value'[c][m] = value[c][m]
        BY <1>1, <3>2 DEF AcceptInv
      <4> QED
        BY <1>3, <2>1, <3>1, <3>2, <4>1
    <3>3. CASE m = n
      <4>1. IsLeaf(n) /\ ~IsObject(n) /\ Leaves(n) = {n}
        BY <1>6, <2>1, <3>3, LeavesOfLeaf DEF FallbacksInv, AcceptInv, PlainInv
      <4>2. errors[c][n] = {} <=> LeafFits(n, input[c][n])
        BY <1>1, <1>5, <1>8, <4>1 DEF ErrorsTell, FitsBelow
      <4>3. held[c][n] = ParsedBy(n, input[c][n])
        BY <1>1, <1>5, <3>3 DEF ValuesAreParsed
      <4>4. value'[c][n] = IF errors[c][n] = {} THEN held[c][n] ELSE value[c][n]
        <5>1. DOMAIN value = Calls /\ n \in DOMAIN value[c]
          BY <1>5, <1>7, <3>3 DEF ValuesAreParsed, AcceptInv
        <5> QED
          BY <1>1, <4>1, <5>1
      <4>5. stage'[c][n] = "over" /\ stage[c][n] # "over"
        BY <1>1, <1>3
      <4> QED
        BY <3>1, <3>3, <4>2, <4>3, <4>4, <4>5
    <3> QED
      BY <3>2, <3>3
  <2>4. ASSUME NEW m \in Places, stage'[c][m] \in {"making", "parsing", "judged"}
        PROVE  held'[c][m] = ParsedBy(m, input[c][m])
    BY <1>3, <1>5, <2>1, <2>4 DEF ValuesAreParsed
  <2> QED
    BY <1>1, <1>2, <1>5, <1>7, <2>2, <2>3, <2>4, TreeStays DEF ValuesAreParsed
<1>11. \A m : FitsBelow(c, m)' <=> FitsBelow(c, m)
  BY <1>1, <1>2, TreeStays DEF FitsBelow
<1>12. ErrorsTell(c)'
  <2>1. ASSUME NEW m \in Nodes, stage'[c][m] \in {"judged", "over"}, m = Root \/ stage'[c][tree[m].parent] = "within"
        PROVE  errors[c][m] = {} <=> FitsBelow(c, m)
    <3>1. stage[c][m] \in {"judged", "over"} /\ (m # Root => stage[c][tree[m].parent] = "within")
      BY <1>1, <1>3, <1>6, <2>1
    <3> QED
      BY <1>5, <3>1 DEF ErrorsTell
  <2> QED
    BY <1>1, <1>2, <1>3, <1>5, <1>11, <2>1, TreeStays DEF ErrorsTell
<1>13. TurnsAreTaken(c)'
  <2>1. bubble'[c] # << >> => \E m \in Nodes : tree[m].toInternal /\ stage'[c][m] = "over"
    <3>1. CASE tree[n].toInternal
      BY <1>3, <3>1
    <3>2. CASE ~tree[n].toInternal
      BY <1>1, <1>3, <1>5, <3>2 DEF TurnsAreTaken
    <3> QED
      BY <3>1, <3>2
  <2>2. ASSUME NEW m \in Nodes, stage'[c][m] \in {"judged", "over"}
        PROVE  stage[c][m] \in {"judged", "over"}
    BY <1>1, <1>3, <2>2
  <2> QED
    BY <1>1, <1>2, <1>5, <1>7, <1>11, <2>1, <2>2, TreeStays DEF TurnsAreTaken, IsOnlyInternal
<1>14. CallInv(c)'
  BY <1>9, <1>10, <1>12, <1>13 DEF CallInv
<1> QED
  BY <1>2, <1>4, <1>14, OneCallSteps

\* The keys of an object that need it are parsed.
LEMMA OpenObjectAccepts ==
  ASSUME FallbacksInv, AcceptInv, NEW c \in Calls, NEW n \in Nodes, OpenObject(c, n)
  PROVE  AcceptInv'
<1> DEFINE N == keys[n]
           waiting == {m \in N : m \notin built}
           starting == Untranslated(N \ waiting)
<1>1. /\ IsReady(c, n) /\ IsObject(n) /\ "object" \in fallbacks[n]
      /\ stage' = [stage EXCEPT ![c] = [m \in Nodes |->
           IF m \in waiting THEN "building"
           ELSE IF m \in starting THEN "making"
           ELSE IF m \in N THEN "parsing" ELSE [stage[c] EXCEPT ![n] = "within"][m]]]
      /\ held' = [held EXCEPT ![c] = [m \in Nodes |->
           IF m \in N /\ ~IsObject(m) THEN Parsed(m, value[c][Place(m)]) ELSE @[m]]]
      /\ IF starting # {} THEN StartMaking(c, starting) ELSE StartNothing
      /\ UNCHANGED <<tree, built, transformed, parsers, keys, schemas, tries,
                     input, value, errors, seen, bubble, turns>>
  BY DEF OpenObject, Enter
<1>2. /\ Root \in Nodes /\ \A m \in Nodes : Place(m) = m /\ (IsObject(m) <=> ~IsLeaf(m))
      /\ \A m \in Nodes : Children(m) \subseteq Nodes /\ \A k \in Children(m) : k # Root /\ tree[k].parent = m
      /\ \A m \in Nodes \ {Root} : tree[m].parent \in Nodes \ {m} /\ m \in Children(tree[m].parent)
  BY PlainTree DEF AcceptInv, PlainInv, FallbacksInv
<1>3. N = {m \in Children(n) : NeedsFallback(m)} /\ N \subseteq transformed /\ N \subseteq Nodes \ {n, Root}
  BY <1>1, <1>2 DEF AcceptInv, PlainInv, KeysNeedFallbacks
<1>4. waiting = {} /\ starting = {}
  BY <1>3 DEF AcceptInv, PlainInv, SchemasHoldLeaves, Untranslated
<1> HIDE DEF waiting, starting, N
<1>5. UNCHANGED <<schemaVars, making, parts>>
  BY <1>1, <1>4 DEF StartNothing, schemaVars
<1>6. /\ PlainInv' /\ StaysWhole /\ UNCHANGED <<tree, built, transformed, fallbacks, parsers, keys>>
      /\ \A m : NeedsFallback(m)' <=> NeedsFallback(m)
  BY <1>5, QuietSteps
<1>7. /\ \A m \in Nodes : stage'[c][m] = IF m \in N THEN "parsing" ELSE IF m = n THEN "within" ELSE stage[c][m]
      /\ \A m \in Nodes : held'[c][m] = IF m \in N /\ ~IsObject(m) THEN Parsed(m, value[c][m]) ELSE held[c][m]
      /\ \A d \in Calls \ {c} : stage'[d] = stage[d] /\ held'[d] = held[d]
      /\ HasEach(held')
  BY <1>1, <1>2, <1>4 DEF FallbacksInv, Types, AcceptInv, HasEach
<1>8. OnlyOf(c) /\ Shapes'
  BY <1>1, <1>6, <1>7, TreeStays DEF OnlyOf, AcceptInv, Shapes, HasEach
<1>9. StagesNest(c) /\ ValuesAreParsed(c) /\ ErrorsTell(c) /\ TurnsAreTaken(c)
  BY DEF AcceptInv, CallInv
<1>10. /\ stage[c][Root] \notin {"idle", "over"} /\ stage[c][n] \in {"parsing", "making"}
       /\ n # Root => stage[c][n] = "parsing"
  BY <1>1, ReadyToJudge DEF IsReady
<1>11. \A m \in N : stage[c][m] = "idle"
  BY <1>2, <1>3, <1>9, <1>10 DEF StagesNest
<1>12. stage'[c][Root] \in {"within", "judged"}
  BY <1>2, <1>3, <1>7, <1>9, <1>10 DEF StagesNest
<1>13. StagesNest(c)'
  <2>1. ASSUME NEW m \in Nodes, m # Root, stage'[c][m] # "idle"
        PROVE  /\ stage'[c][m] \in Validating /\ NeedsFallback(m)
               /\ stage'[c][tree[m].parent] \in {"within", "judged", "over"}
    <3>1. CASE m \in N
      BY <1>2, <1>3, <1>7, <3>1 DEF Validating
    <3>2. CASE m \notin N
      <4>1. stage[c][m] # "idle" /\ (m = n \/ stage'[c][m] = stage[c][m])
        BY <1>7, <1>10, <2>1, <3>2
      <4>2. /\ stage[c][m] \in Validating /\ NeedsFallback(m)
            /\ stage[c][tree[m].parent] \in {"within", "judged", "over"} /\ tree[m].parent \in Nodes
        BY <1>2, <1>9, <2>1, <4>1 DEF StagesNest
      <4>3. tree[m].parent \notin N
        BY <1>11, <4>2
      <4> QED
        BY <1>7, <3>2, <4>1, <4>2, <4>3 DEF Validating
    <3> QED
      BY <3>1, <3>2
  <2>2. ASSUME NEW m \in Nodes, stage'[c][m] = "within"
        PROVE  IsObject(m) /\ fallbacks[m] # {} /\ \A k \in keys[m] : stage'[c][k] # "idle"
    <3>1. keys[m] \subseteq Nodes
      BY DEF FallbacksInv, Types
    <3>2. CASE m = n
      BY <1>1, <1>7, <3>1, <3>2 DEF N
    <3>3. CASE m # n
      BY <1>7, <1>9, <2>2, <3>1, <3>3 DEF StagesNest
    <3> QED
      BY <3>2, <3>3
  <2>3. ASSUME NEW m \in Nodes, stage'[c][m] \in {"judged", "over"}, NEW k \in Children(m), NeedsFallback(k)
        PROVE  stage'[c][k] = "over"
    <3>1. stage[c][m] \in {"judged", "over"}
      BY <1>7, <2>3
    <3>2. stage[c][k] = "over" /\ k \in Nodes
      BY <1>2, <1>9, <1>10, <2>3, <3>1 DEF StagesNest
    <3> QED
      BY <1>7, <1>10, <1>11, <3>2
  <2> QED
    BY <1>6, <1>12, <2>1, <2>2, <2>3, TreeStays DEF StagesNest
<1>14. \A m \in Nodes : stage'[c][m] \in {"judged", "over"} <=> stage[c][m] \in {"judged", "over"}
  BY <1>7, <1>10, <1>11
<1>15. \A m \in Nodes : stage'[c][m] = "over" <=> stage[c][m] = "over"
  BY <1>7, <1>10, <1>11
<1>16. ValuesAreParsed(c)'
  <2>1. Places \subseteq Nodes /\ \A m \in Nodes : m \in Places <=> ~IsObject(m)
    BY <1>2, LeavesOfRoot DEF FallbacksInv, AcceptInv, PlainInv
  <2>2. ASSUME NEW m \in Places, stage'[c][m] \in {"making", "parsing", "judged"}
        PROVE  held'[c][m] = ParsedBy(m, input[c][m])
    <3>1. CASE m \in N
      <4>1. value[c][m] = input[c][m]
        BY <1>9, <1>10, <1>11, <3>1 DEF ValuesAreParsed
      <4>2. m \in parsers <=> tree[m].parser = "palmares"
        BY <1>2, <1>3, <2>1, <3>1, TranslatedLeaf DEF AcceptInv
      <4>3. held'[c][m] = Parsed(m, value[c][m])
        BY <1>7, <2>1, <3>1
      <4> QED
        BY <4>1, <4>2, <4>3 DEF Parsed, ParsedBy
    <3>2. CASE m \notin N
      BY <1>1, <1>7, <1>9, <2>1, <2>2, <3>2 DEF ValuesAreParsed
    <3> QED
      BY <3>1, <3>2
  <2>3. /\ input[c] \in [Places -> Forms] /\ DOMAIN value[c] = Places
        /\ \A m \in Places : value[c][m] =
             IF stage'[c][m] = "over" /\ LeafFits(m, input[c][m]) THEN ParsedBy(m, input[c][m]) ELSE input[c][m]
    BY <1>9, <1>10, <1>15, <2>1 DEF ValuesAreParsed
  <2>4. input'[c] = input[c] /\ value'[c] = value[c] /\ Places' = Places
    BY <1>1, <1>6, TreeStays
  <2>5. \A m : LeafFits(m, input[c][m])' = LeafFits(m, input[c][m]) /\ ParsedBy(m, input[c][m])' = ParsedBy(m, input[c][m])
    BY <1>6, <2>4, TreeStays
  <2> QED
    BY <2>2, <2>3, <2>4, <2>5 DEF ValuesAreParsed
<1>17. \A m : FitsBelow(c, m)' <=> FitsBelow(c, m)
  BY <1>1, <1>6, TreeStays DEF FitsBelow
<1>18. ErrorsTell(c)'
  <2>1. ASSUME NEW m \in Nodes, stage'[c][m] \in {"judged", "over"}, m = Root \/ stage'[c][tree[m].parent] = "within"
        PROVE  errors[c][m] = {} <=> FitsBelow(c, m)
    <3>1. stage[c][m] \in {"judged", "over"}
      BY <1>14, <2>1
    <3>2. m # Root => stage[c][tree[m].parent] = "within"
      <4> SUFFICES ASSUME m # Root PROVE stage[c][tree[m].parent] = "within"
        OBVIOUS
      <4>1. NeedsFallback(m) /\ m \in Children(tree[m].parent) /\ tree[m].parent \in Nodes
        BY <1>2, <1>9, <3>1 DEF StagesNest
      <4>2. tree[m].parent # n
        BY <1>3, <1>11, <3>1, <4>1
      <4> QED
        BY <1>7, <2>1, <4>1, <4>2
    <3> QED
      BY <1>9, <3>1, <3>2 DEF ErrorsTell
  <2> QED
    BY <1>1, <1>6, <1>9, <1>14, <1>17, <2>1, TreeStays DEF ErrorsTell
<1>19. TurnsAreTaken(c)'
  BY <1>1, <1>2, <1>6, <1>9, <1>14, <1>15, <1>17, TreeStays DEF TurnsAreTaken, IsOnlyInternal
<1>20. CallInv(c)'
  BY <1>13, <1>16, <1>18, <1>19 DEF CallInv
<1> QED
  BY <1>6, <1>8, <1>20, OneCallSteps

\* A call begins, at once or after the fields of a model schema.
LEMMA RootIsEntered ==
  ASSUME FallbacksInv, AcceptInv, NEW c \in Calls,
         stage[c][Root] \in {"idle", "building"}, Enter(c, {Root}, value'[c], stage[c]),
         UNCHANGED <<tree, built, transformed, parsers, keys, schemas, tries, errors, seen, bubble, turns>>,
         input'[c] \in [Places -> Forms], DOMAIN value'[c] = Places,
         \A n \in Places : value'[c][n] = input'[c][n], DOMAIN input' = Calls, DOMAIN value' = Calls,
         \A d \in Calls \ {c} : input'[d] = input[d] /\ value'[d] = value[d]
  PROVE  AcceptInv'
<1> DEFINE waiting == {n \in {Root} : n \notin built}
           starting == Untranslated({Root} \ waiting)
<1>1. /\ stage' = [stage EXCEPT ![c] = [n \in Nodes |->
           IF n \in waiting THEN "building"
           ELSE IF n \in starting THEN "making"
           ELSE IF n \in {Root} THEN "parsing" ELSE stage[c][n]]]
      /\ held' = [held EXCEPT ![c] = [n \in Nodes |->
           IF n \in {Root} /\ ~IsObject(n) THEN Parsed(n, value'[c][Place(n)]) ELSE @[n]]]
      /\ IF starting # {} THEN StartMaking(c, starting) ELSE StartNothing
  BY DEF Enter
<1>2. starting \subseteq (built \cap {Root}) \ transformed
  BY DEF Untranslated
<1> HIDE DEF waiting, starting
<1>3. Root \in Nodes /\ Place(Root) = Root /\ (IsLeaf(Root) <=> ~IsObject(Root))
  BY PlainTree DEF AcceptInv, PlainInv, FallbacksInv
<1>4. PlainInv' /\ StaysWhole
  <2>1. CASE starting # {}
    <3>1. starting \in SUBSET ((built \cap Nodes) \ transformed) /\ starting \in SUBSET (Nodes \ transformed)
      BY <1>2, <1>3
    <3> QED
      BY <1>1, <2>1, <3>1, StartKeepsPlain, StartKeepsInv DEF FallbacksInv, AcceptInv
  <2>2. CASE starting = {}
    <3>1. UNCHANGED <<schemaVars, making, parts>>
      BY <1>1, <2>2 DEF StartNothing, schemaVars
    <3> QED
      BY <3>1, QuietSteps
  <2> QED
    BY <2>1, <2>2
<1>5. \A n \in Nodes \ {Root} : stage[c][n] = "idle"
  BY DEF AcceptInv, CallInv, StagesNest
<1>6. /\ \A n \in Nodes \ {Root} : stage'[c][n] = "idle"
      /\ stage'[c][Root] \in {"building", "making", "parsing"}
      /\ \A n \in Nodes : held'[c][n] = IF n = Root /\ ~IsObject(n) THEN Parsed(n, value'[c][n]) ELSE held[c][n]
      /\ \A d \in Calls \ {c} : stage'[d] = stage[d] /\ held'[d] = held[d]
      /\ HasEach(held')
  <2>1. stage \in [Calls -> [Nodes -> Stages]] /\ HasEach(held)
    BY DEF FallbacksInv, Types, AcceptInv
  <2>2. \A n \in Nodes : stage'[c][n] =
          IF n \in waiting THEN "building" ELSE IF n \in starting THEN "making"
          ELSE IF n = Root THEN "parsing" ELSE stage[c][n]
    BY <1>1, <2>1
  <2>3. waiting \subseteq {Root} /\ starting \subseteq {Root}
    BY <1>2 DEF waiting
  <2>4. \A n \in Nodes : held'[c][n] = IF n = Root /\ ~IsObject(n) THEN Parsed(n, value'[c][n]) ELSE held[c][n]
    BY <1>1, <1>3, <2>1 DEF HasEach
  <2>5. \A d \in Calls \ {c} : stage'[d] = stage[d] /\ held'[d] = held[d]
    BY <1>1, <2>1
  <2>6. HasEach(held')
    BY <1>1, <2>1 DEF HasEach
  <2> QED
    BY <1>3, <1>5, <2>2, <2>3, <2>4, <2>5, <2>6
<1>7. OnlyOf(c) /\ Shapes'
  BY <1>6, TreeStays DEF OnlyOf, AcceptInv, Shapes, HasEach
<1>8. StagesNest(c)'
  BY <1>6, TreeStays DEF StagesNest
<1>9. ValuesAreParsed(c)'
  <2>1. Places \subseteq Nodes /\ \A m \in Nodes : m \in Places => IsLeaf(m)
    BY LeavesOfRoot DEF FallbacksInv, AcceptInv, PlainInv
  <2>2. ASSUME Root \in Places PROVE held'[c][Root] = ParsedBy(Root, input'[c][Root])
    <3>1. tree[Root].parser # "palmares" /\ Root \notin parsers
      BY <1>3, <2>1, <2>2 DEF AcceptInv, PlainInv, IsPlain, KeysNeedFallbacks
    <3>2. held'[c][Root] = Parsed(Root, value'[c][Root])
      BY <1>3, <1>6, <2>1, <2>2
    <3> QED
      BY <2>2, <3>1, <3>2 DEF Parsed, ParsedBy
  <2>3. \A n \in Places : stage'[c][n] # "over"
    BY <1>6, <2>1
  <2>4. \A n \in Places : stage'[c][n] \in {"making", "parsing", "judged"} => n = Root
    BY <1>6, <2>1
  <2> QED
    BY <2>2, <2>3, <2>4, TreeStays DEF ValuesAreParsed
<1>10. ErrorsTell(c)' /\ TurnsAreTaken(c)'
  <2>1. \A n \in Nodes : stage'[c][n] \notin {"judged", "over"} /\ stage[c][n] \notin {"judged", "over"}
    BY <1>5, <1>6
  <2>2. seen'[c] = seen[c] /\ bubble'[c] = bubble[c] /\ UNCHANGED tree
    OBVIOUS
  <2>3. ErrorsTell(c)'
    BY <2>1, <2>2, TreeStays DEF ErrorsTell, AcceptInv, CallInv
  <2>4. TurnsAreTaken(c)'
    BY <1>3, <2>1, <2>2, TreeStays DEF TurnsAreTaken, AcceptInv, CallInv, IsOnlyInternal
  <2> QED
    BY <2>3, <2>4
<1>11. CallInv(c)'
  BY <1>8, <1>9, <1>10 DEF CallInv
<1> QED
  BY <1>4, <1>7, <1>11, OneCallSteps

LEMMA BeginningAccepts ==
  ASSUME FallbacksInv, AcceptInv, NEW c \in Calls, NEW n \in Nodes, Begins(c) \/ Resume(c, n)
  PROVE  AcceptInv'
<1>1. CASE Begins(c)
  <2> PICK data \in [Places -> Forms] : Parse(c, data)
    BY <1>1 DEF Begins
  <2>1. /\ stage[c][Root] = "idle" /\ Enter(c, {Root}, data, stage[c])
        /\ input' = [input EXCEPT ![c] = data] /\ value' = [value EXCEPT ![c] = data]
        /\ UNCHANGED <<tree, built, transformed, parsers, keys, schemas, tries, errors, seen, bubble, turns>>
    BY DEF Parse
  <2>2. /\ input'[c] = data /\ value'[c] = data /\ DOMAIN input' = Calls /\ DOMAIN value' = Calls
        /\ \A d \in Calls \ {c} : input'[d] = input[d] /\ value'[d] = value[d]
    BY <2>1 DEF AcceptInv
  <2>3. input'[c] \in [Places -> Forms] /\ DOMAIN value'[c] = Places /\ \A m \in Places : value'[c][m] = input'[c][m]
    BY <2>2
  <2>4. Enter(c, {Root}, value'[c], stage[c])
    BY <2>1, <2>2
  <2> QED
    BY <2>1, <2>2, <2>3, <2>4, RootIsEntered
<1>2. CASE Resume(c, n)
  <2>1. /\ stage[c][n] = "building" /\ Enter(c, {n}, value[c], stage[c])
        /\ UNCHANGED <<tree, built, transformed, parsers, keys, schemas, tries, input, value, errors, seen, bubble, turns>>
    BY <1>2 DEF Resume
  <2>2. n = Root
    BY <2>1 DEF AcceptInv, CallInv, StagesNest, Validating
  <2>3. Places \subseteq Nodes /\ \A m \in Nodes \ {Root} : stage[c][m] # "over"
    BY <2>1, <2>2, LeavesOfRoot DEF AcceptInv, PlainInv, CallInv, StagesNest, FallbacksInv
  <2>4. /\ input'[c] \in [Places -> Forms] /\ DOMAIN value[c] = Places
        /\ \A m \in Places : value[c][m] = input'[c][m]
    BY <2>1, <2>2, <2>3 DEF AcceptInv, CallInv, ValuesAreParsed
  <2>5. value'[c] = value[c] /\ DOMAIN input' = Calls /\ DOMAIN value' = Calls
    BY <2>1 DEF AcceptInv
  <2>6. Enter(c, {Root}, value'[c], stage[c])
    BY <2>1, <2>2, <2>5
  <2> QED
    BY <2>1, <2>2, <2>4, <2>5, <2>6, RootIsEntered
<1> QED
  BY <1>1, <1>2

\* The answer of a call.
LEMMA AnsweringAccepts ==
  ASSUME FallbacksInv, AcceptInv, NEW c \in Calls, Answer(c)
  PROVE  AcceptInv'
<1>1. /\ stage[c][Root] = "judged"
      /\ stage' = [stage EXCEPT ![c] = [n \in Nodes |-> IF n = Root THEN "over" ELSE "idle"]]
      /\ value' = [value EXCEPT ![c] = << >>]
      /\ held' = [held EXCEPT ![c] = [n \in Nodes |-> "none"]]
      /\ seen' = [seen EXCEPT ![c] = {}]
      /\ bubble' = [bubble EXCEPT ![c] = << >>]
      /\ making' = [making EXCEPT ![c] = [n \in Nodes |-> "no"]]
      /\ UNCHANGED <<schemaVars, parts, input, errors, turns>>
  BY DEF Answer
<1>2. /\ PlainInv' /\ StaysWhole /\ UNCHANGED <<tree, built, transformed, fallbacks, parsers, keys>>
      /\ \A m : NeedsFallback(m)' <=> NeedsFallback(m)
  BY <1>1, QuietSteps
<1>3. Root \in Nodes /\ \A n \in Places : n \in Nodes
  BY PlainTree, LeavesOfRoot DEF AcceptInv, PlainInv, FallbacksInv
<1>4. /\ \A n \in Nodes : stage'[c][n] = IF n = Root THEN "over" ELSE "idle"
      /\ \A d \in Calls \ {c} : /\ stage'[d] = stage[d] /\ held'[d] = held[d] /\ value'[d] = value[d]
                                /\ bubble'[d] = bubble[d] /\ seen'[d] = seen[d]
      /\ HasEach(held') /\ seen'[c] = {} /\ bubble'[c] = << >>
  BY <1>1 DEF FallbacksInv, Types, AcceptInv, HasEach
<1>5. OnlyOf(c) /\ Shapes'
  BY <1>1, <1>2, <1>4, TreeStays DEF OnlyOf, AcceptInv, Shapes, HasEach
<1>6. StagesNest(c) /\ ValuesAreParsed(c) /\ ErrorsTell(c) /\ TurnsAreTaken(c)
  BY DEF AcceptInv, CallInv
<1>7. StagesNest(c)'
  BY <1>2, <1>3, <1>4, TreeStays DEF StagesNest
<1>8. ValuesAreParsed(c)'
  <2>1. input'[c] \in [Places -> Forms] /\ Places' = Places
    BY <1>1, <1>2, <1>6, TreeStays DEF ValuesAreParsed
  <2>2. \A n \in Places : stage'[c][n] \notin {"making", "parsing", "judged"}
    BY <1>3, <1>4
  <2> QED
    BY <1>3, <1>4, <2>1, <2>2 DEF ValuesAreParsed
<1>9. \A m : FitsBelow(c, m)' <=> FitsBelow(c, m)
  BY <1>1, <1>2, TreeStays DEF FitsBelow
<1>10. ErrorsTell(c)'
  <2>1. errors[c][Root] = {} <=> FitsBelow(c, Root)
    BY <1>1, <1>3, <1>6 DEF ErrorsTell
  <2> QED
    BY <1>1, <1>2, <1>4, <1>9, <2>1, TreeStays DEF ErrorsTell
<1>11. TurnsAreTaken(c)'
  <2>1. ASSUME NEW n \in Nodes, IsOnlyInternal(n), FitsBelow(c, Root)
        PROVE  turns[c][n] = 1
    <3>1. Root \in transformed
      BY <1>1, ReadyToJudge, <1>3
    <3>2. \A m \in Children(Root) : NeedsFallback(m) => stage[c][m] = "over"
      BY <1>1, <1>3, <1>6 DEF StagesNest
    <3>3. n \in Inside(Root) /\ Leaves(n) \subseteq Leaves(Root)
      BY LeavesOfRoot, LeavesAreLeaves DEF FallbacksInv, AcceptInv, PlainInv
    <3>4. n # Root => stage[c][n] = "over"
      <4>1. NeedsFallback(n)
        BY <2>1 DEF NeedsFallback, IsOnlyInternal
      <4> QED
        BY <1>1, <1>6, <3>1, <3>2, <3>3, <4>1, BelowIsOver DEF AcceptInv
    <3>5. FitsBelow(c, n)
      BY <2>1, <3>3 DEF FitsBelow
    <3> QED
      BY <1>1, <1>6, <2>1, <3>4, <3>5 DEF TurnsAreTaken
  <2> QED
    BY <1>1, <1>2, <1>3, <1>4, <1>9, <2>1, TreeStays DEF TurnsAreTaken, IsOnlyInternal
<1>12. CallInv(c)'
  BY <1>7, <1>8, <1>10, <1>11 DEF CallInv
<1> QED
  BY <1>2, <1>5, <1>12, OneCallSteps

\* The steps of a translation are none of a call that parses.
LEMMA TranslatingAccepts ==
  ASSUME FallbacksInv, AcceptInv, PlainInv', StaysWhole, UNCHANGED callVars
  PROVE  AcceptInv'
<1>1. UNCHANGED <<stage, input, value, held, errors, seen, bubble, turns>>
  BY DEF callVars
<1>2. \A c \in Calls : CallInv(c)'
  BY <1>1, CallStays DEF AcceptInv
<1>3. Nodes' = Nodes
  BY DEF StaysWhole, Nodes
<1> QED
  BY <1>1, <1>2, <1>3 DEF AcceptInv, HasEach

\* The schemas are what they were.
LEMMA TreeIsKept == [Next]_vars => UNCHANGED tree
<1>1. ASSUME NEW c \in Calls, Begins(c) PROVE UNCHANGED tree
  BY <1>1 DEF Begins, Parse
<1>2. ASSUME NEW c \in Calls, Making(c) PROVE UNCHANGED tree
  BY <1>2 DEF Making, Compose, Translated
<1>3. ASSUME NEW c \in Calls, Parsing(c) PROVE UNCHANGED tree
  BY <1>3 DEF Parsing, Resume, JudgeLeaf, OpenObject, CloseObject, OpenUnion, BranchFits, BranchFails,
     JudgeUnion, Deliver, Answer, schemaVars
<1>4. ASSUME NEW n \in Nodes, IsBuilt(n) PROVE UNCHANGED tree
  BY <1>4 DEF IsBuilt, Build
<1>5. ASSUME UNCHANGED vars PROVE UNCHANGED tree
  BY <1>5 DEF vars, schemaVars
<1> QED
  BY <1>1, <1>2, <1>3, <1>4, <1>5 DEF Next

LEMMA InitImpliesAcceptInv == Init /\ IsPlain => AcceptInv
<1> SUFFICES ASSUME Init, IsPlain PROVE AcceptInv
  OBVIOUS
<1>1. FallbacksInv /\ PlainInv /\ Root \in Nodes /\ Places \subseteq Nodes
  BY InitImpliesFallbacksInv, InitImpliesPlainInv, PlainTree, LeavesOfRoot DEF FallbacksInv
<1>2. \A c \in Calls, n \in Nodes : stage[c][n] = "idle"
  BY DEF Init
<1>3. Shapes /\ \A c \in Calls : seen[c] = {} /\ bubble[c] = << >>
  BY DEF Init, Shapes, HasEach
<1>4. \A c \in Calls : CallInv(c)
  BY <1>1, <1>2, <1>3 DEF CallInv, StagesNest, ValuesAreParsed, ErrorsTell, TurnsAreTaken
<1> QED
  BY <1>1, <1>3, <1>4 DEF AcceptInv, Shapes

LEMMA NextKeepsAcceptInv ==
  ASSUME FallbacksInv, AcceptInv, [Next]_vars
  PROVE  AcceptInv'
<1>1. Types /\ TranslationInv /\ PlainInv
  BY DEF FallbacksInv, AcceptInv
<1>2. \A n \in Nodes : ~IsUnion(n)
  BY <1>1 DEF PlainInv, IsPlain
<1>3. ASSUME NEW c \in Calls, Begins(c) PROVE AcceptInv'
  <2>1. Root \in Nodes
    BY <1>1, PlainTree DEF PlainInv
  <2> QED
    BY <1>3, <2>1, BeginningAccepts
<1>4. ASSUME NEW c \in Calls, Making(c) PROVE AcceptInv'
  <2> PICK n \in Nodes : (Compose(c, n) \/ Translated(c, n)) /\ UNCHANGED callVars
    BY <1>4 DEF Making
  <2>1. PlainInv' /\ StaysWhole
    BY <1>1, ComposeKeepsPlain, ComposeKeepsInv, TranslatedKeepsPlain, TranslatedKeepsInv
  <2> QED
    BY <2>1, TranslatingAccepts
<1>5. ASSUME NEW c \in Calls, Parsing(c) PROVE AcceptInv'
  <2>1. CASE Answer(c)
    BY <2>1, AnsweringAccepts
  <2>2. ASSUME NEW n \in Nodes, OpenUnion(c, n) \/ BranchFits(c, n) \/ BranchFails(c, n) \/ JudgeUnion(c, n)
        PROVE  FALSE
    BY <1>2, <2>2 DEF OpenUnion, BranchFits, BranchFails, JudgeUnion
  <2>3. ASSUME NEW n \in Nodes,
               Resume(c, n) \/ JudgeLeaf(c, n) \/ OpenObject(c, n) \/ CloseObject(c, n) \/ Deliver(c, n)
        PROVE  AcceptInv'
    BY <2>3, BeginningAccepts, JudgeLeafAccepts, OpenObjectAccepts, CloseObjectAccepts, DeliverAccepts
  <2> QED
    BY <1>5, <2>1, <2>2, <2>3 DEF Parsing
<1>6. ASSUME NEW n \in Nodes, IsBuilt(n) PROVE AcceptInv'
  <2>1. Build(n) /\ UNCHANGED makingVars /\ UNCHANGED callVars
    BY <1>6 DEF IsBuilt
  <2>2. StaysWhole
    BY <1>1, <2>1, BuildKeepsInv
  <2>3. /\ UNCHANGED <<tree, empty, transformed, fallbacks, parsers, keys, schemas, tries, parts, making>>
        /\ built \subseteq built'
    BY <2>1 DEF Build, makingVars
  <2>4. PlainInv'
    BY <1>1, <2>3, OthersKeepPlain
  <2> QED
    BY <2>1, <2>2, <2>4, TranslatingAccepts
<1>7. ASSUME UNCHANGED vars PROVE AcceptInv'
  <2>1. UNCHANGED <<schemaVars, parts, making>> /\ UNCHANGED callVars
    BY <1>7 DEF vars, makingVars
  <2>2. PlainInv' /\ StaysWhole
    BY <2>1, QuietSteps
  <2> QED
    BY <2>1, <2>2, TranslatingAccepts
<1> QED
  BY <1>3, <1>4, <1>5, <1>6, <1>7 DEF Next

\* Whatever calls share the first translation of a plain schema, an object parses
\* the keys that need it and the adapter judges the rest, and what one of them
\* has parsed is what the other reads (object.ts:96-134, schema.ts:344-444).
THEOREM PlainSchemasAreParsed == Spec => [](FallbacksInv /\ (IsPlain => AcceptInv))
<1> DEFINE Inv == FallbacksInv /\ (IsPlain => AcceptInv)
<1>1. Init => Inv
  BY InitImpliesFallbacksInv, InitImpliesAcceptInv
<1>2. Inv /\ [Next]_vars => Inv'
  BY NextKeepsFallbacksInv, NextKeepsAcceptInv, TreeIsKept, TreeStays
<1> QED
  BY <1>1, <1>2, PTL DEF Spec

\* A schema of objects, whatever their depth, accepts what is valid in every
\* place and nothing else, whether Palmares or the adapter validates it, and
\* whoever translates it meanwhile (utils.ts:63-69, schema.ts:344-444).
THEOREM PlainSchemasAcceptWhatIsValid == Spec => [](IsPlain => AcceptedIffValid)
<1>1. FallbacksInv /\ (IsPlain => AcceptInv) => (IsPlain => AcceptedIffValid)
  <2> SUFFICES ASSUME FallbacksInv, AcceptInv, IsPlain, NEW c \in Calls, stage[c][Root] = "over"
               PROVE  IsAccepted(c) <=> IsValid(c)
    BY DEF AcceptedIffValid
  <2>1. Types /\ Root \in Nodes
    BY PlainTree DEF FallbacksInv
  <2>2. errors[c][Root] = {} <=> FitsBelow(c, Root)
    BY <2>1 DEF AcceptInv, CallInv, ErrorsTell
  <2> QED
    BY <2>1, <2>2, ValidIfLeavesFit DEF IsAccepted
<1> QED
  BY <1>1, PlainSchemasAreParsed, PTL

\* What such a schema accepts has been through its toInternal, if it has one,
\* which ran in the place it is for (schema.ts:415-439).
THEOREM PlainInternalsAreInTheAnswer == Spec => [](IsPlain => InternalsAreInTheAnswer)
<1>1. FallbacksInv /\ (IsPlain => AcceptInv) => (IsPlain => InternalsAreInTheAnswer)
  <2> SUFFICES ASSUME FallbacksInv, AcceptInv, IsPlain, Cardinality({n \in Nodes : tree[n].toInternal}) = 1,
                      NEW c \in Calls, stage[c][Root] = "over", IsAccepted(c),
                      NEW n \in Nodes, tree[n].toInternal
               PROVE  turns[c][n] = 1
    BY DEF InternalsAreInTheAnswer
  <2>1. Types /\ Root \in Nodes
    BY PlainTree DEF FallbacksInv
  <2>2. FitsBelow(c, Root)
    BY <2>1 DEF AcceptInv, CallInv, ErrorsTell, IsAccepted
  <2>3. IsOnlyInternal(n)
    <3> DEFINE internals == {m \in Nodes : tree[m].toInternal}
    <3>1. IsFiniteSet(Nodes) /\ internals \subseteq Nodes
      BY <2>1, SchemaAssumptions DEF Types, Nodes
    <3>2. IsFiniteSet(internals)
      BY <3>1, FS_Subset
    <3>3. \E m : internals = {m}
      BY <3>2, FS_Singleton
    <3> QED
      BY <3>3 DEF IsOnlyInternal
  <2> QED
    BY <2>2, <2>3 DEF AcceptInv, CallInv, TurnsAreTaken
<1> QED
  BY <1>1, PlainSchemasAreParsed, PTL
=============================================================================
