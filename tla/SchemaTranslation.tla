-------------------------- MODULE SchemaTranslation --------------------------
(***************************************************************************)
(* A schema is translated to the library that validates (its adapter) when  *)
(* it is first used, and the translation is kept in the schema, which every *)
(* request shares (schemas/src/utils.ts, schema/object.ts, schema/union.ts).*)
(* What the adapter cannot validate is left to "fallbacks" of Palmares:     *)
(* they are appended to the schema while it is translated, and a schema     *)
(* that contains one with fallbacks gets one of its own, that runs theirs.  *)
(*                                                                         *)
(* Nothing stops calls that come during the first translation from          *)
(* translating once more, each with awaits of its own.                      *)
(***************************************************************************)
EXTENDS Naturals, Sequences, FiniteSets, FiniteSetsExt, SequencesExt

CONSTANTS
  Calls,            \* the calls of parse
  Root,             \* the schema they call it on
  Trees,            \* the schemas it may be, with those inside of it
  AdapterHasUnion   \* whether adapter.union is defined

ASSUME SchemaAssumptions ==
  /\ AdapterHasUnion \in BOOLEAN
  /\ \A t \in Trees :
       /\ Root \in DOMAIN t /\ IsFiniteSet(DOMAIN t)
       /\ \A n \in DOMAIN t :
            /\ t[n].kind \in {"leaf", "object", "union"}
            /\ t[n].children \in Seq(DOMAIN t)
            /\ t[n].kind = "leaf" => t[n].children = << >>
            /\ t[n].kind = "union" => t[n].children # << >>
            /\ \A m \in ToSet(t[n].children) : m # Root /\ t[m].parent = n
            /\ {t[n].limit, t[n].parser} \subseteq {"none", "adapter", "palmares"}
            /\ {t[n].optional, t[n].toInternal, t[n].lazy} \subseteq BOOLEAN
       /\ \A S \in SUBSET DOMAIN t :
            Root \in S /\ (\A n \in S : ToSet(t[n].children) \subseteq S) => S = DOMAIN t

VARIABLES
  tree,        \* [kind, parent, children, type, limit, parser, toInternal, optional, lazy, message]
  built,       \* model schemas whose __data is in place
  empty,       \* objects whose __cachedDataAsEntries was read before that
  transformed, \* __transformedSchemas[adapter].transformed
  fallbacks,   \* the names of the callbacks in __rootFallbacksValidator
  parsers,     \* the schemas whose parser is in __parsers._fallbacks
  keys,        \* fallbackByKeys of the object fallback of each object
  schemas,     \* __transformedSchemas[adapter].schemas, as the sets of what they validate
  tries,       \* whether Root has a __beforeValidationCallbacks
  making,      \* how far each call is in the translation of each schema
  parts        \* transformedDataByKeysArray of each call and object

schemaVars == <<tree, built, empty, transformed, fallbacks, parsers, keys, schemas, tries>>
makingVars == <<making, parts>>

Nodes == DOMAIN tree
IsLeaf(n) == tree[n].kind = "leaf"
IsObject(n) == tree[n].kind = "object"
IsUnion(n) == tree[n].kind = "union"

InitTranslation ==
  /\ tree \in Trees
  /\ built = {n \in Nodes : ~tree[n].lazy}
  /\ empty = {}
  /\ transformed = {}
  /\ fallbacks = [n \in Nodes |-> {}]
  /\ parsers = {}
  /\ keys = [n \in Nodes |-> {}]
  /\ schemas = [n \in Nodes |-> << >>]
  /\ tries = FALSE
  /\ making = [c \in Calls |-> [n \in Nodes |-> "no"]]
  /\ parts = [c \in Calls |-> [n \in Nodes |-> << >>]]

-----------------------------------------------------------------------------
(* What is translated.                                                      *)

\* __retrieveDataAsEntriesAndCache; the branches, for a union.
Entries(n) == IF n \in empty \/ n \notin built THEN << >> ELSE tree[n].children

\* A schema and those below it that are not translated yet: each calls
\* __transformToAdapter of its entries before it first waits.
Reached(n) ==
  LET IsClosed(S) == n \in S /\ \A m \in S : ToSet(Entries(m)) \ transformed \subseteq S
  IN {m \in Nodes : \A S \in SUBSET Nodes : IsClosed(S) => m \in S}

\* An object of which one more key is translated.
With(variant, key, option) ==
  [k \in DOMAIN variant \cup {key} |-> IF k = key THEN option ELSE variant[k]]

(* The loops that combine the translations of the keys of an object: the    *)
(* index of a variant is the product of two counters.                       *)
Spread(part, key, options) ==
  LET last == (Max(DOMAIN part) + 1) * Len(options)
      Assign(p, turn) ==
        LET option == turn % Len(options)
            index == (turn \div Len(options) + 1) * option
            base == IF index \in DOMAIN p THEN p[index] ELSE p[0]
        IN [i \in DOMAIN p \cup {index} |->
              IF i = index THEN With(base, key, options[option + 1]) ELSE p[i]]
      after[k \in 0..last] == IF k = 0 THEN part ELSE Assign(after[k - 1], k - 1)
  IN after[last]

\* The keys that are translated already are combined first, in their order.
FirstParts(n) ==
  LET after[k \in 0..Len(Entries(n))] ==
        IF k = 0 THEN [i \in {0} |-> << >>]
        ELSE LET m == Entries(n)[k]
             IN IF m \in transformed THEN Spread(after[k - 1], m, schemas[m]) ELSE after[k - 1]
  IN after[Len(Entries(n))]

Variants(part) ==
  LET Index(i) == CHOOSE k \in DOMAIN part : Cardinality({j \in DOMAIN part : j < k}) = i - 1
  IN [i \in 1..Cardinality(DOMAIN part) |-> UNION Range(part[Index(i)])]

-----------------------------------------------------------------------------
(* The pieces of a translation.                                             *)

\* defaultTransformToAdapter of n and those it reaches, up to their first
\* await.  A union looks whether it needs a fallback before its branches know.
StartMaking(c, N) ==
  LET reached == UNION {Reached(n) : n \in N}
  IN /\ making' = [making EXCEPT ![c] = [n \in Nodes |->
           IF n \notin reached THEN @[n]
           ELSE IF IsLeaf(n) THEN "adapter" ELSE "entries"]]
     /\ parts' = [parts EXCEPT ![c] = [n \in Nodes |->
           IF n \in reached /\ IsObject(n) THEN FirstParts(n) ELSE @[n]]]
     /\ fallbacks' = [n \in Nodes |->
           IF n \in reached /\ IsUnion(n) /\ ~AdapterHasUnion THEN fallbacks[n] \cup {"union"}
           ELSE fallbacks[n]]
     /\ empty' = empty \cup {n \in reached : n \notin built}

StartNothing == UNCHANGED <<making, parts, fallbacks, empty>>

\* transformSchemaAndCheckIfShouldBeHandledByFallbackOnComplexSchemas
NeedsFallback(n) ==
  fallbacks[n] # {} \/ tree[n].toInternal \/ n \in parsers \/ tree[n].lazy

\* Mutant: without `await Promise.all(promises)`.
EntriesAreOnTheirWay(c, n) == \A m \in ToSet(Entries(n)) : making[c][m] # "no" \/ m \in transformed

EntriesAreMade(c, n) == \A m \in ToSet(Entries(n)) : making[c][m] \notin {"entries", "adapter"}

(* After `await Promise.all(promises)`: an object appends its fallback, if   *)
(* one of its keys has any, and goes to the adapter.                        *)
Compose(c, n) ==
  /\ making[c][n] = "entries"
  /\ EntriesAreMade(c, n)
  /\ making' = [making EXCEPT ![c][n] = "adapter"]
  /\ LET needing == {m \in ToSet(Entries(n)) : NeedsFallback(m)}
     IN IF IsObject(n) /\ needing # {}
        THEN /\ fallbacks' = [fallbacks EXCEPT ![n] = @ \cup {"object"}]
             /\ keys' = [keys EXCEPT ![n] = needing]
        ELSE UNCHANGED <<fallbacks, keys>>
  /\ UNCHANGED <<tree, built, empty, transformed, parsers, schemas, tries, parts>>

\* What defaultTransform appends once the adapter answered.
Appended(n) ==
  IF IsLeaf(n) /\ tree[n].limit = "palmares" THEN {"optional", "type", "limit"}
  ELSE IF IsUnion(n) /\ ~AdapterHasUnion THEN {"optional", "type"}
  ELSE {}

Translations(c, n) ==
  IF IsObject(n) THEN Variants(parts[c][n])
  ELSE IF IsUnion(n) /\ ~AdapterHasUnion THEN FlattenSeq([i \in 1..Len(Entries(n)) |-> schemas[Entries(n)[i]]])
  ELSE <<{n}>>

(* The adapter has translated n: it is marked as transformed, and the object *)
(* around it, if this call translates it too, takes its translations.        *)
Translated(c, n) ==
  /\ making[c][n] = "adapter"
  /\ making' = [making EXCEPT ![c][n] = "made"]
  /\ fallbacks' = [fallbacks EXCEPT ![n] = @ \cup Appended(n)]
  /\ parsers' = IF tree[n].parser = "palmares" THEN parsers \cup {n} ELSE parsers
  /\ schemas' = [schemas EXCEPT ![n] = Translations(c, n)]
  /\ transformed' = transformed \cup {n}
  /\ tries' = (tries \/ (IsUnion(n) /\ ~AdapterHasUnion /\ n # Root))
  /\ parts' =
       IF n # Root /\ IsObject(tree[n].parent) /\ making[c][tree[n].parent] = "entries"
       THEN [parts EXCEPT ![c][n] = << >>, ![c][tree[n].parent] = Spread(@, n, Translations(c, n))]
       ELSE [parts EXCEPT ![c][n] = << >>]
  /\ UNCHANGED <<tree, built, empty, keys>>

(* The fields of a model schema are in place (model.ts).                    *)
Build(n) == built' = built \cup {n} /\ UNCHANGED <<tree, empty, transformed, fallbacks, parsers, keys, schemas, tries>>
=============================================================================
