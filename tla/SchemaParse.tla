----------------------------- MODULE SchemaParse -----------------------------
(***************************************************************************)
(* Calls of parse on one schema (schemas/src/schema/schema.ts, validators)   *)
(* that overlap: each request of a server parses its body with the schema   *)
(* all of them share.  A call translates the schema if nobody has, runs the *)
(* fallbacks, which parse the keys of an object side by side and the        *)
(* branches of a union one after the other, and then asks the adapter.      *)
(*                                                                         *)
(* A value is a form at each place of the data; the branches of a union are *)
(* at the place of the union.  "n" is a number, "big" one above the limit,  *)
(* "s" a string, which a parser may turn into a number, "none" undefined.   *)
(***************************************************************************)
EXTENDS SchemaTranslation

VARIABLES
  input,   \* history: the data of each call
  stage,   \* how far __parse of each schema is in each call
  value,   \* the data: objects are changed in place
  held,    \* `value` inside __parse of each schema
  errors,  \* parseResult.errors of each schema
  seen,    \* options.errorsAsHashedSet
  bubble,  \* options.toInternalToBubbleUp
  mark,    \* startingToInternalBubbleUpLength of each union
  branch,  \* the branch each union is at
  turns    \* how often the value at each place of the answer went through toInternal

callVars == <<input, stage, value, held, errors, seen, bubble, mark, branch, turns>>
vars == <<schemaVars, makingVars, callVars>>

Forms == {"none", "n", "big", "s"}

Place(n) == IF n # Root /\ IsUnion(tree[n].parent) THEN tree[n].parent ELSE n
Places == {Place(n) : n \in {m \in Nodes : ~IsObject(m)}}

Init ==
  /\ InitTranslation
  /\ input = [c \in Calls |-> << >>]
  /\ stage = [c \in Calls |-> [n \in Nodes |-> "idle"]]
  /\ value = [c \in Calls |-> << >>]
  /\ held = [c \in Calls |-> [n \in Nodes |-> "none"]]
  /\ errors = [c \in Calls |-> [n \in Nodes |-> {}]]
  /\ seen = [c \in Calls |-> {}]
  /\ bubble = [c \in Calls |-> << >>]
  /\ mark = [c \in Calls |-> [n \in Nodes |-> 0]]
  /\ branch = [c \in Calls |-> [n \in Nodes |-> 0]]
  /\ turns = [c \in Calls |-> [n \in Nodes |-> 0]]

-----------------------------------------------------------------------------
(* The validations.                                                         *)

HasType(n, v) == v \in (IF tree[n].type = "number" THEN {"n", "big"} ELSE {"s"})

\* __parsersToTransformValue with the parsers in `_fallbacks`.
Parsed(n, v) == IF n \in parsers /\ v = "s" THEN "n" ELSE v

Error(n, code) == [code |-> code, at |-> Place(n), message |-> tree[n].message]

(* optional, the check of the type, and the limit, in this order of         *)
(* priority: each keeps the ones below it from running.                     *)
FallbackErrors(n, v) ==
  IF "optional" \in fallbacks[n] /\ v = "none"
  THEN IF tree[n].optional THEN {} ELSE {Error(n, "required")}
  ELSE IF "type" \in fallbacks[n] /\ ~HasType(n, v) THEN {Error(n, "type")}
  ELSE IF "limit" \in fallbacks[n] /\ v = "big" THEN {Error(n, "limit")}
  ELSE {}

\* What the adapter says of a leaf. The limit is its own only if it has it.
AdapterErrorsOfLeaf(n, v) ==
  IF v = "none" THEN IF tree[n].optional THEN {} ELSE {Error(n, "required")}
  ELSE LET w == IF tree[n].parser = "adapter" /\ v = "s" THEN "n" ELSE v
       IN IF ~HasType(n, w) THEN {Error(n, "type")}
          ELSE IF tree[n].limit = "adapter" /\ w = "big" THEN {Error(n, "limit")}
          ELSE {}

AdapterErrors(n, v) ==
  IF IsLeaf(n) THEN AdapterErrorsOfLeaf(n, v)
  ELSE LET ofBranches == {AdapterErrorsOfLeaf(b, v) : b \in ToSet(tree[n].children)}
       IN IF {} \in ofBranches \/ (v = "none" /\ tree[n].optional) THEN {} ELSE UNION ofBranches

\* __validateByAdapter of an object, of one of its translations.
VariantErrors(c, S) == UNION {AdapterErrors(m, value[c][Place(m)]) : m \in S}

(* The first translation, or, if a union below has registered itself, any.  *)
ObjectErrors(c, n) ==
  IF n = Root /\ tries
  THEN LET ofVariants == {VariantErrors(c, S) : S \in Range(schemas[n])}
       IN IF {} \in ofVariants THEN {} ELSE UNION ofVariants
  ELSE VariantErrors(c, schemas[n][1])

-----------------------------------------------------------------------------
(* The pieces of __parse.                                                   *)

\* Mutant: a flag that is set before the await, so that only one call translates.
UntranslatedByAnyone(N) == {n \in N \ transformed : \A c \in Calls : making[c][n] = "no"}

\* shouldTranslate: nothing says that another call is at it.
Untranslated(N) == N \ transformed

(* Up to the first await of the schemas N, which start at the same time: a  *)
(* model schema waits for its fields, a schema that is not translated for   *)
(* its translation.  `data` is the value they are given.                    *)
Enter(c, N, data, stages) ==
  LET waiting == {n \in N : n \notin built}
      starting == Untranslated(N \ waiting)
  IN /\ stage' = [stage EXCEPT ![c] = [n \in Nodes |->
           IF n \in waiting THEN "building"
           ELSE IF n \in starting THEN "making"
           ELSE IF n \in N THEN "parsing" ELSE stages[n]]]
     /\ held' = [held EXCEPT ![c] = [n \in Nodes |->
           IF n \in N /\ ~IsObject(n) THEN Parsed(n, data[Place(n)]) ELSE @[n]]]
     /\ IF starting # {} THEN StartMaking(c, starting) ELSE StartNothing

\* parse, with the data of a request.
Parse(c, data) ==
  /\ stage[c][Root] = "idle"
  /\ input' = [input EXCEPT ![c] = data]
  /\ value' = [value EXCEPT ![c] = data]
  /\ Enter(c, {Root}, data, stage[c])
  /\ UNCHANGED <<tree, built, transformed, parsers, keys, schemas, tries,
                 errors, seen, bubble, mark, branch, turns>>

(* The fields are there: whoever waits for __alreadyAppliedModel goes on.   *)
IsBuilt(n) ==
  /\ n \notin built
  /\ \E c \in Calls : stage[c][n] = "building"
  /\ Build(n)
  /\ UNCHANGED <<makingVars, callVars>>

Resume(c, n) ==
  /\ stage[c][n] = "building"
  /\ n \in built
  /\ Enter(c, {n}, value[c], stage[c])
  /\ UNCHANGED <<tree, built, transformed, parsers, keys, schemas, tries,
                 input, value, errors, seen, bubble, mark, branch, turns>>

\* __validateByFallbacks is next.
IsReady(c, n) ==
  \/ stage[c][n] = "parsing"
  \/ stage[c][n] = "making" /\ making[c][n] = "made"

\* Mutant: the length test the other way round.
TurnsAfterOthers(c, n, es) == tree[n].toInternal /\ bubble[c] # << >> /\ es = {}

(* toInternal runs at once if nobody has one to run later.                  *)
TurnsNow(c, n, es) == tree[n].toInternal /\ bubble[c] = << >> /\ es = {}

Judged(c, n, es) ==
  /\ errors' = [errors EXCEPT ![c] = [m \in Nodes |->
       IF m = n THEN es ELSE IF m \in ToSet(tree[n].children) THEN {} ELSE @[m]]]
  /\ stage' = [stage EXCEPT ![c][n] = "judged"]
  /\ turns' = IF TurnsNow(c, n, es) THEN [turns EXCEPT ![c][n] = 1] ELSE turns

(* The fallbacks of a leaf, which leave out errors that were seen before,   *)
(* and then the adapter, which does not.                                    *)
JudgeLeaf(c, n) ==
  /\ IsReady(c, n)
  /\ IsLeaf(n)
  /\ LET own == {e \in FallbackErrors(n, held[c][n]) : e \notin seen[c]}
         es == own \cup AdapterErrors(n, held[c][n])
     IN /\ Judged(c, n, es)
        /\ seen' = [seen EXCEPT ![c] = @ \cup es]
  /\ UNCHANGED <<schemaVars, makingVars, input, value, held, bubble, mark, branch>>

\* objectValidation: the keys with fallbacks are parsed side by side.
OpenObject(c, n) ==
  /\ IsReady(c, n)
  /\ IsObject(n)
  /\ "object" \in fallbacks[n]
  /\ Enter(c, keys[n], value[c], [stage[c] EXCEPT ![n] = "within"])
  /\ UNCHANGED <<tree, built, transformed, parsers, keys, schemas, tries,
                 input, value, errors, seen, bubble, mark, branch, turns>>

\* All of them have returned, or there are none: the adapter parses the rest.
CloseObject(c, n) ==
  /\ IsObject(n)
  /\ \/ stage[c][n] = "within" /\ \A m \in keys[n] : stage[c][m] = "over"
     \/ IsReady(c, n) /\ "object" \notin fallbacks[n]
  /\ LET ofKeys == IF stage[c][n] = "within" THEN UNION {errors[c][m] : m \in keys[n]} ELSE {}
     IN Judged(c, n, ofKeys \cup ObjectErrors(c, n))
  /\ UNCHANGED <<schemaVars, makingVars, input, value, held, seen, bubble, mark, branch>>

(* unionValidation tries the branches in their order.                       *)
OpenUnion(c, n) ==
  /\ IsReady(c, n)
  /\ IsUnion(n)
  /\ "union" \in fallbacks[n]
  /\ held[c][n] # "none"
  /\ Enter(c, {tree[n].children[1]}, [value[c] EXCEPT ![n] = held[c][n]],
           [stage[c] EXCEPT ![n] = "within"])
  /\ branch' = [branch EXCEPT ![c][n] = 1]
  /\ mark' = [mark EXCEPT ![c][n] = Len(bubble[c])]
  /\ UNCHANGED <<tree, built, transformed, parsers, keys, schemas, tries,
                 input, value, errors, seen, bubble, turns>>

BranchAt(c, n) == tree[n].children[branch[c][n]]

BranchFits(c, n) ==
  /\ IsUnion(n)
  /\ stage[c][n] = "within"
  /\ stage[c][BranchAt(c, n)] = "judged"
  /\ errors[c][BranchAt(c, n)] = {}
  /\ Judged(c, n, {})
  /\ UNCHANGED <<schemaVars, makingVars, input, value, held, seen, bubble, mark, branch>>

\* What was to be run later since the union began is forgotten.
Forgotten(c, n) == SubSeq(bubble[c], 1, Min({mark[c][n], Len(bubble[c])}))

BranchFails(c, n) ==
  /\ IsUnion(n)
  /\ stage[c][n] = "within"
  /\ stage[c][BranchAt(c, n)] = "judged"
  /\ errors[c][BranchAt(c, n)] # {}
  /\ bubble' = [bubble EXCEPT ![c] = Forgotten(c, n)]
  /\ IF branch[c][n] < Len(tree[n].children)
     THEN /\ branch' = [branch EXCEPT ![c][n] = @ + 1]
          /\ Enter(c, {tree[n].children[branch[c][n] + 1]}, [value[c] EXCEPT ![n] = held[c][n]], stage[c])
          /\ UNCHANGED <<errors, turns>>
     ELSE /\ Judged(c, n, UNION {errors[c][b] : b \in ToSet(tree[n].children)})
          /\ UNCHANGED <<branch, held>>
          /\ StartNothing
  /\ UNCHANGED <<tree, built, transformed, parsers, keys, schemas, tries, input, value, seen, mark>>

(* Without branches to try: undefined, or a union the adapter validates.    *)
JudgeUnion(c, n) ==
  /\ IsReady(c, n)
  /\ IsUnion(n)
  /\ "union" \notin fallbacks[n] \/ held[c][n] = "none"
  /\ LET es == IF "union" \in fallbacks[n] THEN FallbackErrors(n, held[c][n])
               ELSE AdapterErrors(n, held[c][n])
     IN Judged(c, n, es)
  /\ UNCHANGED <<schemaVars, makingVars, input, value, held, seen, bubble, mark, branch>>

(* Back in objectValidation: a key without errors takes its value, and its  *)
(* toInternal is left for the end, whether it has run or not.               *)
Deliver(c, n) ==
  /\ stage[c][n] = "judged"
  /\ n # Root /\ IsObject(tree[n].parent)
  /\ stage' = [stage EXCEPT ![c][n] = "over"]
  /\ value' = IF errors[c][n] = {} /\ ~IsObject(n) THEN [value EXCEPT ![c][n] = held[c][n]] ELSE value
  /\ bubble' = IF tree[n].toInternal THEN [bubble EXCEPT ![c] = Append(@, n)] ELSE bubble
  /\ held' = [held EXCEPT ![c][n] = "none"]
  /\ UNCHANGED <<schemaVars, makingVars, input, errors, seen, mark, branch, turns>>

(* The end of parse.  The toInternal left for now change the object the call *)
(* was given, while the answer is the one the adapter made of it.  With the *)
(* answer the variables of the call are gone.                               *)
Answer(c) ==
  /\ stage[c][Root] = "judged"
  /\ stage' = [stage EXCEPT ![c] = [n \in Nodes |-> IF n = Root THEN "over" ELSE "idle"]]
  /\ value' = [value EXCEPT ![c] = << >>]
  /\ held' = [held EXCEPT ![c] = [n \in Nodes |-> "none"]]
  /\ seen' = [seen EXCEPT ![c] = {}]
  /\ bubble' = [bubble EXCEPT ![c] = << >>]
  /\ mark' = [mark EXCEPT ![c] = [n \in Nodes |-> 0]]
  /\ branch' = [branch EXCEPT ![c] = [n \in Nodes |-> 0]]
  /\ making' = [making EXCEPT ![c] = [n \in Nodes |-> "no"]]
  /\ UNCHANGED <<schemaVars, parts, input, errors, turns>>

Making(c) == \E n \in Nodes : (Compose(c, n) \/ Translated(c, n)) /\ UNCHANGED callVars

Parsing(c) ==
  \/ \E n \in Nodes :
       \/ Resume(c, n) \/ JudgeLeaf(c, n) \/ OpenObject(c, n) \/ CloseObject(c, n)
       \/ OpenUnion(c, n) \/ BranchFits(c, n) \/ BranchFails(c, n) \/ JudgeUnion(c, n) \/ Deliver(c, n)
  \/ Answer(c)

Begins(c) == \E data \in [Places -> Forms] : Parse(c, data)

AllOver == \A c \in Calls : stage[c][Root] = "over"

Next ==
  \/ \E c \in Calls : Begins(c) \/ Making(c) \/ Parsing(c)
  \/ \E n \in Nodes : IsBuilt(n)
  \/ AllOver /\ UNCHANGED vars

Spec == Init /\ [][Next]_vars

-----------------------------------------------------------------------------
(* What a schema accepts.                                                   *)

LeafFits(n, v) ==
  LET w == IF tree[n].parser # "none" /\ v = "s" THEN "n" ELSE v
  IN IF v = "none" THEN tree[n].optional
     ELSE HasType(n, w) /\ ~(w = "big" /\ tree[n].limit # "none")

Fits(n, v) ==
  IF IsLeaf(n) THEN LeafFits(n, v)
  ELSE IF v = "none" THEN tree[n].optional ELSE \E b \in ToSet(tree[n].children) : LeafFits(b, v)

IsValid(c) == \A p \in Places : Fits(p, input[c][p])
IsAccepted(c) == errors[c][Root] = {}

(* Whatever calls share the first translation, the answer is right: data is *)
(* accepted if it is valid in every place, by the validations the adapter    *)
(* does not have as well (the fallbacks of schemas/src/utils.ts:63-69), and  *)
(* only then, though the parsers of a schema, and the translations a union  *)
(* leads to, are only known once it is translated (schema.ts:344-444).      *)
AcceptedIffValid ==
  \A c \in Calls : stage[c][Root] = "over" => (IsAccepted(c) <=> IsValid(c))

(* No call validates by a schema before all fallbacks the schema needs are  *)
(* appended, by whichever call: defaultTransform appends them after awaits   *)
(* (utils.ts:210-245), an object after its keys are translated              *)
(* (object.ts:118-134), while other calls use the same schema.              *)
RequiredFallbacks(n) ==
  IF IsLeaf(n) THEN Appended(n)
  ELSE IF IsUnion(n) THEN Appended(n) \cup (IF AdapterHasUnion THEN {} ELSE {"union"})
  ELSE IF \E m \in ToSet(Entries(n)) : NeedsFallback(m) THEN {"object"} ELSE {}

FallbacksAreComplete ==
  \A c \in Calls, n \in Nodes :
    stage[c][n] \in {"parsing", "within", "judged", "over"} => RequiredFallbacks(n) \subseteq fallbacks[n]

(* A schema with one toInternal: what is accepted has been through it once,  *)
(* whether it ran at once (schema.ts:415-439) or was left for the end.      *)
InternalsAreInTheAnswer ==
  Cardinality({n \in Nodes : tree[n].toInternal}) = 1 =>
    \A c \in Calls : stage[c][Root] = "over" /\ IsAccepted(c) =>
      \A n \in Nodes : tree[n].toInternal => turns[c][n] = 1
=============================================================================
