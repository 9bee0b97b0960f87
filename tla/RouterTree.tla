------------------------------ MODULE RouterTree ------------------------------
(***************************************************************************)
(* How a project declares its routes: routers are nested in each other, and  *)
(* each of them keeps the complete paths of all that is nested in it         *)
(* (server/src/router/routers.ts).  Nothing looks the tree up later: a       *)
(* router knows of another what was so when the other was nested.            *)
(*                                                                         *)
(* A path is the sequence of its parts; parameters of paths are left out.    *)
(***************************************************************************)
EXTENDS Naturals, FiniteSets, SequencesExt

CONSTANTS
  Routers,         \* the routers of a project
  PathOf,          \* the path each was made with, << >> for path('')
  NoRouter,        \* undefined
  Methods,         \* the HTTP methods in use
  BottomUp,        \* see Discipline below
  MaxMiddlewares,  \* bound on the middlewares of a project
  MaxHandlers      \* bound on the handlers of a project

ASSUME RouterAssumptions ==
  /\ IsFiniteSet(Routers) /\ NoRouter \notin Routers
  /\ \A r \in Routers : PathOf[r] \in Seq(STRING)
  /\ "all" \notin Methods /\ BottomUp \in BOOLEAN
  /\ MaxMiddlewares \in Nat /\ MaxHandlers \in Nat

VARIABLES
  parentRouter,   \* __parentRouter: the router one was last nested in
  children,       \* __children
  middlewares,    \* __middlewares, named by their router and a number
  handlers,       \* the objects __handlers has been so far, each as its methods
  completePaths   \* __completePaths; its entries refer to one of those objects

routerVars == <<parentRouter, children, middlewares, handlers, completePaths>>

RouterTypeOK ==
  /\ parentRouter \in [Routers -> Routers \cup {NoRouter}]
  /\ children \in [Routers -> SUBSET Routers]
  /\ \A r \in Routers :
       /\ middlewares[r] \in Seq(Routers \X (1..MaxMiddlewares))
       /\ handlers[r] \in Seq(SUBSET (Methods \cup {"all"}))
       /\ \A path \in DOMAIN completePaths[r] :
            LET entry == completePaths[r][path]
            IN /\ entry.router \in Routers /\ entry.object \in DOMAIN handlers[entry.router]
               /\ entry.middlewares \in Seq(Routers \X (1..MaxMiddlewares))

NoPaths == [path \in {} |-> path]

RouterInit ==
  /\ parentRouter = [r \in Routers |-> NoRouter]
  /\ children = [r \in Routers |-> {}]
  /\ middlewares = [r \in Routers |-> << >>]
  /\ handlers = [r \in Routers |-> << >>]
  /\ completePaths = [r \in Routers |-> NoPaths]

-----------------------------------------------------------------------------
\* The router and those above it, which the loop of appendChildToParentRouter
\* climbs: the least set with the router and the parents of its members.
JustTheRouter(r) == {r}  \* mutant
Above(r) ==
  LET IsClosed(S) == r \in S /\ \A q \in S : parentRouter[q] # NoRouter => parentRouter[q] \in S
  IN {a \in Routers : \A S \in SUBSET Routers : IsClosed(S) => a \in S}

\* An entry with these middlewares before its own.
Behind(outer, entry) ==
  [middlewares |-> outer \o entry.middlewares, router |-> entry.router, object |-> entry.object]

\* What a router with this path and these middlewares keeps of a child: an entry
\* for its own handlers, and one for each entry of its own, which go first where
\* both have one path.
OwnEntries(path, outer, child) ==
  [p \in IF handlers[child] = << >> THEN {} ELSE {path \o PathOf[child]} |->
    [middlewares |-> outer \o middlewares[child],
     router |-> child, object |-> Len(handlers[child])]]

NestedEntries(path, outer, child) ==
  [p \in {path \o q : q \in DOMAIN completePaths[child]} |->
    Behind(outer, completePaths[child][SubSeq(p, Len(path) + 1, Len(p))])]

WithEntriesOf(paths, path, outer, child) ==
  LET nested == NestedEntries(path, outer, child)
      own == OwnEntries(path, outer, child)
  IN [p \in DOMAIN nested \cup DOMAIN own \cup DOMAIN paths |->
       IF p \in DOMAIN nested THEN nested[p] ELSE IF p \in DOMAIN own THEN own[p] ELSE paths[p]]

-----------------------------------------------------------------------------
\* Discipline.  With BottomUp a router is nested only when it is finished.  Two
\* exceptions change nothing: routers may be added to one that adds neither a
\* part to the path nor middlewares; and a router may get its middlewares after
\* its children, if it gets them at once.
Users(r) == {q \in Routers : r \in children[q]}
IsFinished(r) == Users(r) # {}
AddsNothing(r) == PathOf[r] = << >> /\ middlewares[r] = << >> /\ Cardinality(Users(r)) = 1

MayNestIn(r) ==
  BottomUp => \A q \in Above(r) : IsFinished(q) => AddsNothing(q)
MayAddMiddlewares(r) ==
  BottomUp => ~IsFinished(r) /\ (middlewares[r] = << >> \/ completePaths[r] = NoPaths)
MayAddHandlers(r) == BottomUp => ~IsFinished(r)

\* The ways down from a router, itself the first of each.
IsWay(b) == b # << >> /\ \A i \in 1..Len(b) - 1 : b[i + 1] \in children[b[i]]
Branches(r) == {b \in BoundedSeq(Routers, Cardinality(Routers)) : IsWay(b) /\ b[1] = r}
IsBelow(q, r) == \E b \in Branches(r) : Last(b) = q

-----------------------------------------------------------------------------
\* nested([c]); with several children it does the same for one after the other.
Nest(r, c) ==
  /\ MayNestIn(r) /\ ~IsBelow(r, c) /\ c \notin children[r]
  /\ parentRouter' = [parentRouter EXCEPT ![c] = r]
  /\ children' = [children EXCEPT ![r] = @ \cup {c}]
  /\ completePaths' =
       [a \in Routers |->
         IF a \in Above(r)
         THEN WithEntriesOf(completePaths[a], PathOf[a], middlewares[a], c)
         ELSE completePaths[a]]
  /\ UNCHANGED <<middlewares, handlers>>

\* n middlewares more: last of the router's own, first of those in its entries.
Added(r, n) == [i \in 1..n |-> <<r, Len(middlewares[r]) + i>>]

Prepend(r, added) ==
  /\ middlewares' = [middlewares EXCEPT ![r] = @ \o added]
  /\ completePaths' = [completePaths EXCEPT ![r] =
       [path \in DOMAIN completePaths[r] |-> Behind(added, completePaths[r][path])]]

AllMiddlewares == UNION {ToSet(middlewares[r]) : r \in Routers}
MayAdd(n) == Cardinality(AllMiddlewares) + n <= MaxMiddlewares
NumHandlers == SumFunction([r \in Routers |-> Len(handlers[r])])

\* middlewares([...]) with n of them.
AddMiddlewares(r, n) ==
  /\ MayAddMiddlewares(r) /\ MayAdd(n)
  /\ Prepend(r, Added(r, n))
  /\ UNCHANGED <<parentRouter, children, handlers>>

\* get, post and the like: a new object, and the old one loses its "all".  The
\* middlewares of the options are the router's, whatever the method.
Defined(r) == IF handlers[r] = << >> THEN {} ELSE Last(handlers[r])
Replaced(r, kept, new) ==
  LET objects == handlers[r]
      stripped == IF objects = << >> THEN objects
                  ELSE [objects EXCEPT ![Len(objects)] = @ \cap kept]
  IN [handlers EXCEPT ![r] = Append(stripped, (Defined(r) \cap kept) \cup new)]

AddHandler(r, method, n) ==
  /\ MayAddHandlers(r) /\ method \notin Defined(r)
  /\ NumHandlers < MaxHandlers
  /\ handlers' = Replaced(r, Methods, {method})
  /\ \/ n = 0 /\ UNCHANGED <<middlewares, completePaths>>
     \/ /\ n > 0 /\ MayAddMiddlewares(r) /\ MayAdd(n)
        /\ Prepend(r, Added(r, n))
  /\ UNCHANGED <<parentRouter, children>>

\* all: the others are dropped, and so are the middlewares of its options.
AddHandlerOfAll(r) ==
  /\ MayAddHandlers(r) /\ "all" \notin Defined(r)
  /\ NumHandlers < MaxHandlers
  /\ handlers' = Replaced(r, {"all"}, {"all"})
  /\ UNCHANGED <<parentRouter, children, middlewares, completePaths>>

RouterNext ==
  \E r \in Routers :
    \/ \E c \in Routers : Nest(r, c)
    \/ \E n \in 1..MaxMiddlewares : AddMiddlewares(r, n)
    \/ \E method \in Methods, n \in 0..MaxMiddlewares : AddHandler(r, method, n)
    \/ AddHandlerOfAll(r)

RouterSpec == RouterInit /\ [][RouterNext]_routerVars
-----------------------------------------------------------------------------
\* What a way down the tree comes to.
PathAlong(b) == FlattenSeq([i \in DOMAIN b |-> PathOf[b[i]]])
MiddlewaresAlong(b) == FlattenSeq([i \in DOMAIN b |-> middlewares[b[i]]])

Routes(r) == {b \in Branches(r) : Len(b) > 1 /\ Defined(Last(b)) # {}}
IsAlone(b, routes) == \A other \in routes : PathAlong(other) = PathAlong(b) => other = b

\* "We traverse the tree of routers and parent routers" so that a router knows of
\* all the handlers below it (router/routers.ts 217-233): what it keeps is what the
\* tree says, the path, all the middlewares from the outermost to the innermost and
\* the handlers, unless two routes have one path.
RoutesAreTheTree ==
  \A r \in Routers :
    LET routes == Routes(r)
    IN /\ DOMAIN completePaths[r] = {PathAlong(b) : b \in routes}
       /\ \A b \in routes :
            IsAlone(b, routes) =>
              LET entry == completePaths[r][PathAlong(b)]
              IN /\ entry.middlewares = MiddlewaresAlong(b)
                 /\ handlers[entry.router][entry.object] = Defined(Last(b))
=============================================================================
