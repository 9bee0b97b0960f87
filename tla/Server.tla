-------------------------------- MODULE Server --------------------------------
(***************************************************************************)
(* A server of packages/server: the routers of a project are declared, the   *)
(* server takes the routes it serves from those the domains give it, and a   *)
(* request runs through the middlewares of its route.                        *)
(*                                                                         *)
(* Chains are shorter than N: the middlewares that are missing have neither  *)
(* a request nor a response function.                                       *)
(***************************************************************************)
EXTENDS RouterTree, RequestLifecycle

CONSTANTS
  DomainRouters,       \* what getRoutes of each domain returns
  Prefix,              \* settings.prefix
  NumRootMiddlewares   \* the length of settings.middlewares

ASSUME ServerAssumptions ==
  /\ DomainRouters \in Seq(Routers) /\ Prefix \in Seq(STRING)
  /\ NumRootMiddlewares \in Nat /\ NumRootMiddlewares + MaxMiddlewares <= N

VARIABLES
  stage,   \* the routers are declared, their routes are served, a request came
  served,  \* the routes that were given to the server adapter
  due      \* history: where the middlewares the tree wants for the request are

serverVars == <<routerVars, vars, stage, served, due>>

RootMiddlewares == [i \in 1..NumRootMiddlewares |-> <<NoRouter, i>>]

NoRequest ==
  /\ found = FALSE /\ shape = [i \in Middlewares |-> {}] /\ has500 = FALSE
  /\ phase = "done" /\ at = N /\ onion = 0 /\ response = FALSE /\ handled = FALSE
  /\ outcome = "pending" /\ asked = {} /\ answered = {} /\ responded = {}
  /\ calls500 = 0 /\ misbehaved = FALSE

ServerInit ==
  /\ RouterInit /\ NoRequest
  /\ stage = "declaring" /\ served = NoPaths /\ due = {}

Declare ==
  /\ stage = "declaring" /\ RouterNext
  /\ UNCHANGED <<vars, stage, served, due>>

-----------------------------------------------------------------------------
\* The root router of the server, in which the routers of the domains are nested.
RootRouterCompletePaths ==
  LET paths[n \in 0..Len(DomainRouters)] ==
        IF n = 0 THEN NoPaths ELSE WithEntriesOf(paths[n - 1], Prefix, << >>, DomainRouters[n])
  IN paths[Len(DomainRouters)]

\* A path is served if a handler is left for it.
WithoutRootMiddlewares(entry) == entry.middlewares  \* mutant
MiddlewaresOf(entry) == RootMiddlewares \o entry.middlewares
Serve ==
  /\ stage = "declaring" /\ stage' = "serving"
  /\ LET paths == RootRouterCompletePaths
         MethodsAt(path) == handlers[paths[path].router][paths[path].object]
     IN served' = [path \in {p \in DOMAIN paths : MethodsAt(p) # {}} |->
                    [middlewares |-> MiddlewaresOf(paths[path]), methods |-> MethodsAt(path)]]
  /\ UNCHANGED <<routerVars, vars, due>>

-----------------------------------------------------------------------------
\* What the tree wants of a request: the routes that lead to it, unless several
\* have its path, and the middlewares on the way to them.
RoutesOfDomains ==
  {b \in UNION {Branches(d) : d \in ToSet(DomainRouters)} : Defined(Last(b)) # {}}
RoutesTo(path, method) ==
  {b \in RoutesOfDomains : /\ Prefix \o PathAlong(b) = path
                           /\ IsAlone(b, RoutesOfDomains)
                           /\ Defined(Last(b)) \cap {method, "all"} # {}}
WantedAt(b) == ToSet(RootMiddlewares \o MiddlewaresAlong(b))

\* Where a middleware is in a chain, 0 if nowhere.
PositionIn(chain, m) == IF \E i \in DOMAIN chain : chain[i] = m
                        THEN CHOOSE i \in DOMAIN chain : chain[i] = m ELSE 0

\* A request for a path.  The adapter looks for a handler of its method, then
\* for one of all methods.  Requests do not look at the tree, so it is forgotten.
IsFound(path, method) ==
  path \in DOMAIN served /\ served[path].methods \cap {method, "all"} # {}

Receive(path, method) ==
  /\ stage = "serving" /\ stage' = "requested"
  /\ found' = IsFound(path, method)
  /\ LET chain == IF IsFound(path, method) THEN served[path].middlewares ELSE RootMiddlewares
         routes == RoutesTo(path, method)
     IN /\ due' = {PositionIn(chain, m) : m \in UNION {WantedAt(b) : b \in routes}} \cup
                  IF found' \/ routes = {} THEN {} ELSE {0}
        /\ \E defined \in [DOMAIN chain -> SUBSET {"request", "response"}] :
             shape' = [i \in Middlewares |-> IF i \in DOMAIN chain THEN defined[i] ELSE {}]
  /\ has500' \in BOOLEAN
  /\ IF found' THEN phase' = "request" /\ at' = 1 /\ response' = FALSE
               ELSE phase' = "handler404" /\ at' = N /\ response' = TRUE
  /\ parentRouter' = [r \in Routers |-> NoRouter] /\ children' = [r \in Routers |-> {}]
  /\ middlewares' = [r \in Routers |-> << >>] /\ handlers' = [r \in Routers |-> << >>]
  /\ completePaths' = [r \in Routers |-> NoPaths] /\ served' = NoPaths
  /\ UNCHANGED <<onion, handled, outcome, asked, answered, responded, calls500, misbehaved>>

Request ==
  /\ stage = "requested" /\ Next
  /\ UNCHANGED <<routerVars, stage, served, due>>

Unknown == <<"unknown">>

ServerNext ==
  \/ Declare
  \/ Serve
  \/ \E path \in DOMAIN served \cup {Prefix \o PathAlong(b) : b \in RoutesOfDomains} \cup {Unknown},
        method \in Methods : Receive(path, method)
  \/ Request

ServerSpec == ServerInit /\ [][ServerNext]_serverVars
-----------------------------------------------------------------------------
\* "We go IN the onion, the center is the handler" (server/src/middleware/index.ts
\* 37): a handler the tree has for a request is found, and runs only when all the
\* middlewares of the settings and of the routers from the outermost to its own
\* have passed the request on.
HandlerIsBehindItsRouters ==
  /\ 0 \notin due
  /\ phase = "handler" =>
       answered = {} /\ \A i \in due : "request" \in shape[i] => i \in asked
=============================================================================
