------------------------------ MODULE EngineInit ------------------------------
(***************************************************************************)
(* How packages/databases brings its engines up: `init`, called when the app *)
(* server starts, goes through the databases of the settings in order; a     *)
(* query that comes earlier, or without an app server, makes its manager     *)
(* initialize one engine lazily, unless somebody is already at it, and then  *)
(* it polls.  Every await of these is a point where the others go on.        *)
(***************************************************************************)
EXTENDS Naturals, Sequences, FiniteSets

CONSTANTS
  Managers,    \* one per model, each model in a domain of its own
  Databases,   \* the engine names of the settings, in order
  Unnamed,     \* the empty name: the manager's default engine
  Unknown,     \* a name that is not in the settings
  Queries,     \* calls of getEngineInstance or getInstance
  App,         \* the initializer that is `init`
  None

Engines == {Databases[i] : i \in DOMAIN Databases}
Names == Engines \cup {Unnamed, Unknown}
Initializers == Queries \cup {App}
\* An adapter is made by an initializer for an engine; each makes at most one.
Adapters == Initializers \X Engines
Makings == [engine : Engines \cup {None}, adapter : Adapters \cup {None},
            models : SUBSET Managers, done : SUBSET Managers]
Requests == [manager : Managers, name : Names, wants : {"engine", "instance"}]

ASSUME EngineAssumptions ==
  /\ Databases \in Seq(Engines) /\ Databases # << >>
  /\ \A i, j \in DOMAIN Databases : Databases[i] = Databases[j] => i = j
  /\ Unnamed \notin Engines /\ Unknown \notin Engines \cup {Unnamed}
  /\ App \notin Queries /\ None \notin Adapters \cup Engines \cup Names

VARIABLES
  isInitialized, isInitializing,  \* of the Databases singleton
  engines,        \* initializedEngineInstances
  found, finders, \* #cachedModelsByModelName; the calls of getModels filling it
  stage,          \* how far each call of initializeDatabase is
  making,         \* its engine and adapter, its models and those it has translated
  managed,        \* __engineInstances of each manager (__instances, __models alike)
  defaultName,    \* __defaultEngineInstanceName
  lazy,           \* the managers whose __isLazyInitializing is set
  query, request, \* each query: where it is and what was asked
  seeks,          \* the name a query initializes or polls for
  answer,         \* what a query returned
  opened, closed  \* adapters that connected, that were closed

databaseVars == <<isInitialized, isInitializing, engines>>
modelVars == <<found, finders>>
initializerVars == <<stage, making, opened>>
managerVars == <<managed, defaultName, lazy>>
queryVars == <<query, request, seeks, answer>>
engineVars == <<databaseVars, modelVars, initializerVars, managerVars, queryVars, closed>>

EngineTypeOK ==
  /\ isInitialized \in BOOLEAN /\ isInitializing \in BOOLEAN
  /\ engines \in [Engines -> Adapters \cup {None}]
  /\ stage \in [Initializers -> {"idle", "models", "connecting", "translating", "failed"}]
  /\ making \in [Initializers -> Makings]
  /\ found \subseteq Managers /\ finders \subseteq Initializers
  /\ managed \in [Managers -> [Engines -> Adapters \cup {None}]]
  /\ defaultName \in [Managers -> Engines \cup {Unnamed}]
  /\ lazy \subseteq Managers
  /\ query \in [Queries -> {"idle", "looking", "loading", "initializing", "polling",
                            "answered", "threw"}]
  /\ request \in [Queries -> Requests \cup {None}]
  /\ seeks \in [Queries -> Names \cup {None}]
  /\ answer \in [Queries -> Adapters \cup {None}]
  /\ opened \subseteq Adapters /\ closed \subseteq opened

Nothing == [engine |-> None, adapter |-> None, models |-> {}, done |-> {}]

EngineInitState ==
  /\ isInitialized = FALSE /\ isInitializing = FALSE
  /\ engines = [e \in Engines |-> None]
  /\ found = {} /\ finders = {}
  /\ stage = [i \in Initializers |-> "idle"]
  /\ making = [i \in Initializers |-> Nothing]
  /\ managed = [m \in Managers |-> [e \in Engines |-> None]]
  /\ defaultName = [m \in Managers |-> Unnamed]
  /\ lazy = {}
  /\ query = [q \in Queries |-> "idle"]
  /\ request = [q \in Queries |-> None]
  /\ seeks = [q \in Queries |-> None]
  /\ answer = [q \in Queries |-> None]
  /\ opened = {} /\ closed = {}

-----------------------------------------------------------------------------
(* initializeDatabase                                                       *)

AdapterFor(i, e) == IF engines[e] # None THEN engines[e] ELSE <<i, e>>

\* The adapter is chosen at once; then the models are looked up in the domains,
\* unless some were found before.
Begin(i, e) ==
  /\ stage' = [stage EXCEPT ![i] = "models"]
  /\ making' = [making EXCEPT ![i] = [Nothing EXCEPT !.engine = e, !.adapter = AdapterFor(i, e)]]
  /\ finders' = IF found = {} THEN finders \cup {i} ELSE finders
  /\ UNCHANGED found

\* getModels of one domain has answered.
FindModel(m) ==
  /\ finders # {} /\ m \notin found
  /\ found' = found \cup {m}
  /\ finders' = IF found' = Managers THEN {} ELSE finders
  /\ UNCHANGED <<databaseVars, initializerVars, managerVars, queryVars, closed>>

\* Who found models there goes on with those, even if they are not all yet.
GetModels(i) ==
  /\ stage[i] = "models" /\ i \notin finders
  /\ stage' = [stage EXCEPT ![i] = "connecting"]
  /\ making' = [making EXCEPT ![i].models = found]
  /\ UNCHANGED <<databaseVars, modelVars, opened, managerVars, queryVars, closed>>

Connect(i) ==
  /\ stage[i] = "connecting"
  /\ stage' = [stage EXCEPT ![i] = "translating"]
  /\ opened' = opened \cup {making[i].adapter}
  /\ UNCHANGED <<modelVars, databaseVars, making, managerVars, queryVars, closed>>

\* isConnected says no, and the call throws, whoever made it: `init` leaves
\* isInitializing set, a lazy query leaves __isLazyInitializing set.
ConnectFails(i) ==
  /\ stage[i] = "connecting"
  /\ stage' = [stage EXCEPT ![i] = "failed"]
  /\ query' = IF i \in Queries THEN [query EXCEPT ![i] = "threw"] ELSE query
  /\ UNCHANGED <<modelVars, databaseVars, making, opened, managerVars, request, seeks, answer, closed>>

FirstName(m, e) == IF defaultName[m] = Unnamed THEN e ELSE defaultName[m]

\* __initializeManagers of one model: the models are translated side by side.
Translate(i, m) ==
  /\ stage[i] = "translating" /\ m \in making[i].models \ making[i].done
  /\ making' = [making EXCEPT ![i].done = @ \cup {m}]
  /\ managed' = [managed EXCEPT ![m][making[i].engine] = making[i].adapter]
  /\ defaultName' = [defaultName EXCEPT ![m] = FirstName(m, making[i].engine)]
  /\ UNCHANGED <<modelVars, databaseVars, stage, opened, lazy, queryVars, closed>>

RegistersEarly(i) == stage[i] = "translating"  \* mutant
IsTranslated(i) == stage[i] = "translating" /\ making[i].done = making[i].models

NextDatabase(e) ==
  LET i == CHOOSE i \in DOMAIN Databases : Databases[i] = e
  IN IF i = Len(Databases) THEN None ELSE Databases[i + 1]

\* A lazy initialization ends: the query looks again, or throws if it wanted the
\* model's instance, since what it awaited is always true.
RegisterLazily(q) ==
  /\ q \in Queries /\ IsTranslated(q)
  /\ engines' = [engines EXCEPT ![making[q].engine] = making[q].adapter]
  /\ stage' = [stage EXCEPT ![q] = "idle"]
  /\ query' = [query EXCEPT ![q] = IF request[q].wants = "engine" THEN "looking" ELSE "threw"]
  /\ UNCHANGED <<modelVars, isInitialized, isInitializing, making, opened, managerVars, request, seeks,
                 answer, closed>>

\* init goes on with the next database, or is done.
Register ==
  /\ IsTranslated(App)
  /\ LET e == making[App].engine
         next == NextDatabase(e)
     IN /\ engines' = [engines EXCEPT ![e] = making[App].adapter]
        /\ IF next # None
             THEN Begin(App, next) /\ UNCHANGED <<isInitialized, isInitializing>>
             ELSE /\ stage' = [stage EXCEPT ![App] = "idle"]
                  /\ isInitialized' = TRUE /\ isInitializing' = FALSE
                  /\ UNCHANGED <<making, modelVars>>
  /\ UNCHANGED <<opened, managerVars, queryVars, closed>>

\* init, when nobody has called it yet.
InitBegin ==
  /\ ~isInitialized /\ ~isInitializing
  /\ isInitializing' = TRUE
  /\ Begin(App, Databases[1])
  /\ UNCHANGED <<isInitialized, engines, opened, managerVars, queryVars, closed>>

-----------------------------------------------------------------------------
(* getEngineInstance and getInstance of a manager                           *)

Ask(q, r) ==
  /\ query[q] = "idle"
  /\ query' = [query EXCEPT ![q] = "looking"]
  /\ request' = [request EXCEPT ![q] = r]
  /\ UNCHANGED <<modelVars, databaseVars, initializerVars, managerVars, seeks, answer, closed>>

AlwaysDefault(q) == defaultName[request[q].manager]  \* mutant
NameOf(q) ==
  IF request[q].name = Unnamed THEN defaultName[request[q].manager] ELSE request[q].name

IsThere(q, name) == name \in Engines /\ managed[request[q].manager][name] # None

Answer(q) ==
  /\ query[q] = "looking" /\ IsThere(q, NameOf(q))
  /\ answer' = [answer EXCEPT ![q] = managed[request[q].manager][NameOf(q)]]
  /\ query' = [query EXCEPT ![q] = "answered"]
  /\ UNCHANGED <<modelVars, databaseVars, initializerVars, managerVars, request, seeks, closed>>

\* __verifyIfNotInitializedAndInitializeModels: nobody is at it, so this query
\* will be; it loads the domains first.
StartLazily(q) ==
  /\ query[q] = "looking" /\ ~IsThere(q, NameOf(q))
  /\ request[q].manager \notin lazy /\ ~isInitialized /\ ~isInitializing
  /\ lazy' = lazy \cup {request[q].manager}
  /\ query' = [query EXCEPT ![q] = "loading"]
  /\ seeks' = [seeks EXCEPT ![q] = NameOf(q)]
  /\ UNCHANGED <<modelVars, databaseVars, initializerVars, managed, defaultName, request, answer, closed>>

DefaultSought(q) == defaultName[request[q].manager]  \* mutant
Sought(q) == NameOf(q)

StartPolling(q) ==
  /\ query[q] = "looking" /\ ~IsThere(q, NameOf(q))
  /\ request[q].manager \in lazy \/ isInitialized \/ isInitializing
  /\ lazy' = lazy \cup {request[q].manager}
  /\ seeks' = [seeks EXCEPT ![q] = Sought(q)]
  /\ query' = [query EXCEPT ![q] = "polling"]
  /\ UNCHANGED <<modelVars, databaseVars, initializerVars, managed, defaultName, request, answer, closed>>

Verified(q) == IF request[q].wants = "engine" THEN "looking" ELSE "threw"

\* lazyInitializeEngine, once the domains are loaded: nothing is done if `init` has
\* begun meanwhile or the name is not one of the settings.
LazyInitializeEngine(q) ==
  /\ query[q] = "loading"
  /\ LET e == IF seeks[q] = Unnamed THEN Databases[1] ELSE seeks[q] IN
       IF ~isInitialized /\ ~isInitializing /\ e \in Engines
         THEN Begin(q, e) /\ query' = [query EXCEPT ![q] = "initializing"]
         ELSE query' = [query EXCEPT ![q] = Verified(q)] /\ UNCHANGED <<stage, making, modelVars>>
  /\ UNCHANGED <<databaseVars, opened, managerVars, request, seeks, answer, closed>>

Poll(q) ==
  /\ query[q] = "polling" /\ IsThere(q, seeks[q])
  /\ query' = [query EXCEPT ![q] = Verified(q)]
  /\ UNCHANGED <<modelVars, databaseVars, initializerVars, managerVars, request, seeks, answer, closed>>

-----------------------------------------------------------------------------
EngineStep ==
  \/ \E i \in Initializers : GetModels(i) \/ Connect(i) \/ RegisterLazily(i)
  \/ \E m \in Managers : FindModel(m) \/ \E i \in Initializers : Translate(i, m)
  \/ Register
  \/ \E q \in Queries :
       Answer(q) \/ StartLazily(q) \/ StartPolling(q) \/ LazyInitializeEngine(q) \/ Poll(q)

=============================================================================
