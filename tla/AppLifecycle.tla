----------------------------- MODULE AppLifecycle -----------------------------
(***************************************************************************)
(* The life of a process that runs an app server of packages/core: it loads  *)
(* the domains, loads the server, makes the domains ready, starts the server *)
(* and, on SIGINT, closes the domains and then the server.  One domain is    *)
(* that of packages/databases: its `ready` initializes the engines and its   *)
(* `close` closes them (EngineInit), while the rest of the application       *)
(* queries them whenever it runs.                                           *)
(***************************************************************************)
EXTENDS EngineInit

CONSTANTS
  Domains,     \* the installed domains, in order
  Database,    \* the one of packages/databases
  Signals      \* the SIGINTs the process may receive

DomainSet == {Domains[i] : i \in DOMAIN Domains}

ASSUME LifecycleAssumptions ==
  /\ Domains \in Seq(DomainSet)
  /\ \A i, j \in DOMAIN Domains : Domains[i] = Domains[j] => i = j
  /\ Database \in DomainSet

VARIABLES
  phase,          \* of initializeDomains and initializeApp, and of the process
  position,       \* in the loop over the domains
  loaded,         \* the domains whose load has returned
  isReady,        \* the domains whose ready has returned
  closesAwaited,  \* whether the server's close returns only once it is closed
  handler,        \* each call of the SIGINT handler
  isClosing,      \* isClosingServer
  closing,        \* the domains whose close is running
  toClose,        \* the adapters Databases.close is waiting for
  closeCalls,     \* history: how often each domain was closed
  serverClosing, serverClosed

startVars == <<phase, position, loaded, isReady, closesAwaited>>
stopVars == <<handler, isClosing, closing, toClose, closeCalls, serverClosing, serverClosed>>
vars == <<engineVars, startVars, stopVars>>

TypeOK ==
  /\ EngineTypeOK
  /\ phase \in {"loading", "server", "readying", "waiting", "starting", "running",
                "exited", "crashed"}
  /\ position \in 1..(Len(Domains) + 1)
  /\ loaded \subseteq DomainSet /\ isReady \subseteq DomainSet
  /\ closesAwaited \in BOOLEAN /\ isClosing \in BOOLEAN
  /\ handler \in [Signals -> {"none", "cleaning", "cleaned", "closing"}]
  /\ closing \subseteq DomainSet /\ toClose \subseteq Adapters
  /\ closeCalls \in [DomainSet -> Nat]
  /\ serverClosing \in BOOLEAN /\ serverClosed \in BOOLEAN

Init ==
  /\ EngineInitState
  /\ phase = "loading" /\ position = 1 /\ loaded = {} /\ isReady = {}
  /\ closesAwaited \in BOOLEAN
  /\ handler = [s \in Signals |-> "none"] /\ isClosing = FALSE
  /\ closing = {} /\ toClose = {} /\ closeCalls = [d \in DomainSet |-> 0]
  /\ serverClosing = FALSE /\ serverClosed = FALSE

Alive == phase \notin {"exited", "crashed"}

-----------------------------------------------------------------------------
(* Starting                                                                 *)

\* initializeDomains: the loads run one after another, then what they returned.
LoadDomain ==
  /\ phase = "loading" /\ position <= Len(Domains)
  /\ loaded' = loaded \cup {Domains[position]}
  /\ position' = position + 1
  /\ UNCHANGED <<engineVars, phase, isReady, closesAwaited, stopVars>>

DomainsAreLoaded ==
  /\ phase = "loading" /\ position = Len(Domains) + 1
  /\ phase' = "server"
  /\ UNCHANGED <<engineVars, position, loaded, isReady, closesAwaited, stopVars>>

LoadServer ==
  /\ phase = "server"
  /\ phase' = "readying" /\ position' = 1
  /\ UNCHANGED <<engineVars, loaded, isReady, closesAwaited, stopVars>>

\* BaseAppServer.initialize: each ready is awaited before the next is called.
Ready ==
  /\ phase = "readying" /\ position <= Len(Domains)
  /\ IF Domains[position] = Database
       THEN /\ phase' = "waiting"
            /\ \/ InitBegin
               \/ (isInitialized \/ isInitializing) /\ UNCHANGED engineVars
            /\ UNCHANGED <<position, isReady>>
       ELSE /\ isReady' = isReady \cup {Domains[position]}
            /\ position' = position + 1
            /\ UNCHANGED <<engineVars, phase>>
  /\ UNCHANGED <<loaded, closesAwaited, stopVars>>

DatabaseIsReady ==
  /\ phase = "waiting" /\ stage[App] = "idle"
  /\ phase' = "readying" /\ position' = position + 1
  /\ isReady' = isReady \cup {Database}
  /\ UNCHANGED <<engineVars, loaded, closesAwaited, stopVars>>

\* The error of init ends the process: nothing catches it.
DatabaseFails ==
  /\ phase = "waiting" /\ stage[App] = "failed"
  /\ phase' = "crashed"
  /\ UNCHANGED <<engineVars, position, loaded, isReady, closesAwaited, stopVars>>

\* start installs the SIGINT handler (configureCleanup) as it starts to listen.
Start ==
  /\ phase = "readying" /\ position = Len(Domains) + 1
  /\ phase' = "running"
  /\ UNCHANGED <<engineVars, position, loaded, isReady, closesAwaited, stopVars>>

-----------------------------------------------------------------------------
(* Stopping                                                                 *)

ClosesDomains == ~isClosing

EnginesToClose == {engines[e] : e \in Engines} \ {None}

\* The SIGINT handler begins #cleanup, which closes all domains side by side; the
\* handler of another signal has nothing to wait for.
Signal(s) ==
  /\ phase = "running" /\ handler[s] = "none"
  /\ handler' = [handler EXCEPT ![s] = IF ClosesDomains THEN "cleaning" ELSE "cleaned"]
  /\ isClosing' = TRUE
  /\ IF ClosesDomains
       THEN /\ closing' = DomainSet
            /\ toClose' = EnginesToClose
            /\ closeCalls' = [d \in DomainSet |-> closeCalls[d] + 1]
       ELSE UNCHANGED <<closing, toClose, closeCalls>>
  /\ UNCHANGED <<engineVars, startVars, serverClosing, serverClosed>>

\* Databases.close closes its engines side by side.
CloseAdapter(a) ==
  /\ Alive /\ a \in toClose
  /\ toClose' = toClose \ {a}
  /\ closed' = closed \cup {a}
  /\ UNCHANGED <<databaseVars, modelVars, initializerVars, managerVars, queryVars, startVars,
                 handler, isClosing, closing, closeCalls, serverClosing, serverClosed>>

DomainWaitsForEngines(d) ==  \* mutant
  /\ Alive /\ d \in closing /\ (d = Database => \A e \in Engines : engines[e] = None)
  /\ closing' = closing \ {d}
  /\ UNCHANGED <<engineVars, startVars, handler, isClosing, toClose, closeCalls,
                 serverClosing, serverClosed>>

DomainCloses(d) ==
  /\ Alive /\ d \in closing /\ (d = Database => toClose = {})
  /\ closing' = closing \ {d}
  /\ UNCHANGED <<engineVars, startVars, handler, isClosing, toClose, closeCalls,
                 serverClosing, serverClosed>>

\* A close of the application's own throws, in a handler that nothing catches.
DomainFails(d) ==
  /\ Alive /\ d \in closing \ {Database}
  /\ phase' = "crashed"
  /\ UNCHANGED <<engineVars, position, loaded, isReady, closesAwaited, stopVars>>

ClosesAtOnce(s) == handler[s] # "none"  \* mutant
IsCleanedUp(s) == handler[s] = "cleaned" \/ (handler[s] = "cleaning" /\ closing = {})

\* appServer.close, after the cleanup.
CloseServer(s) ==
  /\ Alive /\ handler[s] \in {"cleaning", "cleaned"} /\ IsCleanedUp(s)
  /\ handler' = [handler EXCEPT ![s] = "closing"]
  /\ serverClosing' = TRUE
  /\ UNCHANGED <<engineVars, startVars, isClosing, closing, toClose, closeCalls, serverClosed>>

ServerCloses ==
  /\ Alive /\ serverClosing /\ ~serverClosed
  /\ serverClosed' = TRUE
  /\ UNCHANGED <<engineVars, startVars, handler, isClosing, closing, toClose, closeCalls,
                 serverClosing>>

Exit(s) ==
  /\ Alive /\ handler[s] = "closing" /\ (closesAwaited => serverClosed)
  /\ phase' = "exited"
  /\ UNCHANGED <<engineVars, position, loaded, isReady, closesAwaited, stopVars>>

-----------------------------------------------------------------------------
\* Handlers of events run once the server is loaded, and what they ask is not
\* awaited by the start.
AskForDatabase(q, r) ==
  /\ phase \in {"readying", "waiting", "running"}
  /\ Ask(q, r)
  /\ UNCHANGED <<startVars, stopVars>>

EnginesGoOn ==
  /\ Alive
  /\ EngineStep \/ \E i \in Initializers : ConnectFails(i)
  /\ UNCHANGED <<startVars, stopVars>>

Next ==
  \/ LoadDomain \/ DomainsAreLoaded \/ LoadServer
  \/ Ready \/ DatabaseIsReady \/ DatabaseFails \/ Start
  \/ \E q \in Queries, r \in Requests : AskForDatabase(q, r)
  \/ EnginesGoOn
  \/ \E s \in Signals : Signal(s) \/ CloseServer(s) \/ Exit(s)
  \/ \E a \in Adapters : CloseAdapter(a)
  \/ \E d \in DomainSet : DomainCloses(d) \/ DomainFails(d)
  \/ ServerCloses

Spec == Init /\ [][Next]_vars

\* The promises that the engines, the domains and the server return settle.
Fairness ==
  /\ WF_vars(Alive /\ EngineStep /\ UNCHANGED <<startVars, stopVars>>)
  /\ WF_vars(\/ \E s \in Signals : CloseServer(s) \/ Exit(s)
             \/ \E a \in Adapters : CloseAdapter(a)
             \/ \E d \in DomainSet : DomainCloses(d)
             \/ ServerCloses)

FairSpec == Spec /\ Fairness

-----------------------------------------------------------------------------
\* "it's guaranteed for you that all the data you need is injected when you need"
\* (docs/consumers/reference/managers.md 99): what a query returns is an adapter of
\* the engine it asked for, connected, and closed only if the process is closing,
\* however many initializations overlap.
AnswersAreUsable ==
  \A q \in Queries :
    query[q] = "answered" =>
      /\ answer[q] \in opened /\ (answer[q] \in closed => isClosing)
      /\ request[q].name # Unnamed => answer[q][2] = request[q].name

\* The engine a manager uses when no name is given is settled by its first
\* initialization and never changes under the queries (models/manager.ts 173-197).
DefaultStays ==
  [][\A m \in Managers : defaultName[m] # Unnamed => defaultName'[m] = defaultName[m]]_engineVars

NoLazyStart == \A q \in Queries : making[q] = Nothing

\* "guarantee that the adapters are initialized once and just once" (databases.md 12):
\* if only `init` initialized, every manager uses the one adapter of an engine that is
\* registered, so closing that one leaves no manager with a connection.
OneAdapterUnderInit ==
  NoLazyStart => \A e \in Engines, m \in Managers :
    engines[e] # None => managed[m][e] = engines[e]

\* "This way when running your app we guarantee it's always available to be called"
\* (docs/consumers/reference/databases.md 99): if only `init` initialized, then a
\* query for a named engine that came before it was done is answered in the end.
InitServesQueries ==
  \A q \in Queries :
    (isInitialized /\ NoLazyStart /\ query[q] = "polling" /\ request[q].name \in Engines)
      ~> (query[q] \in {"answered", "threw"} \/ ~Alive)

\* "This will stop the server gracefully instead of hard kill the process"
\* (core/src/app/index.ts 68-69): a process that got one signal exits only after every
\* domain was closed, and then the server if its close can be awaited; the engines
\* that `init` connected are closed.
Sent == {s \in Signals : handler[s] # "none"}
OneSignal == \E s \in Signals : Sent = {s}
ExitIsGraceful ==
  /\ serverClosing /\ OneSignal => closing = {} /\ isClosing
  /\ phase = "exited" /\ OneSignal =>
       /\ closesAwaited => serverClosed
       /\ NoLazyStart => opened \subseteq closed

\* However many signals come, no domain is closed twice (core/src/app/index.ts 89-90).
DomainsCloseOnce == \A d \in DomainSet : closeCalls[d] <= 1

\* After a signal the process ends, if what it closes does: a domain that fails to
\* close ends it the hard way (core/src/app/index.ts 75-79).
SignalsEndTheProcess ==
  (\E s \in Signals : handler[s] # "none") ~> ~Alive
=============================================================================
