-------------------------- MODULE AppLifecycleProofs --------------------------
(***************************************************************************)
(* The life of an app with databases, for any domains, engines, managers,    *)
(* queries and signals.                                                     *)
(***************************************************************************)
EXTENDS AppLifecycle, TLAPS

(* The engines                                                              *)

\* What is registered, managed or at work is an adapter of its engine, and one
\* that was registered, managed or translated for has connected.
AdaptersFit ==
  /\ \A e \in Engines : engines[e] # None => engines[e] \in opened /\ engines[e][2] = e
  /\ \A m \in Managers, e \in Engines :
       managed[m][e] # None => managed[m][e] \in opened /\ managed[m][e][2] = e
  /\ \A i \in Initializers :
       /\ stage[i] # "idle" => /\ making[i].engine \in Engines
                               /\ making[i].adapter \in Adapters
                               /\ making[i].adapter[2] = making[i].engine
       /\ stage[i] = "translating" => making[i].adapter \in opened

\* A query that was answered got an adapter of that kind.
AnswersFit ==
  \A q \in Queries :
    /\ query[q] # "idle" \/ stage[q] # "idle" => request[q] \in Requests
    /\ query[q] = "answered" =>
         /\ answer[q] \in opened
         /\ request[q].name # Unnamed => answer[q][2] = request[q].name

\* `init` works under its flags.  As long as no query has initialized, it finds all
\* models, translates each of them for the one adapter it makes for an engine, and
\* registers that.
InitIsAlone ==
  /\ stage[App] # "idle" => isInitialized \/ isInitializing
  /\ NoLazyStart =>
       /\ finders \subseteq {App}
       /\ ~isInitialized /\ ~isInitializing => found = {} /\ finders = {}
       /\ stage[App] = "models" => App \in finders \/ found = Managers
       /\ stage[App] \in {"connecting", "translating"} =>
            found = Managers /\ making[App].models = Managers
       /\ stage[App] # "idle" =>
            /\ \A m \in making[App].done : managed[m][making[App].engine] = making[App].adapter
            /\ engines[making[App].engine] # None => making[App].adapter = engines[making[App].engine]
       /\ \A a \in opened : \/ \E e \in Engines : engines[e] = a
                            \/ stage[App] = "translating" /\ making[App].adapter = a

EngineInv == EngineTypeOK /\ AdaptersFit /\ AnswersFit /\ InitIsAlone /\ OneAdapterUnderInit

(* The process                                                              *)

\* `init` works only while the process waits for it, or has died of it.
InitIsAwaited == phase \notin {"waiting", "crashed"} => stage[App] = "idle"

\* Nothing is closed before the first signal, which comes to a running process.
NothingClosesEarly ==
  /\ isClosing => phase \in {"running", "exited", "crashed"}
  /\ isClosing <=> Sent # {}
  /\ ~isClosing => /\ closing = {} /\ toClose = {} /\ closed = {}
                   /\ \A d \in DomainSet : closeCalls[d] = 0

\* The close of the databases reaches all that `init` has opened.
EnginesAreClosed ==
  /\ toClose \subseteq opened
  /\ Database \notin closing => toClose = {}
  /\ isClosing /\ NoLazyStart => opened \subseteq toClose \cup closed

\* The first signal waits for the domains, and for the server after them.
FirstSignalWaits ==
  /\ \A s \in Signals : Sent = {s} => /\ handler[s] # "cleaned"
                                      /\ handler[s] = "closing" => closing = {}
  /\ serverClosing => \E s \in Signals : handler[s] = "closing"
  /\ phase = "exited" => \E s \in Signals :
                           handler[s] = "closing" /\ (closesAwaited => serverClosed)

AppInv ==
  /\ InitIsAwaited /\ NothingClosesEarly /\ EnginesAreClosed /\ FirstSignalWaits
  /\ DomainsCloseOnce
  /\ phase = "waiting" => position <= Len(Domains)

LifeInv == TypeOK /\ EngineInv /\ AppInv
-----------------------------------------------------------------------------
\* Nothing is an engine, an adapter or a name; an adapter is one of its maker.
LEMMA EngineFacts ==
  /\ None \notin Engines /\ None \notin Adapters /\ App \notin Queries
  /\ App \in Initializers /\ Queries \subseteq Initializers
  /\ \A i \in Initializers, e \in Engines : <<i, e>> \in Adapters /\ <<i, e>>[2] = e
  /\ Databases[1] \in Engines
  /\ \A e \in Engines : NextDatabase(e) # None => NextDatabase(e) \in Engines /\ NextDatabase(e) # e
<1>1. Databases[1] \in Engines
  BY EngineAssumptions DEF Engines
<1>2. ASSUME NEW e \in Engines, NextDatabase(e) # None
      PROVE  NextDatabase(e) \in Engines /\ NextDatabase(e) # e
  <2>. DEFINE i == CHOOSE i \in DOMAIN Databases : Databases[i] = e
  <2>1. i \in DOMAIN Databases /\ Databases[i] = e
    BY DEF Engines
  <2>2. i # Len(Databases) /\ NextDatabase(e) = Databases[i + 1]
    BY <1>2 DEF NextDatabase
  <2>3. i + 1 \in DOMAIN Databases /\ i + 1 # i
    BY <2>1, <2>2, EngineAssumptions
  <2>. QED BY <2>1, <2>2, <2>3, EngineAssumptions DEF Engines
<1>. QED BY <1>1, <1>2, EngineAssumptions DEF Adapters, Initializers

\* Who is at work has an engine; so if no query has initialized, none is at work.
LEMMA OnlyInitWorks ==
  ASSUME EngineInv, NEW i \in Initializers, stage[i] # "idle"
  PROVE  /\ making[i] # Nothing
         /\ NoLazyStart => i = App
<1>1. making[i].engine # None
  BY EngineFacts DEF EngineInv, AdaptersFit
<1>2. Nothing.engine = None
  BY DEF Nothing
<1>. QED BY <1>1, <1>2 DEF NoLazyStart, Initializers

\* A query that has begun an initialization is known by the engine it chose.
LEMMA BeginningsStay ==
  ASSUME \A q \in Queries : making'[q] = making[q] \/ making'[q].engine # None
  PROVE  NoLazyStart' => NoLazyStart
BY DEF NoLazyStart, Nothing

\* What the beginning of an initialization writes.
LEMMA BeginFacts ==
  ASSUME EngineInv, NEW i \in Initializers, NEW e \in Engines, Begin(i, e)
  PROVE  \E x \in Makings :
           /\ x.engine = e /\ x.adapter = AdapterFor(i, e) /\ x.models = {} /\ x.done = {}
           /\ x.adapter \in Adapters /\ x.adapter[2] = e
           /\ making' = [making EXCEPT ![i] = x]
           /\ stage' = [stage EXCEPT ![i] = "models"]
           /\ finders' = (IF found = {} THEN finders \cup {i} ELSE finders) /\ found' = found
<1>1. AdapterFor(i, e) \in Adapters /\ AdapterFor(i, e)[2] = e
  BY EngineFacts DEF EngineInv, EngineTypeOK, AdaptersFit, AdapterFor
<1>. DEFINE x == [Nothing EXCEPT !.engine = e, !.adapter = AdapterFor(i, e)]
<1>2. Nothing \in Makings /\ Nothing.models = {} /\ Nothing.done = {}
  BY DEF Makings, Nothing
<1>3. /\ x \in Makings /\ x.engine = e /\ x.adapter = AdapterFor(i, e)
      /\ x.models = {} /\ x.done = {}
  BY <1>1, <1>2 DEF Makings
<1>. QED BY <1>1, <1>3 DEF Begin

\* A domain answers with its models.
LEMMA FindModelEngines ==
  ASSUME EngineInv, NEW m \in Managers, FindModel(m)
  PROVE  EngineInv' /\ (NoLazyStart' => NoLazyStart)
<1>. USE EngineFacts DEF EngineInv
<1>0. NoLazyStart' => NoLazyStart
  BY OnlyInitWorks DEF NoLazyStart, EngineTypeOK, FindModel, databaseVars, initializerVars, managerVars, queryVars
<1>1. EngineTypeOK'
  BY DEF EngineTypeOK, FindModel, databaseVars, initializerVars, managerVars, queryVars
<1>2. AdaptersFit'
  BY DEF EngineTypeOK, AdaptersFit, FindModel, databaseVars, initializerVars, managerVars, queryVars
<1>3. AnswersFit'
  BY DEF EngineTypeOK, AnswersFit, FindModel, databaseVars, initializerVars, managerVars, queryVars
<1>4. InitIsAlone'
  BY <1>0, OnlyInitWorks DEF EngineTypeOK, InitIsAlone, FindModel, databaseVars, initializerVars, managerVars, queryVars
<1>5. OneAdapterUnderInit'
  BY <1>0, OnlyInitWorks DEF EngineTypeOK, InitIsAlone, OneAdapterUnderInit, FindModel, databaseVars, initializerVars, managerVars, queryVars
<1>. QED BY <1>0, <1>1, <1>2, <1>3, <1>4, <1>5

\* Who called goes on with what was found.
LEMMA GetModelsEngines ==
  ASSUME EngineInv, NEW i \in Initializers, GetModels(i)
  PROVE  EngineInv' /\ (NoLazyStart' => NoLazyStart)
<1>. USE EngineFacts DEF EngineInv
<1>. DEFINE x == [making[i] EXCEPT !.models = found]
<1>a. /\ x \in Makings /\ making' = [making EXCEPT ![i] = x]
      /\ x.engine = making[i].engine /\ x.adapter = making[i].adapter
      /\ x.models = found /\ x.done = making[i].done
  <2>1. making[i] \in Makings /\ found \in SUBSET Managers
    BY DEF EngineTypeOK, Makings
  <2>2. making' = [making EXCEPT ![i] = x]
    BY DEF EngineTypeOK, GetModels
  <2>. QED BY <2>1, <2>2 DEF Makings
<1>. HIDE DEF x
<1>0. NoLazyStart' => NoLazyStart
  BY <1>a, BeginningsStay DEF EngineTypeOK, AdaptersFit, GetModels
<1>1. EngineTypeOK'
  <2>1. making' \in [Initializers -> Makings]
    BY <1>a DEF EngineTypeOK
  <2>. QED BY <2>1 DEF EngineTypeOK, GetModels, databaseVars, modelVars, managerVars, queryVars
<1>2. AdaptersFit'
  BY <1>a DEF EngineTypeOK, AdaptersFit, GetModels, databaseVars, modelVars, managerVars, queryVars
<1>3. AnswersFit'
  BY DEF EngineTypeOK, AnswersFit, GetModels, databaseVars, modelVars, managerVars, queryVars
<1>4. InitIsAlone'
  BY <1>0, <1>a, OnlyInitWorks DEF EngineTypeOK, InitIsAlone, GetModels, databaseVars, modelVars, managerVars, queryVars
<1>5. OneAdapterUnderInit'
  BY <1>0, OnlyInitWorks DEF EngineTypeOK, InitIsAlone, OneAdapterUnderInit, GetModels, databaseVars, modelVars, managerVars, queryVars
<1>. QED BY <1>0, <1>1, <1>2, <1>3, <1>4, <1>5

\* The adapter connects,
LEMMA ConnectEngines ==
  ASSUME EngineInv, NEW i \in Initializers, Connect(i)
  PROVE  EngineInv' /\ (NoLazyStart' => NoLazyStart)
<1>. USE EngineFacts DEF EngineInv
<1>0. NoLazyStart' => NoLazyStart
  BY OnlyInitWorks DEF NoLazyStart, EngineTypeOK, Connect, databaseVars, modelVars, managerVars, queryVars
<1>1. EngineTypeOK'
  BY DEF EngineTypeOK, AdaptersFit, Connect, databaseVars, modelVars, managerVars, queryVars
<1>2. AdaptersFit'
  BY DEF EngineTypeOK, AdaptersFit, Connect, databaseVars, modelVars, managerVars, queryVars
<1>3. AnswersFit'
  BY DEF EngineTypeOK, AnswersFit, Connect, databaseVars, modelVars, managerVars, queryVars
<1>4. InitIsAlone'
  BY <1>0, OnlyInitWorks DEF EngineTypeOK, InitIsAlone, Connect, databaseVars, modelVars, managerVars, queryVars
<1>5. OneAdapterUnderInit'
  BY <1>0, OnlyInitWorks DEF EngineTypeOK, InitIsAlone, OneAdapterUnderInit, Connect, databaseVars, modelVars, managerVars, queryVars
<1>. QED BY <1>0, <1>1, <1>2, <1>3, <1>4, <1>5

\* or does not.
LEMMA ConnectFailsEngines ==
  ASSUME EngineInv, NEW i \in Initializers, ConnectFails(i)
  PROVE  EngineInv' /\ (NoLazyStart' => NoLazyStart)
<1>. USE EngineFacts DEF EngineInv
<1>0. NoLazyStart' => NoLazyStart
  BY OnlyInitWorks DEF NoLazyStart, EngineTypeOK, ConnectFails, databaseVars, modelVars, managerVars
<1>1. EngineTypeOK'
  BY DEF EngineTypeOK, ConnectFails, databaseVars, modelVars, managerVars
<1>2. AdaptersFit'
  BY DEF EngineTypeOK, AdaptersFit, ConnectFails, databaseVars, modelVars, managerVars
<1>3. AnswersFit'
  BY DEF EngineTypeOK, AnswersFit, ConnectFails, databaseVars, modelVars, managerVars
<1>4. InitIsAlone'
  BY <1>0, OnlyInitWorks DEF EngineTypeOK, InitIsAlone, ConnectFails, databaseVars, modelVars, managerVars
<1>5. OneAdapterUnderInit'
  BY <1>0, OnlyInitWorks DEF EngineTypeOK, InitIsAlone, OneAdapterUnderInit, ConnectFails, databaseVars, modelVars, managerVars
<1>. QED BY <1>0, <1>1, <1>2, <1>3, <1>4, <1>5

\* A manager gets the adapter.
LEMMA TranslateEngines ==
  ASSUME EngineInv, NEW i \in Initializers, NEW m \in Managers, Translate(i, m)
  PROVE  EngineInv' /\ (NoLazyStart' => NoLazyStart)
<1>. USE EngineFacts DEF EngineInv
<1>. DEFINE x == [making[i] EXCEPT !.done = making[i].done \cup {m}]
<1>a. /\ x \in Makings /\ making' = [making EXCEPT ![i] = x]
      /\ x.engine = making[i].engine /\ x.adapter = making[i].adapter
      /\ x.models = making[i].models /\ x.done = making[i].done \cup {m}
  <2>1. making[i] \in Makings /\ making[i].done \cup {m} \in SUBSET Managers
    BY DEF EngineTypeOK, Makings
  <2>2. making' = [making EXCEPT ![i] = x]
    BY DEF EngineTypeOK, Translate
  <2>. QED BY <2>1, <2>2 DEF Makings
<1>. HIDE DEF x
<1>b. /\ stage[i] = "translating" /\ making[i].engine \in Engines /\ making[i].adapter \in Adapters
      /\ m \in making[i].models
  BY DEF AdaptersFit, Translate
<1>c. /\ managed' \in [Managers -> [Engines -> Adapters \cup {None}]]
      /\ \A n \in Managers, e \in Engines :
           managed'[n][e] = IF n = m /\ e = making[i].engine THEN making[i].adapter ELSE managed[n][e]
  BY <1>b DEF EngineTypeOK, Translate
<1>0. NoLazyStart' => NoLazyStart
  BY <1>a, <1>b, BeginningsStay DEF EngineTypeOK
<1>1. EngineTypeOK'
  <2>1. making' \in [Initializers -> Makings]
    BY <1>a DEF EngineTypeOK
  <2>2. defaultName' \in [Managers -> Engines \cup {Unnamed}]
    BY <1>b DEF EngineTypeOK, Translate, FirstName
  <2>. QED BY <1>c, <2>1, <2>2 DEF EngineTypeOK, Translate, databaseVars, modelVars, queryVars
<1>2. AdaptersFit'
  <2>1. \A j \in Initializers : /\ making'[j].engine = making[j].engine
                              /\ making'[j].adapter = making[j].adapter
    BY <1>a DEF EngineTypeOK
  <2>2. making[i].adapter \in opened /\ making[i].adapter[2] = making[i].engine
    BY <1>b DEF AdaptersFit
  <2>. QED BY <1>b, <1>c, <2>1, <2>2 DEF AdaptersFit, Translate, databaseVars
<1>3. AnswersFit'
  BY DEF EngineTypeOK, AnswersFit, Translate, FirstName, databaseVars, modelVars, queryVars
<1>4. InitIsAlone'
  <2>1. ASSUME NoLazyStart
        PROVE  i = App
    BY <1>b, <2>1, OnlyInitWorks
  <2>. QED BY <1>0, <1>a, <1>b, <1>c, <2>1 DEF EngineTypeOK, InitIsAlone, Translate, databaseVars, modelVars, queryVars
<1>5. OneAdapterUnderInit'
  <2>1. ASSUME NoLazyStart
        PROVE  i = App
    BY <1>b, <2>1, OnlyInitWorks
  <2>. QED BY <1>0, <1>b, <1>c, <2>1 DEF InitIsAlone, OneAdapterUnderInit, Translate, databaseVars
<1>. QED BY <1>0, <1>1, <1>2, <1>3, <1>4, <1>5

\* A query registers the adapter it made,
LEMMA RegisterLazilyEngines ==
  ASSUME EngineInv, NEW q \in Queries, RegisterLazily(q)
  PROVE  EngineInv' /\ (NoLazyStart' => NoLazyStart)
<1>. USE EngineFacts DEF EngineInv
<1>0. NoLazyStart' => NoLazyStart
  BY OnlyInitWorks DEF NoLazyStart, EngineTypeOK, RegisterLazily, IsTranslated, modelVars, managerVars
<1>1. EngineTypeOK'
  BY DEF EngineTypeOK, AdaptersFit, RegisterLazily, IsTranslated, modelVars, managerVars
<1>2. AdaptersFit'
  BY DEF EngineTypeOK, AdaptersFit, RegisterLazily, IsTranslated, modelVars, managerVars
<1>3. AnswersFit'
  BY DEF EngineTypeOK, AnswersFit, RegisterLazily, IsTranslated, modelVars, managerVars
<1>4. InitIsAlone'
  BY <1>0, OnlyInitWorks DEF EngineTypeOK, InitIsAlone, RegisterLazily, IsTranslated, modelVars, managerVars
<1>5. OneAdapterUnderInit'
  BY <1>0, OnlyInitWorks DEF EngineTypeOK, InitIsAlone, OneAdapterUnderInit, RegisterLazily, IsTranslated, modelVars, managerVars
<1>. QED BY <1>0, <1>1, <1>2, <1>3, <1>4, <1>5

\* and so does `init`, which goes on with the next engine.
LEMMA RegisterEngines ==
  ASSUME EngineInv, Register
  PROVE  EngineInv' /\ (NoLazyStart' => NoLazyStart)
<1>. USE EngineFacts DEF EngineInv
<1>. DEFINE e == making[App].engine  a == making[App].adapter
<1>1. /\ stage[App] = "translating" /\ making[App].done = making[App].models
      /\ e \in Engines /\ a \in Adapters /\ a[2] = e /\ a \in opened
      /\ engines' = [engines EXCEPT ![e] = a]
      /\ UNCHANGED <<opened, managerVars, queryVars, closed>>
  BY DEF Register, IsTranslated, AdaptersFit
<1>2. \/ /\ NextDatabase(e) # None /\ Begin(App, NextDatabase(e))
         /\ UNCHANGED <<isInitialized, isInitializing>>
      \/ /\ stage' = [stage EXCEPT ![App] = "idle"]
         /\ isInitialized' = TRUE /\ isInitializing' = FALSE
         /\ UNCHANGED <<making, modelVars>>
  BY DEF Register
<1>3. AnswersFit'
  BY <1>1, <1>2 DEF EngineTypeOK, AnswersFit, Begin, queryVars
<1>4. ASSUME NoLazyStart
      PROVE  /\ \A f \in Engines : engines[f] # None => engines'[f] = engines[f]
             /\ \A f \in Engines, m \in Managers : engines'[f] # None => managed[m][f] = engines'[f]
             /\ \A b \in opened : \E f \in Engines : engines'[f] = b
             /\ found = Managers /\ finders \subseteq {App}
  <2>1. /\ engines[e] # None => a = engines[e]
        /\ found = Managers /\ finders \subseteq {App}
        /\ \A m \in Managers : managed[m][e] = a
    BY <1>1, <1>4 DEF InitIsAlone
  <2>2. \A b \in opened : b # None
    BY DEF EngineTypeOK
  <2>. QED BY <1>1, <1>4, <2>1, <2>2 DEF EngineTypeOK, InitIsAlone, OneAdapterUnderInit
<1>5. CASE stage' = [stage EXCEPT ![App] = "idle"] /\ isInitialized' = TRUE /\ isInitializing' = FALSE
           /\ UNCHANGED <<making, modelVars>>
  <2>1. EngineTypeOK'
    BY <1>1, <1>5 DEF EngineTypeOK, modelVars, managerVars, queryVars
  <2>2. AdaptersFit'
    BY <1>1, <1>5 DEF EngineTypeOK, AdaptersFit, managerVars
  <2>3. NoLazyStart' => NoLazyStart
    BY <1>5 DEF NoLazyStart
  <2>4. InitIsAlone' /\ OneAdapterUnderInit'
    BY <1>1, <1>4, <1>5, <2>3 DEF EngineTypeOK, InitIsAlone, OneAdapterUnderInit, modelVars, managerVars
  <2>. QED BY <1>3, <2>1, <2>2, <2>3, <2>4
<1>6. CASE NextDatabase(e) # None /\ Begin(App, NextDatabase(e)) /\ UNCHANGED <<isInitialized, isInitializing>>
  <2>. DEFINE f == NextDatabase(e)
  <2>1. f \in Engines /\ f # e
    BY <1>1, <1>6
  <2>. HIDE DEF f
  <2>2. PICK x \in Makings :
          /\ x.engine = f /\ x.adapter = AdapterFor(App, f) /\ x.models = {} /\ x.done = {}
          /\ x.adapter \in Adapters /\ x.adapter[2] = f
          /\ making' = [making EXCEPT ![App] = x] /\ stage' = [stage EXCEPT ![App] = "models"]
          /\ finders' = (IF found = {} THEN finders \cup {App} ELSE finders) /\ found' = found
    BY <1>6, <2>1, BeginFacts DEF f
  <2>3. EngineTypeOK'
    BY <1>1, <1>6, <2>2 DEF EngineTypeOK, managerVars, queryVars
  <2>4. AdaptersFit'
    BY <1>1, <1>6, <2>2, <2>1 DEF EngineTypeOK, AdaptersFit, managerVars
  <2>5. NoLazyStart' => NoLazyStart
    BY <2>2, BeginningsStay DEF EngineTypeOK
  <2>6. InitIsAlone'
    <3>1. making'[App] = x /\ stage'[App] = "models"
      BY <2>2 DEF EngineTypeOK
    <3>2. engines'[f] = engines[f]
      BY <1>1, <2>1 DEF EngineTypeOK
    <3>3. engines'[f] # None => x.adapter = engines'[f]
      BY <2>2, <3>2 DEF AdapterFor
    <3>4. isInitialized' \/ isInitializing'
      BY <1>1, <1>6 DEF InitIsAlone
    <3>. QED BY <1>1, <1>4, <2>2, <2>5, <3>1, <3>3, <3>4 DEF InitIsAlone
  <2>7. OneAdapterUnderInit'
    BY <1>1, <1>4, <2>5 DEF OneAdapterUnderInit, managerVars
  <2>. QED BY <1>3, <2>3, <2>4, <2>5, <2>6, <2>7
<1>. QED BY <1>2, <1>5, <1>6

\* It begins with the first.
LEMMA InitBeginEngines ==
  ASSUME EngineInv, InitBegin
  PROVE  EngineInv' /\ (NoLazyStart' => NoLazyStart)
<1>. USE EngineFacts DEF EngineInv
<1>a. PICK x \in Makings :
        /\ x.engine = Databases[1] /\ x.adapter = AdapterFor(App, Databases[1])
        /\ x.models = {} /\ x.done = {} /\ x.adapter \in Adapters /\ x.adapter[2] = Databases[1]
        /\ making' = [making EXCEPT ![App] = x] /\ stage' = [stage EXCEPT ![App] = "models"]
        /\ finders' = (IF found = {} THEN finders \cup {App} ELSE finders) /\ found' = found
  BY BeginFacts DEF InitBegin
<1>b. /\ ~isInitialized /\ ~isInitializing /\ isInitializing' = TRUE
      /\ UNCHANGED <<isInitialized, engines, opened, managerVars, queryVars, closed>>
  BY DEF InitBegin
<1>0. NoLazyStart' => NoLazyStart
  BY <1>a, BeginningsStay DEF EngineTypeOK
<1>1. EngineTypeOK'
  BY <1>a, <1>b DEF EngineTypeOK, managerVars, queryVars
<1>2. AdaptersFit'
  BY <1>a, <1>b DEF EngineTypeOK, AdaptersFit, managerVars
<1>3. AnswersFit'
  BY <1>a, <1>b DEF EngineTypeOK, AnswersFit, queryVars
<1>4. InitIsAlone'
  BY <1>0, <1>a, <1>b DEF EngineTypeOK, InitIsAlone, AdapterFor, managerVars
<1>5. OneAdapterUnderInit'
  BY <1>0, OnlyInitWorks DEF EngineTypeOK, InitIsAlone, OneAdapterUnderInit, InitBegin, managerVars, queryVars
<1>. QED BY <1>0, <1>1, <1>2, <1>3, <1>4, <1>5

\* A query is made,
LEMMA AskEngines ==
  ASSUME EngineInv, NEW q \in Queries, NEW r \in Requests, Ask(q, r)
  PROVE  EngineInv' /\ (NoLazyStart' => NoLazyStart)
<1>. USE EngineFacts DEF EngineInv
<1>0. NoLazyStart' => NoLazyStart
  BY OnlyInitWorks DEF NoLazyStart, EngineTypeOK, Ask, databaseVars, modelVars, initializerVars, managerVars
<1>1. EngineTypeOK'
  BY DEF EngineTypeOK, Ask, databaseVars, modelVars, initializerVars, managerVars
<1>2. AdaptersFit'
  BY DEF EngineTypeOK, AdaptersFit, Ask, databaseVars, modelVars, initializerVars, managerVars
<1>3. AnswersFit'
  BY DEF EngineTypeOK, AnswersFit, Ask, databaseVars, modelVars, initializerVars, managerVars
<1>4. InitIsAlone'
  BY <1>0, OnlyInitWorks DEF EngineTypeOK, InitIsAlone, Ask, databaseVars, modelVars, initializerVars, managerVars
<1>5. OneAdapterUnderInit'
  BY <1>0, OnlyInitWorks DEF EngineTypeOK, InitIsAlone, OneAdapterUnderInit, Ask, databaseVars, modelVars, initializerVars, managerVars
<1>. QED BY <1>0, <1>1, <1>2, <1>3, <1>4, <1>5

\* is answered from its manager,
LEMMA AnswerEngines ==
  ASSUME EngineInv, NEW q \in Queries, Answer(q)
  PROVE  EngineInv' /\ (NoLazyStart' => NoLazyStart)
<1>. USE EngineFacts DEF EngineInv
<1>0. NoLazyStart' => NoLazyStart
  BY OnlyInitWorks DEF NoLazyStart, EngineTypeOK, Answer, IsThere, NameOf, databaseVars, modelVars, initializerVars, managerVars
<1>1. EngineTypeOK'
  BY DEF EngineTypeOK, AnswersFit, Requests, Answer, IsThere, NameOf, databaseVars, modelVars, initializerVars, managerVars
<1>2. AdaptersFit'
  BY DEF EngineTypeOK, AdaptersFit, Answer, IsThere, NameOf, databaseVars, modelVars, initializerVars, managerVars
<1>3. AnswersFit'
  <2>1. request[q] \in Requests
    BY DEF AnswersFit, Answer
  <2>2. /\ request[q].manager \in Managers
        /\ NameOf(q) \in Engines /\ managed[request[q].manager][NameOf(q)] # None
    BY <2>1 DEF Answer, IsThere, Requests
  <2>3. /\ managed[request[q].manager][NameOf(q)] \in opened
        /\ managed[request[q].manager][NameOf(q)][2] = NameOf(q)
    BY <2>2 DEF AdaptersFit
  <2>. QED BY <2>1, <2>3 DEF EngineTypeOK, AnswersFit, Answer, NameOf, initializerVars
<1>4. InitIsAlone'
  BY <1>0, OnlyInitWorks DEF EngineTypeOK, InitIsAlone, Answer, IsThere, NameOf, databaseVars, modelVars, initializerVars, managerVars
<1>5. OneAdapterUnderInit'
  BY <1>0, OnlyInitWorks DEF EngineTypeOK, InitIsAlone, OneAdapterUnderInit, Answer, IsThere, NameOf, databaseVars, modelVars, initializerVars, managerVars
<1>. QED BY <1>0, <1>1, <1>2, <1>3, <1>4, <1>5

\* starts an initialization,
LEMMA StartLazilyEngines ==
  ASSUME EngineInv, NEW q \in Queries, StartLazily(q)
  PROVE  EngineInv' /\ (NoLazyStart' => NoLazyStart)
<1>. USE EngineFacts DEF EngineInv
<1>0. NoLazyStart' => NoLazyStart
  BY OnlyInitWorks DEF NoLazyStart, EngineTypeOK, StartLazily, NameOf, Requests, databaseVars, modelVars, initializerVars
<1>1. EngineTypeOK'
  <2>1. request[q] \in Requests
    BY DEF AnswersFit, StartLazily
  <2>2. request[q].manager \in Managers /\ NameOf(q) \in Names
    BY <2>1 DEF EngineTypeOK, Requests, NameOf, Names
  <2>3. seeks' \in [Queries -> Names \cup {None}]
    BY <2>2 DEF EngineTypeOK, Sought, StartLazily
  <2>. QED BY <2>2, <2>3 DEF EngineTypeOK, StartLazily, databaseVars, modelVars, initializerVars
<1>2. AdaptersFit'
  BY DEF EngineTypeOK, AdaptersFit, StartLazily, NameOf, Requests, databaseVars, modelVars, initializerVars
<1>3. AnswersFit'
  BY DEF EngineTypeOK, AnswersFit, StartLazily, NameOf, Requests, databaseVars, modelVars, initializerVars
<1>4. InitIsAlone'
  BY <1>0, OnlyInitWorks DEF EngineTypeOK, InitIsAlone, StartLazily, NameOf, Requests, databaseVars, modelVars, initializerVars
<1>5. OneAdapterUnderInit'
  BY <1>0, OnlyInitWorks DEF EngineTypeOK, InitIsAlone, OneAdapterUnderInit, StartLazily, NameOf, Requests, databaseVars, modelVars, initializerVars
<1>. QED BY <1>0, <1>1, <1>2, <1>3, <1>4, <1>5

\* or waits for one.
LEMMA StartPollingEngines ==
  ASSUME EngineInv, NEW q \in Queries, StartPolling(q)
  PROVE  EngineInv' /\ (NoLazyStart' => NoLazyStart)
<1>. USE EngineFacts DEF EngineInv
<1>0. NoLazyStart' => NoLazyStart
  BY OnlyInitWorks DEF NoLazyStart, EngineTypeOK, StartPolling, Sought, NameOf, Requests, databaseVars, modelVars, initializerVars
<1>1. EngineTypeOK'
  <2>1. request[q] \in Requests
    BY DEF AnswersFit, StartPolling
  <2>2. request[q].manager \in Managers /\ NameOf(q) \in Names
    BY <2>1 DEF EngineTypeOK, Requests, NameOf, Names
  <2>3. seeks' \in [Queries -> Names \cup {None}]
    BY <2>2 DEF EngineTypeOK, Sought, StartPolling
  <2>. QED BY <2>2, <2>3 DEF EngineTypeOK, StartPolling, databaseVars, modelVars, initializerVars
<1>2. AdaptersFit'
  BY DEF EngineTypeOK, AdaptersFit, StartPolling, Sought, NameOf, Requests, databaseVars, modelVars, initializerVars
<1>3. AnswersFit'
  BY DEF EngineTypeOK, AnswersFit, StartPolling, Sought, NameOf, Requests, databaseVars, modelVars, initializerVars
<1>4. InitIsAlone'
  BY <1>0, OnlyInitWorks DEF EngineTypeOK, InitIsAlone, StartPolling, Sought, NameOf, Requests, databaseVars, modelVars, initializerVars
<1>5. OneAdapterUnderInit'
  BY <1>0, OnlyInitWorks DEF EngineTypeOK, InitIsAlone, OneAdapterUnderInit, StartPolling, Sought, NameOf, Requests, databaseVars, modelVars, initializerVars
<1>. QED BY <1>0, <1>1, <1>2, <1>3, <1>4, <1>5

\* Its initialization begins if that of `init` has not,
LEMMA LazyInitializeEngineEngines ==
  ASSUME EngineInv, NEW q \in Queries, LazyInitializeEngine(q)
  PROVE  EngineInv' /\ (NoLazyStart' => NoLazyStart)
<1>. USE EngineFacts DEF EngineInv
<1>. DEFINE e == IF seeks[q] = Unnamed THEN Databases[1] ELSE seeks[q]
<1>1. /\ query[q] = "loading"
      /\ UNCHANGED <<databaseVars, opened, managerVars, request, seeks, answer, closed>>
      /\ \/ e \in Engines /\ Begin(q, e) /\ query' = [query EXCEPT ![q] = "initializing"]
         \/ /\ query' = [query EXCEPT ![q] = Verified(q)]
            /\ UNCHANGED <<stage, making, modelVars>>
  BY DEF LazyInitializeEngine
<1>2. CASE UNCHANGED <<stage, making, modelVars>> /\ query' = [query EXCEPT ![q] = Verified(q)]
  <2>1. EngineTypeOK'
    BY <1>1, <1>2 DEF EngineTypeOK, Verified, databaseVars, modelVars, managerVars
  <2>2. AdaptersFit' /\ AnswersFit'
    BY <1>1, <1>2 DEF EngineTypeOK, AdaptersFit, AnswersFit, Verified, databaseVars, managerVars
  <2>3. (NoLazyStart' => NoLazyStart) /\ InitIsAlone' /\ OneAdapterUnderInit'
    BY <1>1, <1>2 DEF NoLazyStart, InitIsAlone, OneAdapterUnderInit, databaseVars, modelVars, managerVars
  <2>. QED BY <2>1, <2>2, <2>3
<1>3. CASE e \in Engines /\ Begin(q, e) /\ query' = [query EXCEPT ![q] = "initializing"]
  <2>. HIDE DEF e
  <2>1. PICK x \in Makings :
          /\ x.engine = e /\ x.adapter \in Adapters /\ x.adapter[2] = e
          /\ making' = [making EXCEPT ![q] = x] /\ stage' = [stage EXCEPT ![q] = "models"]
          /\ finders' = (IF found = {} THEN finders \cup {q} ELSE finders) /\ found' = found
    BY <1>3, BeginFacts
  <2>2. ~NoLazyStart' /\ stage'[App] = stage[App]
    BY <1>3, <2>1 DEF EngineTypeOK, NoLazyStart, Nothing
  <2>3. EngineTypeOK'
    BY <1>1, <1>3, <2>1 DEF EngineTypeOK, databaseVars, managerVars
  <2>4. AdaptersFit'
    BY <1>1, <1>3, <2>1 DEF EngineTypeOK, AdaptersFit, databaseVars, managerVars
  <2>5. AnswersFit'
    BY <1>1, <1>3, <2>1 DEF EngineTypeOK, AnswersFit
  <2>6. InitIsAlone' /\ OneAdapterUnderInit'
    BY <1>1, <2>2 DEF InitIsAlone, OneAdapterUnderInit, databaseVars
  <2>. QED BY <2>2, <2>3, <2>4, <2>5, <2>6
<1>. QED BY <1>1, <1>2, <1>3

\* and its wait ends once the engine is there.
LEMMA PollEngines ==
  ASSUME EngineInv, NEW q \in Queries, Poll(q)
  PROVE  EngineInv' /\ (NoLazyStart' => NoLazyStart)
<1>. USE EngineFacts DEF EngineInv
<1>0. NoLazyStart' => NoLazyStart
  BY OnlyInitWorks DEF NoLazyStart, EngineTypeOK, Poll, Verified, databaseVars, modelVars, initializerVars, managerVars
<1>1. EngineTypeOK'
  BY DEF EngineTypeOK, Poll, Verified, databaseVars, modelVars, initializerVars, managerVars
<1>2. AdaptersFit'
  BY DEF EngineTypeOK, AdaptersFit, Poll, Verified, databaseVars, modelVars, initializerVars, managerVars
<1>3. AnswersFit'
  BY DEF EngineTypeOK, AnswersFit, Poll, Verified, databaseVars, modelVars, initializerVars, managerVars
<1>4. InitIsAlone'
  BY <1>0, OnlyInitWorks DEF EngineTypeOK, InitIsAlone, Poll, Verified, databaseVars, modelVars, initializerVars, managerVars
<1>5. OneAdapterUnderInit'
  BY <1>0, OnlyInitWorks DEF EngineTypeOK, InitIsAlone, OneAdapterUnderInit, Poll, Verified, databaseVars, modelVars, initializerVars, managerVars
<1>. QED BY <1>0, <1>1, <1>2, <1>3, <1>4, <1>5

\* Nothing about the engines changes.
LEMMA EnginesAreLeft ==
  ASSUME EngineInv, UNCHANGED engineVars
  PROVE  EngineInv' /\ (NoLazyStart' <=> NoLazyStart)
BY DEF engineVars, databaseVars, modelVars, initializerVars, managerVars, queryVars, EngineInv,
       EngineTypeOK, AdaptersFit, AnswersFit, InitIsAlone, OneAdapterUnderInit, NoLazyStart

\* One step of the engines: without `init`, only a query that initializes connects.
LEMMA EngineSteps ==
  ASSUME EngineInv, EngineStep \/ \E i \in Initializers : ConnectFails(i)
  PROVE  /\ EngineInv' /\ (NoLazyStart' => NoLazyStart)
         /\ opened \subseteq opened' /\ closed' = closed
         /\ stage[App] = "idle" =>
              stage'[App] = "idle" /\ (NoLazyStart' => opened' = opened)
<1>1. EngineInv' /\ (NoLazyStart' => NoLazyStart)
  BY FindModelEngines, GetModelsEngines, ConnectEngines, ConnectFailsEngines, TranslateEngines,
     RegisterLazilyEngines, RegisterEngines, AnswerEngines, StartLazilyEngines,
     StartPollingEngines, LazyInitializeEngineEngines, PollEngines DEF EngineStep, RegisterLazily
<1>2. opened \subseteq opened' /\ closed' = closed
  BY DEF EngineStep, FindModel, GetModels, Connect, ConnectFails, Translate, RegisterLazily, Register,
         Answer, StartLazily, StartPolling, LazyInitializeEngine, Poll, initializerVars
<1>3. ASSUME stage[App] = "idle"
      PROVE  stage'[App] = "idle"
  <2>. USE <1>3, EngineFacts DEF EngineInv, EngineTypeOK
  <2>1. CASE UNCHANGED stage
    BY <2>1
  <2>2. ASSUME NEW i \in Initializers, GetModels(i) \/ Connect(i) \/ ConnectFails(i)
        PROVE  stage'[App] = "idle"
    BY <2>2 DEF GetModels, Connect, ConnectFails
  <2>3. ASSUME NEW q \in Queries, RegisterLazily(q)
        PROVE  stage'[App] = "idle"
    BY <2>3 DEF RegisterLazily
  <2>4. ASSUME NEW q \in Queries, LazyInitializeEngine(q)
        PROVE  stage'[App] = "idle"
    BY <2>4 DEF LazyInitializeEngine, Begin
  <2>5. ~Register
    BY DEF Register, IsTranslated
  <2>. QED BY <2>1, <2>2, <2>3, <2>4, <2>5 DEF EngineStep, FindModel, Translate, RegisterLazily,
                Answer, StartLazily, StartPolling, Poll, initializerVars
<1>4. ASSUME stage[App] = "idle", NoLazyStart'
      PROVE  opened' = opened
  <2>1. ~ \E i \in Initializers : Connect(i)
    BY <1>1, <1>4, OnlyInitWorks DEF Connect
  <2>. QED BY <2>1 DEF EngineStep, FindModel, GetModels, ConnectFails, Translate, RegisterLazily,
                Register, Answer, StartLazily, StartPolling, LazyInitializeEngine, Poll, initializerVars
<1>. QED BY <1>1, <1>2, <1>3, <1>4

\* The domains are loaded
LEMMA LoadDomainLife ==
  ASSUME LifeInv, LoadDomain
  PROVE  LifeInv'
<1>. USE LifecycleAssumptions, EngineFacts DEF LifeInv, AppInv
<1>1. EngineInv' /\ (NoLazyStart' => NoLazyStart)
  BY EnginesAreLeft DEF LoadDomain, stopVars, engineVars, initializerVars
<1>2. TypeOK'
  BY <1>1 DEF EngineInv, TypeOK, LoadDomain, stopVars, engineVars, initializerVars
<1>3. InitIsAwaited'
  BY DEF TypeOK, InitIsAwaited, LoadDomain, stopVars, engineVars, initializerVars
<1>4. NothingClosesEarly'
  BY DEF TypeOK, NothingClosesEarly, Sent, LoadDomain, stopVars, engineVars, initializerVars
<1>5. EnginesAreClosed'
  BY <1>1 DEF TypeOK, EnginesAreClosed, LoadDomain, stopVars, engineVars, initializerVars
<1>6. FirstSignalWaits'
  BY DEF TypeOK, FirstSignalWaits, NothingClosesEarly, Sent, LoadDomain, stopVars, engineVars, initializerVars
<1>7. DomainsCloseOnce' /\ (phase' = "waiting" => position' <= Len(Domains))
  BY DEF TypeOK, DomainsCloseOnce, NothingClosesEarly, LoadDomain, stopVars, engineVars, initializerVars
<1>. QED BY <1>1, <1>2, <1>3, <1>4, <1>5, <1>6, <1>7

\* one after the other,
LEMMA DomainsAreLoadedLife ==
  ASSUME LifeInv, DomainsAreLoaded
  PROVE  LifeInv'
<1>. USE LifecycleAssumptions, EngineFacts DEF LifeInv, AppInv
<1>1. EngineInv' /\ (NoLazyStart' => NoLazyStart)
  BY EnginesAreLeft DEF DomainsAreLoaded, stopVars, engineVars, initializerVars
<1>2. TypeOK'
  BY <1>1 DEF EngineInv, TypeOK, DomainsAreLoaded, stopVars, engineVars, initializerVars
<1>3. InitIsAwaited'
  BY DEF TypeOK, InitIsAwaited, DomainsAreLoaded, stopVars, engineVars, initializerVars
<1>4. NothingClosesEarly'
  BY DEF TypeOK, NothingClosesEarly, Sent, DomainsAreLoaded, stopVars, engineVars, initializerVars
<1>5. EnginesAreClosed'
  BY <1>1 DEF TypeOK, EnginesAreClosed, DomainsAreLoaded, stopVars, engineVars, initializerVars
<1>6. FirstSignalWaits'
  BY DEF TypeOK, FirstSignalWaits, NothingClosesEarly, Sent, DomainsAreLoaded, stopVars, engineVars, initializerVars
<1>7. DomainsCloseOnce' /\ (phase' = "waiting" => position' <= Len(Domains))
  BY DEF TypeOK, DomainsCloseOnce, NothingClosesEarly, DomainsAreLoaded, stopVars, engineVars, initializerVars
<1>. QED BY <1>1, <1>2, <1>3, <1>4, <1>5, <1>6, <1>7

\* then the server,
LEMMA LoadServerLife ==
  ASSUME LifeInv, LoadServer
  PROVE  LifeInv'
<1>. USE LifecycleAssumptions, EngineFacts DEF LifeInv, AppInv
<1>1. EngineInv' /\ (NoLazyStart' => NoLazyStart)
  BY EnginesAreLeft DEF LoadServer, stopVars, engineVars, initializerVars
<1>2. TypeOK'
  BY <1>1 DEF EngineInv, TypeOK, LoadServer, stopVars, engineVars, initializerVars
<1>3. InitIsAwaited'
  BY DEF TypeOK, InitIsAwaited, LoadServer, stopVars, engineVars, initializerVars
<1>4. NothingClosesEarly'
  BY DEF TypeOK, NothingClosesEarly, Sent, LoadServer, stopVars, engineVars, initializerVars
<1>5. EnginesAreClosed'
  BY <1>1 DEF TypeOK, EnginesAreClosed, LoadServer, stopVars, engineVars, initializerVars
<1>6. FirstSignalWaits'
  BY DEF TypeOK, FirstSignalWaits, NothingClosesEarly, Sent, LoadServer, stopVars, engineVars, initializerVars
<1>7. DomainsCloseOnce' /\ (phase' = "waiting" => position' <= Len(Domains))
  BY DEF TypeOK, DomainsCloseOnce, NothingClosesEarly, LoadServer, stopVars, engineVars, initializerVars
<1>. QED BY <1>1, <1>2, <1>3, <1>4, <1>5, <1>6, <1>7

\* and the domains are made ready,
LEMMA ReadyLife ==
  ASSUME LifeInv, Ready
  PROVE  LifeInv'
<1>. USE LifecycleAssumptions, EngineFacts DEF LifeInv, AppInv
<1>1. EngineInv' /\ (NoLazyStart' => NoLazyStart)
  BY EnginesAreLeft, InitBeginEngines DEF Ready, stopVars, engineVars, initializerVars
<1>2. TypeOK'
  BY <1>1 DEF EngineInv, TypeOK, Ready, stopVars, engineVars, initializerVars
<1>3. InitIsAwaited'
  BY DEF TypeOK, InitIsAwaited, Ready, stopVars, engineVars, initializerVars
<1>4. NothingClosesEarly'
  BY DEF TypeOK, NothingClosesEarly, Sent, Ready, InitBegin, stopVars, engineVars
<1>5. EnginesAreClosed'
  BY DEF TypeOK, EnginesAreClosed, NothingClosesEarly, Ready, InitBegin, stopVars, engineVars, initializerVars
<1>6. FirstSignalWaits'
  BY DEF TypeOK, FirstSignalWaits, NothingClosesEarly, Sent, Ready, stopVars, engineVars, initializerVars
<1>7. DomainsCloseOnce' /\ (phase' = "waiting" => position' <= Len(Domains))
  BY DEF TypeOK, DomainsCloseOnce, NothingClosesEarly, Ready, stopVars, engineVars, initializerVars
<1>. QED BY <1>1, <1>2, <1>3, <1>4, <1>5, <1>6, <1>7

\* the databases when `init` is done,
LEMMA DatabaseIsReadyLife ==
  ASSUME LifeInv, DatabaseIsReady
  PROVE  LifeInv'
<1>. USE LifecycleAssumptions, EngineFacts DEF LifeInv, AppInv
<1>1. EngineInv' /\ (NoLazyStart' => NoLazyStart)
  BY EnginesAreLeft DEF DatabaseIsReady, stopVars, engineVars, initializerVars
<1>2. TypeOK'
  BY <1>1 DEF EngineInv, TypeOK, DatabaseIsReady, stopVars, engineVars, initializerVars
<1>3. InitIsAwaited'
  BY DEF TypeOK, InitIsAwaited, DatabaseIsReady, stopVars, engineVars, initializerVars
<1>4. NothingClosesEarly'
  BY DEF TypeOK, NothingClosesEarly, Sent, DatabaseIsReady, stopVars, engineVars, initializerVars
<1>5. EnginesAreClosed'
  BY <1>1 DEF TypeOK, EnginesAreClosed, DatabaseIsReady, stopVars, engineVars, initializerVars
<1>6. FirstSignalWaits'
  BY DEF TypeOK, FirstSignalWaits, NothingClosesEarly, Sent, DatabaseIsReady, stopVars, engineVars, initializerVars
<1>7. DomainsCloseOnce' /\ (phase' = "waiting" => position' <= Len(Domains))
  BY DEF TypeOK, DomainsCloseOnce, NothingClosesEarly, DatabaseIsReady, stopVars, engineVars, initializerVars
<1>. QED BY <1>1, <1>2, <1>3, <1>4, <1>5, <1>6, <1>7

\* unless it fails;
LEMMA DatabaseFailsLife ==
  ASSUME LifeInv, DatabaseFails
  PROVE  LifeInv'
<1>. USE LifecycleAssumptions, EngineFacts DEF LifeInv, AppInv
<1>1. EngineInv' /\ (NoLazyStart' => NoLazyStart)
  BY EnginesAreLeft DEF DatabaseFails, stopVars, engineVars, initializerVars
<1>2. TypeOK'
  BY <1>1 DEF EngineInv, TypeOK, DatabaseFails, stopVars, engineVars, initializerVars
<1>3. InitIsAwaited'
  BY DEF TypeOK, InitIsAwaited, DatabaseFails, stopVars, engineVars, initializerVars
<1>4. NothingClosesEarly'
  BY DEF TypeOK, NothingClosesEarly, Sent, DatabaseFails, stopVars, engineVars, initializerVars
<1>5. EnginesAreClosed'
  BY <1>1 DEF TypeOK, EnginesAreClosed, DatabaseFails, stopVars, engineVars, initializerVars
<1>6. FirstSignalWaits'
  BY DEF TypeOK, FirstSignalWaits, NothingClosesEarly, Sent, DatabaseFails, stopVars, engineVars, initializerVars
<1>7. DomainsCloseOnce' /\ (phase' = "waiting" => position' <= Len(Domains))
  BY DEF TypeOK, DomainsCloseOnce, NothingClosesEarly, DatabaseFails, stopVars, engineVars, initializerVars
<1>. QED BY <1>1, <1>2, <1>3, <1>4, <1>5, <1>6, <1>7

\* then the server runs.
LEMMA StartServerLife ==
  ASSUME LifeInv, Start
  PROVE  LifeInv'
<1>. USE LifecycleAssumptions, EngineFacts DEF LifeInv, AppInv
<1>1. EngineInv' /\ (NoLazyStart' => NoLazyStart)
  BY EnginesAreLeft DEF Start, stopVars, engineVars, initializerVars
<1>2. TypeOK'
  BY <1>1 DEF EngineInv, TypeOK, Start, stopVars, engineVars, initializerVars
<1>3. InitIsAwaited'
  BY DEF TypeOK, InitIsAwaited, Start, stopVars, engineVars, initializerVars
<1>4. NothingClosesEarly'
  BY DEF TypeOK, NothingClosesEarly, Sent, Start, stopVars, engineVars, initializerVars
<1>5. EnginesAreClosed'
  BY <1>1 DEF TypeOK, EnginesAreClosed, Start, stopVars, engineVars, initializerVars
<1>6. FirstSignalWaits'
  BY DEF TypeOK, FirstSignalWaits, NothingClosesEarly, Sent, Start, stopVars, engineVars, initializerVars
<1>7. DomainsCloseOnce' /\ (phase' = "waiting" => position' <= Len(Domains))
  BY DEF TypeOK, DomainsCloseOnce, NothingClosesEarly, Start, stopVars, engineVars, initializerVars
<1>. QED BY <1>1, <1>2, <1>3, <1>4, <1>5, <1>6, <1>7

\* Meanwhile the database is queried,
LEMMA AskForDatabaseLife ==
  ASSUME LifeInv, NEW q \in Queries, NEW r \in Requests, AskForDatabase(q, r)
  PROVE  LifeInv'
<1>. USE LifecycleAssumptions, EngineFacts DEF LifeInv, AppInv
<1>1. EngineInv' /\ (NoLazyStart' => NoLazyStart)
  BY AskEngines DEF AskForDatabase, Ask, startVars, stopVars, initializerVars
<1>2. TypeOK'
  BY <1>1 DEF EngineInv, TypeOK, AskForDatabase, Ask, startVars, stopVars, initializerVars
<1>3. InitIsAwaited'
  BY DEF TypeOK, InitIsAwaited, AskForDatabase, Ask, startVars, stopVars, initializerVars
<1>4. NothingClosesEarly'
  BY DEF TypeOK, NothingClosesEarly, Sent, AskForDatabase, Ask, startVars, stopVars, initializerVars
<1>5. EnginesAreClosed'
  BY <1>1 DEF TypeOK, EnginesAreClosed, AskForDatabase, Ask, startVars, stopVars, initializerVars
<1>6. FirstSignalWaits'
  BY DEF TypeOK, FirstSignalWaits, NothingClosesEarly, Sent, AskForDatabase, Ask, startVars, stopVars, initializerVars
<1>7. DomainsCloseOnce' /\ (phase' = "waiting" => position' <= Len(Domains))
  BY DEF TypeOK, DomainsCloseOnce, NothingClosesEarly, AskForDatabase, Ask, startVars, stopVars, initializerVars
<1>. QED BY <1>1, <1>2, <1>3, <1>4, <1>5, <1>6, <1>7

\* and its engines go on.
LEMMA EnginesGoOnLife ==
  ASSUME LifeInv, EnginesGoOn
  PROVE  LifeInv'
<1>. USE LifecycleAssumptions, EngineFacts DEF LifeInv, AppInv
<1>1. /\ EngineInv' /\ (NoLazyStart' => NoLazyStart)
      /\ opened \subseteq opened' /\ closed' = closed
      /\ stage[App] = "idle" => stage'[App] = "idle" /\ (NoLazyStart' => opened' = opened)
  BY EngineSteps DEF EnginesGoOn
<1>2. /\ UNCHANGED <<startVars, stopVars>>
      /\ phase \notin {"exited", "crashed"}
  BY DEF EnginesGoOn, Alive
<1>3. TypeOK'
  BY <1>1, <1>2 DEF EngineInv, TypeOK, startVars, stopVars
<1>4. InitIsAwaited' /\ NothingClosesEarly'
  BY <1>1, <1>2 DEF InitIsAwaited, NothingClosesEarly, Sent, startVars, stopVars
<1>5. EnginesAreClosed'
  <2>1. isClosing => stage[App] = "idle"
    BY <1>2 DEF InitIsAwaited, NothingClosesEarly
  <2>. QED BY <1>1, <1>2, <2>1 DEF EnginesAreClosed, stopVars
<1>6. FirstSignalWaits' /\ DomainsCloseOnce' /\ (phase' = "waiting" => position' <= Len(Domains))
  BY <1>2 DEF FirstSignalWaits, DomainsCloseOnce, Sent, startVars, stopVars
<1>. QED BY <1>1, <1>3, <1>4, <1>5, <1>6

\* The first signal closes the domains; another does not wait for them.
LEMMA SignalLife ==
  ASSUME LifeInv, NEW s \in Signals, Signal(s)
  PROVE  LifeInv'
<1>. USE LifecycleAssumptions, EngineFacts DEF LifeInv, AppInv
<1>0. /\ EnginesToClose \subseteq opened
      /\ NoLazyStart => opened \subseteq EnginesToClose
  <2>1. stage[App] = "idle"
    BY DEF InitIsAwaited, Signal
  <2>2. \A a \in opened : a # None
    BY DEF EngineInv, EngineTypeOK
  <2>. QED BY <2>1, <2>2 DEF EngineInv, AdaptersFit, InitIsAlone, EnginesToClose
<1>1. EngineInv' /\ (NoLazyStart' => NoLazyStart)
  BY EnginesAreLeft DEF Signal, ClosesDomains, EnginesToClose, startVars, engineVars, initializerVars
<1>2. TypeOK'
  <2>1. closeCalls' \in [DomainSet -> Nat]
    BY DEF TypeOK, Signal
  <2>2. toClose' \subseteq Adapters /\ closing' \subseteq DomainSet
    BY <1>0 DEF TypeOK, EngineTypeOK, Signal
  <2>. QED BY <1>1, <2>1, <2>2 DEF EngineInv, TypeOK, Signal, startVars, engineVars
<1>3. InitIsAwaited'
  BY DEF TypeOK, InitIsAwaited, Signal, ClosesDomains, EnginesToClose, startVars, engineVars, initializerVars
<1>4. NothingClosesEarly'
  BY DEF TypeOK, NothingClosesEarly, Sent, Signal, ClosesDomains, EnginesToClose, startVars, engineVars, initializerVars
<1>5. EnginesAreClosed'
  BY <1>0, <1>1 DEF EnginesAreClosed, Signal, ClosesDomains, engineVars, initializerVars
<1>6. FirstSignalWaits'
  BY DEF TypeOK, FirstSignalWaits, NothingClosesEarly, Sent, Signal, ClosesDomains, EnginesToClose, startVars, engineVars, initializerVars
<1>7. DomainsCloseOnce' /\ (phase' = "waiting" => position' <= Len(Domains))
  BY DEF TypeOK, DomainsCloseOnce, NothingClosesEarly, Signal, ClosesDomains, EnginesToClose, startVars, engineVars, initializerVars
<1>. QED BY <1>1, <1>2, <1>3, <1>4, <1>5, <1>6, <1>7

\* An engine closes,
LEMMA CloseAdapterLife ==
  ASSUME LifeInv, NEW a \in Adapters, CloseAdapter(a)
  PROVE  LifeInv'
<1>. USE LifecycleAssumptions, EngineFacts DEF LifeInv, AppInv
<1>1. EngineInv' /\ (NoLazyStart' => NoLazyStart)
  BY DEF CloseAdapter, EnginesAreClosed, EngineInv, EngineTypeOK, AdaptersFit, AnswersFit,
     InitIsAlone, OneAdapterUnderInit, NoLazyStart, databaseVars, modelVars, initializerVars,
     managerVars, queryVars
<1>2. TypeOK'
  BY <1>1 DEF EngineInv, TypeOK, CloseAdapter, Alive, startVars, initializerVars
<1>3. InitIsAwaited'
  BY DEF TypeOK, InitIsAwaited, CloseAdapter, Alive, startVars, initializerVars
<1>4. NothingClosesEarly'
  BY DEF TypeOK, NothingClosesEarly, Sent, CloseAdapter, Alive, startVars, initializerVars
<1>5. EnginesAreClosed'
  BY <1>1 DEF TypeOK, EnginesAreClosed, CloseAdapter, Alive, startVars, initializerVars
<1>6. FirstSignalWaits'
  BY DEF TypeOK, FirstSignalWaits, NothingClosesEarly, Sent, CloseAdapter, Alive, startVars, initializerVars
<1>7. DomainsCloseOnce' /\ (phase' = "waiting" => position' <= Len(Domains))
  BY DEF TypeOK, DomainsCloseOnce, NothingClosesEarly, CloseAdapter, Alive, startVars, initializerVars
<1>. QED BY <1>1, <1>2, <1>3, <1>4, <1>5, <1>6, <1>7

\* a domain closes,
LEMMA DomainClosesLife ==
  ASSUME LifeInv, NEW d \in DomainSet, DomainCloses(d)
  PROVE  LifeInv'
<1>. USE LifecycleAssumptions, EngineFacts DEF LifeInv, AppInv
<1>1. EngineInv' /\ (NoLazyStart' => NoLazyStart)
  BY EnginesAreLeft DEF DomainCloses, Alive, startVars, engineVars, initializerVars
<1>2. TypeOK'
  BY <1>1 DEF EngineInv, TypeOK, DomainCloses, Alive, startVars, engineVars, initializerVars
<1>3. InitIsAwaited'
  BY DEF TypeOK, InitIsAwaited, DomainCloses, Alive, startVars, engineVars, initializerVars
<1>4. NothingClosesEarly'
  BY DEF TypeOK, NothingClosesEarly, Sent, DomainCloses, Alive, startVars, engineVars, initializerVars
<1>5. EnginesAreClosed'
  BY <1>1 DEF TypeOK, EnginesAreClosed, DomainCloses, Alive, startVars, engineVars, initializerVars
<1>6. FirstSignalWaits'
  BY DEF TypeOK, FirstSignalWaits, NothingClosesEarly, Sent, DomainCloses, Alive, startVars, engineVars, initializerVars
<1>7. DomainsCloseOnce' /\ (phase' = "waiting" => position' <= Len(Domains))
  BY DEF TypeOK, DomainsCloseOnce, NothingClosesEarly, DomainCloses, Alive, startVars, engineVars, initializerVars
<1>. QED BY <1>1, <1>2, <1>3, <1>4, <1>5, <1>6, <1>7

\* or fails to,
LEMMA DomainFailsLife ==
  ASSUME LifeInv, NEW d \in DomainSet, DomainFails(d)
  PROVE  LifeInv'
<1>. USE LifecycleAssumptions, EngineFacts DEF LifeInv, AppInv
<1>1. EngineInv' /\ (NoLazyStart' => NoLazyStart)
  BY EnginesAreLeft DEF DomainFails, Alive, stopVars, engineVars, initializerVars
<1>2. TypeOK'
  BY <1>1 DEF EngineInv, TypeOK, DomainFails, Alive, stopVars, engineVars, initializerVars
<1>3. InitIsAwaited'
  BY DEF TypeOK, InitIsAwaited, DomainFails, Alive, stopVars, engineVars, initializerVars
<1>4. NothingClosesEarly'
  BY DEF TypeOK, NothingClosesEarly, Sent, DomainFails, Alive, stopVars, engineVars, initializerVars
<1>5. EnginesAreClosed'
  BY <1>1 DEF TypeOK, EnginesAreClosed, DomainFails, Alive, stopVars, engineVars, initializerVars
<1>6. FirstSignalWaits'
  BY DEF TypeOK, FirstSignalWaits, NothingClosesEarly, Sent, DomainFails, Alive, stopVars, engineVars, initializerVars
<1>7. DomainsCloseOnce' /\ (phase' = "waiting" => position' <= Len(Domains))
  BY DEF TypeOK, DomainsCloseOnce, NothingClosesEarly, DomainFails, Alive, stopVars, engineVars, initializerVars
<1>. QED BY <1>1, <1>2, <1>3, <1>4, <1>5, <1>6, <1>7

\* the server is closed after them,
LEMMA CloseServerLife ==
  ASSUME LifeInv, NEW s \in Signals, CloseServer(s)
  PROVE  LifeInv'
<1>. USE LifecycleAssumptions, EngineFacts DEF LifeInv, AppInv
<1>1. EngineInv' /\ (NoLazyStart' => NoLazyStart)
  BY EnginesAreLeft DEF CloseServer, IsCleanedUp, Alive, startVars, engineVars, initializerVars
<1>2. TypeOK'
  BY <1>1 DEF EngineInv, TypeOK, CloseServer, IsCleanedUp, Alive, startVars, engineVars, initializerVars
<1>3. InitIsAwaited'
  BY DEF TypeOK, InitIsAwaited, CloseServer, IsCleanedUp, Alive, startVars, engineVars, initializerVars
<1>4. NothingClosesEarly'
  BY DEF TypeOK, NothingClosesEarly, Sent, CloseServer, IsCleanedUp, Alive, startVars, engineVars, initializerVars
<1>5. EnginesAreClosed'
  BY <1>1 DEF TypeOK, EnginesAreClosed, CloseServer, IsCleanedUp, Alive, startVars, engineVars, initializerVars
<1>6. FirstSignalWaits'
  BY DEF TypeOK, FirstSignalWaits, NothingClosesEarly, Sent, CloseServer, IsCleanedUp, Alive, startVars, engineVars, initializerVars
<1>7. DomainsCloseOnce' /\ (phase' = "waiting" => position' <= Len(Domains))
  BY DEF TypeOK, DomainsCloseOnce, NothingClosesEarly, CloseServer, IsCleanedUp, Alive, startVars, engineVars, initializerVars
<1>. QED BY <1>1, <1>2, <1>3, <1>4, <1>5, <1>6, <1>7

\* has closed,
LEMMA ServerClosesLife ==
  ASSUME LifeInv, ServerCloses
  PROVE  LifeInv'
<1>. USE LifecycleAssumptions, EngineFacts DEF LifeInv, AppInv
<1>1. EngineInv' /\ (NoLazyStart' => NoLazyStart)
  BY EnginesAreLeft DEF ServerCloses, Alive, startVars, engineVars, initializerVars
<1>2. TypeOK'
  BY <1>1 DEF EngineInv, TypeOK, ServerCloses, Alive, startVars, engineVars, initializerVars
<1>3. InitIsAwaited'
  BY DEF TypeOK, InitIsAwaited, ServerCloses, Alive, startVars, engineVars, initializerVars
<1>4. NothingClosesEarly'
  BY DEF TypeOK, NothingClosesEarly, Sent, ServerCloses, Alive, startVars, engineVars, initializerVars
<1>5. EnginesAreClosed'
  BY <1>1 DEF TypeOK, EnginesAreClosed, ServerCloses, Alive, startVars, engineVars, initializerVars
<1>6. FirstSignalWaits'
  BY DEF TypeOK, FirstSignalWaits, NothingClosesEarly, Sent, ServerCloses, Alive, startVars, engineVars, initializerVars
<1>7. DomainsCloseOnce' /\ (phase' = "waiting" => position' <= Len(Domains))
  BY DEF TypeOK, DomainsCloseOnce, NothingClosesEarly, ServerCloses, Alive, startVars, engineVars, initializerVars
<1>. QED BY <1>1, <1>2, <1>3, <1>4, <1>5, <1>6, <1>7

\* and the process exits.
LEMMA ExitLife ==
  ASSUME LifeInv, NEW s \in Signals, Exit(s)
  PROVE  LifeInv'
<1>. USE LifecycleAssumptions, EngineFacts DEF LifeInv, AppInv
<1>1. EngineInv' /\ (NoLazyStart' => NoLazyStart)
  BY EnginesAreLeft DEF Exit, Alive, stopVars, engineVars, initializerVars
<1>2. TypeOK'
  BY <1>1 DEF EngineInv, TypeOK, Exit, Alive, stopVars, engineVars, initializerVars
<1>3. InitIsAwaited'
  BY DEF TypeOK, InitIsAwaited, NothingClosesEarly, Sent, Exit, Alive, stopVars, engineVars, initializerVars
<1>4. NothingClosesEarly'
  BY DEF TypeOK, NothingClosesEarly, Sent, Exit, Alive, stopVars, engineVars, initializerVars
<1>5. EnginesAreClosed'
  BY <1>1 DEF TypeOK, EnginesAreClosed, Exit, Alive, stopVars, engineVars, initializerVars
<1>6. FirstSignalWaits'
  BY DEF TypeOK, FirstSignalWaits, NothingClosesEarly, Sent, Exit, Alive, stopVars, engineVars, initializerVars
<1>7. DomainsCloseOnce' /\ (phase' = "waiting" => position' <= Len(Domains))
  BY DEF TypeOK, DomainsCloseOnce, NothingClosesEarly, Exit, Alive, stopVars, engineVars, initializerVars
<1>. QED BY <1>1, <1>2, <1>3, <1>4, <1>5, <1>6, <1>7

\* One step of the process.
LEMMA NextLife ==
  ASSUME LifeInv, [Next]_vars
  PROVE  LifeInv'
<1>1. CASE Next
  BY <1>1, LoadDomainLife, DomainsAreLoadedLife, LoadServerLife, ReadyLife, DatabaseIsReadyLife,
     DatabaseFailsLife, StartServerLife, AskForDatabaseLife, EnginesGoOnLife, SignalLife,
     CloseAdapterLife, DomainClosesLife, DomainFailsLife, CloseServerLife, ServerClosesLife,
     ExitLife DEF Next
<1>2. CASE UNCHANGED vars
  <2>1. EngineInv' /\ (NoLazyStart' <=> NoLazyStart)
    BY <1>2, EnginesAreLeft DEF vars, LifeInv
  <2>2. TypeOK'
    BY <1>2, <2>1 DEF vars, LifeInv, EngineInv, TypeOK, startVars, stopVars
  <2>3. AppInv'
    BY <1>2, <2>1 DEF vars, engineVars, initializerVars, startVars, stopVars, LifeInv, AppInv,
       InitIsAwaited, NothingClosesEarly, EnginesAreClosed, FirstSignalWaits, DomainsCloseOnce, Sent
  <2>. QED BY <2>1, <2>2, <2>3 DEF LifeInv
<1>. QED BY <1>1, <1>2

\* The engines, the queries and the process agree in all that was read of them.
LEMMA LifeCorrect == Spec => []LifeInv
<1>1. Init => LifeInv
  <2>. SUFFICES ASSUME Init
                PROVE  LifeInv
    OBVIOUS
  <2>. USE EngineFacts, LifecycleAssumptions DEF Init, EngineInitState
  <2>1. EngineTypeOK
    BY DEF EngineTypeOK, Makings, Nothing
  <2>2. AdaptersFit /\ AnswersFit /\ InitIsAlone /\ OneAdapterUnderInit
    BY DEF AdaptersFit, AnswersFit, InitIsAlone, OneAdapterUnderInit
  <2>3. TypeOK
    <3>1. position \in 1..(Len(Domains) + 1)
      OBVIOUS
    <3>2. closeCalls \in [DomainSet -> Nat] /\ handler \in [Signals -> {"none", "cleaning", "cleaned", "closing"}]
      OBVIOUS
    <3>. QED BY <2>1, <3>1, <3>2 DEF TypeOK
  <2>4. AppInv
    BY DEF AppInv, InitIsAwaited, NothingClosesEarly, EnginesAreClosed, FirstSignalWaits,
           DomainsCloseOnce, Sent
  <2>. QED BY <2>1, <2>2, <2>3, <2>4 DEF LifeInv, EngineInv
<1>2. LifeInv /\ [Next]_vars => LifeInv'
  BY NextLife
<1>. QED BY <1>1, <1>2, PTL DEF Spec

\* Everything has its type.
THEOREM LifeTypeCorrect == Spec => []TypeOK
BY LifeCorrect, PTL DEF LifeInv

\* What a query returns is an adapter of the engine it asked for, connected, and
\* closed only if the process is closing (models/manager.ts 162-191).
THEOREM QueriesGetAdapters == Spec => []AnswersAreUsable
<1>1. LifeInv => AnswersAreUsable
  BY DEF LifeInv, EngineInv, AnswersFit, AppInv, NothingClosesEarly, AnswersAreUsable
<1>. QED BY <1>1, LifeCorrect, PTL

\* Unless a query initializes, each manager uses the one adapter that is registered
\* for an engine (databases/src/databases.ts 82-112).
THEOREM AdaptersAreShared == Spec => []OneAdapterUnderInit
BY LifeCorrect, PTL DEF LifeInv, EngineInv

\* After a single signal the process does not exit before the domains, and what
\* `init` connected, are closed (core/src/app/index.ts 68-99).
THEOREM ExitsGracefully == Spec => []ExitIsGraceful
<1>1. LifeInv => ExitIsGraceful
  <2>. SUFFICES ASSUME LifeInv, NEW s \in Signals, Sent = {s}
                PROVE  /\ serverClosing => closing = {} /\ isClosing
                       /\ phase = "exited" => /\ closesAwaited => serverClosed
                                              /\ NoLazyStart => opened \subseteq closed
    BY DEF ExitIsGraceful, OneSignal
  <2>. USE DEF LifeInv, AppInv
  <2>1. isClosing
    BY DEF NothingClosesEarly
  <2>2. \A t \in Signals : handler[t] = "closing" => t = s /\ closing = {}
    BY DEF Sent, FirstSignalWaits
  <2>3. closing = {} => toClose = {}
    BY DEF EnginesAreClosed
  <2>. QED BY <2>1, <2>2, <2>3 DEF FirstSignalWaits, EnginesAreClosed
<1>. QED BY <1>1, LifeCorrect, PTL

\* However many signals come, no domain is closed twice (core/src/app/index.ts 89-90).
THEOREM DomainsAreClosedOnce == Spec => []DomainsCloseOnce
BY LifeCorrect, PTL DEF LifeInv, AppInv

\* The default engine of a manager never changes (models/manager.ts 173-178).
THEOREM DefaultsStay == Spec => DefaultStays
<1>1. LifeInv /\ [Next]_vars =>
        [\A m \in Managers : defaultName[m] # Unnamed => defaultName'[m] = defaultName[m]]_engineVars
  <2>. SUFFICES ASSUME LifeInv, [Next]_vars, NEW m \in Managers, defaultName[m] # Unnamed
                PROVE  defaultName'[m] = defaultName[m] \/ UNCHANGED engineVars
    OBVIOUS
  <2>1. ASSUME NEW i \in Initializers, NEW n \in Managers, Translate(i, n)
        PROVE  defaultName'[m] = defaultName[m]
    BY <2>1 DEF Translate, FirstName, LifeInv, EngineInv, EngineTypeOK
  <2>2. ASSUME EngineStep \/ \E i \in Initializers : ConnectFails(i)
        PROVE  defaultName'[m] = defaultName[m]
    BY <2>1, <2>2 DEF EngineStep, FindModel, GetModels, Connect, ConnectFails, RegisterLazily,
       Register, Answer, StartLazily, StartPolling, LazyInitializeEngine, Poll, managerVars
  <2>. QED BY <2>2 DEF Next, vars, LoadDomain, DomainsAreLoaded, LoadServer, Ready, InitBegin,
                DatabaseIsReady, DatabaseFails, Start, AskForDatabase, Ask, EnginesGoOn, Signal,
                CloseServer, Exit, CloseAdapter, DomainCloses, DomainFails, ServerCloses, managerVars
<1>. QED BY <1>1, LifeCorrect, PTL DEF Spec, DefaultStays
=============================================================================
