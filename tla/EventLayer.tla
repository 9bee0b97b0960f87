------------------------------ MODULE EventLayer ------------------------------
(***************************************************************************)
(* Emitters of packages/events that reach each other over a layer: a second  *)
(* EventEmitter, on a RedisEmitter, that each process shares between its     *)
(* emitters.  An emitter listens to its channels on the layer; an event      *)
(* emitted to a channel is published once by the sender's layer and handed   *)
(* by every layer to its emitters on that channel, and each answer goes back *)
(* over the channel the event came by.  Every emitter has one handler for    *)
(* the event; what an emit makes of its answers is EmitResults.              *)
(***************************************************************************)
EXTENDS Naturals, Sequences, FiniteSets, SequencesExt

CONSTANTS
  Emitters, Layers, Channels,
  Emits,        \* result keys, one per call of emitToChannel
  NoEmit, None,
  LayerOf,      \* the layer each emitter was given
  OptionsOf,    \* the choices of channels the emitters may be made with
  Started,      \* the emitters that exist already
  MaxDepartures,
  Wildcards     \* whether the layers were made with wildcards

ASSUME LayerAssumptions ==
  /\ LayerOf \in [Emitters -> Layers]
  /\ OptionsOf \subseteq [Emitters -> (SUBSET Channels) \ {{}}]
  /\ Started \subseteq Emitters /\ Wildcards \in BOOLEAN /\ MaxDepartures \in Nat
  /\ NoEmit \notin Emits /\ None \notin Emitters
  /\ IsFiniteSet(Emitters) /\ IsFiniteSet(Channels)

VARIABLES
  options,     \* #channels of each emitter, from its options
  phase,       \* of each emitter: being created, in use, closed
  attached,    \* <<emitter, channel>> filed in the layer, its callback in handlers
  subscribed,  \* <<emitter, channel>> whose callback the subscriber was given
  inbox,       \* what was published to each layer's subscriptions, in order
  working,     \* #pendingHandlerIdForResultKey
  running,     \* <<emitter, emit, channel>>: the handler's calls in progress
  sender,      \* who made each emit
  results,     \* #pendingResults of the sender
  departures,  \* how often an emitter left or closed, for the bound
  stayed,      \* history: <<emit, emitter, channel>>: on the channel since the emit
  called,      \* history: <<emit, emitter>>
  silenced     \* history: emitters that were on a layer when a server closed it

layerVars == <<attached, subscribed>>
handlerVars == <<working, running, called>>
senderVars == <<sender, results>>
vars == <<options, phase, layerVars, inbox, handlerVars, senderVars, departures, stayed, silenced>>

Memberships == Emitters \X Channels
Messages ==
  [kind : {"event"}, emit : Emits, channel : Channels]
  \cup [kind : {"pending", "completed"}, emit : Emits, channel : Channels, from : Emitters]

TypeOK ==
  /\ options \in [Emitters -> SUBSET Channels]
  /\ phase \in [Emitters -> {"none", "joining", "up", "closed"}]
  /\ attached \subseteq {p \in Memberships : p[2] \in options[p[1]]}
  /\ subscribed \subseteq Memberships
  /\ \A p \in attached : Wildcards \/ phase[p[1]] # "closed"
  /\ inbox \in [Layers -> Seq(Messages)]
  /\ working \in [Emitters -> Emits \cup {NoEmit}]
  /\ running \subseteq Emitters \X Emits \X Channels
  /\ sender \in [Emits -> Emitters \cup {None}]
  /\ results \in [Emits -> [Emitters -> {"none", "pending", "completed"}]]
  /\ departures \in 0..MaxDepartures
  /\ stayed \subseteq Emits \X Emitters \X Channels
  /\ called \subseteq Emits \X Emitters /\ silenced \subseteq Emitters

Init ==
  /\ options \in OptionsOf
  /\ phase = [m \in Emitters |-> IF m \in Started THEN "up" ELSE "none"]
  /\ attached = UNION {{m} \X options[m] : m \in Started}
  /\ subscribed = attached
  /\ inbox = [l \in Layers |-> << >>]
  /\ working = [m \in Emitters |-> NoEmit]
  /\ running = {}
  /\ sender = [e \in Emits |-> None]
  /\ results = [e \in Emits |-> [m \in Emitters |-> "none"]]
  /\ departures = 0 /\ stayed = {} /\ called = {} /\ silenced = {}

-----------------------------------------------------------------------------
On(l) == {m \in Emitters : LayerOf[m] = l}

\* addChannelListeners: every channel is filed before the first is subscribed to.
Join(m) ==
  /\ phase[m] = "none"
  /\ phase' = [phase EXCEPT ![m] = "joining"]
  /\ attached' = attached \cup {<<m, c>> : c \in options[m]}
  /\ UNCHANGED <<options, subscribed, inbox, handlerVars, senderVars, departures, stayed, silenced>>

Subscribe(m, c) ==
  /\ phase[m] = "joining" /\ c \in options[m] /\ <<m, c>> \notin subscribed
  /\ subscribed' = subscribed \cup {<<m, c>>}
  /\ phase' = IF \A d \in options[m] : <<m, d>> \in subscribed'
                THEN [phase EXCEPT ![m] = "up"] ELSE phase
  /\ UNCHANGED <<options, attached, inbox, handlerVars, senderVars, departures, stayed, silenced>>

\* removeEventListener of RedisEmitter: the channels of the listeners in S are
\* unsubscribed from only if no handler is left, but the layer's own results
\* listener always is.
DropsAlways(l, S) == TRUE  \* mutant
DropsSubscription(l, S) ==
  1 + Cardinality({p \in attached : LayerOf[p[1]] = l} \ S) = 0

Detach(l, S) ==
  /\ attached' = attached \ S
  /\ subscribed' = {p \in subscribed :
       ~(DropsSubscription(l, S) /\ LayerOf[p[1]] = l /\ \E q \in S : q[2] = p[2])}

\* unsubscribeFromChannel
Leave(m, c) ==
  /\ phase[m] = "up" /\ departures < MaxDepartures /\ <<m, c>> \in attached
  /\ departures' = departures + 1
  /\ Detach(LayerOf[m], {<<m, c>>})
  /\ stayed' = stayed \ (Emits \X {m} \X {c})
  /\ UNCHANGED <<options, phase, inbox, handlerVars, senderVars, silenced>>

\* EventsServer.close: the emitter's own listeners go, and those of every emitter
\* on the layer; but a layer with wildcards looks for them under '**'.
OwnListeners(m) == IF Wildcards THEN {} ELSE {p \in attached : p[1] = m}  \* mutant
DetachedByClose(m) ==
  IF Wildcards THEN {} ELSE {p \in attached : LayerOf[p[1]] = LayerOf[m]}

Close(m) ==
  /\ phase[m] = "up" /\ departures < MaxDepartures
  /\ phase' = [phase EXCEPT ![m] = "closed"]
  /\ departures' = departures + 1
  /\ Detach(LayerOf[m], DetachedByClose(m))
  /\ stayed' = {t \in stayed : IF Wildcards THEN t[2] # m ELSE LayerOf[t[2]] # LayerOf[m]}
  /\ silenced' = IF Wildcards THEN silenced
                 ELSE silenced \cup {k \in On(LayerOf[m]) : phase[k] # "none"}
  /\ UNCHANGED <<options, inbox, handlerVars, senderVars>>

-----------------------------------------------------------------------------
HasGroup(l, c) == \E m \in On(l) : <<m, c>> \in attached

\* emitEventToEmitter of the layer publishes a message once, if it has a group for
\* the channel, and Redis sends it to every layer that subscribes to the channel.
Published(l, msgs) ==
  [k \in Layers |-> inbox[k] \o SetToSeq({msg \in msgs :
    HasGroup(l, msg.channel) /\ \E m \in On(k) : <<m, msg.channel>> \in subscribed})]

AnyChannel(m) == Channels  \* mutant
OwnChannels(m) == options[m]

\* emitToChannel: only to channels of the sender's own options.
Emit(m, e, channels) ==
  /\ phase[m] \in {"up", "closed"} /\ sender[e] = None
  /\ sender' = [sender EXCEPT ![e] = m]
  /\ LET used == {c \in channels \cap OwnChannels(m) : HasGroup(LayerOf[m], c)} IN
       /\ inbox' = Published(LayerOf[m],
                             [kind : {"event"}, emit : {e}, channel : used])
       /\ stayed' = stayed \cup
            {t \in {e} \X Emitters \X used : phase[t[2]] = "up" /\ <<t[2], t[3]>> \in attached}
  /\ UNCHANGED <<options, phase, layerVars, handlerVars, results, departures, silenced>>

\* The callbacks that RedisEmitter calls for a message: those not removed since.
Hears(l, c) == {m \in On(l) : <<m, c>> \in attached \cap subscribed}

AnswerAnywhere(kind, m, e, c) ==  \* mutant
  [kind : {kind}, emit : {e}, channel : {CHOOSE d \in options[m] : TRUE}, from : {m}]
\* emitResult
Answer(kind, m, e, c) == [kind : {kind}, emit : {e}, channel : {c}, from : {m}]

\* layerListener, for an event: the emitter's handler is called unless it is
\* working on the event, or the emitter was closed, and reports that it started.
ReceiveEvent(l) ==
  /\ inbox[l] # << >> /\ Head(inbox[l]).kind = "event"
  /\ LET e == Head(inbox[l]).emit
         c == Head(inbox[l]).channel
         starts == {m \in Hears(l, c) : phase[m] = "up" /\ working[m] # e}
     IN /\ working' = [m \in Emitters |-> IF m \in starts THEN e ELSE working[m]]
        /\ running' = running \cup (starts \X {e} \X {c})
        /\ called' = called \cup ({e} \X starts)
        /\ inbox' = [Published(l, UNION {Answer("pending", m, e, c) : m \in starts})
                      EXCEPT ![l] = Tail(@)]
  /\ UNCHANGED <<options, phase, layerVars, senderVars, departures, stayed, silenced>>

\* layerListener, for an answer: only the sender has a listener for it.
ReceiveAnswer(l) ==
  /\ inbox[l] # << >> /\ Head(inbox[l]).kind # "event"
  /\ LET msg == Head(inbox[l]) IN
       results' = IF sender[msg.emit] \in Hears(l, msg.channel)
                    THEN [results EXCEPT ![msg.emit][msg.from] = msg.kind] ELSE results
  /\ inbox' = [inbox EXCEPT ![l] = Tail(@)]
  /\ UNCHANGED <<options, phase, layerVars, handlerVars, sender, departures, stayed, silenced>>

\* The handler returns and its result goes back over the event's channel.
Complete(m, e, c) ==
  /\ <<m, e, c>> \in running
  /\ running' = running \ {<<m, e, c>>}
  /\ working' = [working EXCEPT ![m] = NoEmit]
  /\ inbox' = Published(LayerOf[m], Answer("completed", m, e, c))
  /\ UNCHANGED <<options, phase, layerVars, called, senderVars, departures, stayed, silenced>>

Next ==
  \/ \E m \in Emitters : Join(m) \/ Close(m)
  \/ \E m \in Emitters, c \in Channels : Subscribe(m, c) \/ Leave(m, c)
  \/ \E m \in Emitters, e \in Emits, channels \in SUBSET Channels : Emit(m, e, channels)
  \/ \E l \in Layers : ReceiveEvent(l) \/ ReceiveAnswer(l)
  \/ \E m \in Emitters, e \in Emits, c \in Channels : Complete(m, e, c)

Spec == Init /\ [][Next]_vars

\* Redis keeps delivering while the connections last, and handlers return.
Fairness ==
  WF_vars(\/ \E l \in Layers : ReceiveEvent(l) \/ ReceiveAnswer(l)
          \/ \E m \in Emitters, e \in Emits, c \in Channels : Complete(m, e, c))

FairSpec == Spec /\ Fairness

-----------------------------------------------------------------------------
Travelling(e, c, m) ==
  Contains(inbox[LayerOf[m]], [kind |-> "event", emit |-> e, channel |-> c])

\* "This will fire the event in the layer calling all subscribed listeners"
\* (events/index.ts 771-772): whoever was on the channel when the event was emitted
\* and has not left has been called once the event has arrived, whoever else of
\* its process joined, left or was closed meanwhile.
StayersAreCalled ==
  \A e \in Emits, m \in Emitters, c \in Channels :
    <<e, m, c>> \in stayed /\ ~Travelling(e, c, m) => <<e, m>> \in called

\* "The channels that your emitter will listen to" (events/index.ts 891-893): an
\* event reaches only emitters that share a channel with its sender, and each
\* calls back over such a channel.
EventsStayOnTheirChannels ==
  /\ \A t \in called : options[t[2]] \cap options[sender[t[1]]] # {}
  /\ \A t \in running : t[3] \in options[t[1]] \cap options[sender[t[2]]]

\* "so we can unsubscribe everything from the layer and unsubscribe all of it's
\* listeners" (server.ts 66-67): when a server closes, every emitter that has joined
\* its layer by then, or is about to, is silenced for good.  What was on its way,
\* what others still emit, and a channel it was still subscribing to, call none of
\* its handlers, and no answer reaches an emit of its own; emitters that join later
\* are called as ever.
ClosedLayersStayQuiet ==
  [][\A e \in Emits, m \in silenced :
       /\ <<e, m>> \in called' => <<e, m>> \in called
       /\ sender[e] = m => results'[e] = results[e]]_vars

\* "guarantee that we are sending the response back to the `users` channel so that
\* the `resultEventName` can catch this value" (events/index.ts 829-832): again and
\* again there is a moment when every handler whose emitter, like the sender, has
\* kept to its channels has its result with the sender.
KeptToItsChannels(e, m) ==
  \A c \in options[m] \cap options[sender[e]] :
    <<e, m, c>> \in stayed /\ <<e, sender[e], c>> \in stayed
AnswersComeBack ==
  []<>(\A t \in called :
         KeptToItsChannels(t[1], t[2]) => results[t[1]][t[2]] = "completed")
=============================================================================
