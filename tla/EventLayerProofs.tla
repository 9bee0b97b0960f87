--------------------------- MODULE EventLayerProofs ---------------------------
(***************************************************************************)
(* The shared layers, for any number of emitters, layers, channels, events  *)
(* and departures, with and without wildcards: types, that events keep to   *)
(* the channels of their senders, and that whoever stays is called.         *)
(***************************************************************************)
EXTENDS EventLayer, FiniteSetTheorems, SequenceTheorems, TLAPS

-----------------------------------------------------------------------------
(* Published messages.                                                      *)

LEMMA Ordered ==
  ASSUME NEW S, IsFiniteSet(S)
  PROVE  /\ SetToSeq(S) \in Seq(S)
         /\ \A x \in S : \E i \in 1..Len(SetToSeq(S)) : SetToSeq(S)[i] = x
<1> DEFINE n == Cardinality(S)
           F == {f \in [1..n -> S] : IsInjective(f)}
<1>1. n \in Nat /\ ExistsBijection(1..n, S)
  BY FS_CardinalityType
<1>2. PICK b : b \in Bijection(1..n, S)
  BY <1>1 DEF ExistsBijection
<1>3. b \in [1..n -> S] /\ IsInjective(b)
  BY <1>2 DEF Bijection, Injection
<1>4. SetToSeq(S) \in [1..n -> S] /\ IsInjective(SetToSeq(S))
  BY <1>3, Zenon DEF SetToSeq
<1>5. SetToSeq(S) \in Seq(S) /\ Len(SetToSeq(S)) = n
  BY <1>1, <1>4
<1>6. SetToSeq(S) \in Injection(1..n, S)
  BY <1>4 DEF Injection
<1>7. IsFiniteSet(1..n) /\ Cardinality(1..n) = n
  BY <1>1, FS_Interval
<1>8. SetToSeq(S) \in Surjection(1..n, S)
  BY <1>6, <1>7, FS_Injection
<1> QED
  BY <1>5, <1>8 DEF Surjection

\* What a layer publishes goes to the end of every inbox, and reaches the layers
\* that subscribe to it.
LEMMA Publishing ==
  ASSUME inbox \in [Layers -> Seq(Messages)],
         NEW l \in Layers, NEW M \in SUBSET Messages, NEW msgs \in SUBSET M, IsFiniteSet(msgs),
         \A k \in Layers : inbox[k] \in Seq(M)
  PROVE  /\ Published(l, msgs) \in [Layers -> Seq(M)]
         /\ \A k \in Layers : \A i \in 1..Len(inbox[k]) :
              /\ i \in 1..Len(Published(l, msgs)[k])
              /\ Published(l, msgs)[k][i] = inbox[k][i]
         /\ \A k \in Layers, msg \in msgs :
              HasGroup(l, msg.channel) /\ (\E m \in On(k) : <<m, msg.channel>> \in subscribed)
                => \E i \in 1..Len(Published(l, msgs)[k]) : Published(l, msgs)[k][i] = msg
<1> DEFINE Sent(k) == {msg \in msgs : /\ HasGroup(l, msg.channel)
                                      /\ \E m \in On(k) : <<m, msg.channel>> \in subscribed}
<1>1. Published(l, msgs) = [k \in Layers |-> inbox[k] \o SetToSeq(Sent(k))]
  BY DEF Published
<1>2. ASSUME NEW k \in Layers
      PROVE  /\ SetToSeq(Sent(k)) \in Seq(M)
             /\ \A x \in Sent(k) : \E i \in 1..Len(SetToSeq(Sent(k))) : SetToSeq(Sent(k))[i] = x
  <2>1. Sent(k) \in SUBSET msgs
    OBVIOUS
  <2>2. IsFiniteSet(Sent(k))
    BY <2>1, FS_Subset, Zenon
  <2>3. SetToSeq(Sent(k)) \in Seq(Sent(k))
    BY <2>2, Ordered
  <2>4. SetToSeq(Sent(k)) \in Seq(M)
    BY <2>1, <2>3
  <2> QED
    BY <2>2, <2>4, Ordered
<1> HIDE DEF Sent
<1>3. ASSUME NEW k \in Layers
      PROVE  /\ inbox[k] \o SetToSeq(Sent(k)) \in Seq(M)
             /\ Len(inbox[k] \o SetToSeq(Sent(k))) = Len(inbox[k]) + Len(SetToSeq(Sent(k)))
             /\ \A i \in 1..Len(inbox[k]) : (inbox[k] \o SetToSeq(Sent(k)))[i] = inbox[k][i]
             /\ \A i \in 1..Len(SetToSeq(Sent(k))) :
                  (inbox[k] \o SetToSeq(Sent(k)))[Len(inbox[k]) + i] = SetToSeq(Sent(k))[i]
  <2> DEFINE old == inbox[k]
             new == SetToSeq(Sent(k))
  <2>1. old \in Seq(M) /\ new \in Seq(M)
    BY <1>2
  <2> HIDE DEF old, new
  <2>2. /\ old \o new \in Seq(M)
        /\ Len(old \o new) = Len(old) + Len(new)
        /\ \A i \in 1..Len(old) : (old \o new)[i] = old[i]
        /\ \A i \in 1..Len(new) : (old \o new)[Len(old) + i] = new[i]
    BY <2>1
  <2> QED
    BY <2>2 DEF old, new
<1>4. Published(l, msgs) \in [Layers -> Seq(M)]
  BY <1>1, <1>3
<1>5. ASSUME NEW k \in Layers, NEW i \in 1..Len(inbox[k])
      PROVE  /\ i \in 1..Len(Published(l, msgs)[k])
             /\ Published(l, msgs)[k][i] = inbox[k][i]
  <2>1. Len(inbox[k]) \in Nat /\ Len(SetToSeq(Sent(k))) \in Nat
    BY <1>2
  <2> QED
    BY <1>1, <1>3, <2>1
<1>6. ASSUME NEW k \in Layers, NEW msg \in msgs,
             HasGroup(l, msg.channel), \E m \in On(k) : <<m, msg.channel>> \in subscribed
      PROVE  \E i \in 1..Len(Published(l, msgs)[k]) : Published(l, msgs)[k][i] = msg
  <2>1. msg \in Sent(k)
    BY <1>6 DEF Sent
  <2>2. PICK i \in 1..Len(SetToSeq(Sent(k))) : SetToSeq(Sent(k))[i] = msg
    BY <1>2, <2>1
  <2>3. Len(inbox[k]) \in Nat /\ Len(SetToSeq(Sent(k))) \in Nat
    BY <1>2
  <2>4. Len(inbox[k]) + i \in 1..Len(Published(l, msgs)[k])
    BY <1>1, <1>3, <2>3
  <2>5. Published(l, msgs)[k][Len(inbox[k]) + i] = msg
    BY <1>1, <1>3, <2>2
  <2> QED
    BY <2>4, <2>5
<1> QED
  BY <1>4, <1>5, <1>6

\* An event on its way to a layer stays on its way when a layer publishes.
LEMMA PublishingKeeps ==
  ASSUME NEW l \in Layers, NEW msgs, NEW k \in Layers, NEW x, Contains(inbox[k], x),
         \A i \in 1..Len(inbox[k]) :
           i \in 1..Len(Published(l, msgs)[k]) /\ Published(l, msgs)[k][i] = inbox[k][i]
  PROVE  Contains(Published(l, msgs)[k], x)
<1>1. PICK i \in 1..Len(inbox[k]) : inbox[k][i] = x
  BY DEF Contains
<1> QED
  BY <1>1 DEF Contains

-----------------------------------------------------------------------------
(* The invariant.                                                           *)

\* Every message on its way went to a channel of its event's sender.
Fit == {msg \in Messages : /\ sender[msg.emit] # None
                           /\ msg.channel \in options[sender[msg.emit]]}
MessagesFit == inbox \in [Layers -> Seq(Fit)]

\* Only events that were emitted are handled.
HandledAreSent ==
  /\ \A t \in called : sender[t[1]] # None
  /\ \A t \in running : sender[t[2]] # None
  /\ \A m \in Emitters : working[m] # NoEmit => <<working[m], m>> \in called

\* In use, an emitter is subscribed to what it is attached to.
AttachedAreSubscribed ==
  \A m \in Emitters, c \in Channels :
    phase[m] = "up" /\ <<m, c>> \in attached => <<m, c>> \in subscribed

\* Who stays can hear the event, and it is on its way to them or was heard.
StayersHear ==
  \A e \in Emits, m \in Emitters, c \in Channels :
    <<e, m, c>> \in stayed =>
      /\ phase[m] = "up" /\ <<m, c>> \in attached /\ <<m, c>> \in subscribed
      /\ Travelling(e, c, m) \/ <<e, m>> \in called

IInv == /\ TypeOK /\ MessagesFit /\ HandledAreSent /\ EventsStayOnTheirChannels
        /\ AttachedAreSubscribed /\ StayersHear

LEMMA InitIInv == Init => IInv
<1> SUFFICES ASSUME Init PROVE IInv
  OBVIOUS
<1> USE LayerAssumptions DEF Init, Memberships
<1>1. options \in [Emitters -> SUBSET Channels]
  OBVIOUS
<1>2. attached \subseteq {p \in Memberships : p[2] \in options[p[1]]}
  BY <1>1
<1>3. \A p \in attached : phase[p[1]] # "closed"
  OBVIOUS
<1>4. TypeOK
  BY <1>1, <1>2, <1>3 DEF TypeOK
<1>5. MessagesFit
  BY DEF MessagesFit
<1>6. HandledAreSent /\ EventsStayOnTheirChannels /\ AttachedAreSubscribed /\ StayersHear
  BY DEF HandledAreSent, EventsStayOnTheirChannels, AttachedAreSubscribed, StayersHear
<1> QED
  BY <1>4, <1>5, <1>6 DEF IInv

LEMMA TailKeeps ==
  ASSUME NEW M, NEW s \in Seq(M), s # << >>, NEW x, Contains(s, x), x # Head(s)
  PROVE  Contains(Tail(s), x)
<1>1. PICK i \in 1..Len(s) : s[i] = x
  BY DEF Contains
<1>2. i # 1
  BY <1>1
<1>3. i - 1 \in 1..Len(Tail(s)) /\ Tail(s)[i - 1] = x
  BY <1>1, <1>2
<1> QED
  BY <1>3 DEF Contains

\* Where events come by, only the memberships change, and never the senders.
LEMMA FitGrows ==
  ASSUME TypeOK, options' = options,
         \A e \in Emits : sender[e] # None => sender'[e] = sender[e]
  PROVE  Fit \subseteq Fit'
<1> SUFFICES ASSUME NEW msg \in Fit PROVE msg \in Fit'
  OBVIOUS
<1>1. msg.emit \in Emits
  BY DEF Fit, Messages
<1> QED
  BY <1>1 DEF Fit

\* An action that leaves the messages, the senders and the handlers alone.
LEMMA MembershipStep ==
  ASSUME IInv, UNCHANGED <<options, inbox, handlerVars, senderVars>>,
         AttachedAreSubscribed',
         stayed' \subseteq stayed,
         \A e \in Emits, m \in Emitters, c \in Channels : <<e, m, c>> \in stayed' =>
           phase'[m] = "up" /\ <<m, c>> \in attached' /\ <<m, c>> \in subscribed',
         TypeOK'
  PROVE  IInv'
<1> USE DEF IInv, handlerVars, senderVars
<1>1. MessagesFit'
  BY DEF MessagesFit, Fit
<1>2. HandledAreSent'
  BY DEF HandledAreSent
<1>3. EventsStayOnTheirChannels'
  BY DEF EventsStayOnTheirChannels
<1>4. StayersHear'
  BY DEF StayersHear, Travelling
<1> QED
  BY <1>1, <1>2, <1>3, <1>4

LEMMA JoinKeeps == ASSUME IInv, NEW m \in Emitters, Join(m) PROVE IInv'
<1> USE DEF IInv, Join, handlerVars, senderVars
<1>1. m \in Emitters /\ options[m] \subseteq Channels
  BY DEF TypeOK
<1>2. TypeOK'
  <2>1. attached' \subseteq {p \in Memberships : p[2] \in options'[p[1]]}
    BY <1>1 DEF TypeOK, Memberships
  <2>2. \A p \in attached' : Wildcards \/ phase'[p[1]] # "closed"
    BY <1>1 DEF TypeOK, Memberships
  <2> QED
    BY <2>1, <2>2 DEF TypeOK
<1>3. AttachedAreSubscribed'
  BY <1>1 DEF AttachedAreSubscribed, TypeOK
<1>4. \A e \in Emits, k \in Emitters, c \in Channels : <<e, k, c>> \in stayed' =>
        phase'[k] = "up" /\ <<k, c>> \in attached' /\ <<k, c>> \in subscribed'
  BY DEF StayersHear, TypeOK
<1> QED
  BY <1>2, <1>3, <1>4, MembershipStep

LEMMA SubscribeKeeps ==
  ASSUME IInv, NEW m \in Emitters, NEW c \in Channels, Subscribe(m, c) PROVE IInv'
<1> USE DEF IInv, Subscribe, handlerVars, senderVars
<1>1. TypeOK'
  <2>1. subscribed' \subseteq Memberships
    BY DEF TypeOK, Memberships
  <2>2. \A p \in attached' : Wildcards \/ phase'[p[1]] # "closed"
    BY DEF TypeOK, Memberships
  <2>3. phase' \in [Emitters -> {"none", "joining", "up", "closed"}]
    BY DEF TypeOK
  <2> QED
    BY <2>1, <2>2, <2>3 DEF TypeOK
<1>2. AttachedAreSubscribed'
  <2> SUFFICES ASSUME NEW k \in Emitters, NEW d \in Channels, phase'[k] = "up", <<k, d>> \in attached
               PROVE  <<k, d>> \in subscribed'
    BY DEF AttachedAreSubscribed
  <2>1. d \in options[k]
    BY DEF TypeOK
  <2>2. CASE phase[k] = "up"
    BY <2>2 DEF AttachedAreSubscribed
  <2>3. CASE phase[k] # "up"
    BY <2>1, <2>3 DEF TypeOK
  <2> QED
    BY <2>2, <2>3
<1>3. \A e \in Emits, k \in Emitters, d \in Channels : <<e, k, d>> \in stayed' =>
        phase'[k] = "up" /\ <<k, d>> \in attached' /\ <<k, d>> \in subscribed'
  BY DEF StayersHear, TypeOK
<1> QED
  BY <1>1, <1>2, <1>3, MembershipStep

\* The layer's own listener for results never goes, so that no subscription does.
LEMMA DetachKeepsSubscriptions ==
  ASSUME TypeOK, NEW l \in Layers, NEW S, Detach(l, S)
  PROVE  subscribed' = subscribed
<1>1. IsFiniteSet(Memberships)
  BY LayerAssumptions, FS_Product DEF Memberships
<1>2. {p \in attached : LayerOf[p[1]] = l} \ S \in SUBSET Memberships
  BY DEF TypeOK
<1>3. Cardinality({p \in attached : LayerOf[p[1]] = l} \ S) \in Nat
  BY <1>1, <1>2, FS_Subset, FS_CardinalityType
<1>4. ~DropsSubscription(l, S)
  <2> DEFINE n == Cardinality({p \in attached : LayerOf[p[1]] = l} \ S)
  <2>1. n \in Nat
    BY <1>3
  <2> HIDE DEF n
  <2>2. 1 + n # 0
    BY <2>1
  <2> QED
    BY <2>2 DEF DropsSubscription, n
<1> QED
  BY <1>4 DEF Detach, TypeOK

LEMMA LeaveKeeps ==
  ASSUME IInv, NEW m \in Emitters, NEW c \in Channels, Leave(m, c) PROVE IInv'
<1> USE DEF IInv, Leave, handlerVars, senderVars
<1>1. subscribed' = subscribed /\ attached' = attached \ {<<m, c>>}
  <2>1. LayerOf[m] \in Layers /\ Detach(LayerOf[m], {<<m, c>>})
    BY LayerAssumptions
  <2>2. subscribed' = subscribed
    BY <2>1, DetachKeepsSubscriptions
  <2> QED
    BY <2>1, <2>2 DEF Detach
<1>2. departures' \in 0..MaxDepartures
  BY LayerAssumptions DEF TypeOK
<1>3. TypeOK'
  BY <1>1, <1>2 DEF TypeOK
<1>4. AttachedAreSubscribed'
  BY <1>1 DEF AttachedAreSubscribed
<1>5. \A e \in Emits, k \in Emitters, d \in Channels : <<e, k, d>> \in stayed' =>
        phase'[k] = "up" /\ <<k, d>> \in attached' /\ <<k, d>> \in subscribed'
  BY <1>1 DEF StayersHear, TypeOK
<1> QED
  BY <1>3, <1>4, <1>5, MembershipStep

LEMMA CloseKeeps == ASSUME IInv, NEW m \in Emitters, Close(m) PROVE IInv'
<1> USE DEF IInv, Close, handlerVars, senderVars
<1>1. subscribed' = subscribed /\ attached' = attached \ DetachedByClose(m)
  BY LayerAssumptions, DetachKeepsSubscriptions DEF Detach
<1>2. departures' \in 0..MaxDepartures
  BY LayerAssumptions DEF TypeOK
<1>3. \A p \in attached' : Wildcards \/ phase'[p[1]] # "closed"
  BY <1>1 DEF TypeOK, DetachedByClose, Memberships
<1>4. TypeOK'
  <2>1. silenced' \subseteq Emitters
    BY DEF TypeOK, On
  <2>2. stayed' \subseteq Emits \X Emitters \X Channels
    BY DEF TypeOK
  <2> QED
    BY <1>1, <1>2, <1>3, <2>1, <2>2 DEF TypeOK
<1>5. AttachedAreSubscribed'
  BY <1>1 DEF AttachedAreSubscribed, TypeOK
<1>6. \A e \in Emits, k \in Emitters, d \in Channels : <<e, k, d>> \in stayed' =>
        phase'[k] = "up" /\ <<k, d>> \in attached' /\ <<k, d>> \in subscribed'
  <2> SUFFICES ASSUME NEW e \in Emits, NEW k \in Emitters, NEW d \in Channels,
                      <<e, k, d>> \in stayed'
               PROVE  phase'[k] = "up" /\ <<k, d>> \in attached' /\ <<k, d>> \in subscribed'
    OBVIOUS
  <2>1. <<e, k, d>> \in stayed
    OBVIOUS
  <2>2. IF Wildcards THEN k # m ELSE LayerOf[k] # LayerOf[m]
    OBVIOUS
  <2>3. k # m /\ <<k, d>> \notin DetachedByClose(m)
    BY <2>2 DEF DetachedByClose
  <2> QED
    BY <1>1, <2>1, <2>3 DEF StayersHear, TypeOK
<1> QED
  BY <1>4, <1>5, <1>6, MembershipStep

LEMMA EmitKeeps ==
  ASSUME IInv, NEW m \in Emitters, NEW e \in Emits, NEW channels \in SUBSET Channels,
         Emit(m, e, channels)
  PROVE  IInv'
<1> USE DEF IInv, Emit, layerVars, handlerVars
<1> DEFINE used == {c \in channels \cap OwnChannels(m) : HasGroup(LayerOf[m], c)}
           msgs == [kind : {"event"}, emit : {e}, channel : used]
<1>1. LayerOf[m] \in Layers /\ options[m] \subseteq Channels /\ used \subseteq options[m]
  BY LayerAssumptions DEF TypeOK, OwnChannels
<1>2. sender' \in [Emits -> Emitters \cup {None}] /\ sender'[e] = m /\ m # None
      /\ \A f \in Emits : sender[f] # None => sender'[f] = sender[f]
  BY LayerAssumptions DEF TypeOK
<1>3. msgs \subseteq Fit' /\ Fit' \subseteq Messages
  <2> SUFFICES ASSUME NEW msg \in msgs PROVE msg \in Fit'
    BY DEF Fit
  <2>1. msg \in Messages /\ msg.emit = e /\ msg.channel \in used
    BY <1>1 DEF Messages
  <2> QED
    BY <1>1, <1>2, <2>1 DEF Fit
<1>4. IsFiniteSet(msgs)
  <2> DEFINE f == [c \in used |-> [kind |-> "event", emit |-> e, channel |-> c]]
  <2>1. IsFiniteSet(used)
    BY <1>1, LayerAssumptions, FS_Subset
  <2>2. f \in Surjection(used, msgs)
    BY DEF Surjection
  <2> QED
    BY <2>1, <2>2, FS_Surjection
<1>5. \A k \in Layers : inbox[k] \in Seq(Fit')
  <2>1. Fit \subseteq Fit'
    BY <1>2, FitGrows
  <2> QED
    BY <2>1 DEF MessagesFit
<1>6. inbox' = Published(LayerOf[m], msgs)
  OBVIOUS
<1> HIDE DEF msgs
<1>7. /\ inbox' \in [Layers -> Seq(Fit')]
      /\ \A k \in Layers : \A i \in 1..Len(inbox[k]) :
           i \in 1..Len(inbox'[k]) /\ inbox'[k][i] = inbox[k][i]
      /\ \A k \in Layers, msg \in msgs :
           HasGroup(LayerOf[m], msg.channel) /\ (\E n \in On(k) : <<n, msg.channel>> \in subscribed)
             => \E i \in 1..Len(inbox'[k]) : inbox'[k][i] = msg
  <2>1. inbox \in [Layers -> Seq(Messages)]
    BY DEF TypeOK
  <2> HIDE DEF IInv, Emit, used
  <2> DEFINE l == LayerOf[m]
             M == Fit'
  <2>2. l \in Layers /\ M \in SUBSET Messages /\ msgs \in SUBSET M
        /\ \A k \in Layers : inbox[k] \in Seq(M)
    BY <1>1, <1>3, <1>5
  <2>3. inbox' = Published(l, msgs)
    BY <1>6
  <2> HIDE DEF l, M
  <2>4. /\ Published(l, msgs) \in [Layers -> Seq(M)]
        /\ \A k \in Layers : \A i \in 1..Len(inbox[k]) :
             i \in 1..Len(Published(l, msgs)[k]) /\ Published(l, msgs)[k][i] = inbox[k][i]
        /\ \A k \in Layers, msg \in msgs :
             HasGroup(l, msg.channel) /\ (\E n \in On(k) : <<n, msg.channel>> \in subscribed)
               => \E i \in 1..Len(Published(l, msgs)[k]) : Published(l, msgs)[k][i] = msg
    BY <1>4, <2>1, <2>2, Publishing
  <2> QED
    BY <2>3, <2>4 DEF l, M
<1>8. MessagesFit'
  BY <1>7 DEF MessagesFit
<1>9. TypeOK'
  <2>1. inbox' \in [Layers -> Seq(Messages)]
    BY <1>3, <1>7
  <2>2. stayed' \subseteq Emits \X Emitters \X Channels
    BY <1>1 DEF TypeOK
  <2> QED
    BY <1>2, <2>1, <2>2 DEF TypeOK
<1>10. HandledAreSent'
  BY <1>2 DEF HandledAreSent, TypeOK
<1>11. EventsStayOnTheirChannels'
  BY <1>2 DEF HandledAreSent, EventsStayOnTheirChannels, TypeOK
<1>12. AttachedAreSubscribed'
  BY DEF AttachedAreSubscribed
<1>13. StayersHear'
  <2> SUFFICES ASSUME NEW f \in Emits, NEW k \in Emitters, NEW c \in Channels, <<f, k, c>> \in stayed'
               PROVE  /\ phase[k] = "up" /\ <<k, c>> \in attached /\ <<k, c>> \in subscribed
                      /\ Travelling(f, c, k)' \/ <<f, k>> \in called
    BY DEF StayersHear
  <2>1. CASE <<f, k, c>> \in stayed
    <3>1. CASE Travelling(f, c, k)
      <4>1. LayerOf[k] \in Layers
        BY LayerAssumptions
      <4>2. Contains(inbox[LayerOf[k]], [kind |-> "event", emit |-> f, channel |-> c])
        BY <3>1 DEF Travelling
      <4>3. phase[k] = "up" /\ <<k, c>> \in attached /\ <<k, c>> \in subscribed
        BY <2>1 DEF StayersHear
      <4> DEFINE l == LayerOf[m]
                 kk == LayerOf[k]
                 x == [kind |-> "event", emit |-> f, channel |-> c]
      <4>4. Contains(inbox'[kk], x)
        <5>1. \A i \in 1..Len(inbox[kk]) :
                i \in 1..Len(Published(l, msgs)[kk]) /\ Published(l, msgs)[kk][i] = inbox[kk][i]
          BY <1>6, <1>7, <4>1
        <5>2. l \in Layers /\ kk \in Layers /\ Contains(inbox[kk], x) /\ inbox' = Published(l, msgs)
          BY <1>1, <1>6, <4>1, <4>2
        <5> HIDE DEF IInv, Emit, used, l, kk, x
        <5> QED
          BY <5>1, <5>2, PublishingKeeps
      <4>5. Travelling(f, c, k)'
        BY <4>4 DEF Travelling
      <4> QED
        BY <4>3, <4>5
    <3> QED
      BY <2>1, <3>1 DEF StayersHear
  <2>2. CASE <<f, k, c>> \notin stayed
    <3>1. f = e /\ c \in used /\ phase[k] = "up" /\ <<k, c>> \in attached
      BY <2>2
    <3>2. <<k, c>> \in subscribed
      BY <3>1 DEF AttachedAreSubscribed
    <3> DEFINE msg == [kind |-> "event", emit |-> e, channel |-> c]
    <3>3. msg \in msgs /\ msg.channel = c
      BY <3>1 DEF msgs
    <3>4. LayerOf[k] \in Layers /\ k \in On(LayerOf[k]) /\ HasGroup(LayerOf[m], c)
      BY <3>1, LayerAssumptions DEF On
    <3>5. \E i \in 1..Len(inbox'[LayerOf[k]]) : inbox'[LayerOf[k]][i] = msg
      BY <1>7, <3>2, <3>3, <3>4
    <3> QED
      BY <3>1, <3>2, <3>5 DEF Travelling, Contains
  <2> QED
    BY <2>1, <2>2
<1> QED
  BY <1>8, <1>9, <1>10, <1>11, <1>12, <1>13

\* A message that is not the one just handled stays on its way.
LEMMA TailOfPublished ==
  ASSUME NEW M, NEW old \in Seq(M), NEW new \in Seq(M), old # << >>,
         \A i \in 1..Len(old) : i \in 1..Len(new) /\ new[i] = old[i]
  PROVE  new # << >> /\ Head(new) = Head(old) /\ Tail(new) \in Seq(M)
<1>1. 1 \in 1..Len(old)
  OBVIOUS
<1> QED
  BY <1>1

LEMMA ReceiveEventKeeps == ASSUME IInv, NEW l \in Layers, ReceiveEvent(l) PROVE IInv'
<1> DEFINE e == Head(inbox[l]).emit
           c == Head(inbox[l]).channel
           starts == {m \in Hears(l, c) : phase[m] = "up" /\ working[m] # e}
           msgs == UNION {Answer("pending", m, e, c) : m \in starts}
           sent == Published(l, msgs)
<1>1. /\ inbox[l] # << >> /\ Head(inbox[l]).kind = "event"
      /\ working' = [m \in Emitters |-> IF m \in starts THEN e ELSE working[m]]
      /\ running' = running \cup (starts \X {e} \X {c})
      /\ called' = called \cup ({e} \X starts)
      /\ inbox' = [sent EXCEPT ![l] = Tail(@)]
      /\ UNCHANGED <<options, phase, attached, subscribed, sender, results, departures, stayed, silenced>>
  BY DEF ReceiveEvent, layerVars, senderVars
<1>2. inbox \in [Layers -> Seq(Messages)] /\ inbox \in [Layers -> Seq(Fit)]
  BY DEF IInv, TypeOK, MessagesFit
<1>3. Head(inbox[l]) \in Fit
  BY <1>1, <1>2
<1>4. /\ e \in Emits /\ c \in Channels
      /\ sender[e] # None /\ c \in options[sender[e]]
      /\ Head(inbox[l]) = [kind |-> "event", emit |-> e, channel |-> c]
  BY <1>1, <1>3 DEF Fit, Messages
<1>5. /\ starts \subseteq Emitters
      /\ \A m \in starts : c \in options[m] /\ phase[m] = "up"
  BY DEF Hears, On, IInv, TypeOK
<1> HIDE DEF e, c, starts
<1>6. msgs = {[kind |-> "pending", emit |-> e, channel |-> c, from |-> m] : m \in starts}
  BY DEF Answer
<1>7. msgs \subseteq Fit /\ IsFiniteSet(msgs)
  <2>1. ASSUME NEW m \in starts
        PROVE  [kind |-> "pending", emit |-> e, channel |-> c, from |-> m] \in Fit
    BY <1>4, <1>5 DEF Fit, Messages
  <2>2. IsFiniteSet(starts)
    BY <1>5, LayerAssumptions, FS_Subset
  <2> DEFINE f == [m \in starts |-> [kind |-> "pending", emit |-> e, channel |-> c, from |-> m]]
  <2>3. f \in Surjection(starts, msgs)
    BY <1>6 DEF Surjection
  <2>4. IsFiniteSet(msgs)
    BY <2>2, <2>3, FS_Surjection
  <2> QED
    BY <1>6, <2>1, <2>4
<1>8. /\ sent \in [Layers -> Seq(Fit)]
      /\ \A k \in Layers : \A i \in 1..Len(inbox[k]) :
           i \in 1..Len(sent[k]) /\ sent[k][i] = inbox[k][i]
  <2> DEFINE M == Fit
  <2>1. M \in SUBSET Messages /\ msgs \in SUBSET M /\ \A k \in Layers : inbox[k] \in Seq(M)
    BY <1>2, <1>7 DEF Fit
  <2> HIDE DEF M, msgs
  <2>2. /\ Published(l, msgs) \in [Layers -> Seq(M)]
        /\ \A k \in Layers : \A i \in 1..Len(inbox[k]) :
             i \in 1..Len(Published(l, msgs)[k]) /\ Published(l, msgs)[k][i] = inbox[k][i]
    BY <1>2, <1>7, <2>1, Publishing
  <2> QED
    BY <2>2 DEF M
<1>9. \A x : \A k \in Layers : Contains(inbox[k], x) => Contains(sent[k], x)
  <2> SUFFICES ASSUME NEW x, NEW k \in Layers, Contains(inbox[k], x) PROVE Contains(sent[k], x)
    OBVIOUS
  <2>1. \A i \in 1..Len(inbox[k]) :
          i \in 1..Len(Published(l, msgs)[k]) /\ Published(l, msgs)[k][i] = inbox[k][i]
    BY <1>8
  <2> HIDE DEF msgs
  <2>2. Contains(Published(l, msgs)[k], x)
    BY <2>1, PublishingKeeps
  <2> QED
    BY <2>2
<1> HIDE DEF msgs, sent
<1>10. sent[l] # << >> /\ Head(sent[l]) = Head(inbox[l]) /\ Tail(sent[l]) \in Seq(Fit)
  BY <1>1, <1>2, <1>8, TailOfPublished
<1>11. inbox' \in [Layers -> Seq(Fit)] /\ Fit' = Fit
  BY <1>1, <1>8, <1>10 DEF Fit
<1>12. MessagesFit'
  BY <1>11 DEF MessagesFit
<1>13. TypeOK'
  <2>1. Fit \subseteq Messages
    BY DEF Fit
  <2>4. inbox' \in [Layers -> Seq(Messages)]
    BY <1>11, <2>1
  <2>2. working' \in [Emitters -> Emits \cup {NoEmit}]
    BY <1>1, <1>4 DEF IInv, TypeOK
  <2>3. running' \subseteq Emitters \X Emits \X Channels /\ called' \subseteq Emits \X Emitters
    BY <1>1, <1>4, <1>5 DEF IInv, TypeOK
  <2> QED
    BY <1>1, <2>2, <2>3, <2>4 DEF IInv, TypeOK
<1>14. HandledAreSent'
  BY <1>1, <1>4, <1>5 DEF IInv, HandledAreSent
<1>15. EventsStayOnTheirChannels'
  BY <1>1, <1>4, <1>5 DEF IInv, EventsStayOnTheirChannels
<1>16. AttachedAreSubscribed'
  BY <1>1 DEF IInv, AttachedAreSubscribed
<1>17. StayersHear'
  <2> SUFFICES ASSUME NEW f \in Emits, NEW k \in Emitters, NEW d \in Channels, <<f, k, d>> \in stayed
               PROVE  /\ phase[k] = "up" /\ <<k, d>> \in attached /\ <<k, d>> \in subscribed
                      /\ Travelling(f, d, k)' \/ <<f, k>> \in called'
    BY <1>1 DEF StayersHear
  <2> DEFINE x == [kind |-> "event", emit |-> f, channel |-> d]
             kk == LayerOf[k]
  <2>1. /\ phase[k] = "up" /\ <<k, d>> \in attached /\ <<k, d>> \in subscribed
        /\ Contains(inbox[kk], x) \/ <<f, k>> \in called
    BY DEF IInv, StayersHear, Travelling
  <2>2. kk \in Layers
    BY LayerAssumptions
  <2>3. CASE <<f, k>> \in called
    BY <1>1, <2>1, <2>3
  <2>4. CASE kk = l /\ f = e /\ d = c
    <3>1. k \in Hears(l, c)
      BY <2>1, <2>4 DEF Hears, On
    <3>2. CASE working[k] = e
      <4>1. e # NoEmit
        BY <1>4, LayerAssumptions
      <4>2. <<f, k>> \in called
        BY <2>4, <3>2, <4>1 DEF IInv, HandledAreSent
      <4> QED
        BY <1>1, <2>1, <4>2
    <3>3. CASE working[k] # e
      <4>1. k \in starts
        BY <2>1, <3>1, <3>3 DEF starts
      <4> QED
        BY <1>1, <2>1, <2>4, <4>1
    <3> QED
      BY <3>2, <3>3
  <2>5. CASE Contains(inbox[kk], x) /\ ~(kk = l /\ f = e /\ d = c)
    <3>1. Contains(sent[kk], x)
      BY <1>9, <2>2, <2>5
    <3>2. CASE kk # l
      <4>1. inbox'[kk] = sent[kk]
        BY <1>1, <1>8, <2>2, <3>2
      <4> QED
        BY <2>1, <3>1, <4>1 DEF Travelling
    <3>3. CASE kk = l
      <4>1. x # Head(sent[l])
        BY <1>4, <1>10, <2>5, <3>3
      <4>2. sent[l] \in Seq(Fit) /\ Contains(sent[l], x)
        BY <1>8, <3>1, <3>3
      <4> HIDE DEF x
      <4>3. Contains(Tail(sent[l]), x)
        BY <1>10, <4>1, <4>2, TailKeeps
      <4>4. inbox'[l] = Tail(sent[l])
        BY <1>1, <1>8
      <4>5. Contains(inbox'[kk], x)
        BY <3>3, <4>3, <4>4
      <4> QED
        BY <2>1, <4>5 DEF Travelling, x
    <3> QED
      BY <3>2, <3>3
  <2> QED
    BY <2>1, <2>3, <2>4, <2>5
<1> QED
  BY <1>12, <1>13, <1>14, <1>15, <1>16, <1>17 DEF IInv

LEMMA ReceiveAnswerKeeps == ASSUME IInv, NEW l \in Layers, ReceiveAnswer(l) PROVE IInv'
<1> DEFINE msg == Head(inbox[l])
<1>1. /\ inbox[l] # << >> /\ msg.kind # "event"
      /\ results' = (IF sender[msg.emit] \in Hears(l, msg.channel)
                       THEN [results EXCEPT ![msg.emit][msg.from] = msg.kind] ELSE results)
      /\ inbox' = [inbox EXCEPT ![l] = Tail(@)]
      /\ UNCHANGED <<options, phase, attached, subscribed, working, running, called,
                     sender, departures, stayed, silenced>>
  BY DEF ReceiveAnswer, layerVars, handlerVars
<1>2. inbox \in [Layers -> Seq(Messages)] /\ inbox \in [Layers -> Seq(Fit)]
  BY DEF IInv, TypeOK, MessagesFit
<1>3. msg \in Messages /\ Tail(inbox[l]) \in Seq(Messages) /\ Tail(inbox[l]) \in Seq(Fit)
  BY <1>1, <1>2
<1>4. msg.emit \in Emits /\ msg.from \in Emitters /\ msg.kind \in {"pending", "completed"}
  BY <1>1, <1>3 DEF Messages
<1>5. inbox' \in [Layers -> Seq(Messages)] /\ inbox' \in [Layers -> Seq(Fit)] /\ Fit' = Fit
  BY <1>1, <1>2, <1>3 DEF Fit
<1> HIDE DEF msg
<1>6. TypeOK'
  <2>1. results' \in [Emits -> [Emitters -> {"none", "pending", "completed"}]]
    BY <1>1, <1>4 DEF IInv, TypeOK
  <2> QED
    BY <1>1, <1>5, <2>1 DEF IInv, TypeOK
<1>7. MessagesFit'
  BY <1>5 DEF MessagesFit
<1>8. HandledAreSent' /\ EventsStayOnTheirChannels' /\ AttachedAreSubscribed'
  BY <1>1 DEF IInv, HandledAreSent, EventsStayOnTheirChannels, AttachedAreSubscribed
<1>9. StayersHear'
  <2> SUFFICES ASSUME NEW f \in Emits, NEW k \in Emitters, NEW d \in Channels, <<f, k, d>> \in stayed
               PROVE  /\ phase[k] = "up" /\ <<k, d>> \in attached /\ <<k, d>> \in subscribed
                      /\ Travelling(f, d, k)' \/ <<f, k>> \in called
    BY <1>1 DEF StayersHear
  <2> DEFINE x == [kind |-> "event", emit |-> f, channel |-> d]
  <2>1. /\ phase[k] = "up" /\ <<k, d>> \in attached /\ <<k, d>> \in subscribed
        /\ Contains(inbox[LayerOf[k]], x) \/ <<f, k>> \in called
    BY DEF IInv, StayersHear, Travelling
  <2>2. LayerOf[k] \in Layers /\ x.kind = "event"
    BY LayerAssumptions
  <2>3. CASE Contains(inbox[LayerOf[k]], x)
    <3>1. x # Head(inbox[l])
      BY <1>1, <2>2 DEF msg
    <3> HIDE DEF x
    <3>2. Contains(inbox'[LayerOf[k]], x)
      <4>1. CASE LayerOf[k] = l
        BY <1>1, <1>2, <2>3, <3>1, <4>1, TailKeeps
      <4>2. CASE LayerOf[k] # l
        BY <1>1, <1>2, <2>2, <2>3, <4>2
      <4> QED
        BY <4>1, <4>2
    <3> QED
      BY <2>1, <3>2 DEF Travelling, x
  <2> QED
    BY <2>1, <2>3
<1> QED
  BY <1>6, <1>7, <1>8, <1>9 DEF IInv

LEMMA CompleteKeeps ==
  ASSUME IInv, NEW m \in Emitters, NEW e \in Emits, NEW c \in Channels, Complete(m, e, c)
  PROVE  IInv'
<1> DEFINE l == LayerOf[m]
           msgs == Answer("completed", m, e, c)
<1>1. /\ <<m, e, c>> \in running
      /\ running' = running \ {<<m, e, c>>}
      /\ working' = [working EXCEPT ![m] = NoEmit]
      /\ inbox' = Published(l, msgs)
      /\ UNCHANGED <<options, phase, attached, subscribed, called, sender, results,
                     departures, stayed, silenced>>
  BY DEF Complete, layerVars, senderVars
<1>2. inbox \in [Layers -> Seq(Messages)] /\ inbox \in [Layers -> Seq(Fit)]
  BY DEF IInv, TypeOK, MessagesFit
<1>3. l \in Layers /\ sender[e] # None /\ c \in options[sender[e]]
  BY <1>1, LayerAssumptions DEF IInv, HandledAreSent, EventsStayOnTheirChannels
<1> DEFINE answer == [kind |-> "completed", emit |-> e, channel |-> c, from |-> m]
<1>4. msgs = {answer}
  <2>1. ASSUME NEW x \in msgs PROVE x = answer
    BY DEF Answer
  <2>2. answer \in msgs
    BY DEF Answer
  <2> QED
    BY <2>1, <2>2
<1>5. msgs \subseteq Fit /\ IsFiniteSet(msgs) /\ Fit \subseteq Messages
  <2>1. [kind |-> "completed", emit |-> e, channel |-> c, from |-> m] \in Messages
    BY DEF Messages
  <2>2. [kind |-> "completed", emit |-> e, channel |-> c, from |-> m] \in Fit
    BY <1>3, <2>1 DEF Fit
  <2>3. IsFiniteSet({answer})
    BY FS_Singleton
  <2> HIDE DEF msgs, answer
  <2>4. msgs \subseteq Fit /\ IsFiniteSet(msgs)
    BY <1>4, <2>2, <2>3 DEF answer
  <2> QED
    BY <2>4 DEF Fit
<1> HIDE DEF msgs, l
<1>6. /\ inbox' \in [Layers -> Seq(Fit)]
      /\ \A k \in Layers : \A i \in 1..Len(inbox[k]) :
           i \in 1..Len(Published(l, msgs)[k]) /\ Published(l, msgs)[k][i] = inbox[k][i]
  <2> DEFINE M == Fit
  <2>1. M \in SUBSET Messages /\ msgs \in SUBSET M /\ \A k \in Layers : inbox[k] \in Seq(M)
    BY <1>2, <1>5
  <2> HIDE DEF M
  <2>2. /\ Published(l, msgs) \in [Layers -> Seq(M)]
        /\ \A k \in Layers : \A i \in 1..Len(inbox[k]) :
             i \in 1..Len(Published(l, msgs)[k]) /\ Published(l, msgs)[k][i] = inbox[k][i]
    BY <1>2, <1>3, <1>5, <2>1, Publishing
  <2> QED
    BY <1>1, <2>2 DEF M
<1>7. \A x : \A k \in Layers : Contains(inbox[k], x) => Contains(inbox'[k], x)
  <2> SUFFICES ASSUME NEW x, NEW k \in Layers, Contains(inbox[k], x) PROVE Contains(inbox'[k], x)
    OBVIOUS
  <2>1. \A i \in 1..Len(inbox[k]) :
          i \in 1..Len(Published(l, msgs)[k]) /\ Published(l, msgs)[k][i] = inbox[k][i]
    BY <1>6
  <2>2. Contains(Published(l, msgs)[k], x)
    BY <1>3, <2>1, PublishingKeeps
  <2> QED
    BY <1>1, <2>2
<1>8. MessagesFit'
  BY <1>1, <1>6 DEF MessagesFit, Fit
<1>9. TypeOK'
  <2>1. inbox' \in [Layers -> Seq(Messages)]
    BY <1>5, <1>6
  <2> QED
    BY <1>1, <2>1 DEF IInv, TypeOK
<1>10. HandledAreSent' /\ EventsStayOnTheirChannels' /\ AttachedAreSubscribed'
  BY <1>1 DEF IInv, TypeOK, HandledAreSent, EventsStayOnTheirChannels, AttachedAreSubscribed
<1>11. StayersHear'
  BY <1>1, <1>7, LayerAssumptions DEF IInv, StayersHear, Travelling
<1> QED
  BY <1>8, <1>9, <1>10, <1>11 DEF IInv

-----------------------------------------------------------------------------
(* The theorems.                                                            *)

LEMMA InductiveStep == IInv /\ [Next]_vars => IInv'
<1> SUFFICES ASSUME IInv, [Next]_vars PROVE IInv'
  OBVIOUS
<1>1. ASSUME NEW m \in Emitters, Join(m) \/ Close(m) PROVE IInv'
  BY <1>1, JoinKeeps, CloseKeeps
<1>2. ASSUME NEW m \in Emitters, NEW c \in Channels, Subscribe(m, c) \/ Leave(m, c) PROVE IInv'
  BY <1>2, SubscribeKeeps, LeaveKeeps
<1>3. ASSUME NEW m \in Emitters, NEW e \in Emits, NEW channels \in SUBSET Channels,
             Emit(m, e, channels)
      PROVE  IInv'
  BY <1>3, EmitKeeps
<1>4. ASSUME NEW l \in Layers, ReceiveEvent(l) \/ ReceiveAnswer(l) PROVE IInv'
  BY <1>4, ReceiveEventKeeps, ReceiveAnswerKeeps
<1>5. ASSUME NEW m \in Emitters, NEW e \in Emits, NEW c \in Channels, Complete(m, e, c) PROVE IInv'
  BY <1>5, CompleteKeeps
<1>6. CASE UNCHANGED vars
  <2>1. UNCHANGED <<options, phase, attached, subscribed, inbox, working, running, called,
                    sender, results, departures, stayed, silenced>>
    BY <1>6 DEF vars, layerVars, handlerVars, senderVars
  <2>2. TypeOK'
    BY <2>1 DEF IInv, TypeOK
  <2>3. MessagesFit' /\ HandledAreSent'
    BY <2>1 DEF IInv, MessagesFit, Fit, HandledAreSent
  <2>4. EventsStayOnTheirChannels' /\ AttachedAreSubscribed' /\ StayersHear'
    BY <2>1 DEF IInv, EventsStayOnTheirChannels, AttachedAreSubscribed, StayersHear, Travelling
  <2> QED
    BY <2>2, <2>3, <2>4 DEF IInv
<1> QED
  BY <1>1, <1>2, <1>3, <1>4, <1>5, <1>6 DEF Next

LEMMA Invariance == Spec => []IInv
  BY InitIInv, InductiveStep, PTL DEF Spec

\* The types of the emitters and layers, and that a closed server left nothing of
\* its emitter on a layer without wildcards (server.ts 66-73).
THEOREM LayerTypeCorrect == Spec => []TypeOK
<1>1. IInv => TypeOK
  BY DEF IInv
<1> QED
  BY <1>1, Invariance, PTL

\* Whoever is on a channel when an event is emitted there, and stays, is called by
\* the time the event has arrived, for any emitters, layers and channels (index.ts
\* 771-772): a subscription never goes before the handlers that need it, a
\* message is never lost in an inbox, and the handler's own emit is never mistaken
\* for another.
THEOREM StayersCalled == Spec => []StayersAreCalled
<1>1. IInv => StayersAreCalled
  BY DEF IInv, StayersHear, StayersAreCalled
<1> QED
  BY <1>1, Invariance, PTL

\* An event never reaches an emitter that shares no channel with the sender, and
\* its results go back over a channel of both (index.ts 891-893).
THEOREM OnTheirChannels == Spec => []EventsStayOnTheirChannels
<1>1. IInv => EventsStayOnTheirChannels
  BY DEF IInv
<1> QED
  BY <1>1, Invariance, PTL

\* What close leaves of the emitters of its layer.
SilencedAreOff ==
  \A m \in silenced : phase[m] # "none" /\ \A c \in Channels : <<m, c>> \notin attached

LEMMA SilencedStayOff ==
  ASSUME IInv, SilencedAreOff, [Next]_vars
  PROVE  SilencedAreOff'
<1>1. ASSUME NEW m \in Emitters, Join(m) PROVE SilencedAreOff'
  <2>1. m \notin silenced
    BY <1>1 DEF SilencedAreOff, Join
  <2> QED
    BY <1>1, <2>1 DEF SilencedAreOff, Join, IInv, TypeOK
<1>2. ASSUME NEW m \in Emitters, NEW c \in Channels, Subscribe(m, c) PROVE SilencedAreOff'
  BY <1>2 DEF SilencedAreOff, Subscribe, IInv, TypeOK
<1>3. ASSUME NEW m \in Emitters, NEW c \in Channels, Leave(m, c) PROVE SilencedAreOff'
  BY <1>3 DEF SilencedAreOff, Leave, Detach
<1>4. ASSUME NEW m \in Emitters, Close(m) PROVE SilencedAreOff'
  <2>1. /\ phase[m] = "up" /\ phase' = [phase EXCEPT ![m] = "closed"]
        /\ attached' = attached \ DetachedByClose(m)
        /\ silenced' = IF Wildcards THEN silenced
                       ELSE silenced \cup {k \in On(LayerOf[m]) : phase[k] # "none"}
    BY <1>4 DEF Close, Detach
  <2>2. ASSUME NEW k \in silenced', NEW c \in Channels
        PROVE  phase[k] # "none" /\ <<k, c>> \notin attached'
    <3>1. CASE k \in silenced
      BY <2>1, <3>1 DEF SilencedAreOff
    <3>2. CASE k \notin silenced
      <4>1. ~Wildcards /\ LayerOf[k] = LayerOf[m] /\ phase[k] # "none"
        BY <2>1, <2>2, <3>2 DEF On
      <4> QED
        BY <2>1, <4>1 DEF DetachedByClose
    <3> QED
      BY <3>1, <3>2
  <2>3. \A k \in silenced' : phase[k] # "none"
    BY <2>1 DEF SilencedAreOff
  <2>4. \A k \in silenced' : phase'[k] # "none"
    BY <2>1, <2>3 DEF IInv, TypeOK
  <2> QED
    BY <2>2, <2>4 DEF SilencedAreOff
<1>5. CASE UNCHANGED <<phase, attached, silenced>>
  BY <1>5 DEF SilencedAreOff
<1> QED
  BY <1>1, <1>2, <1>3, <1>4, <1>5
  DEF Next, Emit, ReceiveEvent, ReceiveAnswer, Complete, vars, layerVars

LEMMA ClosedStayOff == Spec => [](IInv /\ SilencedAreOff)
<1>1. Init => SilencedAreOff
  BY DEF Init, SilencedAreOff
<1> QED
  BY <1>1, SilencedStayOff, Invariance, PTL DEF Spec

\* Who was on a layer without wildcards when a server closed it hears nothing from
\* then on, neither events nor answers, for any emitters, layers, channels and
\* closes (server.ts 66-73): close takes every listener of the layer off, and no
\* emitter listens a second time.
THEOREM QuietAfterClose == Spec => ClosedLayersStayQuiet
<1> DEFINE Quiet == \A e \in Emits, m \in silenced :
                      /\ <<e, m>> \in called' => <<e, m>> \in called
                      /\ sender[e] = m => results'[e] = results[e]
<1>1. IInv /\ SilencedAreOff /\ [Next]_vars => [Quiet]_vars
  <2> SUFFICES ASSUME IInv, SilencedAreOff, Next, NEW e \in Emits, NEW m \in silenced
               PROVE  /\ <<e, m>> \in called' => <<e, m>> \in called
                      /\ sender[e] = m => results'[e] = results[e]
    BY Zenon
  <2>1. \A l \in Layers : inbox[l] # << >> =>
          Head(inbox[l]) \in Messages /\ Head(inbox[l]).channel \in Channels
                                     /\ Head(inbox[l]).emit \in Emits
    BY DEF IInv, TypeOK, Messages
  <2>2. \A l \in Layers : inbox[l] # << >> => m \notin Hears(l, Head(inbox[l]).channel)
    BY <2>1 DEF SilencedAreOff, Hears
  <2>3. ASSUME NEW l \in Layers, ReceiveEvent(l)
        PROVE  (<<e, m>> \in called' => <<e, m>> \in called) /\ results' = results
    BY <2>2, <2>3 DEF ReceiveEvent, senderVars
  <2>4. ASSUME NEW l \in Layers, ReceiveAnswer(l)
        PROVE  called' = called /\ (sender[e] = m => results'[e] = results[e])
    <3> DEFINE msg == Head(inbox[l])
    <3>1. /\ called' = called
          /\ results' = IF sender[msg.emit] \in Hears(l, msg.channel)
                          THEN [results EXCEPT ![msg.emit][msg.from] = msg.kind] ELSE results
      BY <2>4 DEF ReceiveAnswer, handlerVars
    <3>2. m \notin Hears(l, msg.channel)
      BY <2>2, <2>4 DEF ReceiveAnswer
    <3> HIDE DEF msg
    <3>3. sender[e] = m /\ sender[msg.emit] \in Hears(l, msg.channel) => e # msg.emit
      BY <3>2
    <3>4. results \in [Emits -> [Emitters -> {"none", "pending", "completed"}]]
      BY DEF IInv, TypeOK
    <3> QED
      BY <3>1, <3>3, <3>4
  <2>5. CASE UNCHANGED <<called, results>>
    BY <2>5
  <2> QED
    BY <2>3, <2>4, <2>5 DEF Next, Join, Close, Subscribe, Leave, Emit, Complete, handlerVars, senderVars
<1> QED
  BY <1>1, ClosedStayOff, PTL DEF Spec, ClosedLayersStayQuiet

=============================================================================
