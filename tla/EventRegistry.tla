---------------------------- MODULE EventRegistry ----------------------------
(***************************************************************************)
(* The listener registry of EventEmitter (packages/events): #groupByKeys,   *)
(* #groups and the listeners held by the underlying emitter, and the calls  *)
(* that change them.  addEventListener and unsubscribe each await once in   *)
(* the middle and unsubscribeAll awaits once per group, so each of them is  *)
(* a "begin" and a "finish" action; everything between two awaits is one    *)
(* step of the event loop.  A group id is what the emitter listens to; a    *)
(* key is what the user names.                                             *)
(***************************************************************************)
EXTENDS EventKeys, FiniteSets

CONSTANTS
  ListenKeys,  \* keys the user adds listeners under
  Handlers,    \* handler ids, one for each addEventListener call
  Groups,      \* group ids (fresh uuids)
  NoGroup, NoKey, NoEmit,
  Wildcards,   \* the options.wildcards.use of the emitter
  Overlap      \* which two kinds of call on one key may be in flight together

Kinds == {"add", "unsubscribe", "unsubscribeAll"}

ASSUME ListenKeysArePlain == \A k \in ListenKeys : k \in Seq(Segments) /\ Plain(k)
ASSUME WildcardsIsBoolean == Wildcards \in BOOLEAN
ASSUME NothingsAreNothing == NoGroup \notin Groups /\ NoKey \notin ListenKeys
ASSUME OverlapIsPairs == Overlap \subseteq {{a, b} : a \in Kinds, b \in Kinds}

Expand(key) == IF Wildcards THEN ExpandKey(key) ELSE {key}
Keys == UNION {Expand(k) : k \in ListenKeys}

VARIABLES
  groupByKeys,       \* #groupByKeys; {} for a key that is absent
  groups,            \* the ids present in #groups
  keysOf, listeners, \* #groups[id].keys and the handlers of #groups[id].listeners
  emitterListeners,  \* what the emitter itself calls for a group id
  phase, key, gid,   \* where each handler's calls stand, its key and its group
  isLast,            \* isLastListenerFromGroup, read before unsubscribe awaits
  pendingDeletes,    \* unsubscribeAll calls about to delete #groups[id]
  wanted,            \* history: handlers added and neither unsubscribed nor cleared
  called             \* the handlers the last emit called

callVars == <<phase, key, gid, isLast>>
vars == <<groupByKeys, groups, keysOf, listeners, emitterListeners, callVars,
          pendingDeletes, wanted, called>>

Phases == {"none", "wrapping", "subscribed", "removing", "removed", "failed"}

TypeOK ==
  /\ groupByKeys \in [Keys -> SUBSET Groups]
  /\ groups \in SUBSET Groups
  /\ keysOf \in [Groups -> SUBSET Keys]
  /\ listeners \in [Groups -> SUBSET Handlers]
  /\ emitterListeners \in [Groups -> SUBSET Handlers]
  /\ phase \in [Handlers -> Phases]
  /\ key \in [Handlers -> ListenKeys \cup {NoKey}]
  /\ gid \in [Handlers -> Groups \cup {NoGroup}]
  /\ isLast \in [Handlers -> BOOLEAN]
  /\ pendingDeletes \in [Groups -> Nat]
  /\ wanted \in SUBSET Handlers
  /\ called \in [key : Keys, to : SUBSET Handlers, ok : BOOLEAN] \cup {NoEmit}

Init ==
  /\ groupByKeys = [k \in Keys |-> {}]
  /\ groups = {}
  /\ keysOf = [g \in Groups |-> {}]
  /\ listeners = [g \in Groups |-> {}]
  /\ emitterListeners = [g \in Groups |-> {}]
  /\ phase = [h \in Handlers |-> "none"]
  /\ key = [h \in Handlers |-> NoKey]
  /\ gid = [h \in Handlers |-> NoGroup]
  /\ isLast = [h \in Handlers |-> FALSE]
  /\ pendingDeletes = [g \in Groups |-> 0]
  /\ wanted = {}
  /\ called = NoEmit

-----------------------------------------------------------------------------
\* Which calls the users of the emitter leave in flight on one key.  An empty
\* Overlap is a caller that awaits every call on a key before the next one.

Running(kind, k) ==
  \E h \in Handlers :
    /\ key[h] = k
    /\ \/ kind = "add" /\ phase[h] = "wrapping"
       \/ kind = "unsubscribe" /\ phase[h] = "removing"
       \/ kind = "unsubscribeAll" /\ pendingDeletes[gid[h]] > 0

MayStart(kind, k) ==
  \A other \in Kinds : Running(other, k) => {kind, other} \in Overlap

-----------------------------------------------------------------------------
Fresh(g) == \A h \in Handlers : gid[h] # g

\* The group is chosen here; nothing is filed before #wrap... has been awaited.
AddBegin(h, k) ==
  /\ phase[h] = "none" /\ MayStart("add", k)
  /\ phase' = [phase EXCEPT ![h] = "wrapping"]
  /\ key' = [key EXCEPT ![h] = k]
  /\ \E g \in Groups :
       /\ IF groupByKeys[k] # {} THEN g \in groupByKeys[k] ELSE Fresh(g)
       /\ gid' = [gid EXCEPT ![h] = g]
  /\ called' = NoEmit
  /\ UNCHANGED <<groupByKeys, groups, keysOf, listeners, emitterListeners,
                 isLast, pendingDeletes, wanted>>

FiledUnderAllButDeep(k, g) ==  \* mutant: the first key of the loop is forgotten
  [j \in Keys |-> IF j \in Expand(k) \ {<<Deep>>} THEN groupByKeys[j] \cup {g}
                                                  ELSE groupByKeys[j]]
FiledUnderKnownKeys(k, g) ==  \* mutant: a key that is absent is not created
  [j \in Keys |-> IF j \in Expand(k) /\ groupByKeys[j] # {} THEN groupByKeys[j] \cup {g}
                                                            ELSE groupByKeys[j]]

\* Files the group under its keys, the handler in the group, and hands the
\* callback to the emitter.
FiledUnder(k, g) ==
  IF Wildcards
    THEN [j \in Keys |-> IF j \in Expand(k) THEN groupByKeys[j] \cup {g}
                                            ELSE groupByKeys[j]]
    ELSE IF groupByKeys[k] = {} THEN [groupByKeys EXCEPT ![k] = {g}]
                                ELSE groupByKeys

AddFinish(h) ==
  LET g == gid[h] IN
  /\ phase[h] = "wrapping"
  /\ groupByKeys' = FiledUnder(key[h], g)
  /\ groups' = groups \cup {g}
  /\ keysOf' = [keysOf EXCEPT ![g] = IF g \in groups THEN @ ELSE Expand(key[h])]
  /\ listeners' = [listeners EXCEPT ![g] = @ \cup {h}]
  /\ emitterListeners' = [emitterListeners EXCEPT ![g] = @ \cup {h}]
  /\ phase' = [phase EXCEPT ![h] = "subscribed"]
  /\ wanted' = wanted \cup {h}
  /\ called' = NoEmit
  /\ UNCHANGED <<key, gid, isLast, pendingDeletes>>

-----------------------------------------------------------------------------
\* The returned unsubscribe function, up to its await of removeEventListener.
UnsubscribeBegin(h) ==
  LET g == gid[h] IN
  /\ phase[h] = "subscribed" /\ MayStart("unsubscribe", key[h])
  /\ \/ /\ g \in groups /\ h \in listeners[g]
        /\ emitterListeners' = [emitterListeners EXCEPT ![g] = @ \ {h}]
        /\ isLast' = [isLast EXCEPT ![h] = (listeners[g] = {h})]
        /\ phase' = [phase EXCEPT ![h] = "removing"]
     \/ /\ g \notin groups \/ h \notin listeners[g]
        /\ phase' = [phase EXCEPT ![h] = "removed"]
        /\ UNCHANGED <<emitterListeners, isLast>>
  /\ wanted' = wanted \ {h}
  /\ called' = NoEmit
  /\ UNCHANGED <<groupByKeys, groups, keysOf, listeners, key, gid,
                 pendingDeletes>>

DropGroupNotKeys(g) ==  \* mutant: the keys still name the group
  /\ groups' = groups \ {g}
  /\ keysOf' = [keysOf EXCEPT ![g] = {}]
  /\ listeners' = [listeners EXCEPT ![g] = {}]
  /\ UNCHANGED groupByKeys
DropKeysNotGroup(g) ==  \* mutant: the group stays in #groups
  /\ groupByKeys' = [k \in Keys |-> groupByKeys[k] \ {g}]
  /\ listeners' = [listeners EXCEPT ![g] = {}]
  /\ UNCHANGED <<groups, keysOf>>

\* #unsubscribeGroup, when each key of the group is still there.
DropGroup(g) ==
  /\ groupByKeys' = [k \in Keys |-> IF k \in keysOf[g] THEN groupByKeys[k] \ {g}
                                                       ELSE groupByKeys[k]]
  /\ groups' = groups \ {g}
  /\ keysOf' = [keysOf EXCEPT ![g] = {}]
  /\ listeners' = [listeners EXCEPT ![g] = {}]

\* The rest of unsubscribe.  It throws where it reads a group or a key that
\* went away during the await; a group is filed under all of its keys or none
\* (FiledUnderAllOrNone), so what the throw leaves undone is the whole removal.
UnsubscribeFinish(h) ==
  LET g == gid[h]
      keyGone == \E k \in keysOf[g] : groupByKeys[k] = {}
      lives == g \in groups /\ ~(isLast[h] /\ keyGone)
  IN
  /\ phase[h] = "removing"
  /\ \/ /\ lives /\ isLast[h]
        /\ DropGroup(g)
     \/ /\ g \in groups /\ (~isLast[h] \/ keyGone)
        /\ listeners' = [listeners EXCEPT ![g] = @ \ {h}]
        /\ UNCHANGED <<groupByKeys, groups, keysOf>>
     \/ /\ g \notin groups
        /\ UNCHANGED <<groupByKeys, groups, keysOf, listeners>>
  /\ phase' = [phase EXCEPT ![h] = IF lives THEN "removed" ELSE "failed"]
  /\ isLast' = [isLast EXCEPT ![h] = FALSE]
  /\ called' = NoEmit
  /\ UNCHANGED <<emitterListeners, key, gid, pendingDeletes, wanted>>

-----------------------------------------------------------------------------
\* unsubscribeAll on a set of keys, up to the await of the listener removals:
\* the groups leave the emitter and the keys at once, #groups only later.
Clear(ks) ==
  LET gs == groups \cap UNION {groupByKeys[k] : k \in ks} IN
  /\ gs # {}
  /\ \A lk \in ListenKeys : Expand(lk) \cap ks # {} => MayStart("unsubscribeAll", lk)
  /\ emitterListeners' = [g \in Groups |-> IF g \in gs
                                             THEN emitterListeners[g] \ listeners[g]
                                             ELSE emitterListeners[g]]
  /\ groupByKeys' = [k \in Keys |-> groupByKeys[k] \ {g \in gs : k \in keysOf[g]}]
  /\ pendingDeletes' = [g \in Groups |-> pendingDeletes[g] + (IF g \in gs THEN 1 ELSE 0)]
  /\ wanted' = {h \in wanted : Expand(key[h]) \cap ks = {}}
  /\ called' = NoEmit
  /\ UNCHANGED <<groups, keysOf, listeners, callVars>>

UnsubscribeAllOfKey(k) == Clear({k})
UnsubscribeAll == Clear(IF Wildcards THEN {<<Deep>>} \cap Keys ELSE Keys)

\* ... and the deletion of one of its groups, once its removals have settled.
UnsubscribeAllFinish(g) ==
  /\ pendingDeletes[g] > 0
  /\ pendingDeletes' = [pendingDeletes EXCEPT ![g] = @ - 1]
  /\ groups' = groups \ {g}
  /\ keysOf' = [keysOf EXCEPT ![g] = {}]
  /\ listeners' = [listeners EXCEPT ![g] = {}]
  /\ called' = NoEmit
  /\ UNCHANGED <<groupByKeys, emitterListeners, callVars, wanted>>

-----------------------------------------------------------------------------
\* emitEventToEmitter for an event nobody is working on yet: the loop over the
\* groups of the key throws at the first one that #groups no longer has, after
\* it may have served some of the others.
Served(gs) == UNION {emitterListeners[g] : g \in {x \in gs : listeners[x] # {}}}

Emit(k) ==
  /\ \E gs \in SUBSET (groupByKeys[k] \cap groups) :
       /\ groupByKeys[k] \subseteq groups => gs = groupByKeys[k]
       /\ called' = [key |-> k, to |-> Served(gs), ok |-> groupByKeys[k] \subseteq groups]
  /\ UNCHANGED <<groupByKeys, groups, keysOf, listeners, emitterListeners,
                 callVars, pendingDeletes, wanted>>

Next ==
  \/ \E h \in Handlers, k \in ListenKeys : AddBegin(h, k)
  \/ \E h \in Handlers : AddFinish(h)
  \/ \E h \in Handlers : UnsubscribeBegin(h)
  \/ \E h \in Handlers : UnsubscribeFinish(h)
  \/ \E k \in Keys : UnsubscribeAllOfKey(k)
  \/ UnsubscribeAll
  \/ \E g \in Groups : UnsubscribeAllFinish(g)
  \/ \E k \in Keys : Emit(k)

Spec == Init /\ [][Next]_vars

-----------------------------------------------------------------------------
\* An emit calls every listener that was added under a key the emitted one
\* denotes and is still wanted, calls no other, and does not throw
\* (events/index.ts 703-726 against 462-514).
EmitCallsExactlyTheWanted ==
  called # NoEmit =>
    /\ called.ok
    /\ called.to = {h \in wanted : \/ called.key = key[h]
                                   \/ Wildcards /\ Denotes(called.key, key[h])}

\* "When this key is emitted [...] the listener (function) will be called."
\* (events/index.ts 448-449, of addEventListener).
ListenersAreCalled ==
  called # NoEmit =>
    {h \in wanted : called.key \in Expand(key[h])} \subseteq called.to

\* A group is filed under all the keys it has in #groups or under none of them:
\* the loops that file and unfile it never leave it half filed, whatever calls
\* overlap (events/index.ts 304-357, 591-595, 630-637).
FiledUnderAllOrNone ==
  \A g \in groups : \/ \A k \in keysOf[g] : g \in groupByKeys[k]
                    \/ \A k \in Keys : g \notin groupByKeys[k]

\* Unsubscribing never throws (events/index.ts 662-681).
UnsubscribeNeverThrows == \A h \in Handlers : phase[h] # "failed"

\* The registry implements the subscriptions its users see.
Promised == INSTANCE Subscriptions WITH
  status <- [h \in Handlers |-> IF phase[h] \in {"none", "wrapping"} THEN "new"
                                ELSE IF h \in wanted THEN "on" ELSE "off"],
  topic <- [h \in Handlers |-> IF phase[h] \in {"none", "wrapping"} THEN NoKey
                                                                  ELSE key[h]]

\* Each step of the registry, the awaits and the group bookkeeping included, is
\* one step of the abstract subscriptions or invisible to them.
ImplementsSubscriptions == Promised!Spec

Quiet == /\ \A h \in Handlers : phase[h] \notin {"wrapping", "removing"}
         /\ \A g \in Groups : pendingDeletes[g] = 0

\* Once every call has returned nothing is left behind: a group exists only
\* for the listeners it holds, and the emitter holds the same listeners.
NothingLeftBehind ==
  Quiet => \A g \in Groups :
             /\ emitterListeners[g] = {h \in wanted : gid[h] = g}
             /\ listeners[g] = emitterListeners[g]
             /\ g \in groups <=> listeners[g] # {}
             /\ \A k \in Keys : g \in groupByKeys[k] => g \in groups
-----------------------------------------------------------------------------
\* The overlaps of calls that lose nothing: an add may overlap no removal on
\* its key, and another add only when wildcards are on.  The inductive
\* invariant of the registry under them, one part per way it could go wrong.
SafeOverlap ==
  /\ {"add", "unsubscribe"} \notin Overlap
  /\ {"add", "unsubscribeAll"} \notin Overlap
  /\ {"add"} \in Overlap => Wildcards

CallsHaveGroups ==
  \A h \in Handlers : IF phase[h] = "none" THEN gid[h] = NoGroup /\ key[h] = NoKey
                                            ELSE gid[h] \in Groups /\ key[h] \in ListenKeys

GroupsServeOneKey ==
  \A h1, h2 \in Handlers :
    gid[h1] = gid[h2] /\ gid[h1] # NoGroup => key[h1] = key[h2]

GroupsHaveCalls ==
  \A g \in Groups : /\ g \in groups \/ pendingDeletes[g] > 0 => ~Fresh(g)
                    /\ g \notin groups => listeners[g] = {} /\ keysOf[g] = {}

GroupsKeepTheirKeys ==
  \A h \in Handlers : gid[h] \in groups => keysOf[gid[h]] = Expand(key[h])

FiledGroupsLive ==
  \A k \in Keys : \A g \in groupByKeys[k] :
    g \in groups /\ k \in keysOf[g] /\ pendingDeletes[g] = 0

LiveGroupsFiled ==
  \A g \in groups : pendingDeletes[g] = 0 => \A k \in keysOf[g] : g \in groupByKeys[k]

ListenersBelong ==
  \A g \in Groups : \A h \in listeners[g] :
    gid[h] = g /\ phase[h] \in {"subscribed", "removing"}

EmitterHoldsTheWanted ==
  \A g \in Groups : emitterListeners[g] = {h \in wanted : gid[h] = g}

WantedAreListed ==
  \A h \in wanted :
    /\ phase[h] = "subscribed" /\ gid[h] \in groups
    /\ h \in listeners[gid[h]] /\ pendingDeletes[gid[h]] = 0

AddsExcludeRemovals ==
  \A h1, h2 \in Handlers :
    phase[h1] = "wrapping" /\ key[h2] = key[h1]
      => phase[h2] # "removing" /\ pendingDeletes[gid[h2]] = 0

ChosenGroupsFit ==
  \A h1 \in Handlers :
    phase[h1] = "wrapping" /\ gid[h1] \notin groups =>
      /\ \A h2 \in Handlers : gid[h2] = gid[h1] => h2 = h1
      /\ ~Wildcards => groupByKeys[key[h1]] = {}

PlainAddsAreAlone ==
  ~Wildcards => \A h1, h2 \in Handlers :
    phase[h1] = "wrapping" /\ phase[h2] = "wrapping" /\ key[h1] = key[h2] => h1 = h2

LastIsLast ==
  \A h \in Handlers :
    phase[h] = "removing" /\ isLast[h] /\ gid[h] \in groups => listeners[gid[h]] \subseteq {h}

EmitReachedTheWanted ==
  called # NoEmit => /\ called.ok
                     /\ called.to = {h \in wanted : called.key \in Expand(key[h])}

RegistryInv ==
  /\ CallsHaveGroups /\ GroupsServeOneKey /\ GroupsHaveCalls /\ GroupsKeepTheirKeys
  /\ FiledGroupsLive /\ LiveGroupsFiled /\ ListenersBelong /\ EmitterHoldsTheWanted
  /\ WantedAreListed /\ AddsExcludeRemovals /\ ChosenGroupsFit /\ PlainAddsAreAlone
  /\ LastIsLast /\ EmitReachedTheWanted
=============================================================================
