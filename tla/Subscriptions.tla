---------------------------- MODULE Subscriptions ----------------------------
(***************************************************************************)
(* What the registry of packages/events promises its users: a listener is   *)
(* on from the moment its addEventListener files it to the moment it is     *)
(* unsubscribed, or all listeners of a key that denotes its own are; an     *)
(* emit calls the listeners that are on and that the emitted key denotes,   *)
(* all of them and no other.  There are no groups and no awaits here.       *)
(***************************************************************************)
EXTENDS EventKeys

CONSTANTS ListenKeys, Handlers, NoKey, NoEmit, Wildcards

VARIABLES
  status,  \* "new", "on" or "off"
  topic,   \* the key a handler was added under
  called   \* what the last emit called

vars == <<status, topic, called>>

Reaches(k, h) ==
  /\ topic[h] # NoKey
  /\ \/ k = topic[h]
     \/ Wildcards /\ Denotes(k, topic[h])
On == {h \in Handlers : status[h] = "on"}

Init ==
  /\ status = [h \in Handlers |-> "new"]
  /\ topic = [h \in Handlers |-> NoKey]
  /\ called = NoEmit

Subscribe(h, k) ==
  /\ status[h] = "new"
  /\ status' = [status EXCEPT ![h] = "on"]
  /\ topic' = [topic EXCEPT ![h] = k]
  /\ called' = NoEmit

Unsubscribe(h) ==
  /\ status[h] = "on"
  /\ status' = [status EXCEPT ![h] = "off"]
  /\ called' = NoEmit
  /\ UNCHANGED topic

\* unsubscribeAll({ key }), or unsubscribeAll() when ks is every key.
UnsubscribeAll(ks) ==
  /\ status' = [h \in Handlers |->
                  IF status[h] = "on" /\ \E k \in ks : Reaches(k, h)
                    THEN "off" ELSE status[h]]
  /\ called' = NoEmit
  /\ UNCHANGED topic

Emit(k) ==
  /\ called' = [key |-> k, to |-> {h \in On : Reaches(k, h)}, ok |-> TRUE]
  /\ UNCHANGED <<status, topic>>

\* The emit is over.
Settle == called' = NoEmit /\ UNCHANGED <<status, topic>>

Patterns == UNION {ExpandKey(k) : k \in ListenKeys}

Next ==
  \/ \E h \in Handlers, k \in ListenKeys : Subscribe(h, k)
  \/ \E h \in Handlers : Unsubscribe(h)
  \/ \E k \in Patterns : UnsubscribeAll({k}) \/ Emit(k)
  \/ UnsubscribeAll(Patterns)
  \/ Settle

Spec == Init /\ [][Next]_vars
=============================================================================
