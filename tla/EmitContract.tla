----------------------------- MODULE EmitContract -----------------------------
(***************************************************************************)
(* What emit and emitToChannel of packages/events promise their caller: the *)
(* returned promise resolves, once, to results of handlers that completed   *)
(* for that very event.  How the results travel, and which timeout ends the *)
(* wait, is left open.                                                     *)
(***************************************************************************)
CONSTANTS Emits, Handlers

VARIABLES
  promise,    \* "idle", "waiting" or "resolved"
  returned,   \* the handlers whose results the promise resolved to
  completed   \* the handlers that have completed for an event

vars == <<promise, returned, completed>>

Init ==
  /\ promise = [e \in Emits |-> "idle"]
  /\ returned = [e \in Emits |-> {}]
  /\ completed = [e \in Emits |-> {}]

Call(e) ==
  /\ promise[e] = "idle"
  /\ promise' = [promise EXCEPT ![e] = "waiting"]
  /\ UNCHANGED <<returned, completed>>

Complete(e, h) ==
  /\ promise[e] # "idle"
  /\ completed' = [completed EXCEPT ![e] = @ \cup {h}]
  /\ UNCHANGED <<promise, returned>>

Resolve(e) ==
  /\ promise[e] = "waiting"
  /\ promise' = [promise EXCEPT ![e] = "resolved"]
  /\ \E results \in SUBSET completed[e] : returned' = [returned EXCEPT ![e] = results]
  /\ UNCHANGED completed

Next == \E e \in Emits :
          \/ Call(e)
          \/ \E h \in Handlers : Complete(e, h)
          \/ Resolve(e)

Spec == Init /\ [][Next]_vars /\ \A e \in Emits : WF_vars(Resolve(e))
=============================================================================
