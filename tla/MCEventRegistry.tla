--------------------------- MODULE MCEventRegistry ---------------------------
EXTENDS EventRegistry, TLC

\* Two events of different depth: the only key they share is **.
MixedKeys == {<<"create", "users">>, <<"ping">>}
OneKey == {<<"ping">>}
TwoKeys == {<<"ping">>, <<"pong">>}

\* What the callers may leave in flight together on one key.
Awaited == {}
AddsTogether == {{"add"}}
AddsOrClears == {{"add"}, {"unsubscribeAll"}}
AllSafe == {{"add"}, {"unsubscribe"}, {"unsubscribeAll"}, {"unsubscribe", "unsubscribeAll"}}
AddAndUnsubscribe == {{"add", "unsubscribe"}}
AnyOverlap == {{a, b} : a \in Kinds, b \in Kinds}

Symmetry == Permutations(Handlers) \cup Permutations(Groups)
=============================================================================
