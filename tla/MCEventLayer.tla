----------------------------- MODULE MCEventLayer -----------------------------
(* Two processes: users and orders share a layer, mail has its own.      *)
EXTENDS EventLayer

CONSTANTS users, orders, mail, l1, l2, c1, c2

TwoProcesses == users :> l1 @@ orders :> l1 @@ mail :> l2

FewOptions ==
  {users :> {c1} @@ orders :> {c1} @@ mail :> {c1, c2},
   users :> {c1, c2} @@ orders :> {c1} @@ mail :> {c2}}
=============================================================================
