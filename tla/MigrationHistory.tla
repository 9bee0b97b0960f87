--------------------------- MODULE MigrationHistory ---------------------------
(***************************************************************************)
(* What "migrate" of packages/databases promises about one database: the    *)
(* migration files take effect whole and in their order, and a file is      *)
(* recorded in palmares_migrations only after it has taken effect.          *)
(***************************************************************************)
EXTENDS Naturals, FiniteSets

CONSTANT NumFiles

VARIABLES inEffect, recorded   \* sets of file numbers
vars == <<inEffect, recorded>>

Init == inEffect = {} /\ recorded = {}

TakeEffect(f) ==
  /\ inEffect = 1..(f - 1)
  /\ inEffect' = 1..f
  /\ UNCHANGED recorded

Record(f) ==
  /\ f \in inEffect
  /\ recorded' = recorded \cup {f}
  /\ UNCHANGED inEffect

Next == \E f \in 1..NumFiles : TakeEffect(f) \/ Record(f)

Spec == Init /\ [][Next]_vars
=============================================================================
