---------------------------- MODULE MCEmitResults ----------------------------
(* An event reaches nobody, both handlers once, or one of them twice.       *)
EXTENDS EmitResults, TLC

CONSTANTS h1, h2

FewCopies == {h1 :> 0 @@ h2 :> 0, h1 :> 1 @@ h2 :> 1, h1 :> 2 @@ h2 :> 0}
=============================================================================
