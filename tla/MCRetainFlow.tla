---------------------------- MODULE MCRetainFlow ----------------------------
(* Instances of the retain data flow: two programs of the same retain      *)
(* size, one of another size and one with nothing to retain.               *)
EXTENDS RetainFlow, TLC

CONSTANTS a, b, c, z

Sizes == (a :> 1 @@ b :> 1 @@ c :> 2 @@ z :> 0)
=============================================================================
