---------------------------- MODULE PluginModels ----------------------------
(***************************************************************************)
(* The pure part of the system: the fixed-point functions, the curves and  *)
(* the models on lists.  The pallets call them at any time, with contexts  *)
(* from their configuration; none keeps a state, so that one call at a     *)
(* time is all there is.                                                   *)
(***************************************************************************)
EXTENDS Curves, Rankings

Init == call = NoCall

Next ==
    \/ FixedMathCall
    \/ ComputePayout \/ ComputeInfluence
    \/ ElectFlat \/ ElectFair \/ Distribute \/ Penalize
    \/ Return

Spec == Init /\ [][Next]_call

=============================================================================
