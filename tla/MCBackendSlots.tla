--------------------------- MODULE MCBackendSlots ---------------------------
(***************************************************************************)
(* Instances of BackendSlots for TLC.  Calls differ in nothing but their   *)
(* name.                                                                   *)
(***************************************************************************)
EXTENDS BackendSlots, TLC

Symmetry == Permutations(Call)

=============================================================================
