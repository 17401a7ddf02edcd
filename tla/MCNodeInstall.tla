--------------------------- MODULE MCNodeInstall ---------------------------
(***************************************************************************)
(* Instances of NodeInstall for TLC: people of one domain.                 *)
(***************************************************************************)
EXTENDS NodeInstall, TLC

CONSTANT d1

MCDomainOf == [e \in Email |-> d1]
Symmetry == Permutations(Email) \cup Permutations(Process) \cup Permutations(Token)
            \cup Permutations(Device) \cup Permutations(Machine)

=============================================================================
