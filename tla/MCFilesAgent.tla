---------------------------- MODULE MCFilesAgent ----------------------------
(* Model values and symmetry for checking FilesAgent: all requests on one
   server. *)
EXTENDS FilesAgent, TLC

CONSTANT s1

MCServer == [r \in Request |-> s1]
Symmetry == Permutations(Code) \cup Permutations(Exchange) \cup Permutations(Wipe)

=============================================================================
