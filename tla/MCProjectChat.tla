--------------------------- MODULE MCProjectChat ---------------------------
(* Model values and symmetry for checking ProjectChat. *)
EXTENDS ProjectChat, TLC

CONSTANTS clients, latest

MCPath == {clients, latest}
MCTwo == <<clients, latest>>

Symmetry == Permutations(Turn) \cup Permutations(Action) \cup Permutations(File)

=============================================================================
