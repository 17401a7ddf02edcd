----------------------------- MODULE MCProjects -----------------------------
(* A client and an engineer, each with a form open, two projects and two
   requests at a time; or a project from before Git links, with no form open. *)
EXTENDS Projects, TLC

CONSTANTS c1, e1, g1, g2, plain, staffed, l1

Symmetry == Permutations(Project) \cup Permutations(Process)

MCOpenPages == {{g1}, {g2}}
MCLinkOf == [f \in Form |-> l1]
MCAuthorOf == g1 :> c1 @@ g2 :> e1
MCOwnerIn(a, f) == c1
MCEngineersIn(a, f) == IF a \in Engineer THEN {a} ELSE IF f = staffed THEN {e1} ELSE {}
=============================================================================
