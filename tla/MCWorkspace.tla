---------------------------- MODULE MCWorkspace ----------------------------
(* A client with two texts and one engineer who asks to join or is invited;
   the project is open when the page is. *)
EXTENDS Workspace

MCInit == Init /\ status = "open"
MCSpec == MCInit /\ [][Next]_vars /\ Fairness
=============================================================================
