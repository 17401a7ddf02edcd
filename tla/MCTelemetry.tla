---------------------------- MODULE MCTelemetry ----------------------------
(***************************************************************************)
(* An instance of Telemetry for TLC: one repository of one project, one    *)
(* recent commit, one hook event and one push.  The device traces another  *)
(* repository of the project or does not; where it does, the owner leaves  *)
(* the project's controls alone.                                           *)
(***************************************************************************)
EXTENDS Telemetry, TLC

CONSTANTS k1

MCKeyOf == [c \in Candidate |-> k1]

MCInit == TelemetryInit /\ used = (IF siblings = {} THEN 0 ELSE MaxControl)
MCSpec == MCInit /\ [][TelemetryNext]_all /\ TelemetryFairness

=============================================================================
