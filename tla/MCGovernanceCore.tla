---------------------------- MODULE MCGovernanceCore ----------------------------
(* A small instance of GovernanceCore for TLC: the fields and states of    *)
(* the fast recovery path.                                                 *)
EXTENDS GovernanceCore

FastFields == {"failure_event_id", "replay_complete", "root_cause_identified",
               "repair_complete", "system_health_ok"}
FastTargets == {"DRAFT", "RESUME"}
=============================================================================
