------------------------------- MODULE WorkState -------------------------------
(***************************************************************************)
(* The work state machine (src/kdexter/state_machine/work_state.py): the   *)
(* transition map, the guards on its edges, and transition_to().           *)
(*                                                                         *)
(* A WorkStateContext is a record: the state, the guard fields that are    *)
(* set (a field that is None, False or below its threshold is not), and    *)
(* the VALIDATING checks that passed.                                      *)
(***************************************************************************)
EXTENDS Naturals

CONSTANT NChecks            \* members of ValidatingCheck (10 in the code)

ASSUME ChecksAssumption == NChecks \in Nat \ {0}

ValidatingCheck == 1..NChecks

TransitionMap ==
    [DRAFT            |-> {"CLARIFYING", "CLOSED"},
     CLARIFYING       |-> {"SPEC_READY", "BLOCKED"},
     SPEC_READY       |-> {"PLANNING", "BLOCKED"},
     PLANNING         |-> {"VALIDATING", "BLOCKED", "FAILED"},
     VALIDATING       |-> {"RUNNING", "BLOCKED", "FAILED"},
     RUNNING          |-> {"EVALUATING", "FAILED", "ISOLATED"},
     EVALUATING       |-> {"APPROVAL_PENDING", "FAILED"},
     APPROVAL_PENDING |-> {"EXECUTING", "BLOCKED", "FAILED"},
     EXECUTING        |-> {"VERIFY", "FAILED", "ISOLATED"},
     VERIFY           |-> {"MONITOR", "FAILED", "BLOCKED"},
     MONITOR          |-> {"DRAFT", "FAILED"},
     FAILED           |-> {"REPLAY", "ISOLATED", "CLOSED"},
     REPLAY           |-> {"ROOT_CAUSE", "ISOLATED"},
     ROOT_CAUSE       |-> {"REDESIGN", "ISOLATED"},
     REDESIGN         |-> {"RULE_UPDATE", "RESUME", "BLOCKED"},
     RULE_UPDATE      |-> {"SANDBOX", "BLOCKED"},
     SANDBOX          |-> {"IMPROVEMENT", "BLOCKED"},
     IMPROVEMENT      |-> {"RESUME", "BLOCKED"},
     RESUME           |-> {"DRAFT"},
     BLOCKED          |-> {"DRAFT", "CLOSED"},
     ISOLATED         |-> {"REPLAY", "CLOSED"},
     CLOSED           |-> {}]

WorkStateEnum == DOMAIN TransitionMap

(* M-03..M-06 and M-18, which PLANNING establishes.                        *)
PlanningFields == {"risk_checked", "security_checked", "rollback_plan_ready",
                   "recovery_simulation_done", "research_complete"}

(* The fields the guards of the recovery path and of BLOCKED read.         *)
RecoveryFields == {"failure_event_id", "replay_complete", "root_cause_identified",
                   "redesign_approved", "repair_complete", "provenance_recorded",
                   "sandbox_passed", "improvement_approved", "system_health_ok",
                   "blocked_reason_resolved"}

Fields == {"intent", "spec_twin_id", "approval_granted", "completion_score"}
            \cup PlanningFields \cup RecoveryFields

(* _TRANSITION_GUARDS: the fields an edge needs.                           *)
Guards(from, to) ==
    CASE <<from, to>> = <<"CLARIFYING", "SPEC_READY">>      -> {"intent"}
      [] <<from, to>> = <<"SPEC_READY", "PLANNING">>        -> {"spec_twin_id"}
      [] <<from, to>> = <<"PLANNING", "VALIDATING">>        -> PlanningFields
      [] <<from, to>> = <<"APPROVAL_PENDING", "EXECUTING">> -> {"approval_granted"}
      [] <<from, to>> = <<"VERIFY", "MONITOR">>             -> {"completion_score"}
      [] <<from, to>> = <<"FAILED", "REPLAY">>              -> {"failure_event_id"}
      [] <<from, to>> = <<"REPLAY", "ROOT_CAUSE">>          -> {"replay_complete"}
      [] <<from, to>> = <<"ROOT_CAUSE", "REDESIGN">>        -> {"root_cause_identified"}
      [] <<from, to>> = <<"REDESIGN", "RULE_UPDATE">>       -> {"redesign_approved"}
      [] <<from, to>> = <<"REDESIGN", "RESUME">>            -> {"repair_complete"}
      [] <<from, to>> = <<"RULE_UPDATE", "SANDBOX">>        -> {"provenance_recorded"}
      [] <<from, to>> = <<"SANDBOX", "IMPROVEMENT">>        -> {"sandbox_passed"}
      [] <<from, to>> = <<"IMPROVEMENT", "RESUME">>         -> {"improvement_approved"}
      [] <<from, to>> = <<"RESUME", "DRAFT">>               -> {"system_health_ok"}
      [] <<from, to>> = <<"BLOCKED", "DRAFT">>              -> {"blocked_reason_resolved"}
      [] <<from, to>> = <<"ISOLATED", "REPLAY">>            -> {"failure_event_id"}
      [] OTHER                                              -> {}

WorkStateContext == [state : WorkStateEnum, fields : SUBSET Fields,
                     passed : SUBSET ValidatingCheck]

(* A context fresh from DRAFT.                                             *)
FreshWork == [state |-> "DRAFT", fields |-> {}, passed |-> {}]

(* A slip the runs must catch: a caller passes skip_guards=True.           *)
MaySkippingGuards(w, s) == s \in TransitionMap[w.state]

(* transition_to() succeeds: the edge is in the map and its guards pass.   *)
May(w, s) ==
    /\ s \in TransitionMap[w.state]
    /\ Guards(w.state, s) \subseteq w.fields
    /\ w.state = "VALIDATING" /\ s = "RUNNING" => w.passed = ValidatingCheck

(* Its effect: DRAFT resets the cycle's fields.                            *)
Enter(w, s) == IF s = "DRAFT" THEN FreshWork ELSE [w EXCEPT !.state = s]

Setting(w, fs) == [w EXCEPT !.fields = @ \cup fs]
=============================================================================
