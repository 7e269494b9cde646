-------------------------- MODULE GovernanceCoreProofs --------------------------
(* Safety of the Main and Recovery loops, for any number of checks and     *)
(* whatever fields an operator fills in.                                   *)
EXTENDS GovernanceCore, TLAPS

------------------------------------------------------------------------------
(* The work state machine alone.                                           *)

(* Every guard between DRAFT and the state of w is met by w.               *)
AfterPlanning == {"VALIDATING", "RUNNING", "EVALUATING", "APPROVAL_PENDING",
                  "EXECUTING", "VERIFY", "MONITOR"}

Gated(w) ==
    /\ w.state \in {"SPEC_READY", "PLANNING"} \cup AfterPlanning
         => "intent" \in w.fields
    /\ w.state \in {"PLANNING"} \cup AfterPlanning => "spec_twin_id" \in w.fields
    /\ w.state \in AfterPlanning => PlanningFields \subseteq w.fields
    /\ w.state \in AfterPlanning \ {"VALIDATING"} => w.passed = ValidatingCheck
    /\ w.state \in {"REPLAY", "ROOT_CAUSE"} \cup Repaired
         => "failure_event_id" \in w.fields
    /\ w.state \in {"ROOT_CAUSE"} \cup Repaired => "replay_complete" \in w.fields
    /\ w.state \in Repaired => "root_cause_identified" \in w.fields
    /\ w.state \in {"RULE_UPDATE", "SANDBOX", "IMPROVEMENT"}
         => "redesign_approved" \in w.fields
    /\ w.state \in {"SANDBOX", "IMPROVEMENT"} => "provenance_recorded" \in w.fields
    /\ w.state = "IMPROVEMENT" => "sandbox_passed" \in w.fields
    /\ w.state = "RESUME"
         => \/ "repair_complete" \in w.fields
            \/ {"redesign_approved", "provenance_recorded", "sandbox_passed",
                "improvement_approved"} \subseteq w.fields

LEMMA EdgesInto ==
  ASSUME NEW f \in WorkStateEnum, NEW t, t \in TransitionMap[f]
  PROVE  /\ t \in WorkStateEnum
         /\ t = "CLARIFYING" => f = "DRAFT"
         /\ t = "SPEC_READY" => f = "CLARIFYING"
         /\ t = "PLANNING" => f = "SPEC_READY"
         /\ t = "VALIDATING" => f = "PLANNING"
         /\ t = "RUNNING" => f = "VALIDATING"
         /\ t = "EVALUATING" => f = "RUNNING"
         /\ t = "APPROVAL_PENDING" => f = "EVALUATING"
         /\ t = "EXECUTING" => f = "APPROVAL_PENDING"
         /\ t = "VERIFY" => f = "EXECUTING"
         /\ t = "MONITOR" => f = "VERIFY"
         /\ t = "FAILED" => f \in {"PLANNING"} \cup AfterPlanning
         /\ t = "BLOCKED" => f \in {"CLARIFYING", "SPEC_READY", "PLANNING", "VALIDATING",
                                    "APPROVAL_PENDING", "VERIFY", "REDESIGN",
                                    "RULE_UPDATE", "SANDBOX", "IMPROVEMENT"}
         /\ t = "ISOLATED" => f \in {"RUNNING", "EXECUTING", "FAILED", "REPLAY",
                                     "ROOT_CAUSE"}
         /\ t = "REPLAY" => f \in {"FAILED", "ISOLATED"}
         /\ t = "ROOT_CAUSE" => f = "REPLAY"
         /\ t = "REDESIGN" => f = "ROOT_CAUSE"
         /\ t = "RULE_UPDATE" => f = "REDESIGN"
         /\ t = "SANDBOX" => f = "RULE_UPDATE"
         /\ t = "IMPROVEMENT" => f = "SANDBOX"
         /\ t = "RESUME" => f \in {"REDESIGN", "IMPROVEMENT"}
         /\ t = "DRAFT" => f \in {"MONITOR", "RESUME", "BLOCKED"}
         /\ t = "CLOSED" => f \in {"DRAFT", "FAILED", "BLOCKED", "ISOLATED"}
  BY DEF TransitionMap, WorkStateEnum, AfterPlanning

LEMMA EnterWork ==
  ASSUME NEW w \in WorkStateContext, NEW s \in WorkStateEnum
  PROVE  /\ Enter(w, s) \in WorkStateContext
         /\ Enter(w, s).state = s
         /\ s # "DRAFT" => /\ Enter(w, s).fields = w.fields
                           /\ Enter(w, s).passed = w.passed
         /\ s = "DRAFT" => Enter(w, s) = FreshWork
  <1>1. "DRAFT" \in WorkStateEnum
    BY DEF WorkStateEnum, TransitionMap
  <1>. QED
    BY <1>1 DEF Enter, WorkStateContext, FreshWork

LEMMA SettingWork ==
  ASSUME NEW w \in WorkStateContext, NEW fs \in SUBSET Fields
  PROVE  /\ Setting(w, fs) \in WorkStateContext
         /\ Setting(w, fs).state = w.state
         /\ Setting(w, fs).fields = w.fields \cup fs
         /\ Setting(w, fs).passed = w.passed
  BY DEF Setting, WorkStateContext

LEMMA SettingGated ==
  ASSUME NEW w \in WorkStateContext, Gated(w), NEW fs \in SUBSET Fields
  PROVE  Gated(Setting(w, fs))
  BY SettingWork DEF Gated

(* The contract of transition_to(): whoever calls it, in whatever order,   *)
(* never takes a work item past a guard.                                   *)
LEMMA EnterGated ==
  ASSUME NEW w \in WorkStateContext, Gated(w), NEW s, May(w, s)
  PROVE  s \in WorkStateEnum /\ Gated(Enter(w, s))
  <1>1. w.state \in WorkStateEnum
    BY DEF WorkStateContext
  <1>2. /\ s \in TransitionMap[w.state]
        /\ Guards(w.state, s) \subseteq w.fields
        /\ w.state = "VALIDATING" /\ s = "RUNNING" => w.passed = ValidatingCheck
    BY DEF May
  <1>3. s \in WorkStateEnum
    BY <1>1, <1>2, EdgesInto
  <1>4. CASE s = "DRAFT"
    BY <1>3, <1>4, EnterWork DEF Gated, FreshWork, AfterPlanning, Repaired
  <1>5. CASE s # "DRAFT"
    <2>1. Enter(w, s).state = s /\ Enter(w, s).fields = w.fields /\ Enter(w, s).passed = w.passed
      BY <1>3, <1>5, EnterWork
    <2>2. s \in {"SPEC_READY", "PLANNING"} \cup AfterPlanning => "intent" \in w.fields
      BY <1>1, <1>2, EdgesInto DEF Gated, AfterPlanning, Guards
    <2>3. s \in {"PLANNING"} \cup AfterPlanning => "spec_twin_id" \in w.fields
      BY <1>1, <1>2, EdgesInto DEF Gated, AfterPlanning, Guards
    <2>4. s \in AfterPlanning => PlanningFields \subseteq w.fields
      BY <1>1, <1>2, EdgesInto DEF Gated, AfterPlanning, Guards
    <2>5. s \in AfterPlanning \ {"VALIDATING"} => w.passed = ValidatingCheck
      BY <1>1, <1>2, EdgesInto DEF Gated, AfterPlanning
    <2>6. s \in {"REPLAY", "ROOT_CAUSE"} \cup Repaired => "failure_event_id" \in w.fields
      BY <1>1, <1>2, EdgesInto DEF Gated, Repaired, Guards
    <2>7. s \in {"ROOT_CAUSE"} \cup Repaired => "replay_complete" \in w.fields
      BY <1>1, <1>2, EdgesInto DEF Gated, Repaired, Guards
    <2>8. s \in Repaired => "root_cause_identified" \in w.fields
      BY <1>1, <1>2, EdgesInto DEF Gated, Repaired, Guards
    <2>9. /\ s \in {"RULE_UPDATE", "SANDBOX", "IMPROVEMENT"} => "redesign_approved" \in w.fields
          /\ s \in {"SANDBOX", "IMPROVEMENT"} => "provenance_recorded" \in w.fields
          /\ s = "IMPROVEMENT" => "sandbox_passed" \in w.fields
      BY <1>1, <1>2, EdgesInto DEF Gated, Guards
    <2>10. s = "RESUME"
             => \/ "repair_complete" \in w.fields
                \/ {"redesign_approved", "provenance_recorded", "sandbox_passed",
                    "improvement_approved"} \subseteq w.fields
      BY <1>1, <1>2, EdgesInto DEF Gated, Guards
    <2>. QED
      BY <1>3, <2>1, <2>2, <2>3, <2>4, <2>5, <2>6, <2>7, <2>8, <2>9, <2>10, SMTT(30)
         DEF Gated
  <1>. QED
    BY <1>3, <1>4, <1>5

------------------------------------------------------------------------------
(* The inductive invariant.                                                *)

(* Where Recovery and the operator bring a work item.                      *)
Taken == {"ISOLATED", "REPLAY", "ROOT_CAUSE", "REDESIGN", "RULE_UPDATE", "SANDBOX",
          "IMPROVEMENT", "RESUME", "DRAFT", "CLOSED"}

(* What the hooks of the current cycle have answered at each await.        *)
CycleInv ==
    /\ main.at \in DOMAIN StateAwaiting => main.outcome = "none"
    /\ main.at = "check"
         => /\ work.state = "VALIDATING"
            /\ answers = [checks |-> 1..(main.next - 1), hooks |-> {}]
    /\ main.at = "execution"
         => /\ work.state \in {"RUNNING"} \cup Taken
            /\ answers = [checks |-> ValidatingCheck, hooks |-> {}]
    /\ main.at = "evaluation"
         => /\ work.state = "EVALUATING"
            /\ answers = [checks |-> ValidatingCheck, hooks |-> {"execution"}]
    /\ main.at = "approval"
         => /\ work.state = "APPROVAL_PENDING"
            /\ answers \in {[checks |-> ValidatingCheck, hooks |-> {"execution"}],
                            [checks |-> ValidatingCheck, hooks |-> {"execution", "score"}]}
            /\ "completion_score" \in work.fields => "score" \in answers.hooks

RecoveryInv ==
    /\ recovery.at = "replay" => work.state = "REPLAY"
    /\ recovery.at = "lock" => work.state = "ROOT_CAUSE"

IInv == TypeOK /\ Gated(work) /\ CycleInv /\ SuccessIsEarned /\ RecoveryInv

LEMMA HookPlaces == DOMAIN StateAwaiting = {"check", "execution", "evaluation", "approval"}
  BY DEF StateAwaiting

LEMMA States == /\ SecurityStateEnum = {"NORMAL", "RESTRICTED", "QUARANTINED", "LOCKDOWN"}
                /\ FailureSeverity = {"CRITICAL", "HIGH", "MEDIUM"}
                /\ {"DRAFT", "CLARIFYING", "SPEC_READY", "PLANNING", "VALIDATING", "RUNNING",
                    "EVALUATING", "APPROVAL_PENDING", "EXECUTING", "VERIFY", "MONITOR",
                    "FAILED", "REPLAY", "ROOT_CAUSE", "REDESIGN", "RESUME", "BLOCKED",
                    "ISOLATED"} \subseteq WorkStateEnum
  BY DEF SecurityStateEnum, Severity, FailureSeverity, Target, WorkStateEnum, TransitionMap

LEMMA AsleepMain ==
  ASSUME NEW outcome \in {"none", "SUCCESS", "BLOCKED", "FAILED", "CEILING"}
  PROVE  /\ Asleep(outcome) \in Main
         /\ Asleep(outcome).at = "sleep" /\ Asleep(outcome).outcome = outcome
  <1>1. 1 \in ValidatingCheck
    BY ChecksAssumption DEF ValidatingCheck
  <1>. QED
    BY <1>1 DEF Asleep, Main

LEMMA InitIInv == Init => IInv
  <1> SUFFICES ASSUME Init PROVE IInv
    OBVIOUS
  <1>1. work = FreshWork /\ FreshWork \in WorkStateContext
    BY States DEF Init, FreshWork, WorkStateContext
  <1>2. main \in Main /\ main.at = "sleep" /\ main.outcome = "none"
    BY AsleepMain DEF Init
  <1>3. TypeOK
    BY <1>1, <1>2, States DEF Init, TypeOK, Recovery, Answers, NoAnswers
  <1>4. Gated(work) /\ RecoveryInv
    BY <1>1 DEF Init, Gated, RecoveryInv, FreshWork, AfterPlanning, Repaired
  <1>5. CycleInv /\ SuccessIsEarned
    BY <1>2, HookPlaces DEF CycleInv, SuccessIsEarned
  <1>. QED
    BY <1>3, <1>4, <1>5 DEF IInv

------------------------------------------------------------------------------
(* The ways a Main Loop step ends.  w: the work item when it does.         *)

LEMMA EndCycleEffect ==
  ASSUME TypeOK, NEW w \in WorkStateContext, Gated(w),
         NEW s \in {"BLOCKED", "FAILED"}, NEW outcome \in {"BLOCKED", "FAILED"},
         EndCycle(w, s, outcome)
  PROVE  /\ work' \in WorkStateContext /\ Gated(work')
         /\ main' \in Main /\ evidenced' \in WorkStateEnum
         /\ main'.at = "sleep" /\ main'.outcome = outcome
         /\ w.state \in {"REPLAY", "ROOT_CAUSE"} => work' = w
  <1>1. w.state \in WorkStateEnum
    BY DEF WorkStateContext
  <1>2. work' \in WorkStateContext /\ Gated(work')
    <2>1. CASE May(w, s)
      BY <2>1, EnterGated, EnterWork DEF EndCycle
    <2>2. CASE ~May(w, s)
      BY <2>2 DEF EndCycle
    <2>. QED
      BY <2>1, <2>2
  <1>3. main' \in Main /\ main'.at = "sleep" /\ main'.outcome = outcome
    BY AsleepMain DEF EndCycle
  <1>4. evidenced' \in WorkStateEnum
    BY <1>1 DEF EndCycle, TypeOK
  <1>5. w.state \in {"REPLAY", "ROOT_CAUSE"} => ~May(w, s)
    BY <1>1, EdgesInto DEF May, AfterPlanning
  <1>. QED
    BY <1>2, <1>3, <1>4, <1>5 DEF EndCycle

LEMMA RefusedEffect ==
  ASSUME TypeOK, NEW w \in WorkStateContext, Gated(w), NEW s, Refused(w, s)
  PROVE  /\ work' \in WorkStateContext /\ Gated(work')
         /\ main' \in Main /\ evidenced' \in WorkStateEnum
         /\ main'.at = "sleep" /\ main'.outcome \in {"BLOCKED", "FAILED"}
         /\ w.state \in {"REPLAY", "ROOT_CAUSE"} => work' = w
  BY EndCycleEffect DEF Refused

(* A cycle that ends without success keeps the invariant, if Recovery does *)
(* not hold the work item.                                                 *)
LEMMA AbortedIInv ==
  ASSUME IInv, UNCHANGED others, answers' \in Answers,
         work' \in WorkStateContext, Gated(work'), main' \in Main,
         evidenced' \in WorkStateEnum,
         main'.at = "sleep", main'.outcome \in {"BLOCKED", "FAILED"},
         recovery.at \in {"replay", "lock"} => work'.state = work.state
  PROVE  IInv'
  <1>1. TypeOK'
    BY DEF IInv, TypeOK, others
  <1>2. CycleInv' /\ SuccessIsEarned'
    BY HookPlaces DEF CycleInv, SuccessIsEarned
  <1>3. RecoveryInv'
    BY DEF IInv, RecoveryInv, others
  <1>. QED
    BY <1>1, <1>2, <1>3 DEF IInv, Gated

LEMMA SuspendEffect ==
  ASSUME TypeOK, NEW w \in WorkStateContext, NEW place \in DOMAIN StateAwaiting,
         SuspendAt(w, place)
  PROVE  /\ work' = w /\ evidenced' \in WorkStateEnum
         /\ main' \in Main /\ main'.at = place
         /\ main'.outcome = main.outcome
  BY HookPlaces DEF SuspendAt, TypeOK, Main, WorkStateContext

------------------------------------------------------------------------------
(* The actions of the Main Loop.                                           *)

LEMMA PollSecurityIInv == IInv /\ (PollSecurity \/ CycleCeiling) => IInv'
  <1> SUFFICES ASSUME IInv, PollSecurity \/ CycleCeiling PROVE IInv'
    OBVIOUS
  <1>1. UNCHANGED <<work, security, recovery, ledgerHeld, evidenced, answers>>
    BY DEF PollSecurity, CycleCeiling, others
  <1>2. /\ main' \in Main /\ main'.at \in {"sleep", "factory"}
        /\ main'.outcome = "SUCCESS" => main.outcome = "SUCCESS"
    BY AsleepMain DEF PollSecurity, CycleCeiling, IInv, TypeOK, Main
  <1>3. TypeOK' /\ Gated(work')
    BY <1>1, <1>2 DEF IInv, TypeOK
  <1>4. CycleInv' /\ SuccessIsEarned' /\ RecoveryInv'
    BY <1>1, <1>2, HookPlaces DEF IInv, CycleInv, SuccessIsEarned, RecoveryInv
  <1>. QED
    BY <1>3, <1>4 DEF IInv, Gated

LEMMA BeginCycleIInv ==
  ASSUME IInv, NEW given \in SUBSET {"intent", "spec_twin_id"}, NEW auto \in BOOLEAN,
         BeginCycle(given, auto)
  PROVE  IInv'
  <1> DEFINE clarifying == Setting(Enter(work, "CLARIFYING"), given)
             ready      == Enter(clarifying, "SPEC_READY")
             planning   == Enter(ready, "PLANNING")
             checked    == Setting(planning, PlanningFields)
             validating == Enter(checked, "VALIDATING")
  <1>1. /\ answers' = NoAnswers /\ NoAnswers \in Answers /\ UNCHANGED others
        /\ TypeOK /\ work \in WorkStateContext /\ Gated(work)
    BY DEF BeginCycle, IInv, TypeOK, NoAnswers, Answers
  <1>2. given \in SUBSET Fields /\ PlanningFields \in SUBSET Fields
        /\ {"risk_checked"} \in SUBSET Fields
    BY DEF Fields, PlanningFields
  <1>3. ~May(work, "CLARIFYING") /\ Refused(work, "CLARIFYING") => IInv'
    BY <1>1, RefusedEffect, AbortedIInv DEF IInv, RecoveryInv
  <1>4. SUFFICES ASSUME May(work, "CLARIFYING") PROVE IInv'
    BY <1>3 DEF BeginCycle
  <1>5. work.state = "DRAFT" /\ recovery.at \notin {"replay", "lock"}
    <2>1. work.state = "DRAFT"
      BY <1>1, <1>4, EdgesInto DEF May, WorkStateContext
    <2>. QED
      BY <2>1 DEF IInv, RecoveryInv
  <1>6. clarifying \in WorkStateContext /\ Gated(clarifying)
        /\ clarifying.state = "CLARIFYING"
    BY <1>1, <1>2, <1>4, EnterGated, EnterWork, SettingWork, SettingGated
  <1>7. ~May(clarifying, "SPEC_READY") /\ Refused(clarifying, "SPEC_READY") => IInv'
    BY <1>1, <1>5, <1>6, RefusedEffect, AbortedIInv
  <1>8. SUFFICES ASSUME May(clarifying, "SPEC_READY") PROVE IInv'
    BY <1>4, <1>7 DEF BeginCycle
  <1>9. ready \in WorkStateContext /\ Gated(ready)
    BY <1>6, <1>8, EnterGated, EnterWork
  <1>10. ~May(ready, "PLANNING") /\ Refused(ready, "PLANNING") => IInv'
    BY <1>1, <1>5, <1>9, RefusedEffect, AbortedIInv
  <1>11. SUFFICES ASSUME May(ready, "PLANNING") PROVE IInv'
    BY <1>4, <1>8, <1>10 DEF BeginCycle
  <1>12. /\ planning \in WorkStateContext /\ Gated(planning)
         /\ planning.state = "PLANNING"
    BY <1>9, <1>11, EnterGated, EnterWork
  <1>13. CASE security = "LOCKDOWN"
    <2>1. EndCycle(Setting(planning, {"risk_checked"}), "FAILED", "FAILED")
      BY <1>4, <1>8, <1>11, <1>13 DEF BeginCycle
    <2>2. Setting(planning, {"risk_checked"}) \in WorkStateContext
          /\ Gated(Setting(planning, {"risk_checked"}))
      BY <1>2, <1>12, SettingWork, SettingGated
    <2>. QED
      BY <1>1, <1>5, <2>1, <2>2, EndCycleEffect, AbortedIInv
  <1>14. CASE security # "LOCKDOWN"
    <2>1. /\ work' = validating /\ evidenced' = "VALIDATING"
          /\ main' = [at |-> "check", next |-> 1, auto |-> auto, outcome |-> "none"]
      BY <1>4, <1>8, <1>11, <1>14 DEF BeginCycle
    <2>2. checked \in WorkStateContext /\ Gated(checked) /\ May(checked, "VALIDATING")
      <3>1. /\ checked \in WorkStateContext /\ Gated(checked)
            /\ checked.state = "PLANNING" /\ PlanningFields \subseteq checked.fields
        BY <1>2, <1>12, SettingWork, SettingGated
      <3>2. "VALIDATING" \in TransitionMap["PLANNING"]
        BY DEF TransitionMap
      <3>3. Guards("PLANNING", "VALIDATING") \subseteq checked.fields
        BY <3>1 DEF Guards
      <3>. QED
        BY <3>1, <3>2, <3>3 DEF May
    <2>3. work' \in WorkStateContext /\ Gated(work') /\ work'.state = "VALIDATING"
      BY <2>1, <2>2, EnterGated, EnterWork
    <2>4. main' \in Main
      <3>1. 1 \in ValidatingCheck
        BY ChecksAssumption DEF ValidatingCheck
      <3>. QED
        BY <2>1, <3>1 DEF Main
    <2>5. TypeOK'
      BY <1>1, <2>1, <2>3, <2>4, States DEF TypeOK, others
    <2>6. CycleInv' /\ SuccessIsEarned' /\ RecoveryInv'
      <3>1. NoAnswers = [checks |-> 1..(1 - 1), hooks |-> {}]
        BY DEF NoAnswers
      <3>2. CycleInv'
        BY <1>1, <2>1, <2>3, <3>1, HookPlaces DEF CycleInv
      <3>. QED
        BY <1>1, <1>5, <2>1, <3>2 DEF SuccessIsEarned, RecoveryInv, others
    <2>. QED
      BY <2>3, <2>5, <2>6 DEF IInv, Gated
  <1>. QED
    BY <1>13, <1>14
LEMMA CycleFailsIInv == IInv /\ CycleFails => IInv'
  <1> SUFFICES ASSUME IInv, CycleFails PROVE IInv'
    OBVIOUS
  <1>1. UNCHANGED others /\ answers' = answers /\ EndCycle(work, "FAILED", "FAILED")
    BY DEF CycleFails
  <1>2. TypeOK /\ work \in WorkStateContext /\ Gated(work) /\ answers \in Answers
    BY DEF IInv, TypeOK
  <1>. QED
    BY <1>1, <1>2, EndCycleEffect, AbortedIInv DEF IInv, RecoveryInv

LEMMA CheckPassesIInv == IInv /\ CheckPasses => IInv'
  <1> SUFFICES ASSUME IInv, CheckPasses PROVE IInv'
    OBVIOUS
  <1> DEFINE checked == [work EXCEPT !.passed = @ \cup {main.next}]
  <1>1. /\ UNCHANGED others /\ main.at = "check"
        /\ answers' = [answers EXCEPT !.checks = @ \cup {main.next}]
        /\ TypeOK /\ work \in WorkStateContext /\ Gated(work) /\ main \in Main
    BY DEF CheckPasses, IInv, TypeOK
  <1>2. /\ work.state = "VALIDATING" /\ main.outcome = "none"
        /\ answers = [checks |-> 1..(main.next - 1), hooks |-> {}]
    BY <1>1, HookPlaces DEF IInv, CycleInv
  <1>3. main.next \in 1..NChecks
    BY <1>1 DEF Main, ValidatingCheck
  <1>4. answers' = [checks |-> 1..main.next, hooks |-> {}]
    <2>1. (1..(main.next - 1)) \cup {main.next} = 1..main.next
      BY <1>3, ChecksAssumption
    <2>2. answers' = [checks |-> (1..(main.next - 1)) \cup {main.next}, hooks |-> {}]
      BY <1>1, <1>2
    <2>. QED
      BY <2>1, <2>2
  <1>5. answers' \in Answers
    <2>1. 1..main.next \subseteq ValidatingCheck
      BY <1>3, ChecksAssumption DEF ValidatingCheck
    <2>. QED
      BY <1>4, <2>1 DEF Answers
  <1>6. /\ checked \in WorkStateContext /\ checked.state = "VALIDATING"
        /\ checked.fields = work.fields
    BY <1>1, <1>2 DEF WorkStateContext, Main
  <1>7. Gated(checked)
    BY <1>1, <1>2, <1>6 DEF Gated, AfterPlanning, Repaired
  <1>8. recovery.at \notin {"replay", "lock"}
    BY <1>2 DEF IInv, RecoveryInv
  <1>9. CASE ~LastCheck
    <2>1. /\ work' = checked /\ main' = [main EXCEPT !.next = @ + 1]
          /\ evidenced' = evidenced
      BY <1>9 DEF CheckPasses
    <2>2. main.next + 1 \in ValidatingCheck /\ (main.next + 1) - 1 = main.next
      BY <1>3, <1>9, ChecksAssumption DEF LastCheck, ValidatingCheck
    <2>3. /\ main' \in Main /\ main'.at = "check" /\ main'.next = main.next + 1
          /\ main'.outcome = "none"
      BY <1>1, <1>2, <2>1, <2>2 DEF Main
    <2>4. TypeOK'
      BY <1>1, <1>5, <1>6, <2>1, <2>3 DEF TypeOK, others
    <2>5. CycleInv'
      BY <1>4, <1>6, <2>1, <2>2, <2>3 DEF CycleInv
    <2>6. SuccessIsEarned' /\ RecoveryInv'
      BY <1>1, <1>8, <2>3 DEF SuccessIsEarned, RecoveryInv, others
    <2>. QED
      BY <1>7, <2>1, <2>4, <2>5, <2>6 DEF IInv, Gated
  <1>10. CASE LastCheck /\ May(checked, "RUNNING")
    <2>1. SuspendAt(Enter(checked, "RUNNING"), "execution")
      BY <1>10 DEF CheckPasses
    <2>2. /\ Enter(checked, "RUNNING") \in WorkStateContext
          /\ Gated(Enter(checked, "RUNNING"))
          /\ Enter(checked, "RUNNING").state = "RUNNING"
      BY <1>6, <1>7, <1>10, EnterWork, EnterGated
    <2>3. /\ work' \in WorkStateContext /\ Gated(work') /\ evidenced' \in WorkStateEnum
          /\ main' \in Main /\ main'.at = "execution" /\ main'.outcome = "none"
          /\ work'.state = "RUNNING"
      BY <1>1, <1>2, <2>1, <2>2, SuspendEffect, HookPlaces
    <2>4. answers' = [checks |-> ValidatingCheck, hooks |-> {}]
      BY <1>4, <1>10 DEF LastCheck, ValidatingCheck
    <2>5. TypeOK'
      BY <1>1, <1>5, <2>3 DEF TypeOK, others
    <2>6. CycleInv' /\ SuccessIsEarned' /\ RecoveryInv'
      BY <1>1, <1>8, <2>3, <2>4 DEF CycleInv, SuccessIsEarned, RecoveryInv, others
    <2>. QED
      BY <2>3, <2>5, <2>6 DEF IInv, Gated
  <1>11. CASE LastCheck /\ ~May(checked, "RUNNING")
    <2>1. Refused(checked, "RUNNING")
      BY <1>11 DEF CheckPasses
    <2>. QED
      BY <1>1, <1>5, <1>6, <1>7, <1>8, <2>1, RefusedEffect, AbortedIInv
  <1>. QED
    BY <1>9, <1>10, <1>11

LEMMA ExecutionSucceedsIInv == IInv /\ ExecutionSucceeds => IInv'
  <1> SUFFICES ASSUME IInv, ExecutionSucceeds PROVE IInv'
    OBVIOUS
  <1>1. /\ UNCHANGED others /\ main.at = "execution"
        /\ answers' = [answers EXCEPT !.hooks = @ \cup {"execution"}]
        /\ TypeOK /\ work \in WorkStateContext /\ Gated(work)
    BY DEF ExecutionSucceeds, IInv, TypeOK
  <1>2. /\ main.outcome = "none"
        /\ answers' = [checks |-> ValidatingCheck, hooks |-> {"execution"}]
    BY <1>1, HookPlaces DEF IInv, CycleInv
  <1>3. answers' \in Answers
    BY <1>2 DEF Answers
  <1>4. CASE May(work, "EVALUATING")
    <2>1. SuspendAt(Enter(work, "EVALUATING"), "evaluation")
      BY <1>4 DEF ExecutionSucceeds
    <2>2. /\ Enter(work, "EVALUATING") \in WorkStateContext
          /\ Gated(Enter(work, "EVALUATING"))
          /\ Enter(work, "EVALUATING").state = "EVALUATING"
      BY <1>1, <1>4, EnterWork, EnterGated
    <2>3. /\ work' \in WorkStateContext /\ Gated(work') /\ evidenced' \in WorkStateEnum
          /\ main' \in Main /\ main'.at = "evaluation" /\ main'.outcome = "none"
          /\ work'.state = "EVALUATING"
      BY <1>1, <1>2, <2>1, <2>2, SuspendEffect, HookPlaces
    <2>4. recovery.at \notin {"replay", "lock"}
      <3>1. work.state = "RUNNING"
        BY <1>1, <1>4, EdgesInto DEF May, WorkStateContext
      <3>. QED
        BY <3>1 DEF IInv, RecoveryInv
    <2>5. TypeOK'
      BY <1>1, <1>3, <2>3 DEF TypeOK, others
    <2>6. CycleInv' /\ SuccessIsEarned' /\ RecoveryInv'
      BY <1>1, <1>2, <2>3, <2>4 DEF CycleInv, SuccessIsEarned, RecoveryInv, others
    <2>. QED
      BY <2>3, <2>5, <2>6 DEF IInv, Gated
  <1>5. CASE ~May(work, "EVALUATING")
    <2>1. Refused(work, "EVALUATING")
      BY <1>5 DEF ExecutionSucceeds
    <2>. QED
      BY <1>1, <1>3, <2>1, RefusedEffect, AbortedIInv DEF IInv, RecoveryInv
  <1>. QED
    BY <1>4, <1>5

(* A cycle that reaches its last step with the answers it needs.           *)
LEMMA FinishCycleIInv ==
  ASSUME IInv, recovery.at \notin {"replay", "lock"}, UNCHANGED others,
         NEW w \in WorkStateContext, Gated(w), FinishCycle(w), answers' \in Answers,
         "completion_score" \in w.fields
            => answers' = [checks |-> ValidatingCheck,
                           hooks |-> {"execution", "score", "approval"}]
  PROVE  IInv'
  <1> DEFINE executing == Enter(w, "EXECUTING")
             verify    == Enter(executing, "VERIFY")
             monitor   == Setting(Enter(verify, "MONITOR"), {"system_health_ok"})
  <1>1. TypeOK
    BY DEF IInv
  <1>2. ~May(w, "EXECUTING") => IInv'
    BY <1>1, RefusedEffect, AbortedIInv DEF FinishCycle
  <1>3. SUFFICES ASSUME May(w, "EXECUTING") PROVE IInv'
    BY <1>2
  <1>4. /\ executing \in WorkStateContext /\ Gated(executing)
        /\ executing.state = "EXECUTING" /\ executing.fields = w.fields
    BY <1>3, EnterWork, EnterGated
  <1>5. May(executing, "VERIFY")
    BY <1>4 DEF May, TransitionMap, Guards
  <1>6. /\ verify \in WorkStateContext /\ Gated(verify)
        /\ verify.state = "VERIFY" /\ verify.fields = w.fields
    BY <1>4, <1>5, EnterWork, EnterGated
  <1>7. ~May(verify, "MONITOR") => IInv'
    BY <1>1, <1>3, <1>6, RefusedEffect, AbortedIInv DEF FinishCycle
  <1>8. SUFFICES ASSUME May(verify, "MONITOR") PROVE IInv'
    BY <1>7
  <1>9. /\ work' = Enter(monitor, "DRAFT") /\ evidenced' = "DRAFT"
        /\ main' = Asleep("SUCCESS")
    BY <1>3, <1>8 DEF FinishCycle
  <1>10. answers' = [checks |-> ValidatingCheck,
                     hooks |-> {"execution", "score", "approval"}]
    BY <1>6, <1>8 DEF May, Guards
  <1>11. work' = FreshWork /\ FreshWork \in WorkStateContext
    BY <1>9, States DEF Enter, FreshWork, WorkStateContext
  <1>12. TypeOK'
    BY <1>1, <1>9, <1>11, AsleepMain, States DEF TypeOK, others
  <1>13. Gated(work)' /\ RecoveryInv'
    BY <1>11 DEF Gated, FreshWork, AfterPlanning, Repaired, RecoveryInv, others
  <1>14. CycleInv' /\ SuccessIsEarned'
    BY <1>9, <1>10, AsleepMain, HookPlaces DEF CycleInv, SuccessIsEarned
  <1>. QED
    BY <1>12, <1>13, <1>14 DEF IInv
LEMMA EvaluationReturnsIInv ==
  ASSUME IInv, NEW good \in BOOLEAN, EvaluationReturns(good)
  PROVE  IInv'
  <1> DEFINE met     == IF good THEN {"completion_score"} ELSE {}
             scored  == [work EXCEPT !.fields = (@ \ {"completion_score"}) \cup met]
             pending == Enter(scored, "APPROVAL_PENDING")
             granted == Setting(pending, {"approval_granted"})
  <1>1. /\ UNCHANGED others /\ main.at = "evaluation"
        /\ answers' = [answers EXCEPT !.hooks =
               @ \cup (IF good THEN {"score"} ELSE {})
                 \cup (IF main.auto THEN {"approval"} ELSE {})]
        /\ TypeOK /\ work \in WorkStateContext /\ Gated(work)
    BY DEF EvaluationReturns, IInv, TypeOK
  <1>2. /\ main.outcome = "none" /\ work.state = "EVALUATING"
        /\ answers = [checks |-> ValidatingCheck, hooks |-> {"execution"}]
    BY <1>1, HookPlaces DEF IInv, CycleInv
  <1>3. answers' = [checks |-> ValidatingCheck,
                    hooks |-> {"execution"} \cup (IF good THEN {"score"} ELSE {})
                                \cup (IF main.auto THEN {"approval"} ELSE {})]
    BY <1>1, <1>2
  <1>4. answers' \in Answers
    BY <1>3 DEF Answers
  <1>5. recovery.at \notin {"replay", "lock"}
    BY <1>2 DEF IInv, RecoveryInv
  <1>6. ~May(work, "APPROVAL_PENDING") /\ Refused(work, "APPROVAL_PENDING") => IInv'
    BY <1>1, <1>4, <1>5, RefusedEffect, AbortedIInv
  <1>7. SUFFICES ASSUME May(work, "APPROVAL_PENDING") PROVE IInv'
    BY <1>6 DEF EvaluationReturns
  <1>8. /\ scored \in WorkStateContext /\ scored.state = "EVALUATING"
        /\ scored.passed = work.passed
        /\ scored.fields = (work.fields \ {"completion_score"}) \cup met
    BY <1>1, <1>2 DEF WorkStateContext, Fields
  <1>9. Gated(scored)
    BY <1>1, <1>2, <1>8 DEF Gated, AfterPlanning, Repaired, PlanningFields
  <1>10. May(scored, "APPROVAL_PENDING")
    BY <1>8 DEF May, TransitionMap, Guards
  <1> HIDE DEF scored
  <1>11. /\ pending \in WorkStateContext /\ Gated(pending)
         /\ pending.state = "APPROVAL_PENDING" /\ pending.fields = scored.fields
    BY <1>8, <1>9, <1>10, EnterWork, EnterGated
  <1> HIDE DEF pending
  <1>12. "completion_score" \in pending.fields => good
    BY <1>8, <1>11
  <1>13. CASE main.auto
    <2>1. FinishCycle(granted)
      BY <1>7, <1>13 DEF EvaluationReturns, pending, scored
    <2>2. /\ granted \in WorkStateContext /\ Gated(granted)
          /\ granted.fields = pending.fields \cup {"approval_granted"}
      BY <1>11, SettingWork, SettingGated DEF Fields
    <2>3. "completion_score" \in granted.fields
            => answers' = [checks |-> ValidatingCheck,
                           hooks |-> {"execution", "score", "approval"}]
      <3>1. good => {"execution"} \cup (IF good THEN {"score"} ELSE {})
                      \cup (IF main.auto THEN {"approval"} ELSE {})
                    = {"execution", "score", "approval"}
        BY <1>13
      <3>. QED
        BY <1>3, <1>12, <2>2, <3>1
    <2>. QED
      BY <1>1, <1>4, <1>5, <2>1, <2>2, <2>3, FinishCycleIInv
  <1>14. CASE ~main.auto
    <2>1. SuspendAt(pending, "approval")
      BY <1>7, <1>14 DEF EvaluationReturns, pending, scored
    <2>2. /\ work' = pending /\ evidenced' \in WorkStateEnum
          /\ main' \in Main /\ main'.at = "approval" /\ main'.outcome = "none"
      BY <1>1, <1>2, <1>11, <2>1, SuspendEffect, HookPlaces
    <2>3. TypeOK'
      BY <1>1, <1>4, <1>11, <2>2 DEF TypeOK, others
    <2>4. /\ answers' \in {[checks |-> ValidatingCheck, hooks |-> {"execution"}],
                          [checks |-> ValidatingCheck, hooks |-> {"execution", "score"}]}
          /\ good => "score" \in answers'.hooks
      <3>1. {"execution"} \cup (IF good THEN {"score"} ELSE {})
               \cup (IF main.auto THEN {"approval"} ELSE {})
             = IF good THEN {"execution", "score"} ELSE {"execution"}
        BY <1>14
      <3>. QED
        BY <1>3, <3>1
    <2>5. CycleInv'
      BY <1>11, <1>12, <2>2, <2>4 DEF CycleInv
    <2>6. SuccessIsEarned' /\ RecoveryInv'
      BY <1>1, <1>5, <2>2 DEF SuccessIsEarned, RecoveryInv, others
    <2>. QED
      BY <1>11, <2>2, <2>3, <2>5, <2>6 DEF IInv, Gated
  <1>. QED
    BY <1>13, <1>14

LEMMA ApprovalGrantedIInv == IInv /\ ApprovalGranted => IInv'
  <1> SUFFICES ASSUME IInv, ApprovalGranted PROVE IInv'
    OBVIOUS
  <1> DEFINE granted == Setting(work, {"approval_granted"})
  <1>1. /\ UNCHANGED others /\ main.at = "approval" /\ FinishCycle(granted)
        /\ answers' = [answers EXCEPT !.hooks = @ \cup {"approval"}]
        /\ TypeOK /\ work \in WorkStateContext /\ Gated(work) /\ answers \in Answers
    BY DEF ApprovalGranted, IInv, TypeOK
  <1>2. /\ work.state = "APPROVAL_PENDING" /\ answers.checks = ValidatingCheck
        /\ answers.hooks \in {{"execution"}, {"execution", "score"}}
        /\ "completion_score" \in work.fields => "score" \in answers.hooks
    BY <1>1 DEF IInv, CycleInv
  <1>3. /\ granted \in WorkStateContext /\ Gated(granted)
        /\ granted.fields = work.fields \cup {"approval_granted"}
    BY <1>1, SettingWork, SettingGated DEF Fields
  <1>4. answers' \in Answers
    BY <1>1, <1>2 DEF Answers
  <1>5. "completion_score" \in granted.fields
          => answers' = [checks |-> ValidatingCheck,
                         hooks |-> {"execution", "score", "approval"}]
    <2>1. "score" \in answers.hooks
            => answers.hooks \cup {"approval"} = {"execution", "score", "approval"}
      BY <1>2
    <2>2. answers' = [checks |-> ValidatingCheck, hooks |-> answers.hooks \cup {"approval"}]
      BY <1>1, <1>2 DEF Answers
    <2>. QED
      BY <1>2, <1>3, <2>1, <2>2
  <1>6. recovery.at \notin {"replay", "lock"}
    BY <1>2 DEF IInv, RecoveryInv
  <1>. QED
    BY <1>1, <1>3, <1>4, <1>5, <1>6, FinishCycleIInv

------------------------------------------------------------------------------
(* The Recovery Loop and everybody else.                                   *)

(* A step that changes neither the Main Loop nor its history, and takes    *)
(* the work item through transition_to() or sets recovery fields.          *)
LEMMA ForeignIInv ==
  ASSUME IInv, UNCHANGED <<main, answers>>, work' \in WorkStateContext, Gated(work'),
         security' \in SecurityStateEnum, recovery' \in Recovery,
         ledgerHeld' \in BOOLEAN, evidenced' \in WorkStateEnum, RecoveryInv',
         work'.state \in {work.state} \cup Taken,
         work.state \in {"VALIDATING", "EVALUATING", "APPROVAL_PENDING"}
            => /\ work'.state = work.state
               /\ "completion_score" \in work'.fields => "completion_score" \in work.fields
  PROVE  IInv'
  <1>1. TypeOK'
    BY DEF IInv, TypeOK
  <1>2. CycleInv' /\ SuccessIsEarned'
    BY DEF IInv, CycleInv, SuccessIsEarned
  <1>. QED
    BY <1>1, <1>2 DEF IInv, Gated

LEMMA EndRunRecovery ==
  ASSUME NEW phase \in {"ISOLATE", "REPLAY", "ROLLBACK", "REPAIR", "RESUME", "FAILED"},
         EndRun(phase)
  PROVE  recovery' \in Recovery /\ recovery'.at = "off"
  BY DEF EndRun, Recovery

LEMMA BeginRecoveryIInv == IInv /\ BeginRecovery => IInv'
  <1> SUFFICES ASSUME IInv, BeginRecovery PROVE IInv'
    OBVIOUS
  <1> DEFINE isolated == Enter(work, "ISOLATED")
  <1>1. /\ UNCHANGED <<main, ledgerHeld, answers>>
        /\ TypeOK /\ work \in WorkStateContext /\ Gated(work)
        /\ recovery.at = "off" /\ recovery.scope # "none"
    BY DEF BeginRecovery, IInv, TypeOK
  <1>2. CASE ~May(work, "ISOLATED")
    <2>1. EndRun("ISOLATE") /\ UNCHANGED <<work, security, evidenced>>
      BY <1>2 DEF BeginRecovery
    <2>. QED
      BY <1>1, <2>1, EndRunRecovery, ForeignIInv DEF IInv, TypeOK, Gated, RecoveryInv
  <1>3. CASE May(work, "ISOLATED")
    <2>1. /\ isolated \in WorkStateContext /\ Gated(isolated)
          /\ isolated.state = "ISOLATED"
          /\ work.state \notin {"VALIDATING", "EVALUATING", "APPROVAL_PENDING"}
      BY <1>1, <1>3, EnterWork, EnterGated, EdgesInto DEF May, WorkStateContext
    <2>2. security' \in SecurityStateEnum
      <3>1. recovery.scope \in FailureSeverity
        BY <1>1 DEF TypeOK, Recovery
      <3>2. Target[recovery.scope] \in SecurityStateEnum
        BY <3>1, States DEF Target
      <3>3. security' = Escalated(security, Target[recovery.scope])
        BY <1>3 DEF BeginRecovery
      <3>. QED
        BY <1>1, <3>2, <3>3 DEF Escalated, TypeOK
    <2>3. CASE May(isolated, "REPLAY")
      <3>1. /\ work' = Enter(isolated, "REPLAY") /\ evidenced' = "REPLAY"
            /\ recovery' = [recovery EXCEPT !.at = "replay", !.phase = "REPLAY"]
        BY <1>3, <2>3 DEF BeginRecovery
      <3>2. work' \in WorkStateContext /\ Gated(work') /\ work'.state = "REPLAY"
        BY <2>1, <2>3, <3>1, EnterWork, EnterGated
      <3>3. recovery' \in Recovery /\ recovery'.at = "replay"
        BY <1>1, <3>1 DEF TypeOK, Recovery
      <3>. QED
        BY <1>1, <2>1, <2>2, <3>1, <3>2, <3>3, States, ForeignIInv
        DEF TypeOK, RecoveryInv, Taken
    <2>4. CASE ~May(isolated, "REPLAY")
      <3>1. work' = isolated /\ evidenced' = "ISOLATED" /\ EndRun("REPLAY")
        BY <1>3, <2>4 DEF BeginRecovery
      <3>. QED
        BY <1>1, <2>1, <2>2, <3>1, States, EndRunRecovery, ForeignIInv
        DEF TypeOK, RecoveryInv, Gated, Taken
    <2>. QED
      BY <2>3, <2>4
  <1>. QED
    BY <1>2, <1>3

LEMMA RollbackRepairResumeEffect ==
  ASSUME TypeOK, NEW w \in WorkStateContext, Gated(w), RollbackRepairResume(w)
  PROVE  /\ work' \in WorkStateContext /\ Gated(work')
         /\ security' \in SecurityStateEnum
         /\ recovery' \in Recovery /\ recovery'.at = "off"
         /\ work'.state \in {w.state, "REDESIGN", "RESUME"}
  <1> DEFINE redesign == Enter(w, "REDESIGN")
  <1>1. May(w, "REDESIGN") => /\ redesign \in WorkStateContext /\ Gated(redesign)
                              /\ redesign.state = "REDESIGN"
    BY EnterWork, EnterGated
  <1>2. May(w, "REDESIGN") /\ May(redesign, "RESUME")
          => /\ Enter(redesign, "RESUME") \in WorkStateContext
             /\ Gated(Enter(redesign, "RESUME"))
             /\ Enter(redesign, "RESUME").state = "RESUME"
    BY <1>1, EnterWork, EnterGated
  <1>3. \/ work' = w
        \/ May(w, "REDESIGN") /\ work' = redesign
        \/ May(w, "REDESIGN") /\ May(redesign, "RESUME") /\ work' = Enter(redesign, "RESUME")
    BY DEF RollbackRepairResume
  <1>4. /\ work' \in WorkStateContext /\ Gated(work')
        /\ work'.state \in {w.state, "REDESIGN", "RESUME"}
    BY <1>1, <1>2, <1>3
  <1>5. security' \in SecurityStateEnum
    BY States DEF RollbackRepairResume, TypeOK
  <1>6. EndRun("REPAIR") \/ EndRun("FAILED") \/ EndRun("RESUME")
    BY DEF RollbackRepairResume
  <1>. QED
    BY <1>4, <1>5, <1>6, EndRunRecovery
LEMMA ReplayEndsIInv == IInv /\ ReplayEnds => IInv'
  <1> SUFFICES ASSUME IInv, ReplayEnds PROVE IInv'
    OBVIOUS
  <1> DEFINE cause == Enter(work, "ROOT_CAUSE")
  <1>1. /\ UNCHANGED <<main, ledgerHeld, answers>>
        /\ TypeOK /\ work \in WorkStateContext /\ Gated(work) /\ work.state = "REPLAY"
        /\ evidenced' = IF work'.state = work.state THEN evidenced ELSE work'.state
    BY DEF ReplayEnds, IInv, TypeOK, RecoveryInv
  <1>2. May(work, "ROOT_CAUSE") => /\ cause \in WorkStateContext /\ Gated(cause)
                                  /\ cause.state = "ROOT_CAUSE"
    BY <1>1, EnterWork, EnterGated
  <1>3. /\ work' \in WorkStateContext /\ Gated(work') /\ security' \in SecurityStateEnum
        /\ recovery' \in Recovery /\ recovery'.at # "replay"
        /\ recovery'.at = "lock" => work'.state = "ROOT_CAUSE"
        /\ work'.state \in {"REPLAY", "ROOT_CAUSE", "REDESIGN", "RESUME"}
    <2>1. CASE ~May(work, "ROOT_CAUSE")
      <3>1. EndRun("REPLAY") /\ UNCHANGED <<work, security>>
        BY <2>1 DEF ReplayEnds
      <3>. QED
        BY <1>1, <3>1, EndRunRecovery DEF TypeOK, Gated
    <2>2. CASE May(work, "ROOT_CAUSE") /\ ledgerHeld
      <3>1. /\ work' = cause /\ security' = security
            /\ recovery' = [recovery EXCEPT !.at = "lock", !.phase = "ROLLBACK"]
        BY <2>2 DEF ReplayEnds
      <3>. QED
        BY <1>1, <1>2, <2>2, <3>1 DEF TypeOK, Recovery
    <2>3. CASE May(work, "ROOT_CAUSE") /\ ~ledgerHeld
      <3>1. RollbackRepairResume(cause)
        BY <2>3 DEF ReplayEnds
      <3>. QED
        BY <1>1, <1>2, <2>3, <3>1, RollbackRepairResumeEffect
    <2>. QED
      BY <2>1, <2>2, <2>3
  <1>4. evidenced' \in WorkStateEnum
    BY <1>1, <1>3 DEF TypeOK, WorkStateContext
  <1>5. ledgerHeld' \in BOOLEAN /\ RecoveryInv'
    BY <1>1, <1>3 DEF TypeOK, RecoveryInv
  <1>. QED
    BY <1>1, <1>3, <1>4, <1>5, ForeignIInv DEF Taken

LEMMA LockAcquiredIInv == IInv /\ LockAcquired => IInv'
  <1> SUFFICES ASSUME IInv, LockAcquired PROVE IInv'
    OBVIOUS
  <1>1. /\ UNCHANGED <<main, ledgerHeld, answers>> /\ RollbackRepairResume(work)
        /\ TypeOK /\ work \in WorkStateContext /\ Gated(work) /\ work.state = "ROOT_CAUSE"
        /\ evidenced' = IF work'.state = work.state THEN evidenced ELSE work'.state
    BY DEF LockAcquired, IInv, TypeOK, RecoveryInv
  <1>2. /\ work' \in WorkStateContext /\ Gated(work') /\ security' \in SecurityStateEnum
        /\ recovery' \in Recovery /\ recovery'.at = "off"
        /\ work'.state \in {"ROOT_CAUSE", "REDESIGN", "RESUME"}
    BY <1>1, RollbackRepairResumeEffect
  <1>3. evidenced' \in WorkStateEnum
    BY <1>1, <1>2 DEF TypeOK, WorkStateContext
  <1>4. ledgerHeld' \in BOOLEAN /\ RecoveryInv'
    BY <1>1, <1>2 DEF TypeOK, RecoveryInv
  <1>. QED
    BY <1>1, <1>2, <1>3, <1>4, ForeignIInv DEF Taken

LEMMA AcceptFailureIInv ==
  ASSUME IInv, NEW severity \in FailureSeverity, AcceptFailure(severity)
  PROVE  IInv'
  <1>1. /\ UNCHANGED <<work, security, main, ledgerHeld, evidenced, answers>>
        /\ TypeOK
    BY DEF AcceptFailure, IInv
  <1>2. /\ recovery' \in Recovery /\ recovery'.at = recovery.at
    BY <1>1 DEF AcceptFailure, TypeOK, Recovery
  <1>3. Gated(work')
    BY <1>1 DEF IInv, Gated
  <1>. QED
    BY <1>1, <1>2, <1>3, ForeignIInv DEF TypeOK, IInv, RecoveryInv

LEMMA SecurityIInv ==
  ASSUME IInv, ReleaseLockdown \/ \E target \in SecurityStateEnum : EscalateSecurity(target)
  PROVE  IInv'
  <1>1. UNCHANGED <<work, main, recovery, ledgerHeld, evidenced, answers>> /\ TypeOK
    BY DEF ReleaseLockdown, EscalateSecurity, IInv
  <1>2. security' \in SecurityStateEnum
    BY <1>1, States DEF ReleaseLockdown, EscalateSecurity, Escalated, TypeOK
  <1>3. Gated(work')
    BY <1>1 DEF IInv, Gated
  <1>. QED
    BY <1>1, <1>2, <1>3, ForeignIInv DEF TypeOK, IInv, RecoveryInv

LEMMA OtherClientIInv == IInv /\ OtherClient => IInv'
  <1> SUFFICES ASSUME IInv, OtherClient PROVE IInv'
    OBVIOUS
  <1>1. UNCHANGED <<work, security, main, recovery, evidenced, answers>> /\ TypeOK
    BY DEF OtherClient, IInv
  <1>2. ledgerHeld' \in BOOLEAN
    BY DEF OtherClient
  <1>3. Gated(work')
    BY <1>1 DEF IInv, Gated
  <1>. QED
    BY <1>1, <1>2, <1>3, ForeignIInv DEF TypeOK, IInv, RecoveryInv

LEMMA OperatorSetsIInv ==
  ASSUME IInv, NEW field \in OperatorFields, OperatorSets(field)
  PROVE  IInv'
  <1>1. /\ UNCHANGED <<security, main, recovery, ledgerHeld, evidenced, answers>>
        /\ work' = Setting(work, {field}) /\ TypeOK
        /\ work \in WorkStateContext /\ Gated(work)
    BY DEF OperatorSets, IInv, TypeOK
  <1>2. {field} \in SUBSET Fields /\ field # "completion_score"
    BY OperatorAssumption DEF Fields, RecoveryFields
  <1>3. /\ work' \in WorkStateContext /\ Gated(work') /\ work'.state = work.state
        /\ "completion_score" \in work'.fields => "completion_score" \in work.fields
    BY <1>1, <1>2, SettingWork, SettingGated
  <1>. QED
    BY <1>1, <1>3, ForeignIInv DEF TypeOK, IInv, RecoveryInv

LEMMA OperatorSources ==
  ASSUME IInv, NEW s \in OperatorTargets, May(work, s)
  PROVE  /\ s \in Taken /\ recovery.at \notin {"replay", "lock"}
         /\ work.state \notin {"VALIDATING", "EVALUATING", "APPROVAL_PENDING"}
  <1>1. work.state \in WorkStateEnum /\ s \in TransitionMap[work.state]
    BY DEF IInv, TypeOK, WorkStateContext, May
  <1>2. s \in {"RULE_UPDATE", "SANDBOX", "IMPROVEMENT", "RESUME", "DRAFT", "CLOSED"}
    BY OperatorAssumption
  <1>3. work.state \notin {"VALIDATING", "EVALUATING", "APPROVAL_PENDING", "REPLAY",
                           "ROOT_CAUSE"}
    BY <1>1, <1>2, EdgesInto
  <1>. QED
    BY <1>2, <1>3 DEF IInv, RecoveryInv, Taken

LEMMA OperatorMovesIInv ==
  ASSUME IInv, NEW s \in OperatorTargets, OperatorMoves(s)
  PROVE  IInv'
  <1>1. /\ UNCHANGED <<security, main, recovery, ledgerHeld, answers>>
        /\ May(work, s) /\ work' = Enter(work, s) /\ evidenced' = s /\ TypeOK
        /\ work \in WorkStateContext /\ Gated(work)
    BY DEF OperatorMoves, IInv, TypeOK
  <1>2. /\ work' \in WorkStateContext /\ Gated(work') /\ work'.state = s
        /\ s \in WorkStateEnum
    BY <1>1, EnterWork, EnterGated
  <1>3. /\ s \in Taken /\ recovery.at \notin {"replay", "lock"}
        /\ work.state \notin {"VALIDATING", "EVALUATING", "APPROVAL_PENDING"}
    BY <1>1, OperatorSources
  <1>. QED
    BY <1>1, <1>2, <1>3, ForeignIInv DEF TypeOK, IInv, RecoveryInv

LEMMA NextIInv == IInv /\ [Next]_vars => IInv'
  <1> SUFFICES ASSUME IInv, [Next]_vars PROVE IInv'
    OBVIOUS
  <1>1. CASE MainLoop
    BY <1>1, PollSecurityIInv, BeginCycleIInv, CycleFailsIInv, CheckPassesIInv,
       ExecutionSucceedsIInv, EvaluationReturnsIInv, ApprovalGrantedIInv
    DEF MainLoop, HookReturns
  <1>2. CASE RecoveryLoop
    BY <1>2, BeginRecoveryIInv, ReplayEndsIInv, LockAcquiredIInv DEF RecoveryLoop
  <1>3. CASE \E severity \in FailureSeverity : AcceptFailure(severity)
    BY <1>3, AcceptFailureIInv
  <1>4. CASE ReleaseLockdown \/ \E target \in {"QUARANTINED", "LOCKDOWN"} :
                                   EscalateSecurity(target)
    BY <1>4, SecurityIInv, States
  <1>5. CASE OtherClient
    BY <1>5, OtherClientIInv
  <1>6. CASE \E field \in OperatorFields : OperatorSets(field)
    BY <1>6, OperatorSetsIInv
  <1>7. CASE \E s \in OperatorTargets : OperatorMoves(s)
    BY <1>7, OperatorMovesIInv
  <1>8. CASE UNCHANGED vars
    BY <1>8 DEF vars, IInv, TypeOK, Gated, CycleInv, SuccessIsEarned, RecoveryInv
  <1>. QED
    BY <1>1, <1>2, <1>3, <1>4, <1>5, <1>6, <1>7, <1>8 DEF Next

LEMMA Invariance == Spec => []IInv
  BY InitIInv, NextIInv, PTL DEF Spec
------------------------------------------------------------------------------
(* The results.                                                            *)

(* The shared state keeps its types.                                       *)
THEOREM TypeCorrect == Spec => []TypeOK
  <1>1. IInv => TypeOK
    BY DEF IInv
  <1>. QED
    BY <1>1, Invariance, PTL

(* No interleaving of the two loops and the operator takes a work item     *)
(* past a guard of the transition map.                                     *)
THEOREM WorkItemsAreGated == Spec => []WorkIsGated
  <1>1. IInv => WorkIsGated
    BY DEF IInv, Gated, WorkIsGated, AfterPlanning
  <1>. QED
    BY <1>1, Invariance, PTL

(* A cycle reports SUCCESS only on the answers of its own hooks.           *)
THEOREM SuccessNeedsEveryAnswer == Spec => []SuccessIsEarned
  <1>1. IInv => SuccessIsEarned
    BY DEF IInv
  <1>. QED
    BY <1>1, Invariance, PTL

(* Only a cycle in its execution hook loses its work item.                 *)
LEMMA TakenInExecution == ASSUME IInv, Interrupted PROVE main.at = "execution"
  BY HookPlaces DEF IInv, CycleInv, Interrupted, StateAwaiting

(* Recovery takes a work item only out of the execution hook.              *)
THEOREM OnlyExecutionLosesWork == Spec => [](Interrupted => main.at = "execution")
  <1>1. IInv => (Interrupted => main.at = "execution")
    BY TakenInExecution
  <1>. QED
    BY <1>1, Invariance, PTL

(* A cycle whose work item was taken leaves it where it is.                *)
LEMMA InterruptedStep ==
  ASSUME IInv, [Next]_vars, Interrupted, main' # main
  PROVE  work' = work /\ evidenced' = evidenced /\ main'.outcome = "FAILED"
  <1>1. /\ main.at = "execution" /\ work.state \in Taken
        /\ work.state \in WorkStateEnum
    BY HookPlaces DEF IInv, CycleInv, Interrupted, StateAwaiting, TypeOK, WorkStateContext
  <1>2. /\ "FAILED" \notin TransitionMap[work.state]
        /\ "EVALUATING" \notin TransitionMap[work.state]
    BY <1>1, EdgesInto DEF Taken, AfterPlanning
  <1>3. CycleFails \/ ExecutionSucceeds
    BY <1>1 DEF Next, vars, MainLoop, HookReturns, PollSecurity, CycleCeiling, BeginCycle,
       CheckPasses, EvaluationReturns, ApprovalGranted, RecoveryLoop, BeginRecovery,
       ReplayEnds, LockAcquired, AcceptFailure, EscalateSecurity, ReleaseLockdown,
       OtherClient, OperatorSets, OperatorMoves
  <1>4. EndCycle(work, "FAILED", "FAILED")
    BY <1>2, <1>3 DEF CycleFails, ExecutionSucceeds, Refused, May
  <1>. QED
    BY <1>2, <1>4, AsleepMain DEF EndCycle, May

THEOREM InterruptedCyclesYield == Spec => InterruptedCycleYields
  <1>1. IInv /\ [Next]_vars
          => [Interrupted => /\ main.at = "execution"
                             /\ main' # main => /\ work' = work /\ evidenced' = evidenced
                                                /\ main'.outcome = "FAILED"]_vars
    BY TakenInExecution, InterruptedStep
  <1>. QED
    BY <1>1, Invariance, PTL DEF Spec, InterruptedCycleYields

(* While a recovery run is suspended nobody moves its work item.           *)
LEMMA OwnedStep ==
  ASSUME IInv, [Next]_vars, recovery.at # "off", work'.state # work.state
  PROVE  RecoveryLoop
  <1>1. /\ TypeOK /\ work \in WorkStateContext /\ work.state \in WorkStateEnum
        /\ recovery.at \in {"replay", "lock"}
        /\ work.state \in {"REPLAY", "ROOT_CAUSE"}
    BY DEF IInv, TypeOK, Recovery, RecoveryInv, WorkStateContext
  <1>2. /\ "FAILED" \notin TransitionMap[work.state]
        /\ "CLARIFYING" \notin TransitionMap[work.state]
        /\ "EVALUATING" \notin TransitionMap[work.state]
    BY <1>1, EdgesInto DEF AfterPlanning
  <1>3. ~MainLoop
    <2>1. main.at \in {"sleep", "factory", "execution"}
      BY <1>1 DEF IInv, TypeOK, CycleInv, Main
    <2>2. CASE PollSecurity \/ CycleCeiling
      BY <2>2 DEF PollSecurity, CycleCeiling
    <2>3. ASSUME NEW given \in SUBSET {"intent", "spec_twin_id"}, NEW auto \in BOOLEAN,
                 BeginCycle(given, auto)
          PROVE  FALSE
      BY <1>2, <2>3 DEF BeginCycle, Refused, EndCycle, May
    <2>4. CASE CycleFails \/ ExecutionSucceeds
      BY <1>2, <2>4 DEF CycleFails, ExecutionSucceeds, Refused, EndCycle, May
    <2>. QED
      BY <2>1, <2>2, <2>3, <2>4 DEF MainLoop, HookReturns, CheckPasses,
         EvaluationReturns, ApprovalGranted
  <1>4. ASSUME NEW s \in OperatorTargets, OperatorMoves(s) PROVE FALSE
    BY <1>1, <1>4, OperatorSources DEF OperatorMoves
  <1>5. ASSUME NEW field \in OperatorFields, OperatorSets(field) PROVE FALSE
    <2>1. {field} \in SUBSET Fields
      BY OperatorAssumption DEF Fields
    <2>. QED
      BY <1>1, <1>5, <2>1, SettingWork DEF OperatorSets
  <1>. QED
    BY <1>3, <1>4, <1>5 DEF Next, vars, AcceptFailure, EscalateSecurity, ReleaseLockdown,
       OtherClient

THEOREM RecoveryKeepsItsWork == Spec => RecoveryOwnsWork
  <1>1. IInv /\ [Next]_vars
          => [recovery.at # "off" /\ work'.state # work.state => RecoveryLoop]_vars
    BY OwnedStep
  <1>. QED
    BY <1>1, Invariance, PTL DEF Spec, RecoveryOwnsWork

(* LOCKDOWN is left by release_lockdown() alone.                           *)
LEMMA LockdownStep ==
  ASSUME IInv, [Next]_vars, security = "LOCKDOWN", security' # security
  PROVE  ReleaseLockdown
  <1>1. \A target \in SecurityStateEnum : Escalated("LOCKDOWN", target) = "LOCKDOWN"
    BY DEF Escalated, Severity, SecurityStateEnum
  <1>2. ~MainLoop
    BY DEF MainLoop, HookReturns, PollSecurity, CycleCeiling, BeginCycle, CycleFails,
       CheckPasses, ExecutionSucceeds, EvaluationReturns, ApprovalGranted, others
  <1>3. ~BeginRecovery
    <2>1. recovery.scope # "none" => Target[recovery.scope] \in SecurityStateEnum
      BY States DEF IInv, TypeOK, Recovery, Target
    <2>. QED
      BY <1>1, <2>1 DEF BeginRecovery
  <1>4. ~ReplayEnds /\ ~LockAcquired
    BY DEF ReplayEnds, LockAcquired, RollbackRepairResume
  <1>5. \A target \in {"QUARANTINED", "LOCKDOWN"} : ~EscalateSecurity(target)
    BY <1>1, States DEF EscalateSecurity
  <1>. QED
    BY <1>2, <1>3, <1>4, <1>5 DEF Next, vars, RecoveryLoop, AcceptFailure, OtherClient,
       OperatorSets, OperatorMoves

THEOREM LockdownNeedsAHuman == Spec => LockdownReleasedByHuman
  <1>1. IInv /\ [Next]_vars
          => [security = "LOCKDOWN" /\ security' # security => ReleaseLockdown]_vars
    BY LockdownStep
  <1>. QED
    BY <1>1, Invariance, PTL DEF Spec, LockdownReleasedByHuman

(* M-07, one step: the evidence is that of the state entered, or neither   *)
(* moves, or the item is in an error state.                                *)
EvidenceStep ==
    \/ evidenced' = work'.state
    \/ evidenced' = evidenced /\ work'.state = work.state
    \/ work'.state \in {"FAILED", "BLOCKED"}

LEMMA EndCycleEvidence ==
  ASSUME NEW w \in WorkStateContext, NEW s \in {"BLOCKED", "FAILED"},
         NEW outcome, EndCycle(w, s, outcome)
  PROVE  EvidenceStep
  <1>1. s \in WorkStateEnum
    BY States
  <1>2. CASE May(w, s)
    BY <1>1, <1>2, EnterWork DEF EndCycle, EvidenceStep
  <1>3. CASE ~May(w, s)
    BY <1>3 DEF EndCycle, EvidenceStep
  <1>. QED
    BY <1>2, <1>3

LEMMA RefusedEvidence ==
  ASSUME NEW w \in WorkStateContext, NEW s, Refused(w, s)
  PROVE  EvidenceStep
  BY EndCycleEvidence DEF Refused

LEMMA FinishCycleEvidence ==
  ASSUME NEW w \in WorkStateContext, FinishCycle(w)
  PROVE  EvidenceStep
  <1> DEFINE verify == Enter(Enter(w, "EXECUTING"), "VERIFY")
  <1>1. verify \in WorkStateContext
    BY States, EnterWork
  <1>2. CASE Refused(w, "EXECUTING") \/ Refused(verify, "MONITOR")
    BY <1>1, <1>2, RefusedEvidence
  <1>3. CASE /\ work' = Enter(Setting(Enter(verify, "MONITOR"), {"system_health_ok"}),
                              "DRAFT")
             /\ evidenced' = "DRAFT"
    <2>1. work' = FreshWork
      BY <1>3 DEF Enter
    <2>. QED
      BY <1>3, <2>1 DEF FreshWork, EvidenceStep
  <1>. QED
    BY <1>2, <1>3 DEF FinishCycle

LEMMA MainLoopEvidence == IInv /\ MainLoop => EvidenceStep
  <1> SUFFICES ASSUME IInv, MainLoop PROVE EvidenceStep
    OBVIOUS
  <1>1. work \in WorkStateContext /\ main \in Main
    BY DEF IInv, TypeOK
  <1>2. CASE PollSecurity \/ CycleCeiling
    BY <1>2 DEF PollSecurity, CycleCeiling, EvidenceStep
  <1>3. ASSUME NEW given \in SUBSET {"intent", "spec_twin_id"}, NEW auto \in BOOLEAN,
               BeginCycle(given, auto)
        PROVE  EvidenceStep
    <2> DEFINE clarifying == Setting(Enter(work, "CLARIFYING"), given)
               ready      == Enter(clarifying, "SPEC_READY")
               planning   == Enter(ready, "PLANNING")
               checked    == Setting(planning, {"risk_checked"})
               validating == Enter(Setting(planning, PlanningFields), "VALIDATING")
    <2>1. given \in SUBSET Fields /\ PlanningFields \in SUBSET Fields
          /\ {"risk_checked"} \in SUBSET Fields
      BY DEF Fields, PlanningFields
    <2>2. Enter(work, "CLARIFYING") \in WorkStateContext
      BY <1>1, States, EnterWork
    <2>3. clarifying \in WorkStateContext
      BY <2>1, <2>2, SettingWork
    <2>4. ready \in WorkStateContext
      BY <2>3, States, EnterWork
    <2>5. planning \in WorkStateContext
      BY <2>4, States, EnterWork
    <2>6. checked \in WorkStateContext /\ Setting(planning, PlanningFields) \in WorkStateContext
      BY <2>1, <2>5, SettingWork
    <2>7. validating.state = "VALIDATING"
      BY <2>6, States, EnterWork
    <2>8. \/ Refused(work, "CLARIFYING") \/ Refused(clarifying, "SPEC_READY")
          \/ Refused(ready, "PLANNING") \/ EndCycle(checked, "FAILED", "FAILED")
          \/ work' = validating /\ evidenced' = "VALIDATING"
      BY <1>3 DEF BeginCycle
    <2> HIDE DEF clarifying, ready, planning, checked, validating
    <2>9. CASE EndCycle(checked, "FAILED", "FAILED")
      BY <2>6, <2>9, EndCycleEvidence
    <2>10. CASE work' = validating /\ evidenced' = "VALIDATING"
      BY <2>7, <2>10 DEF EvidenceStep
    <2>. QED
      BY <1>1, <2>3, <2>4, <2>8, <2>9, <2>10, RefusedEvidence
  <1>4. CASE CycleFails
    BY <1>1, <1>4, EndCycleEvidence DEF CycleFails
  <1>5. CASE CheckPasses
    <2> DEFINE checked == [work EXCEPT !.passed = @ \cup {main.next}]
    <2>1. checked \in WorkStateContext /\ checked.state = work.state
      BY <1>1 DEF WorkStateContext, Main
    <2>2. \/ work' = checked /\ evidenced' = evidenced
          \/ SuspendAt(Enter(checked, "RUNNING"), "execution")
          \/ Refused(checked, "RUNNING")
      BY <1>5 DEF CheckPasses
    <2> HIDE DEF checked
    <2>. QED
      BY <2>1, <2>2, RefusedEvidence DEF SuspendAt, EvidenceStep
  <1>6. CASE ExecutionSucceeds
    BY <1>1, <1>6, RefusedEvidence DEF ExecutionSucceeds, SuspendAt, EvidenceStep
  <1>7. ASSUME NEW good \in BOOLEAN, EvaluationReturns(good) PROVE EvidenceStep
    <2> DEFINE met     == IF good THEN {"completion_score"} ELSE {}
               scored  == [work EXCEPT !.fields = (@ \ {"completion_score"}) \cup met]
               pending == Enter(scored, "APPROVAL_PENDING")
               granted == Setting(pending, {"approval_granted"})
    <2>1. scored \in WorkStateContext
      BY <1>1 DEF WorkStateContext, Fields
    <2>2. pending \in WorkStateContext
      BY <2>1, States, EnterWork
    <2>3. {"approval_granted"} \in SUBSET Fields
      BY DEF Fields
    <2>4. granted \in WorkStateContext
      BY <2>2, <2>3, SettingWork
    <2>5. \/ Refused(work, "APPROVAL_PENDING") \/ FinishCycle(granted)
          \/ SuspendAt(pending, "approval")
      BY <1>7 DEF EvaluationReturns
    <2> HIDE DEF met, scored, pending, granted
    <2>. QED
      BY <1>1, <2>4, <2>5, RefusedEvidence, FinishCycleEvidence DEF SuspendAt, EvidenceStep
  <1>8. CASE ApprovalGranted
    <2>1. {"approval_granted"} \in SUBSET Fields
      BY DEF Fields
    <2>2. Setting(work, {"approval_granted"}) \in WorkStateContext
      BY <1>1, <2>1, SettingWork
    <2>. QED
      BY <1>8, <2>2, FinishCycleEvidence DEF ApprovalGranted
  <1>. QED
    BY <1>2, <1>3, <1>4, <1>5, <1>6, <1>7, <1>8 DEF MainLoop, HookReturns

LEMMA RecoveryLoopEvidence == IInv /\ RecoveryLoop => EvidenceStep
  <1> SUFFICES ASSUME IInv, RecoveryLoop PROVE EvidenceStep
    OBVIOUS
  <1>1. work \in WorkStateContext
    BY DEF IInv, TypeOK
  <1>2. CASE BeginRecovery
    <2> DEFINE isolated == Enter(work, "ISOLATED")
    <2>1. isolated \in WorkStateContext /\ isolated.state = "ISOLATED"
      BY <1>1, States, EnterWork
    <2>2. Enter(isolated, "REPLAY").state = "REPLAY"
      BY <2>1, States, EnterWork
    <2>3. \/ UNCHANGED <<work, evidenced>>
          \/ work' = Enter(isolated, "REPLAY") /\ evidenced' = "REPLAY"
          \/ work' = isolated /\ evidenced' = "ISOLATED"
      BY <1>2 DEF BeginRecovery
    <2> HIDE DEF isolated
    <2>. QED
      BY <2>1, <2>2, <2>3 DEF EvidenceStep
  <1>3. CASE ReplayEnds \/ LockAcquired
    BY <1>3 DEF ReplayEnds, LockAcquired, EvidenceStep
  <1>. QED
    BY <1>2, <1>3 DEF RecoveryLoop

LEMMA NextEvidence == IInv /\ [Next]_vars => EvidenceStep
  <1> SUFFICES ASSUME IInv, [Next]_vars PROVE EvidenceStep
    OBVIOUS
  <1>1. work \in WorkStateContext /\ work.state \in WorkStateEnum
    BY DEF IInv, TypeOK, WorkStateContext
  <1>2. ASSUME NEW field \in OperatorFields, OperatorSets(field) PROVE EvidenceStep
    <2>1. {field} \in SUBSET Fields
      BY OperatorAssumption DEF Fields
    <2>. QED
      BY <1>1, <1>2, <2>1, SettingWork DEF OperatorSets, EvidenceStep
  <1>3. ASSUME NEW s \in OperatorTargets, OperatorMoves(s) PROVE EvidenceStep
    <2>1. s \in WorkStateEnum
      BY <1>1, <1>3, EdgesInto DEF OperatorMoves, May
    <2>. QED
      BY <1>1, <1>3, <2>1, EnterWork DEF OperatorMoves, EvidenceStep
  <1>4. CASE \/ \E severity \in FailureSeverity : AcceptFailure(severity)
             \/ \E target \in {"QUARANTINED", "LOCKDOWN"} : EscalateSecurity(target)
             \/ ReleaseLockdown \/ OtherClient \/ UNCHANGED vars
    BY <1>4 DEF AcceptFailure, EscalateSecurity, ReleaseLockdown, OtherClient, vars,
       EvidenceStep
  <1>. QED
    BY <1>2, <1>3, <1>4, MainLoopEvidence, RecoveryLoopEvidence DEF Next

(* Every state of the work item but the two error states has its           *)
(* EvidenceBundle, whoever moved it there.                                 *)
THEOREM EvidenceFollowsWork == Spec => []EvidenceKeepsUp
  <1>1. Init => EvidenceKeepsUp
    BY DEF Init, FreshWork, EvidenceKeepsUp
  <1>2. EvidenceKeepsUp /\ IInv /\ [Next]_vars => EvidenceKeepsUp'
    BY NextEvidence DEF EvidenceStep, EvidenceKeepsUp
  <1>. QED
    BY <1>1, <1>2, Invariance, PTL DEF Spec

(* Every step of the core raises the security state, lowers it to NORMAL,  *)
(* or leaves it.                                                           *)
LEMMA EscalationIsRaise ==
  ASSUME security \in SecurityStateEnum, NEW target \in SecurityStateEnum,
         security' = Escalated(security, target)
  PROVE  Promise!Raise \/ security' = security
  <1>1. Promise!Level = Severity
    BY DEF Promise!Level, Severity
  <1>2. Severity[target] \in Nat /\ Severity[security] \in Nat
    BY DEF Severity, SecurityStateEnum
  <1>3. CASE Severity[target] <= Severity[security]
    BY <1>3 DEF Escalated
  <1>4. CASE ~(Severity[target] <= Severity[security])
    <2>1. security' = target /\ Severity[target] > Severity[security]
      BY <1>2, <1>4 DEF Escalated
    <2>. QED
      BY <1>1, <2>1 DEF Promise!Raise, SecurityStateEnum
  <1>. QED
    BY <1>3, <1>4

LEMMA PromiseStep == IInv /\ [Next]_vars => [Promise!Next]_security
  <1> SUFFICES ASSUME IInv, [Next]_vars PROVE Promise!Next \/ security' = security
    OBVIOUS
  <1>1. security \in SecurityStateEnum
    BY DEF IInv, TypeOK
  <1>2. CASE MainLoop
    BY <1>2 DEF MainLoop, HookReturns, PollSecurity, CycleCeiling, BeginCycle, CycleFails,
       CheckPasses, ExecutionSucceeds, EvaluationReturns, ApprovalGranted, others
  <1>3. CASE BeginRecovery
    <2>1. Target[recovery.scope] \in SecurityStateEnum
      BY <1>3, States DEF IInv, TypeOK, Recovery, Target, BeginRecovery
    <2>2. security' = security \/ security' = Escalated(security, Target[recovery.scope])
      BY <1>3 DEF BeginRecovery
    <2>. QED
      BY <1>1, <2>1, <2>2, EscalationIsRaise DEF Promise!Next
  <1>4. CASE ReplayEnds \/ LockAcquired
    BY <1>4 DEF ReplayEnds, LockAcquired, RollbackRepairResume, Promise!Next,
       Promise!Recover
  <1>5. ASSUME NEW target \in {"QUARANTINED", "LOCKDOWN"}, EscalateSecurity(target)
        PROVE  Promise!Next \/ security' = security
    BY <1>1, <1>5, States, EscalationIsRaise DEF EscalateSecurity, Promise!Next
  <1>6. CASE ReleaseLockdown
    BY <1>6 DEF ReleaseLockdown, Promise!Next, Promise!Release
  <1>. QED
    BY <1>2, <1>3, <1>4, <1>5, <1>6 DEF Next, vars, RecoveryLoop, AcceptFailure,
       OtherClient, OperatorSets, OperatorMoves

(* The loops, the operator and the ledgers together use the security state *)
(* as SecurityPromise says.                                                *)
THEOREM CoreKeepsSecurityPromise == Spec => KeepsSecurityPromise
  <1>1. Init => Promise!Init
    BY DEF Init, Promise!Init
  <1>. QED
    BY <1>1, PromiseStep, Invariance, PTL DEF Spec, KeepsSecurityPromise, Promise!Spec
=============================================================================
