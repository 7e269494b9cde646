----------------------------- MODULE GovernanceCore -----------------------------
(***************************************************************************)
(* The Main Loop and the Recovery Loop on the work item and the security   *)
(* state they share (src/kdexter/loops/main_loop.py, recovery_loop.py,     *)
(* state_machine/), with the operator, the other clients of the Rule       *)
(* Ledger lock and whoever escalates the security state.                   *)
(*                                                                         *)
(* One asyncio event loop runs both loops, so an action is the code        *)
(* between two awaits that really suspend: the injected hooks of the Main  *)
(* Loop, and sleep(0) and the ledger lock in the Recovery Loop.  Awaiting  *)
(* a coroutine that never suspends (the steps, the phases, the stubbed     *)
(* checks of a repair) does not let anybody else run.                      *)
(***************************************************************************)
EXTENDS WorkState, SecurityState

CONSTANTS
    OperatorFields,   \* the recovery fields an operator fills in
    OperatorTargets   \* the states an operator moves the work item to

(* An operator moves the work item only where no loop does.                *)
ASSUME OperatorAssumption ==
    /\ OperatorFields \subseteq RecoveryFields
    /\ OperatorTargets \subseteq {"RULE_UPDATE", "SANDBOX", "IMPROVEMENT",
                                  "RESUME", "DRAFT", "CLOSED"}

VARIABLES
    work,       \* the WorkStateContext
    security,   \* SecurityStateContext.current
    main,       \* the Main Loop: where it is suspended, and the CycleResult
    recovery,   \* the Recovery Loop: where it is suspended, _phase, _scope
    ledgerHeld, \* another client holds the RuleLedgerLock
    evidenced,  \* after_state of the newest transition's EvidenceBundle
    answers     \* history: what this cycle's hooks have answered yes to

vars == <<work, security, main, recovery, ledgerHeld, evidenced, answers>>

(* The Main Loop sits in its sleep, in cycle_factory() or in a hook.       *)
Main == [at : {"sleep", "factory", "check", "execution", "evaluation", "approval"},
         next : ValidatingCheck,             \* the check being awaited
         auto : BOOLEAN,                     \* CycleInput.auto_approve
         outcome : {"none", "SUCCESS", "BLOCKED", "FAILED", "CEILING"}]

Asleep(outcome) == [at |-> "sleep", next |-> 1, auto |-> FALSE, outcome |-> outcome]

(* _scope is kept as its highest severity; "none" is None.                 *)
Target == [CRITICAL |-> "LOCKDOWN", HIGH |-> "QUARANTINED", MEDIUM |-> "RESTRICTED"]
FailureSeverity == DOMAIN Target

Recovery == [at : {"off", "replay", "lock"},
             phase : {"IDLE", "ISOLATE", "REPLAY", "ROLLBACK", "REPAIR", "RESUME",
                      "FAILED"},
             scope : FailureSeverity \cup {"none"}]

(* "approval" is the hook's answer or CycleInput.auto_approve.             *)
Answers == [checks : SUBSET ValidatingCheck,
            hooks : SUBSET {"execution", "score", "approval"}]
NoAnswers == [checks |-> {}, hooks |-> {}]

Init ==
    /\ work = FreshWork
    /\ security = "NORMAL"
    /\ main = Asleep("none")
    /\ recovery = [at |-> "off", phase |-> "IDLE", scope |-> "none"]
    /\ ledgerHeld = FALSE
    /\ evidenced = "DRAFT"
    /\ answers = NoAnswers

------------------------------------------------------------------------------
(* The Main Loop.                                                          *)

others == <<security, recovery, ledgerHeld>>

(* Slips the runs must catch: the error state is assigned, not entered by  *)
(* transition_to(); the failed hook is awaited again.                      *)
EndCycleForced(w, s, outcome) ==
    /\ work' = Enter(w, s)
    /\ evidenced' = IF w.state = work.state THEN evidenced ELSE w.state
    /\ main' = Asleep(outcome)

EndCycleRetries(w, s, outcome) ==
    /\ work' = w
    /\ evidenced' = IF w.state = work.state THEN evidenced ELSE w.state
    /\ main' = [main EXCEPT !.outcome = outcome]

(* run_cycle() catches an exception raised with the work item at w:        *)
(* _safe_transition(s) swallows a refusal and emits no evidence.           *)
EndCycle(w, s, outcome) ==
    /\ work' = IF May(w, s) THEN Enter(w, s) ELSE w
    /\ evidenced' = IF w.state = work.state THEN evidenced ELSE w.state
    /\ main' = Asleep(outcome)

(* A transition to s from w raises: a missing edge is an unexpected error  *)
(* (FAILED), a guard violation blocks.                                     *)
Refused(w, s) ==
    IF s \in TransitionMap[w.state]
    THEN EndCycle(w, "BLOCKED", "BLOCKED")
    ELSE EndCycle(w, "FAILED", "FAILED")

(* A slip the runs must catch: the transition emits no evidence.           *)
SuspendAtSilently(w, place) ==
    /\ work' = w
    /\ main' = [main EXCEPT !.at = place]
    /\ UNCHANGED evidenced

(* It succeeds and the next hook is awaited.                               *)
SuspendAt(w, place) ==
    /\ work' = w
    /\ evidenced' = w.state
    /\ main' = [main EXCEPT !.at = place]

(* run_continuous() looks at the security state, then awaits its factory.  *)
PollSecurity ==
    /\ main.at = "sleep"
    /\ security # "LOCKDOWN"
    /\ main' = [main EXCEPT !.at = "factory"]
    /\ UNCHANGED <<work, others, evidenced, answers>>

(* The loop counter refuses the cycle before it touches the work item.     *)
CycleCeiling ==
    /\ main.at = "factory"
    /\ main' = Asleep("CEILING")
    /\ UNCHANGED <<work, others, evidenced, answers>>

(* run_cycle() up to its first hook.  given: the fields the CycleInput     *)
(* sets (an empty intent or spec twin sets none).                          *)
BeginCycle(given, auto) ==
    LET clarifying == Setting(Enter(work, "CLARIFYING"), given)
        ready      == Enter(clarifying, "SPEC_READY")
        planning   == Enter(ready, "PLANNING")
        validating == Enter(Setting(planning, PlanningFields), "VALIDATING")
    IN  /\ main.at = "factory"
        /\ answers' = NoAnswers
        /\ UNCHANGED others
        /\ \/ /\ ~May(work, "CLARIFYING")
              /\ Refused(work, "CLARIFYING")
           \/ /\ May(work, "CLARIFYING") /\ ~May(clarifying, "SPEC_READY")
              /\ Refused(clarifying, "SPEC_READY")
           \/ /\ May(work, "CLARIFYING") /\ May(clarifying, "SPEC_READY")
              /\ ~May(ready, "PLANNING")
              /\ Refused(ready, "PLANNING")
           \/ /\ May(work, "CLARIFYING") /\ May(clarifying, "SPEC_READY")
              /\ May(ready, "PLANNING")
              /\ IF security = "LOCKDOWN"
                 THEN EndCycle(Setting(planning, {"risk_checked"}), "FAILED", "FAILED")
                 ELSE /\ work' = validating
                      /\ evidenced' = "VALIDATING"
                      /\ main' = [at |-> "check", next |-> 1, auto |-> auto,
                                  outcome |-> "none"]

(* An awaited check, execution, evaluation or approval answers no, or      *)
(* raises.                                                                 *)
CycleFails ==
    /\ main.at \in {"check", "execution", "evaluation", "approval"}
    /\ EndCycle(work, "FAILED", "FAILED")
    /\ UNCHANGED <<others, answers>>

(* A slip the runs must catch: one check too many is awaited.              *)
LastCheckOffByOne == main.next > NChecks

LastCheck == main.next = NChecks

(* The check passes: the next one is awaited, or the execution hook.       *)
CheckPasses ==
    LET checked == [work EXCEPT !.passed = @ \cup {main.next}]
        run     == Enter(checked, "RUNNING")
    IN  /\ main.at = "check"
        /\ answers' = [answers EXCEPT !.checks = @ \cup {main.next}]
        /\ UNCHANGED others
        /\ IF ~LastCheck
           THEN /\ work' = checked
                /\ main' = [main EXCEPT !.next = @ + 1]
                /\ UNCHANGED evidenced
           ELSE IF May(checked, "RUNNING") THEN SuspendAt(run, "execution")
                                           ELSE Refused(checked, "RUNNING")

(* The work item may have been taken by Recovery meanwhile.                *)
ExecutionSucceeds ==
    /\ main.at = "execution"
    /\ answers' = [answers EXCEPT !.hooks = @ \cup {"execution"}]
    /\ IF May(work, "EVALUATING") THEN SuspendAt(Enter(work, "EVALUATING"), "evaluation")
                                  ELSE Refused(work, "EVALUATING")
    /\ UNCHANGED others

(* A slip the runs must catch: the completion score is not looked at.      *)
FinishCycleUnverified(w) ==
    IF ~May(w, "EXECUTING") THEN Refused(w, "EXECUTING")
    ELSE /\ work' = FreshWork
         /\ evidenced' = "DRAFT"
         /\ main' = Asleep("SUCCESS")

(* _step_executing, _step_verify and _step_monitor: no await suspends.     *)
FinishCycle(w) ==
    LET executing == Enter(w, "EXECUTING")
        verify    == Enter(executing, "VERIFY")
    IN  IF ~May(w, "EXECUTING") THEN Refused(w, "EXECUTING")
        ELSE IF ~May(verify, "MONITOR") THEN Refused(verify, "MONITOR")
        ELSE /\ work' = Enter(Setting(Enter(verify, "MONITOR"), {"system_health_ok"}),
                              "DRAFT")
             /\ evidenced' = "DRAFT"
             /\ main' = Asleep("SUCCESS")

(* The score is set, then approval is granted at once or asked for.        *)
EvaluationReturns(good) ==
    LET met     == IF good THEN {"completion_score"} ELSE {}
        pending == Enter([work EXCEPT !.fields = (@ \ {"completion_score"}) \cup met],
                         "APPROVAL_PENDING")
    IN  /\ main.at = "evaluation"
        /\ answers' = [answers EXCEPT !.hooks =
              @ \cup (IF good THEN {"score"} ELSE {})
                \cup (IF main.auto THEN {"approval"} ELSE {})]
        /\ IF ~May(work, "APPROVAL_PENDING") THEN Refused(work, "APPROVAL_PENDING")
           ELSE IF main.auto THEN FinishCycle(Setting(pending, {"approval_granted"}))
           ELSE SuspendAt(pending, "approval")
        /\ UNCHANGED others

ApprovalGranted ==
    /\ main.at = "approval"
    /\ answers' = [answers EXCEPT !.hooks = @ \cup {"approval"}]
    /\ FinishCycle(Setting(work, {"approval_granted"}))
    /\ UNCHANGED others

HookReturns == \/ CycleFails \/ CheckPasses \/ ExecutionSucceeds \/ ApprovalGranted
               \/ \E good \in BOOLEAN : EvaluationReturns(good)

MainLoop == \/ PollSecurity \/ CycleCeiling \/ HookReturns
            \/ \E given \in SUBSET {"intent", "spec_twin_id"}, auto \in BOOLEAN :
                   BeginCycle(given, auto)

------------------------------------------------------------------------------
(* The Recovery Loop.                                                      *)

(* accept_failure() merges into an open scope or opens one.                *)
AcceptFailure(severity) ==
    /\ recovery' = [recovery EXCEPT !.scope =
                      IF @ = "none" \/ Severity[Target[severity]] > Severity[Target[@]]
                      THEN severity ELSE @]
    /\ UNCHANGED <<work, security, main, ledgerHeld, evidenced, answers>>

(* A slip the runs must catch: the scope outlives a run.                   *)
EndRunKeepsScope(phase) ==
    recovery' = [recovery EXCEPT !.at = "off", !.phase = phase]

(* run() returns or raises: its finally clause drops the scope.            *)
EndRun(phase) == recovery' = [at |-> "off", phase |-> phase, scope |-> "none"]

(* run() up to the replay.  The work item is moved before the security     *)
(* state is raised; only RecoveryFailedError sets the phase to FAILED.     *)
BeginRecovery ==
    LET isolated == Enter(work, "ISOLATED")
    IN  /\ recovery.at = "off" /\ recovery.scope # "none"
        /\ \/ /\ ~May(work, "ISOLATED")
              /\ EndRun("ISOLATE")
              /\ UNCHANGED <<work, security, evidenced>>
           \/ /\ May(work, "ISOLATED")
              /\ security' = Escalated(security, Target[recovery.scope])
              /\ \/ /\ May(isolated, "REPLAY")
                    /\ work' = Enter(isolated, "REPLAY")
                    /\ evidenced' = "REPLAY"
                    /\ recovery' = [recovery EXCEPT !.at = "replay", !.phase = "REPLAY"]
                 \/ /\ ~May(isolated, "REPLAY")
                    /\ work' = isolated
                    /\ evidenced' = "ISOLATED"
                    /\ EndRun("REPLAY")
        /\ UNCHANGED <<main, ledgerHeld, answers>>

(* From the ledger lock to the end of run(), the work item being at w:     *)
(* rollback, repair and resume do not suspend.                             *)
RollbackRepairResume(w) ==
    LET redesign == Enter(w, "REDESIGN")
    IN  \/ /\ ~May(w, "REDESIGN")
           /\ work' = w
           /\ EndRun("REPAIR")
           /\ UNCHANGED security
        \/ /\ May(w, "REDESIGN") /\ security = "LOCKDOWN"
           /\ work' = redesign
           /\ EndRun("FAILED")
           /\ UNCHANGED security
        \/ /\ May(w, "REDESIGN")
           /\ security # "LOCKDOWN" /\ MayDeEscalate(security, "RECOVERY_LOOP")
           /\ security' = "NORMAL"
           /\ work' = IF May(redesign, "RESUME") THEN Enter(redesign, "RESUME")
                                                  ELSE redesign
           /\ EndRun("RESUME")

(* The replay is over; the lock is taken at once, or waited for.           *)
ReplayEnds ==
    /\ recovery.at = "replay"
    /\ \/ /\ ~May(work, "ROOT_CAUSE")
          /\ EndRun("REPLAY")
          /\ UNCHANGED <<work, security>>
       \/ /\ May(work, "ROOT_CAUSE") /\ ledgerHeld
          /\ work' = Enter(work, "ROOT_CAUSE")
          /\ recovery' = [recovery EXCEPT !.at = "lock", !.phase = "ROLLBACK"]
          /\ UNCHANGED security
       \/ /\ May(work, "ROOT_CAUSE") /\ ~ledgerHeld
          /\ RollbackRepairResume(Enter(work, "ROOT_CAUSE"))
    /\ evidenced' = IF work'.state = work.state THEN evidenced ELSE work'.state
    /\ UNCHANGED <<main, ledgerHeld, answers>>

LockAcquired ==
    /\ recovery.at = "lock" /\ ~ledgerHeld
    /\ RollbackRepairResume(work)
    /\ evidenced' = IF work'.state = work.state THEN evidenced ELSE work'.state
    /\ UNCHANGED <<main, ledgerHeld, answers>>

RecoveryLoop == BeginRecovery \/ ReplayEnds \/ LockAcquired

------------------------------------------------------------------------------
(* Everybody else.                                                         *)

(* ForbiddenLedger.check_and_enforce and B1Constitution.enforce.           *)
EscalateSecurity(target) ==
    /\ security' = Escalated(security, target)
    /\ UNCHANGED <<work, main, recovery, ledgerHeld, evidenced, answers>>

(* B1Constitution.release_lockdown(authorized_by="L27_HUMAN").             *)
ReleaseLockdown ==
    /\ security = "LOCKDOWN" /\ MayDeEscalate(security, "HUMAN_OVERRIDE")
    /\ security' = "NORMAL"
    /\ UNCHANGED <<work, main, recovery, ledgerHeld, evidenced, answers>>

(* Another client of the ledger lock; it queues behind a waiting Recovery. *)
OtherClient ==
    /\ IF ledgerHeld THEN TRUE ELSE recovery.at # "lock"
    /\ ledgerHeld' = ~ledgerHeld
    /\ UNCHANGED <<work, security, main, recovery, evidenced, answers>>

(* The operator completes a field a guard of the recovery path reads.      *)
OperatorSets(field) ==
    /\ work' = Setting(work, {field})
    /\ UNCHANGED <<security, main, recovery, ledgerHeld, evidenced, answers>>

(* The operator takes an edge no loop takes, with its evidence.            *)
OperatorMoves(s) ==
    /\ May(work, s)
    /\ work' = Enter(work, s)
    /\ evidenced' = s
    /\ UNCHANGED <<security, main, recovery, ledgerHeld, answers>>

Next ==
    \/ MainLoop
    \/ RecoveryLoop
    \/ \E severity \in FailureSeverity : AcceptFailure(severity)
    \/ \E target \in {"QUARANTINED", "LOCKDOWN"} : EscalateSecurity(target)
    \/ ReleaseLockdown \/ OtherClient
    \/ \E field \in OperatorFields : OperatorSets(field)
    \/ \E s \in OperatorTargets : OperatorMoves(s)

Spec == Init /\ [][Next]_vars

(* Hooks answer, the event loop runs what is ready, and the other clients  *)
(* of the ledger lock release it.                                          *)
FairSpec == Spec /\ WF_vars(HookReturns) /\ WF_vars(RecoveryLoop)
                 /\ WF_vars(ledgerHeld /\ OtherClient)

------------------------------------------------------------------------------
(* Types.                                                                  *)
TypeOK ==
    /\ work \in WorkStateContext
    /\ security \in SecurityStateEnum
    /\ main \in Main
    /\ recovery \in Recovery
    /\ ledgerHeld \in BOOLEAN
    /\ evidenced \in WorkStateEnum
    /\ answers \in Answers

Repaired == {"REDESIGN", "RULE_UPDATE", "SANDBOX", "IMPROVEMENT", "RESUME"}

(* A work item is where it is because every guard on the way there was     *)
(* met and stayed met: M-01..M-06 and M-18 and the whole checklist before  *)
(* it runs, the failure's replay and root cause before it is redesigned,   *)
(* a repair or the full improvement path before it resumes.                *)
WorkIsGated ==
    /\ work.state \in {"VALIDATING", "RUNNING", "EVALUATING", "APPROVAL_PENDING"}
         => {"intent", "spec_twin_id"} \cup PlanningFields \subseteq work.fields
    /\ work.state \in {"RUNNING", "EVALUATING", "APPROVAL_PENDING"}
         => work.passed = ValidatingCheck
    /\ work.state \in {"REPLAY", "ROOT_CAUSE"} \cup Repaired
         => "failure_event_id" \in work.fields
    /\ work.state \in {"ROOT_CAUSE"} \cup Repaired => "replay_complete" \in work.fields
    /\ work.state \in Repaired => "root_cause_identified" \in work.fields
    /\ work.state = "RESUME"
         => \/ "repair_complete" \in work.fields
            \/ {"redesign_approved", "provenance_recorded", "sandbox_passed",
                "improvement_approved"} \subseteq work.fields

(* A cycle reports SUCCESS only if in that cycle all checks passed, the    *)
(* execution succeeded, the score met the threshold and approval was       *)
(* given: nothing left from an earlier cycle, or done by Recovery or an    *)
(* operator while a hook was awaited, stands in for an answer.             *)
SuccessIsEarned ==
    main.outcome = "SUCCESS"
        => answers = [checks |-> ValidatingCheck,
                      hooks  |-> {"execution", "score", "approval"}]

(* The Main Loop awaits a hook and the work item is no longer in the state *)
(* the cycle left it in.                                                   *)
StateAwaiting == [check |-> "VALIDATING", execution |-> "RUNNING",
                  evaluation |-> "EVALUATING", approval |-> "APPROVAL_PENDING"]

Interrupted == /\ main.at \in DOMAIN StateAwaiting
               /\ work.state # StateAwaiting[main.at]

(* Recovery takes a work item only out of the execution hook. The cycle    *)
(* whose item was taken leaves it alone, wherever Recovery and the operator *)
(* have brought it, and reports FAILED.                                    *)
InterruptedCycleYields ==
    [][Interrupted => /\ main.at = "execution"
                      /\ main' # main => /\ work' = work /\ evidenced' = evidenced
                                         /\ main'.outcome = "FAILED"]_vars

(* Between its awaits Recovery finds the work item where it left it.       *)
RecoveryOwnsWork ==
    [][recovery.at # "off" /\ work'.state # work.state => RecoveryLoop]_vars

(* M-07: only the error paths of run_cycle move the work item without an   *)
(* EvidenceBundle.                                                         *)
EvidenceKeepsUp == evidenced # work.state => work.state \in {"FAILED", "BLOCKED"}

(* The security state behaves as SecurityPromise: raised by anybody,       *)
(* lowered only to NORMAL.                                                 *)
Promise == INSTANCE SecurityPromise WITH current <- security
KeepsSecurityPromise == Promise!Spec

(* LOCKDOWN is left by a human override alone: not by Recovery, even one   *)
(* that began before the lockdown, nor by a lesser escalation.             *)
LockdownReleasedByHuman ==
    [][security = "LOCKDOWN" /\ security' # security => ReleaseLockdown]_vars

(* A cycle that has begun ends, whatever Recovery does meanwhile.          *)
CycleEnds == main.at \in DOMAIN StateAwaiting ~> main.at = "sleep"

(* Every accepted failure's scope is closed by a run, on every path of     *)
(* the run that raises as on the one that resumes.                         *)
RecoveryEnds == recovery.scope # "none" ~> recovery.scope = "none"

------------------------------------------------------------------------------
(* What the documents say and the code does not do.                        *)

(* failure_taxonomy.md 1.2 and 5: a CRITICAL failure locks the system      *)
(* down when its recovery starts.                                          *)
CriticalLocksDown ==
    [][BeginRecovery /\ recovery.scope = "CRITICAL" => security' = "LOCKDOWN"]_vars

(* security_state.py: in LOCKDOWN there are no automated actions: the Main *)
(* Loop moves the work item to an error state only.                        *)
NoAutomatedActionInLockdown ==
    [][MainLoop /\ security = "LOCKDOWN" /\ work'.state # work.state
         => work'.state \in {"FAILED", "BLOCKED"}]_vars
=============================================================================
