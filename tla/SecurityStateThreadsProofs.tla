----------------------- MODULE SecurityStateThreadsProofs -----------------------
(***************************************************************************)
(* Where the comparison outside the lock is harmless: any number of        *)
(* threads that all escalate to one state keep the promise, as in the      *)
(* repository's test of ten threads that raise a lockdown.  What the run   *)
(* security_threads finds needs two targets.                               *)
(***************************************************************************)
EXTENDS SecurityStateThreads, TLAPS

(* A thread that has called and has nothing left to assign has returned.   *)
Returned(t) == calls[t] = "one" /\ pending[t] = "idle"

(* Only that state is ever reached or about to be assigned, and it is      *)
(* assigned before a thread returns.                                       *)
OneTarget(target) ==
    /\ pending \in [Threads -> {"idle", target}]
    /\ calls \in [Threads -> {"none", "one"}]
    /\ current \in {"NORMAL", target}
    /\ target = "NORMAL" => \A t \in Threads : pending[t] = "idle"
    /\ \A t \in Threads : Returned(t) => current = target

LEMMA OneTargetInit ==
  ASSUME NEW target \in SecurityStateEnum
  PROVE  Init => OneTarget(target) /\ Promise!Init
  BY DEF Init, OneTarget, Returned, Promise!Init, SecurityStateEnum, Severity

LEMMA OneTargetNext ==
  ASSUME NEW target \in SecurityStateEnum, EscalationTargets = {target},
         OneTarget(target), [Next]_vars
  PROVE  OneTarget(target)' /\ [Promise!Next]_current
<1>0. target \in {"NORMAL", "RESTRICTED", "QUARANTINED", "LOCKDOWN"}
  BY DEF SecurityStateEnum, Severity
<1>1. ASSUME NEW t \in Threads, Escalate(t, target)
      PROVE  OneTarget(target)' /\ current' = current
  <2>1. current' = current /\ calls' = [calls EXCEPT ![t] = "one"]
    BY <1>1 DEF Escalate, Call
  <2>2. \/ current = target /\ pending' = pending
        \/ target # "NORMAL" /\ pending' = [pending EXCEPT ![t] = target]
    BY <1>0, <1>1 DEF Escalate, Escalated, OneTarget, Severity
  <2>3. target # "idle"
    BY <1>0
  <2>4. \A u \in Threads : Returned(u)' => current' = target
    BY <2>1, <2>2, <2>3 DEF OneTarget, Returned
  <2> QED BY <2>1, <2>2, <2>4 DEF OneTarget
<1>2. ASSUME NEW t \in Threads, DoTransition(t)
      PROVE  OneTarget(target)' /\ [Promise!Next]_current
  <2>1. /\ pending[t] = target /\ target # "NORMAL" /\ current' = target
        /\ pending' = [pending EXCEPT ![t] = "idle"] /\ calls' = calls
    BY <1>2 DEF DoTransition, OneTarget
  <2>2. OneTarget(target)'
    BY <2>1 DEF OneTarget
  <2>3. ASSUME current = "NORMAL" PROVE Promise!Next
    BY <1>0, <2>1, <2>3 DEF Promise!Next, Promise!Raise, Promise!Level
  <2> QED BY <2>1, <2>2, <2>3 DEF OneTarget
<1>3. CASE UNCHANGED vars
  BY <1>3 DEF vars, OneTarget, Returned
<1> QED BY <1>1, <1>2, <1>3 DEF Next

(* Threads that escalate to the same state never lower the security state, *)
(* however their comparisons and their assignments interleave.             *)
THEOREM OneTargetKeepsPromise ==
  ASSUME NEW target \in SecurityStateEnum, EscalationTargets = {target}
  PROVE  Spec => KeepsSecurityPromise
  BY OneTargetInit, OneTargetNext, PTL DEF Spec, KeepsSecurityPromise, Promise!Spec

(* And the state they escalate to is in force from the first return on.    *)
THEOREM OneTargetIsReached ==
  ASSUME NEW target \in SecurityStateEnum, EscalationTargets = {target}
  PROVE  Spec => [](\A t \in Threads : Returned(t) => current = target)
<1>1. OneTarget(target) => \A t \in Threads : Returned(t) => current = target
  BY DEF OneTarget
<1> QED BY <1>1, OneTargetInit, OneTargetNext, PTL DEF Spec
=============================================================================
