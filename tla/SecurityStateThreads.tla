-------------------------- MODULE SecurityStateThreads --------------------------
(***************************************************************************)
(* One SecurityStateContext whose escalate() is called from several        *)
(* threads: it compares with the current state before it takes the         *)
(* threading.Lock; only the assignment is inside it, so a call is two      *)
(* steps.                                                                  *)
(***************************************************************************)
EXTENDS SecurityState

CONSTANTS Threads,
          EscalationTargets   \* what the threads escalate to

VARIABLES
    current,    \* SecurityStateContext.current
    pending,    \* [Threads -> the state the thread is about to assign]
    calls       \* [Threads -> "none", "one"]: bound, one call per thread

vars == <<current, pending, calls>>

Init ==
    /\ current = "NORMAL"
    /\ pending = [t \in Threads |-> "idle"]
    /\ calls = [t \in Threads |-> "none"]

Call(t) == /\ calls[t] = "none"
           /\ calls' = [calls EXCEPT ![t] = "one"]

(* escalate(): the comparison, outside the lock.                           *)
Escalate(t, target) ==
    /\ Call(t)
    /\ pending' = IF Escalated(current, target) = current THEN pending
                  ELSE [pending EXCEPT ![t] = target]
    /\ UNCHANGED current

(* _do_transition(), under the lock.                                       *)
DoTransition(t) ==
    /\ pending[t] # "idle"
    /\ current' = pending[t]
    /\ pending' = [pending EXCEPT ![t] = "idle"]
    /\ UNCHANGED calls

Next == \E t \in Threads :
    \/ \E target \in EscalationTargets : Escalate(t, target)
    \/ DoTransition(t)

Spec == Init /\ [][Next]_vars

------------------------------------------------------------------------------
Promise == INSTANCE SecurityPromise

(* The security state is never lowered by an escalation ("already at same  *)
(* or higher restriction - no-op"; LOCKDOWN is left by a human only).      *)
KeepsSecurityPromise == Promise!Spec
=============================================================================
