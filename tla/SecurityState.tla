----------------------------- MODULE SecurityState -----------------------------
(***************************************************************************)
(* The security state (src/kdexter/state_machine/security_state.py): its   *)
(* order, escalate() and the check of de_escalate().                       *)
(***************************************************************************)
EXTENDS Naturals

Severity == [NORMAL |-> 0, RESTRICTED |-> 1, QUARANTINED |-> 2, LOCKDOWN |-> 3]

SecurityStateEnum == DOMAIN Severity

Authorities == {"HUMAN_OVERRIDE", "RECOVERY_LOOP"}

(* A slip the runs must catch: the comparison is dropped.                  *)
EscalatedAlways(current, target) == target

(* escalate(): a no-op at the same or a higher restriction.                *)
Escalated(current, target) ==
    IF Severity[target] <= Severity[current] THEN current ELSE target

(* The check of de_escalate(): only a human override leaves LOCKDOWN.      *)
MayDeEscalate(current, authority) ==
    current = "LOCKDOWN" => authority = "HUMAN_OVERRIDE"
=============================================================================
