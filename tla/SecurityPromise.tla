---------------------------- MODULE SecurityPromise ----------------------------
(* The abstract specification of the security state: whoever calls it, it  *)
(* is raised one call at a time and comes down only to NORMAL, from a      *)
(* lockdown by a release and otherwise by a recovery.                      *)
EXTENDS Naturals

Level == [NORMAL |-> 0, RESTRICTED |-> 1, QUARANTINED |-> 2, LOCKDOWN |-> 3]

VARIABLE current

Init == current = "NORMAL"

Raise == \E state \in DOMAIN Level : Level[state] > Level[current] /\ current' = state

Recover == current # "LOCKDOWN" /\ current' = "NORMAL"

Release == current = "LOCKDOWN" /\ current' = "NORMAL"

Next == Raise \/ Recover \/ Release

Spec == Init /\ [][Next]_current
=============================================================================
