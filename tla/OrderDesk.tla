------------------------------- MODULE OrderDesk -------------------------------
(***************************************************************************)
(* What the seal chain promises the exchange, however many requests it     *)
(* serves at once: one desk that a single request holds at a time. It is   *)
(* given out once per request, while the security state is clear, within   *)
(* the budget, and for a fingerprint that nobody was given or refused      *)
(* during the cooldown; nothing else moves while it is held. The order     *)
(* that leaves it is answered or times out, once.                          *)
(***************************************************************************)
EXTENDS Naturals, FiniteSets, SecurityState

CONSTANTS Requests, Keys, ApiLimit, Cooldown, Timeout, None

VARIABLES
    security,   \* the security state
    desk,       \* the request that holds the desk, or None
    name,       \* per request: the fingerprint it held the desk for, or None
    since,      \* per fingerprint: time since the desk was given or refused for it
    order,      \* per request: what became of its order
    waited      \* per request: time since its order was sent

vars == <<security, desk, name, since, order, waited>>

--------------------------------------------------------------------------------
Init ==
    /\ security = "NORMAL"
    /\ desk = None
    /\ name = [r \in Requests |-> None]
    /\ since = [k \in Keys |-> Cooldown + 1]
    /\ order = [r \in Requests |-> "none"]
    /\ waited = [r \in Requests |-> 0]

Rested(k) == since[k] >= Cooldown

Given == {r \in Requests : name[r] # None}

Give(r, k) ==
    /\ desk = None /\ name[r] = None
    /\ security \in {"NORMAL", "RESTRICTED"}
    /\ Rested(k)
    /\ Cardinality(Given \cup {r}) < ApiLimit
    /\ desk' = r
    /\ name' = [name EXCEPT ![r] = k]
    /\ since' = [since EXCEPT ![k] = 0]
    /\ UNCHANGED <<security, order, waited>>

(* A refusal starts the cooldown too, but never extends one.               *)
Refuse(k) ==
    /\ desk = None /\ Rested(k)
    /\ since' = [since EXCEPT ![k] = 0]
    /\ UNCHANGED <<security, desk, name, order, waited>>

(* The holder leaves without an order, with a dry one, or sends one.       *)
Leave(r, became) ==
    /\ desk = r /\ order[r] = "none"
    /\ desk' = None
    /\ order' = [order EXCEPT ![r] = became]
    /\ waited' = IF became = "PENDING" THEN [waited EXCEPT ![r] = 0] ELSE waited
    /\ UNCHANGED <<security, name, since>>

Pending == {r \in Requests : order[r] = "PENDING"}

(* An answer, or the timeout exactly when it is due.                       *)
End(r, became) ==
    /\ desk = None /\ r \in Pending
    /\ became = "TIMEOUT" => waited[r] = Timeout
    /\ order' = [order EXCEPT ![r] = became]
    /\ UNCHANGED <<security, desk, name, since, waited>>

SecurityMoves ==
    /\ desk = None
    /\ security' \in SecurityStateEnum
    /\ UNCHANGED <<desk, name, since, order, waited>>

Tick ==
    /\ desk = None
    /\ \A r \in Pending : waited[r] < Timeout
    /\ since' = [k \in Keys |-> IF since[k] <= Cooldown THEN since[k] + 1 ELSE since[k]]
    /\ waited' = [r \in Requests |-> IF r \in Pending THEN waited[r] + 1 ELSE waited[r]]
    /\ UNCHANGED <<security, desk, name, order>>

Next ==
    \/ \E k \in Keys : Refuse(k) \/ \E r \in Requests : Give(r, k)
    \/ \E r \in Requests :
        \/ \E became \in {"none", "DRY", "PENDING"} : Leave(r, became)
        \/ \E became \in {"FILLED", "ERROR", "TIMEOUT"} : End(r, became)
    \/ SecurityMoves
    \/ Tick

Spec == Init /\ [][Next]_vars
=============================================================================
