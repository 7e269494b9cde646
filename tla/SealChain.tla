------------------------------- MODULE SealChain -------------------------------
(***************************************************************************)
(* The seal chain: AgentOrchestrator.execute (app/agents/orchestrator.py)  *)
(* with the governance gate, the action, execution and submit ledgers and  *)
(* the order executor it shares with the other requests of the process.    *)
(* Every request runs on one event loop and gives way only while it awaits *)
(* the signal validator, the risk manager or the exchange; between those   *)
(* awaits it is "running" and nothing else takes a step.                   *)
(*                                                                         *)
(* A fingerprint (task type, symbol, exchange, size bucket) is a member of *)
(* Keys, known once the risk manager has named a size. One tick of time is *)
(* the exchange timeout (30 s); ages saturate above the cooldown (60 s).   *)
(***************************************************************************)
EXTENDS Naturals, FiniteSets, Sequences, SecurityState

CONSTANTS
    Requests,     \* the requests of one process
    Keys,         \* fingerprints
    OverSized,    \* fingerprints whose size exceeds max_position_usd
    Unsupported,  \* fingerprints whose exchange is not in SUPPORTED_EXCHANGES_ALL
    ApiLimit,     \* limit of the API_CALLS budget (1000 in main.py)
    MaxBuffer,    \* proposals a ledger buffers before it flushes (1000)
    KeepLast,     \* entries a history file keeps (500)
    Cooldown,     \* FINGERPRINT_COOLDOWN_SECONDS, in ticks
    Timeout,      \* default_timeout of the executor, in ticks
    None

ASSUME RequestAssumption == IsFiniteSet(Requests)
ASSUME KeyAssumption == OverSized \subseteq Keys /\ Unsupported \subseteq Keys
ASSUME LimitAssumption ==
    ApiLimit \in Nat /\ MaxBuffer \in Nat \ {0} /\ KeepLast \in Nat \ {0}
ASSUME TimeAssumption == Cooldown \in Nat /\ Timeout \in Nat /\ Timeout < Cooldown
ASSUME NoneAssumption == None \notin Requests \cup Keys

VARIABLES
    running,   \* the request between two awaits, or None
    pc,        \* where each request stands
    key,       \* its fingerprint, None before the risk manager's answer
    status,    \* per ledger and request: the proposal's status
    age,       \* per ledger and fingerprint: time since it was last recorded
    buffer,    \* per ledger: the proposals in memory
    history,   \* per ledger: the entries of its history file
    evidence,  \* per request: the evidence bundles stored for it
    apiCalls,  \* usage recorded against the API_CALLS budget
    security,  \* SecurityStateContext.current
    order,     \* per request: the status of its OrderResult
    orderAge   \* per request: time since create_order was called

ledgers == <<status, age, buffer, history>>
orders == <<order, orderAge>>
vars == <<running, pc, key, ledgers, evidence, apiCalls, security, orders>>

--------------------------------------------------------------------------------
(* The vocabulary of the chain.                                            *)

Ledgers == {"agent", "exec", "submit"}

Status == {"NONE", "BLOCKED", "GUARDED", "RECEIPTED"}

Never == Cooldown + 1

(* A slip the runs must catch: only the lockdown is looked at.             *)
NotLockedDown == security # "LOCKDOWN"

(* FORBIDDEN_CHECK, LOCKDOWN_CHECK and LOCKDOWN_FINAL.                     *)
SecurityClear == security \notin {"LOCKDOWN", "QUARANTINED"}

(* classify_recurrence: a second failure within the window is a PATTERN.   *)
Failures == {r \in Requests : "ERROR" \in evidence[r]}
PatternDetected == Cardinality(Failures) >= 2

(* The checks of each ledger's guard; risk approval and pre-check evidence *)
(* hold for every request that gets there.                                 *)
AtMostBudget == apiCalls <= ApiLimit   \* a slip: the comparison of pre_check
WithinBudget == apiCalls < ApiLimit
SizeBound(k) == k \notin OverSized

GuardChecks(l, r) ==
    CASE l = "agent" -> SizeBound(key[r])
      [] l = "exec" -> /\ status["agent"][r] = "RECEIPTED"
                       /\ WithinBudget /\ SecurityClear /\ SizeBound(key[r])
      [] l = "submit" -> /\ status["exec"][r] = "RECEIPTED"
                         /\ WithinBudget /\ SecurityClear /\ SizeBound(key[r])
                         /\ key[r] \notin Unsupported

(* What else turns a proposal down: an approval that is not literally True *)
(* at the agent tier, a spent LLM_TOKENS budget at the execution tier; the *)
(* submit tier reads the same values again.                                *)
MayFail(l, r) == l \in {"agent", "exec"} \/ ~GuardChecks(l, r)

(* A slip the runs must catch: an order on execution_ready alone.          *)
FollowingUnsubmitted(l) == CASE l = "agent" -> "exec" [] l = "exec" -> "ordering"
                             [] l = "submit" -> "ordering"

Following(l) == CASE l = "agent" -> "exec" [] l = "exec" -> "submit"
                  [] l = "submit" -> "ordering"

(* _is_duplicate compares seconds: on the tick of the boundary it may go   *)
(* either way.                                                             *)
Duplicate(l, k) == age[l][k] <= Cooldown
FreshEarly(l, k) == age[l][k] >= Timeout   \* a slip: the other limit
Fresh(l, k) == age[l][k] >= Cooldown

--------------------------------------------------------------------------------
Init ==
    /\ running = None
    /\ pc = [r \in Requests |-> "new"]
    /\ key = [r \in Requests |-> None]
    /\ status = [l \in Ledgers |-> [r \in Requests |-> "NONE"]]
    /\ age = [l \in Ledgers |-> [k \in Keys |-> Never]]
    /\ buffer = [l \in Ledgers |-> << >>]
    /\ history = [l \in Ledgers |-> << >>]
    /\ evidence = [r \in Requests |-> {}]
    /\ apiCalls = 0
    /\ security = "NORMAL"
    /\ order = [r \in Requests |-> "none"]
    /\ orderAge = [r \in Requests |-> 0]

(* execute's except clause stores error evidence. A slip: it does not.     *)
QuietError == {}
ErrorEvidence == {"ERROR"}

(* The request's coroutine returns, having stored the given bundles.       *)
Return(r, bundles) ==
    /\ pc' = [pc EXCEPT ![r] = "done"]
    /\ running' = None
    /\ evidence' = [evidence EXCEPT ![r] = @ \cup bundles]

(* pre_check, up to the first await of execute: the validator's if the     *)
(* task names a signal, else the risk manager's.                           *)
PreCheckAllows(r) ==
    /\ running = None /\ pc[r] = "new"
    /\ SecurityClear /\ ~PatternDetected /\ apiCalls <= ApiLimit
    /\ \E await \in {"validating", "assessing"} : pc' = [pc EXCEPT ![r] = await]
    /\ evidence' = [evidence EXCEPT ![r] = {"PRE"}]
    /\ UNCHANGED <<running, key, ledgers, apiCalls, security, orders>>

(* Any task may be turned away: it may lack its symbol or its exchange.    *)
PreCheckBlocks(r) ==
    /\ running = None /\ pc[r] = "new"
    /\ Return(r, {})
    /\ UNCHANGED <<key, ledgers, apiCalls, security, orders>>

(* pre_check of a forbidden task type: check_and_enforce escalates.        *)
PreCheckForbids(r) ==
    /\ running = None /\ pc[r] = "new" /\ SecurityClear
    /\ \E target \in {"LOCKDOWN", "QUARANTINED"} : security' = Escalated(security, target)
    /\ Return(r, {})
    /\ UNCHANGED <<key, ledgers, apiCalls, orders>>

(* The validator approves, or the signal's row is gone.                    *)
ValidationPasses(r) ==
    /\ running = None /\ pc[r] = "validating"
    /\ pc' = [pc EXCEPT ![r] = "assessing"]
    /\ UNCHANGED <<running, key, ledgers, evidence, apiCalls, security, orders>>

(* The validator or the risk manager says no: post_record, with its usage  *)
(* (an answer of either LLM provider reports its tokens).                  *)
AgentRejects(r) ==
    /\ running = None /\ pc[r] \in {"validating", "assessing"}
    /\ apiCalls' = apiCalls + 1
    /\ Return(r, {"POST"})
    /\ UNCHANGED <<key, ledgers, security, orders>>

(* The awaited call raises: post_record_error, which feeds the pattern     *)
(* memory; no usage is recorded.                                           *)
AgentRaises(r) ==
    /\ running = None /\ pc[r] \in {"validating", "assessing"}
    /\ Return(r, ErrorEvidence)
    /\ UNCHANGED <<key, ledgers, apiCalls, security, orders>>

(* The risk manager approves a size; the ledgers follow without an await.  *)
RiskApproves(r) ==
    /\ running = None /\ pc[r] = "assessing"
    /\ \E k \in Keys : key' = [key EXCEPT ![r] = k]
    /\ running' = r
    /\ pc' = [pc EXCEPT ![r] = "agent"]
    /\ UNCHANGED <<ledgers, evidence, apiCalls, security, orders>>

--------------------------------------------------------------------------------
(* propose_and_guard of a ledger, and what execute does with its answer.   *)

(* The agent tier closes the pre-check's evidence, blocked or not; the     *)
(* later tiers store nothing more.                                         *)
NoPostRecord(l) == {}   \* a slip
PostRecord(l) == IF l = "agent" THEN {"POST"} ELSE {}

SuppressDuplicate(l, r) ==
    /\ running = r /\ pc[r] = l /\ Duplicate(l, key[r])
    /\ status' = [status EXCEPT ![l][r] = "BLOCKED"]
    /\ buffer' = [buffer EXCEPT ![l] = Append(@, r)]
    /\ Return(r, PostRecord(l))
    /\ UNCHANGED <<key, age, history, apiCalls, security, orders>>

LastEntries(s) ==
    IF Len(s) <= KeepLast THEN s ELSE SubSeq(s, Len(s) - KeepLast + 1, Len(s))

(* The fingerprint is recorded, the proposal is buffered and a buffer over *)
(* its limit is flushed: while the proposal is still only guarded.         *)
Store(l, r, guarded) ==
    LET full == Append(buffer[l], r)
        entry(p) == [request |-> p, status |-> IF p = r THEN guarded ELSE status[l][p]]
        written == [i \in 1 .. Len(full) |-> entry(full[i])]
    IN  /\ age' = [age EXCEPT ![l][key[r]] = 0]
        /\ IF Len(full) <= MaxBuffer
           THEN buffer' = [buffer EXCEPT ![l] = full] /\ UNCHANGED history
           ELSE /\ buffer' = [buffer EXCEPT ![l] = << >>]
                /\ history' = [history EXCEPT ![l] = LastEntries(@ \o written)]

BlockProposal(l, r) ==
    /\ running = r /\ pc[r] = l /\ Fresh(l, key[r]) /\ MayFail(l, r)
    /\ status' = [status EXCEPT ![l][r] = "BLOCKED"]
    /\ Store(l, r, "BLOCKED")
    /\ Return(r, PostRecord(l))
    /\ UNCHANGED <<key, apiCalls, security, orders>>

(* The guard passes and record_receipt follows; in the agent tier          *)
(* post_record comes in between and records the risk manager's usage.      *)
PassGuard(l, r) ==
    /\ running = r /\ pc[r] = l /\ Fresh(l, key[r]) /\ GuardChecks(l, r)
    /\ Store(l, r, "GUARDED")
    /\ status' = [status EXCEPT ![l][r] = "RECEIPTED"]
    /\ evidence' = [evidence EXCEPT ![r] = @ \cup PostRecord(l)]
    /\ apiCalls' = IF l = "agent" THEN apiCalls + 1 ELSE apiCalls
    /\ pc' = [pc EXCEPT ![r] = Following(l)]
    /\ UNCHANGED <<running, key, security, orders>>

(* The flush raises out of propose_and_guard: the proposal stays where the *)
(* guard left it and execute stores error evidence.                        *)
FlushRaises(l, r) ==
    /\ running = r /\ pc[r] = l /\ Fresh(l, key[r]) /\ Len(buffer[l]) >= MaxBuffer
    /\ \/ GuardChecks(l, r) /\ status' = [status EXCEPT ![l][r] = "GUARDED"]
       \/ MayFail(l, r) /\ status' = [status EXCEPT ![l][r] = "BLOCKED"]
    /\ age' = [age EXCEPT ![l][key[r]] = 0]
    /\ buffer' = [buffer EXCEPT ![l] = Append(@, r)]
    /\ Return(r, ErrorEvidence)
    /\ UNCHANGED <<key, history, apiCalls, security, orders>>

--------------------------------------------------------------------------------
(* Step 5.75 and Step 6 of execute.                                        *)

PPFDenies(r) ==
    /\ running = r /\ pc[r] = "ordering"
    /\ Return(r, {})
    /\ UNCHANGED <<key, ledgers, apiCalls, security, orders>>

DryRun(r) ==
    /\ running = r /\ pc[r] = "ordering"
    /\ order' = [order EXCEPT ![r] = "DRY"]
    /\ Return(r, {})
    /\ UNCHANGED <<key, ledgers, apiCalls, security, orderAge>>

CreateOrder(r) ==
    /\ running = r /\ pc[r] = "ordering"
    /\ order' = [order EXCEPT ![r] = "PENDING"]
    /\ orderAge' = [orderAge EXCEPT ![r] = 0]
    /\ pc' = [pc EXCEPT ![r] = "inflight"]
    /\ running' = None
    /\ UNCHANGED <<key, ledgers, evidence, apiCalls, security>>

ExchangeAnswers(r) ==
    /\ running = None /\ pc[r] = "inflight"
    /\ \E answer \in {"FILLED", "ERROR"} : order' = [order EXCEPT ![r] = answer]
    /\ Return(r, {})
    /\ UNCHANGED <<key, ledgers, apiCalls, security, orderAge>>

(* wait_for gives up. A slip: it is armed for one tick too many.           *)
ExpiredLate(r) == orderAge[r] > Timeout
Expired(r) == orderAge[r] = Timeout

TimesOut(r) ==
    /\ running = None /\ pc[r] = "inflight" /\ Expired(r)
    /\ order' = [order EXCEPT ![r] = "TIMEOUT"]
    /\ Return(r, {})
    /\ UNCHANGED <<key, ledgers, apiCalls, security, orderAge>>

--------------------------------------------------------------------------------
(* The rest of the process, and time.                                      *)

SecurityMoves ==
    /\ running = None
    /\ \/ \E target \in SecurityStateEnum : security' = Escalated(security, target)
       \/ security' = "NORMAL"
    /\ UNCHANGED <<running, pc, key, ledgers, evidence, apiCalls, orders>>

Pending == {r \in Requests : order[r] = "PENDING"}

(* A slip the runs must catch: the exchange is called without wait_for.    *)
NoTimers == TRUE

(* Timers fire on their tick.                                              *)
TimersFire == \A r \in Pending : orderAge[r] < Timeout

Tick ==
    /\ running = None
    /\ TimersFire
    /\ age' = [l \in Ledgers |-> [k \in Keys |->
                  IF age[l][k] < Never THEN age[l][k] + 1 ELSE Never]]
    /\ orderAge' = [r \in Requests |->
                       IF r \in Pending THEN orderAge[r] + 1 ELSE orderAge[r]]
    /\ UNCHANGED <<running, pc, key, status, buffer, history, evidence, apiCalls,
                   security, order>>

PreCheck(r) == PreCheckAllows(r) \/ PreCheckBlocks(r) \/ PreCheckForbids(r)

(* What an awaited agent call ends in.                                     *)
AgentAnswers(r) ==
    ValidationPasses(r) \/ AgentRejects(r) \/ AgentRaises(r) \/ RiskApproves(r)

Guard(l, r) ==
    SuppressDuplicate(l, r) \/ BlockProposal(l, r) \/ PassGuard(l, r) \/ FlushRaises(l, r)

Ordering(r) == PPFDenies(r) \/ DryRun(r) \/ CreateOrder(r)

Next ==
    \/ \E r \in Requests :
         \/ PreCheck(r) \/ AgentAnswers(r)
         \/ \E l \in Ledgers : Guard(l, r)
         \/ Ordering(r) \/ ExchangeAnswers(r) \/ TimesOut(r)
    \/ SecurityMoves
    \/ Tick

Spec == Init /\ [][Next]_vars

(* The loop runs a coroutine that is ready, the agents' clients and        *)
(* wait_for bound their calls, and time passes.                            *)
FairSpec ==
    /\ Spec
    /\ \A r \in Requests :
         /\ WF_vars(AgentAnswers(r))
         /\ WF_vars(\E l \in Ledgers : Guard(l, r))
         /\ WF_vars(Ordering(r))
         /\ WF_vars(TimesOut(r))
    /\ WF_vars(Tick)

--------------------------------------------------------------------------------
Places == {"new", "validating", "assessing", "ordering", "inflight", "done"} \cup Ledgers

Entries == [request : Requests, status : Status]

(* Every variable has its type.                                            *)
TypeOK ==
    /\ running \in Requests \cup {None}
    /\ pc \in [Requests -> Places]
    /\ key \in [Requests -> Keys \cup {None}]
    /\ status \in [Ledgers -> [Requests -> Status]]
    /\ age \in [Ledgers -> [Keys -> 0 .. Never]]
    /\ buffer \in [Ledgers -> Seq(Requests)]
    /\ history \in [Ledgers -> Seq(Entries)]
    /\ evidence \in [Requests -> SUBSET {"PRE", "POST", "ERROR"}]
    /\ apiCalls \in Nat
    /\ security \in SecurityStateEnum
    /\ order \in [Requests -> {"none", "DRY", "PENDING", "FILLED", "ERROR", "TIMEOUT"}]
    /\ orderAge \in [Requests -> 0 .. Timeout]

(* Whatever the other requests do to the ledgers they share, an order, dry *)
(* or not, has a receipt of all three and the evidence of an allowed       *)
(* pre-check that post_record has closed.                                  *)
SealedLineage ==
    \A r \in Requests : order[r] # "none" =>
        /\ \A l \in Ledgers : status[l][r] = "RECEIPTED"
        /\ {"PRE", "POST"} \subseteq evidence[r]

(* The duplicate suppression and the executor's timeout together: no two   *)
(* orders of one fingerprint are at the exchange at the same time.         *)
OneOrderInFlight ==
    \A r, q \in Pending : key[r] = key[q] => r = q

(* Requests that passed the pre-check side by side still cannot order past *)
(* the budget: each order's own call is recorded before its last guards.   *)
Ordered == {r \in Requests : order[r] # "none"}
OrdersWithinBudget == Ordered # {} => Cardinality(Ordered) < ApiLimit

(* No allowed pre-check is left an orphan by a return of execute, whichever*)
(* of the guards, agents or files ended it.                                *)
PreChecksAreClosed ==
    \A r \in Requests :
        pc[r] = "done" /\ "PRE" \in evidence[r] => evidence[r] # {"PRE"}

(* A proposal the board shows as guarded without a receipt belongs to a    *)
(* request that ended in an error.                                         *)
OrphansAreErrors ==
    \A r \in Requests, l \in Ledgers :
        status[l][r] = "GUARDED" => r \in Failures

(* A lockdown or quarantine raised while the request awaited its agents    *)
(* stops its order, although its pre-check had passed.                     *)
NoOrderInLockdown ==
    [][\A r \in Requests : r \notin Pending /\ r \in Pending'
           => security \in {"NORMAL", "RESTRICTED"}]_vars

(* To the exchange, the guards of all requests together are one desk:      *)
(* whatever was checked before an await holds when the order leaves, and a *)
(* fingerprint rests for the cooldown between two claims to it, also when  *)
(* its order timed out or its proposal was refused.                        *)
Desk == INSTANCE OrderDesk WITH
    desk <- IF running # None /\ pc[running] = "ordering" THEN running ELSE None,
    name <- [r \in Requests |-> IF status["submit"][r] = "RECEIPTED" THEN key[r] ELSE None],
    since <- age["submit"],
    waited <- orderAge
OrdersLeaveOneDesk == Desk!Spec

(* Every request that begins gets its response.                            *)
RequestsEnd == \A r \in Requests : (pc[r] # "new") ~> (pc[r] = "done")
=============================================================================
