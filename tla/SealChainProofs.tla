---------------------------- MODULE SealChainProofs ----------------------------
(* Safety of the seal chain, for any requests, fingerprints, budget and    *)
(* buffer, and for any timeout shorter than the cooldown.                  *)
EXTENDS SealChain, FiniteSetTheorems, SequenceTheorems, TLAPS

(* Only the running request stands between two awaits.                     *)
Between == {"ordering"} \cup Ledgers
OneRuns == \A r \in Requests : pc[r] \in Between => running = r

(* The evidence and the receipts a request has when it reaches a place.    *)
Receipted(l, r) == status[l][r] = "RECEIPTED"
Reached(r) ==
    /\ pc[r] = "new" => evidence[r] = {} /\ \A l \in Ledgers : status[l][r] = "NONE"
    /\ pc[r] \notin {"new", "done"} => "PRE" \in evidence[r]
    /\ pc[r] \in Between \cup {"inflight"} => key[r] \in Keys
    /\ pc[r] \in {"exec", "submit", "ordering", "inflight"} =>
           Receipted("agent", r) /\ "POST" \in evidence[r]
    /\ pc[r] \in {"submit", "ordering", "inflight"} => Receipted("exec", r)
    /\ pc[r] \in {"ordering", "inflight"} => Receipted("submit", r)
    /\ Receipted("submit", r) => /\ Receipted("agent", r) /\ Receipted("exec", r)
                                 /\ pc[r] \in {"ordering", "inflight", "done"}
    /\ order[r] # "none" => pc[r] \in {"inflight", "done"}
    /\ order[r] = "PENDING" <=> pc[r] = "inflight"
AllReached == \A r \in Requests : Reached(r)

(* While an order waits, nobody has recorded its fingerprint again: the    *)
(* submit ledger's clock for it shows the time since the order was made.   *)
ClockAgrees ==
    \A r \in Requests :
        /\ pc[r] = "ordering" => age["submit"][key[r]] = 0
        /\ r \in Pending => age["submit"][key[r]] = orderAge[r]

(* The request about to order has a fingerprint that no order waits with.  *)
OthersWaitElsewhere ==
    \A r \in Requests, q \in Pending : pc[r] = "ordering" => key[r] # key[q]

(* Each request the agent tier has receipted has paid for its call, and    *)
(* the requests past the submit tier fit in the budget.                    *)
Paid == {r \in Requests : Receipted("agent", r)}
Passed == {r \in Requests : Receipted("submit", r)}
BudgetCounts ==
    /\ Cardinality(Paid) <= apiCalls
    /\ Passed # {} => Cardinality(Passed) < ApiLimit

IInv ==
    /\ TypeOK /\ OneRuns /\ AllReached
    /\ SealedLineage /\ PreChecksAreClosed /\ OrphansAreErrors
    /\ ClockAgrees /\ OthersWaitElsewhere /\ OneOrderInFlight
    /\ BudgetCounts

--------------------------------------------------------------------------------
(* Type correctness.                                                       *)

LEMMA LastEntriesType ==
  ASSUME NEW s \in Seq(Entries)
  PROVE  LastEntries(s) \in Seq(Entries)
  <1>1. CASE Len(s) <= KeepLast
    BY <1>1 DEF LastEntries
  <1>2. CASE ~(Len(s) <= KeepLast)
    <2>1. /\ Len(s) \in Nat
          /\ Len(s) - KeepLast + 1 \in 1 .. Len(s) + 1
      BY <1>2, LimitAssumption, LenProperties
    <2>2. SubSeq(s, Len(s) - KeepLast + 1, Len(s)) \in Seq(Entries)
      BY <2>1, SubSeqProperties
    <2>. QED
      BY <1>2, <2>2 DEF LastEntries
  <1>. QED
    BY <1>1, <1>2

LEMMA StoreTypes ==
  ASSUME TypeOK, NEW l \in Ledgers, NEW r \in Requests, NEW guarded \in Status,
         key[r] \in Keys, Store(l, r, guarded)
  PROVE  /\ age' = [age EXCEPT ![l][key[r]] = 0]
         /\ age' \in [Ledgers -> [Keys -> 0 .. Never]]
         /\ buffer' \in [Ledgers -> Seq(Requests)]
         /\ history' \in [Ledgers -> Seq(Entries)]
  <1>. DEFINE full == Append(buffer[l], r)
              entry(p) == [request |-> p,
                           status |-> IF p = r THEN guarded ELSE status[l][p]]
              written == [i \in 1 .. Len(full) |-> entry(full[i])]
  <1>1. age' = [age EXCEPT ![l][key[r]] = 0]
    BY DEF Store
  <1>2. age' \in [Ledgers -> [Keys -> 0 .. Never]]
    BY <1>1, TimeAssumption DEF TypeOK, Never
  <1>3. full \in Seq(Requests)
    BY DEF TypeOK
  <1>4. written \in Seq(Entries)
    <2>1. \A i \in 1 .. Len(full) : full[i] \in Requests
      BY <1>3
    <2>2. \A p \in Requests : entry(p) \in Entries
      BY DEF TypeOK, Entries
    <2>. DEFINE n == Len(full)
    <2>3. written \in [1 .. n -> Entries] /\ n \in Nat
      BY <1>3, <2>1, <2>2
    <2>. HIDE DEF n, written
    <2>. QED
      BY <2>3
  <1>5. history[l] \o written \in Seq(Entries)
    BY <1>4 DEF TypeOK
  <1>6. LastEntries(history[l] \o written) \in Seq(Entries)
    BY <1>5, LastEntriesType
  <1>7. \/ buffer' = [buffer EXCEPT ![l] = full] /\ history' = history
        \/ /\ buffer' = [buffer EXCEPT ![l] = << >>]
           /\ history' = [history EXCEPT ![l] = LastEntries(history[l] \o written)]
    BY DEF Store, TypeOK
  <1>8. buffer' \in [Ledgers -> Seq(Requests)] /\ history' \in [Ledgers -> Seq(Entries)]
    <2>. DEFINE flushed == LastEntries(history[l] \o written)
    <2>a. full \in Seq(Requests) /\ flushed \in Seq(Entries)
      BY <1>3, <1>6
    <2>b. buffer \in [Ledgers -> Seq(Requests)] /\ history \in [Ledgers -> Seq(Entries)]
      BY DEF TypeOK
    <2>c. << >> \in Seq(Requests)
      OBVIOUS
    <2>1. /\ << >> \in Seq(Requests) /\ full \in Seq(Requests) /\ flushed \in Seq(Entries)
          /\ buffer \in [Ledgers -> Seq(Requests)] /\ history \in [Ledgers -> Seq(Entries)]
      BY <2>a, <2>b, <2>c
    <2>2. \/ buffer' = [buffer EXCEPT ![l] = full] /\ history' = history
          \/ /\ buffer' = [buffer EXCEPT ![l] = << >>]
             /\ history' = [history EXCEPT ![l] = flushed]
      BY <1>7
    <2>. HIDE DEF full, flushed
    <2>3. buffer' \in [Ledgers -> Seq(Requests)]
      BY <2>1, <2>2
    <2>4. history' \in [Ledgers -> Seq(Entries)]
      BY <2>1, <2>2
    <2>. QED
      BY <2>3, <2>4
  <1>. QED
    BY <1>1, <1>2, <1>8

--------------------------------------------------------------------------------
(* What the steps that leave the ledgers alone keep.                       *)

LEMMA SameBudget ==
  ASSUME TypeOK, BudgetCounts, UNCHANGED status, apiCalls' \in Nat, apiCalls <= apiCalls'
  PROVE  BudgetCounts'
  <1>1. Paid' = Paid /\ Passed' = Passed
    BY DEF Paid, Passed, Receipted
  <1>2. Cardinality(Paid) \in Nat
    <2>1. IsFiniteSet(Paid)
      BY RequestAssumption, FS_Subset DEF Paid
    <2>. QED
      BY <2>1, FS_CardinalityType
  <1>3. Cardinality(Paid) <= apiCalls'
    BY <1>2 DEF TypeOK, BudgetCounts
  <1>. QED
    BY <1>1, <1>3 DEF BudgetCounts

LEMMA SameClocks ==
  ASSUME ClockAgrees, OthersWaitElsewhere, OneOrderInFlight,
         UNCHANGED <<age, orderAge>>,
         \A q \in Requests : pc'[q] = "ordering" => pc[q] = "ordering" /\ key'[q] = key[q],
         \A q \in Requests : q \in Pending' => q \in Pending /\ key'[q] = key[q]
  PROVE  ClockAgrees' /\ OthersWaitElsewhere' /\ OneOrderInFlight'
  <1>1. Pending' \subseteq Requests
    BY DEF Pending
  <1>2. ClockAgrees'
    BY DEF ClockAgrees
  <1>3. OthersWaitElsewhere'
    BY <1>1 DEF OthersWaitElsewhere
  <1>4. OneOrderInFlight'
    BY <1>1 DEF OneOrderInFlight
  <1>. QED
    BY <1>2, <1>3, <1>4

LEMMA SecurityTypes ==
  /\ SecurityStateEnum = {"NORMAL", "RESTRICTED", "QUARANTINED", "LOCKDOWN"}
  /\ \A s, t \in SecurityStateEnum : Escalated(s, t) \in SecurityStateEnum
  <1>1. SecurityStateEnum = {"NORMAL", "RESTRICTED", "QUARANTINED", "LOCKDOWN"}
    BY DEF SecurityStateEnum, Severity
  <1>2. \A s, t \in SecurityStateEnum : Escalated(s, t) \in SecurityStateEnum
    BY DEF Escalated
  <1>. QED
    BY <1>1, <1>2

(* What changes when a request is admitted, turned away or handed to the   *)
(* ledgers: no ledger and no order.                                        *)
AwaitEnds(r) ==
    /\ pc[r] \in {"new", "validating", "assessing", "ordering"}
    /\ pc'[r] \in {"validating", "assessing", "agent", "done"}
    /\ pc[r] = "ordering" => pc'[r] = "done"
    /\ evidence[r] \subseteq evidence'[r]
    /\ pc'[r] = "done" => evidence'[r] # {"PRE"}
    /\ pc'[r] # "done" => "PRE" \in evidence'[r]
    /\ pc'[r] = "agent" => key'[r] \in Keys
    /\ running \in {r, None} /\ running' = IF pc'[r] = "agent" THEN r ELSE None
    /\ \A q \in Requests \ {r} :
           pc'[q] = pc[q] /\ evidence'[q] = evidence[q] /\ key'[q] = key[q]
    /\ apiCalls <= apiCalls'
    /\ UNCHANGED <<status, age, order, orderAge>>

LEMMA AwaitStep ==
  ASSUME IInv, TypeOK', NEW r \in Requests, AwaitEnds(r)
  PROVE  IInv'
  <1>. USE DEF IInv, AwaitEnds
  <1>1. OneRuns'
    BY NoneAssumption DEF OneRuns, Between, Ledgers
  <1>2. AllReached'
    <2>1. \A q \in Requests \ {r} : Reached(q)'
      BY DEF AllReached, Reached, Receipted
    <2>2. Reached(r)'
      BY DEF AllReached, Reached, Receipted, Between, Ledgers
    <2>. QED
      BY <2>1, <2>2 DEF AllReached
  <1>3. SealedLineage'
    BY DEF SealedLineage
  <1>4. PreChecksAreClosed'
    BY DEF PreChecksAreClosed
  <1>5. OrphansAreErrors'
    BY DEF OrphansAreErrors, Failures
  <1>6. ClockAgrees' /\ OthersWaitElsewhere' /\ OneOrderInFlight'
    <2>1. r \notin Pending /\ Pending' = Pending
      BY DEF Pending, AllReached, Reached
    <2>. QED
      BY <2>1, SameClocks DEF Pending
  <1>7. BudgetCounts'
    BY SameBudget DEF TypeOK
  <1>. QED
    BY <1>1, <1>2, <1>3, <1>4, <1>5, <1>6, <1>7

LEMMA ReturnEffect ==
  ASSUME TypeOK, NEW r \in Requests, NEW bundles, bundles \subseteq {"POST", "ERROR"},
         Return(r, bundles)
  PROVE  /\ pc' \in [Requests -> Places] /\ running' = None
         /\ evidence' \in [Requests -> SUBSET {"PRE", "POST", "ERROR"}]
         /\ pc'[r] = "done" /\ evidence'[r] = evidence[r] \cup bundles
         /\ \A q \in Requests \ {r} : pc'[q] = pc[q] /\ evidence'[q] = evidence[q]
  <1>. DEFINE all == evidence[r] \cup bundles
  <1>1. all \in SUBSET {"PRE", "POST", "ERROR"}
    BY DEF TypeOK
  <1>2. evidence' = [evidence EXCEPT ![r] = all]
    BY DEF Return
  <1>. HIDE DEF all
  <1>3. /\ evidence' \in [Requests -> SUBSET {"PRE", "POST", "ERROR"}]
        /\ evidence'[r] = all /\ \A q \in Requests \ {r} : evidence'[q] = evidence[q]
    BY <1>1, <1>2 DEF TypeOK
  <1>. QED
    BY <1>3 DEF Return, TypeOK, Places, all

(* A return between two awaits, with no ledger and no order changed.       *)
Leaves(r, bundles) ==
    /\ Return(r, bundles) /\ bundles \subseteq {"POST", "ERROR"}
    /\ bundles = {} => evidence[r] # {"PRE"}
    /\ pc[r] \in {"new", "validating", "assessing", "ordering"}
    /\ running \in {r, None}
    /\ security' \in SecurityStateEnum /\ apiCalls' \in Nat /\ apiCalls <= apiCalls'
    /\ UNCHANGED <<key, ledgers, orders>>

LEMMA ReturnStep ==
  ASSUME IInv, NEW r \in Requests, NEW bundles, Leaves(r, bundles)
  PROVE  IInv'
  <1>. USE DEF Leaves
  <1>1. /\ pc' \in [Requests -> Places] /\ running' = None
        /\ evidence' \in [Requests -> SUBSET {"PRE", "POST", "ERROR"}]
        /\ pc'[r] = "done" /\ evidence'[r] = evidence[r] \cup bundles
        /\ \A q \in Requests \ {r} : pc'[q] = pc[q] /\ evidence'[q] = evidence[q]
    BY ReturnEffect DEF IInv
  <1>2. evidence'[r] # {"PRE"}
    <2>1. CASE bundles = {}
      BY <1>1, <2>1
    <2>2. CASE bundles # {}
      <3>1. PICK b \in bundles : TRUE
        BY <2>2
      <3>2. b # "PRE" /\ b \in evidence'[r]
        BY <1>1, <3>1
      <3>. QED
        BY <3>2
    <2>. QED
      BY <2>1, <2>2
  <1>3. TypeOK'
    BY <1>1 DEF IInv, TypeOK, ledgers, orders
  <1>4. AwaitEnds(r)
    BY <1>1, <1>2 DEF AwaitEnds, ledgers, orders
  <1>. QED
    BY <1>3, <1>4, AwaitStep

LEMMA PreCheckIInv ==
  ASSUME IInv, NEW r \in Requests, PreCheck(r)
  PROVE  IInv'
  <1>1. pc[r] = "new" /\ evidence[r] = {} /\ running = None /\ TypeOK
    BY DEF IInv, AllReached, Reached, PreCheck, PreCheckAllows, PreCheckBlocks,
           PreCheckForbids
  <1>2. CASE PreCheckAllows(r)
    <2>1. TypeOK' /\ AwaitEnds(r)
      BY <1>1, <1>2 DEF PreCheckAllows, TypeOK, Places, AwaitEnds, ledgers, orders
    <2>. QED
      BY <2>1, AwaitStep
  <1>3. CASE PreCheckBlocks(r)
    <2>1. Leaves(r, {})
      BY <1>1, <1>3 DEF Leaves, PreCheckBlocks, TypeOK
    <2>. QED
      BY <2>1, ReturnStep, Zenon
  <1>4. CASE PreCheckForbids(r)
    <2>1. security' \in SecurityStateEnum
      BY <1>1, <1>4, SecurityTypes DEF PreCheckForbids, TypeOK
    <2>2. Leaves(r, {})
      BY <1>1, <1>4, <2>1 DEF Leaves, PreCheckForbids, TypeOK
    <2>. QED
      BY <2>2, ReturnStep, Zenon
  <1>. QED
    BY <1>2, <1>3, <1>4 DEF PreCheck

LEMMA AgentAnswersIInv ==
  ASSUME IInv, NEW r \in Requests, AgentAnswers(r)
  PROVE  IInv'
  <1>1. /\ pc[r] \in {"validating", "assessing"} /\ "PRE" \in evidence[r]
        /\ running = None /\ TypeOK
    BY DEF IInv, AllReached, Reached, AgentAnswers, ValidationPasses, AgentRejects,
           AgentRaises, RiskApproves
  <1>2. CASE ValidationPasses(r)
    <2>1. TypeOK' /\ AwaitEnds(r)
      BY <1>1, <1>2 DEF ValidationPasses, ledgers, orders, TypeOK, Places, AwaitEnds
    <2>. QED
      BY <2>1, AwaitStep
  <1>3. CASE AgentRejects(r)
    <2>1. Leaves(r, {"POST"})
      BY <1>1, <1>3 DEF Leaves, AgentRejects, TypeOK
    <2>. QED
      BY <2>1, ReturnStep, Zenon
  <1>4. CASE AgentRaises(r)
    <2>1. Leaves(r, {"ERROR"})
      BY <1>1, <1>4 DEF Leaves, AgentRaises, ErrorEvidence, TypeOK
    <2>. QED
      BY <2>1, ReturnStep, Zenon
  <1>5. CASE RiskApproves(r)
    <2>1. PICK k \in Keys : key' = [key EXCEPT ![r] = k]
      BY <1>5 DEF RiskApproves
    <2>2. TypeOK' /\ AwaitEnds(r)
      BY <1>1, <1>5, <2>1
      DEF RiskApproves, ledgers, orders, TypeOK, Places, Ledgers, AwaitEnds
    <2>. QED
      BY <2>2, AwaitStep
  <1>. QED
    BY <1>2, <1>3, <1>4, <1>5 DEF AgentAnswers

--------------------------------------------------------------------------------
(* Orders.                                                                 *)

LEMMA OrderingIInv ==
  ASSUME IInv, NEW r \in Requests, Ordering(r)
  PROVE  IInv'
  <1>. USE DEF IInv
  <1>1. /\ running = r /\ pc[r] = "ordering" /\ TypeOK /\ order[r] = "none"
        /\ {"PRE", "POST"} \subseteq evidence[r]
        /\ \A l \in Ledgers : status[l][r] = "RECEIPTED"
    BY DEF AllReached, Reached, Receipted, Ledgers, Ordering, PPFDenies, DryRun, CreateOrder
  <1>2. CASE PPFDenies(r)
    <2>1. Leaves(r, {})
      BY <1>1, <1>2 DEF Leaves, PPFDenies, TypeOK
    <2>. QED
      BY <2>1, ReturnStep, Zenon
  <1>3. CASE DryRun(r)
    <2>1. Return(r, {}) /\ order' = [order EXCEPT ![r] = "DRY"]
          /\ UNCHANGED <<key, status, age, buffer, history, apiCalls, security, orderAge>>
      BY <1>3 DEF DryRun, ledgers
    <2>2. UNCHANGED evidence /\ running' = None /\ pc' = [pc EXCEPT ![r] = "done"]
      BY <1>1, <2>1 DEF Return, TypeOK
    <2>3. TypeOK'
      BY <1>1, <2>1, <2>2 DEF TypeOK, Places
    <2>4. OneRuns' /\ AllReached'
      BY <1>1, <2>1, <2>2 DEF TypeOK, OneRuns, AllReached, Reached, Receipted, Between, Ledgers
    <2>5. SealedLineage' /\ PreChecksAreClosed' /\ OrphansAreErrors'
      BY <1>1, <2>1, <2>2
      DEF TypeOK, SealedLineage, PreChecksAreClosed, OrphansAreErrors, Failures
    <2>6. ClockAgrees' /\ OthersWaitElsewhere' /\ OneOrderInFlight'
      BY <1>1, <2>1, <2>2, SameClocks DEF TypeOK, Pending
    <2>7. BudgetCounts'
      BY <2>1, SameBudget DEF TypeOK
    <2>. QED
      BY <2>3, <2>4, <2>5, <2>6, <2>7
  <1>4. CASE CreateOrder(r)
    <2>1. /\ order' = [order EXCEPT ![r] = "PENDING"] /\ orderAge' = [orderAge EXCEPT ![r] = 0]
          /\ pc' = [pc EXCEPT ![r] = "inflight"] /\ running' = None
          /\ UNCHANGED <<key, status, age, buffer, history, evidence, apiCalls, security>>
      BY <1>4 DEF CreateOrder, ledgers
    <2>2. TypeOK'
      BY <1>1, <2>1, TimeAssumption DEF TypeOK, Places
    <2>3. OneRuns' /\ AllReached'
      BY <1>1, <2>1 DEF TypeOK, OneRuns, AllReached, Reached, Receipted, Between, Ledgers
    <2>4. SealedLineage' /\ PreChecksAreClosed' /\ OrphansAreErrors'
      BY <1>1, <2>1
      DEF TypeOK, SealedLineage, PreChecksAreClosed, OrphansAreErrors, Failures
    <2>5. Pending' = Pending \cup {r} /\ \A q \in Requests : pc'[q] # "ordering"
      BY <1>1, <2>1 DEF TypeOK, Pending, OneRuns, Between
    <2>6. ClockAgrees' /\ OthersWaitElsewhere'
      BY <1>1, <2>1, <2>5 DEF TypeOK, ClockAgrees, OthersWaitElsewhere
    <2>7. OneOrderInFlight'
      BY <1>1, <2>1, <2>5 DEF OthersWaitElsewhere, OneOrderInFlight
    <2>8. BudgetCounts'
      BY <2>1, SameBudget DEF TypeOK
    <2>. QED
      BY <2>2, <2>3, <2>4, <2>6, <2>7, <2>8
  <1>. QED
    BY <1>2, <1>3, <1>4 DEF Ordering

LEMMA OrderEndsIInv ==
  ASSUME IInv, NEW r \in Requests, ExchangeAnswers(r) \/ TimesOut(r)
  PROVE  IInv'
  <1>. USE DEF IInv
  <1>1. /\ running = None /\ pc[r] = "inflight" /\ TypeOK
        /\ {"PRE", "POST"} \subseteq evidence[r]
        /\ \A l \in Ledgers : status[l][r] = "RECEIPTED"
    BY DEF AllReached, Reached, Receipted, Ledgers, ExchangeAnswers, TimesOut
  <1>2. PICK answer \in {"FILLED", "ERROR", "TIMEOUT"} : order' = [order EXCEPT ![r] = answer]
    BY DEF ExchangeAnswers, TimesOut
  <1>3. Return(r, {})
        /\ UNCHANGED <<key, status, age, buffer, history, apiCalls, security, orderAge>>
    BY DEF ExchangeAnswers, TimesOut, ledgers
  <1>4. UNCHANGED evidence /\ running' = None /\ pc' = [pc EXCEPT ![r] = "done"]
    BY <1>1, <1>3 DEF Return, TypeOK
  <1>5. TypeOK'
    BY <1>1, <1>2, <1>3, <1>4 DEF TypeOK, Places
  <1>6. OneRuns' /\ AllReached'
    BY <1>1, <1>2, <1>3, <1>4 
    DEF TypeOK, OneRuns, AllReached, Reached, Receipted, Between, Ledgers
  <1>7. SealedLineage' /\ PreChecksAreClosed' /\ OrphansAreErrors'
    BY <1>1, <1>2, <1>3, <1>4
    DEF TypeOK, SealedLineage, PreChecksAreClosed, OrphansAreErrors, Failures
  <1>8. ClockAgrees' /\ OthersWaitElsewhere' /\ OneOrderInFlight'
    BY <1>1, <1>2, <1>3, <1>4, SameClocks DEF TypeOK, Pending
  <1>9. BudgetCounts'
    BY <1>3, SameBudget DEF TypeOK
  <1>. QED
    BY <1>5, <1>6, <1>7, <1>8, <1>9

--------------------------------------------------------------------------------
(* The rest of the process, and time.                                      *)

LEMMA SecurityMovesIInv ==
  ASSUME IInv, SecurityMoves
  PROVE  IInv'
  <1>. USE DEF IInv
  <1>1. security' \in SecurityStateEnum
        /\ UNCHANGED <<running, pc, key, status, age, buffer, history, evidence, apiCalls,
                       order, orderAge>>
    BY SecurityTypes DEF SecurityMoves, TypeOK, ledgers, orders
  <1>2. TypeOK'
    BY <1>1 DEF TypeOK
  <1>3. OneRuns' /\ AllReached'
    BY <1>1 DEF OneRuns, AllReached, Reached, Receipted
  <1>4. SealedLineage' /\ PreChecksAreClosed' /\ OrphansAreErrors'
    BY <1>1 DEF SealedLineage, PreChecksAreClosed, OrphansAreErrors, Failures
  <1>5. ClockAgrees' /\ OthersWaitElsewhere' /\ OneOrderInFlight'
    BY <1>1 DEF ClockAgrees, OthersWaitElsewhere, OneOrderInFlight, Pending
  <1>6. BudgetCounts'
    BY <1>1 DEF BudgetCounts, Paid, Passed, Receipted
  <1>. QED
    BY <1>2, <1>3, <1>4, <1>5, <1>6

LEMMA TickIInv ==
  ASSUME IInv, Tick
  PROVE  IInv'
  <1>. USE DEF IInv
  <1>1. /\ running = None /\ \A q \in Pending : orderAge[q] < Timeout
        /\ age' = [l \in Ledgers |-> [k \in Keys |->
                      IF age[l][k] < Never THEN age[l][k] + 1 ELSE Never]]
        /\ orderAge' = [q \in Requests |->
                           IF q \in Pending THEN orderAge[q] + 1 ELSE orderAge[q]]
        /\ UNCHANGED <<running, pc, key, status, buffer, history, evidence, apiCalls,
                       security, order>>
    BY DEF Tick, TimersFire
  <1>2. TypeOK'
    <2>1. age' \in [Ledgers -> [Keys -> 0 .. Never]]
      BY <1>1, TimeAssumption DEF TypeOK, Never
    <2>2. orderAge' \in [Requests -> 0 .. Timeout]
      BY <1>1, TimeAssumption DEF TypeOK
    <2>. QED
      BY <1>1, <2>1, <2>2 DEF TypeOK
  <1>3. OneRuns' /\ AllReached'
    BY <1>1 DEF OneRuns, AllReached, Reached, Receipted
  <1>4. SealedLineage' /\ PreChecksAreClosed' /\ OrphansAreErrors'
    BY <1>1 DEF SealedLineage, PreChecksAreClosed, OrphansAreErrors, Failures
  <1>5. Pending' = Pending /\ \A q \in Requests : pc'[q] # "ordering"
    BY <1>1, NoneAssumption DEF Pending, OneRuns, Between
  <1>6. ClockAgrees'
    <2>. SUFFICES ASSUME NEW q \in Pending
                  PROVE  age'["submit"][key[q]] = orderAge'[q]
      BY <1>1, <1>5 DEF ClockAgrees
    <2>1. q \in Requests /\ key[q] \in Keys
      BY DEF Pending, AllReached, Reached
    <2>2. age["submit"][key[q]] = orderAge[q] /\ orderAge[q] < Timeout
      BY <1>1, <2>1 DEF ClockAgrees
    <2>3. orderAge[q] < Never
      BY <2>1, <2>2, TimeAssumption DEF TypeOK, Never
    <2>. QED
      BY <1>1, <2>1, <2>2, <2>3 DEF Ledgers
  <1>7. OthersWaitElsewhere' /\ OneOrderInFlight'
    BY <1>1, <1>5 DEF OthersWaitElsewhere, OneOrderInFlight
  <1>8. BudgetCounts'
    BY <1>1 DEF BudgetCounts, Paid, Passed, Receipted
  <1>. QED
    BY <1>2, <1>3, <1>4, <1>6, <1>7, <1>8

--------------------------------------------------------------------------------
(* The ledgers' guards.                                                    *)

(* What a guard leaves behind: the request returns without a receipt, or   *)
(* goes on with one.                                                       *)
GuardFails(l, r) ==
    /\ pc'[r] = "done" /\ running' = None
    /\ status'[l][r] # "RECEIPTED" /\ apiCalls' = apiCalls
    /\ "POST" \in evidence'[r] \/ "ERROR" \in evidence'[r]
    /\ status'[l][r] = "GUARDED" => "ERROR" \in evidence'[r]
GuardSeals(l, r) ==
    /\ pc'[r] = Following(l) /\ running' = r
    /\ status'[l][r] = "RECEIPTED" /\ "POST" \in evidence'[r]
    /\ GuardChecks(l, r) /\ Fresh(l, key[r])
    /\ age' = [age EXCEPT ![l][key[r]] = 0]
    /\ apiCalls' = IF l = "agent" THEN apiCalls + 1 ELSE apiCalls
GuardEnds(l, r) ==
    /\ running = r /\ pc[r] = l
    /\ evidence[r] \subseteq evidence'[r]
    /\ \A q \in Requests \ {r} : pc'[q] = pc[q] /\ evidence'[q] = evidence[q]
    /\ \A m \in Ledgers, q \in Requests :
           m # l \/ q # r => status'[m][q] = status[m][q]
    /\ age' = age \/ (Fresh(l, key[r]) /\ age' = [age EXCEPT ![l][key[r]] = 0])
    /\ GuardFails(l, r) \/ GuardSeals(l, r)
    /\ UNCHANGED <<key, security, order, orderAge>>

(* The guard's effect on the clocks: a fingerprint it records again has no *)
(* order at the exchange, for the cooldown outlasts the timeout.           *)
LEMMA GuardClocks ==
  ASSUME IInv, NEW l \in Ledgers, NEW r \in Requests, GuardEnds(l, r)
  PROVE  ClockAgrees' /\ OthersWaitElsewhere' /\ OneOrderInFlight'
  <1>. USE DEF IInv, GuardEnds
  <1>1. Pending' = Pending /\ Pending \subseteq Requests /\ r \notin Pending
    BY DEF Pending, AllReached, Reached, Ledgers
  <1>2. /\ TypeOK /\ key[r] \in Keys
        /\ \A q \in Requests \ {r} : pc[q] # "ordering" /\ pc'[q] # "ordering"
    BY DEF AllReached, Reached, OneRuns, Between
  <1>3. pc'[r] = "ordering" => l = "submit" /\ GuardSeals(l, r)
    BY DEF GuardFails, Following, Ledgers, GuardSeals
  <1>4. \A q \in Pending : age' = age \/ l # "submit" \/ key[q] # key[r]
    <2>. SUFFICES ASSUME NEW q \in Pending, age' # age, l = "submit", key[q] = key[r]
                  PROVE  FALSE
      OBVIOUS
    <2>1. age["submit"][key[q]] = orderAge[q] /\ orderAge[q] \in 0 .. Timeout
      BY <1>1, <1>2 DEF ClockAgrees, TypeOK
    <2>2. age["submit"][key[q]] >= Cooldown
      BY DEF Fresh
    <2>. QED
      BY <2>1, <2>2, TimeAssumption
  <1>5. \A q \in Pending : age'["submit"][key[q]] = age["submit"][key[q]]
    <2>. TAKE q \in Pending
    <2>1. key[q] \in Keys /\ "submit" \in Ledgers
      BY <1>1 DEF AllReached, Reached, Pending, Ledgers
    <2>2. CASE age' = age
      BY <2>2
    <2>3. CASE age' # age
      <3>1. age' = [age EXCEPT ![l][key[r]] = 0]
        BY <2>3
      <3>2. l # "submit" \/ key[q] # key[r]
        BY <1>4, <2>3
      <3>3. age \in [Ledgers -> [Keys -> 0 .. Never]]
        BY <1>2 DEF TypeOK
      <3>. QED
        BY <1>2, <2>1, <3>1, <3>2, <3>3, Zenon
    <2>. QED
      BY <2>2, <2>3
  <1>6. pc'[r] = "ordering" =>
            age'["submit"][key[r]] = 0 /\ \A q \in Pending : key[q] # key[r]
    <2>. HAVE pc'[r] = "ordering"
    <2>1. l = "submit" /\ Fresh(l, key[r]) /\ age' = [age EXCEPT ![l][key[r]] = 0]
      BY <1>3 DEF GuardSeals
    <2>2. age'["submit"][key[r]] = 0
      BY <1>2, <2>1 DEF TypeOK
    <2>3. age["submit"][key[r]] # 0
      BY <1>2, <2>1, TimeAssumption DEF Fresh, TypeOK
    <2>. QED
      BY <1>4, <2>1, <2>2, <2>3
  <1>7. ClockAgrees'
    BY <1>1, <1>2, <1>5, <1>6 DEF ClockAgrees
  <1>8. OthersWaitElsewhere'
    BY <1>1, <1>2, <1>6 DEF OthersWaitElsewhere
  <1>9. OneOrderInFlight'
    BY <1>1 DEF OneOrderInFlight
  <1>. QED
    BY <1>7, <1>8, <1>9

(* The guard's effect on the budget: only the agent tier adds a payer, and *)
(* it pays; only the submit tier adds an order, below the limit.           *)
LEMMA GuardBudget ==
  ASSUME IInv, NEW l \in Ledgers, NEW r \in Requests, GuardEnds(l, r)
  PROVE  BudgetCounts'
  <1>. USE DEF IInv, GuardEnds
  <1>1. /\ IsFiniteSet(Paid) /\ Cardinality(Paid) \in Nat
        /\ IsFiniteSet(Passed) /\ Cardinality(Passed) \in Nat
    <2>1. IsFiniteSet(Paid) /\ IsFiniteSet(Passed)
      BY RequestAssumption, FS_Subset DEF Paid, Passed
    <2>. QED
      BY <2>1, FS_CardinalityType
  <1>2. Cardinality(Paid) <= apiCalls /\ apiCalls \in Nat /\ ApiLimit \in Nat
        /\ (Passed # {} => Cardinality(Passed) < ApiLimit)
    BY LimitAssumption DEF BudgetCounts, TypeOK
  <1>3. ~Receipted("submit", r) /\ (l = "agent" \/ Receipted("agent", r))
    BY DEF AllReached, Reached, Ledgers
  <1>4. \A q \in Requests \ {r}, m \in Ledgers : Receipted(m, q)' <=> Receipted(m, q)
    BY DEF Receipted
  <1>5. Passed \subseteq Paid
    BY DEF AllReached, Reached, Passed, Paid
  <1>6. Cardinality(Paid') <= apiCalls' /\ apiCalls <= apiCalls'
    <2>1. CASE l = "agent" /\ GuardSeals(l, r)
      <3>1. Paid' = Paid \cup {r}
        BY <1>4, <2>1 DEF Paid, Receipted, GuardSeals, Ledgers
      <3>2. Cardinality(Paid') <= Cardinality(Paid) + 1
        <4>1. r \notin Paid => Cardinality(Paid') = Cardinality(Paid) + 1
          BY <1>1, <3>1, FS_AddElement
        <4>2. r \in Paid => Paid' = Paid
          BY <3>1
        <4>. QED
          BY <1>1, <4>1, <4>2
      <3>3. Cardinality(Paid') \in Nat
        BY <1>1, <3>1, FS_AddElement, FS_CardinalityType
      <3>. QED
        BY <1>1, <1>2, <2>1, <3>2, <3>3 DEF GuardSeals
    <2>2. CASE ~(l = "agent" /\ GuardSeals(l, r))
      <3>1. Paid' \subseteq Paid /\ apiCalls' = apiCalls
        BY <1>3, <1>4, <2>2 DEF Paid, Receipted, GuardSeals, GuardFails, Ledgers
      <3>2. Cardinality(Paid') <= Cardinality(Paid) /\ Cardinality(Paid') \in Nat
        BY <1>1, <3>1, FS_Subset, FS_CardinalityType
      <3>. QED
        BY <1>1, <1>2, <3>1, <3>2
    <2>. QED
      BY <2>1, <2>2
  <1>7. Passed' # {} => Cardinality(Passed') < ApiLimit
    <2>1. CASE l = "submit" /\ GuardSeals(l, r)
      <3>1. Passed' \subseteq Paid
        BY <1>3, <1>4, <1>5, <2>1 DEF Passed, Paid, Receipted, Ledgers
      <3>2. Cardinality(Passed') <= Cardinality(Paid) /\ Cardinality(Passed') \in Nat
        BY <1>1, <3>1, FS_Subset, FS_CardinalityType
      <3>3. apiCalls < ApiLimit
        BY <2>1 DEF GuardSeals, GuardChecks, WithinBudget
      <3>. QED
        BY <1>1, <1>2, <3>2, <3>3
    <2>2. CASE ~(l = "submit" /\ GuardSeals(l, r))
      <3>1. Passed' = Passed
        BY <1>3, <1>4, <2>2 DEF Passed, Receipted, GuardFails, Ledgers
      <3>. QED
        BY <1>2, <3>1
    <2>. QED
      BY <2>1, <2>2
  <1>. QED
    BY <1>6, <1>7 DEF BudgetCounts

LEMMA GuardStep ==
  ASSUME IInv, TypeOK', NEW l \in Ledgers, NEW r \in Requests, GuardEnds(l, r)
  PROVE  IInv'
  <1>. USE DEF IInv
  <1>1. /\ pc'[r] \in {"done", "exec", "submit", "ordering"}
        /\ pc'[r] # "done" => GuardSeals(l, r)
        /\ order[r] = "none" /\ order' = order /\ key' = key
        /\ \A q \in Requests \ {r} :
               /\ pc'[q] = pc[q] /\ evidence'[q] = evidence[q]
               /\ \A m \in Ledgers : status'[m][q] = status[m][q]
    BY DEF GuardEnds, GuardFails, GuardSeals, Following, Ledgers, AllReached, Reached
  <1>2. OneRuns'
    <2>1. \A q \in Requests \ {r} : pc'[q] \notin Between
      BY <1>1 DEF OneRuns, GuardEnds
    <2>2. pc'[r] \in Between => running' = r
      BY <1>1 DEF GuardSeals, Between, Ledgers
    <2>. QED
      BY <2>1, <2>2 DEF OneRuns
  <1>3. AllReached'
    <2>1. \A q \in Requests \ {r} : Reached(q)'
      BY <1>1 DEF AllReached, Reached, Receipted, Ledgers
    <2>2. Reached(r) /\ pc[r] = l /\ evidence[r] \subseteq evidence'[r]
      BY DEF AllReached, GuardEnds
    <2>3. Reached(r)'
      <3>1. CASE GuardFails(l, r)
        <4>1. pc'[r] = "done" /\ status'[l][r] # "RECEIPTED"
          BY <3>1 DEF GuardFails
        <4>2. ~Receipted("submit", r)'
          BY <2>2, <4>1 DEF Reached, Receipted, GuardEnds, Ledgers
        <4>. QED
          BY <1>1, <2>2, <4>1, <4>2 DEF Reached, Between, Ledgers
      <3>2. CASE GuardSeals(l, r)
        <4>1. /\ pc'[r] = Following(l) /\ status'[l][r] = "RECEIPTED"
              /\ "POST" \in evidence'[r] /\ "PRE" \in evidence'[r] /\ key[r] \in Keys
              /\ \A m \in Ledgers \ {l} : status'[m][r] = status[m][r]
          BY <2>2, <3>2 DEF GuardSeals, GuardEnds, Reached, Between, Ledgers
        <4>2. CASE l = "agent"
          BY <1>1, <2>2, <4>1, <4>2 DEF Reached, Receipted, Between, Ledgers, Following
        <4>3. CASE l = "exec"
          BY <1>1, <2>2, <4>1, <4>3 DEF Reached, Receipted, Between, Ledgers, Following
        <4>4. CASE l = "submit"
          BY <1>1, <2>2, <4>1, <4>4 DEF Reached, Receipted, Between, Ledgers, Following
        <4>. QED
          BY <4>2, <4>3, <4>4 DEF Ledgers
      <3>. QED
        BY <3>1, <3>2 DEF GuardEnds
    <2>. QED
      BY <2>1, <2>3 DEF AllReached
  <1>4. SealedLineage'
    BY <1>1 DEF SealedLineage
  <1>5. PreChecksAreClosed'
    <2>1. pc'[r] = "done" => evidence'[r] # {"PRE"}
      BY DEF GuardEnds, GuardFails, GuardSeals, Following, Ledgers
    <2>. QED
      BY <1>1, <2>1 DEF PreChecksAreClosed
  <1>6. OrphansAreErrors'
    <2>1. Failures \subseteq Failures'
      BY DEF Failures, GuardEnds
    <2>2. status'[l][r] = "GUARDED" => r \in Failures'
      BY DEF GuardEnds, GuardFails, GuardSeals, Failures
    <2>3. \A m \in Ledgers, q \in Requests :
              m # l \/ q # r => status'[m][q] = status[m][q]
      BY DEF GuardEnds
    <2>. QED
      BY <2>1, <2>2, <2>3 DEF OrphansAreErrors
  <1>7. ClockAgrees' /\ OthersWaitElsewhere' /\ OneOrderInFlight'
    BY GuardClocks
  <1>8. BudgetCounts'
    BY GuardBudget
  <1>. QED
    BY <1>2, <1>3, <1>4, <1>5, <1>6, <1>7, <1>8

LEMMA GuardIInv ==
  ASSUME IInv, NEW l \in Ledgers, NEW r \in Requests, Guard(l, r)
  PROVE  IInv'
  <1>1. /\ running = r /\ pc[r] = l /\ TypeOK /\ key[r] \in Keys
        /\ l # "agent" => "POST" \in evidence[r]
        /\ PostRecord(l) \subseteq {"POST", "ERROR"}
        /\ l = "agent" => "POST" \in PostRecord(l)
        /\ "BLOCKED" \in Status /\ "GUARDED" \in Status /\ "RECEIPTED" \in Status
    BY DEF IInv, AllReached, Reached, Between, Ledgers, Guard, SuppressDuplicate,
           BlockProposal, PassGuard, FlushRaises, PostRecord, Status
  <1>2. CASE SuppressDuplicate(l, r)
    <2>1. /\ status' = [status EXCEPT ![l][r] = "BLOCKED"] /\ Return(r, PostRecord(l))
          /\ buffer' = [buffer EXCEPT ![l] = Append(@, r)]
          /\ UNCHANGED <<key, age, history, apiCalls, security, order, orderAge>>
      BY <1>2 DEF SuppressDuplicate, orders
    <2>2. /\ pc' \in [Requests -> Places] /\ running' = None
          /\ evidence' \in [Requests -> SUBSET {"PRE", "POST", "ERROR"}]
          /\ pc'[r] = "done" /\ evidence'[r] = evidence[r] \cup PostRecord(l)
          /\ \A q \in Requests \ {r} : pc'[q] = pc[q] /\ evidence'[q] = evidence[q]
      BY <1>1, <2>1, ReturnEffect, Zenon
    <2>3. TypeOK'
      <3>1. Append(buffer[l], r) \in Seq(Requests)
        BY <1>1 DEF TypeOK
      <3>2. buffer' \in [Ledgers -> Seq(Requests)]
        BY <1>1, <2>1, <3>1 DEF TypeOK
      <3>. QED
        BY <1>1, <2>1, <2>2, <3>2 DEF TypeOK
    <2>4. GuardEnds(l, r)
      BY <1>1, <2>1, <2>2 DEF GuardEnds, GuardFails, TypeOK
    <2>. QED
      BY <2>3, <2>4, GuardStep
  <1>3. CASE BlockProposal(l, r)
    <2>1. /\ status' = [status EXCEPT ![l][r] = "BLOCKED"] /\ Return(r, PostRecord(l))
          /\ Fresh(l, key[r]) /\ Store(l, r, "BLOCKED")
          /\ UNCHANGED <<key, apiCalls, security, order, orderAge>>
      BY <1>3 DEF BlockProposal, orders
    <2>2. /\ pc' \in [Requests -> Places] /\ running' = None
          /\ evidence' \in [Requests -> SUBSET {"PRE", "POST", "ERROR"}]
          /\ pc'[r] = "done" /\ evidence'[r] = evidence[r] \cup PostRecord(l)
          /\ \A q \in Requests \ {r} : pc'[q] = pc[q] /\ evidence'[q] = evidence[q]
      BY <1>1, <2>1, ReturnEffect, Zenon
    <2>3. /\ age' = [age EXCEPT ![l][key[r]] = 0]
          /\ age' \in [Ledgers -> [Keys -> 0 .. Never]]
          /\ buffer' \in [Ledgers -> Seq(Requests)]
          /\ history' \in [Ledgers -> Seq(Entries)]
      BY <1>1, <2>1, StoreTypes, Zenon
    <2>4. TypeOK'
      BY <1>1, <2>1, <2>2, <2>3 DEF TypeOK
    <2>5. GuardEnds(l, r)
      BY <1>1, <2>1, <2>2, <2>3 DEF GuardEnds, GuardFails, TypeOK
    <2>. QED
      BY <2>4, <2>5, GuardStep
  <1>4. CASE PassGuard(l, r)
    <2>1. /\ status' = [status EXCEPT ![l][r] = "RECEIPTED"]
          /\ Fresh(l, key[r]) /\ GuardChecks(l, r) /\ Store(l, r, "GUARDED")
          /\ evidence' = [evidence EXCEPT ![r] = evidence[r] \cup PostRecord(l)]
          /\ apiCalls' = IF l = "agent" THEN apiCalls + 1 ELSE apiCalls
          /\ pc' = [pc EXCEPT ![r] = Following(l)]
          /\ UNCHANGED <<running, key, security, order, orderAge>>
      BY <1>1, <1>4 DEF PassGuard, orders, TypeOK
    <2>2. /\ age' = [age EXCEPT ![l][key[r]] = 0]
          /\ age' \in [Ledgers -> [Keys -> 0 .. Never]]
          /\ buffer' \in [Ledgers -> Seq(Requests)]
          /\ history' \in [Ledgers -> Seq(Entries)]
      BY <1>1, <2>1, StoreTypes, Zenon
    <2>3. evidence' \in [Requests -> SUBSET {"PRE", "POST", "ERROR"}]
      BY <1>1, <2>1 DEF TypeOK, PostRecord
    <2>4. pc' \in [Requests -> Places] /\ pc'[r] = Following(l)
      BY <1>1, <2>1 DEF TypeOK, Places, Following, Ledgers
    <2>5. TypeOK'
      BY <1>1, <2>1, <2>2, <2>3, <2>4 DEF TypeOK
    <2>6. GuardEnds(l, r)
      BY <1>1, <2>1, <2>2, <2>4 DEF GuardEnds, GuardSeals, TypeOK
    <2>. QED
      BY <2>5, <2>6, GuardStep
  <1>5. CASE FlushRaises(l, r)
    <2>1. PICK left \in {"GUARDED", "BLOCKED"} :
              status' = [status EXCEPT ![l][r] = left]
      BY <1>5 DEF FlushRaises
    <2>2. /\ Fresh(l, key[r]) /\ age' = [age EXCEPT ![l][key[r]] = 0]
          /\ buffer' = [buffer EXCEPT ![l] = Append(@, r)]
          /\ Return(r, {"ERROR"})
          /\ UNCHANGED <<key, history, apiCalls, security, order, orderAge>>
      BY <1>5 DEF FlushRaises, ErrorEvidence, orders
    <2>3. {"ERROR"} \subseteq {"POST", "ERROR"}
      OBVIOUS
    <2>4. /\ pc' \in [Requests -> Places] /\ running' = None
          /\ evidence' \in [Requests -> SUBSET {"PRE", "POST", "ERROR"}]
          /\ pc'[r] = "done" /\ evidence'[r] = evidence[r] \cup {"ERROR"}
          /\ \A q \in Requests \ {r} : pc'[q] = pc[q] /\ evidence'[q] = evidence[q]
      BY <1>1, <2>2, <2>3, ReturnEffect, Zenon
    <2>5. TypeOK'
      <3>1. Append(buffer[l], r) \in Seq(Requests)
        BY <1>1 DEF TypeOK
      <3>2. buffer' \in [Ledgers -> Seq(Requests)]
        BY <1>1, <2>2, <3>1 DEF TypeOK
      <3>3. age' \in [Ledgers -> [Keys -> 0 .. Never]]
        BY <1>1, <2>2, TimeAssumption DEF TypeOK, Never
      <3>. QED
        BY <1>1, <2>1, <2>2, <2>4, <3>2, <3>3 DEF TypeOK
    <2>6. GuardEnds(l, r)
      BY <1>1, <2>1, <2>2, <2>4 DEF GuardEnds, GuardFails, TypeOK
    <2>. QED
      BY <2>5, <2>6, GuardStep
  <1>. QED
    BY <1>2, <1>3, <1>4, <1>5 DEF Guard

--------------------------------------------------------------------------------
(* The invariant, and what follows from it.                                *)

LEMMA InitIInv == Init => IInv
  <1>. SUFFICES ASSUME Init PROVE IInv
    OBVIOUS
  <1>1. TypeOK
    <2>1. /\ age \in [Ledgers -> [Keys -> 0 .. Never]]
          /\ orderAge \in [Requests -> 0 .. Timeout]
      BY TimeAssumption DEF Init, Never
    <2>2. << >> \in Seq(Requests) /\ << >> \in Seq(Entries)
      OBVIOUS
    <2>. QED
      BY <2>1, <2>2, SecurityTypes DEF Init, TypeOK, Places, Status
  <1>2. OneRuns /\ AllReached
    BY DEF Init, OneRuns, AllReached, Reached, Receipted, Between, Ledgers
  <1>3. SealedLineage /\ PreChecksAreClosed /\ OrphansAreErrors
    BY DEF Init, SealedLineage, PreChecksAreClosed, OrphansAreErrors
  <1>4. ClockAgrees /\ OthersWaitElsewhere /\ OneOrderInFlight
    BY DEF Init, ClockAgrees, OthersWaitElsewhere, OneOrderInFlight, Pending
  <1>5. BudgetCounts
    <2>1. Paid = {} /\ Passed = {}
      BY DEF Init, Paid, Passed, Receipted, Ledgers
    <2>2. Cardinality({}) = 0
      BY FS_EmptySet
    <2>. QED
      BY <2>1, <2>2 DEF Init, BudgetCounts
  <1>. QED
    BY <1>1, <1>2, <1>3, <1>4, <1>5 DEF IInv

LEMMA StutterIInv ==
  ASSUME IInv, UNCHANGED vars
  PROVE  IInv'
  <1>. USE DEF IInv, vars, ledgers, orders
  <1>1. TypeOK'
    BY DEF TypeOK
  <1>2. OneRuns' /\ AllReached'
    BY DEF OneRuns, AllReached, Reached, Receipted
  <1>3. SealedLineage' /\ PreChecksAreClosed' /\ OrphansAreErrors'
    BY DEF SealedLineage, PreChecksAreClosed, OrphansAreErrors, Failures
  <1>4. ClockAgrees' /\ OthersWaitElsewhere' /\ OneOrderInFlight'
    BY DEF ClockAgrees, OthersWaitElsewhere, OneOrderInFlight, Pending
  <1>5. BudgetCounts'
    BY DEF BudgetCounts, Paid, Passed, Receipted
  <1>. QED
    BY <1>1, <1>2, <1>3, <1>4, <1>5

LEMMA Invariance == Spec => []IInv
  <1>1. IInv /\ [Next]_vars => IInv'
    <2>. SUFFICES ASSUME IInv, [Next]_vars PROVE IInv'
      OBVIOUS
    <2>1. CASE \E r \in Requests : PreCheck(r)
      BY <2>1, PreCheckIInv
    <2>2. CASE \E r \in Requests : AgentAnswers(r)
      BY <2>2, AgentAnswersIInv
    <2>3. CASE \E r \in Requests : \E l \in Ledgers : Guard(l, r)
      BY <2>3, GuardIInv
    <2>4. CASE \E r \in Requests : Ordering(r)
      BY <2>4, OrderingIInv
    <2>5. CASE \E r \in Requests : ExchangeAnswers(r) \/ TimesOut(r)
      BY <2>5, OrderEndsIInv
    <2>6. CASE SecurityMoves
      BY <2>6, SecurityMovesIInv
    <2>7. CASE Tick
      BY <2>7, TickIInv
    <2>8. CASE UNCHANGED vars
      BY <2>8, StutterIInv
    <2>. QED
      BY <2>1, <2>2, <2>3, <2>4, <2>5, <2>6, <2>7, <2>8 DEF Next
  <1>. QED
    BY InitIInv, <1>1, PTL DEF Spec

(* Every variable has its type, for any requests and limits.               *)
THEOREM TypeCorrect == Spec => []TypeOK
  BY Invariance, PTL DEF IInv

(* No order without a receipt of the action, the execution and the submit  *)
(* ledger and closed pre-check evidence (AgentOrchestrator.execute).       *)
THEOREM OrdersAreSealed == Spec => []SealedLineage
  BY Invariance, PTL DEF IInv

(* The submit ledger's cooldown and the executor's wait_for keep two orders*)
(* of one fingerprint from being at the exchange together.                 *)
THEOREM OneOrderPerFingerprint == Spec => []OneOrderInFlight
  BY Invariance, PTL DEF IInv

(* Every allowed pre-check of the gate is closed by post_record or by      *)
(* post_record_error when execute returns.                                 *)
THEOREM ClosedPreChecks == Spec => []PreChecksAreClosed
  BY Invariance, PTL DEF IInv

(* A proposal left GUARDED is one whose flush raised.                      *)
THEOREM OrphansComeFromErrors == Spec => []OrphansAreErrors
  BY Invariance, PTL DEF IInv

(* The orders of a process stay below the API_CALLS budget.                *)
THEOREM BudgetBoundsOrders == Spec => []OrdersWithinBudget
  <1>1. IInv => OrdersWithinBudget
    <2>. SUFFICES ASSUME IInv, Ordered # {} PROVE Cardinality(Ordered) < ApiLimit
      BY DEF OrdersWithinBudget
    <2>1. Ordered \subseteq Passed
      BY DEF IInv, SealedLineage, Ordered, Passed, Receipted, Ledgers
    <2>2. IsFiniteSet(Passed)
      BY RequestAssumption, FS_Subset DEF Passed
    <2>3. Cardinality(Ordered) <= Cardinality(Passed)
          /\ Cardinality(Ordered) \in Nat /\ Cardinality(Passed) \in Nat
      BY <2>1, <2>2, FS_Subset, FS_CardinalityType
    <2>4. Cardinality(Passed) < ApiLimit
      BY <2>1 DEF IInv, BudgetCounts
    <2>. QED
      BY <2>3, <2>4, LimitAssumption
  <1>. QED
    BY Invariance, <1>1, PTL

--------------------------------------------------------------------------------
(* Nothing moves the security state between the submit tier's guard and    *)
(* the order: the request does not give way.                               *)
ClearToOrder == \A r \in Requests : pc[r] = "ordering" => SecurityClear

LEMMA ClearToOrderStep ==
  ASSUME IInv, ClearToOrder, [Next]_vars
  PROVE  ClearToOrder'
  <1>. SUFFICES ASSUME NEW q \in Requests, pc'[q] = "ordering"
                PROVE  SecurityClear'
    BY DEF ClearToOrder
  <1>. USE DEF ledgers, orders
  <1>1. /\ running \in Requests \cup {None} /\ pc \in [Requests -> Places]
        /\ pc[q] = "ordering" => running = q /\ running # None /\ SecurityClear
    BY NoneAssumption DEF IInv, TypeOK, OneRuns, Between, ClearToOrder
  <1>2. CASE \E r \in Requests : PreCheck(r) \/ AgentAnswers(r) \/ ExchangeAnswers(r)
                                 \/ TimesOut(r)
    BY <1>1, <1>2
    DEF PreCheck, PreCheckAllows, PreCheckBlocks, PreCheckForbids, Return, AgentAnswers,
        ValidationPasses, AgentRejects, AgentRaises, RiskApproves, ExchangeAnswers, TimesOut
  <1>3. ASSUME NEW r \in Requests, NEW l \in Ledgers, Guard(l, r)
        PROVE  SecurityClear'
    <2>1. running = r /\ pc[r] = l /\ security' = security
      BY <1>3 DEF Guard, SuppressDuplicate, BlockProposal, PassGuard, FlushRaises
    <2>2. CASE q = r
      <3>1. pc'[r] = IF PassGuard(l, r) THEN Following(l) ELSE "done"
        BY <1>1, <1>3, <2>2 DEF Guard, SuppressDuplicate, BlockProposal, PassGuard,
                           FlushRaises, Return
      <3>2. PassGuard(l, r) /\ l = "submit"
        BY <2>2, <3>1 DEF Following, Ledgers
      <3>3. SecurityClear
        BY <3>2 DEF PassGuard, GuardChecks
      <3>. QED
        BY <2>1, <3>3 DEF SecurityClear
    <2>3. CASE q # r
      <3>1. pc[q] = "ordering"
        BY <1>1, <1>3, <2>3 DEF Guard, SuppressDuplicate, BlockProposal, PassGuard,
                                FlushRaises, Return
      <3>. QED
        BY <1>1, <2>1, <2>3, <3>1
    <2>. QED
      BY <2>2, <2>3
  <1>4. CASE \E r \in Requests : Ordering(r)
    BY <1>1, <1>4 DEF Ordering, PPFDenies, DryRun, CreateOrder, Return, SecurityClear
  <1>5. CASE SecurityMoves \/ Tick
    BY <1>1, <1>5 DEF SecurityMoves, Tick
  <1>6. CASE UNCHANGED vars
    BY <1>1, <1>6 DEF vars, SecurityClear
  <1>. QED
    BY <1>2, <1>3, <1>4, <1>5, <1>6 DEF Next

(* An order is created only while the security state is neither LOCKDOWN   *)
(* nor QUARANTINED, whatever it was when the request was admitted.         *)
THEOREM NoOrderWhileLockedDown == Spec => NoOrderInLockdown
  <1>1. Init => ClearToOrder
    BY DEF Init, ClearToOrder
  <1>2. IInv /\ ClearToOrder /\ [Next]_vars => ClearToOrder'
    BY ClearToOrderStep
  <1>3. IInv /\ ClearToOrder /\ [Next]_vars =>
          [\A r \in Requests : r \notin Pending /\ r \in Pending'
              => security \in {"NORMAL", "RESTRICTED"}]_vars
    <2>. SUFFICES ASSUME IInv, ClearToOrder, Next, NEW r \in Requests,
                         r \notin Pending, r \in Pending'
                  PROVE  security \in {"NORMAL", "RESTRICTED"}
      OBVIOUS
    <2>1. order[r] # "PENDING" /\ order'[r] = "PENDING" /\ TypeOK
      BY DEF Pending, IInv
    <2>2. PICK q \in Requests : CreateOrder(q)
      BY <2>1 DEF Next, PreCheck, PreCheckAllows, PreCheckBlocks, PreCheckForbids,
           AgentAnswers, ValidationPasses, AgentRejects, AgentRaises, RiskApproves,
           Guard, SuppressDuplicate, BlockProposal, PassGuard, FlushRaises, Ordering,
           PPFDenies, DryRun, ExchangeAnswers, TimesOut, SecurityMoves, Tick, orders,
           TypeOK
    <2>3. SecurityClear /\ security \in SecurityStateEnum
      BY <2>1, <2>2 DEF CreateOrder, ClearToOrder, TypeOK
    <2>. QED
      BY <2>3, SecurityTypes DEF SecurityClear
  <1>. QED
    BY Invariance, <1>1, <1>2, <1>3, PTL DEF Spec, NoOrderInLockdown

--------------------------------------------------------------------------------
(* The chain implements OrderDesk. Holder and Names are the desk and the   *)
(* names as the chain's state shows them.                                  *)
Holder == IF running # None /\ pc[running] = "ordering" THEN running ELSE None
Names == [r \in Requests |-> IF Receipted("submit", r) THEN key[r] ELSE None]

LEMMA DeskInit == Init => Desk!Init
  BY DEF Init, Desk!Init, Ledgers, Never

LEMMA DeskStutters ==
  ASSUME Holder' = Holder, Names' = Names, age'["submit"] = age["submit"],
         UNCHANGED <<security, order, orderAge>>
  PROVE  UNCHANGED Desk!vars
  BY DEF Desk!vars, Holder, Names, Receipted

LEMMA DeskSecurity ==
  ASSUME Holder = None, security' \in SecurityStateEnum,
         UNCHANGED <<Holder, Names, age["submit"], order, orderAge>>
  PROVE  Desk!SecurityMoves
  BY DEF Desk!SecurityMoves, Holder, Names, Receipted, SecurityStateEnum, Severity,
         Desk!SecurityStateEnum, Desk!Severity

(* Until a request has passed the submit tier, its fingerprint is not in   *)
(* the desk's book; the names change with a receipt of that tier only.     *)
LEMMA SameNames ==
  ASSUME TypeOK,
         \A r \in Requests :
            /\ Receipted("submit", r)' <=> Receipted("submit", r)
            /\ Receipted("submit", r) => key'[r] = key[r]
  PROVE  Names' = Names
  BY DEF Names

LEMMA NobodyHolds ==
  ASSUME running = None PROVE Holder = None
  BY DEF Holder

(* Steps taken while nobody runs, up to the next await or guard.           *)
LEMMA DeskAgentSteps ==
  ASSUME IInv, NEW r \in Requests, PreCheck(r) \/ AgentAnswers(r)
  PROVE  [Desk!Next]_(Desk!vars)
  <1>0. TypeOK /\ running = None /\ r # None /\ pc \in [Requests -> Places]
    BY NoneAssumption DEF IInv, TypeOK, PreCheck, PreCheckAllows, PreCheckBlocks,
       PreCheckForbids, AgentAnswers, ValidationPasses, AgentRejects, AgentRaises,
       RiskApproves
  <1>1. /\ TypeOK /\ running = None /\ running' \in {None, r}
        /\ running' = r => pc'[r] = "agent"
        /\ UNCHANGED <<status, age, order, orderAge>>
        /\ key' = key \/ RiskApproves(r)
        /\ security' = security \/ PreCheckForbids(r)
    BY <1>0 DEF PreCheck, PreCheckAllows, PreCheckBlocks, PreCheckForbids, Return,
           AgentAnswers, ValidationPasses, AgentRejects, AgentRaises, RiskApproves,
           ledgers, orders
  <1>2. Holder = None /\ Holder' = None
    BY <1>1 DEF Holder
  <1>3. Names' = Names
    <2>1. pc[r] \in {"new", "validating", "assessing"} => ~Receipted("submit", r)
      BY DEF IInv, AllReached, Reached, Ledgers
    <2>2. key' = key \/ (~Receipted("submit", r) /\ key' = [key EXCEPT ![r] = key'[r]])
      <3>1. CASE RiskApproves(r)
        BY <1>1, <2>1, <3>1 DEF RiskApproves, TypeOK
      <3>. QED
        BY <1>1, <3>1
    <2>. QED
      BY <1>1, <2>2, SameNames DEF Receipted, TypeOK
  <1>4. CASE security' = security
    BY <1>1, <1>2, <1>3, <1>4, DeskStutters
  <1>5. CASE security' # security
    <2>1. PreCheckForbids(r)
      BY <1>1, <1>5
    <2>2. security' \in SecurityStateEnum
      BY <1>1, <2>1, SecurityTypes DEF PreCheckForbids, TypeOK
    <2>3. UNCHANGED <<Holder, Names, age["submit"], order, orderAge>>
      BY <1>1, <1>2, <1>3
    <2>. QED
      BY <1>2, <2>2, <2>3, DeskSecurity DEF Desk!Next
  <1>. QED
    BY <1>4, <1>5

(* A guard of the submit tier that passes gives the desk away; one that    *)
(* records a refusal makes the fingerprint rest; the other tiers' guards   *)
(* and a duplicate leave the desk alone.                                   *)
LEMMA SameCardinality == \A S : Desk!Cardinality(S) = Cardinality(S)
  BY DEF Desk!Cardinality, Cardinality

LEMMA DeskGive ==
  ASSUME NEW r \in Requests, NEW k \in Keys, Holder = None, Holder' = r, Names[r] = None,
         security \in {"NORMAL", "RESTRICTED"}, age["submit"][k] >= Cooldown,
         Cardinality({q \in Requests : Names[q] # None} \cup {r}) < ApiLimit,
         Names' = [Names EXCEPT ![r] = k],
         age'["submit"] = [age["submit"] EXCEPT ![k] = 0],
         UNCHANGED <<security, order, orderAge>>
  PROVE  Desk!Give(r, k)
  <1>1. Desk!Given = {q \in Requests : Names[q] # None}
    BY DEF Desk!Given, Names, Receipted
  <1>2. Desk!Cardinality(Desk!Given \cup {r}) < ApiLimit
    BY <1>1, SameCardinality
  <1>. QED
    BY <1>2 DEF Desk!Give, Desk!Rested, Holder, Names, Receipted

LEMMA DeskRefuse ==
  ASSUME NEW k \in Keys, Holder = None, Holder' = None, age["submit"][k] >= Cooldown,
         age'["submit"] = [age["submit"] EXCEPT ![k] = 0], Names' = Names,
         UNCHANGED <<security, order, orderAge>>
  PROVE  Desk!Refuse(k)
  BY DEF Desk!Refuse, Desk!Rested, Holder, Names, Receipted

(* Whoever was given the desk has paid for its call.                       *)
LEMMA DeskWithinBudget ==
  ASSUME IInv, NEW r \in Requests, Receipted("agent", r), WithinBudget
  PROVE  Cardinality({q \in Requests : Names[q] # None} \cup {r}) < ApiLimit
  <1> DEFINE given == {q \in Requests : Names[q] # None} \cup {r}
  <1>1. given \subseteq Paid
    BY DEF IInv, AllReached, Reached, Names, Paid
  <1>2. IsFiniteSet(Paid)
    BY RequestAssumption, FS_Subset DEF Paid
  <1>3. /\ Cardinality(given) <= Cardinality(Paid)
        /\ Cardinality(given) \in Nat /\ Cardinality(Paid) \in Nat
    BY <1>1, <1>2, FS_Subset, FS_CardinalityType
  <1>4. Cardinality(Paid) <= apiCalls /\ apiCalls \in Nat /\ apiCalls < ApiLimit
    BY DEF IInv, BudgetCounts, TypeOK, WithinBudget
  <1>. QED
    BY <1>3, <1>4, LimitAssumption

LEMMA DeskGuards ==
  ASSUME IInv, NEW l \in Ledgers, NEW r \in Requests, Guard(l, r)
  PROVE  [Desk!Next]_(Desk!vars)
  <1>1. /\ TypeOK /\ running = r /\ pc[r] = l /\ l # "ordering" /\ r # None
        /\ key[r] \in Keys /\ ~Receipted("submit", r)
        /\ l = "submit" => Receipted("agent", r)
        /\ UNCHANGED <<key, security, order, orderAge>>
    BY NoneAssumption
    DEF IInv, AllReached, Reached, Between, Ledgers, Guard, SuppressDuplicate,
        BlockProposal, PassGuard, FlushRaises, orders
  <1>2. PICK k \in Keys : key[r] = k
    BY <1>1
  <1>3. Holder = None
    BY <1>1 DEF Holder
  <1>4. \/ age' = age
        \/ age' = [age EXCEPT ![l][key[r]] = 0] /\ Fresh(l, key[r])
    BY DEF Guard, SuppressDuplicate, BlockProposal, PassGuard, FlushRaises, Store
  <1>5. CASE l = "submit" /\ PassGuard(l, r)
    <2>1. /\ pc'[r] = "ordering" /\ running' = r
          /\ status' = [status EXCEPT !["submit"][r] = "RECEIPTED"]
          /\ age' = [age EXCEPT !["submit"][k] = 0]
          /\ age["submit"][k] >= Cooldown /\ WithinBudget /\ SecurityClear
      BY <1>1, <1>2, <1>5 DEF Fresh, PassGuard, Store, Following, GuardChecks, TypeOK
    <2>2. Holder' = r
      BY <1>1, <2>1 DEF Holder
    <2>3. Names[r] = None /\ Names' = [Names EXCEPT ![r] = k]
      BY <1>1, <1>2, <2>1 DEF Names, Receipted, TypeOK, Ledgers
    <2>4. age'["submit"] = [age["submit"] EXCEPT ![k] = 0]
      BY <1>1, <2>1 DEF TypeOK, Ledgers
    <2>5. security \in {"NORMAL", "RESTRICTED"}
      BY <1>1, <2>1, SecurityTypes DEF SecurityClear, TypeOK
    <2>6. Cardinality({q \in Requests : Names[q] # None} \cup {r}) < ApiLimit
      BY <1>1, <1>5, <2>1, DeskWithinBudget
    <2>7. Desk!Give(r, k)
      BY <1>1, <1>3, <2>1, <2>2, <2>3, <2>4, <2>5, <2>6, DeskGive
    <2>. QED
      BY <2>7 DEF Desk!Next
  <1>6. CASE ~(l = "submit" /\ PassGuard(l, r))
    <2>1. \/ running' = None /\ \E left \in {"BLOCKED", "GUARDED"} :
                                    status' = [status EXCEPT ![l][r] = left]
          \/ /\ l # "submit" /\ running' = r /\ pc'[r] \in {"exec", "submit"}
             /\ status' = [status EXCEPT ![l][r] = "RECEIPTED"]
      BY <1>1, <1>6 DEF Guard, SuppressDuplicate, BlockProposal, PassGuard, FlushRaises,
                        Return, Following, Ledgers, TypeOK
    <2>2. Holder' = None
      BY <1>1, <2>1 DEF Holder
    <2>3. Names' = Names
      <3>1. \A q \in Requests : Receipted("submit", q)' <=> Receipted("submit", q)
        <4>1. CASE l = "submit"
          BY <1>1, <2>1, <4>1 DEF Receipted, TypeOK, Ledgers
        <4>2. CASE l # "submit"
          BY <1>1, <2>1, <4>2 DEF Receipted, TypeOK, Ledgers
        <4>. QED
          BY <4>1, <4>2
      <3>. QED
        BY <1>1, <3>1, SameNames
    <2>4. CASE age'["submit"] = age["submit"]
      BY <1>1, <1>3, <2>2, <2>3, <2>4, DeskStutters
    <2>5. CASE age'["submit"] # age["submit"]
      <3>1. l = "submit" /\ age' = [age EXCEPT ![l][k] = 0] /\ age["submit"][k] >= Cooldown
        BY <1>1, <1>2, <1>4, <2>5 DEF Fresh, TypeOK, Ledgers
      <3>2. age'["submit"] = [age["submit"] EXCEPT ![k] = 0]
        BY <1>1, <3>1 DEF TypeOK, Ledgers
      <3>3. Desk!Refuse(k)
        BY <1>1, <1>3, <2>2, <2>3, <3>1, <3>2, DeskRefuse
      <3>. QED
        BY <3>3 DEF Desk!Next
    <2>. QED
      BY <2>4, <2>5
  <1>. QED
    BY <1>5, <1>6

(* The holder leaves the desk, and the exchange or the timer answers.      *)
LEMMA DeskOrders ==
  ASSUME IInv, NEW r \in Requests, Ordering(r)
  PROVE  [Desk!Next]_(Desk!vars)
  <1>1. /\ TypeOK /\ running = r /\ pc[r] = "ordering" /\ order[r] = "none"
        /\ r # None /\ running' = None
        /\ UNCHANGED <<key, status, age, security>>
    BY NoneAssumption
    DEF IInv, AllReached, Reached, Ordering, PPFDenies, DryRun, CreateOrder, Return,
        ledgers, orders
  <1>2. PICK became \in {"none", "DRY", "PENDING"} :
          /\ order' = [order EXCEPT ![r] = became]
          /\ orderAge' = IF became = "PENDING" THEN [orderAge EXCEPT ![r] = 0] ELSE orderAge
    BY <1>1 DEF Ordering, PPFDenies, DryRun, CreateOrder, orders, TypeOK
  <1>3. Holder = r /\ Holder' = None /\ Names' = Names
    BY <1>1 DEF Holder, Names, Receipted
  <1>4. Desk!Leave(r, became)
    BY <1>1, <1>2, <1>3 DEF Desk!Leave, Holder, Names, Receipted
  <1>. QED
    BY <1>4 DEF Desk!Next

LEMMA DeskEnds ==
  ASSUME IInv, NEW r \in Requests, ExchangeAnswers(r) \/ TimesOut(r)
  PROVE  [Desk!Next]_(Desk!vars)
  <1>1. /\ TypeOK /\ running = None /\ running' = None
        /\ UNCHANGED <<key, status, age, security, orderAge>>
    BY DEF IInv, ExchangeAnswers, TimesOut, Return, ledgers
  <1>2. order[r] = "PENDING"
    BY DEF IInv, AllReached, Reached, ExchangeAnswers, TimesOut
  <1>3. PICK became \in {"FILLED", "ERROR", "TIMEOUT"} :
          /\ order' = [order EXCEPT ![r] = became]
          /\ became = "TIMEOUT" => orderAge[r] = Timeout
    BY DEF ExchangeAnswers, TimesOut, Expired
  <1>4. Holder = None /\ Holder' = None /\ Names' = Names
    BY <1>1 DEF Holder, Names, Receipted
  <1>5. Desk!End(r, became)
    BY <1>1, <1>2, <1>3, <1>4 DEF Desk!End, Desk!Pending, Holder, Names, Receipted
  <1>. QED
    BY <1>5 DEF Desk!Next

LEMMA DeskTick ==
  ASSUME IInv, Tick
  PROVE  Desk!Tick
  <1>1. /\ TypeOK /\ running = None /\ running' = None
        /\ UNCHANGED <<key, status, security, order>>
    BY DEF IInv, Tick
  <1>2. Holder = None /\ Holder' = None /\ Names' = Names
    BY <1>1 DEF Holder, Names, Receipted
  <1>3. age'["submit"] = [k \in Keys |-> IF age["submit"][k] <= Cooldown
                                         THEN age["submit"][k] + 1 ELSE age["submit"][k]]
    <2>1. \A k \in Keys : age["submit"][k] \in 0 .. Never
      BY <1>1 DEF TypeOK, Ledgers
    <2>2. age'["submit"] = [k \in Keys |-> IF age["submit"][k] < Never
                                           THEN age["submit"][k] + 1 ELSE Never]
      BY DEF Tick, Ledgers
    <2>. QED
      BY <2>1, <2>2, TimeAssumption DEF Never
  <1>4. /\ \A r \in Pending : orderAge[r] < Timeout
        /\ orderAge' = [r \in Requests |->
                           IF r \in Pending THEN orderAge[r] + 1 ELSE orderAge[r]]
    BY DEF Tick, TimersFire
  <1>. QED
    BY <1>1, <1>2, <1>3, <1>4
    DEF Desk!Tick, Desk!Pending, Pending, Holder, Names, Receipted

LEMMA DeskStep ==
  ASSUME IInv, [Next]_vars
  PROVE  [Desk!Next]_(Desk!vars)
  <1>1. CASE SecurityMoves
    <2>1. /\ TypeOK /\ Holder = None /\ security' \in SecurityStateEnum
          /\ UNCHANGED <<running, pc, key, status, age, order, orderAge>>
      BY <1>1, SecurityTypes DEF IInv, SecurityMoves, TypeOK, Holder, ledgers, orders
    <2>2. UNCHANGED <<Holder, Names, age["submit"], order, orderAge>>
      BY <2>1 DEF Holder, Names, Receipted
    <2>. QED
      BY <2>1, <2>2, DeskSecurity DEF Desk!Next
  <1>2. CASE Tick
    BY <1>2, DeskTick DEF Desk!Next
  <1>3. CASE UNCHANGED vars
    BY <1>3, DeskStutters DEF vars, ledgers, orders, Holder, Names, Receipted
  <1>. QED
    BY <1>1, <1>2, <1>3, DeskAgentSteps, DeskGuards, DeskOrders, DeskEnds DEF Next

(* However many requests are served at once, the orders leave as if one    *)
(* request at a time had stood at the desk: every check made before an     *)
(* await holds when its order leaves.                                      *)
THEOREM ChainIsOneDesk == Spec => OrdersLeaveOneDesk
  <1>1. Init => Desk!Init
    BY DeskInit
  <1>2. IInv /\ [Next]_vars => [Desk!Next]_(Desk!vars)
    BY DeskStep
  <1>. QED
    BY <1>1, <1>2, Invariance, PTL DEF Spec, OrdersLeaveOneDesk, Desk!Spec
=============================================================================
