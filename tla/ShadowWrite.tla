------------------------------ MODULE ShadowWrite ------------------------------
(***************************************************************************)
(* The bounded write of symbols.qualification_status                       *)
(* (app/services/shadow_write_service.py): evidence in an append-only      *)
(* receipt table, one execution per receipt, one manual rollback per       *)
(* execution, by sessions of a READ COMMITTED database that share the row  *)
(* with AssetService.qualify_and_record.                                   *)
(*                                                                         *)
(* The symbol of an execution or a rollback is an argument of its own:     *)
(* nothing compares it with the symbol of the receipt the call is about,   *)
(* and earlier uses of that receipt are looked for among the receipts of   *)
(* the symbol named in the call.  So a receipt binds a row, not the table. *)
(*                                                                         *)
(* A receipt is what its unique dedupe_key is computed from (the symbol,   *)
(* the values, the input fingerprint and the verdict) and its exec_of or   *)
(* rollback_of link, which the key leaves out.  BLOCKED receipts are left  *)
(* out: no operation reads them, so a call that ends in one changes        *)
(* nothing here.                                                           *)
(***************************************************************************)
EXTENDS FiniteSets

CONSTANTS
    Symbols,
    Fingerprints,  \* input fingerprints of pipeline runs
    Sessions,      \* database sessions of operators, scripts and services
    None

VARIABLES
    qual,       \* committed symbols.qualification_status
    receipts,   \* committed rows of shadow_write_receipt
    qualified,  \* committed qualification results: symbol and status
    tx          \* per session: its call, what it read and has not committed

vars == <<qual, receipts, qualified, tx>>

--------------------------------------------------------------------------------
Decisions == {"pass", "fail"}
QualStatus == Decisions \cup {"unchecked"}

(* The receipts of one verdict, each with the receipt it is about.         *)
ReceiptsOf(verdicts, about) ==
    [symbol : Symbols, current : QualStatus, intended : Decisions,
     fingerprint : Fingerprints, verdict : verdicts, of : about]

Evidence == ReceiptsOf({"would_write", "would_skip"}, {None})
Executions == ReceiptsOf({"executed"}, Evidence)
Rollbacks == ReceiptsOf({"rolled_back"}, Executions)
Receipts == Evidence \cup Executions \cup Rollbacks

ASSUME NoneAssumption == None \notin QualStatus \cup Symbols \cup Receipts

(* _make_execution_receipt: the values of r, the symbol of the call.       *)
About(r, s, verdict) == [r EXCEPT !.symbol = s, !.verdict = verdict, !.of = r]
Executed(r, s) == About(r, s, "executed")
RevertOf(e, s) == About(e, s, "rolled_back")
Key(r) == [r EXCEPT !.of = None]

Consumed(r, s) == Executed(r, s) \in receipts
RolledBack(e, s) == RevertOf(e, s) \in receipts

(* evaluate_verdict on a pipeline decision; ALLOWED_TRANSITIONS starts at  *)
(* unchecked only.                                                         *)
EvaluateVerdict(current, intended) ==
    IF current = intended THEN "would_skip"
    ELSE IF current = "unchecked" THEN "would_write" ELSE "blocked"

(* A session between two statements: the call it runs on a symbol, with    *)
(* the receipt it is about or the status it loaded. Once it has written,   *)
(* it holds the row (unless row is None), new receipts and a result.       *)
Idle == [call |-> "idle", symbol |-> None, receipt |-> None, seen |-> None,
         row |-> None, adds |-> {}, result |-> None]

Holders(s) == {x \in Sessions : tx[x].symbol = s /\ tx[x].row # None}
Unlocked(s) == TRUE   \* a slip: no row lock
RowFree(s) == Holders(s) = {}

(* The insert of a key waits for a transaction that has inserted it.       *)
KeyFree(r) == \A x \in Sessions : \A q \in tx[x].adds : Key(q) # Key(r)

Hold(x, row, adds, result) ==
    tx' = [tx EXCEPT ![x].call = "held", ![x].row = row, ![x].adds = adds,
                     ![x].result = result]

End(x) == tx' = [tx EXCEPT ![x] = Idle]

--------------------------------------------------------------------------------
Init ==
    /\ qual = [s \in Symbols |-> "unchecked"]
    /\ receipts = {}
    /\ qualified = {}
    /\ tx = [x \in Sessions |-> Idle]

(* evaluate_shadow_write: scripts name the status unchecked, other callers *)
(* the one they read. An existing key returns the receipt that has it.     *)
RecordEvidence(s, intended, f) ==
    /\ \E current \in {"unchecked", qual[s]} :
         LET verdict == EvaluateVerdict(current, intended)
         IN  /\ verdict # "blocked"
             /\ receipts' = receipts \cup
                  {[symbol |-> s, current |-> current, intended |-> intended,
                    fingerprint |-> f, verdict |-> verdict, of |-> None]}
    /\ UNCHANGED <<qual, qualified, tx>>

--------------------------------------------------------------------------------
(* execute_bounded_write.                                                  *)

(* Steps 2 to 5: the prior receipt is there, says would_write and is not   *)
(* consumed for the symbol s of the call.                                  *)
ExecRead(x, r, s) ==
    /\ tx[x] = Idle
    /\ r.verdict = "would_write" /\ ~Consumed(r, s)
    /\ tx' = [tx EXCEPT ![x] = [Idle EXCEPT !.call = "execute", !.symbol = s,
                                            !.receipt = r]]
    /\ UNCHANGED <<qual, receipts, qualified>>

(* Steps 6 to 10: SELECT FOR UPDATE, the comparison, the update and the    *)
(* EXECUTED receipt. A receipt whose key exists fails the flush, and with  *)
(* it the update.                                                          *)
NoUniqueKey(r) == FALSE   \* a slip: dedupe_key is not unique
KeyTaken(r) == \E q \in receipts : Key(q) = Key(r)

StalePrecondition(r, s) == qual[s] # r.current \/ qual[s] # "unchecked"

ExecWrite(x) ==
    LET r == tx[x].receipt
        s == tx[x].symbol
    IN  /\ tx[x].call = "execute" /\ RowFree(s)
        /\ IF StalePrecondition(r, s) \/ KeyTaken(Executed(r, s)) THEN End(x)
           ELSE Hold(x, r.intended, {Executed(r, s)}, None)
        /\ UNCHANGED <<qual, receipts, qualified>>

--------------------------------------------------------------------------------
(* rollback_bounded_write.                                                 *)

(* Steps 2 to 5, without a lock, for the symbol s of the call.             *)
RollbackRead(x, e, s) ==
    /\ tx[x] = Idle
    /\ e.verdict = "executed" /\ ~RolledBack(e, s)
    /\ qual[s] = e.intended
    /\ tx' = [tx EXCEPT ![x] = [Idle EXCEPT !.call = "rollback", !.symbol = s,
                                            !.receipt = e]]
    /\ UNCHANGED <<qual, receipts, qualified>>

(* Steps 6 to 8. An update that matches no row goes on if the status is    *)
(* the original all the same; else RollbackFailedError ends the call. The  *)
(* receipt is inserted in a savepoint: a key that exists costs only the    *)
(* receipt (ROLLBACK_ORPHAN), the revert stays.                            *)
OrphanReceipt(e, s) == {About(e, s, "rollback_orphan")}   \* a slip: it is stored
RolledBackReceipt(e, s) == IF KeyTaken(RevertOf(e, s)) THEN {} ELSE {RevertOf(e, s)}

RollbackWrite(x) ==
    LET e == tx[x].receipt
        s == tx[x].symbol
    IN  /\ tx[x].call = "rollback"
        /\ \/ /\ qual[s] = e.intended /\ RowFree(s)
              /\ KeyFree(RevertOf(e, s))
              /\ Hold(x, e.current, RolledBackReceipt(e, s), None)
           \/ /\ qual[s] = e.current
              /\ KeyFree(RevertOf(e, s))
              /\ Hold(x, None, RolledBackReceipt(e, s), None)
           \/ qual[s] \notin {e.intended, e.current} /\ End(x)
        /\ UNCHANGED <<qual, receipts, qualified>>

--------------------------------------------------------------------------------
(* AssetService.qualify_and_record loads the symbol, inserts its result    *)
(* and assigns the status; the row is updated in any case (updated_at),    *)
(* the status only if it differs from the one loaded.                      *)

QualifyRead(x, s) ==
    /\ tx[x] = Idle
    /\ tx' = [tx EXCEPT ![x] = [Idle EXCEPT !.call = "qualify", !.symbol = s,
                                            !.seen = qual[s]]]
    /\ UNCHANGED <<qual, receipts, qualified>>

QualifyWrite(x) ==
    LET s == tx[x].symbol IN
    /\ tx[x].call = "qualify" /\ RowFree(s)
    /\ \E v \in Decisions :
         Hold(x, IF v = tx[x].seen THEN qual[s] ELSE v, {}, v)
    /\ UNCHANGED <<qual, receipts, qualified>>

--------------------------------------------------------------------------------
(* The caller commits, or the transaction is lost: an exception, a lost    *)
(* connection, a crash.                                                    *)

(* A slip the runs must catch: the result is not part of the transaction.  *)
NoResult(x) == {}
Result(x) == IF tx[x].result = None THEN {} ELSE {<<tx[x].symbol, tx[x].result>>}

Commit(x) ==
    /\ tx[x].call = "held"
    /\ qual' = IF tx[x].row = None THEN qual
               ELSE [qual EXCEPT ![tx[x].symbol] = tx[x].row]
    /\ receipts' = receipts \cup tx[x].adds
    /\ qualified' = qualified \cup Result(x)
    /\ End(x)

Lose(x) ==
    /\ tx[x] # Idle
    /\ End(x)
    /\ UNCHANGED <<qual, receipts, qualified>>

Next ==
    \/ \E s \in Symbols, v \in Decisions, f \in Fingerprints : RecordEvidence(s, v, f)
    \/ \E x \in Sessions :
         \/ \E s \in Symbols : \/ \E r \in receipts : \/ ExecRead(x, r, s)
                                                   \/ RollbackRead(x, r, s)
                               \/ QualifyRead(x, s)
         \/ ExecWrite(x) \/ RollbackWrite(x) \/ QualifyWrite(x)
         \/ Commit(x) \/ Lose(x)

Spec == Init /\ [][Next]_vars

--------------------------------------------------------------------------------
Calls == {"idle", "execute", "rollback", "qualify", "held"}

Transactions ==
    [call : Calls, symbol : Symbols \cup {None}, receipt : Receipts \cup {None},
     seen : QualStatus \cup {None}, row : QualStatus \cup {None},
     adds : SUBSET Receipts, result : Decisions \cup {None}]

(* Every variable has its type.                                            *)
TypeOK ==
    /\ qual \in [Symbols -> QualStatus]
    /\ receipts \subseteq Receipts
    /\ qualified \subseteq Symbols \X Decisions
    /\ tx \in [Sessions -> Transactions]

(* Whatever sessions interleave, fail or roll back, and whichever symbols  *)
(* they name, a symbol that counts as decided has a reason on record: an   *)
(* execution of that value on it that was not rolled back there, or a      *)
(* qualification that came to it.                                          *)
Standing(s, v) == {e \in receipts : e.verdict = "executed" /\ e.symbol = s
                                    /\ e.intended = v /\ ~RolledBack(e, s)}
DecisionsAreExplained ==
    \A s \in Symbols : qual[s] # "unchecked" =>
        Standing(s, qual[s]) # {} \/ <<s, qual[s]>> \in qualified

(* The step that commits the change of the status of s by a call about r.  *)
ChangesFor(r, s) ==
    \E x \in Sessions : /\ tx[x].call = "held" /\ tx[x].receipt = r
                        /\ tx[x].symbol = s /\ tx[x].row # None
                        /\ tx'[x] = Idle /\ qual'[s] # qual[s]

(* "Prior receipt (WOULD_WRITE, not consumed) required" (contract of       *)
(* execute_bounded_write), as far as the code binds evidence: to each row. *)
(* An execution that changes a row is the first of its evidence on that    *)
(* row, although it looked before it had the row and a rollback may have   *)
(* restored the status since.                                              *)
EvidenceIsUsedOnce ==
    [][\A r \in receipts, s \in Symbols :
         r.verdict = "would_write" /\ Consumed(r, s) => ~ChangesFor(r, s)]_vars

(* The receipts account for the row: an EXECUTED receipt appears in the    *)
(* step that takes the row of its symbol from unchecked to its value,      *)
(* never without it, also when its evidence is another symbol's.           *)
ReceiptsAccountForWrites ==
    [][\A e \in receipts' \ receipts : e.verdict = "executed" =>
         qual[e.symbol] = "unchecked" /\ qual'[e.symbol] = e.intended]_vars

(* "1-time only", "No prior ROLLED_BACK receipt for this execution"        *)
(* (contract of rollback_bounded_write): a rollback that changes a row is  *)
(* the first of its execution on that row.                                 *)
RollbackOnce ==
    [][\A e \in receipts, s \in Symbols :
         e.verdict = "executed" /\ RolledBack(e, s) => ~ChangesFor(e, s)]_vars
=============================================================================
