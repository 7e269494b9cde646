--------------------------- MODULE ShadowWriteProofs ---------------------------
(* Theorems about ShadowWrite, for any symbols, fingerprints and sessions. *)
EXTENDS ShadowWrite, TLAPS

(* What a session may hold, by the call it runs.                           *)
ExecHeld(t) ==
    /\ t.receipt \in receipts /\ t.receipt.verdict = "would_write"
    /\ t.symbol \in Symbols
    /\ t.row = t.receipt.intended /\ t.result = None
    /\ t.adds = {Executed(t.receipt, t.symbol)}
    /\ qual[t.symbol] = "unchecked"
    /\ Executed(t.receipt, t.symbol) \notin receipts

RollbackHeld(t) ==
    /\ t.receipt \in receipts /\ t.receipt.verdict = "executed"
    /\ t.symbol \in Symbols
    /\ t.row \in {None, "unchecked"} /\ t.result = None
    /\ t.adds \subseteq {RevertOf(t.receipt, t.symbol)}

QualifyHeld(t) ==
    /\ t.receipt = None /\ t.symbol \in Symbols
    /\ t.adds = {} /\ t.result \in Decisions
    /\ t.row = t.result \/ t.row = qual[t.symbol]

Bare(t) == t.row = None /\ t.adds = {} /\ t.result = None

Shape(t) ==
    \/ t = Idle
    \/ /\ t.call = "execute" /\ Bare(t)
       /\ t.receipt \in receipts /\ t.receipt.verdict = "would_write"
       /\ t.symbol \in Symbols
    \/ /\ t.call = "rollback" /\ Bare(t)
       /\ t.receipt \in receipts /\ t.receipt.verdict = "executed"
       /\ t.symbol \in Symbols
    \/ t.call = "qualify" /\ Bare(t) /\ t.receipt = None /\ t.symbol \in Symbols
    \/ t.call = "held" /\ (ExecHeld(t) \/ RollbackHeld(t) \/ QualifyHeld(t))

Shapes == \A x \in Sessions : Shape(tx[x])

(* Row locks exclude each other.                                           *)
Mutex == \A x, y \in Sessions :
    x # y /\ tx[x].row # None /\ tx[y].row # None => tx[x].symbol # tx[y].symbol

(* Executions start at unchecked, rollbacks have their execution.          *)
Lineage == \A r \in receipts :
    /\ r.verdict # "would_skip" => r.current = "unchecked"
    /\ r.verdict = "rolled_back" => r.of \in receipts

(* A rollback that found the status reverted already, and holds no row, is *)
(* not about to withdraw the execution that explains a status.             *)
Threatened(e) == \E x \in Sessions :
    tx[x].row = None /\ RevertOf(e, e.symbol) \in tx[x].adds
Explained == \A s \in Symbols : qual[s] # "unchecked" =>
    \/ \E e \in Standing(s, qual[s]) : ~Threatened(e)
    \/ <<s, qual[s]>> \in qualified

IInv == TypeOK /\ Shapes /\ Mutex /\ Lineage /\ Explained

--------------------------------------------------------------------------------
(* The verdict tells evidence from its uses.                               *)
LEMMA Kinds ==
  ASSUME NEW r \in Receipts
  PROVE  /\ r.symbol \in Symbols /\ r.current \in QualStatus /\ r.intended \in Decisions
         /\ r.verdict = "would_write" => r \in Evidence
         /\ r.verdict = "executed" => r \in Executions
BY DEF Receipts, Evidence, Executions, Rollbacks, ReceiptsOf

(* What a use of a receipt is.                                             *)
LEMMA ExecutedType ==
  ASSUME NEW r \in Evidence, NEW s \in Symbols
  PROVE  /\ Executed(r, s) \in Receipts /\ Executed(r, s).verdict = "executed"
         /\ Executed(r, s).symbol = s /\ Executed(r, s).of = r
         /\ Executed(r, s).current = r.current
         /\ Executed(r, s).intended = r.intended
BY DEF Executed, About, Receipts, Evidence, Executions, ReceiptsOf

LEMMA RevertType ==
  ASSUME NEW e \in Executions, NEW s \in Symbols
  PROVE  /\ RevertOf(e, s) \in Receipts /\ RevertOf(e, s).verdict = "rolled_back"
         /\ RevertOf(e, s).symbol = s /\ RevertOf(e, s).of = e
         /\ RevertOf(e, s).current = e.current
BY DEF RevertOf, About, Receipts, Rollbacks, Executions, ReceiptsOf

LEMMA IdleType == Idle \in Transactions
BY DEF Idle, Transactions, Calls

--------------------------------------------------------------------------------
LEMMA InitInv == Init => IInv
<1> SUFFICES ASSUME Init PROVE IInv OBVIOUS
<1>1. TypeOK BY IdleType DEF Init, TypeOK, QualStatus
<1>2. Shapes BY DEF Init, Shapes, Shape
<1>3. Mutex BY DEF Init, Mutex, Idle
<1>4. Lineage /\ Explained BY DEF Init, Lineage, Explained
<1> QED BY <1>1, <1>2, <1>3, <1>4 DEF IInv

(* A step of one session that commits nothing.                             *)
LEMMA SessionStep ==
  ASSUME IInv, UNCHANGED <<qual, receipts, qualified>>, NEW x \in Sessions,
         tx' \in [Sessions -> Transactions],
         \A y \in Sessions \ {x} : tx'[y] = tx[y],
         Shape(tx'[x]),
         tx'[x].row # None => \A y \in Sessions \ {x} :
             tx[y].row # None => tx[y].symbol # tx'[x].symbol,
         \A e \in receipts : e.verdict = "executed" /\ tx'[x].row = None
             /\ RevertOf(e, e.symbol) \in tx'[x].adds => qual[e.symbol] = "unchecked"
  PROVE  IInv'
<1>1. TypeOK' BY DEF IInv, TypeOK
<1>2. Shapes'
  <2> SUFFICES ASSUME NEW y \in Sessions PROVE Shape(tx[y])' BY DEF Shapes
  <2>1. Shape(tx'[y])
    <3>1. CASE y = x BY <3>1
    <3>2. CASE y # x BY <3>2 DEF IInv, Shapes
    <3> QED BY <3>1, <3>2
  <2> QED BY <2>1 DEF Shape, Bare, ExecHeld, RollbackHeld, QualifyHeld
<1>3. Mutex' BY DEF IInv, Mutex
<1>4. Lineage' BY DEF IInv, Lineage
<1>5. Explained'
  <2> SUFFICES ASSUME NEW s \in Symbols, qual[s] # "unchecked", <<s, qual[s]>> \notin qualified
               PROVE  \E e \in Standing(s, qual[s]) : ~Threatened(e)'
    BY DEF Explained, Standing, RolledBack
  <2>1. PICK e \in Standing(s, qual[s]) : ~Threatened(e)
    BY DEF IInv, Explained
  <2>2. ~Threatened(e)'
    <3> SUFFICES ASSUME NEW y \in Sessions, tx'[y].row = None,
                        RevertOf(e, e.symbol) \in tx'[y].adds
                 PROVE  FALSE
      BY DEF Threatened
    <3>1. CASE y = x BY <3>1 DEF Standing
    <3>2. CASE y # x BY <2>1, <3>2 DEF Threatened
    <3> QED BY <3>1, <3>2
  <2> QED BY <2>1, <2>2
<1> QED BY <1>1, <1>2, <1>3, <1>4, <1>5 DEF IInv


LEMMA ExecReadInv ==
  ASSUME IInv, NEW x \in Sessions, NEW r \in receipts, NEW s \in Symbols,
         ExecRead(x, r, s)
  PROVE  IInv'
<1> DEFINE t == [Idle EXCEPT !.call = "execute", !.symbol = s, !.receipt = r]
<1>1. r \in Receipts BY DEF IInv, TypeOK
<1>2. t \in Transactions BY <1>1 DEF Idle, Transactions, Calls, Receipts
<1>3. tx' = [tx EXCEPT ![x] = t] /\ tx \in [Sessions -> Transactions]
  BY DEF ExecRead, IInv, TypeOK
<1>4. tx'[x] = t BY <1>3
<1>5. Shape(t) BY DEF Shape, Bare, Idle, ExecRead
<1>6. t.row = None /\ t.adds = {} BY DEF Idle
<1>7. \A y \in Sessions \ {x} : tx'[y] = tx[y] BY <1>3
<1> HIDE DEF t
<1>8. UNCHANGED <<qual, receipts, qualified>> BY DEF ExecRead
<1> QED BY <1>2, <1>3, <1>4, <1>5, <1>6, <1>7, <1>8, SessionStep

LEMMA RollbackReadInv ==
  ASSUME IInv, NEW x \in Sessions, NEW e \in receipts, NEW s \in Symbols,
         RollbackRead(x, e, s)
  PROVE  IInv'
<1> DEFINE t == [Idle EXCEPT !.call = "rollback", !.symbol = s, !.receipt = e]
<1>1. e \in Receipts BY DEF IInv, TypeOK
<1>2. t \in Transactions BY <1>1 DEF Idle, Transactions, Calls, Receipts
<1>3. tx' = [tx EXCEPT ![x] = t] /\ tx \in [Sessions -> Transactions]
  BY DEF RollbackRead, IInv, TypeOK
<1>4. tx'[x] = t BY <1>3
<1>5. Shape(t) BY DEF Shape, Bare, Idle, RollbackRead
<1>6. t.row = None /\ t.adds = {} BY DEF Idle
<1>7. \A y \in Sessions \ {x} : tx'[y] = tx[y] BY <1>3
<1> HIDE DEF t
<1>8. UNCHANGED <<qual, receipts, qualified>> BY DEF RollbackRead
<1> QED BY <1>2, <1>3, <1>4, <1>5, <1>6, <1>7, <1>8, SessionStep

LEMMA QualifyReadInv ==
  ASSUME IInv, NEW x \in Sessions, NEW s \in Symbols, QualifyRead(x, s)
  PROVE  IInv'
<1> DEFINE t == [Idle EXCEPT !.call = "qualify", !.symbol = s, !.seen = qual[s]]
<1>1. qual[s] \in QualStatus BY DEF IInv, TypeOK
<1>2. t \in Transactions BY <1>1 DEF Idle, Transactions, Calls
<1>3. tx' = [tx EXCEPT ![x] = t] /\ tx \in [Sessions -> Transactions]
  BY DEF QualifyRead, IInv, TypeOK
<1>4. tx'[x] = t BY <1>3
<1>5. Shape(t) BY DEF Shape, Bare, Idle
<1>6. t.row = None /\ t.adds = {} BY DEF Idle
<1>7. \A y \in Sessions \ {x} : tx'[y] = tx[y] BY <1>3
<1> HIDE DEF t
<1>8. UNCHANGED <<qual, receipts, qualified>> BY DEF QualifyRead
<1> QED BY <1>2, <1>3, <1>4, <1>5, <1>6, <1>7, <1>8, SessionStep

(* A session that ends without a commit, and the type of one that holds.   *)
LEMMA EndInv ==
  ASSUME IInv, NEW x \in Sessions, End(x), UNCHANGED <<qual, receipts, qualified>>
  PROVE  IInv'
<1>1. tx' = [tx EXCEPT ![x] = Idle] /\ tx \in [Sessions -> Transactions]
  BY DEF End, IInv, TypeOK
<1>2. tx'[x] = Idle /\ tx' \in [Sessions -> Transactions] BY <1>1, IdleType
<1>3. Shape(Idle) /\ Idle.row = None /\ Idle.adds = {} BY DEF Shape, Idle
<1>4. \A y \in Sessions \ {x} : tx'[y] = tx[y] BY <1>1
<1> QED BY <1>2, <1>3, <1>4, SessionStep

LEMMA HoldType ==
  ASSUME TypeOK, NEW x \in Sessions, NEW row \in QualStatus \cup {None},
         NEW adds \in SUBSET Receipts, NEW result \in Decisions \cup {None},
         Hold(x, row, adds, result)
  PROVE  /\ tx' \in [Sessions -> Transactions]
         /\ tx'[x].call = "held" /\ tx'[x].row = row /\ tx'[x].adds = adds
         /\ tx'[x].result = result
         /\ tx'[x].symbol = tx[x].symbol /\ tx'[x].receipt = tx[x].receipt
         /\ \A y \in Sessions \ {x} : tx'[y] = tx[y]
<1> DEFINE t == [tx[x] EXCEPT !.call = "held", !.row = row, !.adds = adds,
                              !.result = result]
<1>1. tx \in [Sessions -> Transactions] BY DEF TypeOK
<1>2. tx' = [tx EXCEPT ![x] = t] BY <1>1 DEF Hold, Transactions
<1>3. /\ t \in Transactions
      /\ t.call = "held" /\ t.row = row /\ t.adds = adds /\ t.result = result
      /\ t.symbol = tx[x].symbol /\ t.receipt = tx[x].receipt
  BY <1>1 DEF Transactions, Calls
<1> HIDE DEF t
<1> QED BY <1>1, <1>2, <1>3

LEMMA ExecWriteInv ==
  ASSUME IInv, NEW x \in Sessions, ExecWrite(x)
  PROVE  IInv'
<1> DEFINE r == tx[x].receipt
           s == tx[x].symbol
<1>1. CASE StalePrecondition(r, s) \/ KeyTaken(Executed(r, s))
  BY <1>1, EndInv DEF ExecWrite
<1>2. CASE ~(StalePrecondition(r, s) \/ KeyTaken(Executed(r, s)))
  <2>1. Hold(x, r.intended, {Executed(r, s)}, None) /\ UNCHANGED <<qual, receipts, qualified>>
        /\ tx[x].call = "execute" /\ RowFree(s)
    BY <1>2 DEF ExecWrite
  <2>2. r \in receipts /\ r.verdict = "would_write" /\ s \in Symbols
    BY <2>1 DEF IInv, Shapes, Shape, Idle
  <2>3. r \in Receipts /\ r.intended \in Decisions /\ Executed(r, s) \in Receipts
    BY <2>2, Kinds, ExecutedType DEF IInv, TypeOK
  <2>4. /\ tx' \in [Sessions -> Transactions]
        /\ tx'[x].call = "held" /\ tx'[x].row = r.intended
        /\ tx'[x].adds = {Executed(r, s)} /\ tx'[x].result = None
        /\ tx'[x].symbol = s /\ tx'[x].receipt = r
        /\ \A y \in Sessions \ {x} : tx'[y] = tx[y]
    <3>1. r.intended \in QualStatus \cup {None} BY <2>3 DEF QualStatus
    <3>2. {Executed(r, s)} \in SUBSET Receipts BY <2>3
    <3>3. TypeOK BY DEF IInv
    <3>4. Hold(x, r.intended, {Executed(r, s)}, None) BY <2>1
    <3> QED BY ONLY <3>1, <3>2, <3>3, <3>4, x \in Sessions, HoldType
  <2>5. qual[s] = "unchecked" /\ Executed(r, s) \notin receipts
    BY <1>2 DEF StalePrecondition, KeyTaken
  <2>6. \A y \in Sessions \ {x} : tx[y].row # None => tx[y].symbol # tx'[x].symbol
    BY <2>1, <2>4 DEF RowFree, Holders
  <2>7. tx'[x].row # None
    BY <2>3, <2>4, NoneAssumption DEF QualStatus
  <2> HIDE DEF r, s
  <2>8. Shape(tx'[x])
    BY <2>2, <2>4, <2>5 DEF Shape, ExecHeld
  <2> QED BY <2>1, <2>4, <2>6, <2>7, <2>8, SessionStep
<1> QED BY <1>1, <1>2

LEMMA RollbackWriteInv ==
  ASSUME IInv, NEW x \in Sessions, RollbackWrite(x)
  PROVE  IInv'
<1> DEFINE e == tx[x].receipt
           s == tx[x].symbol
           adds == RolledBackReceipt(e, s)
<1>0. tx[x].call = "rollback" /\ UNCHANGED <<qual, receipts, qualified>>
  BY DEF RollbackWrite
<1>1. e \in receipts /\ e.verdict = "executed" /\ s \in Symbols
  BY <1>0 DEF IInv, Shapes, Shape, Idle
<1>2. e \in Executions /\ e.current = "unchecked"
  BY <1>1, Kinds DEF IInv, TypeOK, Lineage
<1>3. adds \in SUBSET Receipts /\ adds \subseteq {RevertOf(e, s)}
  BY <1>1, <1>2, RevertType DEF RolledBackReceipt
<1>4. ASSUME NEW row \in {None, "unchecked"}, Hold(x, row, adds, None),
             row = "unchecked" => RowFree(s),
             row = None => qual[s] = "unchecked"
      PROVE  IInv'
  <2>1. /\ tx' \in [Sessions -> Transactions]
        /\ tx'[x].call = "held" /\ tx'[x].row = row /\ tx'[x].adds = adds
        /\ tx'[x].result = None
        /\ tx'[x].symbol = s /\ tx'[x].receipt = e
        /\ \A y \in Sessions \ {x} : tx'[y] = tx[y]
    <3> HIDE DEF adds
    <3> QED BY <1>3, <1>4, HoldType DEF IInv, QualStatus
  <2>2. Shape(tx'[x])
    <3> HIDE DEF adds, e, s
    <3> QED BY <1>1, <1>3, <2>1 DEF Shape, RollbackHeld
  <2>3. row # None => \A y \in Sessions \ {x} :
            tx[y].row # None => tx[y].symbol # tx'[x].symbol
    BY <1>4, <2>1 DEF RowFree, Holders
  <2>4. ASSUME NEW q \in receipts, q.verdict = "executed", row = None,
               RevertOf(q, q.symbol) \in adds
        PROVE  qual[q.symbol] = "unchecked"
    <3>1. RevertOf(q, q.symbol) = RevertOf(e, s) BY <1>3, <2>4
    <3>2. q \in Executions /\ q.symbol \in Symbols
      BY <2>4, Kinds DEF IInv, TypeOK
    <3>3. q.symbol = s BY <1>1, <1>2, <3>1, <3>2, RevertType
    <3> QED BY <1>4, <2>4, <3>3
  <2> HIDE DEF e, s, adds
  <2> QED BY <1>0, <2>1, <2>2, <2>3, <2>4, SessionStep
<1>5. CASE qual[s] = e.intended /\ RowFree(s) /\ Hold(x, e.current, adds, None)
  BY <1>2, <1>4, <1>5, NoneAssumption DEF QualStatus
<1>6. CASE qual[s] = e.current /\ Hold(x, None, adds, None)
  BY <1>2, <1>4, <1>6, NoneAssumption DEF QualStatus
<1>7. CASE End(x) BY <1>0, <1>7, EndInv
<1> QED BY <1>5, <1>6, <1>7 DEF RollbackWrite

LEMMA QualifyWriteInv ==
  ASSUME IInv, NEW x \in Sessions, QualifyWrite(x)
  PROVE  IInv'
<1> DEFINE s == tx[x].symbol
<1>1. tx[x].call = "qualify" /\ RowFree(s) /\ UNCHANGED <<qual, receipts, qualified>>
  BY DEF QualifyWrite
<1>2. tx[x].receipt = None /\ s \in Symbols
  BY <1>1 DEF IInv, Shapes, Shape, Idle
<1>3. PICK v \in Decisions :
        Hold(x, IF v = tx[x].seen THEN qual[s] ELSE v, {}, v)
  BY DEF QualifyWrite
<1> DEFINE row == IF v = tx[x].seen THEN qual[s] ELSE v
<1>4. row \in QualStatus /\ (row = v \/ row = qual[s])
  BY <1>2 DEF IInv, TypeOK, QualStatus
<1>5. /\ tx' \in [Sessions -> Transactions]
      /\ tx'[x].call = "held" /\ tx'[x].row = row /\ tx'[x].adds = {}
      /\ tx'[x].result = v /\ tx'[x].symbol = s /\ tx'[x].receipt = None
      /\ \A y \in Sessions \ {x} : tx'[y] = tx[y]
  <2>1. Hold(x, row, {}, v) BY <1>3
  <2> HIDE DEF row
  <2> QED BY <1>2, <1>4, <2>1, HoldType DEF IInv
<1>6. Shape(tx'[x])
  <2> HIDE DEF row, s
  <2> QED BY <1>2, <1>4, <1>5 DEF Shape, QualifyHeld
<1>7. \A y \in Sessions \ {x} : tx[y].row # None => tx[y].symbol # tx'[x].symbol
  BY <1>1, <1>5 DEF RowFree, Holders
<1>8. tx'[x].row # None
  BY <1>4, <1>5, NoneAssumption
<1> HIDE DEF row, s
<1> QED BY <1>1, <1>5, <1>6, <1>7, <1>8, SessionStep


--------------------------------------------------------------------------------
(* The two steps that change the tables.                                   *)

LEMMA RecordEvidenceInv ==
  ASSUME IInv, NEW s \in Symbols, NEW v \in Decisions, NEW f \in Fingerprints,
         RecordEvidence(s, v, f)
  PROVE  IInv'
<1>1. PICK current \in {"unchecked", qual[s]} :
        /\ EvaluateVerdict(current, v) # "blocked"
        /\ receipts' = receipts \cup
             {[symbol |-> s, current |-> current, intended |-> v,
               fingerprint |-> f, verdict |-> EvaluateVerdict(current, v),
               of |-> None]}
  BY DEF RecordEvidence
<1> DEFINE q == [symbol |-> s, current |-> current, intended |-> v,
                 fingerprint |-> f, verdict |-> EvaluateVerdict(current, v),
                 of |-> None]
<1>2. UNCHANGED <<qual, qualified, tx>> BY DEF RecordEvidence
<1>3. /\ q \in Receipts /\ q.verdict \in {"would_write", "would_skip"}
      /\ q.verdict = "would_write" => q.current = "unchecked"
  BY <1>1 DEF IInv, TypeOK, QualStatus, EvaluateVerdict, Receipts, Evidence, ReceiptsOf
<1>4. receipts' = receipts \cup {q} BY <1>1
<1>5. \A s1 \in Symbols : /\ \A r \in Evidence : Executed(r, s1) # q
                        /\ \A e \in Executions : RevertOf(e, s1) # q
  BY <1>3, ExecutedType, RevertType
<1> HIDE DEF q
<1>6. TypeOK' BY <1>2, <1>3, <1>4 DEF IInv, TypeOK
<1>7. Shapes'
  <2> SUFFICES ASSUME NEW x \in Sessions PROVE Shape(tx[x])' BY DEF Shapes
  <2>1. Shape(tx[x]) BY DEF IInv, Shapes
  <2>2. ASSUME ExecHeld(tx[x]) PROVE ExecHeld(tx[x])'
    <3>1. tx[x].receipt \in Evidence /\ tx[x].symbol \in Symbols
      BY <2>2, Kinds DEF ExecHeld, IInv, TypeOK
    <3> QED BY <1>2, <1>4, <1>5, <2>2, <3>1 DEF ExecHeld
  <2>3. ASSUME RollbackHeld(tx[x]) PROVE RollbackHeld(tx[x])'
    BY <1>2, <1>4, <2>3 DEF RollbackHeld
  <2>4. ASSUME QualifyHeld(tx[x]) PROVE QualifyHeld(tx[x])'
    BY <1>2, <2>4 DEF QualifyHeld
  <2> QED BY <1>2, <1>4, <2>1, <2>2, <2>3, <2>4 DEF Shape, Bare
<1>8. Mutex' BY <1>2 DEF IInv, Mutex
<1>9. Lineage'
  BY <1>3, <1>4 DEF IInv, Lineage
<1>10. Explained'
  <2> SUFFICES ASSUME NEW u \in Symbols, qual[u] # "unchecked", <<u, qual[u]>> \notin qualified
               PROVE  \E e \in Standing(u, qual[u])' : ~Threatened(e)'
    BY <1>2 DEF Explained, Standing, RolledBack
  <2>1. PICK e \in Standing(u, qual[u]) : ~Threatened(e)
    BY DEF IInv, Explained
  <2>2. e \in Standing(u, qual[u])'
    BY <1>2, <1>4, <1>5, <2>1, Kinds DEF Standing, RolledBack, IInv, TypeOK
  <2>3. ~Threatened(e)' BY <1>2, <2>1 DEF Threatened
  <2> QED BY <2>2, <2>3
<1> QED BY <1>6, <1>7, <1>8, <1>9, <1>10 DEF IInv

(* What a commit does to the tables, and to whom it does nothing.          *)
LEMMA CommitEffect ==
  ASSUME IInv, NEW x \in Sessions, Commit(x)
  PROVE  /\ tx' = [tx EXCEPT ![x] = Idle] /\ tx'[x] = Idle
         /\ \A y \in Sessions \ {x} : tx'[y] = tx[y]
         /\ \A y \in Sessions \ {x} : tx[y].row # None /\ tx[y].symbol \in Symbols
              => qual'[tx[y].symbol] = qual[tx[y].symbol]
         /\ receipts' = receipts \cup tx[x].adds
         /\ ExecHeld(tx[x]) \/ RollbackHeld(tx[x]) \/ QualifyHeld(tx[x])
         /\ tx[x].symbol \in Symbols
<1>1. tx \in [Sessions -> Transactions] BY DEF IInv, TypeOK
<1>2. tx' = [tx EXCEPT ![x] = Idle] BY DEF Commit, End
<1>3. ExecHeld(tx[x]) \/ RollbackHeld(tx[x]) \/ QualifyHeld(tx[x])
  BY DEF Commit, IInv, Shapes, Shape, Idle
<1>4. tx[x].symbol \in Symbols
  BY <1>3 DEF ExecHeld, RollbackHeld, QualifyHeld
<1>5. \A y \in Sessions \ {x} : tx[y].row # None /\ tx[y].symbol \in Symbols
        => qual'[tx[y].symbol] = qual[tx[y].symbol]
  BY <1>4 DEF Commit, IInv, Mutex, TypeOK
<1> QED BY <1>1, <1>2, <1>3, <1>4, <1>5 DEF Commit

LEMMA CommitInv ==
  ASSUME IInv, NEW x \in Sessions, Commit(x)
  PROVE  IInv'
<1> DEFINE t == tx[x]
<1>1. /\ tx' = [tx EXCEPT ![x] = Idle] /\ tx'[x] = Idle
      /\ \A y \in Sessions \ {x} : tx'[y] = tx[y]
      /\ \A y \in Sessions \ {x} : tx[y].row # None /\ tx[y].symbol \in Symbols
           => qual'[tx[y].symbol] = qual[tx[y].symbol]
      /\ receipts' = receipts \cup t.adds
      /\ ExecHeld(t) \/ RollbackHeld(t) \/ QualifyHeld(t)
      /\ t.symbol \in Symbols
  BY CommitEffect
<1>2. TypeOK'
  <2>1. t \in Transactions BY DEF IInv, TypeOK
  <2>2. tx' \in [Sessions -> Transactions] BY <1>1, IdleType DEF IInv, TypeOK
  <2>3. receipts' \subseteq Receipts BY <1>1, <2>1 DEF IInv, TypeOK, Transactions
  <2>4. qual' \in [Symbols -> QualStatus]
    <3>1. t.row \in QualStatus \cup {None} BY <2>1 DEF Transactions
    <3> HIDE DEF t
    <3> QED BY <3>1 DEF Commit, IInv, TypeOK, t
  <2>5. qualified' \subseteq Symbols \X Decisions
    BY <1>1, <2>1 DEF Commit, IInv, TypeOK, Transactions, Result
  <2> QED BY <2>2, <2>3, <2>4, <2>5 DEF TypeOK
<1>3. /\ ExecHeld(t) => t.receipt \in Evidence
      /\ RollbackHeld(t) => t.receipt \in Executions
  BY Kinds DEF IInv, TypeOK, ExecHeld, RollbackHeld
<1>4. ASSUME NEW y \in Sessions \ {x}, ExecHeld(tx[y])
      PROVE  Executed(tx[y].receipt, tx[y].symbol) \notin t.adds
  <2>1. tx[y].receipt \in Evidence /\ tx[y].symbol \in Symbols /\ tx[y].row # None
    BY <1>4, Kinds, NoneAssumption DEF IInv, TypeOK, ExecHeld, QualStatus
  <2>2. CASE ExecHeld(t)
    <3>1. t.row # None
      BY <2>2, Kinds, NoneAssumption DEF IInv, TypeOK, ExecHeld, QualStatus
    <3>2. t.symbol # tx[y].symbol BY <2>1, <3>1 DEF IInv, Mutex
    <3>3. Executed(tx[y].receipt, tx[y].symbol) # Executed(t.receipt, t.symbol)
      BY <1>1, <1>3, <2>1, <2>2, <3>2, ExecutedType
    <3> QED BY <2>2, <3>3 DEF ExecHeld
  <2>3. CASE RollbackHeld(t)
    <3>1. Executed(tx[y].receipt, tx[y].symbol) # RevertOf(t.receipt, t.symbol)
      BY <1>1, <1>3, <2>1, <2>3, ExecutedType, RevertType
    <3> QED BY <2>3, <3>1 DEF RollbackHeld
  <2> QED BY <1>1, <2>2, <2>3 DEF QualifyHeld
<1>5. Shapes'
  <2> SUFFICES ASSUME NEW y \in Sessions PROVE Shape(tx[y])' BY DEF Shapes
  <2>1. CASE y = x BY <1>1, <2>1 DEF Shape
  <2>2. CASE y # x
    <3>1. Shape(tx[y]) /\ tx'[y] = tx[y] BY <1>1, <2>2 DEF IInv, Shapes
    <3>2. ASSUME ExecHeld(tx[y]) PROVE ExecHeld(tx[y])'
      <4>2. tx[y].row # None /\ tx[y].symbol \in Symbols
        BY <3>2, Kinds, NoneAssumption DEF ExecHeld, IInv, TypeOK, QualStatus
      <4>3. qual'[tx[y].symbol] = "unchecked" BY <1>1, <2>2, <3>2, <4>2 DEF ExecHeld
      <4> QED BY <1>1, <1>4, <2>2, <3>1, <3>2, <4>3 DEF ExecHeld
    <3>3. ASSUME RollbackHeld(tx[y]) PROVE RollbackHeld(tx[y])'
      BY <1>1, <3>1, <3>3 DEF RollbackHeld
    <3>4. ASSUME QualifyHeld(tx[y]) PROVE QualifyHeld(tx[y])'
      <4>1. tx[y].row # None
        BY <3>4, NoneAssumption DEF QualifyHeld, IInv, TypeOK, QualStatus
      <4> QED BY <1>1, <2>2, <3>1, <3>4, <4>1 DEF QualifyHeld
    <3> QED BY <1>1, <3>1, <3>2, <3>3, <3>4 DEF Shape, Bare
  <2> QED BY <2>1, <2>2
<1>6. Mutex' BY <1>1 DEF IInv, Mutex, Idle
<1>7. Lineage'
  <2> SUFFICES ASSUME NEW r \in receipts'
               PROVE  /\ r.verdict # "would_skip" => r.current = "unchecked"
                      /\ r.verdict = "rolled_back" => r.of \in receipts'
    BY DEF Lineage
  <2>1. CASE r \in receipts BY <1>1, <2>1 DEF IInv, Lineage
  <2>2. CASE r \in t.adds
    <3>1. t.receipt \in receipts /\ t.receipt.current = "unchecked"
      BY <1>1, <2>2 DEF IInv, Lineage, ExecHeld, RollbackHeld, QualifyHeld
    <3>2. CASE ExecHeld(t)
      <4>1. r = Executed(t.receipt, t.symbol) BY <2>2, <3>2 DEF ExecHeld
      <4> QED BY <1>1, <1>3, <3>1, <3>2, <4>1, ExecutedType
    <3>3. CASE RollbackHeld(t)
      <4>1. r = RevertOf(t.receipt, t.symbol) BY <2>2, <3>3 DEF RollbackHeld
      <4> QED BY <1>1, <1>3, <3>1, <3>3, <4>1, RevertType
    <3> QED BY <1>1, <2>2, <3>2, <3>3 DEF QualifyHeld
  <2> QED BY <1>1, <2>1, <2>2
<1>8. Explained'
  <2> SUFFICES ASSUME NEW s \in Symbols, qual'[s] # "unchecked",
                      <<s, qual'[s]>> \notin qualified'
               PROVE  \E e \in Standing(s, qual[s])' : ~Threatened(e)'
    BY DEF Explained
  <2>0. /\ qual' = IF t.row = None THEN qual ELSE [qual EXCEPT ![t.symbol] = t.row]
        /\ qualified' = qualified \cup Result(x)
    BY DEF Commit
  <2>1. CASE qual'[s] = qual[s]
    <3>1. PICK e \in Standing(s, qual[s]) : ~Threatened(e)
      BY <2>0, <2>1 DEF IInv, Explained
    <3>2. e \in receipts /\ e \in Executions /\ e.verdict = "executed"
          /\ ~RolledBack(e, s) /\ e.symbol = s /\ e.intended = qual[s]
      BY Kinds DEF Standing, IInv, TypeOK
    <3>3. RevertOf(e, s) \notin t.adds
      <4>1. CASE ExecHeld(t)
        <5>1. Executed(t.receipt, t.symbol) # RevertOf(e, s)
          BY <1>1, <1>3, <3>2, <4>1, ExecutedType, RevertType
        <5> QED BY <4>1, <5>1 DEF ExecHeld
      <4>2. CASE RollbackHeld(t) /\ t.row = None BY <3>1, <3>2, <4>2 DEF Threatened
      <4>3. CASE RollbackHeld(t) /\ t.row # None
        <5>1. qual'[t.symbol] = "unchecked"
          BY <1>1, <2>0, <4>3 DEF RollbackHeld, IInv, TypeOK
        <5>2. s # t.symbol BY <5>1
        <5>3. RevertOf(e, s) # RevertOf(t.receipt, t.symbol)
          BY <1>1, <1>3, <3>2, <4>3, <5>2, RevertType
        <5> QED BY <4>3, <5>3 DEF RollbackHeld
      <4> QED BY <1>1, <4>1, <4>2, <4>3 DEF QualifyHeld
    <3>4. e \in Standing(s, qual[s])'
      BY <1>1, <2>1, <3>2, <3>3 DEF Standing, RolledBack
    <3>5. ~Threatened(e)' BY <1>1, <3>1 DEF Threatened, Idle
    <3> QED BY <3>4, <3>5
  <2>2. CASE qual'[s] # qual[s]
    <3>1. t.row # None /\ s = t.symbol /\ qual'[s] = t.row
      BY <1>1, <2>0, <2>2 DEF IInv, TypeOK
    <3>2. ~RollbackHeld(t) BY <3>1 DEF RollbackHeld
    <3>3. ~QualifyHeld(t)
      <4> SUFFICES ASSUME QualifyHeld(t) PROVE FALSE OBVIOUS
      <4>1. t.row = t.result BY <2>2, <3>1 DEF QualifyHeld
      <4>2. t.result # None BY NoneAssumption DEF QualifyHeld, QualStatus
      <4>3. Result(x) = {<<s, qual'[s]>>} BY <3>1, <4>1, <4>2 DEF Result
      <4> QED BY <2>0, <4>3
    <3>4. ExecHeld(t) BY <1>1, <3>2, <3>3
    <3>5. t.receipt \in Evidence BY <1>3, <3>4
    <3>6. PICK e \in receipts' :
            /\ e = Executed(t.receipt, t.symbol)
            /\ e \in Executions /\ e \notin receipts /\ e.verdict = "executed"
            /\ e.symbol = s /\ e.intended = qual'[s]
      BY <1>1, <3>1, <3>4, <3>5, ExecutedType, Kinds DEF ExecHeld
    <3>7. RevertOf(e, s).verdict = "rolled_back" /\ RevertOf(e, s).of = e
      BY <3>6, RevertType
    <3>8. RevertOf(e, s) \notin receipts'
      <4>1. t.adds = {e} BY <3>4, <3>6 DEF ExecHeld
      <4>2. RevertOf(e, s) # e BY <3>6, <3>7
      <4>3. RevertOf(e, s) \notin receipts BY <3>6, <3>7 DEF IInv, Lineage
      <4> QED BY <1>1, <4>1, <4>2, <4>3
    <3>9. e \in Standing(s, qual[s])' BY <3>6, <3>8 DEF Standing, RolledBack
    <3>10. ~Threatened(e)'
      <4> SUFFICES ASSUME NEW y \in Sessions, tx'[y].row = None,
                          RevertOf(e, e.symbol) \in tx'[y].adds
                   PROVE  FALSE
        BY DEF Threatened
      <4>1. y # x /\ tx'[y] = tx[y] BY <1>1 DEF Idle
      <4>2. Shape(tx[y]) BY DEF IInv, Shapes
      <4>3. tx[y].row # None \/ ~ExecHeld(tx[y])
        BY Kinds, NoneAssumption DEF ExecHeld, IInv, TypeOK, QualStatus
      <4>4. RollbackHeld(tx[y])
        BY <4>1, <4>2, <4>3 DEF Shape, Bare, Idle, QualifyHeld
      <4>5. /\ tx[y].receipt \in receipts /\ tx[y].receipt \in Executions
            /\ tx[y].symbol \in Symbols
            /\ RevertOf(e, s) = RevertOf(tx[y].receipt, tx[y].symbol)
        BY <3>6, <4>1, <4>4, Kinds DEF RollbackHeld, IInv, TypeOK
      <4>6. e = tx[y].receipt BY <3>7, <4>5, RevertType
      <4> QED BY <3>6, <4>5, <4>6
    <3> QED BY <3>9, <3>10
  <2> QED BY <2>1, <2>2
<1> QED BY <1>2, <1>5, <1>6, <1>7, <1>8 DEF IInv

LEMMA LoseInv ==
  ASSUME IInv, NEW x \in Sessions, Lose(x)
  PROVE  IInv'
BY EndInv DEF Lose

--------------------------------------------------------------------------------
LEMMA StepInv == IInv /\ [Next]_vars => IInv'
<1> SUFFICES ASSUME IInv, [Next]_vars PROVE IInv' OBVIOUS
<1>1. CASE UNCHANGED vars
  <2> USE <1>1 DEF vars
  <2>1. TypeOK' /\ Mutex' BY DEF IInv, TypeOK, Mutex
  <2>2. Shapes' BY DEF IInv, Shapes, Shape, Bare, ExecHeld, RollbackHeld, QualifyHeld
  <2>3. Lineage' BY DEF IInv, Lineage
  <2>4. Explained'
    BY DEF IInv, Explained, Standing, RolledBack, Threatened
  <2> QED BY <2>1, <2>2, <2>3, <2>4 DEF IInv
<1>2. CASE Next
  BY <1>2, RecordEvidenceInv, ExecReadInv, ExecWriteInv, RollbackReadInv,
     RollbackWriteInv, QualifyReadInv, QualifyWriteInv, CommitInv, LoseInv DEF Next
<1> QED BY <1>1, <1>2

LEMMA Invariance == Spec => []IInv
BY InitInv, StepInv, PTL DEF Spec

(* The model's variables keep their types.                                 *)
THEOREM TypeCorrect == Spec => []TypeOK
BY Invariance, PTL DEF IInv

(* Every decided symbol has a standing execution or a qualification.       *)
THEOREM DecidedSymbolsAreExplained == Spec => []DecisionsAreExplained
<1>1. IInv => DecisionsAreExplained BY DEF IInv, Explained, DecisionsAreExplained
<1> QED BY <1>1, Invariance, PTL

(* No piece of evidence changes the same row twice, whichever rows it is   *)
(* used for.                                                               *)
THEOREM EvidenceChangesEachRowOnce == Spec => EvidenceIsUsedOnce
<1>1. ASSUME IInv, NEW r \in receipts, NEW s \in Symbols, r.verdict = "would_write",
             Consumed(r, s), ChangesFor(r, s)
      PROVE  FALSE
  <2>1. PICK x \in Sessions : tx[x].call = "held" /\ tx[x].receipt = r /\ tx[x].symbol = s
    BY <1>1 DEF ChangesFor
  <2>2. ExecHeld(tx[x]) \/ RollbackHeld(tx[x]) \/ QualifyHeld(tx[x])
    BY <1>1, <2>1 DEF IInv, Shapes, Shape, Idle
  <2>3. r # None BY <1>1, NoneAssumption DEF IInv, TypeOK
  <2> QED BY <1>1, <2>1, <2>2, <2>3 DEF ExecHeld, RollbackHeld, QualifyHeld, Consumed
<1>2. IInv => \A r \in receipts, s \in Symbols :
                r.verdict = "would_write" /\ Consumed(r, s) => ~ChangesFor(r, s)
  BY <1>1
<1> QED BY <1>2, Invariance, PTL DEF EvidenceIsUsedOnce

(* An EXECUTED receipt never appears without its change of the row.        *)
THEOREM ReceiptsMatchWrites == Spec => ReceiptsAccountForWrites
<1> DEFINE Accounted == \A e \in receipts' \ receipts : e.verdict = "executed" =>
             qual[e.symbol] = "unchecked" /\ qual'[e.symbol] = e.intended
<1>1. ASSUME IInv, [Next]_vars PROVE Accounted \/ UNCHANGED vars
  <2>1. ASSUME NEW s \in Symbols, NEW v \in Decisions, NEW f \in Fingerprints,
               RecordEvidence(s, v, f)
        PROVE  Accounted
    BY <2>1 DEF RecordEvidence, EvaluateVerdict
  <2>2. ASSUME NEW x \in Sessions, Commit(x) PROVE Accounted
    <3> SUFFICES ASSUME NEW e \in receipts' \ receipts, e.verdict = "executed"
                 PROVE  qual[e.symbol] = "unchecked" /\ qual'[e.symbol] = e.intended
      OBVIOUS
    <3> DEFINE t == tx[x]
    <3>1. e \in t.adds /\ (ExecHeld(t) \/ RollbackHeld(t) \/ QualifyHeld(t))
          /\ t.symbol \in Symbols
      BY <1>1, <2>2, CommitEffect
    <3>2. /\ ExecHeld(t) => t.receipt \in Evidence
          /\ RollbackHeld(t) => t.receipt \in Executions
      BY <1>1, Kinds DEF IInv, TypeOK, ExecHeld, RollbackHeld
    <3>3. ExecHeld(t)
      <4>1. RollbackHeld(t) => e.verdict = "rolled_back"
        BY <3>1, <3>2, RevertType DEF RollbackHeld
      <4> QED BY <3>1, <4>1 DEF QualifyHeld
    <3>4. e = Executed(t.receipt, t.symbol) /\ e.symbol = t.symbol /\ e.intended = t.row
      BY <3>1, <3>2, <3>3, ExecutedType DEF ExecHeld
    <3>5. t.row # None
      BY <1>1, <3>3, Kinds, NoneAssumption DEF IInv, TypeOK, ExecHeld, QualStatus
    <3>6. qual'[t.symbol] = t.row
      BY <1>1, <2>2, <3>1, <3>5 DEF Commit, IInv, TypeOK
    <3> QED BY <3>3, <3>4, <3>6 DEF ExecHeld
  <2>3. CASE receipts' = receipts BY <2>3
  <2> QED
    BY <1>1, <2>1, <2>2, <2>3 DEF Next, ExecRead, ExecWrite, RollbackRead, RollbackWrite,
       QualifyRead, QualifyWrite, Lose
<1>2. IInv /\ [Next]_vars => [Accounted]_vars BY <1>1
<1> QED BY <1>2, Invariance, PTL DEF Spec, ReceiptsAccountForWrites

--------------------------------------------------------------------------------
(* Rollbacks that do not overlap.  The run shadow_rollback shows the       *)
(* contract of rollback_bounded_write broken by two sessions on one row;   *)
(* one session keeps it row by row, whatever it executes, rolls back,      *)
(* qualifies or loses, and whichever symbols it names.                     *)

(* A rollback under way is the first of its execution.                     *)
FirstRollback == \A x \in Sessions :
    tx[x] # Idle /\ tx[x].receipt # None /\ tx[x].receipt.verdict = "executed" =>
        ~RolledBack(tx[x].receipt, tx[x].symbol)

LEMMA FirstRollbackStep ==
  ASSUME \A x, y \in Sessions : x = y,
         IInv, FirstRollback, [Next]_vars
  PROVE  FirstRollback'
<1>1. tx \in [Sessions -> Transactions]
  BY DEF IInv, TypeOK
<1>2. ASSUME NEW s \in Symbols, NEW v \in Decisions, NEW f \in Fingerprints,
             RecordEvidence(s, v, f)
      PROVE  FirstRollback'
  <2>1. tx' = tx
    BY <1>2 DEF RecordEvidence
  <2>2. PICK n : receipts' = receipts \cup {n}
                 /\ n.verdict \in {"would_write", "would_skip"}
    <3>1. PICK current \in {"unchecked", qual[s]} :
            /\ EvaluateVerdict(current, v) # "blocked"
            /\ receipts' = receipts \cup
                 {[symbol |-> s, current |-> current, intended |-> v,
                   fingerprint |-> f, verdict |-> EvaluateVerdict(current, v),
                   of |-> None]}
      BY <1>2 DEF RecordEvidence
    <3>2. EvaluateVerdict(current, v) \in {"would_write", "would_skip"}
      BY <3>1 DEF EvaluateVerdict
    <3> DEFINE n == [symbol |-> s, current |-> current, intended |-> v,
                     fingerprint |-> f, verdict |-> EvaluateVerdict(current, v),
                     of |-> None]
    <3>3. receipts' = receipts \cup {n} /\ n.verdict \in {"would_write", "would_skip"}
      BY <3>1, <3>2
    <3> HIDE DEF n
    <3> QED BY <3>3
  <2>3. ASSUME NEW x \in Sessions, tx[x] # Idle, tx[x].receipt # None,
               tx[x].receipt.verdict = "executed",
               ~RolledBack(tx[x].receipt, tx[x].symbol)
        PROVE  ~RolledBack(tx[x].receipt, tx[x].symbol)'
    <3>1. RevertOf(tx[x].receipt, tx[x].symbol).verdict = "rolled_back"
      BY <1>1, <2>3 DEF RevertOf, About, Transactions, Receipts, Evidence, Executions,
                        Rollbacks, ReceiptsOf
    <3> QED BY <2>1, <2>2, <2>3, <3>1 DEF RolledBack
  <2> QED BY <2>1, <2>3 DEF FirstRollback
<1>3. ASSUME NEW x \in Sessions, NEW r \in receipts, NEW s \in Symbols, ExecRead(x, r, s)
      PROVE  FirstRollback'
  <2>1. /\ tx'[x].receipt = r /\ r.verdict = "would_write" /\ receipts' = receipts
    BY <1>1, <1>3 DEF ExecRead, Idle
  <2> QED BY <2>1 DEF FirstRollback
<1>4. ASSUME NEW x \in Sessions, NEW r \in receipts, NEW s \in Symbols, RollbackRead(x, r, s)
      PROVE  FirstRollback'
  <2>1. /\ tx'[x].receipt = r /\ tx'[x].symbol = s
        /\ ~RolledBack(r, s) /\ receipts' = receipts
    BY <1>1, <1>4 DEF RollbackRead, Idle
  <2>2. \A y \in Sessions : tx'[y].receipt = r /\ tx'[y].symbol = s
    BY <2>1
  <2> QED BY <2>1, <2>2 DEF FirstRollback, RolledBack
<1>5. ASSUME NEW x \in Sessions, NEW s \in Symbols, QualifyRead(x, s)
      PROVE  FirstRollback'
  <2>1. tx'[x].receipt = None
    BY <1>1, <1>5 DEF QualifyRead, Idle
  <2> QED BY <2>1 DEF FirstRollback
<1>6. ASSUME NEW x \in Sessions, End(x) PROVE FirstRollback'
  <2>1. tx'[x] = Idle
    BY <1>1, <1>6 DEF End
  <2> QED BY <2>1 DEF FirstRollback
<1>7. ASSUME NEW x \in Sessions, NEW row, NEW adds, NEW result,
             tx[x].call # "idle", Hold(x, row, adds, result), receipts' = receipts
      PROVE  FirstRollback'
  <2>1. tx'[x].receipt = tx[x].receipt /\ tx'[x].symbol = tx[x].symbol /\ tx[x] # Idle
    BY <1>1, <1>7 DEF Hold, Transactions, Idle
  <2> QED BY <1>7, <2>1 DEF FirstRollback, RolledBack
<1>8. ASSUME NEW x \in Sessions, ExecWrite(x) PROVE FirstRollback'
  BY <1>6, <1>7, <1>8 DEF ExecWrite
<1>9. ASSUME NEW x \in Sessions, RollbackWrite(x) PROVE FirstRollback'
  BY <1>6, <1>7, <1>9 DEF RollbackWrite
<1>10. ASSUME NEW x \in Sessions, QualifyWrite(x) PROVE FirstRollback'
  BY <1>7, <1>10 DEF QualifyWrite
<1>11. ASSUME NEW x \in Sessions, Commit(x) \/ Lose(x) PROVE FirstRollback'
  BY <1>6, <1>11 DEF Commit, Lose
<1>12. CASE UNCHANGED vars
  BY <1>12 DEF vars, FirstRollback, RolledBack
<1> QED BY <1>2, <1>3, <1>4, <1>5, <1>8, <1>9, <1>10, <1>11, <1>12 DEF Next

(* Calls that do not overlap, as of a single session, revert a row once    *)
(* for an execution: the double rollback of one row is a race.             *)
THEOREM LoneRollbackOncePerRow ==
  ASSUME \A x, y \in Sessions : x = y
  PROVE  Spec => RollbackOnce
<1>1. Init => FirstRollback
  BY DEF Init, FirstRollback
<1>2. IInv /\ FirstRollback /\ [Next]_vars => FirstRollback'
  BY FirstRollbackStep
<1>3. IInv /\ FirstRollback =>
        \A e \in receipts, s \in Symbols :
            e.verdict = "executed" /\ RolledBack(e, s) => ~ChangesFor(e, s)
  <2> SUFFICES ASSUME IInv, FirstRollback, NEW e \in receipts, NEW s \in Symbols,
                      e.verdict = "executed", RolledBack(e, s), ChangesFor(e, s)
               PROVE  FALSE
    OBVIOUS
  <2>1. PICK x \in Sessions : tx[x].call = "held" /\ tx[x].receipt = e /\ tx[x].symbol = s
    BY DEF ChangesFor
  <2>2. tx[x] # Idle
    BY <2>1 DEF Idle
  <2>3. e # None
    BY NoneAssumption DEF IInv, TypeOK
  <2> QED BY <2>1, <2>2, <2>3 DEF FirstRollback
<1> QED BY <1>1, <1>2, <1>3, Invariance, PTL DEF Spec, RollbackOnce
=============================================================================
