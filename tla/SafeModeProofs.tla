---------------------------- MODULE SafeModeProofs ----------------------------
(***************************************************************************)
(* Proofs about SafeMode, for any events, fingerprints and bound.          *)
(*                                                                         *)
(* The committed rows and the session's view of them obey the same rules   *)
(* (RowsOK). A manager that has outlived no rollback agrees with its view: *)
(* its mode is the status, the ids it knows are processed rows, and every  *)
(* fingerprint it remembers belongs to a drift that was answered (MemOK).  *)
(***************************************************************************)
EXTENDS SafeMode, TLAPS

Follows(rows) ==
    IF rows.log = <<>> THEN rows.status \in {"absent", "normal"}
    ELSE rows.status = rows.log[Len(rows.log)].to

OnePath(rows) ==
    \A i \in DOMAIN rows.log :
        rows.log[i].sure =>
            rows.log[i].from = IF i = 1 THEN "normal" ELSE rows.log[i - 1].to

AnsweredFor(rows, p) == \E d \in Qualifying : PrintOf[d] = p /\ Answered(rows, d)

DriftsOK(rows) ==
    \A e \in Done(rows) \cap Qualifying :
        rows.fate[e].sure => AnsweredFor(rows, PrintOf[e])

RowsOK(rows) == Follows(rows) /\ OnePath(rows) /\ DriftsOK(rows)

MemOK(m, rows) ==
    m.up /\ m.intact =>
        /\ m.mode = rows.status
        /\ m.known \subseteq Done(rows)
        /\ \A p \in m.seen : AnsweredFor(rows, p)

Inv == TypeOK /\ RowsOK(db) /\ RowsOK(view) /\ MemOK(mem, view)

--------------------------------------------------------------------------------
(* Rows with one transition more.                                          *)
LEMMA RecordType ==
  ASSUME TypeOK, NEW to \in Modes, NEW source \in Sources
  PROVE  /\ Record(view, to, source) \in Rows
         /\ Record(view, to, source).status = to
         /\ Record(view, to, source).fate = view.fate
         /\ Len(Record(view, to, source).log) = Len(view.log) + 1
         /\ DOMAIN Record(view, to, source).log = 1..(Len(view.log) + 1)
         /\ DOMAIN view.log = 1..Len(view.log)
         /\ Len(view.log) \in Nat
         /\ \A i \in DOMAIN view.log :
               Record(view, to, source).log[i] = view.log[i]
         /\ Record(view, to, source).log[Len(view.log) + 1] =
               [from |-> mem.mode, to |-> to, source |-> source,
                sure |-> mem.intact]
<1> DEFINE t == [from |-> mem.mode, to |-> to, source |-> source,
                 sure |-> mem.intact]
<1>1. view.log \in Seq(Transitions) /\ view.fate \in [Events -> Fates]
  BY DEF TypeOK, Rows
<1>2. t \in Transitions
  BY DEF TypeOK, Memory, Transitions
<1>3. Record(view, to, source) =
        [status |-> to, log |-> Append(view.log, t), fate |-> view.fate]
  <2>1. view = [status |-> view.status, log |-> view.log, fate |-> view.fate]
    BY DEF TypeOK, Rows
  <2>2. Record(view, to, source) =
          [view EXCEPT !.status = to, !.log = Append(view.log, t)]
    BY DEF Record
  <2> HIDE DEF t
  <2> QED BY <2>1, <2>2
<1> HIDE DEF t
<1>4. /\ Append(view.log, t) \in Seq(Transitions)
      /\ Len(Append(view.log, t)) = Len(view.log) + 1
      /\ Append(view.log, t)[Len(view.log) + 1] = t
      /\ \A i \in 1..Len(view.log) : Append(view.log, t)[i] = view.log[i]
      /\ Len(view.log) \in Nat
      /\ DOMAIN view.log = 1..Len(view.log)
      /\ DOMAIN Append(view.log, t) = 1..(Len(view.log) + 1)
  BY <1>1, <1>2
<1>5. Record(view, to, source) \in Rows
  BY <1>1, <1>3, <1>4 DEF Rows
<1>6. Record(view, to, source).status = to
      /\ Record(view, to, source).log = Append(view.log, t)
      /\ Record(view, to, source).fate = view.fate
  BY <1>3
<1> QED BY <1>4, <1>5, <1>6 DEF t

LEMMA RecordAnswers ==
  ASSUME TypeOK, NEW to \in Modes, NEW source \in Sources, NEW d \in Events,
         Answered(view, d)
  PROVE  Answered(Record(view, to, source), d)
<1> DEFINE r == Record(view, to, source)
<1>0. /\ r.fate = view.fate
      /\ DOMAIN r.log = 1..(Len(view.log) + 1)
      /\ DOMAIN view.log = 1..Len(view.log)
      /\ Len(view.log) \in Nat
      /\ \A i \in DOMAIN view.log : r.log[i] = view.log[i]
  BY RecordType
<1> HIDE DEF r
<1>1. /\ r.fate = view.fate
      /\ DOMAIN view.log \subseteq DOMAIN r.log
      /\ \A i \in DOMAIN view.log : r.log[i] = view.log[i]
  BY <1>0
<1>2. Answered(r, d)
  BY <1>1 DEF Answered
<1> QED BY <1>2 DEF r

(* A sure transition starts from the status, so it prolongs the path.      *)
LEMMA RecordKeeps ==
  ASSUME Inv, mem.up, NEW to \in Modes, NEW source \in Sources
  PROVE  RowsOK(Record(view, to, source))
<1> DEFINE r == Record(view, to, source)
           n == Len(view.log)
<1>0. TypeOK /\ RowsOK(view) /\ MemOK(mem, view)
  BY DEF Inv
<1>1. /\ r.status = to
      /\ r.fate = view.fate
      /\ Len(r.log) = n + 1
      /\ DOMAIN r.log = 1..(n + 1)
      /\ DOMAIN view.log = 1..n
      /\ n \in Nat
      /\ \A i \in DOMAIN view.log : r.log[i] = view.log[i]
      /\ r.log[n + 1] = [from |-> mem.mode, to |-> to, source |-> source,
                         sure |-> mem.intact]
  BY <1>0, RecordType
<1>2. \A d \in Events : Answered(view, d) => Answered(r, d)
  BY <1>0, RecordAnswers
<1>3. mem.intact => mem.mode = view.status /\ mem.mode \in Modes
  BY <1>0 DEF MemOK, TypeOK, Memory
<1>6. n = 0 <=> view.log = <<>>
  BY <1>0 DEF TypeOK, Rows
<1> HIDE DEF r
<1>4. Follows(r)
  BY <1>1 DEF Follows
<1>5. OnePath(r)
  <2> SUFFICES ASSUME NEW i \in DOMAIN r.log, r.log[i].sure
               PROVE  r.log[i].from = IF i = 1 THEN "normal"
                                      ELSE r.log[i - 1].to
    BY DEF OnePath
  <2>1. CASE i \in DOMAIN view.log
    <3>1. i = 1 \/ i - 1 \in DOMAIN view.log
      BY <1>1, <2>1
    <3> QED BY <1>0, <1>1, <2>1, <3>1 DEF RowsOK, OnePath
  <2>2. CASE i = n + 1
    <3>1. mem.intact /\ r.log[i].from = view.status
      BY <1>1, <1>3, <2>2
    <3>2. CASE n = 0
      <4>1. view.status \in {"absent", "normal"}
        BY <1>0, <1>6, <3>2 DEF RowsOK, Follows
      <4>2. view.status # "absent"
        BY <1>3, <3>1 DEF Modes
      <4> QED BY <1>1, <2>2, <3>1, <3>2, <4>1, <4>2
    <3>3. CASE n # 0
      <4>1. view.status = view.log[n].to
        BY <1>0, <1>6, <3>3 DEF RowsOK, Follows
      <4>2. n \in DOMAIN view.log /\ i - 1 = n /\ i # 1
        BY <1>1, <2>2, <3>3
      <4> QED BY <1>1, <3>1, <4>1, <4>2
    <3> QED BY <3>2, <3>3
  <2> QED BY <1>1, <2>1, <2>2
<1>7. DriftsOK(r)
  <2>1. Done(r) = Done(view)
    BY <1>1 DEF Done
  <2>2. \A p : AnsweredFor(view, p) => AnsweredFor(r, p)
    BY <1>2, EventAssumption DEF AnsweredFor
  <2> QED BY <1>0, <1>1, <2>1, <2>2 DEF RowsOK, DriftsOK
<1> QED BY <1>4, <1>5, <1>7 DEF RowsOK, r

--------------------------------------------------------------------------------
(* Rows with one event processed more.                                     *)
LEMMA MarkType ==
  ASSUME NEW rows \in Rows, NEW e \in Events, NEW at \in Nat,
         mem.intact \in BOOLEAN
  PROVE  /\ MarkDone(rows, e, at) \in Rows
         /\ MarkDone(rows, e, at).status = rows.status
         /\ MarkDone(rows, e, at).log = rows.log
         /\ MarkDone(rows, e, at).fate[e] =
               [done |-> TRUE, at |-> at, sure |-> mem.intact]
         /\ \A d \in Events \ {e} :
               MarkDone(rows, e, at).fate[d] = rows.fate[d]
<1> DEFINE f == [done |-> TRUE, at |-> at, sure |-> mem.intact]
<1>1. f \in Fates
  BY DEF Fates
<1>2. rows = [status |-> rows.status, log |-> rows.log, fate |-> rows.fate]
      /\ rows.fate \in [Events -> Fates]
  BY DEF Rows
<1>3. MarkDone(rows, e, at) = [rows EXCEPT !.fate = [rows.fate EXCEPT ![e] = f]]
  BY <1>2 DEF MarkDone
<1> HIDE DEF f
<1>4. [rows.fate EXCEPT ![e] = f] \in [Events -> Fates]
      /\ [rows.fate EXCEPT ![e] = f][e] = f
      /\ \A d \in Events \ {e} : [rows.fate EXCEPT ![e] = f][d] = rows.fate[d]
  BY <1>1, <1>2
<1>5. MarkDone(rows, e, at) = [status |-> rows.status, log |-> rows.log,
                               fate |-> [rows.fate EXCEPT ![e] = f]]
  BY <1>2, <1>3
<1> QED BY <1>4, <1>5 DEF Rows, f

LEMMA MarkAnswers ==
  ASSUME NEW rows \in Rows, NEW e \in Events, NEW at \in Nat,
         mem.intact \in BOOLEAN, ~rows.fate[e].done,
         NEW p, AnsweredFor(rows, p)
  PROVE  AnsweredFor(MarkDone(rows, e, at), p)
<1> DEFINE r == MarkDone(rows, e, at)
<1>1. r.log = rows.log /\ \A d \in Events \ {e} : r.fate[d] = rows.fate[d]
  BY MarkType
<1> HIDE DEF r
<1>2. \A d \in Events : Answered(rows, d) => Answered(r, d)
  BY <1>1 DEF Answered
<1> QED BY <1>2, EventAssumption DEF AnsweredFor, r

(* A drift may be marked when its fingerprint is answered.                 *)
LEMMA MarkKeeps ==
  ASSUME NEW rows \in Rows, RowsOK(rows), NEW e \in Events, NEW at \in Nat,
         mem.intact \in BOOLEAN, ~rows.fate[e].done,
         e \in Qualifying /\ mem.intact =>
            AnsweredFor(MarkDone(rows, e, at), PrintOf[e])
  PROVE  RowsOK(MarkDone(rows, e, at))
<1> DEFINE r == MarkDone(rows, e, at)
<1>1. /\ r.status = rows.status
      /\ r.log = rows.log
      /\ r.fate[e] = [done |-> TRUE, at |-> at, sure |-> mem.intact]
      /\ \A d \in Events \ {e} : r.fate[d] = rows.fate[d]
  BY MarkType
<1>2. \A p : AnsweredFor(rows, p) => AnsweredFor(r, p)
  BY MarkAnswers
<1>3. e \in Qualifying /\ mem.intact => AnsweredFor(r, PrintOf[e])
  OBVIOUS
<1> HIDE DEF r
<1>4. Follows(r) /\ OnePath(r)
  BY <1>1 DEF RowsOK, Follows, OnePath
<1>5. DriftsOK(r)
  <2> SUFFICES ASSUME NEW d \in Done(r) \cap Qualifying, r.fate[d].sure
               PROVE  AnsweredFor(r, PrintOf[d])
    BY DEF DriftsOK
  <2>1. CASE d = e
    BY <1>1, <1>3, <2>1
  <2>2. CASE d # e
    <3>1. d \in Done(rows) /\ rows.fate[d].sure
      BY <1>1, <2>2 DEF Done
    <3> QED BY <1>2, <3>1 DEF RowsOK, DriftsOK
  <2> QED BY <2>1, <2>2
<1> QED BY <1>4, <1>5 DEF RowsOK, r

LEMMA MarkDoneSet ==
  ASSUME NEW rows \in Rows, NEW e \in Events, NEW at \in Nat,
         mem.intact \in BOOLEAN
  PROVE  Done(MarkDone(rows, e, at)) = Done(rows) \cup {e}
<1> DEFINE r == MarkDone(rows, e, at)
<1>1. /\ r.fate[e] = [done |-> TRUE, at |-> at, sure |-> mem.intact]
      /\ \A d \in Events \ {e} : r.fate[d] = rows.fate[d]
  BY MarkType
<1> HIDE DEF r
<1>2. Done(r) = Done(rows) \cup {e}
  BY <1>1 DEF Done
<1> QED BY <1>2 DEF r

--------------------------------------------------------------------------------
LEMMA InitInv == Init => Inv
<1> SUFFICES ASSUME Init PROVE Inv
  OBVIOUS
<1>1. /\ db = [status |-> "absent", log |-> <<>>,
               fate |-> [e \in Events |-> Open]]
      /\ view = db
      /\ mem = Fresh
  BY DEF Init
<1>2. Open \in Fates /\ Open.done = FALSE
  BY DEF Open, Fates
<1>3. [e \in Events |-> Open] \in [Events -> Fates]
  BY <1>2
<1>4. <<>> \in Seq(Transitions) /\ DOMAIN <<>> = {}
  OBVIOUS
<1>5. db \in Rows
  BY <1>1, <1>3, <1>4 DEF Rows
<1>6. mem \in Memory /\ ~mem.up
  BY <1>1 DEF Fresh, Memory, Modes
<1>7. Done(db) = {} /\ db.log = <<>> /\ db.status = "absent"
  BY <1>1, <1>2 DEF Done
<1>8. RowsOK(db)
  BY <1>4, <1>7 DEF RowsOK, Follows, OnePath, DriftsOK
<1> QED BY <1>1, <1>5, <1>6, <1>8 DEF Inv, TypeOK, MemOK

LEMMA StartKeeps == Inv /\ Start => Inv'
<1> SUFFICES ASSUME Inv, Start PROVE Inv'
  OBVIOUS
<1>0. TypeOK /\ RowsOK(db) /\ RowsOK(view)
  BY DEF Inv
<1>1. mem' = Restored(view) /\ view' = NewRow(view) /\ db' = db
  BY DEF Start
<1>2. view = [status |-> view.status, log |-> view.log, fate |-> view.fate]
      /\ view.log \in Seq(Transitions) /\ view.fate \in [Events -> Fates]
      /\ view.status \in Modes \cup {"absent"}
  BY <1>0 DEF TypeOK, Rows
<1>3. view' = [status |-> StateOf(view.status), log |-> view.log,
               fate |-> view.fate]
  BY <1>1, <1>2 DEF NewRow
<1>4. StateOf(view.status) \in Modes
  BY <1>2 DEF StateOf, Modes
<1>5. view' \in Rows
  BY <1>2, <1>3, <1>4 DEF Rows
<1>6. /\ mem'.up = TRUE
      /\ mem'.intact = TRUE
      /\ mem'.mode = StateOf(view.status)
      /\ mem'.seen = {}
      /\ mem'.known \subseteq Done(view)
      /\ mem' \in Memory
  BY <1>1, <1>4 DEF Restored, Fresh, Memory, Done
<1>7. view'.status = StateOf(view.status) /\ view'.log = view.log
      /\ view'.fate = view.fate
  BY <1>3
<1>8. Done(view') = Done(view)
  BY <1>7 DEF Done
<1>9. Follows(view')
  <2>1. CASE view.log = <<>>
    BY <1>0, <1>7, <2>1 DEF RowsOK, Follows, StateOf
  <2>2. CASE view.log # <<>>
    <3>1. view.log[Len(view.log)] \in Transitions
      BY <1>2, <2>2
    <3>2. view.status \in Modes
      BY <1>0, <2>2, <3>1 DEF RowsOK, Follows, Transitions
    <3>3. StateOf(view.status) = view.status
      BY <3>2 DEF StateOf, Modes
    <3> QED BY <1>0, <1>7, <2>2, <3>3 DEF RowsOK, Follows
  <2> QED BY <2>1, <2>2
<1>10. OnePath(view')
  BY <1>0, <1>7 DEF RowsOK, OnePath
<1>11. DriftsOK(view')
  BY <1>0, <1>7, <1>8 DEF RowsOK, DriftsOK, AnsweredFor, Answered
<1>12. MemOK(mem', view')
  BY <1>6, <1>7, <1>8 DEF MemOK
<1>13. TypeOK' /\ RowsOK(db') /\ RowsOK(view')
  BY <1>0, <1>1, <1>5, <1>6, <1>9, <1>10, <1>11 DEF TypeOK, RowsOK
<1> QED BY <1>12, <1>13 DEF Inv

(* A transition of a manager that is up, by whatever call.                 *)
LEMMA EnterKeeps ==
  ASSUME Inv, NEW source \in Sources, EnterSm3(source)
  PROVE  Inv'
<1> DEFINE r == Record(view, "sm3", source)
<1>0. TypeOK /\ RowsOK(db) /\ MemOK(mem, view) /\ mem.up
  BY DEF Inv, EnterSm3
<1>1. mem' = [mem EXCEPT !.mode = "sm3"] /\ view' = r /\ db' = db
  BY DEF EnterSm3
<1>2. "sm3" \in Modes
  BY DEF Modes
<1>3. RowsOK(r) /\ r \in Rows /\ r.status = "sm3" /\ r.fate = view.fate
  BY <1>0, <1>2, RecordKeeps, RecordType
<1>4. \A p : AnsweredFor(view, p) => AnsweredFor(r, p)
  BY <1>0, <1>2, RecordAnswers, EventAssumption DEF AnsweredFor
<1> HIDE DEF r
<1>5. /\ mem' \in Memory
      /\ mem'.mode = "sm3"
      /\ mem'.intact = mem.intact
      /\ mem'.known = mem.known
      /\ mem'.seen = mem.seen
  BY <1>0, <1>1, <1>2 DEF TypeOK, Memory
<1>6. MemOK(mem', view')
  BY <1>0, <1>1, <1>3, <1>4, <1>5 DEF MemOK, Done
<1>7. TypeOK' /\ RowsOK(db') /\ RowsOK(view')
  BY <1>0, <1>1, <1>3, <1>5 DEF TypeOK
<1> QED BY <1>6, <1>7 DEF Inv

LEMMA ManualKeeps ==
  ASSUME Inv, NEW to \in Modes, ManualTransition(to)
  PROVE  Inv'
<1> DEFINE r == Record(view, to, NoEvent)
<1>0. TypeOK /\ RowsOK(db) /\ MemOK(mem, view) /\ mem.up
  BY DEF Inv, ManualTransition
<1>1. mem' = [mem EXCEPT !.mode = to] /\ view' = r /\ db' = db
  BY DEF ManualTransition
<1>2. NoEvent \in Sources
  BY DEF Sources
<1>3. RowsOK(r) /\ r \in Rows /\ r.status = to /\ r.fate = view.fate
  BY <1>0, <1>2, RecordKeeps, RecordType
<1>4. \A p : AnsweredFor(view, p) => AnsweredFor(r, p)
  BY <1>0, <1>2, RecordAnswers, EventAssumption DEF AnsweredFor
<1> HIDE DEF r
<1>5. /\ mem' \in Memory
      /\ mem'.mode = to
      /\ mem'.intact = mem.intact
      /\ mem'.known = mem.known
      /\ mem'.seen = mem.seen
  BY <1>0, <1>1 DEF TypeOK, Memory
<1>6. MemOK(mem', view')
  BY <1>0, <1>1, <1>3, <1>4, <1>5 DEF MemOK, Done
<1>7. TypeOK' /\ RowsOK(db') /\ RowsOK(view')
  BY <1>0, <1>1, <1>3, <1>5 DEF TypeOK
<1> QED BY <1>6, <1>7 DEF Inv

(* The event that enters SM3 is the answer to itself.                      *)
LEMMA ConsumeAndEnterKeeps ==
  ASSUME Inv, NEW e \in Events, ConsumeAndEnter(e)
  PROVE  Inv'
<1> DEFINE n == Len(view.log)
           r == Record(view, "sm3", e)
           v == MarkDone(r, e, 0)
<1>0. /\ TypeOK /\ RowsOK(db) /\ MemOK(mem, view)
      /\ mem.up /\ ~view.fate[e].done /\ e \in Qualifying
      /\ mem.intact \in BOOLEAN
  BY DEF Inv, ConsumeAndEnter, Consuming, Evaluates, TypeOK, Memory
<1>1. /\ mem' = [mem EXCEPT !.mode = "sm3", !.known = @ \cup {e},
                            !.seen = Remembers(e)]
      /\ view' = v
      /\ db' = db
  BY DEF ConsumeAndEnter, Consuming
<1>2. "sm3" \in Modes /\ e \in Sources
  BY DEF Modes, Sources
<1>3. /\ RowsOK(r) /\ r \in Rows /\ r.status = "sm3" /\ r.fate = view.fate
      /\ DOMAIN r.log = 1..(n + 1)
      /\ n \in Nat
      /\ r.log[n + 1] = [from |-> mem.mode, to |-> "sm3", source |-> e,
                         sure |-> mem.intact]
  BY <1>0, <1>2, RecordKeeps, RecordType
<1>4. \A p : AnsweredFor(view, p) => AnsweredFor(r, p)
  BY <1>0, <1>2, RecordAnswers, EventAssumption DEF AnsweredFor
<1> HIDE DEF r
<1>5. n + 1 \in DOMAIN r.log
  BY <1>3
<1>6. Answered(r, e)
  BY <1>3, <1>5 DEF Answered
<1>7. AnsweredFor(r, PrintOf[e])
  BY <1>0, <1>6 DEF AnsweredFor
<1>8. ~r.fate[e].done
  BY <1>0, <1>3
<1>9. \A p : AnsweredFor(r, p) => AnsweredFor(v, p)
  BY <1>0, <1>3, <1>8, MarkAnswers
<1>10. RowsOK(v) /\ v \in Rows /\ v.status = "sm3"
  <2>1. AnsweredFor(MarkDone(r, e, 0), PrintOf[e])
    BY <1>7, <1>9
  <2>2. r \in Rows /\ RowsOK(r) /\ r.status = "sm3"
    BY <1>3
  <2>3. mem.intact \in BOOLEAN
    BY <1>0
  <2>4. RowsOK(MarkDone(r, e, 0))
    BY <1>8, <2>1, <2>2, <2>3, MarkKeeps
  <2>5. MarkDone(r, e, 0) \in Rows /\ MarkDone(r, e, 0).status = "sm3"
    BY <2>2, <2>3, MarkType
  <2> QED BY <2>4, <2>5
<1>11. Done(v) = Done(view) \cup {e}
  BY <1>0, <1>3, MarkDoneSet DEF Done
<1> HIDE DEF v
<1>12. /\ mem'.mode = "sm3"
       /\ mem'.intact = mem.intact
       /\ mem'.known = mem.known \cup {e}
       /\ mem'.seen = mem.seen \cup {PrintOf[e]}
       /\ mem' \in Memory
  BY <1>0, <1>1, <1>2, EventAssumption DEF TypeOK, Memory, Remembers
<1>13. MemOK(mem', view')
  BY <1>0, <1>1, <1>4, <1>7, <1>9, <1>10, <1>11, <1>12 DEF MemOK
<1>14. TypeOK' /\ RowsOK(db') /\ RowsOK(view')
  BY <1>0, <1>1, <1>10, <1>12 DEF TypeOK
<1> QED BY <1>13, <1>14 DEF Inv

(* The event that met a safe mode: the manager's mode is the status, which *)
(* is where the last transition led.                                       *)
LEMMA ConsumeWhileActiveKeeps ==
  ASSUME Inv, NEW e \in Events, ConsumeWhileActive(e)
  PROVE  Inv'
<1> DEFINE n == Len(view.log)
           v == MarkDone(view, e, n)
<1>0. /\ TypeOK /\ RowsOK(db) /\ RowsOK(view) /\ MemOK(mem, view)
      /\ mem.up /\ ~view.fate[e].done /\ e \in Qualifying
      /\ mem.intact \in BOOLEAN /\ mem.mode # "normal" /\ mem.mode \in Modes
      /\ view \in Rows /\ view.log \in Seq(Transitions)
  BY DEF Inv, ConsumeWhileActive, Consuming, Evaluates, TypeOK, Memory, Rows
<1>1. /\ mem' = [mem EXCEPT !.known = @ \cup {e}, !.seen = Remembers(e)]
      /\ view' = v
      /\ db' = db
  BY DEF ConsumeWhileActive, Consuming
<1>2. n \in Nat /\ DOMAIN view.log = 1..n /\ (n = 0 <=> view.log = <<>>)
  BY <1>0
<1>3. /\ v \in Rows /\ v.status = view.status /\ v.log = view.log
      /\ v.fate[e] = [done |-> TRUE, at |-> n, sure |-> mem.intact]
  <2> HIDE DEF n
  <2>1. view \in Rows /\ mem.intact \in BOOLEAN /\ n \in Nat
    BY <1>0, <1>2
  <2> QED BY <2>1, MarkType
<1>4. \A p : AnsweredFor(view, p) => AnsweredFor(v, p)
  BY <1>0, <1>2, MarkAnswers
<1>5. Done(v) = Done(view) \cup {e}
  BY <1>0, <1>2, MarkDoneSet
<1>6. ASSUME mem.intact PROVE AnsweredFor(v, PrintOf[e])
  <2>1. view.status = mem.mode
    BY <1>0, <1>6 DEF MemOK
  <2>2. view.log # <<>> /\ view.log[n].to # "normal"
    BY <1>0, <2>1 DEF RowsOK, Follows, Modes
  <2>3. n \in DOMAIN view.log
    BY <1>2, <2>2
  <2> HIDE DEF v, n
  <2>4. Answered(v, e)
    BY <1>3, <2>2, <2>3 DEF Answered
  <2> QED BY <1>0, <2>4 DEF AnsweredFor
<1>7. RowsOK(v)
  BY <1>0, <1>2, <1>6, MarkKeeps
<1> HIDE DEF v
<1>8. /\ mem'.up = mem.up
      /\ mem'.mode = mem.mode
      /\ mem'.intact = mem.intact
      /\ mem'.known = mem.known \cup {e}
      /\ mem'.seen = mem.seen \cup {PrintOf[e]}
      /\ mem' \in Memory
  BY <1>0, <1>1, EventAssumption DEF TypeOK, Memory, Remembers
<1>9. MemOK(mem', view')
  BY <1>0, <1>1, <1>3, <1>4, <1>5, <1>6, <1>8 DEF MemOK
<1>10. TypeOK' /\ RowsOK(db') /\ RowsOK(view')
  BY <1>0, <1>1, <1>3, <1>7, <1>8 DEF TypeOK
<1> QED BY <1>9, <1>10 DEF Inv

(* A suppressed event does not qualify, or its fingerprint is remembered,  *)
(* or its id is known; a manager that agrees with its view knows processed *)
(* events only.                                                            *)
LEMMA ConsumeAndSuppressKeeps ==
  ASSUME Inv, NEW e \in Events, ConsumeAndSuppress(e)
  PROVE  Inv'
<1> DEFINE v == MarkDone(view, e, 0)
<1>0. /\ TypeOK /\ RowsOK(db) /\ RowsOK(view) /\ MemOK(mem, view)
      /\ mem.up /\ ~view.fate[e].done /\ mem.intact \in BOOLEAN
      /\ view \in Rows /\ ~Evaluates(e)
  BY DEF Inv, ConsumeAndSuppress, Consuming, Suppressed, TypeOK, Memory
<1>1. /\ mem' = [mem EXCEPT !.known = @ \cup {e}]
      /\ view' = v
      /\ db' = db
  BY DEF ConsumeAndSuppress, Consuming, Suppressed
<1>2. view \in Rows /\ mem.intact \in BOOLEAN /\ 0 \in Nat
  BY <1>0
<1>3. v \in Rows /\ v.status = view.status
  BY <1>2, MarkType
<1>4. \A p : AnsweredFor(view, p) => AnsweredFor(v, p)
  BY <1>0, MarkAnswers
<1>5. Done(v) = Done(view) \cup {e}
  BY <1>0, MarkDoneSet
<1>6. ASSUME mem.intact, e \in Qualifying PROVE AnsweredFor(v, PrintOf[e])
  <2>1. e \notin mem.known
    BY <1>0, <1>6 DEF MemOK, Done
  <2>2. PrintOf[e] \in mem.seen
    BY <1>0, <1>6, <2>1 DEF Evaluates
  <2>3. AnsweredFor(view, PrintOf[e])
    BY <1>0, <1>6, <2>2 DEF MemOK
  <2> QED BY <1>4, <2>3
<1>7. RowsOK(v)
  BY <1>0, <1>6, MarkKeeps
<1> HIDE DEF v
<1>8. /\ mem'.up = mem.up
      /\ mem'.mode = mem.mode
      /\ mem'.intact = mem.intact
      /\ mem'.known = mem.known \cup {e}
      /\ mem'.seen = mem.seen
      /\ mem' \in Memory
  BY <1>0, <1>1 DEF TypeOK, Memory
<1>9. MemOK(mem', view')
  BY <1>0, <1>1, <1>3, <1>4, <1>5, <1>8 DEF MemOK
<1>10. TypeOK' /\ RowsOK(db') /\ RowsOK(view')
  BY <1>0, <1>1, <1>3, <1>7, <1>8 DEF TypeOK
<1> QED BY <1>9, <1>10 DEF Inv

LEMMA CoolDownKeeps ==
  ASSUME Inv, NEW p \in Prints, CoolDown(p)
  PROVE  Inv'
<1>1. mem' = [mem EXCEPT !.seen = @ \ {p}] /\ view' = view /\ db' = db
  BY DEF CoolDown
<1>2. TypeOK /\ RowsOK(db) /\ RowsOK(view) /\ MemOK(mem, view)
  BY DEF Inv
<1>3. /\ mem'.up = mem.up
      /\ mem'.mode = mem.mode
      /\ mem'.intact = mem.intact
      /\ mem'.known = mem.known
      /\ mem'.seen \subseteq mem.seen
      /\ mem' \in Memory
  BY <1>1, <1>2 DEF TypeOK, Memory
<1>4. MemOK(mem', view')
  BY <1>1, <1>2, <1>3 DEF MemOK
<1>5. TypeOK' /\ RowsOK(db') /\ RowsOK(view')
  BY <1>1, <1>2, <1>3 DEF TypeOK
<1> QED BY <1>4, <1>5 DEF Inv

LEMMA CommitKeeps == Inv /\ Commit => Inv'
  BY DEF Inv, Commit, TypeOK

LEMMA RollBackKeeps == Inv /\ RollBack => Inv'
<1> SUFFICES ASSUME Inv, RollBack PROVE Inv'
  OBVIOUS
<1>1. view' = db /\ db' = db /\ mem' = [mem EXCEPT !.intact = FALSE]
  BY DEF RollBack
<1>2. TypeOK /\ RowsOK(db)
  BY DEF Inv
<1>3. mem' \in Memory /\ ~mem'.intact
  BY <1>1, <1>2 DEF TypeOK, Memory
<1>4. MemOK(mem', view')
  BY <1>3 DEF MemOK
<1> QED BY <1>1, <1>2, <1>3, <1>4 DEF Inv, TypeOK

LEMMA CrashKeeps == Inv /\ Crash => Inv'
<1> SUFFICES ASSUME Inv, Crash PROVE Inv'
  OBVIOUS
<1>1. view' = db /\ db' = db /\ mem' = Fresh
  BY DEF Crash
<1>2. TypeOK /\ RowsOK(db)
  BY DEF Inv
<1>3. mem' \in Memory /\ ~mem'.up
  BY <1>1 DEF Fresh, Memory, Modes
<1>4. MemOK(mem', view')
  BY <1>3 DEF MemOK
<1> QED BY <1>1, <1>2, <1>3, <1>4 DEF Inv, TypeOK

LEMMA StutterKeeps == Inv /\ UNCHANGED vars => Inv'
<1> SUFFICES ASSUME Inv, UNCHANGED vars PROVE Inv'
  OBVIOUS
<1>1. db' = db /\ view' = view /\ mem' = mem
  BY DEF vars
<1> QED BY <1>1 DEF Inv, TypeOK

--------------------------------------------------------------------------------
THEOREM Invariance == Spec => []Inv
<1>1. Inv /\ [Next]_vars => Inv'
  <2> SUFFICES ASSUME Inv, [Next]_vars PROVE Inv'
    OBVIOUS
  <2>1. CASE Start
    BY <2>1, StartKeeps
  <2>2. CASE Commit
    BY <2>2, CommitKeeps
  <2>3. CASE RollBack
    BY <2>3, RollBackKeeps
  <2>4. CASE Crash
    BY <2>4, CrashKeeps
  <2>5. ASSUME NEW e \in Events,
               ConsumeAndEnter(e) \/ ConsumeWhileActive(e)
                  \/ ConsumeAndSuppress(e)
        PROVE  Inv'
    BY <2>5, ConsumeAndEnterKeeps, ConsumeWhileActiveKeeps,
       ConsumeAndSuppressKeeps
  <2>6. ASSUME NEW source \in Sources, EnterSm3(source) PROVE Inv'
    BY <2>6, EnterKeeps
  <2>7. ASSUME NEW to \in Modes, ManualTransition(to) PROVE Inv'
    BY <2>7, ManualKeeps
  <2>8. ASSUME NEW p \in Prints, CoolDown(p) PROVE Inv'
    BY <2>8, CoolDownKeeps
  <2>9. CASE UNCHANGED vars
    BY <2>9, StutterKeeps
  <2> QED BY <2>1, <2>2, <2>3, <2>4, <2>5, <2>6, <2>7, <2>8, <2>9 DEF Next
<1> QED BY InitInv, <1>1, PTL DEF Spec

(* The rows and the manager's memory keep their types.                     *)
THEOREM TypeCorrect == Spec => []TypeOK
<1>1. Inv => TypeOK
  BY DEF Inv
<1> QED BY <1>1, Invariance, PTL

(* The committed status is where the last committed transition led: every  *)
(* call of safe_mode_persistence.py writes both in one transaction.        *)
THEOREM StatusIsHistory == Spec => []StatusFollowsHistory
<1>1. Inv => StatusFollowsHistory
  BY DEF Inv, RowsOK, Follows, StatusFollowsHistory
<1> QED BY <1>1, Invariance, PTL

(* Restarts do not break the path of transitions: restore_from_db takes up *)
(* the mode where the last committed transition left it.                   *)
THEOREM OnePathFromNormal == Spec => []HistoryIsOnePath
<1>1. Inv => HistoryIsOnePath
  BY DEF Inv, RowsOK, OnePath, HistoryIsOnePath
<1> QED BY <1>1, Invariance, PTL

(* A qualifying drift is marked processed only when it or one of its       *)
(* fingerprint was answered, for any events and any crashes                *)
(* (consume_drift_event).                                                  *)
THEOREM EveryDriftIsAnswered == Spec => []DriftIsAnswered
<1>1. Inv => DriftIsAnswered
  BY DEF Inv, RowsOK, DriftsOK, AnsweredFor, DriftIsAnswered
<1> QED BY <1>1, Invariance, PTL
=============================================================================
