-------------------------- MODULE PaperTradingProofs --------------------------
(***************************************************************************)
(* The committed books of a paper session agree with the committed trades. *)
(*                                                                         *)
(* The inductive invariant says the same of the session a task holds, with *)
(* what its commit would add, for as long as the version it loaded is the  *)
(* committed one; a task whose version is older says nothing, because its  *)
(* UPDATE will match no row.  The history b, e and n (gains per day,       *)
(* entries per week, entries less exits) is a parameter of the predicates, *)
(* so that the facts about the rules are facts about constants.            *)
(***************************************************************************)
EXTENDS PaperTrading, FiniteSetTheorems, TLAPS

--------------------------------------------------------------------------------
(* Days and weeks.                                                         *)

LEMMA DayIsADay == \A bar \in Bars : DayOf(bar) \in Days
  BY TimeAssumption, SMTT(30) DEF Bars, Days, DayOf

LEMMA Division ==
  ASSUME NEW a \in Nat, NEW n \in Nat \ {0}
  PROVE  /\ a % n \in 0..(n-1)
         /\ a \div n \in Nat
         /\ a = n * (a \div n) + (a % n)
  BY SMTT(30)

LEMMA Multiples ==
  ASSUME NEW q \in Nat, NEW n \in Nat \ {0}
  PROVE  (n * q) % n = 0
<1> DEFINE r == (n * q) % n
           p == (n * q) \div n
<1>1. n * q \in Nat
  BY SMTT(30)
<1>2. r \in 0..(n-1) /\ p \in Nat /\ n * q = n * p + r
  BY <1>1, Division
<1> HIDE DEF r, p
<1>3. n * (q - p) = r
  BY <1>2, SMTT(30)
<1>4. CASE q - p >= 1
  <2>1. n * (q - p) >= n
    BY <1>2, <1>4, SMTT(30)
  <2> QED BY <2>1, <1>3, <1>2, SMTT(30)
<1>5. CASE q - p <= 0
  <2>1. n * (q - p) <= 0
    BY <1>2, <1>5, SMTT(30)
  <2> QED BY <2>1, <1>3, <1>2, SMTT(30) DEF r
<1> QED BY <1>2, <1>4, <1>5, SMTT(30)

LEMMA MondayIsADay ==
  ASSUME NEW day \in Days
  PROVE  /\ Monday(day) \in Days
         /\ Monday(day) <= day
         /\ Monday(Monday(day)) = Monday(day)
<1> DEFINE q == day \div DaysPerWeek
           r == day % DaysPerWeek
<1>1. day \in Nat /\ day <= MaxBar
  BY TimeAssumption DEF Days
<1>2. r \in 0..(DaysPerWeek-1) /\ q \in Nat /\ day = DaysPerWeek * q + r
  BY <1>1, Division, TimeAssumption
<1>3. Monday(day) = day - r
  BY DEF Monday
<1>4. (DaysPerWeek * q) % DaysPerWeek = 0
  BY <1>2, Multiples, TimeAssumption
<1> HIDE DEF q, r
<1>5. DaysPerWeek * q \in Nat
  BY <1>2, TimeAssumption, SMTT(30)
<1>6. Monday(day) = DaysPerWeek * q
  BY <1>2, <1>3, <1>5, TimeAssumption
<1>7. Monday(Monday(day)) = Monday(day)
  BY <1>4, <1>5, <1>6 DEF Monday
<1> QED BY <1>1, <1>2, <1>5, <1>6, <1>7, TimeAssumption DEF Days

--------------------------------------------------------------------------------
(* The history.                                                            *)

Losing(b, day) ==
    {d \in Days : d < day /\ b[d] < 0
                  /\ \A e \in Days : d < e /\ e < day => b[e] <= 0}

LEMMA LosingIsFinite ==
  ASSUME NEW b, NEW day
  PROVE  IsFiniteSet(Losing(b, day)) /\ Cardinality(Losing(b, day)) \in Nat
<1>1. IsFiniteSet(Days)
  BY TimeAssumption, FS_Interval DEF Days
<1>2. Losing(b, day) \subseteq Days
  BY DEF Losing
<1> QED BY <1>1, <1>2, FS_Subset, FS_CardinalityType

(* The number of losing days on a later day, when none but d1 was traded   *)
(* from d1 on: what check_and_reset_daily does to the counter.             *)
LEMMA LosingLater ==
  ASSUME NEW b \in [Days -> Int], NEW d1 \in Days, NEW d2 \in Days, d1 < d2,
         \A d \in Days : d > d1 => b[d] = 0
  PROVE  Cardinality(Losing(b, d2)) =
            IF b[d1] < 0 THEN Cardinality(Losing(b, d1)) + 1
            ELSE IF b[d1] > 0 THEN 0 ELSE Cardinality(Losing(b, d1))
<1>0. \A d \in Days : d \in Int /\ b[d] \in Int
  BY TimeAssumption DEF Days
<1>1. CASE b[d1] < 0
  <2>1. Losing(b, d2) = Losing(b, d1) \cup {d1}
    BY <1>0, <1>1 DEF Losing
  <2>2. d1 \notin Losing(b, d1)
    BY <1>0 DEF Losing
  <2> QED BY <1>1, <2>1, <2>2, LosingIsFinite, FS_AddElement
<1>2. CASE b[d1] > 0
  <2>1. Losing(b, d2) = {}
    BY <1>0, <1>2 DEF Losing
  <2> QED BY <1>0, <1>2, <2>1, FS_EmptySet
<1>3. CASE b[d1] = 0
  <2>1. Losing(b, d2) = Losing(b, d1)
    BY <1>0, <1>3 DEF Losing
  <2> QED BY <1>0, <1>3, <2>1
<1> QED BY <1>0, <1>1, <1>2, <1>3

(* Entries less exits, from the receipts rc.                               *)
With(rc, action) == {x \in Bars \cup {NoBar} : rc[x] = action}
Net(rc) == Cardinality(With(rc, "ENTER")) - Cardinality(With(rc, "EXIT"))
Delta(action) == IF action = "ENTER" THEN 1 ELSE IF action = "EXIT" THEN -1 ELSE 0
Receipts == [Bars \cup {NoBar} -> Actions \cup {None}]

LEMMA WithIsFinite ==
  ASSUME NEW rc, NEW action
  PROVE  /\ IsFiniteSet(With(rc, action))
         /\ Cardinality(With(rc, action)) \in Nat
<1>0. IsFiniteSet(Bars)
  BY TimeAssumption, FS_Interval DEF Bars
<1>1. IsFiniteSet(Bars \cup {NoBar})
  BY <1>0, FS_AddElement
<1>2. With(rc, action) \subseteq Bars \cup {NoBar}
  BY DEF With
<1> QED BY <1>1, <1>2, FS_Subset, FS_CardinalityType

LEMMA NetIsAnInteger == ASSUME NEW rc PROVE Net(rc) \in Int
  BY WithIsFinite DEF Net

(* A first receipt of a bar moves the balance by its own trade.            *)
LEMMA NetOfAReceipt ==
  ASSUME NEW rc \in Receipts, NEW x \in Bars \cup {NoBar}, rc[x] = None,
         NEW a \in Actions
  PROVE  Net([rc EXCEPT ![x] = a]) = Net(rc) + Delta(a)
<1> DEFINE rd == [rc EXCEPT ![x] = a]
<1>0. None \notin Actions
  BY NoSessionAssumption
<1>1. \A c \in Actions : With(rd, c) = IF c = a THEN With(rc, c) \cup {x}
                                                ELSE With(rc, c)
  BY <1>0 DEF With, Receipts
<1>2. \A c \in Actions : x \notin With(rc, c)
  BY <1>0 DEF With
<1>3. \A c \in Actions : Cardinality(With(rd, c)) =
                            Cardinality(With(rc, c)) + (IF c = a THEN 1 ELSE 0)
  <2> SUFFICES ASSUME NEW c \in Actions
               PROVE  Cardinality(With(rd, c)) =
                        Cardinality(With(rc, c)) + (IF c = a THEN 1 ELSE 0)
    OBVIOUS
  <2> HIDE DEF rd
  <2>1. CASE c = a
    <3>1. Cardinality(With(rc, c) \cup {x}) = Cardinality(With(rc, c)) + 1
      BY <1>2, WithIsFinite, FS_AddElement
    <3> QED BY <3>1, <2>1, <1>1
  <2>2. CASE c # a
    BY <2>2, <1>1, WithIsFinite
  <2> QED BY <2>1, <2>2
<1>4. "ENTER" \in Actions /\ "EXIT" \in Actions
  BY DEF Actions
<1> HIDE DEF rd
<1>5. Net(rd) = Net(rc) + Delta(a)
  BY <1>3, <1>4, WithIsFinite DEF Net, Delta
<1> QED BY <1>5 DEF rd

--------------------------------------------------------------------------------
(* The inductive invariant.                                                *)

Taken(s) == IF s.position = None THEN 0 ELSE 1

(* The session s follows from the history and one more action.             *)
Agrees(b, e, n, s, action, gain, entries) ==
    /\ s.pnl = b[s.day] + gain
    /\ \A d \in Days : d > s.day => b[d] = 0
    /\ s.trades = e[Monday(s.week)] + entries
    /\ \A d \in Days : d > s.week => e[d] = 0
    /\ s.losing = Cardinality(Losing(b, s.day))
    /\ Taken(s) = n + Delta(action)

(* What the rules keep true of a session of lane l.                        *)
Sound(l, s) ==
    /\ s.trades <= WeeklyCap
    /\ s.losing >= LosingLimit => s.pnl = 0
    /\ s.halted = "K3" => s.losing >= LosingLimit
    /\ s.halted = "latency" => l = "btc"
    /\ l = "btc" => s.pnl = 0 /\ s.losing = 0

Matches(r, s) == r # None => r.version = s.version

(* A task on a halted row keeps the halt and trades nothing.               *)
Held(r, t) ==
    (r # None /\ r.halted \in {"K3", "latency"}) =>
        t.session.halted = r.halted /\ t.gain = 0 /\ t.entries = 0

TaskOK(b, e, n, l, r, t) ==
    t.pc \in {"open", "commit"} =>
        /\ t.session \in Sessions
        /\ t.session.version >= 1
        /\ IF r = None THEN t.session.version = 1
                       ELSE t.session.version <= r.version
        /\ Matches(r, t.session) =>
              /\ Agrees(b, e, n, t.session, t.action, t.gain, t.entries)
              /\ Sound(l, t.session)
              /\ Held(r, t)
        /\ t.pc = "open" => /\ t.action = None /\ t.gain = 0 /\ t.entries = 0
                            /\ KillSwitch(t.session) = "no"
        /\ t.pc = "commit" => t.action \in Actions
        /\ t.entries # 0 => /\ t.gain = 0
                            /\ t.session.pnl > -DailyLimit
                            /\ t.session.losing < LosingLimit

RowOK(b, e, n, l, r) ==
    IF r = None
    THEN n = 0 /\ \A d \in Days : b[d] = 0 /\ e[d] = 0
    ELSE r.version >= 2 /\ Agrees(b, e, n, r, None, 0, 0) /\ Sound(l, r)

Inv ==
    /\ TypeOK
    /\ RowOK(booked, entered, Net(receipts), lane, row)
    /\ \A w \in Workers :
        TaskOK(booked, entered, Net(receipts), lane, row, task[w])
    /\ \A d \in Days : entered[d] <= WeeklyCap

--------------------------------------------------------------------------------
(* The rules, on sessions.                                                 *)

LEMMA ADayLater ==
  ASSUME NEW s \in Sessions, NEW losing \in Nat, NEW halted \in Halts,
         NEW day \in Days
  PROVE  [s EXCEPT !.losing = losing, !.pnl = 0, !.day = day, !.halted = halted]
            \in Sessions
<1> DEFINE r == [s EXCEPT !.losing = losing, !.day = day, !.halted = halted]
<1>1. r \in Sessions
  BY DEF Sessions
<1>2. [s EXCEPT !.losing = losing, !.pnl = 0, !.day = day, !.halted = halted]
        = [r EXCEPT !.pnl = 0]
  BY DEF Sessions
<1> HIDE DEF r
<1>3. [r EXCEPT !.pnl = 0] \in Sessions
  BY <1>1 DEF Sessions
<1> QED BY <1>2, <1>3

LEMMA ResetsAreTyped ==
  ASSUME NEW s \in Sessions, NEW day \in Days
  PROVE  DailyReset(s, day) \in Sessions /\ WeeklyReset(s, day) \in Sessions
<1>1. DailyReset(s, day) \in Sessions
  <2> DEFINE losing == IF s.pnl < 0 THEN s.losing + 1
                       ELSE IF s.pnl > 0 THEN 0 ELSE s.losing
             halted == IF s.halted = "K1" THEN "no" ELSE s.halted
  <2>1. losing \in Nat /\ halted \in Halts
    BY DEF Sessions, Halts
  <2>2. CASE day > s.day
    <3>1. DailyReset(s, day) = [s EXCEPT !.losing = losing, !.pnl = 0,
                                         !.day = day, !.halted = halted]
      BY <2>2 DEF DailyReset, Sessions
    <3> HIDE DEF losing, halted
    <3>2. [s EXCEPT !.losing = losing, !.pnl = 0, !.day = day,
                    !.halted = halted] \in Sessions
      BY <2>1, ADayLater, Zenon
    <3> QED BY <3>1, <3>2, Zenon
  <2>3. CASE ~(day > s.day)
    BY <2>3 DEF DailyReset
  <2> QED BY <2>2, <2>3
<1>2. WeeklyReset(s, day) \in Sessions
  BY MondayIsADay DEF WeeklyReset, Sessions
<1> QED BY <1>1, <1>2

LEMMA DailyResetAgrees ==
  ASSUME NEW b \in [Days -> Int], NEW e \in [Days -> Nat], NEW n \in Int, NEW l,
         NEW s \in Sessions, NEW day \in Days,
         Agrees(b, e, n, s, None, 0, 0), Sound(l, s)
  PROVE  /\ Agrees(b, e, n, DailyReset(s, day), None, 0, 0)
         /\ Sound(l, DailyReset(s, day))
         /\ DailyReset(s, day).version = s.version
         /\ s.halted \in {"K3", "latency"} => DailyReset(s, day).halted = s.halted
<1> DEFINE r == DailyReset(s, day)
<1>0. s.pnl \in Int /\ s.losing \in Nat /\ s.day \in Days /\ day \in Int
      /\ s.day \in Int /\ s.trades \in Nat /\ LosingLimit \in Nat
  BY TimeAssumption, RuleAssumption DEF Sessions, Days
<1>1. CASE day > s.day
  <2>1. /\ r.pnl = 0 /\ r.day = day /\ r.trades = s.trades /\ r.week = s.week
        /\ r.position = s.position /\ r.version = s.version
        /\ r.losing = IF s.pnl < 0 THEN s.losing + 1
                      ELSE IF s.pnl > 0 THEN 0 ELSE s.losing
        /\ r.halted = IF s.halted = "K1" THEN "no" ELSE s.halted
    BY <1>1 DEF DailyReset, Sessions
  <2>2. \A d \in Days : d > s.day => b[d] = 0
    BY DEF Agrees
  <2>3. s.pnl = b[s.day] /\ s.losing = Cardinality(Losing(b, s.day))
    BY <1>0 DEF Agrees
  <2>4. r.losing = Cardinality(Losing(b, day))
    BY <1>0, <1>1, <2>1, <2>2, <2>3, LosingLater
  <2>5. \A d \in Days : d > day => b[d] = 0
    BY <1>0, <1>1, <2>2, TimeAssumption DEF Days
  <2> HIDE DEF r
  <2>6. Agrees(b, e, n, r, None, 0, 0)
    BY <1>0, <1>1, <2>1, <2>2, <2>4, <2>5 DEF Agrees, Taken
  <2>7. Sound(l, r)
    BY <1>0, <2>1 DEF Sound
  <2> QED BY <2>1, <2>6, <2>7 DEF r
<1>2. CASE ~(day > s.day)
  BY <1>2 DEF DailyReset
<1> QED BY <1>1, <1>2

LEMMA WeeklyResetAgrees ==
  ASSUME NEW b \in [Days -> Int], NEW e \in [Days -> Nat], NEW n \in Int, NEW l,
         NEW s \in Sessions, NEW day \in Days,
         Agrees(b, e, n, s, None, 0, 0), Sound(l, s)
  PROVE  /\ Agrees(b, e, n, WeeklyReset(s, day), None, 0, 0)
         /\ Sound(l, WeeklyReset(s, day))
         /\ WeeklyReset(s, day).version = s.version
         /\ WeeklyReset(s, day).halted = s.halted
<1> DEFINE r == WeeklyReset(s, day)
<1>0. /\ s.week \in Days /\ s.week \in Int /\ Monday(day) \in Days
      /\ Monday(day) \in Int /\ Monday(Monday(day)) = Monday(day)
      /\ WeeklyCap \in Nat
  <2>1. s.week \in Days
    BY DEF Sessions
  <2>2. Monday(day) \in Days /\ Monday(Monday(day)) = Monday(day)
    BY MondayIsADay
  <2>3. Days \subseteq Int
    BY TimeAssumption DEF Days
  <2> QED BY <2>1, <2>2, <2>3, RuleAssumption
<1>1. CASE Monday(day) > s.week
  <2>1. /\ r.pnl = s.pnl /\ r.day = s.day /\ r.trades = 0
        /\ r.week = Monday(day) /\ r.losing = s.losing /\ r.halted = s.halted
        /\ r.position = s.position /\ r.version = s.version
    BY <1>1 DEF WeeklyReset, Sessions
  <2>2. \A d \in Days : d > s.week => e[d] = 0
    BY DEF Agrees
  <2>3. \A d \in Days : d > Monday(day) => e[d] = 0
    BY <1>0, <1>1, <2>2, TimeAssumption DEF Days
  <2> HIDE DEF r
  <2>4. e[Monday(Monday(day))] = 0
    BY <1>0, <1>1, <2>2
  <2>5. Agrees(b, e, n, r, None, 0, 0)
    BY <2>1, <2>3, <2>4 DEF Agrees, Taken
  <2>6. Sound(l, r)
    BY <1>0, <2>1 DEF Sound
  <2> QED BY <2>1, <2>5, <2>6 DEF r
<1>2. CASE ~(Monday(day) > s.week)
  BY <1>2 DEF WeeklyReset
<1> QED BY <1>1, <1>2

LEMMA FreshIsSound ==
  ASSUME NEW b \in [Days -> Int], NEW e \in [Days -> Nat], NEW l, NEW day \in Days,
         \A d \in Days : b[d] = 0 /\ e[d] = 0
  PROVE  /\ Fresh(day) \in Sessions
         /\ Agrees(b, e, 0, Fresh(day), None, 0, 0)
         /\ Sound(l, Fresh(day))
<1>1. Fresh(day) \in Sessions
  BY DEF Fresh, Sessions, Halts
<1>2. Losing(b, day) = {}
  BY DEF Losing
<1>3. Cardinality(Losing(b, day)) = 0
  BY <1>2, FS_EmptySet
<1>4. Delta(None) = 0
  BY NoSessionAssumption DEF Delta, Actions
<1>5. Monday(day) \in Days
  BY MondayIsADay
<1>6. Agrees(b, e, 0, Fresh(day), None, 0, 0)
  BY <1>3, <1>4, <1>5 DEF Agrees, Fresh, Taken
<1>7. Sound(l, Fresh(day))
  BY RuleAssumption DEF Sound, Fresh
<1> QED BY <1>1, <1>6, <1>7

(* A task that was let in goes on with what the resets and switches left.  *)
LEMMA AdmittedIsOK ==
  ASSUME NEW b \in [Days -> Int], NEW e \in [Days -> Nat], NEW n \in Int, NEW l,
         NEW s \in Sessions, NEW now \in Bars, NEW r,
         Agrees(b, e, n, s, None, 0, 0), Sound(l, s),
         \/ r = None /\ s.version = 1
         \/ r # None /\ r = s /\ s.version >= 2
  PROVE  /\ Admitted(s, now) \in Tasks
         /\ Admitted(s, now).pc \in {"open", "commit"}
         /\ TaskOK(b, e, n, l, r, Admitted(s, now))
<1> DEFINE day == DayOf(now)
           m == DailyReset(s, day)
           x == WeeklyReset(m, day)
           k == KillSwitch(x)
           h == [x EXCEPT !.halted = k]
           t == Admitted(s, now)
<1>1. day \in Days
  BY DayIsADay
<1>2. /\ m \in Sessions /\ Agrees(b, e, n, m, None, 0, 0) /\ Sound(l, m)
      /\ m.version = s.version
      /\ s.halted \in {"K3", "latency"} => m.halted = s.halted
  <2>1. m \in Sessions
    BY <1>1, ResetsAreTyped
  <2>2. /\ Agrees(b, e, n, m, None, 0, 0) /\ Sound(l, m)
        /\ m.version = s.version
        /\ s.halted \in {"K3", "latency"} => m.halted = s.halted
    BY <1>1, DailyResetAgrees
  <2> QED BY <2>1, <2>2
<1>0. t = [Idle EXCEPT !.pc = IF k = "no" THEN "open" ELSE "commit",
                       !.now = now, !.session = IF k = "no" THEN x ELSE h,
                       !.action = IF k = "no" THEN None ELSE "NO_TRADE"]
  BY DEF Admitted, Refreshed
<1> HIDE DEF m
<1>3. /\ x \in Sessions /\ Agrees(b, e, n, x, None, 0, 0) /\ Sound(l, x)
      /\ x.version = s.version
      /\ s.halted \in {"K3", "latency"} => x.halted = s.halted
  <2>1. x \in Sessions
    BY <1>1, <1>2, ResetsAreTyped
  <2>2. /\ Agrees(b, e, n, x, None, 0, 0) /\ Sound(l, x)
        /\ x.version = m.version /\ x.halted = m.halted
    BY <1>1, <1>2, WeeklyResetAgrees
  <2> QED BY <1>2, <2>1, <2>2
<1>4. t = [pc |-> IF k = "no" THEN "open" ELSE "commit", now |-> now,
           session |-> IF k = "no" THEN x ELSE h,
           action |-> IF k = "no" THEN None ELSE "NO_TRADE",
           bar |-> NoBar, gain |-> 0, entries |-> 0]
  <2> HIDE DEF k, x, h, t
  <2> QED BY <1>0 DEF Idle
<1> HIDE DEF x, t
<1>5. k \in Halts
  BY DEF KillSwitch, Halts
<1>6. /\ x.pnl \in Int /\ x.losing \in Nat /\ x.position \in Signals \cup {None}
      /\ x.version \in Nat /\ s.version \in Nat
  BY <1>3 DEF Sessions
<1>7. /\ h \in Sessions /\ h.pnl = x.pnl /\ h.trades = x.trades /\ h.day = x.day
      /\ h.week = x.week /\ h.losing = x.losing /\ h.position = x.position
      /\ h.version = x.version /\ h.halted = k
  BY <1>3, <1>5 DEF Sessions
<1>8. s.halted \in {"K3", "latency"} /\ k # "no" => k = s.halted
  BY <1>3, <1>6, RuleAssumption DEF Sound, KillSwitch
<1>9. k # "no" => Sound(l, h)
  BY <1>3, <1>6, <1>7, RuleAssumption DEF Sound, KillSwitch
<1>10. Delta(None) = 0 /\ Delta("NO_TRADE") = 0
  BY NoSessionAssumption DEF Delta, Actions
<1>11. Agrees(b, e, n, h, "NO_TRADE", 0, 0)
  BY <1>3, <1>7, <1>10 DEF Agrees, Taken
<1> HIDE DEF h
<1>12. CASE k = "no"
  <2>1. t.pc = "open" /\ t.session = x /\ t.action = None /\ t.gain = 0
        /\ t.entries = 0
    BY <1>4, <1>12
  <2>2. Held(r, t)
    BY <1>3, <2>1 DEF Held
  <2>3. TaskOK(b, e, n, l, r, t)
    BY <1>3, <1>6, <1>12, <2>1, <2>2 DEF TaskOK
  <2>4. t \in Tasks
    BY <1>3, <1>4, <1>12 DEF Tasks
  <2> QED BY <2>1, <2>3, <2>4 DEF t
<1>13. CASE k # "no"
  <2>1. t.pc = "commit" /\ t.session = h /\ t.action = "NO_TRADE" /\ t.gain = 0
        /\ t.entries = 0
    BY <1>4, <1>13
  <2>2. Held(r, t)
    BY <1>7, <1>8, <1>13, <2>1 DEF Held
  <2>3. "NO_TRADE" \in Actions
    BY DEF Actions
  <2>4. TaskOK(b, e, n, l, r, t)
    BY <1>3, <1>6, <1>7, <1>9, <1>11, <1>13, <2>1, <2>2, <2>3 DEF TaskOK
  <2>5. t \in Tasks
    BY <1>4, <1>7, <1>13, <2>3 DEF Tasks
  <2> QED BY <2>1, <2>4, <2>5 DEF t
<1> QED BY <1>12, <1>13

--------------------------------------------------------------------------------
(* What an open task may propose.                                          *)

Commits(now, s, bar, action, gain, entries) ==
    [pc |-> "commit", now |-> now, session |-> s, action |-> action,
     bar |-> bar, gain |-> gain, entries |-> entries]

(* The decision on a bar leaves the resets and the version alone.          *)
Frame(s, x) == /\ x.day = s.day /\ x.week = s.week /\ x.losing = s.losing
               /\ x.version = s.version

LEMMA OpenTasks ==
  ASSUME NEW b, NEW e, NEW n, NEW l, NEW r, NEW t,
         t.pc = "open", TaskOK(b, e, n, l, r, t)
  PROVE  /\ t.session \in Sessions
         /\ t.session.pnl > -DailyLimit
         /\ t.session.losing < LosingLimit
         /\ t.session.halted # "K3"  \/ ~Matches(r, t.session)
         /\ t.action = None /\ t.gain = 0 /\ t.entries = 0
         /\ Delta(t.action) = 0
<1>1. t.session \in Sessions /\ KillSwitch(t.session) = "no" /\ t.action = None
      /\ t.gain = 0 /\ t.entries = 0
  BY DEF TaskOK
<1>2. t.session.pnl \in Int /\ t.session.losing \in Nat
  BY <1>1 DEF Sessions
<1>3. t.session.pnl > -DailyLimit /\ t.session.losing < LosingLimit
  BY <1>1, <1>2, RuleAssumption DEF KillSwitch
<1>4. Matches(r, t.session) => Sound(l, t.session)
  BY DEF TaskOK
<1>5. Matches(r, t.session) => t.session.halted # "K3"
  BY <1>2, <1>3, <1>4, RuleAssumption DEF Sound
<1>6. Delta(None) = 0
  BY NoSessionAssumption DEF Delta, Actions
<1> QED BY <1>1, <1>3, <1>5, <1>6

(* A bar without a trade may count latency and pause the BTC lane.         *)
LEMMA QuietIsOK ==
  ASSUME NEW b \in [Days -> Int], NEW e \in [Days -> Nat], NEW n \in Int, NEW l,
         NEW r, NEW t, t.pc = "open", TaskOK(b, e, n, l, r, t),
         NEW now, NEW bar, NEW x \in Sessions, Frame(t.session, x),
         x.pnl = t.session.pnl, x.trades = t.session.trades,
         x.position = t.session.position,
         \/ x.halted = t.session.halted
         \/ t.session.halted = "no" /\ x.halted = "latency" /\ l = "btc"
  PROVE  TaskOK(b, e, n, l, r, Commits(now, x, bar, "NO_TRADE", 0, 0))
<1> DEFINE s == t.session
           p == Commits(now, x, bar, "NO_TRADE", 0, 0)
<1>1. /\ p.pc = "commit" /\ p.session = x /\ p.action = "NO_TRADE" /\ p.gain = 0
      /\ p.entries = 0
  BY DEF Commits
<1>2. "NO_TRADE" \in Actions /\ Delta("NO_TRADE") = 0
  BY DEF Actions, Delta
<1>3. Matches(r, x) => Matches(r, s)
  BY DEF Matches, Frame
<1>4. s.version >= 1 /\ IF r = None THEN s.version = 1 ELSE s.version <= r.version
  BY DEF TaskOK
<1>5. Matches(r, s) => Agrees(b, e, n, s, None, 0, 0) /\ Sound(l, s) /\ Held(r, t)
  BY OpenTasks DEF TaskOK
<1>6. Delta(None) = 0
  BY OpenTasks
<1>7. Matches(r, s) => Agrees(b, e, n, x, "NO_TRADE", 0, 0)
  BY <1>2, <1>5, <1>6 DEF Agrees, Frame, Taken
<1>8. Matches(r, s) => Sound(l, x)
  BY <1>5 DEF Sound, Frame
<1>9. Matches(r, s) => Held(r, p)
  BY <1>1, <1>5 DEF Held
<1> HIDE DEF p
<1>10. TaskOK(b, e, n, l, r, p)
  BY <1>1, <1>2, <1>3, <1>4, <1>7, <1>8, <1>9 DEF TaskOK, Frame
<1> QED BY <1>10 DEF p

(* Only the SOL lane exits, with the gain it books.                        *)
LEMMA ExitIsOK ==
  ASSUME NEW b \in [Days -> Int], NEW e \in [Days -> Nat], NEW n \in Int,
         NEW r, NEW t, t.pc = "open", TaskOK(b, e, n, "sol", r, t),
         NEW now, NEW bar, NEW x \in Sessions, Frame(t.session, x), NEW g \in Int,
         x.pnl = t.session.pnl + g, x.trades = t.session.trades,
         t.session.position # None, x.position = None,
         x.halted = t.session.halted
  PROVE  TaskOK(b, e, n, "sol", r, Commits(now, x, bar, "EXIT", g, 0))
<1> DEFINE s == t.session
           p == Commits(now, x, bar, "EXIT", g, 0)
<1>1. /\ p.pc = "commit" /\ p.session = x /\ p.action = "EXIT" /\ p.gain = g
      /\ p.entries = 0
  BY DEF Commits
<1>2. "EXIT" \in Actions /\ Delta("EXIT") = -1
  BY DEF Actions, Delta
<1>3. Matches(r, x) => Matches(r, s)
  BY DEF Matches, Frame
<1>4. s.version >= 1 /\ IF r = None THEN s.version = 1 ELSE s.version <= r.version
  BY DEF TaskOK
<1>5. Matches(r, s) => /\ Agrees(b, e, n, s, None, 0, 0) /\ Sound("sol", s)
                       /\ Held(r, t)
  BY OpenTasks DEF TaskOK
<1>6. Delta(None) = 0 /\ s \in Sessions /\ s.losing < LosingLimit
      /\ (Matches(r, s) => s.halted # "K3")
  BY OpenTasks
<1>7. s.pnl \in Int /\ s.losing \in Nat /\ s.day \in Days
  BY <1>6 DEF Sessions
<1>8. Matches(r, s) => Agrees(b, e, n, x, "EXIT", g, 0)
  BY <1>2, <1>5, <1>6, <1>7 DEF Agrees, Frame, Taken
<1>9. Matches(r, s) => Sound("sol", x)
  BY <1>5, <1>6, <1>7, RuleAssumption DEF Sound, Frame
<1>10. Matches(r, s) => Held(r, p)
  BY <1>1, <1>5, <1>6 DEF Held, Sound
<1> HIDE DEF p
<1>11. TaskOK(b, e, n, "sol", r, p)
  BY <1>1, <1>2, <1>3, <1>4, <1>8, <1>9, <1>10 DEF TaskOK, Frame
<1> QED BY <1>11 DEF p

LEMMA EnterIsOK ==
  ASSUME NEW b \in [Days -> Int], NEW e \in [Days -> Nat], NEW n \in Int, NEW l,
         NEW r, NEW t, t.pc = "open", TaskOK(b, e, n, l, r, t),
         NEW now, NEW bar, NEW x \in Sessions, Frame(t.session, x),
         CanEnter(t.session),
         x.pnl = t.session.pnl, x.trades = t.session.trades + 1,
         x.position # None, x.halted = t.session.halted
  PROVE  TaskOK(b, e, n, l, r, Commits(now, x, bar, "ENTER", 0, 1))
<1> DEFINE s == t.session
           p == Commits(now, x, bar, "ENTER", 0, 1)
<1>1. /\ p.pc = "commit" /\ p.session = x /\ p.action = "ENTER" /\ p.gain = 0
      /\ p.entries = 1
  BY DEF Commits
<1>2. "ENTER" \in Actions /\ Delta("ENTER") = 1
  BY DEF Actions, Delta
<1>3. Matches(r, x) => Matches(r, s)
  BY DEF Matches, Frame
<1>4. s.version >= 1 /\ IF r = None THEN s.version = 1 ELSE s.version <= r.version
  BY DEF TaskOK
<1>5. Matches(r, s) => Agrees(b, e, n, s, None, 0, 0) /\ Sound(l, s) /\ Held(r, t)
  BY OpenTasks DEF TaskOK
<1>6. Delta(None) = 0 /\ s \in Sessions /\ s.losing < LosingLimit
      /\ s.pnl > -DailyLimit
  BY OpenTasks
<1>7. s.trades \in Nat /\ s.trades < WeeklyCap /\ s.halted = "no"
      /\ s.position = None /\ s.week \in Days
  BY <1>6 DEF CanEnter, Sessions
<1>8. e[Monday(s.week)] \in Nat
  BY <1>7, MondayIsADay
<1>9. Matches(r, s) => Agrees(b, e, n, x, "ENTER", 0, 1)
  BY <1>2, <1>5, <1>6, <1>7, <1>8 DEF Agrees, Frame, Taken
<1>10. Matches(r, s) => Sound(l, x)
  BY <1>5, <1>7, RuleAssumption DEF Sound, Frame
<1>11. Matches(r, s) => Held(r, p)
  BY <1>1, <1>5, <1>7 DEF Held
<1> HIDE DEF p
<1>12. TaskOK(b, e, n, l, r, p)
  BY <1>1, <1>2, <1>3, <1>4, <1>6, <1>9, <1>10, <1>11 DEF TaskOK, Frame
<1> QED BY <1>12 DEF p

--------------------------------------------------------------------------------
(* The commit.                                                             *)

LEMMA CommitAgrees ==
  ASSUME NEW b \in [Days -> Int], NEW e \in [Days -> Nat], NEW n \in Int,
         NEW s \in Sessions, NEW a, NEW g \in Int, NEW k \in {0, 1},
         Agrees(b, e, n, s, a, g, k)
  PROVE  Agrees([b EXCEPT ![s.day] = @ + g],
                [e EXCEPT ![Monday(s.week)] = @ + k], n + Delta(a),
                [s EXCEPT !.version = @ + 1], None, 0, 0)
<1> DEFINE c == [b EXCEPT ![s.day] = @ + g]
           f == [e EXCEPT ![Monday(s.week)] = @ + k]
           x == [s EXCEPT !.version = @ + 1]
<1>1. /\ s.day \in Days /\ s.week \in Days /\ Monday(s.week) \in Days
      /\ Monday(s.week) <= s.week
  BY MondayIsADay DEF Sessions
<1>2. \A d \in Days : d \in Int
  BY TimeAssumption DEF Days
<1>3. /\ x.pnl = s.pnl /\ x.day = s.day /\ x.trades = s.trades /\ x.week = s.week
      /\ x.losing = s.losing /\ x.position = s.position
  BY DEF Sessions
<1>4. c[s.day] = b[s.day] + g /\ \A d \in Days : d # s.day => c[d] = b[d]
  BY <1>1
<1>5. /\ f[Monday(s.week)] = e[Monday(s.week)] + k
      /\ \A d \in Days : d # Monday(s.week) => f[d] = e[d]
  BY <1>1
<1> HIDE DEF c, f, x
<1>6. Losing(c, s.day) = Losing(b, s.day)
  BY <1>1, <1>2, <1>4 DEF Losing
<1>7. Delta(None) = 0 /\ Delta(a) \in Int /\ b[s.day] \in Int
      /\ e[Monday(s.week)] \in Nat
  BY <1>1, NoSessionAssumption DEF Delta, Actions
<1>8. x.pnl = c[x.day] + 0 /\ \A d \in Days : d > x.day => c[d] = 0
  BY <1>1, <1>2, <1>3, <1>4, <1>7 DEF Agrees
<1>9. x.trades = f[Monday(x.week)] + 0 /\ \A d \in Days : d > x.week => f[d] = 0
  BY <1>1, <1>2, <1>3, <1>5, <1>7 DEF Agrees
<1>10. x.losing = Cardinality(Losing(c, x.day))
  BY <1>3, <1>6 DEF Agrees
<1>11. Taken(x) = n + Delta(a) + Delta(None)
  BY <1>3, <1>7 DEF Agrees, Taken
<1>12. Agrees(c, f, n + Delta(a), x, None, 0, 0)
  BY <1>8, <1>9, <1>10, <1>11 DEF Agrees
<1> QED BY <1>12 DEF c, f, x

--------------------------------------------------------------------------------
(* Steps of one task.                                                      *)

LEMMA IdleIsATask == Idle \in Tasks
  BY TimeAssumption DEF Idle, Tasks, Bars

LEMMA TaskStep ==
  ASSUME Inv, NEW w \in Workers, NEW t \in Tasks, Become(w, t),
         UNCHANGED <<lane, clock, row, receipts, booked, entered>>,
         TaskOK(booked, entered, Net(receipts), lane, row, t)
  PROVE  Inv'
<1>1. /\ task' \in [Workers -> Tasks]
      /\ \A v \in Workers : task'[v] = IF v = w THEN t ELSE task[v]
  BY DEF Inv, TypeOK, Become
<1>2. \A v \in Workers :
        TaskOK(booked, entered, Net(receipts), lane, row, task'[v])
  BY <1>1 DEF Inv
<1>3. \A v \in Workers : task'[v].pc \in {"open", "commit"} =>
        task'[v].session \in Sessions
  BY <1>2 DEF TaskOK
<1>4. \A v \in Workers : task'[v].pc = "commit" => task'[v].action \in Actions
  BY <1>2 DEF TaskOK
<1>5. TypeOK'
  BY <1>1, <1>3, <1>4, NoSessionAssumption DEF Inv, TypeOK
<1>6. Net(receipts)' = Net(receipts)
  BY DEF Net, With
<1>7. \A v \in Workers :
        TaskOK(booked, entered, Net(receipts), lane, row, task[v])'
  BY <1>2, <1>6 DEF TaskOK, Agrees, Sound, Matches, Held, Losing
<1>8. RowOK(booked, entered, Net(receipts), lane, row)'
  BY <1>6 DEF Inv, RowOK, Agrees, Sound, Losing
<1> QED BY <1>5, <1>7, <1>8 DEF Inv

LEMMA EndStep ==
  ASSUME Inv, NEW w \in Workers,
         NEW t \in Tasks, t.pc \notin {"open", "commit"}, Become(w, t),
         UNCHANGED <<lane, clock, row, receipts, booked, entered>>
  PROVE  Inv'
<1>1. TaskOK(booked, entered, Net(receipts), lane, row, t)
  BY DEF TaskOK
<1> QED BY <1>1, TaskStep

LEMMA FailStep ==
  ASSUME Inv, NEW w \in Workers, NEW bar \in Bars \cup {NoBar}, Fail(w, bar),
         UNCHANGED <<lane, clock, row, receipts, booked, entered>>
  PROVE  Inv'
<1> DEFINE t == IF lane = "sol"
                THEN [Idle EXCEPT !.pc = "error", !.now = task[w].now, !.bar = bar]
                ELSE Idle
<1>1. task[w].now \in Bars
  BY DEF Inv, TypeOK, Tasks
<1>2. t \in Tasks /\ t.pc \notin {"open", "commit"}
  BY <1>1, IdleIsATask DEF Tasks, Idle
<1>3. Become(w, t)
  BY DEF Fail
<1> HIDE DEF t
<1> QED BY <1>2, <1>3, EndStep

(* The typed facts a step of a worker starts from.                         *)
LEMMA Start ==
  ASSUME Inv, NEW w \in Workers
  PROVE  /\ task[w] \in Tasks
         /\ task[w].now \in Bars /\ clock \in Bars
         /\ TaskOK(booked, entered, Net(receipts), lane, row, task[w])
         /\ booked \in [Days -> Int] /\ entered \in [Days -> Nat]
         /\ receipts \in Receipts /\ Net(receipts) \in Int
         /\ RowOK(booked, entered, Net(receipts), lane, row)
         /\ row \in Sessions \cup {None}
  BY NetIsAnInteger DEF Inv, TypeOK, Tasks, Receipts

LEMMA LoadStep == ASSUME Inv, NEW w \in Workers, Load(w) PROVE Inv'
<1>1. UNCHANGED <<lane, clock, row, receipts, booked, entered>>
  BY DEF Load
<1>2. CASE row = None
  <2> DEFINE t == [Idle EXCEPT !.pc = "create", !.now = clock]
  <2>1. t \in Tasks /\ t.pc \notin {"open", "commit"}
    BY Start, IdleIsATask DEF Tasks, Idle
  <2>2. Become(w, t)
    BY <1>2 DEF Load
  <2> HIDE DEF t
  <2> QED BY <1>1, <2>1, <2>2, EndStep
<1>3. CASE row # None
  <2> DEFINE t == Admitted(row, clock)
  <2>1. row \in Sessions /\ row.version >= 2 /\ Sound(lane, row)
        /\ Agrees(booked, entered, Net(receipts), row, None, 0, 0)
    BY <1>3, Start DEF RowOK
  <2>2. clock \in Bars /\ booked \in [Days -> Int] /\ entered \in [Days -> Nat]
        /\ Net(receipts) \in Int
    BY Start
  <2>3. t \in Tasks /\ TaskOK(booked, entered, Net(receipts), lane, row, t)
    BY <1>3, <2>1, <2>2, AdmittedIsOK
  <2>4. Become(w, t)
    BY <1>3 DEF Load
  <2> HIDE DEF t
  <2> QED BY <1>1, <2>3, <2>4, TaskStep
<1> QED BY <1>2, <1>3

LEMMA CreateStep == ASSUME Inv, NEW w \in Workers, Create(w) PROVE Inv'
<1>1. UNCHANGED <<lane, clock, row, receipts, booked, entered>>
  BY DEF Create
<1>2. CASE row # None
  <2>1. Fail(w, NoBar)
    BY <1>2 DEF Create
  <2> QED BY <1>1, <2>1, FailStep
<1>3. CASE row = None
  <2> DEFINE s == Fresh(DayOf(task[w].now))
             t == Admitted(s, task[w].now)
  <2>1. task[w].now \in Bars /\ booked \in [Days -> Int]
        /\ entered \in [Days -> Nat] /\ Net(receipts) = 0
        /\ \A d \in Days : booked[d] = 0 /\ entered[d] = 0
    BY <1>3, Start DEF RowOK
  <2>2. s \in Sessions /\ Agrees(booked, entered, 0, s, None, 0, 0)
        /\ Sound(lane, s)
    BY <2>1, DayIsADay, FreshIsSound
  <2>3. s.version = 1
    BY DEF Fresh
  <2> HIDE DEF s
  <2>4. t \in Tasks /\ TaskOK(booked, entered, 0, lane, row, t)
    BY <1>3, <2>1, <2>2, <2>3, AdmittedIsOK
  <2>5. Become(w, t)
    BY <1>3 DEF Create, s
  <2> HIDE DEF t
  <2> QED BY <1>1, <2>1, <2>4, <2>5, TaskStep
<1> QED BY <1>2, <1>3

(* A proposal that suits the invariant keeps it.                           *)
LEMMA ProposeStep ==
  ASSUME Inv, NEW w \in Workers, NEW x \in Sessions, NEW bar \in Bars \cup {NoBar},
         NEW a \in Actions, NEW g \in Int, NEW k \in {0, 1},
         Propose(w, x, bar, a, g, k),
         UNCHANGED <<lane, clock, row, receipts, booked, entered>>,
         TaskOK(booked, entered, Net(receipts), lane, row,
                Commits(task[w].now, x, bar, a, g, k))
  PROVE  Inv'
<1> DEFINE t == Commits(task[w].now, x, bar, a, g, k)
<1>1. t \in Tasks
  BY Start DEF Commits, Tasks
<1>2. Become(w, t)
  BY DEF Propose, Proposed, Commits
<1> HIDE DEF t
<1>3. TaskOK(booked, entered, Net(receipts), lane, row, t)
  BY DEF t
<1> QED BY <1>1, <1>2, <1>3, TaskStep

LEMMA LatencyCount ==
  ASSUME NEW s \in Sessions, NEW latency
  PROVE  LET x == CountLatency(s, latency) IN
         /\ x \in Sessions /\ Frame(s, x) /\ x.pnl = s.pnl /\ x.trades = s.trades
         /\ x.position = s.position /\ x.halted = s.halted
<1> DEFINE m == IF latency = "high" THEN s.latency + 1 ELSE 0
<1>1. m \in Nat
  BY DEF Sessions
<1>2. CountLatency(s, latency) = [s EXCEPT !.latency = m]
  BY DEF CountLatency, Sessions
<1> HIDE DEF m
<1> QED BY <1>1, <1>2 DEF Sessions, Frame

(* The session a bar is decided on.                                        *)
LEMMA CountedIsOK ==
  ASSUME NEW l, NEW s \in Sessions, NEW latency
  PROVE  LET x == Counted(l, s, latency) IN
         /\ x \in Sessions /\ Frame(s, x) /\ x.pnl = s.pnl /\ x.trades = s.trades
         /\ x.position = s.position /\ x.halted = s.halted
  BY LatencyCount DEF Counted, Frame

LEMMA NoDataStep == ASSUME Inv, NEW w \in Workers, NoData(w) PROVE Inv'
<1> DEFINE t == task[w]
           s == t.session
<1>1. t.pc = "open" /\ TaskOK(booked, entered, Net(receipts), lane, row, t)
  BY Start DEF NoData
<1>2. s \in Sessions
  BY <1>1, OpenTasks
<1>3. TaskOK(booked, entered, Net(receipts), lane, row,
             Commits(t.now, s, NoBar, "NO_TRADE", 0, 0))
  BY <1>1, <1>2, Start, QuietIsOK DEF Frame
<1>4. "NO_TRADE" \in Actions
  BY DEF Actions
<1>5. /\ Propose(w, s, NoBar, "NO_TRADE", 0, 0)
      /\ UNCHANGED <<lane, clock, row, receipts, booked, entered>>
  BY DEF NoData
<1>6. NoBar \in Bars \cup {NoBar} /\ 0 \in Int /\ 0 \in {0, 1}
  OBVIOUS
<1> HIDE DEF t, s
<1>7. TaskOK(booked, entered, Net(receipts), lane, row,
             Commits(task[w].now, s, NoBar, "NO_TRADE", 0, 0))
  BY <1>3 DEF t
<1> QED BY <1>2, <1>4, <1>5, <1>6, <1>7, ProposeStep

LEMMA NoSignalStep ==
  ASSUME Inv, NEW w \in Workers, NEW latency, NoSignal(w, latency) PROVE Inv'
<1> DEFINE t == task[w]
           s == t.session
           x == Counted(lane, s, latency)
<1>1. t.pc = "open" /\ TaskOK(booked, entered, Net(receipts), lane, row, t)
  BY Start DEF NoSignal
<1>2. s \in Sessions
  BY <1>1, OpenTasks
<1>3. /\ x \in Sessions /\ Frame(s, x) /\ x.pnl = s.pnl /\ x.trades = s.trades
      /\ x.position = s.position /\ x.halted = s.halted
  BY <1>2, CountedIsOK
<1>4. /\ Propose(w, x, clock, "NO_TRADE", 0, 0)
      /\ UNCHANGED <<lane, clock, row, receipts, booked, entered>>
  BY DEF NoSignal
<1> HIDE DEF x
<1>5. TaskOK(booked, entered, Net(receipts), lane, row,
             Commits(t.now, x, clock, "NO_TRADE", 0, 0))
  BY <1>1, <1>3, Start, QuietIsOK
<1>6. "NO_TRADE" \in Actions /\ clock \in Bars
  BY Start DEF Actions
<1> QED BY <1>3, <1>4, <1>5, <1>6, ProposeStep

LEMMA GuardSkipStep ==
  ASSUME Inv, NEW w \in Workers, NEW latency, NEW clean, GuardSkip(w, latency, clean)
  PROVE  Inv'
<1> DEFINE t == task[w]
           s == t.session
           c == CountLatency(s, latency)
           x == Pause(c)
<1>1. /\ t.pc = "open" /\ lane = "btc"
      /\ TaskOK(booked, entered, Net(receipts), lane, row, t)
  BY Start DEF GuardSkip
<1>2. s \in Sessions
  BY <1>1, OpenTasks
<1>3. /\ c \in Sessions /\ Frame(s, c) /\ c.pnl = s.pnl /\ c.trades = s.trades
      /\ c.position = s.position /\ c.halted = s.halted
  BY <1>2, LatencyCount
<1>4. /\ Propose(w, x, clock, "NO_TRADE", 0, 0)
      /\ UNCHANGED <<lane, clock, row, receipts, booked, entered>>
  BY DEF GuardSkip
<1> HIDE DEF c
<1>5. \/ x = c
      \/ c.halted = "no" /\ x = [c EXCEPT !.halted = "latency"]
  BY DEF Pause
<1>6. /\ x \in Sessions /\ Frame(s, x) /\ x.pnl = s.pnl /\ x.trades = s.trades
      /\ x.position = s.position
      /\ x.halted = s.halted \/ (s.halted = "no" /\ x.halted = "latency")
  BY <1>3, <1>5 DEF Frame, Sessions, Halts
<1> HIDE DEF x
<1>7. TaskOK(booked, entered, Net(receipts), lane, row,
             Commits(t.now, x, clock, "NO_TRADE", 0, 0))
  BY <1>1, <1>6, Start, QuietIsOK
<1>8. "NO_TRADE" \in Actions /\ clock \in Bars
  BY Start DEF Actions
<1> QED BY <1>4, <1>6, <1>7, <1>8, ProposeStep

LEMMA BlockedStep ==
  ASSUME Inv, NEW w \in Workers, NEW signal, NEW move, NEW latency, NEW clean,
         BlockedBar(w, signal, move, latency, clean)
  PROVE  Inv'
<1> DEFINE t == task[w]
           s == t.session
           x == Counted(lane, s, latency)
<1>1. t.pc = "open" /\ TaskOK(booked, entered, Net(receipts), lane, row, t)
  BY Start DEF BlockedBar, Reaches
<1>2. s \in Sessions
  BY <1>1, OpenTasks
<1>3. /\ x \in Sessions /\ Frame(s, x) /\ x.pnl = s.pnl /\ x.trades = s.trades
      /\ x.position = s.position /\ x.halted = s.halted
  BY <1>2, CountedIsOK
<1>4. /\ Propose(w, x, clock, "NO_TRADE", 0, 0)
      /\ UNCHANGED <<lane, clock, row, receipts, booked, entered>>
  BY DEF BlockedBar
<1> HIDE DEF x
<1>5. TaskOK(booked, entered, Net(receipts), lane, row,
             Commits(t.now, x, clock, "NO_TRADE", 0, 0))
  BY <1>1, <1>3, Start, QuietIsOK
<1>6. "NO_TRADE" \in Actions /\ clock \in Bars
  BY Start DEF Actions
<1> QED BY <1>3, <1>4, <1>5, <1>6, ProposeStep

LEMMA EnterStep ==
  ASSUME Inv, NEW w \in Workers, NEW signal \in Signals, NEW latency, NEW clean,
         EnterBar(w, signal, latency, clean)
  PROVE  Inv'
<1> DEFINE t == task[w]
           s == t.session
           c == Counted(lane, s, latency)
           x == [c EXCEPT !.position = signal, !.trades = @ + 1]
<1>1. /\ t.pc = "open" /\ CanEnter(s)
      /\ TaskOK(booked, entered, Net(receipts), lane, row, t)
  BY Start DEF EnterBar, Reaches
<1>2. s \in Sessions
  BY <1>1, OpenTasks
<1>3. /\ c \in Sessions /\ Frame(s, c) /\ c.pnl = s.pnl /\ c.trades = s.trades
      /\ c.position = s.position /\ c.halted = s.halted
  BY <1>2, CountedIsOK
<1>4. /\ Propose(w, x, clock, "ENTER", 0, 1)
      /\ UNCHANGED <<lane, clock, row, receipts, booked, entered>>
  BY DEF EnterBar
<1> HIDE DEF c
<1>5. /\ x \in Sessions /\ Frame(s, x) /\ x.pnl = s.pnl
      /\ x.trades = s.trades + 1 /\ x.position = signal /\ x.halted = s.halted
  <2>1. c.trades + 1 \in Nat
    BY <1>3 DEF Sessions
  <2>2. x = [c EXCEPT !.position = signal, !.trades = c.trades + 1]
    BY <1>3 DEF Sessions
  <2> HIDE DEF x
  <2>3. x \in Sessions
    BY <1>3, <2>1, <2>2 DEF Sessions
  <2> QED BY <1>3, <2>2, <2>3 DEF Frame, Sessions
<1> HIDE DEF x
<1>6. signal # None
  BY NoneAssumption
<1>7. TaskOK(booked, entered, Net(receipts), lane, row,
             Commits(t.now, x, clock, "ENTER", 0, 1))
  BY <1>1, <1>5, <1>6, Start, EnterIsOK
<1>8. "ENTER" \in Actions /\ clock \in Bars
  BY Start DEF Actions
<1> QED BY <1>4, <1>5, <1>7, <1>8, ProposeStep

LEMMA ExitStep ==
  ASSUME Inv, NEW w \in Workers, NEW signal, NEW move \in Moves, NEW latency,
         NEW clean, ExitBar(w, signal, move, latency, clean)
  PROVE  Inv'
<1> DEFINE t == task[w]
           s == t.session
           c == Counted(lane, s, latency)
           x == [c EXCEPT !.pnl = @ + move - Slippage, !.position = None]
           g == move - Slippage
<1>1. /\ t.pc = "open" /\ s.position # None
      /\ TaskOK(booked, entered, Net(receipts), lane, row, t)
  BY Start DEF ExitBar, Reaches, Exits
<1>2. lane = "sol"
  BY <1>1 DEF Inv, TypeOK, ExitBar, Reaches, Passes, GuardPasses
<1>3. s \in Sessions
  BY <1>1, OpenTasks
<1>4. /\ c \in Sessions /\ Frame(s, c) /\ c.pnl = s.pnl /\ c.trades = s.trades
      /\ c.position = s.position /\ c.halted = s.halted
  BY <1>3, CountedIsOK
<1>5. /\ Propose(w, x, clock, "EXIT", g, 0)
      /\ UNCHANGED <<lane, clock, row, receipts, booked, entered>>
  BY DEF ExitBar
<1> HIDE DEF c
<1>6. move \in Int /\ Slippage \in Int /\ g \in Int
  BY RuleAssumption
<1>7. /\ x \in Sessions /\ Frame(s, x) /\ x.pnl = s.pnl + g
      /\ x.trades = s.trades /\ x.position = None /\ x.halted = s.halted
  <2>1. s.pnl \in Int /\ c.pnl + g \in Int /\ c.pnl + move - Slippage = s.pnl + g
    BY <1>3, <1>4, <1>6 DEF Sessions
  <2>2. x = [c EXCEPT !.pnl = s.pnl + g, !.position = None]
    BY <1>4, <2>1 DEF Sessions
  <2> HIDE DEF x, g
  <2>3. x \in Sessions
    BY <1>4, <2>1, <2>2 DEF Sessions
  <2> QED BY <1>4, <2>2, <2>3 DEF Frame, Sessions
<1> HIDE DEF x, g
<1>8. TaskOK(booked, entered, Net(receipts), "sol", row,
             Commits(t.now, x, clock, "EXIT", g, 0))
  BY <1>1, <1>2, <1>6, <1>7, Start, ExitIsOK
<1>9. "EXIT" \in Actions /\ clock \in Bars
  BY Start DEF Actions
<1> QED BY <1>2, <1>5, <1>6, <1>7, <1>8, <1>9, ProposeStep

LEMMA CommitStep == ASSUME Inv, NEW w \in Workers, Commit(w) PROVE Inv'
<1> DEFINE t == task[w]
           s == t.session
           n == Net(receipts)
<1>1. /\ t.pc = "commit" /\ Matches(row, s) /\ receipts[t.bar] = None
      /\ row' = [s EXCEPT !.version = @ + 1]
      /\ receipts' = [receipts EXCEPT ![t.bar] = t.action]
      /\ booked' = [booked EXCEPT ![s.day] = @ + t.gain]
      /\ entered' = [entered EXCEPT ![Monday(s.week)] = @ + t.entries]
      /\ Become(w, Idle) /\ lane' = lane /\ clock' = clock
  BY DEF Commit, VersionMatches, BarIsNew, Matches
<1>2. /\ TaskOK(booked, entered, n, lane, row, t) /\ t \in Tasks
      /\ booked \in [Days -> Int] /\ entered \in [Days -> Nat]
      /\ receipts \in Receipts /\ n \in Int
      /\ RowOK(booked, entered, n, lane, row)
  BY Start
<1>3. /\ s \in Sessions /\ s.version >= 1
      /\ IF row = None THEN s.version = 1 ELSE s.version <= row.version
      /\ Agrees(booked, entered, n, s, t.action, t.gain, t.entries)
      /\ Sound(lane, s) /\ t.action \in Actions
  BY <1>1, <1>2 DEF TaskOK
<1>4. /\ t.bar \in Bars \cup {NoBar} /\ t.gain \in Int /\ t.entries \in {0, 1}
  BY <1>2 DEF Tasks
<1>5. Net(receipts') = n + Delta(t.action)
  BY <1>1, <1>2, <1>3, <1>4, NetOfAReceipt
<1>6. row' \in Sessions /\ row'.version = s.version + 1 /\ row' # None
      /\ row'.pnl = s.pnl /\ row'.losing = s.losing /\ row'.trades = s.trades
      /\ row'.halted = s.halted
  BY <1>1, <1>3, NoSessionAssumption DEF Sessions
<1>7. Agrees(booked', entered', Net(receipts'), row', None, 0, 0)
  <2>1. Agrees([booked EXCEPT ![s.day] = @ + t.gain],
               [entered EXCEPT ![Monday(s.week)] = @ + t.entries],
               n + Delta(t.action), [s EXCEPT !.version = @ + 1], None, 0, 0)
    BY <1>2, <1>3, <1>4, CommitAgrees, Zenon
  <2> HIDE DEF t, s, n
  <2> QED BY <1>1, <1>5, <2>1, Zenon
<1>8. Sound(lane', row')
  BY <1>1, <1>3, <1>6 DEF Sound
<1>9. RowOK(booked', entered', Net(receipts'), lane', row')
  BY <1>3, <1>6, <1>7, <1>8 DEF RowOK, Sessions
<1>10. /\ task' \in [Workers -> Tasks]
       /\ \A v \in Workers : task'[v] = IF v = w THEN Idle ELSE task[v]
  BY <1>1, IdleIsATask DEF Inv, TypeOK, Become
<1>11. ASSUME NEW v \in Workers
       PROVE  TaskOK(booked', entered', Net(receipts'), lane', row', task'[v])
  <2>1. CASE v = w
    BY <1>10, <2>1 DEF TaskOK, Idle
  <2>2. CASE v # w
    <3> DEFINE u == task[v]
    <3>1. task'[v] = u /\ TaskOK(booked, entered, n, lane, row, u)
      BY <1>10, <2>2, Start
    <3>2. CASE u.pc \in {"open", "commit"}
      <4>1. u.session \in Sessions /\ u.session.version <= s.version
        BY <1>1, <1>3, <3>1, <3>2 DEF TaskOK, Matches
      <4>2. u.session.version < row'.version
        BY <1>3, <1>6, <4>1 DEF Sessions
      <4>3. ~Matches(row', u.session)
        BY <1>6, <4>1, <4>2 DEF Matches, Sessions
      <4> QED BY <1>6, <3>1, <4>1, <4>2, <4>3 DEF TaskOK, Sessions
    <3>3. CASE u.pc \notin {"open", "commit"}
      BY <3>1, <3>3 DEF TaskOK
    <3> QED BY <3>2, <3>3
  <2> QED BY <2>1, <2>2
<1>12. s.day \in Days /\ Monday(s.week) \in Days
  BY <1>3, MondayIsADay DEF Sessions
<1>13. booked' \in [Days -> Int] /\ entered' \in [Days -> Nat]
       /\ receipts' \in Receipts
  BY <1>1, <1>2, <1>3, <1>4, <1>12 DEF Receipts
<1>14. \A d \in Days : entered'[d] <= WeeklyCap
  <2>1. s.trades = entered[Monday(s.week)] + t.entries /\ s.trades <= WeeklyCap
    BY <1>3 DEF Agrees, Sound
  <2> QED BY <1>1, <1>2, <1>12, <2>1 DEF Inv
<1>15. \A v \in Workers : /\ task'[v].pc = "open" => task'[v].session # None
                          /\ task'[v].pc = "commit" => /\ task'[v].session # None
                                                       /\ task'[v].action # None
  BY <1>11, NoSessionAssumption DEF TaskOK
<1>16. TypeOK'
  BY <1>1, <1>6, <1>10, <1>13, <1>15 DEF Inv, TypeOK, Receipts
<1> QED BY <1>9, <1>11, <1>14, <1>16 DEF Inv

LEMMA RecordErrorStep == ASSUME Inv, NEW w \in Workers, RecordError(w) PROVE Inv'
<1> DEFINE bar == task[w].bar
<1>1. /\ receipts' = IF receipts[bar] = None
                     THEN [receipts EXCEPT ![bar] = "NO_TRADE"] ELSE receipts
      /\ Become(w, Idle) /\ UNCHANGED <<lane, clock, row, booked, entered>>
  BY DEF RecordError
<1>2. /\ bar \in Bars \cup {NoBar} /\ receipts \in Receipts
      /\ Net(receipts) \in Int
  BY Start DEF Tasks
<1>3. "NO_TRADE" \in Actions /\ Delta("NO_TRADE") = 0
  BY DEF Actions, Delta
<1>4. receipts' \in Receipts
  BY <1>1, <1>2, <1>3 DEF Receipts
<1>5. Net(receipts') = Net(receipts)
  <2>1. CASE receipts[bar] = None
    <3>1. Net([receipts EXCEPT ![bar] = "NO_TRADE"])
            = Net(receipts) + Delta("NO_TRADE")
      BY <1>2, <1>3, <2>1, NetOfAReceipt
    <3> QED BY <1>1, <1>2, <1>3, <2>1, <3>1
  <2>2. CASE receipts[bar] # None
    BY <1>1, <2>2
  <2> QED BY <2>1, <2>2
<1>6. /\ task' \in [Workers -> Tasks]
      /\ \A v \in Workers : task'[v] = IF v = w THEN Idle ELSE task[v]
  BY <1>1, IdleIsATask DEF Inv, TypeOK, Become
<1>7. \A v \in Workers :
        TaskOK(booked', entered', Net(receipts'), lane', row', task'[v])
  BY <1>1, <1>5, <1>6 DEF Inv, TaskOK, Idle
<1>8. TypeOK'
  BY <1>1, <1>4, <1>6, <1>7, NoSessionAssumption DEF Inv, TypeOK, TaskOK, Receipts
<1>9. RowOK(booked', entered', Net(receipts'), lane', row')
  BY <1>1, <1>5 DEF Inv
<1> QED BY <1>1, <1>7, <1>8, <1>9 DEF Inv

(* Only the clock moves.                                                   *)
LEMMA StillStep ==
  ASSUME Inv, TypeOK', UNCHANGED <<lane, row, receipts, task, booked, entered>>
  PROVE  Inv'
<1>1. Net(receipts)' = Net(receipts)
  BY DEF Net, With
<1>2. \A day : Losing(booked, day)' = Losing(booked, day)
  BY DEF Losing
<1>3. RowOK(booked, entered, Net(receipts), lane, row)'
  BY <1>1, <1>2 DEF Inv, RowOK, Agrees, Sound
<1>4. ASSUME NEW w \in Workers
      PROVE  TaskOK(booked, entered, Net(receipts), lane, row, task[w])'
  BY <1>1, <1>2 DEF Inv, TaskOK, Agrees, Sound, Matches, Held
<1> QED BY <1>3, <1>4 DEF Inv

LEMMA TickStep == ASSUME Inv, Tick PROVE Inv'
<1>1. clock' \in Bars
  BY TimeAssumption DEF Inv, TypeOK, Tick, Bars
<1>2. UNCHANGED <<lane, row, receipts, task, booked, entered>>
  BY DEF Tick
<1>3. TypeOK'
  BY <1>1, <1>2 DEF Inv, TypeOK
<1> QED BY <1>2, <1>3, StillStep

LEMMA StutterStep == ASSUME Inv, UNCHANGED vars PROVE Inv'
<1>1. UNCHANGED <<lane, clock, row, receipts, task, booked, entered>>
  BY DEF vars
<1>2. TypeOK'
  BY <1>1 DEF Inv, TypeOK
<1> QED BY <1>1, <1>2, StillStep

--------------------------------------------------------------------------------
LEMMA InitInv == Init => Inv
<1> SUFFICES ASSUME Init PROVE Inv
  OBVIOUS
<1>1. 0 \in Nat /\ WeeklyCap \in Nat
  BY RuleAssumption
<1>2. TypeOK
  BY IdleIsATask, TimeAssumption DEF Init, TypeOK, Idle, Bars
<1>3. \A a \in Actions : With(receipts, a) = {}
  BY NoSessionAssumption DEF Init, With
<1>4. Net(receipts) = 0
  <2>1. With(receipts, "ENTER") = {} /\ With(receipts, "EXIT") = {}
    BY <1>3 DEF Actions
  <2> QED BY <2>1, FS_EmptySet DEF Net
<1>5. RowOK(booked, entered, Net(receipts), lane, row)
  BY <1>4 DEF Init, RowOK
<1>6. \A w \in Workers :
        TaskOK(booked, entered, Net(receipts), lane, row, task[w])
  BY DEF Init, TaskOK, Idle
<1>7. \A d \in Days : entered[d] <= WeeklyCap
  BY <1>1 DEF Init
<1> QED BY <1>2, <1>5, <1>6, <1>7 DEF Inv

LEMMA NextInv == Inv /\ [Next]_vars => Inv'
<1> SUFFICES ASSUME Inv, [Next]_vars PROVE Inv'
  OBVIOUS
<1>1. ASSUME NEW w \in Workers, Load(w) PROVE Inv'
  BY <1>1, LoadStep
<1>2. ASSUME NEW w \in Workers, Create(w) PROVE Inv'
  BY <1>2, CreateStep
<1>3. ASSUME NEW w \in Workers, Raise(w) PROVE Inv'
  <2>1. NoBar \in Bars \cup {NoBar}
    OBVIOUS
  <2> QED BY <1>3, <2>1, FailStep DEF Raise
<1>4. ASSUME NEW w \in Workers, NoData(w) PROVE Inv'
  BY <1>4, NoDataStep
<1>5. ASSUME NEW w \in Workers, Decide(w) PROVE Inv'
  <2>1. PICK latency \in Latencies, clean \in BOOLEAN :
          \/ NoSignal(w, latency)
          \/ GuardSkip(w, latency, clean)
          \/ \E signal \in Signals :
              \/ EnterBar(w, signal, latency, clean)
              \/ \E move \in Moves : \/ ExitBar(w, signal, move, latency, clean)
                                     \/ BlockedBar(w, signal, move, latency, clean)
    BY <1>5 DEF Decide
  <2> QED BY <2>1, NoSignalStep, GuardSkipStep, EnterStep, ExitStep, BlockedStep
<1>6. ASSUME NEW w \in Workers, Conflict(w) PROVE Inv'
  <2>1. task[w].bar \in Bars \cup {NoBar}
    BY Start DEF Tasks
  <2> QED BY <1>6, <2>1, FailStep DEF Conflict
<1>7. ASSUME NEW w \in Workers, DuplicateBar(w) \/ Lose(w) PROVE Inv'
  BY <1>7, IdleIsATask, EndStep DEF DuplicateBar, Lose, Idle
<1>8. ASSUME NEW w \in Workers, Commit(w) PROVE Inv'
  BY <1>8, CommitStep
<1>9. ASSUME NEW w \in Workers, RecordError(w) PROVE Inv'
  BY <1>9, RecordErrorStep
<1>10. CASE Tick
  BY <1>10, TickStep
<1>11. CASE UNCHANGED vars
  BY <1>11, StutterStep
<1> QED BY <1>1, <1>2, <1>3, <1>4, <1>5, <1>6, <1>7, <1>8, <1>9, <1>10, <1>11 DEF Next

LEMMA Invariance == Spec => []Inv
  BY InitInv, NextInv, PTL DEF Spec

--------------------------------------------------------------------------------
(* What the invariant says of the committed state.                         *)

LEMMA HistoryOfReceipts ==
  ASSUME Inv
  PROVE  \A a : BarsWith(a) = With(receipts, a)
  BY DEF Inv, TypeOK, BarsWith, With

LEMMA LosingHistory == \A day : LosingDays(day) = Losing(booked, day)
  BY DEF LosingDays, Losing

LEMMA InvImplies ==
  ASSUME Inv
  PROVE  Books /\ LosingRunIsCounted /\ WeeklyCapHolds /\ ReceiptsMatchTrades
<1>1. Net(receipts) \in Int /\ Delta(None) = 0
  BY NetIsAnInteger, NoSessionAssumption DEF Delta, Actions
<1>2. row # None => /\ Agrees(booked, entered, Net(receipts), row, None, 0, 0)
                    /\ row \in Sessions
  BY DEF Inv, RowOK, TypeOK
<1>3. row # None => /\ row.day \in Days /\ booked[row.day] \in Int
                    /\ Monday(row.week) \in Days /\ entered[Monday(row.week)] \in Nat
  BY <1>2, MondayIsADay DEF Inv, TypeOK, Sessions
<1>4. Books
  BY <1>2, <1>3 DEF Books, Agrees
<1>5. LosingRunIsCounted
  BY <1>2, LosingHistory DEF LosingRunIsCounted, Agrees
<1>6. WeeklyCapHolds
  BY DEF Inv, WeeklyCapHolds
<1>7. Net(receipts) = Cardinality(BarsWith("ENTER")) - Cardinality(BarsWith("EXIT"))
  BY HistoryOfReceipts DEF Net
<1>8. ReceiptsMatchTrades
  <2>1. CASE row = None
    BY <1>7, <2>1 DEF Inv, RowOK, ReceiptsMatchTrades
  <2>2. CASE row # None
    BY <1>1, <1>2, <1>7, <2>2 DEF Agrees, Taken, ReceiptsMatchTrades
  <2> QED BY <2>1, <2>2
<1> QED BY <1>4, <1>5, <1>6, <1>8

(* What a commit that matches the row adds, seen from the state before it. *)
LEMMA CommitsOnly ==
  ASSUME Inv, [Next]_vars
  PROVE  \/ UNCHANGED <<booked, entered>> /\ row' = row
         \/ \E w \in Workers : Commit(w)
<1>1. CASE Tick \/ UNCHANGED vars
  BY <1>1 DEF Tick, vars
<1>2. ASSUME NEW w \in Workers,
             \/ Load(w) \/ Create(w) \/ Raise(w) \/ NoData(w)
             \/ Conflict(w) \/ DuplicateBar(w) \/ RecordError(w) \/ Lose(w)
      PROVE  UNCHANGED <<booked, entered>> /\ row' = row
  BY <1>2 DEF Load, Create, Raise, NoData, Conflict, DuplicateBar, RecordError, Lose
<1>3. ASSUME NEW w \in Workers, Decide(w)
      PROVE  UNCHANGED <<booked, entered>> /\ row' = row
  BY <1>3 DEF Decide, NoSignal, GuardSkip, EnterBar, ExitBar, BlockedBar
<1> QED BY <1>1, <1>2, <1>3 DEF Next

LEMMA CommitFacts ==
  ASSUME Inv, NEW w \in Workers, Commit(w)
  PROVE  LET t == task[w]
             s == t.session
         IN  /\ s \in Sessions /\ t.gain \in Int /\ t.entries \in {0, 1}
             /\ s.day \in Days /\ Monday(s.week) \in Days
             /\ row' = [s EXCEPT !.version = @ + 1]
             /\ row'.day = s.day /\ row'.halted = s.halted /\ row' # None
             /\ booked' = [booked EXCEPT ![s.day] = @ + t.gain]
             /\ entered' = [entered EXCEPT ![Monday(s.week)] = @ + t.entries]
             /\ Agrees(booked, entered, Net(receipts), s, t.action, t.gain, t.entries)
             /\ Held(row, t)
             /\ t.entries # 0 => /\ t.gain = 0 /\ s.pnl > -DailyLimit
                                 /\ s.losing < LosingLimit
<1> DEFINE t == task[w]
           s == t.session
<1>1. /\ t.pc = "commit" /\ Matches(row, s) /\ row' = [s EXCEPT !.version = @ + 1]
      /\ booked' = [booked EXCEPT ![s.day] = @ + t.gain]
      /\ entered' = [entered EXCEPT ![Monday(s.week)] = @ + t.entries]
  BY DEF Commit, VersionMatches, Matches
<1>2. /\ s \in Sessions /\ Held(row, t)
      /\ Agrees(booked, entered, Net(receipts), s, t.action, t.gain, t.entries)
      /\ t.entries # 0 => /\ t.gain = 0 /\ s.pnl > -DailyLimit
                          /\ s.losing < LosingLimit
  BY <1>1, Start DEF TaskOK
<1>3. t.gain \in Int /\ t.entries \in {0, 1}
  BY Start DEF Tasks
<1>4. row' \in Sessions /\ row'.day = s.day /\ row'.halted = s.halted
  BY <1>1, <1>2 DEF Sessions
<1>5. s.day \in Days /\ Monday(s.week) \in Days /\ row' # None
  BY <1>2, <1>4, MondayIsADay, NoSessionAssumption DEF Sessions
<1> HIDE DEF t, s
<1>6. /\ s \in Sessions /\ t.gain \in Int /\ t.entries \in {0, 1}
      /\ s.day \in Days /\ Monday(s.week) \in Days
      /\ row' = [s EXCEPT !.version = @ + 1]
      /\ row'.day = s.day /\ row'.halted = s.halted /\ row' # None
      /\ booked' = [booked EXCEPT ![s.day] = @ + t.gain]
      /\ entered' = [entered EXCEPT ![Monday(s.week)] = @ + t.entries]
      /\ Agrees(booked, entered, Net(receipts), s, t.action, t.gain, t.entries)
      /\ Held(row, t)
      /\ t.entries # 0 => /\ t.gain = 0 /\ s.pnl > -DailyLimit
                          /\ s.losing < LosingLimit
  BY <1>1, <1>2, <1>3, <1>4, <1>5
<1> QED BY <1>6, Zenon DEF t, s

LEMMA LimitStep ==
  ASSUME Inv, [Next]_vars, entered' # entered
  PROVE  /\ booked[row'.day] > -DailyLimit
         /\ Cardinality(LosingDays(row'.day)) < LosingLimit
<1>1. PICK w \in Workers : Commit(w)
  BY CommitsOnly
<1> DEFINE t == task[w]
           s == t.session
<1>2. /\ t.entries \in {0, 1} /\ s \in Sessions /\ s.day \in Days /\ row'.day = s.day
      /\ entered' = [entered EXCEPT ![Monday(s.week)] = @ + t.entries]
      /\ Monday(s.week) \in Days
      /\ Agrees(booked, entered, Net(receipts), s, t.action, t.gain, t.entries)
      /\ t.entries # 0 => /\ t.gain = 0 /\ s.pnl > -DailyLimit
                          /\ s.losing < LosingLimit
  BY <1>1, CommitFacts, Zenon
<1>3. entered \in [Days -> Nat] /\ booked \in [Days -> Int]
  BY DEF Inv, TypeOK
<1> HIDE DEF t, s
<1>4. t.entries # 0
  BY <1>2, <1>3
<1>5. s.pnl = booked[s.day] /\ s.losing = Cardinality(LosingDays(s.day))
  BY <1>2, <1>3, <1>4, LosingHistory DEF Agrees
<1> QED BY <1>2, <1>4, <1>5

LEMMA HaltStep ==
  ASSUME Inv, [Next]_vars, row # None, row.halted \in {"K3", "latency"}
  PROVE  /\ row' # None /\ row'.halted = row.halted
         /\ booked' = booked /\ entered' = entered
<1>1. CASE UNCHANGED <<booked, entered>> /\ row' = row
  BY <1>1
<1>2. ASSUME NEW w \in Workers, Commit(w)
      PROVE  /\ row' # None /\ row'.halted = row.halted
             /\ booked' = booked /\ entered' = entered
  <2> DEFINE t == task[w]
             s == t.session
  <2>1. /\ s.day \in Days /\ Monday(s.week) \in Days
        /\ row'.halted = s.halted /\ row' # None
        /\ booked' = [booked EXCEPT ![s.day] = @ + t.gain]
        /\ entered' = [entered EXCEPT ![Monday(s.week)] = @ + t.entries]
        /\ Held(row, t)
    BY <1>2, CommitFacts, Zenon
  <2>2. s.halted = row.halted /\ t.gain = 0 /\ t.entries = 0
    BY <2>1 DEF Held
  <2>3. entered \in [Days -> Nat] /\ booked \in [Days -> Int]
    BY DEF Inv, TypeOK
  <2> QED BY <2>1, <2>2, <2>3
<1> QED BY <1>1, <1>2, CommitsOnly

--------------------------------------------------------------------------------
(* Every reachable state is well typed.                                    *)
THEOREM TypeCorrect == Spec => []TypeOK
<1>1. Inv => TypeOK
  BY DEF Inv
<1> QED BY <1>1, Invariance, PTL

(* The committed row carries the day's result and the week's count that    *)
(* the committed trades add up to, for any number of overlapping tasks.    *)
THEOREM BooksBalance == Spec => []Books
<1>1. Inv => Books
  BY InvImplies
<1> QED BY <1>1, Invariance, PTL

(* The counter behind the third kill switch is the length of the losing    *)
(* run in the history.                                                     *)
THEOREM LosingRunIsRight == Spec => []LosingRunIsCounted
<1>1. Inv => LosingRunIsCounted
  BY InvImplies
<1> QED BY <1>1, Invariance, PTL

(* No calendar week has more entries than the cap.                         *)
THEOREM CapIsKept == Spec => []WeeklyCapHolds
<1>1. Inv => WeeklyCapHolds
  BY InvImplies
<1> QED BY <1>1, Invariance, PTL

(* Trades and their receipts come and stay together, one a bar.            *)
THEOREM ReceiptsMatch == Spec => []ReceiptsMatchTrades
<1>1. Inv => ReceiptsMatchTrades
  BY InvImplies
<1> QED BY <1>1, Invariance, PTL

(* No entry is committed on a day past its loss limit or after a losing    *)
(* run of the limit's length.                                              *)
THEOREM LimitsStopEntries == Spec => NoEntryPastALimit
<1>1. Inv /\ [Next]_vars =>
        [entered' # entered =>
            /\ booked[row'.day] > -DailyLimit
            /\ Cardinality(LosingDays(row'.day)) < LosingLimit]_vars
  BY LimitStep
<1> QED BY <1>1, Invariance, PTL DEF Spec, NoEntryPastALimit

(* No task lifts a halt for losing days or latency, or trades under one.   *)
THEOREM HaltsAreKept == Spec => HaltsStick
<1>1. Inv /\ [Next]_vars =>
        [row # None /\ row.halted \in {"K3", "latency"} =>
            /\ row' # None /\ row'.halted = row.halted
            /\ booked' = booked /\ entered' = entered]_vars
  BY HaltStep
<1> QED BY <1>1, Invariance, PTL DEF Spec, HaltsStick
=============================================================================
