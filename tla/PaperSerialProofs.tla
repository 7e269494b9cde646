--------------------------- MODULE PaperSerialProofs ---------------------------
(***************************************************************************)
(* Overlapping paper-trading tasks behave as SerialTrading: for any number *)
(* of workers, any rules and any horizon.                                  *)
(*                                                                         *)
(* The mapping leaves out the tasks.  A commit is mapped to a whole run of *)
(* the abstract task, so the invariant remembers for each task in flight   *)
(* that what it holds is what a run alone would have come to from the row, *)
(* for as long as the row is the one it read; a task the row has left      *)
(* behind says nothing, its commit will match no version.                  *)
(***************************************************************************)
EXTENDS PaperTradingProofs

(* The session a task started at now works on, if it read the row r.       *)
Base(r, now) == Refreshed(IF r = None THEN Fresh(DayOf(now)) ELSE r, DayOf(now))

(* The task t is about to store what is given.                             *)
Holds(t, x, bar, action, gain, entries) ==
    /\ t.session = x /\ t.bar = bar /\ t.action = action
    /\ t.gain = gain /\ t.entries = entries

(* What a task of lane l comes to from the session s, on a bar.            *)
Quietly(l, s, bar, t) ==
    \E latency \in Latencies : Holds(t, Counted(l, s, latency), bar, "NO_TRADE", 0, 0)
Refused(l, s, bar, timely, t) ==
    \E latency \in Latencies, clean \in BOOLEAN :
        /\ l = "btc" /\ ~GuardPasses(s, timely, latency, clean)
        /\ Holds(t, Pause(CountLatency(s, latency)), bar, "NO_TRADE", 0, 0)
Exited(l, s, bar, timely, t) ==
    \E latency \in Latencies, clean \in BOOLEAN, signal \in Signals, move \in Moves :
        /\ Passes(l, s, timely, latency, clean) /\ Exits(s, signal, move)
        /\ Holds(t, [Counted(l, s, latency) EXCEPT !.pnl = @ + move - Slippage,
                                                   !.position = None],
                 bar, "EXIT", move - Slippage, 0)
Entered(l, s, bar, timely, t) ==
    \E latency \in Latencies, clean \in BOOLEAN, signal \in Signals :
        /\ Passes(l, s, timely, latency, clean) /\ CanEnter(s)
        /\ Holds(t, [Counted(l, s, latency) EXCEPT !.position = signal, !.trades = @ + 1],
                 bar, "ENTER", 0, 1)
Decided(l, s, bar, timely, t) ==
    \/ Holds(t, s, NoBar, "NO_TRADE", 0, 0)
    \/ Quietly(l, s, bar, t) \/ Refused(l, s, bar, timely, t)
    \/ Exited(l, s, bar, timely, t) \/ Entered(l, s, bar, timely, t)
Alone(l, s, bar, timely, t) ==
    \/ /\ KillSwitch(s) # "no"
       /\ Holds(t, [s EXCEPT !.halted = KillSwitch(s)], NoBar, "NO_TRADE", 0, 0)
    \/ KillSwitch(s) = "no" /\ Decided(l, s, bar, timely, t)

(* A task in flight, between the clock c and the row r.                    *)
Placed(l, r, c, t) ==
    /\ t.pc # "idle" => t.now <= c /\ c <= t.now + 1
    /\ t.pc \in {"commit", "error"} => t.bar = NoBar \/ t.bar \in t.now .. c
    /\ t.pc = "error" => l = "sol"
    /\ t.pc = "open" /\ Matches(r, t.session) => t.session = Base(r, t.now)
    /\ t.pc = "commit" /\ Matches(r, t.session) =>
           \E bar \in t.now .. c : Alone(l, Base(r, t.now), bar, t.now = bar, t)

SerialInv == Inv /\ \A w \in Workers : Placed(lane, row, clock, task[w])

--------------------------------------------------------------------------------
(* The abstract module has the rules of this one.                          *)
LEMMA SameRules ==
  /\ Serial!Bars = Bars /\ Serial!NoBar = NoBar /\ Serial!Days = Days
  /\ Serial!Latencies = Latencies
  /\ \A day : Serial!Fresh(day) = Fresh(day) /\ Serial!Monday(day) = Monday(day)
  /\ \A bar : Serial!DayOf(bar) = DayOf(bar)
  /\ \A s, day : Serial!Refreshed(s, day) = Refreshed(s, day)
  /\ \A s : Serial!KillSwitch(s) = KillSwitch(s) /\ Serial!Pause(s) = Pause(s)
            /\ Serial!CanEnter(s) = CanEnter(s)
  /\ \A s, latency : Serial!CountLatency(s, latency) = CountLatency(s, latency)
  /\ \A l, s, latency : Serial!Counted(l, s, latency) = Counted(l, s, latency)
  /\ \A s, signal, move : Serial!Exits(s, signal, move) = Exits(s, signal, move)
  /\ \A s, timely, latency, clean :
        Serial!GuardPasses(s, timely, latency, clean) = GuardPasses(s, timely, latency, clean)
  /\ \A l, s, timely, latency, clean :
        Serial!Passes(l, s, timely, latency, clean) = Passes(l, s, timely, latency, clean)
<1>1. Serial!Bars = Bars /\ Serial!NoBar = NoBar /\ Serial!Days = Days
      /\ Serial!Latencies = Latencies
  BY DEF Serial!Bars, Bars, Serial!NoBar, NoBar, Serial!Days, Days,
         Serial!Latencies, Latencies
<1>2. \A day : Serial!Fresh(day) = Fresh(day) /\ Serial!Monday(day) = Monday(day)
  BY DEF Serial!Fresh, Fresh, Serial!Monday, Monday
<1>3. \A bar : Serial!DayOf(bar) = DayOf(bar)
  BY DEF Serial!DayOf, DayOf
<1>4. \A s, day : Serial!DailyReset(s, day) = DailyReset(s, day)
  BY DEF Serial!DailyReset, DailyReset
<1>5. \A s, day : Serial!WeeklyReset(s, day) = WeeklyReset(s, day)
  BY <1>2 DEF Serial!WeeklyReset, WeeklyReset
<1>6. \A s, day : Serial!Refreshed(s, day) = Refreshed(s, day)
  BY <1>4, <1>5 DEF Serial!Refreshed, Refreshed
<1>7. \A s : Serial!KillSwitch(s) = KillSwitch(s) /\ Serial!Pause(s) = Pause(s)
             /\ Serial!CanEnter(s) = CanEnter(s)
  BY DEF Serial!KillSwitch, KillSwitch, Serial!Pause, Pause, Serial!CanEnter, CanEnter
<1>8. \A s, latency : Serial!CountLatency(s, latency) = CountLatency(s, latency)
  BY DEF Serial!CountLatency, CountLatency
<1>9. \A l, s, latency : Serial!Counted(l, s, latency) = Counted(l, s, latency)
  BY <1>8 DEF Serial!Counted, Counted
<1>10. \A s, signal, move : Serial!Exits(s, signal, move) = Exits(s, signal, move)
  BY DEF Serial!Exits, Exits
<1>11. \A s, timely, latency, clean :
         Serial!GuardPasses(s, timely, latency, clean) = GuardPasses(s, timely, latency, clean)
  BY DEF Serial!GuardPasses, GuardPasses
<1>12. \A l, s, timely, latency, clean :
         Serial!Passes(l, s, timely, latency, clean) = Passes(l, s, timely, latency, clean)
  BY <1>11 DEF Serial!Passes, Passes
<1> QED BY <1>1, <1>2, <1>3, <1>6, <1>7, <1>8, <1>9, <1>10, <1>11, <1>12

--------------------------------------------------------------------------------
(* The steps of one task.                                                  *)

LEMMA PlaceStep ==
  ASSUME SerialInv, NEW w \in Workers, NEW t, Become(w, t),
         UNCHANGED <<lane, clock, row>>, Placed(lane, row, clock, t)
  PROVE  \A v \in Workers : Placed(lane', row', clock', task'[v])
<1>1. \A v \in Workers : task'[v] = IF v = w THEN t ELSE task[v]
  BY DEF SerialInv, Inv, TypeOK, Become
<1>2. lane' = lane /\ clock' = clock /\ row' = row
  OBVIOUS
<1> QED BY <1>1, <1>2 DEF SerialInv

LEMMA EndPlace ==
  ASSUME SerialInv, NEW w \in Workers, Become(w, Idle), UNCHANGED <<lane, clock, row>>
  PROVE  \A v \in Workers : Placed(lane', row', clock', task'[v])
<1>1. Placed(lane, row, clock, Idle)
  BY DEF Placed, Idle
<1> QED BY <1>1, PlaceStep

LEMMA FailPlace ==
  ASSUME SerialInv, NEW w \in Workers, task[w].pc # "idle", NEW bar,
         bar = NoBar \/ bar \in task[w].now .. clock,
         Fail(w, bar), UNCHANGED <<lane, clock, row>>
  PROVE  \A v \in Workers : Placed(lane', row', clock', task'[v])
<1>1. CASE lane = "sol"
  <2> DEFINE t == [Idle EXCEPT !.pc = "error", !.now = task[w].now, !.bar = bar]
  <2>1. t.pc = "error" /\ t.now = task[w].now /\ t.bar = bar
    BY DEF Idle
  <2>2. Become(w, t)
    BY <1>1 DEF Fail
  <2>3. task[w].now <= clock /\ clock <= task[w].now + 1
    BY DEF SerialInv, Placed
  <2> HIDE DEF t
  <2>4. Placed(lane, row, clock, t)
    BY <1>1, <2>1, <2>3 DEF Placed
  <2> QED BY <2>2, <2>4, PlaceStep
<1>2. CASE lane # "sol"
  <2>1. Become(w, Idle)
    BY <1>2 DEF Fail
  <2> QED BY <2>1, EndPlace
<1> QED BY <1>1, <1>2

(* A task just let in has done what it would have done alone.              *)
LEMMA AdmittedPlaced ==
  ASSUME NEW l, NEW r, NEW now \in Bars, NEW c \in Bars, now <= c, c <= now + 1,
         NEW s, s = IF r = None THEN Fresh(DayOf(now)) ELSE r
  PROVE  Placed(l, r, c, Admitted(s, now))
<1> DEFINE t == Admitted(s, now)
           x == Refreshed(s, DayOf(now))
           k == KillSwitch(x)
           h == [x EXCEPT !.halted = k]
<1>1. x = Base(r, now)
  BY DEF Base
<1>2. t = [Idle EXCEPT !.pc = IF k = "no" THEN "open" ELSE "commit",
                       !.now = now, !.session = IF k = "no" THEN x ELSE h,
                       !.action = IF k = "no" THEN None ELSE "NO_TRADE"]
  BY DEF Admitted
<1> HIDE DEF x, k, t
<1>3. t = [pc |-> IF k = "no" THEN "open" ELSE "commit", now |-> now,
           session |-> IF k = "no" THEN x ELSE h,
           action |-> IF k = "no" THEN None ELSE "NO_TRADE",
           bar |-> NoBar, gain |-> 0, entries |-> 0]
  <2> HIDE DEF h
  <2> QED BY <1>2 DEF Idle
<1>4. ASSUME k = "no" PROVE Placed(l, r, c, t)
  <2>1. t.pc = "open" /\ t.now = now /\ t.session = x
    BY <1>3, <1>4
  <2> QED BY <1>1, <2>1 DEF Placed
<1>5. ASSUME k # "no" PROVE Placed(l, r, c, t)
  <2>1. Holds(t, h, NoBar, "NO_TRADE", 0, 0)
    <3> HIDE DEF h
    <3> QED BY <1>3, <1>5 DEF Holds
  <2>2. Alone(l, x, now, t.now = now, t)
    BY <1>5, <2>1 DEF Alone, k
  <2>3. now \in now .. c
    BY TimeAssumption DEF Bars
  <2>4. t.now = now /\ t.pc = "commit" /\ t.bar = NoBar
    BY <1>3, <1>5
  <2> HIDE DEF h
  <2> QED BY <1>1, <2>2, <2>3, <2>4 DEF Placed
<1>6. Placed(l, r, c, t)
  BY <1>4, <1>5
<1> QED BY <1>6 DEF t

LEMMA LoadPlace ==
  ASSUME SerialInv, NEW w \in Workers, Load(w)
  PROVE  \A v \in Workers : Placed(lane', row', clock', task'[v])
<1>1. UNCHANGED <<lane, clock, row>> /\ clock \in Bars /\ clock <= clock /\ clock <= clock + 1
  BY TimeAssumption DEF Load, SerialInv, Inv, TypeOK, Bars
<1>2. CASE row = None
  <2> DEFINE t == [Idle EXCEPT !.pc = "create", !.now = clock]
  <2>1. t.pc = "create" /\ t.now = clock
    BY DEF Idle
  <2>2. Become(w, t)
    BY <1>2 DEF Load
  <2> HIDE DEF t
  <2>3. Placed(lane, row, clock, t)
    BY <1>1, <2>1 DEF Placed
  <2> QED BY <1>1, <2>2, <2>3, PlaceStep
<1>3. CASE row # None
  <2>1. Become(w, Admitted(row, clock))
    BY <1>3 DEF Load
  <2>2. Placed(lane, row, clock, Admitted(row, clock))
    BY <1>1, <1>3, AdmittedPlaced
  <2> QED BY <1>1, <2>1, <2>2, PlaceStep
<1> QED BY <1>2, <1>3

LEMMA CreatePlace ==
  ASSUME SerialInv, NEW w \in Workers, Create(w)
  PROVE  \A v \in Workers : Placed(lane', row', clock', task'[v])
<1>1. UNCHANGED <<lane, clock, row>> /\ task[w].pc # "idle"
  BY DEF Create
<1>2. /\ clock \in Bars /\ task[w].now \in Bars
      /\ task[w].now <= clock /\ clock <= task[w].now + 1
  BY <1>1, Start DEF SerialInv, Placed
<1>3. CASE row = None
  <2> DEFINE s == Fresh(DayOf(task[w].now))
             t == Admitted(s, task[w].now)
  <2>1. Become(w, t)
    BY <1>3 DEF Create
  <2>2. Placed(lane, row, clock, t)
    BY <1>2, <1>3, AdmittedPlaced
  <2> HIDE DEF t
  <2> QED BY <1>1, <2>1, <2>2, PlaceStep
<1>4. CASE row # None
  <2>1. Fail(w, NoBar)
    BY <1>4 DEF Create
  <2> QED BY <1>1, <2>1, FailPlace
<1> QED BY <1>3, <1>4

(* An open task still works on the session it would have found alone.      *)
LEMMA OpenPlaced ==
  ASSUME SerialInv, NEW w \in Workers, task[w].pc = "open"
  PROVE  /\ task[w].session \in Sessions
         /\ task[w].now \in Bars /\ clock \in Bars
         /\ task[w].now <= clock /\ clock <= task[w].now + 1
         /\ Matches(row, task[w].session) =>
                /\ task[w].session = Base(row, task[w].now)
                /\ KillSwitch(task[w].session) = "no"
<1>1. TaskOK(booked, entered, Net(receipts), lane, row, task[w])
      /\ task[w].now \in Bars /\ clock \in Bars
  BY Start DEF SerialInv
<1>2. Placed(lane, row, clock, task[w])
  BY DEF SerialInv
<1> QED BY <1>1, <1>2 DEF TaskOK, Placed

LEMMA DecidedPlace ==
  ASSUME SerialInv, NEW w \in Workers, task[w].pc = "open",
         NEW x, x.version = task[w].session.version,
         NEW bar \in {NoBar, clock}, NEW a, NEW g, NEW k,
         \A t : Holds(t, x, bar, a, g, k) =>
                   Decided(lane, task[w].session, clock, task[w].now = clock, t),
         Propose(w, x, bar, a, g, k), UNCHANGED <<lane, clock, row>>
  PROVE  \A v \in Workers : Placed(lane', row', clock', task'[v])
<1> DEFINE t == Proposed(w, x, bar, a, g, k)
           u == task[w]
<1>1. t.pc = "commit" /\ t.now = u.now /\ t.session = x /\ t.bar = bar
      /\ Holds(t, x, bar, a, g, k)
  BY DEF Proposed, Holds
<1>2. Become(w, t)
  BY DEF Propose
<1>3. /\ u.now \in Bars /\ clock \in Bars /\ u.now <= clock /\ clock <= u.now + 1
      /\ Matches(row, u.session) => /\ u.session = Base(row, u.now)
                                    /\ KillSwitch(u.session) = "no"
  BY OpenPlaced
<1>4. clock \in u.now .. clock
  BY <1>3, TimeAssumption DEF Bars
<1>5. Decided(lane, u.session, clock, u.now = clock, t)
  BY <1>1
<1> HIDE DEF t
<1>6. Matches(row, t.session) => Matches(row, u.session)
  BY <1>1 DEF Matches
<1>7. Matches(row, t.session) =>
          Alone(lane, Base(row, t.now), clock, t.now = clock, t)
  BY <1>1, <1>3, <1>5, <1>6 DEF Alone
<1>8. Placed(lane, row, clock, t)
  BY <1>1, <1>3, <1>4, <1>7 DEF Placed
<1> QED BY <1>2, <1>8, PlaceStep

(* Each decision is one of those a task alone may come to.                 *)
LEMMA NoDataPlace ==
  ASSUME SerialInv, NEW w \in Workers, NoData(w)
  PROVE  \A v \in Workers : Placed(lane', row', clock', task'[v])
<1>1. /\ task[w].pc = "open" /\ UNCHANGED <<lane, clock, row>>
      /\ Propose(w, task[w].session, NoBar, "NO_TRADE", 0, 0)
  BY DEF NoData
<1>2. \A t : Holds(t, task[w].session, NoBar, "NO_TRADE", 0, 0) =>
        Decided(lane, task[w].session, clock, task[w].now = clock, t)
  BY DEF Decided
<1> QED BY <1>1, <1>2, DecidedPlace

LEMMA QuietPlace ==
  ASSUME SerialInv, NEW w \in Workers, NEW latency \in Latencies, task[w].pc = "open",
         Propose(w, Counted(lane, task[w].session, latency), clock, "NO_TRADE", 0, 0),
         UNCHANGED <<lane, clock, row>>
  PROVE  \A v \in Workers : Placed(lane', row', clock', task'[v])
<1> DEFINE x == Counted(lane, task[w].session, latency)
<1>1. x.version = task[w].session.version
  BY OpenPlaced, CountedIsOK DEF Frame
<1>2. \A t : Holds(t, x, clock, "NO_TRADE", 0, 0) =>
        Decided(lane, task[w].session, clock, task[w].now = clock, t)
  BY DEF Decided, Quietly
<1> HIDE DEF x
<1>3. Propose(w, x, clock, "NO_TRADE", 0, 0)
  BY DEF x
<1> QED BY <1>1, <1>2, <1>3, DecidedPlace

LEMMA GuardSkipPlace ==
  ASSUME SerialInv, NEW w \in Workers, NEW latency \in Latencies, NEW clean \in BOOLEAN,
         GuardSkip(w, latency, clean)
  PROVE  \A v \in Workers : Placed(lane', row', clock', task'[v])
<1> DEFINE s == task[w].session
           c == CountLatency(s, latency)
           x == Pause(c)
<1>1. /\ task[w].pc = "open" /\ lane = "btc" /\ UNCHANGED <<lane, clock, row>>
      /\ ~GuardPasses(s, task[w].now = clock, latency, clean)
      /\ Propose(w, x, clock, "NO_TRADE", 0, 0)
  BY DEF GuardSkip, Timely
<1>2. c \in Sessions /\ c.version = s.version
  BY <1>1, OpenPlaced, LatencyCount DEF Frame
<1>3. \A t : Holds(t, x, clock, "NO_TRADE", 0, 0) =>
        Decided(lane, s, clock, task[w].now = clock, t)
  BY <1>1 DEF Decided, Refused
<1> HIDE DEF c
<1>4. x.version = s.version
  BY <1>2 DEF Pause, Sessions
<1> HIDE DEF x
<1> QED BY <1>1, <1>3, <1>4, DecidedPlace

LEMMA EnterPlace ==
  ASSUME SerialInv, NEW w \in Workers, NEW latency \in Latencies, NEW clean \in BOOLEAN,
         NEW signal \in Signals, EnterBar(w, signal, latency, clean)
  PROVE  \A v \in Workers : Placed(lane', row', clock', task'[v])
<1> DEFINE s == task[w].session
           c == Counted(lane, s, latency)
           x == [c EXCEPT !.position = signal, !.trades = @ + 1]
<1>1. /\ task[w].pc = "open" /\ UNCHANGED <<lane, clock, row>>
      /\ Passes(lane, s, task[w].now = clock, latency, clean) /\ CanEnter(s)
      /\ Propose(w, x, clock, "ENTER", 0, 1)
  BY DEF EnterBar, Reaches, Timely
<1>2. c \in Sessions /\ c.version = s.version
  BY <1>1, OpenPlaced, CountedIsOK DEF Frame
<1>3. \A t : Holds(t, x, clock, "ENTER", 0, 1) =>
        Decided(lane, s, clock, task[w].now = clock, t)
  BY <1>1 DEF Decided, Entered
<1> HIDE DEF c
<1>4. x.version = s.version
  BY <1>2 DEF Sessions
<1> HIDE DEF x
<1> QED BY <1>1, <1>3, <1>4, DecidedPlace

LEMMA ExitPlace ==
  ASSUME SerialInv, NEW w \in Workers, NEW latency \in Latencies, NEW clean \in BOOLEAN,
         NEW signal \in Signals, NEW move \in Moves,
         ExitBar(w, signal, move, latency, clean)
  PROVE  \A v \in Workers : Placed(lane', row', clock', task'[v])
<1> DEFINE s == task[w].session
           c == Counted(lane, s, latency)
           x == [c EXCEPT !.pnl = @ + move - Slippage, !.position = None]
           g == move - Slippage
<1>1. /\ task[w].pc = "open" /\ UNCHANGED <<lane, clock, row>>
      /\ Passes(lane, s, task[w].now = clock, latency, clean)
      /\ Exits(s, signal, move)
      /\ Propose(w, x, clock, "EXIT", g, 0)
  BY DEF ExitBar, Reaches, Timely
<1>2. c \in Sessions /\ c.version = s.version
  BY <1>1, OpenPlaced, CountedIsOK DEF Frame
<1>3. \A t : Holds(t, x, clock, "EXIT", g, 0) =>
        Decided(lane, s, clock, task[w].now = clock, t)
  BY <1>1 DEF Decided, Exited
<1> HIDE DEF c
<1>4. x.version = s.version
  BY <1>2 DEF Sessions
<1> HIDE DEF x, g
<1> QED BY <1>1, <1>3, <1>4, DecidedPlace

LEMMA DecidePlace ==
  ASSUME SerialInv, NEW w \in Workers, Decide(w)
  PROVE  \A v \in Workers : Placed(lane', row', clock', task'[v])
<1>1. PICK latency \in Latencies, clean \in BOOLEAN :
        \/ NoSignal(w, latency)
        \/ GuardSkip(w, latency, clean)
        \/ \E signal \in Signals :
            \/ EnterBar(w, signal, latency, clean)
            \/ \E move \in Moves : \/ ExitBar(w, signal, move, latency, clean)
                                   \/ BlockedBar(w, signal, move, latency, clean)
  BY DEF Decide
<1>2. CASE NoSignal(w, latency)
  BY <1>2, QuietPlace DEF NoSignal
<1>3. CASE GuardSkip(w, latency, clean)
  BY <1>3, GuardSkipPlace
<1>4. ASSUME NEW signal \in Signals, EnterBar(w, signal, latency, clean)
      PROVE  \A v \in Workers : Placed(lane', row', clock', task'[v])
  BY <1>4, EnterPlace
<1>5. ASSUME NEW signal \in Signals, NEW move \in Moves,
             ExitBar(w, signal, move, latency, clean)
      PROVE  \A v \in Workers : Placed(lane', row', clock', task'[v])
  BY <1>5, ExitPlace
<1>6. ASSUME NEW signal \in Signals, NEW move \in Moves,
             BlockedBar(w, signal, move, latency, clean)
      PROVE  \A v \in Workers : Placed(lane', row', clock', task'[v])
  BY <1>6, QuietPlace DEF BlockedBar, Reaches
<1> QED BY <1>1, <1>2, <1>3, <1>4, <1>5, <1>6

(* A commit leaves every other task in flight behind.                      *)
LEMMA CommitPlace ==
  ASSUME SerialInv, NEW w \in Workers, Commit(w)
  PROVE  \A v \in Workers : Placed(lane', row', clock', task'[v])
<1> DEFINE s == task[w].session
<1>1. /\ task[w].pc = "commit" /\ Matches(row, s) /\ Become(w, Idle)
      /\ row' = [s EXCEPT !.version = @ + 1] /\ UNCHANGED <<lane, clock>>
  BY DEF Commit, VersionMatches, Matches
<1>2. /\ s \in Sessions
      /\ IF row = None THEN s.version = 1 ELSE s.version = row.version
  BY <1>1, Start DEF SerialInv, TaskOK, Matches
<1>3. row' # None /\ row'.version = s.version + 1 /\ s.version \in Nat
  BY <1>1, <1>2, NoSessionAssumption DEF Sessions
<1>4. \A v \in Workers : task'[v] = IF v = w THEN Idle ELSE task[v]
  BY <1>1 DEF SerialInv, Inv, TypeOK, Become
<1> HIDE DEF s
<1>5. ASSUME NEW v \in Workers PROVE Placed(lane', row', clock', task'[v])
  <2>1. CASE v = w
    BY <1>4, <2>1 DEF Placed, Idle
  <2>2. CASE v # w
    <3> DEFINE u == task[v]
    <3>1. task'[v] = u /\ Placed(lane, row, clock, u)
          /\ TaskOK(booked, entered, Net(receipts), lane, row, u)
      BY <1>4, <2>2, Start DEF SerialInv
    <3> HIDE DEF u
    <3>2. ASSUME u.pc \in {"open", "commit"} PROVE ~Matches(row', u.session)
      <4>1. /\ u.session \in Sessions
            /\ IF row = None THEN u.session.version = 1
                             ELSE u.session.version <= row.version
        BY <3>1, <3>2 DEF TaskOK
      <4>2. u.session.version \in Nat /\ u.session.version <= s.version
        BY <1>2, <4>1 DEF Sessions
      <4>3. u.session.version # row'.version
        BY <1>3, <4>2
      <4> QED BY <1>3, <4>3 DEF Matches
    <3> QED BY <1>1, <3>1, <3>2 DEF Placed
  <2> QED BY <2>1, <2>2
<1> QED BY <1>5

LEMMA TickPlace ==
  ASSUME SerialInv, Tick
  PROVE  \A v \in Workers : Placed(lane', row', clock', task'[v])
<1>1. /\ clock' = clock + 1 /\ UNCHANGED <<lane, row, task>>
      /\ \A v \in Workers : task[v].pc # "idle" => task[v].now = clock
  BY DEF Tick
<1>2. clock \in Int
  BY TimeAssumption DEF SerialInv, Inv, TypeOK, Bars
<1> SUFFICES ASSUME NEW v \in Workers PROVE Placed(lane', row', clock', task'[v])
  OBVIOUS
<1> DEFINE u == task[v]
<1>3. Placed(lane, row, clock, u) /\ u.now \in Int
  BY Start, TimeAssumption DEF SerialInv, Bars
<1>4. task'[v] = u /\ (u.pc # "idle" => u.now = clock)
  BY <1>1
<1> HIDE DEF u
<1>5. u.pc # "idle" => u.now .. clock \subseteq u.now .. clock'
  BY <1>1, <1>2, <1>3, <1>4
<1> QED BY <1>1, <1>2, <1>3, <1>4, <1>5 DEF Placed

--------------------------------------------------------------------------------
(* The invariant.                                                          *)

LEMMA SerialInit == Init => SerialInv
<1> SUFFICES ASSUME Init PROVE SerialInv
  OBVIOUS
<1>1. Inv
  BY InitInv
<1>2. \A w \in Workers : Placed(lane, row, clock, task[w])
  BY DEF Init, Placed, Idle
<1> QED BY <1>1, <1>2 DEF SerialInv

LEMMA SerialNext == SerialInv /\ [Next]_vars => SerialInv'
<1> SUFFICES ASSUME SerialInv, [Next]_vars PROVE SerialInv'
  OBVIOUS
<1>0. Inv'
  BY NextInv DEF SerialInv
<1> DEFINE AllPlaced == \A v \in Workers : Placed(lane', row', clock', task'[v])
<1>1. ASSUME NEW w \in Workers, Load(w) PROVE AllPlaced
  BY <1>1, LoadPlace
<1>2. ASSUME NEW w \in Workers, Create(w) PROVE AllPlaced
  BY <1>2, CreatePlace
<1>3. ASSUME NEW w \in Workers, Raise(w) PROVE AllPlaced
  BY <1>3, FailPlace DEF Raise
<1>4. ASSUME NEW w \in Workers, NoData(w) PROVE AllPlaced
  BY <1>4, NoDataPlace
<1>5. ASSUME NEW w \in Workers, Decide(w) PROVE AllPlaced
  BY <1>5, DecidePlace
<1>6. ASSUME NEW w \in Workers, Conflict(w) PROVE AllPlaced
  <2>1. task[w].bar = NoBar \/ task[w].bar \in task[w].now .. clock
    BY <1>6 DEF Conflict, SerialInv, Placed
  <2> QED BY <1>6, <2>1, FailPlace DEF Conflict
<1>7. ASSUME NEW w \in Workers, DuplicateBar(w) \/ Lose(w) PROVE AllPlaced
  BY <1>7, EndPlace DEF DuplicateBar, Lose
<1>8. ASSUME NEW w \in Workers, Commit(w) PROVE AllPlaced
  BY <1>8, CommitPlace
<1>9. ASSUME NEW w \in Workers, RecordError(w) PROVE AllPlaced
  BY <1>9, EndPlace DEF RecordError
<1>10. CASE Tick
  BY <1>10, <1>0, TickPlace DEF SerialInv
<1>11. CASE UNCHANGED vars
  BY <1>11, <1>0 DEF vars, SerialInv
<1>12. ASSUME NEW w \in Workers,
              \/ Load(w) \/ Create(w) \/ Raise(w) \/ NoData(w) \/ Decide(w)
              \/ Conflict(w) \/ DuplicateBar(w) \/ Commit(w) \/ RecordError(w)
              \/ Lose(w)
       PROVE  AllPlaced
  BY <1>1, <1>2, <1>3, <1>4, <1>5, <1>6, <1>7, <1>8, <1>9, <1>12
<1> QED BY <1>0, <1>10, <1>11, <1>12 DEF Next, SerialInv

LEMMA SerialInvariance == Spec => []SerialInv
  BY SerialInit, SerialNext, PTL DEF Spec

--------------------------------------------------------------------------------
(* The refinement.                                                         *)

LEMMA InitRefines == Init => Serial!Init
  BY SameRules DEF Init, Serial!Init

(* The abstract store of what the task holds.                              *)
LEMMA StoreRefines ==
  ASSUME NEW t, NEW s, NEW bar, NEW a, NEW g, NEW k, Holds(t, s, bar, a, g, k),
         receipts[t.bar] = None,
         row' = [t.session EXCEPT !.version = @ + 1],
         receipts' = [receipts EXCEPT ![t.bar] = t.action],
         booked' = [booked EXCEPT ![t.session.day] = @ + t.gain],
         entered' = [entered EXCEPT ![Monday(t.session.week)] = @ + t.entries]
  PROVE  Serial!Store(s, bar, a, g, k)
  BY SameRules DEF Holds, Serial!Store

LEMMA CommitRefines ==
  ASSUME SerialInv, NEW w \in Workers, Commit(w)
  PROVE  Serial!Next
<1> DEFINE t == task[w]
           s == Base(row, t.now)
<1>1. /\ t.pc = "commit" /\ Matches(row, t.session) /\ receipts[t.bar] = None
      /\ row' = [t.session EXCEPT !.version = @ + 1]
      /\ receipts' = [receipts EXCEPT ![t.bar] = t.action]
      /\ booked' = [booked EXCEPT ![t.session.day] = @ + t.gain]
      /\ entered' = [entered EXCEPT ![Monday(t.session.week)] = @ + t.entries]
      /\ UNCHANGED <<lane, clock>>
  BY DEF Commit, VersionMatches, BarIsNew, Matches
<1>2. /\ t.now \in Bars /\ clock \in Bars /\ t.action \in Actions
      /\ t.bar \in DOMAIN receipts
  BY <1>1, Start DEF SerialInv, TaskOK, Tasks, Receipts
<1>3. t.now <= clock /\ clock <= t.now + 1
  BY <1>1 DEF SerialInv, Placed
<1>4. PICK bar \in t.now .. clock : Alone(lane, s, bar, t.now = bar, t)
  BY <1>1 DEF SerialInv, Placed
<1>5. \A x, b, a, g, k : Holds(t, x, b, a, g, k) => Serial!Store(x, b, a, g, k)
  <2> HIDE DEF t
  <2> QED BY <1>1, StoreRefines
<1>6. s = Serial!Session(t.now)
  BY SameRules DEF Base, Serial!Session
<1>7. t.now \in Serial!Recent /\ bar \in Serial!Recent /\ t.now <= bar
  BY <1>2, <1>3, <1>4, SameRules, TimeAssumption DEF Serial!Recent, Bars
<1>8. receipts' # receipts
  BY <1>1, <1>2, NoSessionAssumption
<1> DEFINE timely == t.now = bar
<1> HIDE DEF t, s, timely
<1>9. ASSUME KillSwitch(s) # "no",
             Holds(t, [s EXCEPT !.halted = KillSwitch(s)], NoBar, "NO_TRADE", 0, 0)
      PROVE  Serial!Halt(s)
  BY <1>5, <1>9, SameRules DEF Serial!Halt
<1>10. ASSUME Holds(t, s, NoBar, "NO_TRADE", 0, 0) PROVE Serial!NoData(s)
  BY <1>5, <1>10, SameRules DEF Serial!NoData
<1>11. ASSUME Quietly(lane, s, bar, t) PROVE Serial!Quiet(s, bar)
  BY <1>5, <1>11, SameRules DEF Quietly, Serial!Quiet
<1>12. ASSUME Refused(lane, s, bar, timely, t) PROVE Serial!Refuse(s, bar, timely)
  BY <1>5, <1>12, SameRules DEF Refused, Serial!Refuse
<1>13. ASSUME Exited(lane, s, bar, timely, t) PROVE Serial!Exit(s, bar, timely)
  <2>1. PICK latency \in Latencies, clean \in BOOLEAN, signal \in Signals, move \in Moves :
          /\ Passes(lane, s, timely, latency, clean) /\ Exits(s, signal, move)
          /\ Holds(t, [Counted(lane, s, latency) EXCEPT !.pnl = @ + move - Slippage,
                                                       !.position = None],
                   bar, "EXIT", move - Slippage, 0)
    BY <1>13 DEF Exited
  <2> DEFINE x == [Counted(lane, s, latency) EXCEPT !.pnl = @ + move - Slippage,
                                                    !.position = None]
             g == move - Slippage
  <2>2. Serial!Store(x, bar, "EXIT", g, 0)
    <3>1. Holds(t, x, bar, "EXIT", g, 0)
      BY <2>1
    <3> HIDE DEF x, g
    <3> QED BY <3>1, <1>5
  <2>3. /\ latency \in Serial!Latencies
        /\ Serial!Passes(lane, s, timely, latency, clean) /\ Serial!Exits(s, signal, move)
        /\ x = [Serial!Counted(lane, s, latency) EXCEPT !.pnl = @ + move - Slippage,
                                                        !.position = None]
    BY <2>1, SameRules, Zenon
  <2> QED BY <2>2, <2>3 DEF Serial!Exit
<1>14. ASSUME Entered(lane, s, bar, timely, t) PROVE Serial!Enter(s, bar, timely)
  BY <1>5, <1>14, SameRules DEF Entered, Serial!Enter
<1>15. Alone(lane, s, bar, timely, t)
  BY <1>4 DEF timely
<1>16. \/ Serial!Halt(s)
       \/ /\ KillSwitch(s) = "no"
          /\ \/ Serial!NoData(s) \/ Serial!Quiet(s, bar) \/ Serial!Refuse(s, bar, timely)
             \/ Serial!Exit(s, bar, timely) \/ Serial!Enter(s, bar, timely)
  BY <1>9, <1>10, <1>11, <1>12, <1>13, <1>14, <1>15 DEF Alone, Decided
<1>17. Serial!Run(t.now, bar)
  BY <1>1, <1>6, <1>16, SameRules DEF Serial!Run, timely
<1> QED BY <1>7, <1>8, <1>17 DEF Serial!Next

LEMMA RecordErrorRefines ==
  ASSUME SerialInv, NEW w \in Workers, RecordError(w)
  PROVE  Serial!Next \/ UNCHANGED Serial!vars
<1> DEFINE bar == task[w].bar
<1>1. /\ task[w].pc = "error"
      /\ receipts' = IF receipts[bar] = None
                     THEN [receipts EXCEPT ![bar] = "NO_TRADE"] ELSE receipts
      /\ UNCHANGED <<lane, clock, row, booked, entered>>
  BY DEF RecordError
<1>2. /\ task[w].now \in Bars /\ clock \in Bars /\ bar \in DOMAIN receipts
      /\ bar \in Bars \cup {NoBar}
  BY Start DEF SerialInv, Tasks, Receipts
<1>3. /\ task[w].now <= clock /\ clock <= task[w].now + 1 /\ lane = "sol"
      /\ bar = NoBar \/ bar \in task[w].now .. clock
  BY <1>1 DEF SerialInv, Placed
<1>4. bar \in Serial!Recent \cup {Serial!NoBar}
  BY <1>2, <1>3, SameRules, TimeAssumption DEF Serial!Recent, Bars
<1> HIDE DEF bar
<1>5. CASE receipts[bar] = None
  <2>1. Serial!Fault(bar)
    BY <1>1, <1>3, <1>5 DEF Serial!Fault
  <2>2. receipts' # receipts
    BY <1>1, <1>2, <1>5, NoSessionAssumption DEF Actions
  <2> QED BY <1>4, <2>1, <2>2 DEF Serial!Next
<1>6. CASE receipts[bar] # None
  BY <1>1, <1>6 DEF Serial!vars
<1> QED BY <1>5, <1>6

LEMMA StepRefines ==
  ASSUME SerialInv, [Next]_vars
  PROVE  [Serial!Next]_(Serial!vars)
<1>1. CASE UNCHANGED vars
  BY <1>1 DEF vars, Serial!vars
<1>2. CASE Tick
  BY <1>2 DEF Tick, Serial!Next, Serial!Tick
<1>3. ASSUME NEW w \in Workers,
             \/ Load(w) \/ Create(w) \/ Raise(w) \/ NoData(w)
             \/ Conflict(w) \/ DuplicateBar(w) \/ Lose(w)
      PROVE  UNCHANGED Serial!vars
  BY <1>3 DEF Load, Create, Raise, NoData, Conflict, DuplicateBar, Lose, Serial!vars
<1>4. ASSUME NEW w \in Workers, Decide(w) PROVE UNCHANGED Serial!vars
  BY <1>4 DEF Decide, NoSignal, GuardSkip, EnterBar, ExitBar, BlockedBar, Serial!vars
<1> QED BY <1>1, <1>2, <1>3, <1>4, CommitRefines, RecordErrorRefines DEF Next

(* However the hourly tasks overlap, are lost or run again, the row, the   *)
(* receipts and the books are those of tasks that run one after the other, *)
(* each in an instant.                                                     *)
THEOREM TasksAreSerial == Spec => CommitsAreSerial
<1>1. Spec => Serial!Init
  BY InitRefines DEF Spec
<1>2. SerialInv /\ [Next]_vars => [Serial!Next]_(Serial!vars)
  BY StepRefines
<1> QED BY <1>1, <1>2, SerialInvariance, PTL DEF Spec, CommitsAreSerial, Serial!Spec

--------------------------------------------------------------------------------
(* What follows for the BTC lane.                                          *)

(* The resets, the switches and the latency count leave the slot alone.    *)
LEMMA RulesKeepThePosition ==
  ASSUME NEW s \in Sessions, NEW day \in Days, NEW l, NEW latency
  PROVE  /\ Refreshed(s, day) \in Sessions
         /\ Refreshed(s, day).position = s.position
         /\ Counted(l, s, latency).position = s.position
         /\ Pause(CountLatency(s, latency)).position = s.position
<1>1. /\ DailyReset(s, day) \in Sessions
      /\ DailyReset(s, day).position = s.position
  BY ResetsAreTyped DEF DailyReset, Sessions
<1>2. \A x \in Sessions : /\ WeeklyReset(x, day) \in Sessions
                          /\ WeeklyReset(x, day).position = x.position
  BY ResetsAreTyped DEF WeeklyReset, Sessions
<1>3. Refreshed(s, day) \in Sessions /\ Refreshed(s, day).position = s.position
  BY <1>1, <1>2, Zenon DEF Refreshed
<1>4. Counted(l, s, latency).position = s.position
  BY CountedIsOK
<1>5. /\ CountLatency(s, latency) \in Sessions
      /\ CountLatency(s, latency).position = s.position
  BY LatencyCount
<1>6. \A x \in Sessions : Pause(x).position = x.position
  BY DEF Pause, Sessions
<1>7. Pause(CountLatency(s, latency)).position = s.position
  BY <1>5, <1>6
<1> QED BY <1>3, <1>4, <1>7

LEMMA BtcRunKeepsPosition ==
  ASSUME lane = "btc", row \in Sessions, row.position # None,
         NEW now \in Bars, NEW bar, Serial!Run(now, bar)
  PROVE  row' # None /\ row'.position = row.position
<1> DEFINE s == Refreshed(row, DayOf(now))
           timely == now = bar
<1>1. s = Serial!Session(now)
  BY NoSessionAssumption, SameRules DEF Serial!Session
<1>2. s \in Sessions /\ s.position = row.position
  BY DayIsADay, RulesKeepThePosition
<1>3. \/ Serial!Halt(s) \/ Serial!NoData(s) \/ Serial!Quiet(s, bar)
      \/ Serial!Refuse(s, bar, timely) \/ Serial!Exit(s, bar, timely)
      \/ Serial!Enter(s, bar, timely)
  BY <1>1 DEF Serial!Run
<1> HIDE DEF s, timely
<1>4. ~Serial!Exit(s, bar, timely) /\ ~Serial!Enter(s, bar, timely)
  BY <1>2, SameRules DEF Serial!Exit, Serial!Enter, Passes, GuardPasses
<1>5. \A x : x \in Sessions /\ x.position = s.position /\ row' = [x EXCEPT !.version = @ + 1]
        => row' # None /\ row'.position = row.position
  BY <1>2, NoSessionAssumption DEF Sessions
<1>6. ASSUME Serial!Halt(s) PROVE row' # None /\ row'.position = row.position
  <2> DEFINE x == [s EXCEPT !.halted = KillSwitch(s)]
  <2>1. row' = [x EXCEPT !.version = @ + 1]
    BY <1>6, SameRules DEF Serial!Halt, Serial!Store
  <2>2. x \in Sessions /\ x.position = s.position
    BY <1>2 DEF Sessions, KillSwitch, Halts
  <2> HIDE DEF x
  <2> QED BY <1>5, <2>1, <2>2
<1>7. ASSUME Serial!NoData(s) PROVE row' # None /\ row'.position = row.position
  BY <1>2, <1>5, <1>7 DEF Serial!NoData, Serial!Store
<1>8. ASSUME Serial!Quiet(s, bar) PROVE row' # None /\ row'.position = row.position
  <2>1. PICK latency \in Latencies : row' = [Counted(lane, s, latency) EXCEPT !.version = @ + 1]
    BY <1>8, SameRules DEF Serial!Quiet, Serial!Store
  <2> DEFINE x == Counted(lane, s, latency)
  <2>2. x \in Sessions /\ x.position = s.position
    BY <1>2, CountedIsOK
  <2> HIDE DEF x
  <2>3. row' = [x EXCEPT !.version = @ + 1]
    BY <2>1 DEF x
  <2> QED BY <1>5, <2>2, <2>3
<1>9. ASSUME Serial!Refuse(s, bar, timely)
      PROVE  row' # None /\ row'.position = row.position
  <2>1. PICK latency \in Latencies :
          row' = [Pause(CountLatency(s, latency)) EXCEPT !.version = @ + 1]
    BY <1>9, SameRules DEF Serial!Refuse, Serial!Store
  <2> DEFINE c == CountLatency(s, latency)
             x == Pause(c)
  <2>2. c \in Sessions /\ c.position = s.position
    BY <1>2, LatencyCount
  <2>3. x \in Sessions /\ x.position = s.position
    <3> HIDE DEF c
    <3> QED BY <2>2 DEF Pause, Sessions, Halts
  <2> HIDE DEF x
  <2>4. row' = [x EXCEPT !.version = @ + 1]
    BY <2>1 DEF x
  <2> QED BY <1>5, <2>3, <2>4
<1> QED BY <1>3, <1>4, <1>6, <1>7, <1>8, <1>9

(* The BTC lane keeps the first position it takes: on no bar, at no price  *)
(* and after no day's reset does a task close it, because a task trades    *)
(* only as it would alone and the guard of a signal wants the slot empty.  *)
THEOREM BtcNeverCloses ==
  Spec => [][lane = "btc" /\ row # None /\ row.position # None
               => row' # None /\ row'.position = row.position]_vars
<1>1. ASSUME SerialInv, [Next]_vars, lane = "btc", row # None, row.position # None
      PROVE  row' # None /\ row'.position = row.position
  <2>1. row \in Sessions
    BY <1>1 DEF SerialInv, Inv, TypeOK
  <2>2. CASE \E now, bar \in Serial!Recent : Serial!Run(now, bar)
    BY <1>1, <2>1, <2>2, BtcRunKeepsPosition, SameRules DEF Serial!Recent
  <2>3. CASE row' = row
    BY <1>1, <2>3
  <2> QED BY <1>1, <2>2, <2>3, StepRefines
          DEF Serial!Next, Serial!Fault, Serial!Tick, Serial!vars
<1>2. SerialInv /\ [Next]_vars =>
        [lane = "btc" /\ row # None /\ row.position # None
           => row' # None /\ row'.position = row.position]_vars
  BY <1>1
<1> QED BY <1>2, SerialInvariance, PTL DEF Spec
=============================================================================
