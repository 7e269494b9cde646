------------------------------- MODULE PaperRules -------------------------------
(***************************************************************************)
(* The pure rules of a paper-trading session                               *)
(* (paper_trading_session_cr046.py, btc_latency_guard.py): what a session  *)
(* is, how a day and a week reset it, and what it lets a bar do.  Time is  *)
(* a count of hourly bars; prices are the move, in basis points, from the  *)
(* price at which the open position was filled.                            *)
(***************************************************************************)
EXTENDS Integers

CONSTANTS
    Signals,        \* LONG and SHORT
    None,
    FirstBar, MaxBar,           \* the hours observed
    BarsPerDay, DaysPerWeek,
    Moves,          \* moves of the price since the fill
    StopLoss, TakeProfit, Slippage, DailyLimit,
    WeeklyCap, LosingLimit, LatencyLimit

ASSUME NoneAssumption == None \notin Signals
ASSUME TimeAssumption ==
    /\ FirstBar \in Nat \ {0} /\ MaxBar \in Nat /\ FirstBar <= MaxBar
    /\ BarsPerDay \in Nat \ {0} /\ DaysPerWeek \in Nat \ {0}
ASSUME RuleAssumption ==
    /\ Moves \subseteq Int
    /\ StopLoss \in Int /\ TakeProfit \in Int /\ Slippage \in Int
    /\ DailyLimit \in Nat \ {0}
    /\ WeeklyCap \in Nat \ {0} /\ LosingLimit \in Nat \ {0}
    /\ LatencyLimit \in Nat \ {0}

--------------------------------------------------------------------------------
Bars == FirstBar..MaxBar
NoBar == 0      \* PaperTradingReceipt.bar_ts until a signal or its absence is known

(* Day 0 is a Monday.                                                      *)
DayOf(bar) == bar \div BarsPerDay
Monday(day) == day - (day % DaysPerWeek)
Days == 0..MaxBar

Halts == {"no", "K1", "K3", "latency"}

(* BarAction, as far as it tells trades from bars without one.             *)
Actions == {"ENTER", "EXIT", "NO_TRADE"}

(* CR046PaperSession. day and week are the days of the last resets; the    *)
(* position is its direction; halted stands for is_halted and halt_reason. *)
Sessions == [pnl : Int, trades : Nat, losing : Nat, halted : Halts,
             position : Signals \cup {None}, latency : Nat,
             day : Days, week : Days, version : Nat]

ASSUME NoSessionAssumption == None \notin Sessions /\ None \notin Actions

--------------------------------------------------------------------------------
(* Rules (CR046PaperTradingManager, btc_latency_guard).                    *)

ResumingReset(s, day) ==   \* a slip: a new day lifts every halt
    IF day > s.day
    THEN [s EXCEPT !.losing = IF s.pnl < 0 THEN @ + 1
                              ELSE IF s.pnl > 0 THEN 0 ELSE @,
                   !.pnl = 0, !.day = day, !.halted = "no"]
    ELSE s

ForgivingReset(s, day) ==   \* a slip: a flat day ends the losing run too
    IF day > s.day
    THEN [s EXCEPT !.losing = IF s.pnl < 0 THEN @ + 1 ELSE 0,
                   !.pnl = 0, !.day = day,
                   !.halted = IF @ = "K1" THEN "no" ELSE @]
    ELSE s

EagerReset(s, day) ==   \* a slip: not only once a day
    IF day >= s.day
    THEN [s EXCEPT !.losing = IF s.pnl < 0 THEN @ + 1
                              ELSE IF s.pnl > 0 THEN 0 ELSE @,
                   !.pnl = 0, !.day = day,
                   !.halted = IF @ = "K1" THEN "no" ELSE @]
    ELSE s

DailyReset(s, day) ==
    IF day > s.day
    THEN [s EXCEPT !.losing = IF s.pnl < 0 THEN @ + 1
                              ELSE IF s.pnl > 0 THEN 0 ELSE @,
                   !.pnl = 0, !.day = day,
                   !.halted = IF @ = "K1" THEN "no" ELSE @]
    ELSE s

RollingReset(s, day) ==   \* a slip: reset on any day after the last reset
    IF day > s.week THEN [s EXCEPT !.trades = 0, !.week = day] ELSE s

WeeklyReset(s, day) ==
    IF Monday(day) > s.week
    THEN [s EXCEPT !.trades = 0, !.week = Monday(day)]
    ELSE s

(* The two resets, in the order of the task.                               *)
Refreshed(s, day) == WeeklyReset(DailyReset(s, day), day)

KillSwitch(s) ==
    IF s.pnl <= -DailyLimit THEN "K1"
    ELSE IF s.losing >= LosingLimit THEN "K3" ELSE "no"

CanEnter(s) ==
    /\ s.halted = "no"
    /\ s.pnl > -DailyLimit
    /\ s.trades < WeeklyCap
    /\ s.position = None

(* check_exit: by the move in the position's favour, or a reverse signal.  *)
Exits(s, signal, move) ==
    s.position # None /\ (move <= -StopLoss \/ move >= TakeProfit
                          \/ signal # s.position)

(* The guards on time, latency and spread (G1 to G4), then G5 to G7.  A    *)
(* bar that opened after the task read the clock is not timely: G1 fails.  *)
(* clean: within G1's 55 minutes, with API latency and spread in bounds.   *)
Latencies == {"fast", "slow", "high"}   \* up to 5 s, up to 10 s, more
GuardPasses(s, timely, latency, clean) ==
    /\ timely /\ latency = "fast" /\ clean
    /\ s.pnl > -DailyLimit
    /\ s.position = None
    /\ s.halted = "no"

DecayLatency(s, latency) ==   \* a slip: a quick bar takes one off
    [s EXCEPT !.latency = IF latency = "high" THEN @ + 1 ELSE @ - 1]

(* update_high_latency_counter, called by the BTC task only.               *)
CountLatency(s, latency) ==
    [s EXCEPT !.latency = IF latency = "high" THEN @ + 1 ELSE 0]

Pause(s) ==
    IF s.latency >= LatencyLimit /\ s.halted = "no"
    THEN [s EXCEPT !.halted = "latency"] ELSE s

(* A signal reaches the session's own rules.  A guard that passed found    *)
(* the latency low, so the counter restarts and no pause follows.          *)
Passes(l, s, timely, latency, clean) ==
    l = "btc" => GuardPasses(s, timely, latency, clean)
Counted(l, s, latency) == IF l = "btc" THEN CountLatency(s, latency) ELSE s

(* A session as the task creates it.                                       *)
Fresh(day) ==
    [pnl |-> 0, trades |-> 0, losing |-> 0, halted |-> "no", position |-> None,
     latency |-> 0, day |-> day, week |-> day, version |-> 1]
=============================================================================
