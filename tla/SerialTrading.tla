----------------------------- MODULE SerialTrading -----------------------------
(***************************************************************************)
(* What the paper-trading tasks promise together: whatever they do side by *)
(* side, the session row, the receipts and the books change as if one task *)
(* at a time had read the row, decided on a bar and stored its decision in *)
(* a single instant, no task later than the hour after it was started.     *)
(***************************************************************************)
EXTENDS PaperRules

VARIABLES lane, clock, row, receipts, booked, entered

vars == <<lane, clock, row, receipts, booked, entered>>

--------------------------------------------------------------------------------
Init ==
    /\ lane \in {"sol", "btc"}
    /\ clock = FirstBar
    /\ row = None
    /\ receipts = [b \in Bars \cup {NoBar} |-> None]
    /\ booked = [d \in Days |-> 0]
    /\ entered = [d \in Days |-> 0]

(* The first decision of a bar is stored: the session one version later,   *)
(* its receipt, and what the trade adds to the books.                      *)
Store(s, bar, action, gain, entries) ==
    /\ receipts[bar] = None
    /\ row' = [s EXCEPT !.version = @ + 1]
    /\ receipts' = [receipts EXCEPT ![bar] = action]
    /\ booked' = [booked EXCEPT ![s.day] = @ + gain]
    /\ entered' = [entered EXCEPT ![Monday(s.week)] = @ + entries]

(* The session as a task started at now finds it.                          *)
Session(now) == Refreshed(IF row = None THEN Fresh(DayOf(now)) ELSE row, DayOf(now))

(* A kill switch ends the task before it looks at a bar.                   *)
Halt(s) ==
    /\ KillSwitch(s) # "no"
    /\ Store([s EXCEPT !.halted = KillSwitch(s)], NoBar, "NO_TRADE", 0, 0)

(* The exchange has no bar to offer.                                       *)
NoData(s) == Store(s, NoBar, "NO_TRADE", 0, 0)

(* No signal, or one the session's rules block.                            *)
Quiet(s, bar) ==
    \E latency \in Latencies : Store(Counted(lane, s, latency), bar, "NO_TRADE", 0, 0)

(* A guard of the BTC lane refuses the signal.                             *)
Refuse(s, bar, timely) ==
    \E latency \in Latencies, clean \in BOOLEAN :
        /\ lane = "btc" /\ ~GuardPasses(s, timely, latency, clean)
        /\ Store(Pause(CountLatency(s, latency)), bar, "NO_TRADE", 0, 0)

Exit(s, bar, timely) ==
    \E latency \in Latencies, clean \in BOOLEAN, signal \in Signals, move \in Moves :
        /\ Passes(lane, s, timely, latency, clean) /\ Exits(s, signal, move)
        /\ Store([Counted(lane, s, latency) EXCEPT !.pnl = @ + move - Slippage,
                                                   !.position = None],
                 bar, "EXIT", move - Slippage, 0)

Enter(s, bar, timely) ==
    \E latency \in Latencies, clean \in BOOLEAN, signal \in Signals :
        /\ Passes(lane, s, timely, latency, clean) /\ CanEnter(s)
        /\ Store([Counted(lane, s, latency) EXCEPT !.position = signal, !.trades = @ + 1],
                 bar, "ENTER", 0, 1)

(* This hour and the one before it.                                        *)
Recent == {clock - 1, clock} \cap Bars

(* A task started at now, alone, on the bar it finds.                      *)
Run(now, bar) ==
    /\ LET s == Session(now)
           timely == now = bar
       IN  \/ Halt(s)
           \/ /\ KillSwitch(s) = "no"
              /\ \/ NoData(s) \/ Quiet(s, bar) \/ Refuse(s, bar, timely)
                 \/ Exit(s, bar, timely) \/ Enter(s, bar, timely)
    /\ UNCHANGED <<lane, clock>>

(* A task of the SOL lane that failed leaves a receipt and nothing else.   *)
Fault(bar) ==
    /\ lane = "sol"
    /\ receipts[bar] = None
    /\ receipts' = [receipts EXCEPT ![bar] = "NO_TRADE"]
    /\ UNCHANGED <<lane, clock, row, booked, entered>>

Tick ==
    /\ clock < MaxBar
    /\ clock' = clock + 1
    /\ UNCHANGED <<lane, row, receipts, booked, entered>>

Next ==
    \/ /\ receipts' # receipts   \* each transaction leaves a receipt
       /\ \/ \E now, bar \in Recent : now <= bar /\ Run(now, bar)
          \/ \E bar \in Recent \cup {NoBar} : Fault(bar)
    \/ Tick

Spec == Init /\ [][Next]_vars
=============================================================================
