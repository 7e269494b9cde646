------------------------------ MODULE PaperTrading ------------------------------
(***************************************************************************)
(* The hourly paper-trading tasks of the SOL and BTC lanes                 *)
(* (workers/tasks/sol_paper_tasks.py, btc_paper_tasks.py) on the session   *)
(* row and the bar receipts of session_store_cr046.py, by PaperRules.      *)
(*                                                                         *)
(* Tasks overlap: beat enqueues one an hour (BTC's are enqueued by hand),  *)
(* a task is acknowledged late and run again when its worker is lost, and  *)
(* the worker process runs two at a time, so a free slot may start one at  *)
(* any time.  A task reads the clock, loads the row, calls the exchange    *)
(* and commits row and receipt in one transaction.  SerialTrading says     *)
(* what that amounts to.                                                   *)
(***************************************************************************)
EXTENDS PaperRules, FiniteSets

CONSTANT Workers

VARIABLES
    lane,       \* "sol" or "btc": whose session this is
    clock,      \* the current bar
    row,        \* committed row of paper_trading_sessions, or None
    receipts,   \* committed paper_trading_receipts: bar -> action or None
    task,       \* per worker: the task it runs
    booked,     \* history: day -> gains of the exits booked on it
    entered     \* history: week -> entries counted in it

vars == <<lane, clock, row, receipts, task, booked, entered>>

--------------------------------------------------------------------------------
(* A task: now is its now_utc; session, action and bar what it will        *)
(* commit; gain and entries what the commit adds to the books.             *)
Idle == [pc |-> "idle", now |-> FirstBar, session |-> None, action |-> None,
         bar |-> NoBar, gain |-> 0, entries |-> 0]

Become(w, t) == task' = [task EXCEPT ![w] = t]

Proposed(w, s, bar, action, gain, entries) ==
    [pc |-> "commit", now |-> task[w].now, session |-> s, action |-> action,
     bar |-> bar, gain |-> gain, entries |-> entries]

Propose(w, s, bar, action, gain, entries) ==
    Become(w, Proposed(w, s, bar, action, gain, entries))

(* The error path after the rollback: the SOL task stores an error receipt *)
(* for its bar in a new session, the BTC task only logs.                   *)
Fail(w, bar) ==
    Become(w, IF lane = "sol"
              THEN [Idle EXCEPT !.pc = "error", !.now = task[w].now, !.bar = bar]
              ELSE Idle)

--------------------------------------------------------------------------------
(* Load or create, resets, kill switches.                                  *)

(* The session s is loaded: reset it, and halt at once or go on to the     *)
(* exchange.  A halt is proposed with the receipt's initial bar.           *)
Admitted(s, now) ==
    LET r == Refreshed(s, DayOf(now))
        halt == KillSwitch(r)
    IN  [Idle EXCEPT
            !.pc = IF halt = "no" THEN "open" ELSE "commit",
            !.now = now,
            !.session = IF halt = "no" THEN r ELSE [r EXCEPT !.halted = halt],
            !.action = IF halt = "no" THEN None ELSE "NO_TRADE"]

Load(w) ==
    /\ task[w].pc = "idle"
    /\ Become(w, IF row = None THEN [Idle EXCEPT !.pc = "create", !.now = clock]
                               ELSE Admitted(row, clock))
    /\ UNCHANGED <<lane, clock, row, receipts, booked, entered>>

(* The flushed insert holds the primary key until its transaction ends: a  *)
(* second creator waits, then fails if the first has committed.            *)
Creating(w) == task[w].pc \in {"open", "commit"} /\ task[w].session.version = 1

Create(w) ==
    /\ task[w].pc = "create"
    /\ \A v \in Workers : ~Creating(v)
    /\ IF row = None
       THEN Become(w, Admitted(Fresh(DayOf(task[w].now)), task[w].now))
       ELSE Fail(w, NoBar)
    /\ UNCHANGED <<lane, clock, row, receipts, booked, entered>>

--------------------------------------------------------------------------------
(* The exchange has answered: what the task decides on the current bar.    *)

(* The call, the analysis or the soft time limit raises.                   *)
Raise(w) ==
    /\ task[w].pc = "open"
    /\ Fail(w, NoBar)
    /\ UNCHANGED <<lane, clock, row, receipts, booked, entered>>

NoData(w) ==
    /\ task[w].pc = "open"
    /\ Propose(w, task[w].session, NoBar, "NO_TRADE", 0, 0)
    /\ UNCHANGED <<lane, clock, row, receipts, booked, entered>>

(* The BTC task counts the latency of such a bar but ignores the pause.    *)
NoSignal(w, latency) ==
    /\ task[w].pc = "open"
    /\ LET s == task[w].session IN
       Propose(w, Counted(lane, s, latency), clock, "NO_TRADE", 0, 0)
    /\ UNCHANGED <<lane, clock, row, receipts, booked, entered>>

(* The bar the task decides on opened before it read the clock.            *)
Timely(w) == task[w].now = clock

(* A guard refuses a signal; three slow bars in a row pause the lane.      *)
GuardSkip(w, latency, clean) ==
    /\ task[w].pc = "open"
    /\ lane = "btc"
    /\ ~GuardPasses(task[w].session, Timely(w), latency, clean)
    /\ LET s == task[w].session IN
       Propose(w, Pause(CountLatency(s, latency)), clock, "NO_TRADE", 0, 0)
    /\ UNCHANGED <<lane, clock, row, receipts, booked, entered>>

(* A signal reaches the session's own rules.                               *)
Reaches(w, latency, clean) ==
    /\ task[w].pc = "open"
    /\ Passes(lane, task[w].session, Timely(w), latency, clean)

ExitBar(w, signal, move, latency, clean) ==
    /\ Reaches(w, latency, clean)
    /\ LET s == task[w].session IN
       /\ Exits(s, signal, move)
       /\ Propose(w, [Counted(lane, s, latency) EXCEPT !.pnl = @ + move - Slippage,
                                                 !.position = None],
                  clock, "EXIT", move - Slippage, 0)
    /\ UNCHANGED <<lane, clock, row, receipts, booked, entered>>

EnterBar(w, signal, latency, clean) ==
    /\ Reaches(w, latency, clean)
    /\ LET s == task[w].session IN
       /\ CanEnter(s)
       /\ Propose(w, [Counted(lane, s, latency) EXCEPT !.position = signal,
                                                 !.trades = @ + 1],
                  clock, "ENTER", 0, 1)
    /\ UNCHANGED <<lane, clock, row, receipts, booked, entered>>

BlockedBar(w, signal, move, latency, clean) ==
    /\ Reaches(w, latency, clean)
    /\ LET s == task[w].session IN
       /\ ~Exits(s, signal, move)
       /\ ~CanEnter(s)
       /\ Propose(w, Counted(lane, s, latency), clock, "NO_TRADE", 0, 0)
    /\ UNCHANGED <<lane, clock, row, receipts, booked, entered>>

Decide(w) ==
    \E latency \in Latencies, clean \in BOOLEAN :
        \/ NoSignal(w, latency)
        \/ GuardSkip(w, latency, clean)
        \/ \E signal \in Signals :
            \/ EnterBar(w, signal, latency, clean)
            \/ \E move \in Moves : \/ ExitBar(w, signal, move, latency, clean)
                                   \/ BlockedBar(w, signal, move, latency, clean)

--------------------------------------------------------------------------------
(* _commit_all: UPDATE ... WHERE version = ..., receipt INSERT, commit.    *)

LastWriteWins(w) == TRUE   \* a slip: an UPDATE by session_id alone
VersionMatches(w) == row # None => row.version = task[w].session.version

UpsertBar(w) == TRUE   \* a slip: the receipt of the bar is replaced
BarIsNew(w) == receipts[task[w].bar] = None

(* OptimisticLockError takes the general error path.                       *)
Conflict(w) ==
    /\ task[w].pc = "commit"
    /\ ~VersionMatches(w)
    /\ Fail(w, task[w].bar)
    /\ UNCHANGED <<lane, clock, row, receipts, booked, entered>>

(* DuplicateBarError rolls the session's UPDATE back with it.              *)
DuplicateBar(w) ==
    /\ task[w].pc = "commit"
    /\ VersionMatches(w)
    /\ ~BarIsNew(w)
    /\ Become(w, Idle)
    /\ UNCHANGED <<lane, clock, row, receipts, booked, entered>>

Commit(w) ==
    /\ task[w].pc = "commit"
    /\ VersionMatches(w)
    /\ BarIsNew(w)
    /\ LET t == task[w] IN
       /\ row' = [t.session EXCEPT !.version = @ + 1]
       /\ receipts' = [receipts EXCEPT ![t.bar] = t.action]
       /\ booked' = [booked EXCEPT ![t.session.day] = @ + t.gain]
       /\ entered' = [entered EXCEPT ![Monday(t.session.week)] = @ + t.entries]
    /\ Become(w, Idle)
    /\ UNCHANGED <<lane, clock>>

(* The SOL task's error receipt, unless its bar already has one.           *)
RecordError(w) ==
    /\ task[w].pc = "error"
    /\ receipts' = IF receipts[task[w].bar] = None
                   THEN [receipts EXCEPT ![task[w].bar] = "NO_TRADE"] ELSE receipts
    /\ Become(w, Idle)
    /\ UNCHANGED <<lane, clock, row, booked, entered>>

(* The worker dies or is killed at the hard time limit: nothing committed. *)
Lose(w) ==
    /\ task[w].pc # "idle"
    /\ Become(w, Idle)
    /\ UNCHANGED <<lane, clock, row, receipts, booked, entered>>

(* task_time_limit (five minutes) ends a task before a second hour begins. *)
Tick ==
    /\ clock < MaxBar
    /\ \A w \in Workers : task[w].pc # "idle" => task[w].now = clock
    /\ clock' = clock + 1
    /\ UNCHANGED <<lane, row, receipts, task, booked, entered>>

--------------------------------------------------------------------------------
Init ==
    /\ lane \in {"sol", "btc"}
    /\ clock = FirstBar
    /\ row = None
    /\ receipts = [b \in Bars \cup {NoBar} |-> None]
    /\ task = [w \in Workers |-> Idle]
    /\ booked = [d \in Days |-> 0]
    /\ entered = [d \in Days |-> 0]

Next ==
    \/ \E w \in Workers :
        \/ Load(w) \/ Create(w) \/ Raise(w) \/ NoData(w) \/ Decide(w)
        \/ Conflict(w) \/ DuplicateBar(w) \/ Commit(w) \/ RecordError(w)
        \/ Lose(w)
    \/ Tick

Spec == Init /\ [][Next]_vars

--------------------------------------------------------------------------------
Tasks == [pc : {"idle", "create", "open", "commit", "error"}, now : Bars,
          session : Sessions \cup {None}, action : Actions \cup {None},
          bar : Bars \cup {NoBar}, gain : Int, entries : {0, 1}]

TypeOK ==
    /\ lane \in {"sol", "btc"}
    /\ clock \in Bars
    /\ row \in Sessions \cup {None}
    /\ receipts \in [Bars \cup {NoBar} -> Actions \cup {None}]
    /\ task \in [Workers -> Tasks]
    /\ \A w \in Workers : task[w].pc = "open" => task[w].session # None
    /\ \A w \in Workers : task[w].pc = "commit" => /\ task[w].session # None
                                                   /\ task[w].action # None
    /\ booked \in [Days -> Int]
    /\ entered \in [Days -> Nat]

(* The committed row agrees with the trades that were committed, however   *)
(* tasks overlap, fail or are run again: the day's result, the week's      *)
(* count (update with the version in its WHERE, reset by calendar).        *)
Books ==
    row # None => /\ row.pnl = booked[row.day]
                  /\ row.trades = entered[Monday(row.week)]

(* consecutive_losing_days is the number of losing days since the last     *)
(* profitable one, days without a trade and days without a task included.  *)
LosingDays(day) ==
    {d \in Days : d < day /\ booked[d] < 0
                  /\ \A e \in Days : d < e /\ e < day => booked[e] <= 0}
LosingRunIsCounted == row # None => row.losing = Cardinality(LosingDays(row.day))

(* WEEKLY_TRADE_CAP bounds the entries of every calendar week, the first,  *)
(* shorter one included.                                                   *)
WeeklyCapHolds == \A d \in Days : entered[d] <= WeeklyCap

(* A committed trade has the receipt of its bar and a receipt of a trade   *)
(* stands for one, so a bar is traded once although its task may run       *)
(* again; the slot is taken exactly by an entry that has no exit yet.      *)
BarsWith(action) == {b \in DOMAIN receipts : receipts[b] = action}
ReceiptsMatchTrades ==
    Cardinality(BarsWith("ENTER")) - Cardinality(BarsWith("EXIT"))
        = IF row # None /\ row.position # None THEN 1 ELSE 0

(* Entries stop for the rest of a day that lost DAILY_LOSS_LIMIT, and for  *)
(* good after a run of losing days, also when the task that saw the loss   *)
(* is not the one that enters.                                             *)
NoEntryPastALimit ==
    [][entered' # entered => /\ booked[row'.day] > -DailyLimit
                             /\ Cardinality(LosingDays(row'.day)) < LosingLimit]_vars

(* A halt for losing days or latency is lifted by no task: it waits for    *)
(* the manual verification the checklist asks for.                         *)
HaltsStick ==
    [][row # None /\ row.halted \in {"K3", "latency"} =>
        /\ row' # None /\ row'.halted = row.halted
        /\ booked' = booked /\ entered' = entered]_vars

(* The checklist's sixth check, "Close existing first": on a bar that no    *)
(* task has decided yet, a timely, quick and clean BTC signal at which the *)
(* exit rules close the position of a session that is not halted can       *)
(* become that exit.  The guard runs before the exit rules and refuses the *)
(* signal for that very position, on this and on every later bar.          *)
ClosingSignal(w, signal, move) ==
    /\ lane = "btc"
    /\ task[w].pc = "open"
    /\ Timely(w) /\ receipts[clock] = None
    /\ task[w].session.halted = "no"
    /\ Exits(task[w].session, signal, move)

ExistingIsClosedFirst ==
    \A w \in Workers, signal \in Signals, move \in Moves :
        ClosingSignal(w, signal, move)
            => ENABLED ExitBar(w, signal, move, "fast", TRUE)

(* Two tasks that overlap leave behind what they would have left one after *)
(* the other: a commit is the whole of a task that read the very row it    *)
(* replaces, on a bar that had no receipt; the others leave nothing, or a  *)
(* failure's receipt.                                                      *)
Serial == INSTANCE SerialTrading
CommitsAreSerial == Serial!Spec
=============================================================================
