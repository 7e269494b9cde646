# Verification of the K-Dexter trading system

TLA+ models of the control core of this repository, the TLC runs that check them
and the theorems TLAPS proves about them. Paths are relative to the repository;
`kdexter/` stands for `src/kdexter/`.

The repository has two layers. `kdexter/` is a governance framework: four control
loops, a work state machine, a security state, ledgers of rules and evidence.
`app/` and `workers/` are a trading service: a governance gate and a chain of three
ledgers between an LLM agent's advice and an exchange order, bounded writes of a
symbol's qualification, hourly paper-trading tasks, a safe mode that survives
restarts. The models cover the code on which the rest stands: who runs when, what
a work item and the security state may do, what an order needs before it is sent,
and what the database may say after concurrent sessions, redelivered tasks,
rollbacks and crashes.

## 1. Inventory

### Modelled

| component | code | state | operations | hard because |
|---|---|---|---|---|
| Loop orchestrator | `kdexter/loops/concurrency.py` | priority queue, dispatcher's place, suspension flag and event, two timers, ledger lock holder | start, stop, trigger_recovery, trigger_loop, dequeue, run, lock, watchdog | one dispatcher that may wait for an event only it sets; cancellation anywhere; triggers between a pop and its delivery |
| Work state machine | `kdexter/state_machine/work_state.py` | state, guard fields, passed checks | transition_to, reset on DRAFT | guards read fields that other actors set at other times |
| Security state | `kdexter/state_machine/security_state.py` | one of four levels | escalate, de_escalate | shared by every loop, gate and ledger; compared outside its lock |
| Main loop | `kdexter/loops/main_loop.py` | where the cycle is suspended, its result | poll, run_cycle step by step, error paths | its work item can be taken away during an await |
| Recovery loop | `kdexter/loops/recovery_loop.py` | phase, scope | accept_failure, run: isolate, replay, rollback, repair, resume | raises half way; merges new failures into a running scope |
| Agent orchestrator | `app/agents/orchestrator.py` | one coroutine per request | execute | long chain of guards after awaits whose earlier checks are stale |
| Governance gate | `app/agents/governance_gate.py` | evidence, usage, failure memory | pre_check, post_record, post_record_error | every allowed pre-check must be closed on every path |
| Ledgers of the seal chain | `app/agents/action_ledger.py`, `app/services/execution_ledger.py`, `app/services/submit_ledger.py` | buffer, fingerprints, history file, proposal status | propose_and_guard, record_receipt, flush | shared by all requests; the flush can raise in the middle of a proposal |
| Order executor | `app/services/order_executor.py` | results, orders awaited | execute_order | timeouts against late answers, retries |
| Shadow write service | `app/services/shadow_write_service.py` | qualification status of a symbol, append-only receipts | evaluate_shadow_write, execute_bounded_write, rollback_bounded_write | checks before the row lock; receipt and row may part when an insert fails |
| Asset service | `app/services/asset_service.py` | same status column, qualification results | qualify_and_record | assigns a status it computed from an unlocked read |
| Paper trading | `workers/tasks/sol_paper_tasks.py`, `btc_paper_tasks.py`, `app/services/paper_trading_session_cr046.py`, `session_store_cr046.py`, `btc_latency_guard.py` | session row with a version, one receipt per bar | one hourly task: load, reset, kill switches, signal, guard, exit or entry, commit | overlapping and redelivered tasks decide on the row they read; resets by calendar |
| Safe mode | `app/services/safe_mode_persistence.py`, `recovery_policy_engine.py` | status row, transitions, drift rows; the manager's mode, fingerprints and processed ids | restore, enter_sm3, manual_transition, consume a drift | memory changes before the rows do; crash, rollback and restore |

How they interact:

- The loop orchestrator dispatches coroutines of the loops, one at a time, and
  suspends Main while a recovery is pending. Nothing in the repository
  instantiates it together with the loops; they are modelled separately.
- Main and Recovery share one `WorkStateContext` and one `SecurityStateContext`
  and give way to each other at their awaits. Recovery also waits for the Rule
  Ledger lock.
- Failures arrive by `accept_failure`, escalations from `ForbiddenLedger` and
  `B1Constitution`, the release of a lockdown from `B1Constitution.release_lockdown`.
- Each HTTP request builds an `AgentOrchestrator` (`app/api/routes/agents.py:136,147`).
  Gate, budget, failure memory and security state are one per process. The route
  itself wires the gate only; ledgers and executor are attached by
  `scripts/m2_2_micro_live.py` and the tests. The model is the fully wired chain.
- The shadow write service and the asset service write the same column,
  `symbols.qualification_status`, from sessions of their own. The pipeline that
  records the evidence calls `evaluate_shadow_write` only.
- The paper-trading tasks share nothing but the database. Celery acknowledges late
  and runs two of them at a time (`workers/celery_app.py:37-40`,
  `docker-compose.prod.yml:35`); beat schedules the SOL task, the BTC one is
  enqueued by hand.
- The safe-mode manager drives the in-memory machine, policy and consumer of
  `recovery_policy_engine.py`, and writes to the session it was given. Its owner
  commits or rolls back; in this commit only tests own one.

What makes them correct is listed with each module in section 2.

### Not modelled

PROJECT.json has the full list with reasons. In short:

- *Parts of the framework that hold no state the loops wait for or read back*:
  Rule Ledger content (its lock is modelled), Self-Improvement and Evolution loops
  (a chain of hooks that ends in rule writes; their dispatch is
  `LoopOrchestrator`'s), TCL dispatcher (nothing authorizes LIVE, and its one
  caller dispatches a fresh key once), loop counters, trust state, failure router,
  override controller, forbidden and mandatory ledgers, constitution. Where they
  act on the core, the core has a nondeterministic action in their place
  (`CycleCeiling`, `AcceptFailure`, `EscalateSecurity`, `ReleaseLockdown`,
  `OtherClient`).
- *The readers of the safe mode* (runtime loader and verifier): they decide once
  and write nothing the manager reads.
- *Retry and execution core* (`app/core`): single-shot executors an operator
  starts; the retry plan store is filled by a bridge nothing calls outside tests.
- *External answers*: LLM agents and exchange adapters, taken as nondeterministic.
- *Numeric pipelines*: scoring engines, strategies, back-tests, market services and
  the research scripts, by far the largest part of the repository: one call's data
  in, one number out.
- *Presentation and plumbing*: dashboards, API schemas, tables and migrations, the
  other Celery tasks.

The mapped code is therefore a small share of the repository's lines: most of them
are research scripts, numeric services, dashboards and tests.

## 2. Modules

| module | role |
|---|---|
| `LoopOrchestrator` | the coordinator of the four loops |
| `WorkState` | operators: transition map, guards, `transition_to` |
| `SecurityState` | operators: escalation and de-escalation |
| `SecurityPromise` | abstract specification of the security state |
| `GovernanceCore` | composes Main loop, Recovery loop, work state and security state with operator and other clients |
| `SecurityStateThreads` | `escalate` as two steps, called from threads |
| `SealChain` | requests, gate, three ledgers and executor |
| `OrderDesk` | abstract specification of the chain, as the exchange sees it |
| `ShadowWrite` | bounded writes, rollbacks and qualifications of one column, by database sessions |
| `PaperRules` | operators: what a session is, its resets, limits and guards |
| `PaperTrading` | the hourly tasks of both lanes on the session row and the bar receipts |
| `SerialTrading` | abstract specification of overlapping tasks: one task at a time |
| `SafeMode` | the safe-mode manager, its rows, crashes and rollbacks |
| `MC*` | small instances for TLC |
| `*Proofs` | theorems |

Definitions called "a slip" in the comments are wrong variants of a definition
next to them (PROJECT.json "mutants"): a run with the variant in place of the
original must violate the property it is paired with. They take no part in the
specifications.

### LoopOrchestrator

One event loop runs everything, so an action is the code between two awaits.
`dpc` is where `_dispatch_loop` is: `off`, `dequeue` (in `wait_for(queue.get())`),
`taken` (item popped, dispatcher not yet resumed), `mainWait` (awaiting
`_main_resume_event` with a Main task in hand) and `coro`.
`taken` exists because `asyncio.wait_for` runs `get()` in a task of its own up to
Python 3.11, the version of `Dockerfile:2`; with `WaitForYields = FALSE` (3.12)
the pop and the delivery are one step. Times are kept as "none, recent, overdue".
Properties: flag, event and timers describe one suspension
(`SuspensionConsistent`); nobody is left suspended without a recovery to resume
it (`NoOrphanSuspension`); Main never starts over a recovery that was triggered
before it (`MainStartsClear`); a suspension ends if coroutines do, as long as the
orchestrator runs (`MainResumes`, what the code's comment promises and `orch_stuck`
refutes; `ResumesUnlessHeld`: it ends or leaves the dispatcher waiting with a Main
task in hand, and nothing else keeps Main suspended). After a `stop()` with a
recovery still queued Main stays suspended until the owner calls `start()` again,
which nothing in the code does by itself; a recovery that never lets go of the
ledger lock is reported (`DeadlockReported`).

### WorkState, SecurityState, GovernanceCore

A `WorkStateContext` is its state, the set of guard fields that are filled in, and
the set of passed checks. `May(w, s)` is `transition_to` succeeding, `Enter` its
effect including the reset on DRAFT. `GovernanceCore` runs the two loops on one
work item: an action ends where the code really suspends, in an injected hook, in
`cycle_factory`, in `sleep(0)` or at the ledger lock. Each refused transition ends
the cycle or the recovery the way the code's except and finally clauses do.

Abstractions: the scope of a recovery is kept as its highest severity (what
`_phase_isolate` reads); the loop ceiling may refuse any cycle (`CycleCeiling`);
a hook that raises and a hook that answers no are one action (`CycleFails`);
`run_cycle` and `RecoveryLoop.run` are not re-entered. `mark_active` belongs to
`LoopOrchestrator`. Nothing in the repository sets `failure_event_id` and the other fields the
recovery guards read, so an operator sets them (`OperatorSets`) and takes the edges no loop takes
(`OperatorMoves`); both are marked external.

Properties: guards on the way hold where the work item is (`WorkIsGated`), a
SUCCESS has all its answers (`SuccessIsEarned`), Recovery takes work only from a
cycle that awaits its execution, which then yields (`InterruptedCycleYields`),
nobody moves the item under Recovery (`RecoveryOwnsWork`), only error paths skip evidence (`EvidenceKeepsUp`), only a
human leaves LOCKDOWN (`LockdownReleasedByHuman`), the security state refines
`SecurityPromise` (`KeepsSecurityPromise`, by INSTANCE with `current <- security`),
cycles and recoveries end (`CycleEnds`, `RecoveryEnds`).

`MainLoop` keeps going in RESTRICTED and QUARANTINED because the code consults
`is_locked_down` only.

### SealChain

`running` is the request between two awaits; `pc` where each request stands:
`new`, `validating` and `assessing` (awaiting an LLM agent), `agent`, `exec`,
`submit` (the three guards), `ordering`, `inflight` (awaiting the exchange),
`done`. Another request, a tick of time or a change of the security state can
only come in while nobody is running. One tick is the executor's timeout (30 s);
the cooldown of a fingerprint is two (60 s) and ages saturate above it. On the
boundary tick `_is_duplicate` may answer either way; a timer fires on its tick.

| code | action |
|---|---|
| `pre_check` | `PreCheckAllows`, `PreCheckBlocks`, `PreCheckForbids` |
| awaits of validator and risk manager | `ValidationPasses`, `AgentRejects`, `AgentRaises`, `RiskApproves` |
| `propose_and_guard` of a ledger with what `execute` does next | `SuppressDuplicate`, `BlockProposal`, `PassGuard`, `FlushRaises` |
| steps 5.75 and 6 of `execute` | `PPFDenies`, `DryRun`, `CreateOrder` |
| `execute_order` after the await | `ExchangeAnswers`, `TimesOut` |
| everything else | `SecurityMoves`, `Tick` |

Properties: an order has three receipts and closed evidence (`SealedLineage`); two
orders of one fingerprint are never awaited together (`OneOrderInFlight`); orders
stay within the budget although the gate's check is stale by then
(`OrdersWithinBudget`); an allowed pre-check is always closed
(`PreChecksAreClosed`); a proposal is left GUARDED only by an error
(`OrphansAreErrors`); every request gets its response (`RequestsEnd`).

`OrderDesk` says what this amounts to for the exchange: the submit tier's guard and
the order are one visit to a desk that a single request holds, given out under a
clear security state, within the budget, and once per cooldown for a fingerprint.
The chain implements it (`OrdersLeaveOneDesk`), with the refinement

| `OrderDesk` | `SealChain` |
|---|---|
| `desk` | the running request if it is at `ordering`, else None |
| `name` | the fingerprints of the requests with a receipt of the submit tier |
| `since` | the submit ledger's ages |
| `waited` | `orderAge` |

A proposal that is refused or whose flush raises starts the cooldown as an order
does (`Refuse`); a suppressed duplicate does not extend it, or `Refuse` would not ask
for a fingerprint that has rested. That no order is created in LOCKDOWN or
QUARANTINED (`NoOrderInLockdown`) is part of it, and is proved on its own too.

Worth knowing when reading the code next to it:

- The agent tier asks the gate for `_cost_controller`, an attribute the gate does
  not have (`orchestrator.py:208`), so its budget check is always skipped; the
  later tiers ask for `cost_controller`.
- The gate allows usage up to the limit, the guards need it below the limit. With
  each order's own call recorded first, the last unit never buys an order.
- Usage is recorded by `post_record` only: an approving validator, and a call that
  raised, cost nothing. A duplicate or a blocked proposal of the agent tier is
  post-recorded without its usage.
- `classify_recurrence` turns every request away after two failures within seven
  days, and nothing clears the memory (`PatternDetected`).
- A flush that raises leaves the buffer over its limit: every later proposal of
  that ledger tries to flush again.
- The history file gets a proposal as GUARDED, before its receipt; an unreadable
  file is taken as empty.
- An order reported TIMEOUT may still be accepted by the exchange.
- `execute_order` looks a proposal up before its await and records it after: two
  concurrent calls for one proposal would both reach the exchange. The orchestrator
  makes one call per proposal.

Assumed: LLM providers report token usage; the evidence store accepts what it is
given (`post_record_error` has a fallback that only logs); a request is not
cancelled from outside. The token budget is not counted: it may be found spent at
the execution tier (`MayFail`).

### ShadowWrite

Every call of the service is two steps of a session: what it reads and checks
before its first write, and the write that takes the row lock or the unique key;
`Commit` and `Lose` end the transaction. Sessions are READ COMMITTED: a read sees
the last committed rows, an UPDATE waits for the holder of the row (`RowFree`), an
INSERT for the holder of its key (`KeyFree`). A receipt is the record its
`dedupe_key` is computed from, with its `exec_of` or `rollback_of` link (`of`), which
the key leaves out (`Key`).

The symbol of a call is an argument of its own: the service takes it beside the id
of the receipt, compares the two nowhere (`shadow_write_service.py:402-409`, `485-493`,
`778-783`) and looks for earlier uses among the receipts of that symbol (`545-551`,
`889-895`). So `Executed(r, s)` is the receipt an execution of `r` for `s` would insert,
and `Consumed(r, s)`, `RolledBack(e, s)` are the code's look-ups. Calls for a foreign
symbol are part of the model, though every caller in the repository passes the
symbol of the receipt.

| code | action |
|---|---|
| `evaluate_shadow_write` | `RecordEvidence` |
| `execute_bounded_write` before, from `SELECT ... FOR UPDATE` | `ExecRead`, `ExecWrite` |
| `rollback_bounded_write` before, from its UPDATE | `RollbackRead`, `RollbackWrite` |
| `qualify_and_record` | `QualifyRead`, `QualifyWrite` |
| the caller's commit; exception, lost connection, crash | `Commit`, `Lose` |

Abstractions: receipts of calls that were BLOCKED or failed are left out (no
operation reads them); target table, field and value checks are constant here; the
status a qualification assigns is any decision.

Properties: a decided symbol has a standing execution or a qualification that came
to that value (`DecisionsAreExplained`), an execution that changes the row is the
first of its evidence on that row (`EvidenceIsUsedOnce`), an EXECUTED receipt and its change
of the row are one step (`ReceiptsAccountForWrites`). Rollbacks are not so lucky:
`RollbackOnce` is what the docstring says and run `shadow_rollback` refutes. All
four are stated per row, because that is how far the code binds a receipt: evidence
of one symbol can change the row of another and then its own, and an execution can
be rolled back on both.

### PaperTrading

A worker is idle or runs one task, which is at `create` (no row was found), `open`
(awaiting the exchange with the session it read, resets applied), `commit` (row
and receipt decided) or `error` (SOL's error receipt, in a session of its own).
`Load` may happen at any time: beat, redelivery after a lost worker and manual
calls are the same action. `Lose` is a worker killed at any point.

| code | action |
|---|---|
| load or create, resets, K1 and K3 | `Load`, `Create` |
| exchange call and analysis raise, answer nothing, give no signal | `Raise`, `NoData`, `NoSignal` |
| latency guard refuses | `GuardSkip` |
| exit, entry, neither | `ExitBar`, `EnterBar`, `BlockedBar` |
| `_commit_all` | `Commit`, `Conflict`, `DuplicateBar` |
| error receipt; worker lost; the hour | `RecordError`, `Lose`, `Tick` |

Abstractions: prices are moves in basis points since the fill; time is the count
of hourly bars, and the task time limit (300 s) lets a task see one change of the
hour at most; receipts tell entries and exits from bars without a trade; the lane
is fixed in `Init`, lanes having a session each. `booked` and `entered` are
history variables: what was earned on each day, entered in each week.

`PaperRules` holds what the manager, the guard and the two tasks compute from a
session without waiting for anything; the tasks and the abstract specification
share it, so that they can differ in nothing but what happens between reading the
row and storing it. `SerialTrading` is that abstract specification: a task reads
the row, decides and stores its decision in one instant. `CommitsAreSerial` is
`PaperTrading` implementing it, the committed row, receipts and books standing for
themselves: a commit is a whole task that started in this hour or the one before,
a failed SOL task is a receipt, and every other step of a task leaves nothing.

Properties: overlapping tasks leave what one at a time would have left
(`CommitsAreSerial`); the row agrees with the trades that were committed (`Books`); the
losing run is the one the calendar gives, days without a task included
(`LosingRunIsCounted`); the weekly cap bounds every calendar week
(`WeeklyCapHolds`); a bar is traded once and the slot is taken by exactly the
entry without an exit (`ReceiptsMatchTrades`); nobody enters past a limit, also on
a row read before the loss (`NoEntryPastALimit`); K3 and latency halts are lifted
by no task (`HaltsStick`). `ExistingIsClosedFirst` is a line of the BTC checklist
that `paper_btc` refutes: whenever a task is about to decide a new bar, a timely,
quick and clean signal at which the exit rules close the position of a session that
is not halted can become an exit. It says nothing of bars without a signal, of
untimely, slow or halted ones, nor of a signal the exit rules would not act on.

### SafeMode

`db` is what is committed, `view` what the manager's session sees, `mem` its
memory. `Start` restores (`restore_from_db`); `EnterSm3`, `ManualTransition` and
the three `Consume*` actions change memory and view together; `Commit`,
`RollBack` and `Crash` are the owner's and the process's. A drift that is consumed
enters SM3, finds a safe mode in force, or is suppressed (not qualifying, known
id, fingerprint cooling down); its row is marked processed each time.

Abstractions: one manager per database, as its docstring says; drift rows are
there from the start; a batch is a sequence of Consume steps; a fingerprint may
cool down at any time; `MaxLog` bounds the transitions. A rollback undoes the rows
and not the memory: what a manager writes after it has outlived one is marked (`sure`,
`intact`), and two of the properties exempt those writes and say so.

Properties: the status row is where the last transition led, also after rollbacks
(`StatusFollowsHistory`); across restarts the transitions are one path from NORMAL
(`HistoryIsOnePath`); no qualifying drift is marked processed without its
fingerprint having entered SM3 or met a safe mode (`DriftIsAnswered`).

## 3. Runs

| run | instance | distinct states | shows |
|---|---|---|---|
| `orch` | 2 Recovery, 2 Main (one without coroutine), 1 Evolution task; 2 stops; Python 3.11 | 70 360 | safety of the coordinator; suspensions end; a stuck recovery is reported |
| `orch_stuck` | same tasks, no stop | | counterexample to `MainResumes` |
| `gov` | 2 checks, fast recovery path | 470 944 | safety, refinement and liveness of the core |
| `gov_critical`, `gov_lockdown` | 1 check | | what the documents promise and the loops do not do |
| `security_threads` | 3 threads | | counterexample to the promise under threads |
| `seal` | 3 requests, 2 fingerprints, budget 3, buffer 2, history 1 | 633 228 | safety and refinement of the chain; every request ends |
| `shadow_writes` | 2 sessions, 2 symbols, 1 fingerprint; 2 pieces of evidence, 4 uses of them, 2 qualification results | 1 087 935 | receipts account for the status of each row |
| `shadow_rollback` | 2 sessions, 1 symbol, 2 fingerprints, same bounds | | counterexample to `RollbackOnce` |
| `paper` | 2 workers, 5 bars over 3 days and 2 weeks, both lanes | about 1.86 million | books, limits, halts; overlapping tasks are serial |
| `paper_btc` | 1 worker | | counterexample to `ExistingIsClosedFirst` |
| `safe_mode` | 3 drifts of one fingerprint, 3 transitions | 3 945 112 | history, restarts, answers |

Why the bounds are enough. *Orchestrator*: two tasks of a priority are needed for
"the first completion clears what the second needs", one Main task without a
coroutine for the early continue, one Evolution task for its timer; two stops give
stop, restart, stop. *Core*: the checks are alike, so two distinguish first and
last; the proofs hold for any number (10 in the code). The operator's
fields are those of the fast recovery path; the slow one (rule update, sandbox)
is in the proofs. *Chain*: three requests are the fewest that overflow a
two-entry buffer and that could exceed a budget which two orders may use;
fingerprints are one that can order and one on a foreign exchange (an over-large
size takes the same refusal); buffer 2 and history 1 stand for 1000 and 500.
*Shadow writes*: two sessions overlap any two calls, in any number one after the
other; two pieces of evidence are what a second execution between two rollbacks
needs, and what two symbols need to have one each; two symbols share nothing but
evidence, which `shadow_writes` lets each call use for either; four uses are an
execution and a rollback of one receipt on both rows. The bounds are on the records
kept (`MCFewRecords`); calls that leave none are not bounded. *Paper trading*: a price through
the stop, one that holds and one at the target; daily limit reached by one loss,
cap of one entry, losing limit of two days; five bars of two a day and two days a
week cross two days and a week, the first week being a short one. With two entries
at most, a full losing run is never followed by a third, so of `NoEntryPastALimit`
the run exercises the daily limit; the losing run is covered by its theorem. The
BTC lane never exits and gets four bars (`MCHorizon`). *Safe mode*: normal, SM3 or
SM1, normal, SM3 is three transitions; two qualifying drifts and one that is not, all of one fingerprint,
are what suppression and a repeated entry need.

Sessions, workers, signals and fingerprints that are alike are interchangeable:
`shadow_*`, `paper*` and `safe_mode` use symmetry; they check no liveness. The
runs with liveness use none. Deadlock checking is off only where
the system may stop: all tasks done in the orchestrator runs, all calls made in
`security_threads`.

Fairness. `LoopOrchestrator`: the event loop resumes the dispatcher, time passes,
the watchdog polls; that coroutines terminate is the premise of `MainResumes` and
`ResumesUnlessHeld`, not of the specification. Nothing is assumed of the owner's
calls: `start()`, `stop()` and the triggers may never come, so these two properties
speak of a suspension while the orchestrator runs, after any number of restarts.
`GovernanceCore`: hooks answer (they are awaited without a timeout, so this is the deployment's obligation), the event loop runs a ready
recovery, other clients of the lock release it. `SealChain`: the loop runs a ready
coroutine, the agents' HTTP clients bound their calls, `wait_for` bounds the
exchange's and time passes. No request is assumed to arrive and the exchange is
not assumed to answer. `ShadowWrite`, `PaperTrading` and `SafeMode` state none:
their callers are people, a scheduler and an application that need not call again.

### Disagreements between code and documents

Each is a run that TLC must find violated; PROJECT.json "findings" quotes the
sentence it contradicts.

1. `orch_stuck`: a recovery triggered between the pop of a Main task and its
   delivery is never dispatched; the only dispatcher waits for the event that only
   it sets.
2. `gov_critical`: a recovery from a state with no edge to ISOLATED raises before
   it escalates: a CRITICAL failure without LOCKDOWN.
3. `gov_lockdown`: a cycle past PLANNING goes on executing in LOCKDOWN.
4. `security_threads`: `escalate` compares outside its lock and can lower LOCKDOWN.
5. `shadow_rollback`: two rollbacks of one execution both pass the check; the
   second reverts what another execution wrote meanwhile, and leaves no receipt.
6. `paper_btc`: the guard on an occupied slot runs before the exit check, so a
   timely, quick and clean signal that would close a BTC position cannot.

Seen while modelling, with no run of their own:

- "Prior receipt (WOULD_WRITE, not consumed) required" (`shadow_write_service.py:415`)
  holds for each row, not for the receipt: an execution that names another symbol
  leaves a receipt of that symbol, so the evidence is still found not consumed when
  its own symbol is named, and one receipt changes two rows; likewise "No prior
  ROLLED_BACK receipt for this execution" (`:789`), even in one session;
- a CRITICAL failure merged into a recovery after ISOLATE is never escalated
  (`recovery_loop.py`, `accept_failure`); a recovery stopped by LOCKDOWN does not
  resume after the release, its scope being gone and REDESIGN having no edge to
  ISOLATED (`recovery_loop.py:313-316`);
- the Evolution deferral timer does not start for an Evolution task that is queued
  when recovery begins (`concurrency.py:311`);
- one flush drops entries of ledgers documented as append-only
  (`action_ledger.py:482`);
- a halt proposed before any bar is known takes bar 0, which one receipt may have:
  the second one is a duplicate, and its rollback drops the resets and the halt,
  which the next task computes again (`sol_paper_tasks.py:144`);
- the batch of the shadow pipeline shares one session: a duplicate of one symbol
  rolls the symbols before it back (`shadow_pipeline_orchestrator.py:91`);
- a safe-mode manager that outlives a rollback takes the drift for a known one and
  marks it processed unanswered (`safe_mode_persistence.py:219`); its check against
  duplicate transitions is made by `enter_sm3` alone (`:134`); `cooldown_until` is
  written and never read; SM3 to SM1 is a direct manual step, where
  `app/models/safe_mode.py:12-14` lists SM2 in between;
- the runtime loader reads the safe mode and then the unprocessed drifts: a drift
  consumed between the two reads is in neither (`runtime_loader_service.py:119`).

## 4. Proofs

For every value of the constants that the ASSUMEs allow:

| theorem | property |
|---|---|
| `LoopOrchestratorProofs!TypeCorrect`, `SuspensionIsConsistent`, `MainStartsOnlyWhenClear`, `SuspensionIsNeverOrphaned`, `OneStepWaitNeverHoldsMain` | `TypeOK`, `SuspensionConsistent`, `MainStartsClear`, `NoOrphanSuspension`, (stated in place) |
| `GovernanceCoreProofs!TypeCorrect`, `WorkItemsAreGated`, `SuccessNeedsEveryAnswer`, `OnlyExecutionLosesWork`, `InterruptedCyclesYield`, `RecoveryKeepsItsWork`, `LockdownNeedsAHuman`, `EvidenceFollowsWork`, `CoreKeepsSecurityPromise` | `TypeOK`, `WorkIsGated`, `SuccessIsEarned`, (stated in place), `InterruptedCycleYields`, `RecoveryOwnsWork`, `LockdownReleasedByHuman`, `EvidenceKeepsUp`, `KeepsSecurityPromise` |
| `SealChainProofs!TypeCorrect`, `OrdersAreSealed`, `OneOrderPerFingerprint`, `BudgetBoundsOrders`, `ClosedPreChecks`, `OrphansComeFromErrors`, `NoOrderWhileLockedDown`, `ChainIsOneDesk` | `TypeOK`, `SealedLineage`, `OneOrderInFlight`, `OrdersWithinBudget`, `PreChecksAreClosed`, `OrphansAreErrors`, `NoOrderInLockdown`, `OrdersLeaveOneDesk` |
| `ShadowWriteProofs!TypeCorrect`, `DecidedSymbolsAreExplained`, `EvidenceChangesEachRowOnce`, `ReceiptsMatchWrites`, `LoneRollbackOncePerRow` | `TypeOK`, `DecisionsAreExplained`, `EvidenceIsUsedOnce`, `ReceiptsAccountForWrites`, `RollbackOnce` with one session |
| `PaperTradingProofs!TypeCorrect`, `BooksBalance`, `LosingRunIsRight`, `CapIsKept`, `ReceiptsMatch`, `LimitsStopEntries`, `HaltsAreKept` | `TypeOK`, `Books`, `LosingRunIsCounted`, `WeeklyCapHolds`, `ReceiptsMatchTrades`, `NoEntryPastALimit`, `HaltsStick` |
| `PaperSerialProofs!TasksAreSerial`, `BtcNeverCloses` | `CommitsAreSerial`, (stated in place) |
| `SecurityStateThreadsProofs!OneTargetKeepsPromise`, `OneTargetIsReached` | `KeepsSecurityPromise` with one target, (stated in place) |
| `SafeModeProofs!TypeCorrect`, `StatusIsHistory`, `OnePathFromNormal`, `EveryDriftIsAnswered` | `TypeOK`, `StatusFollowsHistory`, `HistoryIsOnePath`, `DriftIsAnswered` |

Each module has one inductive invariant, an Init lemma, one lemma per
action or group of actions, and temporal theorems that follow from it.

- *Orchestrator.* `MainStartsClear` is not inductive: one must know that a Main
  task popped before a recovery was triggered is held back (`HeldMainWaits`), that
  only Main tasks wait for the event, and that the suspension's pieces agree.
  `NoOrphanSuspension` needs, besides, that Recovery tasks carry a coroutine
  (`RecoveryRunnable`, an assumption of that theorem only).
- *Core.* The gate properties need the fields a state implies along every path
  (`Gated`), what the cycle has been told so far at each hook (`CycleInv`), and
  where Recovery left the work item at each of its awaits (`RecoveryInv`).
  `EvidenceKeepsUp` follows from what one step does to state and evidence
  (`EvidenceStep`). The refinement of `SecurityPromise` is the fact that every step of the
  core is a step of it or leaves the security state (`PromiseStep`).
- *Chain.* `OneOrderInFlight` rests on the clock: while an order waits, the age of
  its fingerprint in the submit ledger equals the time since the order was made
  (`ClockAgrees`), and since the timeout is shorter than the cooldown nobody can
  record that fingerprint meanwhile. `OrdersWithinBudget` is a counting argument:
  each request receipted by the agent tier has paid (`Cardinality(Paid) <=
  apiCalls`), those past the submit tier are among them, and that tier's guard saw
  the usage below the limit. `NoOrderInLockdown` adds that the security state
  cannot move between the submit guard and the order (`ClearToOrder`), because only
  the running request is between two awaits (`OneRuns`). `ChainIsOneDesk` goes over
  the actions: a submit guard that passes is `Give`, one that records a refusal is
  `Refuse`, a step of `ordering` is `Leave`; the other tiers, the agents' answers and
  a duplicate are stutters. It needs that an order waits exactly while its request
  is in flight, and that those who were given the desk have paid.
- *Shadow writes.* What a session holds fits the call it runs and the committed
  rows (`Shapes`), two sessions never hold one row (`Mutex`), a rollback has its
  execution and an execution starts at unchecked (`Lineage`). `DecisionsAreExplained`
  needs more: a rollback that found the status reverted holds no row but is about
  to insert its receipt, so a status must be explained by an execution no such
  rollback threatens (`Explained`).
- *Paper trading.* The invariant says of the row, and of every task whose version
  is still the row's, that it agrees with the books (`RowOK`, `TaskOK`); a task
  with an older version can do nothing but fail. The losing run is related to the
  calendar by lemmas on days and Mondays (`ADayLater`, `MondayIsADay`,
  `LosingLater`), the receipts to the slot by counting (`NetOfAReceipt`).
- *Overlapping tasks.* What a task has decided must be what a task alone would
  decide at the moment it commits. `SerialInv` says so of every task whose version
  is still the row's: its session is the row refreshed for the hour the task
  started in, and its proposal is one that `SerialTrading` would make of that session;
  a task with an older version cannot commit. `BtcNeverCloses` follows from the
  refinement alone: a task of the BTC lane trades only past a guard that wants the
  slot empty.
- *Safe mode.* The rows obey the properties, committed and as the session sees
  them (`RowsOK`), and a manager that has outlived no rollback agrees with its
  view (`MemOK`): its mode is the status, the ids it knows are processed rows, every
  fingerprint it remembers was answered.

Four results say how far a disagreement of section 3 reaches, and so what a repair
has to cover. The endless wait of `orch_stuck` needs the two-step `wait_for` of
Python 3.11: where the pop and the resumption are one step, a suspension keeps a
Recovery task queued that is dequeued before any Main task, and the dispatcher
never waits with one in hand (`OneStepWaitNeverHoldsMain`). Rollbacks of one
execution revert one row twice only when two sessions overlap
(`LoneRollbackOncePerRow`, one session); on the rows of two symbols one session can
revert it on each, and no theorem says otherwise. Threads lower the security state
only when they escalate to different states: to a single target any number of them keep the promise, and the target is
in force once one has returned (`OneTargetKeepsPromise`, `OneTargetIsReached`),
which is what `tests/test_agent_governance.py` tests with ten. A BTC position is
not merely kept on the bar `paper_btc` shows: no task ever closes it.

Assumptions used: `TasksAssumption`; `ChecksAssumption`, `OperatorAssumption`;
`RequestAssumption` (finitely many requests), `KeyAssumption`, `LimitAssumption`,
`TimeAssumption` (timeout shorter than cooldown: 30 s and 60 s in the code);
`TimeAssumption`, `RuleAssumption`, `NoSessionAssumption` of paper trading;
`EventAssumption`, `BoundAssumption`; `NoneAssumption` of three modules. TLC evaluates
them in every run of their modules.

Only model-checked: liveness (`ResumesUnlessHeld`, `DeadlockReported`,
`CycleEnds`, `RecoveryEnds`, `RequestsEnd`), which rests on fairness and ENABLED,
out of the prover's reach. Every safety property of a passing run is proved, the
three refinements included.

## 5. Running

    tlc -workers 2 -config gov.cfg MCGovernanceCore.tla
    tlapm PaperTradingProofs.tla

PROJECT.json names the module and configuration of each run, the code lines behind
every definition, and the hazards with the properties that watch them.

## 6. What is left

Done: coordinator, core, seal chain, shadow writes, paper trading and safe mode,
each with every safety property of its runs proved. In order of worth:

1. `TCLDispatcher` (`kdexter/tcl/commands.py`) once something authorizes LIVE or
   retries with a key: idempotency of keys (looked up before the awaits, cached
   after them), the authorization read before the risk check.
2. The runtime loader (`app/services/runtime_loader_service.py`) composed with
   `SafeMode`, its two reads as two steps.
3. Rule Ledger with the Self-Improvement and Evolution loops, in place of
   `OtherClient`: what they write between a security check and the lock.
4. `FailureRouter`, `OverrideController`, `LoopCounter`, `TrustState`, composed with
   the core in place of its nondeterministic actions.
5. The retry core of `app/core`, when something fills its plan store.
