---------------------------- MODULE LoopOrchestrator ----------------------------
(***************************************************************************)
(* The coordinator of the four K-Dexter loops: the priority queue, the     *)
(* single dispatcher, suspension of Main while Recovery is pending, the    *)
(* Evolution deferral timer, the Rule Ledger lock as the running loop uses *)
(* it, and the watchdog (src/kdexter/loops/concurrency.py).                *)
(*                                                                         *)
(* One asyncio event loop runs everything, so an action is the code        *)
(* between two awaits.  The dispatcher's `wait_for(queue.get(), 1.0)` is   *)
(* two actions under Python 3.11, where wait_for runs get() in a task of   *)
(* its own: the task pops, and the dispatcher resumes a loop iteration     *)
(* later.  From 3.12 on the pop and the resumption are one.                *)
(***************************************************************************)
EXTENDS Naturals, FiniteSets

CONSTANTS
    Tasks,          \* LoopTask objects; each is handed to a trigger at most once
    PriorityOf,     \* LoopTask.priority
    Runnable,       \* the tasks whose coro is not None
    WaitForYields,  \* TRUE: Python 3.11's wait_for; FALSE: 3.12's
    MaxStops,       \* bound: calls of stop()
    NoTask

RECOVERY == 0
MAIN == 1
SELF_IMPROVEMENT == 2
EVOLUTION == 3
LoopPriority == {RECOVERY, MAIN, SELF_IMPROVEMENT, EVOLUTION}

ASSUME TasksAssumption ==
    /\ NoTask \notin Tasks \cup LoopPriority
    /\ PriorityOf \in [Tasks -> LoopPriority]
    /\ Runnable \subseteq Tasks
    /\ WaitForYields \in BOOLEAN
    /\ MaxStops \in Nat

(* A timestamp (None, set, set longer ago than the timeout).               *)
Since == {"none", "recent", "overdue"}

VARIABLES
    triggered,      \* [Tasks -> how the task entered the queue, if it did]
    queue,          \* LoopPriorityQueue._queue
    active,         \* LoopPriorityQueue._active_loops
    mainSuspended,  \* LoopOrchestrator._main_suspended
    resumeEvent,    \* _main_resume_event.is_set()
    mainWaiting,    \* DeadlockDetector._main_waiting_since
    deferred,       \* EvolutionDeferGuard._deferred_since
    ledgerHolder,   \* RuleLedgerLock._holder: LoopPriority, or NoTask for None
    running,        \* LoopOrchestrator._running
    task,           \* the task popped for or held by _dispatch_loop
    dpc,            \* where _dispatch_loop is suspended
    alerts,         \* kinds of OrchestratorEvent given to the override callback
    stops           \* calls of stop() so far (bounds the model)

vars == <<triggered, queue, active, mainSuspended, resumeEvent, mainWaiting,
          deferred, ledgerHolder, running, task, dpc, alerts, stops>>

timers == <<mainWaiting, deferred>>
suspension == <<mainSuspended, resumeEvent, mainWaiting, deferred>>

Init ==
    /\ triggered = [t \in Tasks |-> "no"]
    /\ queue = {}
    /\ active = [p \in LoopPriority |-> FALSE]
    /\ mainSuspended = FALSE
    /\ resumeEvent = TRUE
    /\ mainWaiting = "none"
    /\ deferred = "none"
    /\ ledgerHolder = NoTask
    /\ running = FALSE
    /\ task = NoTask
    /\ dpc = "off"
    /\ alerts = {}
    /\ stops = 0

------------------------------------------------------------------------------
(* start() is called once, or again after stop() has returned.  stop()     *)
(* cancels the dispatcher wherever it is: in the dequeue nothing is lost   *)
(* (wait_for returns an item it has already taken instead of raising), a   *)
(* Main task waiting for the resume event is dropped, and a running        *)
(* coroutine ends through its finally clause.                              *)

Start ==
    /\ ~running /\ dpc = "off"
    /\ running' = TRUE
    /\ dpc' = "dequeue"
    /\ UNCHANGED <<triggered, queue, active, suspension, ledgerHolder, task,
                   alerts, stops>>

(* A slip the runs must catch: the resume event is left clear.             *)
ResumeMainNoEvent ==
    /\ mainSuspended' = FALSE
    /\ mainWaiting' = "none"
    /\ deferred' = "none"
    /\ UNCHANGED resumeEvent

ResumeMain ==
    IF mainSuspended
    THEN /\ mainSuspended' = FALSE
         /\ resumeEvent' = TRUE
         /\ mainWaiting' = "none"
         /\ deferred' = "none"
    ELSE UNCHANGED suspension

(* Slips the runs must catch: Main resumes after any loop but Recovery; a  *)
(* finished task is still held.                                            *)
FinishTaskResumesOthers ==
    /\ active' = [active EXCEPT ![PriorityOf[task]] = FALSE]
    /\ ledgerHolder' = NoTask
    /\ task' = NoTask
    /\ IF PriorityOf[task] # RECOVERY THEN ResumeMain ELSE UNCHANGED suspension

FinishTaskKeepsTask ==
    /\ active' = [active EXCEPT ![PriorityOf[task]] = FALSE]
    /\ ledgerHolder' = NoTask
    /\ UNCHANGED task
    /\ IF PriorityOf[task] = RECOVERY THEN ResumeMain ELSE UNCHANGED suspension

(* The finally clause of the dispatcher; the coroutine has released the    *)
(* ledger lock in its own.                                                 *)
FinishTask ==
    /\ active' = [active EXCEPT ![PriorityOf[task]] = FALSE]
    /\ ledgerHolder' = NoTask
    /\ task' = NoTask
    /\ IF PriorityOf[task] = RECOVERY THEN ResumeMain ELSE UNCHANGED suspension

Stop ==
    /\ running /\ stops < MaxStops
    /\ running' = FALSE
    /\ stops' = stops + 1
    /\ \/ /\ dpc = "dequeue"
          /\ dpc' = "off"
          /\ UNCHANGED <<active, suspension, ledgerHolder, task>>
       \/ /\ dpc = "taken"
          /\ UNCHANGED <<active, suspension, ledgerHolder, task, dpc>>
       \/ /\ dpc = "mainWait"
          /\ dpc' = "off"
          /\ task' = NoTask
          /\ UNCHANGED <<active, suspension, ledgerHolder>>
       \/ /\ dpc = "coro"
          /\ dpc' = "off"
          /\ FinishTask
    /\ UNCHANGED <<triggered, queue, alerts>>

------------------------------------------------------------------------------
(* The public triggers, called by any other coroutine.                     *)

SuspendMain ==
    /\ mainSuspended' = TRUE
    /\ resumeEvent' = FALSE
    /\ mainWaiting' = IF mainSuspended THEN mainWaiting
                      ELSE IF mainWaiting = "none" THEN "recent" ELSE mainWaiting

TriggerRecovery(t) ==
    /\ triggered[t] = "no" /\ PriorityOf[t] = RECOVERY
    /\ SuspendMain
    /\ deferred' = IF active[EVOLUTION] /\ deferred = "none" THEN "recent"
                   ELSE deferred
    /\ queue' = queue \cup {t}
    /\ triggered' = [triggered EXCEPT ![t] = "recovery"]
    /\ UNCHANGED <<active, ledgerHolder, running, task, dpc, alerts, stops>>

TriggerLoop(t) ==
    /\ triggered[t] = "no"
    /\ queue' = queue \cup {t}
    /\ triggered' = [triggered EXCEPT ![t] = "loop"]
    /\ UNCHANGED <<active, suspension, ledgerHolder, running, task, dpc, alerts,
                   stops>>

------------------------------------------------------------------------------
(* The dispatcher.                                                         *)

(* The heap orders on priority alone: any task of the least priority.      *)
Least(t) == t \in queue /\ \A u \in queue : PriorityOf[t] <= PriorityOf[u]

BeginCoro(t) ==
    /\ active' = [active EXCEPT ![PriorityOf[t]] = TRUE]
    /\ task' = t
    /\ dpc' = "coro"

AfterTask == IF running THEN "dequeue" ELSE "off"

(* A slip the runs must catch: Main does not wait for the resume event.    *)
AcceptAtOnce(t) ==
    IF t \in Runnable
    THEN BeginCoro(t)
    ELSE task' = NoTask /\ dpc' = AfterTask /\ UNCHANGED active

(* From the return of wait_for to the dispatcher's next suspension point.  *)
(* No action leaves "mainWait" but Stop: the event is set by the           *)
(* dispatcher alone, in FinishTask (SuspensionConsistent states it).       *)
Accept(t) ==
    \/ /\ PriorityOf[t] = MAIN /\ ~resumeEvent
       /\ task' = t
       /\ dpc' = "mainWait"
       /\ UNCHANGED active
    \/ /\ PriorityOf[t] # MAIN \/ resumeEvent
       /\ t \in Runnable
       /\ BeginCoro(t)
    \/ /\ PriorityOf[t] # MAIN \/ resumeEvent
       /\ t \notin Runnable
       /\ task' = NoTask
       /\ dpc' = AfterTask
       /\ UNCHANGED active

Dequeue(t) ==
    /\ dpc = "dequeue" /\ Least(t)
    /\ queue' = queue \ {t}
    /\ IF WaitForYields
       THEN task' = t /\ dpc' = "taken" /\ UNCHANGED active
       ELSE Accept(t)
    /\ UNCHANGED <<triggered, suspension, ledgerHolder, running, alerts, stops>>

Deliver ==
    /\ dpc = "taken"
    /\ Accept(task)
    /\ UNCHANGED <<triggered, queue, suspension, ledgerHolder, running, alerts,
                   stops>>

(* The coroutine returns or raises: the dispatcher logs and goes on.       *)
Finish ==
    /\ dpc = "coro"
    /\ FinishTask
    /\ dpc' = AfterTask
    /\ UNCHANGED <<triggered, queue, running, alerts, stops>>

(* The running loop's critical section on the Rule Ledger.                 *)
AcquireLedger ==
    /\ dpc = "coro" /\ ledgerHolder = NoTask
    /\ ledgerHolder' = PriorityOf[task]
    /\ UNCHANGED <<triggered, queue, active, suspension, running, task, dpc,
                   alerts, stops>>

ReleaseLedger ==
    /\ dpc = "coro" /\ ledgerHolder # NoTask
    /\ ledgerHolder' = NoTask
    /\ UNCHANGED <<triggered, queue, active, suspension, running, task, dpc,
                   alerts, stops>>

------------------------------------------------------------------------------
(* Time and the watchdog.                                                  *)

Elapse ==
    /\ \/ mainWaiting = "recent" /\ mainWaiting' = "overdue" /\ UNCHANGED deferred
       \/ deferred = "recent" /\ deferred' = "overdue" /\ UNCHANGED mainWaiting
    /\ UNCHANGED <<triggered, queue, active, mainSuspended, resumeEvent,
                   ledgerHolder, running, task, dpc, alerts, stops>>

(* A slip the runs must catch: the detector asks for another holder.       *)
DeadlockDetectedMain == ledgerHolder = MAIN /\ mainWaiting = "overdue"

DeadlockDetected == ledgerHolder = RECOVERY /\ mainWaiting = "overdue"

WatchdogPoll ==
    /\ running
    /\ DeadlockDetected \/ deferred = "overdue"
    /\ alerts' = alerts
          \cup (IF DeadlockDetected THEN {"DEADLOCK"} ELSE {})
          \cup (IF deferred = "overdue" THEN {"EVOLUTION_DEFER_EXCEEDED"} ELSE {})
    /\ UNCHANGED <<triggered, queue, active, suspension, ledgerHolder, running,
                   task, dpc, stops>>

Dispatcher == \/ \E t \in Tasks : Dequeue(t)
              \/ Deliver \/ Finish

Next ==
    \/ Start \/ Stop
    \/ \E t \in Tasks : TriggerRecovery(t) \/ TriggerLoop(t)
    \/ Dispatcher
    \/ AcquireLedger \/ ReleaseLedger
    \/ Elapse \/ WatchdogPoll

Spec == Init /\ [][Next]_vars

(* The event loop runs every ready callback.  Whether coroutines terminate *)
(* is left to the properties.  Nothing is assumed of the owner: start(),   *)
(* stop() and the triggers may never be called, or never again.            *)
FairSpec == Spec /\ WF_vars(Deliver) /\ WF_vars(\E t \in Tasks : Dequeue(t))
                 /\ WF_vars(Elapse) /\ WF_vars(WatchdogPoll)

------------------------------------------------------------------------------
Dispatched == {"taken", "mainWait", "coro"}

(* Types; and the dispatcher holds a task exactly between its dequeue and  *)
(* its task_done().                                                        *)
TypeOK ==
    /\ triggered \in [Tasks -> {"no", "loop", "recovery"}]
    /\ queue \subseteq Tasks
    /\ active \in [LoopPriority -> BOOLEAN]
    /\ mainSuspended \in BOOLEAN
    /\ resumeEvent \in BOOLEAN
    /\ mainWaiting \in Since
    /\ deferred \in Since
    /\ ledgerHolder \in LoopPriority \cup {NoTask}
    /\ running \in BOOLEAN
    /\ task \in Tasks \cup {NoTask}
    /\ dpc \in {"off", "dequeue"} \cup Dispatched
    /\ alerts \subseteq {"DEADLOCK", "EVOLUTION_DEFER_EXCEEDED"}
    /\ stops \in 0..MaxStops
    /\ task \in Tasks <=> dpc \in Dispatched

(* The flag, the event the dispatcher waits on and the watchdog's two      *)
(* timers describe one suspension: none of them outlives it, whatever the  *)
(* order of triggers, completions, cancellations and restarts.  While the  *)
(* dispatcher waits for the event, the event stays clear.                  *)
SuspensionConsistent ==
    /\ resumeEvent <=> ~mainSuspended
    /\ mainSuspended <=> mainWaiting # "none"
    /\ deferred # "none" => mainSuspended
    /\ dpc = "mainWait" => ~resumeEvent

(* Main is suspended only while a Recovery task is queued or dispatched:   *)
(* no shutdown, restart or second Recovery leaves Main suspended with      *)
(* nobody to resume it (assuming Recovery tasks carry a coroutine).        *)
RecoveryPending ==
    \E t \in Tasks : /\ PriorityOf[t] = RECOVERY
                     /\ t \in queue \/ t = task

NoOrphanSuspension == mainSuspended => RecoveryPending

(* Main's coroutine starts only while Main is not suspended and no task    *)
(* given to trigger_recovery is still queued, even if it was triggered     *)
(* after the dispatcher had already popped the Main task.                  *)
MainStarts == dpc # "coro" /\ dpc' = "coro" /\ PriorityOf[task'] = MAIN

MainStartsClear ==
    [][MainStarts => /\ ~mainSuspended
                     /\ \A t \in queue : triggered[t] # "recovery"]_vars

(* "Suspends Main loop until Recovery completes": if coroutines terminate, *)
(* a suspension ends while the orchestrator runs.                          *)
MainResumes ==
    WF_vars(Finish) => (mainSuspended /\ running ~> ~mainSuspended \/ ~running)

(* Short of a Main task popped before the suspension, for which the        *)
(* dispatcher waits in _main_resume_event.wait(), nothing keeps Main       *)
(* suspended while the orchestrator runs: no further Recovery, no task     *)
(* cancelled by an earlier stop() and no restart in the middle of a        *)
(* suspension.  A stop() with a Recovery queued does keep Main suspended,  *)
(* until the owner calls start() again.                                    *)
ResumesUnlessHeld ==
    WF_vars(Finish) =>
        (mainSuspended /\ running
            ~> ~mainSuspended \/ dpc = "mainWait" \/ ~running)

(* A Recovery loop that keeps the Rule Ledger lock while Main stays        *)
(* suspended is reported to the human override callback, though it may     *)
(* never return.                                                           *)
DeadlockReported ==
    <>[](running /\ mainSuspended /\ ledgerHolder = RECOVERY)
        => <>("DEADLOCK" \in alerts)
=============================================================================
