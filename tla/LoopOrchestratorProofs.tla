------------------------- MODULE LoopOrchestratorProofs -------------------------
(* Safety of the loop coordinator, for every set of tasks, either wait_for *)
(* and any number of shutdowns.                                            *)
EXTENDS LoopOrchestrator, TLAPS

(* The caller's obligation: a task given to trigger_recovery has a coro.   *)
RecoveryRunnable ==
    \A t \in Tasks : PriorityOf[t] = RECOVERY => t \in Runnable

(* Only a Main task waits for the resume event.                            *)
OnlyMainWaits == dpc = "mainWait" => PriorityOf[task] = MAIN

(* trigger_recovery is for Recovery tasks.                                 *)
TriggerPriority ==
    \A t \in Tasks : triggered[t] = "recovery" => PriorityOf[t] = RECOVERY

(* A Main task popped before a recovery was triggered is held back.        *)
HeldMainWaits ==
    dpc \in {"taken", "mainWait"} /\ PriorityOf[task] = MAIN
        => \A t \in queue : triggered[t] = "recovery" => mainSuspended

IInv == TypeOK /\ OnlyMainWaits /\ TriggerPriority /\ SuspensionConsistent /\ HeldMainWaits

------------------------------------------------------------------------------
LEMMA InitIInv == Init => IInv
  <1> SUFFICES ASSUME Init PROVE IInv
    OBVIOUS
  <1>0. stops \in 0..MaxStops
    BY TasksAssumption DEF Init
  <1>1. TypeOK
    BY <1>0, TasksAssumption, Zenon DEF Init, TypeOK, Since, Dispatched
  <1>2. OnlyMainWaits
    BY TasksAssumption DEF Init, OnlyMainWaits, Dispatched
  <1>3. TriggerPriority /\ SuspensionConsistent /\ HeldMainWaits
    BY DEF Init, TriggerPriority, SuspensionConsistent, HeldMainWaits
  <1>. QED
    BY <1>1, <1>2, <1>3 DEF IInv

LEMMA FinishTaskIInv ==
  ASSUME IInv, dpc = "coro", FinishTask, dpc' \in {"off", "dequeue"},
         UNCHANGED <<triggered, queue, alerts>>,
         running' \in BOOLEAN, stops' \in 0..MaxStops
  PROVE  IInv'
  <1>1. TypeOK'
    BY TasksAssumption DEF IInv, TypeOK, FinishTask, ResumeMain, suspension,
                           Since, Dispatched
  <1>2. OnlyMainWaits'
    BY TasksAssumption DEF IInv, TypeOK, OnlyMainWaits, FinishTask, Dispatched
  <1>3. SuspensionConsistent'
    BY DEF IInv, TypeOK, SuspensionConsistent, FinishTask, ResumeMain, suspension
  <1>4. TriggerPriority' /\ HeldMainWaits'
    BY DEF IInv, TriggerPriority, HeldMainWaits
  <1>. QED
    BY <1>1, <1>2, <1>3, <1>4 DEF IInv

LEMMA AcceptIInv ==
  ASSUME IInv, NEW t \in Tasks, Accept(t),
         UNCHANGED <<triggered, suspension, ledgerHolder, running, alerts, stops>>,
         queue' \subseteq queue,
         PriorityOf[t] = MAIN =>
            \A u \in queue' : triggered[u] = "recovery" => mainSuspended
  PROVE  IInv'
  <1>1. TypeOK'
    BY TasksAssumption DEF IInv, TypeOK, Accept, BeginCoro, AfterTask, Dispatched,
                           suspension, Since
  <1>2. OnlyMainWaits'
    BY TasksAssumption DEF IInv, TypeOK, OnlyMainWaits, Accept, BeginCoro, AfterTask, Dispatched
  <1>3. SuspensionConsistent' /\ TriggerPriority'
    BY DEF IInv, SuspensionConsistent, TriggerPriority, Accept, BeginCoro, AfterTask,
           suspension
  <1>4. HeldMainWaits'
    BY DEF IInv, HeldMainWaits, Accept, BeginCoro, AfterTask, suspension
  <1>. QED
    BY <1>1, <1>2, <1>3, <1>4 DEF IInv

LEMMA NextIInv == IInv /\ [Next]_vars => IInv'
  <1> SUFFICES ASSUME IInv, [Next]_vars PROVE IInv'
    OBVIOUS
  <1>1. CASE Start
    BY <1>1, TasksAssumption
       DEF Start, IInv, TypeOK, OnlyMainWaits, TriggerPriority, SuspensionConsistent,
           HeldMainWaits, suspension, Dispatched
  <1>2. CASE Stop
    <2>1. CASE dpc = "coro"
      <3>1. FinishTask /\ dpc' = "off" /\ UNCHANGED <<triggered, queue, alerts>>
        BY <1>2, <2>1 DEF Stop
      <3>2. running' \in BOOLEAN /\ stops' \in 0..MaxStops
        <4>1. running' = FALSE /\ stops < MaxStops /\ stops' = stops + 1
          BY <1>2 DEF Stop
        <4>2. stops' \in 0..MaxStops
          BY <4>1, TasksAssumption DEF IInv, TypeOK
        <4>. QED
          BY <4>1, <4>2
      <3>. QED
        BY <2>1, <3>1, <3>2, FinishTaskIInv
    <2>2. CASE dpc # "coro"
      <3>. UNCHANGED <<triggered, queue, active, suspension, ledgerHolder, alerts>>
           /\ running' = FALSE /\ stops < MaxStops /\ stops' = stops + 1
           /\ \/ dpc' = "off" /\ dpc # "taken" /\ task' = NoTask
              \/ dpc' = "off" /\ dpc = "dequeue" /\ task' = task
              \/ UNCHANGED <<dpc, task>>
        BY <1>2, <2>2 DEF Stop
      <3>0. stops' \in 0..MaxStops
        BY TasksAssumption DEF IInv, TypeOK
      <3>1. TypeOK'
        BY <3>0, TasksAssumption DEF IInv, TypeOK, suspension, Dispatched
      <3>2. OnlyMainWaits'
        BY TasksAssumption DEF IInv, TypeOK, OnlyMainWaits, Dispatched
      <3>3. SuspensionConsistent' /\ TriggerPriority' /\ HeldMainWaits'
        BY DEF IInv, OnlyMainWaits, SuspensionConsistent, TriggerPriority, HeldMainWaits,
               suspension, Dispatched
      <3>. QED
        BY <3>1, <3>2, <3>3 DEF IInv
    <2>. QED
      BY <2>1, <2>2
  <1>3. ASSUME NEW t \in Tasks, TriggerRecovery(t) PROVE IInv'
    <2>1. TypeOK'
      BY <1>3 DEF TriggerRecovery, SuspendMain, IInv, TypeOK, Since
    <2>2. OnlyMainWaits' /\ TriggerPriority'
      BY <1>3 DEF TriggerRecovery, IInv, TypeOK, OnlyMainWaits, TriggerPriority
    <2>3. SuspensionConsistent'
      BY <1>3 DEF TriggerRecovery, SuspendMain, IInv, TypeOK, Since, SuspensionConsistent
    <2>4. HeldMainWaits'
      BY <1>3 DEF TriggerRecovery, SuspendMain, HeldMainWaits
    <2>. QED
      BY <2>1, <2>2, <2>3, <2>4 DEF IInv
  <1>4. ASSUME NEW t \in Tasks, TriggerLoop(t) PROVE IInv'
    <2>1. TypeOK' /\ OnlyMainWaits' /\ TriggerPriority' /\ SuspensionConsistent'
      BY <1>4 DEF TriggerLoop, IInv, TypeOK, OnlyMainWaits, TriggerPriority,
                  SuspensionConsistent, suspension
    <2>2. HeldMainWaits'
      BY <1>4 DEF TriggerLoop, IInv, TypeOK, HeldMainWaits, suspension
    <2>. QED
      BY <2>1, <2>2 DEF IInv
  <1>5. ASSUME NEW t \in Tasks, Dequeue(t) PROVE IInv'
    <2>1. PriorityOf[t] = MAIN => \A u \in queue : triggered[u] # "recovery"
      BY <1>5, TasksAssumption
         DEF Dequeue, Least, IInv, TypeOK, TriggerPriority, RECOVERY, MAIN
    <2>2. CASE WaitForYields
      BY <1>5, <2>1, <2>2, TasksAssumption
         DEF Dequeue, IInv, TypeOK, OnlyMainWaits, TriggerPriority, SuspensionConsistent,
             HeldMainWaits, suspension, Dispatched
    <2>3. CASE ~WaitForYields
      BY <1>5, <2>1, <2>3, AcceptIInv DEF Dequeue
    <2>. QED
      BY <2>2, <2>3
  <1>6. CASE Deliver
    <2>1. task \in Tasks
      BY <1>6 DEF Deliver, IInv, TypeOK, Dispatched
    <2>2. PriorityOf[task] = MAIN =>
            \A u \in queue : triggered[u] = "recovery" => mainSuspended
      BY <1>6 DEF Deliver, IInv, HeldMainWaits
    <2>. QED
      BY <1>6, <2>1, <2>2, AcceptIInv DEF Deliver
  <1>7. CASE Finish
    BY <1>7, FinishTaskIInv DEF Finish, AfterTask, IInv, TypeOK
  <1>8. CASE AcquireLedger
    BY <1>8, TasksAssumption
       DEF AcquireLedger, IInv, TypeOK, OnlyMainWaits, TriggerPriority, SuspensionConsistent,
           HeldMainWaits, suspension, Dispatched
  <1>9. CASE ReleaseLedger
    BY <1>9
       DEF ReleaseLedger, IInv, TypeOK, OnlyMainWaits, TriggerPriority, SuspensionConsistent,
           HeldMainWaits, suspension
  <1>10. CASE Elapse
    BY <1>10
       DEF Elapse, IInv, TypeOK, Since, OnlyMainWaits, TriggerPriority, SuspensionConsistent,
           HeldMainWaits
  <1>11. CASE WatchdogPoll
    BY <1>11
       DEF WatchdogPoll, IInv, TypeOK, OnlyMainWaits, TriggerPriority, SuspensionConsistent,
           HeldMainWaits, suspension
  <1>12. CASE UNCHANGED vars
    BY <1>12
       DEF vars, IInv, TypeOK, OnlyMainWaits, TriggerPriority, SuspensionConsistent,
           HeldMainWaits
  <1>. QED
    BY <1>1, <1>2, <1>3, <1>4, <1>5, <1>6, <1>7, <1>8, <1>9, <1>10, <1>11, <1>12
       DEF Next, Dispatcher

LEMMA SpecIInv == Spec => []IInv
  BY InitIInv, NextIInv, PTL DEF Spec

------------------------------------------------------------------------------
(* The coordinator's state is well typed in every reachable state.         *)
THEOREM TypeCorrect == Spec => []TypeOK
  <1>1. IInv => TypeOK
    BY DEF IInv
  <1>. QED
    BY <1>1, SpecIInv, PTL

(* The suspension flag, the resume event and both timers stay in step      *)
(* through any order of triggers, completions, shutdowns and restarts.     *)
THEOREM SuspensionIsConsistent == Spec => []SuspensionConsistent
  <1>1. IInv => SuspensionConsistent
    BY DEF IInv
  <1>. QED
    BY <1>1, SpecIInv, PTL

(* Main's coroutine never starts while Main is suspended or a triggered    *)
(* Recovery is still queued.                                               *)
THEOREM MainStartsOnlyWhenClear == Spec => MainStartsClear
  <1>1. IInv /\ [Next]_vars =>
          [MainStarts => /\ ~mainSuspended
                         /\ \A t \in queue : triggered[t] # "recovery"]_vars
    <2> SUFFICES ASSUME IInv, Next, MainStarts
                 PROVE  /\ ~mainSuspended
                        /\ \A t \in queue : triggered[t] # "recovery"
      OBVIOUS
    <2>1. \/ \E t \in Tasks : Dequeue(t) /\ Accept(t)
          \/ Deliver
      BY DEF Next, Dispatcher, MainStarts, Start, Stop, TriggerRecovery, TriggerLoop,
             Dequeue, Finish, AfterTask, AcquireLedger, ReleaseLedger, Elapse,
             WatchdogPoll
    <2>2. CASE \E t \in Tasks : Dequeue(t) /\ Accept(t)
      <3>1. PICK t \in Tasks : Dequeue(t) /\ Accept(t)
        BY <2>2
      <3>2. PriorityOf[t] = MAIN /\ resumeEvent
        BY <3>1 DEF Accept, BeginCoro, AfterTask, MainStarts
      <3>3. \A u \in queue : triggered[u] # "recovery"
        BY <3>1, <3>2, TasksAssumption
           DEF Dequeue, Least, IInv, TypeOK, TriggerPriority, RECOVERY, MAIN
      <3>. QED
        BY <3>2, <3>3 DEF IInv, SuspensionConsistent
    <2>3. CASE Deliver
      BY <2>3 DEF Deliver, Accept, BeginCoro, AfterTask, MainStarts, IInv,
                  SuspensionConsistent, HeldMainWaits
    <2>. QED
      BY <2>1, <2>2, <2>3
  <1>. QED
    BY <1>1, SpecIInv, PTL DEF Spec, MainStartsClear

(* If Recovery tasks carry a coroutine, Main is suspended only while one   *)
(* of them is queued or dispatched.                                        *)
THEOREM SuspensionIsNeverOrphaned ==
  ASSUME RecoveryRunnable
  PROVE  Spec => []NoOrphanSuspension
  <1>1. Init => NoOrphanSuspension
    BY DEF Init, NoOrphanSuspension
  <1>2. IInv /\ NoOrphanSuspension /\ [Next]_vars => NoOrphanSuspension'
    <2> SUFFICES ASSUME IInv, NoOrphanSuspension, [Next]_vars, mainSuspended'
                 PROVE  RecoveryPending'
      BY DEF NoOrphanSuspension
    <2>1. CASE Stop
      <3>1. queue' = queue /\ mainSuspended
        BY <2>1 DEF Stop, FinishTask, ResumeMain, suspension
      <3>2. PICK u \in Tasks : PriorityOf[u] = RECOVERY /\ (u \in queue \/ u = task)
        BY <3>1 DEF NoOrphanSuspension, RecoveryPending
      <3>3. u = task => dpc \in {"taken", "coro"}
        BY <3>2 DEF IInv, TypeOK, OnlyMainWaits, Dispatched, RECOVERY, MAIN
      <3>4. dpc = "coro" => PriorityOf[task] # RECOVERY
        <4>1. dpc = "coro" => FinishTask
          BY <2>1 DEF Stop
        <4>. QED
          BY <3>1, <4>1 DEF FinishTask, ResumeMain
      <3>5. u \in queue' \/ u = task'
        BY <2>1, <3>1, <3>2, <3>3, <3>4 DEF Stop
      <3>. QED
        BY <3>2, <3>5 DEF RecoveryPending
    <2>2. ASSUME NEW t \in Tasks, TriggerRecovery(t) PROVE RecoveryPending'
      BY <2>2 DEF TriggerRecovery, RecoveryPending
    <2>3. ASSUME NEW t \in Tasks, TriggerLoop(t) PROVE RecoveryPending'
      BY <2>3 DEF TriggerLoop, suspension, NoOrphanSuspension, RecoveryPending
    <2>4. ASSUME NEW t \in Tasks, Dequeue(t) PROVE RecoveryPending'
      <3>1. task \notin Tasks /\ mainSuspended
        BY <2>4 DEF Dequeue, IInv, TypeOK, Dispatched, suspension
      <3>2. PICK u \in Tasks : PriorityOf[u] = RECOVERY /\ u \in queue
        BY <3>1 DEF NoOrphanSuspension, RecoveryPending
      <3>3. CASE u = t
        BY <2>4, <3>2, <3>3
           DEF Dequeue, Accept, BeginCoro, RecoveryPending, RecoveryRunnable, RECOVERY, MAIN
      <3>4. CASE u # t
        BY <2>4, <3>2, <3>4 DEF Dequeue, RecoveryPending
      <3>. QED
        BY <3>3, <3>4
    <2>5. CASE Deliver
      BY <2>5 DEF Deliver, Accept, BeginCoro, suspension, NoOrphanSuspension,
                  RecoveryPending, RecoveryRunnable
    <2>6. CASE Finish
      BY <2>6 DEF Finish, FinishTask, ResumeMain, suspension, NoOrphanSuspension,
                  RecoveryPending
    <2>7. CASE Start \/ AcquireLedger \/ ReleaseLedger \/ Elapse \/ WatchdogPoll
               \/ UNCHANGED vars
      BY <2>7 DEF Start, AcquireLedger, ReleaseLedger, Elapse, WatchdogPoll, vars,
                  suspension, NoOrphanSuspension, RecoveryPending
    <2>. QED
      BY <2>1, <2>2, <2>3, <2>4, <2>5, <2>6, <2>7 DEF Next, Dispatcher
  <1>. QED
    BY <1>1, <1>2, SpecIInv, PTL DEF Spec
(* The dispatcher holds no task that it has popped and not yet started.    *)
NothingHeld == dpc \notin {"taken", "mainWait"}

(* Where wait_for pops and resumes in one step (Python 3.12), the          *)
(* dispatcher never holds a Main task back: a suspension keeps a Recovery  *)
(* task queued, and it is dequeued first.  The wait that never ends, the   *)
(* counterexample to MainResumes, needs the two steps of Python 3.11.      *)
THEOREM OneStepWaitNeverHoldsMain ==
  ASSUME RecoveryRunnable, ~WaitForYields
  PROVE  Spec => []NothingHeld
  <1>1. Init => NothingHeld
    BY DEF Init, NothingHeld
  <1>2. IInv /\ NoOrphanSuspension /\ NothingHeld /\ [Next]_vars => NothingHeld'
    <2> SUFFICES ASSUME IInv, NoOrphanSuspension, NothingHeld, [Next]_vars
                 PROVE  NothingHeld'
      OBVIOUS
    <2>1. ASSUME NEW t \in Tasks, Dequeue(t) PROVE NothingHeld'
      <3>1. PriorityOf[t] # MAIN \/ resumeEvent
        <4> SUFFICES ASSUME PriorityOf[t] = MAIN, ~resumeEvent PROVE FALSE
          OBVIOUS
        <4>1. mainSuspended /\ task \notin Tasks
          BY <2>1 DEF Dequeue, IInv, TypeOK, SuspensionConsistent, Dispatched
        <4>2. PICK u \in Tasks : PriorityOf[u] = RECOVERY /\ u \in queue
          BY <4>1 DEF NoOrphanSuspension, RecoveryPending
        <4>3. PriorityOf[t] <= PriorityOf[u]
          BY <2>1, <4>2 DEF Dequeue, Least
        <4>. QED
          BY <4>2, <4>3 DEF RECOVERY, MAIN
      <3>. QED
        BY <2>1, <3>1 DEF NothingHeld, Dequeue, Accept, BeginCoro, AfterTask
    <2>2. CASE Start \/ Stop
      BY <2>2 DEF NothingHeld, Start, Stop
    <2>3. ASSUME NEW t \in Tasks, TriggerRecovery(t) \/ TriggerLoop(t) PROVE NothingHeld'
      BY <2>3 DEF NothingHeld, TriggerRecovery, TriggerLoop
    <2>4. CASE Deliver \/ Finish
      BY <2>4 DEF NothingHeld, Deliver, Finish, AfterTask
    <2>5. CASE AcquireLedger \/ ReleaseLedger \/ Elapse \/ WatchdogPoll \/ UNCHANGED vars
      BY <2>5 DEF NothingHeld, AcquireLedger, ReleaseLedger, Elapse, WatchdogPoll, vars
    <2>. QED
      BY <2>1, <2>2, <2>3, <2>4, <2>5 DEF Next, Dispatcher
  <1>3. Spec => []NoOrphanSuspension
    BY SuspensionIsNeverOrphaned
  <1>. QED
    BY <1>1, <1>2, <1>3, SpecIInv, PTL DEF Spec
=============================================================================
