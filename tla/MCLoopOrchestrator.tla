--------------------------- MODULE MCLoopOrchestrator ---------------------------
(* Small instances of LoopOrchestrator for TLC: two Recovery tasks, two    *)
(* Main tasks (one of them without a coroutine) and an Evolution task.     *)
EXTENDS LoopOrchestrator, TLC

CONSTANTS r1, r2, m1, m2, e1

MCTasks == {r1, r2, m1, m2, e1}
MCPriority == (r1 :> RECOVERY) @@ (r2 :> RECOVERY) @@ (m1 :> MAIN)
                @@ (m2 :> MAIN) @@ (e1 :> EVOLUTION)
MCRunnable == {r1, r2, m1, e1}
=============================================================================
