----------------------------- MODULE MCTaskTimer -----------------------------
(* Two execution workflows of one Task, as overlapping calls of execute(): an  *)
(* outcome whose retry blocks the Task and waits for a timer, or blocks it.    *)
EXTENDS TaskTimer, MCKernelWorkflow

BlockingActions == {"wait_for_retry", "block_work"}
===============================================================================
