--------------------------- MODULE MCKernelWorkflow ---------------------------
(***************************************************************************)
(* One task: its execution workflow, a second execution workflow a timer   *)
(* recovery builds for the same task, and its control workflow.  An        *)
(* attempt outcome comes in; a retryable outcome observes a later timer    *)
(* tick; the control event is a cancellation.                              *)
(***************************************************************************)
EXTENDS KernelWorkflow

\* An outcome, the timer its retry observes, and a cancellation.
TaskEvents == {"outcome", "timer", "cancel"}

Outcomes == {"outcome"} \cap Events
ControlEvents == {"cancel"} \cap Events
ExecutionEvents == Events \ ControlEvents

MCActions == {"dispatch", "wait_for_retry", "block_work", "cancel_task"}

MCDecides == [e \in Events |->
  CASE e \in Outcomes -> {"wait_for_retry", "block_work"}
    [] e = "timer"  -> {"dispatch"}
    [] e = "cancel" -> {"cancel_task", "block_work"}]

MCFollows == [e \in Events |-> IF e \in Outcomes THEN {"timer"} \cap Events ELSE {}]

ExecutionActions == {"dispatch", "wait_for_retry", "block_work"}
ControlActions == {"cancel_task", "block_work"}

\* The execution and the control workflow of one task.
TwoWorkflows == {"execution", "control"}
TwoAccepted == [w \in TwoWorkflows |->
                  IF w = "control" THEN ControlEvents ELSE ExecutionEvents]
TwoAcceptedAct == [w \in TwoWorkflows |->
                     IF w = "control" THEN ControlActions ELSE ExecutionActions]
TwoScope == [w \in TwoWorkflows |-> Events]

\* Two execution workflows of one task, as two overlapping calls of execute().
TwinWorkflows == {"execution", "recovery"}
TwinAccepted == [w \in TwinWorkflows |-> ExecutionEvents]
TwinAcceptedAct == [w \in TwinWorkflows |-> ExecutionActions]
TwinScope == [w \in TwinWorkflows |-> Events]

ExternalInputs == Events \ {"timer"}
Orphans == {"outcome"}
=============================================================================
