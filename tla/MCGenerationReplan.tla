------------------------ MODULE MCGenerationReplan ------------------------
(* GenerationReplan with two interchangeable Subtasks.                     *)
EXTENDS GenerationReplan, TLC

InterchangeableSubtasks == Permutations(Subtasks)
=============================================================================
