--------------------------- MODULE MCTaskServices ---------------------------
(* The automatic replan of a Task and the permissions of its attempts: two   *)
(* components that share no state, each on a small instance of its own. The  *)
(* first state chooses one of them, only that one takes steps, and the other *)
(* rests in its first state: their interleavings would add nothing.          *)
EXTENDS MCGenerationReplan, MCPermission

VARIABLE component   \* the component chosen

TaskServicesInit ==
    /\ component \in {"replan", "permission"}
    /\ InitReplan /\ Init

ReplanStep == component = "replan" /\ NextReplan /\ UNCHANGED << component, vars >>
PermissionStep == component = "permission" /\ Next /\ UNCHANGED << component, replanning >>

TaskServicesNext == ReplanStep \/ PermissionStep

TaskServicesSpec ==
    TaskServicesInit /\ [][TaskServicesNext]_<< component, replanning, vars >>

Interchangeable == InterchangeableSubtasks \cup InterchangeableFlows
=============================================================================
