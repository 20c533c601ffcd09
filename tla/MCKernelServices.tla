--------------------------- MODULE MCKernelServices ---------------------------
(* The execution and the control workflow of one task, and five components   *)
(* that share no state with them or with each other: the storage of          *)
(* workspaces, the registration of Executors, a chat, the admission of plans *)
(* and the delivery of evidence and handoffs. The first state chooses one,   *)
(* only that one takes steps, and the others rest in their first state:      *)
(* their interleavings would add nothing.                                    *)
EXTENDS MCKernelWorkflow, WorkspaceStorage, ExecutorRegistry, FeishuGateway,
        PlanAdmission, SubtaskDelivery, TLC

CONSTANTS one, two, red, blue,   \* interchangeable, in pairs
          three, four, five

VARIABLE component   \* the component chosen

-----------------------------------------------------------------------------
(* Three workspaces of two Tasks, which may have objects in common.          *)
TwoTasks == [w1 |-> "t1", w2 |-> "t1", w3 |-> "t2"]

(* Two texts and a file or a verdict in one chat; the first one comes twice. *)
MessageMixes ==
    { [kinds |-> [a |-> "text", b |-> "text", c |-> "file"], auto |-> TRUE],
      [kinds |-> [a |-> "text", b |-> "text", c |-> "verdict"], auto |-> FALSE] }

(* A session and a command line process, and two Executors.                  *)
TwoHosts == {[a |-> "session", b |-> "cli"]}

(* Six graphs of three Subtasks: chains and joins whose contracts need one *)
(* class or two, a citation across revisions, a cycle and a ghost.           *)
Graph(a, b, c) == [a |-> a, b |-> b, c |-> c]
Code == [needs |-> {"code"}, list |-> << "e1", "e2" >>]
Web == [needs |-> {"web"}, list |-> << "e2" >>]
Narrow == [needs |-> {"code"}, list |-> << "e1" >>]
PlanOf(deps, contracts, cites) == [deps |-> deps, contracts |-> contracts, cites |-> cites]
Chain == Graph({}, {"a"}, {"b"})
Join == Graph({}, {}, {"a", "b"})
Skills == [e1 |-> {"code"}, e2 |-> {"code", "web"}]
Graphs ==
    { PlanOf(Chain, Graph(Code, Web, Code), {}),
      PlanOf(Join, Graph(Code, Web, Code), {}),
      PlanOf(Join, Graph(Code, Code, Code), {<< 1, "a" >>}),
      PlanOf(Join, Graph(Code, Narrow, Code), {}),
      PlanOf(Graph({}, {"c"}, {"b"}), Graph(Code, Web, Code), {}),
      PlanOf(Graph({}, {"ghost"}, {"a"}), Graph(Code, Web, Code), {}) }

(* Two Tasks that cite one interaction; three Subtasks hand on to a fourth,  *)
(* just within its limits or just beyond; two resources of one name.         *)
Text(k) == [key |-> k, type |-> "text"]
Texts == << Text("k1"), Text("k2"), Text("k3") >>
Ref(k, x) == [kind |-> k, source |-> x]
Response(markers, body, report, produced) ==
    [markers |-> markers, body |-> body, report |-> report, files |-> produced]
HandingTasks == one :> "t1" @@ two :> "t1" @@ three :> "t1" @@ four :> "t1" @@ five :> "t2"
Contracts ==
    (<< three, four >> :> << Text("k1"), Text("k2"), [key |-> "k3", type |-> "artifact"] >>)
    @@ (<< one, four >> :> Texts) @@ (<< two, four >> :> Texts)
Cited ==
    three :> << Ref("current_user_input", "t1"), Ref("assistant_interaction", "i") >>
    @@ one :> << >> @@ two :> << >>
    @@ four :> << Ref("preference", "p"), Ref("task_resource", "r2") >>
    @@ five :> << Ref("user_interaction", "i"), Ref("task_resource", "r1") >>
TaskResources == [t1 |-> << "r1", "r2" >>, t2 |-> << "r1" >>]
TaskInteractions == [t1 |-> << "i" >>, t2 |-> << >>]
TaskPreferences == [t1 |-> << >>, t2 |-> << "p" >>]
TaskQuotes == [t1 |-> {"i"}, t2 |-> {}]
FileName ==
    [i |-> "i", p |-> "p", r1 |-> "r", r2 |-> "r", t1 |-> "t1", t2 |-> "t2"]
ExecutorResponses ==
    { Response(1, 4, "completed", {"file"}), Response(1, 1, "completed", {"file", "alias"}),
      Response(1, 1, "completed", {"escapes"}), Response(1, 4, "completed", {}),
      Response(1, 1, "failed", {}) }
-----------------------------------------------------------------------------
KernelServicesInit ==
    /\ component \in {"workflow", "storage", "registry", "chat", "admission", "delivery"}
    /\ Init /\ InitStorage /\ InitRegistry /\ InitChat /\ InitAdmission /\ InitDelivery
    /\ component # "chat" => auto

WorkflowStep ==
    /\ component = "workflow" /\ Next
    /\ UNCHANGED << component, storage, registry, chat, admission, delivery >>
StorageStep ==
    /\ component = "storage" /\ NextStorage
    /\ UNCHANGED << component, vars, registry, chat, admission, delivery >>
RegistryStep ==
    /\ component = "registry" /\ NextRegistry
    /\ UNCHANGED << component, vars, storage, chat, admission, delivery >>
ChatStep ==
    /\ component = "chat" /\ NextChat
    /\ UNCHANGED << component, vars, storage, registry, admission, delivery >>
AdmissionStep ==
    /\ component = "admission" /\ NextAdmission
    /\ UNCHANGED << component, vars, storage, registry, chat, delivery >>

DeliveryStep ==
    /\ component = "delivery" /\ NextDelivery
    /\ UNCHANGED << component, vars, storage, registry, chat, admission >>

KernelServicesNext ==
    \/ WorkflowStep \/ StorageStep \/ RegistryStep
    \/ ChatStep \/ AdmissionStep \/ DeliveryStep

KernelServicesSpec ==
    /\ KernelServicesInit
    /\ [][KernelServicesNext]_<< component, vars, storage, registry, chat, admission, delivery >>

Interchangeable == Permutations({one, two}) \cup Permutations({red, blue})
=============================================================================
