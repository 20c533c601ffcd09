---------------------------- MODULE MCServices ----------------------------
(* Components that share no state with each other, each on a small instance *)
(* of its own. The first state chooses one of them, only that one takes     *)
(* steps, and the others rest in their first state: their interleavings     *)
(* would add nothing.                                                       *)
EXTENDS AttemptResources, CommandLine, SandboxRun, PlannerProposals, TLC

CONSTANTS one, two, red, blue,   \* interchangeable, in pairs
          three

VARIABLE component   \* the component chosen

-----------------------------------------------------------------------------
(* The pool: a primary and a fallback attempt of one Subtask, and an attempt *)
(* of another Subtask that reads below the path the first one writes.        *)
TwoSubtasks == one :> "s1" @@ two :> "s1" @@ three :> "s2"
OneClass == [a \in Attempts |-> "pi"]
Access(p, how) ==
    [partition |-> [kind |-> "path", mountId |-> "project", path |-> p], access |-> how]
Grants == one :> {Access(<< "src" >>, "write")} @@ two :> {Access(<< "src" >>, "write")}
          @@ three :> {Access(<< "src", "a" >>, "read")}

(* Two turns, one of them validated, with two plans each: a grant is asked   *)
(* for over the RPC, a reply interactively.                                  *)
PlannerModes ==
    {[t1 |-> k, t2 |-> "validation"] : k \in {"rpc", "interactive"}}
PlanEffects == {[p |-> "task", q |-> k] : k \in {"reply", "grant"}}
GrantsToRpc == mode.t1 = "rpc" <=> effect.q = "grant"

(* A line of each shape and a second command that changes what it is about.  *)
TaskStatuses == [t1 |-> "running", t2 |-> "parked", t3 |-> "running"]
ListedThings == [memory |-> {"m1"}, executor |-> {"e1"}]
TypedLines ==
    << { << "task", "pause", "t1" >>, << "task", "block", "t1", "why" >>,
         << "task", "block", "t1", "open" >>, << "task", "resume", "t2", "file" >>,
         << "task", "list", "" >>, << "task", "list", "parked" >>, << "task", "clear" >>,
         << "task", "cancel", "t2" >>, << "task", "purge", "t1", "--confirm", "t1" >>,
         << "task", "purge", "t1", "--", "--confirm" >>,
         << "task", "recover", "t1", "item", "retry" >>,
         << "memory", "edit", "m1", "--scope", "global", "why" >>,
         << "memory", "delete", "m1" >>, << "executor", "refresh", "all" >>,
         << "executor", "refresh", "e1" >>, << "help", "task", "pause" >>, << "exit" >>,
         << "tsak", "list" >>, << "task", "index", "search", "why" >> },
       { << "task", "clear" >>, << "exit" >> } >>
TypedParts ==
    { << "t", "task" >>, << "p", "pause" >>, << "p", "purge" >>, << "p", "parked" >>,
      << "t", "t1" >>, << "t", "t2" >>, << "t", "t3" >>, << "--", "--confirm" >>,
      << "--", "--scope" >>, << "--", "--type" >>, << "re", "resume" >>,
      << "re", "recover" >>, << "re", "recovery" >>, << "re", "rebuild" >>,
      << "recover", "recovery" >>, << "t", "tsak" >> }
Corrections == [x \in {"tsak"} |-> "task"]
TypedWords ==
    << 5, 1 >>
-----------------------------------------------------------------------------
ServicesInit ==
    /\ component \in {"pool", "composer", "sandbox", "planner"}
    /\ InitResources /\ InitCommands /\ InitSandboxes /\ InitProposals
    /\ GrantsToRpc /\ (component # "planner" => mode.t1 = "rpc")

PoolStep ==
    /\ component = "pool" /\ NextResources
    /\ UNCHANGED << component, composer, sandboxes, proposals >>
ComposerStep ==
    /\ component = "composer" /\ NextCommands
    /\ UNCHANGED << component, pool, sandboxes, proposals >>
SandboxStep ==
    /\ component = "sandbox" /\ NextSandboxes
    /\ UNCHANGED << component, pool, composer, proposals >>
PlannerStep ==
    /\ component = "planner" /\ NextProposals
    /\ UNCHANGED << component, pool, composer, sandboxes >>

ServicesNext == PoolStep \/ PlannerStep \/ SandboxStep \/ ComposerStep

ServicesSpec ==
    /\ ServicesInit
    /\ [][ServicesNext]_<< component, pool, composer, sandboxes, proposals >>

Interchangeable == Permutations({one, two}) \cup Permutations({red, blue})

-----------------------------------------------------------------------------
(* What the composer sends is what was shown (defined and explained in       *)
(* CommandLine); it is asked of the composer only.                           *)
CommandsAreExact == component = "composer" => CommandsAreAsShown
=============================================================================
