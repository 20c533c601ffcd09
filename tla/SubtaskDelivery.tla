--------------------------- MODULE SubtaskDelivery ---------------------------
(* What an attempt of a Subtask is given to read, and what it hands on: the    *)
(* evidence rows of its Task, the handoffs of its direct dependencies, the     *)
(* tools that read evidence, and the completion its Executor reports.          *)
(*                                                                             *)
(*   execution/subtask-execution-context.ts    build                           *)
(*   execution/execution-evidence-port.ts      rows and the scoped capability  *)
(*   execution/completion-protocol.ts          validateCompletionProtocol      *)
(*   execution/work-graph-runtime-service.ts   persistWorkGraph                *)
(*   storage/subtask-handoff-repo.ts           handoffs, written at integration*)
(*                                                                             *)
(* Several Tasks of one session share the sources: an interaction of one may   *)
(* be cited by another, and evidence ids do not name the Task.  Task evidence, *)
(* which a later revision cites of an earlier one, belongs to PlanAdmission.   *)
EXTENDS Integers, FiniteSets, SequencesExt

CONSTANTS
  Tasks, Nodes, TaskOf,        \* TaskOf[s]: the Task of a Subtask
  Items,        \* Items[<<p, c>>]: requiredItems of the edge from p to c
  Refs,         \* Refs[s]: the contextRefs of s, in the order of their keys
  Resources,    \* Resources[t]: the locators of a Task, in order
  Interactions, \* Interactions[t]: the recorded interactions of a Task
  Preferences,  \* Preferences[t]: the preferences a Task is a source of
  Quoted,       \* Quoted[t]: interactions whose answer the user's input quotes
  Name,         \* Name[x]: the part of a source's name an evidence id keeps
  Responses,    \* what Executors answer
  MaxRetries,   \* bound on the attempts after the first, of all Subtasks
  TextPerItem, TextPerEdge, TextPerNode, PathsPerItem, PathsPerEdge, PathsPerNode

InteractionKinds == {"user_interaction", "assistant_interaction"}
RefKinds == InteractionKinds \cup {"current_user_input", "task_resource", "preference"}
RefsOf(t) == UNION {Range(Refs[s]) : s \in {q \in Nodes : TaskOf[q] = t}}

(* Graphs and contracts are finite; the input of the user is that of the       *)
(* Subtask's own Task, and the ids of Tasks are told apart by what an evidence *)
(* id keeps of them.                                                           *)
ASSUME DeliveryAssumption ==
  /\ IsFiniteSet(Nodes)
  /\ \A e \in DOMAIN Items : IsFiniteSet(DOMAIN Items[e])
  /\ {TextPerNode, PathsPerNode} \subseteq Nat
  /\ \A s \in Nodes :
       /\ TaskOf[s] \in Tasks
       /\ Refs[s] \in Seq([kind : RefKinds, source : DOMAIN Name])
       /\ \A ref \in Range(Refs[s]) : ref.kind = "current_user_input" => ref.source = TaskOf[s]
  /\ \A t \in Tasks :
       /\ IsFiniteSet(RefsOf(t))
       /\ {Resources[t], Interactions[t], Preferences[t]} \subseteq Seq(DOMAIN Name)
       /\ \A u \in Tasks : Name[t] = Name[u] => t = u
  /\ MaxRetries \in Nat

VARIABLES
  rows,         \* task_execution_evidence, by evidence id
  confirmed,    \* preferences that are confirmed
  planned,      \* Tasks whose work graph is persisted
  stage,        \* the status of a Subtask
  retries,      \* attempts after the first of their Subtask, so far
  given,        \* the handoffs its current attempt was built with
  pending,      \* the completion its publication carries
  result,       \* subtasks.result: the body that was integrated
  handoffs,     \* subtask_handoffs, by edge
  answer,       \* what a tool has just returned
  refusal,      \* why a preparation has just been refused
  late          \* Subtasks with two of their handoffs validated side by side

delivery == << rows, confirmed, planned, stage, retries, given, pending, result,
               handoffs, answer, refusal, late >>

Edges == DOMAIN Items
Targets(s) == {c \in Nodes : << s, c >> \in Edges}
Parents(s) == {p \in Nodes : << p, s >> \in Edges}
-------------------------------------------------------------------------------
(* Evidence rows.                                                              *)

(* createEvidenceId: characters other than letters and digits are replaced and *)
(* the source is cut off after 80, so two sources may have one id.             *)
EvidenceId(kind, source) == << kind, Name[source] >>

Entry(t, kind, source) ==
    [id |-> EvidenceId(kind, source), task |-> t, holds |-> source,
     exact |-> kind = "assistant_interaction"]

(* ON CONFLICT(id) updates the title and the content, never the Task: the      *)
(* first entry of an id makes its row, the last is what it holds. Entries are  *)
(* a function from their positions.                                            *)
UpsertAll(table, entries) ==
    LET at(id) == {n \in DOMAIN entries : entries[n].id = id}
        made(id) == IF id \in DOMAIN table THEN table[id] ELSE entries[Min(at(id))]
    IN  [id \in DOMAIN table \cup {entries[n].id : n \in DOMAIN entries} |->
           [task |-> made(id).task, exact |-> made(id).exact,
            holds |-> IF at(id) = {} THEN table[id].holds ELSE entries[Max(at(id))].holds]]

(* Faulty: the row is found by its id alone.                                   *)
FoundByAnyone(table, t, id) == id \in DOMAIN table

FindForTask(table, t, id) == id \in DOMAIN table /\ table[id].task = t

ListGeneral(t) == {id \in DOMAIN rows : FindForTask(rows, t, id) /\ ~rows[id].exact}

EntriesOf(t, kind, sources, kept) ==
    [n \in {m \in DOMAIN sources : sources[m] \in kept} |-> Entry(t, kind, sources[n])]

(* The catalog of a Task, one kind after the other.                            *)
Synced(t) ==
    LET told == UpsertAll(rows, EntriesOf(t, "user_interaction", Interactions[t], Range(Interactions[t])))
        located == UpsertAll(told, EntriesOf(t, "task_resource", Resources[t], Range(Resources[t])))
    IN  UpsertAll(located, EntriesOf(t, "preference", Preferences[t], confirmed))
-------------------------------------------------------------------------------
(* References are judged when the plan is admitted ...                         *)
OwnInteraction(t, i) == i \in Range(Interactions[t])
EligibleInteraction(t, ref) == ref.kind = "user_interaction" \/ ref.source \in Quoted[t]
EligibleRef(t, ref) ==
    CASE ref.kind \in InteractionKinds -> EligibleInteraction(t, ref)
      [] ref.kind = "preference" -> ref.source \in confirmed
      [] OTHER -> TRUE   \* a resource of the Task, or one the prompt only names

(* ... and the inputs they cite become rows with the graph.                    *)
CitedAtPlanning(t) ==
    SetToSeq({Entry(t, r.kind, r.source) : r \in
        {q \in RefsOf(t) : q.kind \in InteractionKinds \cup {"current_user_input"}}})

Quiet == answer' = {} /\ refusal' = {}

PersistWorkGraph(t) ==
    /\ t \notin planned
    /\ \A ref \in RefsOf(t) : EligibleRef(t, ref)
    /\ planned' = planned \cup {t}
    /\ rows' = UpsertAll(rows, CitedAtPlanning(t))
    /\ Quiet
    /\ UNCHANGED << confirmed, stage, retries, given, pending, result, handoffs, late >>
-------------------------------------------------------------------------------
(* The context of an attempt.                                                  *)

(* resolveEvidenceRef throws.                                                  *)
Unresolved(t, table, ref) ==
    CASE ref.kind = "current_user_input" -> ~FindForTask(table, t, EvidenceId(ref.kind, ref.source))
      [] ref.kind = "task_resource" -> ref.source \notin Range(Resources[t])
      [] ref.kind = "preference" -> ref.source \notin confirmed
      [] OTHER -> /\ ~FindForTask(table, t, EvidenceId(ref.kind, ref.source))
                  /\ ~OwnInteraction(t, ref.source)

(* A reference to a materialised input writes nothing.                         *)
WritesRow(t, table, ref) ==
    \/ ref.kind \in {"task_resource", "preference"}
    \/ ref.kind \in InteractionKinds /\ ~FindForTask(table, t, EvidenceId(ref.kind, ref.source))

Exact(s) == {EvidenceId(ref.kind, ref.source) :
                ref \in {r \in Range(Refs[s]) : r.kind = "assistant_interaction"}}

Startable(s) ==
    /\ TaskOf[s] \in planned
    /\ stage[s] \in {"ready", "awaiting_decision"}
    /\ stage[s] = "ready" \/ retries < MaxRetries
    /\ \A p \in Parents(s) : stage[p] = "done"

IncomingComplete(s) == \A p \in Parents(s) : << p, s >> \in DOMAIN handoffs

Incoming(s) == [p \in Parents(s) |-> handoffs[<< p, s >>]]

(* build: the catalog of the Task, the handoffs, then the references in order; *)
(* what was written before a reference is refused stays.                       *)
Build(s) ==
    LET t == TaskOf[s]
        synced == Synced(t)
        refused == {n \in DOMAIN Refs[s] : Unresolved(t, synced, Refs[s][n])}
        cited == {n \in DOMAIN Refs[s] : /\ \A m \in refused : n < m
                                         /\ WritesRow(t, synced, Refs[s][n])}
        entries == [n \in cited |-> Entry(t, Refs[s][n].kind, Refs[s][n].source)]
    IN  /\ Startable(s)
        /\ retries' = IF stage[s] = "ready" THEN retries ELSE retries + 1
        /\ answer' = {}
        /\ rows' = IF IncomingComplete(s) THEN UpsertAll(synced, entries) ELSE synced
        /\ IF IncomingComplete(s) /\ refused = {}
           THEN /\ stage' = [stage EXCEPT ![s] = "running"]
                /\ given' = [given EXCEPT ![s] = Incoming(s)]
                /\ refusal' = {}
           ELSE /\ stage' = [stage EXCEPT ![s] = "awaiting_decision"]
                /\ refusal' = {[of |-> s, refs |-> {Refs[s][n] : n \in refused}]}
                /\ UNCHANGED given
        /\ UNCHANGED << confirmed, planned, pending, result, handoffs, late >>
-------------------------------------------------------------------------------
(* The tools of a running attempt.                                             *)
Tool(s) == stage[s] = "running" /\ refusal' = {}
           /\ UNCHANGED << rows, confirmed, planned, stage, retries, given, pending,
                           result, handoffs, late >>

ListEvidence(s) ==
    /\ Tool(s)
    /\ answer' = {[by |-> s, ids |-> ListGeneral(TaskOf[s]), exactly |-> FALSE]}

GetEvidence(s, id) ==
    /\ Tool(s)
    /\ FindForTask(rows, TaskOf[s], id)
    /\ rows[id].exact => id \in Exact(s)
    /\ answer' = {[by |-> s, ids |-> {id}, exactly |-> TRUE]}
-------------------------------------------------------------------------------
(* The completion.  Sizes are in thousands of characters and tens of paths.    *)

(* parseCompletion: one marker, a body, a report of the schema.                *)
Parses(r) ==
    /\ r.markers = 1
    /\ r.body \in 1..TextPerItem
    /\ r.report \in {"completed", "failed"}

(* validateResultFiles: a path is relative and leads to a file of the          *)
(* worktree; an alias is the file it leads to.                                 *)
GoodPath(path) == path \notin {"absolute", "missing", "escapes", "directory"}
RealPath(path) == IF path = "alias" THEN "file" ELSE path
Artifacts(r) == {RealPath(path) : path \in {p \in r.files : GoodPath(p)}}

(* materializeCompletionEnvelope: every text item is the body, every artifact  *)
(* item the files that were declared.                                          *)
Materialized(r, item) ==
    [key |-> item.key, type |-> item.type,
     size |-> IF item.type = "text" THEN r.body ELSE Cardinality(Artifacts(r))]
Handoff(s, c, r) == [n \in DOMAIN Items[<< s, c >>] |-> Materialized(r, Items[<< s, c >>][n])]

(* A sum of sizes is counted: the units of each part, tagged with the part.    *)
Tagged(parts) == UNION {{p} \X parts[p] : p \in DOMAIN parts}
UnitsOf(items, type) ==
    Tagged([n \in {m \in DOMAIN items : items[m].type = type} |-> 1..items[n].size])
SizeOf(items, type) == Cardinality(UnitsOf(items, type))

(* summarizeHandoffUsage of what is already recorded for a target.             *)
Recorded(c) == {p \in Parents(c) : << p, c >> \in DOMAIN handoffs}
RecordedUnits(c, type) == Tagged([p \in Recorded(c) |-> UnitsOf(handoffs[<< p, c >>], type)])
Usage(c, type) == Cardinality(RecordedUnits(c, type))

Keys(items) == {[key |-> items[n].key, type |-> items[n].type] : n \in DOMAIN items}
MatchesContract(s, c, items) ==
    /\ Keys(items) = Keys(Items[<< s, c >>])
    /\ Cardinality({items[n].key : n \in DOMAIN items}) = Len(items)

WithinItem(item) ==
    IF item.type = "text" THEN item.size \in 1..TextPerItem ELSE item.size \in 1..PathsPerItem
WithinEdge(items) ==
    /\ SizeOf(items, "text") <= TextPerEdge
    /\ SizeOf(items, "artifact") <= PathsPerEdge
(* Faulty: what is recorded already does not count.                            *)
WithinTargetAlone(c, items) ==
    /\ SizeOf(items, "text") <= TextPerNode
    /\ SizeOf(items, "artifact") <= PathsPerNode

WithinTarget(c, items) ==
    /\ Usage(c, "text") + SizeOf(items, "text") <= TextPerNode
    /\ Usage(c, "artifact") + SizeOf(items, "artifact") <= PathsPerNode
HandedOn(s, r, type) == Cardinality(Tagged([c \in Targets(s) |-> UnitsOf(Handoff(s, c, r), type)]))
WithinSource(s, r) ==
    HandedOn(s, r, "text") <= TextPerNode /\ HandedOn(s, r, "artifact") <= PathsPerNode

WithinBudgets(s, r) ==
    /\ WithinSource(s, r)
    /\ \A c \in Targets(s) :
         LET items == Handoff(s, c, r)
         IN  /\ \A n \in DOMAIN items : WithinItem(items[n])
             /\ WithinEdge(items)
             /\ WithinTarget(c, items)

Valid(s, r) ==
    /\ Parses(r)
    /\ r.report = "completed" =>
         /\ \A path \in r.files : GoodPath(path)
         /\ \A c \in Targets(s) : MatchesContract(s, c, Handoff(s, c, r))
         /\ WithinBudgets(s, r)

AcceptedReport(s, r) == Valid(s, r) /\ r.report = "completed"

(* publication.completion.                                                     *)
Completion(s, r) ==
    [body |-> r.body, handoffs |-> [c \in Targets(s) |-> Handoff(s, c, r)]]

(* A target with two completions validated and not yet integrated.             *)
SideBySide(s) == {c \in Targets(s) : \E p \in Parents(c) \ {s} : p \in DOMAIN pending}

(* The Executor's last answer: a completion, a controlled failure or a breach  *)
(* of the contract.  run()'s finally then revokes the capability, so that a    *)
(* tool answers running attempts only.                                         *)
Report(s) ==
    /\ stage[s] = "running"
    /\ \E r \in Responses :
         IF AcceptedReport(s, r)
         THEN /\ stage' = [stage EXCEPT ![s] = "awaiting_integration"]
              /\ pending' = [q \in DOMAIN pending \cup {s} |-> IF q = s THEN Completion(s, r) ELSE pending[q]]
              /\ late' = late \cup SideBySide(s)
         ELSE /\ stage' = [stage EXCEPT ![s] = "awaiting_decision"]
              /\ UNCHANGED << pending, late >>
    /\ Quiet
    /\ UNCHANGED << rows, confirmed, planned, retries, given, result, handoffs >>

(* The worker's transaction: the result, every handoff and done.               *)
Integrate(s) ==
    /\ stage[s] = "awaiting_integration"
    /\ stage' = [stage EXCEPT ![s] = "done"]
    /\ result' = [result EXCEPT ![s] = pending[s].body]
    /\ handoffs' = [e \in DOMAIN handoffs \cup {<< s, c >> : c \in Targets(s)} |->
                       IF e[1] = s THEN pending[s].handoffs[e[2]] ELSE handoffs[e]]
    /\ pending' = Restrict(pending, DOMAIN pending \ {s})
    /\ Quiet
    /\ UNCHANGED << rows, confirmed, planned, retries, given, late >>

(* The user withdraws a preference.                                            *)
Withdraw(p) ==
    /\ p \in confirmed
    /\ confirmed' = confirmed \ {p}
    /\ Quiet
    /\ UNCHANGED << rows, planned, stage, retries, given, pending, result, handoffs, late >>
-------------------------------------------------------------------------------
InitDelivery ==
    /\ confirmed = UNION {Range(Preferences[t]) : t \in Tasks}
    /\ rows = << >>
    /\ planned = {} /\ late = {}
    /\ stage = [s \in Nodes |-> "ready"]
    /\ retries = 0
    /\ given = [s \in Nodes |-> << >>]
    /\ pending = << >>
    /\ result = [s \in Nodes |-> 0]
    /\ handoffs = << >>
    /\ answer = {} /\ refusal = {}

NextDelivery ==
    \/ \E t \in Tasks : PersistWorkGraph(t)
    \/ \E s \in Nodes :
         \/ Build(s)
         \/ ListEvidence(s)
         \/ \E id \in DOMAIN rows : GetEvidence(s, id)
         \/ Report(s)
         \/ Integrate(s)
    \/ \E p \in confirmed : Withdraw(p)

SpecDelivery == InitDelivery /\ [][NextDelivery]_delivery
-------------------------------------------------------------------------------
(* A running attempt was built with one handoff of each direct dependency,     *)
(* that the dependency's integrated attempt has made, with the items of the    *)
(* edge, and every text item of it is the result of that Subtask.              *)
ContextIsWhole ==
    \A s \in Nodes : stage[s] = "running" =>
        /\ DOMAIN given[s] = Parents(s)
        /\ \A p \in Parents(s) :
             /\ stage[p] = "done"
             /\ Keys(given[s][p]) = Keys(Items[<< p, s >>])
             /\ \A n \in DOMAIN given[s][p] :
                  given[s][p][n].type = "text" => given[s][p][n].size = result[p]

(* What a tool returns belongs to the attempt's own Task; an answer of the     *)
(* assistant is returned only to an attempt that cites it; and what an attempt *)
(* cites is what it reads, unless another source has the same evidence id.     *)
EvidenceIsScoped ==
    \A a \in answer :
        /\ stage[a.by] = "running"
        /\ \A id \in a.ids :
             /\ rows[id].task = TaskOf[a.by]
             /\ rows[id].exact => a.exactly /\ id \in Exact(a.by)

SharedName(ref) == \E x \in DOMAIN Name \ {ref.source} : Name[x] = Name[ref.source]
CitedIsRead ==
    \A s \in Nodes : stage[s] = "running" =>
        \A ref \in Range(Refs[s]) :
            LET id == EvidenceId(ref.kind, ref.source)
            IN  id \in DOMAIN rows /\ (rows[id].holds = ref.source \/ SharedName(ref))

(* An attempt whose plan was admitted is refused only for a preference that    *)
(* was withdrawn, for a resource its prompt only named, or for an interaction  *)
(* of another Task whose evidence row that other Task, or a third, already has.*)
RefusalIsExplained ==
    \A f \in refusal :
        /\ f.refs # {}
        /\ \A ref \in f.refs :
             \/ ref.kind = "preference" /\ ref.source \notin confirmed
             \/ ref.kind = "task_resource" /\ ref.source \notin Range(Resources[TaskOf[f.of]])
             \/ /\ ref.kind \in InteractionKinds
                /\ ~OwnInteraction(TaskOf[f.of], ref.source)
                /\ rows[EvidenceId(ref.kind, ref.source)].task # TaskOf[f.of]

(* What an attempt reads and hands on is what the work graph says.             *)
DeliveryIsExact ==
    /\ ContextIsWhole
    /\ EvidenceIsScoped
    /\ CitedIsRead
    /\ RefusalIsExplained

(* The handoffs of one Subtask keep to the budget of a node, unless two of     *)
(* them were validated before either was recorded.                             *)
BudgetIsKept ==
    \A c \in Nodes : c \notin late =>
        Usage(c, "text") <= TextPerNode /\ Usage(c, "artifact") <= PathsPerNode
===============================================================================
