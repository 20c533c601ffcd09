----------------------------- MODULE CommandLine -----------------------------
(* Slash commands, from the keys of the composer to the handler that runs.     *)
(*                                                                             *)
(*   commands/catalog.ts        CommandCatalog: complete, execute, the parsers *)
(*   commands/command-tree.ts   the tree of groups and actions                 *)
(*   commands/task-commands.ts  the handlers that change Tasks                 *)
(*   tui/app.tsx                the editor, its suggestions and its history    *)
(*   session/input-controller.ts, metaclaw-session.ts   submit, handleCommand  *)
(*                                                                             *)
(* The catalogue reads a command twice and differently: complete() judges the  *)
(* words before the cursor and lets Enter through, execute() parses the whole  *)
(* line again when the session gets to it, while Tasks and registrations       *)
(* change in between.  The line is a sequence of decoded words.                *)
EXTENDS Integers, FiniteSets, SequencesExt, FiniteSetsExt

CONSTANTS
  Tasks,         \* ids of Tasks
  Smoke,         \* Tasks of the system's own smoke runs
  Found,         \* their statuses, and
  Listed,        \* [memory, executor |-> their ids when the session starts]
  Aims,          \* Aims[n]: the lines users have in mind for their n-th command
  Fragments,     \* pairs <<p, w>>: word w begins with p
  Nearest,       \* the nearest name of a misspelt one (levenshtein)
  Unclosed,      \* words typed after a quote that is still open
  HistoryLimit, SuggestionLimit,
  MaxCommands, MaxWords, MaxChanges,
  MaxEvents      \* bound on commands, recalls and changes together

VARIABLES
  line,          \* the editor: words, cursor (at, touches), trailing space, quotes
  picked,        \* the index of the selected suggestion
  history,       \* submitted lines, the one recalled (0: none), the draft
  commands,      \* what was submitted
  status,        \* the statuses of Tasks
  known,         \* memories and Executors
  recalls, changes

composer == << line, picked, history, commands, status, known, recalls, changes >>

Terminal == {"done", "archived", "cancelled"}
Manageable == {"created", "ready", "running", "parked", "blocked"}
AllStatuses == Manageable \union Terminal
-------------------------------------------------------------------------------
(* The tree.  Groups whose actions take arguments of the same shapes           *)
(* (/profile, /learning, the rest of /executor and /memory) are left out.      *)
Argument(kind, allowed, optional) ==
    [kind |-> kind, allowed |-> allowed, optional |-> optional]
TaskIn(statuses) == Argument("task", statuses, FALSE)
Enum(values, optional) == Argument("enum", values, optional)
Plain(kind, optional) == Argument(kind, {}, optional)

Action(name, arguments) ==
    << "task", name >> :> [arguments |-> arguments, options |-> << >>]

TaskActions ==
    Action("dashboard", << >>)
    @@ Action("list", << Enum({"all", "active", "ready", "parked", "blocked", "done"}, TRUE) >>)
    @@ Action("clear", << Enum({"all", "parked", "blocked"}, TRUE) >>)
    @@ Action("show", << TaskIn(AllStatuses) >>)
    @@ Action("pause", << TaskIn({"running"}) >>)
    @@ Action("resume", << TaskIn({"parked", "blocked", "ready"}), Plain("variadic", TRUE) >>)
    @@ Action("block", << TaskIn({"running"}), Plain("rest", FALSE) >>)
    @@ Action("cancel", << TaskIn(Manageable) >>)
    @@ Action("subtask-cancel", << TaskIn({"running", "blocked"}), Plain("variadic", FALSE) >>)
    @@ Action("accept-partial", << TaskIn({"blocked"}) >>)
    @@ Action("recovery", << TaskIn(AllStatuses) >>)
    @@ Action("recover", << TaskIn(AllStatuses), Plain("text", FALSE),
                            Enum({"assume-applied", "retry"}, FALSE) >>)
    @@ Action("attach", << TaskIn(AllStatuses), Plain("variadic", FALSE) >>)
    @@ Action("history", << TaskIn(AllStatuses) >>)
    @@ (<< "task", "purge" >> :> [arguments |-> << TaskIn(Terminal) >>,
                                   options |-> << [name |-> "--confirm", value |-> Plain("text", FALSE)] >>])

MemoryOptions ==
    << [name |-> "--scope", value |-> Enum({"global", "project", "contact", "task-local"}, FALSE)],
       [name |-> "--type", value |-> Plain("text", FALSE)] >>

Actions ==
    TaskActions
    @@ (<< "task", "index", "rebuild" >> :> [arguments |-> << >>, options |-> << >>])
    @@ (<< "task", "index", "search" >> :> [arguments |-> << Plain("rest", FALSE) >>, options |-> << >>])
    @@ (<< "executor", "refresh" >> :> [arguments |-> << Plain("executor", TRUE) >>, options |-> << >>])
    @@ (<< "executor", "disable" >> :> [arguments |-> << Plain("executor", FALSE) >>, options |-> << >>])
    @@ (<< "memory", "edit" >> :> [arguments |-> << Plain("memory", FALSE), Plain("rest", TRUE) >>,
                                    options |-> MemoryOptions])
    @@ (<< "memory", "delete" >> :> [arguments |-> << Plain("memory", FALSE) >>, options |-> << >>])
    @@ (<< "config" >> :> [arguments |-> << >>, options |-> << >>])
    @@ (<< "help" >> :> [arguments |-> << Plain("command-path", TRUE) >>, options |-> << >>])
    @@ (<< "exit" >> :> [arguments |-> << >>, options |-> << >>])

Groups ==
    (<< >> :> << "task", "executor", "memory", "config", "help", "exit" >>)
    @@ (<< "task" >> :> << "dashboard", "list", "clear", "show", "pause", "resume", "block",
                            "cancel", "subtask-cancel", "accept-partial", "recovery", "recover",
                            "attach", "history", "purge", "index" >>)
    @@ (<< "task", "index" >> :> << "rebuild", "search" >>)
    @@ (<< "executor" >> :> << "refresh", "disable" >>)
    @@ (<< "memory" >> :> << "edit", "delete" >>)

Begins(p, w) == p = "" \/ p = w \/ << p, w >> \in Fragments
Dashed(w) == Begins("--", w)
-------------------------------------------------------------------------------
(* What exists when the catalogue asks.                                        *)
Exists(t) == t \in Tasks /\ status[t] # "purged"

(* Values a reference may have: the Task reference has a validate of its own,  *)
(* the others ask their candidates.                                            *)
Referable(argument) ==
    IF argument.kind = "task"
    THEN {t \in Tasks : Exists(t) /\ status[t] \in argument.allowed}
    ELSE known[argument.kind]

References == {"task", "memory", "executor"}

ValidValue(argument, w) ==
    CASE argument.kind = "enum" -> w \in argument.allowed
      [] argument.kind \in References -> w \in Referable(argument)
      [] OTHER -> TRUE

(* What is offered: Tasks of smoke runs are not listed.                        *)
Candidates(argument) ==
    CASE argument.kind = "enum" -> argument.allowed
      [] argument.kind = "task" ->
           {t \in Tasks \ Smoke : Exists(t) /\ status[t] \in argument.allowed}
      [] argument.kind \in References \ {"task"} -> Referable(argument)
      [] OTHER -> {}

Limited(words) == SubSeq(words, 1, IF Len(words) < SuggestionLimit THEN Len(words) ELSE SuggestionLimit)
Offered(words, prefix) == Limited(SelectSeq(words, LAMBDA w : Begins(prefix, w)))

SuggestArgument(argument, prefix) ==
    Offered(IF argument.kind = "command-path" THEN Groups[<< >>] ELSE SetToSeq(Candidates(argument)), prefix)
-------------------------------------------------------------------------------
(* resolvePath: as deep into the tree as the words lead.                       *)
Leads(words, k) ==
    \A j \in 1..k : /\ SubSeq(words, 1, j - 1) \in DOMAIN Groups
                    /\ words[j] \in Range(Groups[SubSeq(words, 1, j - 1)])

ResolvePath(words) ==
    LET depth == Max({k \in 0..Len(words) : Leads(words, k)})
        path == SubSeq(words, 1, depth)
    IN  [path |-> path, isAction |-> path \in DOMAIN Actions,
         unknown |-> path \in DOMAIN Groups /\ depth < Len(words),
         rest |-> SubSeq(words, depth + 1, Len(words))]

NearestNode(w, path) ==
    IF w \in DOMAIN Nearest /\ Nearest[w] \in Range(Groups[path]) THEN << Nearest[w] >> ELSE << >>
-------------------------------------------------------------------------------
(* parseAction.  Words are taken one by one: an option takes the next word,    *)
(* after "--" every word is positional, and an empty word counts as missing.   *)
OptionNames(path) == {o.name : o \in Range(Actions[path].options)}
OptionValue(path, name) == (CHOOSE o \in Range(Actions[path].options) : o.name = name).value

Fresh == [state |-> "executable", only |-> FALSE, used |-> {}, want |-> {}, at |-> << >>, values |-> << >>]

ReadWord(path, s, w) ==
    CASE s.state # "executable" -> s
      [] s.want # {} /\ w = "" -> [s EXCEPT !.state = "missing"]
      [] s.want # {} /\ w # "" ->
           LET name == CHOOSE n \in s.want : TRUE IN
           IF ValidValue(OptionValue(path, name), w)
           THEN [s EXCEPT !.want = {}, !.values = Append(@, << name, w >>)]
           ELSE [s EXCEPT !.state = "invalid"]
      [] s.want = {} /\ ~s.only /\ w = "--" -> [s EXCEPT !.only = TRUE]
      [] s.want = {} /\ ~s.only /\ w # "--" /\ Dashed(w) ->
           IF w \in OptionNames(path) /\ w \notin s.used
           THEN [s EXCEPT !.used = @ \union {w}, !.want = {w}]
           ELSE [s EXCEPT !.state = "invalid"]
      [] OTHER -> [s EXCEPT !.at = Append(@, w)]

OpenEnded(argument) == argument.kind \in {"rest", "variadic", "command-path"}

TakeArgument(words, s, argument) ==
    LET left == SubSeq(words, s.next, Len(words)) IN
    CASE s.state # "executable" -> s
      [] s.state = "executable" /\ OpenEnded(argument) ->
           IF left = << >> /\ ~argument.optional THEN [s EXCEPT !.state = "missing"]
           ELSE [s EXCEPT !.next = Len(words) + 1]
      [] s.state = "executable" /\ ~OpenEnded(argument) /\ (left = << >> \/ Head(left) = "") ->
           IF argument.optional THEN s ELSE [s EXCEPT !.state = "missing"]
      [] OTHER -> IF ValidValue(argument, Head(left)) THEN [s EXCEPT !.next = @ + 1]
                  ELSE [s EXCEPT !.state = "invalid"]

TakeArguments(path, read) ==
    FoldLeft(LAMBDA s, a : TakeArgument(read.at, s, a),
             [state |-> "executable", next |-> 1], Actions[path].arguments)

Outcome(read, taken) ==
    [state |-> CASE read.state # "executable" -> read.state
                 [] read.state = "executable" /\ read.want # {} -> "missing"
                 [] OTHER -> IF taken.state = "executable" /\ taken.next <= Len(read.at)
                             THEN "invalid" ELSE taken.state,
     at |-> read.at, options |-> read.values]

ParseRead(path, read) == Outcome(read, TakeArguments(path, read))
ParseAction(path, words) ==
    ParseRead(path, FoldLeft(LAMBDA s, w : ReadWord(path, s, w), Fresh, words))

Judged(state) == IF state = "missing" THEN "incomplete" ELSE state
-------------------------------------------------------------------------------
(* complete: what the words before the cursor are, and what could come next.   *)
Answer(state, offers, at) == [state |-> state, offers |-> offers, at |-> at]

CompleteHelpPath(words, prefix, at) ==
    IF words \notin DOMAIN Groups THEN Answer("invalid", << >>, at)
    ELSE Answer(IF prefix = "" \/ prefix \in Range(Groups[words]) THEN "executable" ELSE "incomplete",
                Offered(Groups[words], prefix), at)

(* completeAction scans the finished words more loosely than the parser does.  *)
ScanWord(path, s, w) ==
    CASE s.state # "executable" -> s
      [] s.want # {} -> IF w = "" THEN [s EXCEPT !.state = "missing"] ELSE [s EXCEPT !.want = {}]
      [] s.want = {} /\ ~s.only /\ w = "--" -> [s EXCEPT !.only = TRUE]
      [] s.want = {} /\ ~s.only /\ w # "--" /\ Dashed(w) ->
           IF w \in OptionNames(path) THEN [s EXCEPT !.used = @ \union {w}, !.want = {w}]
           ELSE [s EXCEPT !.state = "invalid"]
      [] OTHER -> [s EXCEPT !.at = Append(@, w)]

ExpectedArgument(arguments, positionals) ==
    {i \in DOMAIN arguments : OpenEnded(arguments[i]) \/ i > Len(positionals)}

UnusedOptions(path, used) ==
    SelectSeq([n \in DOMAIN Actions[path].options |-> Actions[path].options[n].name],
              LAMBDA name : name \notin used)

CompleteScanned(path, prefix, at, scan, parsed, expected) ==
    CASE scan.state = "invalid" -> Answer("invalid", << >>, at)
      [] scan.state # "invalid" /\ scan.want # {} ->
           Answer(parsed, SuggestArgument(OptionValue(path, CHOOSE n \in scan.want : TRUE), prefix), at)
      [] scan.state # "invalid" /\ scan.want = {} /\ Dashed(prefix) ->
           Answer("incomplete", Offered(UnusedOptions(path, scan.used), prefix), at)
      [] scan.state # "invalid" /\ scan.want = {} /\ ~Dashed(prefix) /\ expected # {} ->
           Answer(parsed, SuggestArgument(Actions[path].arguments[Min(expected)], prefix), at)
      [] OTHER -> Answer(parsed, IF prefix = "" THEN Limited(UnusedOptions(path, scan.used)) ELSE << >>, at)

CompleteWith(path, prefix, at, scan, whole) ==
    CompleteScanned(path, prefix, at, scan, Judged(ParseAction(path, whole).state),
                    ExpectedArgument(Actions[path].arguments, scan.at))

CompleteAction(path, words, prefix, at) ==
    CompleteWith(path, prefix, at, FoldLeft(LAMBDA s, w : ScanWord(path, s, w), Fresh, words),
                 IF prefix = "" THEN words ELSE Append(words, prefix))

CompleteNode(path, prefix, at) ==
    LET named == Offered(Groups[path], prefix)
        exact == Append(path, prefix)
    IN  Answer(IF exact \in DOMAIN Actions /\ ParseAction(exact, << >>).state = "executable"
               THEN "executable" ELSE "incomplete",
               IF named = << >> /\ prefix # "" THEN NearestNode(prefix, path) ELSE named, at)

(* at is the place of the word a suggestion replaces; past the words before    *)
(* the cursor when nothing is touched.                                         *)
CompletePath(before, prefix, resolved) ==
    LET at == Len(before) + 1
        broken == Len(resolved.path) + 1
    IN  CASE resolved.unknown ->
               Answer("invalid", NearestNode(before[broken], resolved.path), broken)
          [] ~resolved.unknown /\ ~resolved.isAction -> CompleteNode(resolved.path, prefix, at)
          [] resolved.isAction /\ resolved.path = << "help" >> ->
               CompleteHelpPath(resolved.rest, prefix, at)
          [] OTHER -> CompleteAction(resolved.path, resolved.rest, prefix, at)

CompleteWords(before, prefix) == CompletePath(before, prefix, ResolvePath(before))

Complete(text) ==
    CompleteWords(SubSeq(text.words, 1, IF text.touches THEN text.at - 1 ELSE text.at),
                  IF text.touches THEN text.words[text.at] ELSE "")

AtEnd(text) == [text EXCEPT !.at = Len(text.words), !.touches = ~text.space]

(* execute, up to the handler: the same words, parsed strictly.                *)
ParsedPath(text, resolved, parsed) ==
    [path |-> resolved.path, at |-> parsed.at, options |-> parsed.options,
     refusal |-> CASE ~text.closed -> "unclosed"
                   [] text.closed /\ ~resolved.isAction -> "unknown"
                   [] OTHER -> IF parsed.state = "executable" THEN "" ELSE "refused"]

Parsed(text) ==
    LET resolved == ResolvePath(text.words) IN
    ParsedPath(text, resolved,
               IF resolved.isAction THEN ParseAction(resolved.path, resolved.rest)
               ELSE [state |-> "unknown", at |-> << >>, options |-> << >>])
-------------------------------------------------------------------------------
(* The editor.                                                                 *)
Empty == [words |-> << >>, at |-> 0, touches |-> FALSE, space |-> FALSE, closed |-> TRUE]

InitCommands ==
    /\ line = Empty /\ picked = 1
    /\ history = [entries |-> << >>, recalled |-> 0, draft |-> Empty]
    /\ commands = << >>
    /\ status = Found
    /\ known = Listed
    /\ recalls = 0 /\ changes = 0

(* Every edit resets the selection and ends the browsing of the history.       *)
Edited(text) ==
    /\ line' = text
    /\ picked' = 1
    /\ history' = [history EXCEPT !.recalled = 0, !.draft = Empty]
    /\ UNCHANGED << commands, status, known, recalls, changes >>

Afforded == Len(commands) + recalls + changes < MaxEvents

AtTheEnd == line.at = Len(line.words)

Type(w) ==
    /\ AtTheEnd /\ line.closed /\ (line.space \/ line.words = << >>)
    /\ Len(commands) < MaxCommands /\ Afforded
    /\ \E aim \in Aims[Len(commands) + 1] :
         /\ Len(line.words) < Len(aim)
         /\ SubSeq(aim, 1, Len(line.words)) = line.words
         /\ Begins(w, aim[Len(line.words) + 1]) \/ w = aim[Len(line.words) + 1]
    /\ Edited([words |-> Append(line.words, w), at |-> Len(line.words) + 1, touches |-> TRUE,
               space |-> FALSE, closed |-> w \notin Unclosed])

CloseQuote == ~line.closed /\ AtTheEnd /\ Edited([line EXCEPT !.closed = TRUE])

Space ==
    /\ AtTheEnd /\ line.touches /\ line.closed
    /\ Edited([line EXCEPT !.touches = FALSE, !.space = TRUE])

EraseWord ==
    /\ AtTheEnd /\ line.words # << >>
    /\ Edited(LET words == Front(line.words) IN
              [words |-> words, at |-> Len(words), touches |-> FALSE, space |-> words # << >>, closed |-> TRUE])

MoveLeft ==
    /\ line.at > 1 /\ Len(commands) < MaxCommands
    /\ Edited([line EXCEPT !.at = @ - 1, !.touches = TRUE])

MoveToEnd == ~AtTheEnd /\ Edited(AtEnd(line))

(* Tab: the suggestion replaces its word; a space follows only at the end.     *)
Accepted(text, answer, n) ==
    LET last == answer.at >= Len(text.words)
    IN  [text EXCEPT !.words = IF answer.at > Len(@) THEN Append(@, answer.offers[n])
                               ELSE [@ EXCEPT ![answer.at] = answer.offers[n]],
                     !.at = answer.at,
                     !.touches = ~last,
                     !.space = IF last THEN TRUE ELSE @,
                     !.closed = IF last THEN TRUE ELSE @]

Chosen(offers) == IF picked > Len(offers) THEN Len(offers) ELSE picked

Tab(answer) ==
    /\ Len(commands) < MaxCommands /\ line.words # << >> /\ answer.at <= MaxWords[Len(commands) + 1]
    /\ answer.offers # << >>
    /\ Edited(Accepted(line, answer, Chosen(answer.offers)))

Offers(answer) == IF line.words = << >> THEN << >> ELSE answer.offers

(* The arrows walk the suggestions when there are any, the history otherwise.  *)
Select(step, offers) ==
    /\ offers # << >> /\ Len(commands) < MaxCommands
    /\ picked' = IF picked + step < 1 THEN Len(offers)
                 ELSE IF picked + step > Len(offers) THEN 1 ELSE picked + step
    /\ UNCHANGED << line, history, commands, status, known, recalls, changes >>

RecallPrevious(offers) ==
    /\ Len(commands) < MaxCommands /\ Afforded
    /\ offers = << >> /\ history.entries # << >>
    /\ LET n == IF history.recalled = 0 THEN Len(history.entries)
                ELSE Max({1, history.recalled - 1})
       IN  /\ line' = history.entries[n]
           /\ history' = [history EXCEPT !.recalled = n,
                                         !.draft = IF history.recalled = 0 THEN line ELSE @]
    /\ picked' = 1 /\ recalls' = recalls + 1
    /\ UNCHANGED << commands, status, known, changes >>

RecallNext(offers) ==
    /\ Len(commands) < MaxCommands
    /\ offers = << >> /\ history.recalled # 0
    /\ IF history.recalled = Len(history.entries)
       THEN /\ line' = history.draft
            /\ history' = [history EXCEPT !.recalled = 0, !.draft = Empty]
       ELSE /\ line' = history.entries[history.recalled + 1]
            /\ history' = [history EXCEPT !.recalled = @ + 1]
    /\ picked' = 1
    /\ UNCHANGED << commands, status, known, recalls, changes >>

(* The input is trimmed; the same line twice in a row is remembered once.      *)
Trimmed(text) == AtEnd([text EXCEPT !.space = FALSE])

Recorded(entries, text) ==
    IF entries # << >> /\ Last(entries) = text THEN entries
    ELSE LET all == Append(entries, text) IN
         SubSeq(all, Max({1, Len(all) - HistoryLimit + 1}), Len(all))

(* Enter: only what complete() finds executable at the end of the line.        *)
Enter ==
    /\ line.words # << >> /\ Len(commands) < MaxCommands /\ Afforded
    /\ Complete(AtEnd(line)).state = "executable"
    /\ history' = [entries |-> Recorded(history.entries, Trimmed(line)), recalled |-> 0, draft |-> Empty]
    /\ commands' = Append(commands, [text |-> Trimmed(line), step |-> "submitted", changed |-> FALSE,
                                     listed |-> {}, left |-> << >>, reply |-> ""])
    /\ line' = Empty /\ picked' = 1
    /\ UNCHANGED << status, known, recalls, changes >>
-------------------------------------------------------------------------------
(* The session runs a command: handleCommand.  Commands of one composer run    *)
(* side by side; nothing waits for the one before.                             *)
PathOf(i) == ResolvePath(commands[i].text.words).path
Exited == \E i \in DOMAIN commands : commands[i].reply = "exit"

(* What one command changes has changed for those still to be executed.        *)
Noted(i, command) ==
    [j \in DOMAIN commands |->
       IF j = i THEN command
       ELSE [commands[j] EXCEPT !.changed = @ \/ (commands[j].step # "done"
                                                  /\ (status' # status \/ known' # known))]]

Resolve(i, step, listed, left, reply) ==
    commands' = Noted(i, [commands[i] EXCEPT !.step = step, !.listed = listed, !.left = left, !.reply = reply])
Done(i, reply) == Resolve(i, "done", {}, << >>, reply)

RefreshFirst == {<< "task", "resume" >>, << "task", "recover" >>, << "task", "recovery" >>}

Refresh(i) ==
    /\ commands[i].step = "submitted"
    /\ PathOf(i) \in RefreshFirst
    /\ commands' = [commands EXCEPT ![i].step = "refreshed"]
    /\ UNCHANGED << line, picked, history, status, known, recalls, changes >>

Executing(i) ==
    /\ ~Exited
    /\ commands[i].step = IF PathOf(i) \in RefreshFirst THEN "refreshed" ELSE "submitted"
    /\ UNCHANGED << line, picked, history, recalls, changes >>

(* Below, p is what the text of the i-th command is parsed to by now.          *)
Refuse(i, p) ==
    /\ p.refusal # ""
    /\ UNCHANGED << status, known >>
    /\ Done(i, p.refusal)

Handles(p, path) == p.refusal = "" /\ p.path = path

ParkTask(i, p) ==
    /\ Handles(p, << "task", "pause" >>)
    /\ status' = [status EXCEPT ![Head(p.at)] = "parked"]
    /\ UNCHANGED known /\ Done(i, "ran")

BlockTask(i, p) ==
    /\ Handles(p, << "task", "block" >>)
    /\ status' = [status EXCEPT ![Head(p.at)] = "blocked"]
    /\ UNCHANGED known /\ Done(i, "ran")

(* A Task is purged only when its id is repeated.                              *)
Confirmed(p) == p.options = << << "--confirm", Head(p.at) >> >>
PurgeTask(i, p) ==
    /\ Handles(p, << "task", "purge" >>)
    /\ status' = IF Confirmed(p) THEN [status EXCEPT ![Head(p.at)] = "purged"] ELSE status
    /\ UNCHANGED known /\ Done(i, IF Confirmed(p) THEN "ran" ELSE "failed")

DeleteMemory(i, p) ==
    /\ Handles(p, << "memory", "delete" >>)
    /\ known' = [known EXCEPT !.memory = @ \ {Head(p.at)}]
    /\ UNCHANGED status /\ Done(i, "ran")

ExitSession(i, p) == Handles(p, << "exit" >>) /\ UNCHANGED << status, known >> /\ Done(i, "exit")

(* Cancelling awaits the Kernel, one Task after the other.                     *)
Scope(p) ==
    CASE p.at = << "parked" >> -> {"parked"}
      [] p.at = << "blocked" >> -> {"blocked"}
      [] OTHER -> Manageable
Wanted(p) ==
    IF p.path = << "task", "cancel" >> THEN {Head(p.at)}
    ELSE {t \in Tasks \ Smoke : Exists(t) /\ status[t] \in Scope(p)}

BeginCancel(i, p) ==
    /\ Handles(p, << "task", "cancel" >>) \/ Handles(p, << "task", "clear" >>)
    /\ UNCHANGED << status, known >>
    /\ Resolve(i, "cancelling", Wanted(p), SetToSeq(Wanted(p)), "")

(* Faulty: a Task that cannot be cancelled any more is passed over.            *)
CancelRejectionPassed(i) ==
    Resolve(i, "cancelling", commands[i].listed, Tail(commands[i].left), "")

(* The Kernel rejects the cancellation of a Task that has ended; the rejection *)
(* ends the command, whatever is left on its list.                             *)
CancelRejected(i) == Done(i, "failed")

CancelNext(i) ==
    /\ commands[i].step = "cancelling" /\ commands[i].left # << >> /\ ~Exited
    /\ LET t == Head(commands[i].left) IN
       IF status[t] \in Manageable
       THEN /\ status' = [status EXCEPT ![t] = "cancelled"]
            /\ UNCHANGED known
            /\ Resolve(i, "cancelling", commands[i].listed, Tail(commands[i].left), "")
       ELSE UNCHANGED << status, known >> /\ CancelRejected(i)
    /\ UNCHANGED << line, picked, history, recalls, changes >>

ReportCancelled(i) ==
    /\ commands[i].step = "cancelling" /\ commands[i].left = << >> /\ ~Exited
    /\ UNCHANGED << line, picked, history, status, known, recalls, changes >>
    /\ Resolve(i, "done", commands[i].listed, << >>, "ran")

(* The other commands read, or leave what they ask for to the Kernel.          *)
Effective == {<< "task", "pause" >>, << "task", "block" >>, << "task", "purge" >>, << "task", "cancel" >>,
              << "task", "clear" >>, << "memory", "delete" >>, << "exit" >>}
ReadOnly(i, p) ==
    /\ p.refusal = "" /\ p.path \notin Effective
    /\ UNCHANGED << status, known >>
    /\ Done(i, IF p.path = << "help" >> /\ p.at \notin DOMAIN Groups \union DOMAIN Actions
               THEN "not_found" ELSE "ran")

Execute(i) ==
    LET p == Parsed(commands[i].text) IN
    /\ Executing(i)
    /\ \/ Refuse(i, p) \/ ParkTask(i, p) \/ BlockTask(i, p) \/ PurgeTask(i, p) \/ DeleteMemory(i, p)
       \/ ExitSession(i, p) \/ BeginCancel(i, p) \/ ReadOnly(i, p)

(* Meanwhile Tasks advance and an Executor is unregistered.                    *)
Advances == {<< "running", "done" >>, << "running", "blocked" >>, << "parked", "running" >>}
Change ==
    /\ changes < MaxChanges /\ Afforded /\ changes' = changes + 1
    /\ \/ \E t \in Tasks, to \in AllStatuses :
            << status[t], to >> \in Advances /\ status' = [status EXCEPT ![t] = to] /\ UNCHANGED known
       \/ /\ known.executor # {}
          /\ known' = [known EXCEPT !.executor = {}] /\ UNCHANGED status
    /\ commands' = Noted(0, Empty)
    /\ UNCHANGED << line, picked, history, recalls >>

Words == UNION {Range(aim) : aim \in UNION Range(Aims)} \union {f[1] : f \in Fragments}

(* Keys whose meaning depends on what is offered.                              *)
KeyWithOffers ==
    LET answer == Complete(line) IN
    \/ Tab(answer)
    \/ \E step \in {1, -1} : Select(step, Offers(answer))
    \/ RecallPrevious(Offers(answer)) \/ RecallNext(Offers(answer))

NextCommands ==
    \/ \E w \in Words : Type(w)
    \/ CloseQuote \/ Space \/ EraseWord \/ MoveLeft \/ MoveToEnd
    \/ KeyWithOffers \/ Enter
    \/ \E i \in DOMAIN commands : Refresh(i) \/ Execute(i) \/ CancelNext(i) \/ ReportCancelled(i)
    \/ Change

SpecCommands == InitCommands /\ [][NextCommands]_composer
-------------------------------------------------------------------------------
(* Correctness.                                                                *)

(* Whatever line is on the screen, the two parsers agree on it: complete()     *)
(* lets it through exactly if execute() would run it now.  Three exceptions,   *)
(* all at the last word: a quote still open, an empty word, a word in dashes.  *)
Odd(text) == ~text.closed \/ (text.touches /\ (Last(text.words) = "" \/ Dashed(Last(text.words))))
ParsersAgree(answer, parsed) ==
    \/ Odd(line)
    \/ parsed.path = << "help" >>
    \/ (answer.state = "executable") <=> (parsed.refusal = "")

(* A suggestion accepted at the end of a line that was not invalid does not    *)
(* make it so.  Two exceptions: option names are offered after "--", and the   *)
(* space that follows an action accepted after /help is read as a longer path. *)
OffersAreUsable(answer, parsed) ==
    "--" \notin Range(line.words) /\ parsed.path # << "help" >> /\ answer.state # "invalid" =>
        \A n \in DOMAIN answer.offers : Complete(Accepted(line, answer, n)).state # "invalid"

(* Both are about the end of the line, where the cursor can always be put.     *)
LineIsRead ==
    line.words # << >> /\ AtTheEnd =>
        LET answer == Complete(line)
            parsed == Parsed(line)
        IN  ParsersAgree(answer, parsed) /\ OffersAreUsable(answer, parsed)

(* A command that Enter let through is refused when its turn comes only if     *)
(* something it depends on has changed, or its last word is one of the odd     *)
(* ones; so nobody's Task is touched on the strength of an old look.           *)
RefusedOnlyByChange ==
    \A i \in DOMAIN commands :
      (commands[i].reply \in {"refused", "unknown", "unclosed"}) => (commands[i].changed \/ Odd(commands[i].text))

(* A clear or cancel that reports success has cancelled, or seen purged, every *)
(* Task it lists.                                                              *)
ClearIsTrue ==
    \A i \in DOMAIN commands :
      (commands[i].reply = "ran") => \A t \in commands[i].listed : status[t] \in {"cancelled", "purged"}

(* The history holds only lines that were let through, none twice in a row.    *)
HistoryIsSubmitted ==
    \A n \in DOMAIN history.entries :
      /\ \E i \in DOMAIN commands : commands[i].text = history.entries[n]
      /\ (n > 1) => history.entries[n] # history.entries[n - 1]

CommandsAreAsShown ==
    LineIsRead /\ RefusedOnlyByChange /\ ClearIsTrue /\ HistoryIsSubmitted
==============================================================================
