---------------------------- MODULE SessionTools ----------------------------
(* Two tools of an agent's session (pi-extension/todo.ts, question.ts): the task *)
(* list, which is rebuilt from the results along the branch of the session that *)
(* is being read and published as a file of the deployment (task-snapshot.ts), *)
(* and the question dialog. *)
EXTENDS Integers, Sequences, FiniteSets, SequencesExt

CONSTANTS
  MaxTasks,   \* bound: tasks of a list
  MaxSaved,   \* bound: tasks of a list that the session returns to
  DepSets,    \* dependencies that a call gives
  MaxFaults,  \* bound: sessions that die, and files that cannot be written
  Options,    \* the labels of a question, in order
  Typed       \* what the operator types: "" is an empty line

ToolsAssumption ==
  /\ MaxTasks \in Nat /\ MaxSaved \in Nat /\ MaxFaults \in Nat
  /\ \A d \in DepSets : d \subseteq 1..MaxTasks
  /\ "" \in Typed

VARIABLES
  list,     \* the store: the tasks in order, and the next identifier
  leaf,     \* the list of the last result along the branch
  saved,    \* the list of an earlier result, which the session can return to
  calling,  \* a call has changed the store and its result is not recorded yet
  file,     \* the published list
  behind,   \* the last publication failed
  faults,
  dialog,   \* the dialog, or its answer
  tool      \* "todo" or "question"

todoVars == <<list, leaf, saved, calling, file, behind, faults>>
toolVars == <<todoVars, dialog, tool>>

Statuses == {"pending", "in_progress", "completed", "cancelled"}
Task(i, deps) == [id |-> i, status |-> "pending", deps |-> deps]
Empty == [tasks |-> <<>>, next |-> 1]

Closed == [at |-> "closed"]
ToolsInit ==
  /\ list = Empty /\ leaf = Empty /\ saved = Empty /\ calling = FALSE
  /\ file = Empty /\ behind = FALSE /\ faults = 0
  /\ dialog = Closed /\ tool \in {"todo", "question"}

----------------------------------------------------------------------------
(* The task list. *)

IdsOf(tasks) == {tasks[k].id : k \in 1..Len(tasks)}
Pos(tasks, i) == CHOOSE k \in 1..Len(tasks) : tasks[k].id = i
StatusIn(tasks, i) == tasks[Pos(tasks, i)].status
Terminal(t) == t.status \in {"completed", "cancelled"}
Known(deps, tasks) == deps \subseteq IdsOf(tasks)

\* hasDeploymentTaskDependencyCycle: a depth-first walk that meets a task it is
\* visiting exists just when some tasks all depend on one another.
DepsIn(tasks, i) == tasks[Pos(tasks, i)].deps
Cyclic(tasks) ==
  \E S \in SUBSET IdsOf(tasks) : S # {} /\ \A i \in S : DepsIn(tasks, i) \cap S # {}

\* incompleteDependency: a cancelled task stays incomplete for ever.
Unblocked(t, tasks) == \A d \in t.deps : StatusIn(tasks, d) = "completed"

WithTask(tasks, t) == [tasks EXCEPT ![Pos(tasks, t.id)] = t]

\* What apply makes of the list; the same list when it rejects the call.
Adding(deps, tasks, next) ==
  IF Known(deps, tasks) THEN [tasks |-> Append(tasks, Task(next, deps)), next |-> next + 1]
  ELSE [tasks |-> tasks, next |-> next]
UpdatedLate(t, deps, tasks) ==
  IF Terminal(t) \/ t.id \in deps \/ ~Known(deps, tasks) THEN tasks
  ELSE WithTask(tasks, [t EXCEPT !.deps = deps])
Updated(t, deps, tasks) ==
  LET changed == WithTask(tasks, [t EXCEPT !.deps = deps])
  IN  IF Terminal(t) \/ t.id \in deps \/ ~Known(deps, tasks) \/ Cyclic(changed) THEN tasks ELSE changed
Demoted(tasks) ==
  [k \in 1..Len(tasks) |->
     IF tasks[k].status = "in_progress" THEN [tasks[k] EXCEPT !.status = "pending"] ELSE tasks[k]]
Started(t, tasks) ==
  IF Terminal(t) \/ ~Unblocked(t, tasks) THEN tasks
  ELSE WithTask(Demoted(tasks), [t EXCEPT !.status = "in_progress"])
Completed(t, tasks) ==
  IF Terminal(t) \/ ~Unblocked(t, tasks) THEN tasks
  ELSE WithTask(tasks, [t EXCEPT !.status = "completed"])
Cancelled(t, tasks) ==
  IF Terminal(t) THEN tasks ELSE WithTask(tasks, [t EXCEPT !.status = "cancelled"])
\* 0 stands for an omitted beforeId, which moves the task to the end.
Reordered(t, before, tasks) ==
  LET rest == RemoveAt(tasks, Pos(tasks, t.id))
      at == IF before = 0 THEN Len(rest) + 1 ELSE Pos(rest, before)
  IN  IF Terminal(t) \/ before = t.id \/ (before # 0 /\ before \notin IdsOf(tasks)) THEN tasks
      ELSE InsertAt(rest, at, t)

\* validateDeploymentTaskSnapshot
OnlyOnce(tasks) == Cardinality(IdsOf(tasks)) = Len(tasks)
Publishable(l) ==
  /\ OnlyOnce(l.tasks)
  /\ \A k \in 1..Len(l.tasks) :
       /\ l.tasks[k].id < l.next /\ l.tasks[k].id \notin l.tasks[k].deps
       /\ Known(l.tasks[k].deps, l.tasks)
  /\ Cardinality({k \in 1..Len(l.tasks) : l.tasks[k].status = "in_progress"}) <= 1
  /\ ~Cyclic(l.tasks)

\* createTodoSnapshotPublisher: the file is replaced by a rename; a list that does not
\* validate, or a failing write, leaves the old one and is only reported.
Publish(l) ==
  \/ file' = (IF Publishable(l) THEN l ELSE file) /\ behind' = FALSE /\ faults' = faults
  \/ faults < MaxFaults /\ faults' = faults + 1 /\ behind' = TRUE /\ file' = file

Store(l) == list' = l /\ Publish(l)
Returns(l) == ~calling /\ calling' = TRUE /\ Store(l) /\ UNCHANGED <<leaf, saved>>
Stored(tasks) == [list EXCEPT !.tasks = tasks]

Add(deps) ==
  /\ Len(list.tasks) < MaxTasks /\ Returns(Adding(deps, list.tasks, list.next))
OnTask(i, Change(_)) == i \in IdsOf(list.tasks) /\ Returns(Stored(Change(list.tasks[Pos(list.tasks, i)])))
Update(i, deps) == OnTask(i, LAMBDA t : Updated(t, deps, list.tasks))
Start(i) == OnTask(i, LAMBDA t : Started(t, list.tasks))
Complete(i) == OnTask(i, LAMBDA t : Completed(t, list.tasks))
Cancel(i) == OnTask(i, LAMBDA t : Cancelled(t, list.tasks))
Reorder(i, before) == OnTask(i, LAMBDA t : Reordered(t, before, list.tasks))
\* list, and a call whose identifier, text or action is missing or unknown.
Refused == Returns(list)

\* The session records the result of the call.
Record ==
  /\ calling /\ calling' = FALSE /\ leaf' = list
  /\ \/ saved' = saved
     \/ Len(list.tasks) <= MaxSaved /\ saved' = list
  /\ UNCHANGED <<list, file, behind, faults>>

\* reconstructTodoState: the session goes to another branch (session_tree).
Return ==
  /\ ~calling /\ leaf' = saved /\ Store(saved) /\ UNCHANGED <<saved, calling>>
\* The process dies, also before a result is recorded, and the session is resumed.
Resume ==
  /\ faults < MaxFaults /\ calling' = FALSE /\ list' = leaf
  /\ faults' = faults + 1 /\ behind' = FALSE
  /\ file' = IF Publishable(leaf) THEN leaf ELSE file
  /\ UNCHANGED <<leaf, saved>>

TodoStep ==
  \/ \E d \in DepSets : Add(d) \/ \E i \in 1..MaxTasks : Update(i, d)
  \/ \E i \in 1..MaxTasks :
       \/ Start(i) \/ Complete(i) \/ Cancel(i)
       \/ \E before \in 0..(MaxTasks + 1) : Reorder(i, before)
  \/ Refused \/ Record \/ Return \/ Resume

----------------------------------------------------------------------------
(* The question dialog: a row for each option, one for a text of one's own and,
   when several answers are allowed, one that submits. *)

OptionCount == Len(Options)
CustomRow == OptionCount + 1
Rows(d) == OptionCount + IF d.multiple THEN 2 ELSE 1

\* A question without options, or outside the terminal, is answered without a dialog.
Ask(multiple) ==
  /\ dialog.at # "open" /\ OptionCount > 0
  /\ dialog' = [at |-> "open", multiple |-> multiple, cursor |-> 1, editing |-> FALSE,
                custom |-> "", selected |-> {}]

Shown == dialog.at = "open" /\ ~dialog.editing
MoveTo(row) ==
  /\ Shown /\ row \in {dialog.cursor - 1, dialog.cursor + 1} \cap 1..Rows(dialog)
  /\ dialog' = [dialog EXCEPT !.cursor = row]

Labels(indices) == {Options[k] : k \in indices}
Answers(options, own) == IF own = "" THEN options ELSE options \cup {own}
Answered(indices, own) ==
  [at |-> "answered", multiple |-> dialog.multiple, options |-> Labels(indices), own |-> own,
   answers |-> Answers(Labels(indices), own), marked |-> indices]

Toggle ==
  /\ Shown /\ dialog.multiple /\ dialog.cursor <= OptionCount
  /\ dialog' = [dialog EXCEPT !.selected =
                  IF dialog.cursor \in @ THEN @ \ {dialog.cursor} ELSE @ \cup {dialog.cursor}]
Choose ==
  /\ Shown /\ ~dialog.multiple /\ dialog.cursor <= OptionCount
  /\ dialog' = Answered({dialog.cursor}, dialog.custom)
Edit ==
  /\ Shown /\ dialog.cursor = CustomRow /\ dialog' = [dialog EXCEPT !.editing = TRUE]
Submit ==
  /\ Shown /\ dialog.cursor > CustomRow /\ dialog' = Answered(dialog.selected, dialog.custom)

\* A line of the editor replaces the text, an empty one removes it; a single answer
\* is complete with it.
SubmitCustom(text) ==
  /\ dialog.at = "open" /\ dialog.editing
  /\ dialog' = IF text = "" \/ dialog.multiple
               THEN [dialog EXCEPT !.editing = FALSE, !.custom = text]
               ELSE Answered(dialog.selected, text)
CancelCustom ==
  /\ dialog.at = "open" /\ dialog.editing /\ dialog' = [dialog EXCEPT !.editing = FALSE]
Escape == Shown /\ dialog' = [at |-> "cancelled"]

QuestionStep ==
  \/ \E multiple \in BOOLEAN : Ask(multiple)
  \/ \E row \in 1..(OptionCount + 2) : MoveTo(row)
  \/ Toggle \/ Choose \/ Edit \/ Submit \/ CancelCustom \/ Escape
  \/ \E text \in Typed : SubmitCustom(text)

\* The tools run one after the other and share nothing.
ToolsNext ==
  \/ tool = "todo" /\ TodoStep /\ UNCHANGED <<dialog, tool>>
  \/ tool = "question" /\ QuestionStep /\ UNCHANGED <<todoVars, tool>>

----------------------------------------------------------------------------
ToolsTypeOK ==
  /\ \A k \in 1..Len(list.tasks) : list.tasks[k].status \in Statuses
  /\ list.next \in 1..(MaxTasks + 1) /\ faults \in 0..MaxFaults
  /\ dialog.at \in {"closed", "open", "answered", "cancelled"}

\* The file that pa status shows is the list the agent works with, on whatever branch
\* of the session it is, unless the last write failed: no sequence of calls leads to
\* a list that its own validation refuses (validateDeploymentTaskSnapshot,
\* task-snapshot.ts:68).
FilePublished == ~behind => file = list

\* A completed task was completed after everything it depends on, and this stays so
\* when dependencies change and branches are left (incompleteDependency, todo.ts:348).
CompletedInOrder ==
  \A k \in 1..Len(list.tasks) :
    list.tasks[k].status = "completed" =>
      \A d \in list.tasks[k].deps : StatusIn(list.tasks, d) = "completed"

\* A question with one answer has exactly one, whatever was typed and left before;
\* one with several has just those that are marked and the text that stands.
AnswersExact ==
  dialog.at = "answered" =>
    /\ ~dialog.multiple => Cardinality(dialog.answers) = 1
    /\ dialog.answers \ {dialog.own} \subseteq Labels(dialog.marked)

ToolsSafe == ToolsTypeOK /\ FilePublished /\ CompletedInOrder /\ AnswersExact
=============================================================================
