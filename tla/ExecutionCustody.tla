---------------------------- MODULE ExecutionCustody ----------------------------
(***************************************************************************)
(* Native execution of an ordinary builder lineage: the journal of         *)
(* deploy/execution-custody.ts, the session that drives it in the agent    *)
(* process (pi-pa/src/execution-native.ts, with the hooks of               *)
(* pi-extension/prepared-workflow.ts and native-execution-tools.ts), and   *)
(* the restart of a dead session (deploy/execution-restart.ts,             *)
(* pi-pa/src/workflow-resume.ts).                                          *)
(*                                                                         *)
(* A tool call is an operation: an intent, a begin in the journal, the     *)
(* effect, a result, a finish.  The effect of a shell call is a process    *)
(* group that outlives the agent; whatever else uses the worktree is an    *)
(* operator who edits and stages between any two steps.  A session ends    *)
(* at any moment; three records say who owns the worktree, the journal,    *)
(* the lease and the capacity slot, and a restart moves them one by one.   *)
(*                                                                         *)
(* Contents are numbers, each new one fresh: an edit undone between two    *)
(* captures is not seen by the code either.  A commit is its content.      *)
(***************************************************************************)
EXTENDS Naturals, Sequences

CONSTANTS Lineage,          \* deployments, the first and then its successors: 1..n
          CheckOrder,       \* the checks of the plan, in order
          Phases,           \* phases a plan may name
          NoPhase,
          MaxContent,       \* bound on the contents written
          MaxOperator,      \* bound on the operator's steps
          NoProgressLimit,  \* attempts without progress that stop the work
          ReplacementLimit  \* restarts a lineage may use

\* what the constants must satisfy: the instances assume it
ExecutionAssumption ==
  /\ Lineage \subseteq Nat /\ \E n \in Lineage : Lineage = 1..n
  /\ CheckOrder \in Seq(STRING \ {"write", "add", "commit", "none"}) /\ CheckOrder # <<>>
  /\ NoPhase \notin Phases /\ MaxContent \in Nat /\ MaxOperator \in Nat
  /\ NoProgressLimit \in Nat /\ ReplacementLimit \in Nat

Checks == {CheckOrder[i] : i \in DOMAIN CheckOrder}
Tools == Checks \cup {"write", "add", "commit"}
Mutates(t) == t \notin Checks
\* the name a finish files its result under
Key(t) == IF t \in Checks THEN t ELSE IF t = "write" THEN "write" ELSE "shell"
NoOp == [tool |-> "none"]
NoFailure == [tool |-> "none"]
NoEffect == [tool |-> "none", actor |-> 0, state |-> "none"]
NoResult == [ok |-> FALSE, settled |-> FALSE, valid |-> FALSE]
NoOne == 0
Contents == 0..MaxContent

VARIABLES
  journal,    \* the state the events of the execution journal replay to
  facts,      \* what the results the journal names prove
  result,     \* the durable result of the operation in flight, or NoResult
  tree,       \* the worktree: content, index, content of HEAD
  lease,      \* the worktree lease: owner, direct custody, authorized HEAD
  slotOwner,  \* owner of the capacity slot
  session,    \* what the agent of each deployment is doing
  effect,     \* the process or write of an operation
  passedOn,   \* <<check, content>> that really ran and succeeded
  operator    \* operator steps so far

executionVars == <<journal, facts, result, tree, lease, slotOwner, session, effect,
                   passedOn, operator>>

-----------------------------------------------------------------------------
(* Guards the commands share *)

Clean == tree.content = tree.head /\ tree.index = tree.head
HasRoom == tree.last < MaxContent
Written == [tree EXCEPT !.content = tree.last + 1, !.last = tree.last + 1]
Live(d) == session[d].at \notin {"absent", "reserved", "pending", "leased", "slotted", "bound", "ended"}

\* assertCaller, #soleOwner: the lease and the slot name this live deployment
OwnsWorktree(d) == lease.owner = d /\ slotOwner = d
\* the guards of transition that every ordinary command shares
Commands(d) == journal.owner = d /\ journal.pending = NoOne /\ journal.launch = NoOne
Runnable == journal.noProgress < NoProgressLimit
AtRest == journal.custody = "idle" /\ journal.op = NoOp
\* #assertKnown: the worktree is as the last finish left it
Known == /\ [content |-> tree.content, index |-> tree.index, head |-> tree.head] = facts.known
         /\ tree.head = journal.candidate
Idle(d) == session[d].at = "idle"
Becomes(d, at) == session' = [session EXCEPT ![d] = [at |-> at]]

-----------------------------------------------------------------------------
(* Commands of the pa_execution tool *)

\* plan: a plan never changes the phase, and forgets what passed
Plan(d, p) ==
  /\ Idle(d) /\ OwnsWorktree(d) /\ Commands(d) /\ AtRest /\ Runnable
  /\ journal.phase \in {NoPhase, p}
  /\ journal' = [journal EXCEPT !.phase = p, !.answer = {}]
  /\ facts' = [facts EXCEPT !.checked = 0, !.proven = FALSE]
  /\ UNCHANGED <<result, tree, lease, slotOwner, session, effect, passedOn, operator>>

\* select takes direct custody: the lease first, then the journal
SelectProject(d) ==
  /\ Idle(d) /\ OwnsWorktree(d) /\ Commands(d) /\ AtRest /\ Runnable /\ Known
  /\ journal.phase # NoPhase /\ ~journal.recovery
  /\ lease' = [lease EXCEPT !.custody = "active"]
  /\ Becomes(d, "selecting")
  /\ UNCHANGED <<journal, facts, result, tree, slotOwner, effect, passedOn, operator>>

SelectPublish(d) ==
  /\ session[d].at = "selecting"
  /\ journal' = [journal EXCEPT !.custody = "direct"]
  /\ Becomes(d, "idle")
  /\ UNCHANGED <<facts, result, tree, lease, slotOwner, effect, passedOn, operator>>

\* settle gives it back: the journal first, then the lease
SettlePublish(d) ==
  /\ Idle(d) /\ OwnsWorktree(d) /\ Commands(d) /\ Known
  /\ journal.custody = "direct" /\ journal.op = NoOp
  /\ journal' = [journal EXCEPT !.custody = "idle"]
  /\ Becomes(d, "settling")
  /\ UNCHANGED <<facts, result, tree, lease, slotOwner, effect, passedOn, operator>>

SettleProject(d) ==
  /\ session[d].at = "settling"
  /\ lease' = [lease EXCEPT !.custody = "idle"]
  /\ Becomes(d, "idle")
  /\ UNCHANGED <<journal, facts, result, tree, slotOwner, effect, passedOn, operator>>

\* #recoveryFacts: the first explained diagnosis of a failure and every new
\* repair count as progress.
Progress(explained) == explained /\ (facts.repaired \/ ~journal.diagnosed)

\* attempt: transition.
Attempt(d, explained) ==
  /\ Idle(d) /\ OwnsWorktree(d) /\ Commands(d) /\ AtRest /\ Runnable
  /\ journal.failure # NoFailure /\ Known
  /\ journal' = [journal EXCEPT !.recovery = FALSE,
                   !.diagnosed = @ \/ explained,
                   !.noProgress = IF Progress(explained) THEN 0 ELSE @ + 1]
  /\ facts' = [facts EXCEPT !.checked = 0, !.repaired = FALSE]
  /\ UNCHANGED <<result, tree, lease, slotOwner, session, effect, passedOn, operator>>

\* resolve: transition, #verify.  journal.answer is what passedChecks or
\* actionPasses hold under the name of the failure, which is all a resolve
\* reads.  The evidence is the last pass of the command that failed, on the
\* worktree as it is.
\* A plausible bug: the answer is not compared with the worktree.
AnsweredOnce == \E r \in journal.answer : r.tool = journal.failure.tool
Answered == \E r \in journal.answer : r.tool = journal.failure.tool /\ r.after = facts.known /\ Known
Resolve(d) ==
  /\ Idle(d) /\ OwnsWorktree(d) /\ Commands(d) /\ AtRest
  /\ journal.failure # NoFailure
  /\ Answered
  /\ journal' = [journal EXCEPT !.failure = NoFailure, !.recovery = FALSE, !.noProgress = 0,
                   !.answer = {}, !.diagnosed = FALSE]
  /\ facts' = [facts EXCEPT !.repaired = FALSE]
  /\ UNCHANGED <<result, tree, lease, slotOwner, session, effect, passedOn, operator>>

\* #phaseFacts: the last commit of the phase is exactly what is there, and every
\* check had passed on it in order
PhaseProven == facts.proven /\ Known /\ Clean /\ tree.head # 0
Advance(d, p) ==
  /\ Idle(d) /\ OwnsWorktree(d) /\ Commands(d) /\ AtRest /\ Runnable
  /\ journal.phase # NoPhase /\ journal.failure = NoFailure /\ ~journal.recovery
  /\ p # journal.phase /\ p \notin DOMAIN journal.done
  /\ PhaseProven
  /\ journal' = [journal EXCEPT !.phase = p,
                   !.done = [q \in DOMAIN @ \cup {journal.phase} |->
                               IF q = journal.phase THEN tree.head ELSE @[q]]]
  /\ facts' = [facts EXCEPT !.checked = 0, !.proven = FALSE]
  /\ UNCHANGED <<result, tree, lease, slotOwner, session, effect, passedOn, operator>>

-----------------------------------------------------------------------------
(* One tool call *)

NextCheck(t) == facts.checked < Len(CheckOrder) /\ t = CheckOrder[facts.checked + 1]
\* #assertCall: what the plan lets a call do
Allowed(t) ==
  CASE t \in Checks -> NextCheck(t)
    [] t = "commit" -> /\ journal.failure = NoFailure /\ facts.checked = Len(CheckOrder)
                       /\ tree.index = tree.content
    [] OTHER -> TRUE

\* the tool_call hook: status, assertToolCall, prepareOperation
Prepare(d, t) ==
  /\ Idle(d) /\ OwnsWorktree(d) /\ journal.owner = d /\ journal.phase # NoPhase /\ Known
  /\ Allowed(t)
  /\ session' = [session EXCEPT ![d] = [at |-> "prepared", tool |-> t,
                   before |-> [content |-> tree.content, index |-> tree.index, head |-> tree.head]]]
  /\ UNCHANGED <<journal, facts, result, tree, lease, slotOwner, effect, passedOn, operator>>

\* and the begin, which verifies the intent against the worktree again
MayBegin(d) ==
  /\ OwnsWorktree(d) /\ Commands(d) /\ journal.custody = "direct" /\ Runnable
  /\ ~journal.recovery /\ journal.op = NoOp /\ Known
  /\ session[d].before = facts.known
Begin(d) ==
  /\ session[d].at = "prepared"
  /\ IF MayBegin(d)
     THEN LET t == session[d].tool IN
          /\ journal' = [journal EXCEPT
               !.op = [tool |-> t, actor |-> d, before |-> session[d].before],
               !.answer = IF Mutates(t) THEN {} ELSE @]
          /\ Becomes(d, "begun")
     ELSE Becomes(d, "idle") /\ UNCHANGED journal
  /\ UNCHANGED <<facts, result, tree, lease, slotOwner, effect, passedOn, operator>>

\* execute, runBash: the last checks before the effect.  A call they refuse has
\* no result of a settled process, and its barrier stays.
Executes(d) ==
  /\ OwnsWorktree(d) /\ Known
  /\ journal.op.tool = "commit" => tree.index = tree.content /\ tree.index = journal.op.before.index
Execute(d) ==
  /\ session[d].at = "begun"
  /\ IF Executes(d)
     THEN effect' = [tool |-> journal.op.tool, actor |-> d, state |-> "running"] /\ Becomes(d, "running")
     ELSE Becomes(d, "idle") /\ UNCHANGED effect
  /\ UNCHANGED <<journal, facts, result, tree, lease, slotOwner, passedOn, operator>>

\* The effect, whether or not its session still lives.  "left" is a process
\* group that did not settle.
Works(ok, settled) ==
  /\ effect.state = "running"
  /\ effect.tool = "write" => settled
  /\ effect' = [effect EXCEPT !.state = IF ~settled THEN "left" ELSE IF ok THEN "ok" ELSE "failed"]
  /\ \/ /\ effect.tool \in Checks /\ tree' = tree
        /\ passedOn' = IF ok THEN passedOn \cup {<<effect.tool, tree.content>>} ELSE passedOn
     \/ /\ effect.tool = "write" /\ HasRoom /\ tree' = Written /\ UNCHANGED passedOn
     \/ /\ effect.tool = "add" /\ UNCHANGED passedOn
        /\ tree' = IF ok THEN [tree EXCEPT !.index = tree.content] ELSE tree
     \/ /\ effect.tool = "commit" /\ (ok => tree.index # tree.head) /\ UNCHANGED passedOn
        /\ tree' = IF ok THEN [tree EXCEPT !.head = tree.index] ELSE tree
  /\ UNCHANGED <<journal, facts, result, lease, slotOwner, session, operator>>

\* a process that was left behind may still write
LeftWrites ==
  /\ effect.state = "left" /\ HasRoom
  /\ tree' = Written
  /\ UNCHANGED <<journal, facts, result, lease, slotOwner, session, effect, passedOn, operator>>

Capture == [content |-> tree.content, index |-> tree.index, head |-> tree.head]
\* the capture after the effect, the advance of the lease to a new HEAD, and the
\* publication of the result and its link
Record(d) ==
  /\ session[d].at = "running" /\ effect.state \in {"ok", "failed", "left"}
  /\ LET moved == tree.head # journal.op.before.head
         exact == moved => effect.tool = "commit" /\ tree.head = journal.op.before.index
     IN /\ result' = [ok |-> effect.state = "ok", settled |-> effect.state # "left",
                      valid |-> exact, after |-> Capture]
        /\ lease' = IF moved /\ exact THEN [lease EXCEPT !.snapshot = tree.head] ELSE lease
  /\ effect' = IF effect.state = "left" THEN effect ELSE NoEffect
  /\ Becomes(d, "recorded")
  /\ UNCHANGED <<journal, facts, tree, slotOwner, passedOn, operator>>

\* the tool_execution_end hook: resolveToolResult, finish.  A result that is not
\* of a settled process, or not of the worktree as it is, closes nothing.
Closes(d) == /\ OwnsWorktree(d) /\ journal.owner = d /\ journal.op.actor = d
             /\ result.valid /\ result.settled /\ result.after = Capture
\* #ordinaryPassedChecks, replayed up to this finish
CheckedAfter(t) ==
  LET same == result.ok /\ result.after.content = journal.op.before.content
                        /\ result.after.head = journal.op.before.head
  IN IF ~same \/ t = "write" THEN 0
     ELSE IF NextCheck(t) THEN facts.checked + 1 ELSE facts.checked
Finished(d) ==
  LET t == journal.op.tool
      kept == IF Mutates(t) \/ tree.head # journal.candidate THEN {} ELSE journal.answer
      failed == IF journal.failure # NoFailure THEN journal.failure
                ELSE IF result.ok THEN NoFailure ELSE [tool |-> t]
  IN /\ journal' = [journal EXCEPT !.op = NoOp, !.candidate = tree.head,
          !.recovery = @ \/ ~result.ok, !.failure = failed,
          !.answer = IF failed = NoFailure \/ Key(t) # Key(failed.tool) THEN kept
                     ELSE IF result.ok
                     THEN {[tool |-> t, before |-> journal.op.before, after |-> result.after]}
                     ELSE {}]
     /\ facts' = [facts EXCEPT !.known = result.after,
          !.checked = CheckedAfter(t),
          !.repaired = (@ \/ (result.ok /\ t = "write")) /\ journal.failure # NoFailure,
          !.proven = IF t = "commit"
                     THEN result.ok /\ facts.checked = Len(CheckOrder) ELSE @]
     /\ result' = NoResult
Finish(d) ==
  /\ session[d].at = "recorded"
  /\ Becomes(d, "idle")
  /\ IF Closes(d) THEN Finished(d) ELSE UNCHANGED <<journal, facts, result>>
  /\ UNCHANGED <<tree, lease, slotOwner, effect, passedOn, operator>>

-----------------------------------------------------------------------------
(* The restart of a lineage whose session ended *)

Predecessor(e) == e - 1
\* A plausible bug: the operation in flight is not looked at.
DeadOwner(e) ==
  LET d == Predecessor(e) IN
  /\ journal.owner = d /\ lease.owner = d /\ slotOwner = d /\ session[d].at = "ended"
  /\ journal.launch = NoOne /\ journal.pending = NoOne
  /\ journal.noProgress < NoProgressLimit /\ journal.replacements < ReplacementLimit
  /\ Clean /\ tree.head = journal.candidate /\ tree.head = lease.snapshot
\* selectPiStructuredResume and reread: the three records agree on a dead owner
Quiescent(e) ==
  LET d == Predecessor(e) IN
  /\ journal.owner = d /\ lease.owner = d /\ slotOwner = d /\ session[d].at = "ended"
  /\ journal.launch = NoOne /\ journal.pending = NoOne /\ journal.op = NoOp
  /\ journal.noProgress < NoProgressLimit /\ journal.replacements < ReplacementLimit
  /\ lease.custody = IF journal.custody = "idle" THEN "idle" ELSE "active"
  /\ Clean /\ tree.head = journal.candidate /\ tree.head = lease.snapshot

\* reserve: the restart-launch event
Reserve(e) ==
  /\ e - 1 \in Lineage /\ session[e].at = "absent" /\ Quiescent(e)
  /\ journal' = [journal EXCEPT !.launch = e]
  /\ Becomes(e, "reserved")
  /\ UNCHANGED <<facts, result, tree, lease, slotOwner, effect, passedOn, operator>>

\* bindChild: the restart-intent event, once the agent is held at its gate
PrepareRestart(e) ==
  /\ session[e].at = "reserved" /\ journal.launch = e /\ journal.pending = NoOne
  /\ Clean /\ tree.head = journal.candidate /\ tree.head = lease.snapshot
  /\ journal' = [journal EXCEPT !.pending = e]
  /\ Becomes(e, "pending")
  /\ UNCHANGED <<facts, result, tree, lease, slotOwner, effect, passedOn, operator>>

\* restart, projectCustody: handoffDirectOwner, handoffExecution, then the event
HandoffLease(e) ==
  /\ session[e].at = "pending" /\ journal.pending = e /\ lease.owner = Predecessor(e)
  /\ Clean /\ tree.head = journal.candidate /\ tree.head = lease.snapshot
  /\ lease' = [lease EXCEPT !.owner = e]
  /\ Becomes(e, "leased")
  /\ UNCHANGED <<journal, facts, result, tree, slotOwner, effect, passedOn, operator>>

HandoffSlot(e) ==
  /\ session[e].at = "leased" /\ lease.owner = e /\ slotOwner = Predecessor(e)
  /\ slotOwner' = e
  /\ Becomes(e, "slotted")
  /\ UNCHANGED <<journal, facts, result, tree, lease, effect, passedOn, operator>>

Restart(e) ==
  /\ session[e].at = "slotted" /\ journal.pending = e
  /\ journal' = [journal EXCEPT !.owner = e, !.pending = NoOne, !.launch = NoOne,
                   !.replacements = @ + 1]
  /\ Becomes(e, "bound")
  /\ UNCHANGED <<facts, result, tree, lease, slotOwner, effect, passedOn, operator>>

\* the constructor of NativeExecutionSession in the new agent
OpenSession(e) ==
  /\ session[e].at = "bound" /\ journal.owner = e /\ OwnsWorktree(e)
  /\ journal.pending = NoOne /\ journal.launch = NoOne
  /\ \A d \in Lineage : d < e => session[d].at = "ended"
  /\ Becomes(e, "idle")
  /\ UNCHANGED <<journal, facts, result, tree, lease, slotOwner, effect, passedOn, operator>>

-----------------------------------------------------------------------------
(* What no handler decides *)

\* The agent of d, or the launcher that restarts it, ends: a write of its own
\* may be torn, a process of its own goes on.
SessionEnds(d) ==
  /\ session[d].at \notin {"absent", "ended"}
  /\ Becomes(d, "ended")
  /\ LET writing == effect.actor = d /\ effect.tool = "write" IN
     /\ effect' = IF writing THEN NoEffect ELSE effect
     /\ \/ tree' = tree
        \/ writing /\ effect.state = "running" /\ HasRoom /\ tree' = Written
  /\ UNCHANGED <<journal, facts, result, lease, slotOwner, passedOn, operator>>

\* an orphan of a dead session ends unobserved
OrphanEnds ==
  /\ effect.state \in {"ok", "failed", "left"} /\ ~Live(effect.actor)
  /\ effect' = NoEffect
  /\ UNCHANGED <<journal, facts, result, tree, lease, slotOwner, session, passedOn, operator>>

OperatorEdits ==
  /\ operator < MaxOperator /\ HasRoom
  /\ tree' = Written /\ operator' = operator + 1
  /\ UNCHANGED <<journal, facts, result, lease, slotOwner, session, effect, passedOn>>
OperatorStages ==
  /\ operator < MaxOperator /\ tree.index # tree.content
  /\ tree' = [tree EXCEPT !.index = tree.content] /\ operator' = operator + 1
  /\ UNCHANGED <<journal, facts, result, lease, slotOwner, session, effect, passedOn>>

ExecutionInit ==
  /\ journal = [owner |-> 1, launch |-> NoOne, pending |-> NoOne, phase |-> NoPhase,
                custody |-> "idle", op |-> NoOp, failure |-> NoFailure, recovery |-> FALSE,
                diagnosed |-> FALSE, noProgress |-> 0, replacements |-> 0, candidate |-> 0,
                answer |-> {}, done |-> [q \in {} |-> 0]]
  /\ facts = [known |-> [content |-> 0, index |-> 0, head |-> 0], checked |-> 0,
              repaired |-> FALSE, proven |-> FALSE]
  /\ result = NoResult
  /\ tree = [content |-> 0, index |-> 0, head |-> 0, last |-> 0]
  /\ lease = [owner |-> 1, custody |-> "idle", snapshot |-> 0]
  /\ slotOwner = 1
  /\ session = [d \in Lineage |-> [at |-> IF d = 1 THEN "idle" ELSE "absent"]]
  /\ effect = NoEffect /\ passedOn = {} /\ operator = 0

ExecutionNext ==
  \/ \E d \in Lineage :
       \/ \E p \in Phases : Plan(d, p) \/ Advance(d, p)
       \/ SelectProject(d) \/ SelectPublish(d) \/ SettlePublish(d) \/ SettleProject(d)
       \/ \E explained \in BOOLEAN : Attempt(d, explained)
       \/ Resolve(d)
       \/ \E t \in Tools : Prepare(d, t)
       \/ Begin(d) \/ Execute(d) \/ Record(d) \/ Finish(d)
       \/ Reserve(d) \/ PrepareRestart(d) \/ HandoffLease(d) \/ HandoffSlot(d)
       \/ Restart(d) \/ OpenSession(d) \/ SessionEnds(d)
  \/ \E ok, settled \in BOOLEAN : Works(ok, settled)
  \/ LeftWrites
  \/ OrphanEnds \/ OperatorEdits \/ OperatorStages

ExecutionSpec == ExecutionInit /\ [][ExecutionNext]_executionVars

-----------------------------------------------------------------------------
(* Properties *)

\* The types of the state.
ExecutionTypeOK ==
  /\ journal.owner \in Lineage /\ journal.launch \in Lineage \cup {NoOne}
  /\ journal.pending \in Lineage \cup {NoOne} /\ journal.phase \in Phases \cup {NoPhase}
  /\ journal.custody \in {"idle", "direct"} /\ journal.op.tool \in Tools \cup {"none"}
  /\ journal.noProgress \in 0..NoProgressLimit /\ journal.replacements \in 0..ReplacementLimit
  /\ DOMAIN journal.done \subseteq Phases /\ facts.checked \in 0..Len(CheckOrder)
  /\ {tree.content, tree.index, tree.head, tree.last} \subseteq Contents
  /\ lease.owner \in Lineage /\ slotOwner \in Lineage /\ lease.custody \in {"idle", "active"}
  /\ passedOn \subseteq Checks \X Contents

\* An effect that runs, an orphan of a dead agent included, is the operation of
\* the journal, and the journal, the active lease and the slot all belong to its
\* agent: no successor works beside it (assertRestart, transition, projectCustody).
EffectOwned ==
  effect # NoEffect =>
    /\ journal.op.tool = effect.tool /\ journal.op.actor = effect.actor
    /\ journal.custody = "direct" /\ journal.owner = effect.actor
    /\ lease = [lease EXCEPT !.owner = effect.actor, !.custody = "active"]
    /\ slotOwner = effect.actor

\* A phase was left behind only with a commit on whose content every check of
\* the plan ran and succeeded (#phaseFacts, #ordinaryPassedChecks).
PhaseChecked == \A p \in DOMAIN journal.done : \A c \in Checks : <<c, journal.done[p]>> \in passedOn

\* A failed check is cleared only when the same check has succeeded on the
\* content the worktree has, or the worktree changed while that check ran
\* (transition "resolve", #verify "resolve").
FailureAnswered ==
  journal.failure.tool \in Checks /\ journal'.failure = NoFailure =>
    \/ <<journal.failure.tool, tree.content>> \in passedOn
    \/ \E r \in journal.answer : /\ r.tool = journal.failure.tool /\ r.after = Capture
                                /\ r.before.content # r.after.content
=============================================================================
