---------------------------- MODULE MCExecution ----------------------------
(* The instances of the modules about the work an agent is given: the execution *)
(* custody of a builder, the admission of a review, the matrix of a reviewer, the tools *)
(* of a session, the native operations of an advisory one and the log of what an agent did. *)
(* They share no state, so a behaviour is one of a single part.           *)
EXTENDS Integers, Sequences, FiniteSets, TLC

CONSTANTS fa, fb, Lineage, CheckOrder, Phases, NoPhase, MaxContent, MaxOperator,
  NoProgressLimit, ReplacementLimit, va, vb, Reviews, Authorization, Steps, NoReview,
  MaxMishaps, vl, vm, Launches, NoLaunch, Profiles, MaxDrifts, MaxTasks, MaxSaved,
  MaxFaults, DepSets, Options, Typed, o1, o2, Ops, Unbarred, Runners, MaxBreaks, u1, u2,
  ToolCalls, w1, Outputs, Named, z1, z2, FileCalls, y1, y2, Sayings, NoCall, MaxOdd,
  MaxNoise, MaxFailures

\* the checks of the plan, and the authorizations of the two reviews
Plan == <<"test">>
Issued == (va :> 1) @@ (vb :> 2)

\* the dependencies a call gives, and a question that names an option twice
Dependencies == {{}, {1}, {2}}
Labels == <<"a", "b", "a">>

\* the tool calls of a message of Pi, and the record that OpenCode prints
Announced == <<u1, u2>>
Printed == <<w1>>

\* two file tools that say the same, or not
AlikeOrNot == {(z1 :> y1) @@ (z2 :> y1), (z1 :> y1) @@ (z2 :> y2)}

VARIABLES part,
  journal, facts, result, tree, lease, slotOwner, session, effect, passedOn, operator,
  structured, matrix, marked, handoff, claims, active, group, exit, scope, starts,
  results, saved, ledger, settled, lost,
  profile, drifted, drifts, stands, probe, seen, fresh, workspace, counted, anchored,
  holder, claim, unended,
  list, leaf, earlier, calling, file, behind, faults, dialog, tool,
  proof, barrier, op, crew, stored, disk, reply, breaks,
  runtime, log, fails, outcome, heard, spoken, stopped, odd, carry, tracked, terminal,
  projection, printed, pending, noise, openEnded, mixed, captured, partial, calls,
  pendingFiles, raised, advisory, lastKey, says, unsaid

Exec == INSTANCE ExecutionCustody
Mat == INSTANCE ReviewMatrix WITH review <- matrix
Admit == INSTANCE ReviewAdmission WITH at <- stands, active <- unended, journal <- counted, drift <- drifted
Tools == INSTANCE SessionTools WITH saved <- earlier
Operations == INSTANCE NativeOperations WITH Commands <- Runners, MaxFaults <- MaxBreaks, faults <- breaks, owner <- proof, result <- reply, group <- crew
Activity == INSTANCE AgentActivity WITH seen <- projection, barrier <- raised, unended <- openEnded

ASSUME ExecutionConstants == Exec!ExecutionAssumption
ASSUME MatrixConstants == Mat!ReviewAssumption
ASSUME AdmissionConstants == Admit!AdmissionAssumption
ASSUME ToolsConstants == Tools!ToolsAssumption
ASSUME OperationsConstants == Operations!OperationsAssumption
ASSUME ActivityConstants == Activity!ActivityAssumption

custodyVars == <<journal, facts, result, tree, lease, slotOwner, session, effect, passedOn,
  operator>>
matrixVars == <<structured, matrix, marked, handoff, claims, active, group, exit, scope,
  starts, results, saved, ledger, settled, lost>>
reviewVars == <<profile, drifted, drifts, stands, probe, seen, fresh, workspace, counted,
  anchored, holder, claim, unended>>
toolVars == <<list, leaf, earlier, calling, file, behind, faults, dialog, tool>>
operationsVars == <<proof, barrier, op, crew, stored, disk, reply, breaks>>
activityVars == <<runtime, log, fails, outcome, heard, spoken, stopped, odd, carry,
  tracked, terminal, projection, printed, pending, noise, openEnded, mixed, captured,
  partial, calls, pendingFiles, raised, advisory, lastKey, says, unsaid>>

\* A part that does not run keeps one idle value in its variables.
NoExecution ==
  /\ journal = 0 /\ facts = 0 /\ result = 0 /\ tree = 0 /\ lease = 0 /\ slotOwner = 0
  /\ session = 0 /\ effect = 0 /\ passedOn = 0 /\ operator = 0
NoMatrix ==
  /\ structured = 0 /\ matrix = 0 /\ marked = 0 /\ handoff = 0 /\ claims = 0 /\ active = 0
  /\ group = 0 /\ exit = 0 /\ scope = 0 /\ starts = 0 /\ results = 0 /\ saved = 0
  /\ ledger = 0 /\ settled = 0 /\ lost = 0
NoAdmission ==
  /\ profile = 0 /\ drifted = 0 /\ drifts = 0 /\ stands = 0 /\ probe = 0 /\ seen = 0
  /\ fresh = 0 /\ workspace = 0 /\ counted = 0 /\ anchored = 0 /\ holder = 0 /\ claim = 0
  /\ unended = 0
NoTools ==
  /\ list = 0 /\ leaf = 0 /\ earlier = 0 /\ calling = 0 /\ file = 0 /\ behind = 0
  /\ faults = 0 /\ dialog = 0 /\ tool = 0
NoOperations ==
  /\ proof = 0 /\ barrier = 0 /\ op = 0 /\ crew = 0 /\ stored = 0 /\ disk = 0 /\ reply = 0
  /\ breaks = 0
NoActivity ==
  /\ runtime = 0 /\ log = 0 /\ fails = 0 /\ outcome = 0 /\ heard = 0 /\ spoken = 0
  /\ stopped = 0 /\ odd = 0 /\ carry = 0 /\ tracked = 0 /\ terminal = 0 /\ projection = 0
  /\ printed = 0 /\ pending = 0 /\ noise = 0 /\ openEnded = 0 /\ mixed = 0 /\ captured = 0
  /\ partial = 0 /\ calls = 0 /\ pendingFiles = 0 /\ raised = 0 /\ advisory = 0
  /\ lastKey = 0 /\ says = 0 /\ unsaid = 0

ExecutionInit ==
  \/ /\ part = "execution" /\ Exec!ExecutionInit /\ NoMatrix /\ NoAdmission /\ NoTools
     /\ NoOperations /\ NoActivity
  \/ /\ part = "matrix" /\ Mat!MatrixInit /\ NoExecution /\ NoAdmission /\ NoTools
     /\ NoOperations /\ NoActivity
  \/ /\ part = "review" /\ Admit!AdmissionInit /\ NoExecution /\ NoMatrix /\ NoTools
     /\ NoOperations /\ NoActivity
  \/ /\ part = "tools" /\ Tools!ToolsInit /\ NoExecution /\ NoMatrix /\ NoAdmission
     /\ NoOperations /\ NoActivity
  \/ /\ part = "operations" /\ Operations!OperationsInit /\ NoExecution /\ NoMatrix
     /\ NoAdmission /\ NoTools /\ NoActivity
  \/ /\ part = "activity" /\ Activity!ActivityInit /\ NoExecution /\ NoMatrix /\ NoAdmission
     /\ NoTools /\ NoOperations

ExecutionStep ==
  /\ part = "execution" /\ Exec!ExecutionNext
  /\ UNCHANGED <<part, matrixVars, reviewVars, toolVars, operationsVars, activityVars>>
MatrixStep ==
  /\ part = "matrix" /\ Mat!MatrixNext
  /\ UNCHANGED <<part, custodyVars, reviewVars, toolVars, operationsVars, activityVars>>
AdmissionStep ==
  /\ part = "review" /\ Admit!AdmissionNext
  /\ UNCHANGED <<part, custodyVars, matrixVars, toolVars, operationsVars, activityVars>>
ToolsStep ==
  /\ part = "tools" /\ Tools!ToolsNext
  /\ UNCHANGED <<part, custodyVars, matrixVars, reviewVars, operationsVars, activityVars>>
OperationsStep ==
  /\ part = "operations" /\ Operations!OperationsNext
  /\ UNCHANGED <<part, custodyVars, matrixVars, reviewVars, toolVars, activityVars>>
ActivityStep ==
  /\ part = "activity" /\ Activity!ActivityNext
  /\ UNCHANGED <<part, custodyVars, matrixVars, reviewVars, toolVars, operationsVars>>

ExecutionNext ==
  \/ ExecutionStep
  \/ MatrixStep
  \/ AdmissionStep
  \/ ToolsStep
  \/ OperationsStep
  \/ ActivityStep
executionVars == <<part, custodyVars, matrixVars, reviewVars, toolVars, operationsVars,
  activityVars>>
ExecutionSpec == ExecutionInit /\ [][ExecutionNext]_executionVars

\* The phases of a plan are interchangeable, and so are two launches.
Alike == Permutations({fa, fb}) \cup Permutations({vl, vm})

\* The invariant of each part begins with its type invariant.

\* An effect that runs belongs to the one agent that the journal, the lease and
\* the slot name, and a phase was left only when its checks succeeded on exactly
\* the content that was committed (execution-native.ts, execution-custody.ts); a
\* matrix starts only on what its runner itself reread as approved, its launch
\* counted before it consumed the authorization; a passed matrix really ran, once,
\* and the candidate is given up only when none of its processes can write
\* (validation-launch.ts, nixos-prerequisites.ts, executor.ts, workflow-matrix.ts).
ExecutionSafe ==
  /\ part = "execution" =>
       Exec!ExecutionTypeOK /\ Exec!EffectOwned /\ Exec!PhaseChecked
  /\ part = "matrix" => Mat!MatrixTypeOK /\ Mat!ProvenRan /\ Mat!ReleasedQuiet
  /\ part = "review" => Admit!AdmissionTypeOK /\ Admit!RunsAsApproved /\ Admit!ClaimAccounted

\* The task list that is shown is the one the agent works with, its completed tasks
\* followed what they depend on, and an answer is exact (todo.ts, question.ts); while a
\* process of a check lives the lease carries its barrier, a command runs on a durable
\* record, and what passed has ended whole (pa-core/src/operations); what a run concludes and
\* records of its agent's tools is what the agent printed and its plugin told
\* (pi-pa/src/adapter.ts, opencode-pa/src/adapter.ts, pa-safety-activity.ts).
SessionSafe ==
  /\ part = "tools" => Tools!ToolsSafe
  /\ part = "operations" =>
       /\ Operations!OperationsTypeOK /\ Operations!BarrierOverEffects
       /\ Operations!RunsOnRecord /\ Operations!PassedIsTrue
  /\ part = "activity" => Activity!ActivityTypeOK /\ Activity!ActivitySafe

\* The steps that may never happen: a failed check cleared without an answer, a
\* ledger that changes after it was written, or that the reviewer is not told.
ExecutionSteps ==
  [][ /\ part = "execution" => Exec!FailureAnswered
      /\ part = "matrix" => Mat!LedgerKept ]_executionVars
============================================================================
