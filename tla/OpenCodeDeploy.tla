---------------------------- MODULE OpenCodeDeploy ----------------------------
(***************************************************************************)
(* A deployment under OpenCode (opencode-pa/src/deploy.ts, adapter.ts and  *)
(* background-runner.ts): the launcher owns the repository while an agent  *)
(* runs in its terminal, or hands it to a detached supervisor that pipes   *)
(* the agent's output, watches for a permission nobody answers and records *)
(* the result.  Processes are killed between two steps, one call on the    *)
(* registry may fail, and another deployment waits for the repository.     *)
(***************************************************************************)
EXTENDS Naturals, Sequences

CONSTANTS MaxMishaps, \* bound on kills and failed registry calls together
          MaxEvents,  \* bound on the permission events of the activity log
          MaxClock    \* bound on the clock that stamps them

\* what the constants must satisfy: the instances assume it
OpenCodeAssumption == {MaxMishaps, MaxEvents, MaxClock} \subseteq Nat

VARIABLES
  plan,      \* mode, whether it owns the repository, whether it forces
  launcher,  \* where the launcher is
  loop,      \* iterations of the snapshot loop
  holds,     \* activeRepositoryLease
  answer,    \* what the launcher told its caller
  supervisor,\* where the supervisor is, "none" before and "gone" after
  seen,      \* the status the supervisor read
  evidence,  \* background-supervisor.json
  agent,     \* "none", "runs", "waits", "stopping", "clean" or "bad"
  lease,     \* who holds the repository: nobody, a process, "left" or a rival
  row,       \* the deployment's last registry status
  drifted,   \* the worktree is no longer what the lease says of it
  stale,     \* the primer is not what the lease says
  log, clock,\* permission events
  remedied,  \* the watchdog has fired, and whether for a waiting agent
  mishaps

launching == <<plan, launcher, loop, holds, answer>>
supervising == <<supervisor, seen, evidence>>
snapshots == <<drifted, stale>>
permissions == <<log, clock, remedied>>
openCodeVars == <<launching, supervising, agent, lease, row, snapshots, permissions, mishaps>>

Terminal == {"success", "failed", "crashed"}
Alive == agent \in {"runs", "waits", "stopping"}
Mishap == mishaps < MaxMishaps /\ mishaps' = mishaps + 1
Background == plan.mode = "background"

OpenCodeInit ==
  /\ plan \in [mode : {"foreground", "background"}, owns : BOOLEAN, advisory : BOOLEAN]
  /\ launcher = "start" /\ loop = 0 /\ holds = FALSE /\ answer = "none"
  /\ supervisor = "none" /\ seen = "none" /\ evidence = "none"
  /\ agent = "none" /\ lease \in {"nobody", "rival"} /\ row = "none"
  /\ drifted = FALSE /\ stale = TRUE
  /\ log = <<>> /\ clock = 0 /\ remedied = "no"
  /\ mishaps = 0

-----------------------------------------------------------------------------
(* The launcher *)

\* emitStartedEvent and installHooks
EmitStarted ==
  /\ launcher = "start"
  /\ \/ row' = "running" /\ launcher' = "admit" /\ UNCHANGED mishaps
     \/ row' = "running" /\ launcher' = "catch" /\ Mishap
  /\ UNCHANGED <<plan, loop, holds, answer, supervising, agent, lease, snapshots, permissions>>

\* acquireRepositoryMutationLease
Acquire ==
  /\ launcher = "admit"
  /\ IF ~plan.owns THEN launcher' = "snapshot" /\ UNCHANGED <<holds, lease, drifted, row, answer>>
     ELSE IF lease = "nobody"
       THEN launcher' = "snapshot" /\ holds' = TRUE /\ lease' = "launcher" /\ drifted' = FALSE /\ UNCHANGED <<row, answer>>
       ELSE launcher' = "done" /\ row' = "failed" /\ answer' = "failed" /\ UNCHANGED <<holds, lease, drifted>>
  /\ UNCHANGED <<plan, loop, supervising, agent, stale, permissions, mishaps>>

WritePrimer ==
  /\ launcher = "snapshot"
  /\ stale' = FALSE /\ launcher' = IF plan.owns THEN "compare" ELSE "spawn"
  /\ UNCHANGED <<plan, loop, holds, answer, supervising, agent, lease, row, drifted, permissions, mishaps>>

\* after an update the loop writes the primer again
Again == "snapshot"

AfterUpdate == Again

\* captureRepositoryGitSnapshot against the plan's
Compare ==
  /\ launcher = "compare"
  /\ \/ ~drifted /\ launcher' = "spawn" /\ UNCHANGED <<loop, snapshots>>
     \/ drifted /\ Background /\ launcher' = "catch" /\ UNCHANGED <<loop, snapshots>>
     \/ /\ drifted /\ drifted' = FALSE /\ stale' = TRUE /\ loop' = loop + 1
        /\ launcher' = IF loop' = 3 THEN "catch" ELSE AfterUpdate
  /\ UNCHANGED <<plan, holds, answer, supervising, agent, lease, row, permissions, mishaps>>

\* adapter.spawn
Spawn ==
  /\ launcher = "spawn"
  /\ IF Background
     THEN supervisor' = "boot" /\ launcher' = "await" /\ UNCHANGED agent
     ELSE \/ agent' = "runs" /\ launcher' = "attend" /\ UNCHANGED supervisor
          \/ agent' = "bad" /\ launcher' = "attend" /\ UNCHANGED supervisor
  /\ UNCHANGED <<plan, loop, holds, answer, seen, evidence, lease, row, snapshots, permissions, mishaps>>

\* waitForBackgroundOwnership; after its deadline it takes no evidence
Ready ==
  /\ launcher = "await" /\ evidence = "active" /\ launcher' = "report"
  /\ UNCHANGED <<plan, loop, holds, answer, supervising, agent, lease, row, snapshots, permissions, mishaps>>

NotReady ==
  /\ launcher = "await" /\ launcher' = "stop"
  /\ UNCHANGED <<plan, loop, holds, answer, supervising, agent, lease, row, snapshots, permissions, mishaps>>

\* terminateBackgroundSupervisor: the group is signalled until the supervisor is dead
StopsGroup == agent' = IF Alive THEN "bad" ELSE agent

StopAgent == StopsGroup

Stop ==
  /\ launcher = "stop"
  /\ supervisor' = "gone" /\ StopAgent
  /\ launcher' = "catch"
  /\ UNCHANGED <<plan, loop, holds, answer, seen, evidence, lease, row, snapshots, permissions, mishaps>>

\* the pid event, and the lease is the supervisor's
Report ==
  /\ launcher = "report"
  /\ \/ launcher' = "done" /\ holds' = FALSE /\ answer' = "pending" /\ UNCHANGED mishaps
     \/ launcher' = "catch" /\ Mishap /\ UNCHANGED <<holds, answer>>
  /\ UNCHANGED <<plan, loop, supervising, agent, lease, row, snapshots, permissions>>

\* the terminal event of a foreground deployment
Complete ==
  /\ launcher = "attend" /\ agent \in {"clean", "bad"}
  /\ \/ row' = (IF agent = "clean" THEN "success" ELSE "failed") /\ launcher' = "release" /\ UNCHANGED mishaps
     \/ row' = row /\ launcher' = "catch" /\ Mishap
  /\ UNCHANGED <<plan, loop, holds, answer, supervising, agent, lease, snapshots, permissions>>

\* releaseRepositoryMutationLease knows the token, not the process
Freed == IF lease \in {"launcher", "supervisor", "left"} THEN "nobody" ELSE lease

Release ==
  /\ launcher = "release"
  /\ lease' = (IF holds THEN Freed ELSE lease) /\ holds' = FALSE
  /\ answer' = (IF row = "success" THEN "success" ELSE "failed") /\ launcher' = "done"
  /\ UNCHANGED <<plan, loop, supervising, agent, row, snapshots, permissions, mishaps>>

\* the catch: a crash is recorded before the repository is released; if it
\* cannot be, the launcher ends and its lease stays
Catch ==
  /\ launcher = "catch"
  /\ \/ row' = "crashed" /\ launcher' = "release" /\ UNCHANGED <<lease, mishaps>>
     \/ row' = row /\ launcher' = "dead" /\ Mishap /\ lease' = IF lease = "launcher" THEN "left" ELSE lease
  /\ UNCHANGED <<plan, loop, holds, answer, supervising, agent, snapshots, permissions>>

-----------------------------------------------------------------------------
(* The supervisor *)

\* the lease's process becomes the supervisor
Transfer ==
  /\ supervisor = "boot"
  /\ IF ~plan.owns THEN supervisor' = "start" /\ UNCHANGED lease
     ELSE \/ lease \in {"launcher", "left"} /\ lease' = "supervisor" /\ supervisor' = "start"
          \/ lease \notin {"launcher", "left"} /\ supervisor' = "fail" /\ UNCHANGED lease
  /\ UNCHANGED <<launching, seen, evidence, agent, row, snapshots, permissions, mishaps>>

StartAgent ==
  /\ supervisor = "start"
  /\ \/ agent' = "runs" /\ supervisor' = "acknowledge"
     \/ agent' = "bad" /\ supervisor' = "fail"
  /\ UNCHANGED <<launching, seen, evidence, lease, row, snapshots, permissions, mishaps>>

Acknowledge ==
  /\ supervisor = "acknowledge" /\ supervisor' = "watch" /\ evidence' = "active"
  /\ UNCHANGED <<launching, seen, agent, lease, row, snapshots, permissions, mishaps>>

\* the child's streams are closed
ReadStatus ==
  /\ supervisor = "watch" /\ agent \in {"clean", "bad"}
  /\ seen' = row /\ supervisor' = "record"
  /\ UNCHANGED <<launching, evidence, agent, lease, row, snapshots, permissions, mishaps>>

Result == IF agent = "clean" THEN "success" ELSE "failed"

Record ==
  /\ supervisor = "record"
  /\ \/ row' = (IF seen = "running" THEN Result ELSE row) /\ supervisor' = "finally" /\ UNCHANGED mishaps
     \/ row' = row /\ supervisor' = "fail" /\ Mishap
  /\ UNCHANGED <<launching, seen, evidence, agent, lease, snapshots, permissions>>

Fail ==
  /\ supervisor = "fail" /\ evidence' = "failed"
  /\ \/ row' = "crashed" /\ UNCHANGED mishaps
     \/ row' = row /\ Mishap
  /\ supervisor' = "finally"
  /\ UNCHANGED <<launching, seen, agent, lease, snapshots, permissions>>

\* ensureTerminalRegistryMarker
Marked == IF row = "running" THEN "crashed" ELSE row

\* the result has been recorded already
Unmarked == row

Marker == Marked

Finally ==
  /\ supervisor = "finally"
  /\ row' = Marker /\ supervisor' = "release"
  /\ UNCHANGED <<launching, seen, evidence, agent, lease, snapshots, permissions, mishaps>>

SupervisorReleases ==
  /\ supervisor = "release"
  /\ lease' = (IF plan.owns THEN Freed ELSE lease) /\ supervisor' = "gone"
  /\ UNCHANGED <<launching, seen, evidence, agent, row, snapshots, permissions, mishaps>>

-----------------------------------------------------------------------------
(* The permission watchdog *)

Event(what) ==
  /\ Len(log) < MaxEvents /\ Background
  /\ \E t \in clock .. MaxClock : clock' = t /\ log' = Append(log, [event |-> what, ts |-> t])
  /\ UNCHANGED <<launching, supervising, lease, row, snapshots, remedied, mishaps>>

Ask == agent = "runs" /\ agent' = "waits" /\ Event("permission.asked")
Reply == agent = "waits" /\ agent' = "runs" /\ Event("permission.replied")
SessionIdle == Alive /\ agent' = agent /\ Event("session.idle")

Asked == {i \in DOMAIN log : log[i].event = "permission.asked"}
Latest == CHOOSE i \in Asked : \A j \in Asked : j <= i
Since(what) == \E i \in DOMAIN log : log[i].event = what /\ log[i].ts >= log[Latest].ts

Answered == Since("permission.replied")

Replied == Answered

Threshold == 1

\* detectPermissionWaitEvidence
DetectPermissionWait ==
  Asked # {} /\ ~Replied /\ Since("session.idle") /\ clock >= log[Latest].ts + Threshold

Watchdog ==
  /\ supervisor \in {"acknowledge", "watch"} /\ remedied = "no" /\ DetectPermissionWait
  /\ remedied' = IF agent = "waits" THEN "justly" ELSE IF Alive THEN "wrongly" ELSE "late"
  /\ row' = "failed" /\ agent' = IF Alive THEN "stopping" ELSE agent
  /\ UNCHANGED <<launching, supervising, lease, snapshots, log, clock, mishaps>>

-----------------------------------------------------------------------------
(* Everything else *)

AgentEnds ==
  /\ Alive
  /\ \/ agent \in {"runs", "waits"} /\ agent' = "clean"
     \/ agent' = "bad"
  /\ UNCHANGED <<launching, supervising, lease, row, snapshots, permissions, mishaps>>

\* the timer of an advisory deployment in the foreground
ForegroundTimeout ==
  /\ launcher = "attend" /\ plan.advisory /\ agent = "runs" /\ agent' = "bad"
  /\ UNCHANGED <<launching, supervising, lease, row, snapshots, permissions, mishaps>>

EditTree ==
  /\ launcher \in {"admit", "snapshot", "compare"} /\ drifted' = TRUE
  /\ UNCHANGED <<launching, supervising, agent, lease, row, stale, permissions, mishaps>>

KillLauncher ==
  /\ launcher \notin {"start", "done", "dead"} /\ launcher' = "dead" /\ Mishap
  /\ lease' = IF lease = "launcher" THEN "left" ELSE lease
  /\ UNCHANGED <<plan, loop, holds, answer, supervising, agent, row, snapshots, permissions>>

KillSupervisor ==
  /\ supervisor \notin {"none", "gone"} /\ supervisor' = "gone" /\ Mishap
  /\ lease' = IF lease = "supervisor" THEN "left" ELSE lease
  /\ UNCHANGED <<launching, seen, evidence, agent, row, snapshots, permissions>>

\* another deployment of the repository comes with force, or goes
Rival ==
  /\ \/ lease \in {"nobody", "left"} /\ lease' = "rival"
     \/ lease = "rival" /\ launcher = "start" /\ lease' = "nobody"
  /\ UNCHANGED <<launching, supervising, agent, row, snapshots, permissions, mishaps>>

OpenCodeNext ==
  \/ EmitStarted \/ Acquire \/ WritePrimer \/ Compare \/ Spawn \/ Ready \/ NotReady \/ Stop \/ Report \/ Complete
  \/ Release \/ Catch \/ Transfer \/ StartAgent \/ Acknowledge \/ ReadStatus \/ Record \/ Fail \/ Finally
  \/ SupervisorReleases \/ Ask \/ Reply \/ SessionIdle \/ Watchdog \/ AgentEnds \/ ForegroundTimeout \/ EditTree
  \/ KillLauncher \/ KillSupervisor \/ Rival

OpenCodeSpec == OpenCodeInit /\ [][OpenCodeNext]_openCodeVars

-----------------------------------------------------------------------------
(* Properties *)

OpenCodeTypeOK ==
  /\ plan \in [mode : {"foreground", "background"}, owns : BOOLEAN, advisory : BOOLEAN]
  /\ launcher \in {"start", "admit", "snapshot", "compare", "spawn", "await", "report", "stop", "attend", "release",
                   "catch", "done", "dead"}
  /\ supervisor \in {"none", "boot", "start", "acknowledge", "watch", "record", "fail", "finally", "release", "gone"}
  /\ loop \in 0 .. 3 /\ holds \in BOOLEAN /\ answer \in {"none", "pending", "success", "failed"}
  /\ seen \in Terminal \cup {"none", "running"} /\ evidence \in {"none", "active", "failed"}
  /\ agent \in {"none", "runs", "waits", "stopping", "clean", "bad"}
  /\ lease \in {"nobody", "launcher", "supervisor", "left", "rival"} /\ row \in Terminal \cup {"none", "running"}
  /\ {drifted, stale} \subseteq BOOLEAN /\ Len(log) <= MaxEvents /\ clock \in 0 .. MaxClock
  /\ remedied \in {"no", "justly", "wrongly", "late"} /\ mishaps \in 0 .. MaxMishaps

\* No process of another deployment has the repository while this one's agent
\* is at work there, unless a process was killed or a registry call failed
\* (deploy.ts release, background-runner.ts finally).
LeaseCoversAgent ==
  Alive /\ plan.owns /\ mishaps = 0 => lease \in {"launcher", "supervisor"}

\* The agent reads the snapshot that the lease records (the loop before spawn).
PrimerMatchesLease == Alive => ~stale

\* A caller who was told "pending" has a supervisor, or a result.
PendingIsWatched ==
  answer = "pending" /\ row = "running" => supervisor # "gone" \/ mishaps > 0

\* The watchdog stops no agent whose permission was answered
\* (detectPermissionWaitEvidence).
RemediesWaiting == remedied # "wrongly"

OpenCodeSafe == LeaseCoversAgent /\ PrimerMatchesLease /\ PendingIsWatched /\ RemediesWaiting

\* Neither side releases the repository before the registry has a result.
ReleasedAfterRow == lease \in {"launcher", "supervisor"} /\ lease' = "nobody" => row' \in Terminal
=============================================================================
