---------------------------- MODULE MCHost ----------------------------
(* The instances of the modules about the processes of a host: the launch of a *)
(* Pi deployment, the launch of an OpenCode deployment, the lease evidence in *)
(* the worktrees, the life of the API server, its agent sessions and the documents *)
(* its requests handle, the trash and the bulletins.  They share no state, so a *)
(* behaviour is one of a single part.                                *)
EXTENDS AgentSessions, Sequences, TLC

CONSTANTS o1, c1, r1, s1, Calls, Casts, Kind, NoOne, MaxMishaps, MaxEvents, MaxClock, x1,
  x2, Callers, main, side, Trees, Primary, MaxRecords, h1, h2, w1, opencode, p1, p2, p3,
  Procs, Nobody, MaxCrashes, MaxReuse, d1, d2, f1, Reqs, Files, Docs, MaxNotes, MaxMoves,
  MaxKills, Commands, Paths, Headings, MaxNumbers, MaxCommands, MaxDeaths

\* an orchestrator with one other call at a time
KindOf == (o1 :> "orchestrator") @@ (c1 :> "child") @@ (r1 :> "review") @@ (s1 :> "selection")
Pairs == {{o1, c1}, {o1, r1}, {o1, s1}}

VARIABLES part,
  tree, linked, slot, lease, borrower, review, row, file, agent, launch, cast, faults,
  edits,
  plan, launcher, loop, holds, answer, supervisor, seen, proof, runtime, repository,
  registered, drifted, stale, log, clock, remedied, failed,
  callers, running, helper, present, path, writer, temporary, kept, withdrawn, unguarded,
  mishaps,
  folders, request, remarks, confirmed, drafts, ticket, uploads, listed, subject, kills,
  counter, disk, bin, manifest, inForce, resolved, pc, made, removed, standing, replaced,
  shared, belated, crossed, deaths, commands, area,
  pidFile, port, at, cmd, target, sent, foreign, raced, crashes, reuses

Pi == INSTANCE PiDeploy
Code == INSTANCE OpenCodeDeploy WITH agent <- runtime, lease <- repository, row <- registered, evidence <- proof, mishaps <- failed
File == INSTANCE EvidenceFiles WITH owner <- writer
Inbox == INSTANCE OperatorInbox WITH files <- folders, req <- request, notes <- remarks, told <- confirmed, written <- drafts, stored <- uploads, refs <- listed, side <- subject, Names <- Files
Bin == INSTANCE TrashStore WITH Procs <- Commands, Titles <- Headings, MaxIds <- MaxNumbers, active <- inForce, late <- belated, overlap <- crossed
Server == INSTANCE ServerLifecycle

ASSUME DeployConstants == Pi!PiDeployAssumption
ASSUME OpenCodeConstants == Code!OpenCodeAssumption
ASSUME EvidenceConstants == File!EvidenceAssumption
ASSUME InboxConstants == Inbox!InboxAssumption
ASSUME TrashConstants == Bin!TrashAssumption
ASSUME ServerConstants == Server!LifecycleAssumption

deployVars == <<tree, linked, slot, lease, borrower, review, row, file, agent, launch,
  cast, faults, edits>>
openCodeVars == <<plan, launcher, loop, holds, answer, supervisor, seen, proof, runtime,
  repository, registered, drifted, stale, log, clock, remedied, failed>>
evidenceVars == <<callers, running, helper, present, path, writer, temporary, kept,
  withdrawn, unguarded, mishaps>>
inboxVars == <<folders, request, remarks, confirmed, drafts, ticket, uploads, listed,
  subject, kills>>
storeFileVars == <<counter, disk, bin, manifest, inForce, resolved, pc, made, removed,
  standing, replaced, shared, belated, crossed, deaths, commands, area>>
lifecycleVars == <<pidFile, port, at, cmd, target, sent, foreign, raced, crashes, reuses>>

\* A part that does not run keeps one idle value in its variables.
NoDeploy ==
  /\ tree = 0 /\ linked = 0 /\ slot = 0 /\ lease = 0 /\ borrower = 0 /\ review = 0
  /\ row = 0 /\ file = 0 /\ agent = 0 /\ launch = 0 /\ cast = 0 /\ faults = 0 /\ edits = 0
NoOpenCode ==
  /\ plan = 0 /\ launcher = 0 /\ loop = 0 /\ holds = 0 /\ answer = 0 /\ supervisor = 0
  /\ seen = 0 /\ proof = 0 /\ runtime = 0 /\ repository = 0 /\ registered = 0 /\ drifted = 0
  /\ stale = 0 /\ log = 0 /\ clock = 0 /\ remedied = 0 /\ failed = 0
NoEvidence ==
  /\ callers = 0 /\ running = 0 /\ helper = 0 /\ present = 0 /\ path = 0 /\ writer = 0
  /\ temporary = 0 /\ kept = 0 /\ withdrawn = 0 /\ unguarded = 0 /\ mishaps = 0
NoInbox ==
  /\ folders = 0 /\ request = 0 /\ remarks = 0 /\ confirmed = 0 /\ drafts = 0 /\ ticket = 0
  /\ uploads = 0 /\ listed = 0 /\ subject = 0 /\ kills = 0
NoTrash ==
  /\ counter = 0 /\ disk = 0 /\ bin = 0 /\ manifest = 0 /\ inForce = 0 /\ resolved = 0
  /\ pc = 0 /\ made = 0 /\ removed = 0 /\ standing = 0 /\ replaced = 0 /\ shared = 0
  /\ belated = 0 /\ crossed = 0 /\ deaths = 0 /\ commands = 0 /\ area = 0
NoServer ==
  /\ pidFile = 0 /\ port = 0 /\ at = 0 /\ cmd = 0 /\ target = 0 /\ sent = 0 /\ foreign = 0
  /\ raced = 0 /\ crashes = 0 /\ reuses = 0

PartInit ==
  \/ /\ part = "deploy" /\ Pi!DeployInit /\ NoOpenCode /\ NoEvidence /\ NoInbox
     /\ NoTrash /\ NoServer
  \/ /\ part = "opencode" /\ Code!OpenCodeInit /\ NoDeploy /\ NoEvidence /\ NoInbox
     /\ NoTrash /\ NoServer
  \/ /\ part = "evidence" /\ File!EvidenceInit /\ NoDeploy /\ NoOpenCode /\ NoInbox
     /\ NoTrash /\ NoServer
  \/ /\ part = "inbox" /\ Inbox!InboxInit /\ NoDeploy /\ NoOpenCode /\ NoEvidence /\ NoTrash
     /\ NoServer
  \/ /\ part = "trash" /\ Bin!TrashInit /\ NoDeploy /\ NoOpenCode /\ NoEvidence /\ NoInbox
     /\ NoServer
  \/ /\ part = "server" /\ Server!LifecycleInit /\ NoDeploy /\ NoOpenCode /\ NoEvidence
     /\ NoInbox /\ NoTrash
  \/ /\ part = "sessions" /\ NoDeploy /\ NoOpenCode /\ NoEvidence /\ NoInbox /\ NoTrash
     /\ NoServer
HostInit == Init /\ PartInit

DeployStep ==
  /\ part = "deploy" /\ Pi!DeployNext
  /\ UNCHANGED <<part, openCodeVars, evidenceVars, inboxVars, storeFileVars, lifecycleVars, vars>>
OpenCodeStep ==
  /\ part = "opencode" /\ Code!OpenCodeNext
  /\ UNCHANGED <<part, deployVars, evidenceVars, inboxVars, storeFileVars, lifecycleVars, vars>>
EvidenceStep ==
  /\ part = "evidence" /\ File!EvidenceNext
  /\ UNCHANGED <<part, deployVars, openCodeVars, inboxVars, storeFileVars, lifecycleVars, vars>>
InboxStep ==
  /\ part = "inbox" /\ Inbox!InboxNext
  /\ UNCHANGED <<part, deployVars, openCodeVars, evidenceVars, storeFileVars, lifecycleVars, vars>>
TrashStep ==
  /\ part = "trash" /\ Bin!TrashNext
  /\ UNCHANGED <<part, deployVars, openCodeVars, evidenceVars, inboxVars, lifecycleVars, vars>>
ServerStep ==
  /\ part = "server" /\ Server!LifecycleNext
  /\ UNCHANGED <<part, deployVars, openCodeVars, evidenceVars, inboxVars, storeFileVars, vars>>
HubStep ==
  /\ part = "sessions" /\ Next
  /\ UNCHANGED <<part, deployVars, openCodeVars, evidenceVars, inboxVars, storeFileVars, lifecycleVars>>

HostNext ==
  \/ DeployStep
  \/ OpenCodeStep
  \/ EvidenceStep
  \/ InboxStep
  \/ TrashStep
  \/ ServerStep
  \/ HubStep
hostVars == <<part, deployVars, openCodeVars, evidenceVars, inboxVars, storeFileVars,
  lifecycleVars, vars>>
HostSpec == HostInit /\ [][HostNext]_hostVars

\* The callers of the evidence files, which are the requests of the inbox and the
\* commands of the trash too, and its documents are interchangeable.
Alike == Permutations({x1, x2}) \cup Permutations({d1, d2})

\* The invariant of each part begins with its type invariant.

\* A runtime that may run keeps its custody, a call that comes back holds nothing
\* it did not report, and its answer, the registry and the status file agree
\* (deploy.ts).  An OpenCode agent works under the lease and on the snapshot the
\* lease records, who is told "pending" has a supervisor, and no answered agent is
\* stopped.
LaunchesSafe ==
  /\ part = "deploy" =>
       /\ Pi!DeployTypeOK /\ Pi!CustodyCoversRuntime
       /\ Pi!NothingLeftUntold /\ Pi!ResultsAgree
  /\ part = "opencode" => Code!OpenCodeTypeOK /\ Code!OpenCodeSafe

\* While its commands come one at a time, the API server that listens is the one
\* the pid file names (serve-lifecycle.ts).  No document of the operator is lost or
\* doubled by requests that overlap (actions.ts), and no trashed file by commands
\* that overlap or die (trash/store.ts).
ServerSafe ==
  /\ part = "server" => Server!LifecycleTypeOK /\ Server!ServerRecorded
  /\ part = "inbox" => Inbox!InboxSafe
  /\ part = "trash" => Bin!TrashSafe

\* Published evidence is never lost, and a setup runs alone, unless a helper was
\* killed while its caller relied on it (repository-admission.ts).
EvidenceSafe == part = "evidence" => File!EvidenceTypeOK /\ File!EvidenceSafe

\* The steps that may never happen: a live owner's evidence taken away, and a
\* repository released before the registry has a result.
HostSteps ==
  [][ /\ part = "opencode" => Code!ReleasedAfterRow
      /\ part = "evidence" => File!LiveEvidence ]_hostVars
=======================================================================
