---------------------------- MODULE MCTickets ----------------------------
(* The instances of the modules about a ticket and what hangs on it: document *)
(* packages, workflow runs, the ticket store, the branch, the prepared workflow *)
(* and the notes that tickets are made of.  They share no state, so a behaviour is *)
(* one of a single part.                                                *)
EXTENDS Integers, Sequences, FiniteSets, TLC

CONSTANTS sa, sb, Sessions, Foreground, p1, p2, Packages, NoPackage, PredecessorOf,
  Published, MaxEvents, MaxTouches, c1, c2, Requests, d1, d2, Coordinators, First,
  MaxSubjects, MaxRevision, MaxEdits, q1, q2, q3, Calls, MaxIds, MaxFaults, m1, m2, m3,
  Materializers, NoCaller, KindOf, MaxDevelop, MaxFeature, MaxOperator, b1, b2, Analysts,
  Builders, NoOne, Permits, MaxAttempts, MaxLeases, MaxSteps, MaxCrashes, Collectors,
  Messages, TraitsOf, MaxRuns, MaxEnds, Captures, MaxReports, Edited, MaxChances, MaxAsked,
  Asked, Keys, PoolRows, AtFirst, Earlier, MaxWorld

\* p2 succeeds p1; two ordinary callers and one with a prepared checkout
Succeeds == (p1 :> NoPackage) @@ (p2 :> p1)
Kinds == (m1 :> "ordinary") @@ (m2 :> "ordinary") @@ (m3 :> "prepared")
\* a video, a secret, an idea and a text of several lines
Notes == (1 :> {"yt", "url"}) @@ (2 :> {"private"}) @@ (3 :> {"idea"}) @@ (4 :> {"lines"})

\* the requests, the pool, and what everything says at first
R(by, team, mode, repo, ticket, at, has) ==
  [by |-> by, runtime |-> IF by = "ppa" THEN "pi" ELSE "opencode", team |-> team, mode |-> mode, repo |-> repo,
   ticket |-> ticket, at |-> at, resume |-> "no", has |-> has]
AskedHere ==
  { R("ppa", "planner", "unset", "unset", "unset", "main", {}),
    R("ppa", "planner", "unset", "unset", "unset", "inside", {}),
    R("ppa", "planner", "unset", "k1", "unset", "other", {}),
    R("ppa", "planner", "unset", "copy", "unset", "copy", {}),
    R("ppa", "planner", "plan", "main", "t1", "other", {"select"}),
    [R("ppa", "planner", "plan", "k1", "t1", "copy", {"select"}) EXCEPT !.resume = "selected"],
    [R("ppa", "planner", "plan", "k1", "t1", "copy", {}) EXCEPT !.resume = "selected"],
    R("ppa", "builder", "orchestrator", "unset", "t1", "main", {}),
    R("ppa", "builder", "implement", "k1", "t1", "main", {"select"}),
    R("ppa", "builder", "orchestrator", "k1", "t1", "other", {}),
    R("ppa", "builder", "orchestrator", "unset", "t1", "copy", {}),
    R("ppa", "builder", "orchestrator", "k1", "t1", "main", {"dry", "background"}),
    R("ppa", "builder", "implement", "unset", "t1", "copy", {}),
    R("ppa", "builder", "implement", "k1", "t1", "copy", {"child", "background"}),
    R("ppa", "builder", "implement", "unset", "t1", "copy", {"child", "background"}),
    R("ppa", "builder", "implement", "unset", "t1", "inside", {"child", "background"}),
    R("ppa", "builder", "implement", "main", "t1", "inside", {"child", "background"}),
    R("opa", "planner", "unset", "k2", "unset", "main", {}),
    R("opa", "planner", "unset", "unset", "unset", "copy", {}),
    R("ppa", "requirements", "review-auto", "k1", "t1", "main", {}),
    R("ppa", "repo-setup", "setup", "unset", "unset", "main", {}),
    R("ppa", "repo-setup", "setup", "unset", "unset", "copy", {}),
    R("ppa", "planner", "unset", "unset", "unset", "main", {"only"}),
    [R("api", "planner", "unset", "unset", "unset", "copy", {"background"}) EXCEPT !.runtime = "pi"],
    R("api", "planner", "plan", "k1", "t1", "main", {"select"}),
    R("api", "rogue-one", "unset", "k1", "unset", "main", {}),
    R("api", "rogue-one", "unset", "k1", "unset", "main", {"operator"}) }
Lease == [path |-> "copy", holder |-> <<"k1", "t1">>, id |-> 1, flag |-> "yes", status |-> "unset"]
RowsHere == { Lease, [Lease EXCEPT !.path = "spare", !.id = 2], [Lease EXCEPT !.flag = "no"] }
StartHere == [book |-> ("k1" :> "main") @@ ("k2" :> "other"), rows |-> {Lease},
  link |-> ("t1" :> [key |-> "k1", head |-> 1]),
  teams |-> ("planner" :> [modes |-> {"plan"}, standard |-> "unset", strict |-> {}])
    @@ ("builder" :> [modes |-> {"orchestrator", "implement"}, standard |-> "orchestrator", strict |-> {"orchestrator", "implement"}])
    @@ ("requirements" :> [modes |-> {"review-auto"}, standard |-> "review-auto", strict |-> {"review-auto"}])
    @@ ("repo-setup" :> [modes |-> {"setup"}, standard |-> "setup", strict |-> {}])
    @@ ("rogue-one" :> [modes |-> {}, standard |-> "unset", strict |-> {}])]
EarlierHere == [key |-> "k1", root |-> "main", tree |-> "copy", ticket |-> "t1"]

VARIABLES part,
  journal, sources, files, refs, primary, status, assignee, reserved, mutex, call, touches,
  run, pairFiles, pairRefs, pairPrimary, queueState, built, live, pairMutex, request, edits,
  ids, counter, audit, storeMutex, change, acknowledged, faults,
  link, developSha, branchRef, marker, onBranch, holder, gitMutex, step, operated,
  policy, granted, current, operation, torn, owner, claim, slot, rivals, lease, leases,
  roomy, branch, exact, consents, admitted, decided, crashed,
  arrived, upTo, raw, routed, tickets, pages, blocks, secrets, queue, collecting, late,
  overlap, collections, cut,
  entitled, worktree, reports, keyed, receipts, directories, index, observed, kept,
  toolCall, told, used,
  entries, genuine, rows, commits, linked, listed, teams, artifact, here, launch, changes

Docs == INSTANCE DocumentPackages
Flow == INSTANCE WorkflowRuns
Store == INSTANCE TicketStore WITH files <- ids, call <- change
Branch == INSTANCE BranchMaterialization WITH Callers <- Materializers
Prep == INSTANCE PreparedWorkflow WITH journal <- operation, call <- claim, operated <- decided, MaxOperator <- MaxSteps
Signal == INSTANCE SignalNotes WITH journal <- blocks, log <- secrets, run <- collecting, cursor <- upTo, runs <- collections, ends <- cut
Reps == INSTANCE PhaseReports WITH MaxAttempts <- MaxReports, MaxEvents <- MaxChances, current <- entitled, pages <- directories
Req == INSTANCE DeployRequests WITH link <- linked, head <- commits, tickets <- listed, book <- entries

ASSUME DocumentsConstants == Docs!DocumentsAssumption
ASSUME WorkflowConstants == Flow!WorkflowAssumption
ASSUME StoreConstants == Store!StoreAssumption
ASSUME BranchConstants == Branch!MaterializationAssumption
ASSUME PreparedConstants == Prep!PreparedAssumption
ASSUME SignalConstants == Signal!SignalAssumption
ASSUME ReportsConstants == Reps!ReportsAssumption
ASSUME DeploysConstants == Req!RequestsAssumption

documentVars == <<journal, sources, files, refs, primary, status, assignee, reserved,
  mutex, call, touches>>
workflowVars == <<run, pairFiles, pairRefs, pairPrimary, queueState, built, live,
  pairMutex, request, edits>>
storeVars == <<ids, counter, audit, storeMutex, change, acknowledged, faults>>
branchVars == <<link, developSha, branchRef, marker, onBranch, holder, gitMutex, step,
  operated>>
preparedVars == <<policy, granted, current, operation, torn, owner, claim, slot, rivals,
  lease, leases, roomy, branch, exact, consents, admitted, decided, crashed>>
signalVars == <<arrived, upTo, raw, routed, tickets, pages, blocks, secrets, queue,
  collecting, late, overlap, collections, cut>>
reportVars == <<entitled, worktree, reports, keyed, receipts, directories, index, observed,
  kept, toolCall, told, used>>
requestVars == <<entries, genuine, rows, commits, linked, listed, teams, artifact, here,
  launch, changes>>

\* A part that does not run keeps one idle value in its variables.
NoDocuments ==
  /\ journal = 0 /\ sources = 0 /\ files = 0 /\ refs = 0 /\ primary = 0 /\ status = 0
  /\ assignee = 0 /\ reserved = 0 /\ mutex = 0 /\ call = 0 /\ touches = 0
NoWorkflow ==
  /\ run = 0 /\ pairFiles = 0 /\ pairRefs = 0 /\ pairPrimary = 0 /\ queueState = 0
  /\ built = 0 /\ live = 0 /\ pairMutex = 0 /\ request = 0 /\ edits = 0
NoStore ==
  /\ ids = 0 /\ counter = 0 /\ audit = 0 /\ storeMutex = 0 /\ change = 0 /\ acknowledged = 0
  /\ faults = 0
NoBranch ==
  /\ link = 0 /\ developSha = 0 /\ branchRef = 0 /\ marker = 0 /\ onBranch = 0 /\ holder = 0
  /\ gitMutex = 0 /\ step = 0 /\ operated = 0
NoPrepared ==
  /\ policy = 0 /\ granted = 0 /\ current = 0 /\ operation = 0 /\ torn = 0 /\ owner = 0
  /\ claim = 0 /\ slot = 0 /\ rivals = 0 /\ lease = 0 /\ leases = 0 /\ roomy = 0
  /\ branch = 0 /\ exact = 0 /\ consents = 0 /\ admitted = 0 /\ decided = 0 /\ crashed = 0
NoSignal ==
  /\ arrived = 0 /\ upTo = 0 /\ raw = 0 /\ routed = 0 /\ tickets = 0 /\ pages = 0
  /\ blocks = 0 /\ secrets = 0 /\ queue = 0 /\ collecting = 0 /\ late = 0 /\ overlap = 0
  /\ collections = 0 /\ cut = 0
NoReports ==
  /\ entitled = 0 /\ worktree = 0 /\ reports = 0 /\ keyed = 0 /\ receipts = 0
  /\ directories = 0 /\ index = 0 /\ observed = 0 /\ kept = 0 /\ toolCall = 0 /\ told = 0
  /\ used = 0
NoDeploys ==
  /\ entries = 0 /\ genuine = 0 /\ rows = 0 /\ commits = 0 /\ linked = 0 /\ listed = 0
  /\ teams = 0 /\ artifact = 0 /\ here = 0 /\ launch = 0 /\ changes = 0

TicketsInit ==
  \/ /\ part = "documents" /\ Docs!DocumentsInit /\ NoWorkflow /\ NoStore /\ NoBranch
     /\ NoPrepared /\ NoSignal /\ NoReports /\ NoDeploys
  \/ /\ part = "workflow" /\ Flow!WorkflowInit /\ NoDocuments /\ NoStore /\ NoBranch
     /\ NoPrepared /\ NoSignal /\ NoReports /\ NoDeploys
  \/ /\ part = "store" /\ Store!StoreInit /\ NoDocuments /\ NoWorkflow /\ NoBranch
     /\ NoPrepared /\ NoSignal /\ NoReports /\ NoDeploys
  \/ /\ part = "branch" /\ Branch!MaterializationInit /\ NoDocuments /\ NoWorkflow
     /\ NoStore /\ NoPrepared /\ NoSignal /\ NoReports /\ NoDeploys
  \/ /\ part = "prepared" /\ Prep!PreparedInit /\ NoDocuments /\ NoWorkflow /\ NoStore
     /\ NoBranch /\ NoSignal /\ NoReports /\ NoDeploys
  \/ /\ part = "signal" /\ Signal!SignalInit /\ NoDocuments /\ NoWorkflow /\ NoStore
     /\ NoBranch /\ NoPrepared /\ NoReports /\ NoDeploys
  \/ /\ part = "reports" /\ Reps!ReportsInit /\ NoDocuments /\ NoWorkflow /\ NoStore
     /\ NoBranch /\ NoPrepared /\ NoSignal /\ NoDeploys
  \/ /\ part = "requests" /\ Req!RequestsInit /\ NoDocuments /\ NoWorkflow /\ NoStore
     /\ NoBranch /\ NoPrepared /\ NoSignal /\ NoReports

DocumentsStep ==
  /\ part = "documents" /\ Docs!DocumentsNext
  /\ UNCHANGED <<part, workflowVars, storeVars, branchVars, preparedVars, signalVars, reportVars, requestVars>>
WorkflowStep ==
  /\ part = "workflow" /\ Flow!WorkflowNext
  /\ UNCHANGED <<part, documentVars, storeVars, branchVars, preparedVars, signalVars, reportVars, requestVars>>
StoreStep ==
  /\ part = "store" /\ Store!StoreNext
  /\ UNCHANGED <<part, documentVars, workflowVars, branchVars, preparedVars, signalVars, reportVars, requestVars>>
BranchStep ==
  /\ part = "branch" /\ Branch!MaterializationNext
  /\ UNCHANGED <<part, documentVars, workflowVars, storeVars, preparedVars, signalVars, reportVars, requestVars>>
PreparedStep ==
  /\ part = "prepared" /\ Prep!PreparedNext
  /\ UNCHANGED <<part, documentVars, workflowVars, storeVars, branchVars, signalVars, reportVars, requestVars>>
SignalStep ==
  /\ part = "signal" /\ Signal!SignalNext
  /\ UNCHANGED <<part, documentVars, workflowVars, storeVars, branchVars, preparedVars, reportVars, requestVars>>
ReportsStep ==
  /\ part = "reports" /\ Reps!ReportsNext
  /\ UNCHANGED <<part, documentVars, workflowVars, storeVars, branchVars, preparedVars, signalVars, requestVars>>
DeploysStep ==
  /\ part = "requests" /\ Req!RequestsNext
  /\ UNCHANGED <<part, documentVars, workflowVars, storeVars, branchVars, preparedVars, signalVars, reportVars>>

TicketsNext ==
  \/ DocumentsStep
  \/ WorkflowStep
  \/ StoreStep
  \/ BranchStep
  \/ PreparedStep
  \/ SignalStep
  \/ ReportsStep
  \/ DeploysStep
ticketsVars == <<part, documentVars, workflowVars, storeVars, branchVars, preparedVars,
  signalVars, reportVars, requestVars>>
TicketsSpec == TicketsInit /\ [][TicketsNext]_ticketsVars

\* The requests of the workflow service, which are the analysts of the prepared
\* workflow too, and its builders are interchangeable.
Alike == Permutations({c1, c2}) \cup Permutations({b1, b2})

\* The invariant of each part begins with its type invariant.

\* Whatever the document service writes is covered, when it is written, by a
\* standing approval of the operator, and announced by the one pending intent of
\* the ticket (package-service.ts, execute).  What the owner's Markdown lists of a
\* phase was published whole, and no note of the operator is lost to an update of it
\* (phase-report.ts, publish; phase-report-native.ts, #ownerUpdate).
DocumentsSafe ==
  /\ part = "documents" =>
       Docs!DocumentsTypeOK /\ Docs!WritesApproved /\ Docs!IntentFirst
  /\ part = "reports" => Reps!ReportsSafe

\* Two deployments never perform effects of one run, a write belongs to the
\* pending intent and to the current subject, nothing of a subject is written
\* before its approval, and an adopted document coordinator gets no source step.
WorkflowSafe ==
  part = "workflow" =>
    /\ Flow!WorkflowTypeOK /\ Flow!LoneCoordinator /\ Flow!SubjectCurrent
    /\ Flow!PublishedApproved /\ Flow!DocumentSuccessor

\* A change of the ticket store that was acknowledged is in the file and in the
\* audit, and no change overwrites what it never read, whoever dies in between.  A
\* note is not passed over by the collector's cursor, and what was told apart as
\* private stays in its log (signal/reader.ts, signal/writers.ts).
StoreSafe ==
  /\ part = "store" => Store!StoreTypeOK /\ Store!AcknowledgedKept /\ Store!NothingOverwritten
  /\ part = "signal" => Signal!SignalSafe

\* What a materialization returned is what the link and the branch say.
BranchSafe == part = "branch" => Branch!MaterializationTypeOK /\ Branch!ReturnedExact

\* The journal of a prepared operation and the ticket's capacity row agree, and
\* every attempt after the first was confirmed by the operator.  A deployment's plan is
\* of the repository its request was accepted for, with the evidence its role needs,
\* and the process is back where it was called (cli/commands/deploy.ts, deploy/plan.ts).
PreparedSafe ==
  /\ part = "prepared" =>
       Prep!PreparedTypeOK /\ Prep!JournalMatchesRow /\ Prep!RetriesConfirmed
  /\ part = "requests" => Req!RequestsSafe

\* The steps that may never happen: a document result without its effect, a
\* recorded base that changes, a prepared effect the operator did not authorize, a plan
\* on a registry entry, a tree or a commit that no longer holds (resolveExecutionPlan).
TicketsSteps ==
  [][ /\ part = "documents" => Docs!ResultProven
      /\ part = "branch" => Branch!BaseImmutable
      /\ part = "prepared" => Prep!EffectsAuthorized
      /\ part = "requests" => Req!PlansHold ]_ticketsVars
==========================================================================
