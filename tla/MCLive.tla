---------------------------- MODULE MCLive ----------------------------
(* The instances of the modules whose properties are about what must happen at *)
(* last: foreground sessions, artifact reviews, the Git panel, the agent sessions *)
(* of the server and its live updates.  They share no state, so a behaviour is one of a *)
(* single part, and the fairness of a part is asked of its behaviours only. *)
EXTENDS Integers, Sequences, FiniteSets, TLC

CONSTANTS MaxKeys, MaxMarkers, k1, u1, u2, q1, e1, Commands, Supervisors, Requests, Events,
  Nothing, MaxStarts, MaxBusy, MaxFaults, main, topic, Refs, NoRef, Fallbacks, MaxRevision,
  MaxGeneration, s1, c1, opencode, pi, Sessions, Conns, Streams, Runtimes, EarlyId,
  MaxSessions, MaxPending, None, t1, i1, b1, row1, w1, Tickets, Inbox, Bulletins, Rows,
  Clients, MaxWrites, MaxConnects, p1, p2, PanelTickets, BoundTicket, MaxChanges, MaxTodo,
  MaxFailures, o1, Ops, Runners, MaxBreaks

\* the branch a comparison falls back to
Default == <<main>>
\* a session launched without a ticket
Unlaunched == None

VARIABLES part,
  gated, admitted, child, code, asked, event, marker, session, grace, timer, pressed,
  signal, outcome, records, keys,
  record, expired, command, sup, request, journal, export, acked, ended, owner, fresh,
  busied, faults,
  refs, saved, shown, input, revision, generation, closed, limiter, flights, overlay,
  making, chooser, saving,
  up, table, process, stopping, signalled, escalation, carry, sinks, run, nid, native,
  known, conn, active, starter, pending, sse, watch, told,
  disk, rows, snapshot, counted, due, socket, hub, silence, seen, last, early, writes,
  connects,
  phase, ticket, facts, tasks, display, refresher, flight, ask, reconciling, written,
  settled, changes, failures,
  proven, barrier, op, group, stored, target, reply, breaks

Foreground == INSTANCE ForegroundSession WITH MaxRecords <- MaxMarkers
Artifact == INSTANCE ArtifactReviews
Git == INSTANCE GitContext
Agents == INSTANCE AgentSessions WITH child <- process, timer <- escalation, owner <- starter
Updates == INSTANCE LiveUpdates
Panel == INSTANCE SessionPanel WITH Tickets <- PanelTickets, NoTicket <- None, Unread <- Nothing, shown <- display, limiter <- refresher, child <- reconciling
Operations == INSTANCE NativeOperations WITH Unbarred <- None, Commands <- Runners, MaxFaults <- MaxBreaks, owner <- proven, result <- reply, faults <- breaks, disk <- target

ASSUME ForegroundConstants == Foreground!ForegroundAssumption
ASSUME ArtifactConstants == Artifact!ArtifactAssumption
ASSUME GitConstants == Git!GitContextAssumption
ASSUME AgentsConstants == Agents!SessionsAssumption
ASSUME UpdatesConstants == Updates!LiveUpdatesAssumption
ASSUME PanelConstants == Panel!PanelAssumption
ASSUME OperationsConstants == Operations!OperationsAssumption

foregroundVars == <<gated, admitted, child, code, asked, event, marker, session, grace,
  timer, pressed, signal, outcome, records, keys>>
artifactVars == <<record, expired, command, sup, request, journal, export, acked, ended,
  owner, fresh, busied, faults>>
gitVars == <<refs, saved, shown, input, revision, generation, closed, limiter, flights,
  overlay, making, chooser, saving>>
agentVars == <<up, table, process, stopping, signalled, escalation, carry, sinks, run, nid,
  native, known, conn, active, starter, pending, sse, watch, told>>
updatesVars == <<disk, rows, snapshot, counted, due, socket, hub, silence, seen, last,
  early, writes, connects>>
panelVars == <<phase, ticket, facts, tasks, display, refresher, flight, ask, reconciling,
  written, settled, changes, failures>>
operationsVars == <<proven, barrier, op, group, stored, target, reply, breaks>>

\* A part that does not run keeps one idle value in its variables.
NoForeground ==
  /\ gated = 0 /\ admitted = 0 /\ child = 0 /\ code = 0 /\ asked = 0 /\ event = 0
  /\ marker = 0 /\ session = 0 /\ grace = 0 /\ timer = 0 /\ pressed = 0 /\ signal = 0
  /\ outcome = 0 /\ records = 0 /\ keys = 0
NoArtifact ==
  /\ record = 0 /\ expired = 0 /\ command = 0 /\ sup = 0 /\ request = 0 /\ journal = 0
  /\ export = 0 /\ acked = 0 /\ ended = 0 /\ owner = 0 /\ fresh = 0 /\ busied = 0
  /\ faults = 0
NoGit ==
  /\ refs = 0 /\ saved = 0 /\ shown = 0 /\ input = 0 /\ revision = 0 /\ generation = 0
  /\ closed = 0 /\ limiter = 0 /\ flights = 0 /\ overlay = 0 /\ making = 0 /\ chooser = 0
  /\ saving = 0
NoAgents ==
  /\ up = 0 /\ table = 0 /\ process = 0 /\ stopping = 0 /\ signalled = 0 /\ escalation = 0
  /\ carry = 0 /\ sinks = 0 /\ run = 0 /\ nid = 0 /\ native = 0 /\ known = 0 /\ conn = 0
  /\ active = 0 /\ starter = 0 /\ pending = 0 /\ sse = 0 /\ watch = 0 /\ told = 0
NoUpdates ==
  /\ disk = 0 /\ rows = 0 /\ snapshot = 0 /\ counted = 0 /\ due = 0 /\ socket = 0 /\ hub = 0
  /\ silence = 0 /\ seen = 0 /\ last = 0 /\ early = 0 /\ writes = 0 /\ connects = 0
NoPanel ==
  /\ phase = 0 /\ ticket = 0 /\ facts = 0 /\ tasks = 0 /\ display = 0 /\ refresher = 0
  /\ flight = 0 /\ ask = 0 /\ reconciling = 0 /\ written = 0 /\ settled = 0 /\ changes = 0
  /\ failures = 0
NoOperations ==
  /\ proven = 0 /\ barrier = 0 /\ op = 0 /\ group = 0 /\ stored = 0 /\ target = 0
  /\ reply = 0 /\ breaks = 0

LiveInit ==
  \/ /\ part = "foreground" /\ Foreground!ForegroundInit /\ NoArtifact /\ NoGit /\ NoAgents
     /\ NoUpdates /\ NoPanel /\ NoOperations
  \/ /\ part = "artifact" /\ Artifact!ArtifactInit /\ NoForeground /\ NoGit /\ NoAgents
     /\ NoUpdates /\ NoPanel /\ NoOperations
  \/ /\ part = "git" /\ Git!GitContextInit /\ NoForeground /\ NoArtifact /\ NoAgents
     /\ NoUpdates /\ NoPanel /\ NoOperations
  \/ /\ part = "agents" /\ Agents!Init /\ NoForeground /\ NoArtifact /\ NoGit /\ NoUpdates
     /\ NoPanel /\ NoOperations
  \/ /\ part = "updates" /\ Updates!UpdatesInit /\ NoForeground /\ NoArtifact /\ NoGit
     /\ NoAgents /\ NoPanel /\ NoOperations
  \/ /\ part = "panel" /\ Panel!PanelInit /\ NoForeground /\ NoArtifact /\ NoGit /\ NoAgents
     /\ NoUpdates /\ NoOperations
  \/ /\ part = "operations" /\ Operations!OperationsInit /\ NoForeground /\ NoArtifact
     /\ NoGit /\ NoAgents /\ NoUpdates /\ NoPanel

ForegroundStep ==
  /\ part = "foreground" /\ Foreground!ForegroundNext
  /\ UNCHANGED <<part, artifactVars, gitVars, agentVars, updatesVars, panelVars, operationsVars>>
ArtifactStep ==
  /\ part = "artifact" /\ Artifact!ArtifactNext
  /\ UNCHANGED <<part, foregroundVars, gitVars, agentVars, updatesVars, panelVars, operationsVars>>
GitStep ==
  /\ part = "git" /\ Git!GitContextNext
  /\ UNCHANGED <<part, foregroundVars, artifactVars, agentVars, updatesVars, panelVars, operationsVars>>
AgentsStep ==
  /\ part = "agents" /\ Agents!Next
  /\ UNCHANGED <<part, foregroundVars, artifactVars, gitVars, updatesVars, panelVars, operationsVars>>
UpdatesStep ==
  /\ part = "updates" /\ Updates!UpdatesNext
  /\ UNCHANGED <<part, foregroundVars, artifactVars, gitVars, agentVars, panelVars, operationsVars>>
PanelStep ==
  /\ part = "panel" /\ Panel!PanelNext
  /\ UNCHANGED <<part, foregroundVars, artifactVars, gitVars, agentVars, updatesVars, operationsVars>>
OperationsStep ==
  /\ part = "operations" /\ Operations!OperationsNext
  /\ UNCHANGED <<part, foregroundVars, artifactVars, gitVars, agentVars, updatesVars, panelVars>>

LiveNext ==
  \/ ForegroundStep
  \/ ArtifactStep
  \/ GitStep
  \/ AgentsStep
  \/ UpdatesStep
  \/ PanelStep
  \/ OperationsStep
liveVars == <<part, foregroundVars, artifactVars, gitVars, agentVars, updatesVars,
  panelVars, operationsVars>>

\* What each module asks of its event loop, its timers and its I/O.
LiveFairness ==
  /\ WF_foregroundVars(part = "foreground" /\ Foreground!Machinery)
  /\ WF_foregroundVars(part = "foreground" /\ Foreground!Timeout)
  /\ \A s \in Supervisors :
       /\ WF_artifactVars(part = "artifact" /\ Artifact!Tick(s, FALSE))
       /\ WF_artifactVars(part = "artifact" /\ Artifact!Closed(s, FALSE))
       /\ WF_artifactVars(part = "artifact" /\ Artifact!Serve(s, TRUE, FALSE))
  /\ WF_gitVars(part = "git" /\ Git!CollectionEnds) /\ WF_gitVars(part = "git" /\ Git!IntervalEnds)
  /\ WF_gitVars(part = "git" /\ Git!SaveEnds) /\ WF_gitVars(part = "git" /\ Git!OverlayComes)
  /\ \A s \in Sessions :
       /\ WF_agentVars(part = "agents" /\ up /\ (Agents!SpawnError(s) \/ Agents!Close(s)))
       /\ WF_agentVars(part = "agents" /\ up /\ Agents!Escalate(s))
  /\ \A k \in Streams : WF_agentVars(part = "agents" /\ up /\ Agents!StreamDone(k))
  /\ \A place \in Updates!Watched :
       WF_updatesVars(part = "updates" /\ Updates!Scan(place)) /\
       WF_updatesVars(part = "updates" /\ Updates!Poll(place))
  /\ WF_updatesVars(part = "updates" /\ Updates!Ping)
  /\ WF_panelVars(part = "panel" /\ Panel!Periodic)
  /\ WF_panelVars(part = "panel" /\ Panel!Interval)
  /\ WF_panelVars(part = "panel" /\ Panel!RefreshEnds)
  /\ \A o \in Ops :
       /\ WF_operationsVars(part = "operations" /\ Operations!Caller(o))
       /\ WF_operationsVars(part = "operations" /\ Operations!Kernel(o))
       /\ WF_operationsVars(part = "operations" /\ Operations!Timeout(o))
LiveSpec == LiveInit /\ [][LiveNext]_liveVars /\ LiveFairness

\* The invariant of each part begins with its type invariant.

\* A result that claims the end of the child is true, the exit proof is one of a
\* natural end, and only the admission opens the gate (adapter.ts).
ForegroundSafe ==
  part = "foreground" =>
    Foreground!ForegroundTypeOK /\ Foreground!ResultMeansGone /\ Foreground!ProofIsNatural

\* An ended review stays ended, and only the supervisor that the record names
\* serves it, without loss of feedback (artifacts/supervisor.ts).
ArtifactSafe ==
  part = "artifact" => Artifact!ArtifactTypeOK /\ Artifact!EndedForGood /\ Artifact!SoleServer

\* What the Git panel shows as current answers what was asked (git-context-ui.ts); the
\* commands of the session panel change what the operator confirmed, and nothing reads
\* the registry after the session closed it (context-ui.ts, pi-extension/index.ts).
PanelsSafe ==
  /\ part = "git" => Git!GitContextTypeOK /\ Git!ShownAsAsked
  /\ part = "panel" => Panel!PanelTypeOK /\ Panel!ClosedQuiet /\ Panel!AsConfirmed

\* A foreground session that has a deadline settles, once its listeners stand.
SessionSettles ==
  (part = "foreground" /\ session.listening) ~> (part # "foreground" \/ session.settled)

\* What is still to be done: a served artifact review whose deployment is over, a
\* panel that says it is loading, an operation that runs, a client of the live updates
\* or a session panel that shows old data.
Waits ==
  \/ part = "artifact" /\ ~owner /\ \E s \in Supervisors : sup[s].at = "serving"
  \/ part = "git" /\ shown.is = "pending" /\ overlay # "none"
  \/ part = "updates" /\ \E w \in Clients : Updates!Outdated(w)
  \/ part = "panel" /\ Panel!PanelBehind
  \/ part = "operations" /\ Operations!Unended

\* The server of an artifact review does not outlive the deployment that owns it, a
\* panel does not load for ever, and what a connected client and the panel of an open
\* session show is brought up to date (artifacts/supervisor.ts, git-context-ui.ts,
\* ws/watchers.ts, context-ui.ts).
ServicesFollow == Waits ~> ~Waits

\* The slot of a child that is gone, or the stream of a session that ended by itself.
Lingers ==
  /\ part = "agents"
  /\ \/ \E s \in Sessions : s \in table /\ Agents!Gone(s)
     \/ \E k \in Streams, s \in Sessions :
          up /\ watch[k] = s /\ sse[k] = "open" /\ Agents!Gone(s) /\ ~stopping[s]

\* The slot of a child that is gone is freed, and the stream of a session that
\* ends by itself closes (session-hub.ts, routes/sessions.ts).
SlotsFollow == Lingers ~> ~Lingers
=======================================================================
