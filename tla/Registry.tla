------------------------------ MODULE Registry ------------------------------
(***************************************************************************)
(* The deployment registry: packages/pa-core/src/registry/index.ts, with   *)
(* everyone who writes to it.  One SQLite database holds the event rows of *)
(* each deployment and a projection row that every event updates; each     *)
(* write is one immediate transaction.  The writers are the deployment's   *)
(* own launcher or runner (deploy/events.ts, pi-pa, opencode-pa), the      *)
(* agent and the operator (cli/commands/registry.ts, status.ts), and       *)
(* reporters over HTTP (agent-api/routes/deploy-status.ts).                *)
(*                                                                         *)
(* Commands that read the registry and then append are two actions: what   *)
(* they decided to write is a job in between.                              *)
(***************************************************************************)
EXTENDS Integers, FiniteSets, Sequences

CONSTANTS
    Parents,         \* builder/orchestrator deployments of Pi
    Children,        \* their parented implement deployments
    Reviewers,       \* requirements/review-auto deployments of Pi
    Plain,           \* OpenCode deployments
    Foreground,      \* deployments whose agent runs below its launcher
    ParentOf,        \* the parent of each child
    LaunchTicket,    \* the ticket of each started event, or None
    Branches,
    Branch,          \* the branch of each review objective
    Tickets,
    Authorizations,  \* one-use review authorizations
    Heads,           \* commits: HEAD values, in order of ancestry
    MaxRows,         \* bound on the terminal rows that are appended
    MaxAuthority,    \* bound on the authority updates of a parent
    MaxJobs,         \* bound on the commands between their read and their write
    Verdicts,        \* bound: the results that agents and reporters state
    Watched,         \* bound: the deployments that such commands act on
    Together,        \* bound: the sets of deployments that are started together
    None

Pi == Parents \cup Children \cup Reviewers
Deployments == Pi \cup Plain
Results == {"success", "partial", "failed"}
Terminal == Results \cup {"crashed"}

\* What a terminal row states: a result; a success with an exit code other than
\* 0, "nonzero"; or a completion without a status, "unstated".
TerminalRows == Terminal \cup {"nonzero", "unstated"}

ASSUME RegistryAssumption ==
    /\ ParentOf \in [Children -> Parents]
    /\ LaunchTicket \in [Deployments -> Tickets \cup {None}]
    /\ Foreground \subseteq Deployments
    /\ Heads \subseteq Nat
    /\ Branch \in [Reviewers -> Branches] /\ UNION Together \subseteq Deployments
    /\ Verdicts \subseteq TerminalRows /\ Watched \subseteq Deployments
    /\ MaxRows \in Nat /\ MaxAuthority \in Nat /\ MaxJobs \in Nat
    /\ None \notin Heads /\ None \notin Tickets /\ None \notin TerminalRows
    /\ None \notin Children /\ None \notin [dep : Reviewers, active : BOOLEAN]
    /\ Parents \cap Children = {} /\ Pi \cap Plain = {}
    /\ Reviewers \cap (Parents \cup Children) = {}

VARIABLES
    rows,        \* the completed and crashed rows of each deployment, by id
    authority,   \* the authority updates of each parent, by id
    startHead,   \* branch_head_sha of the immutable started event, or None
    status,      \* deployments.status
    head,        \* deployments.branch_head_sha
    ticket,      \* deployments.ticket_id
    claim,       \* review_authorization_claims
    settling,    \* the durable settlement intent of each child
    staged,      \* the foreground completion file of each deployment
    life,        \* progress of the deployment's processes
    jobs         \* commands between their read and their write

projection == <<status, head, ticket>>
vars == <<rows, authority, startHead, projection, claim, settling, staged, life, jobs>>

-----------------------------------------------------------------------------
Started(d) == life[d] # "unborn"

\* The deployments with branch evidence, and the heads one can report next.
Builders == Parents \cup Children
Evidence(d) ==
    IF d \notin Builders THEN {None}
    ELSE IF head[d] = None THEN Heads ELSE {h \in Heads : h >= head[d]}

\* isFailedTerminal: only a completion with status success and exit code 0, or
\* none, is not a failure.
IsFailed(row) == row # "success"

\* What upsertDeployment shows for a row: the status stated, success without one.
Shown(row) == IF row \in {"nonzero", "unstated"} THEN "success" ELSE row

\* The row that reconciliation keeps of several: the first failed one.
Kept(d) ==
    IF \E i \in DOMAIN rows[d] : IsFailed(rows[d][i])
    THEN rows[d][CHOOSE i \in DOMAIN rows[d] :
            IsFailed(rows[d][i]) /\ \A j \in 1..(i - 1) : ~IsFailed(rows[d][j])]
    ELSE rows[d][1]

\* deactivateReviewAuthorizationClaim
Deactivate(d) ==
    claim' = [a \in Authorizations |->
        IF claim[a] # None /\ claim[a].dep = d THEN [claim[a] EXCEPT !.active = FALSE] ELSE claim[a]]

\* Mutant: the name of the event is projected instead of its status.
PublishEventName(d, log, row) ==
    /\ rows' = [rows EXCEPT ![d] = log]
    /\ status' = [status EXCEPT ![d] = IF row \in TerminalRows \ {"crashed"} THEN "completed" ELSE row]
    /\ Deactivate(d)

\* A terminal row is written: log is what the deployment's terminal rows are
\* then, row the one upsertDeployment projects.
Publish(d, log, row) ==
    /\ rows' = [rows EXCEPT ![d] = log]
    /\ status' = [status EXCEPT ![d] = Shown(row)]
    /\ Deactivate(d)

\* appendRegistryEvent of a completed or crashed event.
AppendTerminal(d, row) ==
    /\ Cardinality(UNION {{e} \X DOMAIN rows[e] : e \in Deployments}) < MaxRows
    /\ Publish(d, Append(rows[d], row), row)

-----------------------------------------------------------------------------
Init ==
    /\ rows = [d \in Deployments |-> <<>>]
    /\ authority = [p \in Parents |-> <<>>]
    /\ startHead = [d \in Deployments |-> None]
    /\ status = [d \in Deployments |-> "absent"]
    /\ head = [d \in Deployments |-> None]
    /\ ticket = [d \in Deployments |-> None]
    /\ claim = [a \in Authorizations |-> None]
    /\ settling = [c \in Children |-> None]
    /\ staged = [d \in Deployments |-> None]
    /\ life = [d \in Deployments |-> "unborn"]
    /\ jobs = {}

\* The started event.  A child is launched under a running parent and, when the
\* parent's authority has moved, at its head.
Start(d, h) ==
    /\ life[d] = "unborn" /\ h \in Evidence(d)
    /\ \E S \in Together : {d} \cup {e \in Deployments : Started(e)} \subseteq S
    /\ d \in Children => LET p == ParentOf[d] IN
        /\ status[p] = "running"
        /\ IF authority[p] = <<>> THEN h >= head[p] ELSE h = head[p]
    /\ startHead' = [startHead EXCEPT ![d] = h]
    /\ status' = [status EXCEPT ![d] = "running"]
    /\ head' = [head EXCEPT ![d] = h]
    /\ ticket' = [ticket EXCEPT ![d] = LaunchTicket[d]]
    /\ life' = [life EXCEPT ![d] = "launching"]
    /\ UNCHANGED <<rows, authority, claim, settling, staged, jobs>>

\* Mutant: a replayed started event is projected again.
ReplayProjected(d) ==
    /\ Started(d)
    /\ status' = [status EXCEPT ![d] = "running"]
    /\ UNCHANGED <<rows, authority, startHead, head, ticket, claim, settling, staged, life, jobs>>

\* An exact replay of the started event changes nothing.
Replay(d) == Started(d) /\ UNCHANGED vars

\* The processes.  launching: no pid event yet; working: the agent runs under
\* its supervisor (the launcher, or a background runner); orphan: it runs
\* without; exited: the supervisor finalizes; over: no process is left.
Live(d, from, to) ==
    /\ life[d] \in from
    /\ life' = [life EXCEPT ![d] = to]
    /\ UNCHANGED <<rows, authority, startHead, projection, claim, settling, staged, jobs>>

Pid(d) == Live(d, {"launching"}, "working")
AgentExits(d) == Live(d, {"working"}, "exited")
OrphanExits(d) == Live(d, {"orphan"}, "over")
SupervisorDies(d) == Live(d, {"launching", "exited"}, "over") \/ Live(d, {"working"}, "orphan")

-----------------------------------------------------------------------------
(* Terminal results.                                                       *)

\* registry complete without --fallback, POST /api/deploy/complete and crash:
\* the agent, an operator or a reporter states a result, a reporter with branch
\* evidence, and with an exit code or without a status if it likes.  An agent of
\* Pi in the foreground stages it while its deployment runs.
Complete(d, r, h) ==
    /\ Started(d) /\ r \in Verdicts /\ h \in Evidence(d)
    /\ AppendTerminal(d, r)
    /\ head' = [head EXCEPT ![d] = h]
    /\ UNCHANGED <<authority, startHead, ticket, settling, staged, life, jobs>>

Stage(d, r) ==
    /\ d \in Foreground \cap Pi /\ r \in Verdicts \cap Results /\ life[d] = "working" /\ status[d] = "running"
    /\ staged' = [staged EXCEPT ![d] = r]
    /\ UNCHANGED <<rows, authority, startHead, projection, claim, settling, life, jobs>>

\* Mutant: the latest terminal event wins.
ReconcileLatest(d, r, h) ==
    /\ Publish(d, <<r>>, r)
    /\ head' = [head EXCEPT ![d] = h]

\* reconcileTerminalRegistryEvent: an existing failure is kept, a success that
\* is requested again too; anything else is replaced.  The row that is kept is
\* written again with the requester's branch evidence.
Reconcile(d, r, h) ==
    LET keep == rows[d] # <<>> /\ (IsFailed(Kept(d)) \/ ~IsFailed(r))
        row == IF keep THEN Kept(d) ELSE r
    IN  /\ Publish(d, <<row>>, row)
        /\ head' = [head EXCEPT ![d] = h]

\* What the supervisor of a Pi deployment requests: a failure of the launch or
\* the runtime, else the staged result (partial without one) in the foreground
\* and success in the background.
Requested(d, r) ==
    \/ r \in {"failed", "crashed"}
    \/ /\ life[d] = "exited"
       /\ IF d \in Foreground THEN r = (IF staged[d] = None THEN "partial" ELSE staged[d])
          ELSE r = "success"

\* writeTerminal, reconcileRunnerTerminal, of launcher or runner.  A runner then
\* gives back what the deployment holds and may have another result after that.
Finalize(d, r, h) ==
    /\ d \in Pi /\ life[d] \in {"launching", "exited"}
    /\ Requested(d, r) /\ h \in Evidence(d)
    /\ Reconcile(d, r, h)
    /\ staged' = [staged EXCEPT ![d] = None]
    /\ \/ life' = [life EXCEPT ![d] = "over"]
       \/ d \notin Foreground /\ life[d] = "exited" /\ life' = life
    /\ UNCHANGED <<authority, startHead, ticket, settling, jobs>>

\* What the OpenCode launcher and runner append without looking: the exit of a
\* foreground agent, and whatever error they meet.  A launcher that fails leaves
\* a runner that it has started alone.
OpenCodeAppends(d, r) ==
    /\ d \in Plain
    /\ \/ life[d] \in {"launching", "working", "exited"} /\ r = "crashed"
       \/ d \in Foreground /\ life[d] = "exited" /\ r \in {"success", "failed"}
    /\ AppendTerminal(d, r)
    /\ life' = [life EXCEPT ![d] = IF @ = "working" THEN @ ELSE "over"]
    /\ UNCHANGED <<authority, startHead, head, ticket, settling, staged, jobs>>

-----------------------------------------------------------------------------
(* Commands that read and then write.                                      *)

\* What each command reads before it decides.
Decides(kind, d) ==
    CASE kind = "fallback" -> Started(d) /\ rows[d] = <<>>
      [] kind = "marker"   -> life[d] \in {"launching", "exited"} /\ rows[d] = <<>>
      [] kind = "runner"   -> d \in Plain \ Foreground /\ life[d] = "exited" /\ status[d] = "running"
      [] kind = "clean"    -> status[d] = "running"
      [] kind = "sweep"    -> status[d] = "running" /\ life[d] \notin {"working", "orphan"}
      [] kind = "wait"     -> status[d] = "running" /\ life[d] \in {"exited", "orphan", "over"}

\* And what it then writes.
Writes(kind, r) ==
    CASE kind = "fallback" -> r \in Verdicts \cap Results
      [] kind = "runner"   -> r \in {"success", "failed"}
      [] kind \in {"clean", "wait"} -> r = "crashed"
      [] kind \in {"marker", "sweep"} -> r = "partial"

Kinds == {"fallback", "marker", "runner", "clean", "sweep", "wait"}

Job == [kind : Kinds, dep : Deployments, result : Terminal]

Decide(kind, d, r) ==
    /\ Cardinality(jobs) < MaxJobs /\ d \in Watched
    /\ Decides(kind, d) /\ Writes(kind, r)
    /\ jobs' = jobs \cup {[kind |-> kind, dep |-> d, result |-> r]}
    /\ UNCHANGED <<rows, authority, startHead, projection, claim, settling, staged, life>>

\* reconcileTerminalRegistryEventIfAbsent
IfAbsent(d, row) ==
    IF rows[d] = <<>> THEN Publish(d, <<row>>, row)
    ELSE Deactivate(d) /\ UNCHANGED <<rows, status>>

\* The write.  Only status --wait looks again, in its transaction.
Act(j) ==
    /\ j \in jobs
    /\ jobs' = jobs \ {j}
    /\ IF j.kind = "wait" THEN IfAbsent(j.dep, j.result) ELSE AppendTerminal(j.dep, j.result)
    /\ life' = [life EXCEPT ![j.dep] = IF j.kind \in {"marker", "runner"} THEN "over" ELSE @]
    /\ UNCHANGED <<authority, startHead, head, ticket, settling, staged>>

\* The command is interrupted.
GiveUp(j) ==
    /\ j \in jobs
    /\ jobs' = jobs \ {j}
    /\ UNCHANGED <<rows, authority, startHead, projection, claim, settling, staged, life>>

-----------------------------------------------------------------------------
(* The ticket of a running deployment.                                     *)

\* hasProtectedBuilderLaunchEvidence, for the roles modelled.
Protected(d) == d \in Builders

\* associateDeploymentTicket: compare and set.
Associate(d, expected, t) ==
    /\ status[d] = "running" /\ ticket[d] = expected /\ t # expected
    /\ expected # None => ~Protected(d)
    /\ ticket' = [ticket EXCEPT ![d] = t]
    /\ UNCHANGED <<rows, authority, startHead, status, head, claim, settling, staged, life, jobs>>

-----------------------------------------------------------------------------
(* Review authorizations.                                                  *)

SameReview(d, e) == LaunchTicket[d] = LaunchTicket[e] /\ Branch[d] = Branch[e]

Claimant(a, d) == claim[a] # None /\ claim[a].dep = d

\* Consumed by someone, for good.
Consumed(a, d) == claim[a] # None \/ \E b \in Authorizations : Claimant(b, d)

\* Another reviewer that runs for the ticket it was started for.
RunningReview(d) ==
    \E e \in Reviewers \ {d} : /\ status[e] = "running" /\ SameReview(e, d)
                               /\ ticket[e] = LaunchTicket[d]

\* Active claims of the same ticket and branch, but for those that
\* reconcileDurablyTerminalReviewClaims closes.
Reviewed(d) ==
    \E a \in Authorizations : /\ claim[a] # None /\ claim[a].active
                              /\ SameReview(claim[a].dep, d)
                              /\ status[claim[a].dep] = "running" \/ rows[claim[a].dep] = <<>>

\* claimReviewAuthorization
ClaimReview(a, d) ==
    /\ d \in Reviewers /\ status[d] = "running"
    /\ LaunchTicket[d] # None /\ ticket[d] = LaunchTicket[d]
    /\ ~Consumed(a, d) /\ ~Reviewed(d) /\ ~RunningReview(d)
    /\ claim' = [b \in Authorizations |->
            IF b = a THEN [dep |-> d, active |-> TRUE]
            ELSE IF claim[b] # None /\ SameReview(claim[b].dep, d)
                    /\ status[claim[b].dep] \in Terminal /\ rows[claim[b].dep] # <<>>
                 THEN [claim[b] EXCEPT !.active = FALSE] ELSE claim[b]]
    /\ UNCHANGED <<rows, authority, startHead, projection, settling, staged, life, jobs>>

-----------------------------------------------------------------------------
(* The branch authority of a parent.                                       *)

\* A row of authority: by is its child, or None for the parent itself; durable
\* tells a settlement from a finalization.
Row(by, durable, base, new) == [by |-> by, durable |-> durable, base |-> base, new |-> new]

Extend(p, row) ==
    /\ Len(authority[p]) < MaxAuthority
    /\ authority' = [authority EXCEPT ![p] = Append(@, row)]
    /\ head' = [head EXCEPT ![p] = row.new]

\* Mutant: the child's own evidence is enough.
PredecessorNone(c) == TRUE

\* What every advance by a child requires: a running parent on the ticket and
\* at the head that the child was started with.  A parent that no child has
\* advanced may still be at its own start.
Predecessor(c) ==
    LET p == ParentOf[c]
    IN  \/ head[p] = startHead[c]
        \/ head[p] = startHead[p] /\ \A i \in DOMAIN authority[p] : authority[p][i].by = None

DirectChild(c) ==
    /\ Started(c) /\ status[ParentOf[c]] = "running"
    /\ ticket[ParentOf[c]] = LaunchTicket[c]

\* A row for the same child of the same kind: the call is a replay.
Advanced(c, durable) ==
    \E i \in DOMAIN authority[ParentOf[c]] :
        authority[ParentOf[c]][i].by = c /\ authority[ParentOf[c]][i].durable = durable

\* advanceParentAuthoritySnapshot, when a child that never was exactly
\* terminal finalizes its repository authority.
AdvanceParent(c, h) ==
    /\ life[c] \in {"launching", "exited"} /\ h \in Heads /\ h >= startHead[c]
    /\ DirectChild(c) /\ ~Advanced(c, FALSE) /\ Predecessor(c)
    /\ Extend(ParentOf[c], Row(c, FALSE, startHead[c], h))
    /\ UNCHANGED <<rows, startHead, status, ticket, claim, settling, staged, life, jobs>>

\* readParentChildSettlementRegistry: the parent runs and the child has exactly
\* one terminal row, completed with the status shown.  Some exit codes other
\* than 0 are refused.
Settleable(c) ==
    /\ Started(c) /\ status[ParentOf[c]] = "running"
    /\ Len(rows[c]) = 1 /\ rows[c][1] \in Results \cup {"nonzero"} /\ status[c] = Shown(rows[c][1])

\* The settlement's intent is made durable.
SettleIntent(c, h) ==
    /\ life[c] = "over" /\ settling[c] = None
    /\ Settleable(c) /\ DirectChild(c) /\ head[ParentOf[c]] = startHead[c]
    /\ h \in Heads /\ h >= startHead[c]
    /\ settling' = [settling EXCEPT ![c] =
            [event |-> Len(authority[ParentOf[c]]), head |-> h, outcome |-> rows[c][1]]]
    /\ UNCHANGED <<rows, authority, startHead, projection, claim, staged, life, jobs>>

\* Its publication, after any delay and any number of restarts.
SettleAdvance(c) ==
    LET p == ParentOf[c]
    IN  /\ settling[c] # None
        /\ Settleable(c) /\ rows[c][1] = settling[c].outcome /\ DirectChild(c)
        /\ ~Advanced(c, TRUE)
        /\ Len(authority[p]) = settling[c].event /\ head[p] = startHead[c]
        /\ Extend(p, Row(c, TRUE, startHead[c], settling[c].head))
        /\ UNCHANGED <<rows, startHead, status, ticket, claim, settling, staged, life, jobs>>

\* advanceDirectAuthoritySnapshot: the owner's own commit.
AdvanceDirect(p, base, h) ==
    /\ status[p] = "running" /\ ticket[p] = LaunchTicket[p]
    /\ head[p] = base /\ h \in Heads /\ h >= base
    /\ Extend(p, Row(None, FALSE, base, h))
    /\ UNCHANGED <<rows, startHead, status, ticket, claim, settling, staged, life, jobs>>

-----------------------------------------------------------------------------
Lifecycle(d) ==
    \/ \E h \in Evidence(d) : Start(d, h)
    \/ Replay(d) \/ Pid(d) \/ AgentExits(d) \/ OrphanExits(d) \/ SupervisorDies(d)

Report(d) ==
    \/ \E r \in TerminalRows, h \in Evidence(d) : Complete(d, r, h)
    \/ \E r \in Terminal : \/ \E h \in Evidence(d) : Finalize(d, r, h)
                           \/ Stage(d, r)
                           \/ OpenCodeAppends(d, r)
                           \/ \E kind \in Kinds : Decide(kind, d, r)

Advance ==
    \/ \E c \in Children, h \in Heads : AdvanceParent(c, h) \/ SettleIntent(c, h)
    \/ \E c \in Children : SettleAdvance(c)
    \/ \E p \in Parents, base, h \in Heads : AdvanceDirect(p, base, h)

Next ==
    \/ \E d \in Deployments : Lifecycle(d) \/ Report(d)
    \/ \E j \in jobs : Act(j) \/ GiveUp(j)
    \/ \E d \in Deployments, t \in Tickets, expected \in Tickets \cup {None} : Associate(d, expected, t)
    \/ \E a \in Authorizations, d \in Reviewers : ClaimReview(a, d)
    \/ Advance

Spec == Init /\ [][Next]_vars

-----------------------------------------------------------------------------
(* Properties.                                                             *)

Lives == {"unborn", "launching", "working", "orphan", "exited", "over"}

\* Every variable holds what the registry's columns and files can.
TypeOK ==
    /\ rows \in [Deployments -> Seq(TerminalRows)]
    /\ authority \in [Parents -> Seq([by : Children \cup {None}, durable : BOOLEAN,
                                      base : Heads, new : Heads])]
    /\ startHead \in [Deployments -> Heads \cup {None}]
    /\ status \in [Deployments -> Terminal \cup {"absent", "running"}]
    /\ head \in [Deployments -> Heads \cup {None}]
    /\ ticket \in [Deployments -> Tickets \cup {None}]
    /\ claim \in [Authorizations -> [dep : Reviewers, active : BOOLEAN] \cup {None}]
    /\ settling \in [Children -> [event : Nat, head : Heads, outcome : Results \cup {"nonzero"}] \cup {None}]
    /\ staged \in [Deployments -> Results \cup {None}]
    /\ life \in [Deployments -> Lives]
    /\ jobs \subseteq Job

\* The projection follows the events (insertRegistryEvent and upsertDeployment
\* in one transaction): a deployment is running until its first terminal row
\* and then shows its last one, whoever wrote, rewrote or reconciled the rows in
\* between.
StatusIsLastRow ==
    \A d \in Deployments :
        status[d] = IF ~Started(d) THEN "absent"
                    ELSE IF rows[d] = <<>> THEN "running" ELSE Shown(rows[d][Len(rows[d])])

\* claimReviewAuthorization, deactivateReviewAuthorizationClaim: an active claim
\* belongs to a running reviewer, and no two of them review the same ticket and
\* branch, whatever tickets the reviewers are associated with meanwhile.
ActiveReviews ==
    \A a \in Authorizations : claim[a] # None /\ claim[a].active =>
        /\ status[claim[a].dep] = "running"
        /\ \A b \in Authorizations \ {a} : claim[b] # None /\ claim[b].active =>
                ~SameReview(claim[a].dep, claim[b].dep)

\* claimReviewAuthorization: an authorization is used once.  Its consumer never
\* changes, a claim once closed stays closed, and no reviewer consumes two.
AuthorizedOnce ==
    [][\A a \in Authorizations : claim[a] # None =>
        /\ claim'[a] # None /\ claim'[a].dep = claim[a].dep
        /\ claim'[a].active => claim[a].active
        /\ \A b \in Authorizations \ {a} : ~(claim'[b] # None /\ claim'[b].dep = claim'[a].dep)]_vars

\* advanceParentAuthoritySnapshot, advanceDirectAuthoritySnapshot: the authority
\* updates of a parent are a chain.  Each starts at the head the one before
\* left, but for the first one by a child, which may start past a parent that
\* is still at its own launch; a child appears once of each kind; and while the
\* parent runs its head is where the chain ends.
AuthorityChain ==
    \A p \in Parents :
        LET log == authority[p]
            before(i) == IF i = 1 THEN startHead[p] ELSE log[i - 1].new
        IN  /\ \A i \in DOMAIN log :
                  \/ log[i].base = before(i)
                  \/ /\ before(i) = startHead[p] /\ log[i].by # None
                     /\ \A j \in 1..(i - 1) : log[j].by = None
            /\ \A i, j \in DOMAIN log :
                  log[i].by # None /\ log[i].by = log[j].by /\ log[i].durable = log[j].durable => i = j
            /\ status[p] = "running" => head[p] = before(Len(log) + 1)

\* associateDeploymentTicket with advanceParentAuthoritySnapshot: what a child
\* has committed for its parent stays on the ticket both were working on.
AdvancedOnTicket ==
    \A c \in Children :
        (\E durable \in BOOLEAN : Advanced(c, durable)) /\ LaunchTicket[c] # None
            => ticket[ParentOf[c]] = LaunchTicket[c]

\* What the registry says of a deployment and of its reviews is what its rows and
\* claims say (insertRegistryEvent, upsertDeployment, claimReviewAuthorization).
RegistrySafe == StatusIsLastRow /\ ActiveReviews

\* A parent's branch authority is one chain, on one ticket, whoever advances it
\* (advanceParentAuthoritySnapshot, associateDeploymentTicket).
ParentAuthority == AuthorityChain /\ AdvancedOnTicket

\* The steps that leave one terminal row of d, r itself or one recorded before,
\* and a failure if any of them is.
KeepsFailure(d, r) ==
    LET recorded == {rows[d][i] : i \in DOMAIN rows[d]}
        left == rows'[d][1]
    IN  /\ Len(rows'[d]) = 1 /\ left \in recorded \cup {r}
        /\ (\E row \in recorded \cup {r} : IsFailed(row)) => IsFailed(left)
        /\ IsFailed(left) /\ ~IsFailed(status'[d]) => left \in recorded \cap {"nonzero", "unstated"}

\* reconcileTerminalRegistryEvent: the supervisor's own result leaves one row, a
\* failure whenever anyone's was, the supervisor's included.  The status shows a
\* failure too, with one exception: a success with a nonzero exit code or without
\* a status, recorded before, is kept as the failure, also over one of the
\* supervisor's, and shown as a success.
SupervisorKeepsFailure ==
    [][\A d \in Pi : rows[d] # <<>> =>
        \A r \in Terminal, h \in Evidence(d) : Finalize(d, r, h) => KeepsFailure(d, r)]_vars

\* reconcileTerminalRegistryEventIfAbsent: status --wait, which decided while
\* the deployment ran, never overrides a result that came in the meantime.
ObserverYields ==
    [][\A j \in jobs \ jobs' : j.kind = "wait" /\ rows[j.dep] # <<>> => rows'[j.dep] = rows[j.dep]]_vars

\* What no step may undo: a failure anyone recorded, a result that came before the
\* observer's, a use of a review authorization (registry/index.ts).
ResultsKept == SupervisorKeepsFailure /\ ObserverYields /\ AuthorizedOnce

=============================================================================
