------------------------------- MODULE PiDeploy -------------------------------
(***************************************************************************)
(* The launcher of Pi deployments (pi-pa/src/deploy.ts, deployWithPi): what *)
(* one call takes before it starts a runtime, in which order, and what it  *)
(* gives back and reports on each of its many ways out.                    *)
(*                                                                         *)
(* One ticket with one checkout.  A call is an orchestrator, a parented    *)
(* implementation launched by the agent of a foreground orchestrator, a    *)
(* protected review, or a reader of the selected ticket worktree.  Calls   *)
(* run in processes of their own; every synchronous block is one action.   *)
(* The resources themselves are TicketCapacity's and                       *)
(* RepositoryAdmission's, the supervisor after a handover BackgroundLaunch's. *)
(***************************************************************************)
EXTENDS Naturals, FiniteSets

CONSTANTS Calls,     \* the deploy calls
          Kind,      \* "orchestrator", "child", "review" or "selection"
          Casts,     \* which calls a behaviour may make: they bound its size
          NoOne,
          MaxMishaps \* bound on the commits of agents and of the operator and on
                     \* the publications that fail, together

\* what the constants must satisfy: the instances assume it
PiDeployAssumption ==
  /\ Kind \in [Calls -> {"orchestrator", "child", "review", "selection"}]
  /\ Casts \subseteq SUBSET Calls /\ NoOne \notin Calls
  /\ MaxMishaps \in Nat

Failed == {"failed", "crashed"}

VARIABLES
  tree,      \* version of the checkout
  linked,    \* version the ticket records as the head of its branch
  slot,      \* [by, intent]: the permit of the ticket, and whether its owner went on to the branch
  lease,     \* owner of the checkout's lease
  borrower,  \* the child that borrows it
  review,    \* the review that reserves the checkout
  row,       \* the registry's status of each deployment
  file,      \* its terminal status file
  agent,     \* its runtime: "none", "live" or "ended"
  launch,    \* the call itself
  cast,      \* the calls made
  faults, edits

deployVars == <<tree, linked, slot, lease, borrower, review, row, file, agent, launch, cast, faults, edits>>
custody == <<slot, lease, borrower, review>>
records == <<row, file>>
world == <<tree, linked, agent, cast, faults, edits>>

NoSlot == [by |-> NoOne, intent |-> FALSE]
NewLaunch == [at |-> "idle", bg |-> FALSE, parent |-> NoOne, base |-> 0, plan |-> 0, seen |-> <<>>, has |-> {},
              started |-> FALSE, verified |-> TRUE, want |-> "none", told |-> FALSE, again |-> FALSE,
              pending |-> FALSE, result |-> "none"]

DeployInit ==
  /\ tree = 1 /\ linked = 1
  /\ slot = NoSlot /\ lease = NoOne /\ borrower = NoOne /\ review = NoOne
  /\ row = [d \in Calls |-> "none"] /\ file = [d \in Calls |-> "none"]
  /\ agent = [d \in Calls |-> "none"] /\ launch = [d \in Calls |-> NewLaunch]
  /\ cast \in Casts /\ faults = 0 /\ edits = 0

-----------------------------------------------------------------------------
(* What the guards of a call read *)

At(d, step) == launch[d].at = step
Sets(d, c) == launch' = [launch EXCEPT ![d] = c]
Goes(d, step) == Sets(d, [launch[d] EXCEPT !.at = step])
Ends(d, c, result) == Sets(d, [c EXCEPT !.at = "returned", !.result = result])

\* acquireRepositoryMutationLease: nobody on the checkout
Unclaimed == lease = NoOne /\ borrower = NoOne /\ review = NoOne

\* a custody whose launcher or runner lives
Lives(h) == h # NoOne /\ (launch[h].at \notin {"returned", "threw"} \/ agent[h] = "live")

\* assertIdleReviewCustody: nobody, or a running orchestrator without a child
\* whose lease still describes the checkout
IdleForReview ==
  /\ borrower = NoOne
  /\ lease # NoOne => Lives(lease) /\ row[lease] = "running" /\ launch[lease].plan = tree

\* authenticateParentTreehouse, authenticateParentDurableAuthority: the parent is
\* running by the registry and alive, and its lease and permit are its own
ParentStands(d) ==
  LET p == launch[d].parent
  IN /\ row[p] = "running" /\ lease = p /\ slot.by = p
     /\ launch[p].at = "running"

\* authenticateParentTicketBranch: the ticket's record agrees with the checkout
BranchAgrees == linked = tree

\* withRepositoryReviewReservation, rereadPiReviewCandidate
ReviewHolds(d) == review = d /\ tree = launch[d].base /\ BranchAgrees /\ IdleForReview

\* authenticateTicketWorktreeSelection, inspectTicketWorktreeBuilders: what is
\* read, and read again, of the checkout and of who builds in it
Selection == <<tree, linked, lease, borrower>>
Selectable ==
  /\ BranchAgrees
  /\ lease # NoOne => row[lease] = "running"
  /\ borrower # NoOne => row[borrower] = "running"

\* reconcileTerminalRegistryEvent: a failure stays, and replaces a success
Reconciled(current, asked) ==
  IF current \in Failed \/ (current \in {"success", "partial"} /\ asked \notin Failed)
  THEN current ELSE asked

\* registryTerminalOutcome
Outcome(status) == IF status \in {"success", "partial"} THEN "success" ELSE "failed"

-----------------------------------------------------------------------------
(* Up to the plan *)

\* deployWithPi: inheritedParentContext makes a builder launch of an
\* orchestrator's agent a child, which must be a background one
Begin(d) ==
  /\ At(d, "idle") /\ d \in cast
  /\ \E bg \in BOOLEAN, p \in Calls \cup {NoOne} :
       /\ Kind[d] = "child" => bg /\ p # NoOne /\ Kind[p] = "orchestrator" /\ ~launch[p].bg
                               /\ agent[p] = "live" /\ row[p] = "running"
       /\ Kind[d] # "child" => p = NoOne
       /\ Kind[d] \in {"review", "selection"} => bg = (Kind[d] = "review")
       /\ Sets(d, [launch[d] EXCEPT !.at = "select", !.bg = bg, !.parent = p])
  /\ UNCHANGED <<world, custody, records>>

\* the gates before the deployment has a directory, and a runtime configuration
\* that does not resolve: the latter publishes a failed row and status
Refuse(d) ==
  /\ At(d, "idle") /\ d \in cast /\ Kind[d] # "child"
  /\ \E unresolved \in BOOLEAN :
       /\ row' = [row EXCEPT ![d] = IF unresolved THEN "failed" ELSE @]
       /\ file' = [file EXCEPT ![d] = IF unresolved THEN "failed" ELSE @]
  /\ Ends(d, launch[d], "failed")
  /\ UNCHANGED <<world, custody>>

\* selectPiReviewCandidateBeforePlanning and reservePiReviewCandidate
ReserveReview(d) ==
  /\ At(d, "select") /\ Kind[d] = "review"
  /\ review = NoOne /\ IdleForReview /\ BranchAgrees
  /\ review' = d
  /\ Sets(d, [launch[d] EXCEPT !.at = "plan", !.base = tree, !.has = {"review"}])
  /\ UNCHANGED <<world, records, slot, lease, borrower>>

Select(d) ==
  /\ At(d, "select") /\ Kind[d] = "selection"
  /\ Selectable
  /\ Sets(d, [launch[d] EXCEPT !.at = "plan", !.base = tree, !.seen = Selection])
  /\ UNCHANGED <<world, custody, records>>

\* acquireRepositoryTicketSlot
TakeSlot(d) ==
  /\ At(d, "select") /\ Kind[d] = "orchestrator"
  /\ slot.by = NoOne
  /\ slot' = [by |-> d, intent |-> FALSE]
  /\ Sets(d, [launch[d] EXCEPT !.at = "branch", !.has = {"slot"}])
  /\ UNCHANGED <<world, records, lease, borrower, review>>

\* materializeTicketBranch: its intent is durable before the branch is
MarkIntent(d) ==
  /\ At(d, "branch") /\ slot.by = d
  /\ slot' = [slot EXCEPT !.intent = TRUE]
  /\ Goes(d, "materialize")
  /\ UNCHANGED <<world, records, lease, borrower, review>>

Materialize(d) ==
  /\ At(d, "materialize")
  /\ linked' = tree
  /\ Sets(d, [launch[d] EXCEPT !.at = "plan", !.base = tree])
  /\ UNCHANGED <<custody, records, cast, tree, agent, faults, edits>>

\* authenticateParentPreparedTreehouse and the three readings of the parent
AuthenticateParent(d) ==
  /\ At(d, "select") /\ Kind[d] = "child"
  /\ ParentStands(d) /\ BranchAgrees
  /\ Sets(d, [launch[d] EXCEPT !.at = "plan", !.base = tree])
  /\ UNCHANGED <<world, custody, records>>

\* resolveExecutionPlan, and the reservation read again under the mutex
Plan(d) ==
  /\ At(d, "plan")
  /\ Kind[d] = "review" => ReviewHolds(d)
  /\ Sets(d, [launch[d] EXCEPT !.at = "tools", !.plan = tree])
  /\ UNCHANGED <<world, custody, records>>

\* releaseRepositoryTicketSlot before a started row: once the branch may exist
\* the slot stays with its intent
UnstartedSlot(d) == slot.by = d /\ slot.intent

\* publishUnstartedReviewFailure: rows, evidence, then the reservation; a
\* publication that fails keeps the reservation
GiveBackUnstarted(d, lost) ==
  /\ slot' = IF slot.by = d /\ ~slot.intent THEN NoSlot ELSE slot
  /\ review' = IF review = d /\ ~lost THEN NoOne ELSE review
  /\ faults' = IF lost THEN faults + 1 ELSE faults
  /\ Ends(d, [launch[d] EXCEPT !.told = UnstartedSlot(d) \/ lost], "failed")
  /\ UNCHANGED <<cast, tree, linked, agent, edits, lease, borrower>>

MayLose(d, lost) == lost => faults + edits < MaxMishaps /\ review = d

\* the catch of the planning block
PlanningFails(d) ==
  /\ launch[d].at \in {"select", "branch", "materialize", "plan"}
  /\ \E lost \in BOOLEAN : MayLose(d, lost) /\ GiveBackUnstarted(d, lost)
  /\ row' = [row EXCEPT ![d] = Reconciled(@, "failed")]
  /\ file' = [file EXCEPT ![d] = "failed"]

\* describeTools throws: an ordinary launch leaves no row of it at all
ToolsFail(d) ==
  /\ At(d, "tools")
  /\ \E lost \in BOOLEAN : MayLose(d, lost) /\ GiveBackUnstarted(d, lost)
  /\ row' = [row EXCEPT ![d] = IF review = d THEN "failed" ELSE @]
  /\ UNCHANGED file

-----------------------------------------------------------------------------
(* From the started row to the runtime *)

\* emitStartedEvent stands in no try: when it throws, everything stays
Announce(d) ==
  /\ At(d, "tools")
  /\ row' = [row EXCEPT ![d] = "running"]
  /\ Goes(d, IF Kind[d] = "review" THEN "protect" ELSE "hooks")
  /\ UNCHANGED <<world, custody, file>>

AnnounceThrows(d) ==
  /\ At(d, "tools") /\ faults + edits < MaxMishaps
  /\ faults' = faults + 1
  /\ Goes(d, "threw")
  /\ UNCHANGED <<custody, records, cast, tree, linked, agent, edits>>

\* completeFailure, crashFailure
Asks(d, status) == [launch[d] EXCEPT !.at = "publish", !.want = status]
Fails(d, status) == Sets(d, Asks(d, status)) /\ UNCHANGED <<world, custody, records>>

\* createPiProtectedValidationLaunch between two readings of the reservation
Protect(d) ==
  /\ At(d, "protect")
  /\ \/ /\ ReviewHolds(d)
        /\ Goes(d, "hooks")
        /\ UNCHANGED <<world, custody, records>>
     \/ Fails(d, "failed")

\* installHooks is awaited; what it throws is a crash
InstallHooks(d) ==
  /\ At(d, "hooks")
  /\ \/ /\ Goes(d, "authorize")
        /\ UNCHANGED <<world, custody, records>>
     \/ Fails(d, "crashed")

\* registerRepositoryMutationBorrower after the parent and the snapshot were
\* read again
Borrow(d) ==
  /\ At(d, "authorize") /\ Kind[d] = "child"
  /\ ParentStands(d) /\ BranchAgrees /\ tree = launch[d].plan
  /\ borrower = NoOne /\ review = NoOne
  /\ borrower' = d
  /\ Sets(d, [launch[d] EXCEPT !.at = "preflight", !.has = {"borrower"}])
  /\ UNCHANGED <<world, records, slot, lease, review>>

\* acquireRepositoryMutationLease: the plan takes the snapshot of the lease
AcquireLease(d) ==
  /\ At(d, "authorize") /\ Kind[d] = "orchestrator"
  /\ Unclaimed
  /\ lease' = d
  /\ Sets(d, [launch[d] EXCEPT !.at = "preflight", !.plan = tree, !.has = @ \cup {"lease"}])
  /\ UNCHANGED <<world, records, slot, borrower, review>>

\* nothing to acquire: a selection is read again, a review holds its reservation
AuthorizeReader(d) ==
  /\ At(d, "authorize") /\ Kind[d] \in {"review", "selection"}
  /\ Kind[d] = "selection" => Selectable /\ Selection = launch[d].seen
  /\ Goes(d, "preflight")
  /\ UNCHANGED <<world, custody, records>>

\* a rejected acquisition completes as failed, a reading that throws crashes
AuthorizeFails(d) ==
  /\ At(d, "authorize")
  /\ \E status \in Failed : Fails(d, status)

\* adapterPreflight is awaited; then the session identity is written
Preflight(d) ==
  /\ At(d, "preflight")
  /\ \/ /\ Goes(d, "recheck")
        /\ UNCHANGED <<world, custody, records>>
     \/ \E status \in Failed : Fails(d, status)

\* the checkout is read again after the preflight; a lease owner refreshes the
\* ticket's head first
Recheck(d) ==
  /\ At(d, "recheck")
  /\ linked' = IF lease = d THEN tree ELSE linked
  /\ Sets(d, IF Kind[d] \in {"orchestrator", "child"}
                /\ (tree # launch[d].plan \/ (lease = d /\ tree # launch[d].base))
             THEN Asks(d, "crashed") ELSE [launch[d] EXCEPT !.at = "spawn"])
  /\ UNCHANGED <<custody, records, cast, tree, agent, faults, edits>>

\* the last reading, then the spawn: from here on a launch was attempted
MaySpawn(d) ==
  /\ Kind[d] = "child" => ParentStands(d) /\ BranchAgrees /\ tree = launch[d].base
  /\ Kind[d] = "review" => ReviewHolds(d)
  /\ Kind[d] = "selection" => Selectable /\ Selection = launch[d].seen

Spawn(d) ==
  /\ At(d, "spawn")
  /\ \/ /\ MaySpawn(d)
        /\ \E alive \in BOOLEAN : agent' = [agent EXCEPT ![d] = IF alive THEN "live" ELSE @]
        /\ Sets(d, [launch[d] EXCEPT !.at = "running", !.started = TRUE, !.verified = Kind[d] # "review"])
        /\ UNCHANGED <<custody, records, cast, tree, linked, faults, edits>>
     \/ Fails(d, "crashed")

-----------------------------------------------------------------------------
(* The result of the runtime *)

\* a foreground session ends: its staged completion decides, none is partial
SessionEnds(d) ==
  /\ At(d, "running") /\ ~launch[d].bg /\ agent[d] = "live"
  /\ agent' = [agent EXCEPT ![d] = "ended"]
  /\ \E status \in {"success", "partial", "failed"} :
       Sets(d, [Asks(d, status) EXCEPT !.verified = TRUE])
  /\ UNCHANGED <<custody, records, cast, tree, linked, faults, edits>>

\* an adapter's failure: nothing started, what started was cleaned up, or the
\* cleanup could not be verified
AdapterFails(d) ==
  /\ At(d, "running")
  /\ \E gone \in BOOLEAN :
       /\ agent[d] = "none" => gone
       /\ agent' = [agent EXCEPT ![d] = IF gone /\ @ = "live" THEN "ended" ELSE @]
       /\ Sets(d, [Asks(d, "failed") EXCEPT !.verified = gone])
  /\ UNCHANGED <<custody, records, cast, tree, linked, faults, edits>>

\* adapter.spawn throws: neither an exit nor a cleanup is known
SpawnThrows(d) ==
  /\ At(d, "running") /\ agent[d] = "none"
  /\ Sets(d, Asks(d, "crashed"))
  /\ UNCHANGED <<world, custody, records>>

\* acceptRepositoryAuthorityHandoff: the supervisor holds everything now
HandOver(d) ==
  /\ At(d, "running") /\ launch[d].bg /\ agent[d] = "live"
  /\ Ends(d, [launch[d] EXCEPT !.has = {}, !.pending = TRUE], "pending")
  /\ UNCHANGED <<world, custody, records>>

-----------------------------------------------------------------------------
(* writeTerminal *)

\* a child's outcome is published before its settlement is tried
PublishFirst(d) ==
  /\ At(d, "publish")
  /\ row' = [row EXCEPT ![d] = IF "borrower" \in launch[d].has /\ launch[d].started
                               THEN Reconciled(@, launch[d].want) ELSE @]
  /\ Goes(d, "settle")
  /\ UNCHANGED <<world, custody, file>>

\* A plausible bug: released whatever was attempted.
RollsBackAny(d) == "borrower" \in launch[d].has

\* finalizeActiveRepositoryAuthority, the borrower: rolled back only when no
\* launch was attempted; a background child has no exit proof of its own here
RollsBack(d) == "borrower" \in launch[d].has /\ ~launch[d].started

SettleBorrower(d) ==
  /\ At(d, "settle")
  /\ LET back == RollsBack(d) IN
       /\ borrower' = IF back THEN NoOne ELSE borrower
       /\ Sets(d, [launch[d] EXCEPT !.at = "owner", !.has = IF back THEN @ \ {"borrower"} ELSE @,
                                    !.told = @ \/ ("borrower" \in launch[d].has /\ ~back)])
  /\ UNCHANGED <<world, records, slot, lease, review>>

\* the lease: the owner waits for a live child up to its deadline, and an
\* unresolved child keeps the lease
SettleLease(d) ==
  /\ At(d, "owner")
  /\ IF "lease" \notin launch[d].has THEN Goes(d, "permit") /\ UNCHANGED lease
     ELSE \/ /\ borrower = NoOne
             /\ lease' = NoOne
             /\ Sets(d, [launch[d] EXCEPT !.at = "permit", !.has = @ \ {"lease"}])
          \/ /\ borrower # NoOne
             /\ Sets(d, [launch[d] EXCEPT !.at = "permit", !.told = TRUE])
             /\ UNCHANGED lease
  /\ UNCHANGED <<world, records, slot, borrower, review>>

\* releaseRepositoryTicketSlot after a started row: refused while anyone's
\* custody remains on the checkout
SlotReleased == Unclaimed

\* a refusal is a failure of the deployment
SlotRefusal(d, free) == "slot" \in launch[d].has /\ ~free

PermitRefusal(d, free) == SlotRefusal(d, free)

SettleSlot(d) ==
  /\ At(d, "permit")
  /\ LET free == "slot" \in launch[d].has /\ SlotReleased IN
       /\ slot' = IF free THEN NoSlot ELSE slot
       /\ Sets(d, [launch[d] EXCEPT !.at = "row", !.has = IF free THEN @ \ {"slot"} ELSE @,
                                    !.told = @ \/ PermitRefusal(d, free)])
  /\ UNCHANGED <<world, records, lease, borrower, review>>

\* what is kept becomes the deployment's failure
Requested(d) == IF launch[d].told THEN IF launch[d].want = "crashed" THEN "crashed" ELSE "failed" ELSE launch[d].want

PublishRow(d) ==
  /\ At(d, "row")
  /\ row' = [row EXCEPT ![d] = IF "borrower" \in launch[d].has /\ launch[d].started THEN @ ELSE Reconciled(@, Requested(d))]
  /\ Goes(d, "file")
  /\ UNCHANGED <<world, custody, file>>

\* the row decides what the call reports, a kept custody overrides it
Reported(d) == IF launch[d].told THEN "failed" ELSE Outcome(row[d])

Answer(d) == Reported(d)

\* the status file, then a review whose runtime has ended gives back its
\* reservation; the result of the call follows
PublishFile(d) ==
  /\ At(d, "file")
  /\ file' = [file EXCEPT ![d] = Answer(d)]
  /\ LET over == "review" \in launch[d].has /\ (launch[d].started => launch[d].verified) IN
       /\ review' = IF over THEN NoOne ELSE review
       /\ Ends(d, [launch[d] EXCEPT !.has = IF over THEN {} ELSE @,
                                    !.told = @ \/ ("review" \in launch[d].has /\ ~over)],
               IF launch[d].want \in Failed THEN "failed" ELSE Answer(d))
  /\ UNCHANGED <<world, row, slot, lease, borrower>>

\* a publication throws: the try around a finished session turns it into a
\* crash, written once more; a failure's own promise rejects to the caller
PublishThrows(d) ==
  /\ launch[d].at \in {"row", "file"} /\ faults + edits < MaxMishaps
  /\ faults' = faults + 1
  /\ Sets(d, IF launch[d].want \in Failed \/ launch[d].again THEN [launch[d] EXCEPT !.at = "threw"]
             ELSE [Asks(d, "crashed") EXCEPT !.again = TRUE])
  /\ UNCHANGED <<custody, records, cast, tree, linked, agent, edits>>

-----------------------------------------------------------------------------
(* Around the calls *)

\* an agent that may write, or the operator, commits in the checkout
Commit ==
  /\ faults + edits < MaxMishaps
  /\ edits' = edits + 1 /\ tree' = tree + 1
  /\ UNCHANGED <<custody, records, cast, linked, agent, launch, faults>>

\* pa registry complete of the agent, or a sweep that gives the deployment up
RecordElsewhere(d) ==
  /\ row[d] = "running" /\ faults + edits < MaxMishaps
  /\ faults' = faults + 1
  /\ \E status \in {"success", "crashed"} : row' = [row EXCEPT ![d] = status]
  /\ UNCHANGED <<custody, file, cast, tree, linked, agent, launch, edits>>

\* the supervisor of a handed over deployment ends it (BackgroundLaunch)
SupervisorSettles(d) ==
  /\ launch[d].pending /\ agent[d] = "live"
  /\ agent' = [agent EXCEPT ![d] = "ended"]
  /\ \E status \in {"success", "failed"} : row' = [row EXCEPT ![d] = Reconciled(@, status)]
  /\ \E kept \in BOOLEAN :
       /\ lease = d /\ Lives(borrower) => kept
       /\ borrower' = IF borrower = d /\ ~kept THEN NoOne ELSE borrower
       /\ lease' = IF lease = d /\ ~kept THEN NoOne ELSE lease
       /\ slot' = IF slot.by = d /\ ~kept THEN NoSlot ELSE slot
       /\ review' = IF review = d /\ ~kept THEN NoOne ELSE review
  /\ UNCHANGED <<file, cast, tree, linked, launch, faults, edits>>

DeployNext ==
  \/ \E d \in Calls :
       \/ Begin(d) \/ Refuse(d) \/ ReserveReview(d) \/ Select(d) \/ TakeSlot(d) \/ MarkIntent(d) \/ Materialize(d)
       \/ AuthenticateParent(d) \/ Plan(d) \/ PlanningFails(d) \/ ToolsFail(d)
       \/ Announce(d) \/ AnnounceThrows(d) \/ Protect(d) \/ InstallHooks(d)
       \/ Borrow(d) \/ AcquireLease(d) \/ AuthorizeReader(d) \/ AuthorizeFails(d)
       \/ Preflight(d) \/ Recheck(d) \/ Spawn(d)
       \/ SessionEnds(d) \/ AdapterFails(d) \/ SpawnThrows(d) \/ HandOver(d)
       \/ PublishFirst(d) \/ SettleBorrower(d) \/ SettleLease(d) \/ SettleSlot(d)
       \/ PublishRow(d) \/ PublishFile(d) \/ PublishThrows(d)
       \/ RecordElsewhere(d) \/ SupervisorSettles(d)
  \/ Commit

DeploySpec == DeployInit /\ [][DeployNext]_deployVars

-----------------------------------------------------------------------------
(* Properties *)

DeployTypeOK ==
  /\ {tree, linked} \subseteq 1 .. MaxMishaps + 1
  /\ slot \in [by : Calls \cup {NoOne}, intent : BOOLEAN]
  /\ {lease, borrower, review} \subseteq Calls \cup {NoOne}
  /\ row \in [Calls -> {"none", "running", "success", "partial", "failed", "crashed"}]
  /\ file \in [Calls -> {"none", "success", "failed"}]
  /\ agent \in [Calls -> {"none", "live", "ended"}]
  /\ \A d \in Calls :
       /\ launch[d].has \subseteq {"slot", "lease", "borrower", "review"}
       /\ launch[d].result \in {"none", "failed", "success", "pending"}

\* A runtime that may still run has its custody: a child its borrowing, a
\* review its reservation, whatever its launcher reported; an orchestrator its
\* lease unless its launcher could not verify the cleanup (deploy.ts:1246).
CustodyCoversRuntime ==
  \A d \in Calls : agent[d] = "live" =>
    /\ Kind[d] = "child" => borrower = d
    /\ Kind[d] = "review" => review = d
    /\ Kind[d] = "orchestrator" /\ launch[d].verified => lease = d

\* A call that came back without handing over holds nothing, unless it said so:
\* a permit, lease, borrowing or reservation that stays is reported as the
\* deployment's failure, on every way out.
NothingLeftUntold ==
  \A d \in Calls : launch[d].at = "returned" /\ launch[d].result # "pending" /\ ~launch[d].told =>
    d \notin {slot.by, lease, borrower, review}

\* What the call returns, the registry's row and the status file agree, also
\* when a sweep or the agent recorded a result first, when a publication failed
\* and was written again, and when custody stayed.
ResultsAgree ==
  \A d \in Calls : launch[d].at = "returned" /\ launch[d].result # "pending" =>
    /\ launch[d].result = "success" => row[d] \in {"success", "partial"} /\ file[d] = "success"
    /\ launch[d].result = "failed" /\ row[d] # "none" => row[d] \in Failed /\ file[d] # "success"
=============================================================================
