-------------------------- MODULE BackgroundLaunch --------------------------
(***************************************************************************)
(* One background deployment of Pi, from the launcher's hand-off to the    *)
(* terminal row: the launcher (pi-pa/src/adapter.ts,                       *)
(* launchPiBackgroundRunner and terminateRunner; deploy.ts, what follows   *)
(* adapter.spawn), the detached runner (background-runner.ts), the Pi      *)
(* child it supervises (adapter.ts, runPiManagedProcess) and an operator   *)
(* who waits (pa-core/src/cli/commands/status.ts, waitForDeployment).      *)
(*                                                                         *)
(* They share three files (configuration, hand-off, ownership evidence),   *)
(* the registry and the repository evidence.  Launcher and runner are two  *)
(* processes that may die between any two of their steps.  Runner and      *)
(* child lead process groups of their own.                                 *)
(***************************************************************************)
EXTENDS FiniteSets

CONSTANTS
    Kinds,   \* what is launched, see Held
    None

States == {"starting", "active", "finalizing", "finalized", "failed"}
Evidence == [state : States, child : BOOLEAN]

ASSUME KindsAssumption ==
    /\ Kinds \subseteq {"plain", "owner", "borrower", "child", "review"}
    /\ None \notin Evidence

VARIABLES
    kind,         \* the launch: no authority, a lease with its ticket slot, a borrower of
                  \* a primary checkout, a parented implement, a protected review
    launcher,     \* where the launcher is
    seen,         \* what the ownership file said when the launcher last read it
    verified,     \* terminateRunner saw the runner's group gone, or none was started
    pid,          \* the registry has the child's pid
    config,       \* the configuration file exists
    handoff,      \* the protected hand-off file exists
    ownership,    \* the supervisor's ownership file
    runner,       \* where the runner is
    termed,       \* its shutdown controller is aborted
    moved,        \* what it took over: repositoryLease/Borrower/TicketSlotTransferred, reviewReservation
    sealed,       \* matrixExecutionTerminated
    cleaned,      \* reviewExecutionTerminated: the child is known to be gone
    normal,       \* normalExecutionExit is defined
    result,       \* how the Pi process ended
    trouble,      \* authorityFailure, or the finally block itself threw
    child,        \* the Pi child: "none", "alive" or "gone"
    custody,      \* whose fingerprint the lease or borrower, and the slot, record
    reservation,  \* a review reservation is on disk
    row,          \* the terminal rows, a failure before a success; partial is a failure
    observer      \* where status --wait is

launcherVars == <<launcher, seen, verified, pid>>
locals == <<termed, moved, sealed, cleaned, normal, result, trouble>>
files == <<config, handoff, ownership>>
repository == <<custody, reservation>>
vars == <<kind, launcherVars, files, runner, locals, child, repository, row, observer>>

Things == {"source", "slot"}

\* What the launcher holds when it starts the runtime.
Held(k) == IF k = "owner" THEN Things ELSE IF k \in {"borrower", "child"} THEN {"source"} ELSE {}

\* The runner's ownership().  "ready" follows from the state: it is true in the
\* last four of its states except "failed", where nobody reads it.
Publishes(s) == ownership' = [state |-> s, child |-> child # "none" \/ runner = "spawn"]

\* reconcileTerminalRegistryEvent: a failure replaces a success and stays;
\* reconcileTerminalRegistryEventIfAbsent.
ReconciledEvent(r) == IF r = "failed" THEN "crashed" ELSE r
Reconciled(r) == IF row = "failed" THEN "failed" ELSE r
IfAbsent(r) == IF row = "none" THEN r ELSE row

Init ==
    /\ kind \in Kinds
    /\ launcher = "write" /\ seen = None /\ verified = TRUE /\ pid = FALSE
    /\ config = FALSE /\ handoff = FALSE /\ ownership = None
    /\ runner = "absent" /\ termed = FALSE /\ moved = {} /\ sealed = TRUE /\ cleaned = TRUE
    /\ normal = FALSE /\ result = "none" /\ trouble = "none"
    /\ child = "none"
    /\ custody = [x \in Things |-> IF x \in Held(kind) THEN "launcher" ELSE "none"]
    /\ reservation = (kind = "review")
    /\ row = "none" /\ observer = "poll"

-----------------------------------------------------------------------------
(* The launcher.                                                           *)

RunnerLives == runner \notin {"absent", "ended", "dead"}

\* The hand-off, then the configuration; what was written is removed when
\* one of them cannot be.
Write ==
    /\ launcher = "write"
    /\ \/ config' = TRUE /\ handoff' = (kind # "plain") /\ launcher' = "spawn"
       \/ launcher' = "source" /\ UNCHANGED <<config, handoff>>
    /\ UNCHANGED <<kind, seen, verified, pid, ownership, runner, locals, child, repository, row, observer>>

\* launch() starts a detached process, or throws, or the process errors later
\* and exposes no pid: then nothing can be verified.
Spawn ==
    /\ launcher = "spawn"
    /\ \/ runner' = "boot" /\ launcher' = "poll" /\ UNCHANGED <<verified, config, handoff>>
       \/ /\ config' = FALSE /\ handoff' = FALSE /\ launcher' = "source"
          /\ UNCHANGED <<verified, runner>>
       \/ verified' = FALSE /\ launcher' = "clean" /\ UNCHANGED <<runner, config, handoff>>
    /\ UNCHANGED <<kind, seen, pid, ownership, locals, child, repository, row, observer>>

\* The evidence read last is ready, and the hand-off, looked up anew, is consumed.
ReadyEarly == seen # None /\ ~handoff
Ready ==
    /\ seen # None
    /\ seen.state \in {"active", "finalizing", "finalized"}
    /\ ~handoff

Poll ==
    /\ launcher = "poll" /\ ~Ready
    /\ ownership # None
    /\ seen' = ownership
    /\ UNCHANGED <<kind, launcher, verified, pid, files, runner, locals, child, repository, row, observer>>

\* The launch is pending: publishPid, acceptRepositoryAuthorityHandoff.
Accept ==
    /\ launcher = "poll" /\ Ready
    /\ launcher' = "pending"
    /\ pid' = seen.child
    /\ UNCHANGED <<kind, seen, verified, files, runner, locals, child, repository, row, observer>>

\* SIGTERM ends a runner that has no handler yet or no longer; otherwise its
\* handler aborts the shutdown controller.
Unhandled == runner \in {"boot", "reservation back", "source back", "slot back", "unsettled", "retract", "marker"}

\* The deadline passed, or the evidence says "failed": terminateRunner starts.
GiveUp ==
    /\ launcher = "poll" /\ ~Ready
    /\ launcher' = "terminate"
    /\ runner' = IF Unhandled THEN "dead" ELSE runner
    /\ termed' = (termed \/ (RunnerLives /\ ~Unhandled))
    /\ UNCHANGED <<kind, seen, verified, pid, files, moved, sealed, cleaned, normal, result, trouble,
                   child, repository, row, observer>>

\* SIGKILL after TERM_GRACE.  It reaches the runner's group, not the child's.
Kill ==
    /\ launcher = "terminate" /\ RunnerLives
    /\ runner' = "dead"
    /\ UNCHANGED <<kind, launcherVars, files, locals, child, repository, row, observer>>

\* The group is gone, or the deadline passes with the runner alive.
TerminatedUnverified ==
    /\ launcher = "terminate"
    /\ launcher' = "clean"
    /\ UNCHANGED <<kind, seen, verified, pid, files, runner, locals, child, repository, row, observer>>
Terminated ==
    /\ launcher = "terminate"
    /\ launcher' = "clean"
    /\ verified' = ~RunnerLives
    /\ UNCHANGED <<kind, seen, pid, files, runner, locals, child, repository, row, observer>>

Clean ==
    /\ launcher = "clean"
    /\ launcher' = "source"
    /\ config' = FALSE /\ handoff' = FALSE
    /\ UNCHANGED <<kind, seen, verified, pid, ownership, runner, locals, child, repository, row, observer>>

\* writeTerminal and finalizeActiveRepositoryAuthority(false).  The lease is
\* released by its token; a borrower only by the process it names; a parented
\* child only with proof of its exit, which this launcher does not have, after
\* its row was reconciled.  Each may be refused.
GiveUpSource ==
    /\ launcher = "source"
    /\ launcher' = "slot"
    /\ \/ UNCHANGED custody
       \/ /\ kind = "owner" \/ (kind = "borrower" /\ custody["source"] = "launcher")
          /\ custody' = [custody EXCEPT !["source"] = "none"]
    /\ row' = IF kind = "child" THEN Reconciled("failed") ELSE row
    /\ UNCHANGED <<kind, seen, verified, pid, files, runner, locals, child, reservation, observer>>

\* The slot goes only after the checkout's own custody.
GiveUpSlot ==
    /\ launcher = "slot"
    /\ launcher' = "row"
    /\ \/ UNCHANGED custody
       \/ custody["source"] = "none" /\ custody' = [custody EXCEPT !["slot"] = "none"]
    /\ UNCHANGED <<kind, seen, verified, pid, files, runner, locals, child, reservation, row, observer>>

GiveUpRow ==
    /\ launcher = "row"
    /\ launcher' = "reservation"
    /\ row' = Reconciled("failed")
    /\ UNCHANGED <<kind, seen, verified, pid, files, runner, locals, child, repository, observer>>

\* finalizePiReviewCandidate, when the runtime is known to have ended.
GiveUpReservation ==
    /\ launcher = "reservation"
    /\ launcher' = "failed"
    /\ reservation' = (reservation /\ ~verified)
    /\ UNCHANGED <<kind, seen, verified, pid, files, runner, locals, child, custody, row, observer>>

LauncherStep ==
    \/ Write \/ Spawn \/ Poll \/ Accept \/ GiveUp \/ Kill \/ Terminated \/ Clean
    \/ GiveUpSource \/ GiveUpSlot \/ GiveUpRow \/ GiveUpReservation

LauncherDies ==
    /\ launcher \notin {"pending", "failed", "gone"}
    /\ launcher' = "gone"
    /\ UNCHANGED <<kind, seen, verified, pid, files, runner, locals, child, repository, row, observer>>

-----------------------------------------------------------------------------
(* The runner.                                                             *)

\* A step of the runner alone, from where it is to where it goes.
From(here) ==
    /\ runner = here
    /\ UNCHANGED <<kind, launcherVars, observer>>

\* The entry point reads the configuration and removes it, then the handlers are installed.
Boot ==
    /\ From("boot")
    /\ runner' = IF config THEN "start" ELSE "dead"
    /\ config' = FALSE
    /\ UNCHANGED <<handoff, ownership, locals, child, repository, row>>

Start ==
    /\ From("start")
    /\ Publishes("starting")
    /\ runner' = IF kind = "plain" THEN "spawn" ELSE IF kind = "review" THEN "matrix" ELSE "read"
    /\ UNCHANGED <<config, handoff, locals, child, repository, row>>

\* The hand-off is removed whether or not it is accepted.
Read ==
    /\ From("read")
    /\ \/ handoff /\ runner' = "transfer"
       \/ runner' = "catch"
    /\ handoff' = FALSE
    /\ UNCHANGED <<config, ownership, locals, child, repository, row>>

TakeOverUnmarked(x) ==
    /\ custody[x] # "none"
    /\ custody' = [custody EXCEPT ![x] = "runner"]
    /\ UNCHANGED <<files, locals, child, reservation, row>>
TakeOver(x) ==
    /\ custody[x] # "none"
    /\ custody' = [custody EXCEPT ![x] = "runner"]
    /\ moved' = moved \union {x}
    /\ UNCHANGED <<files, termed, sealed, cleaned, normal, result, trouble, child, reservation, row>>

TransferSource ==
    /\ From("transfer")
    /\ TakeOver("source")
    /\ runner' = IF kind = "owner" THEN "slot" ELSE "spawn"

TransferSlot ==
    /\ From("slot")
    /\ TakeOver("slot")
    /\ runner' = "spawn"

\* A review: the reserved candidate is read and the hand-off removed.
ReadReview ==
    /\ From("matrix")
    /\ \/ handoff /\ moved' = moved \union {"reservation"} /\ runner' = "admit"
       \/ moved' \in {moved, moved \union {"reservation"}} /\ runner' = "catch"
    /\ handoff' = FALSE
    /\ UNCHANGED <<config, ownership, termed, sealed, cleaned, normal, result, trouble, child, repository, row>>

\* Readiness acknowledges the admitted matrix; the reviewer starts after it.
AdmitMatrix ==
    /\ From("admit")
    /\ sealed' = FALSE
    /\ Publishes("active")
    /\ runner' = "checks"
    /\ UNCHANGED <<config, handoff, termed, moved, cleaned, normal, result, trouble, child, repository, row>>

\* The matrix ends: its termination is verified and the reviewer starts, or it
\* is rejected, or the runner learns nothing of its processes.
EndMatrix ==
    /\ From("checks")
    /\ \/ sealed' = TRUE /\ runner' \in {"spawn", "catch"}
       \/ sealed' = FALSE /\ runner' = "catch"
    /\ UNCHANGED <<files, termed, moved, cleaned, normal, result, trouble, child, repository, row>>

\* onSpawn publishes the child, or cannot and the child is terminated at once.
SpawnChild ==
    /\ From("spawn")
    /\ child' = "alive" /\ cleaned' = FALSE
    /\ \/ Publishes("active") /\ runner' = "run"
       \/ runner' = "cleanup" /\ UNCHANGED ownership
    /\ UNCHANGED <<config, handoff, termed, moved, sealed, normal, result, trouble, repository, row>>

SpawnFails ==
    /\ From("spawn")
    /\ cleaned' \in BOOLEAN
    /\ runner' = "catch"
    /\ UNCHANGED <<files, termed, moved, sealed, normal, result, trouble, child, repository, row>>

\* close: the child's own outcome, and a normal exit unless a shutdown began.
Closed ==
    /\ From("run")
    /\ child = "gone"
    /\ result' \in {"success", "failed"}
    /\ cleaned' = TRUE /\ normal' = ~termed
    /\ runner' = "closed"
    /\ UNCHANGED <<files, termed, moved, sealed, trouble, child, repository, row>>

\* requestCleanup: the timeout, a shutdown, a line that could not be persisted.
Interrupt ==
    /\ From("run")
    /\ runner' = "cleanup"
    /\ UNCHANGED <<files, locals, child, repository, row>>

\* The child's group is gone, or PROCESS_TREE_TIMEOUT passes.
CleanedUp ==
    /\ From("cleanup")
    /\ result' = "failed" /\ cleaned' = (child = "gone")
    /\ runner' = "closed"
    /\ UNCHANGED <<files, termed, moved, sealed, normal, trouble, child, repository, row>>

Finalizing ==
    /\ From("closed")
    /\ Publishes("finalizing")
    /\ runner' = "finalizing"
    /\ UNCHANGED <<config, handoff, locals, child, repository, row>>

\* finalizeRunnerResult, after the checkout's identity and head were read.
Record ==
    /\ From("finalizing")
    /\ row' = Reconciled(result)
    /\ runner' = "recorded"
    /\ UNCHANGED <<files, locals, child, repository>>

Finalized ==
    /\ From("recorded")
    /\ Publishes("finalized")
    /\ runner' = "reservation back"
    /\ UNCHANGED <<config, handoff, locals, child, repository, row>>

\* A check, a transfer, a write or a read of the try block throws.
Throws ==
    /\ runner \in {"start", "transfer", "slot", "admit", "checks", "closed", "finalizing", "recorded"}
    /\ UNCHANGED <<kind, launcherVars, observer>>
    /\ runner' = IF runner = "recorded" THEN "catch finalized" ELSE "catch"
    /\ UNCHANGED <<files, locals, child, repository, row>>

\* catch: the row, then the evidence, which says "finalized" (finalState) when only
\* that publication had failed; "failed" alone when the registry cannot be written.
Catch ==
    /\ runner \in {"catch", "catch finalized"}
    /\ UNCHANGED <<kind, launcherVars, observer>>
    /\ \/ row' = Reconciled("failed") /\ runner' = IF runner = "catch" THEN "report" ELSE "report finalized"
       \/ row' = row /\ runner' = "report"
    /\ UNCHANGED <<files, locals, child, repository>>

\* A publication that fails again is dropped.
Report ==
    /\ runner \in {"report", "report finalized"}
    /\ UNCHANGED <<kind, launcherVars, observer>>
    /\ \/ Publishes(IF runner = "report" THEN "failed" ELSE "finalized")
       \/ UNCHANGED ownership
    /\ runner' = "reservation back"
    /\ UNCHANGED <<config, handoff, locals, child, repository, row>>

\* finally: the matrix and the reviewer are over; finalizePiReviewCandidate wants
\* a terminal row, and may fail.
ReviewOver == "reservation" \in moved /\ sealed /\ cleaned
ReservationBack ==
    /\ From("reservation back")
    /\ \/ ReviewOver /\ row # "none" /\ reservation' = FALSE /\ UNCHANGED trouble
       \/ ReviewOver /\ trouble' = "authority" /\ UNCHANGED reservation
       \/ ~ReviewOver /\ UNCHANGED <<reservation, trouble>>
    /\ runner' = "source back"
    /\ UNCHANGED <<files, termed, moved, sealed, cleaned, normal, result, child, custody, row>>

\* reconcilePiTerminalChild wants a normal exit and a terminal row; a finalized
\* borrower that left its scope is reported although it is gone.
MayReturn == kind = "child" => normal /\ row # "none"
SourceBack ==
    /\ From("source back")
    /\ \/ "source" \notin moved /\ UNCHANGED <<custody, trouble>>
       \/ /\ "source" \in moved /\ MayReturn
          /\ custody' = [custody EXCEPT !["source"] = "none"]
          /\ trouble' \in {trouble, IF kind = "borrower" THEN "authority" ELSE trouble}
       \/ "source" \in moved /\ trouble' = "authority" /\ UNCHANGED custody
    /\ runner' = "slot back"
    /\ UNCHANGED <<files, termed, moved, sealed, cleaned, normal, result, child, reservation, row>>

SlotBack ==
    /\ From("slot back")
    /\ \/ "slot" \notin moved /\ UNCHANGED <<custody, trouble>>
       \/ /\ "slot" \in moved /\ custody["source"] = "none"
          /\ custody' = [custody EXCEPT !["slot"] = "none"]
          /\ UNCHANGED trouble
       \/ "slot" \in moved /\ trouble' = "authority" /\ UNCHANGED custody
    /\ runner' = IF trouble' = "authority" THEN "unsettled" ELSE "marker"
    /\ UNCHANGED <<files, termed, moved, sealed, cleaned, normal, result, child, reservation, row>>

\* finalizeRunnerFailure, but a parented child keeps its outcome.
Unsettled ==
    /\ From("unsettled")
    /\ row' = IF kind = "child" THEN row ELSE Reconciled("failed")
    /\ runner' = "retract"
    /\ UNCHANGED <<files, locals, child, repository>>

Retract ==
    /\ From("retract")
    /\ Publishes("failed")
    /\ runner' = "marker"
    /\ UNCHANGED <<config, handoff, locals, child, repository, row>>

\* Giving back throws: a mutex, Git, the registry, or the evidence's file.
FinallyThrows ==
    /\ runner \in {"source back", "slot back", "unsettled", "retract"}
    /\ UNCHANGED <<kind, launcherVars, observer>>
    /\ trouble' = "thrown"
    /\ runner' = "marker"
    /\ UNCHANGED <<files, termed, moved, sealed, cleaned, normal, result, child, repository, row>>

\* ensureTerminalRegistryMarker.
Marker ==
    /\ From("marker")
    /\ row' = IfAbsent("failed")
    /\ runner' = "ended"
    /\ UNCHANGED <<files, locals, child, repository>>

RunnerStep ==
    \/ Boot \/ Start \/ Read \/ TransferSource \/ TransferSlot
    \/ ReadReview \/ AdmitMatrix \/ EndMatrix \/ SpawnChild \/ SpawnFails
    \/ Closed \/ Interrupt \/ CleanedUp \/ Finalizing \/ Record \/ Finalized
    \/ Throws \/ Catch \/ Report
    \/ ReservationBack \/ SourceBack \/ SlotBack \/ Unsettled \/ Retract \/ FinallyThrows \/ Marker

RunnerDies ==
    /\ RunnerLives
    /\ runner' = "dead"
    /\ UNCHANGED <<kind, launcherVars, files, locals, child, repository, row, observer>>

-----------------------------------------------------------------------------
(* The child and the operator.                                             *)

\* By itself, or by a signal of whoever cleans up.
ChildExits ==
    /\ child = "alive"
    /\ child' = "gone"
    /\ UNCHANGED <<kind, launcherVars, files, runner, locals, repository, row, observer>>

\* The agent reports its own completion.
ChildReports ==
    /\ child = "alive"
    /\ row' \in {Reconciled("success"), "failed"}
    /\ UNCHANGED <<kind, launcherVars, files, runner, locals, child, repository, observer>>

Observes(here, there) ==
    /\ observer = here /\ observer' = there
    /\ UNCHANGED <<kind, launcherVars, files, runner, locals, repository>>

Owned == ownership # None /\ ownership.state \in {"active", "finalizing"}

\* The status is terminal, or running and the evidence names a supervisor to look at.
SeeRow == row # "none" /\ Observes("poll", "done") /\ UNCHANGED <<child, row>>
SeeOwner == row = "none" /\ Owned /\ Observes("poll", "suspect") /\ UNCHANGED <<child, row>>

\* The supervisor is alive; or it is not, and status and evidence are read again.
OwnerLives == RunnerLives /\ Observes("suspect", "poll") /\ UNCHANGED <<child, row>>
OwnerDead == ~RunnerLives /\ Observes("suspect", "recheck") /\ UNCHANGED <<child, row>>
Recheck ==
    /\ Observes("recheck", IF row # "none" THEN "done" ELSE IF Owned THEN "orphan" ELSE "poll")
    /\ UNCHANGED <<child, row>>

\* terminateOrphanProcess ends the child or gives up.
Orphan ==
    /\ Observes("orphan", "crash")
    /\ child' \in {child, IF child = "alive" THEN "gone" ELSE child}
    /\ UNCHANGED row

\* The recorded child is gone, and nobody alive owns the finalization or it takes too long.
StalePid ==
    /\ row = "none" /\ pid /\ child # "alive"
    /\ Observes("poll", "crash")
    /\ UNCHANGED <<child, row>>

Crash ==
    /\ Observes("crash", "done")
    /\ row' = IfAbsent("failed")
    /\ UNCHANGED child

ObserverStep == SeeRow \/ SeeOwner \/ OwnerLives \/ OwnerDead \/ Recheck \/ Orphan \/ StalePid \/ Crash

Next == LauncherStep \/ LauncherDies \/ RunnerStep \/ RunnerDies \/ ChildExits \/ ChildReports \/ ObserverStep

Spec == Init /\ [][Next]_vars

\* A living launcher and runner go on: every wait of theirs has a deadline.  The
\* operator waits until there is a row.  Nothing is assumed of the child.
FairSpec == Spec /\ WF_vars(LauncherStep) /\ WF_vars(RunnerStep) /\ WF_vars(ObserverStep)

-----------------------------------------------------------------------------
(* Properties.                                                             *)

Stages == {"absent", "boot", "start", "read", "transfer", "slot", "matrix", "admit", "checks", "spawn",
           "run", "cleanup", "closed", "finalizing", "recorded", "catch", "catch finalized", "report",
           "report finalized", "reservation back", "source back", "slot back", "unsettled", "retract", "marker", "ended", "dead"}

LauncherOK ==
    /\ launcher \in {"write", "spawn", "poll", "pending", "terminate", "clean", "source", "slot", "row",
                     "reservation", "failed", "gone"}
    /\ seen \in Evidence \union {None} /\ verified \in BOOLEAN /\ pid \in BOOLEAN

FilesOK == config \in BOOLEAN /\ handoff \in BOOLEAN /\ ownership \in Evidence \union {None}

LocalsOK ==
    /\ termed \in BOOLEAN /\ sealed \in BOOLEAN /\ cleaned \in BOOLEAN /\ normal \in BOOLEAN
    /\ moved \subseteq Things \union {"reservation"}
    /\ result \in {"none", "success", "failed"} /\ trouble \in {"none", "authority", "thrown"}

OnRecordOK ==
    /\ custody \in [Things -> {"launcher", "runner", "none"}] /\ reservation \in BOOLEAN
    /\ row \in {"none", "success", "failed"}

OthersOK ==
    /\ kind \in Kinds /\ child \in {"none", "alive", "gone"}
    /\ observer \in {"poll", "suspect", "recheck", "orphan", "crash", "done"}

TypeOK == LauncherOK /\ FilesOK /\ runner \in Stages /\ LocalsOK /\ OnRecordOK /\ OthersOK

\* The launcher settles a launch (from "source" to "failed").
Settling == launcher \in {"source", "slot", "row", "reservation", "failed"}

\* Launcher and runner never settle the same launch: when the launcher gives back what
\* it held and saw the runner's group gone, no runner is left to do it too.
OneSettler == Settling /\ verified => ~RunnerLives

\* The runner has returned its lease or borrower, or died.
GivenBack == {"slot back", "unsettled", "retract", "marker", "ended", "dead"}

\* While Pi works, the checkout it works in stays taken.  The exceptions are the code's
\* own: a runner whose cleanup missed its deadline, and a launcher that gave up on a
\* runner and does not know of its child; a parented implement has no exception.
AuthorityOutlivesAgent ==
    child = "alive" /\ kind \in {"owner", "borrower", "child"} =>
        \/ custody["source"] = "runner"
        \/ kind = "owner" /\ launcher \notin {"write", "spawn", "poll", "pending"}
        \/ kind # "child" /\ result = "failed" /\ runner \in GivenBack

\* A candidate under review stays reserved until its reviewer is gone and its outcome is
\* on record, unless the launcher gave up on the runner.
ReservedUntilReviewed ==
    kind = "review" /\ ~reservation => row # "none" /\ (child # "alive" \/ launcher = "failed")

\* A launch the launcher reported as failed is recorded as failed, whatever a runner
\* that survived it, its child or an operator report afterwards.
FailedLaunchStays == launcher = "failed" => row = "failed"

\* Ownership evidence says "finalized" only of a deployment that has its row.
FinalizedIsRecorded == ownership # None /\ ownership.state = "finalized" => row # "none"

\* A runner that ended gave back all it took over, or the deployment is recorded as
\* failed; a parented child keeps its outcome, and its borrower stays as the proof.
EndedReturnsOrFails ==
    runner = "ended" /\ kind # "child" /\ trouble # "thrown" =>
        \/ row = "failed"
        \/ \A x \in Things : custody[x] # "runner"

\* Launcher, runner and agent never work against each other: one of them settles,
\* the checkout and the candidate stay taken while the agent works, a reported
\* failure stays, and nothing is kept silently (adapter.ts, background-runner.ts).
LaunchSafe ==
    /\ OneSettler /\ AuthorityOutlivesAgent /\ ReservedUntilReviewed
    /\ FailedLaunchStays /\ EndedReturnsOrFails

\* What the launch promises its caller, see LaunchCustody.
Reported == IF launcher \in {"pending", "failed"} THEN launcher ELSE "open"
Custody == INSTANCE LaunchCustody WITH report <- Reported
KeepsCustody == Custody!Spec

\* A deployment reported as pending gets a terminal row, even when its runner is killed.
\* Not covered: the registry refuses the runner's failure, and the runner is killed
\* before its last attempt; its evidence then says "failed" and nobody looks further.
PendingIsRecorded ==
    launcher = "pending" ~>
        row # "none" \/ (runner = "dead" /\ ownership # None /\ ownership.state = "failed")

\* A builder's runner that is not killed returns lease and slot, or says why it cannot.
OwnerReturns ==
    launcher = "pending" /\ kind = "owner" ~>
        \/ custody = [x \in Things |-> "none"]
        \/ runner = "dead"
        \/ trouble # "none"

\* A pending deployment is recorded at last, and its builder's custody comes back.
LaunchEnds == PendingIsRecorded /\ OwnerReturns
=============================================================================
