------------------------ MODULE RepositoryAdmission ------------------------
(***************************************************************************)
(* Ownership of ONE execution worktree, as kept by                         *)
(* packages/pa-core/src/deploy/repository-admission.ts: the evidence files *)
(* in the worktree's physical Git directory and the operations that create,*)
(* move and remove them.                                                   *)
(*                                                                         *)
(* Every operation runs under one crash-releasing flock                    *)
(* (withMutationMutex), so an operation is one action.  Where an operation *)
(* writes several files, the process may die after a prefix of the writes: *)
(* the ...Interrupted actions are those prefixes.  The settlement of a     *)
(* child, resumed from its record, has an action for each effect and for   *)
(* each record instead.  Git is not covered by the mutex: agents and people*)
(* change it at any time.                                                  *)
(*                                                                         *)
(* A file is absent, live (its recorded process runs) or not live: that    *)
(* process is gone, or the publisher died between link and unlink.  Every  *)
(* operation treats the two kinds of evidence that is not live alike.      *)
(***************************************************************************)
EXTENDS Integers, FiniteSets

CONSTANTS
    Orchestrators,  \* Pi builder/orchestrator deployments
    Implementers,   \* Pi builder deployments of every other mode
    OpenCode,       \* OpenCode builder deployments (primary root only)
    Reviewers,      \* protected requirements/review-auto deployments
    Foreground,     \* the deployments launched in the foreground
    Linked,         \* TRUE: a linked worktree; FALSE: the primary root
    MaxHead,        \* bound on the commits made
    MaxReceipts,    \* bound on the dirty-borrow approvals published
    None            \* absent evidence

Builders == Orchestrators \cup Implementers \cup OpenCode
Deployments == Builders \cup Reviewers
Slots == {"orchestrator", "implement"}
Procs == Deployments \X {"launcher", "runner"}

\* A Git snapshot is told apart by branch, HEAD and cleanliness.
Snap == [branch : {"develop", "feature"}, head : 0..MaxHead, dirty : BOOLEAN]

\* RepositoryMutationLease.  token: ownershipToken, named by the deployment
\* that acquired it; dep, fp: the current owner and its process fingerprint;
\* pre, auth: launch and authority snapshots; moved: branchTransitioned;
\* busy: directExecutionCustody = "active"; op: the advisory operation's caller.
Lease == [token : Builders, dep : Builders, fp : Procs, pre : Snap, auth : Snap,
          moved : BOOLEAN, busy : BOOLEAN, op : Procs \cup {None}]

\* RepositoryMutationBorrower.  pfp: parentProcessFingerprint; receipt: the id
\* of the approval receipt it was admitted with, or 0; fin: finalization.
Borrower == [dep : Implementers, parent : Orchestrators, fp : Procs, pfp : Procs,
             launch : Snap, receipt : 0..MaxReceipts,
             fin : {"no", "finalizing", "finalized"}]

\* The dirty-borrow receipt in its parent's deployment directory.  bound: the
\* evidence identity it names is still that of the parent's lease file.
Approval == [id : 1..MaxReceipts, bound : BOOLEAN, snap : Snap]

\* The read-only review reservation; started: the reviewer has been launched.
Review == [dep : Reviewers, snap : Snap, started : BOOLEAN]

\* The durable settlement record: the intent (borrower, parent lease, final
\* snapshot, whether the final state is within the approved scope) and stage.
Settlement == [borrower : Borrower, parent : Lease, final : Snap,
               inScope : BOOLEAN, stage : {"intent", "lease", "published", "cleanup"}]

ASSUME RolesAssumption ==
    /\ Linked \in BOOLEAN
    /\ MaxHead \in Nat /\ MaxReceipts \in Nat
    /\ Orchestrators \cap Implementers = {} /\ Orchestrators \cap OpenCode = {}
    /\ Implementers \cap OpenCode = {} /\ Builders \cap Reviewers = {}
    /\ Linked => OpenCode = {}
    /\ ~Linked => Reviewers = {}

ASSUME NoneAssumption ==
    /\ None \notin Procs /\ None \notin Lease /\ None \notin Borrower
    /\ None \notin Approval /\ None \notin Review /\ None \notin Settlement

VARIABLES
    proc,        \* process table: [Procs -> {"unborn", "alive", "dead"}]
    reg,         \* deployment status in the registry
    git,         \* the worktree's current Git state
    lease,       \* the lease file of each slot
    borrower,    \* the borrower file
    review,      \* the review reservation file
    approval,    \* the dirty-borrow receipt of each orchestrator
    settlement,  \* the active child-settlement file
    phase,       \* launch progress of each deployment
    ledger       \* receipts issued, and dirty admissions made with one

files == <<lease, borrower, review, approval, settlement>>
vars == <<proc, reg, git, files, phase, ledger>>

-----------------------------------------------------------------------------
(* What the operations observe.                                            *)

\* The fingerprint (pid, start time, boot id) names a process that runs now.
Alive(p) == proc[p] = "alive"

\* The processes of deployment d that are running.
Running(d) == {p \in {<<d, "launcher">>, <<d, "runner">>} : Alive(p)}

\* A launcher whose supervisor runs has handed its authority over, or kills
\* the supervisor before it cleans up: one process of d acts at a time.
InCharge(d) == IF Alive(<<d, "runner">>) THEN {<<d, "runner">>} ELSE Running(d)

\* The slot a deployment's mode selects; the primary root has one lease file.
SlotOf(d) == IF Linked /\ d \in Implementers THEN "implement" ELSE "orchestrator"

Owner == lease["orchestrator"]

LeaseLive(s) == lease[s] # None /\ Alive(lease[s].fp)
BorrowerLive == borrower # None /\ Alive(borrower.fp)

\* settlementPending: every token-authenticated operation refuses.
SettlementPending == settlement # None

\* Mutant: direct custody overlaps a registered child.
NoOverlapButChild == review = None /\ lease["implement"] = None

\* Mutant: direct custody beside a review.
NoOverlapButReview == borrower = None /\ lease["implement"] = None

\* The files other than the orchestrator lease that bar direct custody.
NoOverlap == borrower = None /\ review = None /\ lease["implement"] = None

\* A live lease of a registry-running Pi orchestrator.
LiveParent(o) == LeaseLive("orchestrator") /\ Owner.dep = o /\ o \in Orchestrators
                    /\ reg[o] = "running"

\* Does x hold the ownership token of the lease in slot s?
HoldsToken(x, s) == lease[s] # None /\ x \in {lease[s].token, lease[s].dep}

\* Replacing lease bytes breaks the identity a receipt of its owner names.
Unbound(d) == [o \in Orchestrators |->
    IF o = d /\ approval[o] # None THEN [approval[o] EXCEPT !.bound = FALSE] ELSE approval[o]]

\* The child's own receipt is unlinked from the directory of orchestrator d; a
\* later one is preserved.  It left the disk when it was used (ReceiptsUsedOnce).
Discard(receipts, d, child) == [o \in Orchestrators |->
    IF o = d /\ receipts[o] # None /\ receipts[o].id = child.receipt THEN None ELSE receipts[o]]

ReplaceLease(s, new) ==
    /\ lease' = [lease EXCEPT ![s] = new]
    /\ approval' = Unbound(lease[s].dep)

-----------------------------------------------------------------------------
Init ==
    /\ proc = [p \in Procs |-> "unborn"]
    /\ reg = [d \in Deployments |-> "none"]
    /\ git = [branch |-> IF Linked THEN "feature" ELSE "develop", head |-> 0, dirty |-> FALSE]
    /\ lease = [s \in Slots |-> None]
    /\ borrower = None /\ review = None /\ settlement = None
    /\ approval = [o \in Orchestrators |-> None]
    /\ phase = [d \in Deployments |-> "new"]
    /\ ledger = [issued |-> 0, used |-> 0]

(* The world around the evidence: processes, registry status and Git.      *)

\* A launcher emits the started event before it asks for admission.
Start(d) ==
    /\ reg[d] = "none"
    /\ reg' = [reg EXCEPT ![d] = "running"]
    /\ proc' = [proc EXCEPT ![<<d, "launcher">>] = "alive"]
    /\ UNCHANGED <<git, files, phase, ledger>>

\* The launcher starts the runtime: in place in the foreground, under a
\* supervisor of its own (the runner) in the background.
Launch(d) ==
    /\ Alive(<<d, "launcher">>) /\ phase[d] = "admitted"
    /\ phase' = [phase EXCEPT ![d] = "launched"]
    /\ proc' = IF d \in Foreground THEN proc ELSE [proc EXCEPT ![<<d, "runner">>] = "alive"]
    /\ UNCHANGED <<reg, git, files, ledger>>

\* A process exits or crashes; its fingerprint never comes back.
Die(p) ==
    /\ Alive(p)
    /\ proc' = [proc EXCEPT ![p] = "dead"]
    /\ UNCHANGED <<reg, git, files, phase, ledger>>

\* A terminal event reaches the registry, from a runner or a later sweep.
Terminate(d) ==
    /\ reg[d] = "running"
    /\ reg' = [reg EXCEPT ![d] = "terminal"]
    /\ UNCHANGED <<proc, git, files, phase, ledger>>

\* Agents and people commit, edit, clean and switch without the mutex.
GitChange ==
    /\ \/ git.head < MaxHead /\ git' = [git EXCEPT !.head = @ + 1, !.dirty = FALSE]
       \/ git' = [git EXCEPT !.dirty = ~@]
       \/ /\ ~Linked
          /\ \E b \in {"develop", "feature"} \ {git.branch} : git' = [git EXCEPT !.branch = b]
    /\ UNCHANGED <<proc, reg, files, phase, ledger>>

-----------------------------------------------------------------------------
(* Owner leases.                                                           *)

\* Mutant: force recovers stale evidence without asking whether a child runs.
AdmitsOwnerOverLiveChild(d, force) ==
    /\ ~SettlementPending /\ review = None
    /\ ~LeaseLive(SlotOf(d))
    /\ ~force => borrower = None

\* acquireRepositoryMutationLease: the checks, in force or not.
AdmitsOwner(d, force) ==
    LET s == SlotOf(d)
        pi == d \notin OpenCode
    IN  /\ ~SettlementPending
        /\ review = None
        /\ ~(d \notin Foreground /\ git.dirty /\ ~Linked)
        /\ ~LeaseLive(s) /\ ~BorrowerLive
        /\ (pi \/ ~force) => lease[s] = None /\ borrower = None
        /\ (pi /\ Linked) => \A t \in Slots : lease[t] = None

FreshLease(d) == [token |-> d, dep |-> d, fp |-> <<d, "launcher">>, pre |-> git, auth |-> git,
                  moved |-> FALSE, busy |-> FALSE, op |-> None]

AcquireLease(d, force) ==
    /\ Alive(<<d, "launcher">>) /\ reg[d] = "running" /\ phase[d] = "new"
    /\ AdmitsOwner(d, force)
    /\ lease' = [lease EXCEPT ![SlotOf(d)] = FreshLease(d)]
    /\ borrower' = None          \* a stale borrower is quarantined first
    /\ phase' = [phase EXCEPT ![d] = "admitted"]
    /\ UNCHANGED <<proc, reg, git, review, approval, settlement, ledger>>

\* A forced takeover dies after quarantining the borrower, or both files.
AcquireInterrupted(d) ==
    /\ Alive(<<d, "launcher">>) /\ reg[d] = "running" /\ phase[d] = "new"
    /\ AdmitsOwner(d, TRUE)
    /\ borrower' = None
    /\ lease' \in {lease, [lease EXCEPT ![SlotOf(d)] = None]}
    /\ <<lease', borrower'>> # <<lease, borrower>>
    /\ proc' = [proc EXCEPT ![<<d, "launcher">>] = "dead"]
    /\ UNCHANGED <<reg, git, review, approval, settlement, phase, ledger>>

\* updateRepositoryMutationLeaseGitSnapshot: the launcher's primer loop
\* persists the snapshot it observes, before the runtime starts.
UpdateSnapshot(d) ==
    LET s == SlotOf(d) IN
    /\ Alive(<<d, "launcher">>) /\ phase[d] = "admitted"
    /\ ~SettlementPending /\ lease[s] # None /\ lease[s].token = d
    /\ ReplaceLease(s, [lease[s] EXCEPT !.auth = git])
    /\ UNCHANGED <<proc, reg, git, borrower, review, settlement, phase, ledger>>

\* transferRepositoryMutationLease: the background runner takes its
\* launcher's lease, on the token alone.
TransferLease(d) ==
    LET s == SlotOf(d) IN
    /\ Alive(<<d, "runner">>)
    /\ ~SettlementPending /\ lease[s] # None /\ lease[s].token = d
    /\ ReplaceLease(s, [lease[s] EXCEPT !.fp = <<d, "runner">>])
    /\ UNCHANGED <<proc, reg, git, borrower, review, settlement, phase, ledger>>

\* releaseRepositoryMutationLease, alone or as the last step of
\* finalizeRepositoryMutationLease: token holders only, never past an
\* operation in flight and never past child evidence of any kind.
MayRelease(s) ==
    /\ ~SettlementPending
    /\ ~lease[s].busy /\ lease[s].op = None
    /\ (Linked /\ s = "implement") \/ borrower = None

ReleaseLease(x, s) ==
    /\ InCharge(x) # {} /\ HoldsToken(x, s) /\ MayRelease(s)
    /\ lease' = [lease EXCEPT ![s] = None]
    /\ approval' = [o \in Orchestrators |-> IF o = lease[s].dep THEN None ELSE approval[o]]
    /\ UNCHANGED <<proc, reg, git, borrower, review, settlement, phase, ledger>>

\* quarantineRepositoryMutationLease: stale OpenCode evidence, primary root.
QuarantineLease ==
    /\ ~Linked /\ ~SettlementPending
    /\ Owner # None /\ ~LeaseLive("orchestrator") /\ Owner.dep \in OpenCode
    /\ lease' = [lease EXCEPT !["orchestrator"] = None]
    /\ UNCHANGED <<proc, reg, git, borrower, review, approval, settlement, phase, ledger>>

-----------------------------------------------------------------------------
(* Dirty-borrow receipts.                                                  *)

\* publishRepositoryDirtyBorrowApproval, exclusive in the parent's directory.
PublishApproval(o) ==
    /\ ledger.issued < MaxReceipts
    /\ ~SettlementPending /\ LiveParent(o) /\ o \in Foreground
    /\ git.dirty /\ approval[o] = None
    /\ approval' = [approval EXCEPT ![o] =
            [id |-> ledger.issued + 1, bound |-> TRUE, snap |-> git]]
    /\ ledger' = [ledger EXCEPT !.issued = @ + 1]
    /\ UNCHANGED <<proc, reg, git, lease, borrower, review, settlement, phase>>

\* removeRepositoryDirtyBorrowApproval with the receipt's own id.
RemoveApproval(o) ==
    /\ ~SettlementPending /\ approval[o] # None /\ Running(o) # {}
    /\ approval' = [approval EXCEPT ![o] = None]
    /\ UNCHANGED <<proc, reg, git, lease, borrower, review, settlement, phase, ledger>>

-----------------------------------------------------------------------------
(* Borrowers.                                                              *)

\* Capability and lineage come from the parent's running agent: below its
\* launcher in the foreground, below the runner that took the lease otherwise.
InLineage(o) == phase[o] = "launched" /\ (o \notin Foreground => Owner.fp = <<o, "runner">>)

\* registerRepositoryMutationBorrower: what is checked before Git is read.
MayBorrow(c, o) ==
    /\ ~SettlementPending /\ review = None
    /\ LiveParent(o) /\ InLineage(o)
    /\ Alive(<<c, "launcher">>) /\ reg[c] = "running" /\ phase[c] = "new"
    /\ c \in Implementers \ Foreground

\* validateBranchTransition: one clean move from a synchronized develop
\* (HEAD 0) launch, in the primary root, under a foreground parent.
TransitionAllowed(o) ==
    /\ ~Linked /\ o \in Foreground /\ ~Owner.moved
    /\ Owner.pre = [branch |-> "develop", head |-> 0, dirty |-> FALSE]
    /\ ~git.dirty /\ git.branch = "feature"

\* The child asks for the ticket's branch; the parent's authority is elsewhere.
BranchChanged == Owner.auth.branch # "feature"

\* A dirty launch reaches the receipt: foreground parent, branch unchanged.
PresentsReceipt(o) == git.dirty /\ ~BranchChanged /\ o \in Foreground /\ approval[o] # None

ReceiptMatches(o) ==
    /\ approval[o].bound /\ approval[o].snap = git /\ git.branch = "feature"
    /\ git.head = Owner.auth.head

\* No implement owner and no other child occupies the execution slot.
SlotVacant == (Linked => lease["implement"] = None) /\ borrower = None

\* A clean child is admitted without a receipt.
ReceiptOf(o) == IF git.dirty THEN approval[o].id ELSE 0

\* Mutant: parent and child identities swapped in the record.
NewBorrowerSwapped(c, o) == [dep |-> o, parent |-> c, fp |-> <<c, "launcher">>, pfp |-> Owner.fp,
                             launch |-> git, receipt |-> ReceiptOf(o), fin |-> "no"]

NewBorrower(c, o) == [dep |-> c, parent |-> o, fp |-> <<c, "launcher">>, pfp |-> Owner.fp,
                      launch |-> git, receipt |-> ReceiptOf(o), fin |-> "no"]

\* Mutant: the receipt stays on disk after it was used.
ConsumeReceiptLater(o) == UNCHANGED approval

\* The exact-path receipt is unlinked before the remaining checks.
ConsumeReceipt(o) == approval' = [approval EXCEPT ![o] = None]

\* One of three ways in: a clean copy of the parent's authority, the branch
\* transition, or a matching receipt, which is consumed.
RegisterBorrower(c, o) ==
    /\ MayBorrow(c, o) /\ SlotVacant
    /\ \/ /\ ~git.dirty /\ ~BranchChanged /\ Owner.auth = git
          /\ UNCHANGED <<lease, approval, ledger>>
       \/ /\ BranchChanged /\ TransitionAllowed(o)
          /\ ReplaceLease("orchestrator", [Owner EXCEPT !.auth = git, !.moved = TRUE])
          /\ UNCHANGED ledger
       \/ /\ PresentsReceipt(o) /\ ReceiptMatches(o)
          /\ ConsumeReceipt(o)
          /\ ledger' = [ledger EXCEPT !.used = @ + 1]
          /\ UNCHANGED lease
    /\ borrower' = NewBorrower(c, o)
    /\ phase' = [phase EXCEPT ![c] = "admitted"]
    /\ UNCHANGED <<proc, reg, git, review, settlement>>

\* A presented receipt is consumed before the checks that then reject it.
RegisterRejected(c, o) ==
    /\ MayBorrow(c, o) /\ PresentsReceipt(o)
    /\ ~(ReceiptMatches(o) /\ SlotVacant)
    /\ ConsumeReceipt(o)
    /\ UNCHANGED <<proc, reg, git, lease, borrower, review, settlement, phase, ledger>>

\* The launcher dies before the borrower file is linked: the receipt is
\* consumed, or the parent's lease has been moved to the new branch.
RegisterInterrupted(c, o) ==
    /\ MayBorrow(c, o)
    /\ \/ /\ PresentsReceipt(o)
          /\ ConsumeReceipt(o)
          /\ UNCHANGED lease
       \/ /\ SlotVacant /\ BranchChanged /\ TransitionAllowed(o)
          /\ ReplaceLease("orchestrator", [Owner EXCEPT !.auth = git, !.moved = TRUE])
    /\ proc' = [proc EXCEPT ![<<c, "launcher">>] = "dead"]
    /\ UNCHANGED <<reg, git, borrower, review, settlement, phase, ledger>>

\* transferRepositoryMutationBorrower, by the child's background runner.
TransferBorrower(c) ==
    /\ Alive(<<c, "runner">>)
    /\ ~SettlementPending /\ borrower # None /\ borrower.dep = c
    /\ borrower' = [borrower EXCEPT !.fp = <<c, "runner">>]
    /\ UNCHANGED <<proc, reg, git, lease, review, approval, settlement, phase, ledger>>

\* releaseRepositoryMutationBorrower: the allocating process rolls back
\* before anything was spawned.
ReleaseBorrower(c) ==
    /\ Alive(<<c, "launcher">>) /\ phase[c] = "admitted"
    /\ ~SettlementPending /\ borrower # None /\ borrower.dep = c
    /\ borrower.fp = <<c, "launcher">>
    /\ borrower' = None
    /\ UNCHANGED <<proc, reg, git, lease, review, approval, settlement, phase, ledger>>

\* finalizeRepositoryMutationBorrower called by a process that is not the
\* recorded runner while that runner lives: blocking evidence is kept.
FinalizeUncertain(c) ==
    /\ ~SettlementPending /\ borrower # None /\ borrower.dep = c
    /\ BorrowerLive /\ \E p \in Running(c) : p # borrower.fp
    /\ borrower' = [borrower EXCEPT !.fin = "finalizing"]
    /\ UNCHANGED <<proc, reg, git, lease, review, approval, settlement, phase, ledger>>

\* The recorded runner finalizes itself on the branch it was launched on.
MayFinalize(c) ==
    /\ ~SettlementPending /\ borrower # None /\ borrower.dep = c
    /\ borrower.fp \in InCharge(c) /\ git.branch = borrower.launch.branch

ParentReplaced == Owner.dep # borrower.parent \/ Owner.fp # borrower.pfp
ParentServing == LeaseLive("orchestrator") /\ reg[Owner.dep] = "running"

\* advance: the child succeeded and stayed within its approved paths.
FinalizeBorrower(c, advance) ==
    /\ MayFinalize(c)
    /\ \/ /\ Owner = None
          /\ UNCHANGED <<lease, approval>>
       \/ /\ Owner # None /\ (ParentReplaced \/ (ParentServing /\ ~advance))
          /\ approval' = Discard(approval, Owner.dep, borrower)
          /\ UNCHANGED lease
       \/ /\ Owner # None /\ ~ParentReplaced /\ ParentServing /\ advance
          /\ Owner.auth.branch = git.branch
          /\ lease' = [lease EXCEPT !["orchestrator"] = [Owner EXCEPT !.auth = git]]
          /\ approval' = Discard(Unbound(Owner.dep), Owner.dep, borrower)
       \/ /\ Owner # None /\ ~ParentReplaced /\ ~ParentServing
          /\ lease' = [lease EXCEPT !["orchestrator"] = None]
          /\ approval' = Discard(approval, Owner.dep, borrower)
    /\ borrower' = None
    /\ UNCHANGED <<proc, reg, git, review, settlement, phase, ledger>>

\* Finalization stops after the borrower is marked finalized: the branch
\* check refuses, the registry refuses and the lease bytes are put back, or
\* the runner dies, perhaps after the lease write.
FinalizeInterrupted(c) ==
    /\ MayFinalize(c)
    /\ borrower' = [borrower EXCEPT !.fin = "finalized"]
    /\ \/ /\ Owner # None /\ ~ParentReplaced /\ ParentServing
          /\ Owner.auth.branch # git.branch
          /\ UNCHANGED <<proc, lease, approval>>
       \/ /\ Owner # None /\ ~ParentReplaced /\ ParentServing
          /\ Owner.auth.branch = git.branch
          /\ approval' = Unbound(Owner.dep)
          /\ UNCHANGED <<proc, lease>>
       \/ /\ proc' = [proc EXCEPT ![borrower.fp] = "dead"]
          /\ \/ UNCHANGED <<lease, approval>>
             \/ /\ Owner # None /\ ~ParentReplaced /\ ParentServing
                /\ Owner.auth.branch = git.branch
                /\ ReplaceLease("orchestrator", [Owner EXCEPT !.auth = git])
             \/ /\ Owner # None /\ ~ParentReplaced /\ ~ParentServing
                /\ lease' = [lease EXCEPT !["orchestrator"] = None]
                /\ UNCHANGED approval
    /\ UNCHANGED <<reg, git, review, settlement, phase, ledger>>

-----------------------------------------------------------------------------
(* Terminal child settlement: reconcileRepositoryTerminalChild.  The call  *)
(* is restarted from its durable record after any failure, so its effects  *)
(* and the records of its stages are separate actions: between an effect   *)
(* and its record the process may die, Git may move, the parent may end.   *)
(* The registry and ticket publications between "lease" and "published"    *)
(* touch none of these files.                                              *)

Advanced(st) == [st.parent EXCEPT !.auth = st.final]

\* The first call writes the intent: the child's terminal event is recorded,
\* its recorded runner is this caller or gone, and the parent still serves.
SettlementIntent(c, inScope) ==
    /\ Linked /\ ~SettlementPending
    /\ review = None /\ lease["implement"] = None
    /\ borrower # None /\ borrower.dep = c /\ reg[c] = "terminal"
    /\ InCharge(c) # {} /\ (BorrowerLive => borrower.fp \in InCharge(c))
    /\ LiveParent(borrower.parent) /\ Owner.fp = borrower.pfp
    /\ git.branch = borrower.launch.branch
    /\ Owner.auth.branch = borrower.launch.branch /\ Owner.auth.head = borrower.launch.head
    /\ settlement' = [borrower |-> borrower, parent |-> Owner, final |-> git,
                      inScope |-> inScope, stage |-> "intent"]
    /\ UNCHANGED <<proc, reg, git, lease, borrower, review, approval, phase, ledger>>

\* Re-authentication before every effect (assertGit): same Git state, same
\* borrower, and the parent's lease is the recorded one or its advance.
SettlementValid ==
    /\ SettlementPending /\ settlement.inScope
    /\ review = None /\ lease["implement"] = None
    /\ git = settlement.final
    /\ borrower \in {None, settlement.borrower}
    /\ Owner \in {settlement.parent, Advanced(settlement)}
    /\ LiveParent(settlement.parent.dep)

\* The parent's lease is advanced; a retry that finds it advanced writes nothing.
SettleLease ==
    /\ SettlementValid /\ settlement.stage = "intent"
    /\ ReplaceLease("orchestrator", Advanced(settlement))
    /\ UNCHANGED <<proc, reg, git, borrower, review, settlement, phase, ledger>>

\* progress: the stage is recorded.  The call that made the effect reads only
\* the effect back before it.
Record(stage, next) ==
    /\ SettlementPending /\ settlement.inScope /\ settlement.stage = stage
    /\ settlement' = [settlement EXCEPT !.stage = next]

\* The readback of the advanced lease, of which no receipt names the identity.
RecordLease ==
    /\ Record("intent", "lease")
    /\ Owner = Advanced(settlement) /\ approval = Unbound(Owner.dep)
    /\ UNCHANGED <<proc, reg, git, lease, borrower, review, approval, phase, ledger>>

SettlePublished ==
    /\ SettlementValid /\ Record("lease", "published")
    /\ Owner = Advanced(settlement)
    /\ UNCHANGED <<proc, reg, git, lease, borrower, review, approval, phase, ledger>>

\* Mutant: the borrower goes before the published proof is durable.
SettleCleanupEarly ==
    /\ SettlementValid /\ settlement.stage # "intent"
    /\ borrower' = None
    /\ UNCHANGED <<proc, reg, git, lease, review, approval, settlement, phase, ledger>>

\* The borrower file goes only after the published proof is durable.
SettleCleanup ==
    /\ SettlementValid /\ settlement.stage = "published"
    /\ borrower' = None
    /\ UNCHANGED <<proc, reg, git, lease, review, approval, settlement, phase, ledger>>

\* Whichever call removed the borrower, its receipt goes before the record.
RecordCleanup ==
    /\ Record("published", "cleanup")
    /\ borrower = None
    /\ approval' = Discard(approval, settlement.parent.dep, settlement.borrower)
    /\ UNCHANGED <<proc, reg, git, lease, borrower, review, phase, ledger>>

\* The retained copy is written, then the active record unlinked: a crash in
\* between leaves the record active, and the retry finds its copy.
SettleComplete ==
    /\ SettlementValid /\ settlement.stage = "cleanup"
    /\ settlement' = None
    /\ UNCHANGED <<proc, reg, git, lease, borrower, review, approval, phase, ledger>>

-----------------------------------------------------------------------------
(* Read-only review reservations.                                          *)

\* assertIdleReviewCustody: no child, no implement owner, no settlement, and
\* an orchestrator only if it serves, is idle and agrees on the snapshot.
IdleCustody(snap) ==
    /\ ~SettlementPending /\ borrower = None /\ lease["implement"] = None
    /\ Owner # None => LiveParent(Owner.dep) /\ ~Owner.busy /\ Owner.auth = snap

ReserveReview(r) ==
    /\ Alive(<<r, "launcher">>) /\ phase[r] = "new"
    /\ review = None /\ ~git.dirty /\ IdleCustody(git)
    /\ review' = [dep |-> r, snap |-> git, started |-> FALSE]
    /\ phase' = [phase EXCEPT ![r] = "admitted"]
    /\ UNCHANGED <<proc, reg, git, lease, borrower, approval, settlement, ledger>>

\* withRepositoryReviewReservation: reread everything, then start the reviewer.
StartReview(r) ==
    /\ Running(r) # {} /\ review # None /\ review.dep = r /\ ~review.started
    /\ IdleCustody(review.snap) /\ git = review.snap
    /\ review' = [review EXCEPT !.started = TRUE]
    /\ UNCHANGED <<proc, reg, git, lease, borrower, approval, settlement, phase, ledger>>

\* finalizeRepositoryReview: terminal evidence first, then the reservation.
FinalizeReview(r) ==
    /\ Running(r) # {} /\ review # None /\ review.dep = r /\ reg[r] = "terminal"
    /\ review' = None
    /\ UNCHANGED <<proc, reg, git, lease, borrower, approval, settlement, phase, ledger>>

-----------------------------------------------------------------------------
(* Advisory operations and native direct custody.                          *)

\* withAdvisoryRepositoryOwner: the caller p belongs to the live, running
\* owner of its slot and nobody else has evidence here.
AdvisoryOwner(d, p) ==
    LET s == SlotOf(d) IN
    /\ p \in Running(d) /\ phase[d] = "launched" /\ reg[d] = "running" /\ LeaseLive(s) /\ lease[s].dep = d
    /\ ~SettlementPending /\ borrower = None /\ review = None
    /\ Linked => \A t \in Slots \ {s} : lease[t] = None

BeginAdvisory(d, p) ==
    LET s == SlotOf(d) IN
    /\ AdvisoryOwner(d, p)
    /\ lease[s].op = None /\ ~lease[s].busy
    /\ git.branch = lease[s].pre.branch
    /\ ReplaceLease(s, [lease[s] EXCEPT !.busy = TRUE, !.op = p])
    /\ UNCHANGED <<proc, reg, git, borrower, review, settlement, phase, ledger>>

\* Only the caller that began it, and only when its effects are settled; an
\* unsettled operation keeps its barrier.
FinishAdvisory(d, p) ==
    LET s == SlotOf(d) IN
    /\ AdvisoryOwner(d, p) /\ lease[s].op = p
    /\ git.branch = lease[s].pre.branch
    /\ ReplaceLease(s, [lease[s] EXCEPT !.busy = FALSE, !.op = None, !.auth = git])
    /\ UNCHANGED <<proc, reg, git, borrower, review, settlement, phase, ledger>>

\* setDirectCustody of the native execution transaction.
SetDirectCustody(o, active) ==
    /\ Linked /\ ~SettlementPending /\ LiveParent(o) /\ NoOverlap
    /\ Owner.busy # active
    /\ ReplaceLease("orchestrator", [Owner EXCEPT !.busy = active])
    /\ UNCHANGED <<proc, reg, git, borrower, review, settlement, phase, ledger>>

\* advanceDirectSnapshot: to the current state, a descendant on the branch.
AdvanceDirectSnapshot(o) ==
    /\ Linked /\ ~SettlementPending /\ LiveParent(o) /\ NoOverlap
    /\ git.branch = Owner.auth.branch /\ git.head >= Owner.auth.head
    /\ ReplaceLease("orchestrator", [Owner EXCEPT !.auth = git])
    /\ UNCHANGED <<proc, reg, git, borrower, review, settlement, phase, ledger>>

\* Mutant: the restart trusts the recorded owner to be gone.
PredecessorAssumedGone(o) == Owner # None /\ Owner.dep = o

\* The process that holds a launched execution, as its execution journal names it.
Holder(d) == <<d, IF d \in Foreground THEN "launcher" ELSE "runner">>

\* authenticateNativeExecutionRestart: the predecessor was executing; its holder
\* and the recorded owner are proved dead and its terminal event is recorded.
PredecessorGone(o) ==
    /\ Owner # None /\ Owner.dep = o /\ phase[o] = "launched"
    /\ ~Alive(Holder(o)) /\ ~Alive(Owner.fp) /\ reg[o] = "terminal"

\* handoffDirectOwner: a restarted execution n takes over from a dead o.
HandoffDirectOwner(o, n) ==
    /\ Linked /\ ~SettlementPending /\ NoOverlap
    /\ PredecessorGone(o)
    /\ n # o /\ n \in Foreground /\ Alive(<<n, "launcher">>) /\ reg[n] = "running"
    /\ phase[n] = "new"
    /\ ~git.dirty /\ git = Owner.auth
    /\ ReplaceLease("orchestrator", [Owner EXCEPT !.dep = n, !.fp = <<n, "launcher">>])
    /\ phase' = [phase EXCEPT ![n] = "admitted"]
    /\ UNCHANGED <<proc, reg, git, borrower, review, settlement, ledger>>

-----------------------------------------------------------------------------
World ==
    \/ \E d \in Deployments : Start(d) \/ Launch(d) \/ Terminate(d)
    \/ \E p \in Procs : Die(p)
    \/ GitChange

OwnerStep ==
    \/ \E d \in Builders, force \in BOOLEAN : AcquireLease(d, force)
    \/ \E d \in OpenCode : AcquireInterrupted(d)
    \/ \E d \in Builders : UpdateSnapshot(d) \/ TransferLease(d)
    \/ \E d \in Builders, s \in Slots : ReleaseLease(d, s)
    \/ QuarantineLease

BorrowerStep ==
    \/ \E o \in Orchestrators : PublishApproval(o) \/ RemoveApproval(o)
    \/ \E c \in Implementers, o \in Orchestrators :
          RegisterBorrower(c, o) \/ RegisterRejected(c, o) \/ RegisterInterrupted(c, o)
    \/ \E c \in Implementers : TransferBorrower(c) \/ ReleaseBorrower(c) \/ FinalizeUncertain(c)
    \/ \E c \in Implementers, advance \in BOOLEAN : FinalizeBorrower(c, advance)
    \/ \E c \in Implementers : FinalizeInterrupted(c)

SettlementStep ==
    \/ \E c \in Implementers, inScope \in BOOLEAN : SettlementIntent(c, inScope)
    \/ SettleLease \/ RecordLease \/ SettlePublished
    \/ SettleCleanup \/ RecordCleanup \/ SettleComplete

ReviewStep == \E r \in Reviewers : ReserveReview(r) \/ StartReview(r) \/ FinalizeReview(r)

CustodyStep ==
    \/ \E d \in Builders : \E p \in Procs : BeginAdvisory(d, p) \/ FinishAdvisory(d, p)
    \/ \E o \in Orchestrators, active \in BOOLEAN : SetDirectCustody(o, active)
    \/ \E o \in Orchestrators : AdvanceDirectSnapshot(o)
    \/ \E o, n \in Orchestrators : HandoffDirectOwner(o, n)

Next == World \/ OwnerStep \/ BorrowerStep \/ SettlementStep \/ ReviewStep \/ CustodyStep

Spec == Init /\ [][Next]_vars

-----------------------------------------------------------------------------
(* Properties.                                                             *)

\* Every evidence file holds a record of its schema or is absent.
TypeOK ==
    /\ proc \in [Procs -> {"unborn", "alive", "dead"}]
    /\ reg \in [Deployments -> {"none", "running", "terminal"}]
    /\ git \in Snap
    /\ lease \in [Slots -> Lease \cup {None}]
    /\ borrower \in Borrower \cup {None}
    /\ review \in Review \cup {None}
    /\ approval \in [Orchestrators -> Approval \cup {None}]
    /\ settlement \in Settlement \cup {None}
    /\ phase \in [Deployments -> {"new", "admitted", "launched"}]
    /\ ledger \in [issued : 0..MaxReceipts, used : Nat]

\* A linked worktree has one source holder: an implement owner coexists with
\* neither an orchestrator owner nor a borrower, dead or alive
\* (acquireRepositoryMutationLease, registerRepositoryMutationBorrower).
SoleHolder ==
    lease["implement"] # None => Linked /\ Owner = None /\ borrower = None

\* Unresolved child evidence never outlives the lease it borrows from: the
\* parent's lease is there, same owner and process, or the child's runner died
\* inside its own finalization after that lease was already closed
\* (release, force, quarantine and hand-off all stop at the borrower file).
BorrowedFromParent ==
    borrower # None =>
        \/ Owner # None /\ Owner.dep = borrower.parent /\ Owner.fp = borrower.pfp
        \/ Owner = None /\ borrower.fin = "finalized" /\ ~Alive(borrower.fp)

\* A reservation keeps the candidate free of writers from the moment it is
\* published: no child, no implement owner, no settlement and no orchestrator
\* inside a direct or advisory operation, whatever happens in between
\* (reserveRepositoryReview and every operation that honours the reservation).
ReviewExcludesWriters ==
    review # None =>
        /\ borrower = None /\ lease["implement"] = None /\ settlement = None
        /\ Owner # None => ~Owner.busy

\* While a settlement is unresolved its evidence moves only with it, at most one
\* effect ahead of the recorded stage, across every crash, retry and competing
\* request: the lease is the recorded predecessor or its recorded advance, the
\* latter once that is recorded; the borrower is the recorded one, gone no
\* sooner than the publication is recorded (reconcileRepositoryTerminalChild).
SettlementFrozen ==
    settlement # None =>
        /\ Owner \in {settlement.parent, Advanced(settlement)}
        /\ settlement.stage # "intent" => Owner = Advanced(settlement)
        /\ borrower \in {None, settlement.borrower}
        /\ settlement.stage \in {"intent", "lease"} => borrower # None
        /\ settlement.stage = "cleanup" => borrower = None
        /\ review = None /\ lease["implement"] = None

\* The receipts named by the child on record, or by the one being settled.
ReceiptsNamed == {b.receipt : b \in ({borrower} \cup
    (IF settlement = None THEN {} ELSE {settlement.borrower})) \ {None}}

\* A dirty-borrow receipt admits at most one child: admissions made with a
\* receipt and receipts still on disk never exceed the receipts published.  The
\* one a child was admitted with is off the disk, so finalization and settlement
\* find only receipts of others there.
ReceiptsUsedOnce ==
    /\ ledger.used + Cardinality({o \in Orchestrators : approval[o] # None}) <= ledger.issued
    /\ \A o \in Orchestrators : approval[o] # None => approval[o].id \notin ReceiptsNamed

\* The evidence files of a worktree agree with each other after every step, crash
\* and retry: one source holder, no child without its parent, and a settlement at
\* most one effect ahead of its record (repository-admission.ts).
EvidenceAgrees == SoleHolder /\ BorrowedFromParent /\ SettlementFrozen

\* The steps that respect a running child: every lease present after the step
\* was there before it.
ChildExcludes ==
    BorrowerLive => \A s \in Slots :
        lease'[s] # None => lease[s] # None /\ lease'[s].token = lease[s].token

\* While a process-verified child runs, no request, forced or not, takes
\* either slot (acquireRepositoryMutationLease refuses before it quarantines).
LiveChildExcludes == [][ChildExcludes]_vars

\* The steps that leave a live, running owner its lease, or that remove it with
\* no child, no settlement and no operation of the owner unresolved.
OwnerKept ==
    \A s \in Slots :
        LeaseLive(s) /\ reg[lease[s].dep] = "running" =>
            \/ lease'[s] # None /\ lease'[s].dep = lease[s].dep
            \/ /\ lease'[s] = None /\ settlement = None
               /\ ~lease[s].busy /\ lease[s].op = None
               /\ s = "orchestrator" => borrower = None

\* A live, running owner is never displaced: force, quarantine, hand-off and a
\* child's finalization all leave it, its lease passes to nobody, and only a
\* release by its token, with nothing unresolved, removes it.
LiveOwnerKept == [][OwnerKept]_vars

\* While a child is registered and running, the authority its parent delegated
\* to it does not move under it: only the child's own finalization, or its
\* settlement, advances the parent's snapshot.
AuthorityStableUnderChild ==
    [][BorrowerLive /\ borrower' = borrower /\ BorrowerLive' /\ settlement = None
          /\ Owner # None /\ Owner' # None => Owner'.auth = Owner.auth]_vars
=============================================================================
