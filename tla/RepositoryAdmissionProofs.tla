--------------------- MODULE RepositoryAdmissionProofs ---------------------
(***************************************************************************)
(* Theorems about RepositoryAdmission, for every set of deployments, both  *)
(* kinds of worktree and every bound.                                      *)
(***************************************************************************)
EXTENDS RepositoryAdmission, TLAPS, FiniteSetTheorems

-----------------------------------------------------------------------------
(* Records of the evidence files.                                          *)

\* Replacing the bytes of a lease leaves well-formed files.
LEMMA ReplaceLeaseType ==
    ASSUME TypeOK, NEW s \in Slots, NEW new \in Lease, lease[s] # None, ReplaceLease(s, new)
    PROVE  /\ lease' \in [Slots -> Lease \cup {None}]
           /\ approval' \in [Orchestrators -> Approval \cup {None}]
<1>1. lease' \in [Slots -> Lease \cup {None}]
  BY DEF TypeOK, ReplaceLease
<1>2. \A o \in Orchestrators : approval[o] # None => [approval[o] EXCEPT !.bound = FALSE] \in Approval
  BY DEF TypeOK, Approval
<1>3. approval' \in [Orchestrators -> Approval \cup {None}]
  BY <1>2 DEF TypeOK, ReplaceLease, Unbound
<1> QED BY <1>1, <1>3

\* Receipts among those on disk, each under its own id.
LeftOf(g) ==
    /\ g \in [Orchestrators -> Approval \cup {None}]
    /\ \A o \in Orchestrators : g[o] # None => approval[o] # None /\ g[o].id = approval[o].id

\* Unbound and discarded receipts are receipts that were there, under their ids.
LEMMA ReceiptsLeft ==
    ASSUME TypeOK
    PROVE  /\ LeftOf(approval)
           /\ \A d : LeftOf(Unbound(d))
           /\ \A d, child : LeftOf(Discard(approval, d, child))
           /\ \A d, e, child : LeftOf(Discard(Unbound(d), e, child))
<1>1. LeftOf(approval)
  BY DEF LeftOf, TypeOK
<1>2. ASSUME NEW d PROVE LeftOf(Unbound(d))
  <2>1. \A o \in Orchestrators : approval[o] # None =>
          [approval[o] EXCEPT !.bound = FALSE] \in Approval /\ [approval[o] EXCEPT !.bound = FALSE].id = approval[o].id
    BY <1>1 DEF LeftOf, Approval
  <2> QED BY <1>1, <2>1 DEF LeftOf, Unbound
<1>3. ASSUME NEW f, LeftOf(f), NEW d, NEW child PROVE LeftOf(Discard(f, d, child))
  BY <1>3 DEF LeftOf, Discard
<1>4. ASSUME NEW d, NEW child PROVE LeftOf(Discard(approval, d, child))
  BY <1>1, <1>3
<1>5. ASSUME NEW d, NEW e, NEW child PROVE LeftOf(Discard(Unbound(d), e, child))
  BY <1>2, <1>3
<1> QED BY <1>1, <1>2, <1>4, <1>5

\* The two slots and the roles.
LEMMA SlotsFacts ==
    /\ "orchestrator" \in Slots /\ "implement" \in Slots
    /\ \A d \in Deployments : SlotOf(d) \in Slots
    /\ \A d \in Deployments : <<d, "launcher">> \in Procs /\ <<d, "runner">> \in Procs
BY DEF Slots, SlotOf, Procs

-----------------------------------------------------------------------------
(* Type correctness.                                                       *)

LEMMA TypeInit == Init => TypeOK
BY RolesAssumption DEF Init, TypeOK, Snap, Procs, Deployments

LEMMA TypeWorld == TypeOK /\ World => TypeOK'
<1> SUFFICES ASSUME TypeOK, World PROVE TypeOK'
  OBVIOUS
<1> USE SlotsFacts
<1>1. ASSUME NEW d \in Deployments, Start(d) PROVE TypeOK'
  BY <1>1 DEF TypeOK, Start, files
<1>2. ASSUME NEW d \in Deployments, Launch(d) PROVE TypeOK'
  BY <1>2 DEF TypeOK, Launch, files
<1>3. ASSUME NEW d \in Deployments, Terminate(d) PROVE TypeOK'
  BY <1>3 DEF TypeOK, Terminate, files
<1>4. ASSUME NEW p \in Procs, Die(p) PROVE TypeOK'
  BY <1>4 DEF TypeOK, Die, files
<1>5. ASSUME GitChange PROVE TypeOK'
  <2>1. git' \in Snap
    <3> USE DEF TypeOK, Snap
    <3>1. CASE git.head < MaxHead /\ git' = [git EXCEPT !.head = @ + 1, !.dirty = FALSE]
      <4>1. git.head + 1 \in 0..MaxHead
        BY <3>1, RolesAssumption
      <4> QED BY <3>1, <4>1
    <3>2. CASE git' = [git EXCEPT !.dirty = ~@]
      <4>1. (~git.dirty) \in BOOLEAN
        OBVIOUS
      <4> QED BY <3>2, <4>1
    <3>3. CASE \E b \in {"develop", "feature"} \ {git.branch} : git' = [git EXCEPT !.branch = b]
      BY <3>3
    <3> QED BY <1>5, <3>1, <3>2, <3>3 DEF GitChange
  <2> QED BY <1>5, <2>1 DEF TypeOK, GitChange, files
<1> QED BY <1>1, <1>2, <1>3, <1>4, <1>5 DEF World

LEMMA TypeOwner == TypeOK /\ OwnerStep => TypeOK'
<1> SUFFICES ASSUME TypeOK, OwnerStep PROVE TypeOK'
  OBVIOUS
<1> USE SlotsFacts
<1>0. Builders \subseteq Deployments /\ OpenCode \subseteq Builders
  BY DEF Builders, Deployments
<1>1. ASSUME NEW d \in Builders, NEW force \in BOOLEAN, AcquireLease(d, force) PROVE TypeOK'
  <2>1. FreshLease(d) \in Lease
    BY <1>0 DEF FreshLease, Lease, TypeOK
  <2> QED BY <1>0, <1>1, <2>1 DEF TypeOK, AcquireLease
<1>2. ASSUME NEW d \in OpenCode, AcquireInterrupted(d) PROVE TypeOK'
  BY <1>0, <1>2 DEF TypeOK, AcquireInterrupted
<1>3. ASSUME NEW d \in Builders, UpdateSnapshot(d) PROVE TypeOK'
  <2>1. lease[SlotOf(d)] \in Lease /\ git \in Snap
    BY <1>0, <1>3 DEF TypeOK, UpdateSnapshot
  <2>2. [lease[SlotOf(d)] EXCEPT !.auth = git] \in Lease
    BY <2>1 DEF Lease
  <2> QED BY <1>0, <1>3, <2>2, ReplaceLeaseType DEF TypeOK, UpdateSnapshot
<1>4. ASSUME NEW d \in Builders, TransferLease(d) PROVE TypeOK'
  <2>1. [lease[SlotOf(d)] EXCEPT !.fp = <<d, "runner">>] \in Lease
    BY <1>0, <1>4 DEF TypeOK, TransferLease, Lease
  <2> QED BY <1>0, <1>4, <2>1, ReplaceLeaseType DEF TypeOK, TransferLease
<1>5. ASSUME NEW d \in Builders, NEW s \in Slots, ReleaseLease(d, s) PROVE TypeOK'
  BY <1>5 DEF TypeOK, ReleaseLease
<1>6. ASSUME QuarantineLease PROVE TypeOK'
  BY <1>6 DEF TypeOK, QuarantineLease
<1> QED BY <1>1, <1>2, <1>3, <1>4, <1>5, <1>6 DEF OwnerStep

LEMMA TypeBorrower == TypeOK /\ BorrowerStep => TypeOK'
<1> SUFFICES ASSUME TypeOK, BorrowerStep PROVE TypeOK'
  OBVIOUS
<1> USE SlotsFacts
<1>0. Orchestrators \subseteq Deployments /\ Implementers \subseteq Deployments
  BY DEF Builders, Deployments
<1>a. lease["orchestrator"] # None =>
        \A a \in Snap : [lease["orchestrator"] EXCEPT !.auth = a] \in Lease
                      /\ [lease["orchestrator"] EXCEPT !.auth = a, !.moved = TRUE] \in Lease
  BY DEF TypeOK, Lease
<1>b. borrower # None => \A f \in {"no", "finalizing", "finalized"} : [borrower EXCEPT !.fin = f] \in Borrower
  BY DEF TypeOK, Borrower
<1>c. git \in Snap
  BY DEF TypeOK
<1>1. ASSUME NEW o \in Orchestrators, PublishApproval(o) PROVE TypeOK'
  <2>0. ledger.issued + 1 \in 1..MaxReceipts
    BY <1>1, RolesAssumption DEF TypeOK, PublishApproval
  <2>1. [id |-> ledger.issued + 1, bound |-> TRUE, snap |-> git] \in Approval
    BY <2>0 DEF TypeOK, Approval
  <2>2. ledger' \in [issued : 0..MaxReceipts, used : Nat]
    BY <1>1, RolesAssumption DEF TypeOK, PublishApproval
  <2> QED BY <1>1, <2>1, <2>2 DEF TypeOK, PublishApproval
<1>2. ASSUME NEW o \in Orchestrators, RemoveApproval(o) PROVE TypeOK'
  BY <1>2 DEF TypeOK, RemoveApproval
<1>3. ASSUME NEW c \in Implementers, NEW o \in Orchestrators, RegisterBorrower(c, o) PROVE TypeOK'
  <2>0. Owner # None /\ Owner.fp \in Procs
    BY <1>3 DEF RegisterBorrower, MayBorrow, LiveParent, LeaseLive, Owner, TypeOK, Lease
  <2>a. ReceiptOf(o) \in 0..MaxReceipts
    <3>1. git.dirty => approval[o] # None
      BY <1>3 DEF RegisterBorrower, TransitionAllowed, PresentsReceipt
    <3>2. approval[o] # None => approval[o].id \in 0..MaxReceipts
      BY DEF TypeOK, Approval
    <3> QED BY <3>1, <3>2, RolesAssumption DEF ReceiptOf
  <2>1. NewBorrower(c, o) \in Borrower
    BY <1>0, <2>0, <2>a DEF NewBorrower, Borrower, TypeOK, Snap
  <2>2. /\ lease' \in [Slots -> Lease \cup {None}]
        /\ approval' \in [Orchestrators -> Approval \cup {None}]
        /\ ledger' \in [issued : 0..MaxReceipts, used : Nat]
    <3>1. CASE UNCHANGED <<lease, approval, ledger>>
      BY <3>1 DEF TypeOK
    <3>2. CASE ReplaceLease("orchestrator", [Owner EXCEPT !.auth = git, !.moved = TRUE]) /\ UNCHANGED ledger
      BY <3>2, <2>0, <1>a, <1>c, ReplaceLeaseType DEF Owner, TypeOK
    <3>3. CASE ConsumeReceipt(o) /\ ledger' = [ledger EXCEPT !.used = @ + 1] /\ UNCHANGED lease
      BY <3>3 DEF ConsumeReceipt, TypeOK
    <3> QED BY <1>3, <3>1, <3>2, <3>3 DEF RegisterBorrower
  <2> QED BY <1>0, <1>3, <2>1, <2>2 DEF TypeOK, RegisterBorrower
<1>4. ASSUME NEW c \in Implementers, NEW o \in Orchestrators, RegisterRejected(c, o) PROVE TypeOK'
  BY <1>4 DEF TypeOK, RegisterRejected, ConsumeReceipt
<1>5. ASSUME NEW c \in Implementers, NEW o \in Orchestrators, RegisterInterrupted(c, o) PROVE TypeOK'
  <2>0. Owner # None
    BY <1>5 DEF RegisterInterrupted, MayBorrow, LiveParent, LeaseLive, Owner
  <2>1. /\ lease' \in [Slots -> Lease \cup {None}]
        /\ approval' \in [Orchestrators -> Approval \cup {None}]
    <3>1. CASE ConsumeReceipt(o) /\ UNCHANGED lease
      BY <3>1 DEF ConsumeReceipt, TypeOK
    <3>2. CASE ReplaceLease("orchestrator", [Owner EXCEPT !.auth = git, !.moved = TRUE])
      BY <3>2, <2>0, <1>a, <1>c, ReplaceLeaseType DEF Owner
    <3> QED BY <1>5, <3>1, <3>2 DEF RegisterInterrupted
  <2> QED BY <1>0, <1>5, <2>1 DEF TypeOK, RegisterInterrupted
<1>6. ASSUME NEW c \in Implementers, TransferBorrower(c) PROVE TypeOK'
  <2>1. [borrower EXCEPT !.fp = <<c, "runner">>] \in Borrower
    BY <1>0, <1>6 DEF TransferBorrower, TypeOK, Borrower
  <2> QED BY <1>6, <2>1 DEF TypeOK, TransferBorrower
<1>7. ASSUME NEW c \in Implementers, ReleaseBorrower(c) PROVE TypeOK'
  BY <1>7 DEF TypeOK, ReleaseBorrower
<1>8. ASSUME NEW c \in Implementers, FinalizeUncertain(c) PROVE TypeOK'
  BY <1>8, <1>b DEF TypeOK, FinalizeUncertain
<1>9. ASSUME NEW c \in Implementers, NEW advance \in BOOLEAN, FinalizeBorrower(c, advance) PROVE TypeOK'
  <2>1. /\ lease' \in [Slots -> Lease \cup {None}]
        /\ approval' \in [Orchestrators -> Approval \cup {None}]
    <3>1. lease' \in [Slots -> Lease \cup {None}]
      BY <1>9, <1>a, <1>c DEF FinalizeBorrower, Owner, TypeOK
    <3>2. approval' \in {approval, Discard(approval, Owner.dep, borrower),
                         Discard(Unbound(Owner.dep), Owner.dep, borrower)}
      BY <1>9 DEF FinalizeBorrower
    <3>3. LeftOf(approval')
      BY <3>2, ReceiptsLeft
    <3> QED BY <3>1, <3>3 DEF LeftOf
  <2> QED BY <1>9, <2>1 DEF TypeOK, FinalizeBorrower
<1>10. ASSUME NEW c \in Implementers, FinalizeInterrupted(c) PROVE TypeOK'
  <2>1. /\ lease' \in [Slots -> Lease \cup {None}]
        /\ approval' \in [Orchestrators -> Approval \cup {None}]
    <3>1. CASE UNCHANGED <<lease, approval>>
      BY <3>1 DEF TypeOK
    <3>2. CASE Owner # None /\ ReplaceLease("orchestrator", [Owner EXCEPT !.auth = git])
      BY <3>2, <1>a, <1>c, ReplaceLeaseType DEF Owner
    <3>3. CASE lease' = [lease EXCEPT !["orchestrator"] = None] /\ UNCHANGED approval
      BY <3>3 DEF TypeOK
    <3>4. CASE UNCHANGED lease /\ approval' = Unbound(Owner.dep)
      BY <3>4 DEF TypeOK, Unbound, Approval
    <3> QED BY <1>10, <3>1, <3>2, <3>3, <3>4 DEF FinalizeInterrupted
  <2>2. borrower' \in Borrower
    BY <1>10, <1>b DEF FinalizeInterrupted, MayFinalize
  <2>3. proc' \in [Procs -> {"unborn", "alive", "dead"}]
    BY <1>10 DEF FinalizeInterrupted, TypeOK
  <2> QED BY <1>10, <2>1, <2>2, <2>3 DEF TypeOK, FinalizeInterrupted
<1> QED BY <1>1, <1>2, <1>3, <1>4, <1>5, <1>6, <1>7, <1>8, <1>9, <1>10 DEF BorrowerStep

LEMMA TypeSettlement == TypeOK /\ SettlementStep => TypeOK'
<1> SUFFICES ASSUME TypeOK, SettlementStep PROVE TypeOK'
  OBVIOUS
<1> USE SlotsFacts
<1>a. settlement # None =>
        /\ Advanced(settlement) \in Lease
        /\ \A g \in {"intent", "lease", "published", "cleanup"} : [settlement EXCEPT !.stage = g] \in Settlement
  BY DEF TypeOK, Settlement, Advanced, Lease
<1>b. LiveParent(settlement.parent.dep) => lease["orchestrator"] # None
  BY DEF LiveParent, LeaseLive
<1>1. ASSUME NEW c \in Implementers, NEW inScope \in BOOLEAN, SettlementIntent(c, inScope) PROVE TypeOK'
  <2>1. Owner \in Lease /\ borrower \in Borrower /\ git \in Snap
    BY <1>1 DEF SettlementIntent, LiveParent, LeaseLive, Owner, TypeOK
  <2>2. settlement' \in Settlement
    BY <1>1, <2>1 DEF SettlementIntent, Settlement
  <2> QED BY <1>1, <2>2 DEF TypeOK, SettlementIntent
<1>2. ASSUME SettleLease PROVE TypeOK'
  <2>1. Advanced(settlement) \in Lease /\ lease["orchestrator"] # None
    BY <1>2, <1>a, <1>b DEF SettleLease, SettlementValid, SettlementPending
  <2> QED BY <1>2, <2>1, ReplaceLeaseType DEF TypeOK, SettleLease
<1>3. ASSUME RecordLease PROVE TypeOK'
  <2>1. settlement' \in Settlement
    BY <1>3, <1>a DEF RecordLease, Record, SettlementPending
  <2> QED BY <1>3, <2>1 DEF TypeOK, RecordLease
<1>4. ASSUME SettlePublished PROVE TypeOK'
  <2>1. settlement' \in Settlement
    BY <1>4, <1>a DEF SettlePublished, Record, SettlementPending
  <2> QED BY <1>4, <2>1 DEF TypeOK, SettlePublished
<1>5. ASSUME SettleCleanup PROVE TypeOK'
  BY <1>5 DEF TypeOK, SettleCleanup
<1>6. ASSUME RecordCleanup PROVE TypeOK'
  <2>1. settlement' \in Settlement
    BY <1>6, <1>a DEF RecordCleanup, Record, SettlementPending
  <2>2. approval' \in [Orchestrators -> Approval \cup {None}]
    BY <1>6, ReceiptsLeft DEF RecordCleanup, LeftOf
  <2> QED BY <1>6, <2>1, <2>2 DEF TypeOK, RecordCleanup
<1>7. ASSUME SettleComplete PROVE TypeOK'
  BY <1>7 DEF TypeOK, SettleComplete
<1> QED BY <1>1, <1>2, <1>3, <1>4, <1>5, <1>6, <1>7 DEF SettlementStep

LEMMA TypeReview == TypeOK /\ ReviewStep => TypeOK'
<1> SUFFICES ASSUME TypeOK, NEW r \in Reviewers, ReserveReview(r) \/ StartReview(r) \/ FinalizeReview(r)
             PROVE  TypeOK'
  BY DEF ReviewStep
<1>0. r \in Deployments
  BY DEF Deployments
<1>1. CASE ReserveReview(r)
  <2>1. review' \in Review
    BY <1>1 DEF ReserveReview, Review, TypeOK
  <2> QED BY <1>0, <1>1, <2>1 DEF TypeOK, ReserveReview
<1>2. CASE StartReview(r)
  <2>1. review' \in Review
    BY <1>2 DEF StartReview, Review, TypeOK
  <2> QED BY <1>2, <2>1 DEF TypeOK, StartReview
<1>3. CASE FinalizeReview(r)
  BY <1>3 DEF TypeOK, FinalizeReview
<1> QED BY <1>1, <1>2, <1>3

LEMMA TypeCustody == TypeOK /\ CustodyStep => TypeOK'
<1> SUFFICES ASSUME TypeOK, CustodyStep PROVE TypeOK'
  OBVIOUS
<1> USE SlotsFacts
<1>0. Orchestrators \subseteq Builders /\ Builders \subseteq Deployments /\ git \in Snap
  BY DEF Builders, Deployments, TypeOK
<1>1. ASSUME NEW d \in Builders, NEW p \in Procs, BeginAdvisory(d, p) PROVE TypeOK'
  <2>1. lease[SlotOf(d)] \in Lease /\ lease[SlotOf(d)] # None
    BY <1>0, <1>1 DEF BeginAdvisory, AdvisoryOwner, LeaseLive, TypeOK
  <2>2. [lease[SlotOf(d)] EXCEPT !.busy = TRUE, !.op = p] \in Lease
    BY <2>1 DEF Lease
  <2> QED BY <1>0, <1>1, <2>1, <2>2, ReplaceLeaseType DEF TypeOK, BeginAdvisory
<1>2. ASSUME NEW d \in Builders, NEW p \in Procs, FinishAdvisory(d, p) PROVE TypeOK'
  <2>1. lease[SlotOf(d)] \in Lease /\ lease[SlotOf(d)] # None
    BY <1>0, <1>2 DEF FinishAdvisory, AdvisoryOwner, LeaseLive, TypeOK
  <2>2. [lease[SlotOf(d)] EXCEPT !.busy = FALSE, !.op = None, !.auth = git] \in Lease
    BY <1>0, <2>1 DEF Lease
  <2> QED BY <1>0, <1>2, <2>1, <2>2, ReplaceLeaseType DEF TypeOK, FinishAdvisory
<1>3. ASSUME NEW o \in Orchestrators, NEW active \in BOOLEAN, SetDirectCustody(o, active) PROVE TypeOK'
  <2>1. Owner \in Lease /\ Owner # None
    BY <1>3 DEF SetDirectCustody, LiveParent, LeaseLive, Owner, TypeOK
  <2>2. [Owner EXCEPT !.busy = active] \in Lease
    BY <2>1 DEF Lease
  <2> QED BY <1>3, <2>1, <2>2, ReplaceLeaseType DEF TypeOK, SetDirectCustody, Owner
<1>4. ASSUME NEW o \in Orchestrators, AdvanceDirectSnapshot(o) PROVE TypeOK'
  <2>1. Owner \in Lease /\ Owner # None
    BY <1>4 DEF AdvanceDirectSnapshot, LiveParent, LeaseLive, Owner, TypeOK
  <2>2. [Owner EXCEPT !.auth = git] \in Lease
    BY <1>0, <2>1 DEF Lease
  <2> QED BY <1>4, <2>1, <2>2, ReplaceLeaseType DEF TypeOK, AdvanceDirectSnapshot, Owner
<1>5. ASSUME NEW o \in Orchestrators, NEW n \in Orchestrators, HandoffDirectOwner(o, n) PROVE TypeOK'
  <2>1. Owner \in Lease /\ Owner # None
    BY <1>5 DEF HandoffDirectOwner, PredecessorGone, Owner, TypeOK
  <2>2. [Owner EXCEPT !.dep = n, !.fp = <<n, "launcher">>] \in Lease
    BY <1>0, <2>1 DEF Lease
  <2> QED BY <1>0, <1>5, <2>1, <2>2, ReplaceLeaseType DEF TypeOK, HandoffDirectOwner, Owner
<1> QED BY <1>1, <1>2, <1>3, <1>4, <1>5 DEF CustodyStep

LEMMA TypeStep == TypeOK /\ [Next]_vars => TypeOK'
<1>1. TypeOK /\ UNCHANGED vars => TypeOK'
  BY DEF TypeOK, vars, files
<1> QED
  BY <1>1, TypeWorld, TypeOwner, TypeBorrower, TypeSettlement, TypeReview, TypeCustody DEF Next

\* Type correctness: whatever the interleaving of launchers, runners, crashes
\* and Git changes, every evidence file is absent or a record of its schema.
THEOREM TypeCorrect == Spec => []TypeOK
BY TypeInit, TypeStep, PTL DEF Spec

-----------------------------------------------------------------------------
(* Safety: the inductive invariant.                                        *)

\* Processes start once: a launcher with the started event, a runner with the
\* launch of a background deployment.
Launches ==
    \A d \in Deployments :
        /\ reg[d] = "none" => proc[<<d, "launcher">>] = "unborn"
        /\ proc[<<d, "runner">>] # "unborn" => phase[d] = "launched" /\ d \notin Foreground

\* A lease that was handed over keeps its token, and the token's first holder
\* has no runner left that could take the lease back.
TokenRetired ==
    Owner # None /\ Owner.token # Owner.dep =>
        phase[Owner.token] = "launched" /\ ~Alive(<<Owner.token, "runner">>)

\* The lease a child borrows from has reached its last process, so a transfer
\* under the child changes nothing; and once that lease is closed no process is
\* left that could take the child's evidence over.
ChildBound ==
    borrower # None =>
        /\ borrower.fp \in {<<borrower.dep, "launcher">>, <<borrower.dep, "runner">>}
        /\ proc[borrower.fp] # "unborn"
        /\ Owner # None =>
              /\ Owner.dep = borrower.parent /\ Owner.fp = borrower.pfp
              /\ phase[Owner.token] = "launched"
              /\ Alive(<<Owner.token, "runner">>) => Owner.fp = <<Owner.token, "runner">>
        /\ Owner = None =>
              /\ borrower.fin = "finalized"
              /\ ~Alive(borrower.fp) /\ ~Alive(<<borrower.dep, "runner">>)

\* The inductive invariant behind the ownership properties.
Custody ==
    /\ SoleHolder /\ ReviewExcludesWriters /\ SettlementFrozen
    /\ Launches /\ TokenRetired /\ ChildBound

\* What replacing one lease does to the two slots.
LEMMA ReplaceLeaseSlots ==
    ASSUME TypeOK, NEW s \in Slots, NEW new,
           ReplaceLease(s, new) \/ lease' = [lease EXCEPT ![s] = new]
    PROVE  lease'[s] = new /\ \A t \in Slots \ {s} : lease'[t] = lease[t]
BY DEF TypeOK, ReplaceLease

LEMMA CustodyInit == Init => Custody
BY SlotsFacts DEF Init, Custody, SoleHolder, ReviewExcludesWriters, SettlementFrozen, Launches,
     TokenRetired, ChildBound, Owner

LEMMA CustodyWorld == TypeOK /\ Custody /\ World => Custody'
<1> SUFFICES ASSUME TypeOK, Custody, World PROVE Custody'
  OBVIOUS
<1> USE SlotsFacts DEF Custody, SoleHolder, ReviewExcludesWriters, SettlementFrozen, Owner, Alive
<1>1. ASSUME NEW d \in Deployments, Start(d) PROVE Custody'
  BY <1>1 DEF Start, Procs, Launches, TokenRetired, ChildBound, files, TypeOK, Advanced, Builders, Deployments
<1>2. ASSUME NEW d \in Deployments, Launch(d) PROVE Custody'
  <2>1. /\ proc' = proc \/ (d \notin Foreground /\ proc' = [proc EXCEPT ![<<d, "runner">>] = "alive"])
        /\ phase[d] = "admitted" /\ phase' = [phase EXCEPT ![d] = "launched"]
        /\ proc[<<d, "launcher">>] = "alive" /\ proc[<<d, "runner">>] = "unborn"
        /\ UNCHANGED <<reg, git, lease, borrower, review, approval, settlement, ledger>>
    BY <1>2 DEF Launch, files, Launches
  <2>2. SoleHolder' /\ ReviewExcludesWriters' /\ SettlementFrozen'
    BY <2>1 DEF Advanced
  <2>3. \A e \in Deployments :
          /\ proc'[<<e, "launcher">>] = proc[<<e, "launcher">>]
          /\ e # d => proc'[<<e, "runner">>] = proc[<<e, "runner">>] /\ phase'[e] = phase[e]
          /\ d \in Foreground => proc'[<<e, "runner">>] = proc[<<e, "runner">>]
    BY <2>1 DEF TypeOK
  <2>4. phase'[d] = "launched"
    BY <2>1 DEF TypeOK
  <2>5. Launches'
    <3> SUFFICES ASSUME NEW e \in Deployments
                 PROVE  /\ reg'[e] = "none" => proc'[<<e, "launcher">>] = "unborn"
                        /\ proc'[<<e, "runner">>] # "unborn" => phase'[e] = "launched" /\ e \notin Foreground
      BY DEF Launches
    <3>1. CASE e = d
      BY <3>1, <2>1, <2>3, <2>4 DEF Launches
    <3>2. CASE e # d
      BY <3>2, <2>1, <2>3 DEF Launches
    <3> QED BY <3>1, <3>2
  <2>6. lease["orchestrator"] # None => lease["orchestrator"].token \in Deployments
    BY DEF Lease, TypeOK, Deployments
  <2>7. TokenRetired'
    BY <2>1, <2>3, <2>6 DEF TokenRetired
  <2>8. ASSUME borrower # None PROVE ChildBound'
    <3>1. borrower.dep \in Deployments
      BY <2>8 DEF Borrower, TypeOK, Builders, Deployments
    <3>2. proc'[borrower.fp] # "unborn" /\ (Owner = None => proc'[borrower.fp] # "alive")
      BY <2>1, <2>3, <2>8, <3>1 DEF ChildBound
    <3>3. Owner = None => proc'[<<borrower.dep, "runner">>] # "alive"
      BY <2>1, <2>3, <2>8, <3>1 DEF ChildBound
    <3>4. ASSUME Owner # None
          PROVE  /\ phase'[Owner.token] = "launched"
                 /\ proc'[<<Owner.token, "runner">>] = "alive" => proc[<<Owner.token, "runner">>] = "alive"
      BY <2>1, <2>3, <2>6, <2>8, <3>4 DEF ChildBound
    <3> QED BY <2>1, <2>8, <3>2, <3>3, <3>4 DEF ChildBound
  <2>9. ChildBound'
    BY <2>1, <2>8 DEF ChildBound
  <2> QED BY <2>2, <2>5, <2>7, <2>9
<1> USE DEF Launches, TokenRetired, ChildBound, files, TypeOK, Advanced
<1>3. ASSUME NEW d \in Deployments, Terminate(d) PROVE Custody'
  BY <1>3 DEF Terminate
<1>4. ASSUME NEW p \in Procs, Die(p) PROVE Custody'
  BY <1>4 DEF Die, Procs
<1>5. ASSUME GitChange PROVE Custody'
  BY <1>5 DEF GitChange
<1> QED BY <1>1, <1>2, <1>3, <1>4, <1>5 DEF World

\* An operation that replaces one lease, keeps its token and owner, and keeps its
\* process while a child borrows from it, preserves the invariant.
LEMMA ReplaceKeepsCustody ==
    ASSUME TypeOK, Custody, NEW s \in Slots, NEW new \in Lease,
           lease[s] # None, settlement = None, ReplaceLease(s, new),
           new.token = lease[s].token, new.dep = lease[s].dep,
           borrower # None /\ s = "orchestrator" => new.fp = lease[s].fp,
           review # None => new.busy = lease[s].busy,
           UNCHANGED <<proc, reg, borrower, review, settlement, phase>>
    PROVE  Custody'
<1> USE SlotsFacts DEF Custody, Owner
<1>1. /\ lease'[s] = new /\ new # None
      /\ \A t \in Slots : t # s => lease'[t] = lease[t]
  BY ReplaceLeaseSlots, NoneAssumption
<1>2. SoleHolder'
  BY <1>1 DEF SoleHolder, Slots
<1>3. ReviewExcludesWriters'
  BY <1>1 DEF ReviewExcludesWriters, Slots
<1>4. SettlementFrozen' /\ Launches'
  BY DEF SettlementFrozen, Launches
<1>5. TokenRetired'
  BY <1>1 DEF TokenRetired, Slots, Alive
<1>6. ChildBound'
  BY <1>1 DEF ChildBound, Slots, Alive
<1> QED BY <1>2, <1>3, <1>4, <1>5, <1>6

LEMMA CustodyOwner == TypeOK /\ Custody /\ OwnerStep => Custody'
<1> SUFFICES ASSUME TypeOK, Custody, OwnerStep PROVE Custody'
  OBVIOUS
<1> USE SlotsFacts, NoneAssumption
<1>0. Builders \subseteq Deployments /\ OpenCode \subseteq Builders
  BY DEF Builders, Deployments
<1>1. ASSUME NEW d \in Builders, NEW force \in BOOLEAN, AcquireLease(d, force) PROVE Custody'
  <2>1. /\ settlement = None /\ review = None /\ borrower' = None
        /\ UNCHANGED <<proc, reg, review, settlement>>
        /\ lease' = [lease EXCEPT ![SlotOf(d)] = FreshLease(d)]
        /\ phase' = [phase EXCEPT ![d] = "admitted"] /\ phase[d] = "new"
    BY <1>1 DEF AcquireLease, AdmitsOwner, SettlementPending
  <2>2. Linked => d \notin OpenCode /\ borrower = None /\ \A t \in Slots : lease[t] = None
    BY <1>1, RolesAssumption DEF AcquireLease, AdmitsOwner
  <2>3. ~Linked => SlotOf(d) = "orchestrator" /\ lease["implement"] = None
    BY DEF SlotOf, Custody, SoleHolder
  <2>4. SoleHolder'
    BY <1>0, <2>1, <2>2, <2>3 DEF SoleHolder, Owner, Slots, TypeOK
  <2>5. Launches'
    BY <1>0, <2>1 DEF Launches, Custody, TypeOK
  <2>6. TokenRetired'
    <3> SUFFICES ASSUME Owner' # None, Owner'.token # Owner'.dep PROVE FALSE
      BY DEF TokenRetired
    <3>1. FreshLease(d).token = FreshLease(d).dep
      BY DEF FreshLease
    <3>2. SlotOf(d) = "orchestrator" \/ Owner' = None
      BY <1>0, <2>1, <2>2, <2>3 DEF Owner, Slots, TypeOK
    <3> QED BY <2>1, <3>1, <3>2 DEF Owner, TypeOK
  <2> QED BY <2>1, <2>4, <2>5, <2>6 DEF Custody, ReviewExcludesWriters, SettlementFrozen, ChildBound
<1>2. ASSUME NEW d \in OpenCode, AcquireInterrupted(d) PROVE Custody'
  <2>1. /\ settlement = None /\ review = None /\ borrower' = None
        /\ UNCHANGED <<reg, review, settlement, phase>>
        /\ \A t \in Slots : lease'[t] \in {None, lease[t]}
        /\ proc' = [proc EXCEPT ![<<d, "launcher">>] = "dead"] /\ reg[d] = "running"
    BY <1>0, <1>2 DEF AcquireInterrupted, AdmitsOwner, SettlementPending, TypeOK
  <2>2. SoleHolder'
    BY <2>1 DEF SoleHolder, Owner, Custody
  <2>3. \A e \in Deployments : proc'[<<e, "runner">>] = proc[<<e, "runner">>]
                /\ (e # d => proc'[<<e, "launcher">>] = proc[<<e, "launcher">>])
    BY <2>1 DEF TypeOK
  <2>4. Launches'
    BY <2>1, <2>3 DEF Launches, Custody
  <2>5. lease["orchestrator"] # None => lease["orchestrator"].token \in Deployments
    BY <1>0 DEF TypeOK, Lease
  <2>6. TokenRetired'
    BY <2>1, <2>3, <2>5 DEF TokenRetired, Custody, Owner, Alive
  <2> QED BY <2>1, <2>2, <2>4, <2>6 DEF Custody, ReviewExcludesWriters, SettlementFrozen, ChildBound
<1>3. ASSUME NEW d \in Builders, UpdateSnapshot(d) PROVE Custody'
  <2> DEFINE s == SlotOf(d)
             new == [lease[s] EXCEPT !.auth = git]
  <2>1. s \in Slots /\ lease[s] \in Lease /\ lease[s] # None /\ new \in Lease
    BY <1>0, <1>3 DEF UpdateSnapshot, TypeOK, Lease
  <2>2. new.token = lease[s].token /\ new.dep = lease[s].dep /\ new.fp = lease[s].fp /\ new.busy = lease[s].busy
    BY <2>1 DEF Lease
  <2>3. ReplaceLease(s, new) /\ settlement = None /\ UNCHANGED <<proc, reg, borrower, review, settlement, phase>>
    BY <1>3 DEF UpdateSnapshot, SettlementPending
  <2> HIDE DEF s, new
  <2> QED BY <2>1, <2>2, <2>3, ReplaceKeepsCustody
<1>4. ASSUME NEW d \in Builders, TransferLease(d) PROVE Custody'
  <2> DEFINE s == SlotOf(d)
             new == [lease[s] EXCEPT !.fp = <<d, "runner">>]
  <2>1. s \in Slots /\ lease[s] \in Lease /\ lease[s] # None /\ new \in Lease
    BY <1>0, <1>4 DEF TransferLease, TypeOK, Lease
  <2>2. new.token = lease[s].token /\ new.dep = lease[s].dep /\ new.busy = lease[s].busy /\ new.fp = <<d, "runner">>
    BY <2>1 DEF Lease
  <2>3. borrower # None /\ s = "orchestrator" => lease[s].fp = <<d, "runner">>
    BY <1>4, <2>1 DEF TransferLease, Custody, ChildBound, Owner
  <2>4. ReplaceLease(s, new) /\ settlement = None /\ UNCHANGED <<proc, reg, borrower, review, settlement, phase>>
    BY <1>4 DEF TransferLease, SettlementPending
  <2> HIDE DEF s, new
  <2> QED BY <2>1, <2>2, <2>3, <2>4, ReplaceKeepsCustody
<1>5. ASSUME NEW d \in Builders, NEW s \in Slots, ReleaseLease(d, s) PROVE Custody'
  <2>1. /\ settlement = None /\ UNCHANGED <<proc, reg, borrower, review, settlement, phase>>
        /\ lease' = [lease EXCEPT ![s] = None]
        /\ s = "orchestrator" => borrower = None
    BY <1>5 DEF ReleaseLease, MayRelease, SettlementPending
  <2>2. s = "implement" \/ s = "orchestrator"
    BY DEF Slots
  <2> QED BY <2>1, <2>2 DEF Custody, SoleHolder, ReviewExcludesWriters, SettlementFrozen, Launches,
              TokenRetired, ChildBound, Owner, Alive, TypeOK
<1>6. ASSUME QuarantineLease PROVE Custody'
  <2>1. /\ settlement = None /\ UNCHANGED <<proc, reg, borrower, review, settlement, phase>>
        /\ lease' = [lease EXCEPT !["orchestrator"] = None]
        /\ Owner # None /\ Owner.dep \in OpenCode
    BY <1>6 DEF QuarantineLease, SettlementPending
  <2>2. borrower = None
    <3>1. borrower # None => borrower.parent \in Orchestrators /\ Owner.dep = borrower.parent
      BY <2>1 DEF Custody, ChildBound, TypeOK, Borrower
    <3> QED BY <2>1, <3>1, RolesAssumption
  <2> QED BY <2>1, <2>2 DEF Custody, SoleHolder, ReviewExcludesWriters, SettlementFrozen, Launches,
              TokenRetired, ChildBound, Owner, Alive, TypeOK
<1> QED BY <1>1, <1>2, <1>3, <1>4, <1>5, <1>6 DEF OwnerStep

LEMMA CustodyBorrower == TypeOK /\ Custody /\ BorrowerStep => Custody'
<1> SUFFICES ASSUME TypeOK, Custody, BorrowerStep PROVE Custody'
  OBVIOUS
<1> USE SlotsFacts, NoneAssumption
<1>0. Orchestrators \subseteq Deployments /\ Implementers \subseteq Deployments
  BY DEF Builders, Deployments
<1>a. lease["orchestrator"] # None => lease["orchestrator"].token \in Deployments
  BY DEF TypeOK, Lease, Deployments
\* Actions that write neither a lease nor the borrower.
<1>b. ASSUME UNCHANGED <<proc, reg, lease, borrower, review, settlement, phase>> PROVE Custody'
  BY <1>b DEF Custody, SoleHolder, ReviewExcludesWriters, SettlementFrozen, Launches,
              TokenRetired, ChildBound, Owner, Alive, Advanced
<1>1. ASSUME NEW o \in Orchestrators, PublishApproval(o) PROVE Custody'
  BY <1>1, <1>b DEF PublishApproval
<1>2. ASSUME NEW o \in Orchestrators, RemoveApproval(o) PROVE Custody'
  BY <1>2, <1>b DEF RemoveApproval
\* The parent's lease is kept, or moved to the child's branch.
<1>c. ASSUME NEW c \in Implementers, NEW o \in Orchestrators, MayBorrow(c, o)
      PROVE  /\ settlement = None /\ review = None /\ Owner \in Lease /\ Owner # None /\ Owner.dep = o
             /\ phase[Owner.token] = "launched"
             /\ Alive(<<Owner.token, "runner">>) => Owner.fp = <<Owner.token, "runner">>
             /\ proc[<<c, "launcher">>] = "alive" /\ phase[c] = "new"
  <2>1. /\ settlement = None /\ review = None /\ Owner \in Lease /\ Owner # None /\ Owner.dep = o
        /\ phase[o] = "launched" /\ (o \notin Foreground => Owner.fp = <<o, "runner">>)
        /\ proc[<<c, "launcher">>] = "alive" /\ phase[c] = "new"
    BY <1>c DEF MayBorrow, SettlementPending, LiveParent, LeaseLive, InLineage, Alive, Owner, TypeOK
  <2>2. Alive(<<o, "runner">>) => o \notin Foreground
    BY <1>0 DEF Custody, Launches, Alive
  <2>3. Owner.token # o => phase[Owner.token] = "launched" /\ ~Alive(<<Owner.token, "runner">>)
    BY <2>1 DEF Custody, TokenRetired
  <2> QED BY <2>1, <2>2, <2>3
<1>d. ASSUME Owner # None
      PROVE  \A new \in {[Owner EXCEPT !.auth = git, !.moved = TRUE], [Owner EXCEPT !.auth = git]} :
                /\ new \in Lease /\ new # None /\ new.token = Owner.token
                /\ new.dep = Owner.dep /\ new.fp = Owner.fp /\ new.busy = Owner.busy
  <2>1. Owner \in Lease /\ git \in Snap
    BY <1>d DEF Owner, TypeOK
  <2>2. [Owner EXCEPT !.auth = git, !.moved = TRUE] \in Lease /\ [Owner EXCEPT !.auth = git] \in Lease
    BY <2>1 DEF Lease
  <2>3. \A new \in {[Owner EXCEPT !.auth = git, !.moved = TRUE], [Owner EXCEPT !.auth = git]} :
          new.token = Owner.token /\ new.dep = Owner.dep /\ new.fp = Owner.fp /\ new.busy = Owner.busy
    BY <2>1 DEF Lease
  <2> QED BY <2>2, <2>3
<1>3. ASSUME NEW c \in Implementers, NEW o \in Orchestrators, RegisterBorrower(c, o) PROVE Custody'
  <2>1. MayBorrow(c, o) /\ SlotVacant /\ borrower' = NewBorrower(c, o)
        /\ phase' = [phase EXCEPT ![c] = "admitted"] /\ UNCHANGED <<proc, reg, git, review, settlement>>
    BY <1>3 DEF RegisterBorrower
  <2>2. /\ lease["implement"] = None /\ lease'["implement"] = None
        /\ Owner' # None /\ Owner'.token = Owner.token /\ Owner'.dep = Owner.dep /\ Owner'.fp = Owner.fp
    <3>1. lease["implement"] = None
      BY <2>1 DEF SlotVacant, Custody, SoleHolder
    <3>2. CASE UNCHANGED lease
      BY <1>c, <2>1, <3>1, <3>2 DEF Owner
    <3>3. CASE ReplaceLease("orchestrator", [Owner EXCEPT !.auth = git, !.moved = TRUE])
      <4>1. lease'["orchestrator"] = [Owner EXCEPT !.auth = git, !.moved = TRUE] /\ lease'["implement"] = lease["implement"]
        BY <3>3, ReplaceLeaseSlots
      <4> QED BY <1>c, <1>d, <2>1, <3>1, <4>1 DEF Owner
    <3>4. \/ UNCHANGED lease
          \/ ReplaceLease("orchestrator", [Owner EXCEPT !.auth = git, !.moved = TRUE])
      BY <1>3 DEF RegisterBorrower
    <3> QED BY <3>2, <3>3, <3>4
  <2>3. NewBorrower(c, o).dep = c /\ NewBorrower(c, o).parent = o /\ NewBorrower(c, o).fp = <<c, "launcher">>
        /\ NewBorrower(c, o).pfp = Owner.fp
    BY DEF NewBorrower
  <2>a. phase[c] = "new" /\ c \in Deployments
    BY <1>0, <1>c, <2>1
  <2>b. \A e \in Deployments : e # c => phase'[e] = phase[e]
    BY <2>1 DEF TypeOK
  <2>4. Launches'
    BY <2>1, <2>a, <2>b DEF Custody, Launches
  <2>5. \A e \in Deployments : phase[e] = "launched" => phase'[e] = "launched"
    BY <2>a, <2>b
  <2>6. TokenRetired'
    BY <1>a, <1>c, <2>1, <2>2, <2>5 DEF Custody, TokenRetired, Owner, Alive
  <2>7. ChildBound'
    BY <1>a, <1>c, <2>1, <2>2, <2>3, <2>5 DEF ChildBound, Owner, Alive
  <2>8. SoleHolder' /\ ReviewExcludesWriters' /\ SettlementFrozen'
    BY <1>c, <2>1, <2>2 DEF SoleHolder, ReviewExcludesWriters, SettlementFrozen
  <2> QED BY <2>4, <2>6, <2>7, <2>8 DEF Custody
<1>4. ASSUME NEW c \in Implementers, NEW o \in Orchestrators, RegisterRejected(c, o) PROVE Custody'
  BY <1>4, <1>b DEF RegisterRejected
\* A process of the child dies; leases keep token, owner and process.
<1>e. ASSUME NEW c \in Implementers, NEW p \in {<<c, "launcher">>, <<c, "runner">>}, Alive(p),
             proc' = [proc EXCEPT ![p] = "dead"]
      PROVE  /\ \A q \in Procs : (proc'[q] = "unborn" <=> proc[q] = "unborn") /\ (proc'[q] = "alive" => proc[q] = "alive")
             /\ p \in Procs /\ proc'[p] = "dead"
  <2>1. p \in Procs
    BY <1>0
  <2>2. proc'[p] = "dead" /\ \A q \in Procs \ {p} : proc'[q] = proc[q]
    BY <1>e, <2>1 DEF TypeOK
  <2> QED BY <1>e, <2>1, <2>2 DEF Alive
<1>5. ASSUME NEW c \in Implementers, NEW o \in Orchestrators, RegisterInterrupted(c, o) PROVE Custody'
  <2>1. /\ MayBorrow(c, o) /\ UNCHANGED <<reg, borrower, review, settlement, phase>>
        /\ proc' = [proc EXCEPT ![<<c, "launcher">>] = "dead"]
    BY <1>5 DEF RegisterInterrupted
  <2>2. \A q \in Procs : (proc'[q] = "unborn" <=> proc[q] = "unborn") /\ (proc'[q] = "alive" => proc[q] = "alive")
    BY <1>c, <1>e, <2>1 DEF Alive
  <2>3. /\ lease'["implement"] = lease["implement"]
        /\ Owner' # None /\ Owner'.token = Owner.token /\ Owner'.dep = Owner.dep /\ Owner'.fp = Owner.fp
    <3>1. CASE UNCHANGED lease
      BY <1>c, <2>1, <3>1 DEF Owner
    <3>2. CASE ReplaceLease("orchestrator", [Owner EXCEPT !.auth = git, !.moved = TRUE])
      <4>1. lease'["orchestrator"] = [Owner EXCEPT !.auth = git, !.moved = TRUE] /\ lease'["implement"] = lease["implement"]
        BY <3>2, ReplaceLeaseSlots
      <4> QED BY <1>c, <1>d, <2>1, <4>1 DEF Owner
    <3> QED BY <1>5, <3>1, <3>2 DEF RegisterInterrupted
  <2>4. Launches' /\ TokenRetired'
    BY <1>a, <1>c, <2>1, <2>2, <2>3 DEF Custody, Launches, TokenRetired, Owner, Alive
  <2>5. borrower # None => borrower.fp \in Procs /\ borrower.dep \in Deployments
    BY <1>0 DEF TypeOK, Borrower
  <2>6. ChildBound'
    BY <1>a, <1>c, <2>1, <2>2, <2>3, <2>5 DEF Custody, ChildBound, Owner, Alive
  <2>7. SoleHolder' /\ ReviewExcludesWriters' /\ SettlementFrozen'
    BY <1>c, <2>1, <2>3 DEF Custody, SoleHolder, ReviewExcludesWriters, SettlementFrozen, Owner
  <2> QED BY <2>4, <2>6, <2>7 DEF Custody
\* Actions that only rewrite or remove the borrower.
<1>f. ASSUME UNCHANGED <<proc, reg, lease, review, settlement, phase>>, settlement = None, borrower # None,
             borrower' # None =>
                /\ borrower'.fp \in {<<borrower'.dep, "launcher">>, <<borrower'.dep, "runner">>}
                /\ proc[borrower'.fp] # "unborn" /\ borrower'.parent = borrower.parent
                /\ borrower'.pfp = borrower.pfp /\ Owner # None
      PROVE  Custody'
  BY <1>f DEF Custody, SoleHolder, ReviewExcludesWriters, SettlementFrozen, Launches,
              TokenRetired, ChildBound, Owner, Alive
<1>6. ASSUME NEW c \in Implementers, TransferBorrower(c) PROVE Custody'
  <2>1. /\ borrower # None /\ settlement = None /\ borrower.dep = c /\ proc[<<c, "runner">>] = "alive"
        /\ UNCHANGED <<proc, reg, lease, review, settlement, phase>>
        /\ borrower' = [borrower EXCEPT !.fp = <<c, "runner">>]
    BY <1>6 DEF TransferBorrower, SettlementPending, Alive
  <2>2. borrower'.fp = <<c, "runner">> /\ borrower'.dep = c /\ borrower'.parent = borrower.parent
        /\ borrower'.pfp = borrower.pfp
    BY <2>1 DEF TypeOK, Borrower
  <2>3. Owner # None
    BY <2>1 DEF Custody, ChildBound, Alive
  <2> QED BY <2>1, <2>2, <2>3, <1>f
<1>7. ASSUME NEW c \in Implementers, ReleaseBorrower(c) PROVE Custody'
  BY <1>7, <1>f DEF ReleaseBorrower, SettlementPending
<1>8. ASSUME NEW c \in Implementers, FinalizeUncertain(c) PROVE Custody'
  <2>1. /\ borrower # None /\ settlement = None /\ Alive(borrower.fp)
        /\ UNCHANGED <<proc, reg, lease, review, settlement, phase>>
        /\ borrower' = [borrower EXCEPT !.fin = "finalizing"]
    BY <1>8 DEF FinalizeUncertain, SettlementPending, BorrowerLive
  <2>2. borrower'.fp = borrower.fp /\ borrower'.dep = borrower.dep /\ borrower'.parent = borrower.parent
        /\ borrower'.pfp = borrower.pfp
    BY <2>1 DEF TypeOK, Borrower
  <2>3. Owner # None /\ borrower.fp \in {<<borrower.dep, "launcher">>, <<borrower.dep, "runner">>} /\ proc[borrower.fp] # "unborn"
    BY <2>1 DEF Custody, ChildBound, Alive
  <2> QED BY <2>1, <2>2, <2>3, <1>f
\* What finalization, complete or not, does to the parent's lease.
<1>g. ASSUME \/ UNCHANGED lease
             \/ Owner # None /\ \/ ReplaceLease("orchestrator", [Owner EXCEPT !.auth = git])
                                \/ lease' = [lease EXCEPT !["orchestrator"] = [Owner EXCEPT !.auth = git]]
             \/ lease' = [lease EXCEPT !["orchestrator"] = None]
      PROVE  /\ lease'["implement"] = lease["implement"]
             /\ \/ Owner' = None
                \/ /\ Owner # None /\ Owner'.token = Owner.token /\ Owner'.dep = Owner.dep
                   /\ Owner'.fp = Owner.fp /\ Owner'.busy = Owner.busy
  <2>1. CASE UNCHANGED lease
    BY <2>1 DEF Owner
  <2>2. CASE Owner # None /\ \/ ReplaceLease("orchestrator", [Owner EXCEPT !.auth = git])
                             \/ lease' = [lease EXCEPT !["orchestrator"] = [Owner EXCEPT !.auth = git]]
    <3>1. lease'["orchestrator"] = [Owner EXCEPT !.auth = git] /\ lease'["implement"] = lease["implement"]
      BY <2>2, ReplaceLeaseSlots
    <3>2. Owner' = [Owner EXCEPT !.auth = git]
      BY <3>1 DEF Owner
    <3>3. LET new == [Owner EXCEPT !.auth = git]
          IN  new.token = Owner.token /\ new.dep = Owner.dep /\ new.fp = Owner.fp /\ new.busy = Owner.busy
      BY <1>d, <2>2
    <3>4. Owner'.token = Owner.token /\ Owner'.dep = Owner.dep /\ Owner'.fp = Owner.fp /\ Owner'.busy = Owner.busy
      BY <3>2, <3>3
    <3>5. Owner # None /\ lease'["implement"] = lease["implement"]
      BY <2>2, <3>1
    <3> QED BY <3>4, <3>5
  <2>3. CASE lease' = [lease EXCEPT !["orchestrator"] = None]
    BY <2>3 DEF Owner, TypeOK
  <2> QED BY <1>g, <2>1, <2>2, <2>3
<1>9. ASSUME NEW c \in Implementers, NEW advance \in BOOLEAN, FinalizeBorrower(c, advance) PROVE Custody'
  <2>1. /\ settlement = None /\ borrower # None /\ borrower' = None
        /\ UNCHANGED <<proc, reg, review, settlement, phase>>
    BY <1>9 DEF FinalizeBorrower, MayFinalize, SettlementPending
  <2>2. /\ lease'["implement"] = lease["implement"]
        /\ \/ Owner' = None
           \/ Owner # None /\ Owner'.token = Owner.token /\ Owner'.dep = Owner.dep
    BY <1>9, <1>g DEF FinalizeBorrower
  <2> QED BY <2>1, <2>2 DEF Custody, SoleHolder, ReviewExcludesWriters, SettlementFrozen, Launches,
              TokenRetired, ChildBound, Owner, Alive
<1>10. ASSUME NEW c \in Implementers, FinalizeInterrupted(c) PROVE Custody'
  <2>1. /\ settlement = None /\ borrower # None /\ borrower.dep = c
        /\ borrower' = [borrower EXCEPT !.fin = "finalized"]
        /\ borrower.fp \in InCharge(c)
        /\ (proc' = proc /\ lease' = lease /\ Owner # None) \/ proc' = [proc EXCEPT ![borrower.fp] = "dead"]
    BY <1>10 DEF FinalizeInterrupted, MayFinalize, SettlementPending
  <2>0. UNCHANGED <<reg, review, settlement, phase>>
    BY <1>10 DEF FinalizeInterrupted
  <2>2. borrower'.fp = borrower.fp /\ borrower'.dep = c /\ borrower'.parent = borrower.parent
        /\ borrower'.pfp = borrower.pfp /\ borrower'.fin = "finalized"
    BY <2>1 DEF TypeOK, Borrower
  <2>3. borrower.fp \in {<<c, "launcher">>, <<c, "runner">>} /\ Alive(borrower.fp)
        /\ (borrower.fp # <<c, "runner">> => ~Alive(<<c, "runner">>))
    BY <2>1 DEF InCharge, Running
  <2>4. \A q \in Procs : (proc'[q] = "unborn" <=> proc[q] = "unborn") /\ (proc'[q] = "alive" => proc[q] = "alive")
    BY <1>e, <2>1, <2>3
  <2>5. /\ lease'["implement"] = lease["implement"]
        /\ \/ Owner' = None
           \/ Owner # None /\ Owner'.token = Owner.token /\ Owner'.dep = Owner.dep /\ Owner'.fp = Owner.fp
    <3>1. CASE UNCHANGED lease
      BY <3>1 DEF Owner
    <3>2. CASE ~UNCHANGED lease
      BY <1>10, <1>g, <3>2 DEF FinalizeInterrupted
    <3> QED BY <3>1, <3>2
  <2>6. Owner' = None => proc'[borrower.fp] = "dead"
    BY <2>1, <2>3, <1>e DEF Owner
  <2>7. Launches' /\ TokenRetired'
    BY <1>a, <2>0, <2>4, <2>5 DEF Custody, Launches, TokenRetired, Owner, Alive
  <2>8. borrower.fp \in Procs /\ <<c, "runner">> \in Procs /\ proc[borrower.fp] # "unborn"
    BY <1>0, <2>3 DEF Alive
  <2>9. ChildBound'
    <3>1. Owner' = None => proc'[<<c, "runner">>] # "alive" /\ proc'[borrower.fp] # "alive"
      BY <2>3, <2>4, <2>6, <2>8 DEF Alive
    <3>2. ASSUME Owner' # None
          PROVE  /\ Owner'.dep = borrower.parent /\ Owner'.fp = borrower.pfp
                 /\ phase[Owner'.token] = "launched"
                 /\ proc'[<<Owner'.token, "runner">>] = "alive" => Owner'.fp = <<Owner'.token, "runner">>
      <4>1. Owner # None /\ <<Owner.token, "runner">> \in Procs
        BY <1>a, <2>5, <3>2 DEF Owner
      <4> QED BY <2>1, <2>4, <2>5, <3>2, <4>1 DEF Custody, ChildBound, Alive
    <3> QED BY <2>0, <2>1, <2>2, <2>3, <2>4, <2>8, <3>1, <3>2 DEF ChildBound, Alive
  <2>10. SoleHolder' /\ ReviewExcludesWriters' /\ SettlementFrozen'
    BY <2>0, <2>1, <2>5 DEF Custody, SoleHolder, ReviewExcludesWriters, SettlementFrozen, Owner
  <2> QED BY <2>7, <2>9, <2>10 DEF Custody
<1> QED BY <1>1, <1>2, <1>3, <1>4, <1>5, <1>6, <1>7, <1>8, <1>9, <1>10 DEF BorrowerStep

LEMMA CustodySettlement == TypeOK /\ Custody /\ SettlementStep => Custody'
<1> SUFFICES ASSUME TypeOK, Custody, SettlementStep PROVE Custody'
  OBVIOUS
<1> USE SlotsFacts, NoneAssumption
<1>1. ASSUME NEW c \in Implementers, NEW inScope \in BOOLEAN, SettlementIntent(c, inScope) PROVE Custody'
  <2>1. /\ UNCHANGED <<proc, reg, lease, borrower, review, phase>>
        /\ settlement' = [borrower |-> borrower, parent |-> Owner, final |-> git,
                          inScope |-> inScope, stage |-> "intent"]
        /\ borrower # None /\ review = None /\ lease["implement"] = None
    BY <1>1 DEF SettlementIntent
  <2> QED BY <2>1 DEF Custody, SoleHolder, ReviewExcludesWriters, SettlementFrozen, Launches,
              TokenRetired, ChildBound, Owner, Alive
\* A stage is recorded: the rest of the record stays.
<1>a. ASSUME NEW stage, NEW next \in {"intent", "lease", "published", "cleanup"}, Record(stage, next)
      PROVE  /\ settlement # None /\ settlement.stage = stage /\ settlement' # None
             /\ settlement'.stage = next /\ settlement'.borrower = settlement.borrower
             /\ Advanced(settlement') = Advanced(settlement) /\ settlement'.parent = settlement.parent
  <2>1. /\ settlement \in Settlement /\ settlement' = [settlement EXCEPT !.stage = next]
        /\ settlement.stage = stage
    BY <1>a DEF Record, SettlementPending, TypeOK
  <2>2. settlement' \in Settlement
    BY <2>1 DEF Settlement
  <2> QED BY <2>1, <2>2 DEF Settlement, Advanced
\* A stage is recorded whose effect the files show.
<1>b. ASSUME NEW stage, NEW next \in {"lease", "published", "cleanup"}, Record(stage, next),
             UNCHANGED <<proc, reg, lease, borrower, review, phase>>,
             Owner = Advanced(settlement), stage # "intent" \/ next = "lease",
             next = "lease" => stage = "intent", next = "cleanup" => borrower = None
      PROVE  Custody'
  <2>1. SettlementFrozen'
    BY <1>a, <1>b DEF Custody, SettlementFrozen, Owner
  <2> QED BY <1>a, <1>b, <2>1 DEF Custody, SoleHolder, ReviewExcludesWriters, Launches,
              TokenRetired, ChildBound, Owner, Alive
<1>2. ASSUME SettleLease PROVE Custody'
  <2>1. /\ settlement # None /\ settlement.stage = "intent" /\ Owner # None
        /\ ReplaceLease("orchestrator", Advanced(settlement))
        /\ UNCHANGED <<proc, reg, borrower, review, settlement, phase>>
    BY <1>2 DEF SettleLease, SettlementValid, SettlementPending, LiveParent, LeaseLive, Owner
  <2>2. lease'["orchestrator"] = Advanced(settlement) /\ lease'["implement"] = lease["implement"]
    BY <2>1, ReplaceLeaseSlots
  <2>3. Owner \in {settlement.parent, Advanced(settlement)} /\ borrower # None
        /\ review = None /\ lease["implement"] = None
    BY <2>1 DEF Custody, SettlementFrozen
  <2>4. Advanced(settlement) \in Lease /\ Advanced(settlement).token = Owner.token
        /\ Advanced(settlement).dep = Owner.dep /\ Advanced(settlement).fp = Owner.fp
    <3>1. settlement \in Settlement
      BY <2>1 DEF TypeOK
    <3>2. /\ Advanced(settlement) \in Lease /\ Advanced(settlement).token = settlement.parent.token
          /\ Advanced(settlement).dep = settlement.parent.dep /\ Advanced(settlement).fp = settlement.parent.fp
      BY <3>1 DEF Advanced, Settlement, Lease
    <3> QED BY <2>3, <3>2
  <2>5. SettlementFrozen'
    BY <2>1, <2>2, <2>3 DEF Custody, SettlementFrozen, Owner
  <2>6. SoleHolder' /\ ReviewExcludesWriters'
    BY <2>1, <2>2, <2>3 DEF SoleHolder, ReviewExcludesWriters
  <2>7. Launches' /\ TokenRetired' /\ ChildBound'
    BY <2>1, <2>2, <2>4 DEF Custody, Launches, TokenRetired, ChildBound, Owner, Alive
  <2> QED BY <2>5, <2>6, <2>7 DEF Custody
<1>3. ASSUME RecordLease PROVE Custody'
  <2>1. Record("intent", "lease") /\ Owner = Advanced(settlement)
        /\ UNCHANGED <<proc, reg, lease, borrower, review, phase>>
    BY <1>3 DEF RecordLease
  <2> QED BY <1>b, <2>1
<1>4. ASSUME SettlePublished PROVE Custody'
  <2>1. Record("lease", "published") /\ Owner = Advanced(settlement)
        /\ UNCHANGED <<proc, reg, lease, borrower, review, phase>>
    BY <1>4 DEF SettlePublished
  <2> QED BY <1>b, <2>1
<1>5. ASSUME SettleCleanup PROVE Custody'
  <2>1. /\ settlement # None /\ settlement.stage = "published" /\ borrower' = None
        /\ UNCHANGED <<proc, reg, lease, review, settlement, phase>>
    BY <1>5 DEF SettleCleanup, SettlementValid, SettlementPending
  <2>2. SettlementFrozen'
    BY <2>1 DEF Custody, SettlementFrozen, Owner, Advanced
  <2> QED BY <2>1, <2>2 DEF Custody, SoleHolder, ReviewExcludesWriters, SettlementFrozen, Launches,
              TokenRetired, ChildBound, Owner, Alive
<1>6. ASSUME RecordCleanup PROVE Custody'
  <2>1. Record("published", "cleanup") /\ borrower = None
        /\ UNCHANGED <<proc, reg, lease, borrower, review, phase>>
    BY <1>6 DEF RecordCleanup
  <2>2. Owner = Advanced(settlement)
    BY <1>a, <2>1 DEF Custody, SettlementFrozen
  <2> QED BY <1>b, <2>1, <2>2
<1>7. ASSUME SettleComplete PROVE Custody'
  <2>1. settlement' = None /\ UNCHANGED <<proc, reg, lease, borrower, review, phase>>
    BY <1>7 DEF SettleComplete
  <2> QED BY <2>1 DEF Custody, SoleHolder, ReviewExcludesWriters, SettlementFrozen, Launches,
              TokenRetired, ChildBound, Owner, Alive
<1> QED BY <1>1, <1>2, <1>3, <1>4, <1>5, <1>6, <1>7 DEF SettlementStep

LEMMA CustodyReview == TypeOK /\ Custody /\ ReviewStep => Custody'
<1> SUFFICES ASSUME TypeOK, Custody, NEW r \in Reviewers, ReserveReview(r) \/ StartReview(r) \/ FinalizeReview(r)
             PROVE  Custody'
  BY DEF ReviewStep
<1> USE SlotsFacts, NoneAssumption
<1>0. r \in Deployments /\ r \notin Builders
  BY RolesAssumption DEF Deployments
<1>1. CASE ReserveReview(r)
  <2>1. /\ settlement = None /\ borrower = None /\ lease["implement"] = None
        /\ Owner # None => ~Owner.busy
        /\ UNCHANGED <<proc, reg, lease, borrower, settlement>>
        /\ phase' = [phase EXCEPT ![r] = "admitted"] /\ phase[r] = "new"
    BY <1>1 DEF ReserveReview, IdleCustody, SettlementPending
  <2>2. \A e \in Deployments : e # r => phase'[e] = phase[e]
    BY <2>1 DEF TypeOK
  <2>3. Launches'
    BY <1>0, <2>1, <2>2 DEF Custody, Launches
  <2>4. Owner # None => Owner.token \in Deployments /\ Owner.token # r
    BY <1>0 DEF TypeOK, Lease, Owner, Deployments
  <2>5. TokenRetired'
    BY <2>1, <2>2, <2>4 DEF Custody, TokenRetired, Owner, Alive
  <2> QED BY <2>1, <2>3, <2>5 DEF Custody, SoleHolder, ReviewExcludesWriters, SettlementFrozen, ChildBound, Owner
<1>2. CASE StartReview(r)
  <2>1. review # None /\ UNCHANGED <<proc, reg, lease, borrower, settlement, phase>>
    BY <1>2 DEF StartReview
  <2> QED BY <2>1 DEF Custody, SoleHolder, ReviewExcludesWriters, SettlementFrozen, Launches,
              TokenRetired, ChildBound, Owner, Alive
<1>3. CASE FinalizeReview(r)
  <2>1. review' = None /\ review # None /\ UNCHANGED <<proc, reg, lease, borrower, settlement, phase>>
    BY <1>3 DEF FinalizeReview
  <2> QED BY <2>1 DEF Custody, SoleHolder, ReviewExcludesWriters, SettlementFrozen, Launches,
              TokenRetired, ChildBound, Owner, Alive
<1> QED BY <1>1, <1>2, <1>3

LEMMA CustodyCustody == TypeOK /\ Custody /\ CustodyStep => Custody'
<1> SUFFICES ASSUME TypeOK, Custody, CustodyStep PROVE Custody'
  OBVIOUS
<1> USE SlotsFacts, NoneAssumption
<1>0. Orchestrators \subseteq Builders /\ Builders \subseteq Deployments /\ git \in Snap
  BY DEF Builders, Deployments, TypeOK
<1>1. ASSUME NEW d \in Builders, NEW p \in Procs, BeginAdvisory(d, p) PROVE Custody'
  <2> DEFINE s == SlotOf(d)
             new == [lease[s] EXCEPT !.busy = TRUE, !.op = p]
  <2>1. s \in Slots /\ lease[s] \in Lease /\ lease[s] # None
    BY <1>0, <1>1 DEF BeginAdvisory, AdvisoryOwner, LeaseLive, TypeOK
  <2>2. new \in Lease /\ new.token = lease[s].token /\ new.dep = lease[s].dep /\ new.fp = lease[s].fp
    BY <2>1 DEF Lease
  <2>3. ReplaceLease(s, new) /\ settlement = None /\ review = None
        /\ UNCHANGED <<proc, reg, borrower, review, settlement, phase>>
    BY <1>1 DEF BeginAdvisory, AdvisoryOwner, SettlementPending
  <2> HIDE DEF s, new
  <2> QED BY <2>1, <2>2, <2>3, ReplaceKeepsCustody
<1>2. ASSUME NEW d \in Builders, NEW p \in Procs, FinishAdvisory(d, p) PROVE Custody'
  <2> DEFINE s == SlotOf(d)
             new == [lease[s] EXCEPT !.busy = FALSE, !.op = None, !.auth = git]
  <2>1. s \in Slots /\ lease[s] \in Lease /\ lease[s] # None
    BY <1>0, <1>2 DEF FinishAdvisory, AdvisoryOwner, LeaseLive, TypeOK
  <2>2. new \in Lease /\ new.token = lease[s].token /\ new.dep = lease[s].dep /\ new.fp = lease[s].fp
    BY <1>0, <2>1 DEF Lease
  <2>3. ReplaceLease(s, new) /\ settlement = None /\ review = None
        /\ UNCHANGED <<proc, reg, borrower, review, settlement, phase>>
    BY <1>2 DEF FinishAdvisory, AdvisoryOwner, SettlementPending
  <2> HIDE DEF s, new
  <2> QED BY <2>1, <2>2, <2>3, ReplaceKeepsCustody
<1>3. ASSUME NEW o \in Orchestrators, NEW active \in BOOLEAN, SetDirectCustody(o, active) PROVE Custody'
  <2> DEFINE new == [Owner EXCEPT !.busy = active]
  <2>1. Owner \in Lease /\ Owner # None
    BY <1>3 DEF SetDirectCustody, LiveParent, LeaseLive, Owner, TypeOK
  <2>2. new \in Lease /\ new.token = Owner.token /\ new.dep = Owner.dep /\ new.fp = Owner.fp
    BY <2>1 DEF Lease
  <2>3. ReplaceLease("orchestrator", new) /\ settlement = None /\ review = None
        /\ UNCHANGED <<proc, reg, borrower, review, settlement, phase>>
    BY <1>3 DEF SetDirectCustody, NoOverlap, SettlementPending
  <2> HIDE DEF new
  <2> QED BY <2>1, <2>2, <2>3, ReplaceKeepsCustody DEF Owner
<1>4. ASSUME NEW o \in Orchestrators, AdvanceDirectSnapshot(o) PROVE Custody'
  <2> DEFINE new == [Owner EXCEPT !.auth = git]
  <2>1. Owner \in Lease /\ Owner # None
    BY <1>4 DEF AdvanceDirectSnapshot, LiveParent, LeaseLive, Owner, TypeOK
  <2>2. new \in Lease /\ new.token = Owner.token /\ new.dep = Owner.dep /\ new.fp = Owner.fp
    BY <1>0, <2>1 DEF Lease
  <2>3. ReplaceLease("orchestrator", new) /\ settlement = None /\ review = None
        /\ UNCHANGED <<proc, reg, borrower, review, settlement, phase>>
    BY <1>4 DEF AdvanceDirectSnapshot, NoOverlap, SettlementPending
  <2> HIDE DEF new
  <2> QED BY <2>1, <2>2, <2>3, ReplaceKeepsCustody DEF Owner
<1>5. ASSUME NEW o \in Orchestrators, NEW n \in Orchestrators, HandoffDirectOwner(o, n) PROVE Custody'
  <2>1. /\ settlement = None /\ review = None /\ borrower = None /\ lease["implement"] = None
        /\ Owner \in Lease /\ Owner # None /\ Owner.dep = o /\ phase[o] = "launched" /\ ~Alive(Holder(o))
        /\ n # o /\ phase[n] = "new" /\ phase' = [phase EXCEPT ![n] = "admitted"]
        /\ ReplaceLease("orchestrator", [Owner EXCEPT !.dep = n, !.fp = <<n, "launcher">>])
        /\ UNCHANGED <<proc, reg, borrower, review, settlement>>
    BY <1>5 DEF HandoffDirectOwner, NoOverlap, SettlementPending, PredecessorGone, TypeOK, Owner
  <2>2. Owner' = [Owner EXCEPT !.dep = n, !.fp = <<n, "launcher">>] /\ lease'["implement"] = None
    BY <2>1, ReplaceLeaseSlots DEF Owner
  <2>3. Owner'.token = Owner.token /\ Owner.token \in Deployments
    BY <2>1, <2>2 DEF Lease, Deployments
  <2>4. \A e \in Deployments : e # n => phase'[e] = phase[e]
    BY <2>1 DEF TypeOK
  <2>5. Launches'
    BY <1>0, <2>1, <2>4 DEF Custody, Launches
  <2>6. ~Alive(<<o, "runner">>)
    BY <1>0, <2>1 DEF Holder, Custody, Launches, Alive
  <2>7. phase[Owner.token] = "launched" /\ ~Alive(<<Owner.token, "runner">>)
    BY <2>1, <2>6 DEF Custody, TokenRetired
  <2>8. TokenRetired'
    BY <2>1, <2>3, <2>4, <2>7 DEF TokenRetired, Alive
  <2> QED BY <2>1, <2>2, <2>5, <2>8 DEF Custody, SoleHolder, ReviewExcludesWriters, SettlementFrozen, ChildBound
<1> QED BY <1>1, <1>2, <1>3, <1>4, <1>5 DEF CustodyStep

LEMMA CustodyStutter == Custody /\ UNCHANGED vars => Custody'
BY DEF vars, files, Custody, SoleHolder, ReviewExcludesWriters, SettlementFrozen, Launches,
     TokenRetired, ChildBound, Owner, Alive, Advanced

\* The ownership evidence of a worktree is consistent in every reachable state.
THEOREM CustodyInvariant == Spec => []Custody
<1>1. TypeOK /\ Custody /\ [Next]_vars => Custody'
  BY CustodyWorld, CustodyOwner, CustodyBorrower, CustodySettlement, CustodyReview, CustodyCustody,
     CustodyStutter DEF Next
<1> QED BY <1>1, CustodyInit, TypeCorrect, PTL DEF Spec

\* A linked worktree never has two source holders: SoleHolder.
THEOREM OneSourceHolder == Spec => []SoleHolder
BY CustodyInvariant, PTL DEF Custody

\* Child evidence never outlives the lease it borrows from: BorrowedFromParent.
THEOREM ChildHasParent == Spec => []BorrowedFromParent
<1>1. Custody => BorrowedFromParent
  BY DEF Custody, ChildBound, BorrowedFromParent
<1> QED BY <1>1, CustodyInvariant, PTL

\* A review reservation keeps writers out: ReviewExcludesWriters.
THEOREM ReviewIsExclusive == Spec => []ReviewExcludesWriters
BY CustodyInvariant, PTL DEF Custody

\* The evidence of an unresolved settlement is frozen: SettlementFrozen.
THEOREM SettlementIsFrozen == Spec => []SettlementFrozen
BY CustodyInvariant, PTL DEF Custody

-----------------------------------------------------------------------------
(* What a step may never do.                                               *)

\* A step that replaces one lease and keeps its token and owner displaces nobody.
LEMMA ReplaceDisplacesNobody ==
    ASSUME TypeOK, NEW s \in Slots, NEW new \in Lease, lease[s] # None,
           ReplaceLease(s, new) \/ lease' = [lease EXCEPT ![s] = new],
           new.token = lease[s].token, new.dep = lease[s].dep
    PROVE  ChildExcludes /\ OwnerKept
<1>1. lease'[s] = new /\ new # None /\ \A t \in Slots : t # s => lease'[t] = lease[t]
  BY ReplaceLeaseSlots, NoneAssumption
<1> QED BY <1>1 DEF ChildExcludes, OwnerKept, LeaseLive

\* Neither does a step that writes no lease.
LEMMA SameLeases == lease' = lease => ChildExcludes /\ OwnerKept
BY DEF ChildExcludes, OwnerKept, LeaseLive

LEMMA OwnerDisplacesNobody == TypeOK /\ Custody /\ OwnerStep => ChildExcludes /\ OwnerKept
<1> SUFFICES ASSUME TypeOK, Custody, OwnerStep PROVE ChildExcludes /\ OwnerKept
  OBVIOUS
<1> USE SlotsFacts, NoneAssumption
<1>0. Builders \subseteq Deployments /\ OpenCode \subseteq Builders
  BY DEF Builders, Deployments
<1>1. ASSUME NEW d \in Builders, NEW force \in BOOLEAN, AcquireLease(d, force) PROVE ChildExcludes /\ OwnerKept
  <2>1. ~BorrowerLive /\ ~LeaseLive(SlotOf(d)) /\ \A t \in Slots : t # SlotOf(d) => lease'[t] = lease[t]
    BY <1>0, <1>1 DEF AcquireLease, AdmitsOwner, TypeOK
  <2> QED BY <2>1 DEF ChildExcludes, OwnerKept, LeaseLive
<1>2. ASSUME NEW d \in OpenCode, AcquireInterrupted(d) PROVE ChildExcludes /\ OwnerKept
  <2>1. ~BorrowerLive /\ ~LeaseLive(SlotOf(d)) /\ \A t \in Slots : t # SlotOf(d) => lease'[t] = lease[t]
    BY <1>0, <1>2 DEF AcquireInterrupted, AdmitsOwner, TypeOK
  <2> QED BY <2>1 DEF ChildExcludes, OwnerKept, LeaseLive
<1>3. ASSUME NEW d \in Builders, UpdateSnapshot(d) PROVE ChildExcludes /\ OwnerKept
  <2>1. lease[SlotOf(d)] \in Lease /\ lease[SlotOf(d)] # None /\ git \in Snap
    BY <1>0, <1>3 DEF UpdateSnapshot, TypeOK
  <2>2. [lease[SlotOf(d)] EXCEPT !.auth = git] \in Lease
        /\ [lease[SlotOf(d)] EXCEPT !.auth = git].token = lease[SlotOf(d)].token
        /\ [lease[SlotOf(d)] EXCEPT !.auth = git].dep = lease[SlotOf(d)].dep
    BY <2>1 DEF Lease
  <2> QED BY <1>0, <1>3, <2>1, <2>2, ReplaceDisplacesNobody DEF UpdateSnapshot
<1>4. ASSUME NEW d \in Builders, TransferLease(d) PROVE ChildExcludes /\ OwnerKept
  <2>1. lease[SlotOf(d)] \in Lease /\ lease[SlotOf(d)] # None
    BY <1>0, <1>4 DEF TransferLease, TypeOK
  <2>2. [lease[SlotOf(d)] EXCEPT !.fp = <<d, "runner">>] \in Lease
        /\ [lease[SlotOf(d)] EXCEPT !.fp = <<d, "runner">>].token = lease[SlotOf(d)].token
        /\ [lease[SlotOf(d)] EXCEPT !.fp = <<d, "runner">>].dep = lease[SlotOf(d)].dep
    BY <1>0, <2>1 DEF Lease
  <2> QED BY <1>0, <1>4, <2>1, <2>2, ReplaceDisplacesNobody DEF TransferLease
<1>5. ASSUME NEW d \in Builders, NEW s \in Slots, ReleaseLease(d, s) PROVE ChildExcludes /\ OwnerKept
  <2>1. lease'[s] = None /\ \A t \in Slots : t # s => lease'[t] = lease[t]
    BY <1>5 DEF ReleaseLease, TypeOK
  <2>2. settlement = None /\ ~lease[s].busy /\ lease[s].op = None /\ (s = "orchestrator" => borrower = None)
    BY <1>5 DEF ReleaseLease, MayRelease, SettlementPending
  <2> QED BY <2>1, <2>2 DEF ChildExcludes, OwnerKept, LeaseLive
<1>6. ASSUME QuarantineLease PROVE ChildExcludes /\ OwnerKept
  <2>1. ~LeaseLive("orchestrator") /\ lease'["orchestrator"] = None /\ lease'["implement"] = lease["implement"]
    BY <1>6 DEF QuarantineLease, TypeOK
  <2> QED BY <2>1 DEF ChildExcludes, OwnerKept, LeaseLive, Slots
<1> QED BY <1>1, <1>2, <1>3, <1>4, <1>5, <1>6 DEF OwnerStep

LEMMA BorrowerDisplacesNobody == TypeOK /\ Custody /\ BorrowerStep => ChildExcludes /\ OwnerKept
<1> SUFFICES ASSUME TypeOK, Custody, BorrowerStep PROVE ChildExcludes /\ OwnerKept
  OBVIOUS
<1> USE SlotsFacts, NoneAssumption
<1>1. ASSUME Owner # None,
             \/ ReplaceLease("orchestrator", [Owner EXCEPT !.auth = git])
             \/ lease' = [lease EXCEPT !["orchestrator"] = [Owner EXCEPT !.auth = git]]
             \/ ReplaceLease("orchestrator", [Owner EXCEPT !.auth = git, !.moved = TRUE])
      PROVE  ChildExcludes /\ OwnerKept
  <2>1. Owner \in Lease /\ git \in Snap
    BY <1>1 DEF TypeOK, Owner
  <2>2. /\ [Owner EXCEPT !.auth = git] \in Lease /\ [Owner EXCEPT !.auth = git, !.moved = TRUE] \in Lease
        /\ [Owner EXCEPT !.auth = git].token = Owner.token /\ [Owner EXCEPT !.auth = git].dep = Owner.dep
        /\ [Owner EXCEPT !.auth = git, !.moved = TRUE].token = Owner.token
        /\ [Owner EXCEPT !.auth = git, !.moved = TRUE].dep = Owner.dep
    BY <2>1 DEF Lease
  <2> QED BY <1>1, <2>2, ReplaceDisplacesNobody DEF Owner
\* A child's finalization closes the lease of a parent that no longer serves.
<1>2. ASSUME Owner # None, ~ParentServing, lease' = [lease EXCEPT !["orchestrator"] = None]
      PROVE  ChildExcludes /\ OwnerKept
  <2>1. lease'["orchestrator"] = None /\ lease'["implement"] = lease["implement"]
        /\ ~(LeaseLive("orchestrator") /\ reg[lease["orchestrator"].dep] = "running")
    BY <1>2 DEF ParentServing, Owner, TypeOK
  <2> QED BY <2>1 DEF ChildExcludes, OwnerKept, Slots, LeaseLive
<1>3. ASSUME NEW c \in Implementers, NEW o \in Orchestrators,
             RegisterBorrower(c, o) \/ RegisterRejected(c, o) \/ RegisterInterrupted(c, o)
      PROVE  ChildExcludes /\ OwnerKept
  <2>1. RegisterBorrower(c, o) \/ RegisterInterrupted(c, o) => Owner # None
    BY DEF RegisterBorrower, RegisterInterrupted, MayBorrow, LiveParent, LeaseLive, Owner
  <2>2. \/ lease' = lease
        \/ Owner # None /\ ReplaceLease("orchestrator", [Owner EXCEPT !.auth = git, !.moved = TRUE])
    BY <1>3, <2>1 DEF RegisterBorrower, RegisterRejected, RegisterInterrupted
  <2> QED BY <1>1, <2>2, SameLeases
<1>4. ASSUME NEW c \in Implementers, NEW advance \in BOOLEAN, FinalizeBorrower(c, advance)
      PROVE  ChildExcludes /\ OwnerKept
  <2>1. \/ lease' = lease
        \/ Owner # None /\ lease' = [lease EXCEPT !["orchestrator"] = [Owner EXCEPT !.auth = git]]
        \/ Owner # None /\ ~ParentServing /\ lease' = [lease EXCEPT !["orchestrator"] = None]
    BY <1>4 DEF FinalizeBorrower
  <2> QED BY <1>1, <1>2, <2>1, SameLeases
<1>5. ASSUME NEW c \in Implementers, FinalizeInterrupted(c) PROVE ChildExcludes /\ OwnerKept
  <2>1. \/ lease' = lease
        \/ Owner # None /\ ReplaceLease("orchestrator", [Owner EXCEPT !.auth = git])
        \/ Owner # None /\ ~ParentServing /\ lease' = [lease EXCEPT !["orchestrator"] = None]
    BY <1>5 DEF FinalizeInterrupted
  <2> QED BY <1>1, <1>2, <2>1, SameLeases
<1>6. ASSUME NEW c \in Implementers, TransferBorrower(c) \/ ReleaseBorrower(c) \/ FinalizeUncertain(c)
      PROVE  ChildExcludes /\ OwnerKept
  BY <1>6, SameLeases DEF TransferBorrower, ReleaseBorrower, FinalizeUncertain
<1>7. ASSUME NEW o \in Orchestrators, PublishApproval(o) \/ RemoveApproval(o) PROVE ChildExcludes /\ OwnerKept
  BY <1>7, SameLeases DEF PublishApproval, RemoveApproval
<1> QED BY <1>3, <1>4, <1>5, <1>6, <1>7 DEF BorrowerStep

LEMMA OthersDisplaceNobody ==
    TypeOK /\ Custody /\ (World \/ SettlementStep \/ ReviewStep \/ CustodyStep \/ UNCHANGED vars)
        => ChildExcludes /\ OwnerKept
<1> SUFFICES ASSUME TypeOK, Custody, World \/ SettlementStep \/ ReviewStep \/ CustodyStep \/ UNCHANGED vars
             PROVE  ChildExcludes /\ OwnerKept
  OBVIOUS
<1> USE SlotsFacts, NoneAssumption
<1>0. Orchestrators \subseteq Builders /\ Builders \subseteq Deployments /\ git \in Snap
  BY DEF Builders, Deployments, TypeOK
<1>1. CASE World
  BY <1>1, SameLeases DEF World, Start, Launch, Terminate, Die, GitChange, files
<1>2. CASE ReviewStep
  BY <1>2, SameLeases DEF ReviewStep, ReserveReview, StartReview, FinalizeReview
<1>3. CASE SettlementStep
  <2>1. CASE SettleLease
    <3>1. /\ settlement \in Settlement /\ Owner # None
          /\ Owner \in {settlement.parent, Advanced(settlement)}
          /\ ReplaceLease("orchestrator", Advanced(settlement))
      BY <2>1 DEF SettleLease, SettlementValid, SettlementPending, TypeOK, LiveParent, LeaseLive, Owner
    <3>2. /\ Advanced(settlement) \in Lease /\ Advanced(settlement).token = settlement.parent.token
          /\ Advanced(settlement).dep = settlement.parent.dep
      BY <3>1 DEF Advanced, Settlement, Lease
    <3>3. Advanced(settlement).token = Owner.token /\ Advanced(settlement).dep = Owner.dep
      BY <3>1, <3>2
    <3> QED BY <3>1, <3>2, <3>3, ReplaceDisplacesNobody DEF Owner
  <2>2. CASE ~SettleLease
    BY <1>3, <2>2, SameLeases DEF SettlementStep, SettlementIntent, RecordLease, SettlePublished,
         SettleCleanup, RecordCleanup, SettleComplete
  <2> QED BY <2>1, <2>2
<1>4. CASE CustodyStep
  <2>1. ASSUME NEW d \in Builders, NEW p \in Procs, BeginAdvisory(d, p) \/ FinishAdvisory(d, p)
        PROVE  ChildExcludes /\ OwnerKept
    <3> DEFINE s == SlotOf(d)
               on == [lease[s] EXCEPT !.busy = TRUE, !.op = p]
               off == [lease[s] EXCEPT !.busy = FALSE, !.op = None, !.auth = git]
    <3>1. s \in Slots /\ lease[s] \in Lease /\ lease[s] # None /\ (ReplaceLease(s, on) \/ ReplaceLease(s, off))
      BY <1>0, <2>1 DEF BeginAdvisory, FinishAdvisory, AdvisoryOwner, LeaseLive, TypeOK
    <3>2. /\ on \in Lease /\ on.token = lease[s].token /\ on.dep = lease[s].dep
          /\ off \in Lease /\ off.token = lease[s].token /\ off.dep = lease[s].dep
      BY <1>0, <3>1 DEF Lease
    <3> HIDE DEF s, on, off
    <3> QED BY <3>1, <3>2, ReplaceDisplacesNobody
  <2>2. ASSUME NEW o \in Orchestrators, NEW active \in BOOLEAN, SetDirectCustody(o, active) \/ AdvanceDirectSnapshot(o)
        PROVE  ChildExcludes /\ OwnerKept
    <3> DEFINE set == [Owner EXCEPT !.busy = active]
               adv == [Owner EXCEPT !.auth = git]
    <3>1. Owner \in Lease /\ Owner # None /\ (ReplaceLease("orchestrator", set) \/ ReplaceLease("orchestrator", adv))
      BY <2>2 DEF SetDirectCustody, AdvanceDirectSnapshot, LiveParent, LeaseLive, Owner, TypeOK
    <3>2. /\ set \in Lease /\ set.token = Owner.token /\ set.dep = Owner.dep
          /\ adv \in Lease /\ adv.token = Owner.token /\ adv.dep = Owner.dep
      BY <1>0, <3>1 DEF Lease
    <3> HIDE DEF set, adv
    <3> QED BY <3>1, <3>2, ReplaceDisplacesNobody DEF Owner
  <2>3. ASSUME NEW o \in Orchestrators, NEW n \in Orchestrators, HandoffDirectOwner(o, n)
        PROVE  ChildExcludes /\ OwnerKept
    <3>1. /\ borrower = None /\ ~LeaseLive("orchestrator") /\ Owner # None
          /\ ReplaceLease("orchestrator", [Owner EXCEPT !.dep = n, !.fp = <<n, "launcher">>])
      BY <2>3 DEF HandoffDirectOwner, NoOverlap, PredecessorGone, LeaseLive, Owner
    <3>2. lease'["implement"] = lease["implement"]
      BY <3>1, ReplaceLeaseSlots
    <3> QED BY <3>1, <3>2 DEF ChildExcludes, OwnerKept, BorrowerLive, LeaseLive, Slots
  <2> QED BY <1>4, <2>1, <2>2, <2>3 DEF CustodyStep
<1>5. CASE UNCHANGED vars
  BY <1>5, SameLeases DEF vars, files
<1> QED BY <1>1, <1>2, <1>3, <1>4, <1>5

LEMMA StepDisplacesNobody == TypeOK /\ Custody /\ [Next]_vars => ChildExcludes /\ OwnerKept
BY OwnerDisplacesNobody, BorrowerDisplacesNobody, OthersDisplaceNobody DEF Next

\* A live, running owner is never displaced, whatever the request: LiveOwnerKept.
THEOREM LiveOwnerIsKept == Spec => LiveOwnerKept
<1>1. TypeOK /\ Custody /\ [Next]_vars => [OwnerKept]_vars
  BY StepDisplacesNobody
<1> QED BY <1>1, TypeCorrect, CustodyInvariant, PTL DEF Spec, LiveOwnerKept

\* While a child runs no request takes a slot: LiveChildExcludes.
THEOREM LiveChildBars == Spec => LiveChildExcludes
<1>1. TypeOK /\ Custody /\ [Next]_vars => [ChildExcludes]_vars
  BY StepDisplacesNobody
<1> QED BY <1>1, TypeCorrect, CustodyInvariant, PTL DEF Spec, LiveChildExcludes

\* The evidence files of a worktree always agree: EvidenceAgrees.
THEOREM EvidenceAlwaysAgrees == Spec => []EvidenceAgrees
BY OneSourceHolder, ChildHasParent, SettlementIsFrozen, PTL DEF EvidenceAgrees

-----------------------------------------------------------------------------
(* The authority delegated to a child.                                     *)

\* The steps that leave the parent's authority alone under a running child.
AuthorityStands ==
    BorrowerLive /\ borrower' = borrower /\ BorrowerLive' /\ settlement = None
        /\ Owner # None /\ Owner' # None => Owner'.auth = Owner.auth

\* Replacing a lease with one of the same authority leaves the authority.
LEMMA SameAuthority ==
    ASSUME TypeOK, NEW s \in Slots, NEW new, ReplaceLease(s, new), lease[s].auth = new.auth
    PROVE  AuthorityStands
BY ReplaceLeaseSlots, SlotsFacts DEF AuthorityStands, Owner

LEMMA OwnerMovesNoAuthority == TypeOK /\ Custody /\ OwnerStep => AuthorityStands
<1> SUFFICES ASSUME TypeOK, Custody, OwnerStep PROVE AuthorityStands
  OBVIOUS
<1> USE SlotsFacts
<1>0. Builders \subseteq Deployments /\ OpenCode \subseteq Builders
  BY DEF Builders, Deployments
<1>1. ASSUME NEW d \in Builders, NEW force \in BOOLEAN, AcquireLease(d, force) PROVE AuthorityStands
  BY <1>1 DEF AcquireLease, AuthorityStands, BorrowerLive
<1>2. ASSUME NEW d \in OpenCode, AcquireInterrupted(d) PROVE AuthorityStands
  BY <1>2 DEF AcquireInterrupted, AuthorityStands, BorrowerLive
<1>3. ASSUME NEW d \in Builders, UpdateSnapshot(d) PROVE AuthorityStands
  <2>1. SlotOf(d) \in Slots /\ lease[SlotOf(d)] # None /\ lease[SlotOf(d)].token = d
    BY <1>0, <1>3 DEF UpdateSnapshot
  <2>2. CASE SlotOf(d) = "implement"
    BY <1>3, <2>2, ReplaceLeaseSlots DEF UpdateSnapshot, AuthorityStands, Owner, Slots
  <2>3. CASE SlotOf(d) = "orchestrator"
    <3>1. phase[d] = "admitted"
      BY <1>3 DEF UpdateSnapshot
    <3>2. borrower # None /\ Owner # None => phase[Owner.token] = "launched"
      BY DEF Custody, ChildBound
    <3> QED BY <2>1, <2>3, <3>1, <3>2 DEF AuthorityStands, BorrowerLive, Owner
  <2> QED BY <2>1, <2>2, <2>3 DEF Slots
<1>4. ASSUME NEW d \in Builders, TransferLease(d) PROVE AuthorityStands
  <2>1. lease[SlotOf(d)] \in Lease /\ SlotOf(d) \in Slots
    BY <1>0, <1>4 DEF TransferLease, TypeOK
  <2>2. [lease[SlotOf(d)] EXCEPT !.fp = <<d, "runner">>].auth = lease[SlotOf(d)].auth
    BY <2>1 DEF Lease
  <2> QED BY <1>4, <2>1, <2>2, SameAuthority DEF TransferLease
<1>5. ASSUME NEW d \in Builders, NEW s \in Slots, ReleaseLease(d, s) PROVE AuthorityStands
  BY <1>5 DEF ReleaseLease, AuthorityStands, Owner, TypeOK
<1>6. ASSUME QuarantineLease PROVE AuthorityStands
  BY <1>6 DEF QuarantineLease, AuthorityStands, Owner, TypeOK
<1> QED BY <1>1, <1>2, <1>3, <1>4, <1>5, <1>6 DEF OwnerStep

LEMMA BorrowerMovesNoAuthority == TypeOK /\ Custody /\ BorrowerStep => AuthorityStands
<1> SUFFICES ASSUME TypeOK, Custody, BorrowerStep,
                    BorrowerLive, borrower' = borrower, BorrowerLive', settlement = None,
                    Owner # None, Owner' # None
             PROVE  Owner'.auth = Owner.auth
  BY DEF AuthorityStands
<1>0. borrower # None
  BY DEF BorrowerLive
<1>1. ASSUME NEW o \in Orchestrators, PublishApproval(o) \/ RemoveApproval(o)
      PROVE  Owner'.auth = Owner.auth
  BY <1>1 DEF PublishApproval, RemoveApproval, Owner
<1>2. ASSUME NEW c \in Implementers, NEW o \in Orchestrators,
             RegisterBorrower(c, o) \/ RegisterRejected(c, o) \/ RegisterInterrupted(c, o)
      PROVE  Owner'.auth = Owner.auth
  BY <1>0, <1>2 DEF RegisterBorrower, RegisterRejected, RegisterInterrupted, SlotVacant, Owner
<1>3. ASSUME NEW c \in Implementers, TransferBorrower(c) \/ ReleaseBorrower(c) \/ FinalizeUncertain(c)
      PROVE  Owner'.auth = Owner.auth
  BY <1>3 DEF TransferBorrower, ReleaseBorrower, FinalizeUncertain, Owner
<1>4. ASSUME NEW c \in Implementers, NEW advance \in BOOLEAN, FinalizeBorrower(c, advance)
      PROVE  Owner'.auth = Owner.auth
  BY <1>0, <1>4 DEF FinalizeBorrower
<1>5. ASSUME NEW c \in Implementers, FinalizeInterrupted(c)
      PROVE  Owner'.auth = Owner.auth
  <2>1. borrower.fp \in Procs
    BY <1>0 DEF TypeOK, Borrower
  <2>2. proc' # [proc EXCEPT ![borrower.fp] = "dead"]
    BY <2>1 DEF BorrowerLive, Alive, TypeOK
  <2>3. UNCHANGED lease
    BY <1>5, <2>2 DEF FinalizeInterrupted
  <2> QED BY <2>3 DEF Owner
<1> QED BY <1>1, <1>2, <1>3, <1>4, <1>5 DEF BorrowerStep

LEMMA OthersMoveNoAuthority ==
    TypeOK /\ Custody /\ (World \/ SettlementStep \/ ReviewStep \/ CustodyStep \/ UNCHANGED vars)
        => AuthorityStands
<1> SUFFICES ASSUME TypeOK, Custody,
                    BorrowerLive, borrower' = borrower, BorrowerLive', settlement = None,
                    Owner # None, Owner' # None,
                    World \/ SettlementStep \/ ReviewStep \/ CustodyStep \/ UNCHANGED vars
             PROVE  Owner'.auth = Owner.auth
  BY DEF AuthorityStands
<1>0. borrower # None
  BY DEF BorrowerLive
<1>1. CASE World
  BY <1>1 DEF World, Start, Launch, Terminate, Die, GitChange, files, Owner
<1>2. CASE SettlementStep
  BY <1>2 DEF SettlementStep, SettlementIntent, SettleLease, RecordLease, SettlePublished, SettleCleanup,
       RecordCleanup, SettleComplete, Record, SettlementValid, SettlementPending, Owner
<1>3. CASE ReviewStep
  <2>1. PICK r \in Reviewers : ReserveReview(r) \/ StartReview(r) \/ FinalizeReview(r)
    BY <1>3 DEF ReviewStep
  <2>2. lease' = lease
    BY <2>1 DEF ReserveReview, StartReview, FinalizeReview
  <2> QED BY <2>2 DEF Owner
<1>4. CASE CustodyStep
  <2>1. ASSUME NEW d \in Builders, NEW p \in Procs, BeginAdvisory(d, p) \/ FinishAdvisory(d, p)
        PROVE  FALSE
    BY <1>0, <2>1 DEF BeginAdvisory, FinishAdvisory, AdvisoryOwner
  <2>2. ASSUME NEW o \in Orchestrators, NEW n \in Orchestrators, NEW active \in BOOLEAN,
               SetDirectCustody(o, active) \/ AdvanceDirectSnapshot(o) \/ HandoffDirectOwner(o, n)
        PROVE  FALSE
    BY <1>0, <2>2 DEF SetDirectCustody, AdvanceDirectSnapshot, HandoffDirectOwner, NoOverlap
  <2> QED BY <1>4, <2>1, <2>2 DEF CustodyStep
<1>5. CASE UNCHANGED vars
  BY <1>5 DEF vars, files, Owner
<1> QED BY <1>1, <1>2, <1>3, <1>4, <1>5

\* The authority a parent delegated does not move under its running child:
\* AuthorityStableUnderChild.
THEOREM DelegatedAuthorityStands == Spec => AuthorityStableUnderChild
<1>1. TypeOK /\ Custody /\ [Next]_vars => [AuthorityStands]_vars
  BY OwnerMovesNoAuthority, BorrowerMovesNoAuthority, OthersMoveNoAuthority DEF Next
<1>2. [][AuthorityStands]_vars => AuthorityStableUnderChild
  BY PTL DEF AuthorityStableUnderChild, AuthorityStands
<1> QED BY <1>1, <1>2, TypeCorrect, CustodyInvariant, PTL DEF Spec

-----------------------------------------------------------------------------
(* Dirty-borrow receipts.                                                  *)

\* The orchestrators whose receipt is on disk.
Receipts == {o \in Orchestrators : approval[o] # None}

\* Every receipt was published, under an id of its own, the ones that children
\* were admitted with included.
PublishedIds ==
    /\ \A o \in Receipts : approval[o].id <= ledger.issued
    /\ \A o, p \in Receipts : approval[o].id = approval[p].id => o = p
    /\ \A i \in ReceiptsNamed : i <= ledger.issued

\* The receipts on disk are finitely many, each was published and none was used.
ReceiptInv == IsFiniteSet(Receipts) /\ ReceiptsUsedOnce /\ PublishedIds

\* What the two records name, now and after a step.
LEMMA NamedReceipts ==
    /\ \A i : i \in ReceiptsNamed <=>
         \/ borrower # None /\ i = borrower.receipt
         \/ settlement # None /\ settlement.borrower # None /\ i = settlement.borrower.receipt
    /\ \A i : i \in ReceiptsNamed' <=>
         \/ borrower' # None /\ i = borrower'.receipt
         \/ settlement' # None /\ settlement'.borrower # None /\ i = settlement'.borrower.receipt
BY DEF ReceiptsNamed

\* A step that keeps or drops the records, or copies the child's into an intent.
LEMMA NamedStay ==
    ASSUME \/ borrower' \in {None, borrower}
           \/ borrower # None /\ borrower'.receipt = borrower.receipt,
           \/ settlement' \in {None, settlement}
           \/ settlement # None /\ settlement'.borrower = settlement.borrower
           \/ borrower # None /\ settlement'.borrower = borrower
    PROVE  ReceiptsNamed' \subseteq ReceiptsNamed \cup {0}
<1>1. ASSUME NEW i, borrower' # None /\ i = borrower'.receipt PROVE i \in ReceiptsNamed
  BY <1>1, NamedReceipts
<1>2. ASSUME NEW i, settlement' # None /\ settlement'.borrower # None /\ i = settlement'.borrower.receipt
      PROVE  i \in ReceiptsNamed
  BY <1>2, NamedReceipts
<1> QED BY <1>1, <1>2, NamedReceipts

\* A step that publishes no receipt and admits nobody with one.
LEMMA FewerReceipts ==
    ASSUME TypeOK, ReceiptInv, ledger' = ledger, LeftOf(approval'),
           ReceiptsNamed' \subseteq ReceiptsNamed \cup {0}
    PROVE  ReceiptInv'
<1>1. Receipts' \in SUBSET Receipts
  BY DEF Receipts, LeftOf
<1>2. IsFiniteSet(Receipts') /\ Cardinality(Receipts') <= Cardinality(Receipts)
  BY <1>1, FS_Subset DEF ReceiptInv
<1>3. Cardinality(Receipts) \in Nat /\ Cardinality(Receipts') \in Nat
  BY <1>2, FS_CardinalityType DEF ReceiptInv
<1>4. ledger.used \in Nat /\ ledger.issued \in Nat /\ ledger.used + Cardinality(Receipts) <= ledger.issued
  BY RolesAssumption DEF TypeOK, ReceiptInv, ReceiptsUsedOnce, Receipts
<1>5. ledger'.used + Cardinality(Receipts') <= ledger'.issued
  BY <1>2, <1>3, <1>4
<1>6. \A o \in Receipts' : o \in Receipts /\ approval'[o].id = approval[o].id /\ approval[o].id \in 1..MaxReceipts
  BY DEF Receipts, LeftOf, TypeOK, Approval
<1>7. \A o \in Receipts : approval[o].id \notin ReceiptsNamed
  BY DEF ReceiptInv, ReceiptsUsedOnce, Receipts
<1>8. \A o \in Orchestrators : approval'[o] # None => approval'[o].id \notin ReceiptsNamed'
  <2>1. \A o \in Receipts' : approval'[o].id \notin ReceiptsNamed /\ approval'[o].id # 0
    BY <1>6, <1>7
  <2> QED BY <2>1 DEF Receipts
<1>9. PublishedIds'
  <2>1. \A i \in ReceiptsNamed' : i <= ledger'.issued
    BY <1>4 DEF ReceiptInv, PublishedIds
  <2>2. \A o \in Receipts' : approval'[o].id <= ledger'.issued
    BY <1>6 DEF ReceiptInv, PublishedIds
  <2>3. \A o, p \in Receipts' : approval'[o].id = approval'[p].id => o = p
    BY <1>6 DEF ReceiptInv, PublishedIds
  <2> QED BY <2>1, <2>2, <2>3 DEF PublishedIds
<1> QED BY <1>2, <1>5, <1>8, <1>9 DEF ReceiptInv, ReceiptsUsedOnce, Receipts

\* Replaced lease bytes unbind receipts and create none.
LEMMA ReplaceKeepsReceipts ==
    ASSUME TypeOK, NEW s, NEW new, ReplaceLease(s, new)
    PROVE  LeftOf(approval')
BY ReceiptsLeft DEF ReplaceLease

\* A receipt is taken off the disk before anything else of the request is checked.
LEMMA ConsumeKeepsReceipts ==
    ASSUME TypeOK, NEW o \in Orchestrators, ConsumeReceipt(o)
    PROVE  LeftOf(approval')
BY DEF ConsumeReceipt, TypeOK, LeftOf

\* Publishing adds one receipt to those on disk and one to those published.
LEMMA PublishAddsReceipt ==
    ASSUME TypeOK, ReceiptInv, NEW o \in Orchestrators, PublishApproval(o)
    PROVE  ReceiptInv'
<1> DEFINE new == [id |-> ledger.issued + 1, bound |-> TRUE, snap |-> git]
<1>1. /\ approval[o] = None /\ approval' = [approval EXCEPT ![o] = new]
      /\ ledger' = [ledger EXCEPT !.issued = @ + 1]
      /\ borrower' = borrower /\ settlement' = settlement
  BY DEF PublishApproval
<1>2. Receipts' \in SUBSET (Receipts \cup {o})
  BY <1>1 DEF Receipts, TypeOK
<1>3. /\ IsFiniteSet(Receipts \cup {o})
      /\ Cardinality(Receipts \cup {o}) \in {Cardinality(Receipts), Cardinality(Receipts) + 1}
  BY FS_AddElement DEF ReceiptInv
<1>4. IsFiniteSet(Receipts') /\ Cardinality(Receipts') <= Cardinality(Receipts \cup {o})
  BY <1>2, <1>3, FS_Subset
<1>5. Cardinality(Receipts) \in Nat /\ Cardinality(Receipts') \in Nat
  BY <1>4, FS_CardinalityType DEF ReceiptInv
<1>6. /\ ledger.used \in Nat /\ ledger.issued \in Nat
      /\ ledger.used + Cardinality(Receipts) <= ledger.issued
      /\ ledger'.used = ledger.used /\ ledger'.issued = ledger.issued + 1
  BY <1>1, RolesAssumption DEF TypeOK, ReceiptInv, ReceiptsUsedOnce, Receipts
<1>7. ledger'.used + Cardinality(Receipts') <= ledger'.issued
  BY <1>3, <1>4, <1>5, <1>6
<1>8. /\ approval'[o].id = ledger.issued + 1
      /\ \A p \in Receipts' : p = o \/ (p \in Receipts /\ approval'[p] = approval[p])
  <2>1. approval'[o] = new /\ \A p \in Orchestrators : p # o => approval'[p] = approval[p]
    BY <1>1 DEF TypeOK
  <2>2. approval'[o].id = ledger.issued + 1
    BY <2>1
  <2> QED BY <2>1, <2>2 DEF Receipts
<1>9. \A p \in Receipts : approval[p].id \in Nat /\ approval[p].id <= ledger.issued
  BY RolesAssumption DEF ReceiptInv, PublishedIds, Receipts, TypeOK, Approval
<1>10. ReceiptsNamed' = ReceiptsNamed /\ \A i \in ReceiptsNamed : i <= ledger.issued /\ i \in Nat
  <2>1. ReceiptsNamed' = ReceiptsNamed
    BY <1>1, NamedReceipts
  <2>2. \A i \in ReceiptsNamed : i \in Nat
    BY NamedReceipts, RolesAssumption DEF TypeOK, Borrower, Settlement
  <2> QED BY <2>1, <2>2 DEF ReceiptInv, PublishedIds
<1>11. \A p \in Orchestrators : approval'[p] # None => approval'[p].id \notin ReceiptsNamed'
  <2>1. \A p \in Receipts : approval[p].id \notin ReceiptsNamed
    BY DEF ReceiptInv, ReceiptsUsedOnce, Receipts
  <2>2. ledger.issued + 1 \notin ReceiptsNamed
    BY <1>6, <1>10
  <2>3. \A p \in Receipts' : approval'[p].id \notin ReceiptsNamed'
    BY <2>1, <2>2, <1>8, <1>10
  <2> QED BY <2>3 DEF Receipts
<1>12. PublishedIds'
  <2>1. \A p \in Receipts' : approval'[p].id <= ledger'.issued
    BY <1>6, <1>8, <1>9
  <2>2. \A p, q \in Receipts' : approval'[p].id = approval'[q].id => p = q
    <3>1. \A p, q \in Receipts : approval[p].id = approval[q].id => p = q
      BY DEF ReceiptInv, PublishedIds
    <3>2. \A p \in Receipts : approval[p].id # ledger.issued + 1
      BY <1>6, <1>9
    <3> QED BY <3>1, <3>2, <1>8
  <2>3. \A i \in ReceiptsNamed' : i <= ledger'.issued
    BY <1>6, <1>10
  <2> QED BY <2>1, <2>2, <2>3 DEF PublishedIds
<1> QED BY <1>4, <1>7, <1>11, <1>12 DEF ReceiptInv, ReceiptsUsedOnce, Receipts

\* An admission with a receipt takes that receipt off the disk and names it.
LEMMA AdmissionUsesReceipt ==
    ASSUME TypeOK, ReceiptInv, NEW o \in Orchestrators, approval[o] # None, ConsumeReceipt(o),
           ledger' = [ledger EXCEPT !.used = @ + 1],
           borrower'.receipt = approval[o].id, settlement' = settlement
    PROVE  ReceiptInv'
<1>0. o \in Receipts
  BY DEF Receipts
<1>1. Receipts' = Receipts \ {o} /\ \A p \in Receipts' : approval'[p] = approval[p]
  BY NoneAssumption DEF ConsumeReceipt, Receipts, TypeOK
<1>2. IsFiniteSet(Receipts') /\ Cardinality(Receipts') = Cardinality(Receipts) - 1
  BY <1>0, <1>1, FS_RemoveElement DEF ReceiptInv
<1>3. Cardinality(Receipts) \in Nat
  BY FS_CardinalityType DEF ReceiptInv
<1>4. /\ ledger.used \in Nat /\ ledger.issued \in Nat
      /\ ledger.used + Cardinality(Receipts) <= ledger.issued
      /\ ledger'.used = ledger.used + 1 /\ ledger'.issued = ledger.issued
  BY RolesAssumption DEF TypeOK, ReceiptInv, ReceiptsUsedOnce, Receipts
<1>5. ledger'.used + Cardinality(Receipts') <= ledger'.issued
  BY <1>2, <1>3, <1>4
<1>6. \A i \in ReceiptsNamed' : i \in ReceiptsNamed \/ i = approval[o].id
  BY NamedReceipts
<1>7. /\ \A p, q \in Receipts : approval[p].id = approval[q].id => p = q
      /\ \A p \in Receipts : approval[p].id \notin ReceiptsNamed /\ approval[p].id <= ledger.issued
      /\ \A i \in ReceiptsNamed : i <= ledger.issued
  BY DEF ReceiptInv, ReceiptsUsedOnce, PublishedIds, Receipts
<1>8. \A p \in Orchestrators : approval'[p] # None => approval'[p].id \notin ReceiptsNamed'
  <2>1. \A p \in Receipts' : approval'[p].id \notin ReceiptsNamed'
    BY <1>0, <1>1, <1>6, <1>7
  <2> QED BY <2>1 DEF Receipts
<1>9. PublishedIds'
  BY <1>0, <1>1, <1>4, <1>6, <1>7 DEF PublishedIds
<1> QED BY <1>2, <1>5, <1>8, <1>9 DEF ReceiptInv, ReceiptsUsedOnce, Receipts

LEMMA ReceiptsInit == Init => ReceiptInv
<1> SUFFICES ASSUME Init PROVE ReceiptInv
  OBVIOUS
<1>1. Receipts = {} /\ ReceiptsNamed = {}
  BY NamedReceipts DEF Init, Receipts
<1>2. ledger.used = 0 /\ ledger.issued = 0
  BY DEF Init
<1> QED BY <1>1, <1>2, FS_EmptySet DEF ReceiptInv, ReceiptsUsedOnce, PublishedIds, Receipts

LEMMA ReceiptsOwner == TypeOK /\ ReceiptInv /\ OwnerStep => ReceiptInv'
<1> SUFFICES ASSUME TypeOK, ReceiptInv, OwnerStep PROVE ReceiptInv'
  OBVIOUS
<1> SUFFICES /\ ledger' = ledger /\ LeftOf(approval')
             /\ borrower' \in {None, borrower} /\ settlement' = settlement
  BY FewerReceipts, NamedStay
<1>1. ASSUME NEW d \in Builders, NEW force \in BOOLEAN, AcquireLease(d, force)
      PROVE  UNCHANGED <<ledger, approval, settlement>> /\ borrower' \in {None, borrower}
  BY <1>1 DEF AcquireLease
<1>2. ASSUME NEW d \in OpenCode, AcquireInterrupted(d)
      PROVE  UNCHANGED <<ledger, approval, settlement>> /\ borrower' \in {None, borrower}
  BY <1>2 DEF AcquireInterrupted
<1>3. ASSUME NEW d \in Builders, UpdateSnapshot(d) \/ TransferLease(d)
      PROVE  UNCHANGED <<ledger, borrower, settlement>> /\ LeftOf(approval')
  BY <1>3, ReplaceKeepsReceipts DEF UpdateSnapshot, TransferLease
<1>4. ASSUME NEW d \in Builders, NEW s \in Slots, ReleaseLease(d, s)
      PROVE  UNCHANGED <<ledger, borrower, settlement>> /\ LeftOf(approval')
  <2>1. \A o \in Orchestrators : approval'[o] \in {None, approval[o]}
    BY <1>4 DEF ReleaseLease
  <2>2. approval' \in [Orchestrators -> Approval \cup {None}]
    BY <1>4 DEF ReleaseLease, TypeOK
  <2> QED BY <1>4, <2>1, <2>2 DEF ReleaseLease, LeftOf
<1>5. ASSUME QuarantineLease PROVE UNCHANGED <<ledger, approval, borrower, settlement>>
  BY <1>5 DEF QuarantineLease
<1> QED BY <1>1, <1>2, <1>3, <1>4, <1>5, ReceiptsLeft DEF OwnerStep

LEMMA ReceiptsBorrower == TypeOK /\ ReceiptInv /\ BorrowerStep => ReceiptInv'
<1> SUFFICES ASSUME TypeOK, ReceiptInv, BorrowerStep PROVE ReceiptInv'
  OBVIOUS
<1>0. borrower # None => borrower \in Borrower
  BY DEF TypeOK
<1>1. ASSUME NEW o \in Orchestrators, RemoveApproval(o) PROVE ReceiptInv'
  <2>1. UNCHANGED <<ledger, borrower, settlement>> /\ LeftOf(approval')
    BY <1>1, ConsumeKeepsReceipts DEF RemoveApproval, ConsumeReceipt
  <2> QED BY <2>1, FewerReceipts, NamedStay
<1>2. ASSUME NEW c \in Implementers, NEW o \in Orchestrators, RegisterBorrower(c, o) PROVE ReceiptInv'
  <2>1. borrower' = NewBorrower(c, o) /\ settlement' = settlement
    BY <1>2 DEF RegisterBorrower
  <2>2. borrower'.receipt = ReceiptOf(o)
    BY <2>1 DEF NewBorrower
  <2>3. ASSUME ~git.dirty PROVE ReceiptsNamed' \subseteq ReceiptsNamed \cup {0}
    <3>1. borrower'.receipt = 0
      BY <2>2, <2>3 DEF ReceiptOf
    <3> QED BY <2>1, <3>1, NamedReceipts
  <2>4. CASE ~git.dirty /\ UNCHANGED <<approval, ledger>>
    BY <2>3, <2>4, ReceiptsLeft, FewerReceipts
  <2>5. CASE ~git.dirty /\ ReplaceLease("orchestrator", [Owner EXCEPT !.auth = git, !.moved = TRUE])
             /\ UNCHANGED ledger
    BY <2>3, <2>5, ReplaceKeepsReceipts, FewerReceipts
  <2>6. CASE /\ PresentsReceipt(o) /\ ConsumeReceipt(o)
             /\ ledger' = [ledger EXCEPT !.used = @ + 1]
    <3>1. borrower'.receipt = approval[o].id /\ approval[o] # None
      BY <2>2, <2>6 DEF PresentsReceipt, ReceiptOf
    <3> QED BY <2>1, <2>6, <3>1, AdmissionUsesReceipt
  <2> QED BY <1>2, <2>4, <2>5, <2>6 DEF RegisterBorrower, TransitionAllowed
<1>3. ASSUME NEW c \in Implementers, NEW o \in Orchestrators, RegisterRejected(c, o) PROVE ReceiptInv'
  <2>1. UNCHANGED <<ledger, borrower, settlement>> /\ LeftOf(approval')
    BY <1>3, ConsumeKeepsReceipts DEF RegisterRejected
  <2> QED BY <2>1, FewerReceipts, NamedStay
<1>4. ASSUME NEW c \in Implementers, NEW o \in Orchestrators, RegisterInterrupted(c, o) PROVE ReceiptInv'
  <2>1. UNCHANGED <<ledger, borrower, settlement>> /\ LeftOf(approval')
    BY <1>4, ConsumeKeepsReceipts, ReplaceKeepsReceipts DEF RegisterInterrupted
  <2> QED BY <2>1, FewerReceipts, NamedStay
<1>5. ASSUME NEW c \in Implementers, TransferBorrower(c) \/ ReleaseBorrower(c) \/ FinalizeUncertain(c)
      PROVE  ReceiptInv'
  <2>1. /\ UNCHANGED <<ledger, approval, settlement>> /\ borrower # None
        /\ \/ borrower' = None
           \/ borrower' = [borrower EXCEPT !.fp = <<c, "runner">>]
           \/ borrower' = [borrower EXCEPT !.fin = "finalizing"]
    BY <1>5 DEF TransferBorrower, ReleaseBorrower, FinalizeUncertain
  <2>2. borrower' = None \/ borrower'.receipt = borrower.receipt
    BY <1>0, <2>1 DEF Borrower
  <2> QED BY <2>1, <2>2, ReceiptsLeft, FewerReceipts, NamedStay
<1>6. ASSUME NEW c \in Implementers, NEW advance \in BOOLEAN, FinalizeBorrower(c, advance)
      PROVE  ReceiptInv'
  <2>1. /\ UNCHANGED <<ledger, settlement>> /\ borrower' = None
        /\ approval' \in {approval, Discard(approval, Owner.dep, borrower),
                          Discard(Unbound(Owner.dep), Owner.dep, borrower)}
    BY <1>6 DEF FinalizeBorrower
  <2>2. LeftOf(approval')
    BY <2>1, ReceiptsLeft
  <2> QED BY <2>1, <2>2, FewerReceipts, NamedStay
<1>7. ASSUME NEW c \in Implementers, FinalizeInterrupted(c) PROVE ReceiptInv'
  <2>1. /\ UNCHANGED <<ledger, settlement>> /\ borrower # None
        /\ borrower' = [borrower EXCEPT !.fin = "finalized"]
        /\ approval' \in {approval, Unbound(Owner.dep)}
    BY <1>7 DEF FinalizeInterrupted, MayFinalize, ReplaceLease, Owner
  <2>2. borrower'.receipt = borrower.receipt
    BY <1>0, <2>1 DEF Borrower
  <2>3. LeftOf(approval')
    BY <2>1, ReceiptsLeft
  <2> QED BY <2>1, <2>2, <2>3, FewerReceipts, NamedStay
<1> QED BY <1>1, <1>2, <1>3, <1>4, <1>5, <1>6, <1>7, PublishAddsReceipt DEF BorrowerStep

LEMMA ReceiptsOthers ==
    TypeOK /\ ReceiptInv /\ (World \/ SettlementStep \/ ReviewStep \/ CustodyStep \/ UNCHANGED vars)
        => ReceiptInv'
<1> SUFFICES ASSUME TypeOK, ReceiptInv,
                    World \/ SettlementStep \/ ReviewStep \/ CustodyStep \/ UNCHANGED vars
             PROVE  ReceiptInv'
  OBVIOUS
<1> SUFFICES /\ ledger' = ledger /\ LeftOf(approval')
             /\ borrower' \in {None, borrower}
             /\ \/ settlement' \in {None, settlement}
                \/ settlement # None /\ settlement'.borrower = settlement.borrower
                \/ borrower # None /\ settlement'.borrower = borrower
  BY FewerReceipts, NamedStay
<1>1. CASE World
  BY <1>1, ReceiptsLeft DEF World, Start, Launch, Terminate, Die, GitChange, files
<1>2. CASE SettlementStep
  <2>1. ASSUME NEW c \in Implementers, NEW inScope \in BOOLEAN, SettlementIntent(c, inScope)
        PROVE  UNCHANGED <<ledger, approval, borrower>> /\ borrower # None /\ settlement'.borrower = borrower
    BY <2>1 DEF SettlementIntent
  <2>2. ASSUME NEW stage, NEW next, Record(stage, next)
        PROVE  settlement # None /\ settlement'.borrower = settlement.borrower
    <3>1. settlement # None /\ settlement' = [settlement EXCEPT !.stage = next]
      BY <2>2 DEF Record, SettlementPending
    <3>2. settlement \in Settlement
      BY <3>1 DEF TypeOK
    <3> QED BY <3>1, <3>2 DEF Settlement
  <2>3. CASE SettleLease
    BY <2>3, ReplaceKeepsReceipts DEF SettleLease
  <2>4. CASE RecordLease \/ SettlePublished
    BY <2>2, <2>4, ReceiptsLeft DEF RecordLease, SettlePublished
  <2>5. CASE SettleCleanup \/ SettleComplete
    BY <2>5, ReceiptsLeft DEF SettleCleanup, SettleComplete
  <2>6. CASE RecordCleanup
    BY <2>2, <2>6, ReceiptsLeft DEF RecordCleanup
  <2> QED BY <1>2, <2>1, <2>3, <2>4, <2>5, <2>6, ReceiptsLeft DEF SettlementStep
<1>3. CASE ReviewStep
  <2>1. PICK r \in Reviewers : ReserveReview(r) \/ StartReview(r) \/ FinalizeReview(r)
    BY <1>3 DEF ReviewStep
  <2> QED BY <2>1, ReceiptsLeft DEF ReserveReview, StartReview, FinalizeReview
<1>4. CASE CustodyStep
  <2>1. ASSUME NEW d \in Builders, NEW p \in Procs, BeginAdvisory(d, p) \/ FinishAdvisory(d, p)
        PROVE  UNCHANGED <<ledger, borrower, settlement>> /\ LeftOf(approval')
    BY <2>1, ReplaceKeepsReceipts DEF BeginAdvisory, FinishAdvisory
  <2>2. ASSUME NEW q \in Orchestrators, NEW active \in BOOLEAN,
               SetDirectCustody(q, active) \/ AdvanceDirectSnapshot(q)
        PROVE  UNCHANGED <<ledger, borrower, settlement>> /\ LeftOf(approval')
    BY <2>2, ReplaceKeepsReceipts DEF SetDirectCustody, AdvanceDirectSnapshot
  <2>3. ASSUME NEW q \in Orchestrators, NEW n \in Orchestrators, HandoffDirectOwner(q, n)
        PROVE  UNCHANGED <<ledger, borrower, settlement>> /\ LeftOf(approval')
    BY <2>3, ReplaceKeepsReceipts DEF HandoffDirectOwner
  <2> QED BY <1>4, <2>1, <2>2, <2>3 DEF CustodyStep
<1>5. CASE UNCHANGED vars
  BY <1>5, ReceiptsLeft DEF vars, files
<1> QED BY <1>1, <1>2, <1>3, <1>4, <1>5

\* A receipt admits at most one child: ReceiptsUsedOnce.
THEOREM ReceiptsAdmitOnce == Spec => []ReceiptsUsedOnce
<1>1. TypeOK /\ ReceiptInv /\ [Next]_vars => ReceiptInv'
  BY ReceiptsOwner, ReceiptsBorrower, ReceiptsOthers DEF Next
<1>2. ReceiptInv => ReceiptsUsedOnce
  BY DEF ReceiptInv
<1> QED BY <1>1, <1>2, ReceiptsInit, TypeCorrect, PTL DEF Spec
=============================================================================
