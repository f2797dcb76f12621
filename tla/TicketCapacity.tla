-------------------------- MODULE TicketCapacity --------------------------
(***************************************************************************)
(* The builder capacity of ONE canonical repository, as kept by            *)
(* packages/pa-core/src/deploy/ticket-concurrency.ts: one file per ticket  *)
(* in the Git common directory, an ordinary slot (<hash>.json) or a        *)
(* prepared reservation (<hash>.prepared.json), each holding one of        *)
(* MAX_REPOSITORY_TICKET_SLOTS permits.                                    *)
(*                                                                         *)
(* Every operation runs under the repository's ticket mutex and is one     *)
(* action, except the release: it observes the ticket's worktree without   *)
(* that worktree's mutex and unlinks the slot later, so it is two actions  *)
(* between which only the worktree changes.  The worktree's evidence       *)
(* (custody, review) is what module RepositoryAdmission keeps in detail.   *)
(* A ticket has one worktree (its Treehouse checkout).                     *)
(***************************************************************************)
EXTENDS Integers, FiniteSets

CONSTANTS
    Deployments,   \* ticketed builder deployments that own capacity
    Tickets,
    TicketOf,      \* the ticket each deployment is launched for
    Foreground,    \* deployments without a background runner
    MaxSlots,      \* MAX_REPOSITORY_TICKET_SLOTS, 4 in the code
    None           \* absent evidence

Procs == Deployments \X {"launcher", "runner"}
AllPermits == 1..MaxSlots

\* RepositoryTicketSlot.  token: slotToken, named by the deployment that
\* acquired it; dep, fp: the holder; intent: it carries a materialization
\* intent; torn: its publisher died between link and unlink (nlink = 2).
Slot == [token : Deployments, dep : Deployments, fp : Procs, permit : AllPermits,
         intent : BOOLEAN, torn : BOOLEAN]

\* IdlePreparationReservation.  dep, fp: the holder while active.
Reservation == [dep : Deployments \cup {None}, fp : Procs \cup {None}, permit : AllPermits,
                occupancy : {"preparing", "idle-ready", "active", "settled-retained"},
                torn : BOOLEAN]

\* The lease on the ticket's worktree.
Custodian == [dep : Deployments, fp : Procs]

ASSUME CapacityAssumption ==
    /\ TicketOf \in [Deployments -> Tickets]
    /\ Foreground \subseteq Deployments
    /\ MaxSlots \in Nat \ {0}
    /\ None \notin Deployments /\ None \notin Procs /\ None \notin Slot
    /\ None \notin Reservation /\ None \notin Custodian

VARIABLES
    proc,      \* process table
    reg,       \* registry events of each deployment
    slot,      \* the ordinary slot file of each ticket
    prep,      \* the prepared reservation file of each ticket
    custody,   \* the mutation lease on each ticket's worktree
    review,    \* each ticket's worktree carries a review reservation
    handle,    \* the slot token each deployment's processes present
    phase,     \* launch progress of each deployment
    mutex      \* the process in the middle of a release, or None

capacity == <<slot, prep>>
world == <<custody, review>>
vars == <<proc, reg, capacity, world, handle, phase, mutex>>

-----------------------------------------------------------------------------
(* What the operations observe.                                            *)

Alive(p) == proc[p] = "alive"
Launcher(d) == <<d, "launcher">>
Runner(d) == <<d, "runner">>
Running(d) == {p \in {Launcher(d), Runner(d)} : Alive(p)}

\* The process that holds a launched deployment's evidence.
Supervisor(d) == IF d \in Foreground THEN Launcher(d) ELSE Runner(d)

\* A launcher acts on its evidence only when no runner of it is alive; a
\* launcher that accepted its runner's readiness returns, which is Die.
ActsFor(d, p) == p \in Running(d) /\ (p = Launcher(d) => ~Alive(Runner(d)))

\* The tickets with a file, and the permits those files hold.
Occupied == {t \in Tickets : slot[t] # None \/ prep[t] # None}
PermitOf(t) == IF slot[t] # None THEN slot[t].permit ELSE prep[t].permit

\* Mutant: the prepared namespace has permits of its own.
UsedPermitsOrdinary == {slot[t].permit : t \in {u \in Tickets : slot[u] # None}}

UsedPermits == {PermitOf(t) : t \in Occupied}

\* The smallest permit no file holds.
LeastFree(p) ==
    /\ p \in AllPermits \ UsedPermits
    /\ \A q \in AllPermits \ UsedPermits : p <= q

\* capacityRowsConflict, over every pair of rows.
RowsAgree ==
    /\ \A t \in Tickets : slot[t] = None \/ prep[t] = None
    /\ \A t, u \in Occupied : t # u => PermitOf(t) # PermitOf(u)

\* inspectSlot: not torn; ordinary slots are live when their process runs.
PreparedReadable == \A t \in Tickets : prep[t] # None => ~prep[t].torn
SlotsReadable == \A t \in Tickets : slot[t] # None => ~slot[t].torn
SlotsLive == SlotsReadable /\ \A t \in Tickets : slot[t] # None => Alive(slot[t].fp)

\* inventory: what every operation of the preparation service starts with; a
\* stale slot counts as occupied.
Inventory == PreparedReadable /\ SlotsReadable /\ RowsAgree /\ Cardinality(Occupied) <= MaxSlots

\* executionSlotPath, preparedSlotView: the holder of ticket t's capacity.
Holder(t) ==
    IF slot[t] # None THEN slot[t].dep ELSE IF prep[t] # None THEN prep[t].dep ELSE None
HolderProc(t) == IF slot[t] # None THEN slot[t].fp ELSE prep[t].fp

\* The capacity file of d's ticket is readable and matches the presented token.
Presents(d) ==
    LET t == TicketOf[d] IN
    /\ handle[d] # None
    /\ \/ slot[t] # None /\ ~slot[t].torn /\ slot[t].token = handle[d]
       \/ slot[t] = None /\ prep[t] # None /\ ~prep[t].torn
            /\ prep[t].occupancy = "active" /\ prep[t].dep = handle[d]

MutexFree == mutex = None

\* The records a handoff, an admission and a release of them write.
HeldBy(s, d, p) == [s EXCEPT !.dep = d, !.fp = p]
Activated(r, d, p) == [r EXCEPT !.occupancy = "active", !.dep = d, !.fp = p]
Settled(r) == [r EXCEPT !.occupancy = "settled-retained", !.dep = None, !.fp = None]

-----------------------------------------------------------------------------
Init ==
    /\ proc = [p \in Procs |-> "unborn"]
    /\ reg = [d \in Deployments |-> "none"]
    /\ slot = [t \in Tickets |-> None]
    /\ prep = [t \in Tickets |-> None]
    /\ custody = [t \in Tickets |-> None]
    /\ review = [t \in Tickets |-> FALSE]
    /\ handle = [d \in Deployments |-> None]
    /\ phase = [d \in Deployments |-> "new"]
    /\ mutex = None

\* The operator runs ppa deploy.
Begin(d) ==
    /\ proc[Launcher(d)] = "unborn"
    /\ proc' = [proc EXCEPT ![Launcher(d)] = "alive"]
    /\ UNCHANGED <<reg, capacity, world, handle, phase, mutex>>

\* A process exits or is killed at any point; the flock it held is released.
Die(p) ==
    /\ Alive(p)
    /\ proc' = [proc EXCEPT ![p] = "dead"]
    /\ IF mutex = p
       THEN mutex' = None /\ phase' = [phase EXCEPT ![p[1]] = "settling"]
       ELSE UNCHANGED <<mutex, phase>>
    /\ UNCHANGED <<reg, capacity, world, handle>>

\* reserveRepositoryReview and finalizeRepositoryReview on t's worktree: a
\* live owner does not bar a reservation.
ReserveReview(t) ==
    /\ ~review[t]
    /\ custody[t] # None => Alive(custody[t].fp)
    /\ review' = [review EXCEPT ![t] = TRUE]
    /\ UNCHANGED <<proc, reg, capacity, custody, handle, phase, mutex>>

FinalizeReview(t) ==
    /\ review[t]
    /\ review' = [review EXCEPT ![t] = FALSE]
    /\ UNCHANGED <<proc, reg, capacity, custody, handle, phase, mutex>>

-----------------------------------------------------------------------------
(* Ordinary admission.                                                     *)

\* acquireRepositoryTicketSlot: the checks; --force changes none of them.
Admits(d) ==
    /\ PreparedReadable /\ SlotsLive /\ RowsAgree
    /\ TicketOf[d] \notin Occupied
    /\ Cardinality(Occupied) < MaxSlots

\* Mutant: the process fingerprint is not recorded.
NewSlotAnonymous(d, permit, torn) ==
    [token |-> d, dep |-> d, fp |-> None, permit |-> permit, intent |-> FALSE, torn |-> torn]

NewSlot(d, permit, torn) ==
    [token |-> d, dep |-> d, fp |-> Launcher(d), permit |-> permit,
     intent |-> FALSE, torn |-> torn]

Acquire(d) ==
    /\ Alive(Launcher(d)) /\ phase[d] = "new" /\ reg[d] = "none"
    /\ MutexFree /\ Admits(d)
    /\ \E permit \in AllPermits :
          /\ LeastFree(permit)
          /\ slot' = [slot EXCEPT ![TicketOf[d]] = NewSlot(d, permit, FALSE)]
    /\ handle' = [handle EXCEPT ![d] = d]
    /\ phase' = [phase EXCEPT ![d] = "capacity"]
    /\ UNCHANGED <<proc, reg, prep, world, mutex>>

\* publishExclusive dies between link and unlink of its temporary.
AcquireTorn(d) ==
    /\ Alive(Launcher(d)) /\ phase[d] = "new" /\ reg[d] = "none"
    /\ MutexFree /\ Admits(d)
    /\ \E permit \in AllPermits :
          /\ LeastFree(permit)
          /\ slot' = [slot EXCEPT ![TicketOf[d]] = NewSlot(d, permit, TRUE)]
    /\ proc' = [proc EXCEPT ![Launcher(d)] = "dead"]
    /\ UNCHANGED <<reg, prep, world, handle, phase, mutex>>

\* ordinaryIntent, called by materializeTicketBranch on a vacant worktree: the
\* live holder records its intent, once, before it touches a ref.
OrdinaryIntent(d) ==
    LET t == TicketOf[d] IN
    /\ Alive(Launcher(d)) /\ phase[d] = "capacity" /\ reg[d] = "none"
    /\ MutexFree /\ slot[t] # None /\ Presents(d)
    /\ slot[t].dep = d /\ slot[t].fp = Launcher(d) /\ ~slot[t].intent
    /\ custody[t] = None /\ ~review[t]
    /\ slot' = [slot EXCEPT ![t].intent = TRUE]
    /\ UNCHANGED <<proc, reg, prep, world, handle, phase, mutex>>

-----------------------------------------------------------------------------
(* The preparation service (withPreparedTicketCapacity).                   *)

Reserve(t, torn) ==
    /\ MutexFree /\ Inventory /\ t \notin Occupied
    /\ \E permit \in AllPermits :
          /\ LeastFree(permit)
          /\ prep' = [prep EXCEPT ![t] = [dep |-> None, fp |-> None, permit |-> permit,
                                          occupancy |-> "preparing", torn |-> torn]]
    /\ UNCHANGED <<proc, reg, slot, world, handle, phase, mutex>>

\* update, called inside withVacantPreparationWorktree: preparing -> idle-ready.
Ready(t) ==
    /\ MutexFree /\ Inventory
    /\ prep[t] # None /\ prep[t].occupancy = "preparing"
    /\ custody[t] = None /\ ~review[t]
    /\ prep' = [prep EXCEPT ![t].occupancy = "idle-ready"]
    /\ UNCHANGED <<proc, reg, slot, world, handle, phase, mutex>>

\* update, idle-ready -> active: consumePiPreparedBuilderAdmission.
Consume(d) ==
    LET t == TicketOf[d] IN
    /\ Alive(Launcher(d)) /\ phase[d] = "new" /\ reg[d] = "none"
    /\ MutexFree /\ Inventory
    /\ prep[t] # None /\ prep[t].occupancy = "idle-ready"
    /\ custody[t] = None /\ ~review[t]
    /\ prep' = [prep EXCEPT ![t] = Activated(@, d, Launcher(d))]
    /\ handle' = [handle EXCEPT ![d] = d]
    /\ phase' = [phase EXCEPT ![d] = "capacity"]
    /\ UNCHANGED <<proc, reg, slot, world, mutex>>

-----------------------------------------------------------------------------
(* The launch that holds the capacity.                                     *)

\* runPiDeploy publishes the started event.
Start(d) ==
    /\ Alive(Launcher(d)) /\ phase[d] = "capacity" /\ reg[d] = "none"
    /\ reg' = [reg EXCEPT ![d] = "running"]
    /\ UNCHANGED <<proc, capacity, world, handle, phase, mutex>>

\* acquireRepositoryMutationLease on the ticket's worktree.
AcquireCustody(d) ==
    LET t == TicketOf[d] IN
    /\ Alive(Launcher(d)) /\ phase[d] = "capacity" /\ reg[d] # "none"
    /\ custody[t] = None /\ ~review[t]
    /\ custody' = [custody EXCEPT ![t] = [dep |-> d, fp |-> Launcher(d)]]
    /\ phase' = [phase EXCEPT ![d] = "custody"]
    /\ UNCHANGED <<proc, reg, capacity, review, handle, mutex>>

SpawnRunner(d) ==
    /\ d \notin Foreground /\ Alive(Launcher(d)) /\ phase[d] = "custody"
    /\ proc[Runner(d)] = "unborn"
    /\ proc' = [proc EXCEPT ![Runner(d)] = "alive"]
    /\ UNCHANGED <<reg, capacity, world, handle, phase, mutex>>

\* The runner takes over the lease, then the capacity.
TransferCustody(d) ==
    LET t == TicketOf[d] IN
    /\ Alive(Runner(d)) /\ phase[d] = "custody"
    /\ custody[t] # None /\ custody[t].dep = d /\ custody[t].fp = Launcher(d)
    /\ custody' = [custody EXCEPT ![t].fp = Runner(d)]
    /\ UNCHANGED <<proc, reg, capacity, review, handle, phase, mutex>>

\* transferRepositoryTicketSlot.
Transfer(d) ==
    LET t == TicketOf[d] IN
    /\ Alive(Runner(d)) /\ phase[d] = "custody"
    /\ custody[t] # None /\ custody[t].fp = Runner(d)
    /\ MutexFree /\ Presents(d) /\ HolderProc(t) # Runner(d)
    /\ IF slot[t] # None
       THEN slot' = [slot EXCEPT ![t].fp = Runner(d)] /\ UNCHANGED prep
       ELSE prep' = [prep EXCEPT ![t].fp = Runner(d)] /\ UNCHANGED slot
    /\ UNCHANGED <<proc, reg, world, handle, phase, mutex>>

\* finalizeRepositoryMutationLease: released, or refused (an operation in
\* flight, a child or an unresolved settlement) with the lease retained.
FinalizeCustody(d, p, released) ==
    LET t == TicketOf[d] IN
    /\ ActsFor(d, p) /\ phase[d] = "custody"
    /\ p = Runner(d) => custody[t] # None /\ custody[t].fp = Runner(d)
    /\ custody' = IF released /\ custody[t] # None /\ custody[t].dep = d
                  THEN [custody EXCEPT ![t] = None] ELSE custody
    /\ phase' = [phase EXCEPT ![d] = "settling"]
    /\ UNCHANGED <<proc, reg, capacity, review, handle, mutex>>

-----------------------------------------------------------------------------
(* releaseRepositoryTicketSlot.                                            *)

\* observeReadonlyRepositoryAuthority: no owner, child or review evidence.
WorktreeSettled(t) == custody[t] = None /\ ~review[t]

\* No registry event: only the allocating process, and only without an intent.
MayRollBack(d, p) ==
    LET t == TicketOf[d] IN
    /\ slot[t] # None => ~slot[t].intent
    /\ HolderProc(t) = p

MayRelease(d, p) ==
    LET t == TicketOf[d] IN
    /\ Presents(d)
    /\ IF reg[Holder(t)] = "none" THEN MayRollBack(d, p) ELSE WorktreeSettled(t)

\* The callers: a failed launch, or terminal handling after the lease.
Releasing(d, p) ==
    /\ ActsFor(d, p) /\ phase[d] \in {"capacity", "settling"} /\ MutexFree
    /\ p = Runner(d) => HolderProc(TicketOf[d]) = Runner(d)

ReleaseObserve(d, p) ==
    /\ Releasing(d, p) /\ MayRelease(d, p)
    /\ mutex' = p
    /\ phase' = [phase EXCEPT ![d] = "releasing"]
    /\ UNCHANGED <<proc, reg, capacity, world, handle>>

\* Refused ("invalid-evidence"): the caller reports it and retains the file.
ReleaseRefused(d, p) ==
    /\ Releasing(d, p) /\ ~MayRelease(d, p)
    /\ phase' = [phase EXCEPT ![d] = "done"]
    /\ UNCHANGED <<proc, reg, capacity, world, handle, mutex>>

\* The ordinary slot is unlinked; a reservation stays, without its holder.
ReleaseCommit(d) ==
    LET t == TicketOf[d] IN
    /\ mutex \in Running(d) /\ phase[d] = "releasing"
    /\ \/ /\ slot[t] # None
          /\ slot' = [slot EXCEPT ![t] = None] /\ UNCHANGED prep
       \/ /\ slot[t] = None /\ prep[t] # None
          /\ prep' = [prep EXCEPT ![t] = Settled(@)]
          /\ UNCHANGED slot
    /\ mutex' = None
    /\ phase' = [phase EXCEPT ![d] = "done"]
    /\ UNCHANGED <<proc, reg, world, handle>>

\* A terminal event: writeTerminal, or registry complete, clean and sweep, which
\* the agent or the operator may run while the processes are still there.
Terminate(d) ==
    /\ reg[d] = "running"
    /\ reg' = [reg EXCEPT ![d] = "terminal"]
    /\ UNCHANGED <<proc, capacity, world, handle, phase, mutex>>

-----------------------------------------------------------------------------
(* Structured resume of retained capacity (bindChild).                     *)

\* The resuming deployment publishes its start before it owns anything.
StartResume(n) ==
    /\ n \in Foreground /\ Alive(Launcher(n)) /\ phase[n] = "new" /\ reg[n] = "none"
    /\ slot[TicketOf[n]] # None /\ reg[slot[TicketOf[n]].dep] = "terminal"
    /\ reg' = [reg EXCEPT ![n] = "running"]
    /\ phase' = [phase EXCEPT ![n] = "resume"]
    /\ UNCHANGED <<proc, capacity, world, handle, mutex>>

\* assertNativeRestartProcessDead, for the processes of both records.
ProcessesDead(t) == ~Alive(slot[t].fp) /\ ~Alive(custody[t].fp)

\* authenticateNativeExecutionRestart: the predecessor ran, has a terminal event
\* and is dead, and its lease and slot are both retained.  The journal it left
\* exists only if a background launcher had accepted its runner and returned.
Resumable(n) ==
    LET t == TicketOf[n]
        d == slot[t].dep
    IN  /\ Alive(Launcher(n)) /\ phase[n] = "resume"
        /\ MutexFree /\ Inventory
        /\ slot[t] # None /\ custody[t] # None /\ ~review[t]
        /\ custody[t].dep = d /\ d # n /\ reg[d] = "terminal"
        /\ slot[t].fp = Supervisor(d) /\ custody[t].fp = Supervisor(d)
        /\ d \notin Foreground => ~Alive(Launcher(d))
        /\ ProcessesDead(t)

\* Mutant: the successor gets a token of its own.
HandoffNewToken(n) ==
    LET t == TicketOf[n] IN
    /\ Resumable(n)
    /\ custody' = [custody EXCEPT ![t] = [dep |-> n, fp |-> Launcher(n)]]
    /\ slot' = [slot EXCEPT ![t].dep = n, ![t].fp = Launcher(n), ![t].token = n]
    /\ handle' = [handle EXCEPT ![n] = n]
    /\ phase' = [phase EXCEPT ![n] = "custody"]
    /\ UNCHANGED <<proc, reg, prep, review, mutex>>

\* handoffDirectOwner, then handoffExecution: token, permit and intent stay.
Handoff(n) ==
    LET t == TicketOf[n] IN
    /\ Resumable(n)
    /\ custody' = [custody EXCEPT ![t] = [dep |-> n, fp |-> Launcher(n)]]
    /\ slot' = [slot EXCEPT ![t] = HeldBy(@, n, Launcher(n))]
    /\ handle' = [handle EXCEPT ![n] = slot[t].token]
    /\ phase' = [phase EXCEPT ![n] = "custody"]
    /\ UNCHANGED <<proc, reg, prep, review, mutex>>

\* The resuming process dies between the two handoffs.
HandoffInterrupted(n) ==
    LET t == TicketOf[n] IN
    /\ Resumable(n)
    /\ custody' = [custody EXCEPT ![t] = [dep |-> n, fp |-> Launcher(n)]]
    /\ proc' = [proc EXCEPT ![Launcher(n)] = "dead"]
    /\ UNCHANGED <<reg, capacity, review, handle, phase, mutex>>

-----------------------------------------------------------------------------
World ==
    \/ \E d \in Deployments : Begin(d)
    \/ \E p \in Procs : Die(p)
    \/ \E t \in Tickets : ReserveReview(t) \/ FinalizeReview(t)

Preparation == \E t \in Tickets : Reserve(t, TRUE) \/ Reserve(t, FALSE) \/ Ready(t)

Launch ==
    \E d \in Deployments :
       \/ Acquire(d) \/ AcquireTorn(d) \/ OrdinaryIntent(d) \/ Consume(d)
       \/ Start(d) \/ AcquireCustody(d)
       \/ SpawnRunner(d) \/ TransferCustody(d) \/ Transfer(d)

Settle ==
    \E d \in Deployments :
       \/ \E p \in Procs : \E released \in BOOLEAN : FinalizeCustody(d, p, released)
       \/ \E p \in Procs : ReleaseObserve(d, p) \/ ReleaseRefused(d, p)
       \/ ReleaseCommit(d) \/ Terminate(d)

Resume == \E n \in Deployments : StartResume(n) \/ Handoff(n) \/ HandoffInterrupted(n)

Next == World \/ Preparation \/ Launch \/ Settle \/ Resume

Spec == Init /\ [][Next]_vars

-----------------------------------------------------------------------------
(* Properties.                                                             *)

\* Every file holds a record of its schema or is absent.
TypeOK ==
    /\ proc \in [Procs -> {"unborn", "alive", "dead"}]
    /\ reg \in [Deployments -> {"none", "running", "terminal"}]
    /\ slot \in [Tickets -> Slot \cup {None}]
    /\ prep \in [Tickets -> Reservation \cup {None}]
    /\ custody \in [Tickets -> Custodian \cup {None}]
    /\ review \in [Tickets -> BOOLEAN]
    /\ handle \in [Deployments -> Deployments \cup {None}]
    /\ phase \in [Deployments -> {"new", "resume", "capacity", "custody",
                                  "settling", "releasing", "done"}]
    /\ mutex \in Procs \cup {None}

\* Ordinary slots and prepared reservations share one permit namespace: no
\* ticket has a file of both kinds and no two files hold the same permit,
\* whatever crashed, was handed over or was retained (capacityRowsConflict
\* then never makes the repository unusable).
PermitsDistinct == RowsAgree

\* "at most four distinct live ticket builders": the tickets with a file never
\* outnumber the permits.
CapacityBound == Cardinality(Occupied) <= MaxSlots

\* A worktree under a builder's lease always has occupied capacity behind it,
\* held by the same deployment unless the lease's process is already dead: the
\* release observed the worktree without its mutex, the transfer moves the two
\* records one after the other, and a resume may die between its two handoffs.
CustodyHasCapacity ==
    \A t \in Tickets : custody[t] # None =>
        /\ Holder(t) # None
        /\ Holder(t) # custody[t].dep => ~Alive(custody[t].fp)

\* What the files of the repository say together: distinct permits within the
\* limit, and capacity behind every builder's lease (ticket-concurrency.ts).
CapacitySafe == PermitsDistinct /\ CapacityBound /\ CustodyHasCapacity

\* While a launch holds capacity one of its processes runs and the file names
\* it: nothing replaces a holder that is alive.
HeldWhileLaunching ==
    \A d \in Deployments :
        phase[d] \in {"capacity", "custody", "settling", "releasing"} /\ Running(d) # {}
        => Holder(TicketOf[d]) = d

\* What a launch observes of the worktree stays true: nobody takes the lease
\* before it does, nor between a release's observation and its unlink.
VacantAroundCustody ==
    \A d \in Deployments :
        /\ phase[d] \in {"capacity", "releasing"} \/ (phase[d] = "settling" /\ reg[d] = "none")
        /\ Running(d) # {}
        => custody[TicketOf[d]] = None

\* The release in progress: its process runs and what it checked still holds.
ReleaseInProgress ==
    mutex # None =>
        /\ Alive(mutex) /\ phase[mutex[1]] = "releasing"
        /\ LET t == TicketOf[mutex[1]] IN
           reg[mutex[1]] = "none" /\ slot[t] # None => ~slot[t].intent

\* Progress markers, registry and records agree.
Progress ==
    /\ \A d \in Deployments :
          /\ d \in Foreground => ~Alive(Runner(d))
          /\ proc[Launcher(d)] = "unborn" => phase[d] = "new"
          /\ phase[d] \in {"resume", "custody"} => reg[d] # "none"
    /\ \A t \in Tickets :
          /\ prep[t] # None => (prep[t].dep # None <=> prep[t].occupancy = "active")
          /\ custody[t] # None => proc[custody[t].fp] # "unborn"

\* The inductive invariant.
Inv ==
    /\ TypeOK /\ PermitsDistinct /\ CustodyHasCapacity
    /\ HeldWhileLaunching /\ VacantAroundCustody /\ ReleaseInProgress /\ Progress

\* What a step may do to a ticket's file.
KeepsFile(t) ==
    /\ slot[t] # None =>
         \/ slot'[t] = None /\ mutex \in Running(slot[t].dep)
         \/ /\ slot'[t] # None
            /\ slot'[t].token = slot[t].token /\ slot'[t].permit = slot[t].permit
            /\ slot[t].intent => slot'[t].intent
    /\ prep[t] # None => prep'[t] # None /\ prep'[t].permit = prep[t].permit

KeepsFiles == \A t \in Tickets : KeepsFile(t)

\* "PID death and --force are not finalization proof": an ordinary slot
\* disappears only in a release its own deployment runs, and until then keeps
\* token and permit and does not lose its intent; a reservation never goes.
RetainedUntilReleased == [][KeepsFiles]_vars

\* What a step may do to an intent recorded before the started event.
KeepsIntents ==
    \A t \in Tickets :
        slot[t] # None /\ slot[t].intent /\ reg[slot[t].dep] = "none" => slot'[t] # None

\* The intent of a launch that never started survives it: it may already own
\* a created branch or checkout, which releaseRepositoryTicketSlot cannot know.
UnstartedIntentKept == [][KeepsIntents]_vars

\* From whom a step may take a lease over.
TakesFromDead ==
    \A t \in Tickets :
        custody[t] # None /\ custody'[t] # None /\ custody'[t].dep # custody[t].dep
        => ~Alive(custody[t].fp) /\ ~Alive(HolderProc(t))

\* Two live processes of different deployments never both hold a ticket's
\* evidence: a resume takes over from processes it has proved dead
\* (assertNativeRestartProcessDead).
NoLiveOverlap == [][TakesFromDead]_vars

\* What no step may do to capacity: take a file, its token, its permit or an
\* unstarted intent away, or give a live holder's evidence to another deployment.
CapacityHeld == RetainedUntilReleased /\ UnstartedIntentKept /\ NoLiveOverlap

=============================================================================
