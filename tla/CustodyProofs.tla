----------------------------- MODULE CustodyProofs -----------------------------
(***************************************************************************)
(* Theorems about what an execution holds: the permits of TicketCapacity,  *)
(* for every set of deployments and tickets and every number of permits,   *)
(* and the custody of an execution, the admission and the matrix of a      *)
(* review in MCExecution, for every lineage, set of launches, of reviews   *)
(* and of steps.                                                           *)
(***************************************************************************)
EXTENDS MCExecution, TicketCapacity, TLAPS, FiniteSetTheorems

-----------------------------------------------------------------------------
(* Constants.                                                              *)

\* The two processes of a deployment, and its ticket.
LEMMA ProcFacts ==
    \A d \in Deployments : Launcher(d) \in Procs /\ Runner(d) \in Procs /\ TicketOf[d] \in Tickets
BY CapacityAssumption DEF Procs, Launcher, Runner

\* A process belongs to one deployment.
LEMMA ProcNames ==
    /\ \A d \in Deployments : Launcher(d)[1] = d /\ Runner(d)[1] = d /\ Launcher(d) # Runner(d)
    /\ \A p \in Procs : p[1] \in Deployments /\ (p = Launcher(p[1]) \/ p = Runner(p[1]))
BY DEF Procs, Launcher, Runner

-----------------------------------------------------------------------------
(* Records.                                                                *)

\* What rewriting some fields of a slot leaves alone.
LEMMA SlotIntent ==
    ASSUME NEW s \in Slot
    PROVE  /\ [s EXCEPT !.intent = TRUE] \in Slot
           /\ [s EXCEPT !.intent = TRUE].token = s.token
           /\ [s EXCEPT !.intent = TRUE].permit = s.permit
           /\ [s EXCEPT !.intent = TRUE].dep = s.dep
           /\ [s EXCEPT !.intent = TRUE].intent = TRUE
BY DEF Slot

LEMMA SlotProc ==
    ASSUME NEW s \in Slot, NEW p \in Procs
    PROVE  /\ [s EXCEPT !.fp = p] \in Slot
           /\ [s EXCEPT !.fp = p].token = s.token
           /\ [s EXCEPT !.fp = p].permit = s.permit
           /\ [s EXCEPT !.fp = p].dep = s.dep
           /\ [s EXCEPT !.fp = p].intent = s.intent
BY DEF Slot

LEMMA SlotHolder ==
    ASSUME NEW s \in Slot, NEW d \in Deployments, NEW p \in Procs
    PROVE  /\ HeldBy(s, d, p) \in Slot
           /\ HeldBy(s, d, p).token = s.token
           /\ HeldBy(s, d, p).permit = s.permit
           /\ HeldBy(s, d, p).dep = d
           /\ HeldBy(s, d, p).intent = s.intent
BY DEF Slot, HeldBy

\* What rewriting some fields of a reservation leaves alone.
LEMMA ReservationReady ==
    ASSUME NEW r \in Reservation
    PROVE  /\ [r EXCEPT !.occupancy = "idle-ready"] \in Reservation
           /\ [r EXCEPT !.occupancy = "idle-ready"].permit = r.permit
           /\ [r EXCEPT !.occupancy = "idle-ready"].dep = r.dep
           /\ [r EXCEPT !.occupancy = "idle-ready"].occupancy = "idle-ready"
BY DEF Reservation

LEMMA ReservationProc ==
    ASSUME NEW r \in Reservation, NEW p \in Procs
    PROVE  /\ [r EXCEPT !.fp = p] \in Reservation
           /\ [r EXCEPT !.fp = p].permit = r.permit
           /\ [r EXCEPT !.fp = p].dep = r.dep
           /\ [r EXCEPT !.fp = p].occupancy = r.occupancy
BY DEF Reservation

LEMMA ReservationActive ==
    ASSUME NEW r \in Reservation, NEW d \in Deployments, NEW p \in Procs
    PROVE  /\ Activated(r, d, p) \in Reservation
           /\ Activated(r, d, p).permit = r.permit
           /\ Activated(r, d, p).dep = d
           /\ Activated(r, d, p).occupancy = "active"
BY DEF Reservation, Activated

LEMMA ReservationSettled ==
    ASSUME NEW r \in Reservation
    PROVE  /\ Settled(r) \in Reservation
           /\ Settled(r).permit = r.permit
           /\ Settled(r).dep = None
           /\ Settled(r).occupancy = "settled-retained"
BY DEF Reservation, Settled

-----------------------------------------------------------------------------
(* Type correctness.                                                       *)

LEMMA TypeInit == Init => TypeOK
BY CapacityAssumption DEF Init, TypeOK

LEMMA TypeNext == TypeOK /\ [Next]_vars => TypeOK'
<1> SUFFICES ASSUME TypeOK, [Next]_vars PROVE TypeOK'
  OBVIOUS
<1> USE ProcFacts
<1> USE DEF capacity, world
<1>1. ASSUME NEW d \in Deployments, Begin(d) PROVE TypeOK'
  BY <1>1 DEF TypeOK, Begin
<1>2. ASSUME NEW p \in Procs, Die(p) PROVE TypeOK'
  BY <1>2 DEF TypeOK, Die
<1>3. ASSUME NEW t \in Tickets, ReserveReview(t) \/ FinalizeReview(t) PROVE TypeOK'
  BY <1>3 DEF TypeOK, ReserveReview, FinalizeReview
<1>4. ASSUME NEW t \in Tickets, NEW torn \in BOOLEAN, Reserve(t, torn) PROVE TypeOK'
  <2>1. PICK permit \in AllPermits :
           prep' = [prep EXCEPT ![t] = [dep |-> None, fp |-> None, permit |-> permit,
                                        occupancy |-> "preparing", torn |-> torn]]
    BY <1>4 DEF Reserve
  <2>2. prep' \in [Tickets -> Reservation \cup {None}]
    BY <2>1 DEF TypeOK, Reservation
  <2> QED BY <1>4, <2>2 DEF TypeOK, Reserve
<1>5. ASSUME NEW t \in Tickets, Ready(t) PROVE TypeOK'
  <2>1. [prep[t] EXCEPT !.occupancy = "idle-ready"] \in Reservation
    BY <1>5, ReservationReady DEF TypeOK, Ready
  <2> QED BY <1>5, <2>1 DEF TypeOK, Ready
<1>6. ASSUME NEW d \in Deployments, Acquire(d) \/ AcquireTorn(d) PROVE TypeOK'
  <2>1. \A permit \in AllPermits, torn \in BOOLEAN : NewSlot(d, permit, torn) \in Slot
    BY DEF NewSlot, Slot
  <2>2. PICK permit \in AllPermits, torn \in BOOLEAN :
           slot' = [slot EXCEPT ![TicketOf[d]] = NewSlot(d, permit, torn)]
    BY <1>6 DEF Acquire, AcquireTorn
  <2>3. slot' \in [Tickets -> Slot \cup {None}]
    BY <2>1, <2>2 DEF TypeOK
  <2>4. CASE Acquire(d)
    BY <2>3, <2>4 DEF TypeOK, Acquire
  <2>5. CASE AcquireTorn(d)
    BY <2>3, <2>5 DEF TypeOK, AcquireTorn
  <2> QED BY <1>6, <2>4, <2>5
<1>7. ASSUME NEW d \in Deployments, OrdinaryIntent(d) PROVE TypeOK'
  <2>1. [slot[TicketOf[d]] EXCEPT !.intent = TRUE] \in Slot
    BY <1>7, SlotIntent DEF TypeOK, OrdinaryIntent
  <2> QED BY <1>7, <2>1 DEF TypeOK, OrdinaryIntent
<1>8. ASSUME NEW d \in Deployments, Consume(d) PROVE TypeOK'
  <2>1. Activated(prep[TicketOf[d]], d, Launcher(d)) \in Reservation
    BY <1>8, ReservationActive DEF TypeOK, Consume
  <2> QED BY <1>8, <2>1 DEF TypeOK, Consume
<1>9. ASSUME NEW d \in Deployments, Start(d) \/ SpawnRunner(d) \/ Terminate(d) PROVE TypeOK'
  BY <1>9 DEF TypeOK, Start, SpawnRunner, Terminate
<1>10. ASSUME NEW d \in Deployments, AcquireCustody(d) \/ TransferCustody(d) PROVE TypeOK'
  <2>1. custody' \in [Tickets -> Custodian \cup {None}]
    BY <1>10 DEF TypeOK, AcquireCustody, TransferCustody, Custodian
  <2> QED BY <1>10, <2>1 DEF TypeOK, AcquireCustody, TransferCustody
<1>11. ASSUME NEW d \in Deployments, Transfer(d) PROVE TypeOK'
  <2>1. slot[TicketOf[d]] # None => [slot[TicketOf[d]] EXCEPT !.fp = Runner(d)] \in Slot
    BY SlotProc DEF TypeOK
  <2>2. slot[TicketOf[d]] = None => [prep[TicketOf[d]] EXCEPT !.fp = Runner(d)] \in Reservation
    BY <1>11, ReservationProc DEF TypeOK, Transfer, Presents
  <2> QED BY <1>11, <2>1, <2>2 DEF TypeOK, Transfer
<1>12. ASSUME NEW d \in Deployments, NEW p \in Procs, NEW released \in BOOLEAN,
              FinalizeCustody(d, p, released) PROVE TypeOK'
  BY <1>12 DEF TypeOK, FinalizeCustody
<1>13. ASSUME NEW d \in Deployments, NEW p \in Procs, ReleaseObserve(d, p) \/ ReleaseRefused(d, p)
       PROVE TypeOK'
  BY <1>13 DEF TypeOK, ReleaseObserve, ReleaseRefused
<1>14. ASSUME NEW d \in Deployments, ReleaseCommit(d) PROVE TypeOK'
  <2>1. prep[TicketOf[d]] # None =>
          Settled(prep[TicketOf[d]]) \in Reservation
    BY ReservationSettled DEF TypeOK
  <2> QED BY <1>14, <2>1 DEF TypeOK, ReleaseCommit
<1>15. ASSUME NEW n \in Deployments, StartResume(n) PROVE TypeOK'
  BY <1>15 DEF TypeOK, StartResume
<1>16. ASSUME NEW n \in Deployments, Handoff(n) \/ HandoffInterrupted(n) PROVE TypeOK'
  <2>0. slot[TicketOf[n]] \in Slot
    BY <1>16 DEF TypeOK, Handoff, HandoffInterrupted, Resumable
  <2>1. HeldBy(slot[TicketOf[n]], n, Launcher(n)) \in Slot /\ slot[TicketOf[n]].token \in Deployments
    BY <2>0, SlotHolder DEF Slot
  <2>2. custody' \in [Tickets -> Custodian \cup {None}]
    BY <1>16 DEF TypeOK, Handoff, HandoffInterrupted, Custodian
  <2> QED BY <1>16, <2>1, <2>2 DEF TypeOK, Handoff, HandoffInterrupted
<1>17. CASE UNCHANGED vars
  BY <1>17 DEF TypeOK, vars
<1> QED BY <1>1, <1>2, <1>3, <1>4, <1>5, <1>6, <1>7, <1>8, <1>9, <1>10, <1>11, <1>12, <1>13,
           <1>14, <1>15, <1>16, <1>17 DEF Next, World, Preparation, Launch, Settle, Resume
-----------------------------------------------------------------------------
(* What the actions write, field by field.                                 *)

\* Only ticket t's file may change.
OnlyAt(t) == \A u \in Tickets : u # t => slot'[u] = slot[u] /\ prep'[u] = prep[u]

\* A slot is rewritten: same token and permit, and no intent is lost.
SlotRewritten(t, dep) ==
    /\ OnlyAt(t) /\ prep' = prep
    /\ slot[t] # None /\ slot'[t] # None /\ slot'[t].dep = dep
    /\ slot'[t].token = slot[t].token /\ slot'[t].permit = slot[t].permit
    /\ slot[t].intent => slot'[t].intent

\* A reservation is rewritten: same permit, and a holder exactly while active.
ReservationRewritten(t, dep) ==
    /\ OnlyAt(t) /\ slot' = slot
    /\ prep[t] # None /\ prep'[t] # None /\ prep'[t].dep = dep
    /\ prep'[t].permit = prep[t].permit
    /\ (prep[t].dep # None <=> prep[t].occupancy = "active") =>
         (prep'[t].dep # None <=> prep'[t].occupancy = "active")

LEMMA WriteAcquire ==
    ASSUME TypeOK, NEW d \in Deployments, Acquire(d) \/ AcquireTorn(d)
    PROVE  LET t == TicketOf[d] IN
           /\ OnlyAt(t) /\ prep' = prep /\ slot[t] = None /\ prep[t] = None
           /\ slot'[t] # None /\ slot'[t].dep = d /\ slot'[t].permit \in AllPermits
           /\ ~slot'[t].intent /\ \A u \in Occupied : PermitOf(u) # slot'[t].permit
<1> DEFINE t == TicketOf[d]
<1> USE ProcFacts
<1>1. PICK permit \in AllPermits, torn \in BOOLEAN :
         LeastFree(permit) /\ slot' = [slot EXCEPT ![t] = NewSlot(d, permit, torn)]
  BY DEF Acquire, AcquireTorn
<1>2. NewSlot(d, permit, torn) \in Slot /\ NewSlot(d, permit, torn).permit = permit
      /\ NewSlot(d, permit, torn).dep = d /\ ~NewSlot(d, permit, torn).intent
  BY DEF NewSlot, Slot
<1>3. slot'[t] = NewSlot(d, permit, torn) /\ \A u \in Tickets : u # t => slot'[u] = slot[u]
  BY <1>1 DEF TypeOK
<1>4. slot[t] = None /\ prep[t] = None /\ prep' = prep
  BY DEF Acquire, AcquireTorn, Admits, Occupied
<1>5. \A u \in Occupied : PermitOf(u) # permit
  BY <1>1 DEF LeastFree, UsedPermits
<1> QED BY <1>2, <1>3, <1>4, <1>5, CapacityAssumption DEF OnlyAt

LEMMA WriteReserve ==
    ASSUME TypeOK, NEW t \in Tickets, NEW torn \in BOOLEAN, Reserve(t, torn)
    PROVE  /\ OnlyAt(t) /\ slot' = slot /\ slot[t] = None /\ prep[t] = None
           /\ prep'[t] # None /\ prep'[t].dep = None /\ prep'[t].permit \in AllPermits
           /\ prep'[t].occupancy = "preparing" /\ \A u \in Occupied : PermitOf(u) # prep'[t].permit
<1> DEFINE new(permit) == [dep |-> None, fp |-> None, permit |-> permit, occupancy |-> "preparing", torn |-> torn]
<1>1. PICK permit \in AllPermits : LeastFree(permit) /\ prep' = [prep EXCEPT ![t] = new(permit)]
  BY DEF Reserve
<1>2. new(permit) \in Reservation
  BY DEF Reservation
<1>3. prep'[t] = new(permit) /\ \A u \in Tickets : u # t => prep'[u] = prep[u]
  BY <1>1 DEF TypeOK
<1>4. slot[t] = None /\ prep[t] = None /\ slot' = slot
  BY DEF Reserve, Occupied
<1>5. \A u \in Occupied : PermitOf(u) # permit
  BY <1>1 DEF LeastFree, UsedPermits
<1> QED BY <1>2, <1>3, <1>4, <1>5, CapacityAssumption DEF OnlyAt

LEMMA WriteReady ==
    ASSUME TypeOK, NEW t \in Tickets, Ready(t)
    PROVE  ReservationRewritten(t, prep[t].dep)
<1>1. prep[t] \in Reservation /\ prep[t].occupancy = "preparing"
  BY DEF TypeOK, Ready
<1>2. prep'[t] = [prep[t] EXCEPT !.occupancy = "idle-ready"] /\ slot' = slot /\ OnlyAt(t)
  BY DEF Ready, TypeOK, OnlyAt
<1>3. /\ prep'[t] \in Reservation /\ prep'[t].permit = prep[t].permit
      /\ prep'[t].dep = prep[t].dep /\ prep'[t].occupancy = "idle-ready"
  BY <1>1, <1>2, ReservationReady
<1> QED BY <1>1, <1>2, <1>3, CapacityAssumption DEF ReservationRewritten

LEMMA WriteConsume ==
    ASSUME TypeOK, NEW d \in Deployments, Consume(d)
    PROVE  ReservationRewritten(TicketOf[d], d) /\ prep[TicketOf[d]].occupancy = "idle-ready"
<1> USE ProcFacts
<1> DEFINE t == TicketOf[d]
<1>1. prep[t] \in Reservation /\ prep[t].occupancy = "idle-ready"
  BY DEF TypeOK, Consume
<1>2. prep'[t] = Activated(prep[t], d, Launcher(d)) /\ slot' = slot /\ OnlyAt(t)
  BY DEF Consume, TypeOK, OnlyAt
<1>3. /\ prep'[t] \in Reservation /\ prep'[t].permit = prep[t].permit
      /\ prep'[t].dep = d /\ prep'[t].occupancy = "active"
  BY <1>1, <1>2, ReservationActive
<1> QED BY <1>1, <1>2, <1>3, CapacityAssumption DEF ReservationRewritten

LEMMA WriteIntent ==
    ASSUME TypeOK, NEW d \in Deployments, OrdinaryIntent(d)
    PROVE  SlotRewritten(TicketOf[d], d)
<1> USE ProcFacts
<1> DEFINE t == TicketOf[d]
<1>1. slot[t] \in Slot /\ slot[t].dep = d
  BY DEF TypeOK, OrdinaryIntent
<1>2. slot'[t] = [slot[t] EXCEPT !.intent = TRUE] /\ prep' = prep /\ OnlyAt(t)
  BY DEF OrdinaryIntent, TypeOK, OnlyAt
<1>3. /\ slot'[t] \in Slot /\ slot'[t].token = slot[t].token /\ slot'[t].permit = slot[t].permit
      /\ slot'[t].dep = d /\ slot'[t].intent
  BY <1>1, <1>2, SlotIntent
<1> QED BY <1>1, <1>2, <1>3, CapacityAssumption DEF SlotRewritten

LEMMA WriteTransfer ==
    ASSUME TypeOK, NEW d \in Deployments, Transfer(d)
    PROVE  LET t == TicketOf[d] IN
           \/ slot[t] # None /\ SlotRewritten(t, slot[t].dep)
           \/ slot[t] = None /\ ReservationRewritten(t, prep[t].dep)
<1> USE ProcFacts
<1> DEFINE t == TicketOf[d]
<1>1. CASE slot[t] # None
  <2>1. slot[t] \in Slot
    BY <1>1 DEF TypeOK
  <2>2. slot'[t] = [slot[t] EXCEPT !.fp = Runner(d)] /\ prep' = prep /\ OnlyAt(t)
    BY <1>1 DEF Transfer, TypeOK, OnlyAt
  <2>3. /\ slot'[t] \in Slot /\ slot'[t].token = slot[t].token /\ slot'[t].permit = slot[t].permit
        /\ slot'[t].dep = slot[t].dep /\ slot'[t].intent = slot[t].intent
    BY <2>1, <2>2, SlotProc
  <2> QED BY <1>1, <2>1, <2>2, <2>3, CapacityAssumption DEF SlotRewritten
<1>2. CASE slot[t] = None
  <2>1. prep[t] \in Reservation
    BY <1>2 DEF TypeOK, Transfer, Presents
  <2>2. prep'[t] = [prep[t] EXCEPT !.fp = Runner(d)] /\ slot' = slot /\ OnlyAt(t)
    BY <1>2 DEF Transfer, TypeOK, OnlyAt
  <2>3. /\ prep'[t] \in Reservation /\ prep'[t].permit = prep[t].permit
        /\ prep'[t].dep = prep[t].dep /\ prep'[t].occupancy = prep[t].occupancy
    BY <2>1, <2>2, ReservationProc
  <2> QED BY <1>2, <2>1, <2>2, <2>3, CapacityAssumption DEF ReservationRewritten
<1> QED BY <1>1, <1>2

LEMMA WriteHandoff ==
    ASSUME TypeOK, NEW n \in Deployments, Handoff(n)
    PROVE  SlotRewritten(TicketOf[n], n)
<1> USE ProcFacts
<1> DEFINE t == TicketOf[n]
<1>1. slot[t] \in Slot
  BY DEF TypeOK, Handoff, Resumable
<1>2. slot'[t] = HeldBy(slot[t], n, Launcher(n)) /\ prep' = prep /\ OnlyAt(t)
  BY DEF Handoff, TypeOK, OnlyAt
<1>3. /\ slot'[t] \in Slot /\ slot'[t].token = slot[t].token /\ slot'[t].permit = slot[t].permit
      /\ slot'[t].dep = n /\ slot'[t].intent = slot[t].intent
  BY <1>1, <1>2, SlotHolder
<1> QED BY <1>1, <1>2, <1>3, CapacityAssumption DEF SlotRewritten

LEMMA WriteRelease ==
    ASSUME TypeOK, NEW d \in Deployments, ReleaseCommit(d)
    PROVE  LET t == TicketOf[d] IN
           \/ slot[t] # None /\ slot'[t] = None /\ OnlyAt(t) /\ prep' = prep
           \/ slot[t] = None /\ ReservationRewritten(t, None)
<1> USE ProcFacts
<1> DEFINE t == TicketOf[d]
<1>1. CASE slot[t] # None
  BY <1>1 DEF ReleaseCommit, TypeOK, OnlyAt
<1>2. CASE slot[t] = None
  <2>1. prep[t] \in Reservation
    BY <1>2 DEF TypeOK, ReleaseCommit
  <2>2. prep'[t] = Settled(prep[t])
        /\ slot' = slot /\ OnlyAt(t)
    BY <1>2 DEF ReleaseCommit, TypeOK, OnlyAt
  <2>3. /\ prep'[t] \in Reservation /\ prep'[t].permit = prep[t].permit
        /\ prep'[t].dep = None /\ prep'[t].occupancy = "settled-retained"
    BY <2>1, <2>2, ReservationSettled
  <2> QED BY <1>2, <2>1, <2>2, <2>3, CapacityAssumption DEF ReservationRewritten
<1> QED BY <1>1, <1>2

\* The actions that write a capacity file.
LEMMA Writers ==
    ASSUME [Next]_vars, ~UNCHANGED capacity
    PROVE  \/ \E d \in Deployments : \/ Acquire(d) \/ AcquireTorn(d) \/ OrdinaryIntent(d) \/ Consume(d)
                                     \/ Transfer(d) \/ ReleaseCommit(d) \/ Handoff(d)
           \/ \E t \in Tickets : Reserve(t, TRUE) \/ Reserve(t, FALSE) \/ Ready(t)
BY DEF Next, World, Preparation, Launch, Settle, Resume, vars, capacity, Begin, Die, ReserveReview,
     FinalizeReview, Start, AcquireCustody, SpawnRunner, TransferCustody, FinalizeCustody,
     ReleaseObserve, ReleaseRefused, Terminate, StartResume, HandoffInterrupted

-----------------------------------------------------------------------------
(* Permits.                                                                *)

\* The rows agree after every step.
LEMMA PermitsNext == TypeOK /\ RowsAgree /\ [Next]_vars => RowsAgree'
<1> SUFFICES ASSUME TypeOK, RowsAgree, [Next]_vars PROVE RowsAgree'
  OBVIOUS
<1> USE ProcFacts
<1>1. CASE UNCHANGED capacity
  BY <1>1 DEF RowsAgree, Occupied, PermitOf, capacity
<1>2. ASSUME NEW t \in Tickets,
             (\E dep : SlotRewritten(t, dep)) \/ (\E dep : ReservationRewritten(t, dep))
      PROVE  RowsAgree'
  <2>1. \A u \in Tickets : (u \in Occupied' <=> u \in Occupied)
    BY <1>2 DEF SlotRewritten, ReservationRewritten, OnlyAt, Occupied
  <2>2. \A u \in Occupied : PermitOf(u)' = PermitOf(u)
    BY <1>2 DEF SlotRewritten, ReservationRewritten, OnlyAt, Occupied, PermitOf, RowsAgree
  <2>3. \A u \in Tickets : slot'[u] = None \/ prep'[u] = None
    BY <1>2 DEF SlotRewritten, ReservationRewritten, OnlyAt, RowsAgree
  <2>4. Occupied \subseteq Tickets /\ Occupied' \subseteq Tickets
    BY DEF Occupied
  <2> QED BY <2>1, <2>2, <2>3, <2>4 DEF RowsAgree
<1>3. ASSUME NEW d \in Deployments, Acquire(d) \/ AcquireTorn(d) PROVE RowsAgree'
  BY <1>3, WriteAcquire DEF RowsAgree, Occupied, PermitOf, OnlyAt
<1>4. ASSUME NEW t \in Tickets, Reserve(t, TRUE) \/ Reserve(t, FALSE) PROVE RowsAgree'
  <2>1. PICK torn \in BOOLEAN : Reserve(t, torn)
    BY <1>4
  <2> QED BY <2>1, WriteReserve DEF RowsAgree, Occupied, PermitOf, OnlyAt
<1>5. ASSUME NEW d \in Deployments, ReleaseCommit(d) PROVE RowsAgree'
  <2>1. CASE slot[TicketOf[d]] # None
    BY <1>5, <2>1, WriteRelease DEF RowsAgree, Occupied, PermitOf, OnlyAt
  <2> QED BY <1>2, <1>5, <2>1, WriteRelease
<1>6. ASSUME NEW d \in Deployments, OrdinaryIntent(d) \/ Consume(d) \/ Transfer(d) \/ Handoff(d) PROVE RowsAgree'
  BY <1>2, <1>6, WriteIntent, WriteConsume, WriteTransfer, WriteHandoff
<1>7. ASSUME NEW t \in Tickets, Ready(t) PROVE RowsAgree'
  BY <1>2, <1>7, WriteReady
<1> QED BY <1>1, <1>3, <1>4, <1>5, <1>6, <1>7, Writers

-----------------------------------------------------------------------------
(* Holders.                                                                *)

\* A rewritten file changes the holder of its own ticket only.
LEMMA HolderRewritten ==
    ASSUME RowsAgree, NEW t \in Tickets, NEW dep,
           SlotRewritten(t, dep) \/ ReservationRewritten(t, dep)
    PROVE  Holder(t)' = dep /\ \A u \in Tickets : u # t => Holder(u)' = Holder(u)
BY DEF RowsAgree, SlotRewritten, ReservationRewritten, OnlyAt, Holder

\* An admission gives a ticket without holder to its deployment.
LEMMA HolderAdmitted ==
    ASSUME TypeOK, RowsAgree, Progress, NEW d \in Deployments,
           Acquire(d) \/ AcquireTorn(d) \/ Consume(d)
    PROVE  /\ Holder(TicketOf[d]) = None /\ Holder(TicketOf[d])' = d
           /\ \A u \in Tickets : u # TicketOf[d] => Holder(u)' = Holder(u)
<1> USE ProcFacts
<1>1. CASE Acquire(d) \/ AcquireTorn(d)
  BY <1>1, WriteAcquire DEF OnlyAt, Holder
<1>2. CASE Consume(d)
  <2>1. prep[TicketOf[d]].dep = None /\ prep[TicketOf[d]] # None
    BY <1>2, WriteConsume DEF Progress, Consume
  <2>2. Holder(TicketOf[d]) = None
    BY <2>1 DEF RowsAgree, Holder
  <2> QED BY <1>2, <2>2, WriteConsume, HolderRewritten
<1> QED BY <1>1, <1>2

\* A release vacates its deployment's ticket.
LEMMA HolderReleased ==
    ASSUME TypeOK, RowsAgree, NEW d \in Deployments, ReleaseCommit(d)
    PROVE  /\ Holder(TicketOf[d])' = None
           /\ \A u \in Tickets : u # TicketOf[d] => Holder(u)' = Holder(u)
<1> USE ProcFacts
<1>1. CASE slot[TicketOf[d]] # None
  BY <1>1, WriteRelease DEF RowsAgree, OnlyAt, Holder
<1>2. CASE slot[TicketOf[d]] = None
  BY <1>2, WriteRelease, HolderRewritten
<1> QED BY <1>1, <1>2

\* A handoff moves a ticket from a dead deployment to its successor.
LEMMA HolderHanded ==
    ASSUME TypeOK, RowsAgree, Progress, NEW n \in Deployments, Handoff(n)
    PROVE  /\ Holder(TicketOf[n]) \in Deployments /\ Running(Holder(TicketOf[n])) = {}
           /\ Holder(TicketOf[n])' = n
           /\ \A u \in Tickets : u # TicketOf[n] => Holder(u)' = Holder(u)
<1> USE ProcFacts
<1> DEFINE d == slot[TicketOf[n]].dep
<1>1. slot[TicketOf[n]] # None /\ slot[TicketOf[n]] \in Slot
  BY DEF Handoff, Resumable, TypeOK
<1>2. Holder(TicketOf[n]) = d /\ d \in Deployments
  BY <1>1 DEF Holder, Slot
<1>3. ~Alive(Supervisor(d)) /\ (d \notin Foreground => ~Alive(Launcher(d)))
  BY DEF Handoff, Resumable, ProcessesDead
<1>4. Running(d) = {}
  BY <1>2, <1>3 DEF Supervisor, Running, Progress
<1> QED BY <1>1, <1>2, <1>4, WriteHandoff, HolderRewritten

\* No other step changes a holder.
LEMMA HolderKept ==
    ASSUME TypeOK, RowsAgree, [Next]_vars,
           \A d \in Deployments : ~Acquire(d) /\ ~AcquireTorn(d) /\ ~Consume(d)
                                   /\ ~ReleaseCommit(d) /\ ~Handoff(d)
    PROVE  \A u \in Tickets : Holder(u)' = Holder(u)
<1> USE ProcFacts
<1>1. CASE UNCHANGED capacity
  BY <1>1 DEF capacity, Holder
<1>2. ASSUME NEW d \in Deployments, OrdinaryIntent(d)
      PROVE  \A u \in Tickets : Holder(u)' = Holder(u)
  <2>1. Holder(TicketOf[d]) = d
    BY <1>2 DEF OrdinaryIntent, Holder
  <2> QED BY <1>2, <2>1, WriteIntent, HolderRewritten
<1>3. ASSUME NEW d \in Deployments, Transfer(d)
      PROVE  \A u \in Tickets : Holder(u)' = Holder(u)
  <2> DEFINE t == TicketOf[d]
  <2>1. CASE slot[t] # None
    BY <1>3, <2>1, WriteTransfer, HolderRewritten DEF Holder
  <2>2. CASE slot[t] = None
    BY <1>3, <2>2, WriteTransfer, HolderRewritten DEF Holder, ReservationRewritten
  <2> QED BY <2>1, <2>2
<1>4. ASSUME NEW t \in Tickets, Ready(t)
      PROVE  \A u \in Tickets : Holder(u)' = Holder(u)
  <2>1. Holder(t) = prep[t].dep
    BY <1>4 DEF Ready, RowsAgree, Holder
  <2> QED BY <1>4, <2>1, WriteReady, HolderRewritten
<1>5. ASSUME NEW t \in Tickets, Reserve(t, TRUE) \/ Reserve(t, FALSE)
      PROVE  \A u \in Tickets : Holder(u)' = Holder(u)
  <2>1. PICK torn \in BOOLEAN : Reserve(t, torn)
    BY <1>5
  <2> QED BY <2>1, WriteReserve DEF Holder, OnlyAt
<1> QED BY <1>1, <1>2, <1>3, <1>4, <1>5, Writers

-----------------------------------------------------------------------------
(* Processes and launch progress.                                          *)

\* A deployment that runs after a step ran before it or was just begun.
LEMMA RunningStep ==
    ASSUME TypeOK, [Next]_vars, NEW d \in Deployments, Running(d)' # {}
    PROVE  Running(d) # {} \/ Begin(d)
<1> USE ProcFacts
<1>1. CASE proc' = proc
  BY <1>1 DEF Running, Alive
<1>2. ASSUME NEW e \in Deployments, Begin(e) PROVE Running(d) # {} \/ Begin(d)
  <2>1. CASE d # e
    <3>1. Launcher(e) # Launcher(d) /\ Launcher(e) # Runner(d)
      BY <2>1, ProcNames
    <3>2. proc'[Launcher(d)] = proc[Launcher(d)] /\ proc'[Runner(d)] = proc[Runner(d)]
      BY <1>2, <3>1 DEF Begin, TypeOK
    <3> QED BY <3>2 DEF Running, Alive
  <2> QED BY <1>2, <2>1
<1>3. ASSUME NEW e \in Deployments, SpawnRunner(e) PROVE Running(d) # {}
  <2>1. CASE d # e
    <3>1. Runner(e) # Launcher(d) /\ Runner(e) # Runner(d)
      BY <2>1, ProcNames
    <3>2. proc'[Launcher(d)] = proc[Launcher(d)] /\ proc'[Runner(d)] = proc[Runner(d)]
      BY <1>3, <3>1 DEF SpawnRunner, TypeOK
    <3> QED BY <3>2 DEF Running, Alive
  <2>2. CASE d = e
    BY <1>3, <2>2 DEF SpawnRunner, Running
  <2> QED BY <2>1, <2>2
<1>4. ASSUME NEW p \in Procs, Die(p) PROVE Running(d) # {}
  BY <1>4 DEF Die, Running, Alive, TypeOK
<1>5. ASSUME NEW e \in Deployments, AcquireTorn(e) \/ HandoffInterrupted(e) PROVE Running(d) # {}
  BY <1>5 DEF AcquireTorn, HandoffInterrupted, Running, Alive, TypeOK
<1> QED BY <1>1, <1>2, <1>3, <1>4, <1>5
        DEF Next, World, Preparation, Launch, Settle, Resume, vars, ReserveReview, FinalizeReview,
            Reserve, Ready, Acquire, OrdinaryIntent, Consume, Start, AcquireCustody, TransferCustody,
            Transfer, FinalizeCustody, ReleaseObserve, ReleaseRefused, ReleaseCommit, Terminate,
            StartResume, Handoff

\* No process becomes unborn again, and only an unborn one becomes alive.
LEMMA ProcStep ==
    ASSUME TypeOK, [Next]_vars, NEW p \in Procs
    PROVE  /\ proc[p] # "unborn" => proc'[p] # "unborn"
           /\ proc[p] # "unborn" /\ Alive(p)' => Alive(p)
<1> USE ProcFacts
<1>1. CASE proc' = proc
  BY <1>1 DEF Alive
<1>2. ASSUME NEW e \in Deployments, Begin(e) \/ SpawnRunner(e)
      PROVE  proc[p] # "unborn" => proc'[p] = proc[p]
  BY <1>2 DEF Begin, SpawnRunner, TypeOK
<1>3. ASSUME NEW q \in Procs, Die(q) PROVE proc'[p] = proc[p] \/ proc'[p] = "dead"
  BY <1>3 DEF Die, TypeOK
<1>4. ASSUME NEW e \in Deployments, AcquireTorn(e) \/ HandoffInterrupted(e)
      PROVE  proc'[p] = proc[p] \/ proc'[p] = "dead"
  BY <1>4 DEF AcquireTorn, HandoffInterrupted, TypeOK
<1> QED BY <1>1, <1>2, <1>3, <1>4
        DEF Alive, Next, World, Preparation, Launch, Settle, Resume, vars, ReserveReview, FinalizeReview,
            Reserve, Ready, Acquire, OrdinaryIntent, Consume, Start, AcquireCustody, TransferCustody,
            Transfer, FinalizeCustody, ReleaseObserve, ReleaseRefused, ReleaseCommit, Terminate,
            StartResume, Handoff

\* No runner is started for a foreground deployment.
LEMMA BirthSteps ==
    ASSUME TypeOK, [Next]_vars, NEW d \in Deployments, d \in Foreground, ~Alive(Runner(d))
    PROVE  ~Alive(Runner(d))'
<1> USE ProcFacts
<1>1. CASE proc' = proc
  BY <1>1 DEF Alive
<1>2. ASSUME NEW e \in Deployments, Begin(e) PROVE ~Alive(Runner(d))'
  <2>1. Launcher(e) # Runner(d)
    BY DEF Launcher, Runner
  <2> QED BY <1>2, <2>1 DEF Begin, Alive, TypeOK
<1>3. ASSUME NEW e \in Deployments, SpawnRunner(e) PROVE ~Alive(Runner(d))'
  <2>1. Runner(e) # Runner(d)
    BY <1>3, ProcNames DEF SpawnRunner
  <2> QED BY <1>3, <2>1 DEF SpawnRunner, Alive, TypeOK
<1>4. ASSUME NEW q \in Procs, Die(q) PROVE ~Alive(Runner(d))'
  BY <1>4 DEF Die, Alive, TypeOK
<1>5. ASSUME NEW e \in Deployments, AcquireTorn(e) \/ HandoffInterrupted(e) PROVE ~Alive(Runner(d))'
  BY <1>5 DEF AcquireTorn, HandoffInterrupted, Alive, TypeOK
<1> QED BY <1>1, <1>2, <1>3, <1>4, <1>5
        DEF Next, World, Preparation, Launch, Settle, Resume, vars, ReserveReview, FinalizeReview,
            Reserve, Ready, Acquire, OrdinaryIntent, Consume, Start, AcquireCustody, TransferCustody,
            Transfer, FinalizeCustody, ReleaseObserve, ReleaseRefused, ReleaseCommit, Terminate,
            StartResume, Handoff

\* The steps that kill a process.
LEMMA DeathSteps ==
    ASSUME TypeOK, [Next]_vars, NEW p \in Procs, Alive(p), ~Alive(p)'
    PROVE  Die(p) \/ AcquireTorn(p[1]) \/ HandoffInterrupted(p[1])
<1> USE ProcFacts
<1>1. ASSUME proc' = proc PROVE FALSE
  BY <1>1 DEF Alive
<1>2. ASSUME NEW e \in Deployments, Begin(e) \/ SpawnRunner(e) PROVE FALSE
  BY <1>2 DEF Begin, SpawnRunner, Alive, TypeOK
<1>3. ASSUME NEW q \in Procs, Die(q) PROVE Die(p)
  BY <1>3 DEF Die, Alive, TypeOK
<1>4. ASSUME NEW e \in Deployments, AcquireTorn(e) \/ HandoffInterrupted(e)
      PROVE  AcquireTorn(p[1]) \/ HandoffInterrupted(p[1])
  <2>1. p = Launcher(e)
    BY <1>4 DEF AcquireTorn, HandoffInterrupted, Alive, TypeOK
  <2> QED BY <1>4, <2>1, ProcNames
<1> QED BY <1>1, <1>2, <1>3, <1>4
        DEF Next, World, Preparation, Launch, Settle, Resume, vars, ReserveReview, FinalizeReview,
            Reserve, Ready, Acquire, OrdinaryIntent, Consume, Start, AcquireCustody, TransferCustody,
            Transfer, FinalizeCustody, ReleaseObserve, ReleaseRefused, ReleaseCommit, Terminate,
            StartResume, Handoff

Launching == {"capacity", "custody", "settling", "releasing"}

\* How the progress of deployment d may change in a step of d.
PhaseStep(d) ==
    \/ phase'[d] = phase[d]
    \/ phase[d] = "new" /\ phase'[d] = "capacity" /\ (Acquire(d) \/ Consume(d))
    \/ phase[d] = "new" /\ phase'[d] = "resume" /\ StartResume(d)
    \/ phase[d] = "resume" /\ phase'[d] = "custody" /\ Handoff(d)
    \/ phase[d] = "capacity" /\ phase'[d] = "custody" /\ AcquireCustody(d)
    \/ phase[d] = "custody" /\ phase'[d] = "settling"
         /\ \E p \in Procs, released \in BOOLEAN : FinalizeCustody(d, p, released)
    \/ phase[d] \in {"capacity", "settling"} /\ phase'[d] = "releasing"
         /\ \E p \in Procs : ReleaseObserve(d, p)
    \/ phase[d] \in {"capacity", "settling"} /\ phase'[d] = "done"
         /\ \E p \in Procs : ReleaseRefused(d, p)
    \/ phase[d] = "releasing" /\ phase'[d] = "done" /\ ReleaseCommit(d)
    \/ phase[d] = "releasing" /\ phase'[d] = "settling" /\ mutex # None /\ mutex[1] = d /\ Die(mutex)

LEMMA PhaseSteps ==
    ASSUME TypeOK, ReleaseInProgress, [Next]_vars, NEW d \in Deployments
    PROVE  PhaseStep(d)
<1> USE ProcFacts
<1>1. CASE phase' = phase
  BY <1>1 DEF PhaseStep
<1>2. ASSUME NEW e \in Deployments, Acquire(e) \/ Consume(e) \/ AcquireCustody(e) PROVE PhaseStep(d)
  BY <1>2 DEF PhaseStep, TypeOK, Acquire, Consume, AcquireCustody
<1>3. ASSUME NEW e \in Deployments, StartResume(e) \/ Handoff(e) \/ ReleaseCommit(e) PROVE PhaseStep(d)
  BY <1>3 DEF PhaseStep, TypeOK, StartResume, Handoff, Resumable, ReleaseCommit
<1>4. ASSUME NEW e \in Deployments, NEW p \in Procs, NEW released \in BOOLEAN,
             FinalizeCustody(e, p, released) PROVE PhaseStep(d)
  BY <1>4 DEF PhaseStep, TypeOK, FinalizeCustody
<1>5. ASSUME NEW e \in Deployments, NEW p \in Procs, ReleaseObserve(e, p) PROVE PhaseStep(d)
  BY <1>5 DEF PhaseStep, TypeOK, ReleaseObserve, Releasing
<1>6. ASSUME NEW e \in Deployments, NEW p \in Procs, ReleaseRefused(e, p) PROVE PhaseStep(d)
  BY <1>6 DEF PhaseStep, TypeOK, ReleaseRefused, Releasing
<1>7. ASSUME NEW p \in Procs, Die(p), phase' # phase PROVE PhaseStep(d)
  <2>1. mutex = p /\ mutex # None /\ phase' = [phase EXCEPT ![p[1]] = "settling"]
    BY <1>7, CapacityAssumption DEF Die
  <2>2. phase[p[1]] = "releasing" /\ p[1] \in Deployments
    BY <2>1, ProcNames DEF ReleaseInProgress
  <2>3. CASE d = p[1]
    <3>1. phase[d] = "releasing" /\ phase'[d] = "settling" /\ mutex # None /\ mutex[1] = d /\ Die(mutex)
      BY <1>7, <2>1, <2>2, <2>3 DEF TypeOK
    <3> QED BY <3>1 DEF PhaseStep
  <2>4. CASE d # p[1]
    BY <2>1, <2>2, <2>4 DEF PhaseStep, TypeOK
  <2> QED BY <2>3, <2>4
<1> QED BY <1>1, <1>2, <1>3, <1>4, <1>5, <1>6, <1>7
        DEF Next, World, Preparation, Launch, Settle, Resume, vars, Begin, ReserveReview, FinalizeReview,
            Reserve, Ready, AcquireTorn, OrdinaryIntent, Start, SpawnRunner, TransferCustody, Transfer,
            Terminate, HandoffInterrupted

-----------------------------------------------------------------------------
(* The inductive invariant, part by part.                                  *)

\* A launch that holds capacity after a step held it before, or was admitted
\* or handed it by the step.
LEMMA LaunchFrame ==
    ASSUME TypeOK, ReleaseInProgress, Progress, [Next]_vars, NEW d \in Deployments,
           phase'[d] \in Launching, Running(d)' # {}
    PROVE  (phase[d] \in Launching /\ Running(d) # {}) \/ Acquire(d) \/ Consume(d) \/ Handoff(d)
<1>1. phase[d] \in Launching \/ Acquire(d) \/ Consume(d) \/ Handoff(d)
  BY PhaseSteps DEF PhaseStep, Launching
<1>2. Running(d) # {} \/ Begin(d)
  BY RunningStep
<1>3. ~Begin(d) \/ phase[d] \notin Launching
  BY DEF Begin, Progress, Launching
<1> QED BY <1>1, <1>2, <1>3

LEMMA HeldNext == Inv /\ [Next]_vars => HeldWhileLaunching'
<1> SUFFICES ASSUME Inv, [Next]_vars, NEW d \in Deployments,
                    phase'[d] \in Launching, Running(d)' # {}
             PROVE  Holder(TicketOf[d])' = d
  BY DEF HeldWhileLaunching, Launching
<1> USE ProcFacts
<1>0. TypeOK /\ RowsAgree /\ Progress /\ ReleaseInProgress /\ HeldWhileLaunching
  BY DEF Inv, PermitsDistinct
<1>1. CASE Acquire(d) \/ Consume(d)
  BY <1>0, <1>1, HolderAdmitted
<1>2. CASE Handoff(d)
  BY <1>0, <1>2, HolderHanded
<1>3. CASE phase[d] \in Launching /\ Running(d) # {}
  <2>1. Holder(TicketOf[d]) = d /\ d # None
    BY <1>0, <1>3, CapacityAssumption DEF HeldWhileLaunching, Launching
  <2>2. ASSUME NEW e \in Deployments, Acquire(e) \/ AcquireTorn(e) \/ Consume(e)
        PROVE  Holder(TicketOf[d])' = d
    BY <1>0, <2>1, <2>2, HolderAdmitted
  <2>3. ASSUME NEW e \in Deployments, ReleaseCommit(e) PROVE Holder(TicketOf[d])' = d
    <3>1. phase[e] = "releasing" /\ Running(e) # {} /\ phase'[e] = "done"
      BY <1>0, <2>3 DEF ReleaseCommit, TypeOK
    <3>2. Holder(TicketOf[e]) = e /\ e # d
      BY <1>0, <3>1 DEF HeldWhileLaunching, Launching
    <3> QED BY <1>0, <2>1, <2>3, <3>2, HolderReleased
  <2>4. ASSUME NEW e \in Deployments, Handoff(e) PROVE Holder(TicketOf[d])' = d
    <3>1. TicketOf[e] # TicketOf[d]
      BY <1>0, <1>3, <2>1, <2>4, HolderHanded
    <3> QED BY <1>0, <2>1, <2>4, <3>1, HolderHanded
  <2> QED BY <1>0, <2>1, <2>2, <2>3, <2>4, HolderKept
<1> QED BY <1>0, <1>1, <1>2, <1>3, LaunchFrame

\* How the lease on a worktree may change.
LEMMA CustodySteps ==
    ASSUME TypeOK, [Next]_vars, NEW t \in Tickets, custody'[t] # custody[t]
    PROVE  \E d \in Deployments :
              /\ t = TicketOf[d]
              /\ \/ AcquireCustody(d) \/ TransferCustody(d) \/ Handoff(d) \/ HandoffInterrupted(d)
                 \/ custody'[t] = None /\ phase[d] = "custody"
<1> USE ProcFacts
<1>1. ASSUME NEW d \in Deployments,
             AcquireCustody(d) \/ TransferCustody(d) \/ Handoff(d) \/ HandoffInterrupted(d)
      PROVE  t = TicketOf[d]
  BY <1>1 DEF TypeOK, AcquireCustody, TransferCustody, Handoff, HandoffInterrupted
<1>2. ASSUME NEW d \in Deployments, NEW p \in Procs, NEW released \in BOOLEAN,
             FinalizeCustody(d, p, released)
      PROVE  t = TicketOf[d] /\ custody'[t] = None /\ phase[d] = "custody"
  BY <1>2 DEF TypeOK, FinalizeCustody
<1>3. CASE UNCHANGED custody
  BY <1>3
<1> QED BY <1>1, <1>2, <1>3
        DEF Next, World, Preparation, Launch, Settle, Resume, vars, world, Begin, Die, ReserveReview,
            FinalizeReview, Reserve, Ready, Acquire, AcquireTorn, OrdinaryIntent, Consume, Start,
            SpawnRunner, Transfer, ReleaseObserve, ReleaseRefused, ReleaseCommit, Terminate, StartResume

\* How the registry may change.
LEMMA RegSteps ==
    ASSUME TypeOK, [Next]_vars, NEW d \in Deployments
    PROVE  \/ reg'[d] = reg[d]
           \/ reg[d] = "none" /\ reg'[d] = "running" /\ phase[d] = "capacity" /\ Start(d)
           \/ reg[d] = "none" /\ reg'[d] = "running" /\ phase[d] = "new" /\ StartResume(d)
           \/ reg[d] = "running" /\ reg'[d] = "terminal" /\ Terminate(d)
<1>1. ASSUME NEW e \in Deployments, Start(e) \/ StartResume(e) \/ Terminate(e)
      PROVE  \/ reg'[d] = reg[d]
             \/ reg[d] = "none" /\ reg'[d] = "running" /\ phase[d] = "capacity" /\ Start(d)
             \/ reg[d] = "none" /\ reg'[d] = "running" /\ phase[d] = "new" /\ StartResume(d)
             \/ reg[d] = "running" /\ reg'[d] = "terminal" /\ Terminate(d)
  BY <1>1 DEF TypeOK, Start, StartResume, Terminate
<1>2. CASE reg' = reg
  BY <1>2
<1> QED BY <1>1, <1>2
        DEF Next, World, Preparation, Launch, Settle, Resume, vars, Begin, Die, ReserveReview,
            FinalizeReview, Reserve, Ready, Acquire, AcquireTorn, OrdinaryIntent, Consume, AcquireCustody,
            SpawnRunner, TransferCustody, Transfer, FinalizeCustody, ReleaseObserve, ReleaseRefused,
            ReleaseCommit, Handoff, HandoffInterrupted

\* What a release observed.
LEMMA ReleaseObserved ==
    ASSUME Inv, NEW d \in Deployments, NEW p \in Procs, ReleaseObserve(d, p)
    PROVE  /\ p \in Running(d) /\ p[1] = d
           /\ custody[TicketOf[d]] = None
           /\ reg[d] = "none" /\ slot[TicketOf[d]] # None => ~slot[TicketOf[d]].intent
<1> USE ProcFacts
<1>1. p \in Running(d) /\ phase[d] \in {"capacity", "settling"}
  BY DEF ReleaseObserve, Releasing, ActsFor
<1>2. p[1] = d
  BY <1>1, ProcNames DEF Running
<1>3. Holder(TicketOf[d]) = d
  BY <1>1 DEF Inv, HeldWhileLaunching
<1>4. reg[d] = "none" => custody[TicketOf[d]] = None
  BY <1>1 DEF Inv, VacantAroundCustody
<1>5. reg[d] # "none" => custody[TicketOf[d]] = None
  BY <1>3 DEF ReleaseObserve, MayRelease, WorktreeSettled
<1>6. reg[d] = "none" /\ slot[TicketOf[d]] # None => ~slot[TicketOf[d]].intent
  BY <1>3 DEF ReleaseObserve, MayRelease, MayRollBack
<1> QED BY <1>1, <1>2, <1>4, <1>5, <1>6

LEMMA VacantNext == Inv /\ [Next]_vars => VacantAroundCustody'
<1> SUFFICES ASSUME Inv, [Next]_vars, NEW d \in Deployments,
                    phase'[d] \in {"capacity", "releasing"} \/ (phase'[d] = "settling" /\ reg'[d] = "none"),
                    Running(d)' # {}
             PROVE  custody'[TicketOf[d]] = None
  BY DEF VacantAroundCustody
<1> USE ProcFacts
<1>0. TypeOK /\ RowsAgree /\ Progress /\ ReleaseInProgress /\ VacantAroundCustody /\ CustodyHasCapacity
  BY DEF Inv, PermitsDistinct
<1>1. custody[TicketOf[d]] = None
  <2>1. CASE Acquire(d)
    <3>1. Holder(TicketOf[d]) = None
      BY <1>0, <2>1, HolderAdmitted
    <3> QED BY <1>0, <3>1 DEF CustodyHasCapacity
  <2>2. CASE Consume(d)
    BY <2>2 DEF Consume
  <2>3. ASSUME NEW p \in Procs, ReleaseObserve(d, p) PROVE custody[TicketOf[d]] = None
    BY <2>3, ReleaseObserved
  <2>4. CASE ~Acquire(d) /\ ~Consume(d) /\ (\A p \in Procs : ~ReleaseObserve(d, p))
    <3>1. phase[d] \in {"capacity", "releasing"} \/ (phase[d] = "settling" /\ reg[d] = "none")
      <4>1. phase'[d] = "settling" => reg[d] = "none"
        BY <1>0, RegSteps
      <4>2. phase[d] = "custody" => phase'[d] # "settling"
        BY <1>0, <4>1 DEF Progress
      <4> QED BY <1>0, <2>4, <4>1, <4>2, PhaseSteps DEF PhaseStep
    <3>2. Running(d) # {}
      BY <1>0, <2>4, <3>1, RunningStep DEF Begin, Progress
    <3> QED BY <1>0, <3>1, <3>2 DEF VacantAroundCustody
  <2> QED BY <2>1, <2>2, <2>3, <2>4
<1>2. ASSUME NEW e \in Deployments, AcquireCustody(e), TicketOf[e] = TicketOf[d] PROVE FALSE
  <2>1. phase'[e] = "custody" /\ Running(e)' # {}
    BY <1>0, <1>2 DEF AcquireCustody, Running, Alive, TypeOK
  <2>2. Holder(TicketOf[e])' = e /\ Holder(TicketOf[d])' = d
    BY <2>1, HeldNext DEF HeldWhileLaunching
  <2> QED BY <1>2, <2>1, <2>2
<1>3. ASSUME NEW e \in Deployments, TransferCustody(e) \/ Handoff(e) \/ HandoffInterrupted(e)
      PROVE  custody[TicketOf[e]] # None
  BY <1>3 DEF TransferCustody, Handoff, HandoffInterrupted, Resumable
<1> QED BY <1>0, <1>1, <1>2, <1>3, CustodySteps

LEMMA ReleaseNext == Inv /\ [Next]_vars => ReleaseInProgress'
<1> SUFFICES ASSUME Inv, [Next]_vars PROVE ReleaseInProgress'
  OBVIOUS
<1> USE ProcFacts
<1>0. TypeOK /\ ReleaseInProgress
  BY DEF Inv
<1>1. ASSUME NEW d \in Deployments, NEW p \in Procs, ReleaseObserve(d, p) PROVE ReleaseInProgress'
  <2>1. mutex' = p /\ phase'[d] = "releasing" /\ UNCHANGED <<proc, reg, slot>>
    BY <1>0, <1>1 DEF ReleaseObserve, TypeOK, capacity
  <2>2. Alive(p)'
    BY <1>1, <2>1, ReleaseObserved DEF Running, Alive
  <2> QED BY <1>1, <2>1, <2>2, ReleaseObserved DEF ReleaseInProgress
<1>2. ASSUME NEW d \in Deployments, ReleaseCommit(d) PROVE ReleaseInProgress'
  BY <1>2 DEF ReleaseCommit, ReleaseInProgress
<1>3. ASSUME NEW p \in Procs, Die(p) PROVE ReleaseInProgress'
  BY <1>0, <1>3 DEF Die, ReleaseInProgress, Alive, TypeOK, capacity
<1>4. ASSUME mutex' = mutex, \A p \in Procs : ~Die(p) PROVE ReleaseInProgress'
  <2> SUFFICES ASSUME mutex # None PROVE ReleaseInProgress'
    BY <1>4 DEF ReleaseInProgress
  <2> DEFINE d == mutex[1]
  <2>1. mutex \in Procs /\ Alive(mutex) /\ phase[d] = "releasing" /\ d \in Deployments
    BY <1>0, ProcNames DEF ReleaseInProgress, TypeOK
  <2>2. phase'[d] = "releasing"
    <3>1. ~ReleaseCommit(d)
      BY <1>4 DEF ReleaseCommit
    <3> QED BY <1>0, <1>4, <2>1, <3>1, PhaseSteps DEF PhaseStep
  <2>3. reg'[d] = "none" => reg[d] = "none"
    BY <1>0, <2>1, RegSteps
  <2>4. UNCHANGED slot
    BY <1>4, Writers DEF MutexFree, capacity, Acquire, AcquireTorn, OrdinaryIntent, Consume, Transfer,
                         ReleaseCommit, Handoff, Resumable, Reserve, Ready
  <2>5. Alive(mutex)'
    BY <1>0, <1>4, <2>1, DeathSteps DEF AcquireTorn, HandoffInterrupted, Resumable
  <2> QED BY <1>0, <1>4, <2>1, <2>2, <2>3, <2>4, <2>5 DEF ReleaseInProgress
<1> QED BY <1>1, <1>2, <1>3, <1>4
        DEF Next, World, Preparation, Launch, Settle, Resume, vars, Begin, ReserveReview, FinalizeReview,
            Reserve, Ready, Acquire, AcquireTorn, OrdinaryIntent, Consume, Start, AcquireCustody,
            SpawnRunner, TransferCustody, Transfer, FinalizeCustody, ReleaseRefused, Terminate,
            StartResume, Handoff, HandoffInterrupted

LEMMA ProgressNext == Inv /\ [Next]_vars => Progress'
<1> SUFFICES ASSUME Inv, [Next]_vars PROVE Progress'
  OBVIOUS
<1> USE ProcFacts
<1>0. TypeOK /\ RowsAgree /\ Progress /\ ReleaseInProgress
  BY DEF Inv, PermitsDistinct
<1>1. ASSUME NEW d \in Deployments, phase'[d] \in {"resume", "custody"} PROVE reg'[d] # "none"
  <2>1. CASE phase'[d] = phase[d]
    BY <1>0, <1>1, <2>1, RegSteps DEF Progress
  <2>2. CASE StartResume(d)
    BY <1>0, <2>2 DEF StartResume, TypeOK
  <2>3. CASE Handoff(d)
    BY <1>0, <2>3 DEF Handoff, Resumable, Progress
  <2>4. CASE AcquireCustody(d)
    BY <2>4 DEF AcquireCustody
  <2> QED BY <1>0, <1>1, <2>1, <2>2, <2>3, <2>4, PhaseSteps DEF PhaseStep
<1>5. ASSUME NEW d \in Foreground PROVE ~Alive(Runner(d))'
  <2>1. d \in Deployments /\ ~Alive(Runner(d))
    BY <1>0, CapacityAssumption DEF Progress
  <2>2. CASE proc[Runner(d)] # "unborn"
    BY <1>0, <2>1, <2>2, ProcStep
  <2>3. CASE proc[Runner(d)] = "unborn"
    BY <1>0, <2>1, <2>3, BirthSteps
  <2> QED BY <2>2, <2>3
<1>2. ASSUME NEW d \in Deployments, proc'[Launcher(d)] = "unborn" PROVE phase'[d] = "new"
  <2>1. proc[Launcher(d)] = "unborn" /\ phase[d] = "new"
    BY <1>0, <1>2, ProcStep DEF Progress
  <2>2. ~Acquire(d) /\ ~Consume(d) /\ ~StartResume(d)
    BY <2>1 DEF Acquire, Consume, StartResume, Alive
  <2> QED BY <1>0, <2>1, <2>2, PhaseSteps DEF PhaseStep
<1>3. ASSUME NEW t \in Tickets, prep'[t] # None
      PROVE  prep'[t].dep # None <=> prep'[t].occupancy = "active"
  <2>1. ASSUME NEW u \in Tickets, NEW dep, SlotRewritten(u, dep) \/ ReservationRewritten(u, dep)
        PROVE  prep'[t].dep # None <=> prep'[t].occupancy = "active"
    BY <1>0, <1>3, <2>1 DEF SlotRewritten, ReservationRewritten, OnlyAt, Progress
  <2>2. ASSUME NEW u \in Tickets, NEW torn \in BOOLEAN, Reserve(u, torn)
        PROVE  prep'[t].dep # None <=> prep'[t].occupancy = "active"
    BY <1>0, <1>3, <2>2, WriteReserve DEF OnlyAt, Progress
  <2>3. CASE prep' = prep
    BY <1>0, <1>3, <2>3 DEF Progress
  <2>4. ASSUME NEW d \in Deployments, Acquire(d) \/ AcquireTorn(d) PROVE prep' = prep
    BY <1>0, <2>4, WriteAcquire
  <2>5. ASSUME NEW d \in Deployments, ReleaseCommit(d)
        PROVE  prep'[t].dep # None <=> prep'[t].occupancy = "active"
    BY <1>0, <2>1, <2>3, <2>5, WriteRelease
  <2>6. ASSUME NEW d \in Deployments, OrdinaryIntent(d) \/ Consume(d) \/ Transfer(d) \/ Handoff(d)
        PROVE  prep'[t].dep # None <=> prep'[t].occupancy = "active"
    BY <1>0, <2>1, <2>6, WriteIntent, WriteConsume, WriteTransfer, WriteHandoff
  <2>7. ASSUME NEW u \in Tickets, Ready(u)
        PROVE  prep'[t].dep # None <=> prep'[t].occupancy = "active"
    BY <1>0, <2>1, <2>7, WriteReady
  <2> QED BY <2>2, <2>3, <2>4, <2>5, <2>6, <2>7, Writers DEF capacity
<1>4. ASSUME NEW t \in Tickets, custody'[t] # None PROVE proc'[custody'[t].fp] # "unborn"
  <2>1. CASE custody'[t] = custody[t]
    <3>1. custody[t].fp \in Procs /\ proc[custody[t].fp] # "unborn"
      BY <1>0, <1>4, <2>1 DEF TypeOK, Custodian, Progress
    <3> QED BY <1>0, <2>1, <3>1, ProcStep
  <2>2. ASSUME NEW d \in Deployments, t = TicketOf[d],
               AcquireCustody(d) \/ TransferCustody(d) \/ Handoff(d) \/ HandoffInterrupted(d)
        PROVE  proc'[custody'[t].fp] # "unborn"
    <3>1. CASE AcquireCustody(d)
      BY <1>0, <2>2, <3>1 DEF AcquireCustody, Alive, TypeOK
    <3>2. CASE TransferCustody(d)
      <4>1. custody[t] \in Custodian /\ custody'[t] = [custody[t] EXCEPT !.fp = Runner(d)]
        BY <1>0, <2>2, <3>2 DEF TransferCustody, TypeOK
      <4>2. custody'[t].fp = Runner(d)
        BY <4>1 DEF Custodian
      <4> QED BY <3>2, <4>2 DEF TransferCustody, Alive
    <3>3. CASE Handoff(d)
      BY <1>0, <2>2, <3>3 DEF Handoff, Resumable, Alive, TypeOK
    <3>4. CASE HandoffInterrupted(d)
      BY <1>0, <2>2, <3>4 DEF HandoffInterrupted, TypeOK
    <3> QED BY <2>2, <3>1, <3>2, <3>3, <3>4
  <2> QED BY <1>0, <1>4, <2>1, <2>2, CustodySteps
<1> QED BY <1>1, <1>2, <1>3, <1>4, <1>5, CapacityAssumption DEF Progress

LEMMA CustodyNext == Inv /\ [Next]_vars => CustodyHasCapacity'
<1> SUFFICES ASSUME Inv, [Next]_vars, NEW t \in Tickets, custody'[t] # None
             PROVE  Holder(t)' # None /\ (Holder(t)' # custody'[t].dep => proc'[custody'[t].fp] # "alive")
  BY DEF CustodyHasCapacity, Alive
<1> USE ProcFacts
<1>0. /\ TypeOK /\ RowsAgree /\ Progress /\ CustodyHasCapacity /\ HeldWhileLaunching /\ HeldWhileLaunching'
      /\ VacantAroundCustody
  BY HeldNext DEF Inv, PermitsDistinct
<1>1. CASE custody'[t] = custody[t]
  <2>1. /\ custody[t] # None /\ custody[t].fp \in Procs /\ proc[custody[t].fp] # "unborn"
        /\ Holder(t) # None /\ (Holder(t) # custody[t].dep => ~Alive(custody[t].fp))
    BY <1>0, <1>1 DEF TypeOK, Custodian, Progress, CustodyHasCapacity
  <2>2. proc[custody[t].fp] # "alive" => proc'[custody[t].fp] # "alive"
    BY <1>0, <2>1, ProcStep DEF Alive
  <2>3. CASE Holder(t)' = Holder(t)
    BY <1>1, <2>1, <2>2, <2>3 DEF Alive
  <2>4. ASSUME NEW d \in Deployments, Acquire(d) \/ AcquireTorn(d) \/ Consume(d)
        PROVE  Holder(t)' = Holder(t)
    BY <1>0, <2>1, <2>4, HolderAdmitted
  <2>5. ASSUME NEW d \in Deployments, ReleaseCommit(d) PROVE Holder(t)' = Holder(t)
    <3>1. custody[TicketOf[d]] = None
      BY <1>0, <2>5 DEF ReleaseCommit, VacantAroundCustody
    <3> QED BY <1>0, <2>1, <2>5, <3>1, HolderReleased
  <2>6. ASSUME NEW d \in Deployments, Handoff(d), t = TicketOf[d]
        PROVE  Holder(t)' # None /\ Holder(t)' = custody'[t].dep
    <3>1. custody'[t].dep = d
      BY <1>0, <2>6 DEF Handoff, TypeOK
    <3> QED BY <1>0, <2>6, <3>1, HolderHanded, CapacityAssumption
  <2>7. ASSUME NEW d \in Deployments, Handoff(d), t # TicketOf[d] PROVE Holder(t)' = Holder(t)
    BY <1>0, <2>7, HolderHanded
  <2> QED BY <1>0, <2>3, <2>4, <2>5, <2>6, <2>7, HolderKept
<1>2. ASSUME NEW d \in Deployments, t = TicketOf[d], AcquireCustody(d) \/ TransferCustody(d) \/ Handoff(d)
      PROVE  Holder(t)' # None /\ Holder(t)' = custody'[t].dep
  <2>1. phase'[d] = "custody" /\ Running(d)' # {}
    BY <1>0, <1>2 DEF AcquireCustody, TransferCustody, Handoff, Resumable, Running, Alive, TypeOK
  <2>2. Holder(t)' = d /\ d # None
    BY <1>0, <1>2, <2>1, CapacityAssumption DEF HeldWhileLaunching
  <2>3. CASE AcquireCustody(d) \/ Handoff(d)
    BY <1>0, <1>2, <2>2, <2>3 DEF AcquireCustody, Handoff, TypeOK
  <2>4. CASE TransferCustody(d)
    <3>1. custody[t] \in Custodian /\ custody'[t] = [custody[t] EXCEPT !.fp = Runner(d)] /\ custody[t].dep = d
      BY <1>0, <1>2, <2>4 DEF TransferCustody, TypeOK
    <3>2. custody'[t].dep = d
      BY <3>1 DEF Custodian
    <3> QED BY <2>2, <3>2
  <2> QED BY <1>2, <2>3, <2>4
<1>3. ASSUME NEW d \in Deployments, t = TicketOf[d], HandoffInterrupted(d)
      PROVE  Holder(t)' # None /\ proc'[custody'[t].fp] # "alive"
  <2>1. slot'[t] = slot[t] /\ slot[t] # None /\ slot[t] \in Slot
    BY <1>0, <1>3 DEF HandoffInterrupted, Resumable, TypeOK, capacity
  <2>2. Holder(t)' # None
    BY <2>1, CapacityAssumption DEF Holder, Slot
  <2>3. custody'[t].fp = Launcher(d) /\ proc'[Launcher(d)] = "dead"
    BY <1>0, <1>3 DEF HandoffInterrupted, TypeOK
  <2> QED BY <2>2, <2>3
<1> QED BY <1>0, <1>1, <1>2, <1>3, CustodySteps

LEMMA InvInit == Init => Inv
<1> SUFFICES ASSUME Init PROVE Inv
  OBVIOUS
<1> USE ProcFacts
<1>1. TypeOK
  BY TypeInit
<1>2. PermitsDistinct /\ CustodyHasCapacity /\ ReleaseInProgress
  BY DEF Init, PermitsDistinct, RowsAgree, Occupied, CustodyHasCapacity, ReleaseInProgress
<1>4. Progress
  BY CapacityAssumption DEF Init, Progress, Alive
<1>3. HeldWhileLaunching /\ VacantAroundCustody
  BY DEF Init, HeldWhileLaunching, VacantAroundCustody
<1> QED BY <1>1, <1>2, <1>3, <1>4 DEF Inv

LEMMA InvNext == Inv /\ [Next]_vars => Inv'
<1> SUFFICES ASSUME Inv, [Next]_vars PROVE Inv'
  OBVIOUS
<1>1. TypeOK' /\ PermitsDistinct'
  BY TypeNext, PermitsNext DEF Inv, PermitsDistinct
<1> QED BY <1>1, HeldNext, VacantNext, ReleaseNext, ProgressNext, CustodyNext DEF Inv

\* Distinct permits leave no room for more files than there are permits.
LEMMA PermitsBound == TypeOK /\ RowsAgree => CapacityBound
<1> SUFFICES ASSUME TypeOK, RowsAgree PROVE CapacityBound
  OBVIOUS
<1> DEFINE f == [t \in Occupied |-> PermitOf(t)]
<1>1. \A t \in Occupied : PermitOf(t) \in AllPermits
  BY CapacityAssumption DEF TypeOK, Occupied, PermitOf, Slot, Reservation
<1>2. f \in Injection(Occupied, AllPermits)
  BY <1>1 DEF RowsAgree, Injection, IsInjective
<1>3. IsFiniteSet(AllPermits) /\ Cardinality(AllPermits) = MaxSlots
  BY FS_Interval, CapacityAssumption DEF AllPermits
<1>4. Cardinality(Occupied) <= Cardinality(AllPermits)
  BY <1>2, <1>3, FS_Injection
<1> QED BY <1>3, <1>4 DEF CapacityBound
-----------------------------------------------------------------------------
(* Theorems.                                                               *)

\* The inductive invariant holds in every reachable state.
THEOREM Invariance == Spec => []Inv
BY InvInit, InvNext, PTL DEF Spec

\* Every capacity, lease and progress record stays well formed.
THEOREM TypeCorrect == Spec => []TypeOK
<1>1. Inv => TypeOK
  BY DEF Inv
<1> QED BY <1>1, Invariance, PTL

\* The two kinds of file never share a ticket or a permit
\* (capacityRowsConflict never fires), for any number of permits.
THEOREM PermitsSafe == Spec => []PermitsDistinct
<1>1. Inv => PermitsDistinct
  BY DEF Inv
<1> QED BY <1>1, Invariance, PTL

\* At most MaxSlots tickets ever have a capacity file.
THEOREM CapacityBounded == Spec => []CapacityBound
<1>1. Inv => CapacityBound
  BY PermitsBound DEF Inv, PermitsDistinct
<1> QED BY <1>1, Invariance, PTL

\* No worktree lease outlives the capacity behind it, although the release
\* observes the worktree without its mutex.
THEOREM CustodyCovered == Spec => []CustodyHasCapacity
<1>1. Inv => CustodyHasCapacity
  BY DEF Inv
<1> QED BY <1>1, Invariance, PTL

\* Only the release of its own deployment removes a slot, and no step loses its
\* token, permit or intent; a reservation is never removed.
THEOREM Retention == Spec => RetainedUntilReleased
<1>1. ASSUME Inv, [Next]_vars, NEW t \in Tickets PROVE KeepsFile(t)
  <2> USE ProcFacts
  <2>0. TypeOK /\ RowsAgree /\ HeldWhileLaunching
    BY <1>1 DEF Inv, PermitsDistinct
  <2>1. ASSUME NEW u \in Tickets, NEW dep, SlotRewritten(u, dep) \/ ReservationRewritten(u, dep) PROVE KeepsFile(t)
    <3>1. CASE SlotRewritten(u, dep)
      BY <3>1 DEF SlotRewritten, OnlyAt, KeepsFile
    <3>2. CASE ReservationRewritten(u, dep)
      BY <3>2 DEF ReservationRewritten, OnlyAt, KeepsFile
    <3> QED BY <2>1, <3>1, <3>2
  <2>2. ASSUME NEW u \in Tickets, NEW torn \in BOOLEAN, Reserve(u, torn) PROVE KeepsFile(t)
    BY <2>0, <2>2, WriteReserve DEF OnlyAt, KeepsFile
  <2>3. CASE UNCHANGED capacity
    BY <2>3 DEF capacity, KeepsFile
  <2>4. ASSUME NEW d \in Deployments, Acquire(d) \/ AcquireTorn(d) PROVE KeepsFile(t)
    BY <2>0, <2>4, WriteAcquire DEF OnlyAt, KeepsFile
  <2>5. ASSUME NEW d \in Deployments, ReleaseCommit(d) PROVE KeepsFile(t)
    <3>1. CASE slot[TicketOf[d]] # None
      <4>1. mutex \in Running(d) /\ Holder(TicketOf[d]) = d
        BY <2>0, <2>5 DEF ReleaseCommit, HeldWhileLaunching
      <4>2. slot[TicketOf[d]].dep = d
        BY <3>1, <4>1 DEF Holder
      <4> QED BY <2>0, <2>5, <3>1, <4>1, <4>2, WriteRelease DEF OnlyAt, KeepsFile
    <3> QED BY <2>0, <2>1, <2>5, <3>1, WriteRelease
  <2>6. ASSUME NEW d \in Deployments, OrdinaryIntent(d) \/ Consume(d) \/ Transfer(d) \/ Handoff(d) PROVE KeepsFile(t)
    BY <2>0, <2>1, <2>6, WriteIntent, WriteConsume, WriteTransfer, WriteHandoff
  <2>7. ASSUME NEW u \in Tickets, Ready(u) PROVE KeepsFile(t)
    BY <2>0, <2>1, <2>7, WriteReady
  <2> QED BY <1>1, <2>2, <2>3, <2>4, <2>5, <2>6, <2>7, Writers
<1>2. Inv /\ [Next]_vars => [KeepsFiles]_vars
  BY <1>1 DEF KeepsFiles
<1> QED BY <1>2, Invariance, PTL DEF RetainedUntilReleased, Spec

\* The intent of a launch that never published its start is never discarded.
THEOREM IntentKept == Spec => UnstartedIntentKept
<1>1. ASSUME Inv, [Next]_vars, NEW t \in Tickets,
             slot[t] # None, slot[t].intent, reg[slot[t].dep] = "none"
      PROVE  slot'[t] # None
  <2> USE ProcFacts
  <2>0. TypeOK /\ RowsAgree /\ HeldWhileLaunching /\ ReleaseInProgress
    BY <1>1 DEF Inv, PermitsDistinct
  <2>1. ASSUME NEW u \in Tickets, NEW dep, SlotRewritten(u, dep) \/ ReservationRewritten(u, dep)
        PROVE  slot'[t] # None
    BY <1>1, <2>1 DEF SlotRewritten, ReservationRewritten, OnlyAt
  <2>2. ASSUME NEW u \in Tickets, NEW torn \in BOOLEAN, Reserve(u, torn) PROVE slot'[t] # None
    BY <1>1, <2>0, <2>2, WriteReserve
  <2>3. CASE UNCHANGED capacity
    BY <1>1, <2>3 DEF capacity
  <2>4. ASSUME NEW d \in Deployments, Acquire(d) \/ AcquireTorn(d) PROVE slot'[t] # None
    BY <1>1, <2>0, <2>4, WriteAcquire DEF OnlyAt
  <2>5. ASSUME NEW d \in Deployments, ReleaseCommit(d) PROVE slot'[t] # None
    <3>1. CASE t = TicketOf[d]
      <4>1. mutex \in Running(d) /\ Holder(t) = d
        BY <2>0, <2>5, <3>1 DEF ReleaseCommit, HeldWhileLaunching
      <4>2. slot[t].dep = d
        BY <1>1, <4>1 DEF Holder
      <4>3. mutex # None /\ mutex[1] = d
        BY <4>1, ProcNames, CapacityAssumption DEF Running
      <4> QED BY <1>1, <2>0, <3>1, <4>2, <4>3 DEF ReleaseInProgress
    <3>2. CASE t # TicketOf[d]
      BY <1>1, <2>0, <2>5, <3>2, WriteRelease DEF OnlyAt, ReservationRewritten
    <3> QED BY <3>1, <3>2
  <2>6. ASSUME NEW d \in Deployments, OrdinaryIntent(d) \/ Consume(d) \/ Transfer(d) \/ Handoff(d)
        PROVE  slot'[t] # None
    BY <2>0, <2>1, <2>6, WriteIntent, WriteConsume, WriteTransfer, WriteHandoff
  <2>7. ASSUME NEW u \in Tickets, Ready(u) PROVE slot'[t] # None
    BY <2>0, <2>1, <2>7, WriteReady
  <2> QED BY <1>1, <2>2, <2>3, <2>4, <2>5, <2>6, <2>7, Writers
<1>2. Inv /\ [Next]_vars => [KeepsIntents]_vars
  BY <1>1 DEF KeepsIntents
<1> QED BY <1>2, Invariance, PTL DEF UnstartedIntentKept, Spec

\* A lease changes deployment only from a dead process, whose slot's process is
\* dead as well.
THEOREM DeadPredecessor == Spec => NoLiveOverlap
<1>1. ASSUME Inv, [Next]_vars, NEW t \in Tickets, custody[t] # None, custody'[t] # None,
             custody'[t].dep # custody[t].dep
      PROVE  ~Alive(custody[t].fp) /\ ~Alive(HolderProc(t))
  <2> USE ProcFacts
  <2>0. TypeOK
    BY <1>1 DEF Inv
  <2>1. PICK d \in Deployments :
           t = TicketOf[d] /\ (AcquireCustody(d) \/ TransferCustody(d) \/ Handoff(d) \/ HandoffInterrupted(d))
    BY <1>1, <2>0, CustodySteps
  <2>2. ~AcquireCustody(d)
    BY <1>1, <2>1 DEF AcquireCustody
  <2>3. ~TransferCustody(d)
    <3>1. SUFFICES ASSUME TransferCustody(d) PROVE FALSE
      OBVIOUS
    <3>2. custody[t] \in Custodian /\ custody'[t] = [custody[t] EXCEPT !.fp = Runner(d)]
      BY <2>0, <2>1, <3>1 DEF TransferCustody, TypeOK
    <3>3. custody'[t].dep = custody[t].dep
      BY <3>2 DEF Custodian
    <3> QED BY <1>1, <3>3
  <2>4. Resumable(d)
    BY <2>1, <2>2, <2>3 DEF Handoff, HandoffInterrupted
  <2> QED BY <2>1, <2>4 DEF Resumable, ProcessesDead, HolderProc
<1>2. Inv /\ [Next]_vars => [TakesFromDead]_vars
  BY <1>1 DEF TakesFromDead
<1> QED BY <1>2, Invariance, PTL DEF NoLiveOverlap, Spec

\* Permits, limit and custody agree in every state: CapacitySafe.
THEOREM CapacityIsSafe == Spec => []CapacitySafe
BY PermitsSafe, CapacityBounded, CustodyCovered, PTL DEF CapacitySafe

\* No step takes capacity away or gives live evidence to another: CapacityHeld.
THEOREM CapacityIsHeld == Spec => CapacityHeld
BY Retention, IntentKept, DeadPredecessor DEF CapacityHeld

-----------------------------------------------------------------------------
(* The admission of a protected review.                                    *)

\* From which place on a launch has read, reserved, counted, met or claimed something.
WhenRunning == {"consumed", "ready", "running"}
WhenClaimed == {"probing", "admitted", "handed"} \cup WhenRunning
WhenMet == {"met"} \cup WhenClaimed
WhenCounted == {"marked"} \cup WhenMet
WhenReserved == {"reserved", "planned", "authorized", "captured"} \cup WhenCounted
WhenSelected == {"selected"} \cup WhenReserved
WhenAllocated == {"allocated", "over"} \cup WhenSelected
Stages == {"asked", "gated", "refused", "dead"} \cup WhenAllocated

\* What a launch has behind it, by how far it came.
LaunchKnows(l) ==
    /\ stands[l] \in WhenAllocated => workspace[Admit!Deployment(l)] = l
    /\ stands[l] \in WhenSelected => Admit!Candidate(l) \subseteq seen[l]
    /\ stands[l] \in WhenReserved => holder = l
    /\ stands[l] \in WhenCounted => counted[Admit!Deployment(l)] = "full"
    /\ stands[l] \in WhenMet => Admit!Host(l) \subseteq seen[l]
    /\ stands[l] \in WhenClaimed => claim = l /\ unended
    /\ stands[l] = "consumed" => probe[l] = 0
    /\ stands[l] = "ready" => profile[l] = "nixos" /\ (probe[l] \in {2, 4} => {"tree", "host"} \subseteq fresh[l])
    /\ stands[l] = "running" => Admit!Needed(l) \subseteq fresh[l]

ClaimBacked ==
    claim # NoLaunch =>
      /\ counted[Admit!Deployment(claim)] = "full" /\ workspace[Admit!Deployment(claim)] = claim
      /\ Admit!Host(claim) \cup Admit!Candidate(claim) \subseteq seen[claim]

\* The inductive invariant behind the admission's part of MatrixSafe.
AdmInv == Admit!AdmissionTypeOK /\ (\A l \in Launches : LaunchKnows(l)) /\ ClaimBacked

LEMMA AdmConstants ==
    /\ NoLaunch \notin Launches /\ Admit!Prescribed \notin Launches
    /\ Profiles \subseteq {"v1", "current", "nixos"} /\ MaxDrifts \in Nat
BY AdmissionConstants DEF Admit!AdmissionAssumption, Admit!Prescribed

LEMMA AdmMeans == AdmInv => Admit!AdmissionTypeOK /\ Admit!RunsAsApproved /\ Admit!ClaimAccounted
<1> SUFFICES ASSUME AdmInv PROVE Admit!RunsAsApproved /\ Admit!ClaimAccounted
  BY DEF AdmInv
<1>1. Admit!RunsAsApproved
  BY DEF AdmInv, LaunchKnows, Admit!RunsAsApproved, WhenReserved, WhenCounted, WhenMet, WhenClaimed, WhenRunning
<1>2. \A l \in Launches : stands[l] \in Stages
  BY DEF AdmInv, Admit!AdmissionTypeOK, Stages, WhenAllocated, WhenSelected, WhenReserved, WhenCounted, WhenMet,
     WhenClaimed, WhenRunning
<1>3. \A l \in Launches : stands[l] \notin {"asked", "gated", "refused", "dead"} => workspace[Admit!Deployment(l)] = l
  BY <1>2 DEF AdmInv, LaunchKnows, Stages
<1> QED BY <1>1, <1>3 DEF AdmInv, ClaimBacked, Admit!ClaimAccounted

LEMMA AdmStarts ==
    ASSUME Admit!AdmissionInit
    PROVE  AdmInv
<1> USE DEF Admit!AdmissionInit
<1>1. Admit!AdmissionTypeOK
  <2>1. drifts \in 0..MaxDrifts /\ probe \in [Launches -> 0..Admit!LastStep]
    BY AdmConstants DEF Admit!LastStep
  <2>2. /\ profile \in [Launches -> Profiles] /\ drifted \subseteq Admit!Items
        /\ seen \in [Launches -> SUBSET Admit!Items] /\ fresh \in [Launches -> SUBSET Admit!Items]
        /\ anchored \subseteq Admit!Deployments /\ holder = NoLaunch /\ claim = NoLaunch /\ unended \in BOOLEAN
    OBVIOUS
  <2>3. /\ workspace \in [Admit!Deployments -> Launches \cup {NoLaunch}]
        /\ counted \in [Admit!Deployments -> {"none", "torn", "full"}]
    OBVIOUS
  <2> QED BY <2>1, <2>2, <2>3 DEF Admit!AdmissionTypeOK
<1>2. \A l \in Launches : stands[l] = "asked"
  OBVIOUS
<1>3. \A l \in Launches : LaunchKnows(l)
  BY <1>2 DEF LaunchKnows, WhenAllocated, WhenSelected, WhenReserved, WhenCounted, WhenMet, WhenClaimed, WhenRunning
<1> QED BY <1>1, <1>3 DEF AdmInv, ClaimBacked

\* What is read is an item, and what is needed depends on the profile alone.
LEMMA ItemsRead ==
    ASSUME AdmInv, NEW l \in Launches
    PROVE  /\ Admit!Candidate(l) \subseteq Admit!Items /\ Admit!Host(l) \subseteq Admit!Items
           /\ Admit!StaticEvidence \subseteq Admit!Items /\ Admit!NixosAuthority(l) \subseteq Admit!Items
           /\ Admit!NixosHost \subseteq Admit!Items /\ Admit!Boundary(l) \subseteq Admit!Items
           /\ Admit!Deployment(l) \in Admit!Deployments
<1> USE DEF Admit!Items, Admit!LinkedBranch, Admit!Reference, Admit!VersionedReference,
            Admit!ApprovedReference, Admit!VersionedMatrix, Admit!OlderMatrix, Admit!VersionedHost,
            Admit!ToolHost, Admit!StaticEvidence, Admit!ReadinessGate, Admit!Baseline, Admit!NixosHost
<1>1. Admit!Candidate(l) \subseteq Admit!Items /\ Admit!StaticEvidence \subseteq Admit!Items
  BY DEF Admit!Candidate
<1>2. profile[l] \in {"v1", "current", "nixos"}
  BY AdmConstants DEF AdmInv, Admit!AdmissionTypeOK
<1>3. Admit!Host(l) \subseteq Admit!Items
  BY <1>2 DEF Admit!Host
<1>4. Admit!NixosAuthority(l) \subseteq Admit!Items
  BY <1>1 DEF Admit!NixosAuthority
<1>5. Admit!Boundary(l) \subseteq Admit!Items
  BY <1>1 DEF Admit!Boundary
<1> QED BY <1>1, <1>3, <1>4, <1>5 DEF Admit!Deployment, Admit!Deployments

LEMMA ProfileStays ==
    ASSUME profile' = profile, NEW l
    PROVE  /\ Admit!Candidate(l)' = Admit!Candidate(l) /\ Admit!Host(l)' = Admit!Host(l)
           /\ Admit!Deployment(l)' = Admit!Deployment(l) /\ Admit!Needed(l)' = Admit!Needed(l)
<1>1. Admit!Candidate(l)' = Admit!Candidate(l)
  BY DEF Admit!Candidate, Admit!Reference
<1> QED BY <1>1 DEF Admit!Host, Admit!Deployment, Admit!Needed

\* A step of one launch leaves what the others know.
LEMMA LaunchMoves ==
    ASSUME AdmInv, NEW l \in Launches, NEW next \in Stages, stands' = [stands EXCEPT ![l] = next],
           UNCHANGED <<profile, drifted, drifts>>,
           probe' \in [Launches -> 0..5], seen' \in [Launches -> SUBSET Admit!Items],
           fresh' \in [Launches -> SUBSET Admit!Items],
           \A k \in Launches \ {l} : probe'[k] = probe[k] /\ seen'[k] = seen[k] /\ fresh'[k] = fresh[k],
           seen[l] \subseteq seen'[l],
           workspace' \in [Admit!Deployments -> Launches \cup {NoLaunch}],
           \A k \in Launches : workspace[Admit!Deployment(k)] = k => workspace'[Admit!Deployment(k)] = k,
           counted' \in [Admit!Deployments -> {"none", "torn", "full"}],
           \A d \in Admit!Deployments : counted[d] = "full" => counted'[d] = "full",
           anchored' \subseteq Admit!Deployments, holder' \in Launches \cup {NoLaunch}, unended' \in BOOLEAN,
           \A k \in Launches \ {l} : holder = k => holder' = k,
           claim' = claim \/ (claim = NoLaunch /\ claim' = l),
           \A k \in Launches \ {l} : claim = k /\ unended => unended',
           LaunchKnows(l)',
           claim' = l /\ claim # l => next \in WhenClaimed
    PROVE  AdmInv'
<1>0. Admit!AdmissionTypeOK
  BY DEF AdmInv
<1>1. \A k \in Launches : stands'[k] = (IF k = l THEN next ELSE stands[k])
  BY <1>0 DEF Admit!AdmissionTypeOK
<1>2. claim' \in Launches \cup {NoLaunch}
  BY <1>0 DEF Admit!AdmissionTypeOK
<1>3. Admit!AdmissionTypeOK'
  <2>1. stands' \in [Launches -> Stages]
    BY <1>0, <1>1 DEF Admit!AdmissionTypeOK, Stages, WhenAllocated, WhenSelected, WhenReserved, WhenCounted, WhenMet,
       WhenClaimed, WhenRunning
  <2>2. stands' \in [Launches -> {"asked", "gated", "allocated", "selected", "reserved", "planned", "authorized",
                       "captured", "marked", "met", "probing", "admitted", "handed", "consumed", "ready", "running", "over",
                       "refused", "dead"}]
    BY <2>1 DEF Stages, WhenAllocated, WhenSelected, WhenReserved, WhenCounted, WhenMet, WhenClaimed, WhenRunning
  <2> QED BY <1>0, <1>2, <2>2 DEF Admit!AdmissionTypeOK, Admit!LastStep
<1>4. \A k \in Launches : Admit!Deployment(k) \in Admit!Deployments
  BY ItemsRead
<1>5. ASSUME NEW k \in Launches \ {l} PROVE LaunchKnows(k)'
  <2>1. /\ Admit!Candidate(k)' = Admit!Candidate(k) /\ Admit!Host(k)' = Admit!Host(k)
        /\ Admit!Deployment(k)' = Admit!Deployment(k) /\ Admit!Needed(k)' = Admit!Needed(k)
    BY ProfileStays
  <2>2. LaunchKnows(k)
    BY DEF AdmInv
  <2>3. /\ stands'[k] = stands[k] /\ seen'[k] = seen[k] /\ fresh'[k] = fresh[k] /\ probe'[k] = probe[k]
        /\ Admit!Deployment(k) \in Admit!Deployments /\ k # NoLaunch
    BY <1>1, <1>4, AdmConstants
  <2>4. stands[k] \in WhenClaimed => claim' = k /\ unended'
    BY <2>2, <2>3 DEF LaunchKnows
  <2> QED BY <2>1, <2>2, <2>3, <2>4 DEF LaunchKnows
<1>6. ClaimBacked'
  <2> SUFFICES ASSUME claim' # NoLaunch
               PROVE  /\ counted'[Admit!Deployment(claim)'] = "full"
                      /\ workspace'[Admit!Deployment(claim)'] = claim'
                      /\ Admit!Host(claim)' \cup Admit!Candidate(claim)' \subseteq seen'[claim']
    BY DEF ClaimBacked
  <2>1. PICK k \in Launches : k = claim'
    BY <1>2
  <2>2. /\ Admit!Candidate(k)' = Admit!Candidate(k) /\ Admit!Host(k)' = Admit!Host(k)
        /\ Admit!Deployment(k)' = Admit!Deployment(k)
    BY ProfileStays
  <2>3. /\ Admit!Candidate(claim)' = Admit!Candidate(k)' /\ Admit!Host(claim)' = Admit!Host(k)'
        /\ Admit!Deployment(claim)' = Admit!Deployment(k)'
    BY <2>1
  <2>4. CASE claim = k
    <3>1. /\ counted[Admit!Deployment(k)] = "full" /\ workspace[Admit!Deployment(k)] = k
          /\ Admit!Host(k) \cup Admit!Candidate(k) \subseteq seen[k]
      <4>1. k # NoLaunch
        BY AdmConstants
      <4> QED BY <2>4, <4>1 DEF AdmInv, ClaimBacked
    <3>2. seen[k] \subseteq seen'[k]
      BY <1>0
    <3> QED BY <1>4, <2>1, <2>2, <2>3, <3>1, <3>2
  <2>5. CASE claim # k
    <3>1. k = l /\ next \in WhenClaimed /\ stands'[k] = next
      BY <1>1, <2>1, <2>5
    <3>2. /\ counted'[Admit!Deployment(k)'] = "full" /\ workspace'[Admit!Deployment(k)'] = k
          /\ Admit!Host(k)' \subseteq seen'[k] /\ Admit!Candidate(k)' \subseteq seen'[k]
      BY <3>1 DEF LaunchKnows, WhenAllocated, WhenSelected, WhenReserved, WhenCounted, WhenMet
    <3> QED BY <2>1, <2>3, <3>2
  <2> QED BY <2>4, <2>5
<1>7. \A k \in Launches : LaunchKnows(k)'
  BY <1>5
<1> QED BY <1>3, <1>6, <1>7 DEF AdmInv

\* What a refused launch no longer says of itself.
LEMMA RefuseKept ==
    ASSUME AdmInv, NEW l \in Launches, Admit!Refuse(l)
    PROVE  AdmInv'
<1>0. Admit!AdmissionTypeOK
  BY DEF AdmInv
<1>1. /\ stands' = [stands EXCEPT ![l] = "refused"] /\ holder' = (IF holder = l THEN NoLaunch ELSE holder)
      /\ unended' = (unended /\ claim # l)
  BY DEF Admit!Refuse, Admit!Ends, Admit!Goes
<1>2. UNCHANGED <<profile, drifted, drifts, probe, seen, fresh, workspace, counted, anchored, claim>>
  BY DEF Admit!Refuse, Admit!world
<1>3. stands'[l] = "refused"
  BY <1>0, <1>1 DEF Admit!AdmissionTypeOK
<1>4. LaunchKnows(l)'
  BY <1>3 DEF LaunchKnows, WhenAllocated, WhenSelected, WhenReserved, WhenCounted, WhenMet, WhenClaimed, WhenRunning
<1>5. "refused" \in Stages
  BY DEF Stages
<1>6. /\ holder' \in Launches \cup {NoLaunch} /\ unended' \in BOOLEAN
      /\ \A k \in Launches \ {l} : holder = k => holder' = k
      /\ \A k \in Launches \ {l} : claim = k /\ unended => unended'
  BY <1>0, <1>1 DEF Admit!AdmissionTypeOK
<1>7. /\ probe' \in [Launches -> 0..5] /\ seen' \in [Launches -> SUBSET Admit!Items]
      /\ fresh' \in [Launches -> SUBSET Admit!Items]
      /\ workspace' \in [Admit!Deployments -> Launches \cup {NoLaunch}]
      /\ counted' \in [Admit!Deployments -> {"none", "torn", "full"}] /\ anchored' \subseteq Admit!Deployments
  BY <1>0, <1>2 DEF Admit!AdmissionTypeOK, Admit!LastStep
<1> QED BY <1>1, <1>2, <1>4, <1>5, <1>6, <1>7, LaunchMoves

\* What a step reads, a launch has read; and what reading is enough to go on.
LEMMA CheckKept ==
    ASSUME AdmInv, NEW l \in Launches, NEW from \in Stages, NEW next \in Stages, NEW items \in SUBSET Admit!Items,
           Admit!Check(l, from, items, next), next # "consumed",
           next \in WhenAllocated => from \in WhenAllocated,
           next \in WhenSelected => from \in WhenSelected \/ Admit!Candidate(l) \subseteq items,
           next \in WhenReserved => from \in WhenReserved,
           next \in WhenCounted => from \in WhenCounted,
           next \in WhenMet => from \in WhenMet \/ Admit!Host(l) \subseteq items,
           next \in WhenClaimed => from \in WhenClaimed,
           next = "ready" => profile[l] = "nixos" /\ probe[l] = 0,
           next = "running" => Admit!Needed(l) \subseteq fresh[l] \cup items
    PROVE  AdmInv'
<1>0. Admit!AdmissionTypeOK /\ LaunchKnows(l) /\ stands[l] = from
  BY DEF AdmInv, Admit!Check
<1>1. CASE Admit!Refuse(l)
  BY <1>1, RefuseKept
<1>2. CASE Admit!Reads(l, items) /\ Admit!Goes(l, next)
           /\ UNCHANGED <<profile, drifted, drifts, probe, workspace, counted, anchored, holder, claim, unended>>
  <2>1. /\ stands' = [stands EXCEPT ![l] = next] /\ seen' = [seen EXCEPT ![l] = @ \cup items]
        /\ fresh' = [fresh EXCEPT ![l] = @ \cup items]
    BY <1>2 DEF Admit!Reads, Admit!Goes
  <2>2. stands'[l] = next /\ seen'[l] = seen[l] \cup items /\ fresh'[l] = fresh[l] \cup items /\ probe'[l] = probe[l]
    BY <1>0, <1>2, <2>1 DEF Admit!AdmissionTypeOK
  <2>3. /\ Admit!Candidate(l)' = Admit!Candidate(l) /\ Admit!Host(l)' = Admit!Host(l)
        /\ Admit!Deployment(l)' = Admit!Deployment(l) /\ Admit!Needed(l)' = Admit!Needed(l)
    BY <1>2, ProfileStays
  <2>4. LaunchKnows(l)'
    <3>1. /\ next \in WhenAllocated => workspace'[Admit!Deployment(l)'] = l
          /\ next \in WhenSelected => Admit!Candidate(l)' \subseteq seen'[l]
          /\ next \in WhenReserved => holder' = l
          /\ next \in WhenCounted => counted'[Admit!Deployment(l)'] = "full"
          /\ next \in WhenMet => Admit!Host(l)' \subseteq seen'[l]
          /\ next \in WhenClaimed => claim' = l /\ unended'
      BY <1>0, <1>2, <2>2, <2>3 DEF LaunchKnows
    <3>2. next = "ready" => profile'[l] = "nixos" /\ (probe'[l] \in {2, 4} => {"tree", "host"} \subseteq fresh'[l])
      BY <1>2
    <3>3. next = "running" => Admit!Needed(l)' \subseteq fresh'[l]
      BY <2>2, <2>3
    <3> QED BY <2>2, <3>1, <3>2, <3>3 DEF LaunchKnows
  <2>5. /\ probe' \in [Launches -> 0..5] /\ seen' \in [Launches -> SUBSET Admit!Items]
        /\ fresh' \in [Launches -> SUBSET Admit!Items]
        /\ workspace' \in [Admit!Deployments -> Launches \cup {NoLaunch}]
        /\ counted' \in [Admit!Deployments -> {"none", "torn", "full"}] /\ anchored' \subseteq Admit!Deployments
        /\ holder' \in Launches \cup {NoLaunch} /\ unended' \in BOOLEAN
    BY <1>0, <1>2, <2>1 DEF Admit!AdmissionTypeOK, Admit!LastStep
  <2>6. \A k \in Launches \ {l} : probe'[k] = probe[k] /\ seen'[k] = seen[k] /\ fresh'[k] = fresh[k]
    BY <1>0, <1>2, <2>1 DEF Admit!AdmissionTypeOK
  <2> QED BY <1>2, <2>1, <2>2, <2>4, <2>5, <2>6, LaunchMoves
<1> QED BY <1>1, <1>2 DEF Admit!Check, Admit!world

LEMMA StagesAre ==
    /\ {"asked", "gated", "allocated", "selected", "reserved", "planned", "authorized", "captured", "marked", "met",
        "probing", "admitted", "handed", "consumed", "ready", "running", "over", "refused", "dead"} = Stages
    /\ Admit!LastStep = 5
BY DEF Stages, WhenAllocated, WhenSelected, WhenReserved, WhenCounted, WhenMet, WhenClaimed, WhenRunning, Admit!LastStep

LEMMA GateKept ==
    ASSUME AdmInv, NEW l \in Launches, Admit!Gate(l)
    PROVE  AdmInv'
<1> DEFINE items == IF profile[l] = "v1" THEN Admit!StaticEvidence ELSE {}
<1>1. items \in SUBSET Admit!Items
  BY ItemsRead
<1>2. Admit!Check(l, "asked", items, "gated")
  BY DEF Admit!Gate
<1> HIDE DEF items
<1> QED BY <1>1, <1>2, CheckKept, StagesAre
        DEF WhenAllocated, WhenSelected, WhenReserved, WhenCounted, WhenMet, WhenClaimed, WhenRunning

LEMMA ReadingKept ==
    ASSUME AdmInv, NEW l \in Launches,
           Admit!Select(l) \/ Admit!Plan(l) \/ Admit!Authorize(l) \/ Admit!Prerequisites(l)
    PROVE  AdmInv'
<1> USE DEF WhenAllocated, WhenSelected, WhenReserved, WhenCounted, WhenMet, WhenClaimed, WhenRunning
<1>0. /\ Admit!Candidate(l) \subseteq Admit!Items /\ Admit!Host(l) \subseteq Admit!Items
      /\ Admit!StaticEvidence \subseteq Admit!Items
  BY ItemsRead
<1> DEFINE more == Admit!Candidate(l) \cup (IF profile[l] = "v1" THEN Admit!StaticEvidence ELSE {})
<1>1. more \in SUBSET Admit!Items /\ Admit!Candidate(l) \subseteq more
  BY <1>0
<1> HIDE DEF more
<1>2. CASE Admit!Select(l)
  <2>1. Admit!Check(l, "allocated", more, "selected")
    BY <1>2 DEF Admit!Select, more
  <2> QED BY <1>1, <2>1, CheckKept, StagesAre
<1>3. CASE Admit!Plan(l)
  <2>1. Admit!Check(l, "reserved", Admit!Candidate(l), "planned")
    BY <1>3 DEF Admit!Plan
  <2>2. Admit!Candidate(l) \in SUBSET Admit!Items
    BY <1>0
  <2> QED BY <2>1, <2>2, CheckKept, StagesAre
<1>4. CASE Admit!Authorize(l)
  <2>1. Admit!Check(l, "planned", more, "authorized")
    BY <1>4 DEF Admit!Authorize, more
  <2> QED BY <1>1, <2>1, CheckKept, StagesAre
<1>5. CASE Admit!Prerequisites(l)
  <2>1. Admit!Check(l, "marked", Admit!Host(l), "met")
    BY <1>5 DEF Admit!Prerequisites
  <2>2. /\ "marked" \in Stages /\ "met" \in Stages /\ "marked" \in WhenAllocated /\ "marked" \in WhenSelected
        /\ "marked" \in WhenReserved /\ "marked" \in WhenCounted /\ "met" \notin WhenClaimed
    BY StagesAre
  <2> QED BY <1>0, <2>1, <2>2, CheckKept
<1> QED BY <1>2, <1>3, <1>4, <1>5

\* A launch that only moves on, as far as its own knowledge goes.
LEMMA AllocateKept ==
    ASSUME AdmInv, NEW l \in Launches, Admit!Allocate(l)
    PROVE  AdmInv'
<1>0. Admit!AdmissionTypeOK /\ LaunchKnows(l) /\ stands[l] = "gated"
  BY DEF AdmInv, Admit!Allocate
<1>1. CASE Admit!Refuse(l)
  BY <1>1, RefuseKept
<1>2. CASE /\ profile[l] = "nixos" => Admit!WorkspaceNew(Admit!Prescribed)
           /\ workspace' = [workspace EXCEPT ![Admit!Deployment(l)] = l] /\ Admit!Goes(l, "allocated")
           /\ UNCHANGED <<profile, drifted, drifts, probe, seen, fresh, counted, anchored, holder, claim, unended>>
  <2>1. stands' = [stands EXCEPT ![l] = "allocated"] /\ stands'[l] = "allocated"
    BY <1>0, <1>2 DEF Admit!Goes, Admit!AdmissionTypeOK
  <2>2. Admit!Deployment(l)' = Admit!Deployment(l) /\ Admit!Deployment(l) \in Admit!Deployments
    BY <1>2, ProfileStays, ItemsRead
  <2>3. workspace'[Admit!Deployment(l)] = l
    BY <1>0, <1>2, <2>2 DEF Admit!AdmissionTypeOK
  <2>4. workspace' \in [Admit!Deployments -> Launches \cup {NoLaunch}]
    BY <1>0, <1>2 DEF Admit!AdmissionTypeOK
  <2>5. ASSUME NEW k \in Launches, workspace[Admit!Deployment(k)] = k
        PROVE  workspace'[Admit!Deployment(k)] = k
    <3>1. CASE Admit!Deployment(k) # Admit!Deployment(l)
      BY <1>0, <1>2, <2>5, <3>1 DEF Admit!AdmissionTypeOK
    <3>2. CASE Admit!Deployment(k) = Admit!Deployment(l)
      <4>1. CASE profile[l] = "nixos"
        <5>1. workspace[Admit!Prescribed] = NoLaunch /\ Admit!Deployment(l) = Admit!Prescribed
          BY <1>2, <4>1 DEF Admit!WorkspaceNew, Admit!Deployment
        <5> QED BY <2>5, <3>2, <5>1, AdmConstants
      <4>2. CASE profile[l] # "nixos"
        <5>1. Admit!Deployment(k) = l /\ k = l
          BY <3>2, <4>2, AdmConstants DEF Admit!Deployment
        <5> QED BY <2>3, <5>1
      <4> QED BY <4>1, <4>2
    <3> QED BY <3>1, <3>2
  <2>6. LaunchKnows(l)'
    BY <2>1, <2>2, <2>3 DEF LaunchKnows, WhenAllocated, WhenSelected, WhenReserved, WhenCounted, WhenMet, WhenClaimed,
       WhenRunning
  <2>7. "allocated" \in Stages
    BY StagesAre
  <2>8. /\ probe' \in [Launches -> 0..5] /\ seen' \in [Launches -> SUBSET Admit!Items]
        /\ fresh' \in [Launches -> SUBSET Admit!Items]
        /\ counted' \in [Admit!Deployments -> {"none", "torn", "full"}] /\ anchored' \subseteq Admit!Deployments
        /\ holder' \in Launches \cup {NoLaunch} /\ unended' \in BOOLEAN
    BY <1>0, <1>2 DEF Admit!AdmissionTypeOK, Admit!LastStep
  <2> QED BY <1>2, <2>1, <2>4, <2>5, <2>6, <2>7, <2>8, LaunchMoves
<1> QED BY <1>1, <1>2 DEF Admit!Allocate, Admit!world

LEMMA ReserveKept ==
    ASSUME AdmInv, NEW l \in Launches, Admit!Reserve(l)
    PROVE  AdmInv'
<1>0. Admit!AdmissionTypeOK /\ LaunchKnows(l) /\ stands[l] = "selected"
  BY DEF AdmInv, Admit!Reserve
<1>1. CASE Admit!Refuse(l)
  BY <1>1, RefuseKept
<1>2. CASE /\ holder = NoLaunch /\ Admit!Reads(l, Admit!Candidate(l)) /\ Admit!Goes(l, "reserved")
           /\ holder' = l /\ UNCHANGED <<profile, drifted, drifts, probe, workspace, counted, anchored, claim, unended>>
  <2>1. /\ stands' = [stands EXCEPT ![l] = "reserved"] /\ stands'[l] = "reserved"
        /\ seen' = [seen EXCEPT ![l] = @ \cup Admit!Candidate(l)]
        /\ fresh' = [fresh EXCEPT ![l] = @ \cup Admit!Candidate(l)]
    BY <1>0, <1>2 DEF Admit!Goes, Admit!Reads, Admit!AdmissionTypeOK
  <2>2. /\ Admit!Candidate(l) \subseteq Admit!Items /\ Admit!Deployment(l)' = Admit!Deployment(l)
        /\ Admit!Candidate(l)' = Admit!Candidate(l)
    BY <1>2, ItemsRead, ProfileStays
  <2>3. seen'[l] = seen[l] \cup Admit!Candidate(l)
    BY <1>0, <2>1 DEF Admit!AdmissionTypeOK
  <2>4. LaunchKnows(l)'
    <3>1. workspace[Admit!Deployment(l)] = l
      BY <1>0 DEF LaunchKnows, WhenAllocated, WhenSelected
    <3> QED BY <1>2, <2>1, <2>2, <2>3, <3>1
            DEF LaunchKnows, WhenAllocated, WhenSelected, WhenReserved, WhenCounted, WhenMet, WhenClaimed, WhenRunning
  <2>5. "reserved" \in Stages
    BY StagesAre
  <2>6. /\ seen' \in [Launches -> SUBSET Admit!Items] /\ fresh' \in [Launches -> SUBSET Admit!Items]
        /\ \A k \in Launches \ {l} : probe'[k] = probe[k] /\ seen'[k] = seen[k] /\ fresh'[k] = fresh[k]
        /\ seen[l] \subseteq seen'[l]
    BY <1>0, <1>2, <2>1, <2>2, <2>3 DEF Admit!AdmissionTypeOK
  <2>7. /\ probe' \in [Launches -> 0..5] /\ workspace' \in [Admit!Deployments -> Launches \cup {NoLaunch}]
        /\ counted' \in [Admit!Deployments -> {"none", "torn", "full"}] /\ anchored' \subseteq Admit!Deployments
        /\ holder' \in Launches \cup {NoLaunch} /\ unended' \in BOOLEAN
    BY <1>0, <1>2 DEF Admit!AdmissionTypeOK, Admit!LastStep
  <2>8. \A k \in Launches \ {l} : holder = k => holder' = k
    BY <1>2, AdmConstants
  <2> QED BY <1>2, <2>1, <2>4, <2>5, <2>6, <2>7, <2>8, LaunchMoves
<1> QED BY <1>1, <1>2 DEF Admit!Reserve, Admit!world

LEMMA SnapshotKept ==
    ASSUME AdmInv, NEW l \in Launches, Admit!Snapshot(l)
    PROVE  AdmInv'
<1>0. Admit!AdmissionTypeOK /\ LaunchKnows(l) /\ stands[l] = "authorized"
  BY DEF AdmInv, Admit!Snapshot
<1>1. CASE Admit!Refuse(l)
  BY <1>1, RefuseKept
<1>2. CASE /\ anchored' = IF profile[l] = "nixos" THEN anchored \cup {Admit!Deployment(l)} ELSE anchored
           /\ Admit!Goes(l, "captured")
           /\ UNCHANGED <<profile, drifted, drifts, probe, seen, fresh, workspace, counted, holder, claim, unended>>
  <2>1. stands' = [stands EXCEPT ![l] = "captured"] /\ stands'[l] = "captured"
    BY <1>0, <1>2 DEF Admit!Goes, Admit!AdmissionTypeOK
  <2>2. /\ Admit!Deployment(l) \in Admit!Deployments /\ Admit!Deployment(l)' = Admit!Deployment(l)
        /\ Admit!Candidate(l)' = Admit!Candidate(l)
    BY <1>2, ItemsRead, ProfileStays
  <2>3. LaunchKnows(l)'
    <3>1. workspace[Admit!Deployment(l)] = l /\ Admit!Candidate(l) \subseteq seen[l] /\ holder = l
      BY <1>0 DEF LaunchKnows, WhenAllocated, WhenSelected, WhenReserved
    <3> QED BY <1>2, <2>1, <2>2, <3>1
            DEF LaunchKnows, WhenAllocated, WhenSelected, WhenReserved, WhenCounted, WhenMet, WhenClaimed, WhenRunning
  <2>4. "captured" \in Stages
    BY StagesAre
  <2>5. anchored' \subseteq Admit!Deployments
    BY <1>0, <1>2, <2>2 DEF Admit!AdmissionTypeOK
  <2>6. /\ probe' \in [Launches -> 0..5] /\ seen' \in [Launches -> SUBSET Admit!Items]
        /\ fresh' \in [Launches -> SUBSET Admit!Items]
        /\ workspace' \in [Admit!Deployments -> Launches \cup {NoLaunch}]
        /\ counted' \in [Admit!Deployments -> {"none", "torn", "full"}]
        /\ holder' \in Launches \cup {NoLaunch} /\ unended' \in BOOLEAN
    BY <1>0, <1>2 DEF Admit!AdmissionTypeOK, Admit!LastStep
  <2> QED BY <1>2, <2>1, <2>3, <2>4, <2>5, <2>6, LaunchMoves
<1> QED BY <1>1, <1>2 DEF Admit!Snapshot, Admit!world

LEMMA MarkStartedKept ==
    ASSUME AdmInv, NEW l \in Launches, NEW whole \in BOOLEAN, Admit!MarkStarted(l, whole)
    PROVE  AdmInv'
<1>0. Admit!AdmissionTypeOK /\ LaunchKnows(l) /\ stands[l] = "captured"
  BY DEF AdmInv, Admit!MarkStarted
<1>1. /\ counted' = [counted EXCEPT ![Admit!Deployment(l)] =
                       IF @ # "none" THEN @ ELSE IF whole THEN "full" ELSE "torn"]
      /\ UNCHANGED <<profile, drifted, drifts, probe, seen, fresh, workspace, anchored, claim>>
  BY DEF Admit!MarkStarted, Admit!world
<1>2. /\ Admit!Deployment(l) \in Admit!Deployments /\ Admit!Deployment(l)' = Admit!Deployment(l)
      /\ Admit!Candidate(l)' = Admit!Candidate(l)
  BY <1>1, ItemsRead, ProfileStays
<1>3. /\ counted' \in [Admit!Deployments -> {"none", "torn", "full"}]
      /\ \A d \in Admit!Deployments : counted[d] = "full" => counted'[d] = "full"
  BY <1>0, <1>1 DEF Admit!AdmissionTypeOK
<1>4. PICK next \in {"marked", "refused"} :
        /\ stands' = [stands EXCEPT ![l] = next]
        /\ next = "marked" => counted'[Admit!Deployment(l)] = "full" /\ UNCHANGED <<holder, unended>>
        /\ next = "refused" => holder' = (IF holder = l THEN NoLaunch ELSE holder) /\ unended' = (unended /\ claim # l)
  <2>1. CASE counted'[Admit!Deployment(l)] = "full"
    BY <2>1 DEF Admit!MarkStarted, Admit!Goes
  <2>2. CASE counted'[Admit!Deployment(l)] # "full"
    BY <2>2 DEF Admit!MarkStarted, Admit!Goes, Admit!Ends
  <2> QED BY <2>1, <2>2
<1>5. stands'[l] = next
  BY <1>0, <1>4 DEF Admit!AdmissionTypeOK
<1>6. LaunchKnows(l)'
  <2>1. workspace[Admit!Deployment(l)] = l /\ Admit!Candidate(l) \subseteq seen[l] /\ holder = l
    BY <1>0 DEF LaunchKnows, WhenAllocated, WhenSelected, WhenReserved
  <2> QED BY <1>1, <1>2, <1>4, <1>5, <2>1
          DEF LaunchKnows, WhenAllocated, WhenSelected, WhenReserved, WhenCounted, WhenMet, WhenClaimed, WhenRunning
<1>7. next \in Stages
  BY StagesAre
<1>8. /\ holder' \in Launches \cup {NoLaunch} /\ unended' \in BOOLEAN
      /\ \A k \in Launches \ {l} : holder = k => holder' = k
      /\ \A k \in Launches \ {l} : claim = k /\ unended => unended'
  <2>1. holder \in Launches \cup {NoLaunch} /\ unended \in BOOLEAN
    BY <1>0 DEF Admit!AdmissionTypeOK
  <2>2. CASE next = "marked"
    BY <1>4, <2>1, <2>2
  <2>3. CASE next = "refused"
    BY <1>4, <2>1, <2>3
  <2> QED BY <2>2, <2>3
<1>9. /\ probe' \in [Launches -> 0..5] /\ seen' \in [Launches -> SUBSET Admit!Items]
      /\ fresh' \in [Launches -> SUBSET Admit!Items]
      /\ workspace' \in [Admit!Deployments -> Launches \cup {NoLaunch}] /\ anchored' \subseteq Admit!Deployments
  BY <1>0, <1>1 DEF Admit!AdmissionTypeOK, Admit!LastStep
<1> QED BY <1>1, <1>3, <1>4, <1>6, <1>7, <1>8, <1>9, LaunchMoves

LEMMA ClaimKept ==
    ASSUME AdmInv, NEW l \in Launches, Admit!Claim(l)
    PROVE  AdmInv'
<1>0. Admit!AdmissionTypeOK /\ LaunchKnows(l) /\ stands[l] = "met"
  BY DEF AdmInv, Admit!Claim
<1>1. CASE Admit!Refuse(l)
  BY <1>1, RefuseKept
<1>2. CASE /\ claim = NoLaunch /\ claim' = l /\ unended' = TRUE
           /\ Admit!Goes(l, IF profile[l] = "nixos" THEN "probing" ELSE "admitted")
           /\ UNCHANGED <<profile, drifted, drifts, probe, seen, fresh, workspace, counted, anchored, holder>>
  <2>1. PICK next \in {"probing", "admitted"} : stands' = [stands EXCEPT ![l] = next]
    BY <1>2 DEF Admit!Goes
  <2>2. stands'[l] = next
    BY <1>0, <2>1 DEF Admit!AdmissionTypeOK
  <2>3. /\ Admit!Candidate(l)' = Admit!Candidate(l) /\ Admit!Host(l)' = Admit!Host(l)
        /\ Admit!Deployment(l)' = Admit!Deployment(l)
    BY <1>2, ProfileStays
  <2>4. LaunchKnows(l)'
    <3>1. /\ workspace[Admit!Deployment(l)] = l /\ Admit!Candidate(l) \subseteq seen[l] /\ holder = l
          /\ counted[Admit!Deployment(l)] = "full" /\ Admit!Host(l) \subseteq seen[l]
      BY <1>0 DEF LaunchKnows, WhenAllocated, WhenSelected, WhenReserved, WhenCounted, WhenMet
    <3> QED BY <1>2, <2>2, <2>3, <3>1 DEF LaunchKnows
  <2>5. next \in Stages /\ next \in WhenClaimed
    BY StagesAre DEF WhenClaimed
  <2>6. /\ probe' \in [Launches -> 0..5] /\ seen' \in [Launches -> SUBSET Admit!Items]
        /\ fresh' \in [Launches -> SUBSET Admit!Items]
        /\ workspace' \in [Admit!Deployments -> Launches \cup {NoLaunch}]
        /\ counted' \in [Admit!Deployments -> {"none", "torn", "full"}] /\ anchored' \subseteq Admit!Deployments
        /\ holder' \in Launches \cup {NoLaunch} /\ unended' \in BOOLEAN
    BY <1>0, <1>2 DEF Admit!AdmissionTypeOK, Admit!LastStep
  <2>7. \A k \in Launches \ {l} : claim = k /\ unended => unended'
    BY <1>2
  <2> QED BY <1>2, <2>1, <2>4, <2>5, <2>6, <2>7, LaunchMoves
<1> QED BY <1>1, <1>2 DEF Admit!Claim, Admit!Unclaimed, Admit!world

LEMMA SessionKept ==
    ASSUME AdmInv, NEW l \in Launches, NEW intime \in BOOLEAN,
           Admit!LauncherSession(l, intime) \/ Admit!RunnerSession(l, intime)
    PROVE  AdmInv'
<1>0. Admit!AdmissionTypeOK /\ LaunchKnows(l)
  BY DEF AdmInv
<1>1. PICK from \in {"probing", "ready"} :
        Admit!Session(l, from, IF from = "ready" THEN "running" ELSE "admitted", intime)
  <2>1. CASE Admit!LauncherSession(l, intime)
    BY <2>1 DEF Admit!LauncherSession
  <2>2. CASE Admit!RunnerSession(l, intime)
    BY <2>2 DEF Admit!RunnerSession
  <2> QED BY <2>1, <2>2
<1> DEFINE goal == IF from = "ready" THEN "running" ELSE "admitted"
           items == IF probe[l] % 2 = 0 THEN Admit!NixosAuthority(l) ELSE Admit!NixosHost
<1>2. stands[l] = from /\ from \in WhenClaimed /\ probe[l] \in 0..4 /\ Admit!Session(l, from, goal, intime)
  <2>1. probe[l] \in 0..5 /\ probe[l] < 5
    BY <1>0, <1>1, StagesAre DEF Admit!AdmissionTypeOK, Admit!Session
  <2> QED BY <1>1, <2>1 DEF WhenClaimed, WhenRunning, Admit!Session
<1>3. items \subseteq Admit!Items
  BY ItemsRead
<1> HIDE DEF goal
<1>4. CASE Admit!Refuse(l)
  BY <1>4, RefuseKept
<1>5. CASE /\ seen' = [seen EXCEPT ![l] = @ \cup items]
           /\ fresh' = [fresh EXCEPT ![l] = IF probe[l] % 2 = 0 THEN @ \cup items ELSE items]
           /\ probe' = [probe EXCEPT ![l] = IF @ + 1 = Admit!LastStep /\ goal = "admitted" THEN 0 ELSE @ + 1]
           /\ Admit!Goes(l, IF probe[l] + 1 = Admit!LastStep THEN goal ELSE from)
           /\ UNCHANGED <<profile, drifted, drifts, workspace, counted, anchored, holder, claim, unended>>
  <2> DEFINE next == IF probe[l] = 4 THEN goal ELSE from
  <2>1. stands' = [stands EXCEPT ![l] = next] /\ stands'[l] = next
    <3>1. probe[l] + 1 = Admit!LastStep <=> probe[l] = 4
      BY <1>2, StagesAre
    <3> QED BY <1>0, <1>5, <3>1 DEF Admit!Goes, Admit!AdmissionTypeOK
  <2>2. probe'[l] \in 0..5 /\ (goal = "running" => probe'[l] = probe[l] + 1)
    BY <1>0, <1>2, <1>5, StagesAre DEF Admit!AdmissionTypeOK
  <2>3. seen'[l] = seen[l] \cup items /\ fresh'[l] = (IF probe[l] % 2 = 0 THEN fresh[l] \cup items ELSE items)
    BY <1>0, <1>5 DEF Admit!AdmissionTypeOK
  <2>4. /\ Admit!Candidate(l)' = Admit!Candidate(l) /\ Admit!Host(l)' = Admit!Host(l)
        /\ Admit!Deployment(l)' = Admit!Deployment(l) /\ Admit!Needed(l)' = Admit!Needed(l)
    BY <1>5, ProfileStays
  <2>5. next \in WhenClaimed /\ next # "consumed" /\ (next \in {"ready", "running"} => from = "ready" /\ goal = "running")
    BY <1>2 DEF WhenClaimed, WhenRunning, goal
  <2>6. /\ workspace[Admit!Deployment(l)] = l /\ Admit!Candidate(l) \subseteq seen[l] /\ holder = l
        /\ counted[Admit!Deployment(l)] = "full" /\ Admit!Host(l) \subseteq seen[l] /\ claim = l /\ unended
    BY <1>0, <1>2 DEF LaunchKnows, WhenAllocated, WhenSelected, WhenReserved, WhenCounted, WhenMet
  <2>7. ASSUME next = "ready"
        PROVE  profile'[l] = "nixos" /\ (probe'[l] \in {2, 4} => {"tree", "host"} \subseteq fresh'[l])
    <3>1. probe'[l] = probe[l] + 1 /\ stands[l] = "ready"
      BY <1>2, <2>2, <2>5, <2>7
    <3>2. profile[l] = "nixos"
      BY <1>0, <3>1 DEF LaunchKnows
    <3>3. ASSUME probe'[l] \in {2, 4} PROVE {"tree", "host"} \subseteq fresh'[l]
      <4>1. probe[l] \in {1, 3}
        BY <1>2, <3>1, <3>3
      <4>2. probe[l] % 2 # 0
        BY <4>1
      <4> QED BY <2>3, <4>2 DEF Admit!NixosHost
    <3> QED BY <1>5, <3>2, <3>3
  <2>8. ASSUME next = "running" PROVE Admit!Needed(l) \subseteq fresh'[l]
    <3>1. probe[l] = 4 /\ stands[l] = "ready"
      BY <1>2, <2>5, <2>8
    <3>2. profile[l] = "nixos" /\ {"tree", "host"} \subseteq fresh[l]
      BY <1>0, <3>1 DEF LaunchKnows
    <3>3. fresh'[l] = fresh[l] \cup Admit!NixosAuthority(l)
      <4>1. probe[l] % 2 = 0
        BY <3>1
      <4> QED BY <2>3, <4>1
    <3>4. {"baseline"} \cup Admit!Candidate(l) \subseteq Admit!NixosAuthority(l)
      BY <3>1 DEF Admit!NixosAuthority, Admit!Baseline
    <3>5. Admit!Needed(l) = Admit!Candidate(l) \cup {"baseline", "host"}
      BY <3>2 DEF Admit!Needed
    <3> QED BY <3>2, <3>3, <3>4, <3>5
  <2>9. LaunchKnows(l)'
    <3> HIDE DEF next, items
    <3> QED BY <1>5, <2>1, <2>3, <2>4, <2>5, <2>6, <2>7, <2>8 DEF LaunchKnows
  <2>10. /\ probe' \in [Launches -> 0..5] /\ seen' \in [Launches -> SUBSET Admit!Items]
         /\ fresh' \in [Launches -> SUBSET Admit!Items]
    <3> HIDE DEF items
    <3>1. probe' = [probe EXCEPT ![l] = probe'[l]] /\ probe \in [Launches -> 0..5]
      BY <1>0, <1>5, StagesAre DEF Admit!AdmissionTypeOK
    <3>2. probe' \in [Launches -> 0..5]
      BY <2>2, <3>1
    <3>3. seen' \in [Launches -> SUBSET Admit!Items]
      BY <1>0, <1>3, <1>5 DEF Admit!AdmissionTypeOK
    <3>4. fresh'[l] \in SUBSET Admit!Items /\ fresh' = [fresh EXCEPT ![l] = fresh'[l]]
      BY <1>0, <1>3, <1>5 DEF Admit!AdmissionTypeOK
    <3>5. fresh' \in [Launches -> SUBSET Admit!Items]
      BY <1>0, <3>4 DEF Admit!AdmissionTypeOK
    <3> QED BY <3>2, <3>3, <3>5
  <2>11. \A k \in Launches \ {l} : probe'[k] = probe[k] /\ seen'[k] = seen[k] /\ fresh'[k] = fresh[k]
    BY <1>0, <1>5 DEF Admit!AdmissionTypeOK
  <2>12. /\ workspace' \in [Admit!Deployments -> Launches \cup {NoLaunch}]
         /\ counted' \in [Admit!Deployments -> {"none", "torn", "full"}] /\ anchored' \subseteq Admit!Deployments
         /\ holder' \in Launches \cup {NoLaunch} /\ unended' \in BOOLEAN
    BY <1>0, <1>5 DEF Admit!AdmissionTypeOK
  <2>13. next \in Stages
    BY <2>5 DEF Stages, WhenAllocated, WhenSelected, WhenReserved, WhenCounted, WhenMet
  <2> HIDE DEF next, items
  <2> QED BY <1>5, <2>1, <2>3, <2>9, <2>10, <2>11, <2>12, <2>13, LaunchMoves
<1> QED BY <1>2, <1>4, <1>5 DEF Admit!Session, Admit!world

LEMMA HandOverKept ==
    ASSUME AdmInv, NEW l \in Launches, Admit!HandOver(l)
    PROVE  AdmInv'
<1>0. Admit!Boundary(l) \in SUBSET Admit!Items
  BY ItemsRead
<1>1. CASE Admit!MayPass(l)
  <2>1. Admit!Check(l, "admitted", Admit!Boundary(l), "handed")
    BY <1>1 DEF Admit!HandOver
  <2>2. /\ "admitted" \in Stages /\ "handed" \in Stages /\ "admitted" \in WhenAllocated /\ "admitted" \in WhenSelected
        /\ "admitted" \in WhenReserved /\ "admitted" \in WhenCounted /\ "admitted" \in WhenMet /\ "admitted" \in WhenClaimed
    BY StagesAre DEF WhenAllocated, WhenSelected, WhenReserved, WhenCounted, WhenMet, WhenClaimed
  <2> QED BY <1>0, <2>1, <2>2, CheckKept
<1>2. CASE Admit!Refuse(l)
  BY <1>2, RefuseKept
<1> QED BY <1>1, <1>2 DEF Admit!HandOver

LEMMA ConsumeKept ==
    ASSUME AdmInv, NEW l \in Launches, Admit!Consume(l)
    PROVE  AdmInv'
<1>0. Admit!AdmissionTypeOK /\ LaunchKnows(l) /\ stands[l] = "handed"
  BY DEF AdmInv, Admit!Consume
<1>1. CASE Admit!Refuse(l)
  BY <1>1, RefuseKept
<1>2. CASE /\ Admit!Goes(l, "consumed") /\ probe' = [probe EXCEPT ![l] = 0] /\ fresh' = [fresh EXCEPT ![l] = {}]
           /\ UNCHANGED <<profile, drifted, drifts, seen, workspace, counted, anchored, holder, claim, unended>>
  <2>1. stands' = [stands EXCEPT ![l] = "consumed"] /\ stands'[l] = "consumed" /\ probe'[l] = 0
    BY <1>0, <1>2 DEF Admit!Goes, Admit!AdmissionTypeOK
  <2>2. /\ Admit!Candidate(l)' = Admit!Candidate(l) /\ Admit!Host(l)' = Admit!Host(l)
        /\ Admit!Deployment(l)' = Admit!Deployment(l)
    BY <1>2, ProfileStays
  <2>3. LaunchKnows(l)'
    <3>1. /\ workspace[Admit!Deployment(l)] = l /\ Admit!Candidate(l) \subseteq seen[l] /\ holder = l
          /\ counted[Admit!Deployment(l)] = "full" /\ Admit!Host(l) \subseteq seen[l] /\ claim = l /\ unended
      BY <1>0 DEF LaunchKnows, WhenAllocated, WhenSelected, WhenReserved, WhenCounted, WhenMet, WhenClaimed
    <3> QED BY <1>2, <2>1, <2>2, <3>1 DEF LaunchKnows
  <2>4. "consumed" \in Stages
    BY StagesAre
  <2>5. /\ probe' \in [Launches -> 0..5] /\ fresh' \in [Launches -> SUBSET Admit!Items]
        /\ \A k \in Launches \ {l} : probe'[k] = probe[k] /\ seen'[k] = seen[k] /\ fresh'[k] = fresh[k]
    BY <1>0, <1>2 DEF Admit!AdmissionTypeOK, Admit!LastStep
  <2>6. /\ seen' \in [Launches -> SUBSET Admit!Items]
        /\ workspace' \in [Admit!Deployments -> Launches \cup {NoLaunch}]
        /\ counted' \in [Admit!Deployments -> {"none", "torn", "full"}] /\ anchored' \subseteq Admit!Deployments
        /\ holder' \in Launches \cup {NoLaunch} /\ unended' \in BOOLEAN
    BY <1>0, <1>2 DEF Admit!AdmissionTypeOK
  <2> QED BY <1>2, <2>1, <2>3, <2>4, <2>5, <2>6, LaunchMoves
<1> QED BY <1>1, <1>2 DEF Admit!Consume, Admit!world

LEMMA EnterMatrixKept ==
    ASSUME AdmInv, NEW l \in Launches, Admit!EnterMatrix(l)
    PROVE  AdmInv'
<1>0. Admit!Boundary(l) \in SUBSET Admit!Items
  BY ItemsRead
<1>1. CASE Admit!MayPass(l)
  <2> DEFINE next == IF profile[l] = "nixos" THEN "ready" ELSE "running"
  <2>1. Admit!Check(l, "consumed", Admit!Boundary(l), next)
    BY <1>1 DEF Admit!EnterMatrix
  <2>2. /\ "consumed" \in Stages /\ next \in Stages /\ "consumed" \in WhenAllocated /\ "consumed" \in WhenSelected
        /\ "consumed" \in WhenReserved /\ "consumed" \in WhenCounted /\ "consumed" \in WhenMet /\ "consumed" \in WhenClaimed
    BY StagesAre DEF WhenAllocated, WhenSelected, WhenReserved, WhenCounted, WhenMet, WhenClaimed, WhenRunning
  <2>3. next = "ready" => profile[l] = "nixos" /\ probe[l] = 0
    BY <2>1 DEF AdmInv, LaunchKnows, Admit!Check
  <2>4. next = "running" => Admit!Needed(l) \subseteq Admit!Boundary(l)
    BY DEF Admit!Needed, Admit!Boundary
  <2>5. next # "consumed"
    OBVIOUS
  <2> HIDE DEF next
  <2> QED BY <1>0, <2>1, <2>2, <2>3, <2>4, <2>5, CheckKept
<1>2. CASE Admit!Refuse(l)
  BY <1>2, RefuseKept
<1> QED BY <1>1, <1>2 DEF Admit!EnterMatrix

\* What remains: the end, the death of a process and its sweep.
LEMMA EndKept ==
    ASSUME AdmInv, NEW l \in Launches, Admit!Finish(l) \/ Admit!Dies(l) \/ Admit!Sweep(l)
    PROVE  AdmInv'
<1>0. Admit!AdmissionTypeOK /\ LaunchKnows(l)
  BY DEF AdmInv
<1>1. PICK next \in {"over", "dead"} :
        /\ stands' = [stands EXCEPT ![l] = next]
        /\ next = "over" => stands[l] = "running"
        /\ UNCHANGED <<profile, drifted, drifts, probe, seen, fresh, workspace, counted, anchored, claim>>
        /\ holder' = holder \/ (holder' = NoLaunch /\ stands[l] = "running")
        /\ unended' = unended \/ (unended' = FALSE /\ (stands[l] = "running" \/ claim = l))
  <2>1. CASE Admit!Finish(l)
    BY <2>1 DEF Admit!Finish, Admit!Goes, Admit!world
  <2>2. CASE Admit!Dies(l)
    BY <2>2 DEF Admit!Dies, Admit!Goes, Admit!world
  <2>3. CASE Admit!Sweep(l)
    <3>1. stands' = [stands EXCEPT ![l] = "dead"]
      BY <1>0, <2>3 DEF Admit!Sweep, Admit!AdmissionTypeOK
    <3> QED BY <2>3, <3>1 DEF Admit!Sweep, Admit!world
  <2> QED BY <2>1, <2>2, <2>3
<1>2. stands'[l] = next /\ next \in Stages
  BY <1>0, <1>1, StagesAre DEF Admit!AdmissionTypeOK
<1>3. Admit!Deployment(l)' = Admit!Deployment(l)
  BY <1>1, ProfileStays
<1>4. stands[l] = "running" => holder = l /\ claim = l /\ workspace[Admit!Deployment(l)] = l
  BY <1>0 DEF LaunchKnows, WhenAllocated, WhenSelected, WhenReserved, WhenCounted, WhenMet, WhenClaimed, WhenRunning
<1>5. LaunchKnows(l)'
  <2>1. next = "over" => workspace'[Admit!Deployment(l)'] = l
    BY <1>1, <1>3, <1>4
  <2> QED BY <1>2, <2>1
          DEF LaunchKnows, WhenAllocated, WhenSelected, WhenReserved, WhenCounted, WhenMet, WhenClaimed, WhenRunning
<1>6. /\ holder' \in Launches \cup {NoLaunch} /\ unended' \in BOOLEAN
      /\ \A k \in Launches \ {l} : holder = k => holder' = k
      /\ \A k \in Launches \ {l} : claim = k /\ unended => unended'
  <2>1. holder \in Launches \cup {NoLaunch} /\ unended \in BOOLEAN
    BY <1>0 DEF Admit!AdmissionTypeOK
  <2>2. holder' \in Launches \cup {NoLaunch} /\ \A k \in Launches \ {l} : holder = k => holder' = k
    BY <1>1, <1>4, <2>1
  <2>3. unended' \in BOOLEAN /\ \A k \in Launches \ {l} : claim = k /\ unended => unended'
    <3>1. CASE unended' = unended
      BY <2>1, <3>1
    <3>2. CASE unended' = FALSE /\ claim = l
      BY <3>2
    <3> QED BY <1>1, <1>4, <3>1, <3>2
  <2> QED BY <2>2, <2>3
<1>7. /\ probe' \in [Launches -> 0..5] /\ seen' \in [Launches -> SUBSET Admit!Items]
      /\ fresh' \in [Launches -> SUBSET Admit!Items]
      /\ workspace' \in [Admit!Deployments -> Launches \cup {NoLaunch}]
      /\ counted' \in [Admit!Deployments -> {"none", "torn", "full"}] /\ anchored' \subseteq Admit!Deployments
  BY <1>0, <1>1 DEF Admit!AdmissionTypeOK, Admit!LastStep
<1> QED BY <1>1, <1>2, <1>5, <1>6, <1>7, LaunchMoves

LEMMA DriftKept ==
    ASSUME AdmInv, NEW i \in Admit!Items, Admit!Drift(i)
    PROVE  AdmInv'
<1>1. /\ UNCHANGED <<profile, stands, probe, seen, fresh, workspace, counted, anchored, holder, claim, unended>>
      /\ drifts < MaxDrifts /\ drifts' = drifts + 1
      /\ drifted' = IF i \in drifted THEN drifted \ {i} ELSE drifted \cup {i}
  BY DEF Admit!Drift
<1>2. Admit!AdmissionTypeOK'
  <2>1. drifts' \in 0..MaxDrifts /\ drifted' \subseteq Admit!Items
    BY <1>1, AdmConstants DEF AdmInv, Admit!AdmissionTypeOK
  <2> QED BY <1>1, <2>1 DEF AdmInv, Admit!AdmissionTypeOK, Admit!LastStep
<1>3. \A l \in Launches : LaunchKnows(l)'
  <2> SUFFICES ASSUME NEW l \in Launches PROVE LaunchKnows(l)'
    OBVIOUS
  <2>1. LaunchKnows(l) /\ Admit!Deployment(l)' = Admit!Deployment(l)
        /\ Admit!Candidate(l)' = Admit!Candidate(l) /\ Admit!Host(l)' = Admit!Host(l)
        /\ Admit!Needed(l)' = Admit!Needed(l)
    BY <1>1, ProfileStays DEF AdmInv
  <2> QED BY <1>1, <2>1 DEF LaunchKnows
<1>4. ClaimBacked'
  <2> DEFINE k == claim
  <2>1. /\ Admit!Deployment(k)' = Admit!Deployment(k) /\ Admit!Candidate(k)' = Admit!Candidate(k)
        /\ Admit!Host(k)' = Admit!Host(k)
    BY <1>1 DEF Admit!Deployment, Admit!Candidate, Admit!Reference, Admit!Host
  <2> QED BY <1>1, <2>1 DEF AdmInv, ClaimBacked
<1> QED BY <1>2, <1>3, <1>4 DEF AdmInv

LEMMA AdmKept ==
    ASSUME AdmInv, Admit!AdmissionNext
    PROVE  AdmInv'
BY GateKept, ReadingKept, AllocateKept, ReserveKept, SnapshotKept, MarkStartedKept, ClaimKept, SessionKept, HandOverKept,
   ConsumeKept, EnterMatrixKept, EndKept, DriftKept DEF Admit!AdmissionNext, Admit!InTime

-----------------------------------------------------------------------------
(* The matrix of a review.                                                 *)

BeforeLoop == {"reserved", "marked", "handed", "consumed", "begun", "admitted"}
InLoop == {"loop", "command", "ending"}
Untold == BeforeLoop \cup InLoop \cup {"recover", "returned", "accounted", "context", "captured"}
AtMatrix == {"none"} \cup Untold \cup {"reviewing", "over", "kept", "dead"}
OutOfSteps == Cardinality(Steps) + 1

ReviewRecord ==
    [dep : Reviews \cup {NoReview}, at : AtMatrix, rows : [Steps -> Mat!Entry] \cup {<<>>}, next : 1..OutOfSteps,
     failed : BOOLEAN, ended : {"none", "passed", "failed"}, returned : BOOLEAN, verified : BOOLEAN, aborted : BOOLEAN,
     shown : {"none", "passed", "failed", "crash"}]
ReviewTyped ==
    /\ matrix \in ReviewRecord
    /\ matrix.dep = NoReview <=> matrix.at = "none"
    /\ matrix.dep # NoReview => matrix.rows \in [Steps -> Mat!Entry]

Ledgers == [end : {"passed", "failed", "crash"}, rows : [Steps -> Mat!Entry]] \cup {Mat!NoRecord}
FilesTyped ==
    /\ structured \in BOOLEAN /\ marked \in [Reviews -> {"none", "torn", "full"}]
    /\ handoff \subseteq Reviews /\ claims \subseteq Reviews /\ active \subseteq Reviews
    /\ group \in [Reviews -> [Steps -> {"none", "run", "left", "gone"}]]
    /\ exit \in [Reviews -> [Steps -> {"none", "zero", "other", "killed"}]]
    /\ scope \in 0..MaxMishaps /\ lost \in 0..MaxMishaps
    /\ starts \in [Reviews -> Mat!Scopes \cup {Mat!NoScope}]
    /\ saved \in [Reviews -> Mat!Record \cup {Mat!NoRecord}]
    /\ ledger \in [Reviews -> Ledgers] /\ results \in [Reviews -> Ledgers]
    /\ settled \in {"none", "passed", "failed"}

Quiet(d) == \A i \in Steps : group[d][i] \in {"none", "gone"}
NoneStarted(d) == \A i \in Steps : group[d][i] = "none"
AllZero(d) == \A i \in Steps : exit[d][i] = "zero" /\ (structured => group[d][i] = "gone")

\* Before the executor's loop nothing of a deployment has run or been recorded.
Untouched ==
    /\ \A d \in Reviews : marked[d] = "none" \/ (d = matrix.dep /\ matrix.at \in BeforeLoop) =>
         NoneStarted(d) /\ ledger[d] = Mat!NoRecord
    /\ matrix.at \in BeforeLoop => matrix.rows = Mat!Fresh /\ matrix.next = 1 /\ ~matrix.failed
    /\ matrix.at \in Untold \ {"reserved"} => marked[matrix.dep] # "none"
\* No ledger is there while commands are run, and no release is allowed until
\* the executor has answered for its processes.
Unproved ==
    /\ matrix.at \in InLoop => ledger[matrix.dep] = Mat!NoRecord
    /\ matrix.at \in InLoop \cup {"admitted", "recover", "returned"} => ~matrix.verified
\* A workflow's deployments that are not reviewed now, or may be released, are quiet.
OthersQuiet ==
    structured => \A d \in Reviews : d # matrix.dep \/ matrix.verified => Quiet(d)
ExitKnown ==
    \A d \in Reviews : \A i \in Steps : exit[d][i] = "none" <=> group[d][i] \in {"none", "run"}
\* What an entry says of its command's process.
EntryTrue(d, i, row) ==
    /\ row.st \in {"pending", "skipped"} => group[d][i] = "none"
    /\ structured /\ Mat!Settles(row) => group[d][i] \in {"none", "gone"}
    /\ row.st = "passed" => exit[d][i] = "zero" /\ (structured => group[d][i] = "gone")
EntriesTrue ==
    /\ matrix.at \in InLoop \cup {"returned"} => \A i \in Steps : EntryTrue(matrix.dep, i, matrix.rows[i])
    /\ matrix.at \in {"command", "ending"} => matrix.next \in Steps /\ ~matrix.failed
    /\ matrix.at = "command" => matrix.rows[matrix.next].st = "begun"
    /\ matrix.at \in InLoop /\ ~matrix.failed =>
         \A i \in Steps :
           /\ i < matrix.next => matrix.rows[i].st = "passed"
           /\ i > matrix.next \/ (i = matrix.next /\ matrix.at = "loop") => matrix.rows[i].st = "pending"
PassedRan == \A d \in Reviews : ledger[d].end = "passed" => AllZero(d)
StartedOnce ==
    structured =>
      /\ \A d \in Reviews : starts[d] = Mat!NoScope => NoneStarted(d)
      /\ \A d, e \in Reviews : starts[d] # Mat!NoScope /\ starts[e] # Mat!NoScope => d = e
      /\ matrix.at \in {"begun", "admitted"} \cup InLoop => starts[matrix.dep] # Mat!NoScope
SettledByLedger == settled = "passed" => structured /\ \E d \in Reviews : ledger[d].end = "passed"
ToldTheLedger ==
    matrix.shown # "none" => matrix.at \notin Untold /\ matrix.at # "none" /\ matrix.shown = ledger[matrix.dep].end

\* The inductive invariant behind the matrix's part of MatrixSafe.
MatState == Untouched /\ Unproved /\ OthersQuiet /\ ExitKnown /\ PassedRan /\ StartedOnce /\ SettledByLedger
MatTyped == ReviewTyped /\ FilesTyped
MatInv == MatTyped /\ MatState /\ EntriesTrue /\ ToldTheLedger

\* The instance's copies of the library's operators.
LEMMA MatCounts ==
    ASSUME NEW S
    PROVE  Mat!Cardinality(S) = Cardinality(S) /\ (Mat!IsFiniteSet(S) <=> IsFiniteSet(S))
<1>1. Mat!Cardinality(S) = Cardinality(S)
  BY DEF Mat!Cardinality, Cardinality
<1>2. Mat!IsFiniteSet(S) <=> IsFiniteSet(S)
  BY DEF Mat!IsFiniteSet, IsFiniteSet
<1> QED BY <1>1, <1>2

LEMMA MatConstants ==
    /\ NoReview \notin Reviews /\ IsFiniteSet(Steps) /\ Cardinality(Steps) \in Nat /\ Steps = 1..Cardinality(Steps)
    /\ MaxMishaps \in Nat /\ OutOfSteps \in Nat /\ OutOfSteps \notin Steps
    /\ \A k \in 1..OutOfSteps : k \in Steps \/ (k = OutOfSteps /\ \A i \in Steps : i < k)
<1>1. /\ NoReview \notin Reviews /\ IsFiniteSet(Steps) /\ Steps = 1..Cardinality(Steps) /\ MaxMishaps \in Nat
  BY MatrixConstants, MatCounts DEF Mat!ReviewAssumption
<1>2. Cardinality(Steps) \in Nat
  BY <1>1, FS_CardinalityType
<1> HIDE DEF OutOfSteps
<1>3. OutOfSteps = Cardinality(Steps) + 1
  BY DEF OutOfSteps
<1>4. PICK n \in Nat : n = Cardinality(Steps)
  BY <1>2
<1> QED BY <1>1, <1>3, <1>4

\* Entries and records.
LEMMA EntryFields ==
    ASSUME NEW row \in Mat!Entry
    PROVE  /\ row.dead \in {"yes", "no", "unset"}
           /\ [row EXCEPT !.st = "skipped"] \in Mat!Entry
           /\ [row EXCEPT !.st = "skipped"].st = "skipped" /\ [row EXCEPT !.st = "skipped"].dead = row.dead
           /\ [row EXCEPT !.st = "crash"] \in Mat!Entry
BY DEF Mat!Entry

LEMMA FreshRows ==
    /\ Mat!Fresh \in [Steps -> Mat!Entry]
    /\ \A i \in Steps : Mat!Fresh[i].st = "pending"
BY DEF Mat!Fresh, Mat!Entry

LEMMA SkipRows ==
    ASSUME NEW rows \in [Steps -> Mat!Entry]
    PROVE  /\ Mat!Skip(rows) \in [Steps -> Mat!Entry]
           /\ \A i \in Steps : rows[i].st # "pending" => Mat!Skip(rows)[i] = rows[i]
           /\ \A i \in Steps : rows[i].st = "pending" => Mat!Skip(rows)[i].st = "skipped"
           /\ \A i \in Steps : rows[i].st = "pending" => Mat!Skip(rows)[i].dead = rows[i].dead
<1>1. \A i \in Steps : Mat!Skip(rows)[i] = IF rows[i].st = "pending" THEN [rows[i] EXCEPT !.st = "skipped"] ELSE rows[i]
  BY DEF Mat!Skip
<1>2. \A i \in Steps : rows[i] \in Mat!Entry
  OBVIOUS
<1>3. \A i \in Steps : Mat!Skip(rows)[i] \in Mat!Entry
  BY <1>1, <1>2, EntryFields
<1> QED BY <1>1, <1>2, <1>3, EntryFields DEF Mat!Skip

LEMMA CrashedRows ==
    ASSUME NEW rows \in [Steps -> Mat!Entry]
    PROVE  Mat!Crashed(rows) \in [Steps -> Mat!Entry]
<1> DEFINE closed == [i \in Steps |-> IF rows[i].st = "begun" THEN [rows[i] EXCEPT !.st = "crash"] ELSE rows[i]]
<1>1. \A i \in Steps : rows[i] \in Mat!Entry
  OBVIOUS
<1>2. closed \in [Steps -> Mat!Entry]
  BY <1>1, EntryFields
<1>3. Mat!Crashed(rows) = Mat!Skip(closed)
  BY DEF Mat!Crashed
<1> QED BY <1>2, <1>3, SkipRows

LEMMA RecordsTyped ==
    /\ Mat!NoRecord \in Ledgers
    /\ Ledgers \subseteq Mat!Record \cup {Mat!NoRecord}
    /\ \A rows \in [Steps -> Mat!Entry] : \A end \in {"passed", "failed", "crash"} :
         [end |-> end, rows |-> rows] \in Ledgers /\ [end |-> end, rows |-> rows] # Mat!NoRecord
    /\ \A rows \in [Steps -> Mat!Entry] : \A end \in {"running", "passed", "failed", "crash"} :
         [end |-> end, rows |-> rows] \in Mat!Record
    /\ \A l \in Ledgers : l.end \in {"none", "passed", "failed", "crash"} /\ (l.end = "none" <=> l = Mat!NoRecord)
    /\ \A r \in Mat!Record : r.rows \in [Steps -> Mat!Entry]
    /\ Mat!NoRecord.end = "none"
<1>1. /\ Mat!NoRecord \in Ledgers /\ Ledgers \subseteq Mat!Record \cup {Mat!NoRecord}
  BY DEF Ledgers, Mat!Record
<1>2. \A rows \in [Steps -> Mat!Entry] : \A end \in {"passed", "failed", "crash"} :
         [end |-> end, rows |-> rows] \in Ledgers /\ [end |-> end, rows |-> rows] # Mat!NoRecord
  BY DEF Ledgers, Mat!NoRecord
<1>3. /\ \A rows \in [Steps -> Mat!Entry] : \A end \in {"running", "passed", "failed", "crash"} :
         [end |-> end, rows |-> rows] \in Mat!Record
      /\ \A r \in Mat!Record : r.rows \in [Steps -> Mat!Entry]
      /\ Mat!NoRecord.end = "none"
  BY DEF Mat!Record, Mat!NoRecord
<1>4. \A l \in Ledgers : l.end \in {"none", "passed", "failed", "crash"} /\ (l.end = "none" <=> l = Mat!NoRecord)
  BY DEF Ledgers, Mat!NoRecord
<1> QED BY <1>1, <1>2, <1>3, <1>4

\* The writes that fail are counted within the bound.
LEMMA FaultsCounted ==
    /\ \A w : Mat!Faults(<<w>>) \in Nat
    /\ \A w, w2 : Mat!Faults(<<w, w2>>) \in Nat
<1>1. ASSUME NEW S \in SUBSET {1, 2} PROVE Cardinality(S) \in Nat
  <2>1. {1, 2} = 1..2 /\ 1 \in Int /\ 2 \in Int
    OBVIOUS
  <2>2. IsFiniteSet({1, 2})
    BY <2>1, FS_Interval
  <2> QED BY <2>2, FS_Subset, FS_CardinalityType
<1>2. ASSUME NEW w PROVE Mat!Faults(<<w>>) \in Nat
  <2>1. {i \in DOMAIN <<w>> : Mat!Throws(<<w>>[i])} \in SUBSET {1, 2}
    OBVIOUS
  <2> QED BY <1>1, <2>1, MatCounts DEF Mat!Faults
<1>3. ASSUME NEW w, NEW w2 PROVE Mat!Faults(<<w, w2>>) \in Nat
  <2>1. {i \in DOMAIN <<w, w2>> : Mat!Throws(<<w, w2>>[i])} \in SUBSET {1, 2}
    OBVIOUS
  <2> QED BY <1>1, <2>1, MatCounts DEF Mat!Faults
<1> QED BY <1>2, <1>3

LEMMA LostCounted ==
    ASSUME FilesTyped, NEW k \in Nat, scope + lost + k <= MaxMishaps, lost' = lost + k
    PROVE  lost' \in 0..MaxMishaps
BY MatConstants DEF FilesTyped

LEMMA MatMeans ==
    ASSUME MatInv
    PROVE  Mat!MatrixTypeOK /\ Mat!ProvenRan /\ Mat!ReleasedQuiet
<1> USE DEF MatInv, MatTyped, MatState
<1>1. Mat!MatrixTypeOK
  <2>1. /\ matrix.dep \in Reviews \cup {NoReview} /\ matrix.shown \in {"none", "passed", "failed", "crash"}
        /\ matrix.at \in AtMatrix
    BY DEF ReviewTyped, ReviewRecord
  <2>2. \A d \in Reviews : /\ saved[d] \in Mat!Record \cup {Mat!NoRecord}
                           /\ ledger[d] \in Mat!Record \cup {Mat!NoRecord}
                           /\ results[d] \in Mat!Record \cup {Mat!NoRecord}
    <3>1. \A d \in Reviews : ledger[d] \in Ledgers /\ results[d] \in Ledgers
      BY DEF FilesTyped
    <3> QED BY <3>1, RecordsTyped DEF FilesTyped
  <2>3. \A f \in {saved, ledger, results} : \A d \in Reviews : f[d] \in Mat!Record \cup {Mat!NoRecord}
    BY <2>2
  <2>4. starts \in [Reviews -> Mat!Scopes \cup {Mat!NoScope}] /\ scope \in Mat!Scopes
    BY DEF FilesTyped, Mat!Scopes
  <2>5. matrix.at \in {"none", "reserved", "marked", "handed", "consumed", "begun", "admitted", "loop", "command", "ending",
                       "recover", "returned", "accounted", "context", "captured", "reviewing", "over", "kept", "dead"}
    BY <2>1 DEF AtMatrix, Untold, BeforeLoop, InLoop
  <2>6. matrix.dep # NoReview => matrix.rows \in [Steps -> Mat!Entry]
    BY DEF ReviewTyped
  <2> QED BY <2>1, <2>3, <2>4, <2>5, <2>6 DEF FilesTyped, Mat!MatrixTypeOK
<1>2. Mat!ProvenRan
  <2>1. \A d \in Reviews : ledger[d].end = "passed" => \A i \in Steps : exit[d][i] = "zero"
    BY DEF PassedRan, AllZero
  <2>2. structured => Mat!Cardinality({d \in Reviews : Mat!Ran(d)}) <= 1
    <3> SUFFICES ASSUME structured PROVE Cardinality({d \in Reviews : Mat!Ran(d)}) <= 1
      BY MatCounts
    <3> DEFINE S == {d \in Reviews : Mat!Ran(d)}
    <3>1. \A d \in S : starts[d] # Mat!NoScope
      BY DEF StartedOnce, NoneStarted, Mat!Ran
    <3>2. \A d, e \in S : d = e
      BY <3>1 DEF StartedOnce
    <3>3. CASE S = {}
      BY <3>3, FS_EmptySet
    <3>4. CASE S # {}
      <4>1. PICK e : S = {e}
        BY <3>2, <3>4
      <4>2. Cardinality({e}) = 1
        BY FS_Singleton
      <4> QED BY <4>1, <4>2
    <3> QED BY <3>3, <3>4
  <2>3. settled = "passed" => \E d \in Reviews : \A i \in Steps : exit[d][i] = "zero" /\ group[d][i] = "gone"
    BY DEF SettledByLedger, PassedRan, AllZero
  <2> QED BY <2>1, <2>2, <2>3 DEF Mat!ProvenRan
<1>3. Mat!ReleasedQuiet
  BY DEF OthersQuiet, Quiet, Mat!ReleasedQuiet
<1> QED BY <1>1, <1>2, <1>3

LEMMA MatStarts ==
    ASSUME Mat!MatrixInit
    PROVE  MatInv
<1> USE DEF Mat!MatrixInit
<1>1. matrix = [dep |-> NoReview, at |-> "none", rows |-> <<>>, next |-> 1, failed |-> FALSE, ended |-> "none",
                returned |-> FALSE, verified |-> TRUE, aborted |-> FALSE, shown |-> "none"]
  BY DEF Mat!Nobody
<1>2. /\ matrix.dep = NoReview /\ matrix.at = "none" /\ matrix.shown = "none"
  BY <1>1
<1>3. ReviewTyped
  <2>1. 1 \in 1..OutOfSteps
    BY MatConstants DEF OutOfSteps
  <2>2. matrix \in ReviewRecord
    BY <1>1, <2>1 DEF ReviewRecord, AtMatrix
  <2> QED BY <1>2, <2>2 DEF ReviewTyped
<1>4. FilesTyped
  <2>1. Mat!NoRecord \in Ledgers /\ MaxMishaps \in Nat /\ scope = 0
    BY RecordsTyped, MatConstants DEF Mat!Candidate
  <2>2. scope \in 0..MaxMishaps /\ lost \in 0..MaxMishaps
    BY <2>1
  <2>3. /\ saved \in [Reviews -> Mat!Record \cup {Mat!NoRecord}]
        /\ ledger \in [Reviews -> Ledgers] /\ results \in [Reviews -> Ledgers]
        /\ starts \in [Reviews -> Mat!Scopes \cup {Mat!NoScope}]
    BY <2>1
  <2> QED BY <2>2, <2>3 DEF FilesTyped
<1>5. MatState
  <2>1. \A d \in Reviews : NoneStarted(d) /\ ledger[d] = Mat!NoRecord /\ starts[d] = Mat!NoScope
    BY DEF NoneStarted
  <2>2. Mat!NoRecord.end = "none"
    BY RecordsTyped
  <2>3. matrix.at \notin Untold
    BY <1>2 DEF Untold, BeforeLoop, InLoop
  <2>4. Untouched /\ Unproved
    BY <2>1, <2>3 DEF Untouched, Unproved, Untold, BeforeLoop, InLoop
  <2>5. OthersQuiet /\ ExitKnown
    BY <2>1 DEF OthersQuiet, ExitKnown, Quiet, NoneStarted
  <2>6. PassedRan /\ SettledByLedger
    BY <2>1, <2>2 DEF PassedRan, SettledByLedger
  <2>7. StartedOnce
    BY <2>1, <2>3 DEF StartedOnce, Untold, BeforeLoop, InLoop
  <2> QED BY <2>4, <2>5, <2>6, <2>7 DEF MatState
<1>6. EntriesTrue /\ ToldTheLedger
  BY <1>2 DEF EntriesTrue, ToldTheLedger, InLoop
<1> QED BY <1>3, <1>4, <1>5, <1>6 DEF MatInv, MatTyped

\* A step that starts no process and ends none.
LEMMA MatMoves ==
    ASSUME MatInv, MatTyped', EntriesTrue', ToldTheLedger',
           UNCHANGED <<structured, group, exit, starts, settled>>,
           matrix'.dep = matrix.dep,
           \A d \in Reviews : marked'[d] = "none" => marked[d] = "none",
           matrix'.at \in BeforeLoop => /\ matrix.at \in BeforeLoop /\ matrix'.rows = matrix.rows
                                        /\ matrix'.next = matrix.next /\ matrix'.failed = matrix.failed,
           matrix'.at \in InLoop => matrix.at \in InLoop \cup {"admitted"},
           matrix'.at \in Untold \ {"reserved"} => matrix.at \in Untold /\ marked'[matrix.dep] # "none",
           matrix'.at \in InLoop \cup {"admitted", "recover", "returned"} => ~matrix'.verified,
           matrix'.verified /\ structured => matrix.verified \/ matrix.dep = NoReview \/ Quiet(matrix.dep),
           structured /\ matrix'.at \in {"begun", "admitted"} =>
             matrix.at \in {"begun", "admitted"} \/ starts[matrix.dep] # Mat!NoScope,
           \/ ledger' = ledger
           \/ \E l \in Ledgers :
                /\ matrix.dep \in Reviews /\ marked[matrix.dep] # "none"
                /\ ledger[matrix.dep] = Mat!NoRecord /\ ledger' = [ledger EXCEPT ![matrix.dep] = l]
                /\ matrix'.at \notin BeforeLoop \cup InLoop /\ (l.end = "passed" => AllZero(matrix.dep))
    PROVE  MatInv'
<1> USE DEF MatInv, MatTyped, MatState
<1>0. FilesTyped /\ ReviewTyped
  OBVIOUS
<1>1. \A d \in Reviews : /\ Quiet(d)' = Quiet(d) /\ NoneStarted(d)' = NoneStarted(d) /\ AllZero(d)' = AllZero(d)
  BY DEF Quiet, NoneStarted, AllZero
<1>2. \A d \in Reviews : ledger'[d] = ledger[d] \/
        (d = matrix.dep /\ marked[d] # "none" /\ matrix'.at \notin BeforeLoop \cup InLoop /\ ledger[d] = Mat!NoRecord)
  BY <1>0 DEF FilesTyped
<1>3. Untouched'
  <2>1. ASSUME NEW d \in Reviews, marked'[d] = "none" \/ (d = matrix'.dep /\ matrix'.at \in BeforeLoop)
        PROVE  NoneStarted(d) /\ ledger'[d] = Mat!NoRecord
    <3>1. marked[d] = "none" \/ (d = matrix.dep /\ matrix.at \in BeforeLoop)
      BY <2>1
    <3>2. NoneStarted(d) /\ ledger[d] = Mat!NoRecord
      BY <3>1 DEF Untouched
    <3>3. ledger'[d] = ledger[d]
      BY <1>2, <2>1
    <3> QED BY <3>2, <3>3
  <2>2. matrix'.at \in BeforeLoop => matrix'.rows = Mat!Fresh /\ matrix'.next = 1 /\ ~matrix'.failed
    BY DEF Untouched
  <2>3. matrix'.at \in Untold \ {"reserved"} => marked'[matrix'.dep] # "none"
    OBVIOUS
  <2>4. Mat!Fresh' = Mat!Fresh /\ Mat!NoRecord' = Mat!NoRecord
    BY DEF Mat!Fresh
  <2> QED BY <1>1, <2>1, <2>2, <2>3, <2>4 DEF Untouched
<1>4. Unproved'
  <2>1. ASSUME matrix'.at \in InLoop PROVE ledger'[matrix'.dep] = Mat!NoRecord
    <3>1. matrix.dep \in Reviews
      <4>1. matrix.at # "none" /\ matrix.dep \in Reviews \cup {NoReview}
        BY <1>0, <2>1 DEF InLoop, ReviewTyped, ReviewRecord
      <4> QED BY <1>0, <4>1 DEF ReviewTyped
    <3>2. ledger[matrix.dep] = Mat!NoRecord
      BY <2>1, <3>1 DEF Unproved, Untouched, BeforeLoop
    <3>3. ledger'[matrix.dep] = ledger[matrix.dep]
      BY <1>2, <2>1, <3>1
    <3> QED BY <3>2, <3>3
  <2> QED BY <2>1 DEF Unproved
<1>5. OthersQuiet'
  <2> SUFFICES ASSUME structured, NEW d \in Reviews, d # matrix.dep \/ matrix'.verified PROVE Quiet(d)
    BY <1>1 DEF OthersQuiet
  <2>1. d # matrix.dep => Quiet(d)
    BY DEF OthersQuiet
  <2>2. d = matrix.dep => d # NoReview
    BY MatConstants
  <2> QED BY <2>1, <2>2 DEF OthersQuiet
<1>6. ExitKnown'
  BY DEF ExitKnown
<1>7. PassedRan'
  <2> SUFFICES ASSUME NEW d \in Reviews, ledger'[d].end = "passed" PROVE AllZero(d)
    BY <1>1 DEF PassedRan
  <2>1. CASE ledger'[d] = ledger[d]
    BY <2>1 DEF PassedRan
  <2>2. CASE ledger'[d] # ledger[d]
    <3>1. PICK l \in Ledgers :
                /\ matrix.dep \in Reviews /\ ledger' = [ledger EXCEPT ![matrix.dep] = l]
                /\ (l.end = "passed" => AllZero(matrix.dep))
      BY <2>2
    <3>2. d = matrix.dep /\ ledger'[d] = l
      BY <1>0, <2>2, <3>1 DEF FilesTyped
    <3> QED BY <3>1, <3>2
  <2> QED BY <2>1, <2>2
<1>8. StartedOnce'
  <2>1. structured /\ matrix'.at \in {"begun", "admitted"} \cup InLoop => starts[matrix.dep] # Mat!NoScope
    BY DEF StartedOnce
  <2>2. Mat!NoScope' = Mat!NoScope
    BY DEF Mat!NoScope
  <2> QED BY <1>1, <2>1, <2>2 DEF StartedOnce
<1>9. SettledByLedger'
  <2> SUFFICES ASSUME settled = "passed" PROVE \E d \in Reviews : ledger'[d].end = "passed"
    BY DEF SettledByLedger
  <2>1. PICK d \in Reviews : ledger[d].end = "passed"
    BY DEF SettledByLedger
  <2>2. ledger'[d] = ledger[d]
    BY <1>2, <2>1, RecordsTyped
  <2> QED BY <2>1, <2>2
<1> QED BY <1>3, <1>4, <1>5, <1>6, <1>7, <1>8, <1>9

\* What a step leaves of the review's record, by the fields it sets.
LEMMA SetsAt ==
    ASSUME ReviewTyped, matrix.dep # NoReview, NEW b \in AtMatrix \ {"none"}, NEW v \in BOOLEAN,
           \/ matrix' = [matrix EXCEPT !.at = b] /\ v = matrix.verified
           \/ matrix' = [matrix EXCEPT !.at = b, !.verified = v]
    PROVE  /\ ReviewTyped' /\ matrix'.at = b /\ matrix'.verified = v
           /\ matrix'.dep = matrix.dep /\ matrix'.rows = matrix.rows /\ matrix'.next = matrix.next
           /\ matrix'.failed = matrix.failed /\ matrix'.returned = matrix.returned
           /\ matrix'.shown = matrix.shown
<1>1. /\ matrix' \in ReviewRecord /\ matrix'.at = b /\ matrix'.verified = v
      /\ matrix'.dep = matrix.dep /\ matrix'.rows = matrix.rows /\ matrix'.next = matrix.next
      /\ matrix'.failed = matrix.failed /\ matrix'.returned = matrix.returned
      /\ matrix'.shown = matrix.shown
  BY DEF ReviewTyped, ReviewRecord
<1> QED BY <1>1 DEF ReviewTyped, ReviewRecord

LEMMA SetsRows ==
    ASSUME ReviewTyped, matrix.dep # NoReview, NEW b \in AtMatrix \ {"none"}, NEW r \in [Steps -> Mat!Entry],
           matrix' = [matrix EXCEPT !.at = b, !.rows = r]
    PROVE  /\ ReviewTyped' /\ matrix'.at = b /\ matrix'.rows = r /\ matrix'.verified = matrix.verified
           /\ matrix'.dep = matrix.dep /\ matrix'.next = matrix.next
           /\ matrix'.failed = matrix.failed /\ matrix'.returned = matrix.returned
           /\ matrix'.shown = matrix.shown
<1>1. /\ matrix' \in ReviewRecord /\ matrix'.at = b /\ matrix'.rows = r /\ matrix'.verified = matrix.verified
      /\ matrix'.dep = matrix.dep /\ matrix'.next = matrix.next
      /\ matrix'.failed = matrix.failed /\ matrix'.returned = matrix.returned
      /\ matrix'.shown = matrix.shown
  BY DEF ReviewTyped, ReviewRecord
<1> QED BY <1>1 DEF ReviewTyped, ReviewRecord

LEMMA SetsNext ==
    ASSUME ReviewTyped, matrix.dep # NoReview, NEW b \in AtMatrix \ {"none"}, NEW r \in [Steps -> Mat!Entry],
           NEW k \in 1..OutOfSteps, NEW f \in BOOLEAN,
           matrix' = [matrix EXCEPT !.at = b, !.next = k, !.failed = f, !.rows = r]
    PROVE  /\ ReviewTyped' /\ matrix'.at = b /\ matrix'.rows = r /\ matrix'.verified = matrix.verified
           /\ matrix'.dep = matrix.dep /\ matrix'.next = k
           /\ matrix'.failed = f /\ matrix'.returned = matrix.returned
           /\ matrix'.shown = matrix.shown
<1>1. /\ matrix' \in ReviewRecord /\ matrix'.at = b /\ matrix'.rows = r /\ matrix'.verified = matrix.verified
      /\ matrix'.dep = matrix.dep /\ matrix'.next = k
      /\ matrix'.failed = f /\ matrix'.returned = matrix.returned
      /\ matrix'.shown = matrix.shown
  BY DEF ReviewTyped, ReviewRecord
<1> QED BY <1>1 DEF ReviewTyped, ReviewRecord

LEMMA SetsReturned ==
    ASSUME ReviewTyped, matrix.dep # NoReview, NEW r \in [Steps -> Mat!Entry], NEW e \in {"passed", "failed"},
           \/ matrix' = [matrix EXCEPT !.at = "returned", !.returned = TRUE, !.ended = e, !.rows = r]
           \/ matrix' = [matrix EXCEPT !.at = "returned", !.returned = TRUE, !.ended = e] /\ r = matrix.rows
    PROVE  /\ ReviewTyped' /\ matrix'.at = "returned" /\ matrix'.rows = r /\ matrix'.verified = matrix.verified
           /\ matrix'.dep = matrix.dep /\ matrix'.shown = matrix.shown
<1>1. /\ matrix' \in ReviewRecord /\ matrix'.at = "returned" /\ matrix'.rows = r
      /\ matrix'.verified = matrix.verified /\ matrix'.dep = matrix.dep /\ matrix'.shown = matrix.shown
  BY DEF ReviewTyped, ReviewRecord, AtMatrix, Untold
<1> QED BY <1>1 DEF ReviewTyped, ReviewRecord

LEMMA SetsShown ==
    ASSUME ReviewTyped, matrix.dep # NoReview, NEW s \in {"none", "passed", "failed", "crash"},
           matrix' = [matrix EXCEPT !.at = "reviewing", !.shown = s]
    PROVE  /\ ReviewTyped' /\ matrix'.at = "reviewing" /\ matrix'.shown = s
           /\ matrix'.verified = matrix.verified /\ matrix'.dep = matrix.dep
<1>1. /\ matrix' \in ReviewRecord /\ matrix'.at = "reviewing" /\ matrix'.shown = s
      /\ matrix'.verified = matrix.verified /\ matrix'.dep = matrix.dep /\ matrix'.rows = matrix.rows
  BY DEF ReviewTyped, ReviewRecord, AtMatrix
<1> QED BY <1>1 DEF ReviewTyped, ReviewRecord

LEMMA Reviewing ==
    ASSUME MatInv, matrix.at # "none"
    PROVE  matrix.dep \in Reviews /\ matrix.dep # NoReview /\ matrix.at \in AtMatrix /\ matrix.verified \in BOOLEAN
           /\ matrix.rows \in [Steps -> Mat!Entry] /\ matrix.next \in 1..OutOfSteps /\ matrix.failed \in BOOLEAN
           /\ matrix.returned \in BOOLEAN /\ matrix.aborted \in BOOLEAN
BY MatConstants DEF MatInv, MatTyped, ReviewTyped, ReviewRecord

\* A step that only says where the review stands.
LEMMA MatGoes ==
    ASSUME MatInv, FilesTyped', matrix.at # "none",
           UNCHANGED <<structured, group, exit, starts, settled, ledger>>,
           NEW b \in AtMatrix \ {"none"}, NEW v \in BOOLEAN,
           \/ matrix' = [matrix EXCEPT !.at = b] /\ v = matrix.verified
           \/ matrix' = [matrix EXCEPT !.at = b, !.verified = v],
           \A d \in Reviews : marked'[d] = "none" => marked[d] = "none",
           b \in BeforeLoop => matrix.at \in BeforeLoop,
           b \in InLoop => b = "loop" /\ matrix.at = "admitted", b # "returned",
           b \in Untold \ {"reserved"} => matrix.at \in Untold /\ marked'[matrix.dep] # "none",
           matrix.at \notin Untold => b \notin Untold,
           b \in InLoop \cup {"admitted", "recover"} => ~v,
           v /\ structured => matrix.verified \/ Quiet(matrix.dep),
           structured /\ b \in {"begun", "admitted"} =>
             matrix.at \in {"begun", "admitted"} \/ starts[matrix.dep] # Mat!NoScope
    PROVE  MatInv'
<1>0. ReviewTyped /\ matrix.dep # NoReview /\ matrix.dep \in Reviews
  BY Reviewing DEF MatInv, MatTyped
<1>1. /\ ReviewTyped' /\ matrix'.at = b /\ matrix'.verified = v
      /\ matrix'.dep = matrix.dep /\ matrix'.rows = matrix.rows /\ matrix'.next = matrix.next
      /\ matrix'.failed = matrix.failed /\ matrix'.shown = matrix.shown
  BY <1>0, SetsAt
<1>2. EntriesTrue'
  <2>1. CASE b \notin InLoop
    BY <1>1, <2>1 DEF EntriesTrue, InLoop
  <2>2. CASE b = "loop" /\ matrix.at = "admitted"
    <3>1. /\ matrix.rows = Mat!Fresh /\ matrix.next = 1 /\ NoneStarted(matrix.dep)
      BY <1>0, <2>2 DEF MatInv, MatState, Untouched, BeforeLoop
    <3>2. \A i \in Steps : EntryTrue(matrix.dep, i, matrix.rows[i])
      BY <3>1, FreshRows DEF EntryTrue, NoneStarted
    <3>3. \A i \in Steps : EntryTrue(matrix.dep, i, matrix.rows[i])' = EntryTrue(matrix.dep, i, matrix.rows[i])
      BY <1>1 DEF EntryTrue, Mat!Settles
    <3>4. \A i \in Steps : ~(i < 1)
      BY MatConstants
    <3> QED BY <1>1, <2>2, <3>1, <3>2, <3>3, <3>4, FreshRows DEF EntriesTrue
  <2> QED BY <2>1, <2>2
<1>3. ToldTheLedger'
  BY <1>1 DEF MatInv, ToldTheLedger
<1>4. MatTyped'
  BY <1>1 DEF MatTyped
<1> HIDE DEF MatInv
<1>5. \A x : x \in BeforeLoop => x \in Untold /\ x # "none"
  BY DEF BeforeLoop, Untold
<1> QED BY <1>0, <1>1, <1>2, <1>3, <1>4, MatMoves DEF InLoop, Untold, BeforeLoop

\* A deployment whose commands never started is quiet.
LEMMA StillQuiet ==
    ASSUME MatInv, matrix.at \in BeforeLoop
    PROVE  NoneStarted(matrix.dep) /\ Quiet(matrix.dep) /\ matrix.at # "none" /\ matrix.at \in Untold
           /\ ledger[matrix.dep] = Mat!NoRecord
<1>1. matrix.at # "none" /\ matrix.at \in Untold
  BY DEF BeforeLoop, Untold
<1>2. NoneStarted(matrix.dep) /\ ledger[matrix.dep] = Mat!NoRecord
  BY <1>1, Reviewing DEF MatInv, MatState, Untouched
<1> QED BY <1>1, <1>2 DEF NoneStarted, Quiet

LEMMA RefusedKept ==
    ASSUME MatInv, FilesTyped', matrix.at \in BeforeLoop, Mat!Refused,
           UNCHANGED <<structured, group, exit, starts, settled, ledger>>,
           \A d \in Reviews : marked'[d] = "none" => marked[d] = "none"
    PROVE  MatInv'
<1>1. matrix' = [matrix EXCEPT !.at = "over", !.verified = TRUE]
  BY DEF Mat!Refused
<1>2. Quiet(matrix.dep) /\ matrix.at # "none"
  BY StillQuiet
<1>3. "over" \in AtMatrix \ {"none"} /\ "over" \notin Untold /\ "over" \notin BeforeLoop /\ "over" \notin InLoop
  BY DEF AtMatrix, Untold, BeforeLoop, InLoop
<1>4. "over" \notin {"begun", "admitted", "recover", "returned"}
  OBVIOUS
<1> QED BY <1>1, <1>2, <1>3, <1>4, MatGoes

LEMMA MarkKept ==
    ASSUME MatInv, NEW w \in Mat!Outcomes, Mat!MarkStarted(w)
    PROVE  MatInv'
<1>1. /\ matrix.at = "reserved" /\ Mat!CountFaults(<<w>>)
      /\ marked' = [marked EXCEPT ![matrix.dep] = IF w = "kept" THEN "full" ELSE "torn"]
      /\ IF Mat!Throws(w) THEN Mat!Refused ELSE matrix' = [matrix EXCEPT !.at = "marked"]
      /\ UNCHANGED <<structured, handoff, claims, active, starts, results, group, exit, scope, saved, ledger, settled>>
  BY DEF Mat!MarkStarted
<1>2. matrix.dep \in Reviews /\ matrix.at # "none" /\ matrix.verified \in BOOLEAN /\ matrix.at \in BeforeLoop
  BY <1>1, Reviewing DEF BeforeLoop
<1>3. FilesTyped /\ FilesTyped'
  <2>1. FilesTyped
    BY DEF MatInv, MatTyped
  <2>2. lost' \in 0..MaxMishaps
    BY <1>1, <2>1, FaultsCounted, LostCounted DEF Mat!CountFaults
  <2> QED BY <1>1, <2>1, <2>2 DEF FilesTyped
<1>4. /\ \A d \in Reviews : marked'[d] = "none" => marked[d] = "none"
      /\ marked'[matrix.dep] # "none"
  BY <1>1, <1>2, <1>3 DEF FilesTyped
<1>5. CASE Mat!Refused
  BY <1>1, <1>2, <1>3, <1>4, <1>5, RefusedKept
<1>6. CASE matrix' = [matrix EXCEPT !.at = "marked"]
  <2>1. /\ "marked" \in AtMatrix \ {"none"} /\ "marked" \in Untold /\ "marked" \notin InLoop /\ matrix.at \in Untold
        /\ "marked" \notin {"admitted", "recover", "returned", "begun"}
    BY <1>1 DEF AtMatrix, Untold, BeforeLoop, InLoop
  <2> QED BY <1>1, <1>2, <1>3, <1>4, <1>6, <2>1, MatGoes
<1> QED BY <1>1, <1>5, <1>6

LEMMA ClaimAndHandOverKept ==
    ASSUME MatInv, NEW met \in BOOLEAN, Mat!ClaimAndHandOver(met)
    PROVE  MatInv'
<1>1. /\ matrix.at = "marked"
      /\ UNCHANGED <<structured, marked, starts, results, group, exit, scope, saved, ledger, settled, lost>>
  BY DEF Mat!ClaimAndHandOver
<1>2. matrix.dep \in Reviews /\ matrix.at # "none" /\ matrix.verified \in BOOLEAN /\ matrix.at \in BeforeLoop
  BY <1>1, Reviewing DEF BeforeLoop
<1>3. /\ handoff' = handoff \/ handoff' = handoff \cup {matrix.dep}
      /\ claims' = claims \/ claims' = claims \cup {matrix.dep}
      /\ active' = active \/ active' = active \cup {matrix.dep}
      /\ Mat!Refused \/ matrix' = [matrix EXCEPT !.at = "handed"]
  BY DEF Mat!ClaimAndHandOver
<1>4. FilesTyped'
  <2>1. FilesTyped
    BY DEF MatInv, MatTyped
  <2>2. handoff' \subseteq Reviews /\ claims' \subseteq Reviews /\ active' \subseteq Reviews
    BY <1>2, <1>3, <2>1 DEF FilesTyped
  <2> QED BY <1>1, <2>1, <2>2 DEF FilesTyped
<1>5. CASE Mat!Refused
  BY <1>1, <1>2, <1>4, <1>5, RefusedKept
<1>6. CASE matrix' = [matrix EXCEPT !.at = "handed"]
  <2>1. /\ "handed" \in AtMatrix \ {"none"} /\ "handed" \in Untold /\ "handed" \notin InLoop /\ matrix.at \in Untold
        /\ "handed" \notin {"admitted", "recover", "returned", "begun"} /\ matrix.at # "reserved"
    BY <1>1 DEF AtMatrix, Untold, BeforeLoop, InLoop
  <2>2. marked'[matrix.dep] # "none"
    BY <1>1, <2>1 DEF MatInv, MatState, Untouched
  <2> QED BY <1>1, <1>2, <1>4, <1>6, <2>1, <2>2, MatGoes
<1> QED BY <1>3, <1>5, <1>6

LEMMA ConsumedKept ==
    ASSUME MatInv, Mat!Consume
    PROVE  MatInv'
<1>1. /\ matrix.at = "handed" /\ handoff' = handoff \ {matrix.dep}
      /\ UNCHANGED <<structured, marked, claims, active, starts, results, group, exit, scope, saved, ledger, settled, lost>>
      /\ Mat!Refused \/ matrix' = [matrix EXCEPT !.at = "consumed"]
  BY DEF Mat!Consume
<1>2. matrix.dep \in Reviews /\ matrix.at # "none" /\ matrix.verified \in BOOLEAN /\ matrix.at \in BeforeLoop
  BY <1>1, Reviewing DEF BeforeLoop
<1>4. FilesTyped'
  BY <1>1 DEF MatInv, MatTyped, FilesTyped
<1>5. CASE Mat!Refused
  BY <1>1, <1>2, <1>4, <1>5, RefusedKept
<1>6. CASE matrix' = [matrix EXCEPT !.at = "consumed"]
  <2>1. /\ "consumed" \in AtMatrix \ {"none"} /\ "consumed" \in Untold /\ "consumed" \notin InLoop /\ matrix.at \in Untold
        /\ "consumed" \notin {"admitted", "recover", "returned", "begun"} /\ matrix.at # "reserved"
    BY <1>1 DEF AtMatrix, Untold, BeforeLoop, InLoop
  <2>2. marked'[matrix.dep] # "none"
    BY <1>1, <2>1 DEF MatInv, MatState, Untouched
  <2> QED BY <1>1, <1>2, <1>4, <1>6, <2>1, <2>2, MatGoes
<1> QED BY <1>1, <1>5, <1>6

LEMMA BeginMatrixKept ==
    ASSUME MatInv, Mat!BeginMatrix
    PROVE  MatInv'
<1>1. /\ matrix.at = "consumed"
      /\ UNCHANGED <<structured, marked, handoff, claims, active, results, group, exit, scope, saved, ledger, settled, lost>>
      /\ \/ starts' = starts /\ (Mat!Refused \/ (~structured /\ matrix' = [matrix EXCEPT !.at = "begun"]))
         \/ /\ structured /\ Mat!MayStart /\ matrix' = [matrix EXCEPT !.at = "begun"]
            /\ starts' = [starts EXCEPT ![matrix.dep] = scope]
  BY DEF Mat!BeginMatrix
<1>2. /\ matrix.dep \in Reviews /\ matrix.dep # NoReview /\ matrix.at # "none" /\ matrix.verified \in BOOLEAN
      /\ matrix.at \in BeforeLoop
  BY <1>1, Reviewing DEF BeforeLoop
<1>3. /\ "begun" \in AtMatrix \ {"none"} /\ "begun" \in Untold /\ "begun" \notin InLoop /\ matrix.at \in Untold
      /\ "begun" \notin {"admitted", "recover", "returned"} /\ matrix.at # "reserved" /\ "begun" \in BeforeLoop
  BY <1>1 DEF AtMatrix, Untold, BeforeLoop, InLoop
<1>4. marked[matrix.dep] # "none" /\ NoneStarted(matrix.dep)
  BY <1>2, <1>3, StillQuiet DEF MatInv, MatState, Untouched
<1>5. ReviewTyped /\ FilesTyped
  BY DEF MatInv, MatTyped
<1>6. CASE starts' = starts
  <2>1. FilesTyped'
    BY <1>1, <1>5, <1>6 DEF FilesTyped
  <2>2. CASE Mat!Refused
    BY <1>1, <1>2, <1>6, <2>1, <2>2, RefusedKept
  <2>3. CASE ~structured /\ matrix' = [matrix EXCEPT !.at = "begun"]
    BY <1>1, <1>2, <1>3, <1>4, <1>6, <2>1, <2>3, MatGoes
  <2>4. CASE structured /\ starts' = [starts EXCEPT ![matrix.dep] = scope] /\ Mat!MayStart
    <3>1. starts'[matrix.dep] = scope /\ starts[matrix.dep] = Mat!NoScope
      BY <1>2, <1>5, <2>4 DEF FilesTyped, Mat!MayStart, Mat!NoPriorStart
    <3>2. scope \in 0..MaxMishaps
      BY <1>5 DEF FilesTyped
    <3> QED BY <1>6, <3>1, <3>2, MatConstants DEF Mat!NoScope
  <2> QED BY <1>1, <2>2, <2>3, <2>4
<1>7. CASE /\ structured /\ Mat!MayStart /\ matrix' = [matrix EXCEPT !.at = "begun"]
           /\ starts' = [starts EXCEPT ![matrix.dep] = scope]
  <2>1. /\ ReviewTyped' /\ matrix'.at = "begun" /\ matrix'.verified = matrix.verified
        /\ matrix'.dep = matrix.dep /\ matrix'.rows = matrix.rows /\ matrix'.next = matrix.next
        /\ matrix'.failed = matrix.failed /\ matrix'.shown = matrix.shown
    BY <1>2, <1>3, <1>5, <1>7, SetsAt
  <2>2. scope \in Mat!Scopes /\ Mat!NoScope \notin Mat!Scopes
    BY <1>5, MatConstants DEF FilesTyped, Mat!Scopes, Mat!NoScope
  <2>3. /\ starts' \in [Reviews -> Mat!Scopes \cup {Mat!NoScope}]
        /\ starts'[matrix.dep] # Mat!NoScope
        /\ \A d \in Reviews \ {matrix.dep} : starts'[d] = Mat!NoScope
    BY <1>2, <1>5, <1>7, <2>2 DEF FilesTyped, Mat!MayStart, Mat!NoPriorStart
  <2>4. FilesTyped'
    BY <1>1, <1>5, <2>3 DEF FilesTyped
  <2>5. \A d \in Reviews : Quiet(d)' = Quiet(d) /\ NoneStarted(d)' = NoneStarted(d) /\ AllZero(d)' = AllZero(d)
    BY <1>1 DEF Quiet, NoneStarted, AllZero
  <2> USE DEF MatInv, MatState
  <2>6. Untouched'
    <3>1. Mat!Fresh' = Mat!Fresh /\ Mat!NoRecord' = Mat!NoRecord
      BY DEF Mat!Fresh
    <3>2. matrix.rows = Mat!Fresh /\ matrix.next = 1 /\ ~matrix.failed
      BY <1>2 DEF Untouched
    <3>3. \A d \in Reviews : marked'[d] = "none" \/ (d = matrix'.dep /\ matrix'.at \in BeforeLoop) =>
            NoneStarted(d) /\ ledger[d] = Mat!NoRecord
      BY <1>1, <1>2, <2>1 DEF Untouched
    <3> QED BY <1>1, <1>4, <2>1, <2>5, <3>1, <3>2, <3>3 DEF Untouched
  <2>7. Unproved'
    BY <1>3, <2>1 DEF Unproved
  <2>8. OthersQuiet'
    BY <1>1, <2>1, <2>5 DEF OthersQuiet
  <2>9. ExitKnown' /\ PassedRan' /\ SettledByLedger'
    BY <1>1, <2>5 DEF ExitKnown, PassedRan, SettledByLedger
  <2>10. StartedOnce'
    <3>1. \A d \in Reviews : starts'[d] = Mat!NoScope => NoneStarted(d)
      <4>1. \A d \in Reviews : starts[d] = Mat!NoScope
        BY <1>7 DEF Mat!MayStart, Mat!NoPriorStart
      <4> QED BY <1>1, <1>7, <4>1 DEF StartedOnce
    <3>2. \A d, e \in Reviews : starts'[d] # Mat!NoScope /\ starts'[e] # Mat!NoScope => d = e
      BY <2>3
    <3>3. Mat!NoScope' = Mat!NoScope
      BY DEF Mat!NoScope
    <3> QED BY <2>1, <2>3, <2>5, <3>1, <3>2, <3>3 DEF StartedOnce
  <2>11. EntriesTrue'
    BY <1>3, <2>1 DEF EntriesTrue
  <2>12. ToldTheLedger'
    BY <1>1, <1>3, <2>1 DEF ToldTheLedger
  <2> QED BY <2>1, <2>4, <2>6, <2>7, <2>8, <2>9, <2>10, <2>11, <2>12 DEF MatTyped
<1> QED BY <1>1, <1>6, <1>7

LEMMA MatrixEnteredKept ==
    ASSUME MatInv, Mat!EnterMatrix
    PROVE  MatInv'
<1>1. /\ matrix.at = "begun"
      /\ UNCHANGED <<structured, marked, handoff, claims, active, starts, results, group, exit, scope, saved, ledger,
                     settled, lost>>
      /\ Mat!Refused \/ matrix' = [matrix EXCEPT !.at = "admitted", !.verified = FALSE]
  BY DEF Mat!EnterMatrix, Mat!durable
<1>2. matrix.dep \in Reviews /\ matrix.at # "none" /\ matrix.at \in BeforeLoop
  BY <1>1, Reviewing DEF BeforeLoop
<1>3. FilesTyped'
  BY <1>1 DEF MatInv, MatTyped, FilesTyped
<1>4. CASE Mat!Refused
  BY <1>1, <1>2, <1>3, <1>4, RefusedKept
<1>5. CASE matrix' = [matrix EXCEPT !.at = "admitted", !.verified = FALSE]
  <2>1. /\ "admitted" \in AtMatrix \ {"none"} /\ "admitted" \in Untold /\ "admitted" \notin InLoop
        /\ matrix.at \in Untold /\ matrix.at # "reserved"
    BY <1>1 DEF AtMatrix, Untold, BeforeLoop, InLoop
  <2>2. marked'[matrix.dep] # "none"
    BY <1>1, <2>1 DEF MatInv, MatState, Untouched
  <2> QED BY <1>1, <1>2, <1>3, <1>5, <2>1, <2>2, MatGoes
<1> QED BY <1>1, <1>4, <1>5

\* A write of a file of the review, which may fail.
LEMMA PutTyped ==
    ASSUME NEW S, NEW f \in [Reviews -> S], NEW l \in S, NEW w
    PROVE  /\ Mat!Put(f, matrix.dep, l, w) \in [Reviews -> S]
           /\ \/ Mat!Put(f, matrix.dep, l, w) = f
              \/ Mat!Put(f, matrix.dep, l, w) = [f EXCEPT ![matrix.dep] = l]
BY DEF Mat!Put

LEMMA PreflightKept ==
    ASSUME MatInv, NEW ok \in BOOLEAN, NEW w \in Mat!Outcomes, NEW w2 \in Mat!Outcomes, Mat!Preflight(ok, w, w2)
    PROVE  MatInv'
<1> DEFINE begun == [end |-> "running", rows |-> Mat!Fresh]
           failed == [end |-> "failed", rows |-> Mat!Skip(Mat!Fresh)]
<1>1. /\ matrix.at = "admitted"
      /\ UNCHANGED <<structured, marked, handoff, claims, active, starts, results, group, exit, scope, settled>>
  BY DEF Mat!Preflight, Mat!durable
<1>2. /\ matrix.dep \in Reviews /\ matrix.dep # NoReview /\ matrix.at # "none" /\ matrix.at \in BeforeLoop
      /\ matrix.verified \in BOOLEAN
  BY <1>1, Reviewing DEF BeforeLoop
<1>3. FilesTyped /\ ReviewTyped
  BY DEF MatInv, MatTyped
<1>4. matrix.at \in Untold /\ matrix.at # "reserved" /\ ~matrix.verified /\ marked[matrix.dep] # "none"
  BY <1>1 DEF Untold, BeforeLoop, MatInv, MatState, Unproved, Untouched
<1>5. CASE Mat!Refused /\ UNCHANGED <<saved, ledger, lost>>
  <2>1. FilesTyped'
    BY <1>1, <1>3, <1>5 DEF FilesTyped
  <2> QED BY <1>1, <1>2, <1>5, <2>1, RefusedKept
<1>6. CASE ok
  <2>1. lost' \in 0..MaxMishaps
    BY <1>3, <1>6, FaultsCounted, LostCounted DEF Mat!CountFaults, Mat!Preflight
  <2>2. saved' = Mat!Put(saved, matrix.dep, begun, w)
    BY <1>6 DEF Mat!Preflight
  <2>3. saved' \in [Reviews -> Mat!Record \cup {Mat!NoRecord}]
    <3>1. begun \in Mat!Record
      BY FreshRows, RecordsTyped
    <3> HIDE DEF begun
    <3>2. begun \in Mat!Record \cup {Mat!NoRecord} /\ saved \in [Reviews -> Mat!Record \cup {Mat!NoRecord}]
      BY <1>3, <3>1 DEF FilesTyped
    <3> QED BY <1>2, <2>2, <3>2, PutTyped
  <2>4. CASE ledger' = ledger /\ matrix' = [matrix EXCEPT !.at = "loop"]
    <3>1. FilesTyped'
      BY <1>1, <1>3, <2>1, <2>3, <2>4 DEF FilesTyped
    <3>2. /\ "loop" \in AtMatrix \ {"none"} /\ "loop" \in Untold /\ "loop" \notin BeforeLoop
      BY DEF AtMatrix, Untold, InLoop, BeforeLoop
    <3> QED BY <1>1, <1>2, <1>4, <2>4, <3>1, <3>2, MatGoes
  <2>5. CASE /\ ledger' = Mat!Put(ledger, matrix.dep, failed, w2)
             /\ matrix' = [matrix EXCEPT !.at = "returned", !.returned = TRUE, !.ended = "failed",
                                         !.rows = Mat!Skip(Mat!Fresh)]
    <3>1. /\ failed \in Ledgers /\ failed.end # "passed" /\ Mat!Skip(Mat!Fresh) \in [Steps -> Mat!Entry]
      BY FreshRows, SkipRows, RecordsTyped
    <3>2. \A i \in Steps : Mat!Skip(Mat!Fresh)[i].st = "skipped"
      BY FreshRows, SkipRows
    <3>3. /\ ReviewTyped' /\ matrix'.at = "returned" /\ matrix'.rows = Mat!Skip(Mat!Fresh)
          /\ matrix'.verified = matrix.verified /\ matrix'.dep = matrix.dep /\ matrix'.shown = matrix.shown
      BY <1>2, <1>3, <2>5, <3>1, SetsReturned
    <3>4. /\ NoneStarted(matrix.dep) /\ ledger[matrix.dep] = Mat!NoRecord
      BY <1>2, StillQuiet
    <3> HIDE DEF failed
    <3>5. ledger' \in [Reviews -> Ledgers] /\ (ledger' = ledger \/ ledger' = [ledger EXCEPT ![matrix.dep] = failed])
      <4>1. ledger \in [Reviews -> Ledgers] /\ failed \in Ledgers
        BY <1>3, <3>1 DEF FilesTyped
      <4>2. /\ Mat!Put(ledger, matrix.dep, failed, w2) \in [Reviews -> Ledgers]
            /\ \/ Mat!Put(ledger, matrix.dep, failed, w2) = ledger
               \/ Mat!Put(ledger, matrix.dep, failed, w2) = [ledger EXCEPT ![matrix.dep] = failed]
        BY <4>1 DEF Mat!Put
      <4> QED BY <2>5, <4>2
    <3>6. FilesTyped'
      BY <1>1, <1>3, <2>1, <2>3, <3>5 DEF FilesTyped
    <3>7. EntriesTrue'
      <4>1. \A i \in Steps : EntryTrue(matrix.dep, i, Mat!Skip(Mat!Fresh)[i])
        BY <3>2, <3>4 DEF EntryTrue, NoneStarted
      <4> QED BY <1>1, <3>3, <4>1 DEF EntriesTrue, EntryTrue, InLoop, Mat!Settles
    <3>8. ToldTheLedger'
      BY <1>4, <3>3 DEF MatInv, ToldTheLedger
    <3>9. /\ "returned" \in Untold /\ "returned" \notin BeforeLoop /\ "returned" \notin InLoop
      BY DEF Untold, BeforeLoop, InLoop
    <3> QED BY <1>1, <1>2, <1>3, <1>4, <3>1, <3>3, <3>4, <3>5, <3>6, <3>7, <3>8, <3>9, MatMoves DEF MatTyped
  <2> QED BY <1>6, <2>4, <2>5 DEF Mat!Preflight
<1> QED BY <1>5, <1>6 DEF Mat!Preflight

\* The leader of a group or its last member ends.
ProcessChanges(d, i, g, x) ==
    /\ d \in Reviews /\ i \in Steps /\ g \in {"left", "gone"} /\ x \in {"zero", "other", "killed"}
    /\ group' \in [Reviews -> [Steps -> {"none", "run", "left", "gone"}]]
    /\ exit' \in [Reviews -> [Steps -> {"none", "zero", "other", "killed"}]]
    /\ \A e \in Reviews : \A j \in Steps :
         /\ group'[e][j] = (IF e = d /\ j = i THEN g ELSE group[e][j])
         /\ exit'[e][j] = (IF e = d /\ j = i THEN x ELSE exit[e][j])
    /\ group[d][i] # "none" /\ (group[d][i] = "gone" => g = "gone")
    /\ group[d][i] \in {"left", "gone"} => x = exit[d][i]

\* A process of a command ends, or is found ended.
LEMMA ProcessEnds ==
    ASSUME MatInv, MatTyped', EntriesTrue', NEW d, NEW i, NEW g, NEW x, ProcessChanges(d, i, g, x),
           UNCHANGED <<structured, marked, starts, ledger, settled>>,
           /\ matrix'.dep = matrix.dep /\ matrix'.shown = matrix.shown /\ matrix'.verified = matrix.verified
           /\ matrix'.rows = matrix.rows \/ matrix'.at \notin BeforeLoop
           /\ matrix'.next = matrix.next /\ matrix'.failed = matrix.failed,
           matrix'.at = matrix.at \/ (matrix.at = "command" /\ matrix'.at = "ending")
    PROVE  MatInv'
<1> USE DEF MatInv, MatTyped, MatState, ProcessChanges
<1>0. FilesTyped /\ FilesTyped' /\ Mat!NoRecord' = Mat!NoRecord /\ Mat!NoScope' = Mat!NoScope
  BY DEF Mat!NoScope
<1>1. \A e \in Reviews : (NoneStarted(e)' <=> NoneStarted(e)) /\ (Quiet(e) => Quiet(e)') /\ (AllZero(e) => AllZero(e)')
  <2> SUFFICES ASSUME NEW e \in Reviews
               PROVE  (NoneStarted(e)' <=> NoneStarted(e)) /\ (Quiet(e) => Quiet(e)') /\ (AllZero(e) => AllZero(e)')
    OBVIOUS
  <2>1. NoneStarted(e)' <=> NoneStarted(e)
    <3>1. CASE e = d
      BY <3>1 DEF NoneStarted
    <3>2. CASE e # d
      <4>1. \A j \in Steps : group'[e][j] = group[e][j]
        BY <3>2
      <4> QED BY <4>1 DEF NoneStarted
    <3> QED BY <3>1, <3>2
  <2>2. Quiet(e) => Quiet(e)'
    BY DEF Quiet
  <2>3. AllZero(e) => AllZero(e)'
    <3> SUFFICES ASSUME AllZero(e), NEW j \in Steps PROVE exit'[e][j] = "zero" /\ (structured => group'[e][j] = "gone")
      BY DEF AllZero
    <3>1. exit[e][j] = "zero" /\ (structured => group[e][j] = "gone")
      BY DEF AllZero
    <3>2. group[e][j] \in {"left", "gone"}
      <4>1. group[e][j] \in {"none", "run", "left", "gone"}
        BY <1>0 DEF FilesTyped
      <4> QED BY <3>1, <4>1 DEF ExitKnown
    <3> QED BY <3>1, <3>2
  <2> QED BY <2>1, <2>2, <2>3
<1>2. Untouched'
  <2>1. Mat!Fresh' = Mat!Fresh
    BY DEF Mat!Fresh
  <2>2. "ending" \notin BeforeLoop /\ "ending" \in Untold \ {"reserved"} /\ "command" \in Untold \ {"reserved"}
    BY DEF BeforeLoop, Untold, InLoop
  <2> QED BY <1>0, <1>1, <2>1, <2>2 DEF Untouched
<1>3. Unproved'
  BY <1>0 DEF Unproved, InLoop
<1>4. OthersQuiet'
  BY <1>1 DEF OthersQuiet
<1>5. ExitKnown'
  <2> SUFFICES ASSUME NEW e \in Reviews, NEW j \in Steps PROVE exit'[e][j] = "none" <=> group'[e][j] \in {"none", "run"}
    BY DEF ExitKnown
  <2> QED BY DEF ExitKnown
<1>6. PassedRan'
  BY <1>1 DEF PassedRan
<1>7. StartedOnce'
  BY <1>0, <1>1 DEF StartedOnce, InLoop
<1>8. SettledByLedger'
  BY DEF SettledByLedger
<1>9. ToldTheLedger'
  BY DEF ToldTheLedger, Untold, InLoop
<1> QED BY <1>2, <1>3, <1>4, <1>5, <1>6, <1>7, <1>8, <1>9

\* A process that ends by itself changes nothing of what is known of it.
LEMMA EndsByItself ==
    ASSUME MatInv, NEW d, NEW i, NEW g, NEW x, ProcessChanges(d, i, g, x), group[d][i] # "gone",
           UNCHANGED <<structured, matrix, marked, handoff, claims, active, starts, results, scope, saved, ledger, settled,
                       lost>>
    PROVE  MatInv'
<1>0. /\ d \in Reviews /\ i \in Steps /\ group[d][i] \in {"run", "left"} /\ g \in {"left", "gone"}
      /\ \A e \in Reviews : \A j \in Steps :
           /\ group'[e][j] = (IF e = d /\ j = i THEN g ELSE group[e][j])
           /\ exit'[e][j] = (IF e = d /\ j = i THEN x ELSE exit[e][j])
      /\ group' \in [Reviews -> [Steps -> {"none", "run", "left", "gone"}]]
      /\ exit' \in [Reviews -> [Steps -> {"none", "zero", "other", "killed"}]]
  BY DEF ProcessChanges, MatInv, MatTyped, FilesTyped
<1>1. MatTyped'
  <2>1. ReviewTyped'
    BY DEF MatInv, MatTyped, ReviewTyped, ReviewRecord
  <2>2. FilesTyped'
    BY <1>0 DEF MatInv, MatTyped, FilesTyped
  <2> QED BY <2>1, <2>2 DEF MatTyped
<1>2. EntriesTrue'
  <2>1. ASSUME matrix.at \in InLoop \cup {"returned"}, NEW j \in Steps
        PROVE  EntryTrue(matrix.dep, j, matrix.rows[j])'
    <3>1. matrix.dep \in Reviews /\ EntryTrue(matrix.dep, j, matrix.rows[j])
      <4>1. matrix.at # "none"
        BY <2>1 DEF InLoop
      <4> QED BY <2>1, <4>1, Reviewing DEF MatInv, EntriesTrue
    <3>2. CASE matrix.dep = d /\ j = i
      <4>1. matrix.rows[j].st \notin {"pending", "skipped"} /\ ~(structured /\ Mat!Settles(matrix.rows[j]))
        BY <1>0, <3>1, <3>2 DEF EntryTrue
      <4>2. ASSUME matrix.rows[j].st = "passed" PROVE exit'[d][i] = "zero" /\ ~structured
        <5>1. exit[d][i] = "zero" /\ (structured => group[d][i] = "gone")
          BY <3>1, <3>2, <4>2 DEF EntryTrue
        <5>2. group[d][i] # "run"
          BY <1>0, <5>1 DEF MatInv, MatState, ExitKnown
        <5>3. exit'[d][i] = exit[d][i]
          BY <1>0, <5>2 DEF ProcessChanges
        <5> QED BY <1>0, <5>1, <5>2, <5>3
      <4> QED BY <1>0, <3>2, <4>1, <4>2 DEF EntryTrue, Mat!Settles
    <3>3. CASE ~(matrix.dep = d /\ j = i)
      BY <1>0, <3>1, <3>3 DEF EntryTrue, Mat!Settles
    <3> QED BY <3>2, <3>3
  <2>2. EntriesTrue
    BY DEF MatInv
  <2> QED BY <2>1, <2>2 DEF EntriesTrue
<1>3. matrix'.rows = matrix.rows \/ matrix'.at \notin BeforeLoop
  OBVIOUS
<1> QED BY <1>1, <1>2, <1>3, ProcessEnds

LEMMA CommandExitsKept ==
    ASSUME MatInv, NEW d \in Reviews, NEW i \in Steps, NEW how \in {"zero", "other"}, NEW left \in BOOLEAN,
           Mat!CommandExits(d, i, how, left)
    PROVE  MatInv'
<1>1. /\ group[d][i] = "run" /\ group' = [group EXCEPT ![d][i] = IF left THEN "left" ELSE "gone"]
      /\ exit' = [exit EXCEPT ![d][i] = how]
      /\ UNCHANGED <<structured, matrix, marked, handoff, claims, active, starts, results, scope, saved, ledger, settled,
                     lost>>
  BY DEF Mat!CommandExits, Mat!durable
<1>2. PICK g \in {"left", "gone"} : group' = [group EXCEPT ![d][i] = g]
  BY <1>1
<1>3. FilesTyped
  BY DEF MatInv, MatTyped
<1>4. /\ group' \in [Reviews -> [Steps -> {"none", "run", "left", "gone"}]]
      /\ \A e \in Reviews : \A j \in Steps : group'[e][j] = (IF e = d /\ j = i THEN g ELSE group[e][j])
  BY <1>2, <1>3 DEF FilesTyped
<1>5. /\ exit' \in [Reviews -> [Steps -> {"none", "zero", "other", "killed"}]]
      /\ \A e \in Reviews : \A j \in Steps : exit'[e][j] = (IF e = d /\ j = i THEN how ELSE exit[e][j])
  BY <1>1, <1>3 DEF FilesTyped
<1>6. /\ group[d][i] = "run" /\ g \in {"left", "gone"} /\ how \in {"zero", "other", "killed"}
      /\ \A e \in Reviews : \A j \in Steps :
           /\ group'[e][j] = (IF e = d /\ j = i THEN g ELSE group[e][j])
           /\ exit'[e][j] = (IF e = d /\ j = i THEN how ELSE exit[e][j])
  BY <1>1, <1>4, <1>5
<1>7. UNCHANGED <<structured, matrix, marked, handoff, claims, active, starts, results, scope, saved, ledger, settled,
                  lost>>
  BY <1>1
<1>8. ProcessChanges(d, i, g, how) /\ group[d][i] # "gone"
  BY <1>4, <1>5, <1>6 DEF ProcessChanges
<1> QED BY <1>7, <1>8, EndsByItself

LEMMA GroupDiesKept ==
    ASSUME MatInv, NEW d \in Reviews, NEW i \in Steps, Mat!GroupDies(d, i)
    PROVE  MatInv'
<1>1. /\ group[d][i] = "left" /\ group' = [group EXCEPT ![d][i] = "gone"]
      /\ UNCHANGED <<structured, matrix, marked, handoff, claims, active, starts, results, exit, scope, saved, ledger,
                     settled, lost>>
  BY DEF Mat!GroupDies, Mat!durable
<1>2. FilesTyped
  BY DEF MatInv, MatTyped
<1>3. /\ group' \in [Reviews -> [Steps -> {"none", "run", "left", "gone"}]]
      /\ \A e \in Reviews : \A j \in Steps : group'[e][j] = (IF e = d /\ j = i THEN "gone" ELSE group[e][j])
  BY <1>1, <1>2 DEF FilesTyped
<1>4. PICK x \in {"zero", "other", "killed"} : x = exit[d][i]
  <2>1. exit[d][i] \in {"none", "zero", "other", "killed"} /\ exit[d][i] # "none"
    BY <1>1, <1>2 DEF FilesTyped, MatInv, MatState, ExitKnown
  <2> QED BY <2>1
<1>5. /\ exit' \in [Reviews -> [Steps -> {"none", "zero", "other", "killed"}]]
      /\ \A e \in Reviews : \A j \in Steps : exit'[e][j] = (IF e = d /\ j = i THEN x ELSE exit[e][j])
  BY <1>1, <1>2, <1>4 DEF FilesTyped
<1>6. /\ group[d][i] = "left" /\ x \in {"zero", "other", "killed"} /\ x = exit[d][i]
      /\ \A e \in Reviews : \A j \in Steps :
           /\ group'[e][j] = (IF e = d /\ j = i THEN "gone" ELSE group[e][j])
           /\ exit'[e][j] = (IF e = d /\ j = i THEN x ELSE exit[e][j])
  BY <1>1, <1>3, <1>4, <1>5
<1>7. UNCHANGED <<structured, matrix, marked, handoff, claims, active, starts, results, scope, saved, ledger, settled,
                  lost>>
  BY <1>1
<1>8. ProcessChanges(d, i, "gone", x) /\ group[d][i] # "gone"
  BY <1>3, <1>5, <1>6 DEF ProcessChanges
<1> QED BY <1>7, <1>8, EndsByItself

LEMMA AtRows ==
    ASSUME matrix.rows \in [Steps -> Mat!Entry], matrix.next \in Steps,
           NEW st \in {"pending", "begun", "passed", "crash", "unsettled", "skipped"} \cup Mat!Bad, NEW dead \in {"yes", "no", "unset"}
    PROVE  /\ Mat!At(st, dead) \in [Steps -> Mat!Entry]
           /\ Mat!At(st, dead)[matrix.next].st = st /\ Mat!At(st, dead)[matrix.next].dead = dead
           /\ \A i \in Steps : i # matrix.next => Mat!At(st, dead)[i] = matrix.rows[i]
<1>1. [st |-> st, dead |-> dead] \in Mat!Entry
  BY DEF Mat!Entry, Mat!Bad
<1>2. Mat!At(st, dead) = [matrix.rows EXCEPT ![matrix.next] = [st |-> st, dead |-> dead]]
  BY DEF Mat!At, Mat!Current
<1> QED BY <1>1, <1>2

\* A write of the state file leaves the files typed.
LEMMA SavedTyped ==
    ASSUME FilesTyped, matrix.dep \in Reviews, NEW rows \in [Steps -> Mat!Entry],
           NEW end \in {"running", "passed", "failed", "crash"}, NEW w
    PROVE  Mat!Put(saved, matrix.dep, [end |-> end, rows |-> rows], w)
             \in [Reviews -> Mat!Record \cup {Mat!NoRecord}]
<1>1. [end |-> end, rows |-> rows] \in Mat!Record \cup {Mat!NoRecord}
  BY RecordsTyped
<1>2. saved \in [Reviews -> Mat!Record \cup {Mat!NoRecord}]
  BY DEF FilesTyped
<1> QED BY <1>1, <1>2, PutTyped

LEMMA StartCommandKept ==
    ASSUME MatInv, NEW w \in Mat!Outcomes, Mat!StartCommand(w)
    PROVE  MatInv'
<1> DEFINE r == Mat!At("begun", "unset")
           i == matrix.next
           d == matrix.dep
<1>1. /\ matrix.at = "loop" /\ ~matrix.failed /\ i \in Steps /\ Mat!CountFaults(<<w>>)
      /\ UNCHANGED <<structured, marked, handoff, claims, active, starts, results, exit, scope, ledger, settled>>
  BY DEF Mat!StartCommand, Mat!durable, Mat!Going, Mat!Current
<1>2. /\ d \in Reviews /\ d # NoReview /\ matrix.at # "none" /\ matrix.verified \in BOOLEAN
      /\ matrix.rows \in [Steps -> Mat!Entry]
  BY <1>1, Reviewing
<1>3. FilesTyped /\ ReviewTyped /\ lost' \in 0..MaxMishaps
  BY <1>1, FaultsCounted, LostCounted DEF MatInv, MatTyped, Mat!CountFaults
<1>4. r \in [Steps -> Mat!Entry] /\ r[i].st = "begun" /\ \A j \in Steps : j # i => r[j] = matrix.rows[j]
  <2>1. "begun" \in {"pending", "begun", "passed", "crash", "unsettled", "skipped"} \cup Mat!Bad /\ "unset" \in {"yes", "no", "unset"}
    OBVIOUS
  <2> QED BY <1>1, <1>2, <2>1, AtRows
<1> HIDE DEF r
<1>5. /\ saved' \in [Reviews -> Mat!Record \cup {Mat!NoRecord}]
      /\ \/ group' = group /\ matrix' = [matrix EXCEPT !.at = "recover"]
         \/ /\ matrix' = [matrix EXCEPT !.at = "command", !.rows = r]
            /\ group' = [group EXCEPT ![d][i] = "run"]
  <2>1. Mat!Put(saved, d, [end |-> "running", rows |-> r], w) \in [Reviews -> Mat!Record \cup {Mat!NoRecord}]
    BY <1>2, <1>3, <1>4, SavedTyped
  <2>2. saved' = saved \/ saved' = Mat!Put(saved, d, [end |-> "running", rows |-> r], w)
    BY DEF Mat!StartCommand, r
  <2>3. saved' \in [Reviews -> Mat!Record \cup {Mat!NoRecord}]
    BY <1>3, <2>1, <2>2 DEF FilesTyped
  <2>4. \/ group' = group /\ matrix' = [matrix EXCEPT !.at = "recover"]
        \/ /\ matrix' = [matrix EXCEPT !.at = "command", !.rows = r]
           /\ group' = [group EXCEPT ![d][i] = "run"]
    BY DEF Mat!StartCommand, Mat!Current, r
  <2> QED BY <2>3, <2>4
<1>6. /\ matrix.at \in Untold /\ matrix.at \in InLoop /\ matrix.at # "reserved" /\ ~matrix.verified
      /\ marked[d] # "none" /\ ledger[d] = Mat!NoRecord
  BY <1>1 DEF Untold, InLoop, MatInv, MatState, Unproved, Untouched
<1>7. CASE group' = group /\ matrix' = [matrix EXCEPT !.at = "recover"]
  <2>1. FilesTyped'
    BY <1>1, <1>3, <1>5, <1>7 DEF FilesTyped
  <2>2. /\ "recover" \in AtMatrix \ {"none"} /\ "recover" \in Untold /\ "recover" \notin BeforeLoop
        /\ "recover" \notin InLoop
    BY DEF AtMatrix, Untold, BeforeLoop, InLoop
  <2> QED BY <1>1, <1>2, <1>6, <1>7, <2>1, <2>2, MatGoes
<1>8. CASE matrix' = [matrix EXCEPT !.at = "command", !.rows = r] /\ group' = [group EXCEPT ![d][i] = "run"]
  <2>0. /\ "command" \in AtMatrix \ {"none"} /\ "command" \in Untold \ {"reserved"} /\ "command" \notin BeforeLoop
        /\ "command" \in InLoop
    BY DEF AtMatrix, Untold, BeforeLoop, InLoop
  <2>1. /\ ReviewTyped' /\ matrix'.at = "command" /\ matrix'.rows = r /\ matrix'.verified = matrix.verified
        /\ matrix'.dep = matrix.dep /\ matrix'.next = matrix.next
        /\ matrix'.failed = matrix.failed /\ matrix'.shown = matrix.shown
    BY <1>2, <1>3, <1>4, <1>8, <2>0, SetsRows
  <2>2. /\ group' \in [Reviews -> [Steps -> {"none", "run", "left", "gone"}]]
        /\ \A e \in Reviews : \A j \in Steps : group'[e][j] = (IF e = d /\ j = i THEN "run" ELSE group[e][j])
    BY <1>1, <1>2, <1>3, <1>8 DEF FilesTyped
  <2>3. FilesTyped'
    BY <1>1, <1>3, <1>5, <2>2 DEF FilesTyped
  <2>4. /\ \A j \in Steps : EntryTrue(d, j, matrix.rows[j])
        /\ \A j \in Steps : /\ j < i => matrix.rows[j].st = "passed"
                            /\ j > i \/ j = i => matrix.rows[j].st = "pending"
    BY <1>1, <1>6 DEF MatInv, EntriesTrue
  <2>5. group[d][i] = "none" /\ exit[d][i] = "none"
    BY <1>1, <1>2, <2>4 DEF EntryTrue, MatInv, MatState, ExitKnown
  <2>6. \A e \in Reviews : e # d => Quiet(e)' = Quiet(e) /\ NoneStarted(e)' = NoneStarted(e) /\ AllZero(e)' = AllZero(e)
    BY <1>1, <2>2 DEF Quiet, NoneStarted, AllZero
  <2>7. ledger[d].end # "passed" /\ Mat!NoRecord' = Mat!NoRecord /\ Mat!NoScope' = Mat!NoScope
    BY <1>6, RecordsTyped DEF Mat!NoScope
  <2> USE DEF MatInv, MatState
  <2>8. Untouched'
    <3>1. \A e \in Reviews : marked[e] = "none" => e # d
      BY <1>6
    <3> QED BY <1>1, <1>6, <2>0, <2>1, <2>6, <2>7, <3>1 DEF Untouched
  <2>9. Unproved'
    BY <1>1, <1>6, <2>1, <2>7 DEF Unproved
  <2>10. OthersQuiet'
    BY <1>1, <1>6, <2>1, <2>6 DEF OthersQuiet
  <2>11. ExitKnown'
    BY <1>1, <2>2, <2>5 DEF ExitKnown
  <2>12. PassedRan'
    BY <1>1, <2>6, <2>7 DEF PassedRan
  <2>13. StartedOnce'
    BY <1>1, <1>6, <2>1, <2>6, <2>7 DEF StartedOnce
  <2>14. SettledByLedger'
    BY <1>1 DEF SettledByLedger
  <2>15. EntriesTrue'
    <3>1. ASSUME NEW j \in Steps PROVE EntryTrue(matrix.dep, j, matrix.rows[j])'
      <4>1. CASE j = i
        BY <1>4, <2>1, <4>1 DEF EntryTrue, Mat!Settles
      <4>2. CASE j # i
        <5>1. EntryTrue(d, j, matrix.rows[j]) /\ r[j] = matrix.rows[j]
          BY <1>4, <2>4, <4>2
        <5> QED BY <1>1, <1>2, <2>1, <2>2, <4>2, <5>1 DEF EntryTrue, Mat!Settles
      <4> QED BY <4>1, <4>2
    <3>2. \A j \in Steps : (j < i => r[j].st = "passed") /\ (j > i => r[j].st = "pending")
      <4>1. \A j \in Steps : j \in Int /\ i \in Int
        BY <1>1, MatConstants
      <4> QED BY <1>4, <2>4, <4>1
    <3> QED BY <1>1, <1>4, <2>0, <2>1, <3>1, <3>2 DEF EntriesTrue
  <2>16. ToldTheLedger'
    BY <1>1, <1>6, <2>1, <2>0 DEF ToldTheLedger
  <2> QED BY <2>1, <2>3, <2>8, <2>9, <2>10, <2>11, <2>12, <2>13, <2>14, <2>15, <2>16 DEF MatTyped
<1> QED BY <1>5, <1>7, <1>8

\* The command that runs is ended, or is found ended, and its entry says how.
LEMMA CommandSettles ==
    ASSUME MatInv, matrix.at = "command", NEW g, NEW x,
           NEW st \in {"crash", "unsettled", "passed"} \cup Mat!Bad, NEW dead \in {"yes", "no", "unset"},
           ProcessChanges(matrix.dep, matrix.next, g, x),
           structured /\ dead # "no" /\ st \notin {"crash", "unsettled"} => g = "gone",
           st = "passed" => x = "zero" /\ (structured => g = "gone"),
           matrix' = [matrix EXCEPT !.at = "ending", !.rows = Mat!At(st, dead)],
           UNCHANGED <<structured, marked, handoff, claims, active, starts, results, scope, saved, ledger, settled, lost>>
    PROVE  MatInv'
<1> DEFINE r == Mat!At(st, dead)
           i == matrix.next
           d == matrix.dep
<1>1. d \in Reviews /\ d # NoReview /\ i \in Steps /\ ~matrix.failed /\ matrix.rows \in [Steps -> Mat!Entry]
  BY Reviewing DEF MatInv, EntriesTrue
<1>2. r \in [Steps -> Mat!Entry] /\ r[i].st = st /\ r[i].dead = dead /\ \A j \in Steps : j # i => r[j] = matrix.rows[j]
  BY <1>1, AtRows
<1> HIDE DEF r
<1>3. FilesTyped /\ ReviewTyped
  BY DEF MatInv, MatTyped
<1>4. "ending" \in AtMatrix \ {"none"} /\ "ending" \notin BeforeLoop /\ "ending" \in InLoop
  BY DEF AtMatrix, Untold, BeforeLoop, InLoop
<1>5. /\ ReviewTyped' /\ matrix'.at = "ending" /\ matrix'.rows = r /\ matrix'.verified = matrix.verified
      /\ matrix'.dep = matrix.dep /\ matrix'.next = matrix.next
      /\ matrix'.failed = matrix.failed /\ matrix'.shown = matrix.shown
  <2>1. matrix' = [matrix EXCEPT !.at = "ending", !.rows = r]
    BY DEF r
  <2>2. /\ matrix' \in ReviewRecord /\ matrix'.at = "ending" /\ matrix'.rows = r
        /\ matrix'.verified = matrix.verified /\ matrix'.dep = matrix.dep /\ matrix'.next = matrix.next
        /\ matrix'.failed = matrix.failed /\ matrix'.shown = matrix.shown
    BY <1>2, <1>3, <1>4, <2>1 DEF ReviewTyped, ReviewRecord
  <2> QED BY <1>1, <1>2, <1>4, <2>2 DEF ReviewTyped
<1>6. FilesTyped'
  BY <1>3 DEF FilesTyped, ProcessChanges
<1>7. /\ \A j \in Steps : EntryTrue(d, j, matrix.rows[j])
      /\ \A j \in Steps : /\ j < i => matrix.rows[j].st = "passed"
                          /\ j > i => matrix.rows[j].st = "pending"
  BY <1>1 DEF MatInv, EntriesTrue, InLoop
<1>8. ASSUME NEW j \in Steps PROVE EntryTrue(matrix.dep, j, matrix.rows[j])'
  <2>1. CASE j = i
    <3>1. st \notin {"pending", "skipped"}
      BY DEF Mat!Bad
    <3>2. structured /\ Mat!Settles(r[i]) => g = "gone"
      BY <1>2 DEF Mat!Settles
    <3> QED BY <1>1, <1>2, <1>5, <2>1, <3>1, <3>2 DEF EntryTrue, Mat!Settles, ProcessChanges
  <2>2. CASE j # i
    <3>1. EntryTrue(d, j, matrix.rows[j]) /\ r[j] = matrix.rows[j]
      BY <1>2, <1>7, <2>2
    <3> QED BY <1>1, <1>5, <2>2, <3>1 DEF EntryTrue, Mat!Settles, ProcessChanges
  <2> QED BY <2>1, <2>2
<1>9. EntriesTrue'
  <2>1. \A j \in Steps : (j < i => r[j].st = "passed") /\ (j > i => r[j].st = "pending")
    <3>1. \A j \in Steps : j \in Int /\ i \in Int
      BY <1>1, MatConstants
    <3> QED BY <1>2, <1>7, <3>1
  <2> QED BY <1>1, <1>4, <1>5, <1>8, <2>1 DEF EntriesTrue
<1>10. MatTyped'
  BY <1>5, <1>6 DEF MatTyped
<1>11. matrix'.rows = matrix.rows \/ matrix'.at \notin BeforeLoop
  BY <1>4, <1>5
<1> QED BY <1>5, <1>9, <1>10, <1>11, ProcessEnds

LEMMA StopCommandKept ==
    ASSUME MatInv, NEW why \in Mat!StopReasons, NEW dead \in Mat!Killed, Mat!StopCommand(why, dead)
    PROVE  MatInv'
<1> DEFINE i == matrix.next
           d == matrix.dep
<1>1. PICK st \in {"crash", "unsettled", "stopped", "logging"} :
        /\ st = IF dead = "no" /\ why # "logging" THEN "unsettled" ELSE why
        /\ matrix' = [matrix EXCEPT !.at = "ending", !.rows = Mat!At(st, dead)]
  BY DEF Mat!StopCommand, Mat!StopReasons
<1>2. PICK g \in {"left", "gone"} : g = IF dead = "yes" THEN "gone" ELSE "left"
  OBVIOUS
<1>3. /\ matrix.at = "command" /\ group[d][i] = "run" /\ group' = [group EXCEPT ![d][i] = g]
      /\ exit' = [exit EXCEPT ![d][i] = "killed"]
      /\ UNCHANGED <<structured, marked, handoff, claims, active, starts, results, scope, saved, ledger, settled, lost>>
  BY <1>2 DEF Mat!StopCommand, Mat!durable, Mat!Current
<1>4. FilesTyped /\ d \in Reviews /\ i \in Steps
  BY <1>3, Reviewing DEF MatInv, MatTyped, EntriesTrue
<1>5. /\ group' \in [Reviews -> [Steps -> {"none", "run", "left", "gone"}]]
      /\ \A e \in Reviews : \A j \in Steps : group'[e][j] = (IF e = d /\ j = i THEN g ELSE group[e][j])
  BY <1>3, <1>4 DEF FilesTyped
<1>6. /\ exit' \in [Reviews -> [Steps -> {"none", "zero", "other", "killed"}]]
      /\ \A e \in Reviews : \A j \in Steps : exit'[e][j] = (IF e = d /\ j = i THEN "killed" ELSE exit[e][j])
  BY <1>3, <1>4 DEF FilesTyped
<1>7. \A e \in Reviews : \A j \in Steps :
             /\ group'[e][j] = (IF e = d /\ j = i THEN g ELSE group[e][j])
             /\ exit'[e][j] = (IF e = d /\ j = i THEN "killed" ELSE exit[e][j])
  BY <1>5, <1>6
<1>8. /\ st \in {"crash", "unsettled", "passed"} \cup Mat!Bad /\ dead \in {"yes", "no", "unset"}
      /\ "killed" \in {"zero", "other", "killed"}
      /\ (structured /\ dead # "no" /\ st \notin {"crash", "unsettled"} => g = "gone") /\ st # "passed"
  BY <1>1, <1>2 DEF Mat!Bad, Mat!Killed
<1>9. group[d][i] # "none" /\ group[d][i] \notin {"left", "gone"}
  BY <1>3
<1>10. ProcessChanges(d, i, g, "killed")
  BY <1>4, <1>5, <1>6, <1>7, <1>9 DEF ProcessChanges
<1> QED BY <1>1, <1>3, <1>8, <1>10, CommandSettles

LEMMA CommandClosesKept ==
    ASSUME MatInv, NEW kill \in BOOLEAN, NEW artifacts \in BOOLEAN, Mat!CommandCloses(kill, artifacts)
    PROVE  MatInv'
<1> DEFINE i == matrix.next
           d == matrix.dep
           lingers == structured /\ group[d][i] = "left"
<1>1. /\ matrix.at = "command" /\ group[d][i] \in {"left", "gone"}
      /\ group' = [group EXCEPT ![d][i] = IF lingers /\ kill THEN "gone" ELSE group[d][i]]
      /\ UNCHANGED <<structured, marked, handoff, claims, active, starts, results, exit, scope, saved, ledger, settled, lost>>
  <2>1. FilesTyped
    BY DEF MatInv, MatTyped
  <2> QED BY <2>1 DEF Mat!CommandCloses, Mat!durable, Mat!Current
<1>2. PICK st \in {"unsettled", "passed", "failed"} : \E dead \in {"yes", "no", "unset"} :
        /\ matrix' = [matrix EXCEPT !.at = "ending", !.rows = Mat!At(st, dead)]
        /\ lingers => st = "unsettled"
        /\ st = "passed" => exit[d][i] = "zero"
  <2>1. CASE lingers
    <3>1. matrix' = [matrix EXCEPT !.at = "ending", !.rows = Mat!At("unsettled", IF kill THEN "yes" ELSE "no")]
      BY <2>1 DEF Mat!CommandCloses, Mat!Current
    <3> QED BY <3>1
  <2>2. CASE ~lingers
    <3>1. matrix' = [matrix EXCEPT !.at = "ending",
            !.rows = Mat!At(IF artifacts THEN Mat!ByExit ELSE "failed", IF structured THEN "yes" ELSE "unset")]
      BY <2>2 DEF Mat!CommandCloses, Mat!Current
    <3>2. Mat!ByExit \in {"passed", "failed"} /\ (Mat!ByExit = "passed" => exit[d][i] = "zero")
      BY DEF Mat!ByExit, Mat!Current
    <3> QED BY <2>2, <3>1, <3>2
  <2> QED BY <2>1, <2>2
<1>3. PICK dead \in {"yes", "no", "unset"} :
        matrix' = [matrix EXCEPT !.at = "ending", !.rows = Mat!At(st, dead)]
  BY <1>2
<1>4. (lingers => st = "unsettled") /\ (st = "passed" => exit[d][i] = "zero")
  BY <1>2
<1>5. FilesTyped /\ d \in Reviews /\ i \in Steps
  BY <1>1, Reviewing DEF MatInv, MatTyped, EntriesTrue
<1>6. PICK g \in {"left", "gone"} :
        /\ group' = [group EXCEPT ![d][i] = g]
        /\ (group[d][i] = "gone" => g = "gone") /\ (structured /\ ~lingers => g = "gone")
  BY <1>1
<1>7. PICK x \in {"zero", "other", "killed"} : x = exit[d][i]
  <2>1. exit[d][i] \in {"none", "zero", "other", "killed"} /\ exit[d][i] # "none"
    <3>1. exit[d][i] \in {"none", "zero", "other", "killed"}
      BY <1>5 DEF FilesTyped
    <3>2. exit[d][i] # "none"
      BY <1>1, <1>5 DEF MatInv, MatState, ExitKnown
    <3> QED BY <3>1, <3>2
  <2> QED BY <2>1
<1>8. /\ group' \in [Reviews -> [Steps -> {"none", "run", "left", "gone"}]]
      /\ \A e \in Reviews : \A j \in Steps : group'[e][j] = (IF e = d /\ j = i THEN g ELSE group[e][j])
  BY <1>5, <1>6 DEF FilesTyped
<1>9. \A e \in Reviews : \A j \in Steps :
             /\ group'[e][j] = (IF e = d /\ j = i THEN g ELSE group[e][j])
             /\ exit'[e][j] = (IF e = d /\ j = i THEN x ELSE exit[e][j])
  BY <1>1, <1>7, <1>8
<1>10. exit' \in [Reviews -> [Steps -> {"none", "zero", "other", "killed"}]]
  BY <1>1, <1>5 DEF FilesTyped
<1>11. /\ st \in {"crash", "unsettled", "passed"} \cup Mat!Bad
       /\ (structured /\ dead # "no" /\ st \notin {"crash", "unsettled"} => g = "gone")
       /\ (st = "passed" => x = "zero" /\ (structured => g = "gone"))
       /\ group[d][i] # "none" /\ (group[d][i] = "gone" => g = "gone") /\ x = exit[d][i]
  BY <1>1, <1>4, <1>6, <1>7 DEF Mat!Bad
<1> HIDE DEF lingers
<1>12. ProcessChanges(d, i, g, x)
  BY <1>5, <1>8, <1>9, <1>10, <1>11 DEF ProcessChanges
<1> QED BY <1>1, <1>3, <1>11, <1>12, CommandSettles

LEMMA CommandEndsKept ==
    ASSUME MatInv, NEW w \in Mat!Outcomes, NEW told \in BOOLEAN, Mat!CommandEnds(w, told)
    PROVE  MatInv'
<1> DEFINE i == matrix.next
           d == matrix.dep
           st == matrix.rows[i].st
           dead == matrix.rows[i].dead
           bad == st # "passed" \/ Mat!Throws(w)
           mine == Mat!At(IF st = "passed" /\ Mat!Throws(w) THEN "unsaved" ELSE st, dead)
           shown == IF st # "passed" THEN Mat!Skip(matrix.rows) ELSE matrix.rows
           r == IF bad THEN Mat!Skip(mine) ELSE mine
<1>1. /\ matrix.at = "ending" /\ Mat!CountFaults(<<w>>)
      /\ saved' = Mat!Put(saved, d, [end |-> "running", rows |-> shown], w)
      /\ matrix' = [matrix EXCEPT !.at = IF told /\ st # "crash" THEN "loop" ELSE "recover", !.next = i + 1,
                      !.failed = bad, !.rows = r]
      /\ UNCHANGED <<structured, marked, handoff, claims, active, starts, results, group, exit, scope, ledger, settled>>
  BY DEF Mat!CommandEnds, Mat!durable, Mat!Current
<1>2. d \in Reviews /\ d # NoReview /\ i \in Steps /\ ~matrix.failed /\ matrix.rows \in [Steps -> Mat!Entry]
  BY <1>1, Reviewing DEF MatInv, EntriesTrue
<1>3. FilesTyped /\ ReviewTyped /\ lost' \in 0..MaxMishaps
  BY <1>1, FaultsCounted, LostCounted DEF MatInv, MatTyped, Mat!CountFaults
<1>4. /\ matrix.rows[i] \in Mat!Entry /\ dead \in {"yes", "no", "unset"}
  BY <1>2, EntryFields
<1>5. PICK b \in {"loop", "recover"} : b = IF told /\ st # "crash" THEN "loop" ELSE "recover"
  OBVIOUS
<1>6. /\ \A j \in Steps : EntryTrue(d, j, matrix.rows[j])
      /\ \A j \in Steps : /\ j < i => matrix.rows[j].st = "passed"
                          /\ j > i => matrix.rows[j].st = "pending"
  BY <1>1, <1>2 DEF MatInv, EntriesTrue, InLoop
<1>7. PICK s \in {"pending", "begun", "passed", "crash", "unsettled", "skipped"} \cup Mat!Bad :
        s = IF st = "passed" /\ Mat!Throws(w) THEN "unsaved" ELSE st
  <2>1. st \in {"pending", "begun", "passed", "crash", "unsettled", "skipped"} \cup Mat!Bad
    BY <1>4 DEF Mat!Entry
  <2> QED BY <2>1 DEF Mat!Bad
<1>8. /\ mine \in [Steps -> Mat!Entry] /\ mine[i].st = s /\ mine[i].dead = dead
      /\ \A j \in Steps : j # i => mine[j] = matrix.rows[j]
  <2>1. mine = Mat!At(s, dead)
    BY <1>7
  <2> HIDE DEF dead, mine
  <2> QED BY <1>2, <1>4, <2>1, AtRows DEF dead
<1>9. shown \in [Steps -> Mat!Entry]
  BY <1>2, SkipRows
<1> HIDE DEF mine, shown
<1>10. ASSUME NEW j \in Steps PROVE EntryTrue(d, j, mine[j])
  <2>1. CASE j = i
    <3>1. EntryTrue(d, i, matrix.rows[i])
      BY <1>2, <1>6
    <3>2. CASE s = st
      BY <1>8, <2>1, <3>1, <3>2 DEF EntryTrue, Mat!Settles
    <3>3. CASE st = "passed" /\ s = "unsaved"
      <4>1. structured => group[d][i] = "gone"
        BY <3>1, <3>3 DEF EntryTrue
      <4> QED BY <1>8, <2>1, <3>3, <4>1 DEF EntryTrue
    <3> QED BY <1>7, <3>2, <3>3
  <2>2. CASE j # i
    BY <1>6, <1>8, <2>2
  <2> QED BY <2>1, <2>2
<1>11. ASSUME NEW j \in Steps PROVE EntryTrue(d, j, Mat!Skip(mine)[j])
  <2>1. CASE mine[j].st = "pending"
    <3>1. Mat!Skip(mine)[j].st = "skipped" /\ group[d][j] = "none"
      BY <1>8, <1>10, <2>1, SkipRows DEF EntryTrue
    <3> QED BY <3>1 DEF EntryTrue
  <2>2. CASE mine[j].st # "pending"
    BY <1>8, <1>10, <2>2, SkipRows
  <2> QED BY <2>1, <2>2
<1>12. r \in [Steps -> Mat!Entry] /\ \A j \in Steps : EntryTrue(d, j, r[j])
  BY <1>8, <1>10, <1>11, SkipRows
<1>13. ~bad => \A j \in Steps : (j < i + 1 => r[j].st = "passed") /\ (j >= i + 1 => r[j].st = "pending")
  <2> SUFFICES ASSUME st = "passed", ~Mat!Throws(w), NEW j \in Steps
               PROVE  (j < i + 1 => mine[j].st = "passed") /\ (j >= i + 1 => mine[j].st = "pending")
    OBVIOUS
  <2>1. j \in Int /\ i \in Int
    BY <1>2, MatConstants
  <2>2. s = "passed"
    BY <1>7
  <2>3. CASE j < i
    BY <1>6, <1>8, <2>1, <2>3
  <2>4. CASE j = i
    BY <1>8, <2>1, <2>2, <2>4
  <2>5. CASE j > i
    BY <1>6, <1>8, <2>1, <2>5
  <2> QED BY <2>1, <2>3, <2>4, <2>5
<1>14. PICK f \in BOOLEAN : f = bad
  OBVIOUS
<1>15. PICK k \in 1..OutOfSteps : k = i + 1
  <2>1. Cardinality(Steps) \in Nat /\ i \in 1..Cardinality(Steps)
    BY <1>2, MatConstants
  <2>2. PICK n \in Nat : n = Cardinality(Steps)
    BY <2>1
  <2> QED BY <2>1, <2>2 DEF OutOfSteps
<1>16. /\ matrix' = [matrix EXCEPT !.at = b, !.next = k, !.failed = f, !.rows = r]
       /\ f = bad
  BY <1>1, <1>5, <1>14, <1>15
<1>17. /\ b \in AtMatrix \ {"none"} /\ b \in Untold \ {"reserved"} /\ b \notin BeforeLoop /\ b # "returned"
       /\ (b \in InLoop => b = "loop") /\ matrix.at \in Untold /\ matrix.at \in InLoop
  BY <1>1, <1>5 DEF AtMatrix, Untold, BeforeLoop, InLoop
<1> HIDE DEF r, bad
<1>18. /\ ReviewTyped' /\ matrix'.at = b /\ matrix'.rows = r /\ matrix'.verified = matrix.verified
       /\ matrix'.dep = matrix.dep /\ matrix'.next = k /\ matrix'.failed = f /\ matrix'.shown = matrix.shown
  BY <1>2, <1>3, <1>12, <1>16, <1>17, SetsNext
<1>19. MatTyped'
  <2>1. saved' \in [Reviews -> Mat!Record \cup {Mat!NoRecord}]
    BY <1>1, <1>2, <1>3, <1>9, SavedTyped
  <2>2. FilesTyped'
    BY <1>1, <1>3, <2>1 DEF FilesTyped
  <2> QED BY <1>18, <2>2 DEF MatTyped
<1>20. EntriesTrue'
  <2>1. \A j \in Steps : EntryTrue(matrix.dep, j, matrix.rows[j])'
    BY <1>1, <1>12, <1>18 DEF EntryTrue, Mat!Settles
  <2>2. ASSUME ~f, NEW j \in Steps
        PROVE  (j < k => r[j].st = "passed") /\ (j >= k => r[j].st = "pending")
    BY <1>13, <1>14, <1>15, <2>2
  <2>3. \A j \in Steps : j > k \/ j = k => j >= k
    BY <1>15, MatConstants
  <2> QED BY <1>5, <1>17, <1>18, <2>1, <2>2, <2>3 DEF EntriesTrue
<1>21. ToldTheLedger' /\ ~matrix.verified /\ marked'[matrix.dep] # "none" /\ "admitted" \notin InLoop
  <2>1. matrix.shown = "none"
    BY <1>17 DEF MatInv, ToldTheLedger
  <2>2. ~matrix.verified /\ marked[matrix.dep] # "none"
    BY <1>1, <1>17 DEF MatInv, MatState, Unproved, Untouched
  <2> QED BY <1>1, <1>18, <2>1, <2>2 DEF ToldTheLedger, InLoop
<1>22. matrix'.at \notin {"begun", "admitted"}
  BY <1>5, <1>18
<1> QED BY <1>1, <1>17, <1>18, <1>19, <1>20, <1>21, <1>22, MatMoves

LEMMA TerminateKept ==
    ASSUME MatInv, NEW w \in Mat!Outcomes, NEW w2 \in Mat!Outcomes, NEW told \in BOOLEAN,
           Mat!Terminate(w, w2, told)
    PROVE  MatInv'
<1> DEFINE d == matrix.dep
<1>1. /\ matrix.at = "loop" /\ ~(~matrix.failed /\ matrix.next \in Steps) /\ Mat!CountFaults(<<w, w2>>)
      /\ UNCHANGED <<structured, marked, handoff, claims, active, starts, results, group, exit, scope, settled>>
  BY DEF Mat!Terminate, Mat!Going, Mat!Current, Mat!durable
<1>2. PICK end \in {"passed", "failed"} : end = IF matrix.failed THEN "failed" ELSE "passed"
  OBVIOUS
<1> DEFINE record == [end |-> end, rows |-> matrix.rows]
<1>3. /\ saved' = Mat!Put(saved, d, record, w)
      /\ ledger' = ledger \/ ledger' = Mat!Put(ledger, d, record, w2)
      /\ \/ matrix' = [matrix EXCEPT !.at = "recover"]
         \/ matrix' = [matrix EXCEPT !.at = "returned", !.returned = TRUE, !.ended = end]
  BY <1>2 DEF Mat!Terminate
<1>4. /\ d \in Reviews /\ d # NoReview /\ matrix.rows \in [Steps -> Mat!Entry] /\ matrix.at # "none"
      /\ matrix.next \in 1..OutOfSteps /\ matrix.verified \in BOOLEAN
  BY <1>1, Reviewing
<1>5. FilesTyped /\ ReviewTyped /\ lost' \in 0..MaxMishaps
  BY <1>1, FaultsCounted, LostCounted DEF MatInv, MatTyped, Mat!CountFaults
<1>6. record \in Ledgers /\ record.end = end
  BY <1>4, RecordsTyped
<1>7. end = "passed" => AllZero(d)
  <2> SUFFICES ASSUME end = "passed", NEW i \in Steps PROVE exit[d][i] = "zero" /\ (structured => group[d][i] = "gone")
    BY DEF AllZero
  <2>1. ~matrix.failed /\ i < matrix.next
    BY <1>1, <1>2, <1>4, MatConstants
  <2>2. matrix.rows[i].st = "passed" /\ EntryTrue(d, i, matrix.rows[i])
    BY <1>1, <2>1 DEF MatInv, EntriesTrue, InLoop
  <2> QED BY <2>2 DEF EntryTrue
<1>8. saved' \in [Reviews -> Mat!Record \cup {Mat!NoRecord}]
  <2>1. end \in {"running", "passed", "failed", "crash"}
    OBVIOUS
  <2> QED BY <1>3, <1>4, <1>5, <2>1, SavedTyped
<1> HIDE DEF record
<1>9. ledger' \in [Reviews -> Ledgers] /\ (ledger' = ledger \/ ledger' = [ledger EXCEPT ![d] = record])
  BY <1>3, <1>5, <1>6 DEF FilesTyped, Mat!Put
<1>10. FilesTyped'
  BY <1>1, <1>5, <1>8, <1>9 DEF FilesTyped
<1>11. PICK b \in {"recover", "returned"} :
         /\ ReviewTyped' /\ matrix'.at = b /\ matrix'.verified = matrix.verified
         /\ matrix'.dep = matrix.dep /\ matrix'.rows = matrix.rows /\ matrix'.shown = matrix.shown
  <2>1. CASE matrix' = [matrix EXCEPT !.at = "recover"]
    <3>1. "recover" \in AtMatrix \ {"none"}
      BY DEF AtMatrix, Untold
    <3>2. /\ ReviewTyped' /\ matrix'.at = "recover" /\ matrix'.verified = matrix.verified
          /\ matrix'.dep = matrix.dep /\ matrix'.rows = matrix.rows /\ matrix'.shown = matrix.shown
      BY <1>4, <1>5, <2>1, <3>1, SetsAt
    <3> QED BY <3>2
  <2>2. CASE matrix' = [matrix EXCEPT !.at = "returned", !.returned = TRUE, !.ended = end]
    <3>1. /\ ReviewTyped' /\ matrix'.at = "returned" /\ matrix'.verified = matrix.verified
          /\ matrix'.dep = matrix.dep /\ matrix'.rows = matrix.rows /\ matrix'.shown = matrix.shown
      BY <1>4, <1>5, <2>2, SetsReturned
    <3> QED BY <3>1
  <2> QED BY <1>3, <2>1, <2>2
<1>12. /\ b \in Untold \ {"reserved"} /\ b \notin BeforeLoop /\ b \notin InLoop /\ b \notin {"begun", "admitted"}
       /\ matrix.at \in Untold \ {"reserved"} /\ matrix.at \in InLoop
  BY <1>1 DEF Untold, BeforeLoop, InLoop
<1>13. EntriesTrue'
  <2>1. \A j \in Steps : EntryTrue(d, j, matrix.rows[j])
    BY <1>12 DEF MatInv, EntriesTrue
  <2>2. \A j \in Steps : EntryTrue(matrix.dep, j, matrix.rows[j])'
    BY <1>1, <1>11, <2>1 DEF EntryTrue, Mat!Settles
  <2> QED BY <1>11, <1>12, <2>2 DEF EntriesTrue, InLoop
<1>14. ToldTheLedger' /\ ~matrix.verified /\ marked[d] # "none" /\ ledger[d] = Mat!NoRecord
  <2>1. matrix.shown = "none"
    BY <1>12 DEF MatInv, ToldTheLedger
  <2> QED BY <1>11, <1>12, <2>1 DEF ToldTheLedger, MatInv, MatState, Unproved, Untouched
<1>15. \/ ledger' = ledger
       \/ \E l \in Ledgers :
            /\ matrix.dep \in Reviews /\ marked[matrix.dep] # "none"
            /\ ledger[matrix.dep] = Mat!NoRecord /\ ledger' = [ledger EXCEPT ![matrix.dep] = l]
            /\ matrix'.at \notin BeforeLoop \cup InLoop /\ (l.end = "passed" => AllZero(matrix.dep))
  BY <1>4, <1>6, <1>7, <1>9, <1>11, <1>12, <1>14
<1> QED BY <1>1, <1>10, <1>11, <1>12, <1>13, <1>14, <1>15, MatMoves DEF MatTyped

LEMMA RecoverKept ==
    ASSUME MatInv, NEW w \in Mat!Outcomes, NEW w2 \in Mat!Outcomes, Mat!Recover(w, w2)
    PROVE  MatInv'
<1> DEFINE d == matrix.dep
           rows == Mat!Crashed(Mat!SavedRows)
           record == [end |-> "crash", rows |-> rows]
<1>1. /\ matrix.at \in {"recover", "accounted"}
      /\ UNCHANGED <<structured, marked, handoff, claims, active, starts, results, group, exit, scope, settled>>
  BY DEF Mat!Recover, Mat!durable
<1>2. PICK b \in {"accounted", "context", "over"} : matrix' = [matrix EXCEPT !.at = b]
  BY DEF Mat!Recover
<1>3. \/ UNCHANGED <<saved, ledger, lost>>
      \/ /\ Mat!CountFaults(<<w, w2>>) /\ ledger[d] = Mat!NoRecord /\ saved' = Mat!Put(saved, d, record, w)
         /\ ledger' = ledger \/ ledger' = Mat!Put(ledger, d, record, w2)
  BY DEF Mat!Recover, Mat!HasLedger
<1>4. /\ d \in Reviews /\ d # NoReview /\ matrix.at # "none" /\ matrix.verified \in BOOLEAN
  BY <1>1, Reviewing
<1>5. FilesTyped /\ ReviewTyped
  BY DEF MatInv, MatTyped
<1>6. rows \in [Steps -> Mat!Entry]
  <2>1. saved[d] \in Mat!Record \cup {Mat!NoRecord}
    BY <1>4, <1>5 DEF FilesTyped
  <2>2. Mat!SavedRows \in [Steps -> Mat!Entry]
    BY <2>1, FreshRows, RecordsTyped DEF Mat!SavedRows
  <2> QED BY <2>2, CrashedRows
<1> HIDE DEF rows
<1>7. record \in Ledgers /\ record.end = "crash"
  BY <1>6, RecordsTyped
<1>8. saved' \in [Reviews -> Mat!Record \cup {Mat!NoRecord}] /\ lost' \in 0..MaxMishaps
  <2>1. CASE UNCHANGED <<saved, ledger, lost>>
    BY <1>5, <2>1 DEF FilesTyped
  <2>2. CASE Mat!CountFaults(<<w, w2>>) /\ saved' = Mat!Put(saved, d, record, w)
    <3>1. "crash" \in {"running", "passed", "failed", "crash"}
      OBVIOUS
    <3>2. saved' \in [Reviews -> Mat!Record \cup {Mat!NoRecord}]
      BY <1>4, <1>5, <1>6, <2>2, <3>1, SavedTyped
    <3> QED BY <1>5, <2>2, <3>2, FaultsCounted, LostCounted DEF Mat!CountFaults
  <2> QED BY <1>3, <2>1, <2>2
<1> HIDE DEF record
<1>9. /\ ledger' \in [Reviews -> Ledgers]
      /\ ledger' = ledger \/ (ledger[d] = Mat!NoRecord /\ ledger' = [ledger EXCEPT ![d] = record])
  BY <1>3, <1>5, <1>7 DEF FilesTyped, Mat!Put
<1>10. FilesTyped'
  BY <1>1, <1>5, <1>8, <1>9 DEF FilesTyped
<1>11. /\ b \in AtMatrix \ {"none"} /\ b \notin BeforeLoop /\ b \notin InLoop
       /\ b \notin {"begun", "admitted", "recover", "returned"}
       /\ matrix.at \in Untold \ {"reserved"}
  BY <1>1 DEF AtMatrix, Untold, BeforeLoop, InLoop
<1>12. /\ ReviewTyped' /\ matrix'.at = b /\ matrix'.verified = matrix.verified
       /\ matrix'.dep = matrix.dep /\ matrix'.shown = matrix.shown
  BY <1>2, <1>4, <1>5, <1>11, SetsAt
<1>13. EntriesTrue'
  BY <1>11, <1>12 DEF EntriesTrue, InLoop
<1>14. ToldTheLedger' /\ marked[d] # "none"
  <2>1. matrix.shown = "none"
    BY <1>11 DEF MatInv, ToldTheLedger
  <2> QED BY <1>11, <1>12, <2>1 DEF ToldTheLedger, MatInv, MatState, Untouched
<1>15. \/ ledger' = ledger
       \/ \E l \in Ledgers :
            /\ matrix.dep \in Reviews /\ marked[matrix.dep] # "none"
            /\ ledger[matrix.dep] = Mat!NoRecord /\ ledger' = [ledger EXCEPT ![matrix.dep] = l]
            /\ matrix'.at \notin BeforeLoop \cup InLoop /\ (l.end = "passed" => AllZero(matrix.dep))
  BY <1>4, <1>7, <1>9, <1>11, <1>12, <1>14
<1> QED BY <1>1, <1>10, <1>11, <1>12, <1>13, <1>14, <1>15, MatMoves DEF MatTyped

LEMMA AccountKept ==
    ASSUME MatInv, Mat!Account
    PROVE  MatInv'
<1>1. /\ matrix.at = "returned"
      /\ UNCHANGED <<structured, marked, handoff, claims, active, starts, results, group, exit, scope, saved, ledger, settled,
                     lost>>
      /\ matrix' = [matrix EXCEPT !.at = "accounted",
           !.verified = matrix.verified \/ (matrix.returned /\ \A i \in Steps : Mat!Settles(matrix.rows[i]))]
  <2>1. ReviewTyped
    BY DEF MatInv, MatTyped
  <2> QED BY <2>1 DEF Mat!Account, Mat!durable, ReviewTyped, ReviewRecord
<1>2. /\ matrix.dep \in Reviews /\ matrix.at # "none" /\ matrix.verified \in BOOLEAN /\ matrix.returned \in BOOLEAN
  BY <1>1, Reviewing
<1>3. PICK v \in BOOLEAN :
        v = (matrix.verified \/ (matrix.returned /\ \A i \in Steps : Mat!Settles(matrix.rows[i])))
  OBVIOUS
<1>4. matrix' = [matrix EXCEPT !.at = "accounted", !.verified = v]
  BY <1>1, <1>3
<1>5. v /\ structured => matrix.verified \/ Quiet(matrix.dep)
  <2> SUFFICES ASSUME structured, \A i \in Steps : Mat!Settles(matrix.rows[i]) PROVE Quiet(matrix.dep)
    BY <1>3
  <2>1. \A i \in Steps : EntryTrue(matrix.dep, i, matrix.rows[i])
    BY <1>1 DEF MatInv, EntriesTrue
  <2> QED BY <2>1 DEF EntryTrue, Quiet
<1>6. FilesTyped'
  BY <1>1 DEF MatInv, MatTyped, FilesTyped
<1>7. /\ "accounted" \in AtMatrix \ {"none"} /\ "accounted" \notin BeforeLoop /\ "accounted" \notin InLoop
      /\ matrix.at \in Untold \ {"reserved"}
  BY <1>1 DEF AtMatrix, Untold, BeforeLoop, InLoop
<1>8. marked'[matrix.dep] # "none"
  BY <1>1, <1>7 DEF MatInv, MatState, Untouched
<1> QED BY <1>1, <1>2, <1>4, <1>5, <1>6, <1>7, <1>8, MatGoes

\* A step after the executor that neither proves nor doubts anything.
LEMMA AfterKept ==
    ASSUME MatInv, FilesTyped', NEW b \in {"captured", "over", "kept", "dead"}, matrix.at # "none",
           b = "captured" => matrix.at \in Untold \ {"reserved"},
           NEW v \in BOOLEAN, v => matrix.verified,
           \/ matrix' = [matrix EXCEPT !.at = b] /\ v = matrix.verified
           \/ matrix' = [matrix EXCEPT !.at = b, !.verified = v],
           UNCHANGED <<structured, marked, group, exit, starts, settled, ledger>>
    PROVE  MatInv'
<1>1. /\ b \in AtMatrix \ {"none"} /\ b \notin BeforeLoop /\ b \notin InLoop /\ b \notin {"admitted", "recover", "returned"}
      /\ b # "begun" /\ (b \in Untold => b = "captured")
  BY DEF AtMatrix, Untold, BeforeLoop, InLoop
<1>2. b \in Untold \ {"reserved"} => matrix.at \in Untold /\ marked'[matrix.dep] # "none"
  BY <1>1 DEF MatInv, MatState, Untouched
<1>3. matrix.at \notin Untold => b \notin Untold
  BY <1>1
<1> QED BY <1>1, <1>2, <1>3, MatGoes

LEMMA CaptureKept ==
    ASSUME MatInv, Mat!Capture
    PROVE  MatInv'
<1>1. /\ matrix.at = "context"
      /\ UNCHANGED <<structured, marked, handoff, claims, active, starts, group, exit, scope, saved, ledger, settled, lost>>
      /\ results' = results \/ results' = [results EXCEPT ![matrix.dep] = ledger[matrix.dep]]
  BY DEF Mat!Capture
<1>2. PICK b \in {"captured", "over", "kept", "dead"} : matrix' = [matrix EXCEPT !.at = b]
  BY DEF Mat!Capture
<1>3. matrix.dep \in Reviews /\ matrix.at # "none" /\ matrix.verified \in BOOLEAN
  BY <1>1, Reviewing
<1>4. FilesTyped'
  <2>1. FilesTyped
    BY DEF MatInv, MatTyped
  <2>2. results' \in [Reviews -> Ledgers]
    BY <1>1, <1>3, <2>1 DEF FilesTyped
  <2> QED BY <1>1, <2>1, <2>2 DEF FilesTyped
<1>5. matrix.at \in Untold \ {"reserved"}
  BY <1>1 DEF Untold
<1> QED BY <1>1, <1>2, <1>3, <1>4, <1>5, AfterKept

LEMMA StartReviewerKept ==
    ASSUME MatInv, Mat!StartReviewer
    PROVE  MatInv'
<1>1. /\ matrix.at = "captured"
      /\ UNCHANGED <<structured, marked, handoff, claims, active, starts, results, group, exit, scope, saved, ledger, settled,
                     lost>>
      /\ \/ matrix' = [matrix EXCEPT !.at = "over"]
         \/ matrix' = [matrix EXCEPT !.at = "reviewing", !.shown = ledger[matrix.dep].end]
  BY DEF Mat!StartReviewer, Mat!durable
<1>2. /\ matrix.dep \in Reviews /\ matrix.dep # NoReview /\ matrix.at # "none" /\ matrix.verified \in BOOLEAN
  BY <1>1, Reviewing
<1>3. FilesTyped' /\ FilesTyped /\ ReviewTyped
  BY <1>1 DEF MatInv, MatTyped, FilesTyped
<1>4. CASE matrix' = [matrix EXCEPT !.at = "over"]
  BY <1>1, <1>2, <1>3, <1>4, AfterKept
<1>5. CASE matrix' = [matrix EXCEPT !.at = "reviewing", !.shown = ledger[matrix.dep].end]
  <2>1. ledger[matrix.dep] \in Ledgers
    BY <1>2, <1>3 DEF FilesTyped
  <2>2. PICK s \in {"none", "passed", "failed", "crash"} : s = ledger[matrix.dep].end
    BY <2>1, RecordsTyped
  <2>3. /\ ReviewTyped' /\ matrix'.at = "reviewing" /\ matrix'.shown = s
        /\ matrix'.verified = matrix.verified /\ matrix'.dep = matrix.dep
    BY <1>2, <1>3, <1>5, <2>2, SetsShown
  <2>4. /\ "reviewing" \notin Untold /\ "reviewing" \notin BeforeLoop /\ "reviewing" \notin InLoop
    BY DEF Untold, BeforeLoop, InLoop
  <2>5. EntriesTrue'
    BY <2>3, <2>4 DEF EntriesTrue, InLoop
  <2>6. ToldTheLedger'
    BY <1>1, <2>2, <2>3, <2>4 DEF ToldTheLedger
  <2> QED BY <1>1, <1>3, <2>3, <2>4, <2>5, <2>6, MatMoves DEF MatTyped
<1> QED BY <1>1, <1>4, <1>5

LEMMA ReviewerEndsKept ==
    ASSUME MatInv, NEW clean \in BOOLEAN, Mat!ReviewerEnds(clean)
    PROVE  MatInv'
<1>1. /\ matrix.at = "reviewing"
      /\ UNCHANGED <<structured, marked, handoff, claims, active, starts, results, group, exit, scope, saved, ledger, settled,
                     lost>>
      /\ matrix' = [matrix EXCEPT !.at = "over", !.verified = matrix.verified /\ clean]
  <2>1. ReviewTyped
    BY DEF MatInv, MatTyped
  <2> QED BY <2>1 DEF Mat!ReviewerEnds, Mat!durable, ReviewTyped, ReviewRecord
<1>2. matrix.dep \in Reviews /\ matrix.at # "none" /\ matrix.verified \in BOOLEAN
  BY <1>1, Reviewing
<1>3. PICK v \in BOOLEAN : v = (matrix.verified /\ clean)
  OBVIOUS
<1>4. FilesTyped'
  BY <1>1 DEF MatInv, MatTyped, FilesTyped
<1>5. matrix' = [matrix EXCEPT !.at = "over", !.verified = v] /\ (v => matrix.verified)
  BY <1>1, <1>3
<1> QED BY <1>1, <1>2, <1>4, <1>5, AfterKept

LEMMA SupervisorDiesKept ==
    ASSUME MatInv, Mat!SupervisorDies
    PROVE  MatInv'
<1>1. /\ matrix.at # "none" /\ matrix' = [matrix EXCEPT !.at = "dead"]
      /\ UNCHANGED <<structured, marked, handoff, claims, active, starts, results, group, exit, scope, saved, ledger, settled,
                     lost>>
  BY DEF Mat!SupervisorDies, Mat!durable
<1>2. matrix.verified \in BOOLEAN
  BY <1>1, Reviewing
<1>3. FilesTyped'
  BY <1>1 DEF MatInv, MatTyped, FilesTyped
<1> QED BY <1>1, <1>2, <1>3, AfterKept

\* A step beside the review.
LEMMA BesideKept ==
    ASSUME MatInv, FilesTyped',
           \/ matrix' = matrix
           \/ matrix' = [matrix EXCEPT !.aborted = TRUE] /\ matrix.at \in InLoop,
           UNCHANGED <<structured, marked, group, exit, starts, settled, ledger>>
    PROVE  MatInv'
<1>1. ReviewTyped
  BY DEF MatInv, MatTyped
<1>2. /\ ReviewTyped' /\ matrix'.dep = matrix.dep /\ matrix'.at = matrix.at /\ matrix'.rows = matrix.rows
      /\ matrix'.next = matrix.next /\ matrix'.failed = matrix.failed /\ matrix'.verified = matrix.verified
      /\ matrix'.shown = matrix.shown
  <2>1. CASE matrix' = matrix
    BY <1>1, <2>1 DEF ReviewTyped, ReviewRecord
  <2>2. CASE matrix' = [matrix EXCEPT !.aborted = TRUE]
    <3>1. /\ matrix' \in ReviewRecord /\ matrix'.dep = matrix.dep /\ matrix'.at = matrix.at
          /\ matrix'.rows = matrix.rows /\ matrix'.next = matrix.next /\ matrix'.failed = matrix.failed
          /\ matrix'.verified = matrix.verified /\ matrix'.shown = matrix.shown
      BY <1>1, <2>2 DEF ReviewTyped, ReviewRecord
    <3> QED BY <1>1, <3>1 DEF ReviewTyped
  <2> QED BY <2>1, <2>2
<1>3. EntriesTrue'
  <2>1. EntriesTrue
    BY DEF MatInv
  <2> QED BY <1>2, <2>1 DEF EntriesTrue, EntryTrue, Mat!Settles
<1>4. ToldTheLedger'
  BY <1>2 DEF MatInv, ToldTheLedger
<1>5. matrix.at \in Untold \ {"reserved"} => marked'[matrix.dep] # "none"
  BY DEF MatInv, MatState, Untouched
<1>6. matrix.at \in InLoop \cup {"admitted", "recover", "returned"} => ~matrix.verified
  BY DEF MatInv, MatState, Unproved
<1> QED BY <1>2, <1>3, <1>4, <1>5, <1>6, MatMoves DEF MatTyped

LEMMA AroundKept ==
    ASSUME MatInv, Mat!Abort \/ Mat!Sweep \/ Mat!EditScope
    PROVE  MatInv'
<1>0. FilesTyped
  BY DEF MatInv, MatTyped
<1>1. CASE Mat!Abort
  <2>1. /\ UNCHANGED <<structured, marked, handoff, claims, active, starts, results, group, exit, scope, saved, ledger,
                       settled, lost>>
        /\ matrix' = [matrix EXCEPT !.aborted = TRUE] /\ matrix.at \in InLoop
    BY <1>1 DEF Mat!Abort, Mat!durable, InLoop
  <2>2. FilesTyped'
    BY <1>0, <2>1 DEF FilesTyped
  <2> QED BY <2>1, <2>2, BesideKept
<1>2. CASE Mat!Sweep
  <2>1. /\ UNCHANGED <<structured, marked, handoff, claims, starts, results, group, exit, scope, saved, ledger,
                       settled, lost>>
        /\ matrix' = matrix /\ active' = {}
    BY <1>2 DEF Mat!Sweep
  <2>2. FilesTyped'
    BY <1>0, <2>1 DEF FilesTyped
  <2> QED BY <2>1, <2>2, BesideKept
<1>3. CASE Mat!EditScope
  <2>1. /\ UNCHANGED <<structured, marked, handoff, claims, active, starts, results, group, exit, saved, ledger,
                       settled>>
        /\ matrix' = matrix /\ scope + lost < MaxMishaps /\ scope' = scope + 1
    BY <1>3 DEF Mat!EditScope, Mat!durable
  <2>2. scope' \in 0..MaxMishaps /\ lost' \in 0..MaxMishaps
    <3>1. lost' = lost
      BY <1>3 DEF Mat!EditScope
    <3> QED BY <1>0, <2>1, <3>1, MatConstants DEF FilesTyped
  <2>3. FilesTyped'
    BY <1>0, <2>1, <2>2 DEF FilesTyped
  <2> QED BY <2>1, <2>3, BesideKept
<1> QED BY <1>1, <1>2, <1>3

LEMMA SettleMatrixKept ==
    ASSUME MatInv, NEW d \in Reviews, Mat!SettleMatrix(d)
    PROVE  MatInv'
<1>1. /\ structured /\ Mat!Proves(ledger[d]) # "none" /\ settled' = Mat!Proves(ledger[d])
      /\ UNCHANGED <<structured, matrix, marked, handoff, claims, active, starts, results, group, exit, scope, saved, ledger,
                     lost>>
  BY DEF Mat!SettleMatrix, Mat!durable
<1>2. settled' \in {"none", "passed", "failed"} /\ (settled' = "passed" => ledger[d].end = "passed")
  BY <1>1 DEF Mat!Proves
<1>3. MatTyped'
  <2>1. ReviewTyped'
    BY <1>1 DEF MatInv, MatTyped, ReviewTyped, ReviewRecord
  <2>2. FilesTyped'
    BY <1>1, <1>2 DEF MatInv, MatTyped, FilesTyped
  <2> QED BY <2>1, <2>2 DEF MatTyped
<1>4. \A e \in Reviews : NoneStarted(e)' = NoneStarted(e) /\ Quiet(e)' = Quiet(e) /\ AllZero(e)' = AllZero(e)
  BY <1>1 DEF NoneStarted, Quiet, AllZero
<1>5. MatState'
  <2> USE DEF MatInv, MatState
  <2>0. Mat!NoRecord' = Mat!NoRecord /\ Mat!Fresh' = Mat!Fresh /\ Mat!NoScope' = Mat!NoScope
    BY DEF Mat!Fresh, Mat!NoScope
  <2>1. Untouched' /\ Unproved'
    BY <1>1, <1>4, <2>0 DEF Untouched, Unproved
  <2>2. OthersQuiet' /\ ExitKnown' /\ PassedRan'
    BY <1>1, <1>4 DEF OthersQuiet, ExitKnown, PassedRan
  <2>3. StartedOnce'
    BY <1>1, <1>4, <2>0 DEF StartedOnce
  <2>4. SettledByLedger'
    BY <1>1, <1>2 DEF SettledByLedger
  <2> QED BY <2>1, <2>2, <2>3, <2>4
<1>6. EntriesTrue' /\ ToldTheLedger'
  <2>1. EntriesTrue
    BY DEF MatInv
  <2>2. EntriesTrue'
    BY <1>1, <2>1 DEF EntriesTrue, EntryTrue, Mat!Settles
  <2> QED BY <1>1, <2>2 DEF MatInv, ToldTheLedger
<1> QED BY <1>3, <1>5, <1>6 DEF MatInv

\* The reservation is taken for another review, or given up.
LEMMA HolderChanges ==
    ASSUME MatInv, FilesTyped', NEW d \in Reviews \cup {NoReview},
           ReviewTyped', matrix'.dep = d, matrix'.shown = "none",
           \/ d = NoReview /\ matrix'.at = "none"
           \/ /\ d \in Reviews /\ marked[d] = "none" /\ matrix'.at = "reserved"
              /\ matrix'.rows = Mat!Fresh /\ matrix'.next = 1 /\ ~matrix'.failed,
           matrix.verified \/ matrix.dep = NoReview,
           UNCHANGED <<structured, marked, group, exit, starts, settled, ledger>>
    PROVE  MatInv'
<1> USE DEF MatInv, MatState
<1>0. Mat!NoRecord' = Mat!NoRecord /\ Mat!Fresh' = Mat!Fresh /\ Mat!NoScope' = Mat!NoScope
  BY DEF Mat!Fresh, Mat!NoScope
<1>1. \A e \in Reviews : NoneStarted(e)' = NoneStarted(e) /\ Quiet(e)' = Quiet(e) /\ AllZero(e)' = AllZero(e)
  BY DEF NoneStarted, Quiet, AllZero
<1>2. /\ "none" \notin Untold /\ "none" \notin BeforeLoop /\ "none" \notin InLoop /\ "reserved" \notin InLoop
  BY DEF Untold, BeforeLoop, InLoop
<1>3. Untouched'
  <2>1. \A e \in Reviews : marked[e] = "none" => NoneStarted(e) /\ ledger[e] = Mat!NoRecord
    BY DEF Untouched
  <2> QED BY <1>0, <1>1, <1>2, <2>1 DEF Untouched
<1>4. Unproved'
  BY <1>2 DEF Unproved
<1>5. OthersQuiet'
  <2>1. structured => \A e \in Reviews : Quiet(e)
    BY MatConstants DEF OthersQuiet
  <2> QED BY <1>1, <2>1 DEF OthersQuiet
<1>6. ExitKnown' /\ PassedRan' /\ SettledByLedger'
  BY <1>1 DEF ExitKnown, PassedRan, SettledByLedger
<1>7. StartedOnce'
  BY <1>0, <1>1, <1>2 DEF StartedOnce
<1>8. EntriesTrue' /\ ToldTheLedger'
  BY <1>2 DEF EntriesTrue, ToldTheLedger, InLoop
<1> QED BY <1>3, <1>4, <1>5, <1>6, <1>7, <1>8 DEF MatTyped

LEMMA ReserveMatrixKept ==
    ASSUME MatInv, NEW d \in Reviews, Mat!Reserve(d)
    PROVE  MatInv'
<1>1. /\ matrix.dep = NoReview /\ marked[d] = "none"
      /\ UNCHANGED <<structured, marked, handoff, claims, active, starts, results, group, exit, scope, saved, ledger, settled,
                     lost>>
      /\ matrix' = [dep |-> d, at |-> "reserved", rows |-> Mat!Fresh, next |-> 1, failed |-> FALSE, ended |-> "none",
                    returned |-> FALSE, verified |-> TRUE, aborted |-> FALSE, shown |-> "none"]
  BY DEF Mat!Reserve, Mat!durable, Mat!Nobody
<1>2. /\ matrix' \in ReviewRecord /\ matrix'.dep = d /\ matrix'.at = "reserved" /\ matrix'.rows = Mat!Fresh
      /\ matrix'.next = 1 /\ ~matrix'.failed /\ matrix'.shown = "none"
  <2>1. 1 \in 1..OutOfSteps /\ Mat!Fresh \in [Steps -> Mat!Entry] /\ "reserved" \in AtMatrix
    BY MatConstants, FreshRows DEF OutOfSteps, AtMatrix, Untold, BeforeLoop
  <2> QED BY <1>1, <2>1 DEF ReviewRecord
<1>3. ReviewTyped'
  BY <1>2, FreshRows, MatConstants DEF ReviewTyped
<1>4. FilesTyped'
  BY <1>1 DEF MatInv, MatTyped, FilesTyped
<1> QED BY <1>1, <1>2, <1>3, <1>4, HolderChanges

LEMMA ReleaseMatrixKept ==
    ASSUME MatInv, Mat!Release
    PROVE  MatInv'
<1>1. /\ matrix.at = "over" /\ active' = active \ {matrix.dep}
      /\ matrix' = IF matrix.verified THEN Mat!Nobody ELSE [matrix EXCEPT !.at = "kept"]
      /\ UNCHANGED <<structured, marked, handoff, claims, starts, results, group, exit, scope, saved, ledger, settled, lost>>
  BY DEF Mat!Release
<1>2. FilesTyped'
  BY <1>1 DEF MatInv, MatTyped, FilesTyped
<1>3. matrix.at # "none" /\ matrix.verified \in BOOLEAN
  BY <1>1, Reviewing
<1>4. CASE matrix.verified
  <2>1. matrix' = [dep |-> NoReview, at |-> "none", rows |-> <<>>, next |-> 1, failed |-> FALSE, ended |-> "none",
                   returned |-> FALSE, verified |-> TRUE, aborted |-> FALSE, shown |-> "none"]
    BY <1>1, <1>4 DEF Mat!Nobody
  <2>2. 1 \in 1..OutOfSteps /\ "none" \in AtMatrix
    BY MatConstants DEF OutOfSteps, AtMatrix
  <2>3. matrix' \in ReviewRecord /\ matrix'.dep = NoReview /\ matrix'.at = "none" /\ matrix'.shown = "none"
    BY <2>1, <2>2 DEF ReviewRecord
  <2>4. ReviewTyped'
    BY <2>3 DEF ReviewTyped
  <2> QED BY <1>1, <1>2, <1>4, <2>3, <2>4, HolderChanges
<1>5. CASE matrix' = [matrix EXCEPT !.at = "kept"]
  BY <1>1, <1>2, <1>3, <1>5, AfterKept
<1> QED BY <1>1, <1>4, <1>5

LEMMA MatKept ==
    ASSUME MatInv, Mat!MatrixNext
    PROVE  MatInv'
BY MarkKept, ClaimAndHandOverKept, ConsumedKept, BeginMatrixKept, MatrixEnteredKept, PreflightKept, StartCommandKept,
   CommandExitsKept, GroupDiesKept, StopCommandKept, CommandClosesKept, CommandEndsKept, TerminateKept, RecoverKept,
   AccountKept, CaptureKept, StartReviewerKept, ReviewerEndsKept, SupervisorDiesKept, AroundKept, SettleMatrixKept,
   ReserveMatrixKept, ReleaseMatrixKept
   DEF Mat!MatrixNext, Mat!Prerequisites, Mat!Preflights, Mat!Collections

\* A ledger that was written stays.
LEMMA LedgerStays ==
    ASSUME MatInv, Mat!MatrixNext \/ UNCHANGED ledger, NEW d \in Reviews, ledger[d] # Mat!NoRecord
    PROVE  ledger'[d] = ledger[d]
<1>1. FilesTyped
  BY DEF MatInv, MatTyped
<1>2. ASSUME ledger[matrix.dep] = Mat!NoRecord, NEW l, NEW w, ledger' = Mat!Put(ledger, matrix.dep, l, w)
      PROVE  ledger'[d] = ledger[d]
  BY <1>1, <1>2 DEF FilesTyped, Mat!Put
<1>3. matrix.at \in {"admitted", "loop"} => ledger[matrix.dep] = Mat!NoRecord
  <2>1. matrix.at \in {"admitted", "loop"} => matrix.dep \in Reviews
    BY Reviewing
  <2> QED BY <2>1 DEF MatInv, MatState, Untouched, Unproved, BeforeLoop, InLoop
<1>4. ASSUME NEW ok \in BOOLEAN, NEW w \in Mat!Outcomes, NEW w2 \in Mat!Outcomes, Mat!Preflight(ok, w, w2)
      PROVE  ledger'[d] = ledger[d]
  BY <1>2, <1>3, <1>4 DEF Mat!Preflight
<1>5. ASSUME NEW told \in BOOLEAN, NEW w \in Mat!Outcomes, NEW w2 \in Mat!Outcomes, Mat!Terminate(w, w2, told)
      PROVE  ledger'[d] = ledger[d]
  BY <1>2, <1>3, <1>5 DEF Mat!Terminate
<1>6. ASSUME NEW w \in Mat!Outcomes, NEW w2 \in Mat!Outcomes, Mat!Recover(w, w2)
      PROVE  ledger'[d] = ledger[d]
  BY <1>2, <1>6 DEF Mat!Recover, Mat!HasLedger
<1>7. CASE UNCHANGED ledger
  BY <1>7
<1>8. CASE Mat!MatrixNext
  <2>1. \/ UNCHANGED ledger
        \/ \E ok \in BOOLEAN, w, w2 \in Mat!Outcomes : Mat!Preflight(ok, w, w2)
        \/ \E w, w2 \in Mat!Outcomes, told \in BOOLEAN : Mat!Terminate(w, w2, told)
        \/ \E w, w2 \in Mat!Outcomes : Mat!Recover(w, w2)
    BY <1>8 DEF Mat!MatrixNext, Mat!Reserve, Mat!SettleMatrix, Mat!MarkStarted, Mat!StartCommand,
       Mat!ClaimAndHandOver, Mat!Consume, Mat!BeginMatrix, Mat!EnterMatrix, Mat!CommandExits,
       Mat!GroupDies, Mat!StopCommand, Mat!CommandCloses, Mat!CommandEnds, Mat!Account, Mat!Capture,
       Mat!StartReviewer, Mat!ReviewerEnds, Mat!Release, Mat!Abort, Mat!SupervisorDies, Mat!Sweep,
       Mat!EditScope, Mat!Preflights
  <2> QED BY <1>4, <1>5, <1>6, <2>1
<1> QED BY <1>7, <1>8

-----------------------------------------------------------------------------
(* The custody of an execution.                                            *)

Snapshots == [content : Exec!Contents, index : Exec!Contents, head : Exec!Contents]
OpRecord == [tool : Exec!Tools, actor : Lineage, before : Snapshots]
AnswerRecord == [tool : Exec!Tools, before : Snapshots, after : Snapshots]
FailureRecord == [tool : Exec!Tools \cup {"none"}]
PhasesDone == UNION {[s -> Exec!Contents] : s \in SUBSET Phases}
JournalRecord ==
    [owner : Lineage, launch : Lineage \cup {Exec!NoOne}, pending : Lineage \cup {Exec!NoOne}, phase : Phases \cup {NoPhase},
     custody : {"idle", "direct"}, op : {Exec!NoOp} \cup OpRecord, failure : FailureRecord, recovery : BOOLEAN, diagnosed : BOOLEAN, noProgress : 0..NoProgressLimit,
     replacements : 0..ReplacementLimit, candidate : Exec!Contents,
     answer : SUBSET AnswerRecord, done : PhasesDone]
Inheriting == {"reserved", "pending", "leased", "slotted"}
Busy == {"begun", "running", "recorded"}
AtWork == Busy \cup {"bound", "idle", "selecting", "settling", "prepared"}
Places == (AtWork \ {"prepared"}) \cup Inheriting \cup {"absent", "ended"}
SessionRecord ==
    [at : Places] \cup [at : {"prepared"}, tool : Exec!Tools, before : Snapshots]
CustTyped ==
    /\ journal \in JournalRecord
    /\ facts \in [known : Snapshots, checked : 0..Len(CheckOrder), repaired : BOOLEAN, proven : BOOLEAN]
    /\ tree \in [content : Exec!Contents, index : Exec!Contents, head : Exec!Contents, last : Exec!Contents]
    /\ tree.content <= tree.last
    /\ lease \in [owner : Lineage, custody : {"idle", "active"}, snapshot : Exec!Contents] /\ slotOwner \in Lineage
    /\ session \in [Lineage -> SessionRecord] /\ passedOn \subseteq Exec!Checks \X Exec!Contents
    /\ effect \in [tool : Exec!Tools \cup {"none"}, actor : Lineage \cup {0}, state : {"none", "running", "ok", "failed", "left"}]
    /\ \A d \in Lineage : session[d].at = "recorded" =>
         result \in [ok : BOOLEAN, settled : BOOLEAN, valid : BOOLEAN, after : Snapshots]

\* Who works owns the journal, and who inherits it succeeds a dead owner at rest.
CustOwners ==
    /\ \A d \in Lineage :
         /\ session[d].at \in AtWork => journal.owner = d
         /\ session[d].at \in Inheriting =>
              /\ d - 1 \in Lineage /\ journal.owner = d - 1 /\ session[d - 1].at = "ended" /\ journal.op = Exec!NoOp
              /\ journal.replacements < ReplacementLimit
         /\ session[d].at = "selecting" => lease.custody = "active"
         /\ session[d].at = "settling" => journal.op = Exec!NoOp /\ journal.custody = "idle"
    /\ journal.custody = "direct" => lease.custody = "active"

\* The operation in flight is of the owner, in direct custody, and began on what is known.
CustOps ==
    /\ journal.op # Exec!NoOp =>
         /\ journal.custody = "direct" /\ journal.op.actor = journal.owner
         /\ lease.owner = journal.owner /\ slotOwner = journal.owner
         /\ facts.known = journal.op.before /\ journal.op.before.content <= tree.content
    /\ effect # Exec!NoEffect =>
         journal.op # Exec!NoOp /\ journal.op.tool = effect.tool /\ journal.op.actor = effect.actor /\ effect.state # "none"
    /\ \A d \in Lineage :
         /\ session[d].at \in Busy => journal.op # Exec!NoOp
         /\ session[d].at = "running" => effect # Exec!NoEffect
         /\ session[d].at = "recorded" /\ result.settled => effect = Exec!NoEffect

\* What an effect did, and what its result says, while nobody else wrote.
EffectTrue ==
    /\ effect.state = "ok" /\ effect.tool \in Exec!Checks /\ journal.op.before.content = tree.content =>
         <<effect.tool, tree.content>> \in passedOn
    /\ effect.state = "running" => tree.head = journal.op.before.head
    /\ effect.tool = "commit" =>
         journal.op.before.index = journal.op.before.content /\ (effect.state = "ok" => tree.head # journal.op.before.head)
ResultTrue ==
    (\E d \in Lineage : session[d].at = "recorded") =>
      /\ result.ok /\ journal.op.tool \in Exec!Checks /\ result.after.content = journal.op.before.content =>
           <<journal.op.tool, result.after.content>> \in passedOn
      /\ result.valid /\ journal.op.tool # "commit" => result.after.head = journal.op.before.head
      /\ result.valid /\ journal.op.tool = "commit" /\ result.ok => result.after.head = journal.op.before.content
\* What the journal holds as proven.
JournalTrue ==
    /\ \A r \in journal.answer : r.tool \in Exec!Checks /\ r.before.content = r.after.content =>
         <<r.tool, r.after.content>> \in passedOn
    /\ \A i \in 1..facts.checked : <<CheckOrder[i], facts.known.content>> \in passedOn
    /\ facts.proven => \A c \in Exec!Checks : <<c, facts.known.head>> \in passedOn
    /\ Exec!PhaseChecked

\* The inductive invariant behind the custody's part of ExecutionSafe.
CustTruth == EffectTrue /\ ResultTrue /\ JournalTrue
CustInv == CustTyped /\ CustOwners /\ CustOps /\ CustTruth

LEMMA CustConstants ==
    /\ MaxContent \in Nat /\ NoProgressLimit \in Nat /\ ReplacementLimit \in Nat /\ NoPhase \notin Phases
    /\ Lineage \subseteq Nat \ {0} /\ 1 \in Lineage /\ Len(CheckOrder) \in Nat
    /\ \A i \in 1..Len(CheckOrder) : CheckOrder[i] \in Exec!Checks
    /\ \A c \in Exec!Checks : \E i \in 1..Len(CheckOrder) : c = CheckOrder[i]
    /\ {"write", "add", "commit", "none"} \cap Exec!Checks = {}
BY ExecutionConstants DEF Exec!ExecutionAssumption, Exec!Checks

LEMMA CustMeans ==
    ASSUME CustInv
    PROVE  Exec!ExecutionTypeOK /\ Exec!EffectOwned /\ Exec!PhaseChecked
<1>1. CustTyped /\ Exec!PhaseChecked
  BY DEF CustInv, CustTruth, JournalTrue
<1>2. Exec!ExecutionTypeOK
  <2>1. journal.op.tool \in Exec!Tools \cup {"none"}
    BY <1>1 DEF CustTyped, JournalRecord, OpRecord, Exec!NoOp
  <2>2. DOMAIN journal.done \subseteq Phases
    BY <1>1 DEF CustTyped, JournalRecord, PhasesDone
  <2> QED BY <1>1, <2>1, <2>2 DEF CustTyped, JournalRecord, Exec!ExecutionTypeOK
<1>3. Exec!EffectOwned
  <2>1. lease.custody = "active" => lease = [lease EXCEPT !.owner = lease.owner, !.custody = "active"]
    BY <1>1 DEF CustTyped
  <2> QED BY <2>1 DEF CustInv, CustOps, CustOwners, Exec!EffectOwned
<1> QED BY <1>1, <1>2, <1>3

LEMMA CustStarts ==
    ASSUME Exec!ExecutionInit
    PROVE  CustInv
<1> USE CustConstants DEF Exec!ExecutionInit
<1>1. CustTyped
  <2>1. [q \in {} |-> 0] \in PhasesDone
    <3>1. [q \in {} |-> 0] \in [{} -> Exec!Contents]
      OBVIOUS
    <3> QED BY <3>1 DEF PhasesDone
  <2>2. 0 \in Exec!Contents
    BY DEF Exec!Contents
  <2>3. journal \in JournalRecord
    <3>1. [tool |-> "none"] \in FailureRecord
      BY DEF FailureRecord
    <3> QED BY <2>1, <2>2, <3>1 DEF JournalRecord, Exec!NoOne, Exec!NoFailure
  <2>4. session \in [Lineage -> SessionRecord]
    BY DEF SessionRecord, Places, AtWork, Inheriting, Busy
  <2> QED BY <2>2, <2>3, <2>4 DEF CustTyped, Snapshots, Exec!NoEffect
<1>2. CustOwners /\ CustOps
  BY DEF CustOwners, CustOps, AtWork, Inheriting, Busy, Exec!NoEffect
<1>3. CustTruth
  <2>1. journal.done = [q \in {} |-> 0] /\ journal.answer = {}
    OBVIOUS
  <2>2. Exec!PhaseChecked
    BY <2>1 DEF Exec!PhaseChecked
  <2>3. facts.checked = 0 /\ facts.proven = FALSE /\ effect = Exec!NoEffect /\ (\A d \in Lineage : session[d].at # "recorded")
    OBVIOUS
  <2> HIDE DEF Exec!ExecutionInit
  <2> QED BY <2>1, <2>2, <2>3 DEF CustTruth, EffectTrue, ResultTrue, JournalTrue, Exec!NoEffect
<1> QED BY <1>1, <1>2, <1>3 DEF CustInv

\* A step of one session, or of none.
LEMMA OneSession ==
    ASSUME CustTyped, NEW d \in Lineage, NEW r \in SessionRecord, session' = [session EXCEPT ![d] = r]
    PROVE  /\ session' \in [Lineage -> SessionRecord] /\ session'[d] = r
           /\ \A e \in Lineage \ {d} : session'[e] = session[e]
BY DEF CustTyped

LEMMA OneAt ==
    ASSUME CustTyped, NEW d \in Lineage, NEW s \in Places, Exec!Becomes(d, s)
    PROVE  /\ session' \in [Lineage -> SessionRecord] /\ session'[d].at = s
           /\ \A e \in Lineage \ {d} : session'[e] = session[e]
<1>1. [at |-> s] \in SessionRecord
  BY DEF SessionRecord
<1> QED BY <1>1, OneSession DEF Exec!Becomes

\* Who works works alone.
LEMMA WorksAlone ==
    ASSUME CustInv, NEW d \in Lineage, session[d].at \in AtWork
    PROVE  /\ journal.owner = d
           /\ \A e \in Lineage \ {d} : session[e].at \notin AtWork \cup Inheriting
BY DEF CustInv, CustOwners, AtWork, Inheriting, Busy

\* The worktree as it is known.
LEMMA KnownIs ==
    ASSUME CustTyped, Exec!Known
    PROVE  facts.known = Exec!Capture /\ tree.content = facts.known.content /\ tree.index = facts.known.index
           /\ tree.head = facts.known.head /\ Exec!Capture \in Snapshots
BY DEF CustTyped, Exec!Known, Exec!Capture, Snapshots

\* A step that leaves worktree, effect, result and facts alone proves nothing else.
LEMMA TruthKept ==
    ASSUME CustInv, UNCHANGED <<tree, effect, passedOn, result, facts>>, journal'.answer \subseteq journal.answer,
           journal'.done = journal.done, journal'.op = journal.op \/ effect = Exec!NoEffect,
           \A d \in Lineage : session'[d].at = "recorded" => session[d].at = "recorded" /\ journal'.op = journal.op
    PROVE  CustTruth'
<1>1. EffectTrue'
  BY CustConstants DEF CustInv, CustTruth, EffectTrue, Exec!NoEffect
<1>2. ResultTrue'
  BY DEF CustInv, CustTruth, ResultTrue
<1>3. JournalTrue'
  BY DEF CustInv, CustTruth, JournalTrue, Exec!PhaseChecked
<1> QED BY <1>1, <1>2, <1>3 DEF CustTruth

\* A command at rest: plan, attempt, resolve, advance.
CommandStep ==
    /\ UNCHANGED <<result, tree, lease, slotOwner, session, effect, passedOn>>
    /\ journal' \in JournalRecord /\ journal'.op = journal.op /\ journal'.owner = journal.owner
    /\ journal'.custody = journal.custody /\ journal'.answer \subseteq journal.answer
    /\ journal'.replacements = journal.replacements
    /\ \A p \in DOMAIN journal'.done : \A c \in Exec!Checks : <<c, journal'.done[p]>> \in passedOn
    /\ facts' \in [known : Snapshots, checked : 0..Len(CheckOrder), repaired : BOOLEAN, proven : BOOLEAN]
    /\ facts'.known = facts.known
    /\ facts'.checked = 0 \/ facts'.checked = facts.checked
    /\ facts'.proven = FALSE \/ facts'.proven = facts.proven
LEMMA CommandSteps ==
    ASSUME CustInv, CommandStep
    PROVE  CustInv'
<1> USE DEF CommandStep
<1>1. CustTyped'
  BY DEF CustInv, CustTyped
<1>2. CustOwners'
  BY DEF CustInv, CustOwners
<1>3. CustOps'
  BY DEF CustInv, CustOps
<1>4. EffectTrue' /\ ResultTrue'
  BY DEF CustInv, CustTruth, EffectTrue, ResultTrue
<1>5. JournalTrue'
  <2>1. \A i \in 1..facts'.checked : i \in 1..facts.checked
    BY CustConstants DEF CustInv, CustTyped
  <2> QED BY <2>1 DEF CustInv, CustTruth, JournalTrue, Exec!PhaseChecked
<1> QED BY <1>1, <1>2, <1>3, <1>4, <1>5 DEF CustInv, CustTruth

LEMMA CommandStands ==
    ASSUME CustInv
    PROVE  /\ CustTyped /\ journal \in JournalRecord /\ 0 \in 0..Len(CheckOrder)
           /\ facts \in [known : Snapshots, checked : 0..Len(CheckOrder), repaired : BOOLEAN, proven : BOOLEAN]
           /\ \A q \in DOMAIN journal.done : \A c \in Exec!Checks : <<c, journal.done[q]>> \in passedOn
BY CustConstants DEF CustInv, CustTyped, CustTruth, JournalTrue, Exec!PhaseChecked

LEMMA PlanKept ==
    ASSUME CustInv, NEW d \in Lineage, NEW p \in Phases, Exec!Plan(d, p)
    PROVE  CustInv'
<1>1. journal' = [journal EXCEPT !.phase = p, !.answer = {}] /\ facts' = [facts EXCEPT !.checked = 0, !.proven = FALSE]
  BY DEF Exec!Plan
<1>2. CommandStep
  BY <1>1, CommandStands DEF Exec!Plan, JournalRecord, CommandStep
<1> QED BY <1>2, CommandSteps

LEMMA AttemptKept ==
    ASSUME CustInv, NEW d \in Lineage, NEW explained \in BOOLEAN, Exec!Attempt(d, explained)
    PROVE  CustInv'
<1>1. journal.noProgress + 1 \in 0..NoProgressLimit /\ 0 \in 0..NoProgressLimit
  BY CommandStands, CustConstants DEF Exec!Attempt, Exec!Runnable, JournalRecord
<1>2. PICK n \in 0..NoProgressLimit, b \in BOOLEAN :
         journal' = [journal EXCEPT !.recovery = FALSE, !.diagnosed = b, !.noProgress = n]
  <2>1. (journal.diagnosed \/ explained) \in BOOLEAN
    BY CommandStands DEF JournalRecord
  <2> QED BY <1>1, <2>1 DEF Exec!Attempt
<1>3. CommandStep
  BY <1>2, CommandStands DEF Exec!Attempt, JournalRecord, CommandStep
<1> QED BY <1>3, CommandSteps

LEMMA ResolveKept ==
    ASSUME CustInv, NEW d \in Lineage, Exec!Resolve(d)
    PROVE  CustInv'
<1>1. Exec!NoFailure \in FailureRecord /\ 0 \in 0..NoProgressLimit
  BY CustConstants DEF Exec!NoFailure, FailureRecord
<1>2. CommandStep
  BY <1>1, CommandStands DEF Exec!Resolve, JournalRecord, CommandStep
<1> QED BY <1>2, CommandSteps

LEMMA AdvanceKept ==
    ASSUME CustInv, NEW d \in Lineage, NEW p \in Phases, Exec!Advance(d, p)
    PROVE  CustInv'
<1>1. journal.phase \in Phases /\ tree.head \in Exec!Contents /\ (\A c \in Exec!Checks : <<c, tree.head>> \in passedOn)
  BY KnownIs DEF Exec!Advance, Exec!PhaseProven, CustTyped, JournalRecord, CustInv, CustTruth, JournalTrue
<1> DEFINE done == [q \in DOMAIN journal.done \cup {journal.phase} |->
                      IF q = journal.phase THEN tree.head ELSE journal.done[q]]
<1>2. /\ journal' = [journal EXCEPT !.phase = p, !.done = done] /\ facts' = [facts EXCEPT !.checked = 0, !.proven = FALSE]
      /\ UNCHANGED <<result, tree, lease, slotOwner, session, effect, passedOn>>
  BY DEF Exec!Advance
<1>3. PICK s \in SUBSET Phases : journal.done \in [s -> Exec!Contents]
  BY CommandStands DEF JournalRecord, PhasesDone
<1>4. done \in [s \cup {journal.phase} -> Exec!Contents] /\ s \cup {journal.phase} \in SUBSET Phases
  BY <1>1, <1>3
<1>5. done \in PhasesDone
  BY <1>4 DEF PhasesDone
<1>6. \A q \in DOMAIN done : \A c \in Exec!Checks : <<c, done[q]>> \in passedOn
  BY <1>1, CommandStands
<1> HIDE DEF done
<1>7. CommandStep
  BY <1>2, <1>5, <1>6, CommandStands DEF JournalRecord, CommandStep
<1> QED BY <1>7, CommandSteps

\* Direct custody is taken and given back.
LEMMA DirectKept ==
    ASSUME CustInv, NEW d \in Lineage,
           Exec!SelectProject(d) \/ Exec!SelectPublish(d) \/ Exec!SettlePublish(d) \/ Exec!SettleProject(d)
    PROVE  CustInv'
<1> USE DEF Exec!SelectProject, Exec!SelectPublish, Exec!SettlePublish, Exec!SettleProject
<1>0. CustTyped
  BY DEF CustInv
<1>1. PICK s \in {"idle", "selecting", "settling"} : Exec!Becomes(d, s)
  OBVIOUS
<1>2. /\ session' \in [Lineage -> SessionRecord] /\ session'[d].at = s
      /\ \A e \in Lineage \ {d} : session'[e] = session[e]
  BY <1>0, <1>1, OneAt DEF Places, AtWork
<1>3. session[d].at \in AtWork
  BY DEF Exec!Idle, AtWork
<1>4. /\ journal' \in JournalRecord /\ UNCHANGED <<facts, result, tree, slotOwner, effect, passedOn>>
      /\ journal'.owner = journal.owner /\ journal'.op = journal.op /\ journal'.answer = journal.answer
      /\ journal'.done = journal.done
      /\ lease' \in [owner : Lineage, custody : {"idle", "active"}, snapshot : Exec!Contents] /\ lease'.owner = lease.owner
  BY <1>0 DEF CustTyped, JournalRecord
<1>5. /\ Exec!SelectProject(d) => lease'.custody = "active" /\ UNCHANGED journal
      /\ Exec!SelectPublish(d) => UNCHANGED lease /\ journal'.custody = "direct"
      /\ Exec!SettlePublish(d) => UNCHANGED lease /\ journal'.custody = "idle" /\ journal.op = Exec!NoOp
      /\ Exec!SettleProject(d) => lease'.custody = "idle" /\ UNCHANGED journal
  BY <1>0 DEF CustTyped, JournalRecord
<1>6. CustTyped'
  BY <1>0, <1>2, <1>4 DEF CustTyped
<1>7. CustOwners'
  <2>1. journal'.owner = d /\ \A e \in Lineage \ {d} : session'[e].at \notin AtWork \cup Inheriting
    BY <1>2, <1>3, <1>4, WorksAlone
  <2>2. CASE Exec!SelectProject(d)
    <3>1. session'[d].at = "selecting" /\ lease'.custody = "active" /\ UNCHANGED journal
      BY <1>0, <1>5, <2>2 DEF Exec!Becomes, CustTyped
    <3> QED BY <2>1, <3>1 DEF CustOwners, AtWork, Inheriting, Busy
  <2>3. CASE Exec!SelectPublish(d)
    <3>1. session'[d].at = "idle" /\ session[d].at = "selecting" /\ UNCHANGED lease
      BY <1>0, <1>5, <2>3 DEF Exec!Becomes, CustTyped
    <3>2. lease'.custody = "active"
      BY <3>1 DEF CustInv, CustOwners
    <3> QED BY <2>1, <3>1, <3>2 DEF CustOwners, AtWork, Inheriting, Busy
  <2>4. CASE Exec!SettlePublish(d)
    <3>1. session'[d].at = "settling" /\ journal'.custody = "idle" /\ journal.op = Exec!NoOp
      BY <1>0, <1>5, <2>4 DEF Exec!Becomes, CustTyped
    <3> QED BY <1>4, <2>1, <3>1 DEF CustOwners, AtWork, Inheriting, Busy
  <2>5. CASE Exec!SettleProject(d)
    <3>1. session'[d].at = "idle" /\ session[d].at = "settling" /\ UNCHANGED journal
      BY <1>0, <1>5, <2>5 DEF Exec!Becomes, CustTyped
    <3>2. journal'.custody = "idle"
      BY <3>1 DEF CustInv, CustOwners
    <3> QED BY <2>1, <3>1, <3>2 DEF CustOwners, AtWork, Inheriting, Busy
  <2> QED BY <2>2, <2>3, <2>4, <2>5
<1>8. CustOps'
  BY <1>2, <1>4, <1>5 DEF CustInv, CustOwners, CustOps, Busy
<1>9. CustTruth'
  BY <1>2, <1>4, TruthKept
<1> QED BY <1>6, <1>7, <1>8, <1>9 DEF CustInv

\* A call is prepared and begins.
LEMMA PrepareKept ==
    ASSUME CustInv, NEW d \in Lineage, NEW t \in Exec!Tools, Exec!Prepare(d, t)
    PROVE  CustInv'
<1> USE DEF Exec!Prepare
<1>0. CustTyped
  BY DEF CustInv
<1>1. Exec!Capture \in Snapshots
  BY <1>0, KnownIs
<1>2. /\ session' \in [Lineage -> SessionRecord] /\ session'[d].at = "prepared"
      /\ \A e \in Lineage \ {d} : session'[e] = session[e]
  <2>1. PICK r \in SessionRecord : r.at = "prepared" /\ session' = [session EXCEPT ![d] = r]
    <3>1. [at |-> "prepared", tool |-> t, before |-> Exec!Capture] \in SessionRecord
      BY <1>1 DEF SessionRecord
    <3> QED BY <3>1 DEF Exec!Capture
  <2> QED BY <1>0, <2>1, OneSession
<1>3. CustTyped'
  BY <1>0, <1>2 DEF CustTyped
<1>4. CustOwners'
  BY <1>2, WorksAlone DEF CustInv, CustOwners, AtWork, Inheriting, Busy, Exec!Idle
<1>5. CustOps'
  BY <1>2 DEF CustInv, CustOps, Busy
<1>6. CustTruth'
  BY <1>2, TruthKept
<1> QED BY <1>3, <1>4, <1>5, <1>6 DEF CustInv

LEMMA BeginKept ==
    ASSUME CustInv, NEW d \in Lineage, Exec!Begin(d)
    PROVE  CustInv'
<1>0. CustTyped /\ session[d].at = "prepared" /\ session[d].at \in AtWork
  BY DEF CustInv, Exec!Begin, AtWork
<1>1. PICK s \in {"idle", "begun"} : Exec!Becomes(d, s)
  BY DEF Exec!Begin
<1>2. /\ session' \in [Lineage -> SessionRecord] /\ session'[d].at = s
      /\ \A e \in Lineage \ {d} : session'[e] = session[e]
  BY <1>0, <1>1, OneAt DEF Places, AtWork, Busy
<1>3. UNCHANGED <<facts, result, tree, lease, slotOwner, effect, passedOn>>
  BY DEF Exec!Begin
<1>4. ASSUME ~Exec!MayBegin(d)
      PROVE  CustInv'
  <2>1. UNCHANGED journal /\ session'[d].at = "idle"
    BY <1>0, <1>2, <1>4, OneAt DEF Places, Exec!Begin, AtWork
  <2>2. CustTyped'
    BY <1>0, <1>2, <1>3, <2>1 DEF CustTyped
  <2>3. CustOwners'
    BY <1>0, <1>2, <1>3, <2>1, WorksAlone DEF CustInv, CustOwners, AtWork, Inheriting, Busy
  <2>4. CustOps'
    BY <1>2, <1>3, <2>1 DEF CustInv, CustOps, Busy
  <2>5. CustTruth'
    BY <1>2, <1>3, <2>1, TruthKept
  <2> QED BY <2>2, <2>3, <2>4, <2>5 DEF CustInv
<1>5. ASSUME Exec!MayBegin(d)
      PROVE  CustInv'
  <2> DEFINE begun == [tool |-> session[d].tool, actor |-> d, before |-> session[d].before]
  <2>1. /\ journal' = [journal EXCEPT !.op = begun, !.answer = IF Exec!Mutates(session[d].tool) THEN {} ELSE @]
        /\ session'[d].at = "begun"
    BY <1>0, <1>2, <1>5, OneAt DEF Places, Exec!Begin, AtWork, Busy
  <2>2. session[d] \in [at : {"prepared"}, tool : Exec!Tools, before : Snapshots]
    BY <1>0 DEF CustTyped, SessionRecord, Places, Inheriting
  <2>3. begun \in OpRecord /\ begun # Exec!NoOp
    BY <2>2 DEF Exec!NoOp, OpRecord
  <2> HIDE DEF begun
  <2>4. /\ journal' \in JournalRecord /\ journal'.op = begun /\ journal'.answer \subseteq journal.answer
        /\ journal'.done = journal.done /\ journal'.owner = journal.owner /\ journal'.custody = journal.custody
    BY <1>0, <2>1, <2>3 DEF CustTyped, JournalRecord
  <2>5. journal.custody = "direct" /\ journal.op = Exec!NoOp /\ lease.owner = d /\ slotOwner = d /\ journal.owner = d
    BY <1>5 DEF Exec!MayBegin, Exec!OwnsWorktree, Exec!Commands
  <2>6. begun.before = facts.known /\ begun.actor = d /\ facts.known.content <= tree.content
    BY <1>0, <1>5, CustConstants, KnownIs DEF Exec!MayBegin, CustTyped, Exec!Contents, begun
  <2>7. CustTyped'
    BY <1>0, <1>2, <1>3, <2>1, <2>4 DEF CustTyped
  <2>8. CustOwners'
    BY <1>0, <1>2, <1>3, <2>1, <2>4, <2>5, WorksAlone DEF CustInv, CustOwners, AtWork, Inheriting, Busy
  <2>9. effect = Exec!NoEffect /\ (\A e \in Lineage : session[e].at \notin Busy)
    BY <2>5 DEF CustInv, CustOps
  <2>10. CustOps'
    BY <1>2, <1>3, <2>1, <2>3, <2>4, <2>5, <2>6, <2>9 DEF CustOps, Busy
  <2>11. CustTruth'
    BY <1>2, <1>3, <2>1, <2>4, <2>9, TruthKept DEF Busy
  <2> QED BY <2>7, <2>8, <2>10, <2>11 DEF CustInv
<1> QED BY <1>4, <1>5

LEMMA ExecuteKept ==
    ASSUME CustInv, NEW d \in Lineage, Exec!Execute(d)
    PROVE  CustInv'
<1>0. CustTyped /\ session[d].at = "begun" /\ session[d].at \in AtWork
  BY DEF CustInv, Exec!Execute, AtWork, Busy
<1>1. PICK s \in {"idle", "running"} : Exec!Becomes(d, s)
  BY DEF Exec!Execute
<1>2. /\ session' \in [Lineage -> SessionRecord] /\ session'[d].at = s
      /\ \A e \in Lineage \ {d} : session'[e] = session[e]
  BY <1>0, <1>1, OneAt DEF Places, AtWork, Busy
<1>3. UNCHANGED <<journal, facts, result, tree, lease, slotOwner, passedOn>>
  BY DEF Exec!Execute
<1>4. journal.op # Exec!NoOp /\ journal.op.actor = d /\ journal.op \in OpRecord
  BY <1>0, WorksAlone DEF CustInv, CustOps, CustTyped, JournalRecord, Busy
<1>5. \/ UNCHANGED effect /\ s = "idle"
      \/ effect' = [tool |-> journal.op.tool, actor |-> d, state |-> "running"] /\ Exec!Executes(d)
  BY <1>0, <1>1, <1>2, OneAt DEF Places, Exec!Execute, AtWork, Busy
<1>6. CustTyped'
  BY <1>0, <1>2, <1>3, <1>4, <1>5 DEF CustTyped, OpRecord
<1>7. CustOwners'
  BY <1>0, <1>2, <1>3, WorksAlone DEF CustInv, CustOwners, AtWork, Inheriting, Busy
<1>8. CustOps'
  BY <1>0, <1>2, <1>3, <1>4, <1>5, WorksAlone DEF CustInv, CustOps, AtWork, Busy, Exec!NoEffect
<1>9. EffectTrue'
  <2>1. CASE UNCHANGED effect
    BY <1>3, <2>1 DEF CustInv, CustTruth, EffectTrue
  <2>2. CASE effect' = [tool |-> journal.op.tool, actor |-> d, state |-> "running"] /\ Exec!Executes(d)
    <3>1. tree.head = journal.op.before.head /\ tree.content = journal.op.before.content
      BY <1>0, <1>4, <2>2, KnownIs DEF Exec!Executes, CustInv, CustOps
    <3> QED BY <1>3, <2>2, <3>1 DEF EffectTrue, Exec!Executes
  <2> QED BY <1>5, <2>1, <2>2
<1>10. ResultTrue' /\ JournalTrue'
  BY <1>0, <1>2, <1>3, WorksAlone DEF CustInv, CustTruth, ResultTrue, JournalTrue, Exec!PhaseChecked
<1> QED BY <1>6, <1>7, <1>8, <1>9, <1>10 DEF CustInv, CustTruth

\* The worktree changes: by the effect, by what was left behind, by the operator.
TreeMoves ==
    /\ tree' \in [content : Exec!Contents, index : Exec!Contents, head : Exec!Contents, last : Exec!Contents]
    /\ tree'.content = tree.content \/ tree'.content = tree.last + 1
    /\ tree'.content <= tree'.last
LEMMA WrittenMoves ==
    ASSUME CustTyped, Exec!HasRoom, tree' = Exec!Written
    PROVE  TreeMoves /\ tree'.content = tree.last + 1 /\ tree'.head = tree.head /\ tree'.index = tree.index
<1>1. tree.last + 1 \in Exec!Contents /\ tree.last + 1 <= tree.last + 1
  BY CustConstants DEF CustTyped, Exec!HasRoom, Exec!Contents
<1> QED BY <1>1 DEF CustTyped, Exec!Written, TreeMoves

LEMMA StagedMoves ==
    ASSUME CustTyped, tree' = [tree EXCEPT !.index = tree.content]
    PROVE  TreeMoves /\ tree'.content = tree.content /\ tree'.head = tree.head
BY DEF CustTyped, TreeMoves

\* The content an operation began on, once left, does not come back.
LEMMA MovesOn ==
    ASSUME CustTyped, TreeMoves, NEW x \in Exec!Contents, x <= tree.content
    PROVE  x <= tree'.content /\ (x = tree'.content => tree'.content = tree.content)
BY CustConstants DEF CustTyped, TreeMoves, Exec!Contents

LEMMA BesidesKept ==
    ASSUME CustInv, UNCHANGED <<journal, facts, result, lease, slotOwner, session, effect, passedOn>>, TreeMoves,
           tree'.head = tree.head
    PROVE  CustInv'
<1>1. CustTyped /\ journal.op \in {Exec!NoOp} \cup OpRecord
  BY DEF CustInv, CustTyped, JournalRecord
<1>2. CustTyped' /\ CustOwners' /\ ResultTrue' /\ JournalTrue'
  <2>1. CustTyped'
    BY <1>1 DEF CustTyped, TreeMoves
  <2>2. CustOwners'
    BY DEF CustInv, CustOwners
  <2>3. ResultTrue' /\ JournalTrue'
    BY DEF CustInv, CustTruth, ResultTrue, JournalTrue, Exec!PhaseChecked
  <2> QED BY <2>1, <2>2, <2>3
<1>3. journal.op # Exec!NoOp =>
        /\ journal.op.before.content <= tree'.content
        /\ (journal.op.before.content = tree'.content => tree'.content = tree.content)
  BY <1>1, MovesOn DEF CustInv, CustOps, OpRecord, Snapshots
<1>4. CustOps'
  BY <1>3 DEF CustInv, CustOps
<1>5. EffectTrue'
  BY <1>3, CustConstants DEF CustInv, CustOps, CustTruth, EffectTrue, Exec!NoEffect
<1> QED BY <1>2, <1>4, <1>5 DEF CustInv, CustTruth

LEMMA OutsideKept ==
    ASSUME CustInv, Exec!LeftWrites \/ Exec!OperatorEdits \/ Exec!OperatorStages
    PROVE  CustInv'
<1>1. CustTyped
  BY DEF CustInv
<1> QED BY <1>1, WrittenMoves, StagedMoves, BesidesKept DEF Exec!LeftWrites, Exec!OperatorEdits, Exec!OperatorStages

LEMMA WorksKept ==
    ASSUME CustInv, NEW ok \in BOOLEAN, NEW whole \in BOOLEAN, Exec!Works(ok, whole)
    PROVE  CustInv'
<1>0. /\ CustTyped /\ effect.state = "running" /\ effect # Exec!NoEffect
      /\ UNCHANGED <<journal, facts, result, lease, slotOwner, session>>
  BY DEF CustInv, Exec!Works, Exec!NoEffect
<1> DEFINE st == IF ~whole THEN "left" ELSE IF ok THEN "ok" ELSE "failed"
<1>1. /\ effect' = [effect EXCEPT !.state = st] /\ st \in {"left", "ok", "failed"} /\ (st = "ok" => ok)
  BY DEF Exec!Works
<1> HIDE DEF st
<1>2. effect' \in [tool : Exec!Tools \cup {"none"}, actor : Lineage \cup {0}, state : {"none", "running", "ok", "failed", "left"}]
      /\ effect'.tool = effect.tool /\ effect'.actor = effect.actor /\ effect'.state = st /\ effect' # Exec!NoEffect
  BY <1>0, <1>1 DEF CustTyped, Exec!NoEffect
<1>3. /\ journal.op # Exec!NoOp /\ journal.op.tool = effect.tool
      /\ journal.op.actor = effect.actor /\ journal.op.before.content <= tree.content
      /\ journal.op.before \in Snapshots /\ tree.head = journal.op.before.head
  BY <1>0 DEF CustInv, CustTyped, JournalRecord, CustOps, CustTruth, EffectTrue
<1>4. /\ TreeMoves /\ passedOn \subseteq passedOn' /\ passedOn' \subseteq Exec!Checks \X Exec!Contents
      /\ effect.tool \in Exec!Checks /\ ok => <<effect.tool, tree.content>> \in passedOn' /\ tree' = tree
      /\ effect.tool = "commit" /\ ok => tree'.head # tree.head
  <2>1. tree' = tree => TreeMoves
    BY <1>0 DEF CustTyped, TreeMoves
  <2>2. CASE effect.tool \in Exec!Checks
    BY <1>0, <2>1, <2>2, CustConstants DEF Exec!Works, CustTyped
  <2>3. CASE effect.tool = "write"
    BY <1>0, <2>3, WrittenMoves, CustConstants DEF Exec!Works, CustTyped
  <2>4. CASE effect.tool = "add"
    BY <1>0, <2>1, <2>4, StagedMoves, CustConstants DEF Exec!Works, CustTyped
  <2>5. CASE effect.tool = "commit"
    BY <1>0, <2>1, <2>5, CustConstants DEF Exec!Works, CustTyped, TreeMoves
  <2> QED BY <2>2, <2>3, <2>4, <2>5 DEF Exec!Works
<1>5. journal.op.before.content <= tree'.content
  BY <1>0, <1>3, <1>4, MovesOn DEF Snapshots
<1>6. CustTyped'
  BY <1>0, <1>2, <1>4 DEF CustTyped, TreeMoves
<1>7. CustOwners' /\ CustOps'
  BY <1>0, <1>1, <1>2, <1>3, <1>5 DEF CustInv, CustOwners, CustOps
<1>8. EffectTrue'
  BY <1>0, <1>1, <1>2, <1>3, <1>4 DEF CustInv, CustTruth, EffectTrue
<1>9. ResultTrue' /\ JournalTrue'
  BY <1>0, <1>4 DEF CustInv, CustTruth, ResultTrue, JournalTrue, Exec!PhaseChecked
<1> QED BY <1>6, <1>7, <1>8, <1>9 DEF CustInv, CustTruth

\* An effect of nobody alive ends unobserved.
LEMMA OrphanKept ==
    ASSUME CustInv, Exec!OrphanEnds
    PROVE  CustInv'
<1> USE DEF Exec!OrphanEnds
<1>1. /\ effect' = Exec!NoEffect /\ UNCHANGED <<journal, facts, result, tree, lease, slotOwner, session, passedOn>>
      /\ effect # Exec!NoEffect
  BY DEF Exec!NoEffect
<1>2. \A d \in Lineage : session[d].at # "running"
  BY <1>1, WorksAlone DEF CustInv, CustOps, Exec!Live, AtWork, Busy
<1>3. CustTyped'
  BY <1>1 DEF CustInv, CustTyped, Exec!NoEffect
<1>4. CustOwners' /\ CustOps'
  BY <1>1, <1>2 DEF CustInv, CustOwners, CustOps
<1>5. CustTruth'
  BY <1>1, CustConstants DEF CustInv, CustTruth, EffectTrue, ResultTrue, JournalTrue, Exec!PhaseChecked, Exec!NoEffect
<1> QED BY <1>3, <1>4, <1>5 DEF CustInv

\* The result is recorded.
LEMMA RecordKept ==
    ASSUME CustInv, NEW d \in Lineage, Exec!Record(d)
    PROVE  CustInv'
<1>0. /\ CustTyped /\ session[d].at = "running" /\ session[d].at \in AtWork
      /\ UNCHANGED <<journal, facts, tree, slotOwner, passedOn>>
  BY DEF CustInv, Exec!Record, AtWork, Busy
<1>1. /\ session' \in [Lineage -> SessionRecord] /\ session'[d].at = "recorded"
      /\ \A e \in Lineage \ {d} : session'[e] = session[e]
  BY <1>0, OneAt DEF Places, Exec!Record, AtWork, Busy
<1>2. /\ journal.op # Exec!NoOp /\ effect # Exec!NoEffect /\ journal.op.tool = effect.tool /\ journal.op.before \in Snapshots
  BY <1>0 DEF CustInv, CustOps, CustTyped, JournalRecord, OpRecord, Busy
<1> DEFINE moved == tree.head # journal.op.before.head
           exact == moved => effect.tool = "commit" /\ tree.head = journal.op.before.index
<1>3. /\ result' = [ok |-> effect.state = "ok", settled |-> effect.state # "left", valid |-> exact, after |-> Exec!Capture]
      /\ lease' = IF moved /\ exact THEN [lease EXCEPT !.snapshot = tree.head] ELSE lease
      /\ effect' = IF effect.state = "left" THEN effect ELSE Exec!NoEffect
  BY DEF Exec!Record
<1>4. Exec!Capture \in Snapshots /\ Exec!Capture.content = tree.content /\ Exec!Capture.head = tree.head
  BY <1>0 DEF CustTyped, Exec!Capture, Snapshots
<1>5. /\ result' \in [ok : BOOLEAN, settled : BOOLEAN, valid : BOOLEAN, after : Snapshots]
      /\ result'.ok = (effect.state = "ok") /\ result'.settled = (effect.state # "left") /\ result'.valid = exact
      /\ result'.after = Exec!Capture
  BY <1>3, <1>4
<1>6. /\ lease' \in [owner : Lineage, custody : {"idle", "active"}, snapshot : Exec!Contents]
      /\ lease'.owner = lease.owner /\ lease'.custody = lease.custody
  BY <1>0, <1>3 DEF CustTyped
<1>7. effect' = Exec!NoEffect \/ (effect' = effect /\ effect.state = "left")
  BY <1>3
<1>8. CustTyped'
  BY <1>0, <1>1, <1>5, <1>6, <1>7 DEF CustTyped, Exec!NoEffect
<1>9. CustOwners'
  BY <1>0, <1>1, <1>6, WorksAlone DEF CustInv, CustOwners, AtWork, Inheriting, Busy
<1>10. CustOps'
  BY <1>0, <1>1, <1>2, <1>5, <1>6, <1>7, WorksAlone DEF CustInv, CustOps, AtWork, Busy
<1>11. EffectTrue'
  BY <1>0, <1>7, CustConstants DEF CustInv, CustTruth, EffectTrue, Exec!NoEffect
<1>12. ResultTrue'
  <2>1. /\ effect.state = "ok" /\ journal.op.tool \in Exec!Checks /\ tree.content = journal.op.before.content =>
             <<journal.op.tool, tree.content>> \in passedOn
        /\ exact /\ journal.op.tool # "commit" => tree.head = journal.op.before.head
        /\ exact /\ journal.op.tool = "commit" /\ effect.state = "ok" => tree.head = journal.op.before.content
    BY <1>2 DEF CustInv, CustTruth, EffectTrue
  <2> HIDE DEF exact
  <2> QED BY <1>0, <1>4, <1>5, <2>1 DEF ResultTrue
<1>13. JournalTrue'
  BY <1>0 DEF CustInv, CustTruth, JournalTrue, Exec!PhaseChecked
<1> QED BY <1>8, <1>9, <1>10, <1>11, <1>12, <1>13 DEF CustInv, CustTruth

\* A result of a settled process, of the worktree as it is, closes its operation.
LEMMA FinishedKept ==
    ASSUME CustInv, NEW d \in Lineage, Exec!Finish(d), Exec!Closes(d)
    PROVE  CustInv'
<1> DEFINE t == journal.op.tool
<1>0. /\ CustTyped /\ session[d].at = "recorded" /\ session[d].at \in AtWork /\ journal.owner = d
      /\ UNCHANGED <<tree, lease, slotOwner, effect, passedOn>> /\ Exec!Finished(d)
      /\ result.valid /\ result.settled /\ result.after = Exec!Capture
  BY DEF CustInv, Exec!Finish, Exec!Closes, AtWork, Busy
<1>1. /\ session' \in [Lineage -> SessionRecord] /\ session'[d].at = "idle"
      /\ \A e \in Lineage \ {d} : session'[e] = session[e]
  BY <1>0, OneAt DEF Places, Exec!Finish, AtWork
<1>2. result \in [ok : BOOLEAN, settled : BOOLEAN, valid : BOOLEAN, after : Snapshots] /\ effect = Exec!NoEffect
  BY <1>0 DEF CustTyped, CustInv, CustOps
<1>3. /\ journal.op \in OpRecord /\ t \in Exec!Tools
      /\ facts.known = journal.op.before
  BY <1>0 DEF CustTyped, JournalRecord, OpRecord, CustInv, CustOps, Busy
<1>4. \A e \in Lineage : session'[e].at \notin Busy \cup Inheriting \cup {"selecting", "settling"}
  BY <1>0, <1>1, WorksAlone DEF AtWork, Busy, Inheriting
<1> DEFINE new == [tool |-> t, before |-> journal.op.before, after |-> result.after]
           failed == IF journal.failure # Exec!NoFailure THEN journal.failure
                     ELSE IF result.ok THEN Exec!NoFailure ELSE [tool |-> t]
           kept == IF Exec!Mutates(t) \/ tree.head # journal.candidate THEN {} ELSE journal.answer
           ans == IF failed = Exec!NoFailure \/ Exec!Key(t) # Exec!Key(failed.tool) THEN kept
                  ELSE IF result.ok THEN {new} ELSE {}
<1>5. /\ journal' = [journal EXCEPT !.op = Exec!NoOp, !.candidate = tree.head, !.recovery = @ \/ ~result.ok,
                       !.failure = failed, !.answer = ans]
      /\ facts' = [facts EXCEPT !.known = result.after, !.checked = Exec!CheckedAfter(t),
                     !.repaired = (@ \/ (result.ok /\ t = "write")) /\ journal.failure # Exec!NoFailure,
                     !.proven = IF t = "commit" THEN result.ok /\ facts.checked = Len(CheckOrder) ELSE @]
  BY <1>0 DEF Exec!Finished
<1>6. /\ failed \in FailureRecord /\ new \in AnswerRecord
      /\ \A r \in ans : r \in journal.answer \/ (r = new /\ result.ok)
  BY <1>0, <1>2, <1>3 DEF CustTyped, JournalRecord, OpRecord, AnswerRecord, FailureRecord, Exec!NoFailure
<1>7. ans \subseteq AnswerRecord
  BY <1>0, <1>6 DEF CustTyped, JournalRecord
<1> HIDE DEF failed, ans
<1>8. /\ journal' \in JournalRecord /\ journal'.op = Exec!NoOp /\ journal'.owner = journal.owner
      /\ journal'.custody = journal.custody /\ journal'.done = journal.done /\ journal'.answer = ans
  BY <1>0, <1>2, <1>5, <1>6, <1>7 DEF CustTyped, JournalRecord
<1>9. /\ Exec!CheckedAfter(t) \in 0..Len(CheckOrder)
      /\ \/ Exec!CheckedAfter(t) = 0
         \/ /\ result.ok /\ result.after.content = journal.op.before.content
            /\ Exec!CheckedAfter(t) = facts.checked
         \/ /\ result.ok /\ result.after.content = journal.op.before.content
            /\ Exec!CheckedAfter(t) = facts.checked + 1 /\ t = CheckOrder[facts.checked + 1] /\ t \in Exec!Checks
  BY <1>0, CustConstants DEF Exec!CheckedAfter, Exec!NextCheck, CustTyped
<1>10. /\ facts' \in [known : Snapshots, checked : 0..Len(CheckOrder), repaired : BOOLEAN, proven : BOOLEAN]
       /\ facts'.known = result.after /\ facts'.checked = Exec!CheckedAfter(t)
       /\ facts'.proven = IF t = "commit" THEN result.ok /\ facts.checked = Len(CheckOrder) ELSE facts.proven
  BY <1>0, <1>2, <1>5, <1>9 DEF CustTyped
<1>11. CustTyped'
  BY <1>0, <1>1, <1>4, <1>8, <1>10 DEF CustTyped, Busy
<1>12. CustOwners'
  BY <1>0, <1>1, <1>4, <1>8 DEF CustInv, CustOwners, AtWork, Inheriting, Busy
<1>13. CustOps'
  BY <1>0, <1>2, <1>4, <1>8 DEF CustOps, Busy
<1>14. EffectTrue' /\ ResultTrue'
  BY <1>0, <1>2, <1>4, CustConstants DEF EffectTrue, ResultTrue, Exec!NoEffect, Busy
<1>15. /\ result.ok /\ t \in Exec!Checks /\ result.after.content = journal.op.before.content =>
            <<t, result.after.content>> \in passedOn
       /\ t # "commit" => result.after.head = journal.op.before.head
       /\ t = "commit" /\ result.ok => result.after.head = journal.op.before.content
  BY <1>0 DEF CustInv, CustTruth, ResultTrue
<1>16. JournalTrue'
  <2>1. \A r \in ans : r.tool \in Exec!Checks /\ r.before.content = r.after.content => <<r.tool, r.after.content>> \in passedOn
    BY <1>6, <1>15 DEF CustInv, CustTruth, JournalTrue
  <2>2. \A i \in 1..facts'.checked : <<CheckOrder[i], result.after.content>> \in passedOn
    BY <1>0, <1>3, <1>9, <1>10, <1>15 DEF CustInv, CustTyped, CustTruth, JournalTrue
  <2>3. facts'.proven => \A c \in Exec!Checks : <<c, result.after.head>> \in passedOn
    BY <1>3, <1>10, <1>15, CustConstants DEF CustInv, CustTruth, JournalTrue
  <2>4. Exec!PhaseChecked'
    BY <1>0, <1>8 DEF CustInv, CustTruth, JournalTrue, Exec!PhaseChecked
  <2> QED BY <1>0, <1>8, <1>10, <2>1, <2>2, <2>3, <2>4 DEF JournalTrue
<1> QED BY <1>11, <1>12, <1>13, <1>14, <1>16 DEF CustInv, CustTruth

LEMMA FinishKept ==
    ASSUME CustInv, NEW d \in Lineage, Exec!Finish(d)
    PROVE  CustInv'
<1>0. /\ CustTyped /\ session[d].at \in AtWork /\ UNCHANGED <<tree, lease, slotOwner, effect, passedOn>>
  BY DEF CustInv, Exec!Finish, AtWork, Busy
<1>1. /\ session' \in [Lineage -> SessionRecord] /\ session'[d].at = "idle"
      /\ \A e \in Lineage \ {d} : session'[e] = session[e]
  BY <1>0, OneAt DEF Places, Exec!Finish, AtWork
<1>2. CASE Exec!Closes(d)
  BY <1>2, FinishedKept
<1>3. CASE ~Exec!Closes(d)
  <2>1. UNCHANGED <<journal, facts, result>>
    BY <1>3 DEF Exec!Finish
  <2>2. CustTyped'
    BY <1>0, <1>1, <2>1 DEF CustTyped
  <2>3. CustOwners'
    BY <1>0, <1>1, <2>1, WorksAlone DEF CustInv, CustOwners, AtWork, Inheriting, Busy
  <2>4. CustOps'
    BY <1>0, <1>1, <2>1 DEF CustInv, CustOps, Busy
  <2>5. CustTruth'
    BY <1>0, <1>1, <2>1, TruthKept
  <2> QED BY <2>2, <2>3, <2>4, <2>5 DEF CustInv
<1> QED BY <1>2, <1>3

\* A dead owner is succeeded, record by record.
LEMMA SuccessionKept ==
    ASSUME CustInv, NEW e \in Lineage,
           Exec!Reserve(e) \/ Exec!PrepareRestart(e) \/ Exec!HandoffLease(e) \/ Exec!HandoffSlot(e) \/ Exec!Restart(e) \/ Exec!OpenSession(e)
    PROVE  CustInv'
<1> USE DEF Exec!Reserve, Exec!PrepareRestart, Exec!HandoffLease, Exec!HandoffSlot, Exec!Restart, Exec!OpenSession
<1>0. CustTyped /\ UNCHANGED <<facts, result, tree, effect, passedOn>>
  BY DEF CustInv
<1>1. PICK s \in Inheriting \cup {"bound", "idle"} : Exec!Becomes(e, s)
  BY DEF Inheriting
<1>2. /\ session' \in [Lineage -> SessionRecord] /\ session'[e].at = s
      /\ \A d \in Lineage \ {e} : session'[d] = session[d]
  BY <1>0, <1>1, OneAt DEF Places, AtWork
<1>3. \/ /\ Exec!Reserve(e) /\ ~Exec!Restart(e) /\ s = "reserved" /\ session[e].at = "absent"
      \/ session[e].at \in Inheriting /\ ~Exec!Restart(e) /\ s \in Inheriting
      \/ session[e].at \in Inheriting /\ Exec!Restart(e) /\ s = "bound"
      \/ session[e].at = "bound" /\ ~Exec!Restart(e) /\ s = "idle"
  <2>1. \A x \in Inheriting \cup {"bound", "idle"} : Exec!Becomes(e, x) => x = s
    BY <1>0, <1>2, OneAt DEF Places, AtWork
  <2> QED BY <1>1, <2>1 DEF Inheriting
<1>4. session[e].at \in Inheriting => /\ e - 1 \in Lineage /\ journal.owner = e - 1 /\ session[e - 1].at = "ended"
                                      /\ journal.op = Exec!NoOp /\ journal.replacements < ReplacementLimit
  BY DEF CustInv, CustOwners
<1>5. Exec!Reserve(e) => /\ e - 1 \in Lineage /\ journal.owner = e - 1 /\ session[e - 1].at = "ended"
                      /\ journal.op = Exec!NoOp /\ journal.replacements < ReplacementLimit
  BY DEF Exec!Quiescent, Exec!Predecessor
<1>6. Exec!Restart(e) => journal.replacements + 1 \in 0..ReplacementLimit
  BY <1>0, <1>4, CustConstants DEF CustTyped, JournalRecord, Inheriting
<1>7. /\ journal' \in JournalRecord /\ journal'.op = journal.op /\ journal'.answer = journal.answer
      /\ journal'.done = journal.done /\ journal'.custody = journal.custody
      /\ Exec!Restart(e) \/ (journal'.owner = journal.owner /\ journal'.replacements = journal.replacements)
      /\ Exec!Restart(e) => journal'.owner = e
  <2>1. CASE UNCHANGED journal /\ ~Exec!Restart(e)
    BY <1>0, <2>1 DEF CustTyped
  <2>2. CASE journal' = [journal EXCEPT !.launch = e] /\ ~Exec!Restart(e)
    BY <1>0, <2>2 DEF CustTyped, JournalRecord
  <2>3. CASE journal' = [journal EXCEPT !.pending = e] /\ ~Exec!Restart(e)
    BY <1>0, <2>3 DEF CustTyped, JournalRecord
  <2>4. CASE Exec!Restart(e)
    BY <1>0, <1>6, <2>4 DEF CustTyped, JournalRecord, Exec!NoOne
  <2>5. UNCHANGED journal \/ journal' = [journal EXCEPT !.launch = e] \/ journal' = [journal EXCEPT !.pending = e] \/ Exec!Restart(e)
    OBVIOUS
  <2> HIDE DEF Exec!Reserve, Exec!PrepareRestart, Exec!HandoffLease, Exec!HandoffSlot, Exec!Restart, Exec!OpenSession
  <2> QED BY <2>1, <2>2, <2>3, <2>4, <2>5
<1>8. /\ lease' \in [owner : Lineage, custody : {"idle", "active"}, snapshot : Exec!Contents]
      /\ lease'.custody = lease.custody /\ slotOwner' \in Lineage
      /\ journal.op # Exec!NoOp => lease'.owner = lease.owner /\ slotOwner' = slotOwner
  BY <1>0, <1>4 DEF CustTyped, Inheriting
<1>9. \A d \in Lineage \ {e} : session[e].at \in Inheriting \/ Exec!Reserve(e) => session[d].at \notin AtWork \cup Inheriting
  BY <1>4, <1>5, CustConstants DEF CustInv, CustOwners, AtWork, Busy, Inheriting
<1> USE DEF AtWork, Inheriting, Busy
<1>10. CustTyped'
  BY <1>0, <1>2, <1>7, <1>8 DEF CustTyped
<1> HIDE DEF Exec!Reserve, Exec!PrepareRestart, Exec!HandoffLease, Exec!HandoffSlot, Exec!Restart, Exec!OpenSession
<1>11. \A d \in Lineage : session'[d].at = "ended" <=> session[d].at = "ended"
  BY <1>2, <1>3
<1>12. CustOwners'
  <2>1. \A d \in Lineage \ {e} : session[d].at \in Inheriting \cup AtWork => UNCHANGED <<journal.owner, journal.replacements>>
    BY <1>3, <1>7, <1>9
  <2>2. ASSUME NEW d \in Lineage \ {e}
        PROVE  /\ session'[d].at \in AtWork => journal'.owner = d
               /\ session'[d].at \in Inheriting =>
                    /\ d - 1 \in Lineage /\ journal'.owner = d - 1 /\ session'[d - 1].at = "ended" /\ journal'.op = Exec!NoOp
                    /\ journal'.replacements < ReplacementLimit
               /\ session'[d].at = "selecting" => lease'.custody = "active"
               /\ session'[d].at = "settling" => journal'.op = Exec!NoOp /\ journal'.custody = "idle"
    BY <1>2, <1>7, <1>8, <1>11, <2>1 DEF CustInv, CustOwners
  <2>3. /\ session'[e].at \in AtWork => journal'.owner = e
        /\ session'[e].at \in Inheriting =>
             /\ e - 1 \in Lineage /\ journal'.owner = e - 1 /\ session'[e - 1].at = "ended" /\ journal'.op = Exec!NoOp
             /\ journal'.replacements < ReplacementLimit
        /\ session'[e].at \notin {"selecting", "settling"}
    BY <1>2, <1>3, <1>4, <1>5, <1>7, <1>11, WorksAlone
  <2> QED BY <1>7, <1>8, <2>2, <2>3 DEF CustInv, CustOwners
<1>13. CustOps'
  <2>1. session'[e].at \notin Busy
    BY <1>2
  <2>2. \A d \in Lineage : session'[d].at \in Busy => session'[d] = session[d]
    BY <1>2, <2>1
  <2>3. journal.op # Exec!NoOp => journal'.owner = journal.owner
    BY <1>3, <1>4, <1>7
  <2> QED BY <1>0, <1>7, <1>8, <2>2, <2>3 DEF CustInv, CustOps
<1>14. CustTruth'
  BY <1>0, <1>2, <1>7, TruthKept
<1> QED BY <1>10, <1>12, <1>13, <1>14 DEF CustInv

\* A session ends at any moment.
LEMMA SessionEndsKept ==
    ASSUME CustInv, NEW d \in Lineage, Exec!SessionEnds(d)
    PROVE  CustInv'
<1> DEFINE writing == effect.actor = d /\ effect.tool = "write"
<1>0. /\ CustTyped /\ session[d].at # "ended" /\ UNCHANGED <<journal, facts, result, lease, slotOwner, passedOn>>
      /\ effect' = IF writing THEN Exec!NoEffect ELSE effect
      /\ tree' = tree \/ (writing /\ effect.state = "running" /\ Exec!HasRoom /\ tree' = Exec!Written)
  BY DEF CustInv, Exec!SessionEnds
<1>1. /\ session' \in [Lineage -> SessionRecord] /\ session'[d].at = "ended"
      /\ \A e \in Lineage \ {d} : session'[e] = session[e]
  BY <1>0, OneAt DEF Places, Exec!SessionEnds
<1>2. TreeMoves /\ (tree' = tree \/ effect' = Exec!NoEffect)
  BY <1>0, WrittenMoves DEF CustTyped, TreeMoves
<1>3. CustTyped'
  BY <1>0, <1>1, <1>2 DEF CustTyped, TreeMoves, Exec!NoEffect
<1>4. CustOwners'
  BY <1>0, <1>1 DEF CustInv, CustOwners, AtWork, Inheriting, Busy
<1>5. journal.op # Exec!NoOp => journal.op.before.content <= tree'.content
  <2>1. journal.op # Exec!NoOp => journal.op.before \in Snapshots /\ journal.op.before.content <= tree.content
    BY <1>0 DEF CustTyped, JournalRecord, CustInv, CustOps
  <2> QED BY <1>0, <1>2, <2>1, MovesOn DEF Snapshots
<1>6. \A e \in Lineage \ {d} : session[e].at \in Busy /\ effect # Exec!NoEffect => effect.actor # d
  BY WorksAlone DEF CustInv, CustOps, AtWork
<1>7. CustOps'
  BY <1>0, <1>1, <1>5, <1>6 DEF CustInv, CustOps, Busy
<1>8. EffectTrue'
  BY <1>0, <1>2, CustConstants DEF CustInv, CustTruth, EffectTrue, Exec!NoEffect
<1>9. ResultTrue' /\ JournalTrue'
  BY <1>0, <1>1 DEF CustInv, CustTruth, ResultTrue, JournalTrue, Exec!PhaseChecked
<1> QED BY <1>3, <1>4, <1>7, <1>8, <1>9 DEF CustInv, CustTruth

LEMMA CustKept ==
    ASSUME CustInv, Exec!ExecutionNext
    PROVE  CustInv'
BY PlanKept, AttemptKept, ResolveKept, AdvanceKept, DirectKept, PrepareKept, BeginKept, ExecuteKept, RecordKept, FinishKept,
   SuccessionKept, SessionEndsKept, WorksKept, OutsideKept, OrphanKept DEF Exec!ExecutionNext

LEMMA CustStays ==
    ASSUME CustInv, UNCHANGED custodyVars
    PROVE  CustInv'
BY DEF custodyVars, CustInv, CustTyped, CustOwners, CustOps, CustTruth, EffectTrue, ResultTrue, JournalTrue, Exec!PhaseChecked

\* Only the resolution clears a failure.
LEMMA FailureStays ==
    ASSUME CustInv, Exec!ExecutionNext \/ UNCHANGED custodyVars
    PROVE  Exec!FailureAnswered
<1> SUFFICES ASSUME journal.failure.tool \in Exec!Checks, journal'.failure = Exec!NoFailure
             PROVE  \/ <<journal.failure.tool, tree.content>> \in passedOn
                    \/ \E r \in journal.answer : /\ r.tool = journal.failure.tool /\ r.after = Exec!Capture
                                                 /\ r.before.content # r.after.content
  BY DEF Exec!FailureAnswered
<1>1. journal.failure # Exec!NoFailure /\ CustTyped
  BY CustConstants DEF Exec!NoFailure, CustInv
<1>2. PICK d \in Lineage : Exec!Resolve(d)
  <2> USE <1>1 DEF CustTyped, JournalRecord
  <2>1. ASSUME NEW d \in Lineage, Exec!Begin(d)
        PROVE  journal'.failure = journal.failure
    BY <2>1 DEF Exec!Begin
  <2>2. ASSUME NEW d \in Lineage, Exec!Finish(d)
        PROVE  journal'.failure = journal.failure
    BY <2>2 DEF Exec!Finish, Exec!Finished
  <2>3. ASSUME NEW d \in Lineage, NEW p \in Phases, Exec!Plan(d, p) \/ Exec!Advance(d, p)
        PROVE  journal'.failure = journal.failure
    BY <2>3 DEF Exec!Plan, Exec!Advance
  <2>4. ASSUME NEW d \in Lineage, NEW x \in BOOLEAN, Exec!Attempt(d, x)
        PROVE  journal'.failure = journal.failure
    BY <2>4 DEF Exec!Attempt
  <2>5. ASSUME NEW d \in Lineage, Exec!SelectPublish(d) \/ Exec!SettlePublish(d) \/ Exec!Reserve(d) \/ Exec!PrepareRestart(d) \/ Exec!Restart(d)
        PROVE  journal'.failure = journal.failure
    BY <2>5 DEF Exec!SelectPublish, Exec!SettlePublish, Exec!Reserve, Exec!PrepareRestart, Exec!Restart
  <2>6. \/ journal' = journal
        \/ \E d \in Lineage :
             \/ \E p \in Phases : Exec!Plan(d, p) \/ Exec!Advance(d, p)
             \/ \E x \in BOOLEAN : Exec!Attempt(d, x)
             \/ Exec!Begin(d) \/ Exec!Finish(d) \/ Exec!Resolve(d)
             \/ Exec!SelectPublish(d) \/ Exec!SettlePublish(d) \/ Exec!Reserve(d) \/ Exec!PrepareRestart(d) \/ Exec!Restart(d)
    BY DEF Exec!ExecutionNext, Exec!SelectProject, Exec!SettleProject, Exec!Prepare, Exec!Execute, Exec!Record, Exec!HandoffLease,
       Exec!HandoffSlot, Exec!OpenSession, Exec!SessionEnds, Exec!Works, Exec!LeftWrites, Exec!OrphanEnds, Exec!OperatorEdits,
       Exec!OperatorStages, custodyVars
  <2> QED BY <2>1, <2>2, <2>3, <2>4, <2>5, <2>6
<1>3. PICK r \in journal.answer : r.tool = journal.failure.tool /\ r.after = facts.known /\ Exec!Known
  BY <1>2 DEF Exec!Resolve, Exec!Answered
<1>4. r.after = Exec!Capture /\ r.after.content = tree.content
  BY <1>1, <1>3, KnownIs
<1> QED BY <1>3, <1>4 DEF CustInv, CustTruth, JournalTrue

-----------------------------------------------------------------------------
(* The parts of MCExecution's instance.                                    *)

\* A step of another part, or none, leaves an invariant alone.
LEMMA AdmStays ==
    ASSUME AdmInv, UNCHANGED reviewVars
    PROVE  AdmInv'
BY DEF reviewVars, AdmInv, ClaimBacked, LaunchKnows, Admit!AdmissionTypeOK, Admit!Deployment, Admit!Candidate,
   Admit!Reference, Admit!Host, Admit!Needed, Admit!Boundary, Admit!VersionedReference,
   Admit!NixosAuthority, Admit!NixosHost, Admit!StaticEvidence

LEMMA MatStays ==
    ASSUME MatInv, UNCHANGED matrixVars
    PROVE  MatInv'
<1> USE DEF matrixVars
<1>1. MatTyped'
  BY DEF MatInv, MatTyped, ReviewTyped, FilesTyped
<1>2. MatState'
  BY DEF MatInv, MatState, Untouched, Unproved, OthersQuiet, ExitKnown, PassedRan, StartedOnce, SettledByLedger, Quiet,
     NoneStarted, AllZero
<1>3. EntriesTrue' /\ ToldTheLedger'
  BY DEF MatInv, EntriesTrue, EntryTrue, ToldTheLedger
<1> QED BY <1>1, <1>2, <1>3 DEF MatInv

\* The inductive invariant behind ExecutionSafe and ExecutionSteps.
Holds ==
    /\ part = "execution" => CustInv
    /\ part = "matrix" => MatInv
    /\ part = "review" => AdmInv

LEMMA Starts == ExecutionInit => Holds
<1> SUFFICES ASSUME ExecutionInit PROVE Holds
  OBVIOUS
<1>1. /\ part = "execution" => Exec!ExecutionInit
      /\ part = "matrix" => Mat!MatrixInit
      /\ part = "review" => Admit!AdmissionInit
  BY DEF ExecutionInit
<1> QED BY <1>1, CustStarts, MatStarts, AdmStarts DEF Holds

\* A step of the instance is a step of its part.
LEMMA PartSteps ==
    ASSUME [ExecutionNext]_executionVars
    PROVE  /\ part' = part
           /\ part = "execution" => Exec!ExecutionNext \/ UNCHANGED custodyVars
           /\ part = "matrix" => Mat!MatrixNext \/ UNCHANGED matrixVars
           /\ part = "review" => Admit!AdmissionNext \/ UNCHANGED reviewVars
BY DEF ExecutionNext, ExecutionStep, MatrixStep, AdmissionStep, ToolsStep, OperationsStep, ActivityStep, executionVars

LEMMA Kept == Holds /\ [ExecutionNext]_executionVars => Holds'
<1> SUFFICES ASSUME Holds, [ExecutionNext]_executionVars PROVE Holds'
  OBVIOUS
<1>1. part = "execution" => CustInv'
  BY PartSteps, CustKept, CustStays DEF Holds
<1>2. part = "matrix" => MatInv'
  BY PartSteps, MatKept, MatStays DEF Holds
<1>3. part = "review" => AdmInv'
  BY PartSteps, AdmKept, AdmStays DEF Holds
<1> QED BY <1>1, <1>2, <1>3, PartSteps DEF Holds

\* An effect belongs to the one agent that journal, lease and slot name, a phase is
\* left with checks of what was committed, a matrix starts on what its runner reread as
\* approved, a passed one ran, once, and the candidate is given up when nothing can
\* write: ExecutionSafe.
THEOREM ExecutionIsSafe == ExecutionSpec => []ExecutionSafe
<1>1. Holds => ExecutionSafe
  BY CustMeans, MatMeans, AdmMeans DEF Holds, ExecutionSafe
<1> QED BY <1>1, Starts, Kept, PTL DEF ExecutionSpec

\* A failed check is cleared only by an answer; a ledger never changes and is what
\* the reviewer is told: ExecutionSteps.
THEOREM ExecutionStepsAreSafe == ExecutionSpec => ExecutionSteps
<1>1. ASSUME Holds, Holds', [ExecutionNext]_executionVars
      PROVE  /\ part = "execution" => Exec!FailureAnswered
             /\ part = "matrix" => Mat!LedgerKept
  <2>1. part = "execution" => Exec!FailureAnswered
    BY <1>1, PartSteps, FailureStays DEF Holds
  <2>2. ASSUME part = "matrix"
        PROVE  Mat!LedgerKept
    <3>1. MatInv /\ MatInv' /\ (Mat!MatrixNext \/ UNCHANGED ledger)
      BY <1>1, <2>2, PartSteps DEF Holds, matrixVars
    <3>2. \A d \in Reviews : ledger[d] # Mat!NoRecord => ledger'[d] = ledger[d]
      BY <3>1, LedgerStays
    <3>3. ToldTheLedger'
      BY <3>1 DEF MatInv
    <3> QED BY <3>2, <3>3 DEF Mat!LedgerKept, ToldTheLedger
  <2> QED BY <2>1, <2>2
<1>2. Holds /\ Holds' /\ [ExecutionNext]_executionVars =>
        [ /\ part = "execution" => Exec!FailureAnswered
          /\ part = "matrix" => Mat!LedgerKept ]_executionVars
  BY <1>1
<1> QED BY <1>2, Starts, Kept, PTL DEF ExecutionSpec, ExecutionSteps
=============================================================================
