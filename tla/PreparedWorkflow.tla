---------------------------- MODULE PreparedWorkflow ----------------------------
(***************************************************************************)
(* One optional preparation of a ticket: the journaled transaction engine  *)
(* (pa-core/src/deploy/prepared-workflow.ts), the resources it reserves    *)
(* and the tool of the analyst's session that drives it                    *)
(* (pi-pa/src/pi-extension/prepared-workflow.ts), the native policy it     *)
(* runs under (pi-pa/src/prepared-native.ts) and the builder launch that   *)
(* takes what was prepared (pi-pa/src/deploy.ts).                          *)
(*                                                                         *)
(* The engine runs under the repository's capacity mutex, each effect      *)
(* between a durable "started" record and a durable outcome.  A process    *)
(* may die at any point; a record whose publication dies between link and  *)
(* unlink has two links and makes the operation unreadable for ever.       *)
(***************************************************************************)
EXTENDS Naturals, Sequences, FiniteSets

CONSTANTS Analysts,    \* foreground requirements sessions of the ticket
          Builders,    \* builder launches of the ticket
          NoOne,
          Permits,     \* ticket permits of the repository
          MaxAttempts, \* 32 in the code
          MaxLeases,   \* bound on the checkouts the pool hands out
          MaxOperator, \* bound on the steps of the operator and of other tickets
          MaxCrashes   \* bound on the processes that die

\* what the constants must satisfy: the instances assume it
PreparedAssumption ==
  /\ Analysts \cap Builders = {} /\ NoOne \notin Analysts \cup Builders
  /\ Permits \in Nat \ {0} /\ MaxAttempts \in Nat \ {0}
  /\ MaxLeases \in Nat /\ MaxOperator \in Nat /\ MaxCrashes \in Nat

Callers == Analysts \cup Builders
Actions == <<"reservation", "allocation", "branch", "reread", "ready", "consume">>
Effects == {"reservation", "allocation", "branch", "ready", "consume"}
Failures == {"none", "reservation", "allocation", "retained"}

VARIABLES
  policy,   \* the operator's activation: "none", "active" or "revoked"
  granted,  \* the operator bound the promoted documents to it
  current,  \* the promoted documents still read as they were bound
  journal,  \* the durable records of the operation, replayed
  torn,     \* one of them has two links
  owner,    \* holder of the capacity mutex, or NoOne
  call,     \* the call of each process
  slot,     \* the ticket's row among the capacity reservations
  rivals,   \* permits other tickets hold
  lease,    \* the checkout leased to the ticket, 0 for none
  leases,   \* checkouts handed out
  roomy,    \* the pool has a free checkout
  branch,   \* the ticket's branch is materialised in the checkout
  exact,    \* the checkout is clean and at the recorded head
  consents, \* retry records the operator confirmed
  admitted, \* builder launches that went on with the prepared checkout
  operated, crashed

preparedVars == <<policy, granted, current, journal, torn, owner, call, slot, rivals, lease,
                  leases, roomy, branch, exact, consents, admitted, operated, crashed>>
native == <<policy, granted, current>>
resources == <<slot, lease, leases, branch>>
outside == <<rivals, roomy, exact, operated, crashed>>

NoConsent == [attempt |-> 0, failure |-> "none"]
Resting == [at |-> "idle", op |-> "none", seen |-> NoConsent]
NotRequested == [state |-> "not-requested", attempt |-> 0, pending |-> "none", done |-> 0, lease |-> 0,
                 receipt |-> 0, consumer |-> NoOne, failure |-> "none"]
Free == [occupancy |-> "none", receipt |-> 0, lineage |-> NoOne]

PreparedInit ==
  /\ policy = "none" /\ granted = FALSE /\ current = TRUE
  /\ journal = NotRequested /\ torn = FALSE /\ owner = NoOne
  /\ call = [p \in Callers |-> Resting]
  /\ slot = Free /\ rivals = 0 /\ lease = 0 /\ leases = 0 /\ roomy = TRUE
  /\ branch = FALSE /\ exact = TRUE
  /\ consents = {} /\ admitted = {} /\ operated = 0 /\ crashed = 0

-----------------------------------------------------------------------------
(* The journal *)

\* PREPARATION_ACTIONS: the first without a result
NextAction == IF journal.done = Len(Actions) THEN "none" ELSE Actions[journal.done + 1]

\* #read: every record of the operation has one link
ReadTwoLinks == TRUE
Readable == ~torn

\* status never tells readiness or failure while an outcome is pending
Status == IF journal.pending # "none" THEN "uncertain-blocked" ELSE journal.state
Failed(state) == state \in {"not-ready-capacity", "not-ready-failed"}

\* applyPreparationEvent, one operator per kind of event
Started(a, by) ==
  [journal EXCEPT !.pending = a, !.consumer = by, !.receipt = IF a = "ready" THEN lease ELSE @]
Observed(a) ==
  [journal EXCEPT !.pending = "none", !.done = @ + 1, !.lease = IF a = "allocation" THEN lease ELSE @,
                  !.state = CASE a = "ready" -> "ready" [] a = "consume" -> "consumed" [] OTHER -> "preparing"]
FailedBy(kind, what) ==
  [journal EXCEPT !.pending = "none", !.failure = what,
                  !.state = IF kind = "capacity" THEN "not-ready-capacity" ELSE "uncertain-blocked"]
Retried == [journal EXCEPT !.attempt = @ + 1, !.state = "preparing"]

\* The caller dies: its mutex is released, a launch does not come back.
Dies(p) ==
  /\ call' = [call EXCEPT ![p] = IF p \in Builders THEN [Resting EXCEPT !.at = "dead"] ELSE Resting]
  /\ owner' = IF owner = p THEN NoOne ELSE owner
  /\ crashed' = crashed + 1
Moves(p, at) == call' = [call EXCEPT ![p].at = at]
\* The call returns or throws.
Leaves(p) ==
  /\ call' = [call EXCEPT ![p] = IF p \in Builders THEN [@ EXCEPT !.at = "gone"] ELSE Resting]
  /\ owner' = IF owner = p THEN NoOne ELSE owner

\* publish: linked and unlinked, or dead in between
Publish(p, record, at) ==
  /\ journal' = record
  /\ \/ Moves(p, at) /\ UNCHANGED <<torn, owner, crashed>>
     \/ crashed < MaxCrashes /\ torn' = TRUE /\ Dies(p)

-----------------------------------------------------------------------------
(* The native policy and the operator's dialogs *)

\* assertCurrent: the grant resolves, from an active policy and its sources
Current == policy = "active" /\ granted /\ current
Operated == operated < MaxOperator /\ operated' = operated + 1

\* activate: no policy that was revoked is activated again
Activate == policy = "none" /\ policy' = "active" /\ UNCHANGED <<granted, current, operated>>
Bind == policy = "active" /\ current /\ ~granted /\ granted' = TRUE /\ UNCHANGED <<policy, current, operated>>
Deactivate == policy = "active" /\ Operated /\ policy' = "revoked" /\ UNCHANGED <<granted, current>>
\* a promoted document, an approval or the ticket changed, or is put back
Amend == Operated /\ current' = ~current /\ UNCHANGED <<policy, granted>>

OperatorDecides ==
  /\ Activate \/ Bind \/ Deactivate \/ Amend
  /\ UNCHANGED <<journal, torn, owner, call, resources, rivals, roomy, exact, crashed, consents, admitted>>

\* request, authorised before the mutex is taken
AskRequest(s) ==
  /\ call[s].at = "idle" /\ Current
  /\ call' = [call EXCEPT ![s] = [Resting EXCEPT !.at = "authorized", !.op = "request"]]
  /\ UNCHANGED <<native, journal, torn, owner, resources, outside, consents, admitted>>

\* retry opens the operator's dialog on the failure it reads
OpenRetry(s) ==
  /\ call[s].at = "idle" /\ Current /\ Readable /\ Failed(Status)
  /\ call' = [call EXCEPT ![s] = [at |-> "asking", op |-> "retry",
                                  seen |-> [attempt |-> journal.attempt, failure |-> journal.failure]]]
  /\ UNCHANGED <<native, journal, torn, owner, resources, outside, consents, admitted>>

SameFailure(s) ==
  /\ Current /\ Readable /\ Failed(Status)
  /\ call[s].seen = [attempt |-> journal.attempt, failure |-> journal.failure]

\* the dialog is answered: everything is read again, the record published
ConfirmRetry(s) ==
  /\ call[s].at = "asking" /\ owner = NoOne /\ SameFailure(s)
  /\ consents' = consents \cup {call[s].seen}
  /\ Moves(s, "authorized")
  /\ UNCHANGED <<native, journal, torn, owner, resources, outside, admitted>>
DeclineRetry(s) ==
  /\ call[s].at = "asking" /\ Leaves(s)
  /\ UNCHANGED <<native, journal, torn, resources, outside, consents, admitted>>

\* a builder launch that finds the preparation ready records itself as consumer
SelectReady(b) ==
  /\ call[b].at = "idle" /\ Current /\ Readable /\ Status = "ready"
  /\ call' = [call EXCEPT ![b] = [Resting EXCEPT !.at = "authorized", !.op = "consume"]]
  /\ UNCHANGED <<native, journal, torn, owner, resources, outside, consents, admitted>>

-----------------------------------------------------------------------------
(* PreparedWorkflowService.#run, under the mutex *)

\* the recheck of a retry against the attempt it was confirmed for
RetryAny(p) == call[p].seen.attempt > 0
RetryFits(p) ==
  /\ call[p].seen.attempt = journal.attempt /\ call[p].seen.failure = journal.failure
RetryAllowed(p) ==
  /\ journal.attempt > 0 /\ RetryFits(p)
  /\ journal.pending = "none" /\ Failed(journal.state) /\ journal.attempt < MaxAttempts
\* the receipt goes to one consumer, which may ask again
MayConsume(p) ==
  /\ journal.state = "ready" /\ (journal.pending = "consume" => journal.consumer = p)

Enter(p) ==
  /\ call[p].at = "authorized" /\ owner = NoOne
  /\ \/ ~Readable /\ Leaves(p) /\ UNCHANGED <<journal, torn, crashed>>
     \/ /\ Readable /\ owner' = p /\ call[p].op = "request" /\ journal.attempt = 0
        /\ journal' = [NotRequested EXCEPT !.state = "preparing", !.attempt = 1]
        /\ Moves(p, "running") /\ UNCHANGED <<torn, crashed>>
     \/ /\ Readable /\ call[p].op = "request" /\ journal.attempt > 0
        /\ IF journal.state = "preparing" THEN Moves(p, "running") /\ owner' = p ELSE Leaves(p)
        /\ UNCHANGED <<journal, torn, crashed>>
     \/ /\ Readable /\ call[p].op = "retry"
        /\ IF RetryAllowed(p)
           THEN journal' = Retried /\ owner' = p /\ Moves(p, "running")
           ELSE Leaves(p) /\ UNCHANGED journal
        /\ UNCHANGED <<torn, crashed>>
     \/ /\ Readable /\ call[p].op = "consume"
        /\ IF journal.state = "consumed" /\ journal.consumer = p
           THEN Moves(p, "consumed") /\ UNCHANGED owner
           ELSE IF MayConsume(p) THEN Moves(p, "running") /\ owner' = p ELSE Leaves(p)
        /\ UNCHANGED <<journal, torn, crashed>>
  /\ UNCHANGED <<native, resources, rivals, roomy, exact, operated, consents, admitted>>

\* the publication of the intent or of the retry dies half way
EnterTorn(p) ==
  /\ call[p].at = "authorized" /\ owner = NoOne /\ Readable /\ crashed < MaxCrashes
  /\ \/ call[p].op = "request" /\ journal.attempt = 0
     \/ call[p].op = "retry" /\ RetryAllowed(p)
  /\ torn' = TRUE /\ Dies(p)
  /\ UNCHANGED <<native, journal, resources, rivals, roomy, exact, operated, consents, admitted>>

Running(p) == owner = p /\ call[p].at = "running"

\* nothing is left to do for this operation
Finished(p) ==
  /\ Running(p) /\ journal.pending = "none"
  /\ NextAction = "consume" => call[p].op # "consume"
  /\ NextAction \in {"none", "consume"}
  /\ IF call[p].op = "consume"
     THEN Moves(p, "consumed") /\ owner' = NoOne
     ELSE Leaves(p)
  /\ UNCHANGED <<native, journal, torn, resources, outside, consents, admitted>>

\* verifyCompletedResources: the records name the resources that are there
Verified == lease # 0 /\ lease = journal.lease /\ branch /\ exact

Start(p) ==
  /\ Running(p) /\ journal.pending = "none" /\ NextAction # "none"
  /\ NextAction = "consume" => call[p].op = "consume"
  /\ NextAction = "ready" => Current /\ Verified
  /\ Publish(p, Started(NextAction, IF NextAction = "consume" THEN p ELSE NoOne), "running")
  /\ UNCHANGED <<native, resources, rivals, roomy, exact, operated, consents, admitted>>

\* inspect: "absent", "observed", "capacity", "uncertain", or "throws"
Inspect(a) ==
  CASE ~Current -> "throws"
    [] Current /\ a = "reservation" ->
         IF slot.occupancy = "none" THEN (IF rivals = Permits THEN "capacity" ELSE "absent")
         ELSE IF slot.occupancy = "preparing" THEN "observed" ELSE "uncertain"
    [] Current /\ a = "allocation" ->
         IF lease # 0 THEN "observed" ELSE IF roomy THEN "absent" ELSE "capacity"
    [] Current /\ a = "branch" ->
         IF lease = 0 \/ ~exact THEN "throws" ELSE IF branch THEN "observed" ELSE "absent"
    [] Current /\ a = "reread" -> IF lease # 0 /\ branch /\ exact THEN "observed" ELSE "throws"
    [] Current /\ a = "ready" ->
         IF ~Verified \/ journal.receipt # lease THEN "throws"
         ELSE IF slot.occupancy = "preparing" THEN "absent"
         ELSE IF slot.occupancy = "idle-ready" /\ slot.receipt = journal.receipt THEN "observed" ELSE "throws"
    [] Current /\ a = "consume" ->
         IF ~Verified \/ journal.receipt # lease THEN "throws"
         ELSE IF slot.occupancy = "idle-ready" /\ slot.receipt = journal.receipt THEN "absent"
         ELSE IF slot.occupancy = "active" /\ slot.lineage = journal.consumer THEN "observed" ELSE "throws"

\* perform: what each action does to the resources, the way it succeeds
Performs(a) ==
  CASE a = "reservation" -> slot' = [Free EXCEPT !.occupancy = "preparing"] /\ UNCHANGED <<lease, leases, branch>>
    [] a = "allocation" -> /\ leases < MaxLeases /\ leases' = leases + 1 /\ lease' = leases + 1
                           /\ branch' = FALSE /\ UNCHANGED slot
    [] a = "branch" -> branch' = TRUE /\ UNCHANGED <<slot, lease, leases>>
    [] a = "ready" -> /\ slot' = [occupancy |-> "idle-ready", receipt |-> journal.receipt, lineage |-> NoOne]
                      /\ UNCHANGED <<lease, leases, branch>>
    [] a = "consume" -> /\ slot' = [slot EXCEPT !.occupancy = "active", !.lineage = journal.consumer]
                        /\ UNCHANGED <<lease, leases, branch>>

\* The effect is absent and is made; the port may throw before it or after it.
Perform(p, made, throws) ==
  /\ Running(p) /\ journal.pending # "none" /\ Inspect(journal.pending) = "absent"
  /\ ~throws => made
  /\ IF made THEN Performs(journal.pending) ELSE UNCHANGED resources
  /\ IF throws THEN Leaves(p) ELSE Moves(p, "performed") /\ UNCHANGED owner
  /\ UNCHANGED <<native, journal, torn, outside, consents, admitted>>

\* The outcome, performed or found, is appended; only "observed" goes on.
Conclude(p) ==
  LET a == journal.pending
      outcome == IF call[p].at = "performed" THEN "observed" ELSE Inspect(a) IN
  /\ owner = p /\ call[p].at \in {"running", "performed"} /\ a # "none"
  /\ outcome \in {"observed", "capacity", "uncertain"}
  /\ IF outcome = "observed"
     THEN Publish(p, Observed(a), "running")
     ELSE Publish(p, FailedBy(outcome, IF outcome = "capacity" THEN a ELSE "retained"), "stopped")
  /\ UNCHANGED <<native, resources, rivals, roomy, exact, operated, consents, admitted>>

\* The call ends after a failure, or because a port threw: the outcome stays pending.
Stop(p) ==
  /\ owner = p
  /\ \/ call[p].at = "stopped"
     \/ call[p].at = "running" /\ journal.pending # "none" /\ Inspect(journal.pending) = "throws"
     \/ call[p].at = "running" /\ journal.pending = "none" /\ NextAction = "ready" /\ ~(Current /\ Verified)
  /\ Leaves(p)
  /\ UNCHANGED <<native, journal, torn, resources, outside, consents, admitted>>

\* the launch rereads what it consumed and goes on with it
Admissible(b) == Current /\ Verified /\ slot.occupancy = "active" /\ slot.lineage = b
AdmitPrepared(b) ==
  /\ call[b].at = "consumed" /\ Leaves(b)
  /\ admitted' = IF Admissible(b) THEN admitted \cup {b} ELSE admitted
  /\ UNCHANGED <<native, journal, torn, resources, outside, consents>>

-----------------------------------------------------------------------------
(* Everyone else *)

Crash(p) ==
  /\ call[p].at \notin {"idle", "dead", "gone"} /\ crashed < MaxCrashes /\ Dies(p)
  /\ UNCHANGED <<native, journal, torn, resources, rivals, roomy, exact, operated, consents, admitted>>

\* other tickets take and free permits under the mutex, checkouts without it
OthersMove ==
  /\ Operated
  /\ \/ owner = NoOne /\ rivals' \in {rivals + 1, rivals - 1} \cap 0..(Permits - (IF slot = Free THEN 0 ELSE 1))
        /\ UNCHANGED <<roomy, exact, lease>>
     \/ roomy' = ~roomy /\ UNCHANGED <<rivals, exact, lease>>
     \/ lease # 0 /\ exact' = ~exact /\ UNCHANGED <<rivals, roomy, lease>>
     \/ lease # 0 /\ lease' = 0 /\ exact' = TRUE /\ UNCHANGED <<rivals, roomy>>
  /\ UNCHANGED <<native, journal, torn, owner, call, slot, leases, branch, crashed, consents, admitted>>

PreparedNext ==
  \/ OperatorDecides \/ OthersMove
  \/ \E s \in Analysts : AskRequest(s) \/ OpenRetry(s) \/ ConfirmRetry(s) \/ DeclineRetry(s)
  \/ \E b \in Builders : SelectReady(b) \/ AdmitPrepared(b)
  \/ \E p \in Callers : \/ Enter(p) \/ EnterTorn(p) \/ Finished(p) \/ Start(p) \/ Conclude(p) \/ Stop(p) \/ Crash(p)
                        \/ \E made, throws \in BOOLEAN : Perform(p, made, throws)

PreparedSpec == PreparedInit /\ [][PreparedNext]_preparedVars

-----------------------------------------------------------------------------
(* What must hold *)

\* Every variable has its type; the mutex is held by a process that runs.
PreparedTypeOK ==
  /\ policy \in {"none", "active", "revoked"} /\ granted \in BOOLEAN /\ current \in BOOLEAN
  /\ journal \in [state : {"not-requested", "preparing", "ready", "consumed", "not-ready-capacity", "uncertain-blocked"},
                  attempt : 0..MaxAttempts, pending : {"none", "reread"} \cup Effects, done : 0..Len(Actions),
                  lease : 0..MaxLeases, receipt : 0..MaxLeases, consumer : {NoOne} \cup Builders, failure : Failures]
  /\ torn \in BOOLEAN /\ owner \in {NoOne} \cup Callers
  /\ call \in [Callers -> [at : {"idle", "asking", "authorized", "running", "performed", "stopped", "consumed", "gone", "dead"},
                           op : {"none", "request", "retry", "consume"},
                           seen : [attempt : 0..MaxAttempts, failure : Failures]]]
  /\ slot \in [occupancy : {"none", "preparing", "idle-ready", "active"}, receipt : 0..MaxLeases, lineage : {NoOne} \cup Builders]
  /\ rivals \in 0..Permits /\ lease \in 0..MaxLeases /\ leases \in 0..MaxLeases
  /\ roomy \in BOOLEAN /\ branch \in BOOLEAN /\ exact \in BOOLEAN
  /\ admitted \subseteq Builders /\ operated \in 0..MaxOperator /\ crashed \in 0..MaxCrashes
  /\ owner # NoOne => call[owner].at \in {"running", "performed", "stopped"}

\* The journal and the capacity row never disagree about who may build: what
\* status calls ready is a row nobody took, what it calls consumed is the row of
\* exactly the recorded consumer, and an active row is never reported as ready,
\* although any process may die between an effect and its record
\* (PreparedWorkflowService.status, inspect, perform).
JournalMatchesRow ==
  /\ Status = "ready" => slot = [occupancy |-> "idle-ready", receipt |-> journal.receipt, lineage |-> NoOne]
  /\ Status = "consumed" => slot.occupancy = "active" /\ slot.lineage = journal.consumer
  /\ slot.occupancy = "active" => journal.consumer = slot.lineage
  /\ journal.done > 0 => slot # Free
  /\ admitted \subseteq {slot.lineage}

\* Each attempt beyond the first was confirmed by the operator for the failure
\* of the attempt before it: dialogs opened by two sessions on one failure give
\* one retry, and no consent is spent on a failure the operator never saw
\* (the recheck of the native retry under the repository lock).
RetriesConfirmed == \A n \in 1..(journal.attempt - 1) : \E c \in consents : c.attempt = n

\* No resource changes hands once the policy was revoked, the sources moved or a
\* record of the operation became unreadable, whatever was authorised before:
\* the bindings are asserted again at every effect (assertContext, #read).
EffectsAuthorized ==
  slot' # slot \/ leases' # leases \/ branch' # branch => Current /\ ~torn
=============================================================================
