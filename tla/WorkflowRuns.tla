----------------------------- MODULE WorkflowRuns -----------------------------
(***************************************************************************)
(* The workflow service: src/packages/pa-core/src/workflows (service.ts,   *)
(* revisions.ts, ticket-owner.ts) over the journal of registry/workflows.ts*)
(* and the pair publication of tickets/paired-publication.ts, for one run. *)
(*                                                                         *)
(* The journal is appended by compare-and-set on its revision and replayed *)
(* at every read: the variable run is what replayWorkflow makes of it.     *)
(* A call of a coordinator reads the run, may wait for the operator, and   *)
(* appends; an effect is announced by an intent, performed by the ticket   *)
(* owner inside the mutex of the ticket store, and settled by a result.    *)
(* The steps of the definition are a chain: the decision on the package,   *)
(* the publication of the pair, the queueing of the ticket, and a step     *)
(* that changes source under the custody of a native owner.                *)
(***************************************************************************)
EXTENDS Integers, FiniteSets

CONSTANTS Requests,    \* calls that may be executing at the same time
          Coordinators,\* deployments that may coordinate the run
          First,       \* the one that admitted it
          MaxSubjects, \* bound on the revisions of the subject
          MaxRevision, \* bound on the length of the journal
          MaxEdits     \* bound on the edits by ordinary ticket writers

NotHeld == "unheld"
\* what the constants must satisfy: the instances assume it
WorkflowAssumption ==
  /\ First \in Coordinators /\ NotHeld \notin Requests
  /\ MaxSubjects \in Nat \ {0} /\ MaxRevision \in Nat \ {0} /\ MaxEdits \in Nat

Steps == {"package", "publication.pair", "ticket.queue", "source"}
Predecessor(step) ==
  CASE step = "publication.pair" -> "package"
    [] step = "ticket.queue" -> "publication.pair"
    [] step = "source" -> "ticket.queue"
    [] OTHER -> "none"
Subjects == 1..MaxSubjects
Choices == {"approved", "rejected", "changes-requested", "cancelled"}
PairRefs == {"requirements", "uat"}
Waiting == [at |-> "none"]

VARIABLES
  run,          \* the replayed journal
  pairFiles,    \* subject -> "absent", "torn", "half" or "exact"
  pairRefs,     \* subject -> references of its pair on the ticket
  pairPrimary,  \* subject whose requirements are primary; 0: none, -1: foreign
  queueState,   \* the ticket: its status, its assignee, and whether the audit
                \* ends in the administrative queue transition
  built,        \* source work was materialized by the native owner
  live,         \* deployments whose process runs
  pairMutex,    \* the call inside the mutex of the ticket store, or NotHeld
  request,      \* the calls in progress
  edits         \* edits by ordinary ticket writers so far

workflowVars == <<run, pairFiles, pairRefs, pairPrimary, queueState, built, live,
                  pairMutex, request, edits>>
ticketState == <<pairFiles, pairRefs, pairPrimary, queueState>>

-----------------------------------------------------------------------------
(* The replayed run *)

Outcome(step) == run.outcomes[run.subject][step]
Resolution == Outcome("package")       \* the latest decision on the subject
IsRevoked == run.subject \in run.revoked
NothingPending == run.pending = "none"

Eligible(step) ==
  /\ Outcome(step) = "none" /\ run.pending # step
  /\ LET before == Predecessor(step) IN
     before # "none" => Outcome(before) = IF before = "package" THEN "approved" ELSE "completed"

RequireDecision == Resolution = "approved" /\ ~IsRevoked

RecoverableCancelled ==
  /\ NothingPending /\ Resolution = "cancelled" /\ ~IsRevoked
  /\ \A step \in Steps \ {"package"} : Outcome(step) = "none"

StructurallyAvailable ==
  /\ NothingPending /\ ~run.queueOnly
  /\ Resolution \in {"approved", "changes-requested"}

AdoptionPurpose ==
  IF ~run.documentOnly /\ RecoverableCancelled THEN "cancelled-review"
  ELSE IF run.pending = "ticket.queue" /\ RequireDecision THEN "queue-reconcile"
  ELSE IF /\ Resolution # "none" /\ ~IsRevoked /\ ~run.queueOnly
          /\ StructurallyAvailable \/ (run.documentOnly /\ RecoverableCancelled)
          /\ Outcome("source") = "none"
       THEN "document-continuation" ELSE "none"

OperationAllowed(step) ==
  \/ ~run.documentOnly
  \/ step = "publication.pair"
  \/ step = "ticket.queue" /\ run.subject # run.documentSubject

IsCaller(d, settlesQueue) ==
  d \in live /\ d = run.coordinator /\ (run.queueOnly => settlesQueue)

\* subjectRevisionReason: whether the next subject may be fresh or an amendment.
MayRevise(fresh) ==
  /\ NothingPending /\ run.subject < MaxSubjects
  /\ \/ Resolution = "changes-requested" /\ (fresh => run.fresh)
     \/ Resolution = "approved" /\ ~fresh
     \/ /\ Resolution = "approved" /\ fresh /\ run.fresh
        /\ StructurallyAvailable /\ ~IsRevoked /\ Outcome("source") = "none"

-----------------------------------------------------------------------------
(* The published pair *)

\* The latest earlier attempt whose publication has an outcome.
Previous == {n \in 1..(run.subject - 1) : run.outcomes[n]["publication.pair"] = "completed"}
PreviousPair == CHOOSE n \in Previous : \A m \in Previous : m <= n
PairThere(n) == pairFiles[n] = "exact" /\ pairRefs[n] = PairRefs

PairConflict ==
  \/ pairFiles[run.subject] = "torn"
  \/ pairPrimary \notin {0, run.subject} \cup (IF Previous = {} THEN {} ELSE {PreviousPair})
  \/ Previous # {} /\ (~PairThere(PreviousPair) \/ pairPrimary = 0)
PairComplete == ~PairConflict /\ PairThere(run.subject) /\ pairPrimary = run.subject
PairAbsent ==
  /\ ~PairConflict /\ ~PairComplete
  /\ Previous # {} => queueState.status \in {"review", "pending", "implementing"}

\* The build of an earlier attempt that was queued may already run.
QueueComplete ==
  /\ queueState.assignee = "builder"
  /\ \/ queueState.status = "pending"
     \/ /\ queueState.status = "implementing" /\ Previous # {}
        /\ run.outcomes[PreviousPair]["ticket.queue"] = "completed"
QueueProven == PairComplete /\ QueueComplete
Queueable ==
  \/ queueState.status = "review"
  \/ queueState.status = "pending" /\ queueState.administrative /\ queueState.assignee = "requirements"

EffectProven(step) ==
  IF step = "publication.pair" THEN PairComplete
  ELSE IF step = "ticket.queue" THEN QueueProven ELSE built

-----------------------------------------------------------------------------
WorkflowInit ==
  /\ run = [revision |-> 1, subject |-> 1, fresh |-> TRUE,
            outcomes |-> [n \in Subjects |-> [step \in Steps |-> "none"]],
            revoked |-> {}, pending |-> "none", coordinator |-> First,
            queueOnly |-> FALSE, documentOnly |-> FALSE, documentSubject |-> 0]
  /\ pairFiles = [n \in Subjects |-> "absent"] /\ pairRefs = [n \in Subjects |-> {}]
  /\ pairPrimary = 0
  /\ queueState = [status |-> "review", assignee |-> "requirements", administrative |-> FALSE]
  /\ built = FALSE /\ live = Coordinators
  /\ pairMutex = NotHeld /\ request = [c \in Requests |-> Waiting] /\ edits = 0

HasRevision == run.revision < MaxRevision
Journal(fields) == run' = [fields EXCEPT !.revision = @ + 1]
End(c) == request' = [request EXCEPT ![c] = Waiting]
world == <<ticketState, built, live, edits>>

\* decide, recoverCancelled, revoke and adoptCoordinator: what each requires
\* before the operator is asked and again, on the same revision, after.
MayAskAnyone(d, what) ==
  CASE what = "decide" -> IsCaller(d, FALSE) /\ Eligible("package")
    [] what = "recover" -> IsCaller(d, FALSE) /\ RecoverableCancelled
    [] what = "revoke" -> IsCaller(d, FALSE) /\ Resolution # "none" /\ ~IsRevoked
    [] what = "adopt" -> d \in live /\ d # run.coordinator /\ AdoptionPurpose # "none"
MayAsk(d, what) ==
  MayAskAnyone(d, what) /\ (what = "adopt" => run.coordinator \notin live)

AskOperator(c, d, what) ==
  /\ request[c] = Waiting /\ MayAsk(d, what)
  /\ request' = [request EXCEPT ![c] = [at |-> "asked", by |-> d, what |-> what, revision |-> run.revision]]
  /\ UNCHANGED <<run, world, pairMutex>>

Adopted(d) ==
  [run EXCEPT !.coordinator = d,
              !.queueOnly = (AdoptionPurpose = "queue-reconcile"),
              !.documentOnly = (AdoptionPurpose = "document-continuation"),
              !.documentSubject = IF AdoptionPurpose = "document-continuation" THEN run.subject ELSE 0]
Decided(choice) == [run EXCEPT !.outcomes[run.subject]["package"] = choice]

\* Each answer is appended only on the revision that was read before the wait.
Reply(c, choice) ==
  LET r == request[c] IN
  /\ r.at = "asked" /\ r.revision = run.revision /\ MayAsk(r.by, r.what) /\ HasRevision
  /\ CASE r.what \in {"decide", "recover"} -> Journal(Decided(choice))
       [] r.what = "revoke" -> choice = "approved" /\ Journal([run EXCEPT !.revoked = @ \cup {run.subject}])
       [] r.what = "adopt" -> choice = "approved" /\ Journal(Adopted(r.by))
  /\ End(c)
  /\ UNCHANGED <<world, pairMutex>>

\* A refusal, a changed journal or a changed caller ends the call.
Abandon(c) ==
  /\ request[c].at \in {"asked", "observe", "settle"} /\ End(c)
  /\ UNCHANGED <<run, world, pairMutex>>

\* A linked attempt in the same run: outcomes start anew.
Revise(d, fresh) ==
  /\ IsCaller(d, FALSE) /\ HasRevision /\ MayRevise(fresh)
  /\ fresh => ~built          \* the native proof that nothing was materialized
  /\ Journal([run EXCEPT !.subject = @ + 1, !.fresh = fresh])
  /\ UNCHANGED <<world, pairMutex, request>>

RequestStep(c, d, step) ==
  /\ request[c] = Waiting /\ step # "package" /\ IsCaller(d, FALSE) /\ HasRevision
  /\ Eligible(step) /\ OperationAllowed(step) /\ RequireDecision
  /\ Journal([run EXCEPT !.pending = step])
  /\ request' = [request EXCEPT ![c] = [at |-> "observe", by |-> d, step |-> step, subject |-> run.subject]]
  /\ UNCHANGED <<world, pairMutex>>

ReconcileStep(c, d) ==
  /\ request[c] = Waiting /\ ~NothingPending /\ HasRevision
  /\ IsCaller(d, run.pending = "ticket.queue") /\ OperationAllowed(run.pending)
  /\ Journal(run)
  /\ request' = [request EXCEPT ![c] = [at |-> "observe", by |-> d, step |-> run.pending, subject |-> run.subject]]
  /\ UNCHANGED <<world, pairMutex>>

-----------------------------------------------------------------------------
(* perform: observe, execute only what is absent, settle what is proven *)

IntentOf(c) == run.pending = request[c].step /\ run.subject = request[c].subject
Authority(c) ==
  LET step == request[c].step IN
  IsCaller(request[c].by, step = "ticket.queue") /\ OperationAllowed(step) /\ RequireDecision /\ IntentOf(c)

At(c, place) == request' = [request EXCEPT ![c].at = place]

ObserveEffect(c) ==
  /\ request[c].at = "observe" /\ IntentOf(c) /\ EffectProven(request[c].step)
  /\ At(c, "settle")
  /\ UNCHANGED <<run, world, pairMutex>>

EnterExecuteUnlocked(c) ==
  LET r == request[c] IN
  /\ r.at = "observe" /\ r.step # "source" /\ Authority(c) /\ ~EffectProven(r.step)
  /\ ~PairConflict /\ (r.step = "ticket.queue" => PairComplete)
  /\ pairMutex' = c /\ At(c, "execute")
  /\ UNCHANGED <<run, world>>
EnterExecute(c) == pairMutex = NotHeld /\ EnterExecuteUnlocked(c)

\* Before each write the authority is read again from the journal, and the
\* ticket and the files are observed again.
AuthorizeWrite(c) ==
  LET r == request[c] IN
  /\ r.at = "execute" /\ Authority(c)
  /\ IF r.step = "publication.pair" THEN PairAbsent ELSE PairComplete /\ Queueable
  /\ At(c, "write")
  /\ UNCHANGED <<run, world, pairMutex>>

CreatePairFile(c) ==
  /\ request[c].at = "write" /\ request[c].step = "publication.pair"
  /\ pairFiles[request[c].subject] \in {"absent", "half"}
  /\ pairFiles' = [pairFiles EXCEPT ![request[c].subject] = "torn"]
  /\ request' = [request EXCEPT ![c].at = IF pairFiles[request[c].subject] = "absent" THEN "first" ELSE "second"]
  /\ UNCHANGED <<run, pairRefs, pairPrimary, queueState, built, live, pairMutex, edits>>

FillPairFile(c) ==
  /\ request[c].at \in {"first", "second"}
  /\ pairFiles' = [pairFiles EXCEPT ![request[c].subject] = IF request[c].at = "first" THEN "half" ELSE "exact"]
  /\ At(c, "execute")
  /\ UNCHANGED <<run, pairRefs, pairPrimary, queueState, built, live, pairMutex, edits>>

\* Without a predecessor the requirements are primary as they are attached;
\* with one, the promotion is a write of its own after both references.
AttachPair(c) ==
  LET n == request[c].subject
      ref == IF "requirements" \notin pairRefs[n] THEN "requirements" ELSE "uat"
  IN
  /\ request[c].at = "write" /\ request[c].step = "publication.pair"
  /\ pairFiles[n] = "exact" /\ pairRefs[n] # PairRefs
  /\ pairRefs' = [pairRefs EXCEPT ![n] = @ \cup {ref}]
  /\ pairPrimary' = IF Previous = {} /\ ref = "requirements" THEN n ELSE pairPrimary
  /\ At(c, "execute")
  /\ UNCHANGED <<run, pairFiles, queueState, built, live, pairMutex, edits>>

PromotePair(c) ==
  LET n == request[c].subject IN
  /\ request[c].at = "write" /\ request[c].step = "publication.pair"
  /\ PairThere(n) /\ Previous # {} /\ pairPrimary = PreviousPair
  /\ pairPrimary' = n /\ At(c, "execute")
  /\ UNCHANGED <<run, pairFiles, pairRefs, queueState, built, live, pairMutex, edits>>

QueueForBuilder(c) ==
  /\ request[c].at = "write" /\ request[c].step = "ticket.queue"
  /\ queueState' = [status |-> "pending", assignee |-> "builder", administrative |-> FALSE]
  /\ At(c, "execute")
  /\ UNCHANGED <<run, pairFiles, pairRefs, pairPrimary, built, live, pairMutex, edits>>

\* execute ends: the effect is there, or a check failed and the intent stays.
LeaveExecute(c) ==
  LET r == request[c] IN
  /\ \/ r.at = "execute" /\ IntentOf(c) /\ EffectProven(r.step) /\ At(c, "settle")
     \/ r.at \in {"execute", "write"} /\ End(c)
  /\ pairMutex' = NotHeld
  /\ UNCHANGED <<run, world>>

\* verify, then the result, if the intent is still pending.
SettleEffect(c) ==
  LET r == request[c] IN
  /\ r.at = "settle" /\ IsCaller(r.by, r.step = "ticket.queue") /\ IntentOf(c)
  /\ EffectProven(r.step) /\ HasRevision
  /\ Journal([run EXCEPT !.pending = "none", !.outcomes[run.subject][r.step] = "completed"])
  /\ End(c)
  /\ UNCHANGED <<world, pairMutex>>

-----------------------------------------------------------------------------
(* The native owner of the source step, other writers, dying deployments *)

NativeBuild ==
  /\ run.pending = "source" /\ ~built /\ built' = TRUE
  /\ UNCHANGED <<run, ticketState, live, pairMutex, request, edits>>

EditTicketAnytime ==
  /\ edits < MaxEdits /\ edits' = edits + 1
  /\ \/ /\ \/ queueState.status = "review" /\ queueState' = [queueState EXCEPT !.status = "pending", !.administrative = TRUE]
           \/ queueState' = [queueState EXCEPT !.status = "implementing", !.administrative = FALSE]
           \/ queueState' = [queueState EXCEPT !.assignee = "other", !.administrative = FALSE]
        /\ UNCHANGED <<pairRefs, pairPrimary>>
     \/ /\ \E n \in Subjects, ref \in PairRefs :
             /\ ref \in pairRefs[n] /\ pairRefs' = [pairRefs EXCEPT ![n] = @ \ {ref}]
             /\ pairPrimary' = IF pairPrimary = n /\ ref = "requirements" THEN 0 ELSE pairPrimary
        /\ UNCHANGED queueState
     \/ pairPrimary' = -1 /\ UNCHANGED <<pairRefs, queueState>>
  /\ UNCHANGED <<run, pairFiles, built, live, pairMutex, request>>
EditTicket == pairMutex = NotHeld /\ EditTicketAnytime

CallsOf(d) == {c \in Requests : request[c] # Waiting /\ request[c].by = d}
DeploymentDies(d) ==
  /\ d \in live /\ live' = live \ {d}
  /\ request' = [c \in Requests |-> IF c \in CallsOf(d) THEN Waiting ELSE request[c]]
  /\ pairMutex' = IF pairMutex \in CallsOf(d) THEN NotHeld ELSE pairMutex
  /\ UNCHANGED <<run, ticketState, built, edits>>

WorkflowRequest(c) ==
  \/ \E d \in Coordinators :
       \/ \E what \in {"decide", "recover", "revoke", "adopt"} : AskOperator(c, d, what)
       \/ \E step \in Steps : RequestStep(c, d, step)
       \/ ReconcileStep(c, d)
  \/ \E choice \in Choices : Reply(c, choice)
  \/ Abandon(c) \/ ObserveEffect(c) \/ EnterExecute(c) \/ AuthorizeWrite(c)
  \/ CreatePairFile(c) \/ FillPairFile(c) \/ AttachPair(c) \/ PromotePair(c)
  \/ QueueForBuilder(c) \/ LeaveExecute(c) \/ SettleEffect(c)

WorkflowNext ==
  \/ \E c \in Requests : WorkflowRequest(c)
  \/ \E d \in Coordinators : DeploymentDies(d) \/ \E fresh \in BOOLEAN : Revise(d, fresh)
  \/ NativeBuild \/ EditTicket

WorkflowSpec == WorkflowInit /\ [][WorkflowNext]_workflowVars

-----------------------------------------------------------------------------
(* Properties *)

\* The values the variables take.
WorkflowTypeOK ==
  /\ run.revision \in 1..MaxRevision /\ run.subject \in Subjects
  /\ run.outcomes \in [Subjects -> [Steps -> Choices \cup {"none", "completed"}]]
  /\ run.revoked \subseteq Subjects /\ run.pending \in Steps \cup {"none"}
  /\ run.coordinator \in Coordinators
  /\ pairFiles \in [Subjects -> {"absent", "torn", "half", "exact"}]
  /\ pairRefs \in [Subjects -> SUBSET PairRefs] /\ pairPrimary \in Subjects \cup {0, -1}
  /\ live \subseteq Coordinators /\ pairMutex \in Requests \cup {NotHeld}

\* Two deployments never perform effects of one run: whoever writes or settles
\* is the coordinator of the journal, although coordination passes to another
\* deployment in the middle of an effect (adoptCoordinator's inactive proof).
LoneCoordinator ==
  \A c \in Requests :
    request[c].at \in {"execute", "write", "first", "second", "settle"}
      => request[c].by = run.coordinator

\* A write belongs to the intent that is pending and to the subject the run is
\* on: no other call settles the intent or revises the subject under it.
SubjectCurrent ==
  \A c \in Requests : request[c].at \in {"write", "first", "second"} => IntentOf(c)

\* Nothing of a subject is written before the operator approved that subject.
PublishedApproved ==
  \A n \in Subjects :
    (pairFiles[n] # "absent" \/ pairRefs[n] # {}) => run.outcomes[n]["package"] = "approved"

\* A coordinator adopted to continue the documents never has a source step in
\* hand, nor the queueing of the package it adopted.
DocumentSuccessor ==
  run.documentOnly =>
    /\ run.pending # "source"
    /\ run.pending = "ticket.queue" => run.subject # run.documentSubject
=============================================================================
