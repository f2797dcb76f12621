-------------------------- MODULE DocumentPackages --------------------------
(***************************************************************************)
(* Requirements document packages: src/packages/pa-core/src/documents with *)
(* the journal of registry/documents.ts and the publication of             *)
(* tickets/package-publication.ts, for one ticket.                         *)
(*                                                                         *)
(* A package is frozen (its bytes are snapshotted), decided by an operator *)
(* (approved or not), published (files, then references, then the primary  *)
(* mark) and queued.  Publishing and queueing record an intent before the  *)
(* effect and a result after it, all inside the mutex of the ticket store; *)
(* the journal is appended by compare-and-set on its length, which a       *)
(* freeze does without that mutex.  A session may die at any step.         *)
(***************************************************************************)
EXTENDS Integers, Sequences, FiniteSets

CONSTANTS Sessions,      \* sessions that may call the document tool
          Foreground,    \* those whose operator can be asked
          Packages,      \* packages of the ticket
          NoPackage,     \* no predecessor
          PredecessorOf, \* package -> package it succeeds, or NoPackage
          Published,     \* packages published before the history begins
          MaxEvents,     \* bound on the rows added to the journal
          MaxTouches     \* bound on the edits by ordinary ticket writers

\* what the constants must satisfy: the instances assume it
DocumentsAssumption ==
  /\ NoPackage \notin Packages
  /\ PredecessorOf \in [Packages -> Packages \cup {NoPackage}]
  /\ \A p \in Packages : PredecessorOf[p] # p
  /\ Published \subseteq Packages /\ Cardinality(Published) <= 1
  /\ Foreground \subseteq Sessions
  /\ "free" \notin Sessions
  /\ MaxEvents \in Nat /\ MaxTouches \in Nat

Members == {"requirements", "uat"}      \* the brief is published like "uat"
Effects == {"publish", "queue"}
Free == "free"

VARIABLES
  journal,    \* the ticket's rows of document_events, in order
  sources,    \* package -> its draft bytes are those it declares
  files,      \* package -> member -> published file: absent, torn or exact
  refs,       \* package -> members referenced by the ticket
  primary,    \* the primary reference: a package, "foreign" or NoPackage
  status,     \* the ticket's status
  assignee,   \* the ticket's assignee
  reserved,   \* a workflow or a launch holds the ticket
  mutex,      \* the session inside the ticket store's mutex, or Free
  call,       \* session -> the call it is executing
  touches     \* edits by ordinary ticket writers so far

documentVars == <<journal, sources, files, refs, primary, status, assignee,
                  reserved, mutex, call, touches>>

Idle == [at |-> "idle"]

-----------------------------------------------------------------------------
(* What the journal says *)

Rows(kind) == {i \in DOMAIN journal : journal[i].kind = kind}

Frozen(p) == \E i \in Rows("frozen") : journal[i].pkg = p

\* A decision is named by the row that records it.
Decisions(p) == {i \in Rows("decision") : journal[i].pkg = p}
Revoked(d) == \E i \in Rows("revoked") : journal[i].decision = d

\* The latest decision on the package, if it approves and is not revoked.
Approved(p, d) ==
  /\ d \in Decisions(p) /\ \A e \in Decisions(p) : e <= d
  /\ journal[d].outcome = "approved" /\ ~Revoked(d)

Operation(op, p, d) == [op |-> op, pkg |-> p, decision |-> d]
Done == {journal[i].operation : i \in {j \in Rows("result") : journal[j].completed}}
Pending == {journal[i].operation : i \in Rows("intent")} \ Done
Completed(p, op) == \E o \in Done : o.pkg = p /\ o.op = op

-----------------------------------------------------------------------------
(* What the files and the ticket say *)

\* Members are written in the order the package declares them.
Turn(m, S) == m \notin S /\ (m = "uat" => "requirements" \in S)

AllExact(p) == \A m \in Members : files[p][m] = "exact"

PredecessorIntact(p) ==
  LET q == PredecessorOf[p] IN
  q # NoPackage => AllExact(q) /\ refs[q] = Members /\ primary # NoPackage

Conflicting(p) ==
  \/ \E m \in Members : files[p][m] = "torn"
  \/ primary \notin {NoPackage, p, PredecessorOf[p]}
  \/ ~PredecessorIntact(p)

Complete(p) == ~Conflicting(p) /\ AllExact(p) /\ refs[p] = Members /\ primary = p

Queued(p) == Complete(p) /\ status = "pending" /\ assignee = "builder"

Proven(op, p) == IF op = "publish" THEN Complete(p) ELSE Queued(p)

Writable(p) ==
  /\ ~Conflicting(p) /\ ~Complete(p)
  /\ status \in {"review", "pending"}
  /\ assignee \in {"requirements", "builder"}
  /\ assignee = "builder" => status = "pending"

Authorized(p, d) == ~reserved /\ Approved(p, d) /\ sources[p]

-----------------------------------------------------------------------------
\* The rows of a package that was frozen, approved and published.
Publication(p) ==
  LET o == Operation("publish", p, 2) IN
  << [kind |-> "frozen", pkg |-> p],
     [kind |-> "decision", pkg |-> p, outcome |-> "approved"],
     [kind |-> "intent", operation |-> o],
     [kind |-> "result", operation |-> o, completed |-> TRUE] >>
History == IF Published = {} THEN <<>> ELSE Publication(CHOOSE p \in Published : TRUE)

DocumentsInit ==
  /\ journal = History
  /\ sources = [p \in Packages |-> TRUE]
  /\ files = [p \in Packages |-> [m \in Members |-> IF p \in Published THEN "exact" ELSE "absent"]]
  /\ refs = [p \in Packages |-> IF p \in Published THEN Members ELSE {}]
  /\ primary = IF Published = {} THEN NoPackage ELSE CHOOSE p \in Published : TRUE
  /\ status = "review" /\ assignee = "requirements"
  /\ reserved = FALSE
  /\ mutex = Free /\ call = [s \in Sessions |-> Idle] /\ touches = 0

Room == Len(journal) < Len(History) + MaxEvents
Append1(row) == journal' = Append(journal, row)
Leave(s) == call' = [call EXCEPT ![s] = Idle]

documentState == <<sources, files, refs, primary, status, assignee, reserved>>

\* journal.freeze: the subject, its bytes and the row commit together, outside
\* the mutex; a package that is frozen already is left alone.
Freeze(p) ==
  /\ Room /\ sources[p] /\ ~Frozen(p)
  /\ Append1([kind |-> "frozen", pkg |-> p])
  /\ UNCHANGED <<documentState, mutex, call, touches>>

\* The capture and revoke actions read the revision and the sources, then wait
\* for the operator's answer.
Ask(s, p, what) ==
  /\ s \in Foreground /\ call[s] = Idle /\ Frozen(p) /\ sources[p]
  /\ what = "revoke" => \E d \in Decisions(p) : Approved(p, d)
  /\ call' = [call EXCEPT ![s] = [at |-> "asking", what |-> what, pkg |-> p, rev |-> Len(journal)]]
  /\ UNCHANGED <<journal, documentState, mutex, touches>>

\* After the answer everything is read again inside the mutex; the row is
\* appended only if the journal did not move while the operator was asked.
AnswerUnlocked(s, outcome) ==
  LET c == call[s] IN
  /\ c.at = "asking" /\ c.rev = Len(journal) /\ sources[c.pkg] /\ Room
  /\ IF c.what = "capture"
     THEN Append1([kind |-> "decision", pkg |-> c.pkg, outcome |-> outcome])
     ELSE IF outcome = "approved"
          THEN Append1([kind |-> "revoked", pkg |-> c.pkg,
                        decision |-> CHOOSE d \in Decisions(c.pkg) : Approved(c.pkg, d)])
          ELSE UNCHANGED journal
  /\ Leave(s)
  /\ UNCHANGED <<documentState, mutex, touches>>
Answer(s, outcome) == mutex = Free /\ AnswerUnlocked(s, outcome)

\* A call that finds the journal moved, its sources changed or its time run
\* out ends without an effect.
GiveUp(s) ==
  /\ call[s].at = "asking" /\ Leave(s)
  /\ UNCHANGED <<journal, documentState, mutex, touches>>

-----------------------------------------------------------------------------
(* publish and queue *)

EnterEffect(s, op, p, d) ==
  /\ call[s] = Idle /\ mutex = Free /\ d \in Decisions(p)
  /\ mutex' = s
  /\ call' = [call EXCEPT ![s] = [at |-> "read", op |-> op, pkg |-> p, decision |-> d,
                                  rev |-> Len(journal), authorized |-> FALSE]]
  /\ UNCHANGED <<journal, documentState, touches>>

Mine(s) == Operation(call[s].op, call[s].pkg, call[s].decision)
Release(s) == mutex' = Free /\ Leave(s)

\* What an effect call may go on with: nothing pending but its own operation,
\* and a predecessor whose publication completed.
MayGoOnAnyway(s) ==
  /\ ~reserved
  /\ LET q == PredecessorOf[call[s].pkg] IN q # NoPackage => Frozen(q) /\ Completed(q, "publish")
MayGoOn(s) == MayGoOnAnyway(s) /\ Pending \subseteq {Mine(s)}

Settled(s) ==
  Mine(s) \in Done \/ (Mine(s) \in Pending /\ Proven(call[s].op, call[s].pkg))

\* An operation that is recorded, or whose whole effect is there, is settled by
\* observation alone, whatever became of the decision.
Settle(s) ==
  LET c == call[s] IN
  /\ c.at = "read" /\ MayGoOn(s) /\ Settled(s) /\ Proven(c.op, c.pkg)
  /\ IF Mine(s) \in Done THEN UNCHANGED journal
     ELSE /\ c.rev = Len(journal) /\ Room
          /\ Append1([kind |-> "result", operation |-> Mine(s), completed |-> TRUE])
  /\ Release(s)
  /\ UNCHANGED <<documentState, touches>>

Intend(s) ==
  LET c == call[s] IN
  /\ c.at = "read" /\ MayGoOn(s) /\ ~Settled(s) /\ Authorized(c.pkg, c.decision)
  /\ c.op = "queue" => Completed(c.pkg, "publish") /\ Complete(c.pkg)
  /\ IF Pending # {} THEN UNCHANGED journal
     ELSE /\ c.rev = Len(journal) /\ Room
          /\ Append1([kind |-> "intent", operation |-> Mine(s)])
  /\ call' = [call EXCEPT ![s].at = "effect"]
  /\ UNCHANGED <<documentState, mutex, touches>>

\* The caller, the ticket's owners, the decision, the sources and the state of
\* the publication are read again before each write.
Authorize(s) ==
  LET c == call[s] IN
  /\ c.at = "effect" /\ ~c.authorized /\ Authorized(c.pkg, c.decision)
  /\ IF c.op = "publish" THEN Writable(c.pkg) ELSE Complete(c.pkg)
  /\ call' = [call EXCEPT ![s].authorized = TRUE]
  /\ UNCHANGED <<journal, documentState, mutex, touches>>

Writing(s, op) == call[s].at = "effect" /\ call[s].op = op /\ call[s].authorized
Wrote(s) == call' = [call EXCEPT ![s].authorized = FALSE]

\* The file is created exclusively, then written and synced: a session that
\* dies in between leaves a file that matches nothing.
CreateFile(s, m) ==
  LET p == call[s].pkg IN
  /\ Writing(s, "publish") /\ files[p][m] = "absent"
  /\ Turn(m, {n \in Members : files[p][n] = "exact"})
  /\ files' = [files EXCEPT ![p][m] = "torn"]
  /\ call' = [call EXCEPT ![s].at = "file"]
  /\ UNCHANGED <<journal, sources, refs, primary, status, assignee, reserved, mutex, touches>>

WriteFile(s, m) ==
  LET p == call[s].pkg IN
  /\ call[s].at = "file" /\ files[p][m] = "torn"
  /\ files' = [files EXCEPT ![p][m] = "exact"]
  /\ call' = [call EXCEPT ![s].at = "effect", ![s].authorized = FALSE]
  /\ UNCHANGED <<journal, sources, refs, primary, status, assignee, reserved, mutex, touches>>

AddReference(s, m) ==
  LET p == call[s].pkg IN
  /\ Writing(s, "publish") /\ AllExact(p) /\ Turn(m, refs[p])
  /\ refs' = [refs EXCEPT ![p] = @ \cup {m}]
  /\ Wrote(s)
  /\ UNCHANGED <<journal, sources, files, primary, status, assignee, reserved, mutex, touches>>

\* The primary mark moves only when the whole set is there.
Promote(s) ==
  LET p == call[s].pkg IN
  /\ Writing(s, "publish") /\ AllExact(p) /\ refs[p] = Members
  /\ primary' = p
  /\ Wrote(s)
  /\ UNCHANGED <<journal, sources, files, refs, status, assignee, reserved, mutex, touches>>

QueueTicket(s) ==
  /\ Writing(s, "queue")
  /\ status \in {"review", "pending"} /\ assignee = "requirements"
  /\ status' = "pending" /\ assignee' = "builder"
  /\ Wrote(s)
  /\ UNCHANGED <<journal, sources, files, refs, primary, reserved, mutex, touches>>

\* The effect is observed whole; the journal is read again for the result.
Observe(s) ==
  LET c == call[s] IN
  /\ c.at = "effect" /\ Proven(c.op, c.pkg)
  /\ call' = [call EXCEPT ![s].at = "result", ![s].rev = Len(journal)]
  /\ UNCHANGED <<journal, documentState, mutex, touches>>

Record(s) ==
  /\ call[s].at = "result" /\ call[s].rev = Len(journal) /\ Room
  /\ Append1([kind |-> "result", operation |-> Mine(s), completed |-> TRUE])
  /\ Release(s)
  /\ UNCHANGED <<documentState, touches>>

\* A check that fails after the intent records an unknown result; before it the
\* call just ends.
Fail(s) ==
  LET c == call[s] IN
  /\ \/ /\ c.at = "read"
        /\ \/ ~MayGoOn(s) \/ c.rev # Len(journal) \/ (Settled(s) /\ ~Proven(c.op, c.pkg))
           \/ ~Settled(s) /\ ~Authorized(c.pkg, c.decision)
           \/ ~Settled(s) /\ c.op = "queue" /\ ~Complete(c.pkg)
        /\ UNCHANGED journal
     \/ /\ \/ c.at = "effect" /\ ~Proven(c.op, c.pkg)
              /\ \/ ~Authorized(c.pkg, c.decision)
                 \/ c.op = "publish" /\ ~Writable(c.pkg)
                 \/ c.op = "queue" /\ (~Complete(c.pkg) \/ status = "implementing" \/ assignee = "other")
           \/ c.at = "result" /\ c.rev # Len(journal)
        /\ Room /\ Append1([kind |-> "result", operation |-> Mine(s), completed |-> FALSE])
  /\ Release(s)
  /\ UNCHANGED <<documentState, touches>>

-----------------------------------------------------------------------------
(* Drafts, other writers and crashes *)

\* A draft is written under the mutex, by compare-and-set on its digest.
Draft(p) ==
  /\ mutex = Free /\ touches < MaxTouches
  /\ sources' = [sources EXCEPT ![p] = ~@]
  /\ touches' = touches + 1
  /\ UNCHANGED <<journal, files, refs, primary, status, assignee, reserved, mutex, call>>

\* Ordinary writers of the same ticket: the status and the assignee, a
\* reference taken away, another document made primary.
TouchUnlocked ==
  /\ touches < MaxTouches /\ touches' = touches + 1
  /\ \/ /\ status' \in {"pending", "implementing"} /\ assignee' \in {"requirements", "other"}
        /\ UNCHANGED <<refs, primary>>
     \/ /\ \E p \in Packages, m \in Members :
             m \in refs[p] /\ refs' = [refs EXCEPT ![p] = @ \ {m}]
        /\ UNCHANGED <<primary, status, assignee>>
     \/ primary' = "foreign" /\ UNCHANGED <<refs, status, assignee>>
  /\ UNCHANGED <<journal, sources, files, reserved, mutex, call>>
TouchTicket == mutex = Free /\ TouchUnlocked

\* A launch takes or leaves the ticket: its reservation is not a ticket write.
Reserve ==
  /\ touches < MaxTouches /\ touches' = touches + 1
  /\ reserved' = ~reserved
  /\ UNCHANGED <<journal, sources, files, refs, primary, status, assignee, mutex, call>>

\* The session dies: its mutex helper sees the end of its input and lets go.
Crash(s) ==
  /\ call[s] # Idle /\ Leave(s)
  /\ mutex' = IF mutex = s THEN Free ELSE mutex
  /\ UNCHANGED <<journal, documentState, touches>>

DocumentCall(s) ==
  \/ \E p \in Packages, what \in {"capture", "revoke"} : Ask(s, p, what)
  \/ \E outcome \in {"approved", "rejected"} : Answer(s, outcome)
  \/ GiveUp(s)
  \/ \E op \in Effects, p \in Packages, d \in DOMAIN journal : EnterEffect(s, op, p, d)
  \/ Settle(s) \/ Intend(s) \/ Authorize(s)
  \/ \E m \in Members : CreateFile(s, m) \/ WriteFile(s, m) \/ AddReference(s, m)
  \/ Promote(s) \/ QueueTicket(s) \/ Observe(s) \/ Record(s) \/ Fail(s)
  \/ Crash(s)

DocumentsNext ==
  \/ \E s \in Sessions : DocumentCall(s)
  \/ \E p \in Packages : Freeze(p) \/ Draft(p)
  \/ TouchTicket \/ Reserve

DocumentsSpec == DocumentsInit /\ [][DocumentsNext]_documentVars

-----------------------------------------------------------------------------
(* Properties *)

OperationSet == [op : Effects, pkg : Packages, decision : Nat]
RowSet ==
  [kind : {"frozen"}, pkg : Packages]
  \cup [kind : {"decision"}, pkg : Packages, outcome : {"approved", "rejected"}]
  \cup [kind : {"revoked"}, pkg : Packages, decision : Nat]
  \cup [kind : {"intent"}, operation : OperationSet]
  \cup [kind : {"result"}, operation : OperationSet, completed : BOOLEAN]
CallSet ==
  {Idle} \cup [at : {"asking"}, what : {"capture", "revoke"}, pkg : Packages, rev : Nat]
  \cup [at : {"read", "effect", "file", "result"}, op : Effects, pkg : Packages,
        decision : Nat, rev : Nat, authorized : BOOLEAN]

\* The values the variables take.
DocumentsTypeOK ==
  /\ \A i \in DOMAIN journal : journal[i] \in RowSet
  /\ sources \in [Packages -> BOOLEAN]
  /\ files \in [Packages -> [Members -> {"absent", "torn", "exact"}]]
  /\ refs \in [Packages -> SUBSET Members]
  /\ primary \in Packages \cup {NoPackage, "foreign"}
  /\ status \in {"review", "pending", "implementing"}
  /\ assignee \in {"requirements", "builder", "other"}
  /\ reserved \in BOOLEAN /\ touches \in Nat
  /\ mutex \in Sessions \cup {Free}
  /\ \A s \in Sessions : call[s] \in CallSet

\* A write to the requirements directory or to the ticket is covered, at the
\* moment it happens, by the latest decision on its package, which approves it
\* and was not revoked (PackageService.execute authorizes before each write and
\* the operator's decisions wait for the mutex).
WritesApproved ==
  \A s \in Sessions :
    (call[s].at = "file" \/ (call[s].at = "effect" /\ call[s].authorized))
      => Approved(call[s].pkg, call[s].decision)

\* The journal says completed only of an effect that is there when it says so:
\* every file exact, every reference present, the primary mark moved, and for a
\* queue the ticket pending with the builder, whoever else edits the ticket.
ResultProven == \A o \in Done' \ Done : Proven(o.op, o.pkg)

\* While a call writes, its own intent is recorded and nothing else of the
\* ticket is pending, also when a session died between an intent and its
\* result: publications never overlap and every write is announced.
IntentFirst ==
  \A s \in Sessions :
    call[s].at \in {"effect", "file", "result"} => Pending = {Mine(s)}
=============================================================================
