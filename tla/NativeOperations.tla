--------------------------- MODULE NativeOperations ---------------------------
(* The native operations of an advisory session (pa-core/src/operations, *)
(* pi-extension/advisory.ts): a bounded check, a read-only diagnostic and a file *)
(* operation, each of a caller of its own (the session, or the command line *)
(* inside it).  A check puts a barrier on the repository's lease, runs in a *)
(* process group that waits on fd 3 for the record of its identity, and gives the *)
(* barrier back only when its group has settled.  The admission itself is *)
(* RepositoryAdmission's; here it is what its callers see of it. *)
EXTENDS Integers, FiniteSets

CONSTANTS
  Ops, Unbarred,
  Commands,  \* bound: the callers that run commands, the others write files
  MaxFaults  \* bound: failures of the file system, of a spawn or of /proc

OperationsAssumption == Unbarred \notin Ops /\ Commands \subseteq Ops /\ MaxFaults \in Nat

Kinds == {"check", "diagnostic", "file"}

VARIABLES
  owner,    \* what the admission proves: "proven", "moved" (another branch), "lost"
  barrier,  \* the advisory operation on the lease
  op,       \* the call of executeOperation or executeAdvisoryFile
  group,    \* the process group of its command
  stored,   \* what the private evidence holds of it
  disk,     \* the file of a file operation
  result,   \* what the caller is told
  faults

operationsVars == <<owner, barrier, op, group, stored, disk, result, faults>>

Fresh == [at |-> "idle", kind |-> "check", flags |-> {}, error |-> FALSE, known |-> FALSE,
          exited |-> FALSE, signal |-> "none", settled |-> FALSE]
NoGroup == [leader |-> "none", fd |-> "open", back |-> "none", holds |-> FALSE, code |-> "none"]
NoResult == [is |-> FALSE]

OperationsInit ==
  /\ owner = "proven" /\ barrier = Unbarred /\ faults = 0
  /\ op = [o \in Ops |-> Fresh] /\ group = [o \in Ops |-> NoGroup]
  /\ stored = [o \in Ops |-> {}] /\ disk = [o \in Ops |-> "old"]
  /\ result = [o \in Ops |-> NoResult]

Works == faults' = faults
Fails == faults < MaxFaults /\ faults' = faults + 1
\* Every record is published under the worktree mutex of the proven owner.
Publishes(o, what) == owner # "lost" /\ Works /\ stored' = [stored EXCEPT ![o] = @ \cup {what}]
PublishFails == ((owner = "lost" /\ Works) \/ Fails) /\ stored' = stored

Become(o, r) == op' = [op EXCEPT ![o] = r]
Tell(o, completion, outcome, enforcement) ==
  result' = [result EXCEPT ![o] = [is |-> TRUE, completion |-> completion, outcome |-> outcome,
                                   enforcement |-> enforcement, clean |-> op[o].settled]]

----------------------------------------------------------------------------
(* The beginning. *)

\* Refused before anything is recorded: the request, the session, the policy, a
\* cancellation.
Refuse(o) ==
  /\ op[o].at = "idle" /\ Become(o, [op[o] EXCEPT !.at = "done"])
  /\ \/ Tell(o, "error", "unknown", "allowed")
     \/ Tell(o, "completed", "skipped", "denied")
     \/ Tell(o, "cancelled", "skipped", "allowed")
  /\ UNCHANGED <<owner, barrier, group, stored, disk, faults>>

\* host.begin: the intent is durable before the barrier stands.  A diagnostic asks
\* for no barrier.
MayBegin == barrier = Unbarred /\ owner = "proven"
Admitted(kind) == kind = "diagnostic" \/ MayBegin
Begin(o, kind) ==
  /\ op[o].at = "idle"
  /\ \/ /\ Publishes(o, "intent") /\ Admitted(kind)
        /\ barrier' = IF kind = "diagnostic" THEN barrier ELSE o
        /\ Become(o, [op[o] EXCEPT !.at = "begun", !.kind = kind]) /\ result' = result
     \/ /\ PublishFails \/ (Publishes(o, "intent") /\ ~Admitted(kind))
        /\ Become(o, [op[o] EXCEPT !.at = "done", !.kind = kind])
        /\ Tell(o, "completed", "skipped", "denied") /\ barrier' = barrier
  /\ UNCHANGED <<owner, group, disk>>

----------------------------------------------------------------------------
(* The process of a check or a diagnostic. *)

Members(g) == g.leader \in {"waiting", "running"} \/ g.back = "inside"
Silent(g) == g.leader \notin {"waiting", "running"} /\ ~g.holds

\* stop: SIGTERM to the recorded group, SIGKILL 250 ms later.
Stopped(r, g) ==
  IF r.known /\ Members(g) /\ r.signal = "none" THEN [r EXCEPT !.signal = "term"] ELSE r
Flagged(r, g, flag) == Stopped([r EXCEPT !.flags = @ \cup {flag}], g)

ofProcess == <<owner, barrier, stored, disk, result, faults>>

\* Both streams are made first: without them the call ends, and its barrier stays.
Launch(o) ==
  /\ op[o].at = "begun" /\ op[o].kind # "file"
  /\ \/ /\ Works /\ Become(o, [op[o] EXCEPT !.at = "spawned"])
        /\ group' = [group EXCEPT ![o].leader = "waiting"] /\ result' = result
     \/ /\ Fails /\ Become(o, [op[o] EXCEPT !.at = "closing", !.error = TRUE])
        /\ UNCHANGED <<group, result>>
     \/ /\ Fails /\ Become(o, [op[o] EXCEPT !.at = "done"]) /\ Tell(o, "error", "unknown", "allowed")
        /\ group' = group
  /\ UNCHANGED <<owner, barrier, stored, disk>>

\* The record of the process is durable before fd 3 says "execute"; a child that
\* cannot be recorded sees the end of fd 3.
Frame(o) ==
  /\ op[o].at = "spawned"
  /\ \/ /\ group[o].leader = "waiting" /\ Publishes(o, "frame")
        /\ Become(o, [op[o] EXCEPT !.at = "running", !.known = TRUE])
        /\ group' = [group EXCEPT ![o].fd = "execute"]
     \/ /\ PublishFails
        /\ \E known \in BOOLEAN :
             Become(o, Stopped([op[o] EXCEPT !.at = "closing", !.error = TRUE, !.known = known], group[o]))
        /\ group' = [group EXCEPT ![o].fd = "closed"]
  /\ UNCHANGED <<owner, barrier, disk, result>>

\* The group by itself.
GroupStep(o, g) == group' = [group EXCEPT ![o] = g] /\ UNCHANGED <<ofProcess, op>>
MayRun(o) == group[o].fd = "execute"
Runs(o) ==
  /\ group[o].leader = "waiting" /\ MayRun(o) /\ GroupStep(o, [group[o] EXCEPT !.leader = "running"])
Starves(o) ==
  /\ group[o].leader = "waiting" /\ group[o].fd = "closed"
  /\ GroupStep(o, [group[o] EXCEPT !.leader = "gone", !.code = "nonzero"])
\* A background process stays in the group or leaves it, with or without the pipes.
Forks(o) ==
  /\ group[o].leader = "running" /\ group[o].back = "none" /\ op[o].kind = "check"
  /\ \E where \in {"inside", "outside"}, holds \in BOOLEAN :
       GroupStep(o, [group[o] EXCEPT !.back = where, !.holds = holds])
LeaderExits(o) ==
  /\ group[o].leader = "running"
  /\ \E c \in {"zero", "nonzero"} : GroupStep(o, [group[o] EXCEPT !.leader = "gone", !.code = c])
BackEnds(o) ==
  /\ group[o].back # "none" /\ GroupStep(o, [group[o] EXCEPT !.back = "none", !.holds = FALSE])
\* SIGTERM may end a member, SIGKILL ends them all.
Terminated(o) ==
  /\ op[o].signal = "term" /\ Members(group[o])
  /\ \/ /\ group[o].leader \in {"waiting", "running"}
        /\ GroupStep(o, [group[o] EXCEPT !.leader = "gone", !.code = "signal"])
     \/ /\ group[o].back = "inside"
        /\ GroupStep(o, [group[o] EXCEPT !.back = "none", !.holds = FALSE])
Killed(o) ==
  /\ op[o].signal = "kill" /\ Members(group[o])
  /\ LET g == IF group[o].back = "inside"
              THEN [group[o] EXCEPT !.back = "none", !.holds = FALSE] ELSE group[o] IN
     GroupStep(o, IF g.leader = "gone" THEN g ELSE [g EXCEPT !.leader = "gone", !.code = "signal"])

----------------------------------------------------------------------------
(* What the caller sees of it. *)

CallerStep(o, r) == Become(o, r) /\ UNCHANGED <<ofProcess, group>>
\* The leader ended and left members.
Left(r, g) == IF Members(g) THEN Flagged(r, g, "ioFailed") ELSE r
ExitSeen(o) ==
  /\ op[o].at = "running" /\ group[o].leader = "gone" /\ ~op[o].exited
  /\ CallerStep(o, Left([op[o] EXCEPT !.exited = TRUE], group[o]))
\* "close" comes when no process holds the pipes any more.
CloseSeen(o) ==
  /\ op[o].at = "running" /\ op[o].exited /\ Silent(group[o])
  /\ CallerStep(o, Left([op[o] EXCEPT !.at = "closing"], group[o]))
Escalate(o) ==
  /\ op[o].at \in {"running", "closing"} /\ op[o].signal = "term"
  /\ CallerStep(o, [op[o] EXCEPT !.signal = "kill"])
Timeout(o) ==
  /\ op[o].at = "running" /\ "timedOut" \notin op[o].flags
  /\ CallerStep(o, Flagged(op[o], group[o], "timedOut"))
Abort(o) ==
  /\ op[o].at = "running" /\ "aborted" \notin op[o].flags
  /\ CallerStep(o, Flagged(op[o], group[o], "aborted"))
\* More output than is kept, of the command or of what it left behind.
Overflow(o) ==
  /\ op[o].at = "running" /\ "limit" \notin op[o].flags /\ op[o].kind = "check"
  /\ ~Silent(group[o]) /\ group[o].leader # "waiting"
  /\ CallerStep(o, Flagged(op[o], group[o], "limit"))

\* The group is awaited for a second; what is left then is not settled, and what
\* was ever left behind neither.
Settles(r, g) == "ioFailed" \notin r.flags /\ ~Members(g)
Settle(o) ==
  /\ op[o].at = "closing" /\ (~Members(group[o]) \/ op[o].signal = "kill" \/ op[o].error)
  /\ IF op[o].error
     THEN /\ Publishes(o, "unproven") \/ PublishFails
          /\ Become(o, [op[o] EXCEPT !.at = "done"]) /\ Tell(o, "error", "unknown", "allowed")
     ELSE /\ Become(o, [op[o] EXCEPT !.at = "ended", !.settled = Settles(op[o], group[o])])
          /\ UNCHANGED <<stored, result, faults>>
  /\ UNCHANGED <<owner, barrier, group, disk>>

----------------------------------------------------------------------------
(* A file operation: AdvisoryFiles writes a temporary file and renames it. *)

\* How far a write gets: what the file is, and whether the object says "uncertain".
Tried(write) == write # "temporary" /\ write # "done"
Invoke(o) ==
  /\ op[o].at = "begun" /\ op[o].kind = "file"
  /\ \E write \in {"temporary", "renaming", "unsynced", "done"}, aborted \in BOOLEAN :
       /\ IF write = "done" THEN Works ELSE Fails
       /\ disk' = [disk EXCEPT ![o] = CASE write = "temporary" -> "old"
                                        [] write = "done" -> "new"
                                        [] OTHER -> "unclear"]
       /\ Become(o, [op[o] EXCEPT !.at = "ended", !.error = write # "done", !.settled = ~Tried(write),
                                  !.flags = IF aborted THEN {"aborted"} ELSE {}])
  /\ UNCHANGED <<owner, barrier, group, stored, result>>

----------------------------------------------------------------------------
(* The result. *)

Completion(r) ==
  CASE "aborted" \in r.flags -> "cancelled"
    [] r.kind # "file" /\ "timedOut" \in r.flags -> "timed-out"
    [] r.kind = "file" /\ (r.error \/ ~r.settled) -> "error"
    [] OTHER -> "completed"
Whole(r, c) == "limit" \notin r.flags /\ c # "signal"
Outcome(r, c) ==
  IF Completion(r) # "completed" \/ ~r.settled \/ ~Whole(r, c) THEN "unknown"
  ELSE IF r.kind = "file" \/ c = "zero" THEN "passed" ELSE "failed"

Publish(o) ==
  /\ op[o].at = "ended"
  /\ \/ Publishes(o, "result") /\ Become(o, [op[o] EXCEPT !.at = "published"]) /\ result' = result
     \/ /\ PublishFails /\ Become(o, [op[o] EXCEPT !.at = "done"])
        /\ Tell(o, IF Completion(op[o]) \in {"cancelled", "timed-out"} THEN Completion(op[o]) ELSE "error",
                "unknown", "allowed")
  /\ UNCHANGED <<owner, barrier, group, disk>>

\* host.finish and host.finishObservation: the same caller, and for an effect that
\* settled the same branch; an unsettled one keeps its barrier.
Accepted(r) == owner = "proven" \/ (owner = "moved" /\ (r.kind = "diagnostic" \/ ~r.settled))
LiftedAlways(o, r) == IF barrier = o THEN Unbarred ELSE barrier
Lifted(o, r) == IF barrier = o /\ r.settled THEN Unbarred ELSE barrier
Finish(o) ==
  /\ op[o].at = "published" /\ Become(o, [op[o] EXCEPT !.at = "done"])
  /\ \/ /\ Accepted(op[o]) /\ Works /\ barrier' = Lifted(o, op[o])
        /\ Tell(o, Completion(op[o]), Outcome(op[o], group[o].code), "allowed")
     \* refused, the lease replaced or not, or the result cannot be serialized
     \/ /\ (~Accepted(op[o]) /\ Works /\ barrier' = barrier)
           \/ (Accepted(op[o]) /\ Fails /\ barrier' \in {barrier, Lifted(o, op[o])})
        /\ Tell(o, "error", "unknown", "allowed")
  /\ UNCHANGED <<owner, group, stored, disk>>

\* operationExitCode of the command line.
ExitCode(r) ==
  CASE r.enforcement = "denied" -> 3
    [] r.completion = "cancelled" -> 130
    [] r.completion = "timed-out" -> 124
    [] r.completion = "error" \/ r.outcome \in {"unknown", "skipped"} -> 2
    [] r.outcome = "failed" -> 1
    [] OTHER -> 0

----------------------------------------------------------------------------
(* The others. *)

\* The caller dies: fd 3 ends with it, its detached group goes on.
Crash(o) ==
  /\ op[o].at \notin {"idle", "done", "dead"} /\ Become(o, [op[o] EXCEPT !.at = "dead"])
  /\ group' = [group EXCEPT ![o].fd = IF @ = "open" THEN "closed" ELSE @]
  /\ UNCHANGED ofProcess
\* A command moves the checkout to another branch and back; the deployment ends or
\* loses its lease.
OwnerChanges ==
  /\ owner # "lost"
  /\ owner' \in {"lost"} \cup (IF \E o \in Ops : group[o].leader = "running" /\ op[o].kind = "check"
                               THEN {"proven", "moved"} ELSE {})
  /\ owner' # owner
  /\ UNCHANGED <<barrier, op, group, stored, disk, result, faults>>

\* What the system does to a group by itself.
Kernel(o) == Runs(o) \/ Starves(o) \/ Killed(o)
Command(o) ==
  \/ Runs(o) \/ Starves(o) \/ Forks(o) \/ LeaderExits(o) \/ BackEnds(o) \/ Terminated(o) \/ Killed(o)
Caller(o) ==
  \/ Launch(o) \/ Frame(o) \/ ExitSeen(o) \/ CloseSeen(o) \/ Escalate(o) \/ Settle(o)
  \/ Invoke(o) \/ Publish(o) \/ Finish(o)
OperationsNext ==
  \/ \E o \in Ops :
       \/ Refuse(o) \/ Command(o) \/ Caller(o) \/ Timeout(o) \/ Abort(o) \/ Overflow(o) \/ Crash(o)
       \/ \E kind \in (IF o \in Commands THEN Kinds ELSE {"file"}) : Begin(o, kind)
  \/ OwnerChanges

----------------------------------------------------------------------------
OperationsTypeOK ==
  /\ owner \in {"proven", "moved", "lost"} /\ barrier \in Ops \cup {Unbarred}
  /\ \A o \in Ops :
       /\ op[o].at \in {"idle", "begun", "spawned", "running", "closing", "ended", "published",
                        "done", "dead"}
       /\ op[o].kind \in Kinds /\ op[o].flags \subseteq {"aborted", "timedOut", "limit", "ioFailed"}
       /\ group[o].leader \in {"none", "waiting", "running", "gone"}
       /\ stored[o] \subseteq {"intent", "frame", "unproven", "result"}

\* While a process of a check's group lives, whatever became of its caller, the
\* lease carries its barrier: no other writer begins beside it.  So it is with a
\* file whose rename may or may not have taken place (host.ts, evidence.ts).
BarrierOverEffects ==
  \A o \in Ops :
    /\ op[o].kind = "check" /\ Members(group[o]) => barrier = o
    /\ disk[o] = "unclear" => barrier = o

\* A command runs only when the intent and the identity of its process are durable,
\* so that the effect can be found again (evidence.ts:121).
RunsOnRecord ==
  \A o \in Ops : group[o].leader = "running" => {"intent", "frame"} \subseteq stored[o]

\* An operation that passed is one whose whole group ended by itself with exit 0 and
\* whose output is complete, or whose file is in place; and the command line says 0
\* for nothing else (service.ts:91, result.ts:215).
PassedIsTrue ==
  \A o \in Ops : result[o].is =>
    /\ result[o].outcome = "passed" =>
         /\ "result" \in stored[o] /\ ~Members(group[o]) /\ op[o].flags = {}
         /\ IF op[o].kind = "file" THEN disk[o] = "new" ELSE group[o].code = "zero"
    /\ (ExitCode(result[o]) = 0) = (result[o].outcome = "passed")

\* A check that runs, with nobody outside its group on its pipes.
Unended == \E o \in Ops :
  op[o].at \notin {"idle", "done", "dead"} /\ ~(group[o].back = "outside" /\ group[o].holds)
=============================================================================
