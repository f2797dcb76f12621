------------------------------ MODULE ReviewMatrix ------------------------------
(***************************************************************************)
(* A protected review: the launcher that admits it                         *)
(* (pi-pa/src/validation-launch.ts, review-v1-launch.ts, deploy.ts), the   *)
(* supervisor that runs the approved commands before the reviewer          *)
(* (pi-pa/src/validation-supervisor.ts, background-runner.ts), the         *)
(* executor of the commands (pa-core/src/validation/executor.ts) and the   *)
(* workflow's proof of the outcome (pi-pa/src/workflow-matrix.ts).         *)
(*                                                                         *)
(* Reviews run one after the other under the reservation of the candidate  *)
(* (RepositoryAdmission); a reservation whose supervisor died stays.  A    *)
(* command is a process group: its leader may leave members behind, and    *)
(* the group outlives a supervisor that dies.  An atomic write may fail    *)
(* before its rename, or after it in the sync of the directory.            *)
(***************************************************************************)
EXTENDS Naturals, FiniteSets

CONSTANTS Reviews,      \* requirements/review-auto deployments
          Authorization,\* the one-use authorization each was given
          Steps,        \* commands of the approved matrix, 1..n
          NoReview,
          MaxMishaps    \* bound on the failed writes and on the changes of the
                        \* candidate's worktree, together

\* what the constants must satisfy: the instances assume it
ReviewAssumption ==
  /\ NoReview \notin Reviews /\ DOMAIN Authorization = Reviews
  /\ IsFiniteSet(Steps) /\ Steps = 1..Cardinality(Steps)
  /\ MaxMishaps \in Nat

Candidate == 0                  \* the scope the approval names
Scopes == 0..MaxMishaps
NoScope == MaxMishaps + 1
Bad == {"failed", "stopped", "logging", "unsaved"}
Entry == [st : {"pending", "begun", "passed", "crash", "unsettled", "skipped"} \cup Bad,
          dead : {"yes", "no", "unset"}]
Record == [end : {"running", "passed", "failed", "crash"}, rows : [Steps -> Entry]]
NoRecord == [end |-> "none", rows |-> <<>>]

VARIABLES
  structured, \* the approval is a workflow decision, else a ticket comment
  review,     \* the one review that holds the reservation, or its idle value
  marked,     \* the matrix-started journal of each deployment
  handoff,    \* deployments whose protected handoff file exists
  claims,     \* authorizations consumed, by which deployment
  active,     \* claims whose deployment is not terminal
  group,      \* the process group of each command of each deployment
  exit,       \* how the leader of each group ended
  scope,      \* state of the candidate's worktree
  starts,     \* workflow-matrix-start evidence: the scope before
  results,    \* workflow-matrix-result evidence: the ledger it digests
  saved,      \* the state file of each deployment
  ledger,     \* the ledger of each deployment
  settled,    \* outcome the workflow recorded for its matrix step
  lost        \* writes that failed so far

matrixVars == <<structured, review, marked, handoff, claims, active, group, exit, scope,
                starts, results, saved, ledger, settled, lost>>
durable == <<marked, handoff, claims, active, starts, results>>

Nobody == [dep |-> NoReview, at |-> "none", rows |-> <<>>, next |-> 1, failed |-> FALSE,
           ended |-> "none", returned |-> FALSE, verified |-> TRUE, aborted |-> FALSE, shown |-> "none"]
Fresh == [i \in Steps |-> [st |-> "pending", dead |-> "unset"]]
Skip(rows) == [i \in Steps |-> IF rows[i].st = "pending" THEN [rows[i] EXCEPT !.st = "skipped"] ELSE rows[i]]

MatrixInit ==
  /\ structured \in BOOLEAN /\ review = Nobody
  /\ marked = [d \in Reviews |-> "none"] /\ handoff = {} /\ claims = {} /\ active = {}
  /\ group = [d \in Reviews |-> [i \in Steps |-> "none"]]
  /\ exit = [d \in Reviews |-> [i \in Steps |-> "none"]]
  /\ scope = Candidate
  /\ starts = [d \in Reviews |-> NoScope] /\ results = [d \in Reviews |-> NoRecord]
  /\ saved = [d \in Reviews |-> NoRecord] /\ ledger = [d \in Reviews |-> NoRecord]
  /\ settled = "none" /\ lost = 0

\* What a probe, a preflight or a collection may answer, and a kill may leave.
Prerequisites == BOOLEAN
Preflights == BOOLEAN
Collections == BOOLEAN
Killed == {"yes", "no"}
StopReasons == {"stopped", "logging", "crash"}

\* An atomic write: renamed and synced, renamed and failed, or failed before.
Outcomes == {"kept", "unsure", "lost"}
Wrote(w) == w # "lost"
Throws(w) == w # "kept"
Faults(ws) == Cardinality({i \in DOMAIN ws : Throws(ws[i])})
CountFaults(ws) == scope + lost + Faults(ws) <= MaxMishaps /\ lost' = lost + Faults(ws)
Put(file, d, value, w) == IF Wrote(w) THEN [file EXCEPT ![d] = value] ELSE file

\* Refused: nothing of the matrix was started, so the flags allow the release.
Refused == review' = [review EXCEPT !.at = "over", !.verified = TRUE]

-----------------------------------------------------------------------------
(* The launcher *)

\* reserve the clean candidate; a reservation is never taken from its holder
Reserve(d) ==
  /\ review.dep = NoReview /\ marked[d] = "none" /\ scope = Candidate
  /\ review' = [Nobody EXCEPT !.dep = d, !.at = "reserved", !.rows = Fresh]
  /\ UNCHANGED <<structured, durable, group, exit, scope, saved, ledger, settled, lost>>

\* writePiMatrixStartedEvent: exclusive create, then write and sync
MarkStarted(w) ==
  /\ review.at = "reserved" /\ CountFaults(<<w>>)
  /\ marked' = [marked EXCEPT ![review.dep] = IF w = "kept" THEN "full" ELSE "torn"]
  /\ IF Throws(w) THEN Refused ELSE review' = [review EXCEPT !.at = "marked"]
  /\ UNCHANGED <<structured, handoff, claims, active, starts, results, group, exit, scope, saved, ledger, settled>>

\* claimReviewAuthorization, one transaction: used once, no other active review
Unclaimed(d) == Authorization[d] \notin {Authorization[e] : e \in claims} /\ active = {}
\* the prerequisites in order, the claim the last of them
Admits(met) == met /\ Unclaimed(review.dep)
\* the claim, the boundary and the handoff file
ClaimAndHandOver(met) ==
  /\ review.at = "marked"
  /\ IF Admits(met)
     THEN /\ claims' = claims \cup {review.dep} /\ active' = active \cup {review.dep}
          /\ IF scope = Candidate
             THEN handoff' = handoff \cup {review.dep} /\ review' = [review EXCEPT !.at = "handed"]
             ELSE Refused /\ UNCHANGED handoff
     ELSE Refused /\ UNCHANGED <<claims, active, handoff>>
  /\ UNCHANGED <<structured, marked, starts, results, group, exit, scope, saved, ledger, settled, lost>>

-----------------------------------------------------------------------------
(* Admission by the supervisor *)

\* the handoff is read and unlinked, whatever it says
Consume ==
  /\ review.at = "handed"
  /\ handoff' = handoff \ {review.dep}
  /\ IF marked[review.dep] = "full" THEN review' = [review EXCEPT !.at = "consumed"] ELSE Refused
  /\ UNCHANGED <<structured, marked, claims, active, starts, results, group, exit, scope, saved, ledger, settled, lost>>

\* beginPiWorkflowMatrix: no earlier start for the intent, known or unknown
NoPriorStart == \A e \in Reviews : starts[e] = NoScope
MayStart == settled = "none" /\ scope = Candidate /\ NoPriorStart
BeginMatrix ==
  /\ review.at = "consumed"
  /\ CASE ~structured -> review' = [review EXCEPT !.at = "begun"] /\ UNCHANGED starts
       [] structured /\ MayStart -> /\ review' = [review EXCEPT !.at = "begun"]
                                    /\ starts' = [starts EXCEPT ![review.dep] = scope]
       [] OTHER -> Refused /\ UNCHANGED starts
  /\ UNCHANGED <<structured, marked, handoff, claims, active, results, group, exit, scope, saved, ledger, settled, lost>>

\* the boundary rereads the candidate; from here the release needs a proof
EnterMatrix ==
  /\ review.at = "begun"
  /\ IF scope = Candidate THEN review' = [review EXCEPT !.at = "admitted", !.verified = FALSE] ELSE Refused
  /\ UNCHANGED <<structured, durable, group, exit, scope, saved, ledger, settled, lost>>

\* preflight and the initial state; a failed first write ends with a failed ledger
Preflight(ok, w, w2) ==
  /\ review.at = "admitted"
  /\ IF ~ok
     THEN w = "kept" /\ w2 = "kept" /\ Refused /\ UNCHANGED <<saved, ledger, lost>>
     ELSE /\ CountFaults(<<w, w2>>)
          /\ saved' = Put(saved, review.dep, [end |-> "running", rows |-> Fresh], w)
          /\ IF Throws(w)
             THEN /\ ledger' = Put(ledger, review.dep, [end |-> "failed", rows |-> Skip(Fresh)], w2)
                  /\ review' = [review EXCEPT !.at = "returned", !.returned = TRUE, !.ended = "failed", !.rows = Skip(Fresh)]
             ELSE w2 = "kept" /\ review' = [review EXCEPT !.at = "loop"] /\ UNCHANGED ledger
  /\ UNCHANGED <<structured, durable, group, exit, scope, settled>>

-----------------------------------------------------------------------------
(* The executor *)

Current == review.next
At(st, dead) == [review.rows EXCEPT ![Current] = [st |-> st, dead |-> dead]]
Going == review.at = "loop" /\ ~review.failed /\ Current \in Steps

\* started in the state file first, then spawned
StartCommand(w) ==
  /\ Going /\ CountFaults(<<w>>)
  /\ IF review.aborted
     THEN w = "kept" /\ review' = [review EXCEPT !.at = "recover"] /\ UNCHANGED <<saved, group>>
     ELSE /\ saved' = Put(saved, review.dep, [end |-> "running", rows |-> At("begun", "unset")], w)
          /\ IF Throws(w)
             THEN review' = [review EXCEPT !.at = "recover"] /\ UNCHANGED group
             ELSE /\ review' = [review EXCEPT !.at = "command", !.rows = At("begun", "unset")]
                  /\ group' = [group EXCEPT ![review.dep][Current] = "run"]
  /\ UNCHANGED <<structured, durable, exit, scope, ledger, settled>>

\* The leader ends by itself, of whatever supervisor; members may be left.
CommandExits(d, i, how, left) ==
  /\ group[d][i] = "run"
  /\ group' = [group EXCEPT ![d][i] = IF left THEN "left" ELSE "gone"]
  /\ exit' = [exit EXCEPT ![d][i] = how]
  /\ UNCHANGED <<structured, review, durable, scope, saved, ledger, settled, lost>>
GroupDies(d, i) ==
  /\ group[d][i] = "left" /\ group' = [group EXCEPT ![d][i] = "gone"]
  /\ UNCHANGED <<structured, review, durable, exit, scope, saved, ledger, settled, lost>>

\* timeout, output limit, log failure or abort: the group is killed, and what
\* is not seen dead may live on
StopCommand(why, dead) ==
  /\ review.at = "command" /\ group[review.dep][Current] = "run"
  /\ why = "crash" => review.aborted
  /\ group' = [group EXCEPT ![review.dep][Current] = IF dead = "yes" THEN "gone" ELSE "left"]
  /\ exit' = [exit EXCEPT ![review.dep][Current] = "killed"]
  /\ review' = [review EXCEPT !.at = "ending",
                  !.rows = At(IF dead = "no" /\ why # "logging" THEN "unsettled" ELSE why, dead)]
  /\ UNCHANGED <<structured, durable, scope, saved, ledger, settled, lost>>

\* a normal close: settlement of the group, exit code, artifacts
ByExit == IF exit[review.dep][Current] = "zero" THEN "passed" ELSE "failed"
CommandCloses(kill, artifacts) ==
  /\ review.at = "command" /\ group[review.dep][Current] \in {"left", "gone"}
  /\ LET lingers == structured /\ group[review.dep][Current] = "left" IN
     /\ IF lingers
        THEN review' = [review EXCEPT !.at = "ending", !.rows = At("unsettled", IF kill THEN "yes" ELSE "no")]
        ELSE review' = [review EXCEPT !.at = "ending",
               !.rows = At(IF artifacts THEN ByExit ELSE "failed", IF structured THEN "yes" ELSE "unset")]
     /\ group' = [group EXCEPT ![review.dep][Current] = IF lingers /\ kill THEN "gone" ELSE @]
  /\ UNCHANGED <<structured, durable, exit, scope, saved, ledger, settled, lost>>

\* the entry is persisted; a failed write turns a pass into a failure, a
\* crash entry or a sink that throws ends in the recovery
CommandEnds(w, told) ==
  /\ review.at = "ending" /\ CountFaults(<<w>>)
  /\ LET st == review.rows[Current].st
         bad == st # "passed" \/ Throws(w)
         mine == At(IF st = "passed" /\ Throws(w) THEN "unsaved" ELSE st, review.rows[Current].dead)
     IN /\ saved' = Put(saved, review.dep,
                        [end |-> "running", rows |-> IF st # "passed" THEN Skip(review.rows) ELSE review.rows], w)
        /\ review' = [review EXCEPT !.at = IF told /\ st # "crash" THEN "loop" ELSE "recover", !.next = Current + 1,
                        !.failed = bad, !.rows = IF bad THEN Skip(mine) ELSE mine]
  /\ UNCHANGED <<structured, durable, group, exit, scope, ledger, settled>>

\* the terminal state, then the ledger
Terminate(w, w2, told) ==
  /\ review.at = "loop" /\ ~Going /\ CountFaults(<<w, w2>>)
  /\ Throws(w) => w2 = "kept"
  /\ LET end == IF review.failed THEN "failed" ELSE "passed"
         record == [end |-> end, rows |-> review.rows]
     IN /\ saved' = Put(saved, review.dep, record, w)
        /\ ledger' = IF Throws(w) THEN ledger ELSE Put(ledger, review.dep, record, w2)
        /\ review' = IF Throws(w) \/ Throws(w2) \/ ~told THEN [review EXCEPT !.at = "recover"]
                     ELSE [review EXCEPT !.at = "returned", !.returned = TRUE, !.ended = end]
  /\ UNCHANGED <<structured, durable, group, exit, scope, settled>>

-----------------------------------------------------------------------------
(* The supervisor after the executor *)

\* finalizeValidationExecutorCrash: a ledger that exists is the answer, else
\* the state file is closed as a crash
HasLedger == ledger[review.dep] # NoRecord
SavedRows == IF saved[review.dep] = NoRecord THEN Fresh ELSE saved[review.dep].rows
Crashed(rows) == Skip([i \in Steps |-> IF rows[i].st = "begun" THEN [rows[i] EXCEPT !.st = "crash"] ELSE rows[i]])
Recover(w, w2) ==
  /\ review.at \in {"recover", "accounted"}
  /\ LET next == IF review.at = "recover" THEN "accounted" ELSE "context"
         record == [end |-> "crash", rows |-> Crashed(SavedRows)]
     IN IF HasLedger
        THEN /\ w = "kept" /\ w2 = "kept"
             /\ review' = [review EXCEPT !.at = next] /\ UNCHANGED <<saved, ledger, lost>>
        ELSE /\ CountFaults(<<w, w2>>)
             /\ Throws(w) => w2 = "kept"
             /\ saved' = Put(saved, review.dep, record, w)
             /\ ledger' = IF Throws(w) THEN ledger ELSE Put(ledger, review.dep, record, w2)
             /\ review' = [review EXCEPT !.at = IF Throws(w) \/ Throws(w2) THEN "over" ELSE next]
  /\ UNCHANGED <<structured, durable, group, exit, scope, settled>>

\* onMatrixTerminationVerified: a normal return and no doubt about a process
Settles(row) == row.st \notin {"pending", "begun", "crash", "unsettled"} /\ row.dead # "no"
Account ==
  /\ review.at = "returned"
  /\ review' = [review EXCEPT !.at = "accounted",
                  !.verified = @ \/ (review.returned /\ \A i \in Steps : Settles(review.rows[i]))]
  /\ UNCHANGED <<structured, durable, group, exit, scope, saved, ledger, settled, lost>>

\* complete: what a ledger proves, or "none" when it proves nothing
Proves(l) ==
  IF \/ l.end \notin {"passed", "failed"}
     \/ \E i \in Steps : l.rows[i].st \in {"pending", "begun", "crash", "unsettled"}
                     \/ (l.rows[i].st # "skipped" /\ l.rows[i].dead # "yes")
  THEN "none"
  ELSE IF l.end = "passed" THEN IF \A i \in Steps : l.rows[i].st = "passed" THEN "passed" ELSE "none"
  ELSE IF \E i \in Steps : l.rows[i].st \in Bad THEN "failed" ELSE "none"

\* finishPiWorkflowMatrix, then the boundary again, then the reviewer
AsBefore(d) == scope = starts[d]
Capture ==
  /\ review.at = "context"
  /\ IF structured
     THEN IF Proves(ledger[review.dep]) # "none" /\ AsBefore(review.dep)
          THEN /\ results' = [results EXCEPT ![review.dep] = ledger[review.dep]]
               /\ review' = [review EXCEPT !.at = "captured"]
          ELSE review' = [review EXCEPT !.at = "over"] /\ UNCHANGED results
     ELSE review' = [review EXCEPT !.at = "captured"] /\ UNCHANGED results
  /\ UNCHANGED <<structured, marked, handoff, claims, active, starts, group, exit, scope, saved, ledger, settled, lost>>
StartReviewer ==
  /\ review.at = "captured"
  /\ IF structured => scope = Candidate
     THEN review' = [review EXCEPT !.at = "reviewing", !.shown = ledger[review.dep].end]
     ELSE review' = [review EXCEPT !.at = "over"]
  /\ UNCHANGED <<structured, durable, group, exit, scope, saved, ledger, settled, lost>>
\* cleanupVerified says whether the reviewer's own processes are gone
ReviewerEnds(clean) ==
  /\ review.at = "reviewing"
  /\ review' = [review EXCEPT !.at = "over", !.verified = @ /\ clean]
  /\ UNCHANGED <<structured, durable, group, exit, scope, saved, ledger, settled, lost>>

\* the terminal row, and the reservation when nothing is in doubt
Release ==
  /\ review.at = "over" /\ active' = active \ {review.dep}
  /\ review' = IF review.verified THEN Nobody ELSE [review EXCEPT !.at = "kept"]
  /\ UNCHANGED <<structured, marked, handoff, claims, starts, results, group, exit, scope, saved, ledger, settled, lost>>

Abort ==
  /\ review.at \in {"loop", "command", "ending"} /\ ~review.aborted
  /\ review' = [review EXCEPT !.aborted = TRUE]
  /\ UNCHANGED <<structured, durable, group, exit, scope, saved, ledger, settled, lost>>
\* the process ends between two steps; a sweep later records the terminal row
SupervisorDies ==
  /\ review.at \notin {"none", "kept", "dead"}
  /\ review' = [review EXCEPT !.at = "dead"]
  /\ UNCHANGED <<structured, durable, group, exit, scope, saved, ledger, settled, lost>>
Sweep ==
  /\ review.at = "dead" /\ active # {} /\ active' = {}
  /\ UNCHANGED <<structured, review, marked, handoff, claims, starts, results, group, exit, scope, saved, ledger, settled, lost>>

\* An edit of the candidate's worktree, by a command's process or an operator.
EditScope ==
  /\ scope + lost < MaxMishaps /\ scope' = scope + 1
  /\ UNCHANGED <<structured, review, durable, group, exit, saved, ledger, settled, lost>>

\* the workflow's owner: observe, verify and record under the locks
SettleMatrix(d) ==
  /\ structured /\ settled = "none"
  /\ {e \in Reviews : starts[e] # NoScope} = {d} /\ results[d] # NoRecord
  /\ results[d] = ledger[d] /\ AsBefore(d) /\ Proves(ledger[d]) # "none"
  /\ settled' = Proves(ledger[d])
  /\ UNCHANGED <<structured, review, durable, group, exit, scope, saved, ledger, lost>>

MatrixNext ==
  \/ \E d \in Reviews : Reserve(d) \/ SettleMatrix(d)
  \/ \E w \in Outcomes : MarkStarted(w) \/ StartCommand(w)
  \/ \E met \in Prerequisites : ClaimAndHandOver(met)
  \/ Consume \/ BeginMatrix \/ EnterMatrix
  \/ \E ok \in Preflights, w, w2 \in Outcomes : Preflight(ok, w, w2)
  \/ \E d \in Reviews, i \in Steps, how \in {"zero", "other"}, left \in BOOLEAN : CommandExits(d, i, how, left)
  \/ \E d \in Reviews, i \in Steps : GroupDies(d, i)
  \/ \E why \in StopReasons, dead \in Killed : StopCommand(why, dead)
  \/ \E kill \in BOOLEAN, artifacts \in Collections : CommandCloses(kill, artifacts)
  \/ \E w \in Outcomes, told \in BOOLEAN : CommandEnds(w, told)
  \/ \E w, w2 \in Outcomes, told \in BOOLEAN : Terminate(w, w2, told)
  \/ \E w, w2 \in Outcomes : Recover(w, w2)
  \/ Account \/ Capture \/ StartReviewer \/ \E clean \in BOOLEAN : ReviewerEnds(clean)
  \/ Release \/ Abort \/ SupervisorDies \/ Sweep \/ EditScope

MatrixSpec == MatrixInit /\ [][MatrixNext]_matrixVars

-----------------------------------------------------------------------------
(* Properties *)

MatrixTypeOK ==
  /\ structured \in BOOLEAN /\ review.dep \in Reviews \cup {NoReview} /\ review.shown \in {"none", "passed", "failed", "crash"}
  /\ review.at \in {"none", "reserved", "marked", "handed", "consumed", "begun", "admitted", "loop", "command", "ending",
                    "recover", "returned", "accounted", "context", "captured", "reviewing", "over", "kept", "dead"}
  /\ review.dep # NoReview => review.rows \in [Steps -> Entry]
  /\ marked \in [Reviews -> {"none", "torn", "full"}] /\ handoff \cup claims \cup active \subseteq Reviews
  /\ group \in [Reviews -> [Steps -> {"none", "run", "left", "gone"}]]
  /\ exit \in [Reviews -> [Steps -> {"none", "zero", "other", "killed"}]] /\ scope \in Scopes
  /\ starts \in [Reviews -> Scopes \cup {NoScope}]
  /\ \A f \in {saved, ledger, results} : \A d \in Reviews : f[d] \in Record \cup {NoRecord}
  /\ settled \in {"none", "passed", "failed"} /\ lost \in 0..MaxMishaps

Ran(d) == \E i \in Steps : group[d][i] # "none"

\* What the workflow records as a passed matrix, and what a ledger calls passed,
\* really happened: every command's process ended by itself with zero; the
\* workflow's was the only run of the matrix for its intent, and left no process.
ProvenRan ==
  /\ \A d \in Reviews : ledger[d].end = "passed" => \A i \in Steps : exit[d][i] = "zero"
  /\ structured => Cardinality({d \in Reviews : Ran(d)}) <= 1
  /\ settled = "passed" => \E d \in Reviews : \A i \in Steps : exit[d][i] = "zero" /\ group[d][i] = "gone"

\* The reviewer is told what the durable ledger says, and no later failure,
\* recovery or abort changes a ledger once written.
LedgerKept ==
  /\ \A d \in Reviews : ledger[d] # NoRecord => ledger'[d] = ledger[d]
  /\ review'.shown # "none" => review'.shown = ledger'[review'.dep].end

\* For a workflow's matrix the reservation of the candidate is given up only
\* when no process of any command can still write to it.
ReleasedQuiet ==
  structured => \A d \in Reviews, i \in Steps : review.dep # d => group[d][i] \in {"none", "gone"}
=============================================================================
