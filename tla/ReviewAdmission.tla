---------------------------- MODULE ReviewAdmission ----------------------------
(***************************************************************************)
(* What a protected review reads, and when, before it runs the approved    *)
(* commands: the static preflight (pi-pa/src/review-preflight.ts), the     *)
(* selection and reservation of the candidate (deploy.ts), the launch      *)
(* authority of the three matrix profiles (validation-launch.ts,           *)
(* review-v1-launch.ts), the timed NixOS session (nixos-prerequisites.ts)  *)
(* and the boundary the supervisor passes before the executor.             *)
(*                                                                         *)
(* Everything that is read may change between two reads: people edit       *)
(* artifacts, tickets and worktrees and update tools beside the program.   *)
(* Documents are compared as a whole with what the objective and Sinh's    *)
(* comments name (by digest), so an item is as approved or it is not.      *)
(* The preflight of `ppa deploy` accepts v1 objectives only: launches of   *)
(* the two older profiles come from callers that supply their own.         *)
(* ReviewMatrix goes on where this module ends.                            *)
(***************************************************************************)
EXTENDS Naturals, FiniteSets

CONSTANTS Launches,   \* of one objective, so of one authorization and baseline
          NoLaunch,
          Profiles,   \* subset of {"v1", "current", "nixos"}
          MaxDrifts   \* bound: changes of an item, away from the approved state or back

AdmissionAssumption ==
  /\ NoLaunch \notin Launches /\ "d-prescribed" \notin Launches
  /\ Profiles \subseteq {"v1", "current", "nixos"} /\ MaxDrifts \in Nat

\* The matrix artifact; Sinh's approval of it; the ticket's linked branch; the
\* readiness gate and the installed runtime it names; the candidate's branch,
\* head and status; tools and dependencies; the NixOS baseline with its approval.
Items == {"matrix", "approval", "link", "readiness", "tree", "host", "baseline"}

VARIABLES
  profile,   \* launch -> matrix profile
  drift,     \* items that are not as approved now
  drifts,    \* changes so far
  at,        \* launch -> where it stands
  probe,     \* launch -> steps taken of its NixOS session
  seen,      \* launch -> items it has ever read as approved
  fresh,     \* launch -> those read since its runner entered the boundary and,
             \* in a NixOS session, since the last observation began
  workspace, \* deployment -> the launch that created it
  journal,   \* deployment -> its matrix-started event: none, torn or full
  anchored,  \* deployments with a probe budget
  holder,    \* the launch that holds the candidate's reservation
  claim,     \* the launch that consumed the authorization
  active     \* that claim's deployment is not terminal

reviewVars == <<profile, drift, drifts, at, probe, seen, fresh, workspace, journal, anchored, holder, claim, active>>
world == <<profile, drift, drifts>>

\* A NixOS baseline prescribes the deployment of its consumer; others are new.
Prescribed == "d-prescribed"
Deployment(l) == IF profile[l] = "nixos" THEN Prescribed ELSE l
Deployments == Launches \cup {Prescribed}

AdmissionInit ==
  /\ profile \in [Launches -> Profiles] /\ drift = {} /\ drifts = 0
  /\ at = [l \in Launches |-> "asked"] /\ probe = [l \in Launches |-> 0]
  /\ seen = [l \in Launches |-> {}] /\ fresh = [l \in Launches |-> {}]
  /\ workspace = [d \in Deployments |-> NoLaunch] /\ journal = [d \in Deployments |-> "none"]
  /\ anchored = {} /\ holder = NoLaunch /\ claim = NoLaunch /\ active = FALSE

-----------------------------------------------------------------------------
(* What each reader rereads *)

\* a document is parsed strictly, and its raw bytes are compared by digest
VersionedMatrix == {"matrix"}
OlderMatrix == {"matrix"}
ReadinessGate == {"readiness"}
LinkedBranch == {"link"}

\* inspectReviewPreflight: ticket, artifact, approval, gates; nothing is created
StaticEvidence == VersionedMatrix \cup {"approval"} \cup LinkedBranch \cup ReadinessGate
\* assertPiApprovedReviewReference: the artifact by its path and digest, and the
\* comment that names both
ApprovedReference == OlderMatrix \cup {"approval"}
\* assertVersionedReviewReference
VersionedReference == VersionedMatrix \cup {"approval"} \cup LinkedBranch
Reference(l) == IF profile[l] = "v1" THEN VersionedReference ELSE ApprovedReference
\* rereadPiReviewCandidate: ticket, reference, lease, Git
Candidate(l) == LinkedBranch \cup {"tree"} \cup Reference(l)
\* authenticateVersionedReadiness, then evaluateVersionedPrerequisites
VersionedHost == {"readiness", "host"}
ToolHost == {"host"}
Host(l) == CASE profile[l] = "v1" -> VersionedHost [] profile[l] = "current" -> ToolHost [] OTHER -> {}
\* the raw baseline by its digest, and a comment of its own that binds its tuple
Baseline == {"baseline"}
\* authenticate: the baseline, the receipt, the matrix and its approval
NixosAuthority(l) == Baseline \cup ApprovedReference \cup (IF at[l] = "ready" THEN Candidate(l) ELSE {})
\* observe: the candidate, tools, inventory, stores, storage, the candidate again
NixosHost == {"tree", "host"}

\* Whatever must hold when the commands start.
Needed(l) == Candidate(l) \cup CASE profile[l] = "v1" -> VersionedHost [] profile[l] = "nixos" -> {"baseline", "host"} [] OTHER -> {}

Holds(items) == items \cap drift = {}
Reads(l, items) ==
  /\ seen' = [seen EXCEPT ![l] = @ \cup items]
  /\ fresh' = [fresh EXCEPT ![l] = @ \cup items]
Goes(l, next) == at' = [at EXCEPT ![l] = next]
\* completeFailure and the runner's admitted: false - no command was started, so
\* the reservation is released with the terminal row, which also ends the claim
Ends(l) ==
  /\ Goes(l, "refused")
  /\ holder' = IF holder = l THEN NoLaunch ELSE holder
  /\ active' = (active /\ claim # l)
Refuse(l) == Ends(l) /\ UNCHANGED <<world, probe, seen, fresh, workspace, journal, anchored, claim>>
\* a step that only reads: on to the next one, or refused
Check(l, from, items, next) ==
  /\ at[l] = from
  /\ IF Holds(items)
     THEN Reads(l, items) /\ Goes(l, next) /\ UNCHANGED <<world, probe, workspace, journal, anchored, holder, claim, active>>
     ELSE Refuse(l)

-----------------------------------------------------------------------------
(* The launcher *)

\* the static preflight, before an identifier or a directory exists
Gate(l) == Check(l, "asked", IF profile[l] = "v1" THEN StaticEvidence ELSE {}, "gated")

\* approvedPiNixosDeploymentId: the prospective identity has no history, and its
\* directory is created exclusively
WorkspaceNew(d) == workspace[d] = NoLaunch
Allocate(l) ==
  /\ at[l] = "gated"
  /\ IF profile[l] = "nixos" => (Holds(Baseline \cup ApprovedReference) /\ claim = NoLaunch /\ WorkspaceNew(Prescribed))
     THEN /\ workspace' = [workspace EXCEPT ![Deployment(l)] = l] /\ Goes(l, "allocated")
          /\ UNCHANGED <<world, probe, seen, fresh, journal, anchored, holder, claim, active>>
     ELSE Refuse(l)

\* authorizePiReviewSelection and selectPiReviewCandidateBeforePlanning
Select(l) == Check(l, "allocated", Candidate(l) \cup (IF profile[l] = "v1" THEN StaticEvidence ELSE {}), "selected")
\* reserveRepositoryReview, with a reread under the lock of the worktree
Reserve(l) ==
  /\ at[l] = "selected"
  /\ IF Holds(Candidate(l)) /\ holder = NoLaunch
     THEN /\ Reads(l, Candidate(l)) /\ Goes(l, "reserved") /\ holder' = l
          /\ UNCHANGED <<world, probe, workspace, journal, anchored, claim, active>>
     ELSE Refuse(l)
\* the plan is checked against the reservation, the started row appended
Plan(l) == Check(l, "reserved", Candidate(l), "planned")
\* createPiProtectedValidationLaunch, in the lock: the authority is read again
Authorize(l) == Check(l, "planned", Candidate(l) \cup (IF profile[l] = "v1" THEN StaticEvidence ELSE {}), "authorized")
\* the candidate's Git identity and snapshot, the durable link; the NixOS probe
\* budget is anchored once
Unanchored(l) == Deployment(l) \notin anchored
Snapshot(l) ==
  /\ at[l] = "authorized"
  /\ IF Holds({"tree"} \cup (IF profile[l] = "v1" THEN {} ELSE LinkedBranch)) /\ Unanchored(l)
     THEN /\ anchored' = IF profile[l] = "nixos" THEN anchored \cup {Deployment(l)} ELSE anchored
          /\ Goes(l, "captured") /\ UNCHANGED <<world, probe, seen, fresh, workspace, journal, holder, claim, active>>
     ELSE Refuse(l)

\* writePiMatrixStartedEvent: exclusive, synced and read back, or torn; an event
\* that exists is accepted when it is this launch's own
MarkStarted(l, whole) ==
  /\ at[l] = "captured"
  /\ journal' = [journal EXCEPT ![Deployment(l)] = IF @ # "none" THEN @ ELSE IF whole THEN "full" ELSE "torn"]
  /\ IF journal'[Deployment(l)] = "full" THEN Goes(l, "marked") /\ UNCHANGED <<holder, active>> ELSE Ends(l)
  /\ UNCHANGED <<world, probe, seen, fresh, workspace, anchored, claim>>

\* the live prerequisites, tools and packages; NixOS probes come after the claim
Prerequisites(l) == Check(l, "marked", Host(l), "met")
\* claimReviewAuthorization: one transaction
Unclaimed == claim = NoLaunch /\ ~active
Claim(l) ==
  /\ at[l] = "met"
  /\ IF Unclaimed
     THEN /\ claim' = l /\ active' = TRUE
          /\ Goes(l, IF profile[l] = "nixos" THEN "probing" ELSE "admitted")
          /\ UNCHANGED <<world, probe, seen, fresh, workspace, journal, anchored, holder>>
     ELSE Refuse(l)

-----------------------------------------------------------------------------
(* The NixOS session: authenticate, observe, authenticate, observe,          *)
(* authenticate; each within its own and the common deadline                 *)

\* Mutant: nothing is authenticated after the last observation.
FourSteps == 4
\* verify takes two steps, executeImmediately three, then starts without an await
LastStep == 5
\* a probe ends in time, or it or the whole budget has run out
InTime == BOOLEAN
\* rereadAuthority: the receipt is this deployment's and active
OwnReceipt(l) == claim = l /\ active /\ Deployment(l) \in anchored
Session(l, from, next, intime) ==
  /\ at[l] = from /\ probe[l] < LastStep
  /\ LET items == IF probe[l] % 2 = 0 THEN NixosAuthority(l) ELSE NixosHost IN
     IF Holds(items) /\ OwnReceipt(l) /\ intime
     THEN /\ seen' = [seen EXCEPT ![l] = @ \cup items]
          /\ fresh' = [fresh EXCEPT ![l] = IF probe[l] % 2 = 0 THEN @ \cup items ELSE items]
          /\ probe' = [probe EXCEPT ![l] = IF @ + 1 = LastStep /\ next = "admitted" THEN 0 ELSE @ + 1]
          /\ Goes(l, IF probe[l] + 1 = LastStep THEN next ELSE from)
          /\ UNCHANGED <<world, workspace, journal, anchored, holder, claim, active>>
     ELSE Refuse(l)
LauncherSession(l, intime) == Session(l, "probing", "admitted", intime)

-----------------------------------------------------------------------------
(* From the launcher to the runner *)

\* what revalidateVersionedReview reads besides the candidate
Boundary(l) == Candidate(l) \cup (IF profile[l] = "v1" THEN StaticEvidence \cup VersionedHost ELSE {})
MayPass(l) == holder = l /\ journal[Deployment(l)] = "full" /\ (profile[l] = "v1" => claim = l /\ active)
\* the boundary of the launcher, then the handoff file and the spawn
HandOver(l) ==
  IF MayPass(l) THEN Check(l, "admitted", Boundary(l), "handed") ELSE at[l] = "admitted" /\ Refuse(l)
\* the runner unlinks the handoff whatever it says; from here all is read anew
Consume(l) ==
  /\ at[l] = "handed"
  /\ IF journal[Deployment(l)] = "full"
     THEN /\ Goes(l, "consumed") /\ probe' = [probe EXCEPT ![l] = 0] /\ fresh' = [fresh EXCEPT ![l] = {}]
          /\ UNCHANGED <<world, seen, workspace, journal, anchored, holder, claim, active>>
     ELSE Refuse(l)
\* beforeExecute: the boundary in the runner, under the lock of the worktree
EnterMatrix(l) ==
  IF MayPass(l) THEN Check(l, "consumed", Boundary(l), IF profile[l] = "nixos" THEN "ready" ELSE "running")
                ELSE at[l] = "consumed" /\ Refuse(l)
\* revalidateNixosPrerequisites: a session of its own, with the boundary in each
\* of its authentications
RunnerSession(l, intime) == Session(l, "ready", "running", intime)

\* the commands end and the reviewer with them; ReviewMatrix says how
Finish(l) ==
  /\ at[l] = "running" /\ Goes(l, "over") /\ holder' = NoLaunch /\ active' = FALSE
  /\ UNCHANGED <<world, probe, seen, fresh, workspace, journal, anchored, claim>>
\* launcher or runner dies between two steps: its reservation stays, and a sweep
\* later records the terminal row
Dies(l) ==
  /\ at[l] \notin {"asked", "refused", "over", "dead"} /\ Goes(l, "dead")
  /\ UNCHANGED <<world, probe, seen, fresh, workspace, journal, anchored, holder, claim, active>>
Sweep(l) ==
  /\ at[l] = "dead" /\ claim = l /\ active /\ active' = FALSE
  /\ UNCHANGED <<world, at, probe, seen, fresh, workspace, journal, anchored, holder, claim>>

\* Somebody changes an item, or restores it.
Drift(i) ==
  /\ drifts < MaxDrifts /\ drifts' = drifts + 1
  /\ drift' = IF i \in drift THEN drift \ {i} ELSE drift \cup {i}
  /\ UNCHANGED <<profile, at, probe, seen, fresh, workspace, journal, anchored, holder, claim, active>>

AdmissionNext ==
  \/ \E l \in Launches :
       \/ Gate(l) \/ Allocate(l) \/ Select(l) \/ Reserve(l) \/ Plan(l) \/ Authorize(l) \/ Snapshot(l)
       \/ \E whole \in BOOLEAN : MarkStarted(l, whole)
       \/ Prerequisites(l) \/ Claim(l) \/ HandOver(l) \/ Consume(l) \/ EnterMatrix(l)
       \/ \E intime \in InTime : LauncherSession(l, intime) \/ RunnerSession(l, intime)
       \/ Finish(l) \/ Dies(l) \/ Sweep(l)
  \/ \E i \in Items : Drift(i)

AdmissionSpec == AdmissionInit /\ [][AdmissionNext]_reviewVars

-----------------------------------------------------------------------------
(* Properties *)

AdmissionTypeOK ==
  /\ profile \in [Launches -> Profiles] /\ drift \subseteq Items /\ drifts \in 0..MaxDrifts
  /\ at \in [Launches -> {"asked", "gated", "allocated", "selected", "reserved", "planned", "authorized", "captured", "marked",
                          "met", "probing", "admitted", "handed", "consumed", "ready", "running", "over", "refused", "dead"}]
  /\ probe \in [Launches -> 0..LastStep] /\ seen \in [Launches -> SUBSET Items] /\ fresh \in [Launches -> SUBSET Items]
  /\ workspace \in [Deployments -> Launches \cup {NoLaunch}] /\ journal \in [Deployments -> {"none", "torn", "full"}]
  /\ anchored \subseteq Deployments /\ holder \in Launches \cup {NoLaunch} /\ claim \in Launches \cup {NoLaunch} /\ active \in BOOLEAN

\* Commands run only for what their runner itself read as approved, since its
\* boundary and with nothing awaited in between, under its own reservation and
\* with an authorization its launch consumed and whose review is not over.
RunsAsApproved ==
  \A l \in Launches : at[l] = "running" => Needed(l) \subseteq fresh[l] /\ holder = l /\ claim = l /\ active

\* The authorization is consumed by a launch that is counted durably first and,
\* save for NixOS probes, only on a host that meets the prerequisites; a
\* prescribed deployment belongs to one launch, however many ask for it.
ClaimAccounted ==
  /\ claim # NoLaunch =>
       /\ journal[Deployment(claim)] = "full" /\ workspace[Deployment(claim)] = claim
       /\ Host(claim) \cup Candidate(claim) \subseteq seen[claim]
  /\ \A l \in Launches : at[l] \notin {"asked", "gated", "refused", "dead"} => workspace[Deployment(l)] = l
================================================================================
