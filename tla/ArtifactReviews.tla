----------------------------- MODULE ArtifactReviews -----------------------------
(***************************************************************************)
(* The review session of one rendered artifact: the commands that start,   *)
(* stop and consume it (pa-core/src/artifacts/session.ts), the supervisor  *)
(* process that serves it to a browser (supervisor.ts), the journal of     *)
(* feedback and its export (feedback.ts) and the session's private record  *)
(* and lock (runtime.ts).                                                  *)
(*                                                                         *)
(* The lock is tried, never waited for: whoever finds it held fails.  A    *)
(* critical section is therefore one action, and a section that found the  *)
(* lock held is the same action with "busy" set.                           *)
(***************************************************************************)
EXTENDS Naturals, Sequences, FiniteSets

CONSTANTS Commands,    \* processes that run an artifact command
          Supervisors, \* supervisor processes
          Requests,    \* requests of the browser
          Events,      \* feedback events
          Nothing,
          MaxStarts,   \* bound on the generations of the session
          MaxBusy,     \* bound on the sections that find the lock held
          MaxFaults    \* bound on crashes and changes of the artifact

\* what the constants must satisfy: the instances assume it
ArtifactAssumption ==
  /\ Nothing \notin Supervisors \cup Events
  /\ MaxStarts \in Nat /\ MaxBusy \in Nat /\ MaxFaults \in Nat

VARIABLES
  record,  \* owner.json: state, generation (token), supervisor that claimed it
  expired, \* the start deadline of the record has passed
  command, \* what each command does
  sup,     \* each supervisor: phase, generation, the state it knows, how it closes
  request, \* each request: waiting for its body, at which supervisor, for what
  journal, \* journal.json
  export,  \* the output file of the feedback
  acked,   \* events acknowledged to the browser
  ended,   \* the end of the review was acknowledged
  owner,   \* the deployment that owns the session is alive
  fresh,   \* the artifact still is what was rendered
  busied, faults

artifactVars == <<record, expired, command, sup, request, journal, export, acked, ended, owner, fresh, busied, faults>>

NoRecord == [state |-> "none", gen |-> 0, by |-> Nothing]
Unborn == [at |-> "unborn", gen |-> 0, knows |-> "none", closes |-> "none", asked |-> FALSE, frozen |-> FALSE]
Quiet == [at |-> "idle", by |-> Nothing, what |-> Nothing]

ArtifactInit ==
  /\ record = NoRecord /\ expired = FALSE
  /\ command = [c \in Commands |-> [at |-> "idle", gen |-> 0]]
  /\ sup = [s \in Supervisors |-> Unborn]
  /\ request = [r \in Requests |-> Quiet]
  /\ journal = <<>> /\ export = <<>> /\ acked = {} /\ ended = FALSE
  /\ owner = TRUE /\ fresh = TRUE /\ busied = 0 /\ faults = 0

Lock(busy) == busied' = busied + (IF busy THEN 1 ELSE 0) /\ busied' <= MaxBusy
Fault == faults < MaxFaults /\ faults' = faults + 1
world == <<owner, fresh, faults>>
feedback == <<journal, export, acked, ended>>

\* processBirth: the supervisor the record names is still that process
Living(s) == s # Nothing /\ sup[s].at \notin {"unborn", "dead"}
Alive == record.by \in Supervisors /\ Living(record.by)
Phase(s, at) == sup' = [sup EXCEPT ![s].at = at]
SameGeneration(s) == record.gen = sup[s].gen /\ record.by = s

-----------------------------------------------------------------------------
(* The commands *)

\* A starting record nobody claimed is another start's until its deadline.
Pending == record.state = "starting" /\ record.by = Nothing /\ ~expired
Joins == Pending \/ (record.state \in {"starting", "running"} /\ Alive)
\* a restart keeps the entire acknowledged journal
Emptied == <<>>
Retained == journal

StartReview(c, busy) ==
  /\ command[c].at = "idle" /\ fresh /\ owner /\ Lock(busy)
  /\ IF busy \/ record.state = "ended"
     THEN UNCHANGED <<record, expired, command, journal>>
     ELSE IF Joins
     THEN /\ command' = [command EXCEPT ![c] = [at |-> "waiting", gen |-> record.gen]]
          /\ UNCHANGED <<record, expired, journal>>
     ELSE /\ record.gen < MaxStarts
          /\ record' = [state |-> "starting", gen |-> record.gen + 1, by |-> Nothing]
          /\ expired' = FALSE /\ journal' = Retained
          /\ command' = [command EXCEPT ![c] = [at |-> "launching", gen |-> record.gen + 1]]
  /\ UNCHANGED <<sup, request, export, acked, ended, world>>

LaunchSupervisor(c, s) ==
  /\ command[c].at = "launching" /\ sup[s] = Unborn
  /\ Phase(s, "launched") /\ command' = [command EXCEPT ![c].at = "waiting"]
  /\ UNCHANGED <<record, expired, request, feedback, world, busied>>

\* the session runs, was replaced, or ended: the wait is over
Admitted(c) ==
  /\ command[c].at = "waiting"
  /\ \/ record.gen # command[c].gen \/ record.state \in {"stopped", "ended"}
     \/ record.state = "running" /\ Alive /\ fresh
  /\ command' = [command EXCEPT ![c].at = "idle"]
  /\ UNCHANGED <<record, expired, sup, request, feedback, world, busied>>

\* cleanupDeadReview, under the lock, of the generation and state that was read
CleanUpDead(busy) ==
  IF busy \/ record.state \notin {"starting", "running"} \/ Alive \/ Pending
  THEN UNCHANGED record ELSE record' = [record EXCEPT !.state = "stopped"]

\* control/stop: answered first, the close follows
AskStop == sup' = [sup EXCEPT ![record.by].asked = (sup[record.by].at = "serving")]

\* the wait timed out, or what runs is no longer the artifact
GiveUp(c, busy) ==
  /\ command[c].at = "waiting" /\ record.gen = command[c].gen
  /\ record.state \in {"starting", "running"} /\ Lock(busy)
  /\ command' = [command EXCEPT ![c].at = "idle"]
  /\ IF Alive THEN AskStop /\ UNCHANGED record ELSE CleanUpDead(busy) /\ UNCHANGED sup
  /\ UNCHANGED <<expired, request, feedback, world>>

StopReview(c, busy) ==
  /\ command[c].at = "idle" /\ record.state \in {"starting", "running"} /\ Lock(busy)
  /\ IF Alive THEN AskStop /\ UNCHANGED record ELSE CleanUpDead(busy) /\ UNCHANGED sup
  /\ UNCHANGED <<expired, command, request, feedback, world>>

\* consumeFeedback: published without clobbering, identical bytes again are fine
ConsumeFeedback(c) ==
  /\ command[c].at = "idle" /\ record # NoRecord /\ fresh /\ journal # <<>> /\ export = <<>>
  /\ export' = journal
  /\ UNCHANGED <<record, expired, command, sup, request, journal, acked, ended, world, busied>>

-----------------------------------------------------------------------------
(* The supervisor *)

ReadRecord(s) ==
  /\ sup[s].at = "launched"
  /\ sup' = [sup EXCEPT ![s] = IF record.state = "starting" /\ record.by = Nothing /\ owner /\ fresh
                               THEN [@ EXCEPT !.at = "read", !.gen = record.gen] ELSE [@ EXCEPT !.at = "dead"]]
  /\ UNCHANGED <<record, expired, command, request, feedback, world, busied>>

Claimable(s) == record.state = "starting" /\ record.by = Nothing /\ record.gen = sup[s].gen /\ ~expired
Claim(s, busy) ==
  /\ sup[s].at = "read" /\ Lock(busy)
  /\ IF ~busy /\ Claimable(s)
     THEN record' = [record EXCEPT !.by = s] /\ sup' = [sup EXCEPT ![s].at = "claimed", ![s].knows = "starting"]
     ELSE Phase(s, "dead") /\ UNCHANGED record
  /\ UNCHANGED <<expired, command, request, feedback, world>>

\* publish: only over the record this supervisor left behind
Publishable(s) == SameGeneration(s) /\ record.state = sup[s].knows

\* its files are read, the port is bound, "running" is published; else it closes
Serve(s, ready, busy) ==
  /\ sup[s].at = "claimed" /\ Lock(busy)
  /\ IF ready /\ ~expired /\ ~busy /\ Publishable(s)
     THEN record' = [record EXCEPT !.state = "running"] /\ sup' = [sup EXCEPT ![s].at = "serving", ![s].knows = "running"]
     ELSE sup' = [sup EXCEPT ![s].at = "closing", ![s].closes = "stopped"] /\ UNCHANGED record
  /\ UNCHANGED <<expired, command, request, feedback, world>>

\* the interval: the owner is gone, or nobody used the session for long
OwnerGone == ~owner
Tick(s, idle) ==
  /\ sup[s].at = "serving"
  /\ \/ (OwnerGone \/ idle) /\ sup' = [sup EXCEPT ![s].at = "closing", ![s].closes = "stopped"]
     \/ ~OwnerGone /\ ~idle /\ ~fresh /\ ~sup[s].frozen /\ sup' = [sup EXCEPT ![s].frozen = TRUE]
  /\ UNCHANGED <<record, expired, command, request, feedback, world, busied>>

\* the timer after a stop or an end was answered
CloseAsked(s) ==
  /\ sup[s].at = "serving" /\ sup[s].asked
  /\ sup' = [sup EXCEPT ![s].at = "closing", ![s].closes = IF @ = "none" THEN "stopped" ELSE @]
  /\ UNCHANGED <<record, expired, command, request, feedback, world, busied>>

\* the state a close leaves: what the user ended stays ended
LeftAs(closes) == IF record.state = "ended" THEN "ended" ELSE closes

Closed(s, busy) ==
  /\ sup[s].at = "closing" /\ Lock(busy)
  /\ record' = IF ~busy /\ Publishable(s) THEN [record EXCEPT !.state = LeftAs(sup[s].closes)] ELSE record
  /\ Phase(s, "dead")
  /\ request' = [r \in Requests |-> IF request[r].by = s THEN Quiet ELSE request[r]]
  /\ UNCHANGED <<expired, command, feedback, world>>

-----------------------------------------------------------------------------
(* The browser *)

Accepts(s) == sup[s].at = "serving" /\ sup[s].knows = "running" /\ owner
Usable(s, what) == what # "end" => fresh /\ ~sup[s].frozen

\* handle: the first checks, then the body is awaited
Post(r, s, what) ==
  /\ request[r].at = "idle" /\ Accepts(s) /\ Usable(s, what)
  /\ request' = [request EXCEPT ![r] = [at |-> "body", by |-> s, what |-> what]]
  /\ UNCHANGED <<record, expired, command, sup, feedback, world, busied>>

\* the body is there: everything is checked again
Recheck(r) == Accepts(request[r].by) /\ Usable(request[r].by, request[r].what)

Written == {journal[i] : i \in DOMAIN journal}
\* appendFeedback: durable before it is acknowledged; a known event is not repeated
Receive(r) ==
  LET e == request[r].what IN
  /\ request[r].at = "body" /\ e # "end"
  /\ request' = [request EXCEPT ![r] = Quiet]
  /\ IF Recheck(r)
     THEN /\ journal' = IF e \in Written THEN journal ELSE Append(journal, e)
          /\ acked' = acked \cup {e}
     ELSE UNCHANGED <<journal, acked>>
  /\ UNCHANGED <<record, expired, command, sup, export, ended, world, busied>>

\* api/end: the tombstone is published before the answer, the close follows
EndReview(r, busy) ==
  LET s == request[r].by IN
  /\ request[r].at = "body" /\ request[r].what = "end" /\ Lock(busy)
  /\ request' = [request EXCEPT ![r] = Quiet]
  /\ IF Recheck(r) /\ ~busy /\ Publishable(s)
     THEN /\ record' = [record EXCEPT !.state = "ended"] /\ ended' = TRUE
          /\ sup' = [sup EXCEPT ![s].knows = "ended", ![s].asked = TRUE,
                                ![s].closes = IF sup[s].asked THEN "stopped" ELSE "ended"]
     ELSE UNCHANGED <<record, ended, sup>>
  /\ UNCHANGED <<expired, command, journal, export, acked, world>>

-----------------------------------------------------------------------------
(* Everything else *)

Expire == Pending /\ expired' = TRUE
          /\ UNCHANGED <<record, command, sup, request, feedback, world, busied>>

SupervisorDies(s) ==
  /\ Living(s) /\ Fault /\ Phase(s, "dead")
  /\ request' = [r \in Requests |-> IF request[r].by = s THEN Quiet ELSE request[r]]
  /\ UNCHANGED <<record, expired, command, feedback, owner, fresh, busied>>
CommandDies(c) ==
  /\ command[c].at # "idle" /\ Fault /\ command' = [command EXCEPT ![c].at = "idle"]
  /\ UNCHANGED <<record, expired, sup, request, feedback, owner, fresh, busied>>
OwnerDies ==
  /\ owner /\ owner' = FALSE /\ UNCHANGED <<record, expired, command, sup, request, feedback, fresh, busied, faults>>
ArtifactChanges ==
  /\ Fault /\ fresh' = ~fresh /\ UNCHANGED <<record, expired, command, sup, request, feedback, owner, busied>>

ArtifactNext ==
  \/ \E c \in Commands : \/ Admitted(c) \/ ConsumeFeedback(c) \/ CommandDies(c)
                         \/ \E s \in Supervisors : LaunchSupervisor(c, s)
                         \/ \E busy \in BOOLEAN : StartReview(c, busy) \/ GiveUp(c, busy) \/ StopReview(c, busy)
  \/ \E s \in Supervisors : \/ ReadRecord(s) \/ CloseAsked(s) \/ SupervisorDies(s)
                            \/ \E busy \in BOOLEAN : Claim(s, busy) \/ Closed(s, busy)
                            \/ \E ready, busy \in BOOLEAN : Serve(s, ready, busy)
                            \/ \E idle \in BOOLEAN : Tick(s, idle)
                            \/ \E r \in Requests, what \in Events \cup {"end"} : Post(r, s, what)
  \/ \E r \in Requests : Receive(r) \/ \E busy \in BOOLEAN : EndReview(r, busy)
  \/ Expire \/ OwnerDies \/ ArtifactChanges

\* Timers and pending closes of a live process run; its start-up does not hang.
ArtifactFairness ==
  \A s \in Supervisors : /\ WF_artifactVars(Tick(s, FALSE)) /\ WF_artifactVars(Closed(s, FALSE))
                         /\ WF_artifactVars(Serve(s, TRUE, FALSE))

ArtifactSpec == ArtifactInit /\ [][ArtifactNext]_artifactVars /\ ArtifactFairness

-----------------------------------------------------------------------------
(* What must hold *)

\* Every variable has its type.
ArtifactTypeOK ==
  /\ record \in [state : {"none", "starting", "running", "stopped", "ended"}, gen : 0..MaxStarts, by : {Nothing} \cup Supervisors]
  /\ expired \in BOOLEAN /\ command \in [Commands -> [at : {"idle", "launching", "waiting"}, gen : 0..MaxStarts]]
  /\ sup \in [Supervisors -> [at : {"unborn", "launched", "read", "claimed", "serving", "closing", "dead"}, gen : 0..MaxStarts,
                              knows : {"none", "starting", "running", "ended"}, closes : {"none", "stopped", "ended"},
                              asked : BOOLEAN, frozen : BOOLEAN]]
  /\ \A r \in Requests : request[r] = Quiet \/ Living(request[r].by)
  /\ acked \subseteq Events /\ ended \in BOOLEAN /\ owner \in BOOLEAN /\ fresh \in BOOLEAN

\* What the user ended is never served again: once the end was acknowledged the
\* record stays ended, whichever stop, crash, cleanup or restart races it (publish).
EndedForGood == ended => record.state = "ended"

\* Only the supervisor the record names serves the session and writes its
\* journal, and nothing acknowledged or exported is lost when a session is
\* restarted (sameReviewGeneration, appendFeedback, exportFeedback).
SoleServer ==
  /\ \A s \in Supervisors : sup[s].at = "serving" => record.by = s /\ record.gen = sup[s].gen
  /\ acked \subseteq Written /\ export = SubSeq(journal, 1, Len(export))

\* A session does not outlive the deployment that owns it: its server closes
\* although no command ever stops it (superviseReview's interval).
ServerFollowsOwner == ~owner ~> \A s \in Supervisors : sup[s].at # "serving"
=============================================================================
