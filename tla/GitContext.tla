------------------------------ MODULE GitContext ------------------------------
(* The Git panel of the Pi extension: the reference the operator compares     *)
(* with, its collection in the background, and the choice kept on disk.       *)
(* Collections and saves are awaited, so a selection, a shutdown or a new     *)
(* session falls between their start and their end.  A collection reads the   *)
(* repository at once; what it computes of commits and files is left out.     *)
EXTENDS Naturals, Sequences, FiniteSets, RefreshLimiter

CONSTANTS Refs,          \* branches the repository may have
          NoRef,
          Fallbacks,     \* the default branch, develop, origin/develop
          MaxRevision,   \* bound on the collection revision
          MaxGeneration  \* bound on the session generation

\* what the constants must satisfy: the instances assume it
GitContextAssumption ==
  /\ NoRef \notin Refs /\ Fallbacks \in Seq(Refs)
  /\ MaxRevision \in Nat /\ MaxGeneration \in Nat

VARIABLES
  refs,       \* branches the repository has
  saved,      \* the reference of the state file
  shown,      \* what the panel shows
  input,      \* the reference asked for explicitly
  revision, generation,
  closed,     \* disposed
  limiter,    \* of the current session
  flights,    \* collections under way
  overlay,    \* the panel: "none", "open" or "hidden"
  making,     \* generations whose overlay is being made
  chooser,    \* snapshot whose branches the open selector offers
  saving      \* selections being written

gitContextVars == <<refs, saved, shown, input, revision, generation, closed, limiter,
                    flights, overlay, making, chooser, saving>>
panel == <<overlay, making>>
repository == <<refs, saved>>

\* A snapshot; every branch it offers was one of Refs, and may be gone by now.
NoSnap == [ref |-> NoRef, asked |-> NoRef]
Shows(is) == [is |-> is, ref |-> NoRef, snap |-> NoSnap]
Ready(snap) == [is |-> "ready", ref |-> snap.ref, snap |-> snap]

GitContextInit ==
  /\ refs = Refs /\ saved = NoRef
  /\ shown = Shows("unavailable") /\ input = NoRef
  /\ revision = 0 /\ generation = 0 /\ closed = FALSE
  /\ limiter = NewLimiter /\ flights = {}
  /\ overlay = "none" /\ making = {} /\ chooser = NoSnap /\ saving = {}

-----------------------------------------------------------------------------
(* Collections *)

\* resolveGitReference: an explicit choice or none, else the first that exists
FirstPresent(order) ==
  LET here == {i \in DOMAIN order : order[i] \in refs}
  IN IF here = {} THEN NoRef ELSE order[CHOOSE i \in here : \A j \in here : i <= j]
Resolved(asked) ==
  IF asked # NoRef THEN (IF asked \in refs THEN asked ELSE NoRef)
  ELSE FirstPresent(<<saved>> \o Fallbacks)

\* A deadline or a Git error keeps the last snapshot, and says that it is old.
Retained(previous) ==
  IF previous = NoSnap THEN Shows("failed") ELSE [Ready(previous) EXCEPT !.is = "stale"]

\* "named": no repository, a detached or unborn head, no merge base
Answers(f) ==
  LET ref == Resolved(f.asked)
      answer == IF ref = NoRef THEN Shows("failed")
                ELSE Ready([ref |-> ref, asked |-> f.asked])
  IN {answer, Shows("failed"), Retained(f.previous)}

\* collections to come begin with what the panel holds now
Begun(l) == IF Fires(l)
  THEN {[gen |-> generation, rev |-> revision, asked |-> input, previous |-> shown.snap]} ELSE {}

\* the revision is not looked at again after the await
SameSession(f) == ~closed /\ f.gen = generation
StillAsked(f) == ~closed /\ f.gen = generation /\ f.rev = revision

\* a scheduler that does not look for waiting requests when a refresh ends
SettledOnly(l) == [l EXCEPT !.running = FALSE]
Rescheduled(l) == Scheduled(l)

Collected(f) ==
  /\ f \in flights
  /\ \E next \in Answers(f) : shown' = IF StillAsked(f) THEN next ELSE shown
  /\ IF f.gen = generation
     THEN LET l == Settled(limiter) IN
       /\ limiter' = Rescheduled(l)
       /\ flights' = (flights \ {f}) \cup
            (IF limiter'.running
             THEN {[gen |-> generation, rev |-> revision, asked |-> input, previous |-> shown'.snap]} ELSE {})
     ELSE limiter' = limiter /\ flights' = flights \ {f}
  /\ UNCHANGED <<repository, input, revision, generation, closed, panel, chooser, saving>>

IntervalEnds ==
  /\ ~limiter.due
  /\ LET l == Elapsed(limiter) IN
       limiter' = Scheduled(l) /\ flights' = flights \cup Begun(l)
  /\ UNCHANGED <<repository, shown, input, revision, generation, closed, panel, chooser, saving>>

\* requestRefresh, in a step that changes nothing a refresh captures
RequestRefresh ==
  LET l == Requested(limiter) IN limiter' = Scheduled(l) /\ flights' = flights \cup Begun(l)

-----------------------------------------------------------------------------
(* The selector *)

OpenSelector ==
  /\ overlay = "open" /\ ~closed /\ chooser = NoSnap
  /\ shown.is \in {"ready", "stale"}
  /\ chooser' = shown.snap
  /\ UNCHANGED <<repository, shown, input, revision, generation, closed, limiter, flights, panel, saving>>

CancelSelector ==
  /\ chooser # NoSnap /\ chooser' = NoSnap
  /\ UNCHANGED <<repository, shown, input, revision, generation, closed, limiter, flights, panel, saving>>

Choose(r) ==
  /\ chooser # NoSnap /\ revision + Cardinality(saving) + 2 <= MaxRevision
  /\ saving' = saving \cup {[ref |-> r, gen |-> generation, rev |-> revision,
                             shown |-> shown, input |-> input]}
  /\ input' = r /\ revision' = revision + 1
  /\ shown' = [is |-> "pending", ref |-> r, snap |-> chooser]
  /\ chooser' = NoSnap
  /\ UNCHANGED <<repository, generation, closed, limiter, flights, panel>>

SaveSucceeds(s) ==
  /\ s \in saving /\ saving' = saving \ {s}
  /\ saved' = s.ref
  /\ IF ~closed /\ s.gen = generation THEN RequestRefresh ELSE UNCHANGED <<limiter, flights>>
  /\ UNCHANGED <<refs, shown, input, revision, generation, closed, panel, chooser>>

\* the panel goes back to what it showed, and to what it asked for
SaveFails(s) ==
  /\ s \in saving /\ saving' = saving \ {s}
  /\ IF ~closed /\ s.gen = generation
     THEN revision' = revision + 1 /\ input' = s.input /\ shown' = s.shown
     ELSE UNCHANGED <<revision, input, shown>>
  /\ UNCHANGED <<repository, generation, closed, limiter, flights, panel, chooser>>

-----------------------------------------------------------------------------
(* The panel and the session *)

Toggle ==
  /\ closed' = FALSE
  /\ IF overlay = "none"
     THEN making' = making \cup {generation} /\ UNCHANGED <<overlay, chooser>>
     ELSE /\ overlay' = IF overlay = "open" THEN "hidden" ELSE "open"
          /\ chooser' = IF overlay = "open" THEN NoSnap ELSE chooser
          /\ making' = making
  /\ UNCHANGED <<repository, shown, input, revision, generation, limiter, flights, saving>>

OverlayMade(g) ==
  /\ g \in making /\ making' = making \ {g}
  /\ IF ~closed /\ g = generation
     THEN overlay' = "open" /\ RequestRefresh
     ELSE UNCHANGED <<overlay, limiter, flights>>
  /\ UNCHANGED <<repository, shown, input, revision, generation, closed, chooser, saving>>

OverlayFails(g) ==
  /\ g \in making /\ making' = making \ {g}
  /\ UNCHANGED <<repository, shown, input, revision, generation, closed, limiter, flights, overlay, chooser, saving>>

\* a turn ends, or the session tree moves
SessionEvent ==
  /\ overlay # "none" /\ ~closed
  /\ RequestRefresh
  /\ UNCHANGED <<repository, shown, input, revision, generation, closed, panel, chooser, saving>>

TearDown ==
  /\ generation < MaxGeneration /\ generation' = generation + 1
  /\ limiter' = NewLimiter /\ chooser' = NoSnap /\ overlay' = "none"
  /\ UNCHANGED <<repository, revision, flights, making, saving>>

SessionShutdown == TearDown /\ closed' = TRUE /\ UNCHANGED <<shown, input>>
SessionStart == TearDown /\ closed' = FALSE /\ shown' = Shows("unavailable") /\ input' = NoRef

\* a branch goes; what another session saves is as what an earlier one did
BranchDeleted(r) ==
  /\ r \in refs /\ refs' = refs \ {r}
  /\ UNCHANGED <<saved, shown, input, revision, generation, closed, limiter, flights, panel, chooser, saving>>

SaveEnds == \E s \in saving : SaveSucceeds(s) \/ SaveFails(s)
OverlayComes == \E g \in making : OverlayMade(g) \/ OverlayFails(g)
CollectionEnds == \E f \in flights : Collected(f)

GitContextNext ==
  \/ CollectionEnds \/ IntervalEnds \/ SaveEnds \/ OverlayComes
  \/ OpenSelector \/ CancelSelector \/ (\E r \in Refs : Choose(r))
  \/ Toggle \/ SessionEvent \/ SessionShutdown \/ SessionStart
  \/ (\E r \in Refs : BranchDeleted(r))

\* A collection ends at its deadline, a timer runs out, a write and the TUI answer.
GitContextFairness ==
  /\ WF_gitContextVars(CollectionEnds) /\ WF_gitContextVars(IntervalEnds)
  /\ WF_gitContextVars(SaveEnds) /\ WF_gitContextVars(OverlayComes)

GitContextSpec == GitContextInit /\ [][GitContextNext]_gitContextVars /\ GitContextFairness

-----------------------------------------------------------------------------
(* Properties *)

Snaps == [ref : Refs \cup {NoRef}, asked : Refs \cup {NoRef}]
States == [is : {"unavailable", "failed", "pending", "ready", "stale"},
           ref : Refs \cup {NoRef}, snap : Snaps]

GitContextTypeOK ==
  /\ refs \subseteq Refs /\ {saved, input} \subseteq Refs \cup {NoRef}
  /\ shown \in States /\ chooser \in Snaps /\ limiter \in Limiters
  /\ revision \in 0..MaxRevision /\ generation \in 0..MaxGeneration
  /\ closed \in BOOLEAN /\ overlay \in {"none", "open", "hidden"} /\ making \subseteq 0..MaxGeneration
  /\ \A f \in flights : f.gen \in 0..MaxGeneration /\ f.rev \in 0..MaxRevision /\ f.previous \in Snaps
  /\ \A s \in saving : s.gen \in 0..MaxGeneration /\ s.ref \in Refs /\ s.shown \in States

\* A comparison shown as current was collected for the reference that is asked
\* for now: the end of a collection that a selection, a failed save or a new
\* session has overtaken is dropped.
ShownAsAsked == shown.is = "ready" => shown.snap.asked = input

\* A panel that says it is loading does not say so for ever: the collection
\* the selection asked for comes, however requests, the interval and a
\* collection already under way fall together.
PendingSettles ==
  (shown.is = "pending" /\ overlay # "none") ~> (shown.is # "pending" \/ overlay = "none")
=============================================================================
