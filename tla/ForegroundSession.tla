--------------------------- MODULE ForegroundSession ---------------------------
(***************************************************************************)
(* A foreground Pi session (pi-pa/src/adapter.ts, PiAdapter.run and        *)
(* runPiForeground): the child on its PTY behind the start gate            *)
(* (pi-pa/src/runtime-start-gate.ts), the operator at the terminal, the    *)
(* timers, the cleanup and the monitor, all callbacks of one event loop,   *)
(* and the one result that the launch goes on with.                        *)
(*                                                                         *)
(* The child's exit reaches the session on three ways: the PTY's event,    *)
(* which may be lost or late, the monitor's probe with the terminal marker *)
(* the agent left, and the probe of a cleanup.                             *)
(***************************************************************************)
EXTENDS Naturals

CONSTANTS MaxRecords,    \* bound on the terminal markers and bad lines of the agent
          MaxKeys        \* bound on what the operator does

\* what the constants must satisfy: the instances assume it
ForegroundAssumption == MaxRecords \in Nat /\ MaxKeys \in Nat

VARIABLES
  gated,    \* the launch stands behind a start gate
  admitted, \* the admission before the runtime's start has returned
  child,    \* "waiting" at the gate, "live" or "gone"
  code,     \* how the child ended: an exit code, and whether a signal did it
  asked,    \* a cleanup had been asked for when it ended
  event,    \* the PTY's exit event: "none", "due" or "done"
  marker,   \* the terminal marker of the agent: "none", "ok" or "error"
  session,  \* the closure of runPiForeground
  grace, timer, \* the grace of /quit and the deployment's timeout are armed
  pressed,  \* an interrupt was seen within the double interrupt window
  signal,   \* what the cleanup has sent: "none", "term" or "kill"
  outcome,  \* the adapter's result
  records, keys

foregroundVars == <<gated, admitted, child, code, asked, event, marker, session, grace, timer, pressed, signal,
                    outcome, records, keys>>
process == <<admitted, child, code, asked, event>>
terminal == <<grace, timer, pressed>>

NoCode == [exit |-> 0, signal |-> FALSE]
NewSession == [listening |-> FALSE, settled |-> FALSE, exited |-> FALSE, cleaning |-> FALSE, status |-> 0, failed |-> FALSE,
               normal |-> FALSE, verified |-> FALSE, trouble |-> FALSE, probed |-> FALSE]
NoOutcome == [known |-> FALSE, ok |-> FALSE, gone |-> FALSE, proof |-> FALSE]

ForegroundInit ==
  /\ gated \in BOOLEAN /\ admitted = FALSE
  /\ child = IF gated THEN "waiting" ELSE "live"
  /\ code = NoCode /\ asked = FALSE /\ event = "none" /\ marker = "none"
  /\ session = NewSession /\ grace = FALSE /\ timer = FALSE /\ pressed = FALSE /\ signal = "none"
  /\ outcome = NoOutcome /\ records = 0 /\ keys = 0

-----------------------------------------------------------------------------
(* Settling *)

\* PiAdapter.run: a status, an error, or an unverified cleanup is a failure, as
\* is a terminal error of the stream
Success(s) == s.status = 0 /\ ~s.failed /\ (s.cleaning => s.verified) /\ ~s.trouble

\* settle: once; it restores the terminal, and a failure to is an error
Settle(s, restored) ==
  LET done == [s EXCEPT !.settled = TRUE, !.failed = @ \/ ~restored] IN
    /\ session' = done
    /\ outcome' = [known |-> TRUE, ok |-> Success(done), gone |-> done.cleaning => done.verified,
                   proof |-> done.normal /\ (done.cleaning => done.verified)]
    /\ grace' = FALSE /\ timer' = FALSE /\ UNCHANGED pressed

\* finishEvidence: the terminal marker can hold a terminal error; reading or
\* keeping the evidence may fail
Evidence(s) == [s EXCEPT !.trouble = @ \/ marker = "error"]
Fault(s) == [s EXCEPT !.status = 1, !.failed = TRUE]

FinishEvidence(s) ==
  \E kept, restored \in BOOLEAN :
    /\ ~kept => records < MaxRecords
    /\ records' = IF kept THEN records ELSE records + 1
    /\ Settle(IF kept THEN Evidence(s) ELSE Fault(s), restored)

Open == session.listening /\ ~session.settled /\ ~session.exited

\* requestCleanup: the first reason stays, SIGTERM goes out
RequestCleanup(status, failed) ==
  /\ IF Open /\ ~session.cleaning
     THEN /\ session' = [session EXCEPT !.cleaning = TRUE, !.status = status, !.failed = failed]
          /\ grace' = FALSE /\ timer' = FALSE /\ signal' = "term"
     ELSE UNCHANGED <<session, grace, timer, signal>>

-----------------------------------------------------------------------------
(* Start *)

\* beforeRuntimeStart and then the release of the gate
Admits == admitted' = TRUE /\ child' = "live"

ReleaseGate == Admits

\* the listeners, the published PID, the admission and the timeout
Attach ==
  /\ ~session.listening /\ ~session.settled /\ child # "gone"
  /\ session' = [session EXCEPT !.listening = TRUE]
  /\ IF gated THEN ReleaseGate ELSE UNCHANGED <<admitted, child>>
  /\ timer' = TRUE
  /\ UNCHANGED <<gated, code, asked, event, marker, grace, pressed, signal, outcome, records, keys>>

\* one of these throws: the child at the gate never runs Pi
AttachFails ==
  /\ ~session.listening /\ ~session.settled /\ child # "gone"
  /\ session' = [session EXCEPT !.listening = TRUE, !.cleaning = TRUE, !.status = 1, !.failed = TRUE]
  /\ signal' = "term"
  /\ UNCHANGED <<gated, process, marker, terminal, outcome, records, keys>>

-----------------------------------------------------------------------------
(* The child *)

\* the agent marks the end of a turn, or ends the stream with an error
Mark ==
  /\ child = "live" /\ records < MaxRecords
  /\ records' = records + 1
  /\ \E m \in {"ok", "error"} : marker' = m
  /\ UNCHANGED <<gated, process, session, terminal, signal, outcome, keys>>

\* onData: a line with a terminal error, or one that cannot be kept
Line ==
  /\ Open /\ ~session.cleaning /\ child = "live" /\ records < MaxRecords
  /\ records' = records + 1
  /\ \/ /\ session' = [session EXCEPT !.trouble = TRUE]
        /\ UNCHANGED <<grace, timer, signal>>
     \/ RequestCleanup(1, TRUE)
  /\ UNCHANGED <<gated, process, marker, pressed, outcome, keys>>

\* the child ends by itself, by a signal of anybody, or at the gate's deadline
ChildEnds ==
  /\ child # "gone"
  /\ \E exit \in {0, 1}, killed \in BOOLEAN :
       /\ killed => exit = 0
       /\ child = "waiting" => exit = 1 \/ killed
       /\ code' = [exit |-> exit, signal |-> killed]
  /\ child' = "gone" /\ asked' = session.cleaning
  /\ event' \in {"due", "none"}
  /\ UNCHANGED <<gated, admitted, marker, session, terminal, signal, outcome, records, keys>>

\* SIGKILL cannot be refused
KillLands ==
  /\ child # "gone" /\ signal = "kill"
  /\ child' = "gone" /\ code' = [exit |-> 0, signal |-> TRUE] /\ asked' = TRUE
  /\ event' \in {"due", "none"}
  /\ UNCHANGED <<gated, admitted, marker, session, terminal, signal, outcome, records, keys>>

-----------------------------------------------------------------------------
(* The exit *)

\* normalExit: neither a cleanup nor a signal
Normal(killed) == ~session.cleaning /\ ~killed

\* whatever was asked for
Clean(killed) == ~killed

NormalExit(killed) == Normal(killed)

\* finishExit; during a cleanup a bad code replaces a good status, and the exit
\* verifies the cleanup
FinishExit(exit, killed) ==
  LET s == [session EXCEPT !.exited = TRUE, !.normal = NormalExit(killed)]
  IN FinishEvidence(IF session.cleaning
                    THEN [s EXCEPT !.verified = TRUE, !.status = IF exit # 0 /\ @ = 0 THEN exit ELSE @,
                                   !.failed = @ \/ (exit # 0 /\ s.status = 0)]
                    ELSE [s EXCEPT !.status = exit, !.failed = exit # 0])

PtyExit ==
  /\ event = "due" /\ session.listening
  /\ event' = "done"
  /\ IF Open THEN FinishExit(code.exit, code.signal)
     ELSE UNCHANGED <<session, outcome, terminal, records>>
  /\ UNCHANGED <<gated, admitted, child, code, asked, marker, signal, keys>>

\* monitorProcessExit: gone for the whole grace without an event
MonitorProbes ==
  /\ Open /\ child = "gone" /\ ~session.probed
  /\ session' = [session EXCEPT !.probed = TRUE]
  /\ UNCHANGED <<gated, process, marker, terminal, signal, outcome, records, keys>>

\* the marker stands in for the status; without one the exit is unexplained
MonitorDecides ==
  /\ Open /\ session.probed
  /\ IF marker # "none" THEN FinishExit(IF marker = "error" THEN 1 ELSE 0, FALSE)
     ELSE FinishEvidence(Fault(session))
  /\ UNCHANGED <<gated, process, marker, signal, keys>>

\* the cleanup's own probe
CleanupConfirms ==
  /\ Open /\ session.cleaning /\ child = "gone"
  /\ FinishEvidence([session EXCEPT !.exited = TRUE, !.verified = TRUE])
  /\ UNCHANGED <<gated, process, marker, signal, keys>>

Escalate ==
  /\ Open /\ session.cleaning /\ signal = "term"
  /\ signal' = "kill"
  /\ UNCHANGED <<gated, process, marker, session, terminal, outcome, records, keys>>

\* the cleanup's deadline: the exit was never confirmed
Expired == signal = "kill"

\* no deadline but the child's end
NeverExpired == signal = "kill" /\ child = "gone"

GivesUp == Expired

CleanupExpires ==
  /\ Open /\ session.cleaning /\ GivesUp
  /\ \E restored \in BOOLEAN : Settle([session EXCEPT !.failed = TRUE], restored)
  /\ UNCHANGED <<gated, process, marker, signal, records, keys>>

-----------------------------------------------------------------------------
(* The operator and the timers *)

Presses == keys < MaxKeys /\ Open /\ ~session.cleaning /\ keys' = keys + 1

\* interrupt: the first is passed on, a second within the window ends the
\* session; what cannot be passed on fails it
Interrupt ==
  /\ Presses
  /\ pressed' = ~pressed
  /\ \/ /\ pressed
        /\ RequestCleanup(0, FALSE)
     \/ /\ ~pressed
        /\ UNCHANGED <<session, grace, timer, signal>>
     \/ /\ ~pressed
        /\ RequestCleanup(1, TRUE)
  /\ UNCHANGED <<gated, process, marker, outcome, records>>

WindowCloses ==
  /\ pressed
  /\ pressed' = FALSE
  /\ UNCHANGED <<gated, process, marker, session, grace, timer, signal, outcome, records, keys>>

\* observeQuitCommand, requestGracefulExit
Quit ==
  /\ Presses /\ ~grace
  /\ grace' = TRUE
  /\ UNCHANGED <<gated, process, marker, session, timer, pressed, signal, outcome, records>>

GraceEnds ==
  /\ grace /\ RequestCleanup(0, FALSE)
  /\ UNCHANGED <<gated, process, marker, pressed, outcome, records, keys>>

\* the terminal's input ends or closes
InputCloses ==
  /\ Presses
  /\ RequestCleanup(0, FALSE)
  /\ UNCHANGED <<gated, process, marker, pressed, outcome, records>>

Timeout ==
  /\ timer /\ RequestCleanup(124, TRUE)
  /\ UNCHANGED <<gated, process, marker, pressed, outcome, records, keys>>

Machinery == Attach \/ PtyExit \/ MonitorProbes \/ MonitorDecides \/ CleanupConfirms \/ Escalate \/ CleanupExpires

ForegroundNext ==
  \/ Attach \/ AttachFails
  \/ Mark \/ Line \/ ChildEnds \/ KillLands
  \/ PtyExit \/ MonitorProbes \/ MonitorDecides \/ CleanupConfirms \/ Escalate \/ CleanupExpires
  \/ Interrupt \/ WindowCloses \/ Quit \/ GraceEnds \/ InputCloses \/ Timeout

\* the loop's own callbacks run; the timeout fires unless the session settles
ForegroundSpec ==
  ForegroundInit /\ [][ForegroundNext]_foregroundVars
  /\ WF_foregroundVars(Machinery) /\ WF_foregroundVars(Timeout)

-----------------------------------------------------------------------------
(* Properties *)

ForegroundTypeOK ==
  /\ {gated, admitted, asked, grace, timer, pressed} \subseteq BOOLEAN
  /\ child \in {"waiting", "live", "gone"} /\ code \in [exit : {0, 1}, signal : BOOLEAN]
  /\ event \in {"none", "due", "done"} /\ marker \in {"none", "ok", "error"}
  /\ signal \in {"none", "term", "kill"}
  /\ session.status \in {0, 1, 124}
  /\ \A field \in DOMAIN session \ {"status"} : session[field] \in BOOLEAN
  /\ outcome \in [known : BOOLEAN, ok : BOOLEAN, gone : BOOLEAN, proof : BOOLEAN]
  /\ records \in 0 .. MaxRecords /\ keys \in 0 .. MaxKeys

\* A result whose cleanup is not in doubt, and every success, says that the
\* child has ended; and nobody but the admission lets the runtime start behind
\* a gate.
ResultMeansGone ==
  /\ outcome.known /\ (outcome.gone \/ outcome.ok) => child = "gone"
  /\ gated /\ child = "live" => admitted

\* The exit proof that a settlement may rest on is a natural one: no cleanup
\* had been asked for before the child ended, and a signal ended it only where
\* the PTY never told and the agent's marker was taken instead.
ProofIsNatural ==
  outcome.proof => ~asked /\ (code.signal => marker # "none")

\* A session with a deadline (advisory launches and retained resumes, deploy.ts:1520)
\* settles: once its listeners stand, the timeout ends what nothing else does, and a
\* cleanup ends by its deadline at the latest.
SessionSettles == session.listening ~> session.settled
=============================================================================
