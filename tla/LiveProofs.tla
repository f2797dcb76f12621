----------------------------- MODULE LiveProofs -----------------------------
(***************************************************************************)
(* Theorems about the parts of MCLive, for every value of the constants:   *)
(* the foreground session, the artifact reviews, the Git panel and the     *)
(* session panel.  A behaviour is one of a single part, so each invariant  *)
(* is proved on the steps of its part, and the other parts leave it alone. *)
(***************************************************************************)
EXTENDS MCLive, TLAPS, FiniteSetTheorems, SequenceTheorems, WellFoundedInduction

-----------------------------------------------------------------------------
(* The foreground session.                                                 *)

SessionRecords ==
    [listening : BOOLEAN, settled : BOOLEAN, exited : BOOLEAN, cleaning : BOOLEAN,
     status : {0, 1, 124}, failed : BOOLEAN, normal : BOOLEAN, verified : BOOLEAN,
     trouble : BOOLEAN, probed : BOOLEAN]

ForegroundTyped ==
    /\ gated \in BOOLEAN /\ admitted \in BOOLEAN /\ asked \in BOOLEAN
    /\ grace \in BOOLEAN /\ timer \in BOOLEAN /\ pressed \in BOOLEAN
    /\ child \in {"waiting", "live", "gone"} /\ code \in [exit : {0, 1}, signal : BOOLEAN]
    /\ event \in {"none", "due", "done"} /\ marker \in {"none", "ok", "error"}
    /\ signal \in {"none", "term", "kill"}
    /\ session \in SessionRecords
    /\ outcome \in [known : BOOLEAN, ok : BOOLEAN, gone : BOOLEAN, proof : BOOLEAN]
    /\ records \in 0..MaxMarkers /\ keys \in 0..MaxKeys

\* Until it settles, a session has neither a result nor an explained or verified exit.
Unsettled ==
    ~session.settled =>
        /\ ~session.normal /\ ~session.verified
        /\ ~outcome.known /\ ~outcome.proof

\* What says that the child ended is said after its end: the event, the probe of the
\* monitor, and the result that is sure or carries an exit proof.
SaidWhenGone ==
    /\ event # "none" \/ session.probed => child = "gone"
    /\ outcome.known /\ (outcome.gone \/ outcome.ok \/ outcome.proof) => child = "gone"
    /\ outcome.proof => outcome.known

\* A child ends "asked" or is sent a signal only by a cleanup, which stays asked for.
AskedByCleanup == asked \/ signal # "none" => session.cleaning

\* The inductive invariant behind ForegroundSafe.
ForegroundInv ==
    /\ ForegroundTyped /\ Unsettled /\ SaidWhenGone /\ AskedByCleanup
    /\ gated /\ child = "live" => admitted
    /\ Foreground!ProofIsNatural

ForegroundHolds == part = "foreground" => ForegroundInv

\* The invariant and what ForegroundSafe says of it.
LEMMA ForegroundMeans == ForegroundHolds => ForegroundSafe
<1> SUFFICES ASSUME ForegroundInv PROVE Foreground!ForegroundTypeOK /\ Foreground!ResultMeansGone
  BY DEF ForegroundHolds, ForegroundSafe, ForegroundInv
<1>1. \A field \in DOMAIN session \ {"status"} : session[field] \in BOOLEAN
  BY DEF ForegroundInv, ForegroundTyped, SessionRecords
<1>2. Foreground!ForegroundTypeOK
  BY <1>1 DEF ForegroundInv, ForegroundTyped, Foreground!ForegroundTypeOK, SessionRecords
<1>3. Foreground!ResultMeansGone
  BY DEF ForegroundInv, SaidWhenGone, Foreground!ResultMeansGone
<1> QED BY <1>2, <1>3

LEMMA ForegroundStarts == LiveInit => ForegroundHolds
<1> SUFFICES ASSUME Foreground!ForegroundInit PROVE ForegroundInv
  BY DEF LiveInit, ForegroundHolds
<1>1. Foreground!NewSession \in SessionRecords
  BY DEF SessionRecords, Foreground!NewSession
<1>2. 0 \in 0..MaxMarkers /\ 0 \in 0..MaxKeys
  BY ForegroundConstants DEF Foreground!ForegroundAssumption
<1>3. ForegroundTyped
  BY <1>1, <1>2 DEF Foreground!ForegroundInit, ForegroundTyped, Foreground!NoCode, Foreground!NoOutcome
<1> QED BY <1>3 DEF Foreground!ForegroundInit, ForegroundInv, Unsettled, SaidWhenGone, AskedByCleanup,
       Foreground!ProofIsNatural, Foreground!NewSession, Foreground!NoCode, Foreground!NoOutcome

\* A session that settles on the state s: once, with the result that follows from s.
LEMMA Settling ==
    ASSUME ForegroundInv, NEW s \in SessionRecords, NEW restored \in BOOLEAN,
           Foreground!Settle(s, restored), s.cleaning = session.cleaning,
           s.probed = session.probed,
           \* a verified exit or an exit proof follows the end of the child
           s.normal \/ s.verified \/ ~s.cleaning => child = "gone",
           \* and only the natural end is one
           s.normal => ~asked /\ (code.signal => marker # "none"),
           records' \in 0..MaxMarkers, keys' \in 0..MaxKeys, event' \in {"none", "due", "done"},
           event' # "none" => child = "gone",
           UNCHANGED <<gated, admitted, child, code, asked, marker, signal>>
    PROVE  ForegroundInv'
<1> DEFINE done == [s EXCEPT !.settled = TRUE, !.failed = @ \/ ~restored]
<1>1. /\ done \in SessionRecords /\ done.settled /\ done.cleaning = s.cleaning
      /\ done.probed = s.probed /\ done.normal = s.normal /\ done.verified = s.verified
      /\ ~done.failed => ~s.failed
  BY DEF SessionRecords
<1>2. /\ session' = done
      /\ outcome' = [known |-> TRUE, ok |-> Foreground!Success(done),
                     gone |-> done.cleaning => done.verified,
                     proof |-> done.normal /\ (done.cleaning => done.verified)]
      /\ grace' = FALSE /\ timer' = FALSE /\ UNCHANGED pressed
  BY DEF Foreground!Settle
<1> HIDE DEF done
<1>3. Foreground!Success(done) \in BOOLEAN
  BY <1>1 DEF Foreground!Success, SessionRecords
<1>4. /\ outcome' \in [known : BOOLEAN, ok : BOOLEAN, gone : BOOLEAN, proof : BOOLEAN]
      /\ outcome'.known /\ outcome'.ok = Foreground!Success(done)
      /\ outcome'.gone = (done.cleaning => done.verified)
      /\ outcome'.proof = (done.normal /\ (done.cleaning => done.verified))
  <2>1. done.normal \in BOOLEAN /\ done.cleaning \in BOOLEAN /\ done.verified \in BOOLEAN
    BY <1>1 DEF SessionRecords
  <2> QED BY <1>2, <1>3, <2>1
<1>5. ForegroundTyped'
  BY <1>1, <1>2, <1>4 DEF ForegroundTyped, ForegroundInv
<1>6. Unsettled' /\ AskedByCleanup'
  BY <1>1, <1>2 DEF Unsettled, AskedByCleanup, ForegroundInv
<1>7. Foreground!Success(done) => (done.cleaning => done.verified)
  BY DEF Foreground!Success
<1>8. SaidWhenGone'
  BY <1>1, <1>2, <1>4, <1>7 DEF SaidWhenGone, ForegroundInv
<1>9. Foreground!ProofIsNatural'
  BY <1>1, <1>4 DEF Foreground!ProofIsNatural
<1> QED BY <1>5, <1>6, <1>8, <1>9 DEF ForegroundInv

\* A step by which the session neither settles nor learns that its child ended.
LEMMA GoingOn ==
    ASSUME ForegroundInv, session' \in SessionRecords, session'.settled = session.settled,
           session'.normal = session.normal, session'.verified = session.verified,
           session'.probed => session.probed \/ child = "gone",
           session.cleaning => session'.cleaning,
           signal' \in {"none", "term", "kill"}, signal' # "none" => session'.cleaning,
           admitted' \in BOOLEAN, child' \in {"waiting", "live", "gone"},
           child = "gone" => child' = "gone", gated /\ child' = "live" => admitted',
           grace' \in BOOLEAN, timer' \in BOOLEAN, pressed' \in BOOLEAN,
           records' \in 0..MaxMarkers, keys' \in 0..MaxKeys,
           UNCHANGED <<gated, code, asked, event, marker, outcome>>
    PROVE  ForegroundInv'
<1>1. ForegroundTyped'
  BY DEF ForegroundTyped, ForegroundInv
<1>2. Unsettled'
  BY DEF Unsettled, ForegroundInv
<1>3. SaidWhenGone'
  BY DEF SaidWhenGone, ForegroundInv
<1>4. AskedByCleanup' /\ Foreground!ProofIsNatural'
  BY DEF AskedByCleanup, Foreground!ProofIsNatural, ForegroundInv
<1> QED BY <1>1, <1>2, <1>3, <1>4 DEF ForegroundInv

\* A cleanup that is asked for, or ignored because the session is over.
LEMMA AskingForCleanup ==
    ASSUME ForegroundInv, NEW status \in {0, 1, 124}, NEW failed \in BOOLEAN,
           Foreground!RequestCleanup(status, failed),
           records' \in 0..MaxMarkers, keys' \in 0..MaxKeys, pressed' \in BOOLEAN,
           UNCHANGED <<gated, admitted, child, code, asked, event, marker, outcome>>
    PROVE  ForegroundInv'
<1>0. child \in {"waiting", "live", "gone"} /\ admitted \in BOOLEAN /\ (gated /\ child = "live" => admitted)
  BY DEF ForegroundInv, ForegroundTyped
<1>1. CASE UNCHANGED <<session, grace, timer, signal>>
  <2>1. /\ session \in SessionRecords /\ grace \in BOOLEAN /\ timer \in BOOLEAN
        /\ signal \in {"none", "term", "kill"} /\ (signal # "none" => session.cleaning)
    BY DEF ForegroundInv, ForegroundTyped, AskedByCleanup
  <2> QED BY <1>0, <1>1, <2>1, GoingOn
<1>2. CASE /\ session' = [session EXCEPT !.cleaning = TRUE, !.status = status, !.failed = failed]
           /\ grace' = FALSE /\ timer' = FALSE /\ signal' = "term"
  <2>1. /\ session' \in SessionRecords /\ session'.cleaning
        /\ session'.settled = session.settled /\ session'.probed = session.probed
        /\ session'.normal = session.normal /\ session'.verified = session.verified
    BY <1>2 DEF ForegroundInv, ForegroundTyped, SessionRecords
  <2> QED BY <1>0, <1>2, <2>1, GoingOn
<1> QED BY <1>1, <1>2 DEF Foreground!RequestCleanup

\* The end of a session on the state s, whose evidence is kept or cannot be.
LEMMA Finishing ==
    ASSUME ForegroundInv, NEW s \in SessionRecords, Foreground!FinishEvidence(s),
           s.cleaning = session.cleaning, s.probed = session.probed,
           child = "gone", s.normal => ~asked /\ (code.signal => marker # "none"),
           keys' \in 0..MaxKeys, event' \in {"none", "due", "done"},
           UNCHANGED <<gated, admitted, child, code, asked, marker, signal>>
    PROVE  ForegroundInv'
<1>1. PICK kept \in BOOLEAN, restored \in BOOLEAN :
        /\ ~kept => records < MaxMarkers
        /\ records' = IF kept THEN records ELSE records + 1
        /\ Foreground!Settle(IF kept THEN Foreground!Evidence(s) ELSE Foreground!Fault(s), restored)
  BY DEF Foreground!FinishEvidence
<1> DEFINE t == IF kept THEN Foreground!Evidence(s) ELSE Foreground!Fault(s)
<1>2. /\ t \in SessionRecords /\ t.cleaning = s.cleaning /\ t.probed = s.probed
      /\ t.normal = s.normal
  BY DEF Foreground!Evidence, Foreground!Fault, SessionRecords
<1>3. records' \in 0..MaxMarkers
  BY <1>1, ForegroundConstants DEF ForegroundInv, ForegroundTyped, Foreground!ForegroundAssumption
<1>4. Foreground!Settle(t, restored)
  BY <1>1
<1> HIDE DEF t
<1> QED BY <1>2, <1>3, <1>4, Settling

\* The end of a session by an exit of its child.
LEMMA Exiting ==
    ASSUME ForegroundInv, NEW exit \in {0, 1}, NEW killed \in BOOLEAN,
           Foreground!FinishExit(exit, killed), child = "gone",
           ~killed => (code.signal => marker # "none"),
           keys' \in 0..MaxKeys, event' \in {"none", "due", "done"},
           UNCHANGED <<gated, admitted, child, code, asked, marker, signal>>
    PROVE  ForegroundInv'
<1> DEFINE s == [session EXCEPT !.exited = TRUE, !.normal = Foreground!NormalExit(killed)]
           t == IF session.cleaning
                THEN [s EXCEPT !.verified = TRUE, !.status = IF exit # 0 /\ @ = 0 THEN exit ELSE @,
                               !.failed = @ \/ (exit # 0 /\ s.status = 0)]
                ELSE [s EXCEPT !.status = exit, !.failed = exit # 0]
<1>1. Foreground!FinishEvidence(t)
  BY DEF Foreground!FinishExit
<1>2. Foreground!NormalExit(killed) = (~session.cleaning /\ ~killed)
  BY DEF Foreground!NormalExit, Foreground!Normal
<1>3. s \in SessionRecords /\ s.cleaning = session.cleaning /\ s.probed = session.probed
      /\ s.normal = (~session.cleaning /\ ~killed)
  BY <1>2 DEF ForegroundInv, ForegroundTyped, SessionRecords
<1>4. t \in SessionRecords /\ t.cleaning = session.cleaning /\ t.probed = session.probed
      /\ t.normal = (~session.cleaning /\ ~killed)
  <2> HIDE DEF s
  <2>1. s.status \in {0, 1, 124} /\ s.failed \in BOOLEAN
    BY <1>3 DEF SessionRecords
  <2>2. CASE session.cleaning
    <3> DEFINE status == IF exit # 0 /\ s.status = 0 THEN exit ELSE s.status
               failed == s.failed \/ (exit # 0 /\ s.status = 0)
    <3>1. status \in {0, 1, 124} /\ failed \in BOOLEAN
      BY <2>1
    <3>2. t = [s EXCEPT !.verified = TRUE, !.status = status, !.failed = failed]
      BY <2>2
    <3> HIDE DEF t, status, failed
    <3> QED BY <1>3, <3>1, <3>2 DEF SessionRecords
  <2>3. CASE ~session.cleaning
    BY <1>3, <2>3 DEF SessionRecords
  <2> QED BY <2>2, <2>3
<1>5. t.normal => ~asked /\ (code.signal => marker # "none")
  BY <1>4 DEF ForegroundInv, AskedByCleanup
<1> HIDE DEF t
<1> QED BY <1>1, <1>4, <1>5, Finishing

LEMMA ForegroundKept ==
    ASSUME ForegroundInv, Foreground!ForegroundNext
    PROVE  ForegroundInv'
<1> USE DEF Foreground!process, Foreground!terminal
<1> DEFINE same == UNCHANGED <<gated, admitted, code, asked, event, marker, outcome>>
<1>0. /\ keys \in 0..MaxKeys /\ records \in 0..MaxMarkers
      /\ MaxKeys \in Nat /\ MaxMarkers \in Nat
      /\ event \in {"none", "due", "done"} /\ pressed \in BOOLEAN
  BY ForegroundConstants DEF ForegroundInv, ForegroundTyped, Foreground!ForegroundAssumption
<1>1. ASSUME Foreground!Attach \/ Foreground!AttachFails PROVE ForegroundInv'
  <2>0. /\ grace \in BOOLEAN /\ timer \in BOOLEAN /\ signal \in {"none", "term", "kill"}
        /\ child \in {"waiting", "live", "gone"} /\ admitted \in BOOLEAN
        /\ (signal # "none" => session.cleaning) /\ (gated /\ child = "live" => admitted)
    BY DEF ForegroundInv, ForegroundTyped, AskedByCleanup
  <2>1. CASE Foreground!Attach
    <3>1. /\ session' \in SessionRecords /\ session'.settled = session.settled
          /\ session'.probed = session.probed /\ session'.normal = session.normal
          /\ session'.verified = session.verified /\ session'.cleaning = session.cleaning
      BY <2>1 DEF Foreground!Attach, ForegroundInv, ForegroundTyped, SessionRecords
    <3>2. /\ UNCHANGED <<gated, code, asked, event, marker, grace, pressed, signal, outcome, records, keys>>
          /\ timer' = TRUE /\ child # "gone"
          /\ \/ gated /\ admitted' = TRUE /\ child' = "live"
             \/ ~gated /\ UNCHANGED <<admitted, child>>
      BY <2>1 DEF Foreground!Attach, Foreground!ReleaseGate, Foreground!Admits
    <3> QED BY <1>0, <2>0, <3>1, <3>2, GoingOn
  <2>2. CASE Foreground!AttachFails
    <3>1. /\ session' \in SessionRecords /\ session'.settled = session.settled
          /\ session'.probed = session.probed /\ session'.normal = session.normal
          /\ session'.verified = session.verified /\ session'.cleaning
      BY <2>2 DEF Foreground!AttachFails, ForegroundInv, ForegroundTyped, SessionRecords
    <3>2. /\ UNCHANGED <<gated, admitted, child, code, asked, event, marker, grace, timer, pressed,
                         outcome, records, keys>>
          /\ signal' = "term"
      BY <2>2 DEF Foreground!AttachFails
    <3> QED BY <1>0, <2>0, <3>1, <3>2, GoingOn
  <2> QED BY <1>1, <2>1, <2>2
<1>2. ASSUME Foreground!Mark PROVE ForegroundInv'
  BY <1>0, <1>2 DEF Foreground!Mark, ForegroundInv, ForegroundTyped, Unsettled, SaidWhenGone,
       AskedByCleanup, Foreground!ProofIsNatural
<1>3. ASSUME Foreground!Line PROVE ForegroundInv'
  <2>1. CASE Foreground!RequestCleanup(1, TRUE)
    <3>1. records' \in 0..MaxMarkers
      BY <1>0, <1>3 DEF Foreground!Line
    <3> QED BY <1>0, <1>3, <2>1, <3>1, AskingForCleanup DEF Foreground!Line
  <2>2. CASE session' = [session EXCEPT !.trouble = TRUE] /\ UNCHANGED <<grace, timer, signal>>
    <3>1. /\ session' \in SessionRecords /\ session'.settled = session.settled
          /\ session'.probed = session.probed /\ session'.normal = session.normal
          /\ session'.verified = session.verified /\ session'.cleaning = session.cleaning
      BY <2>2 DEF ForegroundInv, ForegroundTyped, SessionRecords
    <3>2. records' \in 0..MaxMarkers
      BY <1>0, <1>3 DEF Foreground!Line
    <3> QED BY <1>3, <2>2, <3>1, <3>2 DEF Foreground!Line, ForegroundInv, ForegroundTyped, Unsettled,
         SaidWhenGone, AskedByCleanup, Foreground!ProofIsNatural
  <2> QED BY <1>3, <2>1, <2>2 DEF Foreground!Line
<1>4. ASSUME Foreground!ChildEnds \/ Foreground!KillLands PROVE ForegroundInv'
  <2>0. session.cleaning \in BOOLEAN /\ (signal = "kill" => session.cleaning)
    BY DEF ForegroundInv, ForegroundTyped, AskedByCleanup, SessionRecords
  <2>1. /\ child # "gone" /\ child' = "gone" /\ event' \in {"due", "none"}
        /\ code' \in [exit : {0, 1}, signal : BOOLEAN] /\ asked' \in BOOLEAN
        /\ asked' => session.cleaning
        /\ UNCHANGED <<gated, admitted, marker, session, grace, timer, pressed, signal, outcome,
                       records, keys>>
    <3>1. CASE Foreground!ChildEnds
      BY <2>0, <3>1 DEF Foreground!ChildEnds
    <3>2. CASE Foreground!KillLands
      BY <2>0, <3>2 DEF Foreground!KillLands
    <3> QED BY <1>4, <3>1, <3>2
  <2> QED BY <2>1 DEF ForegroundInv, ForegroundTyped, Unsettled, SaidWhenGone, AskedByCleanup,
       Foreground!ProofIsNatural
<1>5. ASSUME Foreground!PtyExit PROVE ForegroundInv'
  <2>1. child = "gone" /\ code.exit \in {0, 1} /\ code.signal \in BOOLEAN
    BY <1>5 DEF Foreground!PtyExit, ForegroundInv, ForegroundTyped, SaidWhenGone
  <2>2. CASE Foreground!FinishExit(code.exit, code.signal)
    BY <1>0, <1>5, <2>1, <2>2, Exiting DEF Foreground!PtyExit
  <2>3. CASE UNCHANGED <<session, outcome, grace, timer, pressed, records>>
    BY <1>5, <2>1, <2>3 DEF Foreground!PtyExit, ForegroundInv, ForegroundTyped, Unsettled,
         SaidWhenGone, AskedByCleanup, Foreground!ProofIsNatural
  <2> QED BY <1>5, <2>2, <2>3 DEF Foreground!PtyExit
<1>6. ASSUME Foreground!MonitorProbes PROVE ForegroundInv'
  <2>1. /\ session' \in SessionRecords /\ session'.settled = session.settled
        /\ session'.normal = session.normal /\ child = "gone"
        /\ session'.verified = session.verified /\ session'.cleaning = session.cleaning
    BY <1>6 DEF Foreground!MonitorProbes, ForegroundInv, ForegroundTyped, SessionRecords
  <2> QED BY <1>6, <2>1 DEF Foreground!MonitorProbes, ForegroundInv, ForegroundTyped, Unsettled,
       SaidWhenGone, AskedByCleanup, Foreground!ProofIsNatural
<1>7. ASSUME Foreground!MonitorDecides PROVE ForegroundInv'
  <2>1. child = "gone" /\ ~session.settled
    BY <1>7 DEF Foreground!MonitorDecides, Foreground!Open, ForegroundInv, SaidWhenGone
  <2>2. CASE marker # "none" /\ Foreground!FinishExit(IF marker = "error" THEN 1 ELSE 0, FALSE)
    BY <1>0, <1>7, <2>1, <2>2, Exiting DEF Foreground!MonitorDecides
  <2>3. CASE Foreground!FinishEvidence(Foreground!Fault(session))
    <3>1. /\ Foreground!Fault(session) \in SessionRecords /\ ~Foreground!Fault(session).normal
          /\ Foreground!Fault(session).cleaning = session.cleaning
          /\ Foreground!Fault(session).probed = session.probed
      BY <2>1 DEF Foreground!Fault, ForegroundInv, ForegroundTyped, Unsettled, SessionRecords
    <3> QED BY <1>0, <1>7, <2>1, <2>3, <3>1, Finishing DEF Foreground!MonitorDecides
  <2> QED BY <1>7, <2>2, <2>3 DEF Foreground!MonitorDecides
<1>8. ASSUME Foreground!CleanupConfirms PROVE ForegroundInv'
  <2> DEFINE s == [session EXCEPT !.exited = TRUE, !.verified = TRUE]
  <2>1. /\ s \in SessionRecords /\ ~s.normal
        /\ s.cleaning = session.cleaning /\ s.probed = session.probed /\ child = "gone"
    BY <1>8 DEF Foreground!CleanupConfirms, Foreground!Open, ForegroundInv, ForegroundTyped, Unsettled,
         SessionRecords
  <2>2. Foreground!FinishEvidence(s)
    BY <1>8 DEF Foreground!CleanupConfirms
  <2> HIDE DEF s
  <2> QED BY <1>0, <1>8, <2>1, <2>2, Finishing DEF Foreground!CleanupConfirms
<1>9. ASSUME Foreground!Escalate PROVE ForegroundInv'
  BY <1>9 DEF Foreground!Escalate, ForegroundInv, ForegroundTyped, Unsettled, SaidWhenGone,
       AskedByCleanup, Foreground!ProofIsNatural
<1>10. ASSUME Foreground!CleanupExpires PROVE ForegroundInv'
  <2> DEFINE s == [session EXCEPT !.failed = TRUE]
  <2>1. /\ s \in SessionRecords /\ ~s.normal /\ ~s.verified /\ s.cleaning
        /\ s.cleaning = session.cleaning /\ s.probed = session.probed
    BY <1>10 DEF Foreground!CleanupExpires, Foreground!Open, ForegroundInv, ForegroundTyped, Unsettled,
         SessionRecords
  <2>2. PICK restored \in BOOLEAN : Foreground!Settle(s, restored)
    BY <1>10 DEF Foreground!CleanupExpires
  <2> HIDE DEF s
  <2>3. event # "none" => child = "gone"
    BY DEF ForegroundInv, SaidWhenGone
  <2> QED BY <1>0, <1>10, <2>1, <2>2, <2>3, Settling DEF Foreground!CleanupExpires
<1>11. ASSUME Foreground!Interrupt PROVE ForegroundInv'
  <2>1. keys' \in 0..MaxKeys /\ records' \in 0..MaxMarkers /\ pressed' \in BOOLEAN
    BY <1>0, <1>11 DEF Foreground!Interrupt, Foreground!Presses
  <2>2. CASE Foreground!RequestCleanup(0, FALSE) \/ Foreground!RequestCleanup(1, TRUE)
    BY <1>11, <2>1, <2>2, AskingForCleanup DEF Foreground!Interrupt
  <2>3. CASE UNCHANGED <<session, grace, timer, signal>>
    BY <1>11, <2>1, <2>3 DEF Foreground!Interrupt, ForegroundInv, ForegroundTyped, Unsettled,
         SaidWhenGone, AskedByCleanup, Foreground!ProofIsNatural
  <2> QED BY <1>11, <2>2, <2>3 DEF Foreground!Interrupt
<1>12. ASSUME Foreground!WindowCloses \/ Foreground!Quit PROVE ForegroundInv'
  <2>1. keys' \in 0..MaxKeys
    <3>1. CASE Foreground!WindowCloses
      BY <1>0, <3>1 DEF Foreground!WindowCloses
    <3>2. CASE Foreground!Quit
      BY <1>0, <3>2 DEF Foreground!Quit, Foreground!Presses
    <3> QED BY <1>12, <3>1, <3>2
  <2>2. /\ UNCHANGED <<gated, admitted, child, code, asked, event, marker, session, timer, signal,
                       outcome, records>>
        /\ pressed' \in BOOLEAN /\ grace' \in BOOLEAN
    BY <1>12 DEF Foreground!WindowCloses, Foreground!Quit, ForegroundInv, ForegroundTyped
  <2>3. /\ session \in SessionRecords /\ timer \in BOOLEAN /\ signal \in {"none", "term", "kill"}
        /\ child \in {"waiting", "live", "gone"} /\ admitted \in BOOLEAN
        /\ (signal # "none" => session.cleaning) /\ (gated /\ child = "live" => admitted)
    BY DEF ForegroundInv, ForegroundTyped, AskedByCleanup
  <2> QED BY <1>0, <2>1, <2>2, <2>3, GoingOn
<1>13. ASSUME Foreground!GraceEnds \/ Foreground!InputCloses PROVE ForegroundInv'
  <2>1. CASE Foreground!GraceEnds
    BY <1>0, <2>1, AskingForCleanup DEF Foreground!GraceEnds
  <2>2. CASE Foreground!InputCloses
    <3>1. keys' \in 0..MaxKeys
      BY <1>0, <2>2 DEF Foreground!InputCloses, Foreground!Presses
    <3> QED BY <1>0, <2>2, <3>1, AskingForCleanup DEF Foreground!InputCloses
  <2> QED BY <1>13, <2>1, <2>2
<1>14. ASSUME Foreground!Timeout PROVE ForegroundInv'
  BY <1>0, <1>14, AskingForCleanup DEF Foreground!Timeout
<1> QED BY <1>1, <1>2, <1>3, <1>4, <1>5, <1>6, <1>7, <1>8, <1>9, <1>10, <1>11, <1>12, <1>13, <1>14
       DEF Foreground!ForegroundNext

LEMMA ForegroundStepsKeep == ForegroundHolds /\ [LiveNext]_liveVars => ForegroundHolds'
<1> SUFFICES ASSUME ForegroundHolds, [LiveNext]_liveVars, part' = "foreground"
             PROVE  ForegroundInv'
  BY DEF ForegroundHolds
<1>1. CASE ForegroundStep
  BY <1>1, ForegroundKept DEF ForegroundStep, ForegroundHolds
<1>2. CASE UNCHANGED liveVars
  <2>1. UNCHANGED <<part, foregroundVars>>
    BY <1>2 DEF liveVars
  <2> QED BY <2>1 DEF foregroundVars, ForegroundHolds, ForegroundInv, ForegroundTyped, Unsettled,
       SaidWhenGone, AskedByCleanup, Foreground!ProofIsNatural
<1>3. CASE ArtifactStep \/ GitStep \/ AgentsStep \/ UpdatesStep \/ PanelStep \/ OperationsStep
  BY <1>3 DEF ArtifactStep, GitStep, AgentsStep, UpdatesStep, PanelStep, OperationsStep
<1> QED BY <1>1, <1>2, <1>3 DEF LiveNext

\* A foreground result that claims the end of the child is true, its exit proof is
\* natural, and only the admission opens the gate: ForegroundSafe.
THEOREM ForegroundIsSafe == LiveSpec => []ForegroundSafe
BY ForegroundStarts, ForegroundStepsKeep, ForegroundMeans, PTL DEF LiveSpec

-----------------------------------------------------------------------------
(* The artifact reviews.                                                   *)

ReviewRecords ==
    [state : {"none", "starting", "running", "stopped", "ended"}, gen : 0..MaxStarts,
     by : {Nothing} \cup Supervisors]

SupervisorRecords ==
    [at : {"unborn", "launched", "read", "claimed", "serving", "closing", "dead"},
     gen : 0..MaxStarts, knows : {"none", "starting", "running", "ended"},
     closes : {"none", "stopped", "ended"}, asked : BOOLEAN, frozen : BOOLEAN]

\* A request that waits for its body waits at a supervisor.
Askings ==
    {Artifact!Quiet} \cup [at : {"body"}, by : Supervisors, what : Events \cup {"end"}]

ArtifactTyped ==
    /\ record \in ReviewRecords /\ expired \in BOOLEAN
    /\ command \in [Commands -> [at : {"idle", "launching", "waiting"}, gen : 0..MaxStarts]]
    /\ sup \in [Supervisors -> SupervisorRecords]
    /\ request \in [Requests -> Askings]
    /\ journal \in Seq(Events)
    /\ acked \subseteq Events /\ ended \in BOOLEAN /\ owner \in BOOLEAN /\ fresh \in BOOLEAN

\* A request under way waits at a supervisor that has served and not ended.
AtLiving ==
    \A r \in Requests :
        \/ request[r] = Artifact!Quiet
        \/ request[r].by \in Supervisors /\ sup[request[r].by].at \in {"serving", "closing"}

\* A supervisor that claimed a record and has published nothing knows it as starting;
\* one that serves knows the record as it is, and is named by it.
Knows(s) ==
    /\ sup[s].at = "claimed" => sup[s].knows = "starting"
    /\ sup[s].at = "serving" =>
          /\ record.by = s /\ record.gen = sup[s].gen
          /\ record.state = sup[s].knows /\ record.state \in {"running", "ended"}

\* What was acknowledged is in the journal, and what was exported begins it.
JournalKept ==
    /\ acked \subseteq Artifact!Written
    /\ Len(export) \in 0..Len(journal) /\ export = SubSeq(journal, 1, Len(export))

\* The inductive invariant behind ArtifactSafe.
ArtifactInv ==
    /\ ArtifactTyped /\ AtLiving /\ JournalKept
    /\ \A s \in Supervisors : Knows(s)
    /\ Artifact!EndedForGood

ArtifactHolds == part = "artifact" => ArtifactInv

LEMMA ArtifactMeans == ArtifactHolds => ArtifactSafe
<1> SUFFICES ASSUME ArtifactInv
             PROVE  Artifact!ArtifactTypeOK /\ Artifact!EndedForGood /\ Artifact!SoleServer
  BY DEF ArtifactHolds, ArtifactSafe
<1>1. Artifact!ArtifactTypeOK
  <2>1. \A s \in Supervisors : s # Nothing
    BY ArtifactConstants DEF Artifact!ArtifactAssumption
  <2> QED BY <2>1 DEF ArtifactInv, ArtifactTyped, AtLiving, Artifact!ArtifactTypeOK, Artifact!Living,
       ReviewRecords, SupervisorRecords
<1>2. Artifact!SoleServer
  BY DEF ArtifactInv, Knows, JournalKept, Artifact!SoleServer
<1> QED BY <1>1, <1>2 DEF ArtifactInv

LEMMA ArtifactStarts == LiveInit => ArtifactHolds
<1> SUFFICES ASSUME Artifact!ArtifactInit PROVE ArtifactInv
  BY DEF LiveInit, ArtifactHolds
<1> USE DEF Artifact!ArtifactInit
<1>1. 0 \in 0..MaxStarts
  BY ArtifactConstants DEF Artifact!ArtifactAssumption
<1>2. ArtifactTyped
  <2>1. Artifact!NoRecord \in ReviewRecords
    BY <1>1 DEF Artifact!NoRecord, ReviewRecords
  <2>2. Artifact!Unborn \in SupervisorRecords
    BY <1>1 DEF Artifact!Unborn, SupervisorRecords
  <2>3. Artifact!Quiet \in Askings
    BY DEF Askings
  <2>4. /\ [c \in Commands |-> [at |-> "idle", gen |-> 0]]
               \in [Commands -> [at : {"idle", "launching", "waiting"}, gen : 0..MaxStarts]]
        /\ <<>> \in Seq(Events)
    BY <1>1
  <2> QED BY <2>1, <2>2, <2>3, <2>4 DEF ArtifactTyped
<1>3. JournalKept
  BY SubSeqEmpty DEF JournalKept, Artifact!Written
<1> QED BY <1>2, <1>3 DEF ArtifactInv, AtLiving, Knows, Artifact!Unborn, Artifact!NoRecord,
       Artifact!EndedForGood

\* The parts of the invariant that look only at the record and the supervisors.
LEMMA JournalSame ==
    JournalKept /\ UNCHANGED <<journal, export, acked>> => JournalKept'
BY DEF JournalKept, Artifact!Written

\* A step of the commands: the record, unless it serves or has ended, may be renewed or
\* stopped, and a supervisor may be asked to stop.
LEMMA CommandsKeep ==
    ASSUME ArtifactInv,
           record' \in ReviewRecords, expired' \in BOOLEAN,
           command' \in [Commands -> [at : {"idle", "launching", "waiting"}, gen : 0..MaxStarts]],
           sup' \in [Supervisors -> SupervisorRecords],
           record' # record =>
               /\ record.state # "ended"
               /\ record.state \in {"starting", "running"} => ~Artifact!Alive,
           \A s \in Supervisors :
               /\ sup'[s].gen = sup[s].gen /\ sup'[s].knows = sup[s].knows
               /\ sup'[s].at = sup[s].at \/ (sup[s].at = "unborn" /\ sup'[s].at = "launched"),
           UNCHANGED <<request, journal, export, acked, ended, owner, fresh>>
    PROVE  ArtifactInv'
<1>1. ArtifactTyped'
  BY DEF ArtifactInv, ArtifactTyped
<1>2. AtLiving'
  BY DEF ArtifactInv, AtLiving, Artifact!Quiet
<1>3. JournalKept'
  BY JournalSame DEF ArtifactInv
<1>4. ASSUME NEW s \in Supervisors PROVE Knows(s)'
  <2>1. CASE sup[s].at = "serving"
    <3>1. record.by = s /\ s # Nothing /\ record.state \in {"running", "ended"}
      BY <2>1, ArtifactConstants DEF ArtifactInv, Knows, Artifact!ArtifactAssumption
    <3>2. Artifact!Alive
      BY <2>1, <3>1 DEF Artifact!Alive, Artifact!Living
    <3>3. record' = record
      BY <3>1, <3>2
    <3> QED BY <3>3 DEF ArtifactInv, Knows
  <2>2. CASE sup[s].at # "serving"
    BY <2>2 DEF ArtifactInv, Knows
  <2> QED BY <2>1, <2>2
<1>5. Artifact!EndedForGood'
  BY DEF ArtifactInv, Artifact!EndedForGood
<1> QED BY <1>1, <1>2, <1>3, <1>4, <1>5 DEF ArtifactInv

\* A step of one supervisor.
LEMMA SupervisorKeeps ==
    ASSUME ArtifactInv, NEW s \in Supervisors,
           record' \in ReviewRecords, sup'[s] \in SupervisorRecords,
           sup' = [sup EXCEPT ![s] = sup'[s]],
           record' # record => record.by \in {Nothing, s} /\ sup[s].at # "serving",
           record.state = "ended" => record'.state = "ended",
           Knows(s)',
           \A r \in Requests : request'[r] = request[r] \/ request'[r] = Artifact!Quiet,
           sup'[s].at \notin {"serving", "closing"} => \A r \in Requests : request'[r].by # s,
           request' \in [Requests -> Askings],
           UNCHANGED <<expired, command, journal, export, acked, ended, owner, fresh>>
    PROVE  ArtifactInv'
<1>0. \A t \in Supervisors : t # s => sup'[t] = sup[t]
  BY DEF ArtifactInv, ArtifactTyped
<1>1. ArtifactTyped'
  BY DEF ArtifactInv, ArtifactTyped
<1>2. AtLiving'
  BY <1>0 DEF ArtifactInv, AtLiving, Artifact!Quiet
<1>3. JournalKept'
  BY JournalSame DEF ArtifactInv
<1>4. ASSUME NEW t \in Supervisors, t # s PROVE Knows(t)'
  <2>1. CASE sup[t].at = "serving"
    <3>1. record.by = t /\ t # Nothing
      BY <2>1, ArtifactConstants DEF ArtifactInv, Knows, Artifact!ArtifactAssumption
    <3> QED BY <1>0, <1>4, <3>1 DEF ArtifactInv, Knows
  <2>2. CASE sup[t].at # "serving"
    BY <1>0, <1>4, <2>2 DEF ArtifactInv, Knows
  <2> QED BY <2>1, <2>2
<1>5. Artifact!EndedForGood'
  BY DEF ArtifactInv, Artifact!EndedForGood
<1> QED BY <1>1, <1>2, <1>3, <1>4, <1>5 DEF ArtifactInv

LEMMA ArtifactCommandStep ==
    ASSUME ArtifactInv, NEW c \in Commands,
           \/ Artifact!Admitted(c) \/ Artifact!ConsumeFeedback(c) \/ Artifact!CommandDies(c)
           \/ \E s \in Supervisors : Artifact!LaunchSupervisor(c, s)
           \/ \E busy \in BOOLEAN :
                Artifact!StartReview(c, busy) \/ Artifact!GiveUp(c, busy) \/ Artifact!StopReview(c, busy)
    PROVE  ArtifactInv'
<1> USE DEF Artifact!feedback, Artifact!world, Artifact!Fault
<1>0. /\ record \in ReviewRecords /\ expired \in BOOLEAN
      /\ command \in [Commands -> [at : {"idle", "launching", "waiting"}, gen : 0..MaxStarts]]
      /\ sup \in [Supervisors -> SupervisorRecords]
  BY DEF ArtifactInv, ArtifactTyped
<1>1. \A at \in {"idle", "waiting"} :
        [command EXCEPT ![c].at = at] \in [Commands -> [at : {"idle", "launching", "waiting"}, gen : 0..MaxStarts]]
  BY <1>0
<1>a. ASSUME Artifact!AskStop, Artifact!Alive
      PROVE  /\ sup' \in [Supervisors -> SupervisorRecords]
             /\ \A s \in Supervisors : /\ sup'[s].gen = sup[s].gen /\ sup'[s].knows = sup[s].knows
                                       /\ sup'[s].at = sup[s].at
  <2>1. sup' = [sup EXCEPT ![record.by].asked = (sup[record.by].at = "serving")] /\ record.by \in Supervisors
    BY <1>a DEF Artifact!AskStop, Artifact!Alive
  <2> DEFINE asks == sup[record.by].at = "serving"
  <2>2. asks \in BOOLEAN /\ sup' = [sup EXCEPT ![record.by].asked = asks]
    BY <2>1
  <2> HIDE DEF asks
  <2> QED BY <1>0, <2>1, <2>2 DEF SupervisorRecords
<1>b. ASSUME NEW busy \in BOOLEAN, Artifact!CleanUpDead(busy)
      PROVE  /\ record' \in ReviewRecords
             /\ record' # record => record.state \in {"starting", "running"} /\ ~Artifact!Alive
  BY <1>0, <1>b DEF Artifact!CleanUpDead, ReviewRecords
<1>2. ASSUME Artifact!Admitted(c) \/ Artifact!CommandDies(c) PROVE ArtifactInv'
  BY <1>0, <1>1, <1>2, CommandsKeep DEF Artifact!Admitted, Artifact!CommandDies
<1>3. ASSUME Artifact!ConsumeFeedback(c) PROVE ArtifactInv'
  <2>1. /\ export' = journal /\ journal \in Seq(Events) /\ acked \subseteq Artifact!Written
        /\ UNCHANGED <<record, expired, command, sup, request, journal, acked, ended, owner, fresh>>
    BY <1>3 DEF Artifact!ConsumeFeedback, ArtifactInv, ArtifactTyped, JournalKept
  <2>2. Len(journal) \in 0..Len(journal) /\ journal = SubSeq(journal, 1, Len(journal))
    BY <2>1, SubSeqFull, LenProperties
  <2>3. JournalKept'
    BY <2>1, <2>2 DEF JournalKept, Artifact!Written
  <2> QED BY <2>1, <2>3 DEF ArtifactInv, ArtifactTyped, AtLiving, Knows, Artifact!EndedForGood
<1>4. ASSUME NEW s \in Supervisors, Artifact!LaunchSupervisor(c, s) PROVE ArtifactInv'
  <2>1. sup' = [sup EXCEPT ![s].at = "launched"] /\ sup[s].at = "unborn"
    BY <1>4 DEF Artifact!LaunchSupervisor, Artifact!Phase, Artifact!Unborn
  <2>2. sup' \in [Supervisors -> SupervisorRecords]
    BY <1>0, <2>1 DEF SupervisorRecords
  <2>3. \A t \in Supervisors :
          /\ sup'[t].gen = sup[t].gen /\ sup'[t].knows = sup[t].knows
          /\ sup'[t].at = sup[t].at \/ (sup[t].at = "unborn" /\ sup'[t].at = "launched")
    BY <1>0, <2>1 DEF SupervisorRecords
  <2> QED BY <1>0, <1>1, <1>4, <2>2, <2>3, CommandsKeep DEF Artifact!LaunchSupervisor
<1>5. ASSUME NEW busy \in BOOLEAN, Artifact!StartReview(c, busy) PROVE ArtifactInv'
  <2>1. CASE UNCHANGED <<record, expired, command, journal>>
    BY <1>0, <1>5, <2>1, CommandsKeep DEF Artifact!StartReview
  <2>2. CASE /\ command' = [command EXCEPT ![c] = [at |-> "waiting", gen |-> record.gen]]
             /\ UNCHANGED <<record, expired, journal>>
    <3>1. command' \in [Commands -> [at : {"idle", "launching", "waiting"}, gen : 0..MaxStarts]]
      BY <1>0, <2>2 DEF ReviewRecords
    <3> QED BY <1>0, <1>5, <2>2, <3>1, CommandsKeep DEF Artifact!StartReview
  <2>3. CASE /\ record.state # "ended" /\ ~Artifact!Joins /\ record.gen < MaxStarts
             /\ record' = [state |-> "starting", gen |-> record.gen + 1, by |-> Nothing]
             /\ expired' = FALSE /\ journal' = Artifact!Retained
             /\ command' = [command EXCEPT ![c] = [at |-> "launching", gen |-> record.gen + 1]]
    <3>1. record.gen + 1 \in 0..MaxStarts
      BY <1>0, <2>3, ArtifactConstants DEF ReviewRecords, Artifact!ArtifactAssumption
    <3>2. record' \in ReviewRecords
      BY <2>3, <3>1 DEF ReviewRecords
    <3>3. command' \in [Commands -> [at : {"idle", "launching", "waiting"}, gen : 0..MaxStarts]]
      BY <1>0, <2>3, <3>1
    <3>4. record.state \in {"starting", "running"} => ~Artifact!Alive
      BY <2>3 DEF Artifact!Joins
    <3> QED BY <1>0, <1>5, <2>3, <3>2, <3>3, <3>4, CommandsKeep DEF Artifact!StartReview, Artifact!Retained
  <2> QED BY <1>5, <2>1, <2>2, <2>3 DEF Artifact!StartReview
<1>6. ASSUME NEW busy \in BOOLEAN, Artifact!GiveUp(c, busy) PROVE ArtifactInv'
  BY <1>0, <1>1, <1>6, <1>a, <1>b, CommandsKeep DEF Artifact!GiveUp
<1>7. ASSUME NEW busy \in BOOLEAN, Artifact!StopReview(c, busy) PROVE ArtifactInv'
  BY <1>0, <1>7, <1>a, <1>b, CommandsKeep DEF Artifact!StopReview
<1> QED BY <1>2, <1>3, <1>4, <1>5, <1>6, <1>7

LEMMA ArtifactSupervisorStep ==
    ASSUME ArtifactInv, NEW s \in Supervisors,
           \/ Artifact!ReadRecord(s) \/ Artifact!CloseAsked(s) \/ Artifact!SupervisorDies(s)
           \/ \E busy \in BOOLEAN : Artifact!Claim(s, busy) \/ Artifact!Closed(s, busy)
           \/ \E ready, busy \in BOOLEAN : Artifact!Serve(s, ready, busy)
           \/ \E idle \in BOOLEAN : Artifact!Tick(s, idle)
    PROVE  ArtifactInv'
<1> USE DEF Artifact!feedback, Artifact!world, Artifact!Fault
<1>0. /\ record \in ReviewRecords /\ sup \in [Supervisors -> SupervisorRecords]
      /\ sup[s] \in SupervisorRecords /\ Knows(s) /\ s # Nothing
      /\ request \in [Requests -> Askings]
  BY ArtifactConstants DEF ArtifactInv, ArtifactTyped, Artifact!ArtifactAssumption
<1>r. sup[s].at \notin {"serving", "closing"} => \A r \in Requests : request[r].by # s
  BY <1>0 DEF ArtifactInv, AtLiving, Artifact!Quiet
<1>q. LET quit == [r \in Requests |-> IF request[r].by = s THEN Artifact!Quiet ELSE request[r]]
      IN  /\ quit \in [Requests -> Askings]
          /\ \A r \in Requests : quit[r].by # s /\ (quit[r] = request[r] \/ quit[r] = Artifact!Quiet)
  <2>1. Artifact!Quiet.by = Nothing /\ Artifact!Quiet \in Askings
    BY DEF Artifact!Quiet, Askings
  <2> QED BY <1>0, <2>1
<1>1. ASSUME Artifact!ReadRecord(s) PROVE ArtifactInv'
  <2>1. /\ sup[s].at = "launched" /\ sup' = [sup EXCEPT ![s] = sup'[s]]
        /\ \/ sup'[s] = [sup[s] EXCEPT !.at = "read", !.gen = record.gen]
           \/ sup'[s] = [sup[s] EXCEPT !.at = "dead"]
    BY <1>0, <1>1 DEF Artifact!ReadRecord
  <2>2. sup'[s] \in SupervisorRecords /\ sup'[s].at \in {"read", "dead"}
    BY <1>0, <2>1 DEF SupervisorRecords, ReviewRecords
  <2>3. Knows(s)'
    BY <2>2 DEF Knows
  <2> QED BY <1>0, <1>1, <1>r, <2>1, <2>2, <2>3, SupervisorKeeps DEF Artifact!ReadRecord
<1>2. ASSUME NEW idle \in BOOLEAN, Artifact!CloseAsked(s) \/ Artifact!Tick(s, idle) PROVE ArtifactInv'
  <2>1. /\ sup[s].at = "serving" /\ sup' = [sup EXCEPT ![s] = sup'[s]]
        /\ \/ \E closes \in {"stopped", "ended"} : sup'[s] = [sup[s] EXCEPT !.at = "closing", !.closes = closes]
           \/ sup'[s] = [sup[s] EXCEPT !.frozen = TRUE]
        /\ UNCHANGED <<record, expired, command, request, journal, export, acked, ended, owner, fresh>>
    <3>1. sup[s].closes \in {"none", "stopped", "ended"}
      BY <1>0 DEF SupervisorRecords
    <3>2. CASE Artifact!CloseAsked(s)
      BY <1>0, <3>1, <3>2 DEF Artifact!CloseAsked
    <3>3. CASE Artifact!Tick(s, idle)
      BY <1>0, <3>3 DEF Artifact!Tick
    <3> QED BY <1>2, <3>2, <3>3
  <2>2. /\ sup'[s] \in SupervisorRecords /\ sup'[s].at \in {"serving", "closing"}
        /\ sup'[s].knows = sup[s].knows /\ sup'[s].gen = sup[s].gen
    BY <1>0, <2>1 DEF SupervisorRecords
  <2>3. Knows(s)'
    BY <1>0, <2>1, <2>2 DEF Knows
  <2> QED BY <1>0, <2>1, <2>2, <2>3, SupervisorKeeps
<1>3. ASSUME Artifact!SupervisorDies(s) PROVE ArtifactInv'
  <2>1. sup' = [sup EXCEPT ![s] = sup'[s]] /\ sup'[s] = [sup[s] EXCEPT !.at = "dead"]
    BY <1>0, <1>3 DEF Artifact!SupervisorDies, Artifact!Phase
  <2>2. sup'[s] \in SupervisorRecords /\ sup'[s].at = "dead"
    BY <1>0, <2>1 DEF SupervisorRecords
  <2>3. Knows(s)'
    BY <2>2 DEF Knows
  <2> QED BY <1>0, <1>3, <1>q, <2>1, <2>2, <2>3, SupervisorKeeps DEF Artifact!SupervisorDies
<1>4. ASSUME NEW busy \in BOOLEAN, Artifact!Claim(s, busy) PROVE ArtifactInv'
  <2>1. CASE /\ Artifact!Claimable(s) /\ record' = [record EXCEPT !.by = s]
             /\ sup' = [sup EXCEPT ![s].at = "claimed", ![s].knows = "starting"]
    <3>1. sup' = [sup EXCEPT ![s] = sup'[s]] /\ sup'[s] = [sup[s] EXCEPT !.at = "claimed", !.knows = "starting"]
      BY <1>0, <2>1
    <3>2. sup'[s] \in SupervisorRecords /\ sup'[s].at = "claimed" /\ sup'[s].knows = "starting"
      BY <1>0, <3>1 DEF SupervisorRecords
    <3>3. record' \in ReviewRecords /\ record.by = Nothing /\ record.state = "starting" /\ sup[s].at = "read"
      BY <1>0, <1>4, <2>1 DEF Artifact!Claim, Artifact!Claimable, ReviewRecords
    <3>4. Knows(s)'
      BY <3>2 DEF Knows
    <3> QED BY <1>0, <1>4, <1>r, <3>1, <3>2, <3>3, <3>4, SupervisorKeeps DEF Artifact!Claim
  <2>2. CASE Artifact!Phase(s, "dead") /\ UNCHANGED record
    <3>1. sup' = [sup EXCEPT ![s] = sup'[s]] /\ sup'[s] = [sup[s] EXCEPT !.at = "dead"] /\ sup[s].at = "read"
      BY <1>0, <1>4, <2>2 DEF Artifact!Phase, Artifact!Claim
    <3>2. sup'[s] \in SupervisorRecords /\ sup'[s].at = "dead"
      BY <1>0, <3>1 DEF SupervisorRecords
    <3>3. Knows(s)'
      BY <3>2 DEF Knows
    <3> QED BY <1>0, <1>4, <1>r, <2>2, <3>1, <3>2, <3>3, SupervisorKeeps DEF Artifact!Claim
  <2> QED BY <1>4, <2>1, <2>2 DEF Artifact!Claim
<1>5. ASSUME NEW ready \in BOOLEAN, NEW busy \in BOOLEAN, Artifact!Serve(s, ready, busy) PROVE ArtifactInv'
  <2>1. CASE /\ Artifact!Publishable(s) /\ record' = [record EXCEPT !.state = "running"]
             /\ sup' = [sup EXCEPT ![s].at = "serving", ![s].knows = "running"]
    <3>1. sup' = [sup EXCEPT ![s] = sup'[s]] /\ sup'[s] = [sup[s] EXCEPT !.at = "serving", !.knows = "running"]
      BY <1>0, <2>1
    <3>2. /\ sup'[s] \in SupervisorRecords /\ sup'[s].at = "serving" /\ sup'[s].knows = "running"
          /\ sup'[s].gen = sup[s].gen
      BY <1>0, <3>1 DEF SupervisorRecords
    <3>3. /\ record' \in ReviewRecords /\ record.by = s /\ record'.by = s /\ record'.gen = sup[s].gen
          /\ record'.state = "running" /\ sup[s].at = "claimed" /\ record.state = "starting"
      BY <1>0, <1>5, <2>1 DEF Artifact!Serve, Artifact!Publishable, Artifact!SameGeneration, ReviewRecords,
           Knows
    <3>4. Knows(s)'
      BY <3>2, <3>3 DEF Knows
    <3> QED BY <1>0, <1>5, <1>r, <3>1, <3>2, <3>3, <3>4, SupervisorKeeps DEF Artifact!Serve
  <2>2. CASE /\ sup' = [sup EXCEPT ![s].at = "closing", ![s].closes = "stopped"] /\ UNCHANGED record
    <3>1. sup' = [sup EXCEPT ![s] = sup'[s]] /\ sup'[s] = [sup[s] EXCEPT !.at = "closing", !.closes = "stopped"]
      BY <1>0, <2>2
    <3>2. sup'[s] \in SupervisorRecords /\ sup'[s].at = "closing"
      BY <1>0, <3>1 DEF SupervisorRecords
    <3>3. Knows(s)'
      BY <3>2 DEF Knows
    <3> QED BY <1>0, <1>5, <2>2, <3>1, <3>2, <3>3, SupervisorKeeps DEF Artifact!Serve
  <2> QED BY <1>5, <2>1, <2>2 DEF Artifact!Serve
<1>6. ASSUME NEW busy \in BOOLEAN, Artifact!Closed(s, busy) PROVE ArtifactInv'
  <2>1. sup' = [sup EXCEPT ![s] = sup'[s]] /\ sup'[s] = [sup[s] EXCEPT !.at = "dead"] /\ sup[s].at = "closing"
    BY <1>0, <1>6 DEF Artifact!Phase, Artifact!Closed
  <2>2. sup'[s] \in SupervisorRecords /\ sup'[s].at = "dead"
    BY <1>0, <2>1 DEF SupervisorRecords
  <2>3. Knows(s)'
    BY <2>2 DEF Knows
  <2>4. /\ record' \in ReviewRecords /\ (record' # record => record.by = s)
        /\ record.state = "ended" => record'.state = "ended"
    <3>1. CASE /\ Artifact!Publishable(s)
               /\ record' = [record EXCEPT !.state = Artifact!LeftAs(sup[s].closes)]
      <4>1. sup[s].closes \in {"none", "stopped", "ended"}
        BY <1>0 DEF SupervisorRecords
      <4>2. /\ Artifact!LeftAs(sup[s].closes) \in {"none", "stopped", "ended"}
            /\ record.state = "ended" => Artifact!LeftAs(sup[s].closes) = "ended"
        BY <4>1 DEF Artifact!LeftAs
      <4> QED BY <1>0, <3>1, <4>2 DEF ReviewRecords, Artifact!Publishable, Artifact!SameGeneration
    <3>2. CASE record' = record
      BY <1>0, <3>2
    <3> QED BY <1>6, <3>1, <3>2 DEF Artifact!Closed
  <2> QED BY <1>0, <1>6, <1>q, <2>1, <2>2, <2>3, <2>4, SupervisorKeeps DEF Artifact!Closed
<1> QED BY <1>1, <1>2, <1>3, <1>4, <1>5, <1>6

LEMMA ArtifactRequestStep ==
    ASSUME ArtifactInv, NEW r \in Requests,
           \/ \E s \in Supervisors, what \in Events \cup {"end"} : Artifact!Post(r, s, what)
           \/ Artifact!Receive(r) \/ \E busy \in BOOLEAN : Artifact!EndReview(r, busy)
    PROVE  ArtifactInv'
<1> USE DEF Artifact!feedback, Artifact!world
<1>0. /\ record \in ReviewRecords /\ sup \in [Supervisors -> SupervisorRecords]
      /\ request \in [Requests -> Askings] /\ Artifact!Quiet \in Askings
      /\ journal \in Seq(Events) /\ acked \subseteq Events
  BY DEF ArtifactInv, ArtifactTyped, Askings
<1>1. ASSUME NEW s \in Supervisors, NEW what \in Events \cup {"end"}, Artifact!Post(r, s, what)
      PROVE  ArtifactInv'
  <2>1. /\ request' = [request EXCEPT ![r] = [at |-> "body", by |-> s, what |-> what]]
        /\ sup[s].at = "serving"
        /\ UNCHANGED <<record, expired, command, sup, journal, export, acked, ended, owner, fresh>>
    BY <1>1 DEF Artifact!Post, Artifact!Accepts
  <2>2. [at |-> "body", by |-> s, what |-> what] \in Askings
    BY DEF Askings
  <2>3. request' \in [Requests -> Askings]
    BY <1>0, <2>1, <2>2
  <2>4. AtLiving'
    BY <1>0, <2>1 DEF ArtifactInv, AtLiving, Artifact!Quiet
  <2>5. ArtifactTyped'
    BY <2>1, <2>3 DEF ArtifactInv, ArtifactTyped
  <2> QED BY <2>1, <2>4, <2>5, JournalSame DEF ArtifactInv, Knows, Artifact!EndedForGood
<1>2. ASSUME request' = [request EXCEPT ![r] = Artifact!Quiet]
      PROVE  request' \in [Requests -> Askings] /\ \A q \in Requests : request'[q] \in {request[q], Artifact!Quiet}
  BY <1>0, <1>2
<1>3. ASSUME Artifact!Receive(r) PROVE ArtifactInv'
  <2> DEFINE e == request[r].what
  <2>1. /\ request' = [request EXCEPT ![r] = Artifact!Quiet] /\ request[r].at = "body" /\ e # "end"
        /\ UNCHANGED <<record, expired, command, sup, export, ended, owner, fresh>>
    BY <1>3 DEF Artifact!Receive
  <2>2. AtLiving'
    BY <1>2, <2>1 DEF ArtifactInv, AtLiving, Artifact!Quiet
  <2>3. CASE UNCHANGED <<journal, acked>>
    <3>1. ArtifactTyped'
      BY <1>2, <2>1, <2>3 DEF ArtifactInv, ArtifactTyped
    <3> QED BY <2>1, <2>2, <2>3, <3>1, JournalSame DEF ArtifactInv, Knows, Artifact!EndedForGood
  <2>4. CASE /\ Artifact!Recheck(r) /\ acked' = acked \cup {e}
             /\ journal' = IF e \in Artifact!Written THEN journal ELSE Append(journal, e)
    <3>1. e \in Events
      BY <1>0, <2>1 DEF Askings, Artifact!Quiet
    <3>2. JournalKept'
      <4>1. CASE e \in Artifact!Written
        BY <2>1, <2>4, <4>1 DEF ArtifactInv, JournalKept, Artifact!Written
      <4>2. CASE journal' = Append(journal, e)
        <5>1. /\ Len(journal') = Len(journal) + 1 /\ Len(journal) \in Nat
              /\ \A i \in 1..Len(journal) : journal'[i] = journal[i]
              /\ journal'[Len(journal) + 1] = e
              /\ DOMAIN journal = 1..Len(journal) /\ DOMAIN journal' = 1..Len(journal')
              /\ journal' \in Seq(Events)
          BY <1>0, <3>1, <4>2, AppendProperties, LenProperties
        <5>2. acked' \subseteq Artifact!Written'
          <6>1. Artifact!Written \subseteq Artifact!Written'
            BY <5>1 DEF Artifact!Written
          <6>2. e \in Artifact!Written'
            BY <5>1 DEF Artifact!Written
          <6> QED BY <2>4, <6>1, <6>2 DEF ArtifactInv, JournalKept
        <5>3. Len(export) \in 0..Len(journal) /\ export = SubSeq(journal, 1, Len(export))
          BY DEF ArtifactInv, JournalKept
        <5>4. SubSeq(journal', 1, Len(export)) = SubSeq(journal, 1, Len(export))
          BY <5>1, <5>3
        <5> QED BY <2>1, <5>1, <5>2, <5>3, <5>4 DEF JournalKept
      <4> QED BY <2>4, <4>1, <4>2
    <3>3. ArtifactTyped'
      <4>1. journal' \in Seq(Events) /\ acked' \subseteq Events
        BY <1>0, <2>4, <3>1
      <4> QED BY <1>2, <2>1, <4>1 DEF ArtifactInv, ArtifactTyped
    <3>4. Artifact!EndedForGood' /\ \A s \in Supervisors : Knows(s)'
      <4>1. UNCHANGED <<record, sup, ended>>
        BY <1>3 DEF Artifact!Receive
      <4> QED BY <4>1 DEF ArtifactInv, Knows, Artifact!EndedForGood
    <3> QED BY <2>2, <3>2, <3>3, <3>4 DEF ArtifactInv
  <2> QED BY <1>3, <2>3, <2>4 DEF Artifact!Receive
<1>4. ASSUME NEW busy \in BOOLEAN, Artifact!EndReview(r, busy) PROVE ArtifactInv'
  <2> DEFINE s == request[r].by
  <2>1. /\ request' = [request EXCEPT ![r] = Artifact!Quiet] /\ request[r].at = "body"
        /\ UNCHANGED <<expired, command, journal, export, acked, owner, fresh>>
    BY <1>4 DEF Artifact!EndReview
  <2>2. CASE UNCHANGED <<record, ended, sup>>
    <3>1. AtLiving' /\ ArtifactTyped'
      BY <1>2, <2>1, <2>2 DEF ArtifactInv, AtLiving, ArtifactTyped, Artifact!Quiet
    <3> QED BY <2>1, <2>2, <3>1, JournalSame DEF ArtifactInv, Knows, Artifact!EndedForGood
  <2>3. CASE /\ Artifact!Recheck(r) /\ Artifact!Publishable(s)
             /\ record' = [record EXCEPT !.state = "ended"] /\ ended' = TRUE
             /\ sup' = [sup EXCEPT ![s].knows = "ended", ![s].asked = TRUE,
                                   ![s].closes = IF sup[s].asked THEN "stopped" ELSE "ended"]
    <3>1. s \in Supervisors /\ sup[s] \in SupervisorRecords
      BY <1>0, <2>1 DEF Askings, Artifact!Quiet
    <3> HIDE DEF s
    <3>2. /\ sup[s].at = "serving" /\ record.by = s
          /\ record' \in ReviewRecords /\ record'.by = s /\ record'.gen = record.gen
          /\ record'.state = "ended"
      BY <1>0, <2>3 DEF Artifact!Recheck, Artifact!Accepts, Artifact!Publishable, Artifact!SameGeneration,
           ReviewRecords, s
    <3>3. PICK closes \in {"stopped", "ended"} :
            sup' = [sup EXCEPT ![s] = [sup[s] EXCEPT !.knows = "ended", !.asked = TRUE, !.closes = closes]]
      BY <1>0, <2>3, <3>1
    <3>4. /\ sup' \in [Supervisors -> SupervisorRecords]
          /\ sup'[s].at = "serving" /\ sup'[s].knows = "ended" /\ sup'[s].gen = sup[s].gen
          /\ \A t \in Supervisors : t # s => sup'[t] = sup[t]
          /\ \A t \in Supervisors : sup'[t].at = sup[t].at
      BY <1>0, <3>1, <3>2, <3>3 DEF SupervisorRecords
    <3>5. AtLiving'
      BY <1>2, <2>1, <3>4 DEF ArtifactInv, AtLiving, Artifact!Quiet
    <3>6. ArtifactTyped'
      BY <1>2, <2>1, <2>3, <3>2, <3>4 DEF ArtifactInv, ArtifactTyped
    <3>7. ASSUME NEW t \in Supervisors PROVE Knows(t)'
      BY <3>2, <3>4 DEF ArtifactInv, Knows
    <3>8. Artifact!EndedForGood'
      BY <3>2 DEF Artifact!EndedForGood
    <3> QED BY <2>1, <3>5, <3>6, <3>7, <3>8, JournalSame DEF ArtifactInv
  <2> QED BY <1>4, <2>2, <2>3 DEF Artifact!EndReview
<1> QED BY <1>1, <1>3, <1>4

LEMMA ArtifactKept ==
    ASSUME ArtifactInv, Artifact!ArtifactNext
    PROVE  ArtifactInv'
<1>1. ASSUME Artifact!Expire \/ Artifact!OwnerDies \/ Artifact!ArtifactChanges PROVE ArtifactInv'
  <2>1. /\ UNCHANGED <<record, command, sup, request, journal, export, acked, ended>>
        /\ expired' \in BOOLEAN /\ owner' \in BOOLEAN /\ fresh' \in BOOLEAN
    BY <1>1 DEF Artifact!Expire, Artifact!OwnerDies, Artifact!ArtifactChanges, Artifact!feedback,
         Artifact!world, ArtifactInv, ArtifactTyped
  <2> QED BY <2>1, JournalSame DEF ArtifactInv, ArtifactTyped, AtLiving, Knows, Artifact!EndedForGood
<1> QED BY <1>1, ArtifactCommandStep, ArtifactSupervisorStep, ArtifactRequestStep DEF Artifact!ArtifactNext

LEMMA ArtifactStepsKeep == ArtifactHolds /\ [LiveNext]_liveVars => ArtifactHolds'
<1> SUFFICES ASSUME ArtifactHolds, [LiveNext]_liveVars, part' = "artifact"
             PROVE  ArtifactInv'
  BY DEF ArtifactHolds
<1>1. CASE ArtifactStep
  BY <1>1, ArtifactKept DEF ArtifactStep, ArtifactHolds
<1>2. CASE UNCHANGED liveVars
  <2>1. UNCHANGED <<part, artifactVars>>
    BY <1>2 DEF liveVars
  <2> QED BY <2>1, JournalSame DEF artifactVars, ArtifactHolds, ArtifactInv, ArtifactTyped, AtLiving, Knows,
       Artifact!EndedForGood
<1>3. CASE ForegroundStep \/ GitStep \/ AgentsStep \/ UpdatesStep \/ PanelStep \/ OperationsStep
  BY <1>3 DEF ForegroundStep, GitStep, AgentsStep, UpdatesStep, PanelStep, OperationsStep
<1> QED BY <1>1, <1>2, <1>3 DEF LiveNext

\* An ended review stays ended, and only the supervisor that the record names serves
\* it, without loss of feedback: ArtifactSafe.
THEOREM ArtifactIsSafe == LiveSpec => []ArtifactSafe
BY ArtifactStarts, ArtifactStepsKeep, ArtifactMeans, PTL DEF LiveSpec

-----------------------------------------------------------------------------
(* The limiter of both panels.                                             *)

\* Every step of the limiter leaves a limiter.
LEMMA LimiterSteps ==
    ASSUME NEW l \in Git!Limiters
    PROVE  /\ Git!Requested(l) \in Git!Limiters /\ Git!Requested(l).running = l.running
           /\ Git!Elapsed(l) \in Git!Limiters /\ Git!Elapsed(l).running = l.running
           /\ Git!Settled(l) \in Git!Limiters /\ ~Git!Settled(l).running
           /\ Git!Scheduled(l) \in Git!Limiters
           /\ (Git!Scheduled(l).running <=> l.running \/ Git!Fires(l))
<1> USE DEF Git!Limiters
<1>1. /\ Git!Requested(l) \in Git!Limiters /\ Git!Requested(l).running = l.running
      /\ Git!Elapsed(l) \in Git!Limiters /\ Git!Elapsed(l).running = l.running
      /\ Git!Settled(l) \in Git!Limiters /\ ~Git!Settled(l).running
  BY DEF Git!Requested, Git!Elapsed, Git!Settled
<1>2. CASE Git!Fires(l)
  <2>1. Git!Scheduled(l) = [wanted |-> FALSE, running |-> TRUE, due |-> FALSE]
    BY <1>2 DEF Git!Scheduled
  <2> QED BY <1>1, <1>2, <2>1
<1>3. CASE ~Git!Fires(l)
  <2>1. Git!Scheduled(l) = l /\ l.running \in BOOLEAN
    BY <1>3 DEF Git!Scheduled
  <2> QED BY <1>1, <1>3, <2>1
<1> QED BY <1>2, <1>3

-----------------------------------------------------------------------------
(* The Git panel.                                                          *)

\* A set of natural numbers that is not empty has a least element.
LEMMA LeastNatural ==
    ASSUME NEW T \in SUBSET Nat, T # {}
    PROVE  \E x \in T : \A y \in T : x <= y
<1>1. PICK x \in T : \A y \in T : ~(<<y, x>> \in OpToRel(<, Nat))
  BY NatLessThanWellFounded, WFMin
<1>2. \A y \in T : ~(y < x)
  <2> SUFFICES ASSUME NEW y \in T, y < x PROVE FALSE
    OBVIOUS
  <2>1. <<y, x>> \in OpToRel(<, Nat)
    BY DEF OpToRel
  <2> QED BY <2>1, <1>1
<1> QED BY <1>2

Named == Refs \cup {NoRef}
\* What a collection under way began with, and a selection that is being written.
Flights == [gen : 0..MaxGeneration, rev : 0..MaxRevision, asked : Named, previous : Git!Snaps]
Savings == [ref : Refs, gen : 0..MaxGeneration, rev : 0..MaxRevision, shown : Git!States, input : Named]

GitTyped ==
    /\ refs \subseteq Refs /\ saved \in Named /\ input \in Named
    /\ shown \in Git!States /\ chooser \in Git!Snaps /\ limiter \in Git!Limiters
    /\ revision \in 0..MaxRevision /\ generation \in 0..MaxGeneration
    /\ closed \in BOOLEAN /\ overlay \in {"none", "open", "hidden"}
    /\ making \subseteq 0..MaxGeneration
    /\ flights \subseteq Flights /\ saving \subseteq Savings

\* Every selection that is being written may take one more revision.
RevisionsLeft == IsFiniteSet(saving) /\ revision + Cardinality(saving) <= MaxRevision

\* A collection of this session and revision was asked for what is asked for now, and
\* none is of a session or a revision to come.
CollectsCurrent ==
    \A f \in flights :
        /\ f.gen <= generation /\ f.rev <= revision
        /\ f.gen = generation /\ f.rev = revision => f.asked = input

\* What a failed save puts back fits together.
PutsBackExact ==
    \A s \in saving : s.shown.is = "ready" => s.shown.snap.asked = s.input

\* The inductive invariant behind the Git part of PanelsSafe.
GitInv == GitTyped /\ RevisionsLeft /\ CollectsCurrent /\ PutsBackExact /\ Git!ShownAsAsked

GitHolds == part = "git" => GitInv

LEMMA GitMeans == GitInv => Git!GitContextTypeOK /\ Git!ShownAsAsked
BY DEF GitInv, GitTyped, Git!GitContextTypeOK, Named, Flights, Savings

LEMMA GitStarts == LiveInit => GitHolds
<1> SUFFICES ASSUME Git!GitContextInit PROVE GitInv
  BY DEF LiveInit, GitHolds
<1>1. 0 \in 0..MaxGeneration /\ 0 \in 0..MaxRevision
  BY GitConstants DEF Git!GitContextAssumption
<1>2. Git!NoSnap \in Git!Snaps /\ Git!Shows("unavailable") \in Git!States
  BY DEF Git!NoSnap, Git!Snaps, Git!States, Git!Shows
<1>3. Git!NewLimiter \in Git!Limiters
  BY DEF Git!NewLimiter, Git!Limiters
<1>4. GitTyped
  BY <1>1, <1>2, <1>3 DEF Git!GitContextInit, GitTyped, Named
<1>5. RevisionsLeft
  BY <1>1, FS_EmptySet DEF Git!GitContextInit, RevisionsLeft
<1> QED BY <1>4, <1>5 DEF Git!GitContextInit, GitInv, CollectsCurrent, PutsBackExact, Git!ShownAsAsked,
       Git!Shows

\* What a reference resolves to is a branch or none.
LEMMA ResolvedNames ==
    ASSUME GitTyped, NEW name \in Named
    PROVE  Git!Resolved(name) \in Named
<1>1. ASSUME NEW order \in Seq(Named) PROVE Git!FirstPresent(order) \in Named
  <2> DEFINE here == {i \in DOMAIN order : order[i] \in refs}
  <2>1. here \in SUBSET Nat /\ \A i \in here : order[i] \in Named
    BY LenProperties, ElementOfSeq
  <2>2. CASE here = {}
    BY <2>2 DEF Git!FirstPresent, Named
  <2>3. CASE here # {}
    <3>1. \E i \in here : \A j \in here : i <= j
      <4> HIDE DEF here
      <4> QED BY <2>1, <2>3, LeastNatural
    <3>2. (CHOOSE i \in here : \A j \in here : i <= j) \in here
      BY <3>1
    <3>3. Git!FirstPresent(order) = order[CHOOSE i \in here : \A j \in here : i <= j]
      BY <2>3 DEF Git!FirstPresent
    <3> QED BY <2>1, <3>2, <3>3
  <2> QED BY <2>2, <2>3
<1>2. <<saved>> \o Fallbacks \in Seq(Named)
  <2>1. Fallbacks \in Seq(Named)
    <3>1. Fallbacks \in Seq(Refs)
      BY GitConstants DEF Git!GitContextAssumption
    <3> QED BY <3>1 DEF Named
  <2> QED BY <2>1, ConcatProperties DEF GitTyped
<1> QED BY <1>1, <1>2 DEF Git!Resolved, Named

\* A collection that begins now.
Launched == [gen |-> generation, rev |-> revision, asked |-> input, previous |-> shown.snap]

LEMMA LaunchedTyped == ASSUME GitTyped PROVE Launched \in Flights
<1>1. shown.snap \in Git!Snaps
  BY DEF GitTyped, Git!States
<1> QED BY <1>1 DEF GitTyped, Launched, Flights

\* A step that leaves what is shown and what is asked for, and begins at most one
\* collection.
LEMMA GitRefreshes ==
    ASSUME GitInv, UNCHANGED <<shown, input, revision, generation>>,
           refs' \subseteq Refs, saved' \in Named, chooser' \in Git!Snaps,
           limiter' \in Git!Limiters, closed' \in BOOLEAN,
           overlay' \in {"none", "open", "hidden"}, making' \subseteq 0..MaxGeneration,
           flights' \subseteq flights \cup {Launched}, saving' \subseteq saving
    PROVE  GitInv'
<1>1. flights' \subseteq Flights
  BY LaunchedTyped DEF GitInv, GitTyped
<1>2. GitTyped'
  BY <1>1 DEF GitInv, GitTyped
<1>3. RevisionsLeft'
  <2>1. IsFiniteSet(saving') /\ Cardinality(saving') <= Cardinality(saving)
    BY FS_Subset DEF GitInv, RevisionsLeft
  <2>2. Cardinality(saving) \in Nat /\ Cardinality(saving') \in Nat
    BY <2>1, FS_CardinalityType DEF GitInv, RevisionsLeft
  <2>3. revision \in Nat /\ MaxRevision \in Nat /\ revision + Cardinality(saving) <= MaxRevision
    BY GitConstants DEF Git!GitContextAssumption, GitInv, GitTyped, RevisionsLeft
  <2>4. revision' + Cardinality(saving') <= MaxRevision
    <3> DEFINE before == Cardinality(saving)
               after == Cardinality(saving')
    <3>1. before \in Nat /\ after \in Nat /\ after <= before /\ revision + before <= MaxRevision
      BY <2>1, <2>2, <2>3
    <3> HIDE DEF before, after
    <3>2. revision + after <= MaxRevision
      BY <2>3, <3>1
    <3> QED BY <3>2 DEF after
  <2> QED BY <2>1, <2>4 DEF RevisionsLeft
<1>4. CollectsCurrent'
  <2>1. revision \in Nat /\ generation \in Nat
    BY DEF GitInv, GitTyped
  <2> SUFFICES ASSUME NEW f \in flights'
               PROVE  /\ f.gen <= generation /\ f.rev <= revision
                      /\ f.gen = generation /\ f.rev = revision => f.asked = input
    BY DEF CollectsCurrent
  <2>2. CASE f \in flights
    BY <2>2 DEF GitInv, CollectsCurrent
  <2>3. CASE f = Launched
    BY <2>1, <2>3 DEF Launched
  <2> QED BY <2>2, <2>3
<1>5. PutsBackExact' /\ Git!ShownAsAsked'
  BY DEF GitInv, PutsBackExact, Git!ShownAsAsked
<1> QED BY <1>2, <1>3, <1>4, <1>5 DEF GitInv

LEMMA BegunIsLaunched == ASSUME NEW l PROVE Git!Begun(l) \subseteq {Launched}
BY DEF Git!Begun, Launched

\* A request for a refresh leaves a limiter and begins at most one collection.
LEMMA GitRequests ==
    ASSUME GitInv, Git!RequestRefresh
    PROVE  limiter' \in Git!Limiters /\ flights' \subseteq flights \cup {Launched}
<1> DEFINE l == Git!Requested(limiter)
<1>1. l \in Git!Limiters /\ limiter' = Git!Scheduled(l) /\ flights' = flights \cup Git!Begun(l)
  BY LimiterSteps DEF Git!RequestRefresh, GitInv, GitTyped
<1> HIDE DEF l
<1> QED BY <1>1, LimiterSteps, BegunIsLaunched

\* Steps that leave what is shown and what is asked for.
LEMMA GitQuietSteps ==
    ASSUME GitInv,
           \/ Git!IntervalEnds \/ Git!OverlayComes \/ Git!OpenSelector \/ Git!CancelSelector
           \/ Git!Toggle \/ Git!SessionEvent \/ (\E r \in Refs : Git!BranchDeleted(r))
           \/ \E s \in saving : Git!SaveSucceeds(s)
    PROVE  GitInv'
<1> USE DEF Git!panel, Git!repository
<1>0. /\ refs \subseteq Refs /\ saved \in Named /\ chooser \in Git!Snaps /\ limiter \in Git!Limiters
      /\ closed \in BOOLEAN /\ overlay \in {"none", "open", "hidden"} /\ shown \in Git!States
      /\ making \subseteq 0..MaxGeneration /\ generation \in 0..MaxGeneration /\ saving \subseteq Savings
  BY DEF GitInv, GitTyped
<1>n. Git!NoSnap \in Git!Snaps /\ shown.snap \in Git!Snaps
  BY <1>0 DEF Git!NoSnap, Git!Snaps, Git!States
<1>1. CASE Git!IntervalEnds
  <2> DEFINE l == Git!Elapsed(limiter)
  <2>1. l \in Git!Limiters /\ limiter' = Git!Scheduled(l) /\ flights' = flights \cup Git!Begun(l)
    BY <1>0, <1>1, LimiterSteps DEF Git!IntervalEnds
  <2> HIDE DEF l
  <2>2. limiter' \in Git!Limiters /\ flights' \subseteq flights \cup {Launched}
    BY <2>1, LimiterSteps, BegunIsLaunched
  <2> QED BY <1>0, <1>1, <2>2, GitRefreshes DEF Git!IntervalEnds
<1>2. ASSUME NEW g \in making, Git!OverlayMade(g) \/ Git!OverlayFails(g) PROVE GitInv'
  <2>1. /\ UNCHANGED <<shown, input, revision, generation, refs, saved, chooser, closed, saving>>
        /\ making' \subseteq making /\ overlay' \in {overlay, "open"}
        /\ Git!RequestRefresh \/ UNCHANGED <<limiter, flights>>
    BY <1>2 DEF Git!OverlayMade, Git!OverlayFails
  <2>2. limiter' \in Git!Limiters /\ flights' \subseteq flights \cup {Launched}
    BY <1>0, <2>1, GitRequests
  <2> QED BY <1>0, <2>1, <2>2, GitRefreshes
<1>3. CASE Git!OpenSelector \/ Git!CancelSelector
  <2>1. /\ UNCHANGED <<refs, saved, shown, input, revision, generation, closed, limiter, flights, overlay,
                       making, saving>>
        /\ chooser' \in {shown.snap, Git!NoSnap}
    BY <1>3 DEF Git!OpenSelector, Git!CancelSelector
  <2> QED BY <1>0, <1>n, <2>1, GitRefreshes
<1>4. CASE Git!Toggle
  <2>1. /\ UNCHANGED <<refs, saved, shown, input, revision, generation, limiter, flights, saving>>
        /\ closed' = FALSE
        /\ \/ making' = making \cup {generation} /\ UNCHANGED <<overlay, chooser>>
           \/ making' = making /\ overlay' \in {"open", "hidden"} /\ chooser' \in {Git!NoSnap, chooser}
    BY <1>4 DEF Git!Toggle
  <2> QED BY <1>0, <1>n, <2>1, GitRefreshes
<1>5. CASE Git!SessionEvent
  <2>1. limiter' \in Git!Limiters /\ flights' \subseteq flights \cup {Launched}
    BY <1>5, GitRequests DEF Git!SessionEvent
  <2> QED BY <1>0, <1>5, <2>1, GitRefreshes DEF Git!SessionEvent
<1>6. ASSUME NEW r \in Refs, Git!BranchDeleted(r) PROVE GitInv'
  BY <1>0, <1>6, GitRefreshes DEF Git!BranchDeleted
<1>7. ASSUME NEW s \in saving, Git!SaveSucceeds(s) PROVE GitInv'
  <2>1. /\ UNCHANGED <<refs, shown, input, revision, generation, closed, overlay, making, chooser>>
        /\ saving' \subseteq saving /\ saved' = s.ref
        /\ Git!RequestRefresh \/ UNCHANGED <<limiter, flights>>
    BY <1>7 DEF Git!SaveSucceeds
  <2>2. limiter' \in Git!Limiters /\ flights' \subseteq flights \cup {Launched}
    BY <1>0, <2>1, GitRequests
  <2>3. saved' \in Named
    BY <1>0, <2>1 DEF Savings, Named
  <2> QED BY <1>0, <2>1, <2>2, <2>3, GitRefreshes
<1> QED BY <1>1, <1>2, <1>3, <1>4, <1>5, <1>6, <1>7 DEF Git!OverlayComes

\* What a collection shows is a state of the panel; as current it shows only what it
\* was asked for.
LEMMA AnswersAsked ==
    ASSUME GitTyped, NEW f \in Flights, NEW next \in Git!Answers(f)
    PROVE  next \in Git!States /\ (next.is = "ready" => next.snap.asked = f.asked)
<1> DEFINE ref == Git!Resolved(f.asked)
           snap == [ref |-> ref, asked |-> f.asked]
<1>1. f.asked \in Named /\ f.previous \in Git!Snaps /\ NoRef \in Named
  BY DEF Flights, Named
<1>2. ref \in Named
  BY <1>1, ResolvedNames
<1>3. next \in {IF ref = NoRef THEN Git!Shows("failed") ELSE Git!Ready(snap),
                Git!Shows("failed"), Git!Retained(f.previous)}
  BY DEF Git!Answers
<1> HIDE DEF ref
<1>4. snap \in Git!Snaps
  BY <1>1, <1>2 DEF Git!Snaps, Named
<1>5. CASE next = Git!Ready(snap)
  <2>1. Git!Ready(snap) = [is |-> "ready", ref |-> ref, snap |-> snap]
    BY DEF Git!Ready
  <2> HIDE DEF snap
  <2>2. next \in Git!States
    BY <1>2, <1>4, <1>5, <2>1 DEF Git!States, Named
  <2>3. next.snap = snap
    BY <1>5, <2>1
  <2> QED BY <2>2, <2>3 DEF snap
<1>6. CASE next = Git!Shows("failed")
  <2>1. Git!NoSnap \in Git!Snaps
    BY DEF Git!NoSnap, Git!Snaps
  <2> QED BY <1>6, <2>1 DEF Git!Shows, Git!States
<1>7. CASE next = Git!Retained(f.previous) /\ f.previous # Git!NoSnap
  <2>1. next = [is |-> "stale", ref |-> f.previous.ref, snap |-> f.previous]
    BY <1>7 DEF Git!Retained, Git!Ready
  <2>2. f.previous.ref \in Refs \cup {NoRef}
    BY <1>1 DEF Git!Snaps
  <2> QED BY <1>1, <2>1, <2>2 DEF Git!States
<1>8. next = Git!Retained(f.previous) /\ f.previous = Git!NoSnap => next = Git!Shows("failed")
  BY DEF Git!Retained
<1> QED BY <1>3, <1>5, <1>6, <1>7, <1>8

LEMMA GitCollected ==
    ASSUME GitInv, NEW f \in flights, Git!Collected(f)
    PROVE  GitInv'
<1>1. /\ UNCHANGED <<refs, saved, input, revision, generation, closed, overlay, making, chooser, saving>>
      /\ f \in Flights /\ GitTyped
  BY DEF Git!Collected, Git!repository, Git!panel, GitInv, GitTyped
<1>2. PICK next \in Git!Answers(f) : shown' = IF Git!StillAsked(f) THEN next ELSE shown
  BY DEF Git!Collected
<1>3. shown' \in Git!States /\ Git!ShownAsAsked'
  <2>1. CASE Git!StillAsked(f)
    <3>1. f.asked = input
      BY <2>1 DEF Git!StillAsked, GitInv, CollectsCurrent
    <3> QED BY <1>1, <1>2, <2>1, <3>1, AnswersAsked DEF Git!ShownAsAsked
  <2>2. CASE ~Git!StillAsked(f)
    BY <1>1, <1>2, <2>2 DEF GitInv, GitTyped, Git!ShownAsAsked
  <2> QED BY <2>1, <2>2
<1>4. limiter' \in Git!Limiters /\ flights' \subseteq flights \cup {Launched'}
  <2>1. CASE f.gen = generation
    <3> DEFINE l == Git!Settled(limiter)
    <3>1. l \in Git!Limiters /\ limiter' = Git!Scheduled(l)
      BY <2>1, LimiterSteps DEF Git!Collected, Git!Rescheduled, GitInv, GitTyped
    <3> HIDE DEF l
    <3>2. flights' \subseteq flights \cup {Launched'}
      BY <1>1, <2>1 DEF Git!Collected, Launched
    <3> QED BY <3>1, <3>2, LimiterSteps
  <2>2. CASE f.gen # generation
    BY <2>2 DEF Git!Collected, GitInv, GitTyped
  <2> QED BY <2>1, <2>2
<1>5. Launched' \in Flights
  <2>1. shown'.snap \in Git!Snaps
    BY <1>3 DEF Git!States
  <2> QED BY <1>1, <2>1 DEF GitTyped, Launched, Flights
<1>6. GitTyped'
  BY <1>1, <1>3, <1>4, <1>5 DEF GitTyped
<1>7. CollectsCurrent'
  <2>1. revision \in Nat /\ generation \in Nat
    BY <1>1 DEF GitTyped
  <2>2. Launched' = [gen |-> generation, rev |-> revision, asked |-> input, previous |-> shown'.snap]
    BY <1>1 DEF Launched
  <2> SUFFICES ASSUME NEW g \in flights'
               PROVE  /\ g.gen <= generation /\ g.rev <= revision
                      /\ g.gen = generation /\ g.rev = revision => g.asked = input
    BY <1>1 DEF CollectsCurrent
  <2>3. CASE g \in flights
    BY <2>3 DEF GitInv, CollectsCurrent
  <2>4. CASE g = Launched'
    BY <2>1, <2>2, <2>4
  <2> QED BY <1>4, <2>3, <2>4
<1>8. RevisionsLeft' /\ PutsBackExact'
  BY <1>1 DEF GitInv, RevisionsLeft, PutsBackExact
<1> QED BY <1>3, <1>6, <1>7, <1>8 DEF GitInv

LEMMA GitChosen ==
    ASSUME GitInv, NEW r \in Refs, Git!Choose(r)
    PROVE  GitInv'
<1> DEFINE s == [ref |-> r, gen |-> generation, rev |-> revision, shown |-> shown, input |-> input]
           waiting == [is |-> "pending", ref |-> r, snap |-> chooser]
           n == Cardinality(saving)
<1>1. /\ UNCHANGED <<refs, saved, generation, closed, limiter, flights, overlay, making>>
      /\ saving' = saving \cup {s} /\ input' = r /\ revision' = revision + 1
      /\ shown' = waiting /\ chooser' = Git!NoSnap
  BY DEF Git!Choose, Git!repository, Git!panel
<1>b. revision + n + 2 <= MaxRevision
  <2>1. Git!Cardinality(saving) = Cardinality(saving)
    BY DEF Git!Cardinality, Cardinality
  <2>2. revision + Git!Cardinality(saving) + 2 <= MaxRevision
    BY DEF Git!Choose
  <2> QED BY <2>1, <2>2
<1>2. s \in Savings /\ GitTyped
  BY DEF GitInv, GitTyped, Savings
<1>3. waiting \in Git!States /\ Git!NoSnap \in Git!Snaps /\ waiting.is = "pending"
  BY DEF GitInv, GitTyped, Git!States, Git!NoSnap, Git!Snaps
<1>4. /\ IsFiniteSet(saving') /\ n \in Nat /\ Cardinality(saving') \in Nat
      /\ Cardinality(saving') <= n + 1
  <2>1. IsFiniteSet(saving)
    BY DEF GitInv, RevisionsLeft
  <2> HIDE DEF s
  <2>2. /\ IsFiniteSet(saving') /\ n \in Nat
        /\ Cardinality(saving') = IF s \in saving THEN n ELSE n + 1
    BY <1>1, <2>1, FS_AddElement, FS_CardinalityType
  <2> HIDE DEF n
  <2> QED BY <2>2
<1>5. revision \in Nat /\ generation \in Nat /\ MaxRevision \in Nat
  BY GitConstants DEF Git!GitContextAssumption, GitInv, GitTyped
<1>6. PutsBackExact'
  <2>1. s.shown = shown /\ s.input = input
    OBVIOUS
  <2> HIDE DEF s
  <2> QED BY <1>1, <2>1 DEF GitInv, PutsBackExact, Git!ShownAsAsked
<1> HIDE DEF s, waiting, n
<1>7. revision' \in 0..MaxRevision /\ revision' + Cardinality(saving') <= MaxRevision
  BY <1>1, <1>b, <1>4, <1>5
<1>8. GitTyped'
  BY <1>1, <1>2, <1>3, <1>7 DEF GitTyped, Named
<1>9. CollectsCurrent'
  <2> SUFFICES ASSUME NEW f \in flights
               PROVE  f.gen <= generation /\ f.rev <= revision + 1 /\ f.rev # revision + 1
    BY <1>1 DEF CollectsCurrent
  <2>1. f.gen <= generation /\ f.rev <= revision /\ f.rev \in Nat
    BY <1>2 DEF GitInv, CollectsCurrent, GitTyped, Flights
  <2> QED BY <1>5, <2>1
<1>10. Git!ShownAsAsked'
  BY <1>1, <1>3 DEF Git!ShownAsAsked
<1> QED BY <1>4, <1>6, <1>7, <1>8, <1>9, <1>10 DEF GitInv, RevisionsLeft

LEMMA GitSaveFails ==
    ASSUME GitInv, NEW s \in saving, Git!SaveFails(s)
    PROVE  GitInv'
<1> DEFINE n == Cardinality(saving)
           m == Cardinality(saving')
<1>1. /\ UNCHANGED <<refs, saved, generation, closed, limiter, flights, overlay, making, chooser>>
      /\ saving' = saving \ {s}
  BY DEF Git!SaveFails, Git!repository, Git!panel
<1>2. \/ revision' = revision + 1 /\ input' = s.input /\ shown' = s.shown
      \/ UNCHANGED <<revision, input, shown>>
  BY DEF Git!SaveFails
<1>3. s \in Savings /\ GitTyped
  BY DEF GitInv, GitTyped
<1>4. IsFiniteSet(saving') /\ n \in Nat /\ m \in Nat /\ m = n - 1 /\ revision + n <= MaxRevision
  <2>1. IsFiniteSet(saving) /\ revision + n <= MaxRevision
    BY DEF GitInv, RevisionsLeft
  <2> QED BY <1>1, <2>1, FS_RemoveElement, FS_CardinalityType
<1>5. revision \in Nat /\ MaxRevision \in Nat
  BY GitConstants, <1>3 DEF Git!GitContextAssumption, GitTyped
<1> HIDE DEF n
<1>6. m \in Nat /\ revision' + m <= MaxRevision /\ revision' \in 0..MaxRevision /\ revision' >= revision
  <2> HIDE DEF m
  <2> QED BY <1>2, <1>4, <1>5
<1>7. GitTyped'
  <2>1. input' \in Named /\ shown' \in Git!States
    BY <1>2, <1>3 DEF Savings, GitTyped
  <2> QED BY <1>1, <1>3, <1>6, <2>1 DEF GitTyped
<1>8. CollectsCurrent'
  <2> SUFFICES ASSUME NEW f \in flights
               PROVE  /\ f.gen <= generation /\ f.rev <= revision'
                      /\ f.gen = generation /\ f.rev = revision' => f.asked = input'
    BY <1>1 DEF CollectsCurrent
  <2>1. /\ f.gen <= generation /\ f.rev <= revision /\ f.rev \in Nat
        /\ f.gen = generation /\ f.rev = revision => f.asked = input
    BY <1>3 DEF GitInv, CollectsCurrent, GitTyped, Flights
  <2> QED BY <1>2, <1>5, <2>1
<1>9. PutsBackExact' /\ Git!ShownAsAsked'
  BY <1>1, <1>2 DEF GitInv, PutsBackExact, Git!ShownAsAsked
<1> QED BY <1>4, <1>6, <1>7, <1>8, <1>9 DEF GitInv, RevisionsLeft

LEMMA GitSessions ==
    ASSUME GitInv, Git!SessionShutdown \/ Git!SessionStart
    PROVE  GitInv'
<1>1. /\ UNCHANGED <<refs, saved, revision, flights, making, saving>>
      /\ generation < MaxGeneration /\ generation' = generation + 1
      /\ limiter' = Git!NewLimiter /\ chooser' = Git!NoSnap /\ overlay' = "none"
  BY DEF Git!SessionShutdown, Git!SessionStart, Git!TearDown, Git!repository
<1>2. /\ closed' \in BOOLEAN
      /\ \/ UNCHANGED <<shown, input>>
         \/ shown' = Git!Shows("unavailable") /\ input' = NoRef
  BY DEF Git!SessionShutdown, Git!SessionStart
<1>3. Git!NewLimiter \in Git!Limiters /\ Git!NoSnap \in Git!Snaps
  BY DEF Git!NewLimiter, Git!Limiters, Git!NoSnap, Git!Snaps
<1>4. shown' \in Git!States /\ input' \in Named /\ Git!ShownAsAsked'
  BY <1>2, <1>3 DEF GitInv, GitTyped, Git!Shows, Git!States, Named, Git!ShownAsAsked
<1>5. generation' \in 0..MaxGeneration /\ generation \in Nat
  BY <1>1, GitConstants DEF GitInv, GitTyped, Git!GitContextAssumption
<1>6. GitTyped'
  BY <1>1, <1>2, <1>3, <1>4, <1>5 DEF GitInv, GitTyped
<1>7. CollectsCurrent'
  <2> SUFFICES ASSUME NEW f \in flights
               PROVE  f.gen <= generation + 1 /\ f.rev <= revision /\ f.gen # generation + 1
    BY <1>1 DEF CollectsCurrent
  <2>1. f.gen <= generation /\ f.rev <= revision /\ f.gen \in Nat
    BY DEF GitInv, CollectsCurrent, GitTyped, Flights
  <2> QED BY <1>5, <2>1
<1>8. RevisionsLeft' /\ PutsBackExact'
  BY <1>1 DEF GitInv, RevisionsLeft, PutsBackExact
<1> QED BY <1>4, <1>6, <1>7, <1>8 DEF GitInv

LEMMA GitStepsKeep == GitHolds /\ [LiveNext]_liveVars => GitHolds'
<1> SUFFICES ASSUME GitHolds, [LiveNext]_liveVars, part' = "git"
             PROVE  GitInv'
  BY DEF GitHolds
<1>1. CASE GitStep
  <2>1. GitInv /\ Git!GitContextNext
    BY <1>1 DEF GitStep, GitHolds
  <2> QED BY <2>1, GitQuietSteps, GitCollected, GitChosen, GitSaveFails, GitSessions
       DEF Git!GitContextNext, Git!CollectionEnds, Git!SaveEnds
<1>2. CASE UNCHANGED liveVars
  <2>1. UNCHANGED <<part, gitVars>>
    BY <1>2 DEF liveVars
  <2> QED BY <2>1 DEF gitVars, GitHolds, GitInv, GitTyped, RevisionsLeft, CollectsCurrent, PutsBackExact,
       Git!ShownAsAsked
<1>3. CASE ForegroundStep \/ ArtifactStep \/ AgentsStep \/ UpdatesStep \/ PanelStep \/ OperationsStep
  BY <1>3 DEF ForegroundStep, ArtifactStep, AgentsStep, UpdatesStep, PanelStep, OperationsStep
<1> QED BY <1>1, <1>2, <1>3 DEF LiveNext

-----------------------------------------------------------------------------
(* The session panel.                                                      *)

\* Both panels use the same limiter.
LEMMA OneLimiter ==
    /\ Panel!Limiters = Git!Limiters
    /\ \A l : /\ Panel!Requested(l) = Git!Requested(l) /\ Panel!Elapsed(l) = Git!Elapsed(l)
              /\ Panel!Settled(l) = Git!Settled(l) /\ Panel!Scheduled(l) = Git!Scheduled(l)
              /\ Panel!Fires(l) = Git!Fires(l)
BY DEF Panel!Limiters, Git!Limiters, Panel!Requested, Git!Requested, Panel!Elapsed, Git!Elapsed,
   Panel!Settled, Git!Settled, Panel!Scheduled, Git!Scheduled, Panel!Fires, Git!Fires

\* The registry names one of the tickets, or none.
TicketOrNone == PanelTickets \cup {None}
Asks ==
    {Panel!Unasked}
    \cup [at : {"collecting"}, target : PanelTickets, seen : TicketOrNone \cup {Nothing}, tasks : Nat]
    \cup [at : {"asking", "confirming"}, target : PanelTickets, current : TicketOrNone]

PanelTyped ==
    /\ phase \in {"open", "closing", "closed"} /\ ticket \in TicketOrNone
    /\ tasks \in Nat /\ ask \in Asks
    /\ reconciling.at \in {"idle", "asking"}

\* The limiter runs exactly while a collection is under way.
OneFlight == refresher \in Panel!Limiters /\ flight.busy = refresher.running

\* The inductive invariant behind the panel part of PanelsSafe.
PanelInv == PanelTyped /\ OneFlight /\ Panel!ClosedQuiet /\ Panel!AsConfirmed

PanelHolds == part = "panel" => PanelInv

LEMMA PanelMeans == PanelInv => Panel!PanelTypeOK /\ Panel!ClosedQuiet /\ Panel!AsConfirmed
<1> SUFFICES ASSUME PanelInv PROVE Panel!PanelTypeOK
  BY DEF PanelInv
<1>1. ask.at \in {"idle", "collecting", "asking", "confirming"}
  BY DEF PanelInv, PanelTyped, Asks, Panel!Unasked
<1> QED BY <1>1 DEF PanelInv, PanelTyped, OneFlight, TicketOrNone, Panel!PanelTypeOK

LEMMA PanelStarts == LiveInit => PanelHolds
<1> SUFFICES ASSUME Panel!PanelInit PROVE PanelInv
  BY DEF LiveInit, PanelHolds
<1>1. OneFlight
  <2>1. Panel!NewLimiter \in Git!Limiters
    BY DEF Panel!NewLimiter, Git!Limiters
  <2>2. Git!Scheduled(Git!Requested(Panel!NewLimiter)).running = TRUE
    BY DEF Panel!NewLimiter, Git!Requested, Git!Scheduled, Git!Fires
  <2>3. Git!Scheduled(Git!Requested(Panel!NewLimiter)) \in Git!Limiters
    BY <2>1, LimiterSteps
  <2>4. refresher = Git!Scheduled(Git!Requested(Panel!NewLimiter)) /\ flight.busy = TRUE
    BY OneLimiter DEF Panel!PanelInit
  <2> QED BY <2>2, <2>3, <2>4, OneLimiter DEF OneFlight
<1>2. BoundTicket \in TicketOrNone
  BY PanelConstants DEF Panel!PanelAssumption, TicketOrNone
<1>3. PanelTyped
  BY <1>2 DEF Panel!PanelInit, PanelTyped, Asks, Panel!Nobody
<1>4. Panel!ClosedQuiet /\ Panel!AsConfirmed
  BY DEF Panel!PanelInit, Panel!ClosedQuiet, Panel!AsConfirmed
<1> QED BY <1>1, <1>3, <1>4 DEF PanelInv

\* When the limiter of an open session fires, a collection begins.
LEMMA RefresherGoes ==
    ASSUME NEW l \in Git!Limiters, NEW list, Panel!LimiterGoes(l, list),
           Panel!Fires(l), Panel!Open
    PROVE  OneFlight'
<1>1. refresher' = Git!Scheduled(l)
  BY OneLimiter DEF Panel!LimiterGoes
<1>2. refresher' \in Panel!Limiters /\ refresher'.running = TRUE
  <2>1. l.running \in BOOLEAN /\ Git!Fires(l)
    BY OneLimiter DEF Git!Limiters
  <2> QED BY <1>1, <2>1, LimiterSteps, OneLimiter DEF Git!Scheduled
<1>3. flight'.busy = TRUE
  BY DEF Panel!LimiterGoes
<1> QED BY <1>2, <1>3 DEF OneFlight

\* A step that asks for a refresh, or lets the interval end.
LEMMA PanelCollects ==
    ASSUME PanelInv, Panel!Periodic \/ Panel!TodoChanged \/ Panel!Interval \/ Panel!RefreshEnds
    PROVE  PanelInv'
<1> USE DEF Panel!notPanel
<1>1. /\ UNCHANGED <<phase, ticket, ask, reconciling, written, settled>>
      /\ tasks' \in {tasks, tasks + 1}
  BY DEF Panel!Periodic, Panel!TodoChanged, Panel!Interval, Panel!RefreshEnds
<1>2. refresher \in Git!Limiters /\ flight.busy = refresher.running /\ tasks \in Nat
  BY OneLimiter DEF PanelInv, OneFlight, PanelTyped
<1>3. ASSUME NEW list, Panel!Open, Panel!RequestRefresh(list) PROVE OneFlight'
  <2> DEFINE l == Panel!Requested(refresher)
  <2>1. l \in Git!Limiters /\ l.running = refresher.running
    BY <1>2, LimiterSteps, OneLimiter
  <2>2. CASE Panel!Fires(l)
    <3>1. Panel!LimiterGoes(l, list)
      BY <1>3, <2>2 DEF Panel!RequestRefresh
    <3> HIDE DEF l
    <3> QED BY <1>3, <2>1, <2>2, <3>1, RefresherGoes
  <2>3. CASE ~Panel!Fires(l)
    <3>1. refresher' = l /\ flight' = flight
      BY <1>3, <2>3 DEF Panel!RequestRefresh
    <3> HIDE DEF l
    <3> QED BY <1>2, <2>1, <3>1, OneLimiter DEF OneFlight
  <2> QED BY <2>2, <2>3
<1>4. CASE Panel!Interval
  <2> DEFINE l == Panel!Elapsed(refresher)
  <2>1. l \in Git!Limiters /\ l.running = refresher.running /\ Panel!Open
    BY <1>2, <1>4, LimiterSteps, OneLimiter DEF Panel!Interval
  <2>2. ASSUME Panel!Fires(l) PROVE OneFlight'
    <3>1. Panel!LimiterGoes(l, tasks)
      BY <1>4, <2>2 DEF Panel!Interval
    <3> HIDE DEF l
    <3> QED BY <2>1, <2>2, <3>1, RefresherGoes
  <2>3. ASSUME ~Panel!Fires(l) PROVE OneFlight'
    <3>1. refresher' = l /\ flight' = flight
      BY <1>4, <2>3 DEF Panel!Interval
    <3> HIDE DEF l
    <3> QED BY <1>2, <2>1, <3>1, OneLimiter DEF OneFlight
  <2>4. OneFlight'
    BY <2>2, <2>3
  <2>5. PanelTyped' /\ Panel!ClosedQuiet' /\ Panel!AsConfirmed'
    BY <1>1, <1>2, <2>1 DEF PanelInv, PanelTyped, Panel!Open, Panel!ClosedQuiet, Panel!AsConfirmed
  <2> QED BY <2>4, <2>5 DEF PanelInv
<1>5. CASE Panel!Periodic \/ Panel!TodoChanged
  <2>1. OneFlight' /\ Panel!Open
    BY <1>3, <1>5 DEF Panel!Periodic, Panel!TodoChanged
  <2>2. PanelTyped' /\ Panel!ClosedQuiet' /\ Panel!AsConfirmed'
    BY <1>1, <1>2, <2>1 DEF PanelInv, PanelTyped, Panel!Open, Panel!ClosedQuiet, Panel!AsConfirmed
  <2> QED BY <2>1, <2>2 DEF PanelInv
<1>6. CASE Panel!RefreshEnds
  <2> DEFINE l == Panel!Settled(refresher)
  <2>1. l \in Git!Limiters /\ ~l.running /\ flight.busy
    BY <1>2, <1>6, LimiterSteps, OneLimiter DEF Panel!RefreshEnds
  <2>2. phase # "closed"
    BY <1>2, <2>1 DEF PanelInv, Panel!ClosedQuiet
  <2>3. ASSUME Panel!Fires(l) /\ Panel!Open PROVE OneFlight'
    <3>1. Panel!LimiterGoes(l, tasks)
      BY <1>6, <2>3 DEF Panel!RefreshEnds
    <3> HIDE DEF l
    <3> QED BY <2>1, <2>3, <3>1, RefresherGoes
  <2>4. ASSUME ~(Panel!Fires(l) /\ Panel!Open) PROVE OneFlight'
    <3>1. refresher' = l /\ flight'.busy = FALSE
      BY <1>6, <2>4 DEF Panel!RefreshEnds, Panel!NoFlight
    <3> HIDE DEF l
    <3>2. l.running \in BOOLEAN
      BY <2>1 DEF Git!Limiters
    <3> QED BY <2>1, <3>1, <3>2, OneLimiter DEF OneFlight
  <2>5. PanelTyped' /\ Panel!ClosedQuiet' /\ Panel!AsConfirmed'
    BY <1>1, <1>2, <2>2 DEF PanelInv, PanelTyped, Panel!ClosedQuiet, Panel!AsConfirmed
  <2> QED BY <2>3, <2>4, <2>5 DEF PanelInv
<1> QED BY <1>4, <1>5, <1>6

LEMMA PanelAssociates ==
    ASSUME PanelInv,
           \/ \E t \in PanelTickets : Panel!Associate(t)
           \/ Panel!AssociateCollected \/ Panel!Dismiss \/ Panel!GiveReason \/ Panel!Confirm
    PROVE  PanelInv'
<1> USE DEF Panel!panelRest
<1>1. UNCHANGED <<phase, tasks, refresher, flight, reconciling, settled>>
  BY DEF Panel!Associate, Panel!AssociateCollected, Panel!Dismiss, Panel!GiveReason, Panel!Confirm
<1>2. ticket \in TicketOrNone /\ tasks \in Nat /\ ask \in Asks /\ Panel!Unasked \in Asks
  BY DEF PanelInv, PanelTyped, Asks
<1>3. ASSUME ask' \in Asks, ticket' \in TicketOrNone, Panel!AsConfirmed' PROVE PanelInv'
  BY <1>1, <1>3 DEF PanelInv, PanelTyped, OneFlight, Panel!ClosedQuiet
<1>4. ASSUME UNCHANGED written, ask' \in Asks, UNCHANGED ticket PROVE PanelInv'
  <2>1. Panel!AsConfirmed'
    BY <1>1, <1>4 DEF PanelInv, Panel!AsConfirmed
  <2> QED BY <1>2, <1>3, <1>4, <2>1
<1>5. ASSUME NEW t \in PanelTickets, Panel!Associate(t) PROVE PanelInv'
  <2>1. PICK viewed \in TicketOrNone \cup {Nothing} :
          ask' = [at |-> "collecting", target |-> t, seen |-> viewed, tasks |-> tasks]
    BY <1>5 DEF Panel!Associate, TicketOrNone
  <2>2. ask' \in Asks
    BY <1>2, <2>1 DEF Asks
  <2> QED BY <1>4, <1>5, <2>2 DEF Panel!Associate
<1>6. CASE Panel!AssociateCollected
  <2>1. ask' \in Asks
    <3>1. ask.at = "collecting" /\ ask.target \in PanelTickets /\ ask.seen \in TicketOrNone \cup {Nothing}
      BY <1>2, <1>6 DEF Panel!AssociateCollected, Asks, Panel!Unasked
    <3>2. CASE ask.seen = Nothing
      BY <1>2, <1>6, <3>2 DEF Panel!AssociateCollected
    <3>3. CASE ask.seen # Nothing
      <4>1. ask' = [at |-> "asking", target |-> ask.target, current |-> ask.seen]
        BY <1>6, <3>3 DEF Panel!AssociateCollected
      <4> QED BY <3>1, <3>3, <4>1 DEF Asks
    <3> QED BY <3>2, <3>3
  <2> QED BY <1>4, <1>6, <2>1 DEF Panel!AssociateCollected
<1>7. CASE Panel!Dismiss
  BY <1>2, <1>4, <1>7 DEF Panel!Dismiss
<1>8. ASSUME ask.at \in {"asking", "confirming"}, NEW confirmed \in BOOLEAN, Panel!Write(confirmed),
             ask.current \in {None, ask.target} \/ confirmed
      PROVE  PanelInv'
  <2>1. ask.target \in PanelTickets /\ ask' \in Asks
    BY <1>2, <1>8 DEF Asks, Panel!Unasked, Panel!Write
  <2>2. CASE UNCHANGED <<ticket, display, written>>
    BY <1>4, <2>1, <2>2
  <2>3. CASE /\ ticket = Panel!Expected(ask.current) /\ ticket' = ask.target
             /\ written' = [from |-> ticket, to |-> ask.target, told |-> ask.current,
                            confirmed |-> confirmed]
    <3>1. Panel!AsConfirmed'
      BY <1>1, <1>8, <2>3 DEF PanelInv, Panel!AsConfirmed, Panel!Expected
    <3> QED BY <1>3, <2>1, <2>3, <3>1 DEF TicketOrNone
  <2> QED BY <1>8, <2>2, <2>3 DEF Panel!Write
<1>9. CASE Panel!GiveReason
  <2>1. CASE Panel!Replaces(ask.current, ask.target)
    <3>1. ask' = [ask EXCEPT !.at = "confirming"] /\ UNCHANGED <<ticket, written>> /\ ask.at = "asking"
      BY <1>9, <2>1 DEF Panel!GiveReason
    <3>2. ask' \in Asks
      BY <1>2, <3>1 DEF Asks, Panel!Unasked
    <3> QED BY <1>4, <3>1, <3>2
  <2>2. CASE ~Panel!Replaces(ask.current, ask.target)
    BY <1>8, <1>9, <2>2 DEF Panel!GiveReason, Panel!Replaces
  <2> QED BY <2>1, <2>2
<1>10. CASE Panel!Confirm
  BY <1>8, <1>10 DEF Panel!Confirm
<1> QED BY <1>5, <1>6, <1>7, <1>9, <1>10

LEMMA PanelLives ==
    ASSUME PanelInv,
           \/ Panel!Reconcile \/ Panel!Accept \/ Panel!Decline
           \/ Panel!Shutdown \/ Panel!CloseRegistry \/ Panel!Other
    PROVE  PanelInv'
<1> USE DEF Panel!childRest, Panel!lifeRest, PanelInv, PanelTyped, OneFlight, Panel!ClosedQuiet,
            Panel!AsConfirmed
<1>1. CASE Panel!Reconcile
  BY <1>1 DEF Panel!Reconcile, Panel!Open
<1>2. CASE Panel!Accept
  BY <1>2 DEF Panel!Accept, Panel!AsInspected, Panel!Nobody
<1>3. CASE Panel!Decline
  BY <1>3 DEF Panel!Decline, Panel!Nobody
<1>4. CASE Panel!Shutdown
  <2>1. refresher' \in Panel!Limiters /\ refresher'.running = refresher.running /\ phase' = "closing"
    BY <1>4 DEF Panel!Shutdown, Panel!Limiters
  <2> QED BY <1>4, <2>1 DEF Panel!Shutdown
<1>5. CASE Panel!CloseRegistry
  BY <1>5 DEF Panel!CloseRegistry, Panel!AllSettled
<1>6. CASE Panel!Other
  BY <1>6 DEF Panel!Other, TicketOrNone
<1> QED BY <1>1, <1>2, <1>3, <1>4, <1>5, <1>6

LEMMA PanelStepsKeep == PanelHolds /\ [LiveNext]_liveVars => PanelHolds'
<1> SUFFICES ASSUME PanelHolds, [LiveNext]_liveVars, part' = "panel"
             PROVE  PanelInv'
  BY DEF PanelHolds
<1>1. CASE PanelStep
  BY <1>1, PanelCollects, PanelAssociates, PanelLives DEF PanelStep, PanelHolds, Panel!PanelNext
<1>2. CASE UNCHANGED liveVars
  <2>1. UNCHANGED <<part, panelVars>>
    BY <1>2 DEF liveVars
  <2> QED BY <2>1 DEF panelVars, PanelHolds, PanelInv, PanelTyped, OneFlight, Panel!ClosedQuiet,
       Panel!AsConfirmed
<1>3. CASE ForegroundStep \/ ArtifactStep \/ GitStep \/ AgentsStep \/ UpdatesStep \/ OperationsStep
  BY <1>3 DEF ForegroundStep, ArtifactStep, GitStep, AgentsStep, UpdatesStep, OperationsStep
<1> QED BY <1>1, <1>2, <1>3 DEF LiveNext

\* What the Git panel shows as current was collected for the reference asked for now;
\* an association of a ticket and a settled child are what the operator confirmed, and
\* a closed registry has no reader left: PanelsSafe.
THEOREM PanelsAreSafe == LiveSpec => []PanelsSafe
<1>1. GitHolds /\ PanelHolds => PanelsSafe
  BY GitMeans, PanelMeans DEF GitHolds, PanelHolds, PanelsSafe
<1> QED BY GitStarts, GitStepsKeep, PanelStarts, PanelStepsKeep, <1>1, PTL DEF LiveSpec
=============================================================================
