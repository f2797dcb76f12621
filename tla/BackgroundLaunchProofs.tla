----------------------- MODULE BackgroundLaunchProofs -----------------------
(* What holds of a background launch of any kind.                          *)
EXTENDS BackgroundLaunch, TLAPS

-----------------------------------------------------------------------------
(* The inductive invariant, in parts.                                      *)

\* The runner's part of TypeOK.
StageOK == runner \in Stages

Taken == \A x \in Things : custody[x] # "launcher"
Shows(e) == e # None /\ e.state \in {"active", "finalizing", "finalized"} => Taken
Working == {"admit", "checks", "spawn", "run", "cleanup", "closed", "finalizing", "recorded",
            "catch finalized", "report finalized"}

\* One side at a time: no runner before it is started, none after it was verified gone.
Sides ==
    /\ launcher \in {"write", "spawn"} => runner = "absent"
    /\ launcher = "clean" \/ Settling => (verified => ~RunnerLives)

\* The runner works, and says so, only when the launcher answers for nothing any more.
HandedOver ==
    /\ \A x \in Things : x \notin Held(kind) => custody[x] = "none"
    /\ runner = "slot" => custody["source"] # "launcher"
    /\ runner \in Working => Taken
    /\ Shows(ownership) /\ Shows(seen)

\* What is on record when.
Recorded ==
    /\ launcher \in {"reservation", "failed"} => row = "failed"
    /\ runner \in {"recorded", "catch finalized", "report finalized"} => row # "none"
    /\ FinalizedIsRecorded

\* What the runner knows of its child.
Supervised ==
    /\ child = "alive" => ~cleaned
    /\ normal => child = "gone"
    /\ child = "none" => runner \notin {"run", "cleanup", "closed", "finalizing", "recorded",
                                       "catch finalized", "report finalized"}
    /\ child # "none" => runner \notin {"absent", "boot", "start", "read", "transfer", "slot", "matrix",
                                       "admit", "checks", "spawn"}
    /\ child = "alive" => result = "failed" \/ runner \in {"run", "cleanup", "dead"}
    /\ runner \in {"closed", "finalizing"} => result # "none"

\* What it took over: all that is its own, before it starts the child.
Moved ==
    /\ \A x \in Things : (custody[x] = "runner" => x \in moved) /\ (x \in moved => custody[x] # "launcher")
    /\ runner \in {"matrix", "admit", "checks"} => kind = "review"
    /\ runner = "slot" => kind = "owner" /\ "source" \in moved
    /\ kind \in {"owner", "borrower", "child"} /\ (runner = "spawn" \/ child # "none") => "source" \in moved

\* When the source may be returned under a living child.
Returned ==
    "source" \in moved /\ custody["source"] = "none" =>
        \/ kind = "owner" /\ launcher \notin {"write", "spawn", "poll", "pending"}
        \/ runner \in GivenBack /\ (child = "alive" => result = "failed" /\ kind # "child")

\* When the reservation may be.
Reserved ==
    kind = "review" /\ ~reservation =>
        /\ row # "none"
        /\ launcher = "failed" \/ (child # "alive" /\ runner \in GivenBack \union {"source back"})

\* What the finally block leaves behind.
Accounted ==
    kind # "child" =>
        /\ runner = "slot back" /\ custody["source"] = "runner" => trouble = "authority"
        /\ runner = "retract" => row = "failed"
        /\ runner \in {"marker", "ended"} /\ trouble # "thrown" => row = "failed" \/ \A x \in Things : custody[x] # "runner"

Inv == TypeOK /\ Sides /\ HandedOver /\ Recorded /\ Supervised /\ Moved /\ Returned /\ Reserved /\ Accounted
\* A publication of the runner is evidence of the state it names.
LEMMA Published ==
  ASSUME NEW s \in States, Publishes(s)
  PROVE  ownership' \in Evidence /\ ownership' # None /\ ownership'.state = s
<1>1. ownership' \in Evidence
  BY Zenon DEF Publishes, Evidence
<1>2. ownership' # None
  BY <1>1, KindsAssumption
<1>3. ownership'.state = s
  BY DEF Publishes
<1> QED BY <1>1, <1>2, <1>3

\* Every step keeps the types of the launcher's variables.
LEMMA LauncherOKStep == LauncherOK /\ FilesOK /\ Next => LauncherOK'
<1> SUFFICES ASSUME LauncherOK, FilesOK, Next PROVE LauncherOK'
  OBVIOUS
<1>1. CASE Kill
  BY <1>1 DEF LauncherOK, Kill, launcherVars, files, locals, repository
<1>2. CASE Boot \/ Start \/ Read \/ TransferSource \/ TransferSlot \/ ReadReview \/ AdmitMatrix
           \/ EndMatrix \/ SpawnFails \/ Closed \/ Interrupt \/ CleanedUp \/ Finalizing \/
           Record \/ Finalized \/ Throws \/ Catch \/ Report \/ ReservationBack \/ SourceBack \/
           SlotBack \/ Unsettled \/ Retract \/ FinallyThrows \/ Marker \/ RunnerDies
  BY <1>2 DEF LauncherOK, Boot, From, launcherVars, locals, repository, Start, Read, TransferSource,
     TakeOver, files, TransferSlot, ReadReview, AdmitMatrix, EndMatrix, SpawnFails, Closed,
     Interrupt, CleanedUp, Finalizing, Record, Finalized, Throws, Catch, Report, ReservationBack,
     SourceBack, SlotBack, Unsettled, Retract, FinallyThrows, Marker, RunnerDies
<1>3. CASE ChildReports \/ SeeRow \/ SeeOwner \/ OwnerLives \/ OwnerDead \/ Recheck \/ StalePid
           \/ Crash
  BY <1>3 DEF LauncherOK, ChildReports, launcherVars, files, locals, repository, SeeRow, Observes,
     SeeOwner, OwnerLives, OwnerDead, Recheck, StalePid, Crash
<1>4. CASE Write
  BY <1>4 DEF LauncherOK, Write, locals, repository
<1>5. CASE Spawn
  BY <1>5 DEF LauncherOK, Spawn, locals, repository
<1>6. CASE Poll
  BY <1>6 DEF LauncherOK, FilesOK, Poll, Ready, files, locals, repository
<1>7. CASE Accept
  BY <1>7, KindsAssumption DEF LauncherOK, Accept, Ready, files, locals, repository, Evidence
<1>8. CASE GiveUp
  BY <1>8 DEF LauncherOK, GiveUp, Ready, Unhandled, RunnerLives, files, repository
<1>9. CASE Terminated
  BY <1>9 DEF LauncherOK, Terminated, RunnerLives, files, locals, repository
<1>10. CASE Clean
  BY <1>10 DEF LauncherOK, Clean, locals, repository
<1>11. CASE GiveUpSource
  BY <1>11 DEF LauncherOK, GiveUpSource, Reconciled, files, locals
<1>12. CASE GiveUpSlot
  BY <1>12 DEF LauncherOK, GiveUpSlot, files, locals
<1>13. CASE GiveUpRow
  BY <1>13 DEF LauncherOK, GiveUpRow, Reconciled, files, locals, repository
<1>14. CASE GiveUpReservation
  BY <1>14 DEF LauncherOK, GiveUpReservation, files, locals
<1>15. CASE LauncherDies
  BY <1>15 DEF LauncherOK, LauncherDies, files, locals, repository
<1>16. CASE SpawnChild
  BY <1>16, Published DEF LauncherOK, SpawnChild, From, launcherVars, repository, States
<1>17. CASE ChildExits
  BY <1>17 DEF LauncherOK, ChildExits, launcherVars, files, locals, repository
<1>18. CASE Orphan
  BY <1>18 DEF LauncherOK, Orphan, Observes, launcherVars, files, locals, repository
<1> QED
  BY <1>1, <1>2, <1>3, <1>4, <1>5, <1>6, <1>7, <1>8, <1>9, <1>10, <1>11, <1>12, <1>13, <1>14, <1>15,
     <1>16, <1>17, <1>18 DEF Next, LauncherStep, RunnerStep, ObserverStep

\* Every step keeps the types of the shared files.
LEMMA FilesOKStep == FilesOK /\ Next => FilesOK'
<1> SUFFICES ASSUME FilesOK, Next PROVE FilesOK'
  OBVIOUS
<1>1. CASE Poll \/ Accept \/ GiveUp \/ Kill \/ Terminated \/ GiveUpSource \/ GiveUpSlot \/
           GiveUpRow \/ GiveUpReservation \/ LauncherDies
  BY <1>1 DEF FilesOK, Poll, files, locals, repository, Accept, GiveUp, Kill, launcherVars,
     Terminated, GiveUpSource, GiveUpSlot, GiveUpRow, GiveUpReservation, LauncherDies
<1>2. CASE TransferSource \/ TransferSlot \/ EndMatrix \/ SpawnFails \/ Closed \/ Interrupt \/
           CleanedUp \/ Record \/ Throws \/ Catch \/ ReservationBack \/ SourceBack \/ SlotBack
           \/ Unsettled \/ FinallyThrows \/ Marker \/ RunnerDies
  BY <1>2 DEF FilesOK, TransferSource, From, launcherVars, TakeOver, files, TransferSlot, EndMatrix,
     repository, SpawnFails, Closed, Interrupt, locals, CleanedUp, Record, Throws, Catch,
     ReservationBack, SourceBack, SlotBack, Unsettled, FinallyThrows, Marker, RunnerDies
<1>3. CASE ChildReports \/ SeeRow \/ SeeOwner \/ OwnerLives \/ OwnerDead \/ Recheck \/ StalePid
           \/ Crash
  BY <1>3 DEF FilesOK, ChildReports, launcherVars, files, locals, repository, SeeRow, Observes,
     SeeOwner, OwnerLives, OwnerDead, Recheck, StalePid, Crash
<1>4. CASE Write
  BY <1>4 DEF FilesOK, Write, locals, repository
<1>5. CASE Spawn
  BY <1>5 DEF FilesOK, Spawn, locals, repository
<1>6. CASE Clean
  BY <1>6 DEF FilesOK, Clean, locals, repository
<1>7. CASE Boot
  BY <1>7 DEF FilesOK, Boot, From, launcherVars, locals, repository
<1>8. CASE Start
  BY <1>8, Published DEF FilesOK, Start, From, launcherVars, locals, repository, States
<1>9. CASE Read
  BY <1>9 DEF FilesOK, Read, From, launcherVars, locals, repository
<1>10. CASE ReadReview
  BY <1>10 DEF FilesOK, ReadReview, From, launcherVars, repository
<1>11. CASE AdmitMatrix
  BY <1>11, Published DEF FilesOK, AdmitMatrix, From, launcherVars, repository, States
<1>12. CASE SpawnChild
  BY <1>12, Published DEF FilesOK, SpawnChild, From, launcherVars, repository, States
<1>13. CASE Finalizing
  BY <1>13, Published DEF FilesOK, Finalizing, From, launcherVars, locals, repository, States
<1>14. CASE Finalized
  BY <1>14, Published DEF FilesOK, Finalized, From, launcherVars, locals, repository, States
<1>15. CASE Report
  BY <1>15, Published DEF FilesOK, Report, launcherVars, locals, repository, States
<1>16. CASE Retract
  BY <1>16, Published DEF FilesOK, Retract, From, launcherVars, locals, repository, States
<1>17. CASE ChildExits
  BY <1>17 DEF FilesOK, ChildExits, launcherVars, files, locals, repository
<1>18. CASE Orphan
  BY <1>18 DEF FilesOK, Orphan, Observes, launcherVars, files, locals, repository
<1> QED
  BY <1>1, <1>2, <1>3, <1>4, <1>5, <1>6, <1>7, <1>8, <1>9, <1>10, <1>11, <1>12, <1>13, <1>14, <1>15,
     <1>16, <1>17, <1>18 DEF Next, LauncherStep, RunnerStep, ObserverStep

\* Every step keeps the types of the runner's locals.
LEMMA LocalsOKStep == LocalsOK /\ Next => LocalsOK'
<1> SUFFICES ASSUME LocalsOK, Next PROVE LocalsOK'
  OBVIOUS
<1>1. CASE Write \/ Spawn \/ Poll \/ Accept \/ Kill \/ Terminated \/ Clean \/ GiveUpSource \/
           GiveUpSlot \/ GiveUpRow \/ GiveUpReservation \/ LauncherDies
  BY <1>1 DEF LocalsOK, Write, locals, repository, Spawn, Poll, files, Accept, Kill, launcherVars,
     Terminated, Clean, GiveUpSource, GiveUpSlot, GiveUpRow, GiveUpReservation, LauncherDies
<1>2. CASE Boot \/ Start \/ Read \/ Interrupt \/ Finalizing \/ Record \/ Finalized \/ Throws \/
           Catch \/ Report \/ Unsettled \/ Retract \/ Marker \/ RunnerDies
  BY <1>2 DEF LocalsOK, Boot, From, launcherVars, locals, repository, Start, Read, Interrupt, files,
     Finalizing, Record, Finalized, Throws, Catch, Report, Unsettled, Retract, Marker, RunnerDies
<1>3. CASE ChildExits \/ ChildReports \/ SeeRow \/ SeeOwner \/ OwnerLives \/ OwnerDead \/
           Recheck \/ Orphan \/ StalePid \/ Crash
  BY <1>3 DEF LocalsOK, ChildExits, launcherVars, files, locals, repository, ChildReports, SeeRow,
     Observes, SeeOwner, OwnerLives, OwnerDead, Recheck, Orphan, StalePid, Crash
<1>4. CASE GiveUp
  BY <1>4 DEF LocalsOK, GiveUp, Ready, Unhandled, RunnerLives, files, repository
<1>5. CASE TransferSource
  BY <1>5 DEF LocalsOK, TransferSource, From, launcherVars, TakeOver, files, Things
<1>6. CASE TransferSlot
  BY <1>6 DEF LocalsOK, TransferSlot, From, launcherVars, TakeOver, files, Things
<1>7. CASE ReadReview
  BY <1>7 DEF LocalsOK, ReadReview, From, launcherVars, repository
<1>8. CASE AdmitMatrix
  BY <1>8, Published DEF LocalsOK, AdmitMatrix, From, launcherVars, repository, States
<1>9. CASE EndMatrix
  BY <1>9 DEF LocalsOK, EndMatrix, From, launcherVars, files, repository
<1>10. CASE SpawnChild
  BY <1>10, Published DEF LocalsOK, SpawnChild, From, launcherVars, repository, States
<1>11. CASE SpawnFails
  BY <1>11 DEF LocalsOK, SpawnFails, From, launcherVars, files, repository
<1>12. CASE Closed
  BY <1>12 DEF LocalsOK, Closed, From, launcherVars, files, repository
<1>13. CASE CleanedUp
  BY <1>13 DEF LocalsOK, CleanedUp, From, launcherVars, files, repository
<1>14. CASE ReservationBack
  BY <1>14 DEF LocalsOK, ReservationBack, From, launcherVars, ReviewOver, files
<1>15. CASE SourceBack
  BY <1>15 DEF LocalsOK, SourceBack, From, launcherVars, MayReturn, files
<1>16. CASE SlotBack
  BY <1>16 DEF LocalsOK, SlotBack, From, launcherVars, files
<1>17. CASE FinallyThrows
  BY <1>17 DEF LocalsOK, FinallyThrows, launcherVars, files, repository
<1> QED
  BY <1>1, <1>2, <1>3, <1>4, <1>5, <1>6, <1>7, <1>8, <1>9, <1>10, <1>11, <1>12, <1>13, <1>14, <1>15,
     <1>16, <1>17 DEF Next, LauncherStep, RunnerStep, ObserverStep

\* Every step keeps the types of custody, reservation and row.
LEMMA OnRecordOKStep == OnRecordOK /\ LocalsOK /\ Next => OnRecordOK'
<1> SUFFICES ASSUME OnRecordOK, LocalsOK, Next PROVE OnRecordOK'
  OBVIOUS
<1>1. CASE Write \/ Spawn \/ Poll \/ Accept \/ GiveUp \/ Kill \/ Terminated \/ Clean \/
           LauncherDies
  BY <1>1 DEF OnRecordOK, Write, locals, repository, Spawn, Poll, files, Accept, GiveUp, Kill,
     launcherVars, Terminated, Clean, LauncherDies
<1>2. CASE Boot \/ Start \/ Read \/ ReadReview \/ AdmitMatrix \/ EndMatrix \/ SpawnChild \/
           SpawnFails \/ Closed \/ Interrupt \/ CleanedUp \/ Finalizing \/ Finalized \/ Throws
           \/ Report \/ Retract \/ FinallyThrows \/ RunnerDies
  BY <1>2 DEF OnRecordOK, Boot, From, launcherVars, locals, repository, Start, Read, ReadReview,
     AdmitMatrix, EndMatrix, files, SpawnChild, SpawnFails, Closed, Interrupt, CleanedUp,
     Finalizing, Finalized, Throws, Report, Retract, FinallyThrows, RunnerDies
<1>3. CASE ChildExits \/ SeeRow \/ SeeOwner \/ OwnerLives \/ OwnerDead \/ Recheck \/ Orphan \/
           StalePid
  BY <1>3 DEF OnRecordOK, ChildExits, launcherVars, files, locals, repository, SeeRow, Observes,
     SeeOwner, OwnerLives, OwnerDead, Recheck, Orphan, StalePid
<1>4. CASE GiveUpSource
  BY <1>4 DEF OnRecordOK, GiveUpSource, Reconciled, files, locals
<1>5. CASE GiveUpSlot
  BY <1>5 DEF OnRecordOK, GiveUpSlot, files, locals
<1>6. CASE GiveUpRow
  BY <1>6 DEF OnRecordOK, GiveUpRow, Reconciled, files, locals, repository
<1>7. CASE GiveUpReservation
  BY <1>7 DEF OnRecordOK, GiveUpReservation, files, locals
<1>8. CASE TransferSource
  BY <1>8 DEF OnRecordOK, TransferSource, From, launcherVars, TakeOver, files, Things
<1>9. CASE TransferSlot
  BY <1>9 DEF OnRecordOK, TransferSlot, From, launcherVars, TakeOver, files, Things
<1>10. CASE Record
  BY <1>10 DEF OnRecordOK, LocalsOK, Record, From, launcherVars, Reconciled, files, locals,
     repository
<1>11. CASE Catch
  BY <1>11 DEF OnRecordOK, Catch, launcherVars, Reconciled, files, locals, repository
<1>12. CASE ReservationBack
  BY <1>12 DEF OnRecordOK, ReservationBack, From, launcherVars, ReviewOver, files
<1>13. CASE SourceBack
  BY <1>13 DEF OnRecordOK, SourceBack, From, launcherVars, MayReturn, files
<1>14. CASE SlotBack
  BY <1>14 DEF OnRecordOK, SlotBack, From, launcherVars, files
<1>15. CASE Unsettled
  BY <1>15 DEF OnRecordOK, Unsettled, From, launcherVars, Reconciled, files, locals, repository
<1>16. CASE Marker
  BY <1>16 DEF OnRecordOK, Marker, From, launcherVars, IfAbsent, files, locals, repository
<1>17. CASE ChildReports
  BY <1>17 DEF OnRecordOK, ChildReports, Reconciled, launcherVars, files, locals, repository
<1>18. CASE Crash
  BY <1>18 DEF OnRecordOK, Crash, Observes, launcherVars, files, locals, repository, IfAbsent
<1> QED
  BY <1>1, <1>2, <1>3, <1>4, <1>5, <1>6, <1>7, <1>8, <1>9, <1>10, <1>11, <1>12, <1>13, <1>14, <1>15,
     <1>16, <1>17, <1>18 DEF Next, LauncherStep, RunnerStep, ObserverStep

\* Every step keeps the types of the launch, the child and the operator.
LEMMA OthersOKStep == OthersOK /\ Next => OthersOK'
<1> SUFFICES ASSUME OthersOK, Next PROVE OthersOK'
  OBVIOUS
<1>1. CASE Write \/ Spawn \/ Poll \/ Accept \/ GiveUp \/ Kill \/ Terminated \/ Clean \/
           GiveUpSource \/ GiveUpSlot \/ GiveUpRow \/ GiveUpReservation \/ LauncherDies
  BY <1>1 DEF OthersOK, Write, locals, repository, Spawn, Poll, files, Accept, GiveUp, Kill,
     launcherVars, Terminated, Clean, GiveUpSource, GiveUpSlot, GiveUpRow, GiveUpReservation,
     LauncherDies
<1>2. CASE Boot \/ Start \/ Read \/ TransferSource \/ TransferSlot \/ ReadReview \/ AdmitMatrix
           \/ EndMatrix \/ SpawnFails \/ Closed \/ Interrupt \/ CleanedUp \/ Finalizing \/
           Record \/ Finalized \/ Throws \/ Catch \/ Report \/ ReservationBack \/ SourceBack \/
           SlotBack \/ Unsettled \/ Retract \/ FinallyThrows \/ Marker \/ RunnerDies
  BY <1>2 DEF OthersOK, Boot, From, launcherVars, locals, repository, Start, Read, TransferSource,
     TakeOver, files, TransferSlot, ReadReview, AdmitMatrix, EndMatrix, SpawnFails, Closed,
     Interrupt, CleanedUp, Finalizing, Record, Finalized, Throws, Catch, Report, ReservationBack,
     SourceBack, SlotBack, Unsettled, Retract, FinallyThrows, Marker, RunnerDies
<1>3. CASE ChildReports
  BY <1>3 DEF OthersOK, ChildReports, launcherVars, files, locals, repository
<1>4. CASE SpawnChild
  BY <1>4, Published DEF OthersOK, SpawnChild, From, launcherVars, repository, States
<1>5. CASE ChildExits
  BY <1>5 DEF OthersOK, ChildExits, launcherVars, files, locals, repository
<1>6. CASE SeeRow
  BY <1>6 DEF OthersOK, SeeRow, Observes, launcherVars, files, locals, repository
<1>7. CASE SeeOwner
  BY <1>7 DEF OthersOK, SeeOwner, Owned, Observes, launcherVars, files, locals, repository
<1>8. CASE OwnerLives
  BY <1>8 DEF OthersOK, OwnerLives, RunnerLives, Observes, launcherVars, files, locals, repository
<1>9. CASE OwnerDead
  BY <1>9 DEF OthersOK, OwnerDead, RunnerLives, Observes, launcherVars, files, locals, repository
<1>10. CASE Recheck
  BY <1>10 DEF OthersOK, Recheck, Observes, launcherVars, files, locals, repository, Owned
<1>11. CASE Orphan
  BY <1>11 DEF OthersOK, Orphan, Observes, launcherVars, files, locals, repository
<1>12. CASE StalePid
  BY <1>12 DEF OthersOK, StalePid, Observes, launcherVars, files, locals, repository
<1>13. CASE Crash
  BY <1>13 DEF OthersOK, Crash, Observes, launcherVars, files, locals, repository, IfAbsent
<1> QED
  BY <1>1, <1>2, <1>3, <1>4, <1>5, <1>6, <1>7, <1>8, <1>9, <1>10, <1>11, <1>12, <1>13 DEF Next,
     LauncherStep, RunnerStep, ObserverStep

\* Every step leaves the runner at a place it has.
LEMMA StageOKStep == StageOK /\ Next => StageOK'
<1> SUFFICES ASSUME StageOK, Next PROVE StageOK'
  OBVIOUS
<1>1. CASE Write \/ Poll \/ Accept \/ Terminated \/ Clean \/ GiveUpSource \/ GiveUpSlot \/
           GiveUpRow \/ GiveUpReservation \/ LauncherDies
  BY <1>1 DEF StageOK, Write, locals, repository, Poll, files, Accept, Terminated, Clean,
     GiveUpSource, GiveUpSlot, GiveUpRow, GiveUpReservation, LauncherDies
<1>2. CASE ChildExits \/ ChildReports \/ SeeRow \/ SeeOwner \/ OwnerLives \/ OwnerDead \/
           Recheck \/ Orphan \/ StalePid \/ Crash
  BY <1>2 DEF StageOK, ChildExits, launcherVars, files, locals, repository, ChildReports, SeeRow,
     Observes, SeeOwner, OwnerLives, OwnerDead, Recheck, Orphan, StalePid, Crash
<1>3. CASE Spawn
  BY <1>3 DEF StageOK, Stages, Spawn, locals, repository
<1>4. CASE GiveUp
  BY <1>4 DEF StageOK, Stages, GiveUp, Ready, Unhandled, RunnerLives, files, repository
<1>5. CASE Kill
  BY <1>5 DEF StageOK, Stages, Kill, RunnerLives, launcherVars, files, locals, repository
<1>6. CASE Boot
  BY <1>6 DEF StageOK, Stages, Boot, From, launcherVars, locals, repository
<1>7. CASE Start
  BY <1>7, Published DEF StageOK, Stages, Start, From, launcherVars, locals, repository, States
<1>8. CASE Read
  BY <1>8 DEF StageOK, Stages, Read, From, launcherVars, locals, repository
<1>9. CASE TransferSource
  BY <1>9 DEF StageOK, Stages, TransferSource, From, launcherVars, TakeOver, files, Things
<1>10. CASE TransferSlot
  BY <1>10 DEF StageOK, Stages, TransferSlot, From, launcherVars, TakeOver, files, Things
<1>11. CASE ReadReview
  BY <1>11 DEF StageOK, Stages, ReadReview, From, launcherVars, repository
<1>12. CASE AdmitMatrix
  BY <1>12, Published DEF StageOK, Stages, AdmitMatrix, From, launcherVars, repository, States
<1>13. CASE EndMatrix
  BY <1>13 DEF StageOK, Stages, EndMatrix, From, launcherVars, files, repository
<1>14. CASE SpawnChild
  BY <1>14, Published DEF StageOK, Stages, SpawnChild, From, launcherVars, repository, States
<1>15. CASE SpawnFails
  BY <1>15 DEF StageOK, Stages, SpawnFails, From, launcherVars, files, repository
<1>16. CASE Closed
  BY <1>16 DEF StageOK, Stages, Closed, From, launcherVars, files, repository
<1>17. CASE Interrupt
  BY <1>17 DEF StageOK, Stages, Interrupt, From, launcherVars, files, locals, repository
<1>18. CASE CleanedUp
  BY <1>18 DEF StageOK, Stages, CleanedUp, From, launcherVars, files, repository
<1>19. CASE Finalizing
  BY <1>19, Published DEF StageOK, Stages, Finalizing, From, launcherVars, locals, repository,
     States
<1>20. CASE Record
  BY <1>20 DEF StageOK, Stages, Record, From, launcherVars, Reconciled, files, locals, repository
<1>21. CASE Finalized
  BY <1>21, Published DEF StageOK, Stages, Finalized, From, launcherVars, locals, repository, States
<1>22. CASE Throws
  BY <1>22 DEF StageOK, Stages, Throws, launcherVars, files, locals, repository
<1>23. CASE Catch
  BY <1>23 DEF StageOK, Stages, Catch, launcherVars, Reconciled, files, locals, repository
<1>24. CASE Report
  BY <1>24, Published DEF StageOK, Stages, Report, launcherVars, locals, repository, States
<1>25. CASE ReservationBack
  BY <1>25 DEF StageOK, Stages, ReservationBack, From, launcherVars, ReviewOver, files
<1>26. CASE SourceBack
  BY <1>26 DEF StageOK, Stages, SourceBack, From, launcherVars, MayReturn, files
<1>27. CASE SlotBack
  BY <1>27 DEF StageOK, Stages, SlotBack, From, launcherVars, files
<1>28. CASE Unsettled
  BY <1>28 DEF StageOK, Stages, Unsettled, From, launcherVars, Reconciled, files, locals, repository
<1>29. CASE Retract
  BY <1>29, Published DEF StageOK, Stages, Retract, From, launcherVars, locals, repository, States
<1>30. CASE FinallyThrows
  BY <1>30 DEF StageOK, Stages, FinallyThrows, launcherVars, files, repository
<1>31. CASE Marker
  BY <1>31 DEF StageOK, Stages, Marker, From, launcherVars, IfAbsent, files, locals, repository
<1>32. CASE RunnerDies
  BY <1>32 DEF StageOK, Stages, RunnerDies, RunnerLives, launcherVars, files, locals, repository
<1> QED
  BY <1>1, <1>2, <1>3, <1>4, <1>5, <1>6, <1>7, <1>8, <1>9, <1>10, <1>11, <1>12, <1>13, <1>14, <1>15,
     <1>16, <1>17, <1>18, <1>19, <1>20, <1>21, <1>22, <1>23, <1>24, <1>25, <1>26, <1>27, <1>28,
     <1>29, <1>30, <1>31, <1>32 DEF Next, LauncherStep, RunnerStep, ObserverStep

\* Every step keeps launcher and runner apart: who settles is alone.
LEMMA SidesStep == TypeOK /\ Sides /\ Next => Sides'
<1> SUFFICES ASSUME TypeOK, Sides, Next PROVE Sides'
  OBVIOUS
<1>1. CASE Poll
  BY <1>1 DEF Sides, Settling, RunnerLives, Poll, files, locals, repository
<1>2. CASE ChildExits \/ ChildReports \/ SeeRow \/ SeeOwner \/ OwnerLives \/ OwnerDead \/
           Recheck \/ Orphan \/ StalePid \/ Crash
  BY <1>2 DEF Sides, Settling, RunnerLives, ChildExits, launcherVars, files, locals, repository,
     ChildReports, SeeRow, Observes, SeeOwner, OwnerLives, OwnerDead, Recheck, Orphan, StalePid,
     Crash
<1>3. CASE Write
  BY <1>3 DEF Sides, Settling, RunnerLives, Write, locals, repository
<1>4. CASE Spawn
  BY <1>4 DEF Sides, Settling, RunnerLives, Spawn, locals, repository
<1>5. CASE Accept
  BY <1>5 DEF Sides, Settling, RunnerLives, Accept, Ready, files, locals, repository
<1>6. CASE GiveUp
  BY <1>6 DEF Sides, Settling, RunnerLives, GiveUp, Ready, Unhandled, files, repository
<1>7. CASE Kill
  BY <1>7 DEF Sides, Settling, RunnerLives, Kill, launcherVars, files, locals, repository
<1>8. CASE Terminated
  BY <1>8 DEF Sides, Settling, RunnerLives, Terminated, files, locals, repository
<1>9. CASE Clean
  BY <1>9 DEF Sides, Settling, RunnerLives, Clean, locals, repository
<1>10. CASE GiveUpSource
  BY <1>10 DEF Sides, Settling, RunnerLives, GiveUpSource, Reconciled, files, locals, TypeOK,
     OnRecordOK, Things
<1>11. CASE GiveUpSlot
  BY <1>11 DEF Sides, Settling, RunnerLives, GiveUpSlot, files, locals, TypeOK, OnRecordOK, Things
<1>12. CASE GiveUpRow
  BY <1>12 DEF Sides, Settling, RunnerLives, GiveUpRow, Reconciled, files, locals, repository
<1>13. CASE GiveUpReservation
  BY <1>13 DEF Sides, Settling, RunnerLives, GiveUpReservation, files, locals
<1>14. CASE LauncherDies
  BY <1>14 DEF Sides, Settling, RunnerLives, LauncherDies, files, locals, repository
<1>15. CASE Boot
  BY <1>15 DEF Sides, Settling, RunnerLives, Boot, From, launcherVars, locals, repository
<1>16. CASE Start
  BY <1>16, Published DEF Sides, Settling, RunnerLives, Start, From, launcherVars, locals,
     repository, States
<1>17. CASE Read
  BY <1>17 DEF Sides, Settling, RunnerLives, Read, From, launcherVars, locals, repository
<1>18. CASE TransferSource
  BY <1>18 DEF Sides, Settling, RunnerLives, TransferSource, From, launcherVars, TakeOver, files,
     TypeOK, OnRecordOK, Things
<1>19. CASE TransferSlot
  BY <1>19 DEF Sides, Settling, RunnerLives, TransferSlot, From, launcherVars, TakeOver, files,
     TypeOK, OnRecordOK, Things
<1>20. CASE ReadReview
  BY <1>20 DEF Sides, Settling, RunnerLives, ReadReview, From, launcherVars, repository
<1>21. CASE AdmitMatrix
  BY <1>21, Published DEF Sides, Settling, RunnerLives, AdmitMatrix, From, launcherVars, repository,
     States
<1>22. CASE EndMatrix
  BY <1>22 DEF Sides, Settling, RunnerLives, EndMatrix, From, launcherVars, files, repository
<1>23. CASE SpawnChild
  BY <1>23, Published DEF Sides, Settling, RunnerLives, SpawnChild, From, launcherVars, repository,
     States
<1>24. CASE SpawnFails
  BY <1>24 DEF Sides, Settling, RunnerLives, SpawnFails, From, launcherVars, files, repository
<1>25. CASE Closed
  BY <1>25 DEF Sides, Settling, RunnerLives, Closed, From, launcherVars, files, repository
<1>26. CASE Interrupt
  BY <1>26 DEF Sides, Settling, RunnerLives, Interrupt, From, launcherVars, files, locals,
     repository
<1>27. CASE CleanedUp
  BY <1>27 DEF Sides, Settling, RunnerLives, CleanedUp, From, launcherVars, files, repository
<1>28. CASE Finalizing
  BY <1>28, Published DEF Sides, Settling, RunnerLives, Finalizing, From, launcherVars, locals,
     repository, States
<1>29. CASE Record
  BY <1>29 DEF Sides, Settling, RunnerLives, Record, From, launcherVars, Reconciled, files, locals,
     repository
<1>30. CASE Finalized
  BY <1>30, Published DEF Sides, Settling, RunnerLives, Finalized, From, launcherVars, locals,
     repository, States
<1>31. CASE Throws
  BY <1>31 DEF Sides, Settling, RunnerLives, Throws, launcherVars, files, locals, repository
<1>32. CASE Catch
  BY <1>32 DEF Sides, Settling, RunnerLives, Catch, launcherVars, Reconciled, files, locals,
     repository
<1>33. CASE Report
  BY <1>33, Published DEF Sides, Settling, RunnerLives, Report, launcherVars, locals, repository,
     States
<1>34. CASE ReservationBack
  BY <1>34 DEF Sides, Settling, RunnerLives, ReservationBack, From, launcherVars, ReviewOver, files
<1>35. CASE SourceBack
  BY <1>35 DEF Sides, Settling, RunnerLives, SourceBack, From, launcherVars, MayReturn, files,
     TypeOK, OnRecordOK, Things
<1>36. CASE SlotBack
  BY <1>36 DEF Sides, Settling, RunnerLives, SlotBack, From, launcherVars, files, TypeOK,
     OnRecordOK, Things
<1>37. CASE Unsettled
  BY <1>37 DEF Sides, Settling, RunnerLives, Unsettled, From, launcherVars, Reconciled, files,
     locals, repository
<1>38. CASE Retract
  BY <1>38, Published DEF Sides, Settling, RunnerLives, Retract, From, launcherVars, locals,
     repository, States
<1>39. CASE FinallyThrows
  BY <1>39 DEF Sides, Settling, RunnerLives, FinallyThrows, launcherVars, files, repository
<1>40. CASE Marker
  BY <1>40 DEF Sides, Settling, RunnerLives, Marker, From, launcherVars, IfAbsent, files, locals,
     repository
<1>41. CASE RunnerDies
  BY <1>41 DEF Sides, Settling, RunnerLives, RunnerDies, launcherVars, files, locals, repository
<1> QED
  BY <1>1, <1>2, <1>3, <1>4, <1>5, <1>6, <1>7, <1>8, <1>9, <1>10, <1>11, <1>12, <1>13, <1>14, <1>15,
     <1>16, <1>17, <1>18, <1>19, <1>20, <1>21, <1>22, <1>23, <1>24, <1>25, <1>26, <1>27, <1>28,
     <1>29, <1>30, <1>31, <1>32, <1>33, <1>34, <1>35, <1>36, <1>37, <1>38, <1>39, <1>40, <1>41 DEF
     Next, LauncherStep, RunnerStep, ObserverStep

\* Every step keeps the order: hand-off first, then work, then evidence of it.
LEMMA HandedOverStep == TypeOK /\ HandedOver /\ Moved /\ Next => HandedOver'
<1> SUFFICES ASSUME TypeOK, HandedOver, Moved, Next PROVE HandedOver'
  OBVIOUS
<1>1. CASE Write \/ Accept \/ Terminated \/ Clean \/ GiveUpRow \/ GiveUpReservation \/
           LauncherDies
  BY <1>1 DEF HandedOver, Held, Working, Taken, Shows, Write, locals, repository, Accept, files,
     Terminated, Clean, GiveUpRow, GiveUpReservation, LauncherDies
<1>2. CASE ChildExits \/ ChildReports \/ SeeRow \/ SeeOwner \/ OwnerLives \/ OwnerDead \/
           Recheck \/ Orphan \/ StalePid \/ Crash
  BY <1>2 DEF HandedOver, Held, Working, Taken, Shows, ChildExits, launcherVars, files, locals,
     repository, ChildReports, SeeRow, Observes, SeeOwner, OwnerLives, OwnerDead, Recheck, Orphan,
     StalePid, Crash
<1>3. CASE Spawn
  BY <1>3 DEF HandedOver, Held, Working, Taken, Shows, Spawn, locals, repository
<1>4. CASE Poll
  BY <1>4 DEF HandedOver, Held, Working, Taken, Shows, Poll, Ready, files, locals, repository
<1>5. CASE GiveUp
  BY <1>5 DEF HandedOver, Held, Working, Taken, Shows, GiveUp, Ready, Unhandled, RunnerLives, files,
     repository
<1>6. CASE Kill
  BY <1>6 DEF HandedOver, Held, Working, Taken, Shows, Kill, RunnerLives, launcherVars, files,
     locals, repository
<1>7. CASE GiveUpSource
  BY <1>7 DEF HandedOver, Held, Working, Taken, Shows, GiveUpSource, Reconciled, files, locals,
     TypeOK, OnRecordOK, Things
<1>8. CASE GiveUpSlot
  BY <1>8 DEF HandedOver, Held, Working, Taken, Shows, GiveUpSlot, files, locals, TypeOK,
     OnRecordOK, Things
<1>9. CASE Boot
  BY <1>9 DEF HandedOver, Held, Working, Taken, Shows, Boot, From, launcherVars, locals, repository
<1>10. CASE Start
  BY <1>10, Published DEF HandedOver, Held, Working, Taken, Shows, Start, From, launcherVars,
     locals, repository, States
<1>11. CASE Read
  BY <1>11 DEF HandedOver, Held, Working, Taken, Shows, Read, From, launcherVars, locals, repository
<1>12. CASE TransferSource
  BY <1>12 DEF HandedOver, Held, Working, Taken, Shows, TransferSource, From, launcherVars,
     TakeOver, files, TypeOK, OnRecordOK, Things
<1>13. CASE TransferSlot
  BY <1>13 DEF HandedOver, Held, Working, Taken, Shows, TransferSlot, From, launcherVars, TakeOver,
     files, TypeOK, OnRecordOK, Things
<1>14. CASE ReadReview
  BY <1>14 DEF HandedOver, Held, Working, Taken, Shows, Moved, ReadReview, From, launcherVars,
     repository
<1>15. CASE AdmitMatrix
  BY <1>15, Published DEF HandedOver, Held, Working, Taken, Shows, AdmitMatrix, From, launcherVars,
     repository, States
<1>16. CASE EndMatrix
  BY <1>16 DEF HandedOver, Held, Working, Taken, Shows, EndMatrix, From, launcherVars, files,
     repository
<1>17. CASE SpawnChild
  BY <1>17, Published DEF HandedOver, Held, Working, Taken, Shows, SpawnChild, From, launcherVars,
     repository, States
<1>18. CASE SpawnFails
  BY <1>18 DEF HandedOver, Held, Working, Taken, Shows, SpawnFails, From, launcherVars, files,
     repository
<1>19. CASE Closed
  BY <1>19 DEF HandedOver, Held, Working, Taken, Shows, Closed, From, launcherVars, files,
     repository
<1>20. CASE Interrupt
  BY <1>20 DEF HandedOver, Held, Working, Taken, Shows, Interrupt, From, launcherVars, files,
     locals, repository
<1>21. CASE CleanedUp
  BY <1>21 DEF HandedOver, Held, Working, Taken, Shows, CleanedUp, From, launcherVars, files,
     repository
<1>22. CASE Finalizing
  BY <1>22, Published DEF HandedOver, Held, Working, Taken, Shows, Finalizing, From, launcherVars,
     locals, repository, States
<1>23. CASE Record
  BY <1>23 DEF HandedOver, Held, Working, Taken, Shows, Record, From, launcherVars, Reconciled,
     files, locals, repository
<1>24. CASE Finalized
  BY <1>24, Published DEF HandedOver, Held, Working, Taken, Shows, Finalized, From, launcherVars,
     locals, repository, States
<1>25. CASE Throws
  BY <1>25 DEF HandedOver, Held, Working, Taken, Shows, Throws, launcherVars, files, locals,
     repository
<1>26. CASE Catch
  BY <1>26 DEF HandedOver, Held, Working, Taken, Shows, Catch, launcherVars, Reconciled, files,
     locals, repository
<1>27. CASE Report
  BY <1>27, Published DEF HandedOver, Held, Working, Taken, Shows, Report, launcherVars, locals,
     repository, States
<1>28. CASE ReservationBack
  BY <1>28 DEF HandedOver, Held, Working, Taken, Shows, ReservationBack, From, launcherVars,
     ReviewOver, files
<1>29. CASE SourceBack
  BY <1>29 DEF HandedOver, Held, Working, Taken, Shows, SourceBack, From, launcherVars, MayReturn,
     files, TypeOK, OnRecordOK, Things
<1>30. CASE SlotBack
  BY <1>30 DEF HandedOver, Held, Working, Taken, Shows, SlotBack, From, launcherVars, files, TypeOK,
     OnRecordOK, Things
<1>31. CASE Unsettled
  BY <1>31 DEF HandedOver, Held, Working, Taken, Shows, Unsettled, From, launcherVars, Reconciled,
     files, locals, repository
<1>32. CASE Retract
  BY <1>32, Published DEF HandedOver, Held, Working, Taken, Shows, Retract, From, launcherVars,
     locals, repository, States
<1>33. CASE FinallyThrows
  BY <1>33 DEF HandedOver, Held, Working, Taken, Shows, FinallyThrows, launcherVars, files,
     repository
<1>34. CASE Marker
  BY <1>34 DEF HandedOver, Held, Working, Taken, Shows, Marker, From, launcherVars, IfAbsent, files,
     locals, repository
<1>35. CASE RunnerDies
  BY <1>35 DEF HandedOver, Held, Working, Taken, Shows, RunnerDies, RunnerLives, launcherVars,
     files, locals, repository
<1> QED
  BY <1>1, <1>2, <1>3, <1>4, <1>5, <1>6, <1>7, <1>8, <1>9, <1>10, <1>11, <1>12, <1>13, <1>14, <1>15,
     <1>16, <1>17, <1>18, <1>19, <1>20, <1>21, <1>22, <1>23, <1>24, <1>25, <1>26, <1>27, <1>28,
     <1>29, <1>30, <1>31, <1>32, <1>33, <1>34, <1>35 DEF Next, LauncherStep, RunnerStep,
     ObserverStep

\* Every step keeps the row behind a report of failure and behind "finalized".
LEMMA RecordedStep == TypeOK /\ Recorded /\ Supervised /\ Next => Recorded'
<1> SUFFICES ASSUME TypeOK, Recorded, Supervised, Next PROVE Recorded'
  OBVIOUS
<1>1. CASE Poll
  BY <1>1 DEF Recorded, FinalizedIsRecorded, Poll, files, locals, repository
<1>2. CASE ChildExits \/ SeeRow \/ SeeOwner \/ OwnerLives \/ OwnerDead \/ Recheck \/ Orphan \/
           StalePid
  BY <1>2 DEF Recorded, FinalizedIsRecorded, ChildExits, launcherVars, files, locals, repository,
     SeeRow, Observes, SeeOwner, OwnerLives, OwnerDead, Recheck, Orphan, StalePid
<1>3. CASE Write
  BY <1>3 DEF Recorded, FinalizedIsRecorded, Write, locals, repository
<1>4. CASE Spawn
  BY <1>4 DEF Recorded, FinalizedIsRecorded, Spawn, locals, repository
<1>5. CASE Accept
  BY <1>5 DEF Recorded, FinalizedIsRecorded, Accept, Ready, files, locals, repository
<1>6. CASE GiveUp
  BY <1>6 DEF Recorded, FinalizedIsRecorded, GiveUp, Ready, Unhandled, RunnerLives, files,
     repository
<1>7. CASE Kill
  BY <1>7 DEF Recorded, FinalizedIsRecorded, Kill, RunnerLives, launcherVars, files, locals,
     repository
<1>8. CASE Terminated
  BY <1>8 DEF Recorded, FinalizedIsRecorded, Terminated, RunnerLives, files, locals, repository
<1>9. CASE Clean
  BY <1>9 DEF Recorded, FinalizedIsRecorded, Clean, locals, repository
<1>10. CASE GiveUpSource
  BY <1>10 DEF Recorded, FinalizedIsRecorded, GiveUpSource, Reconciled, files, locals, TypeOK,
     OnRecordOK, Things
<1>11. CASE GiveUpSlot
  BY <1>11 DEF Recorded, FinalizedIsRecorded, GiveUpSlot, files, locals, TypeOK, OnRecordOK, Things
<1>12. CASE GiveUpRow
  BY <1>12 DEF Recorded, FinalizedIsRecorded, GiveUpRow, Reconciled, files, locals, repository
<1>13. CASE GiveUpReservation
  BY <1>13 DEF Recorded, FinalizedIsRecorded, GiveUpReservation, files, locals
<1>14. CASE LauncherDies
  BY <1>14 DEF Recorded, FinalizedIsRecorded, LauncherDies, files, locals, repository
<1>15. CASE Boot
  BY <1>15 DEF Recorded, FinalizedIsRecorded, Boot, From, launcherVars, locals, repository
<1>16. CASE Start
  BY <1>16, Published DEF Recorded, FinalizedIsRecorded, Start, From, launcherVars, locals,
     repository, States
<1>17. CASE Read
  BY <1>17 DEF Recorded, FinalizedIsRecorded, Read, From, launcherVars, locals, repository
<1>18. CASE TransferSource
  BY <1>18 DEF Recorded, FinalizedIsRecorded, TransferSource, From, launcherVars, TakeOver, files,
     TypeOK, OnRecordOK, Things
<1>19. CASE TransferSlot
  BY <1>19 DEF Recorded, FinalizedIsRecorded, TransferSlot, From, launcherVars, TakeOver, files,
     TypeOK, OnRecordOK, Things
<1>20. CASE ReadReview
  BY <1>20 DEF Recorded, FinalizedIsRecorded, ReadReview, From, launcherVars, repository
<1>21. CASE AdmitMatrix
  BY <1>21, Published DEF Recorded, FinalizedIsRecorded, AdmitMatrix, From, launcherVars,
     repository, States
<1>22. CASE EndMatrix
  BY <1>22 DEF Recorded, FinalizedIsRecorded, EndMatrix, From, launcherVars, files, repository
<1>23. CASE SpawnChild
  BY <1>23, Published DEF Recorded, FinalizedIsRecorded, SpawnChild, From, launcherVars, repository,
     States
<1>24. CASE SpawnFails
  BY <1>24 DEF Recorded, FinalizedIsRecorded, SpawnFails, From, launcherVars, files, repository
<1>25. CASE Closed
  BY <1>25 DEF Recorded, FinalizedIsRecorded, Closed, From, launcherVars, files, repository
<1>26. CASE Interrupt
  BY <1>26 DEF Recorded, FinalizedIsRecorded, Interrupt, From, launcherVars, files, locals,
     repository
<1>27. CASE CleanedUp
  BY <1>27 DEF Recorded, FinalizedIsRecorded, CleanedUp, From, launcherVars, files, repository
<1>28. CASE Finalizing
  BY <1>28, Published DEF Recorded, FinalizedIsRecorded, Finalizing, From, launcherVars, locals,
     repository, States
<1>29. CASE Record
  BY <1>29 DEF Recorded, FinalizedIsRecorded, Supervised, Record, From, launcherVars, Reconciled,
     files, locals, repository
<1>30. CASE Finalized
  BY <1>30, Published DEF Recorded, FinalizedIsRecorded, Finalized, From, launcherVars, locals,
     repository, States
<1>31. CASE Throws
  BY <1>31 DEF Recorded, FinalizedIsRecorded, Throws, launcherVars, files, locals, repository
<1>32. CASE Catch
  BY <1>32 DEF Recorded, FinalizedIsRecorded, Catch, launcherVars, Reconciled, files, locals,
     repository
<1>33. CASE Report
  BY <1>33, Published DEF Recorded, FinalizedIsRecorded, Report, launcherVars, locals, repository,
     States
<1>34. CASE ReservationBack
  BY <1>34 DEF Recorded, FinalizedIsRecorded, ReservationBack, From, launcherVars, ReviewOver, files
<1>35. CASE SourceBack
  BY <1>35 DEF Recorded, FinalizedIsRecorded, SourceBack, From, launcherVars, MayReturn, files,
     TypeOK, OnRecordOK, Things
<1>36. CASE SlotBack
  BY <1>36 DEF Recorded, FinalizedIsRecorded, SlotBack, From, launcherVars, files, TypeOK,
     OnRecordOK, Things
<1>37. CASE Unsettled
  BY <1>37 DEF Recorded, FinalizedIsRecorded, Unsettled, From, launcherVars, Reconciled, files,
     locals, repository
<1>38. CASE Retract
  BY <1>38, Published DEF Recorded, FinalizedIsRecorded, Retract, From, launcherVars, locals,
     repository, States
<1>39. CASE FinallyThrows
  BY <1>39 DEF Recorded, FinalizedIsRecorded, FinallyThrows, launcherVars, files, repository
<1>40. CASE Marker
  BY <1>40 DEF Recorded, FinalizedIsRecorded, Marker, From, launcherVars, IfAbsent, files, locals,
     repository
<1>41. CASE RunnerDies
  BY <1>41 DEF Recorded, FinalizedIsRecorded, RunnerDies, RunnerLives, launcherVars, files, locals,
     repository
<1>42. CASE ChildReports
  BY <1>42 DEF Recorded, FinalizedIsRecorded, ChildReports, Reconciled, launcherVars, files, locals,
     repository
<1>43. CASE Crash
  BY <1>43 DEF Recorded, FinalizedIsRecorded, Crash, Observes, launcherVars, files, locals,
     repository, IfAbsent
<1> QED
  BY <1>1, <1>2, <1>3, <1>4, <1>5, <1>6, <1>7, <1>8, <1>9, <1>10, <1>11, <1>12, <1>13, <1>14, <1>15,
     <1>16, <1>17, <1>18, <1>19, <1>20, <1>21, <1>22, <1>23, <1>24, <1>25, <1>26, <1>27, <1>28,
     <1>29, <1>30, <1>31, <1>32, <1>33, <1>34, <1>35, <1>36, <1>37, <1>38, <1>39, <1>40, <1>41,
     <1>42, <1>43 DEF Next, LauncherStep, RunnerStep, ObserverStep

\* Every step keeps what the runner believes of its child true of the child.
LEMMA SupervisedStep == TypeOK /\ Supervised /\ Sides /\ Next => Supervised'
<1> SUFFICES ASSUME TypeOK, Supervised, Sides, Next PROVE Supervised'
  OBVIOUS
<1>1. CASE Write \/ Poll \/ Accept \/ Terminated \/ Clean \/ GiveUpSource \/ GiveUpSlot \/
           GiveUpRow \/ GiveUpReservation \/ LauncherDies
  <2>1. UNCHANGED <<runner, cleaned, normal, result, child>>
    BY <1>1 DEF Write, locals, repository, Poll, files, Accept, Terminated, Clean, GiveUpSource,
       GiveUpSlot, GiveUpRow, GiveUpReservation, LauncherDies
  <2> QED
    BY <2>1 DEF Supervised
<1>2. CASE ChildReports \/ SeeRow \/ SeeOwner \/ OwnerLives \/ OwnerDead \/ Recheck \/ StalePid
           \/ Crash
  <2>1. UNCHANGED <<runner, cleaned, normal, result, child>>
    BY <1>2 DEF ChildReports, launcherVars, files, locals, repository, SeeRow, Observes, SeeOwner,
       OwnerLives, OwnerDead, Recheck, StalePid, Crash
  <2> QED
    BY <2>1 DEF Supervised
<1>3. CASE Spawn
  BY <1>3 DEF Supervised, Sides, Settling, RunnerLives, Spawn, locals, repository
<1>4. CASE GiveUp
  BY <1>4 DEF Supervised, GiveUp, Ready, Unhandled, RunnerLives, files, repository
<1>5. CASE Kill
  BY <1>5 DEF Supervised, Kill, RunnerLives, launcherVars, files, locals, repository
<1>6. CASE Boot
  BY <1>6 DEF Supervised, Boot, From, launcherVars, locals, repository
<1>7. CASE Start
  BY <1>7, Published DEF Supervised, Start, From, launcherVars, locals, repository, States
<1>8. CASE Read
  BY <1>8 DEF Supervised, Read, From, launcherVars, locals, repository
<1>9. CASE TransferSource
  BY <1>9 DEF Supervised, TransferSource, From, launcherVars, TakeOver, files, TypeOK, OnRecordOK,
     Things
<1>10. CASE TransferSlot
  BY <1>10 DEF Supervised, TransferSlot, From, launcherVars, TakeOver, files, TypeOK, OnRecordOK,
     Things
<1>11. CASE ReadReview
  BY <1>11 DEF Supervised, ReadReview, From, launcherVars, repository
<1>12. CASE AdmitMatrix
  BY <1>12, Published DEF Supervised, AdmitMatrix, From, launcherVars, repository, States
<1>13. CASE EndMatrix
  BY <1>13 DEF Supervised, EndMatrix, From, launcherVars, files, repository
<1>14. CASE SpawnChild
  BY <1>14, Published DEF Supervised, SpawnChild, From, launcherVars, repository, States
<1>15. CASE SpawnFails
  BY <1>15 DEF Supervised, SpawnFails, From, launcherVars, files, repository
<1>16. CASE Closed
  BY <1>16 DEF Supervised, Closed, From, launcherVars, files, repository
<1>17. CASE Interrupt
  BY <1>17 DEF Supervised, Interrupt, From, launcherVars, files, locals, repository
<1>18. CASE CleanedUp
  BY <1>18 DEF Supervised, CleanedUp, From, launcherVars, files, repository
<1>19. CASE Finalizing
  BY <1>19, Published DEF Supervised, Finalizing, From, launcherVars, locals, repository, States
<1>20. CASE Record
  BY <1>20 DEF Supervised, Record, From, launcherVars, Reconciled, files, locals, repository
<1>21. CASE Finalized
  BY <1>21, Published DEF Supervised, Finalized, From, launcherVars, locals, repository, States
<1>22. CASE Throws
  BY <1>22 DEF Supervised, Throws, launcherVars, files, locals, repository
<1>23. CASE Catch
  BY <1>23 DEF Supervised, Catch, launcherVars, Reconciled, files, locals, repository
<1>24. CASE Report
  BY <1>24, Published DEF Supervised, Report, launcherVars, locals, repository, States
<1>25. CASE ReservationBack
  BY <1>25 DEF Supervised, ReservationBack, From, launcherVars, ReviewOver, files
<1>26. CASE SourceBack
  BY <1>26 DEF Supervised, SourceBack, From, launcherVars, MayReturn, files, TypeOK, OnRecordOK,
     Things
<1>27. CASE SlotBack
  BY <1>27 DEF Supervised, SlotBack, From, launcherVars, files, TypeOK, OnRecordOK, Things
<1>28. CASE Unsettled
  BY <1>28 DEF Supervised, Unsettled, From, launcherVars, Reconciled, files, locals, repository
<1>29. CASE Retract
  BY <1>29, Published DEF Supervised, Retract, From, launcherVars, locals, repository, States
<1>30. CASE FinallyThrows
  BY <1>30 DEF Supervised, FinallyThrows, launcherVars, files, repository
<1>31. CASE Marker
  BY <1>31 DEF Supervised, Marker, From, launcherVars, IfAbsent, files, locals, repository
<1>32. CASE RunnerDies
  BY <1>32 DEF Supervised, RunnerDies, RunnerLives, launcherVars, files, locals, repository
<1>33. CASE ChildExits
  BY <1>33 DEF Supervised, ChildExits, launcherVars, files, locals, repository
<1>34. CASE Orphan
  BY <1>34 DEF Supervised, Orphan, Observes, launcherVars, files, locals, repository
<1> QED
  BY <1>1, <1>2, <1>3, <1>4, <1>5, <1>6, <1>7, <1>8, <1>9, <1>10, <1>11, <1>12, <1>13, <1>14, <1>15,
     <1>16, <1>17, <1>18, <1>19, <1>20, <1>21, <1>22, <1>23, <1>24, <1>25, <1>26, <1>27, <1>28,
     <1>29, <1>30, <1>31, <1>32, <1>33, <1>34 DEF Next, LauncherStep, RunnerStep, ObserverStep

\* Every step keeps the runner's record of what it took over complete.
LEMMA MovedStep == TypeOK /\ Moved /\ Supervised /\ Next => Moved'
<1> SUFFICES ASSUME TypeOK, Moved, Supervised, Next PROVE Moved'
  OBVIOUS
<1>1. CASE Write \/ Poll \/ Accept \/ Terminated \/ Clean \/ GiveUpRow \/ GiveUpReservation \/
           LauncherDies
  BY <1>1 DEF Moved, Write, locals, repository, Poll, files, Accept, Terminated, Clean, GiveUpRow,
     GiveUpReservation, LauncherDies
<1>2. CASE ChildReports \/ SeeRow \/ SeeOwner \/ OwnerLives \/ OwnerDead \/ Recheck \/ StalePid
           \/ Crash
  BY <1>2 DEF Moved, ChildReports, launcherVars, files, locals, repository, SeeRow, Observes,
     SeeOwner, OwnerLives, OwnerDead, Recheck, StalePid, Crash
<1>3. CASE Spawn
  BY <1>3 DEF Moved, Spawn, locals, repository
<1>4. CASE GiveUp
  BY <1>4 DEF Moved, GiveUp, Ready, Unhandled, RunnerLives, files, repository
<1>5. CASE Kill
  BY <1>5 DEF Moved, Kill, RunnerLives, launcherVars, files, locals, repository
<1>6. CASE GiveUpSource
  BY <1>6 DEF Moved, GiveUpSource, Reconciled, files, locals, TypeOK, OnRecordOK, Things
<1>7. CASE GiveUpSlot
  BY <1>7 DEF Moved, GiveUpSlot, files, locals, TypeOK, OnRecordOK, Things
<1>8. CASE Boot
  BY <1>8 DEF Moved, Boot, From, launcherVars, locals, repository
<1>9. CASE Start
  BY <1>9, Published DEF Moved, Start, From, launcherVars, locals, repository, States
<1>10. CASE Read
  BY <1>10 DEF Moved, Read, From, launcherVars, locals, repository
<1>11. CASE TransferSource
  BY <1>11 DEF Moved, TransferSource, From, launcherVars, TakeOver, files, TypeOK, OnRecordOK,
     Things
<1>12. CASE TransferSlot
  BY <1>12 DEF Moved, TransferSlot, From, launcherVars, TakeOver, files, TypeOK, OnRecordOK, Things
<1>13. CASE ReadReview
  BY <1>13 DEF Moved, Supervised, ReadReview, From, launcherVars, repository, Things
<1>14. CASE AdmitMatrix
  BY <1>14, Published DEF Moved, AdmitMatrix, From, launcherVars, repository, States
<1>15. CASE EndMatrix
  BY <1>15 DEF Moved, EndMatrix, From, launcherVars, files, repository
<1>16. CASE SpawnChild
  BY <1>16, Published DEF Moved, SpawnChild, From, launcherVars, repository, States
<1>17. CASE SpawnFails
  BY <1>17 DEF Moved, SpawnFails, From, launcherVars, files, repository
<1>18. CASE Closed
  BY <1>18 DEF Moved, Closed, From, launcherVars, files, repository
<1>19. CASE Interrupt
  BY <1>19 DEF Moved, Interrupt, From, launcherVars, files, locals, repository
<1>20. CASE CleanedUp
  BY <1>20 DEF Moved, CleanedUp, From, launcherVars, files, repository
<1>21. CASE Finalizing
  BY <1>21, Published DEF Moved, Finalizing, From, launcherVars, locals, repository, States
<1>22. CASE Record
  BY <1>22 DEF Moved, Record, From, launcherVars, Reconciled, files, locals, repository
<1>23. CASE Finalized
  BY <1>23, Published DEF Moved, Finalized, From, launcherVars, locals, repository, States
<1>24. CASE Throws
  BY <1>24 DEF Moved, Throws, launcherVars, files, locals, repository
<1>25. CASE Catch
  BY <1>25 DEF Moved, Catch, launcherVars, Reconciled, files, locals, repository
<1>26. CASE Report
  BY <1>26, Published DEF Moved, Report, launcherVars, locals, repository, States
<1>27. CASE ReservationBack
  BY <1>27 DEF Moved, ReservationBack, From, launcherVars, ReviewOver, files
<1>28. CASE SourceBack
  BY <1>28 DEF Moved, SourceBack, From, launcherVars, MayReturn, files, TypeOK, OnRecordOK, Things
<1>29. CASE SlotBack
  BY <1>29 DEF Moved, SlotBack, From, launcherVars, files, TypeOK, OnRecordOK, Things
<1>30. CASE Unsettled
  BY <1>30 DEF Moved, Unsettled, From, launcherVars, Reconciled, files, locals, repository
<1>31. CASE Retract
  BY <1>31, Published DEF Moved, Retract, From, launcherVars, locals, repository, States
<1>32. CASE FinallyThrows
  BY <1>32 DEF Moved, FinallyThrows, launcherVars, files, repository
<1>33. CASE Marker
  BY <1>33 DEF Moved, Marker, From, launcherVars, IfAbsent, files, locals, repository
<1>34. CASE RunnerDies
  BY <1>34 DEF Moved, RunnerDies, RunnerLives, launcherVars, files, locals, repository
<1>35. CASE ChildExits
  BY <1>35 DEF Moved, ChildExits, launcherVars, files, locals, repository
<1>36. CASE Orphan
  BY <1>36 DEF Moved, Orphan, Observes, launcherVars, files, locals, repository
<1> QED
  BY <1>1, <1>2, <1>3, <1>4, <1>5, <1>6, <1>7, <1>8, <1>9, <1>10, <1>11, <1>12, <1>13, <1>14, <1>15,
     <1>16, <1>17, <1>18, <1>19, <1>20, <1>21, <1>22, <1>23, <1>24, <1>25, <1>26, <1>27, <1>28,
     <1>29, <1>30, <1>31, <1>32, <1>33, <1>34, <1>35, <1>36 DEF Next, LauncherStep, RunnerStep,
     ObserverStep

\* Every step keeps the reasons for which a source may be returned.
LEMMA ReturnedStep == TypeOK /\ Returned /\ Moved /\ Supervised /\ Sides /\ Next => Returned'
<1> SUFFICES ASSUME TypeOK, Returned, Moved, Supervised, Sides, Next PROVE Returned'
  OBVIOUS
<1>1. CASE Poll
  BY <1>1 DEF Returned, GivenBack, Poll, files, locals, repository
<1>2. CASE ChildReports \/ SeeRow \/ SeeOwner \/ OwnerLives \/ OwnerDead \/ Recheck \/ StalePid
           \/ Crash
  BY <1>2 DEF Returned, GivenBack, ChildReports, launcherVars, files, locals, repository, SeeRow,
     Observes, SeeOwner, OwnerLives, OwnerDead, Recheck, StalePid, Crash
<1>3. CASE Write
  BY <1>3 DEF Returned, GivenBack, Write, locals, repository
<1>4. CASE Spawn
  BY <1>4 DEF Returned, GivenBack, Moved, Supervised, Sides, Settling, RunnerLives, Spawn, locals,
     repository
<1>5. CASE Accept
  BY <1>5 DEF Returned, GivenBack, Accept, Ready, files, locals, repository
<1>6. CASE GiveUp
  BY <1>6 DEF Returned, GivenBack, GiveUp, Ready, Unhandled, RunnerLives, files, repository
<1>7. CASE Kill
  BY <1>7 DEF Returned, GivenBack, Kill, RunnerLives, launcherVars, files, locals, repository
<1>8. CASE Terminated
  BY <1>8 DEF Returned, GivenBack, Terminated, RunnerLives, files, locals, repository
<1>9. CASE Clean
  BY <1>9 DEF Returned, GivenBack, Clean, locals, repository
<1>10. CASE GiveUpSource
  BY <1>10 DEF Returned, GivenBack, Moved, Supervised, Sides, Settling, RunnerLives, GiveUpSource,
     Reconciled, files, locals, TypeOK, OnRecordOK, Things
<1>11. CASE GiveUpSlot
  BY <1>11 DEF Returned, GivenBack, GiveUpSlot, files, locals, TypeOK, OnRecordOK, Things
<1>12. CASE GiveUpRow
  BY <1>12 DEF Returned, GivenBack, GiveUpRow, Reconciled, files, locals, repository
<1>13. CASE GiveUpReservation
  BY <1>13 DEF Returned, GivenBack, GiveUpReservation, files, locals
<1>14. CASE LauncherDies
  BY <1>14 DEF Returned, GivenBack, LauncherDies, files, locals, repository
<1>15. CASE Boot
  BY <1>15 DEF Returned, GivenBack, Boot, From, launcherVars, locals, repository
<1>16. CASE Start
  BY <1>16, Published DEF Returned, GivenBack, Start, From, launcherVars, locals, repository, States
<1>17. CASE Read
  BY <1>17 DEF Returned, GivenBack, Read, From, launcherVars, locals, repository
<1>18. CASE TransferSource
  BY <1>18 DEF Returned, GivenBack, TransferSource, From, launcherVars, TakeOver, files, TypeOK,
     OnRecordOK, Things
<1>19. CASE TransferSlot
  BY <1>19 DEF Returned, GivenBack, TransferSlot, From, launcherVars, TakeOver, files, TypeOK,
     OnRecordOK, Things
<1>20. CASE ReadReview
  BY <1>20 DEF Returned, GivenBack, Moved, Supervised, Sides, Settling, RunnerLives, ReadReview,
     From, launcherVars, repository
<1>21. CASE AdmitMatrix
  BY <1>21, Published DEF Returned, GivenBack, AdmitMatrix, From, launcherVars, repository, States
<1>22. CASE EndMatrix
  BY <1>22 DEF Returned, GivenBack, EndMatrix, From, launcherVars, files, repository
<1>23. CASE SpawnChild
  BY <1>23, Published DEF Returned, GivenBack, SpawnChild, From, launcherVars, repository, States
<1>24. CASE SpawnFails
  BY <1>24 DEF Returned, GivenBack, SpawnFails, From, launcherVars, files, repository
<1>25. CASE Closed
  BY <1>25 DEF Returned, GivenBack, Closed, From, launcherVars, files, repository
<1>26. CASE Interrupt
  BY <1>26 DEF Returned, GivenBack, Interrupt, From, launcherVars, files, locals, repository
<1>27. CASE CleanedUp
  BY <1>27 DEF Returned, GivenBack, CleanedUp, From, launcherVars, files, repository
<1>28. CASE Finalizing
  BY <1>28, Published DEF Returned, GivenBack, Finalizing, From, launcherVars, locals, repository,
     States
<1>29. CASE Record
  BY <1>29 DEF Returned, GivenBack, Record, From, launcherVars, Reconciled, files, locals,
     repository
<1>30. CASE Finalized
  BY <1>30, Published DEF Returned, GivenBack, Finalized, From, launcherVars, locals, repository,
     States
<1>31. CASE Throws
  BY <1>31 DEF Returned, GivenBack, Throws, launcherVars, files, locals, repository
<1>32. CASE Catch
  BY <1>32 DEF Returned, GivenBack, Catch, launcherVars, Reconciled, files, locals, repository
<1>33. CASE Report
  BY <1>33, Published DEF Returned, GivenBack, Report, launcherVars, locals, repository, States
<1>34. CASE ReservationBack
  BY <1>34 DEF Returned, GivenBack, ReservationBack, From, launcherVars, ReviewOver, files
<1>35. CASE SourceBack
  BY <1>35 DEF Returned, GivenBack, Moved, Supervised, Sides, Settling, RunnerLives, SourceBack,
     From, launcherVars, MayReturn, files, TypeOK, OnRecordOK, Things
<1>36. CASE SlotBack
  BY <1>36 DEF Returned, GivenBack, SlotBack, From, launcherVars, files, TypeOK, OnRecordOK, Things
<1>37. CASE Unsettled
  BY <1>37 DEF Returned, GivenBack, Unsettled, From, launcherVars, Reconciled, files, locals,
     repository
<1>38. CASE Retract
  BY <1>38, Published DEF Returned, GivenBack, Retract, From, launcherVars, locals, repository,
     States
<1>39. CASE FinallyThrows
  BY <1>39 DEF Returned, GivenBack, FinallyThrows, launcherVars, files, repository
<1>40. CASE Marker
  BY <1>40 DEF Returned, GivenBack, Marker, From, launcherVars, IfAbsent, files, locals, repository
<1>41. CASE RunnerDies
  BY <1>41 DEF Returned, GivenBack, RunnerDies, RunnerLives, launcherVars, files, locals, repository
<1>42. CASE ChildExits
  BY <1>42 DEF Returned, GivenBack, ChildExits, launcherVars, files, locals, repository
<1>43. CASE Orphan
  BY <1>43 DEF Returned, GivenBack, Orphan, Observes, launcherVars, files, locals, repository
<1> QED
  BY <1>1, <1>2, <1>3, <1>4, <1>5, <1>6, <1>7, <1>8, <1>9, <1>10, <1>11, <1>12, <1>13, <1>14, <1>15,
     <1>16, <1>17, <1>18, <1>19, <1>20, <1>21, <1>22, <1>23, <1>24, <1>25, <1>26, <1>27, <1>28,
     <1>29, <1>30, <1>31, <1>32, <1>33, <1>34, <1>35, <1>36, <1>37, <1>38, <1>39, <1>40, <1>41,
     <1>42, <1>43 DEF Next, LauncherStep, RunnerStep, ObserverStep

\* Every step keeps the reasons for which a reservation may be lifted.
LEMMA ReservedStep == TypeOK /\ Reserved /\ Recorded /\ Supervised /\ Sides /\ Next => Reserved'
<1> SUFFICES ASSUME TypeOK, Reserved, Recorded, Supervised, Sides, Next PROVE Reserved'
  OBVIOUS
<1>1. CASE Poll
  BY <1>1 DEF Reserved, GivenBack, Poll, files, locals, repository
<1>2. CASE SeeRow \/ SeeOwner \/ OwnerLives \/ OwnerDead \/ Recheck \/ StalePid
  BY <1>2 DEF Reserved, GivenBack, SeeRow, Observes, launcherVars, files, locals, repository,
     SeeOwner, OwnerLives, OwnerDead, Recheck, StalePid
<1>3. CASE Write
  BY <1>3 DEF Reserved, GivenBack, Write, locals, repository
<1>4. CASE Spawn
  BY <1>4 DEF Reserved, GivenBack, Recorded, FinalizedIsRecorded, Supervised, Sides, Settling,
     RunnerLives, Spawn, locals, repository
<1>5. CASE Accept
  BY <1>5 DEF Reserved, GivenBack, Accept, Ready, files, locals, repository
<1>6. CASE GiveUp
  BY <1>6 DEF Reserved, GivenBack, GiveUp, Ready, Unhandled, RunnerLives, files, repository
<1>7. CASE Kill
  BY <1>7 DEF Reserved, GivenBack, Kill, RunnerLives, launcherVars, files, locals, repository
<1>8. CASE Terminated
  BY <1>8 DEF Reserved, GivenBack, Terminated, RunnerLives, files, locals, repository
<1>9. CASE Clean
  BY <1>9 DEF Reserved, GivenBack, Clean, locals, repository
<1>10. CASE GiveUpSource
  BY <1>10 DEF Reserved, GivenBack, GiveUpSource, Reconciled, files, locals, TypeOK, OnRecordOK,
     Things
<1>11. CASE GiveUpSlot
  BY <1>11 DEF Reserved, GivenBack, GiveUpSlot, files, locals, TypeOK, OnRecordOK, Things
<1>12. CASE GiveUpRow
  BY <1>12 DEF Reserved, GivenBack, GiveUpRow, Reconciled, files, locals, repository
<1>13. CASE GiveUpReservation
  BY <1>13 DEF Reserved, GivenBack, Recorded, FinalizedIsRecorded, Supervised, Sides, Settling,
     RunnerLives, GiveUpReservation, files, locals
<1>14. CASE LauncherDies
  BY <1>14 DEF Reserved, GivenBack, LauncherDies, files, locals, repository
<1>15. CASE Boot
  BY <1>15 DEF Reserved, GivenBack, Boot, From, launcherVars, locals, repository
<1>16. CASE Start
  BY <1>16, Published DEF Reserved, GivenBack, Start, From, launcherVars, locals, repository, States
<1>17. CASE Read
  BY <1>17 DEF Reserved, GivenBack, Read, From, launcherVars, locals, repository
<1>18. CASE TransferSource
  BY <1>18 DEF Reserved, GivenBack, TransferSource, From, launcherVars, TakeOver, files, TypeOK,
     OnRecordOK, Things
<1>19. CASE TransferSlot
  BY <1>19 DEF Reserved, GivenBack, TransferSlot, From, launcherVars, TakeOver, files, TypeOK,
     OnRecordOK, Things
<1>20. CASE ReadReview
  BY <1>20 DEF Reserved, GivenBack, ReadReview, From, launcherVars, repository
<1>21. CASE AdmitMatrix
  BY <1>21, Published DEF Reserved, GivenBack, AdmitMatrix, From, launcherVars, repository, States
<1>22. CASE EndMatrix
  BY <1>22 DEF Reserved, GivenBack, EndMatrix, From, launcherVars, files, repository
<1>23. CASE SpawnChild
  BY <1>23, Published DEF Reserved, GivenBack, SpawnChild, From, launcherVars, repository, States
<1>24. CASE SpawnFails
  BY <1>24 DEF Reserved, GivenBack, SpawnFails, From, launcherVars, files, repository
<1>25. CASE Closed
  BY <1>25 DEF Reserved, GivenBack, Closed, From, launcherVars, files, repository
<1>26. CASE Interrupt
  BY <1>26 DEF Reserved, GivenBack, Interrupt, From, launcherVars, files, locals, repository
<1>27. CASE CleanedUp
  BY <1>27 DEF Reserved, GivenBack, CleanedUp, From, launcherVars, files, repository
<1>28. CASE Finalizing
  BY <1>28, Published DEF Reserved, GivenBack, Finalizing, From, launcherVars, locals, repository,
     States
<1>29. CASE Record
  BY <1>29 DEF Reserved, GivenBack, Recorded, FinalizedIsRecorded, Supervised, Sides, Settling,
     RunnerLives, Record, From, launcherVars, Reconciled, files, locals, repository
<1>30. CASE Finalized
  BY <1>30, Published DEF Reserved, GivenBack, Finalized, From, launcherVars, locals, repository,
     States
<1>31. CASE Throws
  BY <1>31 DEF Reserved, GivenBack, Throws, launcherVars, files, locals, repository
<1>32. CASE Catch
  BY <1>32 DEF Reserved, GivenBack, Catch, launcherVars, Reconciled, files, locals, repository
<1>33. CASE Report
  BY <1>33, Published DEF Reserved, GivenBack, Report, launcherVars, locals, repository, States
<1>34. CASE ReservationBack
  BY <1>34 DEF Reserved, GivenBack, Recorded, FinalizedIsRecorded, Supervised, Sides, Settling,
     RunnerLives, ReservationBack, From, launcherVars, ReviewOver, files
<1>35. CASE SourceBack
  BY <1>35 DEF Reserved, GivenBack, SourceBack, From, launcherVars, MayReturn, files, TypeOK,
     OnRecordOK, Things
<1>36. CASE SlotBack
  BY <1>36 DEF Reserved, GivenBack, SlotBack, From, launcherVars, files, TypeOK, OnRecordOK, Things
<1>37. CASE Unsettled
  BY <1>37 DEF Reserved, GivenBack, Unsettled, From, launcherVars, Reconciled, files, locals,
     repository
<1>38. CASE Retract
  BY <1>38, Published DEF Reserved, GivenBack, Retract, From, launcherVars, locals, repository,
     States
<1>39. CASE FinallyThrows
  BY <1>39 DEF Reserved, GivenBack, FinallyThrows, launcherVars, files, repository
<1>40. CASE Marker
  BY <1>40 DEF Reserved, GivenBack, Marker, From, launcherVars, IfAbsent, files, locals, repository
<1>41. CASE RunnerDies
  BY <1>41 DEF Reserved, GivenBack, RunnerDies, RunnerLives, launcherVars, files, locals, repository
<1>42. CASE ChildExits
  BY <1>42 DEF Reserved, GivenBack, ChildExits, launcherVars, files, locals, repository
<1>43. CASE ChildReports
  BY <1>43 DEF Reserved, GivenBack, ChildReports, Reconciled, launcherVars, files, locals,
     repository
<1>44. CASE Orphan
  BY <1>44 DEF Reserved, GivenBack, Orphan, Observes, launcherVars, files, locals, repository
<1>45. CASE Crash
  BY <1>45 DEF Reserved, GivenBack, Crash, Observes, launcherVars, files, locals, repository,
     IfAbsent
<1> QED
  BY <1>1, <1>2, <1>3, <1>4, <1>5, <1>6, <1>7, <1>8, <1>9, <1>10, <1>11, <1>12, <1>13, <1>14, <1>15,
     <1>16, <1>17, <1>18, <1>19, <1>20, <1>21, <1>22, <1>23, <1>24, <1>25, <1>26, <1>27, <1>28,
     <1>29, <1>30, <1>31, <1>32, <1>33, <1>34, <1>35, <1>36, <1>37, <1>38, <1>39, <1>40, <1>41,
     <1>42, <1>43, <1>44, <1>45 DEF Next, LauncherStep, RunnerStep, ObserverStep

\* Every step of the finally block leaves custody returned or a failure.
LEMMA AccountedStep == TypeOK /\ Accounted /\ Moved /\ Recorded /\ Next => Accounted'
<1> SUFFICES ASSUME TypeOK, Accounted, Moved, Recorded, Next PROVE Accounted'
  OBVIOUS
<1>1. CASE Write \/ Poll \/ Accept \/ Terminated \/ Clean \/ GiveUpReservation \/ LauncherDies
  BY <1>1 DEF Accounted, Write, locals, repository, Poll, files, Accept, Terminated, Clean,
     GiveUpReservation, LauncherDies
<1>2. CASE ChildExits \/ SeeRow \/ SeeOwner \/ OwnerLives \/ OwnerDead \/ Recheck \/ Orphan \/
           StalePid
  BY <1>2 DEF Accounted, ChildExits, launcherVars, files, locals, repository, SeeRow, Observes,
     SeeOwner, OwnerLives, OwnerDead, Recheck, Orphan, StalePid
<1>3. CASE Spawn
  BY <1>3 DEF Accounted, Spawn, locals, repository
<1>4. CASE GiveUp
  BY <1>4 DEF Accounted, GiveUp, Ready, Unhandled, RunnerLives, files, repository
<1>5. CASE Kill
  BY <1>5 DEF Accounted, Kill, RunnerLives, launcherVars, files, locals, repository
<1>6. CASE GiveUpSource
  BY <1>6 DEF Accounted, GiveUpSource, Reconciled, files, locals, TypeOK, OnRecordOK, Things
<1>7. CASE GiveUpSlot
  BY <1>7 DEF Accounted, GiveUpSlot, files, locals, TypeOK, OnRecordOK, Things
<1>8. CASE GiveUpRow
  BY <1>8 DEF Accounted, GiveUpRow, Reconciled, files, locals, repository
<1>9. CASE Boot
  BY <1>9 DEF Accounted, Boot, From, launcherVars, locals, repository
<1>10. CASE Start
  BY <1>10, Published DEF Accounted, Start, From, launcherVars, locals, repository, States
<1>11. CASE Read
  BY <1>11 DEF Accounted, Read, From, launcherVars, locals, repository
<1>12. CASE TransferSource
  BY <1>12 DEF Accounted, TransferSource, From, launcherVars, TakeOver, files, TypeOK, OnRecordOK,
     Things
<1>13. CASE TransferSlot
  BY <1>13 DEF Accounted, TransferSlot, From, launcherVars, TakeOver, files, TypeOK, OnRecordOK,
     Things
<1>14. CASE ReadReview
  BY <1>14 DEF Accounted, ReadReview, From, launcherVars, repository
<1>15. CASE AdmitMatrix
  BY <1>15, Published DEF Accounted, AdmitMatrix, From, launcherVars, repository, States
<1>16. CASE EndMatrix
  BY <1>16 DEF Accounted, EndMatrix, From, launcherVars, files, repository
<1>17. CASE SpawnChild
  BY <1>17, Published DEF Accounted, SpawnChild, From, launcherVars, repository, States
<1>18. CASE SpawnFails
  BY <1>18 DEF Accounted, SpawnFails, From, launcherVars, files, repository
<1>19. CASE Closed
  BY <1>19 DEF Accounted, Closed, From, launcherVars, files, repository
<1>20. CASE Interrupt
  BY <1>20 DEF Accounted, Interrupt, From, launcherVars, files, locals, repository
<1>21. CASE CleanedUp
  BY <1>21 DEF Accounted, CleanedUp, From, launcherVars, files, repository
<1>22. CASE Finalizing
  BY <1>22, Published DEF Accounted, Finalizing, From, launcherVars, locals, repository, States
<1>23. CASE Record
  BY <1>23 DEF Accounted, Record, From, launcherVars, Reconciled, files, locals, repository
<1>24. CASE Finalized
  BY <1>24, Published DEF Accounted, Finalized, From, launcherVars, locals, repository, States
<1>25. CASE Throws
  BY <1>25 DEF Accounted, Throws, launcherVars, files, locals, repository
<1>26. CASE Catch
  BY <1>26 DEF Accounted, Catch, launcherVars, Reconciled, files, locals, repository
<1>27. CASE Report
  BY <1>27, Published DEF Accounted, Report, launcherVars, locals, repository, States
<1>28. CASE ReservationBack
  BY <1>28 DEF Accounted, ReservationBack, From, launcherVars, ReviewOver, files
<1>29. CASE SourceBack
  BY <1>29 DEF Accounted, Moved, Recorded, FinalizedIsRecorded, SourceBack, From, launcherVars,
     MayReturn, files, TypeOK, OnRecordOK, Things
<1>30. CASE SlotBack
  BY <1>30 DEF Accounted, Moved, Recorded, FinalizedIsRecorded, SlotBack, From, launcherVars, files,
     TypeOK, OnRecordOK, Things
<1>31. CASE Unsettled
  BY <1>31 DEF Accounted, Unsettled, From, launcherVars, Reconciled, files, locals, repository
<1>32. CASE Retract
  BY <1>32, Published DEF Accounted, Retract, From, launcherVars, locals, repository, States
<1>33. CASE FinallyThrows
  BY <1>33 DEF Accounted, FinallyThrows, launcherVars, files, repository
<1>34. CASE Marker
  BY <1>34 DEF Accounted, Marker, From, launcherVars, IfAbsent, files, locals, repository
<1>35. CASE RunnerDies
  BY <1>35 DEF Accounted, RunnerDies, RunnerLives, launcherVars, files, locals, repository
<1>36. CASE ChildReports
  BY <1>36 DEF Accounted, ChildReports, Reconciled, launcherVars, files, locals, repository
<1>37. CASE Crash
  BY <1>37 DEF Accounted, Crash, Observes, launcherVars, files, locals, repository, IfAbsent
<1> QED
  BY <1>1, <1>2, <1>3, <1>4, <1>5, <1>6, <1>7, <1>8, <1>9, <1>10, <1>11, <1>12, <1>13, <1>14, <1>15,
     <1>16, <1>17, <1>18, <1>19, <1>20, <1>21, <1>22, <1>23, <1>24, <1>25, <1>26, <1>27, <1>28,
     <1>29, <1>30, <1>31, <1>32, <1>33, <1>34, <1>35, <1>36, <1>37 DEF Next, LauncherStep,
     RunnerStep, ObserverStep
-----------------------------------------------------------------------------
(* The invariant holds in every behaviour.                                 *)

\* A launch starts with everything at the launcher.
LEMMA InvInit == Init => Inv
<1> SUFFICES ASSUME Init PROVE Inv
  OBVIOUS
<1>1. LauncherOK /\ FilesOK /\ LocalsOK /\ OthersOK
  BY DEF Init, LauncherOK, FilesOK, LocalsOK, OthersOK
<1>2. runner \in Stages
  BY DEF Init, Stages
<1>3. OnRecordOK
  <2>1. reservation \in BOOLEAN /\ row \in {"none", "success", "failed"}
    BY DEF Init
  <2>2. custody \in [Things -> {"launcher", "runner", "none"}]
    BY DEF Init
  <2> QED BY <2>1, <2>2 DEF OnRecordOK
<1>4. Sides /\ Recorded /\ Supervised /\ Reserved /\ Accounted
  BY DEF Init, Sides, Settling, Recorded, FinalizedIsRecorded, Supervised, Reserved, Accounted
<1>5. HandedOver /\ Moved /\ Returned
  BY DEF Init, HandedOver, Working, Shows, Moved, Returned, Things
<1> QED BY <1>1, <1>2, <1>3, <1>4, <1>5 DEF Inv, TypeOK

\* Every step, and every stutter, keeps the invariant.
LEMMA InvStep == Inv /\ [Next]_vars => Inv'
<1> SUFFICES ASSUME Inv, [Next]_vars PROVE Inv'
  OBVIOUS
<1>1. CASE Next
  <2>1. TypeOK'
    BY <1>1, LauncherOKStep, FilesOKStep, LocalsOKStep, OnRecordOKStep, OthersOKStep, StageOKStep
       DEF Inv, TypeOK, StageOK
  <2> QED
    BY <1>1, <2>1, SidesStep, HandedOverStep, RecordedStep, SupervisedStep, MovedStep, ReturnedStep,
       ReservedStep, AccountedStep DEF Inv
<1>2. CASE UNCHANGED vars
  <2> USE <1>2 DEF vars, launcherVars, locals, files, repository
  <2>1. TypeOK'
    BY DEF Inv, TypeOK, LauncherOK, FilesOK, LocalsOK, OnRecordOK, OthersOK
  <2>2. Sides' /\ HandedOver' /\ Recorded'
    BY DEF Inv, Sides, Settling, RunnerLives, HandedOver, Taken, Shows, Working, Recorded, FinalizedIsRecorded
  <2>3. Supervised' /\ Moved' /\ Returned'
    BY DEF Inv, Supervised, Moved, Returned, GivenBack
  <2>4. Reserved' /\ Accounted'
    BY DEF Inv, Reserved, Accounted, GivenBack
  <2> QED BY <2>1, <2>2, <2>3, <2>4 DEF Inv
<1> QED BY <1>1, <1>2

\* The invariant holds in every state of every launch.
THEOREM Invariance == Spec => []Inv
BY InvInit, InvStep, PTL DEF Spec

-----------------------------------------------------------------------------
(* What it gives.                                                          *)

\* Every variable keeps its type, whatever is launched.
THEOREM TypeCorrect == Spec => []TypeOK
<1>1. Inv => TypeOK
  BY DEF Inv
<1> QED BY Invariance, <1>1, PTL

\* Launcher and runner never both settle a launch the launcher verified as ended.
THEOREM OneSettlerOnly == Spec => []OneSettler
<1>1. Inv => OneSettler
  BY DEF Inv, Sides, OneSettler
<1> QED BY Invariance, <1>1, PTL

\* The checkout Pi works in stays taken while it works, with the code's own exceptions.
THEOREM CheckoutStaysTaken == Spec => []AuthorityOutlivesAgent
<1>1. ASSUME Inv, child = "alive", kind \in {"owner", "borrower", "child"}, custody["source"] # "runner"
      PROVE  \/ kind = "owner" /\ launcher \notin {"write", "spawn", "poll", "pending"}
             \/ kind # "child" /\ result = "failed" /\ runner \in GivenBack
  <2>1. "source" \in moved
    BY <1>1 DEF Inv, Moved
  <2>2. custody["source"] = "none"
    BY <1>1, <2>1 DEF Inv, TypeOK, OnRecordOK, Moved, Things
  <2> QED BY <1>1, <2>1, <2>2 DEF Inv, Returned
<1>2. Inv => AuthorityOutlivesAgent
  BY <1>1 DEF AuthorityOutlivesAgent
<1> QED BY Invariance, <1>2, PTL

\* A candidate stays reserved until its review is over and on record.
THEOREM CandidateStaysReserved == Spec => []ReservedUntilReviewed
<1>1. Inv => ReservedUntilReviewed
  BY DEF Inv, Reserved, ReservedUntilReviewed
<1> QED BY Invariance, <1>1, PTL

\* What the launcher reported as failed is on record as failed for good.
THEOREM FailureStays == Spec => []FailedLaunchStays
<1>1. Inv => FailedLaunchStays
  BY DEF Inv, Recorded, FailedLaunchStays
<1> QED BY Invariance, <1>1, PTL

\* Finalized evidence means a terminal row.
THEOREM FinalizedEvidence == Spec => []FinalizedIsRecorded
<1>1. Inv => FinalizedIsRecorded
  BY DEF Inv, Recorded
<1> QED BY Invariance, <1>1, PTL

\* A runner that ended accounts for all it took over.
THEOREM NothingKeptSilently == Spec => []EndedReturnsOrFails
<1>1. Inv => EndedReturnsOrFails
  <2> SUFFICES ASSUME Inv, runner = "ended", kind # "child", trouble # "thrown", row # "failed"
               PROVE  \A x \in Things : custody[x] # "runner"
    BY DEF EndedReturnsOrFails
  <2> QED BY DEF Inv, Accounted
<1> QED BY Invariance, <1>1, PTL

-----------------------------------------------------------------------------
(* The launch keeps the abstract promise.                                  *)

\* The launcher's steps before it reports, and every step that moves no custody.
LEMMA Stutters ==
  ASSUME UNCHANGED custody, UNCHANGED Reported
  PROVE  UNCHANGED Custody!vars
BY DEF Custody!vars

\* Giving back what was given back already changes nothing.
LEMMA Returns ==
  ASSUME OnRecordOK, NEW x \in Things, custody' = [custody EXCEPT ![x] = "none"], UNCHANGED Reported
  PROVE  [Custody!Next]_(Custody!vars)
<1>1. CASE custody[x] = "none"
  BY <1>1 DEF OnRecordOK, Custody!vars
<1>2. CASE custody[x] # "none"
  BY <1>2 DEF Custody!Next, Custody!GiveBack
<1> QED BY <1>1, <1>2

\* A transfer hands over what the launcher had, or repeats itself.
LEMMA Passes ==
  ASSUME OnRecordOK, NEW x \in Things, TakeOver(x), UNCHANGED Reported
  PROVE  [Custody!Next]_(Custody!vars)
<1>1. CASE custody[x] = "runner"
  BY <1>1 DEF OnRecordOK, TakeOver, Custody!vars
<1>2. CASE custody[x] = "launcher"
  BY <1>2 DEF TakeOver, Custody!Next, Custody!HandOver
<1> QED BY <1>1, <1>2 DEF OnRecordOK, TakeOver

\* Every step of a launch is a step of LaunchCustody, or none.
LEMMA StepRefines == Inv /\ [Next]_vars => [Custody!Next]_(Custody!vars)
<1> SUFFICES ASSUME Inv, [Next]_vars PROVE [Custody!Next]_(Custody!vars)
  OBVIOUS
<1>0. OnRecordOK /\ "source" \in Things /\ "slot" \in Things
  BY DEF Inv, TypeOK, Things
<1>1. CASE Write \/ Spawn \/ Poll \/ GiveUp \/ Kill \/ Terminated \/ Clean \/ GiveUpRow \/
           LauncherDies
  <2>1. UNCHANGED custody /\ UNCHANGED Reported
    BY <1>1 DEF Reported, Write, repository, Spawn, Poll, GiveUp, Kill, launcherVars, Terminated,
       Clean, GiveUpRow, LauncherDies
  <2> QED BY <2>1, Stutters
<1>2. CASE Boot \/ Start \/ Read \/ ReadReview \/ AdmitMatrix \/ EndMatrix \/ SpawnChild \/
           SpawnFails \/ Closed \/ Interrupt \/ CleanedUp \/ Finalizing \/ Record \/ Finalized
           \/ Throws \/ Catch \/ Report \/ ReservationBack \/ Unsettled \/ Retract \/
           FinallyThrows \/ Marker \/ RunnerDies
  <2>1. UNCHANGED custody /\ UNCHANGED Reported
    BY <1>2 DEF Reported, Boot, From, launcherVars, repository, Start, Read, ReadReview, AdmitMatrix,
       EndMatrix, SpawnChild, SpawnFails, Closed, Interrupt, CleanedUp, Finalizing, Record,
       Finalized, Throws, Catch, Report, ReservationBack, Unsettled, Retract, FinallyThrows, Marker,
       RunnerDies
  <2> QED BY <2>1, Stutters
<1>3. CASE ChildExits \/ ChildReports \/ SeeRow \/ SeeOwner \/ OwnerLives \/ OwnerDead \/
           Recheck \/ Orphan \/ StalePid \/ Crash
  <2>1. UNCHANGED custody /\ UNCHANGED Reported
    BY <1>3 DEF Reported, ChildExits, launcherVars, repository, ChildReports, SeeRow, Observes,
       SeeOwner, OwnerLives, OwnerDead, Recheck, Orphan, StalePid, Crash
  <2> QED BY <2>1, Stutters
<1>11. CASE Accept
  <2>1. Taken
    BY <1>11 DEF Inv, HandedOver, Shows, Accept, Ready
  <2>2. Reported = "open" /\ Reported' = "pending" /\ UNCHANGED custody
    BY <1>11 DEF Accept, Reported, repository
  <2> QED BY <2>1, <2>2 DEF Custody!Next, Custody!Accept, Taken
<1>12. CASE GiveUpReservation
  <2>1. Reported = "open" /\ Reported' = "failed" /\ UNCHANGED custody
    BY <1>12 DEF GiveUpReservation, Reported
  <2> QED BY <2>1 DEF Custody!Next, Custody!Reject
<1>13. CASE GiveUpSource
  <2>1. UNCHANGED Reported
    BY <1>13 DEF GiveUpSource, Reported
  <2> QED BY <1>0, <1>13, <2>1, Returns, Stutters DEF GiveUpSource
<1>14. CASE GiveUpSlot
  <2>1. UNCHANGED Reported
    BY <1>14 DEF GiveUpSlot, Reported
  <2> QED BY <1>0, <1>14, <2>1, Returns, Stutters DEF GiveUpSlot
<1>15. CASE TransferSource \/ TransferSlot
  <2>1. UNCHANGED Reported
    BY <1>15 DEF TransferSource, TransferSlot, From, launcherVars, Reported
  <2> QED BY <1>0, <1>15, <2>1, Passes DEF TransferSource, TransferSlot
<1>16. CASE SourceBack \/ SlotBack
  <2>1. UNCHANGED Reported
    BY <1>16 DEF SourceBack, SlotBack, From, launcherVars, Reported
  <2> QED BY <1>0, <1>16, <2>1, Returns, Stutters DEF SourceBack, SlotBack
<1>17. CASE UNCHANGED vars
  <2>1. UNCHANGED custody /\ UNCHANGED Reported
    BY <1>17 DEF vars, launcherVars, repository, Reported
  <2> QED BY <2>1, Stutters
<1> QED
  BY <1>1, <1>2, <1>3, <1>11, <1>12, <1>13, <1>14, <1>15, <1>16, <1>17
     DEF Next, LauncherStep, RunnerStep, ObserverStep

\* What was admitted passes once, is given back once, and a pending launch has handed all
\* of it over: the launch implements LaunchCustody.
THEOREM LaunchRefinesCustody == Spec => KeepsCustody
<1>1. Init => Custody!Init
  BY DEF Init, Custody!Init, Reported, Held
<1> QED BY <1>1, StepRefines, Invariance, PTL DEF Spec, KeepsCustody, Custody!Spec

\* Launcher, runner and agent never work against each other: LaunchSafe.
THEOREM LaunchIsSafe == Spec => []LaunchSafe
BY OneSettlerOnly, CheckoutStaysTaken, CandidateStaysReserved, FailureStays, NothingKeptSilently, PTL
   DEF LaunchSafe
=============================================================================
