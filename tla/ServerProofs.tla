---------------------------- MODULE ServerProofs ----------------------------
(***************************************************************************)
(* Theorems about the API server and what its host stores, for every value *)
(* of the constants: the agent sessions behind the server's sockets, the   *)
(* life of the server, the operator's documents that its requests handle,  *)
(* the trash and the bulletins.  The last three are parts of MCHost: a     *)
(* behaviour is one of a single part, and the other parts leave it alone.  *)
(***************************************************************************)
EXTENDS MCHost, TLAPS, FiniteSetTheorems, WellFoundedInduction

-----------------------------------------------------------------------------
(* The agent sessions.                                                     *)

-----------------------------------------------------------------------------
(* The limit.                                                              *)

Within == IsFiniteSet(table) /\ Cardinality(table) <= MaxSessions

\* What a step does to the table: it removes sessions, or adds one with room.
LEMMA TableStep ==
    ASSUME [Next]_vars
    PROVE  \/ table' \subseteq table
           \/ HasRoom /\ \E s \in Sessions : table' = table \cup {s}
<1>1. CASE UNCHANGED vars
  BY <1>1 DEF vars
<1>2. CASE Shutdown
  BY <1>2 DEF Shutdown, Terminate
<1>3. CASE Callbacks
  BY <1>3 DEF Callbacks, Exit, Output, SpawnError, Close, Escalate, Finalize
<1>4. CASE Messages
  <2>1. PICK c \in Conns :
          \/ Connect(c) \/ Request(c) \/ Rejected(c) \/ Refused(c) \/ Stop(c) \/ Disconnect(c)
          \/ \E s, n \in Sessions, r \in Runtimes : Create(c, s, n, r) \/ CreateFails(c, s, n, r)
    BY <1>4 DEF Messages
  <2>2. CASE Connect(c) \/ Request(c) \/ Rejected(c) \/ Refused(c)
    BY <2>2 DEF Connect, Request, Rejected, Refused
  <2>3. CASE Stop(c) \/ Disconnect(c)
    BY <2>3 DEF Stop, Disconnect, Terminate
  <2>4. CASE \E s, n \in Sessions, r \in Runtimes : Create(c, s, n, r) \/ CreateFails(c, s, n, r)
    BY <2>4 DEF Create, CreateFails
  <2>5. QED BY <2>1, <2>2, <2>3, <2>4
<1>5. CASE Rest
  BY <1>5 DEF Rest, Register, RestStop, Observe, StreamDone, StreamAborted, CloseStream, Terminate
<1>6. QED BY <1>1, <1>2, <1>3, <1>4, <1>5 DEF Next

LEMMA WithinStep ==
    ASSUME Within, [Next]_vars
    PROVE  Within'
<1>1. CASE table' \subseteq table
  BY <1>1, FS_Subset, SessionsAssumption, FS_CardinalityType DEF Within
<1>2. CASE HasRoom /\ \E s \in Sessions : table' = table \cup {s}
  <2>1. PICK s \in Sessions : table' = table \cup {s}
    BY <1>2
  <2>a. IsFiniteSet(table) /\ Cardinality(table) \in Nat
    BY FS_CardinalityType DEF Within
  <2>2. IsFiniteSet(table') /\ Cardinality(table') <= Cardinality(table) + 1
    <3>1. CASE s \in table
      <4>1. table' = table
        BY <2>1, <3>1
      <4>2. QED BY <4>1, <2>a
    <3>2. CASE s \notin table
      <4>1. IsFiniteSet(table \cup {s}) /\ Cardinality(table \cup {s}) = Cardinality(table) + 1
        BY <2>a, <3>2, FS_AddElement
      <4>2. QED BY <4>1, <2>1, <2>a
    <3>3. QED BY <3>1, <3>2
  <2>3. Cardinality(table) \in Nat /\ Cardinality(table') \in Nat
    BY <2>2, FS_CardinalityType DEF Within
  <2>4. QED BY <1>2, <2>2, <2>3, SessionsAssumption DEF Within, HasRoom
<1>3. QED BY <1>1, <1>2, TableStep

\* The table never outgrows maxSessions, however many requests were awaiting
\* their preflights when the last slot was taken.
THEOREM CapacityIsKept == Spec => []CapacityKept
<1>1. Init => Within
  BY FS_EmptySet, SessionsAssumption DEF Init, Within
<1>2. Within /\ [Next]_vars => Within'
  BY WithinStep
<1>3. Within => CapacityKept
  BY DEF Within, CapacityKept
<1>4. QED BY <1>1, <1>2, <1>3, PTL DEF Spec

-----------------------------------------------------------------------------
(* Types.                                                                  *)

\* A spawned session has a native session of its own or a resumed one.
Typed == TypeOK /\ \A s \in Sessions : Spawned(s) => nid[s] \in Sessions

Words == {"nothing", "open", "ended", "twice", "late"}

LEMMA HearsType ==
    ASSUME NEW old \in Words, NEW kind
    PROVE  Hears(old, kind) \in Words
BY DEF Hears, Words

\* What is told keeps the types of the three variables it touches.
LEMMA TellType ==
    ASSUME TypeOK, NEW S, NEW kind, Tell(S, kind)
    PROVE  /\ told' \in [Conns -> [Sessions -> Words]]
           /\ active' \in [Conns -> Sessions \cup {None}]
           /\ sse' \in [Streams -> {"idle", "open", "closing", "closed"}]
<1>1. \A c \in Conns, s \in Sessions : told[c][s] \in Words
  BY DEF TypeOK, Words
<1>2. \A c \in Conns, s \in Sessions : Hears(told[c][s], kind) \in Words
  BY <1>1, HearsType
<1>3. told' \in [Conns -> [Sessions -> Words]]
  BY <1>1, <1>2 DEF Tell
<1>4. QED BY <1>3 DEF Tell, TypeOK

LEMMA TerminateType ==
    ASSUME TypeOK, NEW S, Terminate(S)
    PROVE  /\ table' \subseteq Sessions
           /\ stopping' \in [Sessions -> BOOLEAN] /\ signalled' \in [Sessions -> BOOLEAN]
           /\ timer' \in [Sessions -> BOOLEAN]
BY DEF Terminate, TypeOK

LEMMA FinalizeType ==
    ASSUME TypeOK, NEW s \in Sessions, Finalize(s)
    PROVE  table' \subseteq Sessions /\ sinks' \in [Sessions -> SUBSET (Conns \cup Streams)]
BY DEF Finalize, TypeOK

LEMMA CallbackTypes ==
    ASSUME Typed, Callbacks
    PROVE  Typed'
<1> USE DEF Typed, Words
<1>1. PICK s \in Sessions : Exit(s) \/ Output(s) \/ SpawnError(s) \/ Close(s) \/ Escalate(s)
  BY DEF Callbacks
<1>2. CASE Exit(s)
  BY <1>2 DEF Exit, TypeOK, ChildStates, record, client, stream, Spawned
<1>3. CASE Output(s)
  <2>1. PICK rest, lines \in BOOLEAN :
          carry' = [carry EXCEPT ![s] = rest] /\ Tell(IF lines THEN {s} ELSE {}, "event")
    BY <1>3 DEF Output
  <2>2. QED BY <1>3, <2>1, TellType DEF Output, TypeOK, record, Spawned
<1>4. CASE SpawnError(s)
  <2>1. CASE stopping[s]
    BY <1>4, <2>1 DEF SpawnError, TypeOK, ChildStates, record, Spawned
  <2>2. CASE ~stopping[s]
    <3>1. Tell({s}, "error") /\ Finalize(s)
      BY <1>4, <2>2 DEF SpawnError
    <3>2. QED BY <1>4, <3>1, TellType, FinalizeType DEF SpawnError, TypeOK, ChildStates, record, Spawned
  <2>3. QED BY <2>1, <2>2
<1>5. CASE Close(s)
  <2>1. nid[s] \in Sessions /\ run[s] \in Runtimes \cup {None}
    BY <1>5 DEF Close, TypeOK, Spawned
  <2>2. native' \in [Sessions -> Runtimes \cup {None}] /\ known' \subseteq Sessions
    BY <1>5, <2>1 DEF Close, Learn, TypeOK
  <2>3. CASE stopping[s]
    <3>1. Tell(IF carry[s] THEN {s} ELSE {}, "event") /\ UNCHANGED <<table, sinks>>
      BY <1>5, <2>3 DEF Close
    <3>2. QED BY <1>5, <2>2, <3>1, TellType DEF Close, TypeOK, ChildStates, Spawned
  <2>4. CASE ~stopping[s]
    <3>1. Tell({s}, "end") /\ Finalize(s)
      BY <1>5, <2>4 DEF Close
    <3>2. QED BY <1>5, <2>2, <3>1, TellType, FinalizeType DEF Close, TypeOK, ChildStates, Spawned
  <2>5. QED BY <2>3, <2>4
<1>6. CASE Escalate(s)
  BY <1>6 DEF Escalate, TypeOK, ChildStates, record, client, stream, Spawned
<1>7. QED BY <1>1, <1>2, <1>3, <1>4, <1>5, <1>6

LEMMA StopTypes ==
    ASSUME Typed, NEW c \in Conns, Stop(c) \/ Disconnect(c)
    PROVE  Typed'
<1> USE DEF Typed
<1> DEFINE S == {active[c]} \cap table
<1>1. Terminate(S)
  BY DEF Stop, Disconnect
<1>2. active' \in [Conns -> Sessions \cup {None}]
        /\ sse' \in [Streams -> {"idle", "open", "closing", "closed"}]
  BY DEF Stop, Disconnect, TypeOK
<1>3. CASE Stop(c)
  <2>1. active[c] \in Sessions
    BY <1>3 DEF Stop, TypeOK
  <2>0. \A d \in Conns, t \in Sessions : told[d][t] \in Words
    BY DEF TypeOK, Words
  <2>2. \A d \in Conns, t \in Sessions : Hears(told[d][t], "end") \in Words
    BY <2>0, HearsType
  <2>3. \A d \in Conns, t \in Sessions : Hears(Hears(told[d][t], "end"), "end") \in Words
    BY <2>2, HearsType
  <2>4. told' \in [Conns -> [Sessions -> Words]]
    BY <1>3, <2>0, <2>1, <2>2, <2>3 DEF Stop, TypeOK
  <2>5. QED BY <1>1, <1>2, <1>3, <2>4, TerminateType DEF Stop, TypeOK, ChildStates, record, Spawned, Words
<1>4. CASE Disconnect(c)
  BY <1>1, <1>2, <1>4, TerminateType DEF Disconnect, TypeOK, ChildStates, record, Spawned
<1>5. QED BY <1>3, <1>4

LEMMA MessageTypes ==
    ASSUME Typed, Messages
    PROVE  Typed'
<1> USE DEF Typed
<1>1. PICK c \in Conns :
        \/ Connect(c) \/ Request(c) \/ Rejected(c) \/ Refused(c) \/ Stop(c) \/ Disconnect(c)
        \/ \E s, n \in Sessions, r \in Runtimes : Create(c, s, n, r) \/ CreateFails(c, s, n, r)
  BY DEF Messages
<1>2. MaxPending \in Nat
  BY SessionsAssumption
<1>3. CASE Connect(c) \/ Rejected(c)
  BY <1>3 DEF Connect, Rejected, TypeOK, ChildStates, process, record, stream, Spawned
<1>4. CASE Request(c)
  BY <1>2, <1>4 DEF Request, TypeOK, ChildStates, process, record, stream, Spawned
<1>5. CASE Refused(c)
  BY <1>2, <1>5 DEF Refused, TypeOK, ChildStates, process, record, stream, Spawned
<1>6. CASE Stop(c) \/ Disconnect(c)
  BY <1>6, StopTypes
<1>7. CASE \E s, n \in Sessions, r \in Runtimes : Create(c, s, n, r)
  <2>1. PICK s \in Sessions, n \in Sessions, r \in Runtimes : Create(c, s, n, r)
    BY <1>7
  <2>2. child' \in [Sessions -> ChildStates] /\ pending' \in [Conns -> 0..MaxPending]
    BY <1>2, <2>1 DEF Create, TypeOK, ChildStates
  <2>3. native' \in [Sessions -> Runtimes \cup {None}] /\ known' \subseteq Sessions
    <3>1. Learn(n, r) \/ UNCHANGED <<native, known>>
      BY <2>1 DEF Create
    <3>2. QED BY <3>1 DEF Learn, TypeOK
  <2>4. \A t \in Sessions \ {s} : child'[t] = child[t] /\ nid'[t] = nid[t]
    BY <2>1 DEF Create, TypeOK
  <2>5. nid'[s] = n
    BY <2>1 DEF Create, TypeOK
  <2>6. QED BY <2>1, <2>2, <2>3, <2>4, <2>5 DEF Create, TypeOK, ChildStates, stream, Spawned
<1>8. CASE \E s, n \in Sessions, r \in Runtimes : CreateFails(c, s, n, r)
  <2>1. PICK s \in Sessions, n \in Sessions, r \in Runtimes : CreateFails(c, s, n, r)
    BY <1>8
  <2>2. QED BY <1>2, <2>1 DEF CreateFails, TypeOK, ChildStates, process, stream, Spawned
<1>9. QED BY <1>1, <1>3, <1>4, <1>5, <1>6, <1>7, <1>8

LEMMA RestTypes ==
    ASSUME Typed, Rest \/ Shutdown
    PROVE  Typed'
<1> USE DEF Typed, Words
<1>1. CASE \E s \in Sessions : Register(s)
  <2>1. PICK s \in Sessions : Register(s)
    BY <1>1
  <2>2. QED BY <2>1 DEF Register, TypeOK, ChildStates, record, client, stream, Spawned
<1>2. CASE \E s \in Sessions : RestStop(s)
  <2>1. PICK s \in Sessions : RestStop(s)
    BY <1>2
  <2>2. Terminate({s}) /\ Tell(Quiet({s}), "end")
    BY <2>1 DEF RestStop
  <2>3. QED BY <2>1, <2>2, TellType, TerminateType DEF RestStop, TypeOK, ChildStates, record, Spawned
<1>3. CASE \E k \in Streams : StreamDone(k) \/ StreamAborted(k)
  <2>1. PICK k \in Streams : CloseStream(k)
    BY <1>3 DEF StreamDone, StreamAborted
  <2>2. sinks' \in [Sessions -> SUBSET (Conns \cup Streams)]
    BY <2>1 DEF CloseStream, TypeOK
  <2>3. QED BY <2>1, <2>2 DEF StreamDone, StreamAborted, CloseStream, TypeOK, ChildStates, process, record, client, Spawned
<1>4. CASE \E k \in Streams, s \in Sessions : Observe(k, s)
  <2>1. PICK k \in Streams, s \in Sessions : Observe(k, s)
    BY <1>4
  <2>2. sinks' \in [Sessions -> SUBSET (Conns \cup Streams)]
          /\ sse' \in [Streams -> {"idle", "open", "closing", "closed"}]
          /\ watch' \in [Streams -> Sessions \cup {None}]
    BY <2>1 DEF Observe, TypeOK
  <2>3. QED BY <2>1, <2>2 DEF Observe, TypeOK, ChildStates, process, record, client, Spawned
<1>5. CASE Shutdown
  <2>1. Terminate(table)
    BY <1>5 DEF Shutdown
  <2>2. QED BY <1>5, <2>1, TerminateType DEF Shutdown, TypeOK, ChildStates, record, client, stream, Spawned
<1>6. QED BY <1>1, <1>2, <1>3, <1>4, <1>5 DEF Rest

LEMMA TypedStep ==
    ASSUME Typed, [Next]_vars
    PROVE  Typed'
<1>1. CASE UNCHANGED vars
  BY <1>1 DEF vars, process, record, client, stream, Typed, TypeOK, ChildStates, Spawned
<1>2. CASE Next
  BY <1>2, CallbackTypes, MessageTypes, RestTypes DEF Next
<1>3. QED BY <1>1, <1>2

LEMMA TypedInit == Init => Typed
BY SessionsAssumption DEF Init, Typed, TypeOK, ChildStates, Spawned

\* The variables of the server keep their types; a session with a child runs a
\* native session, its own or a resumed one (createSession).
THEOREM TypeCorrect == Spec => []TypeOK
<1>1. Typed => TypeOK
  BY DEF Typed
<1>2. QED BY <1>1, TypedInit, TypedStep, PTL DEF Spec

-----------------------------------------------------------------------------
(* The end of a session.                                                   *)

\* A session without a child is nobody's.
Unowned(s) ==
    child[s] \in {"unused", "deploy"} =>
        /\ sinks[s] = {}
        /\ \A c \in Conns : active[c] # s /\ told[c][s] = "nothing"
        /\ child[s] = "unused" => ~stopping[s]

\* The only connection among the sinks of a session is the one that started it; it
\* stays there until the session is finalized, and then no sink is left.
Owned(s) ==
    Spawned(s) =>
        /\ owner[s] \in Conns /\ sinks[s] \cap Conns \subseteq {owner[s]}
        /\ s \in table => owner[s] \in sinks[s]
        /\ ~stopping[s] /\ s \notin table => sinks[s] = {}

\* What the client of a session nobody has terminated knows of it.
Heard(s) ==
    Spawned(s) /\ ~stopping[s] =>
        /\ told[owner[s]][s] \in {"nothing", "open", "ended"}
        /\ s \in table => told[owner[s]][s] # "ended"
        /\ conn[owner[s]] = "open" /\ s \notin table => told[owner[s]][s] = "ended"

\* The active session of a connection is its own, and still in the table unless
\* somebody else terminated it.
Attached(c) ==
    active[c] # None =>
        /\ owner[active[c]] = c /\ Spawned(active[c])
        /\ active[c] \in table \/ stopping[active[c]]

\* A connection that was not opened yet has asked for nothing.
Unopened(c) ==
    conn[c] = "new" => pending[c] = 0 /\ \A s \in Sessions : Spawned(s) => owner[s] # c

HubInv ==
    /\ Typed /\ SlotsLive
    /\ \A s \in Sessions : Unowned(s) /\ Owned(s) /\ Heard(s)
    /\ \A c \in Conns : Attached(c) /\ Unopened(c)

LEMMA HubInit == Init => HubInv
<1> SUFFICES ASSUME Init PROVE HubInv
  OBVIOUS
<1>1. \A s \in Sessions : child[s] = "unused" /\ ~Spawned(s)
  BY DEF Init, Spawned
<1>2. \A c \in Conns : Attached(c) /\ Unopened(c)
  BY <1>1 DEF Init, Attached, Unopened
<1>3. \A s \in Sessions : Owned(s) /\ Heard(s)
  BY <1>1 DEF Owned, Heard
<1>4. \A s \in Sessions : Unowned(s)
  BY SessionsAssumption DEF Init, Unowned
<1>5. QED BY <1>2, <1>3, <1>4, TypedInit DEF Init, HubInv, SlotsLive

LEMMA HubSafe == HubInv => EndsTold
BY DEF HubInv, EndsTold, SlotsLive, OwnerToldOnce, Owned, Heard

\* What an event says to the one client that listens to the session.
LEMMA TellOne ==
    ASSUME HubInv, NEW s \in Sessions, NEW kind, NEW S \in SUBSET {s}, Tell(S, kind),
           Spawned(s)
    PROVE  /\ \A c \in Conns, r \in Sessions :
                 r # s \/ c # owner[s] => told'[c][r] = told[c][r]
           /\ told'[owner[s]][s] =
                 IF s \in S /\ owner[s] \in sinks[s] /\ conn[owner[s]] = "open"
                 THEN Hears(told[owner[s]][s], kind) ELSE told[owner[s]][s]
           /\ \A c \in Conns :
                 active'[c] = IF kind \in Final /\ s \in S /\ c = owner[s] /\ c \in sinks[s]
                              THEN None ELSE active[c]
<1>1. owner[s] \in Conns /\ sinks[s] \cap Conns \subseteq {owner[s]}
  BY DEF HubInv, Owned
<1>2. \A c \in Conns : c \in sinks[s] => c = owner[s]
  BY <1>1
<1>3. \A c \in Conns, r \in Sessions :
        told'[c][r] = IF r \in S /\ c \in sinks[r] /\ conn[c] = "open"
                      THEN Hears(told[c][r], kind) ELSE told[c][r]
  BY DEF Tell
<1>4. \A c \in Conns :
        active'[c] = IF kind \in Final /\ \E r \in S : c \in sinks[r] THEN None ELSE active[c]
  BY DEF Tell
<1>5. \A c \in Conns : (\E r \in S : c \in sinks[r]) <=> s \in S /\ c = owner[s] /\ c \in sinks[s]
  BY <1>2
<1>6. \A r \in S : r = s
  OBVIOUS
<1>7. QED BY <1>1, <1>2, <1>3, <1>4, <1>5, <1>6

\* Output is heard by the client, and by nobody once the session has left.
LEMMA EventHeard ==
    ASSUME HubInv, NEW s \in Sessions, NEW S \in SUBSET {s}, Tell(S, "event"), Spawned(s),
           ~stopping[s]
    PROVE  /\ told'[owner[s]][s] = "ended" <=> told[owner[s]][s] = "ended"
           /\ told'[owner[s]][s] \in {"nothing", "open", "ended"}
           /\ active' = active
<1>1. "event" \notin Final
  BY DEF Final
<1>2. told'[owner[s]][s] =
         IF s \in S /\ owner[s] \in sinks[s] /\ conn[owner[s]] = "open"
         THEN Hears(told[owner[s]][s], "event") ELSE told[owner[s]][s]
  BY TellOne
<1>3. /\ told[owner[s]][s] \in {"nothing", "open", "ended"}
      /\ s \in table => told[owner[s]][s] # "ended"
      /\ s \notin table => sinks[s] = {}
  BY DEF HubInv, Heard, Owned
<1>4. active' = active
  BY <1>1 DEF Tell, HubInv, Typed, TypeOK
<1>5. QED BY <1>1, <1>2, <1>3, <1>4 DEF Hears

LEMMA ExitStep ==
    ASSUME HubInv, NEW s \in Sessions, Exit(s) \/ Escalate(s), Typed'
    PROVE  HubInv'
<1>1. /\ UNCHANGED <<table, stopping, sinks, owner, conn, active, pending, told>>
      /\ \A r \in Sessions : child'[r] = child[r] \/ (child[r] = "running" /\ child'[r] \in {"exited", "killed"})
  BY DEF Exit, Escalate, record, client, HubInv, Typed, TypeOK
<1>2. \A r \in Sessions : Spawned(r)' <=> Spawned(r)
  BY <1>1 DEF Spawned
<1>3. SlotsLive'
  BY <1>1 DEF HubInv, SlotsLive, Typed, TypeOK
<1>4. \A r \in Sessions : (Unowned(r) /\ Owned(r) /\ Heard(r))'
  BY <1>1, <1>2 DEF HubInv, Unowned, Owned, Heard
<1>5. \A c \in Conns : (Attached(c) /\ Unopened(c))'
  BY <1>1, <1>2 DEF HubInv, Attached, Unopened, Typed, TypeOK
<1>6. QED BY <1>3, <1>4, <1>5 DEF HubInv

LEMMA OutputStep ==
    ASSUME HubInv, NEW s \in Sessions, Output(s), Typed'
    PROVE  HubInv'
<1>1. UNCHANGED <<table, child, stopping, sinks, owner, conn, pending>> /\ Spawned(s) /\ ~stopping[s]
  BY DEF Output, record, Spawned
<1>2. PICK S \in SUBSET {s} : Tell(S, "event")
  BY DEF Output
<1>3. active' = active
  BY <1>1, <1>2, EventHeard
<1>4. \A r \in Sessions : Spawned(r)' <=> Spawned(r)
  BY <1>1 DEF Spawned
<1>5. \A c \in Conns, r \in Sessions : r # s \/ c # owner[s] => told'[c][r] = told[c][r]
  BY <1>1, <1>2, TellOne
<1>6. \A r \in Sessions : (Unowned(r) /\ Owned(r))'
  BY <1>1, <1>3, <1>4, <1>5 DEF HubInv, Unowned, Owned, Spawned
<1>7. \A r \in Sessions : Heard(r)'
  <2> SUFFICES ASSUME NEW r \in Sessions PROVE Heard(r)'
    OBVIOUS
  <2>1. CASE r = s
    BY <1>1, <1>2, <1>4, <2>1, EventHeard DEF HubInv, Heard
  <2>2. CASE r # s
    <3>1. Spawned(r) => told'[owner[r]][r] = told[owner[r]][r]
      BY <1>5, <2>2 DEF HubInv, Owned
    <3>2. QED BY <1>1, <1>4, <3>1 DEF HubInv, Heard
  <2>3. QED BY <2>1, <2>2
<1>8. \A c \in Conns : (Attached(c) /\ Unopened(c))'
  BY <1>1, <1>3, <1>4 DEF HubInv, Attached, Unopened, Typed, TypeOK
<1>9. QED BY <1>1, <1>6, <1>7, <1>8 DEF HubInv, SlotsLive

\* The child of a session is over: its error or its close event.  A session nobody
\* terminated is told its end while its sinks still hear it.
LEMMA EndStep ==
    ASSUME HubInv, NEW s \in Sessions, SpawnError(s) \/ Close(s), ~stopping[s], Typed'
    PROVE  HubInv'
<1>1. PICK kind \in Final : Tell({s}, kind)
  BY DEF SpawnError, Close, Final
<1>2. Finalize(s)
  BY DEF SpawnError, Close
<1>3. /\ UNCHANGED <<stopping, owner, conn, pending>> /\ Spawned(s)
      /\ child'[s] \in {"exited", "closed"}
      /\ \A r \in Sessions \ {s} : child'[r] = child[r]
  BY DEF SpawnError, Close, record, Spawned, HubInv, Typed, TypeOK
<1>4. table' = table \ {s} /\ sinks'[s] = {} /\ \A r \in Sessions \ {s} : sinks'[r] = sinks[r]
  BY <1>2, <1>3 DEF Finalize, HubInv, Owned, Typed, TypeOK
<1>5. \A r \in Sessions : Spawned(r)' <=> Spawned(r)
  BY <1>3 DEF Spawned
<1>6. /\ \A c \in Conns, r \in Sessions : r # s \/ c # owner[s] => told'[c][r] = told[c][r]
      /\ told'[owner[s]][s] = IF owner[s] \in sinks[s] /\ conn[owner[s]] = "open"
                              THEN Hears(told[owner[s]][s], kind) ELSE told[owner[s]][s]
      /\ \A c \in Conns : active'[c] = IF c = owner[s] /\ c \in sinks[s] THEN None ELSE active[c]
  BY <1>1, <1>3, TellOne
<1>7. SlotsLive'
  BY <1>3, <1>4 DEF HubInv, SlotsLive, Typed, TypeOK
<1>8. \A r \in Sessions : Unowned(r)'
  BY <1>3, <1>4, <1>5, <1>6, SessionsAssumption DEF HubInv, Unowned, Spawned
<1>9. \A r \in Sessions : Owned(r)'
  BY <1>3, <1>4, <1>5 DEF HubInv, Owned
<1>10. Heard(s)'
  <2>1. /\ told[owner[s]][s] \in {"nothing", "open", "ended"}
        /\ s \in table => told[owner[s]][s] # "ended" /\ owner[s] \in sinks[s]
        /\ conn[owner[s]] = "open" /\ s \notin table => told[owner[s]][s] = "ended"
        /\ s \notin table => sinks[s] = {}
    BY <1>3 DEF HubInv, Heard, Owned
  <2>2. QED BY <1>1, <1>3, <1>4, <1>6, <2>1 DEF Heard, Hears
<1>11. \A r \in Sessions \ {s} : Heard(r)'
  <2> SUFFICES ASSUME NEW r \in Sessions \ {s} PROVE Heard(r)'
    OBVIOUS
  <2>1. Spawned(r) => told'[owner[r]][r] = told[owner[r]][r]
    BY <1>6 DEF HubInv, Owned
  <2>2. QED BY <1>3, <1>4, <1>5, <2>1 DEF HubInv, Heard
<1>12. \A c \in Conns : Attached(c)'
  <2> SUFFICES ASSUME NEW c \in Conns, active'[c] # None PROVE Attached(c)'
    BY DEF Attached
  <2>1. active'[c] = active[c] /\ active[c] \in Sessions
    BY <1>6 DEF HubInv, Typed, TypeOK
  <2>2. active[c] # s
    <3> SUFFICES ASSUME active[c] = s PROVE FALSE
      OBVIOUS
    <3>1. c = owner[s] /\ s \in table
      BY <2>1, SessionsAssumption DEF HubInv, Attached
    <3>2. c \in sinks[s]
      BY <1>3, <3>1 DEF HubInv, Owned
    <3>3. QED BY <1>6, <2>1, <3>1, <3>2, SessionsAssumption
  <2>3. QED BY <1>3, <1>4, <1>5, <2>1, <2>2 DEF HubInv, Attached
<1>13. \A c \in Conns : Unopened(c)'
  BY <1>3, <1>5 DEF HubInv, Unopened
<1>14. QED BY <1>7, <1>8, <1>9, <1>10, <1>11, <1>12, <1>13 DEF HubInv

\* The child of a session that was terminated is over: the client was told by then.
LEMMA StoppedStep ==
    ASSUME HubInv, NEW s \in Sessions, SpawnError(s) \/ Close(s), stopping[s], Typed'
    PROVE  HubInv'
<1>1. /\ UNCHANGED <<table, stopping, sinks, owner, conn, pending>> /\ Spawned(s)
      /\ child'[s] \in {"exited", "closed"}
      /\ \A r \in Sessions \ {s} : child'[r] = child[r]
  BY DEF SpawnError, Close, record, Spawned, HubInv, Typed, TypeOK
<1>2. active' = active /\ \A c \in Conns, r \in Sessions \ {s} : told'[c][r] = told[c][r]
  <2>1. CASE SpawnError(s)
    BY <2>1 DEF SpawnError
  <2>2. CASE Close(s)
    <3>1. Tell(IF carry[s] THEN {s} ELSE {}, "event")
      BY <2>2 DEF Close
    <3>2. QED BY <3>1 DEF Tell, Final, HubInv, Typed, TypeOK
  <2>3. QED BY <2>1, <2>2
<1>3. \A r \in Sessions : Spawned(r)' <=> Spawned(r)
  BY <1>1 DEF Spawned
<1>4. SlotsLive'
  BY <1>1 DEF HubInv, SlotsLive, Typed, TypeOK
<1>5. \A r \in Sessions : (Unowned(r) /\ Owned(r))'
  BY <1>1, <1>2, <1>3 DEF HubInv, Unowned, Owned, Spawned
<1>6. \A r \in Sessions : Heard(r)'
  <2> SUFFICES ASSUME NEW r \in Sessions \ {s} PROVE Heard(r)'
    BY <1>1 DEF Heard
  <2>1. Spawned(r) => told'[owner[r]][r] = told[owner[r]][r]
    BY <1>2 DEF HubInv, Owned
  <2>2. QED BY <1>1, <1>3, <2>1 DEF HubInv, Heard
<1>7. \A c \in Conns : (Attached(c) /\ Unopened(c))'
  BY <1>1, <1>2, <1>3 DEF HubInv, Attached, Unopened, Typed, TypeOK
<1>8. QED BY <1>4, <1>5, <1>6, <1>7 DEF HubInv

\* Sessions of the table are terminated: by a stop, a disconnect, a REST request or
\* the end of the server.
LEMMA TerminateStep ==
    ASSUME HubInv, Typed', NEW S \in SUBSET table, Terminate(S),
           UNCHANGED <<child, sinks, owner, pending>>,
           \A c \in Conns : conn'[c] = conn[c] \/ conn'[c] = "closed",
           \A c \in Conns : active'[c] = active[c] \/ active'[c] = None,
           \A c \in Conns, r \in Sessions :
               told'[c][r] # told[c][r] => Spawned(r) /\ (r \in S \/ stopping[r])
    PROVE  HubInv'
<1>1. /\ table' = table \ S
      /\ \A r \in Sessions : stopping'[r] = (stopping[r] \/ r \in S)
  BY DEF Terminate
<1>2. \A r \in Sessions : Spawned(r)' <=> Spawned(r)
  BY DEF Spawned
<1>3. SlotsLive'
  BY <1>1 DEF HubInv, SlotsLive, Typed, TypeOK
<1>4. \A r \in Sessions : Unowned(r)'
  <2> SUFFICES ASSUME NEW r \in Sessions, child[r] \in {"unused", "deploy"}
               PROVE  Unowned(r)'
    BY DEF Unowned
  <2>1. \A c \in Conns : told'[c][r] = told[c][r] /\ active'[c] # r
    BY SessionsAssumption DEF HubInv, Unowned, Spawned
  <2>2. child[r] = "unused" => r \notin table
    BY DEF HubInv, SlotsLive
  <2>3. QED BY <1>1, <2>1, <2>2 DEF HubInv, Unowned
<1>5. \A r \in Sessions : Owned(r)'
  BY <1>1, <1>2 DEF HubInv, Owned
<1>6. \A r \in Sessions : Heard(r)'
  <2> SUFFICES ASSUME NEW r \in Sessions, Spawned(r), ~stopping[r], r \notin S
               PROVE  Heard(r)'
    BY <1>1, <1>2 DEF Heard
  <2>1. told'[owner[r]][r] = told[owner[r]][r] /\ owner[r] \in Conns
    BY DEF HubInv, Owned
  <2>2. conn'[owner[r]] = "open" => conn[owner[r]] = "open"
    BY <2>1
  <2>3. QED BY <1>1, <1>2, <2>1, <2>2 DEF HubInv, Heard
<1>7. \A c \in Conns : (Attached(c) /\ Unopened(c))'
  BY <1>1, <1>2 DEF HubInv, Attached, Unopened, Typed, TypeOK
<1>8. QED BY <1>3, <1>4, <1>5, <1>6, <1>7 DEF HubInv

LEMMA StopStep ==
    ASSUME HubInv, Typed', NEW c \in Conns, Stop(c) \/ Disconnect(c)
    PROVE  HubInv'
<1> DEFINE s == active[c]
           S == {s} \cap table
<1>1. /\ Terminate(S) /\ UNCHANGED <<child, sinks, owner, pending>>
      /\ \A d \in Conns : conn'[d] = conn[d] \/ conn'[d] = "closed"
      /\ \A d \in Conns : active'[d] = active[d] \/ active'[d] = None
  BY DEF Stop, Disconnect, record, HubInv, Typed, TypeOK
<1>2. \A d \in Conns, r \in Sessions :
        told'[d][r] # told[d][r] => Spawned(r) /\ (r \in S \/ stopping[r])
  <2>1. CASE Stop(c)
    <3>1. s \in Sessions /\ Spawned(s) /\ (s \in S \/ stopping[s])
      BY <2>1 DEF Stop, HubInv, Attached, Typed, TypeOK
    <3>2. \A d \in Conns, r \in Sessions \ {s} : told'[d][r] = told[d][r]
      BY <2>1, <3>1 DEF Stop, HubInv, Typed, TypeOK
    <3>3. QED BY <3>1, <3>2
  <2>2. CASE Disconnect(c)
    BY <2>2 DEF Disconnect
  <2>3. QED BY <2>1, <2>2
<1>3. S \in SUBSET table
  OBVIOUS
<1>4. QED BY <1>1, <1>2, <1>3, TerminateStep

\* A session starts: its slot, its child and its only sink are new.
LEMMA CreateStep ==
    ASSUME HubInv, Typed', NEW c \in Conns, NEW s \in Sessions, NEW n \in Sessions,
           NEW r \in Runtimes, Create(c, s, n, r)
    PROVE  HubInv'
<1>1. /\ child[s] = "unused" /\ s \notin table /\ ~stopping[s] /\ pending[c] > 0
      /\ \A d \in Conns : active[d] # s /\ told[d][s] = "nothing"
  BY DEF Create, Fresh, HubInv, Unowned, SlotsLive
<1>2. /\ UNCHANGED <<stopping, conn, told>> /\ table' = table \cup {s}
      /\ child'[s] \in {"running", "missing"} /\ sinks'[s] = {c} /\ owner'[s] = c
      /\ active'[c] = s
      /\ \A t \in Sessions \ {s} : child'[t] = child[t] /\ sinks'[t] = sinks[t] /\ owner'[t] = owner[t]
      /\ \A d \in Conns \ {c} : active'[d] = active[d] /\ pending'[d] = pending[d]
  BY DEF Create, stream, HubInv, Typed, TypeOK
<1>3. ~Spawned(s) /\ Spawned(s)' /\ \A t \in Sessions \ {s} : Spawned(t)' <=> Spawned(t)
  BY <1>1, <1>2 DEF Spawned
<1>4. SlotsLive'
  BY <1>1, <1>2 DEF HubInv, SlotsLive, Typed, TypeOK
<1>5. \A t \in Sessions : Unowned(t)'
  BY <1>2, <1>3 DEF HubInv, Unowned, Spawned
<1>6. \A t \in Sessions : Owned(t)'
  BY <1>1, <1>2, <1>3 DEF HubInv, Owned
<1>7. \A t \in Sessions : Heard(t)'
  BY <1>1, <1>2, <1>3 DEF HubInv, Heard
<1>8. \A d \in Conns : Attached(d)'
  <2>1. Attached(c)'
    BY <1>2, <1>3 DEF Attached
  <2>2. \A d \in Conns \ {c} : Attached(d)'
    BY <1>1, <1>2, <1>3 DEF HubInv, Attached, Typed, TypeOK
  <2>3. QED BY <2>1, <2>2
<1>9. conn[c] # "new"
  <2>1. pending[c] # 0
    BY <1>1, SessionsAssumption DEF HubInv, Typed, TypeOK
  <2>2. QED BY <2>1 DEF HubInv, Unopened
<1>10. \A d \in Conns : Unopened(d)'
  BY <1>2, <1>3, <1>9 DEF HubInv, Unopened
<1>11. QED BY <1>4, <1>5, <1>6, <1>7, <1>8, <1>10 DEF HubInv

\* The requests of a client that start and stop nothing.
LEMMA QuietMessageStep ==
    ASSUME HubInv, Typed', NEW c \in Conns,
           UNCHANGED <<table, child, stopping, sinks, owner, told>>,
           \A d \in Conns : active'[d] = active[d] \/ active'[d] = None,
           \A d \in Conns : conn'[d] = conn[d] \/ (conn[d] = "new" /\ conn'[d] = "open"),
           \A d \in Conns : conn'[d] = "new" => pending'[d] = pending[d]
    PROVE  HubInv'
<1>1. \A r \in Sessions : Spawned(r)' <=> Spawned(r)
  BY DEF Spawned
<1>2. \A r \in Sessions : (Unowned(r) /\ Owned(r))'
  BY <1>1, SessionsAssumption DEF HubInv, Unowned, Owned
<1>3. \A r \in Sessions : Heard(r)'
  <2> SUFFICES ASSUME NEW r \in Sessions, Spawned(r) PROVE Heard(r)'
    BY <1>1 DEF Heard
  <2>1. owner[r] \in Conns /\ conn[owner[r]] # "new"
    BY DEF HubInv, Owned, Unopened
  <2>2. conn'[owner[r]] = conn[owner[r]]
    BY <2>1
  <2>3. QED BY <1>1, <2>2 DEF HubInv, Heard
<1>4. \A d \in Conns : (Attached(d) /\ Unopened(d))'
  BY <1>1 DEF HubInv, Attached, Unopened, Typed, TypeOK
<1>5. QED BY <1>2, <1>3, <1>4 DEF HubInv, SlotsLive

LEMMA MessageStep ==
    ASSUME HubInv, Typed', Messages
    PROVE  HubInv'
<1>1. PICK c \in Conns :
        \/ Connect(c) \/ Request(c) \/ Rejected(c) \/ Refused(c) \/ Stop(c) \/ Disconnect(c)
        \/ \E s, n \in Sessions, r \in Runtimes : Create(c, s, n, r) \/ CreateFails(c, s, n, r)
  BY DEF Messages
<1>2. CASE Connect(c) \/ Request(c) \/ Rejected(c) \/ Refused(c)
  <2>1. /\ UNCHANGED <<table, child, stopping, sinks, owner, told>>
        /\ \A d \in Conns : active'[d] = active[d] \/ active'[d] = None
        /\ \A d \in Conns : conn'[d] = conn[d] \/ (conn[d] = "new" /\ conn'[d] = "open")
    BY <1>2 DEF Connect, Request, Rejected, Refused, process, record, HubInv, Typed, TypeOK
  <2>2. \A d \in Conns : conn'[d] = "new" => pending'[d] = pending[d]
    <3>1. Refused(c) => conn[c] # "new"
      BY SessionsAssumption DEF Refused, HubInv, Unopened
    <3>2. QED BY <1>2, <3>1 DEF Connect, Request, Rejected, Refused, HubInv, Typed, TypeOK
  <2>3. QED BY <2>1, <2>2, QuietMessageStep
<1>3. CASE \E s, n \in Sessions, r \in Runtimes : CreateFails(c, s, n, r)
  <2>1. /\ UNCHANGED <<table, child, stopping, sinks, owner, told, conn>>
        /\ \A d \in Conns : active'[d] = active[d] \/ active'[d] = None
        /\ \A d \in Conns \ {c} : pending'[d] = pending[d]
        /\ pending[c] > 0
    BY <1>3 DEF CreateFails, process, HubInv, Typed, TypeOK
  <2>2. conn[c] # "new"
    BY <2>1 DEF HubInv, Unopened
  <2>3. \A d \in Conns : conn'[d] = "new" => pending'[d] = pending[d]
    BY <2>1, <2>2
  <2>4. QED BY <2>1, <2>3, QuietMessageStep
<1>4. CASE Stop(c) \/ Disconnect(c)
  BY <1>4, StopStep
<1>5. CASE \E s, n \in Sessions, r \in Runtimes : Create(c, s, n, r)
  BY <1>5, CreateStep
<1>6. QED BY <1>1, <1>2, <1>3, <1>4, <1>5

LEMMA RestStep ==
    ASSUME HubInv, Typed', Rest \/ Shutdown
    PROVE  HubInv'
<1>1. CASE \E s \in Sessions : Register(s)
  <2>1. PICK s \in Sessions : Register(s)
    BY <1>1
  <2>2. child[s] = "unused" /\ ~stopping[s] /\ table' = table \cup {s} /\ child'[s] = "deploy"
          /\ \A r \in Sessions \ {s} : child'[r] = child[r]
    BY <2>1 DEF Register, Fresh, HubInv, Unowned, Typed, TypeOK
  <2>3. UNCHANGED <<stopping, sinks, owner, conn, active, pending, told>>
    BY <2>1 DEF Register, record, client
  <2>4. \A r \in Sessions : Spawned(r)' <=> Spawned(r)
    BY <2>2 DEF Spawned
  <2>5. SlotsLive'
    BY <2>2, <2>3 DEF HubInv, SlotsLive, Typed, TypeOK
  <2>6. \A r \in Sessions : Unowned(r)'
    BY <2>2, <2>3 DEF HubInv, Unowned
  <2>7. \A r \in Sessions : (Owned(r) /\ Heard(r))'
    BY <2>2, <2>3, <2>4 DEF HubInv, Owned, Heard, Spawned
  <2>8. \A c \in Conns : (Attached(c) /\ Unopened(c))'
    BY <2>2, <2>3, <2>4 DEF HubInv, Attached, Unopened, Typed, TypeOK
  <2>9. QED BY <2>5, <2>6, <2>7, <2>8 DEF HubInv
<1>2. CASE \E s \in Sessions : RestStop(s)
  <2>1. PICK s \in Sessions : RestStop(s)
    BY <1>2
  <2>2. /\ {s} \in SUBSET table /\ Terminate({s}) /\ Tell(Quiet({s}), "end")
        /\ UNCHANGED <<child, sinks, owner, conn, pending>>
    BY <2>1 DEF RestStop, record
  <2>3. \A c \in Conns : active'[c] = active[c] \/ active'[c] = None
    BY <2>2 DEF Tell
  <2>4. \A c \in Conns, r \in Sessions : told'[c][r] # told[c][r] => Spawned(r) /\ r \in {s}
    <3> SUFFICES ASSUME NEW c \in Conns, NEW r \in Sessions, told'[c][r] # told[c][r]
                 PROVE  Spawned(r) /\ r \in {s}
      OBVIOUS
    <3>1. r \in Quiet({s}) /\ c \in sinks[r]
      BY <2>2 DEF Tell
    <3>2. child[r] \notin {"unused", "deploy"}
      BY <3>1 DEF HubInv, Unowned
    <3>3. QED BY <3>1, <3>2 DEF Quiet, Spawned
  <2>5. QED BY <2>2, <2>3, <2>4, TerminateStep
<1>3. CASE Shutdown
  <2>1. /\ table \in SUBSET table /\ Terminate(table)
        /\ UNCHANGED <<child, sinks, owner, conn, pending, active, told>>
    BY <1>3 DEF Shutdown, record, client
  <2>2. QED BY <2>1, TerminateStep
<1>4. CASE \E k \in Streams : StreamDone(k) \/ StreamAborted(k) \/ \E s \in Sessions : Observe(k, s)
  <2>1. PICK k \in Streams : CloseStream(k) \/ \E s \in Sessions : Observe(k, s)
    BY <1>4 DEF StreamDone, StreamAborted
  <2>2. UNCHANGED <<table, child, stopping, owner, conn, active, pending, told>>
    BY <2>1 DEF CloseStream, Observe, process, record, client
  <2>3. \A r \in Sessions :
          /\ sinks'[r] \cap Conns = sinks[r] \cap Conns
          /\ sinks[r] = {} /\ ~(r \in table /\ Spawned(r)) => sinks'[r] = {}
    <3>1. k \notin Conns
      BY SessionsAssumption
    <3>2. CASE CloseStream(k)
      BY <3>1, <3>2 DEF CloseStream, HubInv, Typed, TypeOK
    <3>3. CASE \E s \in Sessions : Observe(k, s)
      BY <3>1, <3>3 DEF Observe, HubInv, Typed, TypeOK
    <3>4. QED BY <2>1, <3>2, <3>3
  <2>4. \A r \in Sessions : Spawned(r)' <=> Spawned(r)
    BY <2>2 DEF Spawned
  <2>5. \A r \in Sessions : (Unowned(r) /\ Heard(r))'
    BY <2>2, <2>3, <2>4 DEF HubInv, Unowned, Heard, Spawned
  <2>6. \A r \in Sessions : Owned(r)'
    <3> SUFFICES ASSUME NEW r \in Sessions, Spawned(r) PROVE Owned(r)'
      BY <2>4 DEF Owned
    <3>1. owner[r] \in Conns /\ sinks'[r] \cap Conns = sinks[r] \cap Conns
      BY <2>3 DEF HubInv, Owned
    <3>2. owner[r] \in sinks[r] => owner[r] \in sinks'[r]
      BY <3>1
    <3>3. QED BY <2>2, <2>3, <2>4, <3>1, <3>2 DEF HubInv, Owned
  <2>7. \A c \in Conns : (Attached(c) /\ Unopened(c))'
    BY <2>2, <2>4 DEF HubInv, Attached, Unopened, Typed, TypeOK
  <2>8. QED BY <2>2, <2>5, <2>6, <2>7 DEF HubInv, SlotsLive
<1>5. QED BY <1>1, <1>2, <1>3, <1>4 DEF Rest

LEMMA HubKeeps ==
    ASSUME HubInv, [Next]_vars
    PROVE  HubInv'
<1>1. Typed'
  BY TypedStep DEF HubInv
<1>2. CASE UNCHANGED vars
  BY <1>1, <1>2 DEF vars, process, record, client, stream, HubInv, SlotsLive, Unowned, Owned,
                    Heard, Attached, Unopened, Spawned
<1>3. CASE Callbacks
  <2>1. PICK s \in Sessions : Exit(s) \/ Output(s) \/ SpawnError(s) \/ Close(s) \/ Escalate(s)
    BY <1>3 DEF Callbacks
  <2>2. QED BY <1>1, <2>1, ExitStep, OutputStep, EndStep, StoppedStep
<1>4. CASE Messages
  BY <1>1, <1>4, MessageStep
<1>5. CASE Rest \/ Shutdown
  BY <1>1, <1>5, RestStep
<1>6. QED BY <1>2, <1>3, <1>4, <1>5 DEF Next

\* No slot is lost, and the client of a session nobody terminates is told its end
\* once, when the session leaves the table (handleError, handleClose, finalize).
THEOREM EndsAreTold == Spec => []EndsTold
BY HubInit, HubKeeps, HubSafe, PTL DEF Spec

-----------------------------------------------------------------------------
(* The life of the API server.                                             *)

ServerPlaces == {"new", "clearing", "stopping", "probing", "probed", "waiting", "again", "binding",
                 "serving", "gone"}
Busy == {"clearing", "stopping", "probing", "probed", "waiting", "again", "binding"}
ServerOrNobody == Procs \cup {Nobody}

ServerTyped ==
    /\ pidFile \in ServerOrNobody /\ port \in ServerOrNobody
    /\ at \in [Procs -> ServerPlaces] /\ cmd \in [Procs -> {"none", "start", "stop", "restart"}]
    /\ target \in [Procs -> ServerOrNobody] /\ sent \in [Procs -> {"none", "term", "kill"}]
    /\ foreign \subseteq Procs /\ raced \in BOOLEAN
    /\ \A p \in Procs : at[p] \in Busy => cmd[p] # "none"
    /\ \A p \in Procs : at[p] = "stopping" => target[p] \in Procs

\* The servers that listen and were not killed.
Listening == {p \in Procs : at[p] = "serving" /\ sent[p] # "kill"}

\* While commands come one at a time: the file names the server that listens, a
\* command that stops one knows it, and none listens when a command goes on.
OneCommand ==
    /\ \A p, q \in Procs : at[p] \in Busy /\ at[q] \in Busy => p = q
    /\ \A p \in Listening : pidFile = p
    /\ \A p, q \in Procs : at[p] = "stopping" /\ q \in Listening => q = target[p]
    /\ \A p \in Procs : at[p] \in Busy \ {"stopping"} => Listening = {}
    /\ \A p \in Procs : at[p] = "binding" => pidFile = p

\* The inductive invariant behind ServerRecorded.
ServerInv == ServerTyped /\ (~raced => OneCommand)

ServerHolds == part = "server" => ServerInv

LEMMA NobodyRuns == Nobody \notin Procs
BY ServerConstants DEF Server!LifecycleAssumption

LEMMA ServerStarts == HostInit => ServerHolds
<1> SUFFICES ASSUME HostInit, part = "server"
             PROVE  ServerInv
  BY DEF ServerHolds
<1>1. Server!LifecycleInit
  BY DEF HostInit, PartInit
<1> QED BY <1>1 DEF Server!LifecycleInit, ServerInv, ServerTyped, OneCommand, Listening, ServerPlaces, Busy,
        ServerOrNobody

LEMMA CommandBegins ==
    ASSUME ServerInv, NEW p \in Procs, NEW c \in {"start", "stop", "restart"}, NEW force \in BOOLEAN,
           Server!Begin(p, c, force)
    PROVE  ServerInv'
<1> USE NobodyRuns
<1>1. at[p] \in {"new", "again"} /\ cmd' = [cmd EXCEPT ![p] = c] /\ UNCHANGED <<pidFile, port, foreign>>
  BY DEF Server!Begin
<1>2. raced' = (raced \/ \E q \in Procs \ {p} : Server!UnderWay(q))
  BY DEF Server!Begin
<1>3. \/ /\ \A q \in Listening : pidFile # q
         /\ \E place \in {"gone", "waiting", "probing", "clearing"} : at' = [at EXCEPT ![p] = place]
         /\ UNCHANGED <<target, sent>>
      \/ at' = [at EXCEPT ![p] = "gone"] /\ UNCHANGED <<target, sent>>
      \/ /\ pidFile # Nobody /\ at' = [at EXCEPT ![p] = "stopping"] /\ target' = [target EXCEPT ![p] = pidFile]
         /\ sent' = sent \/ (sent[pidFile] = "none" /\ sent' = [sent EXCEPT ![pidFile] = "term"])
  <2>1. CASE pidFile = Nobody
    BY <2>1 DEF Server!Begin, Server!Goto, Listening
  <2>2. CASE pidFile # Nobody /\ ~Server!Alive(pidFile)
    BY <2>2 DEF Server!Begin, Server!Goto, Listening, Server!Alive, Server!Over
  <2>3. CASE pidFile # Nobody /\ Server!Alive(pidFile)
    BY <2>3 DEF Server!Begin, Server!Goto
  <2> QED BY <2>1, <2>2, <2>3
<1>4. pidFile \in ServerOrNobody
  BY DEF ServerInv, ServerTyped
<1>5. ServerTyped'
  <2>1. (raced \/ \E q \in Procs \ {p} : Server!UnderWay(q)) \in BOOLEAN
    BY DEF ServerInv, ServerTyped
  <2>2. raced' \in BOOLEAN
    BY <1>2, <2>1
  <2> QED BY <1>1, <1>3, <2>2 DEF ServerInv, ServerTyped, ServerPlaces, Busy, ServerOrNobody
<1>6. ASSUME ~raced' PROVE OneCommand'
  <2>1. ~raced /\ \A q \in Procs \ {p} : at[q] \notin Busy
    BY <1>2, <1>6 DEF Server!UnderWay, Server!Over, Busy
  <2>2. OneCommand /\ at \in [Procs -> ServerPlaces] /\ sent \in [Procs -> {"none", "term", "kill"}]
    BY <2>1 DEF ServerInv, ServerTyped
  <2>3. \A q \in Procs \ {p} : at'[q] = at[q]
    BY <1>3, <2>2
  <2>4. at'[p] # "serving" /\ at'[p] # "binding"
    BY <1>3, <2>2
  <2>5. \A q \in Procs : sent'[q] = "kill" <=> sent[q] = "kill"
    BY <1>3, <2>2
  <2>6. Listening' = Listening
    BY <1>1, <2>3, <2>4, <2>5 DEF Listening
  <2>7. \A q \in Listening : pidFile = q
    BY <2>2 DEF OneCommand
  <2>8. \A q \in Procs : at'[q] \in Busy => q = p
    BY <2>1, <2>3
  <2>9. at'[p] = "stopping" => target'[p] = pidFile
    BY <1>3, <2>2 DEF ServerInv, ServerTyped
  <2>10. at'[p] \in Busy \ {"stopping"} => Listening = {}
    BY <1>3, <2>2, <2>7 DEF Busy
  <2>11. \A q \in Procs : at'[q] = "stopping" \/ at'[q] = "binding" => at'[q] \in Busy
    BY DEF Busy
  <2> QED BY <1>1, <2>4, <2>6, <2>7, <2>8, <2>9, <2>10, <2>11 DEF OneCommand
<1> QED BY <1>5, <1>6 DEF ServerInv

\* The steps of a command that is under way.
LEMMA CommandGoes ==
    ASSUME ServerInv, NEW p \in Procs,
           \/ Server!Clear(p) \/ Server!AwaitEnd(p) \/ Server!Probe(p) \/ Server!Probed(p)
           \/ Server!AwaitPort(p) \/ Server!Listen(p)
    PROVE  ServerInv'
<1> USE NobodyRuns
<1>1. /\ at[p] \in Busy /\ UNCHANGED <<cmd, target, foreign, raced>>
      /\ \E place \in {"gone", "waiting", "binding", "clearing", "probed", "again", "serving"} :
            at' = [at EXCEPT ![p] = place]
  <2>1. at[p] = "clearing" => cmd[p] \in {"start", "stop", "restart"}
    BY DEF ServerInv, ServerTyped, Busy
  <2> QED BY <2>1 DEF Server!Clear, Server!Cleared, Server!AwaitEnd, Server!Probe, Server!Probed, Server!AwaitPort,
             Server!Listen, Server!Goto, Busy
<1>2. pidFile' \in ServerOrNobody /\ port' \in ServerOrNobody
  BY DEF ServerInv, ServerTyped, ServerOrNobody, Server!Clear, Server!Cleared, Server!AwaitEnd, Server!Probe,
     Server!Probed, Server!AwaitPort, Server!Listen, Busy
<1>3. \/ sent' = sent
      \/ at[p] = "stopping" /\ sent' = [sent EXCEPT ![target[p]] = "kill"]
  BY DEF Server!Clear, Server!Cleared, Server!AwaitEnd, Server!Probe, Server!Probed, Server!AwaitPort,
     Server!Listen
<1>4. ServerTyped'
  BY <1>1, <1>2, <1>3 DEF ServerInv, ServerTyped, ServerPlaces, Busy
<1>5. ASSUME ~raced' PROVE OneCommand'
  <2>1. OneCommand /\ at \in [Procs -> ServerPlaces] /\ sent \in [Procs -> {"none", "term", "kill"}]
    BY <1>1, <1>5 DEF ServerInv, ServerTyped
  <2>2. \A q \in Procs \ {p} : at[q] \notin Busy /\ at'[q] = at[q]
    BY <1>1, <2>1 DEF OneCommand
  <2>3. Listening \subseteq {target[p]} /\ (at[p] # "stopping" => Listening = {})
    <3>1. Listening \subseteq Procs
      BY DEF Listening
    <3> QED BY <1>1, <2>1, <3>1 DEF OneCommand
  <2>4. Listening' \subseteq {p}
    <3>1. CASE at[p] # "stopping"
      BY <1>1, <1>3, <2>1, <2>2, <2>3, <3>1 DEF Listening
    <3>2. CASE at[p] = "stopping"
      <4>1. Server!AwaitEnd(p)
        BY <3>2 DEF Server!Clear, Server!Probe, Server!Probed, Server!AwaitPort, Server!Listen
      <4>2. target[p] \in Procs
        BY <3>2 DEF ServerInv, ServerTyped
      <4>3. target[p] \in Listening => sent'[target[p]] = "kill"
        BY <2>1, <4>1, <4>2 DEF Server!AwaitEnd, Server!Alive, Server!Over, Listening
      <4>4. \A q \in Procs \ {p} : q \in Listening' => q \in Listening /\ sent'[q] # "kill"
        BY <1>3, <2>1, <2>2 DEF Listening
      <4> QED BY <2>3, <4>3, <4>4 DEF Listening
    <3> QED BY <3>1, <3>2
  <2>5. p \in Listening' => Server!Listen(p) /\ pidFile' = pidFile /\ at[p] = "binding"
    <3>1. p \in Listening' => at'[p] = "serving"
      BY DEF Listening
    <3> QED BY <2>1, <3>1 DEF Server!Clear, Server!Cleared, Server!AwaitEnd, Server!Probe, Server!Probed,
           Server!AwaitPort, Server!Listen, Server!Goto, ServerInv, ServerTyped, Busy
  <2>6. p \in Listening' => pidFile' = p
    BY <2>1, <2>5 DEF OneCommand
  <2>7. at'[p] = "binding" => pidFile' = p
    BY <2>1 DEF Server!Clear, Server!Cleared, Server!AwaitEnd, Server!Probe, Server!Probed, Server!AwaitPort,
       Server!Listen, Server!Goto, ServerInv, ServerTyped, Busy
  <2>8. at'[p] # "stopping"
    BY <1>1, <2>1
  <2>9. at'[p] \in Busy => p \notin Listening'
    BY DEF Listening, Busy
  <2>10. \A q \in Procs : at'[q] \in Busy => q = p
    BY <2>2
  <2>11. \A q \in Procs : at'[q] \in {"stopping", "binding"} => at'[q] \in Busy
    BY DEF Busy
  <2> QED BY <2>4, <2>6, <2>7, <2>8, <2>9, <2>10, <2>11 DEF OneCommand
<1> QED BY <1>4, <1>5 DEF ServerInv

\* A process ends, an identifier changes hands, or the file of a dead process is removed.
LEMMA ServerEnds ==
    ASSUME ServerInv,
           \/ Server!Status
           \/ \E p \in Procs : \/ Server!Terminated(p) \/ Server!Killed(p) \/ Server!Crash(p)
                               \/ Server!Reuse(p) \/ Server!ForeignEnds(p)
    PROVE  ServerInv'
<1> USE NobodyRuns
<1>1. CASE Server!Status
  <2>1. /\ pidFile' = Nobody /\ UNCHANGED <<port, at, cmd, target, sent, foreign, raced>>
        /\ pidFile # Nobody /\ ~Server!Alive(pidFile)
    BY <1>1 DEF Server!Status
  <2>2. ServerTyped'
    BY <2>1 DEF ServerInv, ServerTyped, ServerOrNobody
  <2>3. ASSUME ~raced' PROVE OneCommand'
    <3>1. OneCommand /\ Listening' = Listening
      BY <2>1, <2>3 DEF ServerInv, Listening
    <3>2. \A q \in Procs : q \in Listening \/ at[q] = "binding" => Server!Alive(q) /\ pidFile = q
      BY <3>1 DEF OneCommand, Listening, Server!Alive, Server!Over
    <3> QED BY <2>1, <3>1, <3>2 DEF OneCommand, Listening
  <2> QED BY <2>2, <2>3 DEF ServerInv
<1>2. ASSUME NEW p \in Procs, Server!Terminated(p) \/ Server!Killed(p) \/ Server!Crash(p)
      PROVE  ServerInv'
  <2>1. /\ at' = [at EXCEPT ![p] = "gone"] /\ UNCHANGED <<cmd, target, sent, foreign, raced>>
        /\ port' \in ServerOrNobody /\ pidFile' \in {pidFile, Nobody}
    BY <1>2 DEF Server!Terminated, Server!Killed, Server!Crash, Server!Goto, Server!Freed, ServerInv, ServerTyped,
       ServerOrNobody
  <2>2. pidFile' = pidFile \/ (at[p] = "binding" \/ p \in Listening)
    BY <1>2 DEF Server!Terminated, Server!Killed, Server!Crash, Listening
  <2>3. ServerTyped'
    BY <2>1 DEF ServerInv, ServerTyped, ServerPlaces, Busy, ServerOrNobody
  <2>4. ASSUME ~raced' PROVE OneCommand'
    <3>1. OneCommand /\ at \in [Procs -> ServerPlaces]
      BY <2>1, <2>4 DEF ServerInv, ServerTyped
    <3>2. /\ Listening' \subseteq Listening \ {p}
          /\ \A q \in Procs : at'[q] = IF q = p THEN "gone" ELSE at[q]
      BY <2>1, <3>1 DEF Listening
    <3>3. CASE pidFile' = pidFile
      BY <2>1, <3>1, <3>2, <3>3 DEF OneCommand, Busy
    <3>4. CASE at[p] = "binding" \/ p \in Listening
      <4>1. Listening' = {}
        <5>1. \A q \in Listening : q = p
          BY <3>1, <3>4 DEF OneCommand, Busy
        <5> QED BY <3>2, <5>1
      <4>2. \A q \in Procs : at'[q] # "binding"
        <5>1. \A q \in Procs : at[q] = "binding" => q = p
          BY <3>1, <3>4 DEF OneCommand, Busy
        <5> QED BY <3>2, <5>1
      <4> QED BY <2>1, <3>1, <3>2, <4>1, <4>2 DEF OneCommand, Busy
    <3> QED BY <2>2, <3>3, <3>4
  <2> QED BY <2>3, <2>4 DEF ServerInv
<1>3. ASSUME NEW p \in Procs, Server!Reuse(p) \/ Server!ForeignEnds(p)
      PROVE  ServerInv'
  <2>1. /\ UNCHANGED <<pidFile, port, at, cmd, target, raced>> /\ foreign' \subseteq Procs
        /\ sent' = sent \/ (at[p] = "gone" /\ sent' = [sent EXCEPT ![p] = "none"])
    BY <1>3 DEF Server!Reuse, Server!ForeignEnds, ServerInv, ServerTyped
  <2>2. ServerTyped'
    BY <2>1 DEF ServerInv, ServerTyped
  <2>3. Listening' = Listening
    BY <2>1 DEF Listening, ServerInv, ServerTyped
  <2> QED BY <2>1, <2>2, <2>3 DEF ServerInv, OneCommand
<1> QED BY <1>1, <1>2, <1>3

LEMMA ServerStepsKeep == ServerHolds /\ [HostNext]_hostVars => ServerHolds'
<1> SUFFICES ASSUME ServerHolds, [HostNext]_hostVars, part' = "server"
             PROVE  ServerInv'
  BY DEF ServerHolds
<1>1. CASE part = "server" /\ Server!LifecycleNext
  BY <1>1, CommandBegins, CommandGoes, ServerEnds DEF ServerHolds, Server!LifecycleNext
<1>2. CASE UNCHANGED <<part, lifecycleVars>>
  BY <1>2 DEF ServerHolds, lifecycleVars, ServerInv, ServerTyped, OneCommand, Listening
<1> QED BY <1>1, <1>2 DEF HostNext, hostVars, DeployStep, OpenCodeStep, EvidenceStep, InboxStep, TrashStep,
        ServerStep, HubStep

LEMMA ServerMeans == ServerInv => Server!LifecycleTypeOK /\ Server!ServerRecorded
BY DEF ServerInv, ServerTyped, OneCommand, Listening, ServerPlaces, ServerOrNobody, Server!LifecycleTypeOK,
   Server!ServerRecorded

-----------------------------------------------------------------------------
(* The operator's documents and the attachments.                           *)

Verdicts == {"none", "approved", "rejected", "deferred", "acknowledged", "saved-for-later", "pending-reject"}
Documents == [doc : Docs, feedback : Verdicts, sections : SUBSET (1..MaxNotes)]
Requests ==
    {Inbox!Idle} \cup [at : {"document"}, folder : Inbox!Folders, name : Files]
                 \cup [at : {"upload"}, id : Nat, name : Reqs]

InboxTyped ==
    /\ folders \in [Inbox!Folders -> [Files -> Documents \cup {Inbox!NoFile, Inbox!Torn}]]
    /\ request \in [Reqs -> Requests]
    /\ remarks \in 0..MaxNotes /\ confirmed \subseteq 1..MaxNotes
    /\ drafts \subseteq Docs /\ IsFiniteSet(drafts)
    /\ ticket \in 0..(MaxMoves + 1) /\ kills \in 0..MaxKills

\* The documents that are in some folder, and the texts that are in some document.
Present == {d \in Docs : \E f \in Inbox!Folders, n \in Files : folders[f][n].doc = d}
Texts ==
    {m \in Nat : \E f \in Inbox!Folders, n \in Files :
                   folders[f][n] \in Documents /\ m \in folders[f][n].sections}
Lost == drafts \ Present

\* A document is in one place.
OnePlace ==
    \A f, g \in Inbox!Folders, n, m \in Files :
        folders[f][n].doc \in Docs /\ folders[f][n].doc = folders[g][m].doc => f = g /\ n = m

\* The inductive invariant behind InboxSafe.
InboxInv ==
    /\ InboxTyped /\ OnePlace /\ Present \subseteq drafts
    /\ Cardinality(Lost) <= kills
    /\ kills = 0 => confirmed \subseteq Texts
    /\ Inbox!RejectionsSay /\ listed \subseteq uploads

InboxHolds == part = "inbox" => InboxInv

LEMMA InboxConstantsHold ==
    /\ MaxNotes \in Nat /\ MaxMoves \in Nat /\ MaxKills \in Nat
    /\ "none" \notin Docs /\ "torn" \notin Docs
BY InboxConstants DEF Inbox!InboxAssumption

\* What is in a folder: a document, a torn file or nothing.
LEMMA FileShape ==
    ASSUME InboxInv, NEW f \in Inbox!Folders, NEW n \in Files
    PROVE  /\ folders[f][n] \in Documents <=> folders[f][n].doc \in Docs
           /\ folders[f][n] \in Documents <=> Inbox!Readable(folders[f][n])
           /\ folders[f][n] \notin Documents => folders[f][n] \in {Inbox!NoFile, Inbox!Torn}
<1>1. folders[f][n] \in Documents \cup {Inbox!NoFile, Inbox!Torn}
  BY DEF InboxInv, InboxTyped
<1>2. Inbox!NoFile.doc = "none" /\ Inbox!Torn.doc = "torn"
  BY DEF Inbox!NoFile, Inbox!Torn
<1>3. \A c \in Documents : c.doc \in Docs
  BY DEF Documents
<1> QED BY <1>1, <1>2, <1>3, InboxConstantsHold DEF Inbox!Readable

LEMMA InboxStarts == HostInit => InboxHolds
<1> SUFFICES ASSUME HostInit, part = "inbox"
             PROVE  InboxInv
  BY DEF InboxHolds
<1>1. Inbox!InboxInit
  BY DEF HostInit, PartInit
<1>2. \A f \in Inbox!Folders, n \in Files : folders[f][n] = Inbox!NoFile /\ folders[f][n].doc = "none"
  BY <1>1 DEF Inbox!InboxInit, Inbox!NoFile
<1>3. InboxTyped
  BY <1>1, FS_EmptySet, InboxConstantsHold DEF Inbox!InboxInit, InboxTyped, Requests
<1>4. Present = {} /\ Lost = {}
  BY <1>1, <1>2, InboxConstantsHold DEF Present, Lost, Inbox!InboxInit
<1>5. Inbox!RejectionsSay
  BY <1>2 DEF Inbox!RejectionsSay, Inbox!Readable, Inbox!Folders
<1>6. OnePlace
  BY <1>2, InboxConstantsHold DEF OnePlace
<1>7. Cardinality(Lost) = 0
  BY <1>4, FS_EmptySet
<1> QED BY <1>1, <1>3, <1>4, <1>5, <1>6, <1>7 DEF InboxInv, Inbox!InboxInit

\* A document is written where it is, or moved to where no file of its name is.
LEMMA DocumentKept ==
    ASSUME InboxInv, NEW f \in Inbox!Folders, NEW g \in Inbox!Folders, NEW n \in Files, NEW c \in Documents,
           folders[f][n] \in Documents, c.doc = folders[f][n].doc,
           folders[f][n].sections \subseteq c.sections,
           g = f \/ folders[g][n] = Inbox!NoFile,
           folders' \in [Inbox!Folders -> [Files -> Documents \cup {Inbox!NoFile, Inbox!Torn}]],
           \A h \in Inbox!Folders, k \in Files :
              folders'[h][k] = IF k = n /\ h = g THEN c
                               ELSE IF k = n /\ h = f THEN Inbox!NoFile ELSE folders[h][k]
    PROVE  OnePlace' /\ Present' = Present /\ Texts \subseteq Texts' /\ c.sections \subseteq Texts'
<1>1. Inbox!NoFile.doc \notin Docs /\ Inbox!NoFile \notin Documents
  BY InboxConstantsHold DEF Inbox!NoFile, Documents
<1>2. c.doc \in Docs /\ c.sections \subseteq Nat
  BY DEF Documents
<1>3. folders'[g][n] = c
  OBVIOUS
<1>4. OnePlace'
  <2> SUFFICES ASSUME NEW h \in Inbox!Folders, NEW i \in Inbox!Folders, NEW k \in Files, NEW l \in Files,
                      folders'[h][k].doc \in Docs, folders'[h][k].doc = folders'[i][l].doc
               PROVE  h = i /\ k = l
    BY DEF OnePlace
  <2>1. OnePlace
    BY DEF InboxInv
  <2>2. CASE k = n /\ h = g /\ ~(l = n /\ i = g)
    <3>1. ~(l = n /\ i = f) /\ folders[i][l].doc = folders[f][n].doc
      BY <1>1, <1>2, <2>2
    <3> QED BY <1>2, <2>1, <3>1 DEF OnePlace
  <2>3. CASE ~(k = n /\ h = g) /\ l = n /\ i = g
    <3>1. ~(k = n /\ h = f) /\ folders[h][k].doc = folders[f][n].doc
      BY <1>1, <1>2, <2>3
    <3> QED BY <1>2, <2>1, <3>1 DEF OnePlace
  <2>4. CASE ~(k = n /\ h = g) /\ ~(l = n /\ i = g)
    <3>1. folders[h][k].doc \in Docs /\ folders[h][k].doc = folders[i][l].doc
      BY <1>1, <2>4
    <3> QED BY <2>1, <3>1 DEF OnePlace
  <2> QED BY <2>2, <2>3, <2>4
<1>5. ASSUME NEW d \in Docs PROVE d \in Present' <=> d \in Present
  <2>1. ASSUME NEW h \in Inbox!Folders, NEW k \in Files, folders'[h][k].doc = d
        PROVE  d \in Present
    <3>1. CASE k = n /\ h = g
      BY <2>1, <3>1 DEF Present
    <3>2. CASE ~(k = n /\ h = g)
      BY <1>1, <2>1, <3>2 DEF Present
    <3> QED BY <3>1, <3>2
  <2>2. ASSUME NEW h \in Inbox!Folders, NEW k \in Files, folders[h][k].doc = d
        PROVE  d \in Present'
    <3>1. CASE k = n /\ h = f
      BY <1>3, <2>2, <3>1 DEF Present
    <3>2. CASE ~(k = n /\ h = f)
      <4>1. ~(k = n /\ h = g)
        BY <1>1, <2>2, <3>2
      <4>2. folders'[h][k].doc = d
        BY <2>2, <3>2, <4>1
      <4> QED BY <4>2 DEF Present
    <3> QED BY <3>1, <3>2
  <2> QED BY <2>1, <2>2 DEF Present
<1>6. Present' = Present
  BY <1>5 DEF Present
<1>7. c.sections \subseteq Texts'
  BY <1>2, <1>3 DEF Texts
<1>8. ASSUME NEW m \in Texts PROVE m \in Texts'
  <2>1. PICK h \in Inbox!Folders, k \in Files : folders[h][k] \in Documents /\ m \in folders[h][k].sections
    BY DEF Texts
  <2>2. CASE k = n /\ h = f
    BY <1>7, <2>1, <2>2
  <2>3. CASE ~(k = n /\ h = f)
    <3>1. ~(k = n /\ h = g)
      BY <1>1, <2>1, <2>3
    <3>2. folders'[h][k] = folders[h][k]
      BY <2>3, <3>1
    <3> QED BY <2>1, <3>2 DEF Texts
  <2> QED BY <2>2, <2>3
<1> QED BY <1>4, <1>6, <1>7, <1>8

\* What an annotation keeps, and what it adds.
LEMMA Annotating ==
    ASSUME NEW c \in Documents, NEW note, NEW noted,
           NEW action \in {"approve", "reject", "pending", "defer", "acknowledge", "save", "append"},
           Inbox!Sections(action, noted) => note \in 1..MaxNotes
    PROVE  /\ Inbox!Annotated(c, action, note, noted) \in Documents
           /\ Inbox!Annotated(c, action, note, noted).doc = c.doc
           /\ c.sections \subseteq Inbox!Annotated(c, action, note, noted).sections
           /\ Inbox!Sections(action, noted) => note \in Inbox!Annotated(c, action, note, noted).sections
           /\ action = "append" => Inbox!Annotated(c, action, note, noted).feedback = c.feedback
           /\ action = "reject" => Inbox!Annotated(c, action, note, noted).feedback = "rejected"
<1> DEFINE verdict == Inbox!Verdict[action]
           marked == IF action # "append" /\ Inbox!Marks(action, noted)
                     THEN [c EXCEPT !.feedback = verdict] ELSE c
<1>1. action # "append" => verdict \in Verdicts
  BY DEF Inbox!Verdict, Verdicts
<1>2. action = "reject" => verdict = "rejected" /\ Inbox!Marks(action, noted)
  BY DEF Inbox!Verdict, Inbox!Marks
<1>3. Inbox!Annotated(c, action, note, noted)
        = IF Inbox!Sections(action, noted) THEN [marked EXCEPT !.sections = marked.sections \cup {note}] ELSE marked
  BY DEF Inbox!Annotated, Inbox!WithSection, Inbox!WithFeedback
<1> HIDE DEF verdict
<1>4. marked \in Documents /\ marked.doc = c.doc /\ marked.sections = c.sections
  BY <1>1 DEF Documents
<1>5. /\ action = "append" => marked.feedback = c.feedback
      /\ action = "reject" => marked.feedback = "rejected"
  BY <1>2 DEF Documents
<1> HIDE DEF marked
<1>6. CASE ~Inbox!Sections(action, noted)
  BY <1>3, <1>4, <1>5, <1>6
<1>7. CASE Inbox!Sections(action, noted)
  <2> DEFINE texts == marked.sections \cup {note}
  <2>1. texts \in SUBSET (1..MaxNotes)
    BY <1>4, <1>7 DEF Documents
  <2>2. note \in texts /\ c.sections \subseteq texts
    BY <1>4
  <2> HIDE DEF texts
  <2>3. /\ [marked EXCEPT !.sections = texts] \in Documents
        /\ [marked EXCEPT !.sections = texts].doc = marked.doc
        /\ [marked EXCEPT !.sections = texts].sections = texts
        /\ [marked EXCEPT !.sections = texts].feedback = marked.feedback
    BY <1>4, <2>1 DEF Documents
  <2> QED BY <1>3, <1>4, <1>5, <1>7, <2>2, <2>3 DEF texts
<1> QED BY <1>6, <1>7

\* A file that is put at a place.
LEMMA FilePut ==
    ASSUME InboxInv, NEW f \in Inbox!Folders, NEW n \in Files,
           NEW c \in Documents \cup {Inbox!NoFile, Inbox!Torn}, folders' = Inbox!Put(f, n, c)
    PROVE  /\ folders' \in [Inbox!Folders -> [Files -> Documents \cup {Inbox!NoFile, Inbox!Torn}]]
           /\ \A h \in Inbox!Folders, k \in Files :
                 folders'[h][k] = IF k = n /\ h = f THEN c ELSE folders[h][k]
BY DEF Inbox!Put, InboxInv, InboxTyped

\* An agent writes a document.
LEMMA DocumentDropped ==
    ASSUME InboxInv, NEW d \in Docs, NEW n \in Files, Inbox!Drop(d, n)
    PROVE  InboxInv'
<1> DEFINE c == [doc |-> d, feedback |-> "none", sections |-> {}]
<1>1. /\ d \notin drafts /\ folders["inbox"][n] = Inbox!NoFile /\ drafts' = drafts \cup {d}
      /\ folders' = Inbox!Put("inbox", n, c)
      /\ UNCHANGED <<request, remarks, confirmed, ticket, uploads, listed, kills>>
  BY DEF Inbox!Drop, Inbox!Vacant, Inbox!ticketVars
<1>2. c \in Documents /\ c.doc = d
  BY DEF Documents, Verdicts
<1>3. "inbox" \in Inbox!Folders /\ "rejected" \in Inbox!Folders
  BY DEF Inbox!Folders
<1> HIDE DEF c
<1>4. /\ folders' \in [Inbox!Folders -> [Files -> Documents \cup {Inbox!NoFile, Inbox!Torn}]]
      /\ \A h \in Inbox!Folders, k \in Files :
            folders'[h][k] = IF k = n /\ h = "inbox" THEN c ELSE folders[h][k]
  BY <1>1, <1>2, <1>3, FilePut
<1>5. \A h \in Inbox!Folders, k \in Files : folders[h][k].doc # d
  BY <1>1 DEF InboxInv, Present
<1>6. Inbox!NoFile.doc \notin Docs
  BY InboxConstantsHold DEF Inbox!NoFile
<1>7. InboxTyped'
  <2>1. IsFiniteSet(drafts')
    BY <1>1, FS_AddElement DEF InboxInv, InboxTyped
  <2> QED BY <1>1, <1>4, <2>1 DEF InboxInv, InboxTyped
<1>8. OnePlace'
  BY <1>2, <1>4, <1>5 DEF InboxInv, OnePlace
<1>9. Present' = Present \cup {d}
  <2>1. d \in Present'
    BY <1>2, <1>3, <1>4 DEF Present
  <2>2. ASSUME NEW e \in Docs, e # d PROVE e \in Present' <=> e \in Present
    <3>1. \A h \in Inbox!Folders, k \in Files : folders'[h][k].doc = e <=> folders[h][k].doc = e
      BY <1>1, <1>2, <1>4, <1>6, <2>2
    <3> QED BY <3>1 DEF Present
  <2> QED BY <2>1, <2>2 DEF Present
<1>10. Lost' = Lost
  BY <1>1, <1>9 DEF Lost
<1>11. Texts' = Texts
  <2>1. \A h \in Inbox!Folders, k \in Files, m \in Nat :
           folders'[h][k] \in Documents /\ m \in folders'[h][k].sections
             <=> folders[h][k] \in Documents /\ m \in folders[h][k].sections
    <3>1. c.sections = {} /\ folders["inbox"][n] \notin Documents
      BY <1>1, <1>6 DEF c, Documents
    <3> QED BY <1>4, <3>1
  <2> QED BY <2>1 DEF Texts
<1>12. Inbox!RejectionsSay'
  <2>1. \A k \in Files : folders'["rejected"][k] = folders["rejected"][k]
    BY <1>3, <1>4
  <2> QED BY <2>1 DEF InboxInv, Inbox!RejectionsSay, Inbox!Readable
<1> QED BY <1>1, <1>7, <1>8, <1>9, <1>10, <1>11, <1>12 DEF InboxInv

\* A request that begins or ends without touching a document or the ticket.
LEMMA RequestGoes ==
    ASSUME InboxInv, request' \in [Reqs -> Requests],
           UNCHANGED <<folders, remarks, confirmed, drafts, ticket, uploads, listed, kills>>
    PROVE  InboxInv'
<1>1. InboxTyped'
  BY DEF InboxInv, InboxTyped
<1>2. Present' = Present /\ Texts' = Texts /\ Lost' = Lost
  BY DEF Present, Texts, Lost
<1>3. OnePlace' /\ Inbox!RejectionsSay'
  BY DEF InboxInv, OnePlace, Inbox!RejectionsSay, Inbox!Readable
<1> QED BY <1>1, <1>2, <1>3 DEF InboxInv

LEMMA DocumentAsked ==
    ASSUME InboxInv, NEW r \in Reqs, NEW f \in Inbox!Folders, NEW n \in Files, Inbox!Ask(r, f, n)
    PROVE  InboxInv'
<1>1. request \in [Reqs -> Requests]
  BY DEF InboxInv, InboxTyped
<1>2. [at |-> "document", folder |-> f, name |-> n] \in Requests
  BY DEF Requests
<1> QED BY <1>1, <1>2, RequestGoes DEF Inbox!Ask, Inbox!documentVars, Inbox!ticketVars

LEMMA RequestRejected ==
    ASSUME InboxInv, NEW r \in Reqs, Inbox!Reject(r)
    PROVE  InboxInv'
<1>1. request \in [Reqs -> Requests] /\ Inbox!Idle \in Requests
  BY DEF InboxInv, InboxTyped, Requests
<1> QED BY <1>1, RequestGoes DEF Inbox!Reject, Inbox!Answered, Inbox!documentVars, Inbox!ticketVars

\* What a handler works on.
LEMMA RequestShape ==
    ASSUME InboxInv, NEW r \in Reqs, request[r].at = "document"
    PROVE  request[r].folder \in Inbox!Folders /\ request[r].name \in Files
<1>1. request[r] \in Requests
  BY DEF InboxInv, InboxTyped
<1>2. Inbox!Idle.at = "idle"
  BY DEF Inbox!Idle
<1> QED BY <1>1, <1>2 DEF Requests

\* The content that a handler writes back.
LEMMA HandlerRewrites ==
    ASSUME InboxInv, NEW r \in Reqs, request[r].at = "document", NEW noted \in BOOLEAN,
           NEW action \in Inbox!InboxActions, Inbox!Readable(Inbox!Content(r)),
           Inbox!Allowed(request[r].folder, action),
           Inbox!Sections(action, noted) => remarks < MaxNotes
    PROVE  /\ Inbox!Content(r) = folders[request[r].folder][request[r].name]
           /\ Inbox!Content(r) \in Documents /\ Inbox!Rewritten(r, action, noted) \in Documents
           /\ Inbox!Rewritten(r, action, noted).doc = Inbox!Content(r).doc
           /\ Inbox!Content(r).sections \subseteq Inbox!Rewritten(r, action, noted).sections
           /\ Inbox!Sections(action, noted) => remarks + 1 \in Inbox!Rewritten(r, action, noted).sections
           /\ request[r].folder # "inbox"
                => Inbox!Rewritten(r, action, noted).feedback = Inbox!Content(r).feedback
           /\ request[r].folder = "inbox" /\ action = "reject"
                => Inbox!Rewritten(r, action, noted).feedback = "rejected"
           /\ action = "reject" => request[r].folder = "inbox"
<1>1. Inbox!Content(r) = folders[request[r].folder][request[r].name]
  BY DEF Inbox!Content
<1>2. Inbox!Content(r) \in Documents
  BY <1>1, RequestShape, FileShape
<1>3. remarks + 1 \in Nat /\ (Inbox!Sections(action, noted) => remarks + 1 \in 1..MaxNotes)
  BY InboxConstantsHold DEF InboxInv, InboxTyped
<1>4. CASE request[r].folder = "inbox" \/ action = "append"
  <2>1. action \in {"approve", "reject", "pending", "defer", "acknowledge", "save", "append"}
    BY <1>4 DEF Inbox!Allowed
  <2>2. Inbox!Rewritten(r, action, noted) = Inbox!Annotated(Inbox!Content(r), action, remarks + 1, noted)
    BY <1>4 DEF Inbox!Rewritten
  <2>3. request[r].folder # "inbox" => action = "append"
    BY <1>4
  <2>4. action = "reject" => request[r].folder = "inbox"
    BY <1>4
  <2>5. remarks + 1 \in Nat /\ (Inbox!Sections(action, noted) => remarks + 1 \in 1..MaxNotes)
    BY <1>3
  <2> DEFINE c == Inbox!Content(r)
             m == remarks + 1
             new == Inbox!Annotated(c, action, m, noted)
  <2>6. c \in Documents /\ m \in Nat /\ (Inbox!Sections(action, noted) => m \in 1..MaxNotes)
    BY <1>2, <2>5
  <2>7. Inbox!Rewritten(r, action, noted) = new
    BY <2>2
  <2> HIDE DEF c, m
  <2>8. /\ new \in Documents /\ new.doc = c.doc /\ c.sections \subseteq new.sections
        /\ Inbox!Sections(action, noted) => m \in new.sections
        /\ action = "append" => new.feedback = c.feedback
        /\ action = "reject" => new.feedback = "rejected"
    BY <2>1, <2>6, Annotating
  <2> HIDE DEF new
  <2> USE DEF c, m
  <2> QED BY <1>1, <1>2, <2>3, <2>4, <2>7, <2>8
<1>5. CASE ~(request[r].folder = "inbox" \/ action = "append")
  <2>1. Inbox!Rewritten(r, action, noted) = Inbox!Content(r)
    BY <1>5 DEF Inbox!Rewritten
  <2>2. action \in {"requeue", "archive", "save"}
    BY <1>5 DEF Inbox!Allowed
  <2>3. ~Inbox!Sections(action, noted)
    BY <2>2 DEF Inbox!Sections
  <2> QED BY <1>1, <1>2, <1>5, <2>1, <2>2, <2>3
<1> QED BY <1>4, <1>5

LEMMA HandlerActs ==
    ASSUME InboxInv, NEW r \in Reqs, NEW noted \in BOOLEAN, NEW action \in Inbox!InboxActions,
           Inbox!Act(r, action, noted)
    PROVE  InboxInv'
<1> DEFINE f == request[r].folder
           n == request[r].name
           old == Inbox!Content(r)
           new == Inbox!Rewritten(r, action, noted)
           to == IF action \in {"append", "pending"} THEN "none" ELSE Inbox!Destination[action]
           g == IF to # "none" /\ folders[to][n] = Inbox!NoFile THEN to ELSE f
           adds == (f = "inbox" \/ action = "append") /\ (noted \/ action \in {"append", "reject"})
<1>1. /\ request[r].at = "document" /\ Inbox!Readable(old) /\ Inbox!Allowed(f, action)
      /\ adds => remarks < MaxNotes
      /\ remarks' = IF adds THEN remarks + 1 ELSE remarks
      /\ folders' = Inbox!Left(f, n, new, to)
      /\ confirmed' = IF Inbox!Sections(action, noted) /\ (to = "none" \/ folders[to][n] = Inbox!NoFile)
                      THEN confirmed \cup {remarks + 1} ELSE confirmed
      /\ request' = [request EXCEPT ![r] = Inbox!Idle]
      /\ UNCHANGED <<drafts, ticket, uploads, listed, kills>>
  BY DEF Inbox!Act, Inbox!Answered, Inbox!Vacant, Inbox!ticketVars
<1>2. f \in Inbox!Folders /\ n \in Files
  BY <1>1, RequestShape
<1>3. Inbox!Sections(action, noted) => adds
  BY <1>1 DEF Inbox!Sections, Inbox!Allowed
<1>4. to \in Inbox!Folders \/ to = "none"
  BY DEF Inbox!InboxActions, Inbox!Destination, Inbox!Folders
<1>5. to = "rejected" <=> action = "reject"
  BY DEF Inbox!InboxActions, Inbox!Destination
<1>6. "none" \notin Inbox!Folders
  BY DEF Inbox!Folders
<1>7. /\ old = folders[f][n] /\ old \in Documents /\ new \in Documents /\ new.doc = old.doc
      /\ old.sections \subseteq new.sections
      /\ Inbox!Sections(action, noted) => remarks + 1 \in new.sections
      /\ f # "inbox" => new.feedback = old.feedback
      /\ action = "reject" => new.feedback = "rejected" /\ f = "inbox"
  BY <1>1, <1>3, HandlerRewrites
<1>8. folders' = IF to # "none" /\ folders[to][n] = Inbox!NoFile
                 THEN [folders EXCEPT ![f][n] = Inbox!NoFile, ![to][n] = new]
                 ELSE [folders EXCEPT ![f][n] = new]
  BY <1>1 DEF Inbox!Left, Inbox!Vacant, Inbox!Put
<1>9. remarks' \in 0..MaxNotes /\ remarks \in 0..MaxNotes
  BY <1>1, InboxConstantsHold DEF InboxInv, InboxTyped
<1>10. confirmed' \subseteq 1..MaxNotes
  <2>1. confirmed \subseteq 1..MaxNotes
    BY DEF InboxInv, InboxTyped
  <2>2. adds => remarks + 1 \in 1..MaxNotes
    BY <1>1, <1>9, InboxConstantsHold
  <2> QED BY <1>1, <1>3, <2>1, <2>2
<1>11. request' \in [Reqs -> Requests]
  BY <1>1 DEF InboxInv, InboxTyped, Requests
<1> HIDE DEF f, n, old, new, to, adds
<1>12. g \in Inbox!Folders /\ (g = f \/ folders[g][n] = Inbox!NoFile)
  BY <1>2, <1>4
<1>13. folders \in [Inbox!Folders -> [Files -> Documents \cup {Inbox!NoFile, Inbox!Torn}]]
  BY DEF InboxInv, InboxTyped
<1>14. folders[f][n] # Inbox!NoFile
  BY <1>7, InboxConstantsHold DEF Documents, Inbox!NoFile
<1>15. /\ folders' \in [Inbox!Folders -> [Files -> Documents \cup {Inbox!NoFile, Inbox!Torn}]]
       /\ \A h \in Inbox!Folders, k \in Files :
             folders'[h][k] = IF k = n /\ h = g THEN new
                              ELSE IF k = n /\ h = f THEN Inbox!NoFile ELSE folders[h][k]
  <2>1. CASE to # "none" /\ folders[to][n] = Inbox!NoFile
    <3>1. to \in Inbox!Folders /\ to # f /\ g = to
      BY <1>4, <1>14, <2>1
    <3>2. folders' = [folders EXCEPT ![f][n] = Inbox!NoFile, ![to][n] = new]
      BY <1>8, <2>1
    <3> QED BY <1>2, <1>7, <1>13, <3>1, <3>2
  <2>2. CASE ~(to # "none" /\ folders[to][n] = Inbox!NoFile)
    <3>1. g = f /\ folders' = [folders EXCEPT ![f][n] = new]
      BY <1>8, <2>2
    <3> QED BY <1>2, <1>7, <1>13, <3>1
  <2> QED BY <2>1, <2>2
<1>16. g = "rejected" /\ f # "rejected" => action = "reject"
  BY <1>5
<1> HIDE DEF g
<1>17. OnePlace' /\ Present' = Present /\ Texts \subseteq Texts' /\ new.sections \subseteq Texts'
  BY <1>2, <1>7, <1>12, <1>15, DocumentKept
<1>18. InboxTyped'
  BY <1>1, <1>9, <1>10, <1>11, <1>15 DEF InboxInv, InboxTyped
<1>19. Lost' = Lost
  BY <1>1, <1>17 DEF Lost
<1>20. kills' = 0 => confirmed' \subseteq Texts'
  BY <1>1, <1>7, <1>17 DEF InboxInv
<1>21. Inbox!RejectionsSay'
  <2> SUFFICES ASSUME NEW k \in Files, Inbox!Readable(folders'["rejected"][k])
               PROVE  folders'["rejected"][k].feedback = "rejected"
    BY DEF Inbox!RejectionsSay, Inbox!Readable
  <2>1. "rejected" \in Inbox!Folders /\ "rejected" # "inbox"
    BY DEF Inbox!Folders
  <2>2. CASE k = n /\ g = "rejected"
    <3>1. folders'["rejected"][k] = new
      BY <1>15, <2>1, <2>2
    <3>2. CASE f = "rejected"
      BY <1>7, <2>1, <2>2, <3>1, <3>2, FileShape DEF InboxInv, Inbox!RejectionsSay
    <3>3. CASE f # "rejected"
      BY <1>7, <1>16, <2>2, <3>1, <3>3
    <3> QED BY <3>2, <3>3
  <2>3. CASE ~(k = n /\ g = "rejected")
    <3>1. folders'["rejected"][k] \in {Inbox!NoFile, folders["rejected"][k]}
      BY <1>15, <2>1, <2>3
    <3> QED BY <3>1 DEF InboxInv, Inbox!RejectionsSay, Inbox!Readable
  <2> QED BY <2>2, <2>3
<1> QED BY <1>1, <1>17, <1>18, <1>19, <1>20, <1>21 DEF InboxInv

\* The server ends while a handler writes: its document is torn, or written and not moved.
LEMMA HandlerDies ==
    ASSUME InboxInv, NEW r \in Reqs, NEW noted \in BOOLEAN, NEW action \in Inbox!InboxActions,
           Inbox!Killed(r, action, noted)
    PROVE  InboxInv'
<1> DEFINE f == request[r].folder
           n == request[r].name
           old == Inbox!Content(r)
           new == Inbox!Rewritten(r, action, noted)
<1>1. /\ request[r].at = "document" /\ Inbox!Readable(old) /\ Inbox!Allowed(f, action)
      /\ kills < MaxKills /\ kills' = kills + 1 /\ remarks < MaxNotes /\ remarks' = remarks + 1
      /\ folders' = Inbox!Put(f, n, Inbox!Torn) \/ folders' = Inbox!Put(f, n, new)
      /\ request' = [q \in Reqs |-> Inbox!Idle]
      /\ UNCHANGED <<confirmed, drafts, ticket, uploads, listed>>
  BY DEF Inbox!Killed, Inbox!ticketVars
<1>2. f \in Inbox!Folders /\ n \in Files
  BY <1>1, RequestShape
<1>3. /\ old = folders[f][n] /\ old \in Documents /\ new \in Documents /\ new.doc = old.doc
      /\ old.sections \subseteq new.sections
      /\ f # "inbox" => new.feedback = old.feedback
  BY <1>1, HandlerRewrites
<1> HIDE DEF f, n, old, new
<1>4. kills \in Nat /\ kills' \in 0..MaxKills /\ kills' # 0 /\ remarks' \in 0..MaxNotes
  BY <1>1, InboxConstantsHold DEF InboxInv, InboxTyped
<1>5. request' \in [Reqs -> Requests]
  BY <1>1 DEF Requests
<1>6. "rejected" \in Inbox!Folders /\ "rejected" # "inbox"
  BY DEF Inbox!Folders
<1>7. Cardinality(Lost) \in Nat /\ Cardinality(Lost) <= kills /\ IsFiniteSet(Lost)
  <2>1. IsFiniteSet(Lost)
    BY FS_Subset DEF InboxInv, InboxTyped, Lost
  <2> QED BY <2>1, FS_CardinalityType DEF InboxInv
<1>8. CASE folders' = Inbox!Put(f, n, new)
  <2>1. /\ folders' \in [Inbox!Folders -> [Files -> Documents \cup {Inbox!NoFile, Inbox!Torn}]]
        /\ \A h \in Inbox!Folders, k \in Files :
              folders'[h][k] = IF k = n /\ h = f THEN new ELSE folders[h][k]
    BY <1>2, <1>3, <1>8, FilePut
  <2>2. OnePlace' /\ Present' = Present
    BY <1>2, <1>3, <2>1, DocumentKept
  <2>3. InboxTyped'
    BY <1>1, <1>4, <1>5, <2>1 DEF InboxInv, InboxTyped
  <2>4. Inbox!RejectionsSay'
    <3> SUFFICES ASSUME NEW k \in Files, Inbox!Readable(folders'["rejected"][k])
                 PROVE  folders'["rejected"][k].feedback = "rejected"
      BY DEF Inbox!RejectionsSay, Inbox!Readable
    <3>1. CASE k = n /\ f = "rejected"
      BY <1>2, <1>3, <1>6, <2>1, <3>1, FileShape DEF InboxInv, Inbox!RejectionsSay
    <3>2. CASE ~(k = n /\ f = "rejected")
      <4>1. folders'["rejected"][k] = folders["rejected"][k]
        BY <1>6, <2>1, <3>2
      <4> QED BY <4>1 DEF InboxInv, Inbox!RejectionsSay
    <3> QED BY <3>1, <3>2
  <2>5. Lost' = Lost
    BY <1>1, <2>2 DEF Lost
  <2> QED BY <1>1, <1>4, <1>7, <2>2, <2>3, <2>4, <2>5 DEF InboxInv
<1>9. CASE folders' = Inbox!Put(f, n, Inbox!Torn)
  <2>1. /\ folders' \in [Inbox!Folders -> [Files -> Documents \cup {Inbox!NoFile, Inbox!Torn}]]
        /\ \A h \in Inbox!Folders, k \in Files :
              folders'[h][k] = IF k = n /\ h = f THEN Inbox!Torn ELSE folders[h][k]
    BY <1>2, <1>9, FilePut
  <2>2. Inbox!Torn.doc \notin Docs
    BY InboxConstantsHold DEF Inbox!Torn
  <2>3. OnePlace'
    BY <2>1, <2>2 DEF InboxInv, OnePlace
  <2>4. Present' \subseteq Present /\ Present \subseteq Present' \cup {old.doc}
    <3>1. ASSUME NEW d \in Docs, d \in Present' PROVE d \in Present
      <4>1. PICK h \in Inbox!Folders, k \in Files : folders'[h][k].doc = d
        BY <3>1 DEF Present
      <4>2. folders[h][k].doc = d
        BY <2>1, <2>2, <4>1
      <4> QED BY <4>2 DEF Present
    <3>2. ASSUME NEW d \in Docs, d \in Present, d # old.doc PROVE d \in Present'
      <4>1. PICK h \in Inbox!Folders, k \in Files : folders[h][k].doc = d
        BY <3>2 DEF Present
      <4>2. folders'[h][k].doc = d
        BY <1>3, <2>1, <3>2, <4>1
      <4> QED BY <4>2 DEF Present
    <3> QED BY <3>1, <3>2 DEF Present
  <2>5. Lost' \subseteq Lost \cup {old.doc}
    BY <1>1, <2>4 DEF Lost
  <2>6. IsFiniteSet(Lost \cup {old.doc}) /\ Cardinality(Lost \cup {old.doc}) <= Cardinality(Lost) + 1
    BY <1>7, FS_AddElement
  <2>7. Cardinality(Lost') <= Cardinality(Lost \cup {old.doc}) /\ Cardinality(Lost') \in Nat
    BY <2>5, <2>6, FS_Subset, FS_CardinalityType
  <2>8. Cardinality(Lost \cup {old.doc}) \in Nat
    BY <2>6, FS_CardinalityType
  <2>9. Cardinality(Lost') <= kills'
    BY <1>1, <1>4, <1>7, <2>6, <2>7, <2>8
  <2>10. InboxTyped'
    BY <1>1, <1>4, <1>5, <2>1 DEF InboxInv, InboxTyped
  <2>11. Inbox!RejectionsSay'
    <3>1. \A k \in Files : folders'["rejected"][k] \in {Inbox!Torn, folders["rejected"][k]}
      BY <1>6, <2>1
    <3> QED BY <3>1 DEF InboxInv, Inbox!RejectionsSay, Inbox!Readable
  <2> QED BY <1>1, <1>4, <2>3, <2>4, <2>9, <2>10, <2>11 DEF InboxInv
<1> QED BY <1>1, <1>8, <1>9

\* The steps of the attachments leave the documents alone.
LEMMA TicketGoes ==
    ASSUME InboxInv, Inbox!TicketStep
    PROVE  InboxInv'
<1>1. UNCHANGED <<folders, remarks, confirmed, drafts>>
  BY DEF Inbox!TicketStep, Inbox!Upload, Inbox!RefuseUpload, Inbox!Store, Inbox!StoreKilled, Inbox!MoveTicket,
     Inbox!DeleteTicket, Inbox!documentVars
<1>2. ticket' \in 0..(MaxMoves + 1) /\ kills' \in 0..MaxKills /\ kills \in 0..MaxKills /\ kills <= kills'
  BY InboxConstantsHold DEF InboxInv, InboxTyped, Inbox!TicketStep, Inbox!Upload, Inbox!RefuseUpload, Inbox!Store,
     Inbox!StoreKilled, Inbox!MoveTicket, Inbox!DeleteTicket, Inbox!ticketVars
<1>3. listed' \subseteq uploads'
  BY DEF InboxInv, Inbox!TicketStep, Inbox!Upload, Inbox!RefuseUpload, Inbox!Store, Inbox!StoreKilled,
     Inbox!MoveTicket, Inbox!DeleteTicket, Inbox!ticketVars
<1>4. request' \in [Reqs -> Requests]
  <2>1. request \in [Reqs -> Requests] /\ Inbox!Idle \in Requests
    BY DEF InboxInv, InboxTyped, Requests
  <2>2. \A r \in Reqs, id \in 1..(MaxMoves + 1) : [at |-> "upload", id |-> id, name |-> r] \in Requests
    BY InboxConstantsHold DEF Requests
  <2> QED BY <2>1, <2>2 DEF Inbox!TicketStep, Inbox!Upload, Inbox!RefuseUpload, Inbox!Store, Inbox!StoreKilled,
         Inbox!MoveTicket, Inbox!DeleteTicket, Inbox!Answered
<1>5. InboxTyped'
  BY <1>1, <1>2, <1>4 DEF InboxInv, InboxTyped
<1>6. Present' = Present /\ Texts' = Texts /\ Lost' = Lost
  BY <1>1 DEF Present, Texts, Lost
<1>7. OnePlace' /\ Inbox!RejectionsSay'
  BY <1>1 DEF InboxInv, OnePlace, Inbox!RejectionsSay, Inbox!Readable
<1>8. Cardinality(Lost') <= kills'
  <2>1. Cardinality(Lost) \in Nat
    BY FS_Subset, FS_CardinalityType DEF InboxInv, InboxTyped, Lost
  <2> QED BY <1>2, <1>6, <2>1 DEF InboxInv
<1>9. kills' = 0 => kills = 0
  BY <1>2
<1> QED BY <1>1, <1>3, <1>5, <1>6, <1>7, <1>8, <1>9 DEF InboxInv

LEMMA InboxStepsKeep == InboxHolds /\ [HostNext]_hostVars => InboxHolds'
<1> SUFFICES ASSUME InboxHolds, [HostNext]_hostVars, part' = "inbox"
             PROVE  InboxInv'
  BY DEF InboxHolds
<1>1. CASE part = "inbox" /\ Inbox!InboxNext
  <2>1. InboxInv
    BY <1>1 DEF InboxHolds
  <2>2. CASE Inbox!DocumentStep
    <3>1. CASE \E d \in Docs, n \in Files : Inbox!Drop(d, n)
      BY <2>1, <3>1, DocumentDropped
    <3>2. CASE \E r \in Reqs, f \in Inbox!Folders, n \in Files : Inbox!Ask(r, f, n)
      BY <2>1, <3>2, DocumentAsked
    <3>3. CASE \E r \in Reqs : Inbox!Reject(r)
      BY <2>1, <3>3, RequestRejected
    <3>4. CASE \E r \in Reqs, a \in Inbox!InboxActions, noted \in BOOLEAN :
                  Inbox!Act(r, a, noted) \/ Inbox!Killed(r, a, noted)
      BY <2>1, <3>4, HandlerActs, HandlerDies
    <3> QED BY <2>2, <3>1, <3>2, <3>3, <3>4 DEF Inbox!DocumentStep
  <2> QED BY <1>1, <2>1, <2>2, TicketGoes DEF Inbox!InboxNext
<1>2. CASE UNCHANGED <<part, inboxVars>>
  <2>1. InboxInv /\ UNCHANGED <<folders, request, remarks, confirmed, drafts, ticket, uploads, listed, kills>>
    BY <1>2 DEF InboxHolds, inboxVars
  <2> QED BY <2>1, RequestGoes DEF InboxInv, InboxTyped
<1> QED BY <1>1, <1>2 DEF HostNext, hostVars, DeployStep, OpenCodeStep, EvidenceStep, InboxStep, TrashStep,
        ServerStep, HubStep

\* The invariant gives what InboxSafe says.
LEMMA InboxMeans == InboxInv => Inbox!InboxSafe
<1> SUFFICES ASSUME InboxInv
             PROVE  Inbox!InboxSafe
  OBVIOUS
<1>1. Inbox!InboxTypeOK
  <2>1. \A f \in Inbox!Folders, n \in Files : Inbox!Readable(folders[f][n]) => folders[f][n].doc \in Docs
    BY FileShape
  <2>2. \A r \in Reqs : request[r].at \in {"idle", "document", "upload"}
    <3>1. Inbox!Idle.at = "idle"
      BY DEF Inbox!Idle
    <3> QED BY <3>1 DEF InboxInv, InboxTyped, Requests
  <2> QED BY <2>1, <2>2 DEF InboxInv, InboxTyped, Inbox!InboxTypeOK, Inbox!Notes
<1>2. Inbox!DocumentsKept
  <2>1. ASSUME NEW d \in drafts PROVE Cardinality(Inbox!Places(d)) <= 1
    <3>1. d \in Docs
      BY DEF InboxInv, InboxTyped
    <3>2. \A p, q \in Inbox!Places(d) : p = q
      <4> SUFFICES ASSUME NEW p \in Inbox!Places(d), NEW q \in Inbox!Places(d)
                   PROVE  p = q
        OBVIOUS
      <4>1. /\ p \in Inbox!Folders \X Files /\ q \in Inbox!Folders \X Files
            /\ folders[p[1]][p[2]].doc = d /\ folders[q[1]][q[2]].doc = d
        BY DEF Inbox!Places
      <4>2. p[1] = q[1] /\ p[2] = q[2]
        BY <3>1, <4>1 DEF InboxInv, OnePlace
      <4> QED BY <4>1, <4>2
    <3>3. CASE Inbox!Places(d) = {}
      BY <3>3, FS_EmptySet
    <3>4. CASE Inbox!Places(d) # {}
      <4>1. PICK p : Inbox!Places(d) = {p}
        BY <3>2, <3>4
      <4> QED BY <4>1, FS_Singleton
    <3> QED BY <3>3, <3>4
  <2>2. {d \in drafts : Inbox!Places(d) = {}} = Lost
    <3>1. ASSUME NEW d \in drafts PROVE Inbox!Places(d) = {} <=> d \notin Present
      <4>1. d \in Docs
        BY DEF InboxInv, InboxTyped
      <4>2. ASSUME NEW f \in Inbox!Folders, NEW n \in Files, folders[f][n].doc = d
            PROVE  <<f, n>> \in Inbox!Places(d)
        BY <4>2 DEF Inbox!Places
      <4>3. ASSUME NEW p \in Inbox!Places(d) PROVE d \in Present
        BY <4>1 DEF Inbox!Places, Present
      <4> QED BY <4>1, <4>2, <4>3 DEF Present
    <3> QED BY <3>1 DEF Lost
  <2>3. Cardinality({d \in drafts : Inbox!Places(d) = {}}) <= kills
    BY <2>2 DEF InboxInv
  <2>4. \A d \in drafts : Inbox!Cardinality(Inbox!Places(d)) <= 1
    <3>1. ASSUME NEW d \in drafts PROVE Inbox!Cardinality(Inbox!Places(d)) = Cardinality(Inbox!Places(d))
      BY DEF Inbox!Cardinality, Cardinality
    <3> QED BY <2>1, <3>1
  <2>5. Inbox!Cardinality({d \in drafts : Inbox!Places(d) = {}}) <= kills
    <3>1. Inbox!Cardinality({d \in drafts : Inbox!Places(d) = {}})
            = Cardinality({d \in drafts : Inbox!Places(d) = {}})
      BY DEF Inbox!Cardinality, Cardinality
    <3> QED BY <2>3, <3>1
  <2> QED BY <2>4, <2>5 DEF Inbox!DocumentsKept
<1>3. Inbox!SectionsKept
  <2> SUFFICES ASSUME kills = 0, NEW m \in confirmed
               PROVE  \E f \in Inbox!Folders, n \in Files :
                         Inbox!Readable(folders[f][n]) /\ m \in folders[f][n].sections
    BY DEF Inbox!SectionsKept
  <2>1. m \in Texts
    BY DEF InboxInv
  <2> QED BY <2>1, FileShape DEF Texts
<1>4. Inbox!RejectionsSay /\ Inbox!ListedStored
  BY DEF InboxInv, Inbox!ListedStored
<1> QED BY <1>1, <1>2, <1>3, <1>4 DEF Inbox!InboxSafe

-----------------------------------------------------------------------------
(* The trash and the bulletins.                                            *)

Entries == [id : Bin!Ids, path : Paths, status : {"trashed", "restored", "purged"}]

\* What a command of the trash, or of the bulletins, can be doing.
TrashWorks ==
    {Bin!Idle}
      \cup [at : {"count"}, do : {"move"}, path : Paths, id : {Bin!Nothing}]
      \cup [at : {"truncate", "fill", "take"}, do : {"move"}, path : Paths, id : Bin!Ids]
      \cup [at : {"enter"}, id : Bin!Ids, path : Paths]
      \cup [at : {"save", "saving"}, entries : Seq(Entries)]
      \cup [at : {"back"}, id : Bin!Ids, path : Paths, force : BOOLEAN, entries : Seq(Entries)]
      \cup [at : {"purge"}, ids : SUBSET Bin!Ids, entries : Seq(Entries)]
BulletinWorks ==
    {Bin!Idle}
      \cup [at : {"count"}, do : {"create"}, title : Headings, id : {Bin!Nothing}]
      \cup [at : {"truncate", "fill", "take", "publish"}, do : {"create"}, title : Headings, id : Bin!Ids]
      \cup [at : {"mark", "marking", "file"}, title : Headings, id : Bin!Ids]

Bulletins == [id : -1..MaxNumbers, mark : {"none", "active", "resolved"}]

Alone == \A p, q \in Commands : p # q => pc[p] = Bin!Idle \/ pc[q] = Bin!Idle

StoreTyped ==
    /\ counter \in {Bin!Empty} \cup 1..(MaxNumbers + 1)
    /\ deaths \in 0..MaxDeaths /\ crossed \in BOOLEAN
    /\ crossed = FALSE => Alone

\* The part of the invariant that is about files: contents, entries and commands.
FilesTyped ==
    /\ pc \in [Commands -> TrashWorks]
    /\ disk \in [Paths -> 0..MaxNumbers] /\ bin \in [Bin!Ids -> 0..MaxNumbers]
    /\ made \in 0..MaxNumbers /\ manifest \in Seq(Entries) /\ standing = {}
    /\ shared \in BOOLEAN /\ belated \in BOOLEAN
    /\ crossed = FALSE => shared = FALSE /\ belated = FALSE

\* One command at a time has truncated the counter or is about to.
Counting == {p \in Commands : pc[p].at \in {"truncate", "fill"}}
Taking == {p \in Commands : pc[p].at = "take"}
Binned == {i \in Bin!Ids : bin[i] # Bin!Nothing}

\* An identifier is taken once: those in use are below the next one.
NumbersApart ==
    /\ \A p, q \in Counting : p = q
    /\ \A p \in Counting : counter = IF pc[p].at = "fill" THEN Bin!Empty ELSE pc[p].id
    /\ \A p \in Taking : pc[p].id \notin Binned
    /\ \A p, q \in Taking : pc[p].id = pc[q].id => p = q
    /\ counter # Bin!Empty =>
         /\ \A i \in Binned : i < counter
         /\ \A p \in Taking : pc[p].id < counter
    /\ \A q \in Counting : pc[q].at = "fill" =>
         /\ \A i \in Binned : i < pc[q].id
         /\ \A p \in Taking : pc[p].id < pc[q].id

\* A restore that found its way free still does.
WayFree ==
    \A p \in Commands : pc[p].at = "back" /\ ~pc[p].force => disk[pc[p].path] = Bin!Nothing

\* The entries s are one per identifier, those in the trash are b, and n is free.
Ledger(s, b, n) ==
    /\ \A k, l \in 1..Len(s) : s[k].id = s[l].id => k = l
    /\ \A k \in 1..Len(s) : s[k].id < n
    /\ b = {s[k].id : k \in {l \in 1..Len(s) : s[l].status = "trashed"}}

\* Where a command that is alone stands, between the manifest and the trash.
LedgerHolds ==
    /\ (\A p \in Commands : pc[p].at \in {"idle", "count", "truncate"})
         => Ledger(manifest, Binned, counter) /\ counter # Bin!Empty
    /\ \A p \in Commands :
         /\ pc[p].at = "fill" => Ledger(manifest, Binned, pc[p].id)
         /\ pc[p].at = "take" => Ledger(manifest, Binned, pc[p].id) /\ counter = pc[p].id + 1
         /\ pc[p].at = "enter" =>
              /\ Ledger(manifest, Binned \ {pc[p].id}, pc[p].id) /\ pc[p].id \in Binned
              /\ counter = pc[p].id + 1
         /\ pc[p].at \in {"save", "saving"} =>
              Ledger(pc[p].entries, Binned, counter) /\ counter # Bin!Empty
         /\ pc[p].at = "back" =>
              /\ Ledger(pc[p].entries, Binned \ {pc[p].id}, counter) /\ counter # Bin!Empty
              /\ pc[p].id \in Binned
         /\ pc[p].at = "purge" =>
              Ledger(pc[p].entries, Binned \ pc[p].ids, counter) /\ counter # Bin!Empty

FilesInv ==
    /\ FilesTyped
    /\ shared = FALSE => NumbersApart
    /\ belated = FALSE => WayFree
    /\ Bin!ContentKept
    /\ crossed = FALSE /\ deaths = 0 => LedgerHolds

\* A bulletin that is neither resolved nor replaced is under some title, and what
\* a command rewrites is no such bulletin.
BulletinHolds ==
    /\ Bin!BulletinsStand
    /\ \A p \in Commands :
         /\ pc[p].at \in {"publish", "marking"} => inForce[pc[p].title].id = Bin!Empty
         /\ pc[p].at \in {"mark", "file"} => inForce[pc[p].title].id = pc[p].id
         /\ pc[p].at \in {"mark", "marking", "file"} => pc[p].id \notin standing

BulletinInv ==
    /\ pc \in [Commands -> BulletinWorks] /\ inForce \in [Headings -> Bulletins]
    /\ disk = [p \in Paths |-> Bin!Nothing] /\ bin = [i \in Bin!Ids |-> Bin!Nothing]
    /\ made = 0 /\ manifest = <<>> /\ standing \subseteq Bin!Ids
    /\ crossed = FALSE /\ deaths = 0 => BulletinHolds

\* The inductive invariant behind TrashSafe.
StoreInv ==
    /\ area \in {"trash", "bulletins"} /\ StoreTyped
    /\ area = "trash" => FilesInv
    /\ area = "bulletins" => BulletinInv

StoreHolds == part = "trash" => StoreInv

LEMMA TrashConstantsHold == MaxNumbers \in Nat /\ MaxCommands \in Nat /\ MaxDeaths \in Nat
BY TrashConstants DEF Bin!TrashAssumption

\* What a process does says what is known of it.
LEMMA WorkIs ==
    ASSUME NEW w \in TrashWorks
    PROVE  /\ w.at \in {"idle", "count", "truncate", "fill", "take", "enter", "save", "saving", "back", "purge"}
           /\ w.at = "idle" => w = Bin!Idle
           /\ w.at = "count" => w \in [at : {"count"}, do : {"move"}, path : Paths, id : {Bin!Nothing}]
           /\ w.at \in {"truncate", "fill", "take"} =>
                w \in [at : {"truncate", "fill", "take"}, do : {"move"}, path : Paths, id : Bin!Ids]
           /\ w.at = "enter" => w \in [at : {"enter"}, id : Bin!Ids, path : Paths]
           /\ w.at \in {"save", "saving"} => w \in [at : {"save", "saving"}, entries : Seq(Entries)]
           /\ w.at = "back" => w \in [at : {"back"}, id : Bin!Ids, path : Paths, force : BOOLEAN, entries : Seq(Entries)]
           /\ w.at = "purge" => w \in [at : {"purge"}, ids : SUBSET Bin!Ids, entries : Seq(Entries)]
BY DEF TrashWorks, Bin!Idle

LEMMA BulletinWorkIs ==
    ASSUME NEW w \in BulletinWorks
    PROVE  /\ w.at \in {"idle", "count", "truncate", "fill", "take", "publish", "mark", "marking", "file"}
           /\ w.at = "idle" => w = Bin!Idle
           /\ w.at = "count" => w \in [at : {"count"}, do : {"create"}, title : Headings, id : {Bin!Nothing}]
           /\ w.at \in {"truncate", "fill", "take", "publish"} =>
                w \in [at : {"truncate", "fill", "take", "publish"}, do : {"create"}, title : Headings, id : Bin!Ids]
           /\ w.at \in {"mark", "marking", "file"} =>
                w \in [at : {"mark", "marking", "file"}, title : Headings, id : Bin!Ids]
BY DEF BulletinWorks, Bin!Idle

\* A set of identifiers that is not empty has a least one.
LEMMA LeastNumber ==
    ASSUME NEW S \in SUBSET Nat, S # {}
    PROVE  \E n \in S : \A m \in S : n <= m
<1>1. PICK n \in S : \A m \in S : ~(<<m, n>> \in OpToRel(<, Nat))
  BY NatLessThanWellFounded, WFMin
<1>2. \A m \in S : ~(m < n)
  <2> SUFFICES ASSUME NEW m \in S, m < n
               PROVE  FALSE
    OBVIOUS
  <2>1. <<m, n>> \in OpToRel(<, Nat)
    BY DEF OpToRel
  <2> QED BY <1>1, <2>1
<1> QED BY <1>2

LEMMA EntryIs ==
    ASSUME NEW e \in Entries
    PROVE  e.id \in Bin!Ids /\ e.id \in Nat /\ e.path \in Paths
<1>1. e.id \in Bin!Ids /\ e.path \in Paths
  BY DEF Entries
<1> QED BY <1>1, TrashConstantsHold DEF Bin!Ids

\* A file comes into the trash and is entered: its identifier is a new one.
LEMMA LedgerAppends ==
    ASSUME NEW s \in Seq(Entries), NEW i \in Bin!Ids, NEW b \in SUBSET Bin!Ids, NEW place \in Paths,
           Ledger(s, b, i),
           NEW t, t = Append(s, [id |-> i, path |-> place, status |-> "trashed"])
    PROVE  t \in Seq(Entries) /\ Ledger(t, b \cup {i}, i + 1)
<1> DEFINE e == [id |-> i, path |-> place, status |-> "trashed"]
<1>1. e \in Entries /\ e.id = i /\ e.status = "trashed"
  BY DEF Entries
<1>2. t = Append(s, e)
  OBVIOUS
<1> HIDE DEF e
<1>3. /\ t \in Seq(Entries) /\ Len(t) = Len(s) + 1 /\ t[Len(s) + 1] = e
      /\ \A k \in 1..Len(s) : t[k] = s[k]
  BY <1>1, <1>2
<1>4. \A k \in 1..Len(s) : s[k] \in Entries /\ s[k].id \in Nat
  BY EntryIs
<1>5. i \in Nat /\ Len(s) \in Nat
  BY TrashConstantsHold DEF Bin!Ids
<1>6. \A k, l \in 1..Len(t) : t[k].id = t[l].id => k = l
  <2> SUFFICES ASSUME NEW k \in 1..Len(t), NEW l \in 1..Len(t), t[k].id = t[l].id
               PROVE  k = l
    OBVIOUS
  <2>1. \A m \in 1..Len(s) : t[m].id = s[m].id /\ s[m].id < i
    BY <1>3 DEF Ledger
  <2>2. t[Len(s) + 1].id = i
    BY <1>1, <1>3
  <2>3. k \in 1..Len(s) \/ k = Len(s) + 1
    BY <1>3, <1>5
  <2>4. l \in 1..Len(s) \/ l = Len(s) + 1
    BY <1>3, <1>5
  <2> QED BY <1>4, <1>5, <2>1, <2>2, <2>3, <2>4 DEF Ledger
<1>7. \A k \in 1..Len(t) : t[k].id < i + 1
  <2> SUFFICES ASSUME NEW k \in 1..Len(t)
               PROVE  t[k].id < i + 1
    OBVIOUS
  <2>1. k \in 1..Len(s) \/ k = Len(s) + 1
    BY <1>3, <1>5
  <2> QED BY <1>1, <1>3, <1>4, <1>5, <2>1 DEF Ledger
<1>8. b \cup {i} = {t[k].id : k \in {l \in 1..Len(t) : t[l].status = "trashed"}}
  <2>1. 1..Len(t) = 1..Len(s) \cup {Len(s) + 1} /\ Len(s) + 1 \in 1..Len(t)
    BY <1>3, <1>5
  <2>2. t[Len(s) + 1].id = i /\ t[Len(s) + 1].status = "trashed"
    BY <1>1, <1>3
  <2>3. b = {s[k].id : k \in {l \in 1..Len(s) : s[l].status = "trashed"}}
    BY DEF Ledger
  <2> QED BY ONLY <1>3, <2>1, <2>2, <2>3
<1> QED BY <1>3, <1>6, <1>7, <1>8 DEF Ledger

\* The entries X, all in the trash, get another status.
LEMMA LedgerMarks ==
    ASSUME NEW s \in Seq(Entries), NEW b, NEW n, Ledger(s, b, n),
           NEW X \in SUBSET (1..Len(s)), \A k \in X : s[k].status = "trashed",
           NEW status \in {"restored", "purged"}, NEW t \in Seq(Entries), Len(t) = Len(s),
           \A k \in 1..Len(s) : t[k].id = s[k].id
                                /\ t[k].status = IF k \in X THEN status ELSE s[k].status
    PROVE  Ledger(t, b \ {s[k].id : k \in X}, n)
<1>1. \A k, l \in 1..Len(t) : t[k].id = t[l].id => k = l
  BY DEF Ledger
<1>2. \A k \in 1..Len(t) : t[k].id < n
  BY DEF Ledger
<1>3. b = {s[k].id : k \in {l \in 1..Len(s) : s[l].status = "trashed"}}
  BY DEF Ledger
<1>4. \A k, l \in 1..Len(s) : s[k].id = s[l].id => k = l
  BY DEF Ledger
<1>5. ASSUME NEW i \in b, i \notin {s[k].id : k \in X}
      PROVE  i \in {t[k].id : k \in {l \in 1..Len(t) : t[l].status = "trashed"}}
  <2>1. PICK k \in 1..Len(s) : s[k].status = "trashed" /\ i = s[k].id
    BY <1>3
  <2>2. k \notin X
    BY <1>5, <2>1
  <2> QED BY <2>1, <2>2
<1>6. ASSUME NEW k \in 1..Len(t), t[k].status = "trashed"
      PROVE  t[k].id \in b \ {s[l].id : l \in X}
  <2>1. k \notin X /\ s[k].status = "trashed" /\ t[k].id = s[k].id
    BY <1>6
  <2>2. t[k].id \in b
    BY <1>3, <2>1
  <2>3. ASSUME NEW l \in X, s[l].id = t[k].id PROVE FALSE
    BY <1>4, <2>1, <2>3
  <2> QED BY <2>2, <2>3
<1>7. b \ {s[k].id : k \in X} = {t[k].id : k \in {l \in 1..Len(t) : t[l].status = "trashed"}}
  BY <1>5, <1>6
<1> QED BY <1>1, <1>2, <1>7 DEF Ledger

\* A later identifier is free too.
LEMMA LedgerLater ==
    ASSUME NEW s \in Seq(Entries), NEW b, NEW n \in Nat, NEW m \in Nat, n <= m, Ledger(s, b, n)
    PROVE  Ledger(s, b, m)
<1>1. \A k \in 1..Len(s) : s[k].id \in Nat
  BY EntryIs
<1> QED BY <1>1 DEF Ledger

LEMMA StoreStarts == HostInit => StoreHolds
<1> SUFFICES ASSUME HostInit, part = "trash"
             PROVE  StoreInv
  BY DEF StoreHolds
<1>1. Bin!TrashInit
  BY DEF HostInit, PartInit
<1>2. /\ counter = 1 /\ bin = [i \in Bin!Ids |-> Bin!Nothing] /\ manifest = <<>>
      /\ disk = [p \in Paths |-> Bin!Nothing] /\ made = 0
      /\ inForce = [t \in Headings |-> Bin!NoBulletin] /\ standing = {}
      /\ pc = [p \in Commands |-> Bin!Idle] /\ deaths = 0 /\ shared = FALSE /\ belated = FALSE
      /\ crossed = FALSE /\ area \in {"trash", "bulletins"}
  BY <1>1 DEF Bin!TrashInit
<1>3. StoreTyped
  <2>1. counter \in {Bin!Empty} \cup 1..(MaxNumbers + 1) /\ deaths \in 0..MaxDeaths
    BY <1>2, TrashConstantsHold
  <2>2. crossed \in BOOLEAN /\ Alone
    BY <1>2 DEF Alone
  <2> QED BY <2>1, <2>2 DEF StoreTyped
<1>4. Bin!Idle \in TrashWorks /\ Bin!Idle \in BulletinWorks /\ Bin!Idle.at = "idle"
  BY DEF TrashWorks, BulletinWorks, Bin!Idle
<1>5. FilesTyped
  <2>1. pc \in [Commands -> TrashWorks]
    BY <1>2, <1>4
  <2>2. disk \in [Paths -> 0..MaxNumbers] /\ bin \in [Bin!Ids -> 0..MaxNumbers] /\ made \in 0..MaxNumbers
    BY <1>2, TrashConstantsHold DEF Bin!Nothing
  <2>3. manifest \in Seq(Entries)
    BY <1>2
  <2>4. shared \in BOOLEAN /\ belated \in BOOLEAN /\ shared = FALSE /\ belated = FALSE
    BY <1>2
  <2> QED BY <1>2, <2>1, <2>2, <2>3, <2>4 DEF FilesTyped
<1>6. Counting = {} /\ Taking = {} /\ Binned = {}
  BY <1>2, <1>4 DEF Counting, Taking, Binned
<1>7. NumbersApart
  BY <1>2, <1>6 DEF NumbersApart
<1>8. WayFree
  BY <1>2, <1>4 DEF WayFree
<1>9. Bin!ContentKept
  BY <1>2 DEF Bin!ContentKept
<1>10. Ledger(manifest, Binned, counter)
  BY <1>2, <1>6 DEF Ledger
<1>11. LedgerHolds
  BY <1>2, <1>4, <1>10 DEF LedgerHolds, Bin!Empty
<1>12. inForce \in [Headings -> Bulletins]
  BY <1>2, TrashConstantsHold DEF Bulletins, Bin!NoBulletin, Bin!Nothing
<1>13. BulletinHolds
  BY <1>2, <1>4 DEF BulletinHolds, Bin!BulletinsStand
<1>14. BulletinInv
  BY <1>2, <1>4, <1>12, <1>13 DEF BulletinInv
<1>15. FilesInv
  BY <1>5, <1>7, <1>8, <1>9, <1>11 DEF FilesInv
<1> QED BY <1>2, <1>3, <1>14, <1>15 DEF StoreInv

\* A process that is under way goes on to w.
LEMMA WorkGoes ==
    ASSUME StoreTyped, NEW Works, pc \in [Commands -> Works], NEW p \in Commands, NEW w \in Works,
           pc[p] # Bin!Idle, pc' = [pc EXCEPT ![p] = w]
    PROVE  /\ pc' \in [Commands -> Works] /\ pc'[p] = w
           /\ \A q \in Commands : q # p => pc'[q] = pc[q]
           /\ crossed = FALSE => Alone' /\ \A q \in Commands : q # p => pc[q] = Bin!Idle
<1>1. /\ pc' \in [Commands -> Works] /\ pc'[p] = w
      /\ \A q \in Commands : q # p => pc'[q] = pc[q]
  OBVIOUS
<1>2. crossed = FALSE => \A q \in Commands : q # p => pc[q] = Bin!Idle
  BY DEF StoreTyped, Alone
<1>3. crossed = FALSE => Alone'
  BY <1>1, <1>2 DEF Alone
<1> QED BY <1>1, <1>2, <1>3

\* A process that starts to do w.
LEMMA WorkStarts ==
    ASSUME StoreTyped, NEW Works, pc \in [Commands -> Works], NEW p \in Commands, NEW w \in Works,
           Bin!Starts(p, w)
    PROVE  /\ pc[p] = Bin!Idle /\ pc' \in [Commands -> Works] /\ pc'[p] = w
           /\ \A q \in Commands : q # p => pc'[q] = pc[q]
           /\ crossed' \in BOOLEAN
           /\ crossed' = FALSE =>
                /\ crossed = FALSE /\ Alone'
                /\ \A q \in Commands : pc[q] = Bin!Idle
<1>1. /\ pc[p] = Bin!Idle /\ pc' = [pc EXCEPT ![p] = w]
      /\ crossed' = (crossed \/ \E q \in Commands \ {p} : pc[q] # Bin!Idle)
  BY DEF Bin!Starts, Bin!Goes
<1>2. crossed' \in BOOLEAN
  BY <1>1
<1>3. ASSUME crossed' = FALSE
      PROVE  crossed = FALSE /\ \A q \in Commands : pc[q] = Bin!Idle
  <2>1. crossed \in BOOLEAN
    BY DEF StoreTyped
  <2> QED BY <1>1, <1>3, <2>1
<1>4. /\ pc' \in [Commands -> Works] /\ pc'[p] = w
      /\ \A q \in Commands : q # p => pc'[q] = pc[q]
  BY <1>1
<1>5. crossed' = FALSE => Alone'
  BY <1>3, <1>4 DEF Alone
<1> QED BY <1>1, <1>2, <1>3, <1>4, <1>5

\* No process comes to truncate or to take, and no file comes into the trash.
LEMMA NumbersStay ==
    ASSUME NumbersApart, counter' = counter, Binned' \subseteq Binned,
           \A q \in Commands : pc'[q] = pc[q] \/ pc'[q].at \notin {"truncate", "fill", "take"}
    PROVE  NumbersApart'
<1>1. \A q \in Commands : q \in Counting' => q \in Counting /\ pc'[q] = pc[q]
  BY DEF Counting
<1>2. \A q \in Commands : q \in Taking' => q \in Taking /\ pc'[q] = pc[q]
  BY DEF Taking
<1>3. Counting' \subseteq Commands /\ Taking' \subseteq Commands
  BY DEF Counting, Taking
<1> HIDE DEF Counting, Taking
<1> QED BY <1>1, <1>2, <1>3 DEF NumbersApart

LEMMA WayStays ==
    ASSUME WayFree, \A q \in Commands : pc'[q] = pc[q] \/ pc'[q].at # "back",
           \A q \in Commands : pc[q].at = "back" => pc[q].path \in Paths,
           \A place \in Paths : disk'[place] = disk[place] \/ disk'[place] = Bin!Nothing
    PROVE  WayFree'
BY DEF WayFree

\* What there was of a content is in a place still, or was removed on purpose.
LEMMA ContentStays ==
    ASSUME FilesTyped, Bin!ContentKept, made' = made, removed \subseteq removed',
           shared' = FALSE => shared = FALSE, belated' = FALSE => belated = FALSE,
           shared \in BOOLEAN, belated \in BOOLEAN, shared' \in BOOLEAN, belated' \in BOOLEAN,
           shared' = FALSE /\ belated' = FALSE =>
             /\ \A q \in Paths : disk[q] # Bin!Nothing => disk[q] \in (Bin!Contents \cup removed)'
             /\ \A i \in Bin!Ids : bin[i] # Bin!Nothing => bin[i] \in (Bin!Contents \cup removed)'
    PROVE  Bin!ContentKept'
<1> SUFFICES ASSUME shared' = FALSE, belated' = FALSE, NEW v \in 1..made
             PROVE  v \in (Bin!Contents \cup removed)'
  BY DEF Bin!ContentKept
<1>1. v # Bin!Nothing
  BY DEF FilesTyped, Bin!Nothing
<1>2. v \in Bin!Contents \cup removed
  BY DEF Bin!ContentKept
<1>3. v \in {disk[q] : q \in Paths} \/ v \in {bin[i] : i \in Bin!Ids} \/ v \in removed
  BY <1>2 DEF Bin!Contents
<1>4. CASE v \in {disk[q] : q \in Paths}
  BY <1>1, <1>4
<1>5. CASE v \in {bin[i] : i \in Bin!Ids}
  BY <1>1, <1>5
<1> QED BY <1>3, <1>4, <1>5

\* The manifest of a process that is alone.
LEMMA LedgerGoes ==
    ASSUME NEW p \in Commands, \A q \in Commands : q # p => pc'[q] = Bin!Idle,
           pc'[p].at \in {"idle", "count", "truncate"} =>
             Ledger(manifest', Binned', counter') /\ counter' # Bin!Empty,
           pc'[p].at = "fill" => Ledger(manifest', Binned', pc'[p].id),
           pc'[p].at = "take" => Ledger(manifest', Binned', pc'[p].id) /\ counter' = pc'[p].id + 1,
           pc'[p].at = "enter" =>
             /\ Ledger(manifest', Binned' \ {pc'[p].id}, pc'[p].id) /\ pc'[p].id \in Binned'
             /\ counter' = pc'[p].id + 1,
           pc'[p].at \in {"save", "saving"} =>
             Ledger(pc'[p].entries, Binned', counter') /\ counter' # Bin!Empty,
           pc'[p].at = "back" =>
             /\ Ledger(pc'[p].entries, Binned' \ {pc'[p].id}, counter') /\ counter' # Bin!Empty
             /\ pc'[p].id \in Binned',
           pc'[p].at = "purge" =>
             Ledger(pc'[p].entries, Binned' \ pc'[p].ids, counter') /\ counter' # Bin!Empty
    PROVE  LedgerHolds'
<1>1. Bin!Idle.at = "idle"
  BY DEF Bin!Idle
<1>2. \A q \in Commands : q # p => pc'[q].at = "idle"
  BY <1>1
<1> QED BY <1>2 DEF LedgerHolds

\* A process goes on, or starts, without moving a file.
LEMMA WorkKeeps ==
    ASSUME StoreInv, area = "trash", area' = area, NEW p \in Commands, NEW w \in TrashWorks,
           pc' \in [Commands -> TrashWorks], pc'[p] = w,
           \A q \in Commands : q # p => pc'[q] = pc[q],
           w.at \notin {"truncate", "fill", "take", "back"},
           UNCHANGED <<counter, disk, bin, made, removed, standing>>,
           manifest' \in Seq(Entries), deaths' \in 0..MaxDeaths,
           crossed' \in BOOLEAN, crossed' = FALSE => crossed = FALSE /\ Alone',
           shared' \in BOOLEAN, shared' = FALSE => shared = FALSE,
           belated' \in BOOLEAN, belated' = FALSE => belated = FALSE,
           crossed' = FALSE => shared' = FALSE /\ belated' = FALSE,
           crossed' = FALSE /\ deaths' = 0 => LedgerHolds'
    PROVE  StoreInv'
<1>1. FilesInv /\ FilesTyped /\ StoreTyped
  BY DEF StoreInv, FilesInv
<1>2. StoreTyped'
  BY <1>1 DEF StoreTyped
<1>3. FilesTyped'
  BY <1>1 DEF FilesTyped
<1>4. \A q \in Commands : pc'[q] = pc[q] \/ pc'[q].at \notin {"truncate", "fill", "take", "back"}
  OBVIOUS
<1>5. Binned' = Binned
  BY DEF Binned
<1>6. shared' = FALSE => NumbersApart'
  BY <1>1, <1>4, <1>5, NumbersStay DEF FilesInv
<1>7. belated' = FALSE => WayFree'
  <2>1. \A q \in Commands : pc[q].at = "back" => pc[q].path \in Paths
    <3>1. \A q \in Commands : pc[q] \in TrashWorks
      BY <1>1 DEF FilesTyped
    <3> QED BY <3>1, WorkIs
  <2> QED BY <1>1, <1>4, <2>1, WayStays DEF FilesInv
<1>8. Bin!ContentKept'
  <2>1. (Bin!Contents \cup removed)' = Bin!Contents \cup removed
    BY DEF Bin!Contents
  <2> QED BY <1>1, <2>1 DEF FilesInv, Bin!ContentKept
<1>9. FilesInv'
  BY <1>3, <1>6, <1>7, <1>8 DEF FilesInv
<1> QED BY <1>2, <1>9 DEF StoreInv

\* A program writes a file where none is.
LEMMA FileWritten ==
    ASSUME StoreInv, area = "trash", NEW place \in Paths, Bin!WriteFile(place)
    PROVE  StoreInv'
<1>1. /\ disk[place] = Bin!Nothing /\ made < MaxNumbers /\ made' = made + 1
      /\ disk' = [disk EXCEPT ![place] = made + 1]
      /\ crossed' = (crossed \/ ~Bin!Quiet)
      /\ belated' = (belated \/ \E p \in Commands : pc[p].at = "back" /\ pc[p].path = place)
      /\ UNCHANGED <<counter, bin, manifest, removed, pc, shared, deaths, commands, area, standing>>
  BY DEF Bin!WriteFile, Bin!bulletinVars
<1>2. FilesInv /\ FilesTyped /\ StoreTyped
  BY DEF StoreInv, FilesInv
<1>3. made \in Nat /\ made + 1 \in 0..MaxNumbers /\ made' \in 0..MaxNumbers
  BY <1>1, <1>2, TrashConstantsHold DEF FilesTyped
<1>4. crossed' \in BOOLEAN /\ belated' \in BOOLEAN
  BY <1>1
<1>5. crossed' = FALSE => crossed = FALSE /\ \A p \in Commands : pc[p] = Bin!Idle
  <2>1. crossed \in BOOLEAN
    BY <1>2 DEF StoreTyped
  <2> QED BY <1>1, <2>1 DEF Bin!Quiet
<1>6. belated' = FALSE => belated = FALSE /\ \A p \in Commands : ~(pc[p].at = "back" /\ pc[p].path = place)
  <2>1. belated \in BOOLEAN
    BY <1>2 DEF FilesTyped
  <2> QED BY <1>1, <2>1
<1>7. crossed' = FALSE => belated' = FALSE
  <2>1. Bin!Idle.at # "back"
    BY DEF Bin!Idle
  <2> QED BY <1>1, <1>2, <1>5, <2>1 DEF FilesTyped
<1>8. StoreTyped'
  BY <1>1, <1>2, <1>4, <1>5 DEF StoreTyped, Alone
<1>9. FilesTyped'
  <2>1. disk' \in [Paths -> 0..MaxNumbers]
    BY <1>1, <1>2, <1>3 DEF FilesTyped
  <2> QED BY <1>1, <1>2, <1>3, <1>4, <1>5, <1>7, <2>1 DEF FilesTyped
<1>10. shared' = FALSE => NumbersApart'
  <2>1. Counting' = Counting /\ Taking' = Taking /\ Binned' = Binned
    BY <1>1 DEF Counting, Taking, Binned
  <2> QED BY <1>1, <1>2, <2>1 DEF FilesInv, NumbersApart
<1>11. belated' = FALSE => WayFree'
  <2> SUFFICES ASSUME belated' = FALSE, NEW p \in Commands, pc[p].at = "back", ~pc[p].force
               PROVE  disk'[pc[p].path] = Bin!Nothing
    BY <1>1 DEF WayFree
  <2>1. disk[pc[p].path] = Bin!Nothing /\ pc[p].path # place
    BY <1>2, <1>6 DEF FilesInv, WayFree
  <2> QED BY <1>1, <1>2, <2>1 DEF FilesTyped
<1>12. Bin!ContentKept'
  <2> SUFFICES ASSUME shared' = FALSE, belated' = FALSE, NEW v \in 1..made'
               PROVE  v \in (Bin!Contents \cup removed)'
    BY <1>9 DEF FilesTyped, Bin!ContentKept
  <2>1. CASE v = made + 1
    <3>1. disk'[place] = v
      BY <1>1, <1>2, <2>1 DEF FilesTyped
    <3> QED BY <3>1 DEF Bin!Contents
  <2>2. CASE v # made + 1
    <3>1. v \in 1..made /\ v # Bin!Nothing
      BY <1>1, <1>3, <2>2 DEF Bin!Nothing
    <3>2. v \in Bin!Contents \cup removed
      BY <1>1, <1>2, <1>6, <3>1 DEF FilesInv, Bin!ContentKept
    <3>3. ASSUME NEW q \in Paths, v = disk[q] PROVE v = disk'[q]
      BY <1>1, <1>2, <3>1, <3>3 DEF FilesTyped
    <3> QED BY <1>1, <3>2, <3>3 DEF Bin!Contents
  <2> QED BY <2>1, <2>2
<1>13. crossed' = FALSE /\ deaths' = 0 => LedgerHolds'
  <2>1. Binned' = Binned
    BY <1>1 DEF Binned
  <2> QED BY <1>1, <1>2, <1>5, <2>1 DEF FilesInv, LedgerHolds
<1> QED BY <1>1, <1>8, <1>9, <1>10, <1>11, <1>12, <1>13 DEF StoreInv, FilesInv

\* The commands that start.
LEMMA MoveStarts ==
    ASSUME StoreInv, area = "trash", NEW p \in Commands, NEW place \in Paths, Bin!Move(p, place)
    PROVE  StoreInv'
<1> DEFINE w == [at |-> "count", do |-> "move", path |-> place, id |-> Bin!Nothing]
<1>1. /\ Bin!Starts(p, w)
      /\ UNCHANGED <<counter, disk, bin, manifest, made, removed, standing, shared, belated, deaths, area>>
  BY DEF Bin!Move, Bin!trashVars, Bin!bulletinVars
<1>2. w \in TrashWorks /\ w.at = "count"
  BY DEF TrashWorks
<1> HIDE DEF w
<1>3. FilesInv /\ FilesTyped /\ StoreTyped /\ pc \in [Commands -> TrashWorks]
  BY DEF StoreInv, FilesInv, FilesTyped
<1>4. /\ pc' \in [Commands -> TrashWorks] /\ pc'[p] = w
      /\ \A q \in Commands : q # p => pc'[q] = pc[q]
      /\ crossed' \in BOOLEAN
      /\ crossed' = FALSE => crossed = FALSE /\ Alone' /\ \A q \in Commands : pc[q] = Bin!Idle
  BY <1>1, <1>2, <1>3, WorkStarts
<1>5. crossed' = FALSE /\ deaths' = 0 => LedgerHolds'
  <2> SUFFICES ASSUME crossed' = FALSE, deaths' = 0
               PROVE  LedgerHolds'
    OBVIOUS
  <2>1. Bin!Idle.at = "idle" /\ Binned' = Binned
    BY <1>1 DEF Bin!Idle, Binned
  <2>2. Ledger(manifest, Binned, counter) /\ counter # Bin!Empty
    BY <1>1, <1>3, <1>4, <2>1 DEF FilesInv, LedgerHolds
  <2> QED BY <1>1, <1>2, <1>4, <2>1, <2>2, LedgerGoes
<1> QED BY <1>1, <1>2, <1>3, <1>4, <1>5, WorkKeeps DEF FilesTyped, StoreTyped

LEMMA PurgeStarts ==
    ASSUME StoreInv, area = "trash", NEW p \in Commands, NEW i \in Bin!Ids, Bin!Purge(p, i)
    PROVE  StoreInv'
<1> DEFINE X == Bin!Expired(i)
           ids == {manifest[k].id : k \in X}
           list == [k \in 1..Len(manifest) |->
                      IF k \in X THEN [manifest[k] EXCEPT !.status = "purged"] ELSE manifest[k]]
           w == [at |-> "purge", ids |-> ids, entries |-> list]
<1>1. /\ Bin!Starts(p, w)
      /\ UNCHANGED <<counter, disk, bin, manifest, made, removed, standing, shared, belated, deaths, area>>
  BY DEF Bin!Purge, Bin!trashVars, Bin!bulletinVars
<1>2. FilesInv /\ FilesTyped /\ StoreTyped /\ pc \in [Commands -> TrashWorks] /\ manifest \in Seq(Entries)
  BY DEF StoreInv, FilesInv, FilesTyped
<1>3. X \subseteq 1..Len(manifest) /\ \A k \in X : manifest[k].status = "trashed"
  BY DEF Bin!Expired, Bin!InTrash
<1>4. \A k \in 1..Len(manifest) : manifest[k] \in Entries
  BY <1>2
<1>5. ids \in SUBSET Bin!Ids
  BY <1>3, <1>4, EntryIs
<1> HIDE DEF X
<1>6. \A k \in 1..Len(manifest) :
         /\ (IF k \in X THEN [manifest[k] EXCEPT !.status = "purged"] ELSE manifest[k]) \in Entries
         /\ (IF k \in X THEN [manifest[k] EXCEPT !.status = "purged"] ELSE manifest[k]).id = manifest[k].id
         /\ (IF k \in X THEN [manifest[k] EXCEPT !.status = "purged"] ELSE manifest[k]).status
              = IF k \in X THEN "purged" ELSE manifest[k].status
  BY <1>4 DEF Entries
<1>7. /\ list \in Seq(Entries) /\ Len(list) = Len(manifest)
      /\ \A k \in 1..Len(manifest) : /\ list[k].id = manifest[k].id
                                     /\ list[k].status = IF k \in X THEN "purged" ELSE manifest[k].status
  BY <1>2, <1>6
<1> HIDE DEF list
<1>8. w \in TrashWorks /\ w.at = "purge" /\ w.ids = ids /\ w.entries = list
  BY <1>5, <1>7 DEF TrashWorks
<1> HIDE DEF w
<1>9. /\ pc' \in [Commands -> TrashWorks] /\ pc'[p] = w
      /\ \A q \in Commands : q # p => pc'[q] = pc[q]
      /\ crossed' \in BOOLEAN
      /\ crossed' = FALSE => crossed = FALSE /\ Alone' /\ \A q \in Commands : pc[q] = Bin!Idle
  BY <1>1, <1>2, <1>8, WorkStarts
<1>10. crossed' = FALSE /\ deaths' = 0 => LedgerHolds'
  <2> SUFFICES ASSUME crossed' = FALSE, deaths' = 0
               PROVE  LedgerHolds'
    OBVIOUS
  <2>1. Bin!Idle.at = "idle" /\ Binned' = Binned
    BY <1>1 DEF Bin!Idle, Binned
  <2>2. Ledger(manifest, Binned, counter) /\ counter # Bin!Empty
    BY <1>1, <1>2, <1>9, <2>1 DEF FilesInv, LedgerHolds
  <2>3. Ledger(list, Binned \ ids, counter)
    BY <1>2, <1>3, <1>7, <2>2, LedgerMarks
  <2> HIDE DEF ids
  <2> QED BY <1>1, <1>8, <1>9, <2>1, <2>2, <2>3, LedgerGoes
<1> QED BY <1>1, <1>2, <1>8, <1>9, <1>10, WorkKeeps DEF FilesTyped, StoreTyped

LEMMA RestoreStarts ==
    ASSUME StoreInv, area = "trash", NEW p \in Commands, NEW i \in Bin!Ids, NEW force \in BOOLEAN,
           Bin!Restore(p, i, force)
    PROVE  StoreInv'
<1> DEFINE k == Bin!First(i)
           e == [manifest[k] EXCEPT !.status = "restored"]
           list == [manifest EXCEPT ![k] = e]
           place == manifest[k].path
           w == [at |-> "back", id |-> i, path |-> place, force |-> force, entries |-> list]
<1>1. /\ Bin!Starts(p, w) /\ Bin!Index(i) # {} /\ manifest[k].status = "trashed"
      /\ bin[i] # Bin!Nothing /\ (disk[place] = Bin!Nothing \/ force)
      /\ UNCHANGED <<counter, disk, bin, manifest, made, removed, standing, shared, belated, deaths, area>>
  BY DEF Bin!Restore, Bin!InTrash, Bin!WithStatus, Bin!trashVars, Bin!bulletinVars
<1>2. FilesInv /\ FilesTyped /\ StoreTyped /\ pc \in [Commands -> TrashWorks] /\ manifest \in Seq(Entries)
  BY DEF StoreInv, FilesInv, FilesTyped
<1>3. k \in 1..Len(manifest) /\ manifest[k].id = i
  <2>1. Bin!Index(i) \in SUBSET Nat
    BY DEF Bin!Index
  <2>2. \E n \in Bin!Index(i) : \A m \in Bin!Index(i) : n <= m
    BY <1>1, <2>1, LeastNumber
  <2>3. k \in Bin!Index(i)
    BY <2>2 DEF Bin!First
  <2> QED BY <2>3 DEF Bin!Index
<1> HIDE DEF k
<1>4. manifest[k] \in Entries /\ place \in Paths
  BY <1>2, <1>3, EntryIs
<1>5. e \in Entries /\ e.id = i /\ e.status = "restored"
  BY <1>3, <1>4 DEF Entries
<1> HIDE DEF e
<1>6. /\ list \in Seq(Entries) /\ Len(list) = Len(manifest)
      /\ \A l \in 1..Len(manifest) : list[l] = IF l = k THEN e ELSE manifest[l]
  BY <1>2, <1>3, <1>5
<1> HIDE DEF list
<1>7. /\ w \in TrashWorks /\ w.at = "back" /\ w.id = i /\ w.entries = list /\ w.path = place
      /\ w.force = force
  BY <1>4, <1>6 DEF TrashWorks
<1> HIDE DEF w, place
<1>8. /\ pc[p] = Bin!Idle /\ pc' \in [Commands -> TrashWorks] /\ pc'[p] = w
      /\ \A q \in Commands : q # p => pc'[q] = pc[q]
      /\ crossed' \in BOOLEAN
      /\ crossed' = FALSE => crossed = FALSE /\ Alone' /\ \A q \in Commands : pc[q] = Bin!Idle
  BY <1>1, <1>2, <1>7, WorkStarts
<1>9. Binned' = Binned /\ i \in Binned
  BY <1>1 DEF Binned
<1>10. StoreTyped'
  BY <1>1, <1>2, <1>8 DEF StoreTyped
<1>11. FilesTyped'
  BY <1>1, <1>2, <1>8 DEF FilesTyped
<1>12. shared' = FALSE => NumbersApart'
  <2>1. \A q \in Commands : pc'[q] = pc[q] \/ pc'[q].at \notin {"truncate", "fill", "take"}
    BY <1>7, <1>8
  <2> QED BY <1>1, <1>2, <1>9, <2>1, NumbersStay DEF FilesInv
<1>13. belated' = FALSE => WayFree'
  <2> SUFFICES ASSUME belated' = FALSE, NEW q \in Commands, pc'[q].at = "back", ~pc'[q].force
               PROVE  disk'[pc'[q].path] = Bin!Nothing
    BY DEF WayFree
  <2>1. CASE q = p
    BY <1>1, <1>7, <1>8, <2>1
  <2>2. CASE q # p
    BY <1>1, <1>2, <1>8, <2>2 DEF FilesInv, WayFree
  <2> QED BY <2>1, <2>2
<1>14. Bin!ContentKept'
  <2>1. (Bin!Contents \cup removed)' = Bin!Contents \cup removed
    BY <1>1 DEF Bin!Contents
  <2> QED BY <1>1, <1>2, <2>1 DEF FilesInv, Bin!ContentKept
<1>15. crossed' = FALSE /\ deaths' = 0 => LedgerHolds'
  <2> SUFFICES ASSUME crossed' = FALSE, deaths' = 0
               PROVE  LedgerHolds'
    OBVIOUS
  <2>1. Bin!Idle.at = "idle"
    BY DEF Bin!Idle
  <2>2. Ledger(manifest, Binned, counter) /\ counter # Bin!Empty
    BY <1>1, <1>2, <1>8, <2>1 DEF FilesInv, LedgerHolds
  <2> DEFINE X == {k}
  <2>3. X \in SUBSET (1..Len(manifest)) /\ \A l \in X : manifest[l].status = "trashed"
    BY <1>1, <1>3
  <2>4. \A l \in 1..Len(manifest) : /\ list[l].id = manifest[l].id
                                    /\ list[l].status = IF l \in X THEN "restored" ELSE manifest[l].status
    BY <1>3, <1>5, <1>6
  <2>5. {manifest[l].id : l \in X} = {i}
    BY <1>3
  <2> HIDE DEF X
  <2>6. Ledger(list, Binned \ {manifest[l].id : l \in X}, counter)
    BY <1>2, <1>6, <2>2, <2>3, <2>4, LedgerMarks
  <2>7. Ledger(list, Binned \ {i}, counter)
    BY <2>5, <2>6
  <2> QED BY <1>1, <1>7, <1>8, <1>9, <2>1, <2>2, <2>7, LedgerGoes
<1> QED BY <1>1, <1>10, <1>11, <1>12, <1>13, <1>14, <1>15 DEF StoreInv, FilesInv

\* A process that ends, by itself or not, or writes the manifest.
LEMMA WorkEnds ==
    ASSUME StoreInv, area = "trash", area' = area, NEW p \in Commands, pc[p] # Bin!Idle,
           pc' = [pc EXCEPT ![p] = Bin!Idle],
           UNCHANGED <<counter, disk, bin, made, removed, standing>>,
           manifest' \in Seq(Entries), deaths' \in 0..MaxDeaths, crossed' = crossed,
           shared' \in BOOLEAN, shared' = FALSE => shared = FALSE,
           belated' \in BOOLEAN, belated' = FALSE => belated = FALSE,
           crossed' = FALSE => shared' = FALSE /\ belated' = FALSE,
           crossed' = FALSE /\ deaths' = 0 =>
             Ledger(manifest', Binned, counter) /\ counter # Bin!Empty
    PROVE  StoreInv'
<1>1. FilesInv /\ FilesTyped /\ StoreTyped /\ pc \in [Commands -> TrashWorks]
  BY DEF StoreInv, FilesInv, FilesTyped
<1>2. Bin!Idle \in TrashWorks /\ Bin!Idle.at = "idle"
  BY DEF TrashWorks, Bin!Idle
<1>3. /\ pc' \in [Commands -> TrashWorks] /\ pc'[p] = Bin!Idle
      /\ \A q \in Commands : q # p => pc'[q] = pc[q]
      /\ crossed = FALSE => Alone' /\ \A q \in Commands : q # p => pc[q] = Bin!Idle
  BY <1>1, <1>2, WorkGoes
<1>4. Binned' = Binned
  BY DEF Binned
<1>5. crossed' = FALSE /\ deaths' = 0 => LedgerHolds'
  BY <1>2, <1>3, <1>4, LedgerGoes
<1> QED BY <1>1, <1>2, <1>3, <1>5, WorkKeeps DEF StoreTyped

\* A process dies.
LEMMA WorkDies ==
    ASSUME StoreInv, area = "trash", NEW p \in Commands, Bin!Die(p)
    PROVE  StoreInv'
<1>1. /\ pc[p] # Bin!Idle /\ deaths < MaxDeaths /\ deaths' = deaths + 1
      /\ pc' = [pc EXCEPT ![p] = Bin!Idle]
      /\ UNCHANGED <<counter, disk, bin, manifest, made, removed, standing, shared, belated, crossed, area>>
  BY DEF Bin!Die, Bin!Ends, Bin!Goes, Bin!trashVars, Bin!bulletinVars
<1>2. deaths' \in 0..MaxDeaths /\ deaths' # 0
  BY <1>1, TrashConstantsHold DEF StoreInv, StoreTyped
<1>3. FilesTyped
  BY DEF StoreInv, FilesInv
<1> QED BY <1>1, <1>2, <1>3, WorkEnds DEF FilesTyped

\* The steps that take an identifier.
LEMMA CounterRead ==
    ASSUME StoreInv, area = "trash", NEW p \in Commands, Bin!ReadCounter(p)
    PROVE  StoreInv'
<1>1. /\ pc[p].at = "count"
      /\ \/ counter = Bin!Empty /\ pc' = [pc EXCEPT ![p] = Bin!Idle]
         \/ counter \in Bin!Ids /\ pc' = [pc EXCEPT ![p] = [pc[p] EXCEPT !.at = "truncate", !.id = counter]]
      /\ shared' = (shared \/ \E q \in Commands \ {p} :
                      pc[q].at \in {"truncate", "fill", "take"} /\ pc[q].id = counter)
      /\ UNCHANGED <<counter, disk, bin, manifest, made, removed, standing, belated, crossed, deaths, area>>
  BY DEF Bin!ReadCounter, Bin!Ends, Bin!Goes, Bin!trashVars, Bin!bulletinVars
<1>2. FilesInv /\ FilesTyped /\ StoreTyped /\ pc \in [Commands -> TrashWorks]
  BY DEF StoreInv, FilesInv, FilesTyped
<1>3. pc[p] # Bin!Idle
  BY <1>1 DEF Bin!Idle
<1>4. shared' \in BOOLEAN
  BY <1>1
<1>5. shared' = FALSE => shared = FALSE /\ \A q \in Commands \ {p} :
                                              ~(pc[q].at \in {"truncate", "fill", "take"} /\ pc[q].id = counter)
  <2>1. shared \in BOOLEAN
    BY <1>2 DEF FilesTyped
  <2> QED BY <1>1, <2>1
<1>6. crossed = FALSE => \A q \in Commands : q # p => pc[q] = Bin!Idle
  BY <1>2, <1>3 DEF StoreTyped, Alone
<1>7. crossed' = FALSE => shared' = FALSE /\ belated' = FALSE
  <2>1. Bin!Idle.at = "idle"
    BY DEF Bin!Idle
  <2> QED BY <1>1, <1>2, <1>6, <2>1 DEF FilesTyped
<1>8. crossed = FALSE /\ deaths = 0 => Ledger(manifest, Binned, counter) /\ counter # Bin!Empty
  <2>1. Bin!Idle.at = "idle"
    BY DEF Bin!Idle
  <2> QED BY <1>1, <1>2, <1>6, <2>1 DEF FilesInv, LedgerHolds
<1>9. CASE counter = Bin!Empty /\ pc' = [pc EXCEPT ![p] = Bin!Idle]
  BY <1>1, <1>2, <1>3, <1>4, <1>5, <1>7, <1>8, <1>9, WorkEnds DEF FilesTyped, StoreTyped
<1>10. CASE counter \in Bin!Ids /\ pc' = [pc EXCEPT ![p] = [pc[p] EXCEPT !.at = "truncate", !.id = counter]]
  <2> DEFINE w == [pc[p] EXCEPT !.at = "truncate", !.id = counter]
  <2>1. pc[p] \in [at : {"count"}, do : {"move"}, path : Paths, id : {Bin!Nothing}]
    BY <1>1, <1>2, WorkIs
  <2>2. w \in TrashWorks /\ w.at = "truncate" /\ w.id = counter
    BY <1>10, <2>1 DEF TrashWorks
  <2> HIDE DEF w
  <2>3. /\ pc' \in [Commands -> TrashWorks] /\ pc'[p] = w
        /\ \A q \in Commands : q # p => pc'[q] = pc[q]
        /\ crossed = FALSE => Alone'
    BY <1>2, <1>3, <1>10, <2>2, WorkGoes DEF w
  <2>4. Binned' = Binned
    BY <1>1 DEF Binned
  <2>5. Taking' = Taking
    BY <1>1, <2>2, <2>3 DEF Taking
  <2>6. \A q \in Taking : q # p /\ pc'[q] = pc[q]
    BY <1>1, <2>3 DEF Taking
  <2>7. Counting' = Counting \cup {p} /\ p \notin Counting
    BY <1>1, <2>2, <2>3 DEF Counting
  <2>8. counter # Bin!Empty
    BY <1>10, TrashConstantsHold DEF Bin!Ids, Bin!Empty
  <2>9. shared' = FALSE => NumbersApart'
    <3> SUFFICES ASSUME shared' = FALSE
                 PROVE  NumbersApart'
      OBVIOUS
    <3>1. NumbersApart
      BY <1>2, <1>5 DEF FilesInv
    <3>2. Counting = {}
      <4> SUFFICES ASSUME NEW q \in Counting
                   PROVE  FALSE
        OBVIOUS
      <4>1. q \in Commands /\ q # p /\ pc[q].at \in {"truncate", "fill"}
        BY <2>7 DEF Counting
      <4>2. pc[q].at = "fill" => counter = Bin!Empty
        BY <3>1 DEF NumbersApart
      <4>3. pc[q].at = "truncate" => counter = pc[q].id
        BY <3>1 DEF NumbersApart
      <4> QED BY <1>5, <2>8, <4>1, <4>2, <4>3
    <3>3. Counting' = {p}
      BY <2>7, <3>2
    <3> QED BY <1>1, <2>2, <2>3, <2>4, <2>5, <2>6, <2>8, <3>1, <3>3 DEF NumbersApart
  <2>10. belated' = FALSE => WayFree'
    <3>1. \A q \in Commands : pc[q].at = "back" => pc[q].path \in Paths
      BY <1>2, WorkIs
    <3>2. \A q \in Commands : pc'[q] = pc[q] \/ pc'[q].at # "back"
      BY <2>2, <2>3
    <3> QED BY <1>1, <1>2, <3>1, <3>2, WayStays DEF FilesInv
  <2>11. Bin!ContentKept'
    <3>1. (Bin!Contents \cup removed)' = Bin!Contents \cup removed
      BY <1>1 DEF Bin!Contents
    <3> QED BY <1>1, <1>2, <1>4, <1>5, <3>1 DEF FilesInv, FilesTyped, Bin!ContentKept
  <2>12. crossed' = FALSE /\ deaths' = 0 => LedgerHolds'
    BY <1>1, <1>6, <1>8, <2>2, <2>3, <2>4, LedgerGoes
  <2>13. StoreTyped'
    BY <1>1, <1>2, <2>3 DEF StoreTyped
  <2>14. FilesTyped'
    BY <1>1, <1>2, <1>4, <1>7, <2>3 DEF FilesTyped
  <2> QED BY <1>1, <2>9, <2>10, <2>11, <2>12, <2>13, <2>14 DEF StoreInv, FilesInv
<1> QED BY <1>1, <1>9, <1>10

LEMMA CounterTruncated ==
    ASSUME StoreInv, area = "trash", NEW p \in Commands, Bin!TruncateCounter(p)
    PROVE  StoreInv'
<1> DEFINE w == [pc[p] EXCEPT !.at = "fill"]
<1>1. /\ pc[p].at = "truncate" /\ counter' = Bin!Empty /\ pc' = [pc EXCEPT ![p] = w]
      /\ UNCHANGED <<disk, bin, manifest, made, removed, standing, shared, belated, crossed, deaths, area>>
  BY DEF Bin!TruncateCounter, Bin!Goes, Bin!Same, Bin!trashVars, Bin!bulletinVars
<1>2. FilesInv /\ FilesTyped /\ StoreTyped /\ pc \in [Commands -> TrashWorks]
  BY DEF StoreInv, FilesInv, FilesTyped
<1>3. pc[p] \in [at : {"truncate", "fill", "take"}, do : {"move"}, path : Paths, id : Bin!Ids]
  BY <1>1, <1>2, WorkIs
<1>4. pc[p] # Bin!Idle
  BY <1>1 DEF Bin!Idle
<1>5. w \in TrashWorks /\ w.at = "fill" /\ w.id = pc[p].id
  BY <1>3 DEF TrashWorks
<1> HIDE DEF w
<1>6. /\ pc' \in [Commands -> TrashWorks] /\ pc'[p] = w
      /\ \A q \in Commands : q # p => pc'[q] = pc[q]
      /\ crossed = FALSE => Alone' /\ \A q \in Commands : q # p => pc[q] = Bin!Idle
  BY <1>1, <1>2, <1>4, <1>5, WorkGoes
<1>7. Binned' = Binned
  BY <1>1 DEF Binned
<1>8. Taking' = Taking
  BY <1>1, <1>5, <1>6 DEF Taking
<1>9. \A q \in Taking : q # p /\ pc'[q] = pc[q]
  BY <1>1, <1>6 DEF Taking
<1>10. Counting' = Counting /\ p \in Counting
  BY <1>1, <1>5, <1>6 DEF Counting
<1>11. pc[p].id # Bin!Empty
  BY <1>3, TrashConstantsHold DEF Bin!Ids, Bin!Empty
<1>12. shared' = FALSE => NumbersApart'
  <2> SUFFICES ASSUME shared' = FALSE
               PROVE  NumbersApart'
    OBVIOUS
  <2>1. NumbersApart
    BY <1>1, <1>2 DEF FilesInv
  <2>2. Counting' = {p}
    BY <1>10, <2>1 DEF NumbersApart
  <2>3. counter = pc[p].id
    BY <1>1, <1>10, <2>1 DEF NumbersApart
  <2> QED BY <1>1, <1>5, <1>6, <1>7, <1>8, <1>9, <1>11, <2>1, <2>2, <2>3 DEF NumbersApart
<1>13. belated' = FALSE => WayFree'
  <2>1. \A q \in Commands : pc[q].at = "back" => pc[q].path \in Paths
    BY <1>2, WorkIs
  <2>2. \A q \in Commands : pc'[q] = pc[q] \/ pc'[q].at # "back"
    BY <1>5, <1>6
  <2> QED BY <1>1, <1>2, <2>1, <2>2, WayStays DEF FilesInv
<1>14. Bin!ContentKept'
  <2>1. (Bin!Contents \cup removed)' = Bin!Contents \cup removed
    BY <1>1 DEF Bin!Contents
  <2> QED BY <1>1, <1>2, <2>1 DEF FilesInv, Bin!ContentKept
<1>15. crossed' = FALSE /\ deaths' = 0 => LedgerHolds'
  <2> SUFFICES ASSUME crossed' = FALSE, deaths' = 0
               PROVE  LedgerHolds'
    OBVIOUS
  <2>1. Bin!Idle.at = "idle"
    BY DEF Bin!Idle
  <2>2. Ledger(manifest, Binned, counter)
    BY <1>1, <1>2, <1>6, <2>1 DEF FilesInv, LedgerHolds
  <2>3. shared = FALSE
    BY <1>1, <1>2 DEF FilesTyped
  <2>4. counter = pc[p].id
    BY <1>1, <1>2, <1>10, <2>3 DEF FilesInv, NumbersApart
  <2> QED BY <1>1, <1>5, <1>6, <1>7, <2>2, <2>4, LedgerGoes
<1>16. StoreTyped'
  BY <1>1, <1>2, <1>6 DEF StoreTyped
<1>17. FilesTyped'
  BY <1>1, <1>2, <1>6 DEF FilesTyped
<1> QED BY <1>1, <1>12, <1>13, <1>14, <1>15, <1>16, <1>17 DEF StoreInv, FilesInv

LEMMA CounterFilled ==
    ASSUME StoreInv, area = "trash", NEW p \in Commands, Bin!FillCounter(p)
    PROVE  StoreInv'
<1> DEFINE w == [pc[p] EXCEPT !.at = "take"]
<1>1. /\ pc[p].at = "fill" /\ counter' = pc[p].id + 1 /\ pc' = [pc EXCEPT ![p] = w]
      /\ UNCHANGED <<disk, bin, manifest, made, removed, standing, shared, belated, crossed, deaths, area>>
  BY DEF Bin!FillCounter, Bin!Goes, Bin!Same, Bin!trashVars, Bin!bulletinVars
<1>2. FilesInv /\ FilesTyped /\ StoreTyped /\ pc \in [Commands -> TrashWorks]
  BY DEF StoreInv, FilesInv, FilesTyped
<1>3. pc[p] \in [at : {"truncate", "fill", "take"}, do : {"move"}, path : Paths, id : Bin!Ids]
  BY <1>1, <1>2, WorkIs
<1>4. pc[p] # Bin!Idle
  BY <1>1 DEF Bin!Idle
<1>5. w \in TrashWorks /\ w.at = "take" /\ w.id = pc[p].id
  BY <1>3 DEF TrashWorks
<1> HIDE DEF w
<1>6. /\ pc' \in [Commands -> TrashWorks] /\ pc'[p] = w
      /\ \A q \in Commands : q # p => pc'[q] = pc[q]
      /\ crossed = FALSE => Alone' /\ \A q \in Commands : q # p => pc[q] = Bin!Idle
  BY <1>1, <1>2, <1>4, <1>5, WorkGoes
<1>7. Binned' = Binned /\ Binned \subseteq Nat
  BY <1>1, TrashConstantsHold DEF Binned, Bin!Ids
<1>8. Taking' = Taking \cup {p} /\ p \notin Taking
  BY <1>1, <1>5, <1>6 DEF Taking
<1>9. \A q \in Taking : q # p /\ pc'[q] = pc[q] /\ pc[q].id \in Nat
  <2>1. \A q \in Taking : q \in Commands /\ pc[q].at = "take" /\ pc[q] \in TrashWorks
    BY <1>2 DEF Taking
  <2>2. \A q \in Taking : pc[q] \in [at : {"truncate", "fill", "take"}, do : {"move"}, path : Paths, id : Bin!Ids]
    BY <2>1, WorkIs
  <2>3. \A q \in Taking : pc[q].id \in Nat
    BY <2>2, TrashConstantsHold DEF Bin!Ids
  <2> QED BY <1>6, <1>8, <2>1, <2>3
<1>10. p \in Counting /\ p \notin Counting' /\ Counting' \subseteq Counting
  BY <1>1, <1>5, <1>6 DEF Counting
<1>11. pc[p].id \in Nat /\ pc[p].id + 1 \in 1..(MaxNumbers + 1)
  BY <1>3, TrashConstantsHold DEF Bin!Ids
<1>12. pc[p].id + 1 # Bin!Empty
  BY <1>11 DEF Bin!Empty
<1>13. shared' = FALSE => NumbersApart'
  <2> SUFFICES ASSUME shared' = FALSE
               PROVE  NumbersApart'
    OBVIOUS
  <2>1. NumbersApart
    BY <1>1, <1>2 DEF FilesInv
  <2>2. Counting' = {}
    BY <1>10, <2>1 DEF NumbersApart
  <2>3. /\ \A i \in Binned : i < pc[p].id
        /\ \A q \in Taking : pc[q].id < pc[p].id
    BY <1>1, <1>10, <2>1 DEF NumbersApart
  <2>4. \A q \in Taking : pc[q].id \notin Binned
    BY <2>1 DEF NumbersApart
  <2>5. pc[p].id \notin Binned
    BY <1>11, <2>3
  <2>6. \A q \in Taking' : pc'[q].id \notin Binned'
    BY <1>5, <1>6, <1>7, <1>8, <1>9, <2>4, <2>5
  <2>7. \A q, r \in Taking' : pc'[q].id = pc'[r].id => q = r
    <3>1. \A q, r \in Taking : pc[q].id = pc[r].id => q = r
      BY <2>1 DEF NumbersApart
    <3>2. \A q \in Taking : pc[q].id # pc[p].id
      BY <1>9, <1>11, <2>3
    <3> QED BY <1>5, <1>6, <1>8, <1>9, <3>1, <3>2
  <2>8. \A i \in Binned' : i < counter'
    BY <1>1, <1>7, <1>11, <2>3
  <2>9. \A q \in Taking' : pc'[q].id < counter'
    BY <1>1, <1>5, <1>6, <1>8, <1>9, <1>11, <2>3
  <2> HIDE DEF Counting, Taking
  <2> QED BY <2>2, <2>6, <2>7, <2>8, <2>9 DEF NumbersApart
<1>14. belated' = FALSE => WayFree'
  <2>1. \A q \in Commands : pc[q].at = "back" => pc[q].path \in Paths
    BY <1>2, WorkIs
  <2>2. \A q \in Commands : pc'[q] = pc[q] \/ pc'[q].at # "back"
    BY <1>5, <1>6
  <2> QED BY <1>1, <1>2, <2>1, <2>2, WayStays DEF FilesInv
<1>15. Bin!ContentKept'
  <2>1. (Bin!Contents \cup removed)' = Bin!Contents \cup removed
    BY <1>1 DEF Bin!Contents
  <2> QED BY <1>1, <1>2, <2>1 DEF FilesInv, Bin!ContentKept
<1>16. crossed' = FALSE /\ deaths' = 0 => LedgerHolds'
  <2> SUFFICES ASSUME crossed' = FALSE, deaths' = 0
               PROVE  LedgerHolds'
    OBVIOUS
  <2>1. Ledger(manifest, Binned, pc[p].id)
    BY <1>1, <1>2 DEF FilesInv, LedgerHolds
  <2> QED BY <1>1, <1>5, <1>6, <1>7, <2>1, LedgerGoes
<1>17. StoreTyped'
  BY <1>1, <1>2, <1>6, <1>11 DEF StoreTyped
<1>18. FilesTyped'
  BY <1>1, <1>2, <1>6 DEF FilesTyped
<1> QED BY <1>1, <1>13, <1>14, <1>15, <1>16, <1>17, <1>18 DEF StoreInv, FilesInv

\* The steps that move a file.
LEMMA FileTaken ==
    ASSUME StoreInv, area = "trash", NEW p \in Commands, Bin!TakeFile(p)
    PROVE  StoreInv'
<1> DEFINE i == pc[p].id
           place == pc[p].path
           c == disk[place]
           w == [at |-> "enter", id |-> i, path |-> place]
<1>1. /\ pc[p].at = "take"
      /\ \/ c = Bin!Nothing /\ pc' = [pc EXCEPT ![p] = Bin!Idle] /\ UNCHANGED <<disk, bin>>
         \/ /\ c # Bin!Nothing
            /\ bin' = [bin EXCEPT ![i] = c] /\ disk' = [disk EXCEPT ![place] = Bin!Nothing]
            /\ pc' = [pc EXCEPT ![p] = w]
      /\ UNCHANGED <<counter, manifest, made, removed, standing, shared, belated, crossed, deaths, area>>
  BY DEF Bin!TakeFile, Bin!Ends, Bin!Goes, Bin!Same, Bin!bulletinVars
<1>2. FilesInv /\ FilesTyped /\ StoreTyped /\ pc \in [Commands -> TrashWorks] /\ manifest \in Seq(Entries)
  BY DEF StoreInv, FilesInv, FilesTyped
<1>3. pc[p] \in [at : {"truncate", "fill", "take"}, do : {"move"}, path : Paths, id : Bin!Ids]
  BY <1>1, <1>2, WorkIs
<1>4. pc[p] # Bin!Idle
  BY <1>1 DEF Bin!Idle
<1>5. i \in Bin!Ids /\ place \in Paths /\ i \in Nat
  BY <1>3, TrashConstantsHold DEF Bin!Ids
<1>6. p \in Taking
  BY <1>1 DEF Taking
<1>7. crossed = FALSE /\ deaths = 0 => Ledger(manifest, Binned, i) /\ counter = i + 1
  BY <1>1, <1>2 DEF FilesInv, LedgerHolds
<1>8. CASE c = Bin!Nothing /\ pc' = [pc EXCEPT ![p] = Bin!Idle] /\ UNCHANGED <<disk, bin>>
  <2>1. crossed = FALSE /\ deaths = 0 => Ledger(manifest, Binned, counter) /\ counter # Bin!Empty
    <3>1. i + 1 \in Nat /\ i <= i + 1 /\ i + 1 # Bin!Empty
      BY <1>5 DEF Bin!Empty
    <3> QED BY <1>2, <1>5, <1>7, <3>1, LedgerLater
  <2> QED BY <1>1, <1>2, <1>4, <1>8, <2>1, WorkEnds DEF FilesTyped, StoreTyped
<1>9. CASE /\ c # Bin!Nothing
           /\ bin' = [bin EXCEPT ![i] = c] /\ disk' = [disk EXCEPT ![place] = Bin!Nothing]
           /\ pc' = [pc EXCEPT ![p] = w]
  <2>1. w \in TrashWorks /\ w.at = "enter" /\ w.id = i
    BY <1>5 DEF TrashWorks
  <2> HIDE DEF w
  <2>2. /\ pc' \in [Commands -> TrashWorks] /\ pc'[p] = w
        /\ \A q \in Commands : q # p => pc'[q] = pc[q]
        /\ crossed = FALSE => Alone' /\ \A q \in Commands : q # p => pc[q] = Bin!Idle
    BY <1>2, <1>4, <1>9, <2>1, WorkGoes
  <2>3. c \in 0..MaxNumbers
    BY <1>2, <1>5 DEF FilesTyped
  <2> HIDE DEF i, place, c
  <2>4. bin' \in [Bin!Ids -> 0..MaxNumbers] /\ disk' \in [Paths -> 0..MaxNumbers]
    BY <1>2, <1>5, <1>9, <2>3, TrashConstantsHold DEF FilesTyped, Bin!Nothing
  <2>5. bin \in [Bin!Ids -> 0..MaxNumbers] /\ disk \in [Paths -> 0..MaxNumbers]
    BY <1>2 DEF FilesTyped
  <2>6. bin'[i] = c /\ disk'[place] = Bin!Nothing
    BY <1>5, <1>9, <2>5
  <2>7. Binned' = Binned \cup {i}
    BY <1>5, <1>9, <2>5 DEF Binned
  <2>8. Taking' = Taking \ {p} /\ Counting' = Counting /\ p \notin Counting
    BY <1>1, <2>1, <2>2 DEF Taking, Counting
  <2>9. \A q \in Counting \cup Taking' : q \in Commands /\ q # p /\ pc'[q] = pc[q]
    BY <2>2, <2>8 DEF Counting, Taking
  <2>10. shared = FALSE => NumbersApart /\ i \notin Binned
    BY <1>2, <1>6 DEF FilesInv, NumbersApart, i
  <2>11. shared' = FALSE => NumbersApart'
    <3> SUFFICES ASSUME shared' = FALSE
                 PROVE  NumbersApart'
      OBVIOUS
    <3>1. NumbersApart
      BY <1>1, <2>10
    <3>2. \A q \in Taking' : pc'[q].id \notin Binned'
      <4>1. \A q \in Taking' : pc[q].id # i
        BY <1>6, <2>8, <2>9, <3>1 DEF NumbersApart, i
      <4> QED BY <2>7, <2>8, <2>9, <3>1, <4>1 DEF NumbersApart
    <3>3. counter # Bin!Empty => \A j \in Binned' : j < counter
      BY <1>6, <2>7, <3>1 DEF NumbersApart, i
    <3>4. \A q \in Counting : pc[q].at = "fill" => \A j \in Binned' : j < pc[q].id
      BY <1>6, <2>7, <3>1 DEF NumbersApart, i
    <3> HIDE DEF Counting, Taking, Binned
    <3> QED BY <1>1, <2>8, <2>9, <3>1, <3>2, <3>3, <3>4 DEF NumbersApart
  <2>12. belated' = FALSE => WayFree'
    <3>1. \A q \in Commands : pc[q].at = "back" => pc[q].path \in Paths
      BY <1>2, WorkIs
    <3>2. \A q \in Commands : pc'[q] = pc[q] \/ pc'[q].at # "back"
      BY <2>1, <2>2
    <3>3. \A q \in Paths : disk'[q] = disk[q] \/ disk'[q] = Bin!Nothing
      BY <1>9, <2>5
    <3> QED BY <1>1, <1>2, <3>1, <3>2, <3>3, WayStays DEF FilesInv
  <2>13. Bin!ContentKept'
    <3>1. c \in Bin!Contents'
      BY <1>5, <2>6 DEF Bin!Contents
    <3>2. \A q \in Paths : disk[q] # Bin!Nothing => disk[q] \in (Bin!Contents \cup removed)'
      <4>1. \A q \in Paths : q # place => disk'[q] = disk[q]
        BY <1>9, <2>5
      <4>2. disk[place] = c
        BY DEF c
      <4> QED BY <3>1, <4>1, <4>2 DEF Bin!Contents
    <3>3. shared = FALSE => \A j \in Bin!Ids : bin[j] # Bin!Nothing => bin[j] \in (Bin!Contents \cup removed)'
      <4> SUFFICES ASSUME shared = FALSE, NEW j \in Bin!Ids, bin[j] # Bin!Nothing
                   PROVE  bin[j] \in (Bin!Contents \cup removed)'
        OBVIOUS
      <4>1. j # i
        BY <2>10 DEF Binned
      <4>2. bin'[j] = bin[j]
        BY <1>9, <2>5, <4>1
      <4> QED BY <4>2 DEF Bin!Contents
    <3> QED BY <1>1, <1>2, <3>2, <3>3, ContentStays DEF FilesInv, FilesTyped
  <2>14. crossed' = FALSE /\ deaths' = 0 => LedgerHolds'
    <3> SUFFICES ASSUME crossed' = FALSE, deaths' = 0
                 PROVE  LedgerHolds'
      OBVIOUS
    <3>1. shared = FALSE
      BY <1>1, <1>2 DEF FilesTyped
    <3>2. Binned' \ {i} = Binned
      BY <2>7, <2>10, <3>1
    <3> QED BY <1>1, <1>7, <2>1, <2>2, <2>7, <3>2, LedgerGoes
  <2>15. StoreTyped'
    BY <1>1, <1>2, <2>2 DEF StoreTyped
  <2>16. FilesTyped'
    BY <1>1, <1>2, <2>2, <2>4 DEF FilesTyped
  <2> QED BY <1>1, <2>11, <2>12, <2>13, <2>14, <2>15, <2>16 DEF StoreInv, FilesInv
<1> QED BY <1>1, <1>8, <1>9

\* The way of a forced restore is cleared.
LEMMA WayCleared ==
    ASSUME StoreInv, area = "trash", NEW p \in Commands, Bin!ClearWay(p)
    PROVE  StoreInv'
<1> DEFINE place == pc[p].path
<1>1. /\ pc[p].at = "back" /\ disk' = [disk EXCEPT ![place] = Bin!Nothing]
      /\ removed' = removed \cup {disk[place]}
      /\ UNCHANGED <<counter, bin, manifest, made, pc, standing, shared, belated, crossed, deaths, area>>
  BY DEF Bin!ClearWay, Bin!Same, Bin!bulletinVars
<1>2. FilesInv /\ FilesTyped /\ StoreTyped /\ disk \in [Paths -> 0..MaxNumbers]
  BY DEF StoreInv, FilesInv, FilesTyped
<1>3. \A q \in Commands : pc[q].at = "back" => pc[q].path \in Paths
  BY <1>2, WorkIs DEF FilesTyped
<1>4. place \in Paths
  BY <1>1, <1>3
<1> HIDE DEF place
<1>5. disk' \in [Paths -> 0..MaxNumbers] /\ \A q \in Paths : q # place => disk'[q] = disk[q]
  BY <1>1, <1>2, <1>4, TrashConstantsHold DEF Bin!Nothing
<1>6. \A q \in Paths : disk'[q] = disk[q] \/ disk'[q] = Bin!Nothing
  BY <1>1, <1>2
<1>7. StoreTyped'
  BY <1>1, <1>2 DEF StoreTyped, Alone
<1>8. FilesTyped'
  BY <1>1, <1>2, <1>5 DEF FilesTyped
<1>9. Counting' = Counting /\ Taking' = Taking /\ Binned' = Binned
  BY <1>1 DEF Counting, Taking, Binned
<1>10. shared' = FALSE => NumbersApart'
  BY <1>1, <1>2, <1>9 DEF FilesInv, NumbersApart
<1>11. belated' = FALSE => WayFree'
  BY <1>1, <1>2, <1>3, <1>6, WayStays DEF FilesInv
<1>12. Bin!ContentKept'
  <2>1. \A q \in Paths : disk[q] \in (Bin!Contents \cup removed)'
    BY <1>1, <1>5 DEF Bin!Contents
  <2>2. \A i \in Bin!Ids : bin[i] \in (Bin!Contents \cup removed)'
    BY <1>1 DEF Bin!Contents
  <2> QED BY <1>1, <1>2, <2>1, <2>2, ContentStays DEF FilesInv, FilesTyped
<1>13. crossed' = FALSE /\ deaths' = 0 => LedgerHolds'
  BY <1>1, <1>2, <1>9 DEF FilesInv, LedgerHolds
<1> QED BY <1>1, <1>7, <1>8, <1>10, <1>11, <1>12, <1>13 DEF StoreInv, FilesInv

\* The file of a restore comes back.
LEMMA FileBack ==
    ASSUME StoreInv, area = "trash", NEW p \in Commands, Bin!PutBack(p)
    PROVE  StoreInv'
<1> DEFINE i == pc[p].id
           place == pc[p].path
           c == bin[i]
           w == [at |-> "save", entries |-> pc[p].entries]
<1>1. /\ pc[p].at = "back" /\ ~(pc[p].force /\ disk[place] # Bin!Nothing)
      /\ \/ c = Bin!Nothing /\ pc' = [pc EXCEPT ![p] = Bin!Idle] /\ UNCHANGED <<disk, bin>>
         \/ /\ c # Bin!Nothing
            /\ disk' = [disk EXCEPT ![place] = c] /\ bin' = [bin EXCEPT ![i] = Bin!Nothing]
            /\ pc' = [pc EXCEPT ![p] = w]
      /\ belated' = (belated \/ \E q \in Commands \ {p} : pc[q].at = "back" /\ pc[q].path = place)
      /\ UNCHANGED <<counter, manifest, made, removed, standing, shared, crossed, deaths, area>>
  BY DEF Bin!PutBack, Bin!Ends, Bin!Goes, Bin!Saves, Bin!bulletinVars
<1>2. FilesInv /\ FilesTyped /\ StoreTyped /\ pc \in [Commands -> TrashWorks] /\ manifest \in Seq(Entries)
  BY DEF StoreInv, FilesInv, FilesTyped
<1>3. /\ pc[p] \in [at : {"back"}, id : Bin!Ids, path : Paths, force : BOOLEAN, entries : Seq(Entries)]
      /\ pc[p] # Bin!Idle
  BY <1>1, <1>2, WorkIs DEF Bin!Idle
<1>4. i \in Bin!Ids /\ place \in Paths /\ pc[p].entries \in Seq(Entries) /\ pc[p].force \in BOOLEAN
  BY <1>3
<1>5. belated' \in BOOLEAN
  BY <1>1
<1>6. belated' = FALSE => belated = FALSE /\ \A q \in Commands \ {p} : ~(pc[q].at = "back" /\ pc[q].path = place)
  <2>1. belated \in BOOLEAN
    BY <1>2 DEF FilesTyped
  <2> QED BY <1>1, <2>1
<1>7. crossed = FALSE => \A q \in Commands : q # p => pc[q] = Bin!Idle
  BY <1>2, <1>3 DEF StoreTyped, Alone
<1>8. crossed' = FALSE => shared' = FALSE /\ belated' = FALSE
  <2>1. Bin!Idle.at = "idle"
    BY DEF Bin!Idle
  <2> QED BY <1>1, <1>2, <1>7, <2>1 DEF FilesTyped
<1>9. crossed = FALSE /\ deaths = 0 =>
        /\ Ledger(pc[p].entries, Binned \ {i}, counter) /\ counter # Bin!Empty
        /\ c # Bin!Nothing
  BY <1>1, <1>2 DEF FilesInv, LedgerHolds, Binned
<1>10. CASE c = Bin!Nothing /\ pc' = [pc EXCEPT ![p] = Bin!Idle] /\ UNCHANGED <<disk, bin>>
  BY <1>1, <1>2, <1>3, <1>5, <1>6, <1>8, <1>9, <1>10, WorkEnds DEF FilesTyped, StoreTyped
<1>11. CASE /\ c # Bin!Nothing
            /\ disk' = [disk EXCEPT ![place] = c] /\ bin' = [bin EXCEPT ![i] = Bin!Nothing]
            /\ pc' = [pc EXCEPT ![p] = w]
  <2>1. w \in TrashWorks /\ w.at = "save" /\ w.entries = pc[p].entries
    BY <1>4 DEF TrashWorks
  <2> HIDE DEF w
  <2>2. /\ pc' \in [Commands -> TrashWorks] /\ pc'[p] = w
        /\ \A q \in Commands : q # p => pc'[q] = pc[q]
        /\ crossed = FALSE => Alone'
    <3>1. pc' = [pc EXCEPT ![p] = w] /\ pc[p] # Bin!Idle
      BY <1>3, <1>11
    <3> QED BY <1>2, <2>1, <3>1, WorkGoes
  <2>3. c \in 0..MaxNumbers /\ disk \in [Paths -> 0..MaxNumbers] /\ bin \in [Bin!Ids -> 0..MaxNumbers]
    BY <1>2, <1>4 DEF FilesTyped
  <2>4. \A q \in Commands : pc[q].at = "back" => pc[q].path \in Paths
    BY <1>2, WorkIs
  <2>5. belated = FALSE => disk[place] = Bin!Nothing
    BY <1>1, <1>2, <1>4 DEF FilesInv, WayFree
  <2> HIDE DEF i, place, c
  <2>6. disk' \in [Paths -> 0..MaxNumbers] /\ bin' \in [Bin!Ids -> 0..MaxNumbers]
    BY <1>4, <1>11, <2>3, TrashConstantsHold DEF Bin!Nothing
  <2>7. /\ disk'[place] = c /\ \A q \in Paths : q # place => disk'[q] = disk[q]
        /\ bin'[i] = Bin!Nothing /\ \A j \in Bin!Ids : j # i => bin'[j] = bin[j]
    BY <1>4, <1>11, <2>3
  <2>8. Binned' = Binned \ {i}
    BY <1>4, <2>7 DEF Binned
  <2>9. shared' = FALSE => NumbersApart'
    <3>1. \A q \in Commands : pc'[q] = pc[q] \/ pc'[q].at \notin {"truncate", "fill", "take"}
      BY <2>1, <2>2
    <3> QED BY <1>1, <1>2, <2>8, <3>1, NumbersStay DEF FilesInv
  <2>10. belated' = FALSE => WayFree'
    <3> SUFFICES ASSUME belated' = FALSE, NEW q \in Commands, pc'[q].at = "back", ~pc'[q].force
                 PROVE  disk'[pc'[q].path] = Bin!Nothing
      BY DEF WayFree
    <3>1. q # p /\ pc'[q] = pc[q]
      BY <2>1, <2>2
    <3>2. pc[q].path # place /\ pc[q].path \in Paths
      BY <1>6, <2>4, <3>1
    <3> QED BY <1>2, <1>6, <2>7, <3>1, <3>2 DEF FilesInv, WayFree
  <2>11. Bin!ContentKept'
    <3>1. c \in Bin!Contents'
      BY <1>4, <2>7 DEF Bin!Contents
    <3>2. belated = FALSE => \A q \in Paths : disk[q] # Bin!Nothing => disk[q] \in (Bin!Contents \cup removed)'
      <4> SUFFICES ASSUME belated = FALSE, NEW q \in Paths, disk[q] # Bin!Nothing
                   PROVE  disk[q] \in (Bin!Contents \cup removed)'
        OBVIOUS
      <4>1. q # place
        BY <2>5
      <4>2. disk'[q] = disk[q]
        BY <2>7, <4>1
      <4> QED BY <4>2 DEF Bin!Contents
    <3>3. \A j \in Bin!Ids : bin[j] # Bin!Nothing => bin[j] \in (Bin!Contents \cup removed)'
      <4> SUFFICES ASSUME NEW j \in Bin!Ids, bin[j] # Bin!Nothing
                   PROVE  bin[j] \in (Bin!Contents \cup removed)'
        OBVIOUS
      <4>1. CASE j = i
        <5>1. bin[j] = c
          BY <4>1 DEF c
        <5> QED BY <3>1, <5>1
      <4>2. CASE j # i
        <5>1. bin'[j] = bin[j]
          BY <2>7, <4>2
        <5> QED BY <5>1 DEF Bin!Contents
      <4> QED BY <4>1, <4>2
    <3> QED BY <1>1, <1>2, <1>5, <1>6, <3>2, <3>3, ContentStays DEF FilesInv, FilesTyped
  <2>12. crossed' = FALSE /\ deaths' = 0 => LedgerHolds'
    BY <1>1, <1>7, <1>9, <2>1, <2>2, <2>8, LedgerGoes
  <2>13. StoreTyped'
    BY <1>1, <1>2, <2>2 DEF StoreTyped
  <2>14. FilesTyped'
    BY <1>1, <1>2, <1>5, <1>8, <2>2, <2>6 DEF FilesTyped
  <2> QED BY <1>1, <2>9, <2>10, <2>11, <2>12, <2>13, <2>14 DEF StoreInv, FilesInv
<1> QED BY <1>1, <1>10, <1>11

\* A purge removes one of its files.
LEMMA FilePurged ==
    ASSUME StoreInv, area = "trash", NEW p \in Commands, Bin!RemoveOne(p)
    PROVE  StoreInv'
<1> DEFINE ids == pc[p].ids
           i == CHOOSE i \in ids : \A j \in ids : i <= j
           rest == ids \ {i}
           w == [pc[p] EXCEPT !.ids = rest]
<1>1. /\ pc[p].at = "purge" /\ ids # {} /\ bin' = [bin EXCEPT ![i] = Bin!Nothing]
      /\ removed' = IF bin[i] # Bin!Nothing THEN removed \cup {bin[i]} ELSE removed
      /\ pc' = [pc EXCEPT ![p] = w]
      /\ UNCHANGED <<counter, disk, manifest, made, standing, shared, belated, crossed, deaths, area>>
  BY DEF Bin!RemoveOne, Bin!Goes, Bin!Same, Bin!bulletinVars
<1>2. FilesInv /\ FilesTyped /\ StoreTyped /\ pc \in [Commands -> TrashWorks]
  BY DEF StoreInv, FilesInv, FilesTyped
<1>3. /\ pc[p] \in [at : {"purge"}, ids : SUBSET Bin!Ids, entries : Seq(Entries)]
      /\ pc[p] # Bin!Idle
  BY <1>1, <1>2, WorkIs DEF Bin!Idle
<1>4. i \in ids
  <2>1. ids \in SUBSET Nat
    BY <1>3, TrashConstantsHold DEF Bin!Ids
  <2>2. \E n \in ids : \A m \in ids : n <= m
    BY <1>1, <2>1, LeastNumber
  <2> HIDE DEF ids
  <2> QED BY <2>2
<1> HIDE DEF i
<1>5. i \in Bin!Ids /\ rest \in SUBSET Bin!Ids
  BY <1>3, <1>4
<1> HIDE DEF rest
<1>6. w \in TrashWorks /\ w.at = "purge" /\ w.ids = rest /\ w.entries = pc[p].entries
  BY <1>3, <1>5 DEF TrashWorks
<1> HIDE DEF w
<1>7. /\ pc' \in [Commands -> TrashWorks] /\ pc'[p] = w
      /\ \A q \in Commands : q # p => pc'[q] = pc[q]
      /\ crossed = FALSE => Alone' /\ \A q \in Commands : q # p => pc[q] = Bin!Idle
  BY <1>1, <1>2, <1>3, <1>6, WorkGoes
<1>8. bin \in [Bin!Ids -> 0..MaxNumbers]
  BY <1>2 DEF FilesTyped
<1>9. /\ bin' \in [Bin!Ids -> 0..MaxNumbers] /\ bin'[i] = Bin!Nothing
      /\ \A j \in Bin!Ids : j # i => bin'[j] = bin[j]
  BY <1>1, <1>5, <1>8, TrashConstantsHold DEF Bin!Nothing
<1>10. Binned' = Binned \ {i}
  BY <1>5, <1>9 DEF Binned
<1>11. shared' = FALSE => NumbersApart'
  <2>1. \A q \in Commands : pc'[q] = pc[q] \/ pc'[q].at \notin {"truncate", "fill", "take"}
    BY <1>6, <1>7
  <2> QED BY <1>1, <1>2, <1>10, <2>1, NumbersStay DEF FilesInv
<1>12. belated' = FALSE => WayFree'
  <2>1. \A q \in Commands : pc[q].at = "back" => pc[q].path \in Paths
    BY <1>2, WorkIs
  <2>2. \A q \in Commands : pc'[q] = pc[q] \/ pc'[q].at # "back"
    BY <1>6, <1>7
  <2> QED BY <1>1, <1>2, <2>1, <2>2, WayStays DEF FilesInv
<1>13. Bin!ContentKept'
  <2>1. removed \subseteq removed' /\ (bin[i] # Bin!Nothing => bin[i] \in removed')
    BY <1>1
  <2>2. \A q \in Paths : disk[q] \in (Bin!Contents \cup removed)'
    BY <1>1 DEF Bin!Contents
  <2>3. \A j \in Bin!Ids : bin[j] # Bin!Nothing => bin[j] \in (Bin!Contents \cup removed)'
    <3>1. \A j \in Bin!Ids : j # i => bin[j] \in Bin!Contents'
      BY <1>9 DEF Bin!Contents
    <3> QED BY <2>1, <3>1
  <2> QED BY <1>1, <1>2, <2>1, <2>2, <2>3, ContentStays DEF FilesInv, FilesTyped
<1>14. crossed' = FALSE /\ deaths' = 0 => LedgerHolds'
  <2> SUFFICES ASSUME crossed' = FALSE, deaths' = 0
               PROVE  LedgerHolds'
    OBVIOUS
  <2>1. Ledger(pc[p].entries, Binned \ ids, counter) /\ counter # Bin!Empty
    BY <1>1, <1>2 DEF FilesInv, LedgerHolds
  <2>2. Binned' \ rest = Binned \ ids
    BY <1>4, <1>10 DEF rest
  <2> HIDE DEF ids
  <2> QED BY <1>1, <1>6, <1>7, <2>1, <2>2, LedgerGoes
<1>15. StoreTyped'
  BY <1>1, <1>2, <1>7 DEF StoreTyped
<1>16. FilesTyped'
  BY <1>1, <1>2, <1>7, <1>9 DEF FilesTyped
<1> QED BY <1>1, <1>11, <1>12, <1>13, <1>14, <1>15, <1>16 DEF StoreInv, FilesInv

\* The steps that go on to write the manifest.
LEMMA ManifestRead ==
    ASSUME StoreInv, area = "trash", NEW p \in Commands, Bin!Enter(p)
    PROVE  StoreInv'
<1> DEFINE i == pc[p].id
           list == Append(manifest, [id |-> i, path |-> pc[p].path, status |-> "trashed"])
           w == [at |-> "save", entries |-> list]
<1>1. /\ pc[p].at = "enter" /\ pc' = [pc EXCEPT ![p] = w]
      /\ UNCHANGED <<counter, disk, bin, manifest, made, removed, standing, shared, belated, crossed, deaths, area>>
  BY DEF Bin!Enter, Bin!Saves, Bin!Entry, Bin!Goes, Bin!Same, Bin!trashVars, Bin!bulletinVars
<1>2. FilesInv /\ FilesTyped /\ StoreTyped /\ pc \in [Commands -> TrashWorks] /\ manifest \in Seq(Entries)
  BY DEF StoreInv, FilesInv, FilesTyped
<1>3. pc[p] \in [at : {"enter"}, id : Bin!Ids, path : Paths] /\ pc[p] # Bin!Idle
  BY <1>1, <1>2, WorkIs DEF Bin!Idle
<1>4. i \in Bin!Ids /\ i \in Nat /\ pc[p].path \in Paths
  BY <1>3, TrashConstantsHold DEF Bin!Ids
<1>5. list \in Seq(Entries)
  BY <1>2, <1>4 DEF Entries
<1>6. crossed = FALSE /\ deaths = 0 => Ledger(list, Binned, counter) /\ counter # Bin!Empty
  <2> SUFFICES ASSUME crossed = FALSE, deaths = 0
               PROVE  Ledger(list, Binned, counter) /\ counter # Bin!Empty
    OBVIOUS
  <2>1. Ledger(manifest, Binned \ {i}, i) /\ i \in Binned /\ counter = i + 1
    BY <1>1, <1>2 DEF FilesInv, LedgerHolds
  <2>2. Binned \ {i} \in SUBSET Bin!Ids /\ (Binned \ {i}) \cup {i} = Binned
    BY <2>1 DEF Binned
  <2> HIDE DEF i
  <2>3. Ledger(list, (Binned \ {i}) \cup {i}, i + 1)
    BY <1>2, <1>4, <2>1, <2>2, LedgerAppends
  <2>4. counter # Bin!Empty
    BY <1>4, <2>1 DEF Bin!Empty
  <2> QED BY <2>1, <2>2, <2>3, <2>4
<1> HIDE DEF list
<1>7. w \in TrashWorks /\ w.at = "save" /\ w.entries = list
  BY <1>5 DEF TrashWorks
<1> HIDE DEF w
<1>8. /\ pc' \in [Commands -> TrashWorks] /\ pc'[p] = w
      /\ \A q \in Commands : q # p => pc'[q] = pc[q]
      /\ crossed = FALSE => Alone' /\ \A q \in Commands : q # p => pc[q] = Bin!Idle
  BY <1>1, <1>2, <1>3, <1>7, WorkGoes
<1>9. crossed' = FALSE /\ deaths' = 0 => LedgerHolds'
  <2>1. Binned' = Binned
    BY <1>1 DEF Binned
  <2> QED BY <1>1, <1>6, <1>7, <1>8, <2>1, LedgerGoes
<1> QED BY <1>1, <1>2, <1>7, <1>8, <1>9, WorkKeeps DEF FilesTyped, StoreTyped

LEMMA PurgeEnds ==
    ASSUME StoreInv, area = "trash", NEW p \in Commands, Bin!Purged(p)
    PROVE  StoreInv'
<1> DEFINE w == [at |-> "save", entries |-> pc[p].entries]
<1>1. /\ pc[p].at = "purge" /\ pc[p].ids = {} /\ pc' = [pc EXCEPT ![p] = w]
      /\ UNCHANGED <<counter, disk, bin, manifest, made, removed, standing, shared, belated, crossed, deaths, area>>
  BY DEF Bin!Purged, Bin!Saves, Bin!Goes, Bin!Same, Bin!trashVars, Bin!bulletinVars
<1>2. FilesInv /\ FilesTyped /\ StoreTyped /\ pc \in [Commands -> TrashWorks] /\ manifest \in Seq(Entries)
  BY DEF StoreInv, FilesInv, FilesTyped
<1>3. /\ pc[p] \in [at : {"purge"}, ids : SUBSET Bin!Ids, entries : Seq(Entries)]
      /\ pc[p] # Bin!Idle
  BY <1>1, <1>2, WorkIs DEF Bin!Idle
<1>4. w \in TrashWorks /\ w.at = "save" /\ w.entries = pc[p].entries
  BY <1>3 DEF TrashWorks
<1> HIDE DEF w
<1>5. /\ pc' \in [Commands -> TrashWorks] /\ pc'[p] = w
      /\ \A q \in Commands : q # p => pc'[q] = pc[q]
      /\ crossed = FALSE => Alone' /\ \A q \in Commands : q # p => pc[q] = Bin!Idle
  BY <1>1, <1>2, <1>3, <1>4, WorkGoes
<1>6. crossed' = FALSE /\ deaths' = 0 => LedgerHolds'
  <2> SUFFICES ASSUME crossed' = FALSE, deaths' = 0
               PROVE  LedgerHolds'
    OBVIOUS
  <2>1. Ledger(pc[p].entries, Binned \ pc[p].ids, counter) /\ counter # Bin!Empty
    BY <1>1, <1>2 DEF FilesInv, LedgerHolds
  <2>2. Binned' = Binned /\ Binned \ pc[p].ids = Binned
    BY <1>1 DEF Binned
  <2>3. Ledger(pc[p].entries, Binned', counter')
    BY <1>1, <2>1, <2>2
  <2> QED BY <1>1, <1>4, <1>5, <2>1, <2>3, LedgerGoes
<1> QED BY <1>1, <1>2, <1>4, <1>5, <1>6, WorkKeeps DEF FilesTyped, StoreTyped

LEMMA ManifestTruncated ==
    ASSUME StoreInv, area = "trash", NEW p \in Commands, Bin!TruncateManifest(p)
    PROVE  StoreInv'
<1> DEFINE w == [pc[p] EXCEPT !.at = "saving"]
<1>1. /\ pc[p].at = "save" /\ manifest' = <<>> /\ pc' = [pc EXCEPT ![p] = w]
      /\ UNCHANGED <<counter, disk, bin, made, removed, standing, shared, belated, crossed, deaths, area>>
  BY DEF Bin!TruncateManifest, Bin!Goes, Bin!Same, Bin!bulletinVars
<1>2. FilesInv /\ FilesTyped /\ StoreTyped /\ pc \in [Commands -> TrashWorks]
  BY DEF StoreInv, FilesInv, FilesTyped
<1>3. pc[p] \in [at : {"save", "saving"}, entries : Seq(Entries)] /\ pc[p] # Bin!Idle
  BY <1>1, <1>2, WorkIs DEF Bin!Idle
<1>4. w \in TrashWorks /\ w.at = "saving" /\ w.entries = pc[p].entries
  BY <1>3 DEF TrashWorks
<1> HIDE DEF w
<1>5. /\ pc' \in [Commands -> TrashWorks] /\ pc'[p] = w
      /\ \A q \in Commands : q # p => pc'[q] = pc[q]
      /\ crossed = FALSE => Alone' /\ \A q \in Commands : q # p => pc[q] = Bin!Idle
  BY <1>1, <1>2, <1>3, <1>4, WorkGoes
<1>6. crossed' = FALSE /\ deaths' = 0 => LedgerHolds'
  <2> SUFFICES ASSUME crossed' = FALSE, deaths' = 0
               PROVE  LedgerHolds'
    OBVIOUS
  <2>1. Ledger(pc[p].entries, Binned, counter) /\ counter # Bin!Empty
    BY <1>1, <1>2 DEF FilesInv, LedgerHolds
  <2>2. Binned' = Binned
    BY <1>1 DEF Binned
  <2> QED BY <1>1, <1>4, <1>5, <2>1, <2>2, LedgerGoes
<1>7. manifest' \in Seq(Entries)
  BY <1>1
<1> QED BY <1>1, <1>2, <1>4, <1>5, <1>6, <1>7, WorkKeeps DEF FilesTyped, StoreTyped

LEMMA ManifestFilled ==
    ASSUME StoreInv, area = "trash", NEW p \in Commands, Bin!FillManifest(p)
    PROVE  StoreInv'
<1>1. /\ pc[p].at = "saving" /\ manifest' = pc[p].entries /\ pc' = [pc EXCEPT ![p] = Bin!Idle]
      /\ UNCHANGED <<counter, disk, bin, made, removed, standing, shared, belated, crossed, deaths, area>>
  BY DEF Bin!FillManifest, Bin!Ends, Bin!Goes, Bin!Same, Bin!bulletinVars
<1>2. FilesInv /\ FilesTyped /\ StoreTyped /\ pc \in [Commands -> TrashWorks]
  BY DEF StoreInv, FilesInv, FilesTyped
<1>3. pc[p] \in [at : {"save", "saving"}, entries : Seq(Entries)] /\ pc[p] # Bin!Idle
  BY <1>1, <1>2, WorkIs DEF Bin!Idle
<1>4. manifest' \in Seq(Entries)
  BY <1>1, <1>3
<1>5. crossed = FALSE /\ deaths = 0 => Ledger(manifest', Binned, counter) /\ counter # Bin!Empty
  BY <1>1, <1>2 DEF FilesInv, LedgerHolds
<1> QED BY <1>1, <1>2, <1>3, <1>4, <1>5, WorkEnds DEF FilesTyped, StoreTyped

\* The steps of the bulletins are none of the trash.
LEMMA TrashStepKeeps ==
    ASSUME StoreInv, area = "trash", Bin!TrashNext
    PROVE  StoreInv'
<1>1. pc \in [Commands -> TrashWorks]
  BY DEF StoreInv, FilesInv, FilesTyped
<1>2. CASE \E place \in Paths : Bin!WriteFile(place)
  BY <1>2, FileWritten
<1>3. ASSUME NEW p \in Commands,
             \/ Bin!ReadCounter(p) \/ Bin!TruncateCounter(p) \/ Bin!FillCounter(p)
             \/ Bin!TakeFile(p) \/ Bin!Enter(p) \/ Bin!ClearWay(p) \/ Bin!PutBack(p)
             \/ Bin!RemoveOne(p) \/ Bin!Purged(p) \/ Bin!TruncateManifest(p)
             \/ Bin!FillManifest(p) \/ Bin!Die(p)
      PROVE  StoreInv'
  BY <1>3, CounterRead, CounterTruncated, CounterFilled, FileTaken, ManifestRead, WayCleared, FileBack,
     FilePurged, PurgeEnds, ManifestTruncated, ManifestFilled, WorkDies
<1>4. ASSUME NEW p \in Commands,
             \/ Bin!TruncateBulletin(p) \/ Bin!Publish(p) \/ Bin!Mark(p) \/ Bin!Marked(p)
             \/ Bin!File(p)
      PROVE  FALSE
  <2>1. pc[p].at \in {"publish", "mark", "marking", "file"} \/ (pc[p].at = "take" /\ pc[p].do = "create")
    BY <1>4 DEF Bin!TruncateBulletin, Bin!Publish, Bin!Mark, Bin!Marked, Bin!File
  <2>2. pc[p].at # "take"
    <3>1. pc[p].at = "take" => pc[p].do = "move"
      BY <1>1, WorkIs
    <3> QED BY <2>1, <3>1
  <2>3. pc[p] \in TrashWorks
    BY <1>1
  <2>4. pc[p].at \in {"idle", "count", "truncate", "fill", "take", "enter", "save", "saving", "back", "purge"}
    BY <2>3, WorkIs
  <2> QED BY <2>1, <2>2, <2>4
<1>5. ASSUME NEW p \in Commands, NEW place \in Paths, Bin!Move(p, place) PROVE StoreInv'
  BY <1>5, MoveStarts
<1>6. ASSUME NEW p \in Commands, NEW i \in Bin!Ids,
             (\E force \in BOOLEAN : Bin!Restore(p, i, force)) \/ Bin!Purge(p, i) \/ Bin!Resolve(p, i)
      PROVE  StoreInv'
  <2>1. CASE \E force \in BOOLEAN : Bin!Restore(p, i, force)
    BY <2>1, RestoreStarts
  <2>2. CASE Bin!Purge(p, i)
    BY <2>2, PurgeStarts
  <2>3. ~Bin!Resolve(p, i)
    BY DEF Bin!Resolve
  <2> QED BY <1>6, <2>1, <2>2, <2>3
<1>7. ASSUME NEW p \in Commands, NEW t \in Headings, Bin!Create(p, t) PROVE FALSE
  BY <1>7 DEF Bin!Create
<1> QED BY <1>2, <1>3, <1>4, <1>5, <1>6, <1>7 DEF Bin!TrashNext

\* A process goes on with a bulletin, or starts to.
LEMMA BulletinGoes ==
    ASSUME StoreInv, area = "bulletins", area' = area, NEW p \in Commands, NEW w \in BulletinWorks,
           pc' \in [Commands -> BulletinWorks], pc'[p] = w,
           counter' \in {Bin!Empty} \cup 1..(MaxNumbers + 1),
           UNCHANGED <<disk, bin, made, manifest>>,
           inForce' \in [Headings -> Bulletins], standing' \subseteq Bin!Ids,
           deaths' \in 0..MaxDeaths, crossed' \in BOOLEAN,
           crossed' = FALSE => Alone' /\ \A q \in Commands : q # p => pc'[q] = Bin!Idle,
           crossed' = FALSE /\ deaths' = 0 =>
             /\ \A i \in standing' \ replaced' : \E t \in Headings : inForce'[t].id = i
             /\ w.at \in {"publish", "marking"} => inForce'[w.title].id = Bin!Empty
             /\ w.at \in {"mark", "file"} => inForce'[w.title].id = w.id
             /\ w.at \in {"mark", "marking", "file"} => w.id \notin standing'
    PROVE  StoreInv'
<1>1. BulletinInv /\ StoreTyped
  BY DEF StoreInv
<1>2. StoreTyped'
  BY <1>1 DEF StoreTyped
<1>3. crossed' = FALSE /\ deaths' = 0 => BulletinHolds'
  <2> SUFFICES ASSUME crossed' = FALSE, deaths' = 0
               PROVE  BulletinHolds'
    OBVIOUS
  <2>1. Bin!Idle.at = "idle"
    BY DEF Bin!Idle
  <2>2. \A q \in Commands : q # p => pc'[q].at = "idle"
    BY <2>1
  <2>3. Bin!BulletinsStand'
    BY DEF Bin!BulletinsStand
  <2> QED BY <2>2, <2>3 DEF BulletinHolds
<1>4. BulletinInv'
  BY <1>1, <1>3 DEF BulletinInv
<1> QED BY <1>2, <1>4 DEF StoreInv

\* What is known of a process that is under way with a bulletin.
LEMMA BulletinKnown ==
    ASSUME StoreInv, area = "bulletins", NEW p \in Commands, pc[p].at # "idle",
           NEW w \in BulletinWorks, pc' = [pc EXCEPT ![p] = w], crossed' = crossed
    PROVE  /\ pc' \in [Commands -> BulletinWorks] /\ pc'[p] = w
           /\ crossed' \in BOOLEAN
           /\ crossed' = FALSE => Alone' /\ \A q \in Commands : q # p => pc'[q] = Bin!Idle
<1>1. BulletinInv /\ StoreTyped /\ pc \in [Commands -> BulletinWorks]
  BY DEF StoreInv, BulletinInv
<1>2. pc[p] # Bin!Idle
  BY DEF Bin!Idle
<1>3. /\ pc' \in [Commands -> BulletinWorks] /\ pc'[p] = w
      /\ \A q \in Commands : q # p => pc'[q] = pc[q]
      /\ crossed = FALSE => Alone' /\ \A q \in Commands : q # p => pc[q] = Bin!Idle
  BY <1>1, <1>2, WorkGoes
<1> QED BY <1>1, <1>3 DEF StoreTyped

\* The steps that leave the bulletins alone.
LEMMA BulletinsAlone ==
    ASSUME StoreInv, area = "bulletins", NEW p \in Commands,
           \/ Bin!ReadCounter(p) \/ Bin!TruncateCounter(p) \/ Bin!FillCounter(p) \/ Bin!Die(p)
    PROVE  StoreInv'
<1>1. BulletinInv /\ StoreTyped /\ pc[p] \in BulletinWorks
  BY DEF StoreInv, BulletinInv
<1>2. Bin!Idle \in BulletinWorks /\ Bin!Idle.at = "idle"
  BY DEF BulletinWorks, Bin!Idle
<1>3. /\ UNCHANGED <<disk, bin, made, manifest, inForce, standing, replaced, crossed, area>>
      /\ pc[p].at # "idle" /\ deaths' \in 0..MaxDeaths /\ (deaths' = 0 => deaths = 0)
  <2>1. UNCHANGED <<disk, bin, made, manifest, inForce, standing, replaced, crossed, area>>
    BY DEF Bin!ReadCounter, Bin!TruncateCounter, Bin!FillCounter, Bin!Die, Bin!Same, Bin!trashVars,
       Bin!bulletinVars
  <2>2. deaths \in 0..MaxDeaths
    BY <1>1 DEF StoreTyped
  <2>3. deaths' = deaths \/ (deaths < MaxDeaths /\ deaths' = deaths + 1)
    BY DEF Bin!ReadCounter, Bin!TruncateCounter, Bin!FillCounter, Bin!Die, Bin!Same
  <2>4. pc[p].at # "idle"
    <3>1. pc[p].at = "idle" => pc[p] = Bin!Idle
      BY <1>1, BulletinWorkIs
    <3> QED BY <3>1 DEF Bin!ReadCounter, Bin!TruncateCounter, Bin!FillCounter, Bin!Die
  <2> QED BY <2>1, <2>2, <2>3, <2>4, TrashConstantsHold
<1>4. PICK w \in BulletinWorks :
         /\ pc' = [pc EXCEPT ![p] = w] /\ counter' \in {Bin!Empty} \cup 1..(MaxNumbers + 1)
         /\ w.at \in {"idle", "truncate", "fill", "take"}
  <2>1. CASE pc' = [pc EXCEPT ![p] = Bin!Idle] /\ counter' = counter
    BY <1>1, <1>2, <2>1 DEF StoreTyped
  <2>2. CASE Bin!ReadCounter(p)
    <3>1. /\ pc[p].at = "count" /\ counter' = counter
          /\ \/ pc' = [pc EXCEPT ![p] = Bin!Idle]
             \/ counter \in Bin!Ids /\ pc' = [pc EXCEPT ![p] = [pc[p] EXCEPT !.at = "truncate", !.id = counter]]
      BY <2>2 DEF Bin!ReadCounter, Bin!Ends, Bin!Goes
    <3>2. ASSUME counter \in Bin!Ids
          PROVE  /\ [pc[p] EXCEPT !.at = "truncate", !.id = counter] \in BulletinWorks
                 /\ [pc[p] EXCEPT !.at = "truncate", !.id = counter].at = "truncate"
      <4>1. pc[p] \in [at : {"count"}, do : {"create"}, title : Headings, id : {Bin!Nothing}]
        BY <1>1, <3>1, BulletinWorkIs
      <4> QED BY <3>2, <4>1 DEF BulletinWorks
    <3> QED BY <1>1, <2>1, <3>1, <3>2 DEF StoreTyped
  <2>3. CASE Bin!TruncateCounter(p)
    <3>1. /\ pc[p].at = "truncate" /\ counter' = Bin!Empty
          /\ pc' = [pc EXCEPT ![p] = [pc[p] EXCEPT !.at = "fill"]]
      BY <2>3 DEF Bin!TruncateCounter, Bin!Goes
    <3>2. pc[p] \in [at : {"truncate", "fill", "take", "publish"}, do : {"create"}, title : Headings, id : Bin!Ids]
      BY <1>1, <3>1, BulletinWorkIs
    <3>3. [pc[p] EXCEPT !.at = "fill"] \in BulletinWorks /\ [pc[p] EXCEPT !.at = "fill"].at = "fill"
      BY <3>2 DEF BulletinWorks
    <3> QED BY <3>1, <3>3
  <2>4. CASE Bin!FillCounter(p)
    <3>1. /\ pc[p].at = "fill" /\ counter' = pc[p].id + 1
          /\ pc' = [pc EXCEPT ![p] = [pc[p] EXCEPT !.at = "take"]]
      BY <2>4 DEF Bin!FillCounter, Bin!Goes
    <3>2. pc[p] \in [at : {"truncate", "fill", "take", "publish"}, do : {"create"}, title : Headings, id : Bin!Ids]
      BY <1>1, <3>1, BulletinWorkIs
    <3>3. [pc[p] EXCEPT !.at = "take"] \in BulletinWorks /\ [pc[p] EXCEPT !.at = "take"].at = "take"
      BY <3>2 DEF BulletinWorks
    <3>4. pc[p].id + 1 \in 1..(MaxNumbers + 1)
      BY <3>2, TrashConstantsHold DEF Bin!Ids
    <3> QED BY <3>1, <3>3, <3>4
  <2>5. CASE Bin!Die(p)
    BY <2>1, <2>5 DEF Bin!Die, Bin!Ends, Bin!Goes
  <2> QED BY <2>2, <2>3, <2>4, <2>5
<1>5. /\ pc' \in [Commands -> BulletinWorks] /\ pc'[p] = w
      /\ crossed' \in BOOLEAN
      /\ crossed' = FALSE => Alone' /\ \A q \in Commands : q # p => pc'[q] = Bin!Idle
  BY <1>3, <1>4, BulletinKnown
<1>6. crossed' = FALSE /\ deaths' = 0 =>
        \A i \in standing' \ replaced' : \E t \in Headings : inForce'[t].id = i
  BY <1>1, <1>3 DEF BulletinInv, BulletinHolds, Bin!BulletinsStand
<1>7. inForce' \in [Headings -> Bulletins] /\ standing' \subseteq Bin!Ids
  BY <1>1, <1>3 DEF BulletinInv
<1> QED BY <1>3, <1>4, <1>5, <1>6, <1>7, BulletinGoes

\* A bulletin is announced.
LEMMA BulletinCreated ==
    ASSUME StoreInv, area = "bulletins", NEW p \in Commands, NEW h \in Headings, Bin!Create(p, h)
    PROVE  StoreInv'
<1> DEFINE w == [at |-> "count", do |-> "create", title |-> h, id |-> Bin!Nothing]
<1>1. /\ Bin!Starts(p, w)
      /\ UNCHANGED <<counter, disk, bin, manifest, made, inForce, standing, replaced, deaths, area>>
  BY DEF Bin!Create, Bin!trashVars, Bin!bulletinVars
<1>2. w \in BulletinWorks /\ w.at = "count"
  BY DEF BulletinWorks
<1> HIDE DEF w
<1>3. BulletinInv /\ StoreTyped /\ pc \in [Commands -> BulletinWorks]
  BY DEF StoreInv, BulletinInv
<1>4. /\ pc' \in [Commands -> BulletinWorks] /\ pc'[p] = w
      /\ \A q \in Commands : q # p => pc'[q] = pc[q]
      /\ crossed' \in BOOLEAN
      /\ crossed' = FALSE => crossed = FALSE /\ Alone' /\ \A q \in Commands : pc[q] = Bin!Idle
  BY <1>1, <1>2, <1>3, WorkStarts
<1>5. crossed' = FALSE /\ deaths' = 0 =>
        \A i \in standing' \ replaced' : \E t \in Headings : inForce'[t].id = i
  BY <1>1, <1>3, <1>4 DEF BulletinInv, BulletinHolds, Bin!BulletinsStand
<1>6. /\ inForce' \in [Headings -> Bulletins] /\ standing' \subseteq Bin!Ids
      /\ counter' \in {Bin!Empty} \cup 1..(MaxNumbers + 1) /\ deaths' \in 0..MaxDeaths
  BY <1>1, <1>3 DEF BulletinInv, StoreTyped
<1>7. crossed' = FALSE => Alone' /\ \A q \in Commands : q # p => pc'[q] = Bin!Idle
  BY <1>4
<1> QED BY <1>1, <1>2, <1>4, <1>5, <1>6, <1>7, BulletinGoes

LEMMA BulletinTruncated ==
    ASSUME StoreInv, area = "bulletins", NEW p \in Commands, Bin!TruncateBulletin(p)
    PROVE  StoreInv'
<1> DEFINE w == [pc[p] EXCEPT !.at = "publish"]
           h == pc[p].title
<1>1. /\ pc[p].at = "take" /\ inForce' = [inForce EXCEPT ![h] = Bin!TornBulletin]
      /\ replaced' = replaced \cup ({inForce[h].id} \cap Bin!Ids)
      /\ pc' = [pc EXCEPT ![p] = w]
      /\ UNCHANGED <<counter, disk, bin, manifest, made, standing, crossed, deaths, area>>
  BY DEF Bin!TruncateBulletin, Bin!Goes, Bin!Same, Bin!trashVars
<1>2. BulletinInv /\ StoreTyped /\ pc[p] \in BulletinWorks /\ inForce \in [Headings -> Bulletins]
  BY DEF StoreInv, BulletinInv
<1>3. pc[p] \in [at : {"truncate", "fill", "take", "publish"}, do : {"create"}, title : Headings, id : Bin!Ids]
  BY <1>1, <1>2, BulletinWorkIs
<1>4. w \in BulletinWorks /\ w.at = "publish" /\ w.title = h /\ h \in Headings
  BY <1>3 DEF BulletinWorks
<1> HIDE DEF w, h
<1>5. /\ pc' \in [Commands -> BulletinWorks] /\ pc'[p] = w
      /\ crossed' \in BOOLEAN
      /\ crossed' = FALSE => Alone' /\ \A q \in Commands : q # p => pc'[q] = Bin!Idle
  BY <1>1, <1>4, BulletinKnown
<1>6. Bin!TornBulletin \in Bulletins /\ Bin!TornBulletin.id = Bin!Empty
  BY TrashConstantsHold DEF Bulletins, Bin!TornBulletin, Bin!Empty
<1>7. /\ inForce' \in [Headings -> Bulletins] /\ inForce'[h].id = Bin!Empty
      /\ \A t \in Headings : t # h => inForce'[t] = inForce[t]
  BY <1>1, <1>2, <1>4, <1>6
<1>8. standing' \subseteq Bin!Ids
  BY <1>1, <1>2 DEF BulletinInv
<1>9. crossed' = FALSE /\ deaths' = 0 =>
        \A i \in standing' \ replaced' : \E t \in Headings : inForce'[t].id = i
  <2> SUFFICES ASSUME crossed' = FALSE, deaths' = 0, NEW i \in standing' \ replaced'
               PROVE  \E t \in Headings : inForce'[t].id = i
    OBVIOUS
  <2>1. i \in standing \ replaced /\ i \in Bin!Ids
    BY <1>1, <1>8
  <2>2. PICK t \in Headings : inForce[t].id = i
    BY <1>1, <1>2, <2>1 DEF BulletinInv, BulletinHolds, Bin!BulletinsStand
  <2>3. t # h
    BY <1>1, <2>1, <2>2
  <2> QED BY <1>7, <2>2, <2>3
<1>10. counter' \in {Bin!Empty} \cup 1..(MaxNumbers + 1) /\ deaths' \in 0..MaxDeaths
  BY <1>1, <1>2 DEF StoreTyped
<1> QED BY <1>1, <1>4, <1>5, <1>7, <1>8, <1>9, <1>10, BulletinGoes

LEMMA BulletinPublished ==
    ASSUME StoreInv, area = "bulletins", NEW p \in Commands, Bin!Publish(p)
    PROVE  StoreInv'
<1> DEFINE h == pc[p].title
           b == [id |-> pc[p].id, mark |-> "active"]
<1>1. /\ pc[p].at = "publish" /\ inForce' = [inForce EXCEPT ![h] = b]
      /\ standing' = standing \cup {pc[p].id} /\ pc' = [pc EXCEPT ![p] = Bin!Idle]
      /\ UNCHANGED <<counter, disk, bin, manifest, made, replaced, crossed, deaths, area>>
  BY DEF Bin!Publish, Bin!Ends, Bin!Goes, Bin!Same, Bin!trashVars
<1>2. BulletinInv /\ StoreTyped /\ pc[p] \in BulletinWorks /\ inForce \in [Headings -> Bulletins]
  BY DEF StoreInv, BulletinInv
<1>3. pc[p] \in [at : {"truncate", "fill", "take", "publish"}, do : {"create"}, title : Headings, id : Bin!Ids]
  BY <1>1, <1>2, BulletinWorkIs
<1>4. b \in Bulletins /\ b.id = pc[p].id /\ pc[p].id \in Bin!Ids /\ h \in Headings
  BY <1>3, TrashConstantsHold DEF Bulletins, Bin!Ids
<1>5. Bin!Idle \in BulletinWorks /\ Bin!Idle.at = "idle"
  BY DEF BulletinWorks, Bin!Idle
<1>6. /\ pc' \in [Commands -> BulletinWorks] /\ pc'[p] = Bin!Idle
      /\ crossed' \in BOOLEAN
      /\ crossed' = FALSE => Alone' /\ \A q \in Commands : q # p => pc'[q] = Bin!Idle
  BY <1>1, <1>5, BulletinKnown
<1>7. crossed = FALSE /\ deaths = 0 =>
        inForce[h].id = Bin!Empty /\ \A i \in standing \ replaced : \E t \in Headings : inForce[t].id = i
  BY <1>1, <1>2 DEF BulletinInv, BulletinHolds, Bin!BulletinsStand
<1> HIDE DEF b, h
<1>8. /\ inForce' \in [Headings -> Bulletins] /\ inForce'[h] = b
      /\ \A t \in Headings : t # h => inForce'[t] = inForce[t]
  BY <1>1, <1>2, <1>4
<1>9. standing \subseteq Bin!Ids /\ standing' \subseteq Bin!Ids
  BY <1>1, <1>2, <1>4 DEF BulletinInv
<1>10. crossed' = FALSE /\ deaths' = 0 =>
        \A i \in standing' \ replaced' : \E t \in Headings : inForce'[t].id = i
  <2> SUFFICES ASSUME crossed' = FALSE, deaths' = 0, NEW i \in standing' \ replaced'
               PROVE  \E t \in Headings : inForce'[t].id = i
    OBVIOUS
  <2>1. CASE i = pc[p].id
    BY <1>4, <1>8, <2>1
  <2>2. CASE i # pc[p].id
    <3>1. i \in standing \ replaced /\ i \in Bin!Ids
      BY <1>1, <1>9, <2>2
    <3>2. PICK t \in Headings : inForce[t].id = i
      BY <1>1, <1>7, <3>1
    <3>3. t # h
      BY <1>1, <1>7, <3>1, <3>2, TrashConstantsHold DEF Bin!Ids, Bin!Empty
    <3> QED BY <1>8, <3>2, <3>3
  <2> QED BY <2>1, <2>2
<1>11. counter' \in {Bin!Empty} \cup 1..(MaxNumbers + 1) /\ deaths' \in 0..MaxDeaths
  BY <1>1, <1>2 DEF StoreTyped
<1> QED BY <1>1, <1>5, <1>6, <1>8, <1>9, <1>10, <1>11, BulletinGoes

\* A bulletin is resolved, and no longer stands.
LEMMA BulletinResolved ==
    ASSUME StoreInv, area = "bulletins", NEW p \in Commands, NEW i \in Bin!Ids, Bin!Resolve(p, i)
    PROVE  StoreInv'
<1>1. PICK h \in Headings :
         inForce[h].id = i /\ Bin!Starts(p, [at |-> "mark", title |-> h, id |-> i])
  BY DEF Bin!Resolve, Bin!Matches
<1> DEFINE w == [at |-> "mark", title |-> h, id |-> i]
<1>2. /\ Bin!Starts(p, w) /\ standing' = standing \ {i}
      /\ UNCHANGED <<counter, disk, bin, manifest, made, inForce, replaced, deaths, area>>
  BY <1>1 DEF Bin!Resolve, Bin!trashVars
<1>3. w \in BulletinWorks /\ w.at = "mark" /\ w.title = h /\ w.id = i
  BY DEF BulletinWorks
<1> HIDE DEF w
<1>4. BulletinInv /\ StoreTyped /\ pc \in [Commands -> BulletinWorks]
  BY DEF StoreInv, BulletinInv
<1>5. /\ pc' \in [Commands -> BulletinWorks] /\ pc'[p] = w
      /\ \A q \in Commands : q # p => pc'[q] = pc[q]
      /\ crossed' \in BOOLEAN
      /\ crossed' = FALSE => crossed = FALSE /\ Alone' /\ \A q \in Commands : pc[q] = Bin!Idle
  <2>1. StoreTyped /\ pc \in [Commands -> BulletinWorks] /\ w \in BulletinWorks /\ Bin!Starts(p, w)
    BY <1>2, <1>3, <1>4
  <2>2. pc' = [pc EXCEPT ![p] = w] /\ pc[p] = Bin!Idle
        /\ crossed' = (crossed \/ \E q \in Commands \ {p} : pc[q] # Bin!Idle)
    BY <2>1 DEF Bin!Starts, Bin!Goes
  <2>3. /\ pc' \in [Commands -> BulletinWorks] /\ pc'[p] = w
        /\ \A q \in Commands : q # p => pc'[q] = pc[q]
    BY <2>1, <2>2
  <2>4. crossed' \in BOOLEAN /\ crossed \in BOOLEAN
    BY <2>1, <2>2 DEF StoreTyped
  <2>5. ASSUME crossed' = FALSE
        PROVE  crossed = FALSE /\ \A q \in Commands : pc[q] = Bin!Idle
    BY <2>2, <2>4, <2>5
  <2>6. crossed' = FALSE => Alone'
    BY <2>3, <2>5 DEF Alone
  <2> QED BY <2>3, <2>4, <2>5, <2>6
<1>6. crossed' = FALSE /\ deaths' = 0 =>
        \A j \in standing' \ replaced' : \E t \in Headings : inForce'[t].id = j
  BY <1>2, <1>4, <1>5 DEF BulletinInv, BulletinHolds, Bin!BulletinsStand
<1>7. /\ inForce' \in [Headings -> Bulletins] /\ standing' \subseteq Bin!Ids
      /\ counter' \in {Bin!Empty} \cup 1..(MaxNumbers + 1) /\ deaths' \in 0..MaxDeaths
  BY <1>2, <1>4 DEF BulletinInv, StoreTyped
<1>8. crossed' = FALSE => Alone' /\ \A q \in Commands : q # p => pc'[q] = Bin!Idle
  BY <1>5
<1>9. inForce'[w.title].id = w.id /\ w.id \notin standing'
  BY <1>1, <1>2, <1>3
<1> QED BY <1>2, <1>3, <1>5, <1>6, <1>7, <1>8, <1>9, BulletinGoes

\* The file of a bulletin that is being resolved changes.
LEMMA BulletinWritten ==
    ASSUME StoreInv, area = "bulletins", NEW p \in Commands, pc[p].at \in {"mark", "marking", "file"},
           NEW w \in BulletinWorks, pc' = [pc EXCEPT ![p] = w], NEW b \in Bulletins,
           inForce' = [inForce EXCEPT ![pc[p].title] = b],
           UNCHANGED <<counter, disk, bin, manifest, made, standing, replaced, crossed, deaths, area>>,
           w = Bin!Idle \/ (w.title = pc[p].title /\ w.id = pc[p].id),
           w.at \in {"idle", "marking", "file"},
           w.at = "marking" => b.id = Bin!Empty,
           w.at = "file" => b.id = pc[p].id
    PROVE  StoreInv'
<1> DEFINE h == pc[p].title
<1>1. BulletinInv /\ StoreTyped /\ pc[p] \in BulletinWorks /\ inForce \in [Headings -> Bulletins]
  BY DEF StoreInv, BulletinInv
<1>2. pc[p] \in [at : {"mark", "marking", "file"}, title : Headings, id : Bin!Ids]
  BY <1>1, BulletinWorkIs
<1>3. h \in Headings /\ pc[p].id \in Bin!Ids /\ pc[p].at # "idle"
  BY <1>2
<1>4. /\ pc' \in [Commands -> BulletinWorks] /\ pc'[p] = w
      /\ crossed' \in BOOLEAN
      /\ crossed' = FALSE => Alone' /\ \A q \in Commands : q # p => pc'[q] = Bin!Idle
  BY <1>3, BulletinKnown
<1>5. crossed = FALSE /\ deaths = 0 =>
        /\ inForce[h].id \in {Bin!Empty, pc[p].id} /\ pc[p].id \notin standing
        /\ \A i \in standing \ replaced : \E t \in Headings : inForce[t].id = i
  BY <1>1 DEF BulletinInv, BulletinHolds, Bin!BulletinsStand
<1>6. Bin!Idle.at = "idle"
  BY DEF Bin!Idle
<1> HIDE DEF h
<1>7. /\ inForce' \in [Headings -> Bulletins] /\ inForce'[h] = b
      /\ \A t \in Headings : t # h => inForce'[t] = inForce[t]
  BY <1>1, <1>3 DEF h
<1>8. standing \subseteq Bin!Ids /\ standing' \subseteq Bin!Ids
  BY <1>1 DEF BulletinInv
<1>9. crossed' = FALSE /\ deaths' = 0 =>
        \A i \in standing' \ replaced' : \E t \in Headings : inForce'[t].id = i
  <2> SUFFICES ASSUME crossed' = FALSE, deaths' = 0, NEW i \in standing' \ replaced'
               PROVE  \E t \in Headings : inForce'[t].id = i
    OBVIOUS
  <2>1. i \in standing \ replaced /\ i \in Bin!Ids
    BY <1>8
  <2>2. PICK t \in Headings : inForce[t].id = i
    BY <1>5, <2>1
  <2>3. i # Bin!Empty
    BY <2>1, TrashConstantsHold DEF Bin!Ids, Bin!Empty
  <2>4. t # h
    BY <1>5, <2>1, <2>2, <2>3
  <2> QED BY <1>7, <2>2, <2>4
<1>10. counter' \in {Bin!Empty} \cup 1..(MaxNumbers + 1) /\ deaths' \in 0..MaxDeaths
  BY <1>1 DEF StoreTyped
<1>11. crossed' = FALSE /\ deaths' = 0 =>
         /\ w.at = "marking" => inForce'[w.title].id = Bin!Empty
         /\ w.at = "file" => inForce'[w.title].id = w.id
         /\ w.at \in {"marking", "file"} => w.id \notin standing'
  BY <1>5, <1>6, <1>7 DEF h
<1> QED BY <1>4, <1>7, <1>8, <1>9, <1>10, <1>11, BulletinGoes

LEMMA BulletinMarks ==
    ASSUME StoreInv, area = "bulletins", NEW p \in Commands,
           Bin!Mark(p) \/ Bin!Marked(p) \/ Bin!File(p)
    PROVE  StoreInv'
<1>1. pc[p] \in BulletinWorks
  BY DEF StoreInv, BulletinInv
<1>2. pc[p].at \in {"mark", "marking", "file"}
  BY DEF Bin!Mark, Bin!Marked, Bin!File
<1>3. pc[p] \in [at : {"mark", "marking", "file"}, title : Headings, id : Bin!Ids]
  BY <1>1, <1>2, BulletinWorkIs
<1>4. UNCHANGED <<counter, disk, bin, manifest, made, standing, replaced, crossed, deaths, area>>
  BY DEF Bin!Mark, Bin!Marked, Bin!File, Bin!Same, Bin!trashVars
<1>5. CASE Bin!Mark(p)
  <2> DEFINE w == [pc[p] EXCEPT !.at = "marking"]
             b == Bin!TornBulletin
  <2>1. inForce' = [inForce EXCEPT ![pc[p].title] = b] /\ pc' = [pc EXCEPT ![p] = w]
    BY <1>5 DEF Bin!Mark, Bin!Goes
  <2>2. w \in BulletinWorks /\ w.at = "marking" /\ w.title = pc[p].title /\ w.id = pc[p].id
    BY <1>3 DEF BulletinWorks
  <2>3. b \in Bulletins /\ b.id = Bin!Empty
    BY TrashConstantsHold DEF Bulletins, Bin!TornBulletin, Bin!Empty
  <2> HIDE DEF w, b
  <2> QED BY <1>2, <1>4, <2>1, <2>2, <2>3, BulletinWritten
<1>6. CASE Bin!Marked(p)
  <2> DEFINE w == [pc[p] EXCEPT !.at = "file"]
             b == [id |-> pc[p].id, mark |-> "resolved"]
  <2>1. inForce' = [inForce EXCEPT ![pc[p].title] = b] /\ pc' = [pc EXCEPT ![p] = w]
    BY <1>6 DEF Bin!Marked, Bin!Goes
  <2>2. w \in BulletinWorks /\ w.at = "file" /\ w.title = pc[p].title /\ w.id = pc[p].id
    BY <1>3 DEF BulletinWorks
  <2>3. b \in Bulletins /\ b.id = pc[p].id
    BY <1>3, TrashConstantsHold DEF Bulletins, Bin!Ids
  <2> HIDE DEF w, b
  <2> QED BY <1>2, <1>4, <2>1, <2>2, <2>3, BulletinWritten
<1>7. CASE Bin!File(p)
  <2> DEFINE w == Bin!Idle
             b == Bin!NoBulletin
  <2>1. inForce' = [inForce EXCEPT ![pc[p].title] = b] /\ pc' = [pc EXCEPT ![p] = w]
    BY <1>7 DEF Bin!File, Bin!Ends, Bin!Goes
  <2>2. w \in BulletinWorks /\ w.at = "idle"
    BY DEF BulletinWorks, Bin!Idle
  <2>3. b \in Bulletins
    BY TrashConstantsHold DEF Bulletins, Bin!NoBulletin, Bin!Nothing
  <2>4. w = Bin!Idle
    OBVIOUS
  <2> HIDE DEF w, b
  <2> QED BY <1>2, <1>4, <2>1, <2>2, <2>3, <2>4, BulletinWritten
<1> QED BY <1>5, <1>6, <1>7

LEMMA BulletinStepKeeps ==
    ASSUME StoreInv, area = "bulletins", Bin!TrashNext
    PROVE  StoreInv'
<1>1. pc \in [Commands -> BulletinWorks]
  BY DEF StoreInv, BulletinInv
<1>2. ~\E place \in Paths : Bin!WriteFile(place)
  BY DEF Bin!WriteFile
<1>3. ASSUME NEW p \in Commands,
             \/ Bin!ReadCounter(p) \/ Bin!TruncateCounter(p) \/ Bin!FillCounter(p)
             \/ Bin!Die(p) \/ Bin!TruncateBulletin(p) \/ Bin!Publish(p)
             \/ Bin!Mark(p) \/ Bin!Marked(p) \/ Bin!File(p)
      PROVE  StoreInv'
  BY <1>3, BulletinsAlone, BulletinTruncated, BulletinPublished, BulletinMarks
<1>4. ASSUME NEW p \in Commands,
             \/ Bin!TakeFile(p) \/ Bin!Enter(p) \/ Bin!ClearWay(p) \/ Bin!PutBack(p)
             \/ Bin!RemoveOne(p) \/ Bin!Purged(p) \/ Bin!TruncateManifest(p)
             \/ Bin!FillManifest(p)
      PROVE  FALSE
  <2>1. \/ pc[p].at \in {"enter", "back", "purge", "save", "saving"}
        \/ pc[p].at = "take" /\ pc[p].do = "move"
    BY <1>4 DEF Bin!TakeFile, Bin!Enter, Bin!ClearWay, Bin!PutBack, Bin!RemoveOne, Bin!Purged,
       Bin!TruncateManifest, Bin!FillManifest
  <2>2. pc[p].at = "take" => pc[p].do = "create"
    BY <1>1, BulletinWorkIs
  <2>3. pc[p] \in BulletinWorks
    BY <1>1
  <2>4. pc[p].at \in {"idle", "count", "truncate", "fill", "take", "publish", "mark", "marking", "file"}
    BY <2>3, BulletinWorkIs
  <2> QED BY <2>1, <2>2, <2>4
<1>5. ASSUME NEW p \in Commands, NEW place \in Paths, Bin!Move(p, place) PROVE FALSE
  BY <1>5 DEF Bin!Move
<1>6. ASSUME NEW p \in Commands, NEW i \in Bin!Ids,
             (\E force \in BOOLEAN : Bin!Restore(p, i, force)) \/ Bin!Purge(p, i) \/ Bin!Resolve(p, i)
      PROVE  StoreInv'
  <2>1. ~\E force \in BOOLEAN : Bin!Restore(p, i, force)
    BY DEF Bin!Restore
  <2>2. ~Bin!Purge(p, i)
    BY DEF Bin!Purge
  <2> QED BY <1>6, <2>1, <2>2, BulletinResolved
<1>7. ASSUME NEW p \in Commands, NEW t \in Headings, Bin!Create(p, t) PROVE StoreInv'
  BY <1>7, BulletinCreated
<1> QED BY <1>2, <1>3, <1>4, <1>5, <1>6, <1>7 DEF Bin!TrashNext

LEMMA StoreStepsKeep == StoreHolds /\ [HostNext]_hostVars => StoreHolds'
<1> SUFFICES ASSUME StoreHolds, [HostNext]_hostVars, part' = "trash"
             PROVE  StoreInv'
  BY DEF StoreHolds
<1>1. CASE part = "trash" /\ Bin!TrashNext
  <2>1. StoreInv /\ area \in {"trash", "bulletins"}
    BY <1>1 DEF StoreHolds, StoreInv
  <2> QED BY <1>1, <2>1, TrashStepKeeps, BulletinStepKeeps
<1>2. CASE UNCHANGED <<part, storeFileVars>>
  <2>1. StoreInv
    BY <1>2 DEF StoreHolds
  <2>2. UNCHANGED <<counter, disk, bin, manifest, made, removed, inForce, resolved, standing, replaced, pc,
                    shared, belated, crossed, deaths, commands, area>>
    BY <1>2 DEF storeFileVars
  <2>3. Counting' = Counting /\ Taking' = Taking /\ Binned' = Binned /\ Alone' = Alone
    BY <2>2 DEF Counting, Taking, Binned, Alone
  <2>4. StoreTyped' /\ FilesTyped'
        <=> StoreTyped /\ FilesTyped
    BY <2>2, <2>3 DEF StoreTyped, FilesTyped
  <2>5. NumbersApart' = NumbersApart /\ WayFree' = WayFree /\ LedgerHolds' = LedgerHolds
    BY <2>2, <2>3 DEF NumbersApart, WayFree, LedgerHolds
  <2>6. Bin!ContentKept' = Bin!ContentKept /\ BulletinHolds' = BulletinHolds
    BY <2>2 DEF Bin!ContentKept, Bin!Contents, BulletinHolds, Bin!BulletinsStand
  <2>7. StoreTyped'
    BY <2>1, <2>2, <2>3 DEF StoreInv, StoreTyped
  <2>8. area = "trash" => FilesInv'
    BY <2>1, <2>2, <2>4, <2>5, <2>6, <2>7 DEF StoreInv, FilesInv
  <2>9. area = "bulletins" => BulletinInv'
    BY <2>1, <2>2, <2>6 DEF StoreInv, BulletinInv
  <2> QED BY <2>1, <2>2, <2>7, <2>8, <2>9 DEF StoreInv
<1> QED BY <1>1, <1>2 DEF HostNext, hostVars, DeployStep, OpenCodeStep, EvidenceStep, InboxStep, TrashStep,
        ServerStep, HubStep

\* The invariant gives what TrashSafe says.
LEMMA StoreMeans == StoreInv => Bin!TrashSafe
<1> SUFFICES ASSUME StoreInv
             PROVE  Bin!TrashSafe
  OBVIOUS
<1>1. area \in {"trash", "bulletins"} /\ StoreTyped
  BY DEF StoreInv
<1>2. counter \in -1..(MaxNumbers + 1) /\ deaths \in 0..MaxDeaths
  BY <1>1, TrashConstantsHold DEF StoreTyped, Bin!Empty
<1>3. CASE area = "trash"
  <2>1. FilesInv /\ FilesTyped
    BY <1>3 DEF StoreInv, FilesInv
  <2>2. Bin!TrashTypeOK
    <3>1. \A k \in 1..Len(manifest) : manifest[k].id \in Bin!Ids
      BY <2>1, EntryIs DEF FilesTyped
    <3>2. made \in 0..MaxNumbers /\ \A place \in Paths : disk[place] \in 0..MaxNumbers
      BY <2>1 DEF FilesTyped
    <3> QED BY <1>2, <1>3, <2>1, <3>1, <3>2 DEF FilesTyped, Bin!TrashTypeOK
  <2>3. Bin!BulletinsStand
    BY <2>1 DEF FilesTyped, Bin!BulletinsStand
  <2>4. Bin!ManifestExact
    <3> SUFFICES ASSUME Bin!Quiet, ~crossed, deaths = 0, NEW i \in Bin!Ids
                 PROVE  /\ Bin!Cardinality(Bin!Index(i)) <= 1
                        /\ bin[i] # Bin!Nothing <=> \E k \in Bin!Index(i) : Bin!InTrash(manifest[k])
      BY DEF Bin!ManifestExact
    <3>1. \A p \in Commands : pc[p].at = "idle"
      BY DEF Bin!Quiet, Bin!Idle
    <3>2. Ledger(manifest, Binned, counter)
      BY <1>1, <2>1, <3>1 DEF StoreTyped, FilesInv, LedgerHolds
    <3>3. \A k, l \in Bin!Index(i) : k = l
      BY <3>2 DEF Ledger, Bin!Index
    <3>4. Bin!Cardinality(Bin!Index(i)) <= 1
      <4>1. Bin!Cardinality(Bin!Index(i)) = Cardinality(Bin!Index(i))
        BY DEF Bin!Cardinality, Cardinality
      <4>2. CASE Bin!Index(i) = {}
        BY <4>1, <4>2, FS_EmptySet
      <4>3. CASE Bin!Index(i) # {}
        <5>1. PICK k : Bin!Index(i) = {k}
          BY <3>3, <4>3
        <5>2. Cardinality({k}) = 1
          BY FS_Singleton
        <5>3. Cardinality(Bin!Index(i)) = 1
          BY <5>1, <5>2
        <5> QED BY <4>1, <5>3
      <4> QED BY <4>2, <4>3
    <3>5. i \in Binned <=> \E k \in 1..Len(manifest) : manifest[k].status = "trashed" /\ manifest[k].id = i
      BY <3>2 DEF Ledger
    <3>6. bin[i] # Bin!Nothing <=> \E k \in Bin!Index(i) : Bin!InTrash(manifest[k])
      BY <3>5 DEF Binned, Bin!Index, Bin!InTrash
    <3> QED BY <3>4, <3>6
  <2> QED BY <2>1, <2>2, <2>3, <2>4 DEF FilesInv, Bin!TrashSafe
<1>4. CASE area = "bulletins"
  <2>1. BulletinInv
    BY <1>4 DEF StoreInv
  <2>2. /\ made = 0 /\ manifest = <<>> /\ disk = [p \in Paths |-> Bin!Nothing]
        /\ bin = [i \in Bin!Ids |-> Bin!Nothing]
    BY <2>1 DEF BulletinInv
  <2>3. Bin!TrashTypeOK
    BY <1>2, <1>4, <2>2, TrashConstantsHold DEF Bin!TrashTypeOK, Bin!Nothing
  <2>4. Bin!ContentKept
    BY <2>2 DEF Bin!ContentKept
  <2>5. Bin!ManifestExact
    <3>1. \A i \in Bin!Ids : Bin!Index(i) = {} /\ bin[i] = Bin!Nothing
      BY <2>2 DEF Bin!Index
    <3>2. \A i \in Bin!Ids : Bin!Cardinality(Bin!Index(i)) <= 1
      <4> SUFFICES ASSUME NEW i \in Bin!Ids
                   PROVE  Bin!Cardinality(Bin!Index(i)) <= 1
        OBVIOUS
      <4>1. Bin!Cardinality(Bin!Index(i)) = Cardinality(Bin!Index(i))
        BY DEF Bin!Cardinality, Cardinality
      <4> QED BY <3>1, <4>1, FS_EmptySet
    <3> QED BY <3>1, <3>2 DEF Bin!ManifestExact
  <2>6. Bin!BulletinsStand
    BY <1>1, <2>1 DEF StoreTyped, BulletinInv, BulletinHolds, Bin!BulletinsStand
  <2> QED BY <2>3, <2>4, <2>5, <2>6 DEF Bin!TrashSafe
<1> QED BY <1>1, <1>3, <1>4

-----------------------------------------------------------------------------
\* While its commands come one at a time, the API server that listens is the one
\* the pid file names; no document of the operator is lost or doubled by requests
\* that overlap, and no trashed file by commands that overlap or die
\* (serve-lifecycle.ts, actions.ts, trash/store.ts, bulletins/store.ts).
THEOREM ServerIsSafe == HostSpec => []ServerSafe
<1>1. HostInit => ServerHolds /\ InboxHolds /\ StoreHolds
  BY ServerStarts, InboxStarts, StoreStarts
<1>2. ServerHolds /\ InboxHolds /\ StoreHolds /\ [HostNext]_hostVars => (ServerHolds /\ InboxHolds /\ StoreHolds)'
  BY ServerStepsKeep, InboxStepsKeep, StoreStepsKeep
<1>3. ServerHolds /\ InboxHolds /\ StoreHolds => ServerSafe
  BY ServerMeans, InboxMeans, StoreMeans DEF ServerHolds, InboxHolds, StoreHolds, ServerSafe
<1> QED BY <1>1, <1>2, <1>3, PTL DEF HostSpec

=============================================================================
