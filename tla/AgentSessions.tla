--------------------------- MODULE AgentSessions ---------------------------
(***************************************************************************)
(* The interactive sessions of the Agent API server: the SessionManager    *)
(* (packages/pa-core/src/agent-api/ws/session-hub.ts), the WebSocket       *)
(* connections of /ws/session (agent-api/index.ts) and the SSE streams of  *)
(* /api/sessions/:id/stream (agent-api/routes/sessions.ts).                *)
(*                                                                         *)
(* The server is one event loop: a callback runs to its end, so an action  *)
(* is one callback, and what interleaves is the order of callbacks: client *)
(* messages, the continuation after an awaited preflight, child output,    *)
(* exit and close, and timers.  A child's exit and the close event that    *)
(* follows it are two moments.                                             *)
(***************************************************************************)
EXTENDS Integers, FiniteSets

CONSTANTS
    Sessions,      \* the ids allocateId hands out, one per session
    Conns,         \* WebSocket connections
    Streams,       \* SSE requests
    Runtimes,      \* "opencode" and "pi"
    EarlyId,       \* the runtimes whose native id is known at the start ("pi")
    MaxSessions,   \* maxSessions
    MaxPending,    \* bound on a connection's requests that await a preflight
    None

ASSUME SessionsAssumption ==
    /\ MaxSessions \in Nat /\ MaxPending \in Nat
    /\ Conns \cap Streams = {}
    /\ None \notin Sessions /\ None \notin Runtimes

VARIABLES
    up,          \* the server runs
    table,       \* SessionManager.sessions
    child,       \* the child process of each session
    stopping,    \* ActiveSession.terminated
    signalled,   \* child.killed: our SIGTERM was delivered
    timer,       \* the escalation timer is armed
    carry,       \* an incomplete line is buffered
    sinks,       \* ActiveSession.sinks
    run,         \* SessionRecord.runtime
    nid,         \* the native session it runs, named by the session that created it
    native,      \* nativeSessionRuntimes
    known,       \* history: the native sessions that map has ever held
    conn,        \* state of each connection
    active,      \* activeSessionId of each connection
    owner,       \* history: the connection that started each session
    pending,     \* requests of each connection that await a preflight
    sse,         \* state of each SSE request
    watch,       \* the session it streams
    told         \* history: what each connection was told of each session

process == <<child, stopping, signalled, timer, carry>>
record == <<run, nid, native, known, owner>>
client == <<conn, active, pending>>
stream == <<sse, watch>>
vars == <<up, table, process, sinks, record, client, stream, told>>

-----------------------------------------------------------------------------
Fresh == {s \in Sessions : child[s] = "unused"}

\* A session with a child process; register creates sessions without one.
Spawned(s) == child[s] \notin {"unused", "deploy"}

\* child.exitCode is set by a normal exit and by a failed spawn; a child that
\* died of a signal leaves it null.
ExitCodeSet(s) == child[s] = "exited"

Final == {"end", "error"}

\* What a connection has been told of a session after one more event.
Hears(old, kind) ==
    IF kind \in Final
    THEN IF old \in {"nothing", "open"} THEN "ended" ELSE "twice"
    ELSE IF old \in {"nothing", "open"} THEN "open" ELSE "late"

\* emitEvent to the sinks of each session of S: a connection's sink forgets its
\* active session on an end or an error, a stream's sink resolves its wait.
Tell(S, kind) ==
    /\ told' = [c \in Conns |-> [s \in Sessions |->
          IF s \in S /\ c \in sinks[s] /\ conn[c] = "open"
          THEN Hears(told[c][s], kind) ELSE told[c][s]]]
    /\ active' = [c \in Conns |->
          IF kind \in Final /\ \E s \in S : c \in sinks[s] THEN None ELSE active[c]]
    /\ sse' = [k \in Streams |->
          IF kind \in Final /\ sse[k] = "open" /\ \E s \in S : k \in sinks[s]
          THEN "closing" ELSE sse[k]]

\* Mutant: the session keeps its sinks.
FinalizeKeepingSinks(s) == table' = table \ {s} /\ UNCHANGED sinks

\* finalize: the session leaves the table and lets its sinks go.
Finalize(s) ==
    IF s \in table
    THEN table' = table \ {s} /\ sinks' = [sinks EXCEPT ![s] = {}]
    ELSE UNCHANGED <<table, sinks>>

\* Mutant: a stopped session leaves the table when its child closes.
TerminateKeepingEntry(S) ==
    /\ table' = table
    /\ stopping' = [s \in Sessions |-> stopping[s] \/ s \in S]
    /\ signalled' = [s \in Sessions |-> signalled[s] \/ (s \in S /\ child[s] = "running")]
    /\ timer' = [s \in Sessions |->
          timer[s] \/ (s \in S /\ Spawned(s) /\ ~ExitCodeSet(s))]

\* terminate and delete, for the sessions of S: SIGTERM and an escalation timer
\* for a child that has not exited.  The end of such a child is not told here.
Terminate(S) ==
    /\ table' = table \ S
    /\ stopping' = [s \in Sessions |-> stopping[s] \/ s \in S]
    /\ signalled' = [s \in Sessions |-> signalled[s] \/ (s \in S /\ child[s] = "running")]
    /\ timer' = [s \in Sessions |->
          timer[s] \/ (s \in S /\ Spawned(s) /\ ~ExitCodeSet(s))]

\* The sessions of S whose end terminate tells itself.
Quiet(S) == {s \in S : ~Spawned(s) \/ ExitCodeSet(s)}

-----------------------------------------------------------------------------
Init ==
    /\ up = TRUE /\ table = {}
    /\ child = [s \in Sessions |-> "unused"]
    /\ stopping = [s \in Sessions |-> FALSE]
    /\ signalled = [s \in Sessions |-> FALSE]
    /\ timer = [s \in Sessions |-> FALSE]
    /\ carry = [s \in Sessions |-> FALSE]
    /\ sinks = [s \in Sessions |-> {}]
    /\ run = [s \in Sessions |-> None]
    /\ nid = [s \in Sessions |-> None]
    /\ native = [s \in Sessions |-> None]
    /\ known = {}
    /\ conn = [c \in Conns |-> "new"]
    /\ active = [c \in Conns |-> None]
    /\ owner = [s \in Sessions |-> None]
    /\ pending = [c \in Conns |-> 0]
    /\ sse = [k \in Streams |-> "idle"]
    /\ watch = [k \in Streams |-> None]
    /\ told = [c \in Conns |-> [s \in Sessions |-> "nothing"]]

-----------------------------------------------------------------------------
(* Children.                                                               *)

\* The process ends, by itself or of a signal; its streams close later.
Exit(s) ==
    /\ child[s] = "running"
    /\ \E how \in {"exited", "killed"} : child' = [child EXCEPT ![s] = how]
    /\ UNCHANGED <<up, table, stopping, signalled, timer, carry, sinks, record,
                   client, stream, told>>

\* handleStdout, handleStderr: complete lines are emitted, an incomplete one is
\* kept; output that comes after termination is dropped.
Output(s) ==
    /\ child[s] \in {"running", "exited", "killed"} /\ ~stopping[s]
    /\ \E rest, lines \in BOOLEAN :
          /\ carry' = [carry EXCEPT ![s] = rest]
          /\ Tell(IF lines THEN {s} ELSE {}, "event")
    /\ UNCHANGED <<up, table, child, stopping, signalled, timer, sinks, record,
                   conn, pending, watch>>

\* handleError: the spawn failed asynchronously.
SpawnError(s) ==
    /\ child[s] = "missing"
    /\ child' = [child EXCEPT ![s] = "exited"]
    /\ IF stopping[s]
       THEN UNCHANGED <<table, sinks, told, active, sse>>
       ELSE Tell({s}, "error") /\ Finalize(s)
    /\ UNCHANGED <<up, stopping, signalled, timer, carry, record, conn, pending, watch>>

\* Mutant: the map keeps the session instead of its runtime.
LearnSession(n, r) ==
    /\ native' = [native EXCEPT ![n] = n]
    /\ known' = known \cup {n}

\* nativeSessionRuntimes.set
Learn(n, r) ==
    /\ native' = [native EXCEPT ![n] = r]
    /\ known' = known \cup {n}

\* handleClose: the leftover line is emitted, terminated or not; a native id
\* seen in the output is learned; a session that nobody terminated ends.
Close(s) ==
    /\ child[s] \in {"exited", "killed"}
    /\ child' = [child EXCEPT ![s] = "closed"]
    /\ carry' = [carry EXCEPT ![s] = FALSE]
    /\ Learn(nid[s], run[s]) \/ UNCHANGED <<native, known>>
    /\ IF stopping[s]
       THEN Tell(IF carry[s] THEN {s} ELSE {}, "event") /\ UNCHANGED <<table, sinks>>
       ELSE Tell({s}, "end") /\ Finalize(s)
    /\ UNCHANGED <<up, stopping, signalled, timer, run, nid, owner, conn, pending, watch>>

\* The escalation timer.  child.killed is true once SIGTERM was delivered.
Escalate(s) ==
    /\ timer[s]
    /\ timer' = [timer EXCEPT ![s] = FALSE]
    /\ child' = IF child[s] = "running" /\ ~signalled[s]
                THEN [child EXCEPT ![s] = "killed"] ELSE child
    /\ UNCHANGED <<up, table, stopping, signalled, carry, sinks, record, client, stream, told>>

-----------------------------------------------------------------------------
(* The connections of /ws/session.                                         *)

Connect(c) ==
    /\ conn[c] = "new"
    /\ conn' = [conn EXCEPT ![c] = "open"]
    /\ UNCHANGED <<up, table, process, sinks, record, active, pending, stream, told>>

\* A start or resume on a connection without an active session: its handler
\* awaits the runtime's sessionPreflight.
Request(c) ==
    /\ conn[c] = "open" /\ active[c] = None /\ pending[c] < MaxPending
    /\ pending' = [pending EXCEPT ![c] = @ + 1]
    /\ UNCHANGED <<up, table, process, sinks, record, conn, active, stream, told>>

\* Any message that is answered by an error, a start beside an active session
\* among them: the connection's sink forgets the active session.
Rejected(c) ==
    /\ conn[c] = "open" /\ active[c] # None
    /\ active' = [active EXCEPT ![c] = None]
    /\ UNCHANGED <<up, table, process, sinks, record, conn, pending, stream, told>>

\* The continuation is refused: preflight, prompt, runtime or capacity.
Refused(c) ==
    /\ pending[c] > 0
    /\ pending' = [pending EXCEPT ![c] = @ - 1]
    /\ active' = [active EXCEPT ![c] = None]
    /\ UNCHANGED <<up, table, process, sinks, record, conn, stream, told>>

\* Mutant: the capacity was checked before the preflight was awaited.
HasRoomBefore == TRUE

HasRoom == Cardinality(table) < MaxSessions

\* resume: the runtime of a session the map knows must agree.
RuntimeMatches(n, r) == native[n] \in {None, r}

\* createSession of a fresh session s in runtime r for the native session n,
\* its own or one to be resumed.
Create(c, s, n, r) ==
    /\ pending[c] > 0 /\ HasRoom
    /\ s \in Fresh /\ n \in known \cup {s} /\ RuntimeMatches(n, r)
    /\ pending' = [pending EXCEPT ![c] = @ - 1]
    /\ table' = table \cup {s}
    /\ \E start \in {"running", "missing"} : child' = [child EXCEPT ![s] = start]
    /\ sinks' = [sinks EXCEPT ![s] = {c}]
    /\ run' = [run EXCEPT ![s] = r]
    /\ nid' = [nid EXCEPT ![s] = n]
    /\ owner' = [owner EXCEPT ![s] = c]
    /\ IF n # s \/ r \in EarlyId THEN Learn(n, r) ELSE UNCHANGED <<native, known>>
    /\ active' = [active EXCEPT ![c] = s]
    /\ UNCHANGED <<up, stopping, signalled, timer, carry, conn, stream, told>>

\* The spawn throws: the session is dropped and the map forgets its native id.
CreateFails(c, s, n, r) ==
    /\ pending[c] > 0 /\ HasRoom
    /\ s \in Fresh /\ n \in known \cup {s} /\ RuntimeMatches(n, r)
    /\ pending' = [pending EXCEPT ![c] = @ - 1]
    /\ native' = IF n # s THEN [native EXCEPT ![n] = None] ELSE native
    /\ active' = [active EXCEPT ![c] = None]
    /\ UNCHANGED <<up, table, process, sinks, run, nid, known, owner, conn, stream, told>>

\* stop: terminate, if the session is still in the table, and an end or an
\* error of the connection's own.
Stop(c) ==
    LET s == active[c]
        S == {s} \cap table
    IN  /\ conn[c] = "open" /\ s # None
        /\ Terminate(S)
        /\ told' = [d \in Conns |->
              LET first == IF d \in sinks[s] /\ conn[d] = "open" /\ Quiet(S) # {}
                           THEN [told[d] EXCEPT ![s] = Hears(@, "end")] ELSE told[d]
              IN  IF d = c THEN [first EXCEPT ![s] = Hears(@, "end")] ELSE first]
        /\ active' = [active EXCEPT ![c] = None]
        /\ sse' = [k \in Streams |->
              IF k \in sinks[s] /\ Quiet(S) # {} /\ sse[k] = "open" THEN "closing" ELSE sse[k]]
    /\ UNCHANGED <<up, child, carry, sinks, record, conn, pending, watch>>

\* onClose, onError: disconnect.
Disconnect(c) ==
    LET S == {active[c]} \cap table IN
    /\ conn[c] = "open"
    /\ conn' = [conn EXCEPT ![c] = "closed"]
    /\ Terminate(S)
    /\ active' = [active EXCEPT ![c] = None]
    /\ sse' = [k \in Streams |->
          IF sse[k] = "open" /\ \E s \in Quiet(S) : k \in sinks[s] THEN "closing" ELSE sse[k]]
    /\ UNCHANGED <<up, child, carry, sinks, record, pending, watch, told>>

-----------------------------------------------------------------------------
(* REST.                                                                   *)

\* register: a deploy session, without a child.
Register(s) ==
    /\ s \in Fresh /\ HasRoom
    /\ table' = table \cup {s}
    /\ child' = [child EXCEPT ![s] = "deploy"]
    /\ UNCHANGED <<up, stopping, signalled, timer, carry, sinks, record, client, stream, told>>

\* POST /api/sessions/:id/stop.
RestStop(s) ==
    /\ s \in table
    /\ Terminate({s}) /\ Tell(Quiet({s}), "end")
    /\ UNCHANGED <<up, child, carry, sinks, record, conn, pending, watch>>

\* GET /api/sessions/:id/stream subscribes to a session with a child.
Observe(k, s) ==
    /\ sse[k] = "idle" /\ s \in table /\ Spawned(s)
    /\ sse' = [sse EXCEPT ![k] = "open"]
    /\ watch' = [watch EXCEPT ![k] = s]
    /\ sinks' = [sinks EXCEPT ![s] = @ \cup {k}]
    /\ UNCHANGED <<up, table, process, record, client, told>>

\* The wait is resolved, or the request aborted: unsubscribe and close.
CloseStream(k) ==
    /\ sse' = [sse EXCEPT ![k] = "closed"]
    /\ sinks' = [sinks EXCEPT ![watch[k]] = @ \ {k}]
    /\ UNCHANGED <<up, table, process, record, client, watch, told>>

StreamDone(k) == sse[k] = "closing" /\ CloseStream(k)
StreamAborted(k) == sse[k] = "open" /\ CloseStream(k)

\* The server process exits: cleanup, and no callback after it.
Shutdown ==
    /\ up' = FALSE
    /\ Terminate(table)
    /\ UNCHANGED <<child, carry, sinks, record, client, stream, told>>

-----------------------------------------------------------------------------
Callbacks ==
    \E s \in Sessions : Exit(s) \/ Output(s) \/ SpawnError(s) \/ Close(s) \/ Escalate(s)

Messages ==
    \E c \in Conns :
       \/ Connect(c) \/ Request(c) \/ Rejected(c) \/ Refused(c)
       \/ Stop(c) \/ Disconnect(c)
       \/ \E s, n \in Sessions, r \in Runtimes : Create(c, s, n, r) \/ CreateFails(c, s, n, r)

Rest ==
    \/ \E s \in Sessions : Register(s) \/ RestStop(s)
    \/ \E k \in Streams : StreamDone(k) \/ StreamAborted(k) \/ \E s \in Sessions : Observe(k, s)

Next == up /\ (Callbacks \/ Messages \/ Rest \/ Shutdown)

Spec == Init /\ [][Next]_vars

\* The event loop delivers what is due: error and close events, timers, and
\* the resolution of a stream's wait.  Nothing is assumed of children, clients
\* or output.
Fairness ==
    /\ \A s \in Sessions :
          WF_vars(up /\ (SpawnError(s) \/ Close(s))) /\ WF_vars(up /\ Escalate(s))
    /\ \A k \in Streams : WF_vars(up /\ StreamDone(k))

FairSpec == Spec /\ Fairness

-----------------------------------------------------------------------------
(* Properties.                                                             *)

ChildStates == {"unused", "deploy", "running", "missing", "exited", "killed", "closed"}

TypeOK ==
    /\ up \in BOOLEAN
    /\ table \subseteq Sessions
    /\ child \in [Sessions -> ChildStates]
    /\ stopping \in [Sessions -> BOOLEAN] /\ signalled \in [Sessions -> BOOLEAN]
    /\ timer \in [Sessions -> BOOLEAN] /\ carry \in [Sessions -> BOOLEAN]
    /\ sinks \in [Sessions -> SUBSET (Conns \cup Streams)]
    /\ run \in [Sessions -> Runtimes \cup {None}]
    /\ nid \in [Sessions -> Sessions \cup {None}]
    /\ native \in [Sessions -> Runtimes \cup {None}]
    /\ known \subseteq Sessions
    /\ conn \in [Conns -> {"new", "open", "closed"}]
    /\ active \in [Conns -> Sessions \cup {None}]
    /\ owner \in [Sessions -> Conns \cup {None}]
    /\ pending \in [Conns -> 0..MaxPending]
    /\ sse \in [Streams -> {"idle", "open", "closing", "closed"}]
    /\ watch \in [Streams -> Sessions \cup {None}]
    /\ told \in [Conns -> [Sessions -> {"nothing", "open", "ended", "twice", "late"}]]

\* "Maximum concurrent sessions (both spawned and registered deploy sessions
\* count toward this limit)": the table never outgrows maxSessions, although
\* several requests await their preflights when one of them takes the last slot.
CapacityKept == Cardinality(table) <= MaxSessions

\* No slot is lost: an entry of the table is a session nobody has terminated
\* and whose child, if it has one, has yet to close (finalize, stop, disconnect
\* and cleanup are the only ways out, and one of them is still to come).
SlotsLive ==
    \A s \in table : ~stopping[s] /\ child[s] \notin {"unused", "closed"}

\* The client of a session nobody terminates is told its end exactly when the
\* session leaves the table, whether its spawn failed or its child closed, and
\* never hears of it again (handleError, handleClose, finalize).
OwnerToldOnce ==
    \A s \in Sessions :
        Spawned(s) /\ ~stopping[s] =>
            LET heard == told[owner[s]][s] IN
            /\ heard \notin {"twice", "late"}
            /\ conn[owner[s]] = "open" => (heard = "ended" <=> s \notin table)

\* No slot is lost and no end is told twice or to nobody.
EndsTold == SlotsLive /\ OwnerToldOnce

Gone(s) == child[s] \in {"missing", "exited", "killed"}

\* The slot of a child that is gone is freed, whichever of the error and close
\* callbacks, a stop or a disconnect comes first.
SlotFreed == \A s \in Sessions : s \in table /\ Gone(s) ~> s \notin table

\* The stream of a session that ends by itself closes: "the connection is never
\* held open forever".
StreamReleased ==
    \A k \in Streams, s \in Sessions :
        watch[k] = s /\ sse[k] = "open" /\ Gone(s) /\ ~stopping[s]
        ~> sse[k] = "closed" \/ stopping[s] \/ ~up

-----------------------------------------------------------------------------
(* What the documentation says, where the code does something else.        *)

\* session-hub.ts: after SIGTERM, terminate escalates to SIGKILL.
Escalates ==
    \A s \in Sessions :
        stopping[s] /\ child[s] = "running" ~> child[s] # "running" \/ ~up

\* routes/sessions.ts: "Either way we unsubscribe and let the stream close".
StreamsClose ==
    \A k \in Streams, s \in Sessions :
        watch[k] = s /\ sse[k] = "open" /\ child[s] = "closed" ~> sse[k] = "closed" \/ ~up
=============================================================================
