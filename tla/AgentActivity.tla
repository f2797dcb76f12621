--------------------------- MODULE AgentActivity ---------------------------
(***************************************************************************)
(* What a deployment records of its agent's work, and what it concludes    *)
(* from it.  The supervisor of a Pi run reads the protocol lines Pi prints:*)
(* it projects them on the activity log (pi-pa/src/adapter.ts,             *)
(* PiActivityProjector) and judges from them whether each announced tool   *)
(* call was executed once (PiToolProtocolInspector).  Of an OpenCode run   *)
(* two processes append to one activity log: the runner, which cuts both   *)
(* output streams of the agent into lines (opencode-pa/src/adapter.ts),    *)
(* and the plugin inside the agent, which also puts a barrier around each  *)
(* file tool of an advisory session (plugins/pa-safety-activity.ts).       *)
(***************************************************************************)
EXTENDS Integers, Sequences, SequencesExt, FiniteSets

CONSTANTS
    ToolCalls,    \* the tool calls of Pi's message, in the order of its content
    Outputs,      \* the records OpenCode prints, in order
    Named,        \* those of them that carry the session id
    FileCalls,    \* the file tools OpenCode's agent calls
    Sayings,      \* what the events of the calls say, each way a function: two may say the same
    NoCall,       \* the absence of a call, a record or an id
    MaxOdd,       \* bound: records of Pi that no orderly run would print
    MaxNoise,     \* bound: pieces the agent writes to its error output
    MaxFailures   \* bound: appends and publications that fail

ActivityAssumption ==
    /\ IsInjective(ToolCalls) /\ IsInjective(Outputs) /\ ToolCalls # <<>>
    /\ Named \subseteq ToSet(Outputs)
    /\ NoCall \notin ToSet(ToolCalls) \cup ToSet(Outputs) \cup FileCalls
    /\ \A s \in Sayings : DOMAIN s = FileCalls
    /\ MaxOdd \in Nat /\ MaxNoise \in Nat /\ MaxFailures \in Nat

VARIABLES
    runtime,   \* whose run this is: "pi" or "opencode"
    log,       \* activity.jsonl: bodies, halves of bodies and newlines
    fails,     \* appends and publications that failed so far
    outcome,   \* the run: "open", "ok", "failed" or "crashed"
    \* a Pi run
    heard,     \* history: per call, what the lines read so far said of it
    spoken,    \* Pi's message is complete (or cut short): its tools may run
    stopped,   \* history: a line told of a terminal error
    odd,       \* odd records printed so far
    carry,     \* the line whose beginning has arrived
    tracked,   \* the inspector's calls
    terminal,  \* a line's terminal error was taken
    seen,      \* the projector: names known, uses and results projected, diagnostics
    \* an OpenCode run
    printed,   \* records begun so far; the last may be unfinished
    pending,   \* the writer's unfinished line: pieces of both streams
    noise,     \* pieces written to the error output
    unended,   \* history: the last piece of the error output has no newline
    mixed,     \* history: records that shared their line with something else
    captured,  \* the session id the parser took
    partial,   \* the parser's unfinished line
    calls,     \* each file tool: "new", "running", "refused", "done" or "broken"
    pendingFiles, \* the plugin's own table
    barrier,   \* the operation that the repository lease says is active
    advisory,  \* the session is an advisory one
    lastKey,   \* the event the plugin wrote last, within the second
    says,      \* what the event of each call says
    unsaid     \* history: what was to be appended when the append failed

piVars == <<heard, spoken, stopped, odd, carry, tracked, terminal, seen>>
streamVars == <<printed, pending, noise, unended, mixed, captured, partial>>
pluginVars == <<calls, pendingFiles, barrier, advisory, says, lastKey, unsaid>>
activityVars == <<runtime, log, fails, outcome, piVars, streamVars, pluginVars>>

Called == ToSet(ToolCalls)
\* parse of JSON that fails gives this instead of a record
Plain == [t |-> "plain", ix |-> 0, id |-> NoCall, name |-> "none", sound |-> TRUE]
Junk == [Plain EXCEPT !.t = "junk"]

-----------------------------------------------------------------------------
(* The activity log.                                                       *)

Body(kind, of) == [k |-> "body", kind |-> kind, of |-> of]
Half == [k |-> "half", kind |-> "half", of |-> NoCall]
Newline == [k |-> "newline", kind |-> "newline", of |-> NoCall]

\* One write of a line with its newline.
Appended(l, body) == l \o <<body, Newline>>

\* What an append that fails leaves behind: nothing, or the line's beginning.
Remains == {<<>>, <<Half>>}

\* The reader keeps the lines that parse, so a whole body alone on its line.
Parses(l, i) ==
    /\ l[i].k = "body"
    /\ i > 1 => l[i - 1] = Newline
    /\ i < Len(l) => l[i + 1] = Newline

Read(l) == {i \in DOMAIN l : Parses(l, i)}
Told(kind, of) == \E i \in Read(log) : log[i].kind = kind /\ log[i].of = of

-----------------------------------------------------------------------------
(* The inspector of Pi's tool protocol.                                    *)

\* The call that a start names: the first tool call of the message so far.
FirstOfContent == ToolCalls[1]

LatestOf(S) == {i \in S : \A j \in S : j <= i}
Active(ts, ix) == LatestOf({i \in DOMAIN ts : ts[i].ix = ix /\ ~ts[i].ended})
Carrying(ts, c) == LatestOf({i \in DOMAIN ts : ts[i].id = c})

Fresh(ix) == [ix |-> ix, id |-> FirstOfContent, ended |-> FALSE, sound |-> TRUE,
              starts |-> 0, ends |-> 0, agrees |-> TRUE]

Inspected(ts, r) ==
    CASE r.t = "start" -> Append(ts, Fresh(r.ix))
      [] r.t = "end" -> [i \in DOMAIN ts |->
            IF i \in Active(ts, r.ix)
            THEN [ts[i] EXCEPT !.id = r.id, !.ended = TRUE, !.sound = r.sound] ELSE ts[i]]
      [] r.t \in {"exec", "done"} -> [i \in DOMAIN ts |->
            IF i \in Carrying(ts, r.id)
            THEN [ts[i] EXCEPT !.starts = @ + (IF r.t = "exec" THEN 1 ELSE 0),
                               !.ends = @ + (IF r.t = "done" THEN 1 ELSE 0),
                               !.agrees = @ /\ r.name # "other"] ELSE ts[i]]
      [] OTHER -> ts

Executed(call) == call.ended /\ call.starts = 1 /\ call.ends = 1 /\ call.agrees
Status(call) ==
    CASE Executed(call) -> "executed"
      [] ~Executed(call) /\ (call.starts > 0 \/ call.ends > 0) -> "execution-mismatch"
      [] call.starts + call.ends = 0 /\ ~call.ended -> "incomplete"
      [] call.starts + call.ends = 0 /\ call.ended /\ ~call.sound -> "malformed"
      [] OTHER -> "execution-mismatch"

\* A run has a diagnostic when some tracked call was not executed.
Diagnosed(ts) == \E i \in DOMAIN ts : Status(ts[i]) # "executed"

-----------------------------------------------------------------------------
(* The projector of Pi's records on activity events.                       *)

\* What the projector knows of a call's name before it looks at a record.
Resolves(s, r) == r.name # "none" \/ r.id \in s.known

Diagnosis(s, what, c) ==
    IF <<what, c>> \in s.noted THEN [s |-> s, out |-> <<>>]
    ELSE [s |-> [s EXCEPT !.noted = @ \cup {<<what, c>>}], out |-> <<Body("diagnostic", c)>>]

Projected(s, r) ==
    LET named == [s EXCEPT !.known = @ \cup {r.id}]
        silent == [s |-> named, out |-> <<>>]
    IN  CASE r.t = "start" -> [s |-> [s EXCEPT !.known = @ \cup {FirstOfContent}], out |-> <<>>]
          [] r.t = "end" -> silent
          [] r.t = "junk" -> Diagnosis(s, "protocol", NoCall)
          [] r.t \in {"exec", "done"} /\ ~Resolves(s, r) -> Diagnosis(s, r.t, r.id)
          [] r.t = "exec" /\ Resolves(s, r) ->
                IF r.id \in s.uses THEN silent
                ELSE [s |-> [named EXCEPT !.uses = @ \cup {r.id}], out |-> <<Body("use", r.id)>>]
          [] r.t = "done" /\ Resolves(s, r) /\ r.id \notin s.uses -> Diagnosis(named, "unmatched", r.id)
          [] r.t = "done" /\ Resolves(s, r) /\ r.id \in s.uses ->
                IF r.id \in s.results THEN silent
                ELSE [s |-> [named EXCEPT !.results = @ \cup {r.id}], out |-> <<Body("result", r.id)>>]
          [] OTHER -> [s |-> s, out |-> <<Body("text", NoCall)>>]

-----------------------------------------------------------------------------
(* A line of a Pi run.                                                     *)

\* The history of what the lines said.
Noted(h, r) ==
    CASE r.t = "start" -> [h EXCEPT ![ToolCalls[r.ix]].shown = TRUE]
      [] r.t = "end" -> [h EXCEPT ![r.id].ended = TRUE]
      [] r.t = "exec" -> [h EXCEPT ![r.id].starts = @ + 1, ![r.id].agrees = @ /\ r.name # "other",
                                   ![r.id].named = @ \/ r.name # "none" \/ h[r.id].ended]
      [] r.t = "done" -> [h EXCEPT ![r.id].ends = @ + 1, ![r.id].agrees = @ /\ r.name # "other",
                                   ![r.id].after = @ \/ h[r.id].named]
      [] OTHER -> h

Observe(r) ==
    /\ heard' = Noted(heard, r)
    /\ tracked' = Inspected(tracked, r)
    /\ terminal' = (terminal \/ r.t = "stop")
    /\ stopped' = (stopped \/ r.t = "stop")

\* The output file takes the line and the log its event; a write that fails ends the run.
Persist(r, then) ==
    LET p == Projected(seen, r)
    IN  \/ /\ seen' = p.s
           /\ log' = IF p.out = <<>> THEN log ELSE Appended(log, p.out[1])
           /\ outcome' = then
           /\ UNCHANGED fails
        \/ /\ fails < MaxFailures
           /\ fails' = fails + 1
           /\ \/ log' = log /\ UNCHANGED seen
              \/ p.out # <<>> /\ seen' = p.s /\ \E rest \in Remains : log' = log \o rest
           /\ outcome' = "failed"

Consume(r, then) == Observe(r) /\ Persist(r, then)

-----------------------------------------------------------------------------
(* What Pi prints: calls are announced in order and executed once the      *)
(* message is over; anything else is counted as odd.                       *)

Rec(t, i, name, sound) == [t |-> t, ix |-> i, id |-> ToolCalls[i], name |-> name, sound |-> sound]
Shown(i) == heard[ToolCalls[i]].shown

Orderly(r) ==
    CASE r.t = "start" -> TRUE
      [] r.t = "end" -> r.sound
      [] r.t = "exec" -> r.name = "own" /\ heard[r.id].ended /\ heard[r.id].starts = 0
      [] r.t = "done" -> r.name = "own" /\ heard[r.id].starts = 1 /\ heard[r.id].ends = 0
      [] OTHER -> FALSE

CanPrint(r) ==
    CASE r.t = "start" -> ~spoken /\ ~Shown(r.ix) /\ \A j \in 1..r.ix - 1 : Shown(j)
      [] r.t = "end" -> ~spoken /\ Shown(r.ix) /\ ~heard[r.id].ended
      [] r.t = "exec" -> spoken /\ heard[r.id].starts < 2
      [] r.t = "done" -> spoken /\ heard[r.id].ends < 2
      [] OTHER -> TRUE

Records ==
    LET I == DOMAIN ToolCalls
    IN  {Rec("start", i, "own", TRUE) : i \in I} \cup {Rec("end", i, "own", b) : i \in I, b \in BOOLEAN}
        \cup {Rec(t, i, n, TRUE) : t \in {"exec", "done"}, i \in I, n \in {"own", "other", "none"}}
        \cup {Plain, Junk, [Plain EXCEPT !.t = "stop"]}

Counts(r) ==
    /\ CanPrint(r)
    /\ odd' = odd + (IF Orderly(r) THEN 0 ELSE 1)
    /\ odd' <= MaxOdd

PiOpen == runtime = "pi" /\ outcome = "open"

\* A line arrives in one chunk, or its rest does.
PiPrints(r) ==
    /\ PiOpen /\ carry = NoCall
    /\ Counts(r)
    /\ Consume(r, "open")
    /\ UNCHANGED <<runtime, spoken, carry, streamVars, pluginVars>>

\* The beginning of a line arrives.
PiBegins(r) ==
    /\ PiOpen /\ carry = NoCall
    /\ Counts(r)
    /\ carry' = r
    /\ UNCHANGED <<runtime, log, fails, outcome, heard, spoken, stopped, tracked, terminal, seen,
                   streamVars, pluginVars>>

\* Its rest arrives.  Of a line longer than the carry only the end is left: no record.
PiGoesOn ==
    /\ PiOpen /\ carry # NoCall
    /\ \/ Consume(carry, "open") /\ UNCHANGED odd
       \/ odd < MaxOdd /\ odd' = odd + 1 /\ Consume(Plain, "open")
    /\ carry' = NoCall
    /\ UNCHANGED <<runtime, spoken, streamVars, pluginVars>>

\* The message is over, completely or not.
PiSpeaks ==
    /\ PiOpen /\ ~spoken /\ carry = NoCall
    /\ spoken' = TRUE
    /\ UNCHANGED <<runtime, log, fails, outcome, heard, stopped, odd, carry, tracked, terminal, seen,
                   streamVars, pluginVars>>

\* What the run concludes of a process that left with a code.
Concluded(code, ts, taken) == IF code = 0 /\ ~taken /\ ~Diagnosed(ts) THEN "ok" ELSE "failed"

\* Pi leaves: the unfinished line is a line too, whole or broken off.
PiCloses(code) ==
    /\ PiOpen
    /\ IF carry = NoCall
       THEN /\ outcome' = Concluded(code, tracked, terminal)
            /\ UNCHANGED <<log, fails, heard, stopped, tracked, terminal, seen>>
       ELSE \E r \in {carry, Junk} :
            Consume(r, Concluded(code, Inspected(tracked, r), terminal \/ r.t = "stop"))
    /\ carry' = NoCall
    /\ UNCHANGED <<runtime, spoken, odd, streamVars, pluginVars>>

-----------------------------------------------------------------------------
(* The runner of an OpenCode run.                                          *)

\* An append: it writes the line, or fails and leaves something behind.
Attempts(body) ==
    {[add |-> <<body, Newline>>, bad |-> 0, alive |-> TRUE]}
    \cup {[add |-> rest, bad |-> 1, alive |-> FALSE] : rest \in Remains}

Piece(of, part) == [of |-> of, part |-> part]
Ends(piece) == piece.part # "head"
Whole(ps) ==
    \/ Len(ps) = 1 /\ ps[1].part = "whole" /\ ps[1].of # NoCall
    \/ /\ Len(ps) = 2 /\ ps[1].of = ps[2].of /\ ps[1].of # NoCall
       /\ ps[1].part = "head" /\ ps[2].part = "tail"

TextOf == Body("text", NoCall)

\* A record is kept as what it says, or as text when that append fails; any other
\* line is text.  A failure of the last append is nobody's to catch.
LineWrites(ps) ==
    IF ~Whole(ps) THEN Attempts(TextOf)
    ELSE {a \in Attempts(Body("record", ps[1].of)) : a.alive}
         \cup {[add |-> a.add \o b.add, bad |-> a.bad + b.bad, alive |-> b.alive] :
                   a \in {a \in Attempts(Body("record", ps[1].of)) : ~a.alive}, b \in Attempts(TextOf)}

Took(w, alive, dead) ==
    /\ fails' = fails + w.bad /\ fails' <= MaxFailures
    /\ log' = log \o w.add
    /\ outcome' = IF w.alive THEN alive ELSE dead

\* The writer collects pieces until one of them ends the line.
Collects(piece) ==
    IF Ends(piece)
    THEN /\ pending' = <<>>
         /\ \E w \in LineWrites(Append(pending, piece)) : Took(w, "open", "crashed")
    ELSE /\ pending' = Append(pending, piece)
         /\ UNCHANGED <<log, fails, outcome>>

\* The session id of a line that was read whole.
IdOf(ps) == IF Whole(ps) /\ ps[1].of \in Named THEN "id" ELSE "none"

\* The parser of the session id has a buffer of its own and stops once it has one.
Parsed(piece) ==
    IF captured # "none" THEN UNCHANGED <<captured, partial>>
    ELSE IF Ends(piece)
         THEN captured' = IdOf(Append(partial, piece)) /\ partial' = <<>>
         ELSE partial' = Append(partial, piece) /\ UNCHANGED captured

OcOpen == runtime = "opencode" /\ outcome = "open"

\* A chunk of the standard output: a record, its beginning or its rest.
OcPrints(part) ==
    /\ OcOpen
    /\ printed.half <=> part = "tail"
    /\ part # "tail" => printed.n < Len(Outputs)
    /\ printed' = [n |-> IF part = "tail" THEN printed.n ELSE printed.n + 1, half |-> part = "head"]
    /\ LET r == Outputs[printed'.n]
       IN  /\ Collects(Piece(r, part))
           /\ Parsed(Piece(r, part))
           /\ mixed' = IF unended THEN mixed \cup {r} ELSE mixed
    /\ unended' = (unended /\ part = "head")
    /\ UNCHANGED <<runtime, noise, piVars, pluginVars>>

\* A chunk of the error output, with its newline or without it.
OcComplains(part) ==
    /\ OcOpen /\ noise < MaxNoise
    /\ noise' = noise + 1
    /\ Collects(Piece(NoCall, part))
    /\ mixed' = IF printed.half THEN mixed \cup {Outputs[printed.n]} ELSE mixed
    /\ unended' = (part = "head")
    /\ UNCHANGED <<runtime, printed, captured, partial, piVars, pluginVars>>

\* The agent leaves: the rest of a line is a line, the id may be cut out of it, and a
\* code other than 0 is told.
OcCloses(code) ==
    /\ OcOpen
    /\ \E w \in IF pending = <<>> THEN {[add |-> <<>>, bad |-> 0, alive |-> TRUE]} ELSE LineWrites(pending),
          e \in IF code = 0 THEN {[add |-> <<>>, bad |-> 0, alive |-> TRUE]} ELSE Attempts(Body("error", NoCall)) :
          IF w.alive
          THEN Took([add |-> w.add \o e.add, bad |-> w.bad + e.bad, alive |-> e.alive],
                    IF code = 0 THEN "ok" ELSE "failed", "crashed")
          ELSE Took(w, "crashed", "crashed")
    /\ captured' \in IF captured = "none" /\ partial # <<>> /\ partial[1].of \in Named
                     THEN {"none", "cut", "id"} ELSE {captured}
    /\ pending' = <<>> /\ partial' = <<>>
    /\ UNCHANGED <<runtime, printed, noise, unended, mixed, piVars, pluginVars>>

-----------------------------------------------------------------------------
(* The plugin inside the agent.                                            *)

PluginLives == runtime = "opencode" /\ outcome \in {"open", "crashed"}
Nothing == Body("nothing", NoCall)

\* An event equal to the last one within a second is not written again.  The key is
\* kept before the append, so also when that fails.
Tells(body, well, badly) ==
    /\ lastKey' = body
    /\ IF body = lastKey THEN well /\ UNCHANGED <<log, fails, unsaid>>
       ELSE \E w \in Attempts(body) :
            /\ fails' = fails + w.bad /\ fails' <= MaxFailures
            /\ log' = log \o w.add
            /\ unsaid' = IF w.alive THEN unsaid ELSE unsaid \cup {body}
            /\ IF w.alive THEN well ELSE badly

Becomes(c, stage) == calls' = [calls EXCEPT ![c] = stage]

\* The repository lease has room for one operation.
MayBegin(c) == c \notin pendingFiles /\ barrier = NoCall

\* tool.execute.before: an advisory session puts its barrier up, then the event is told.
Before(c) ==
    /\ PluginLives /\ calls[c] = "new"
    /\ advisory => MayBegin(c)
    /\ IF advisory THEN barrier' = c /\ pendingFiles' = pendingFiles \cup {c}
       ELSE UNCHANGED <<barrier, pendingFiles>>
    /\ Tells(Body("before", says[c]), Becomes(c, "running"), Becomes(c, "refused"))
    /\ UNCHANGED <<runtime, outcome, advisory, says, piVars, streamVars>>

\* The guard of the policy, the host or the lease refuses the call.
Refused(c) ==
    /\ PluginLives /\ calls[c] = "new"
    /\ Becomes(c, "refused")
    /\ UNCHANGED <<runtime, log, fails, outcome, pendingFiles, barrier, advisory, says, lastKey, unsaid,
                   piVars, streamVars>>

\* tool.execute.after: the result is published, the barrier lifted and the event told.
After(c) ==
    /\ PluginLives /\ calls[c] = "running"
    /\ IF c \in pendingFiles THEN barrier' = NoCall /\ pendingFiles' = pendingFiles \ {c}
       ELSE UNCHANGED <<barrier, pendingFiles>>
    /\ Tells(Body("after", says[c]), Becomes(c, "done"), Becomes(c, "broken"))
    /\ UNCHANGED <<runtime, outcome, advisory, says, piVars, streamVars>>

\* The result cannot be published, or the lease does not let the operation go.
Unsettled(c) ==
    /\ PluginLives /\ calls[c] = "running" /\ c \in pendingFiles
    /\ fails < MaxFailures /\ fails' = fails + 1
    /\ Becomes(c, "broken")
    /\ UNCHANGED <<runtime, log, outcome, pendingFiles, barrier, advisory, says, lastKey, unsaid,
                   piVars, streamVars>>

\* The tool throws: the agent does not ask what comes after it.
ToolThrows(c) ==
    /\ PluginLives /\ calls[c] = "running"
    /\ Becomes(c, "broken")
    /\ UNCHANGED <<runtime, log, fails, outcome, pendingFiles, barrier, advisory, says, lastKey, unsaid,
                   piVars, streamVars>>

\* The second within which an event is not told again is over.
SecondPasses ==
    /\ PluginLives /\ lastKey # Nothing
    /\ lastKey' = Nothing
    /\ UNCHANGED <<runtime, log, fails, outcome, calls, pendingFiles, barrier, advisory, says, unsaid,
                   piVars, streamVars>>

-----------------------------------------------------------------------------
Silent == [shown |-> FALSE, ended |-> FALSE, starts |-> 0, ends |-> 0, agrees |-> TRUE,
           named |-> FALSE, after |-> FALSE]

ActivityInit ==
    /\ runtime \in {"pi", "opencode"}
    /\ log = <<>> /\ fails = 0 /\ outcome = "open"
    /\ heard = [c \in Called |-> Silent]
    /\ spoken = FALSE /\ stopped = FALSE /\ odd = 0 /\ carry = NoCall
    /\ tracked = <<>> /\ terminal = FALSE
    /\ seen = [known |-> {}, uses |-> {}, results |-> {}, noted |-> {}]
    /\ printed = [n |-> 0, half |-> FALSE]
    /\ pending = <<>> /\ noise = 0 /\ unended = FALSE /\ mixed = {}
    /\ captured = "none" /\ partial = <<>>
    /\ calls = [c \in FileCalls |-> "new"]
    /\ pendingFiles = {} /\ barrier = NoCall
    /\ advisory \in {a \in BOOLEAN : a => runtime = "opencode"}
    /\ says \in {s \in Sayings : runtime = "pi" => \A c, d \in FileCalls : s[c] = s[d]}
    /\ lastKey = Nothing /\ unsaid = {}

ActivityNext ==
    \/ \E r \in Records : PiPrints(r) \/ PiBegins(r)
    \/ PiGoesOn
    \/ PiSpeaks
    \/ \E code \in {0, 1} : PiCloses(code) \/ OcCloses(code)
    \/ \E part \in {"head", "tail", "whole"} : OcPrints(part)
    \/ \E part \in {"head", "whole"} : OcComplains(part)
    \/ \E c \in FileCalls : Before(c) \/ Refused(c) \/ After(c) \/ Unsettled(c) \/ ToolThrows(c)
    \/ SecondPasses


-----------------------------------------------------------------------------
(* Properties.                                                             *)

\* The type invariant.
ActivityTypeOK ==
    /\ runtime \in {"pi", "opencode"} /\ outcome \in {"open", "ok", "failed", "crashed"}
    /\ fails \in 0..MaxFailures /\ odd \in 0..MaxOdd /\ noise \in 0..MaxNoise
    /\ \A i \in DOMAIN log : log[i].k \in {"body", "half", "newline"}
    /\ \A i \in DOMAIN tracked : tracked[i].id \in Called /\ tracked[i].ix \in DOMAIN ToolCalls
    /\ carry \in Records \cup {NoCall}
    /\ seen.known \cup seen.uses \cup seen.results \subseteq Called
    /\ captured \in {"none", "id", "cut"} /\ printed.n \in 0..Len(Outputs)
    /\ calls \in [FileCalls -> {"new", "running", "refused", "done", "broken"}]
    /\ pendingFiles \subseteq FileCalls /\ barrier \in FileCalls \cup {NoCall}
    /\ says \in Sayings

\* What a call needs to have been executed: announced and ended, begun once and
\* finished once, as the same tool with the same arguments.
Proper(h) == h.ended /\ h.starts = 1 /\ h.ends = 1 /\ h.agrees

\* A run of Pi succeeds only when no line told of a terminal error and every call it
\* announced was executed once; and when Pi leaves with code 0 and all of that is so, it
\* does succeed, whatever chunks the lines came in (PiToolProtocolInspector, finish).
Verdict ==
    runtime = "pi" =>
        /\ outcome = "ok" => ~stopped /\ \A c \in Called : heard[c].shown => Proper(heard[c])
        /\ (outcome = "open" /\ carry = NoCall /\ ~stopped
              /\ (\A c \in Called : heard[c].shown => Proper(heard[c]))
              /\ \A c \in Called : ~heard[c].shown => heard[c].starts + heard[c].ends = 0)
           => Concluded(0, tracked, terminal) = "ok"

Positions(kind, of) == {i \in DOMAIN log : log[i].k = "body" /\ log[i].kind = kind /\ log[i].of = of}

\* On the log of a Pi run a call has one use and one result at most, the result after
\* the use; while no write has failed, every call that was begun under a name has its use
\* and every end after it has its result (PiActivityProjector).
PiPaired ==
    runtime = "pi" => \A c \in Called :
        /\ Cardinality(Positions("use", c)) <= 1 /\ Cardinality(Positions("result", c)) <= 1
        /\ \A i \in Positions("result", c) : \E j \in Positions("use", c) : j < i
        /\ fails = 0 /\ heard[c].named => Positions("use", c) # {}
        /\ fails = 0 /\ heard[c].named /\ heard[c].after => Positions("result", c) # {}

\* A record OpenCode printed on a line of its own is on the log as itself while no append
\* has failed, however it was cut into chunks (createOpencodeActivityWriter).
StreamKept ==
    runtime = "opencode" /\ fails = 0 =>
        \A i \in 1..printed.n :
            (i < printed.n \/ ~printed.half) /\ Outputs[i] \notin mixed => Told("record", Outputs[i])

\* The session id a run keeps is the one its first whole record with an id carries, and
\* a broken one only when no such record was complete (createOpencodeSessionIdParser).
SessionTaken ==
    LET complete == {i \in 1..printed.n : i < printed.n \/ ~printed.half}
    IN  /\ (\E i \in complete : Outputs[i] \in Named) => captured = "id"
        /\ captured = "cut" => \E i \in 1..printed.n : Outputs[i] \in Named

\* In an advisory session a file tool runs under its own barrier, so never two at once,
\* and a barrier outlives its tool only when the tool, its result or its event failed.
Guarded ==
    \A c \in FileCalls :
        /\ advisory /\ calls[c] = "running" => barrier = c
        /\ calls[c] = "done" => barrier # c
        /\ calls[c] = "refused" /\ barrier = c => Body("before", says[c]) \in unsaid

\* A tool that ran has told of it, unless that append failed: what the plugin leaves out
\* as a repetition is on the log (appendActivity).
UsesLogged ==
    \A c \in FileCalls : calls[c] \in {"running", "done"} \/ (calls[c] = "broken" /\ fails = 0) =>
        \/ Positions("before", says[c]) # {}
        \/ Body("before", says[c]) \in unsaid

\* Two writers append to one log and an append may break off: each broken one costs at
\* most one other event (appendActivityEvent, readActivityEvents).
FewLost ==
    Cardinality({i \in DOMAIN log : log[i].k = "body"} \ Read(log))
        <= Cardinality({i \in DOMAIN log : log[i].k = "half"})

ActivitySafe == Verdict /\ PiPaired /\ StreamKept /\ SessionTaken /\ Guarded /\ UsesLogged /\ FewLost
=============================================================================
