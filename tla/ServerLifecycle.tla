-------------------------- MODULE ServerLifecycle --------------------------
(* serve start, stop, restart and status of the API server (serve-lifecycle.ts): *)
(* processes that find each other by a pid file and by the port.  A foreground *)
(* start is its own server; a background start forks the process that runs the *)
(* command here, so both are one process.  Reading the file and testing the *)
(* process it names are one step. *)
EXTENDS FiniteSets, Integers

CONSTANTS
  Procs,       \* processes that run a serve command, one each
  Nobody,
  MaxCrashes,  \* bound: servers that die without cleaning up
  MaxReuse     \* bound: identifiers of dead processes that the system gives again

LifecycleAssumption == Nobody \notin Procs /\ MaxCrashes \in Nat /\ MaxReuse \in Nat

VARIABLES
  pidFile,   \* the process it names, or Nobody
  port,      \* the process that holds the port
  at,        \* process -> where its command stands
  cmd,       \* process -> its command
  target,    \* process -> the process it stops
  sent,      \* process -> "none", "term" or "kill": the signal that awaits it
  foreign,   \* dead processes whose identifier another program has now
  raced,     \* two commands were under way at the same time
  crashes, reuses

lifecycleVars == <<pidFile, port, at, cmd, target, sent, foreign, raced, crashes, reuses>>

LifecycleInit ==
  /\ pidFile = Nobody /\ port = Nobody
  /\ at = [p \in Procs |-> "new"] /\ cmd = [p \in Procs |-> "none"]
  /\ target = [p \in Procs |-> Nobody] /\ sent = [p \in Procs |-> "none"]
  /\ foreign = {} /\ raced = FALSE /\ crashes = 0 /\ reuses = 0

Over(p) == at[p] \in {"new", "gone"}
UnderWay(p) == ~Over(p) /\ at[p] # "serving"
Alive(p) == p \in foreign \/ ~Over(p)

Goto(p, place) == at' = [at EXCEPT ![p] = place]

\* After the file is out of the way: a stop is over, a restart waits for the port,
\* a start writes the file and begins to listen in the same step.
Cleared(p) ==
  CASE cmd[p] = "stop" -> Goto(p, "gone") /\ pidFile' = Nobody
    [] cmd[p] = "restart" -> Goto(p, "waiting") /\ pidFile' = Nobody
    [] cmd[p] = "start" -> Goto(p, "binding") /\ pidFile' = p

\* readServePidFile and isProcessAlive, and what each command makes of them.  start
\* --force goes on where start refuses.
Begin(p, c, force) ==
  /\ at[p] \in {"new", "again"} /\ cmd' = [cmd EXCEPT ![p] = c]
  /\ at[p] = "again" => c = "start"
  /\ c # "start" \/ at[p] = "again" => ~force
  /\ raced' = (raced \/ \E q \in Procs \ {p} : UnderWay(q))
  /\ \/ /\ pidFile = Nobody
        /\ Goto(p, CASE c = "stop" -> "gone" [] c = "restart" -> "waiting" [] c = "start" -> "probing")
        /\ UNCHANGED <<target, sent>>
     \/ /\ pidFile # Nobody /\ ~Alive(pidFile)
        /\ Goto(p, "clearing") /\ UNCHANGED <<target, sent>>
     \/ /\ pidFile # Nobody /\ Alive(pidFile) /\ c = "start" /\ ~force
        /\ Goto(p, "gone") /\ UNCHANGED <<target, sent>>
     \/ /\ pidFile # Nobody /\ Alive(pidFile) /\ (c = "start" => force)
        /\ Goto(p, "stopping") /\ target' = [target EXCEPT ![p] = pidFile]
        /\ sent' = IF sent[pidFile] = "none" THEN [sent EXCEPT ![pidFile] = "term"] ELSE sent
  /\ UNCHANGED <<pidFile, port, foreign, crashes, reuses>>

\* serve status only removes the file of a dead process.
Status ==
  /\ pidFile # Nobody /\ ~Alive(pidFile) /\ pidFile' = Nobody
  /\ UNCHANGED <<port, at, cmd, target, sent, foreign, raced, crashes, reuses>>

\* The file of a dead process, or of one that was stopped, is removed: by its name,
\* whatever it says now.
Clear(p) ==
  /\ at[p] = "clearing" /\ Cleared(p)
  /\ UNCHANGED <<port, cmd, target, sent, foreign, raced, crashes, reuses>>

\* the timeout ends the waiting and no more
GivesUpWaiting(p) ==
  /\ at[p] = "stopping" /\ Goto(p, "clearing")
  /\ UNCHANGED <<pidFile, port, cmd, target, sent, foreign, raced, crashes, reuses>>

\* killProcess polls until the process is gone, and after five seconds sends SIGKILL
\* and does not wait for it.
AwaitEnd(p) ==
  /\ at[p] = "stopping" /\ Goto(p, "clearing")
  /\ sent' = IF Alive(target[p]) THEN [sent EXCEPT ![target[p]] = "kill"] ELSE sent
  /\ UNCHANGED <<pidFile, port, cmd, target, foreign, raced, crashes, reuses>>

\* isPortInUse listens on the port itself for a moment.
Probe(p) ==
  /\ at[p] = "probing"
  /\ \/ port = Nobody /\ port' = p /\ Goto(p, "probed") /\ cmd' = cmd
     \/ port # Nobody /\ port' = port /\ Goto(p, "gone") /\ cmd' = cmd
  /\ UNCHANGED <<pidFile, target, sent, foreign, raced, crashes, reuses>>

Probed(p) ==
  /\ at[p] = "probed" /\ port' = Nobody
  /\ Goto(p, "binding") /\ pidFile' = p
  /\ UNCHANGED <<cmd, target, sent, foreign, raced, crashes, reuses>>

\* waitForPortFree tries for five seconds; the start that follows reads the pid file
\* anew and does not force.
AwaitPort(p) ==
  /\ at[p] = "waiting"
  /\ \/ port = Nobody /\ Goto(p, "again")
     \/ port # Nobody /\ Goto(p, "gone")
  /\ UNCHANGED <<pidFile, port, cmd, target, sent, foreign, raced, crashes, reuses>>

\* The server listens, or its error ends the process, whose exit handler removes the
\* pid file.
Listen(p) ==
  /\ at[p] = "binding"
  /\ \/ /\ port = Nobody /\ port' = p
        /\ Goto(p, "serving") /\ pidFile' = pidFile
     \/ /\ port # Nobody /\ port' = port
        /\ Goto(p, "gone") /\ pidFile' = Nobody
  /\ UNCHANGED <<cmd, target, sent, foreign, raced, crashes, reuses>>

Freed(p) == IF port = p THEN Nobody ELSE port

\* SIGTERM removes the pid file and ends the process; SIGKILL ends it.
Terminated(p) ==
  /\ at[p] \in {"binding", "serving"} /\ sent[p] = "term"
  /\ Goto(p, "gone") /\ port' = Freed(p) /\ pidFile' = Nobody
  /\ UNCHANGED <<cmd, target, sent, foreign, raced, crashes, reuses>>
Killed(p) ==
  /\ ~Over(p) /\ sent[p] = "kill"
  /\ Goto(p, "gone") /\ port' = Freed(p)
  /\ UNCHANGED <<pidFile, cmd, target, sent, foreign, raced, crashes, reuses>>

Crash(p) ==
  /\ at[p] \in {"binding", "serving"} /\ crashes < MaxCrashes /\ crashes' = crashes + 1
  /\ Goto(p, "gone") /\ port' = Freed(p)
  /\ UNCHANGED <<pidFile, cmd, target, sent, foreign, raced, reuses>>

\* Another program gets the identifier of a dead server, or ends.
Reuse(p) ==
  /\ at[p] = "gone" /\ cmd[p] = "start" /\ p \notin foreign
  /\ reuses < MaxReuse /\ reuses' = reuses + 1
  /\ foreign' = foreign \cup {p} /\ sent' = [sent EXCEPT ![p] = "none"]
  /\ UNCHANGED <<pidFile, port, at, cmd, target, raced, crashes>>
ForeignEnds(p) ==
  /\ p \in foreign /\ foreign' = foreign \ {p}
  /\ UNCHANGED <<pidFile, port, at, cmd, target, sent, raced, crashes, reuses>>

LifecycleNext ==
  \/ \E p \in Procs :
       \/ \E c \in {"start", "stop", "restart"}, force \in BOOLEAN : Begin(p, c, force)
       \/ Clear(p) \/ AwaitEnd(p) \/ Probe(p) \/ Probed(p) \/ AwaitPort(p) \/ Listen(p)
       \/ Terminated(p) \/ Killed(p) \/ Crash(p) \/ Reuse(p) \/ ForeignEnds(p)
  \/ Status

LifecycleTypeOK ==
  /\ pidFile \in Procs \cup {Nobody} /\ port \in Procs \cup {Nobody}
  /\ at \in [Procs -> {"new", "clearing", "stopping", "probing", "probed", "waiting", "again", "binding",
                       "serving", "gone"}]
  /\ sent \in [Procs -> {"none", "term", "kill"}] /\ foreign \subseteq Procs

\* While commands come one at a time, the server that listens is the one the file
\* names, so that stop and status find it; one that is killed is as good as gone.
ServerRecorded ==
  ~raced => \A p \in Procs : at[p] = "serving" /\ sent[p] # "kill" => pidFile = p
=============================================================================
