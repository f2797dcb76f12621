---------------------------- MODULE LiveUpdates ----------------------------
(* The live updates of the API server: the watchers that scan the tickets, the *)
(* inbox, the bulletins and the registry (ws/watchers.ts), and the hub that sends *)
(* what they find to the WebSocket clients (ws/hub.ts).  The files are written by *)
(* other processes.  A client that is told of a file reads it, so `seen' holds *)
(* what each client knows; the modification times are counted. *)
EXTENDS Integers, Sequences, FiniteSets

CONSTANTS
  Tickets, Inbox, Bulletins,  \* the files of the three directories
  Rows,                       \* registry rows
  Clients,
  MaxWrites,                  \* bound: changes of the files and of the registry
  MaxConnects                 \* bound: connections

Files == Tickets \cup Inbox \cup Bulletins
Watched == {"tickets", "inbox", "bulletins", "registry"}
Directory == [tickets |-> Tickets, inbox |-> Inbox, bulletins |-> Bulletins]

LiveUpdatesAssumption ==
  /\ MaxWrites \in Nat /\ MaxConnects \in Nat
  /\ Tickets \cap Inbox = {} /\ Tickets \cap Bulletins = {} /\ Inbox \cap Bulletins = {}

VARIABLES
  disk,      \* file -> its modification time, 0 when it does not exist
  rows,      \* the registry, in order
  snapshot,  \* file -> what its last scan found
  counted,   \* the rows of the longest registry a scan has read
  due,       \* the watched places whose debounce timer runs
  socket,    \* client -> "none", "open" or "dead" (the peer is gone, nobody noticed)
  hub,       \* the clients that the hub sends to
  silence,   \* client -> pings since its last pong
  seen,      \* client -> file -> the version it knows
  last,      \* client -> the last row it knows, a sequence of at most one
  early,     \* client -> the files it read, when it connected, before a scan did
  writes, connects

feedVars == <<disk, rows, snapshot, counted, due>>
hubVars == <<socket, hub, silence, seen, last, early>>
updatesVars == <<disk, rows, snapshot, counted, due, socket, hub, silence, seen, last,
  early, writes, connects>>

Tail1(q) == IF q = <<>> THEN <<>> ELSE <<q[Len(q)]>>

\* The server reads everything when it starts and broadcasts what differs later.
UpdatesInit ==
  /\ disk = [f \in Files |-> 0] /\ rows = <<>>
  /\ snapshot = disk /\ counted = 0 /\ due = {}
  /\ socket = [c \in Clients |-> "none"] /\ hub = {} /\ silence = [c \in Clients |-> 0]
  /\ seen = [c \in Clients |-> disk] /\ last = [c \in Clients |-> <<>>]
  /\ early = [c \in Clients |-> {}]
  /\ writes = 0 /\ connects = 0

\* Another process changed something: the backend of the watcher tells the place,
\* or loses the event.  An event restarts the timer.
Notice(place) == \E told \in BOOLEAN : due' = IF told THEN due \cup {place} ELSE due

WriteFile(place, f) ==
  /\ place # "registry" /\ f \in Directory[place]
  /\ writes < MaxWrites /\ writes' = writes + 1
  /\ disk' = [disk EXCEPT ![f] = writes + 1]
  /\ Notice(place)
  /\ UNCHANGED <<rows, snapshot, counted, hubVars, connects>>

RemoveFile(place, f) ==
  /\ place # "registry" /\ f \in Directory[place] /\ disk[f] # 0
  /\ writes < MaxWrites /\ writes' = writes + 1
  /\ disk' = [disk EXCEPT ![f] = 0]
  /\ Notice(place)
  /\ UNCHANGED <<rows, snapshot, counted, hubVars, connects>>

\* A row is appended, rows of deployments are cleaned up, or the inferred result of
\* a deployment is replaced by its real one in one transaction.
ChangeRegistry ==
  /\ writes < MaxWrites /\ writes' = writes + 1
  /\ \E r \in Rows, kept \in 0..Len(rows) :
       /\ \A i \in 1..Len(rows) : rows[i] # r
       /\ kept >= Len(rows) - 1
       /\ rows' \in {Append(SubSeq(rows, 1, kept), r), SubSeq(rows, 1, kept)} \ {rows}
  /\ Notice("registry")
  /\ UNCHANGED <<disk, snapshot, counted, hubVars, connects>>

\* Which files a scan broadcasts.  Tickets are compared by their time and a deleted
\* one is not told; inbox items by their presence; bulletins by both.
Reports(place, f) ==
  CASE place = "tickets" -> disk[f] # 0 /\ disk[f] # snapshot[f]
    [] place = "inbox" -> (disk[f] # 0) # (snapshot[f] # 0)
    [] place = "bulletins" -> disk[f] # snapshot[f]

\* The poller goes through the debounce like an event.  A scan that would find
\* nothing changes nothing and is left out.
Poll(place) ==
  /\ IF place = "registry" THEN Len(rows) > counted
                           ELSE \E f \in Directory[place] : disk[f] # snapshot[f]
  /\ due' = due \cup {place}
  /\ UNCHANGED <<disk, rows, snapshot, counted, hubVars, writes, connects>>

\* hub.broadcast drops a client whose socket is closed or refuses the message; a
\* dead peer is not noticed by it.
Receivers(events) == IF events THEN {c \in hub : socket[c] # "none"} ELSE hub

Scan(place) ==
  /\ place \in due /\ due' = due \ {place}
  /\ IF place = "registry"
     THEN LET news == Len(rows) > counted
          IN  /\ counted' = IF news THEN Len(rows) ELSE counted
              /\ last' = [c \in Clients |-> IF news /\ c \in hub THEN Tail1(rows) ELSE last[c]]
              /\ hub' = Receivers(news)
              /\ UNCHANGED <<snapshot, seen, early>>
     ELSE LET told == {f \in Directory[place] : Reports(place, f)}
          IN  /\ snapshot' = [f \in Files |-> IF f \in Directory[place] THEN disk[f]
                                                                        ELSE snapshot[f]]
              /\ seen' = [c \in Clients |-> [f \in Files |->
                            IF c \in hub /\ f \in told THEN disk[f] ELSE seen[c][f]]]
              /\ early' = [c \in Clients |-> IF c \in hub THEN early[c] \ told ELSE early[c]]
              /\ hub' = Receivers(told # {})
              /\ UNCHANGED <<counted, last>>
  /\ UNCHANGED <<disk, rows, socket, silence, writes, connects>>

\* A client connects and reads the lists.
Connect(c) ==
  /\ socket[c] = "none" /\ c \notin hub
  /\ connects < MaxConnects /\ connects' = connects + 1
  /\ socket' = [socket EXCEPT ![c] = "open"]
  /\ hub' = hub \cup {c}
  /\ silence' = [silence EXCEPT ![c] = 0]
  /\ seen' = [seen EXCEPT ![c] = disk] /\ last' = [last EXCEPT ![c] = Tail1(rows)]
  /\ early' = [early EXCEPT ![c] = {f \in Files : snapshot[f] # disk[f]}]
  /\ UNCHANGED <<feedVars, writes>>

\* The socket closes or fails: the hub hears of it by an event, or only when it
\* sends.
Disconnect(c) ==
  /\ socket[c] \in {"open", "dead"} /\ socket' = [socket EXCEPT ![c] = "none"]
  /\ hub' \in {hub, hub \ {c}}
  /\ UNCHANGED <<feedVars, silence, seen, last, early, writes, connects>>

\* The peer vanishes without closing its socket.
Vanish(c) ==
  /\ socket[c] = "open" /\ socket' = [socket EXCEPT ![c] = "dead"]
  /\ UNCHANGED <<feedVars, hub, silence, seen, last, early, writes, connects>>

Pong(c) ==
  /\ socket[c] = "open" /\ c \in hub /\ silence[c] # 0
  /\ silence' = [silence EXCEPT ![c] = 0]
  /\ UNCHANGED <<feedVars, socket, hub, seen, last, early, writes, connects>>

\* A client that has been silent for more than a minute, two pings or three, is
\* dropped and its socket closed; the others are sent a ping, which a closed socket
\* may refuse.
Overdue(c) == silence[c] >= 2
Ping ==
  \E dropped \in SUBSET {c \in hub : Overdue(c)},
     refused \in SUBSET {c \in hub : socket[c] = "none"} :
    /\ \A c \in hub : silence[c] = 3 => c \in dropped
    /\ hub' = hub \ (dropped \cup refused)
    /\ socket' = [c \in Clients |-> IF c \in dropped THEN "none" ELSE socket[c]]
    /\ silence' = [c \in Clients |-> IF c \in hub' THEN silence[c] + 1 ELSE silence[c]]
    /\ UNCHANGED <<feedVars, seen, last, early, writes, connects>>

UpdatesNext ==
  \/ \E place \in Watched : Scan(place) \/ Poll(place)
  \/ \E place \in Watched \ {"registry"}, f \in Files : WriteFile(place, f) \/ RemoveFile(place, f)
  \/ ChangeRegistry \/ Ping
  \/ \E c \in Clients : Connect(c) \/ Disconnect(c) \/ Vanish(c) \/ Pong(c)

UpdatesTypeOK ==
  /\ disk \in [Files -> 0..MaxWrites] /\ snapshot \in [Files -> 0..MaxWrites]
  /\ Len(rows) <= MaxWrites /\ counted \in 0..MaxWrites /\ due \subseteq Watched
  /\ hub \subseteq Clients /\ socket \in [Clients -> {"none", "open", "dead"}]
  /\ silence \in [Clients -> 0..3] /\ seen \in [Clients -> [Files -> 0..MaxWrites]]

\* What a client shows of a file is not what is there.  Left out: a deleted ticket,
\* which no scan tells, and a file read before the scan that would have told it,
\* which may be gone again when that scan comes.
Stale(c, f) ==
  /\ c \in hub /\ socket[c] = "open"
  /\ CASE f \in Tickets -> disk[f] # 0 /\ seen[c][f] # disk[f]
       [] f \in Inbox -> f \notin early[c] /\ (seen[c][f] # 0) # (disk[f] # 0)
       [] f \in Bulletins -> f \notin early[c] /\ seen[c][f] # disk[f]

\* The registry has grown past every length it had, and the client has not heard.
Behind(c) == c \in hub /\ socket[c] = "open" /\ Len(rows) > counted /\ last[c] # Tail1(rows)

\* Something is still to be done for a client: news of a file or of the registry, or
\* its removal when its socket is closed or its peer is gone.
Outdated(c) == (\E f \in Files : Stale(c, f)) \/ Behind(c) \/ (c \in hub /\ socket[c] # "open")
=============================================================================
