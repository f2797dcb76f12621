---------------------------- MODULE SessionPanel ----------------------------
(* A session of the Pi extension: its context panel (context-ui.ts and *)
(* context-state.ts), the two commands by which the operator confirms a change of *)
(* the registry, the ticket of the deployment and the reconciliation of a child *)
(* (child-reconciliation.ts), and the shutdown that closes the registry *)
(* (pi-extension/index.ts).  A collection waits for Git up to its deadline, while *)
(* what it reads of the registry it reads at once. *)
EXTENDS Integers, FiniteSets, RefreshLimiter

CONSTANTS
  Tickets, NoTicket, Unread,
  BoundTicket,      \* the ticket of the environment
  MaxChanges,  \* bound: changes of others
  MaxTodo,     \* bound: changes of the task list
  MaxFailures  \* bound: lookups that fail

PanelAssumption ==
  /\ NoTicket \notin Tickets /\ Unread \notin Tickets \cup {NoTicket}
  /\ BoundTicket \in Tickets \cup {NoTicket}
  /\ MaxChanges \in Nat /\ MaxTodo \in Nat /\ MaxFailures \in Nat

VARIABLES
  phase,     \* "open", "closing" or "closed": the lifecycle
  ticket,    \* the ticket of the deployment in the registry
  facts,     \* the version of what a reconciliation observes of the child
  tasks,     \* the version of the task list
  shown,     \* the snapshot of the panel
  limiter,
  flight,    \* the collection of the limiter's refresh
  ask,       \* the association command
  child,     \* the reconciliation command, a tracked access of the registry
  written,   \* the last association: what it replaced, and what was confirmed
  settled,   \* the last reconciliation: what it found, and what was confirmed
  changes, failures

panelVars == <<phase, ticket, facts, tasks, shown, limiter, flight, ask, child, written,
               settled, changes, failures>>

NoFlight == [seen |-> Unread, tasks |-> 0, busy |-> FALSE]
Unasked == [at |-> "idle"]
Nobody == [at |-> "idle", observed |-> 0]
Open == phase = "open"

\* The snapshot of the environment, and the first refresh.
PanelInit ==
  /\ phase = "open" /\ ticket = BoundTicket /\ facts = 0 /\ tasks = 0
  /\ shown = [ticket |-> BoundTicket, available |-> FALSE, tasks |-> 0]
  /\ limiter = Scheduled(Requested(NewLimiter))
  /\ flight = [seen |-> ticket, tasks |-> 0, busy |-> TRUE]
  /\ ask = Unasked /\ child = Nobody
  /\ written = [from |-> NoTicket, to |-> NoTicket, told |-> NoTicket, confirmed |-> FALSE]
  /\ settled = [found |-> 0, told |-> 0]
  /\ changes = 0 /\ failures = 0

----------------------------------------------------------------------------
(* The panel. *)

\* A failed lookup leaves the ticket of the environment.
Collected(c) ==
  [ticket |-> IF c.seen = Unread THEN BoundTicket ELSE c.seen, available |-> c.seen # Unread,
   tasks |-> c.tasks]
Looks(seen) ==
  \/ seen = ticket /\ failures' = failures
  \/ seen = Unread /\ failures < MaxFailures /\ failures' = failures + 1

\* The limiter goes on unless it is disposed; a refresh that starts looks at once.
LimiterGoes(l, list) ==
  IF Fires(l) /\ Open
  THEN /\ limiter' = Scheduled(l)
       /\ \E seen \in Tickets \cup {NoTicket, Unread} :
            Looks(seen) /\ flight' = [seen |-> seen, tasks |-> list, busy |-> TRUE]
  ELSE limiter' = l /\ failures' = failures
RequestRefresh(list) ==
  IF Fires(Requested(limiter)) THEN LimiterGoes(Requested(limiter), list)
  ELSE limiter' = Requested(limiter) /\ UNCHANGED <<flight, failures>>

notPanel == <<phase, ticket, facts, ask, child, written, settled, changes>>
\* turn_end, model_select and the timer of the panel.
Periodic == Open /\ RequestRefresh(tasks) /\ UNCHANGED <<notPanel, tasks, shown>>
\* tool_result of the task list, session_tree.
TodoChanged ==
  /\ Open /\ tasks < MaxTodo /\ tasks' = tasks + 1
  /\ RequestRefresh(tasks + 1) /\ UNCHANGED <<notPanel, shown>>
Interval ==
  /\ Open /\ ~limiter.due
  /\ IF Fires(Elapsed(limiter)) THEN LimiterGoes(Elapsed(limiter), tasks)
     ELSE limiter' = Elapsed(limiter) /\ UNCHANGED <<flight, failures>>
  /\ UNCHANGED <<notPanel, tasks, shown>>
RefreshEnds ==
  /\ flight.busy /\ shown' = Collected(flight)
  /\ IF Fires(Settled(limiter)) /\ Open THEN LimiterGoes(Settled(limiter), tasks)
     ELSE limiter' = Settled(limiter) /\ flight' = NoFlight /\ failures' = failures
  /\ UNCHANGED <<notPanel, tasks>>

----------------------------------------------------------------------------
(* The association of a ticket. *)

panelRest == <<phase, facts, tasks, limiter, flight, child, settled, changes>>

\* The command collects for itself, beside the limiter.  One dialog is open at a time.
Associate(target) ==
  /\ Open /\ ask.at = "idle" /\ child.at = "idle"
  /\ \E seen \in Tickets \cup {NoTicket, Unread} :
       Looks(seen) /\ ask' = [at |-> "collecting", target |-> target, seen |-> seen, tasks |-> tasks]
  /\ UNCHANGED <<panelRest, ticket, shown, written>>
AssociateCollected ==
  /\ ask.at = "collecting" /\ shown' = Collected(ask)
  /\ ask' = IF ask.seen = Unread THEN Unasked
            ELSE [at |-> "asking", target |-> ask.target, current |-> ask.seen]
  /\ UNCHANGED <<panelRest, ticket, written, failures>>

\* The registry compares and sets; it may refuse for other reasons (Registry).
Expected(current) == current
Replaces(current, target) == current # NoTicket /\ current # target
Write(confirmed) ==
  /\ ask' = Unasked
  /\ \/ /\ Open /\ ticket = Expected(ask.current)
        /\ ticket' = ask.target
        /\ shown' = [shown EXCEPT !.ticket = ask.target, !.available = TRUE]
        /\ written' = [from |-> ticket, to |-> ask.target, told |-> ask.current,
                       confirmed |-> confirmed]
     \/ UNCHANGED <<ticket, shown, written>>

Dismiss ==
  /\ ask.at \in {"asking", "confirming"} /\ ask' = Unasked
  /\ UNCHANGED <<panelRest, ticket, shown, written, failures>>
GiveReason ==
  /\ ask.at = "asking"
  /\ IF Replaces(ask.current, ask.target)
     THEN ask' = [ask EXCEPT !.at = "confirming"] /\ UNCHANGED <<ticket, shown, written>>
     ELSE Write(FALSE)
  /\ UNCHANGED <<panelRest, failures>>
Confirm ==
  /\ ask.at = "confirming" /\ Write(TRUE) /\ UNCHANGED <<panelRest, failures>>

----------------------------------------------------------------------------
(* The reconciliation of a child: inspect, ask the operator, authenticate the *)
(* caller again and apply what is observed under the mutex. *)

childRest == <<phase, ticket, tasks, shown, limiter, flight, ask, written, failures>>
Reconcile ==
  /\ Open /\ child.at = "idle" /\ ask.at = "idle" /\ child' = [at |-> "asking", observed |-> facts]
  /\ UNCHANGED <<childRest, facts, settled, changes>>
\* recoverRepositoryTerminalChild: what it finds must be what was inspected.
AsInspected(observed) == facts = observed
Accept ==
  /\ child.at = "asking" /\ child' = Nobody
  /\ \/ /\ Open /\ AsInspected(child.observed)
        /\ settled' = [found |-> facts, told |-> child.observed]
     \/ settled' = settled
  /\ UNCHANGED <<childRest, facts, changes>>
\* Cancelled, or aborted by the shutdown.
Decline ==
  /\ child.at = "asking" /\ child' = Nobody /\ UNCHANGED <<childRest, facts, settled, changes>>

----------------------------------------------------------------------------
(* The lifecycle, and the others. *)

lifeRest == <<ticket, facts, tasks, shown, flight, ask, child, written, settled, changes, failures>>
\* Every step of the shutdown begins: the limiter drops what waits.
Shutdown ==
  /\ Open /\ phase' = "closing" /\ limiter' = [limiter EXCEPT !.wanted = FALSE]
  /\ UNCHANGED lifeRest
\* Then the registry is closed behind the refreshes and the tracked accesses.
AllSettled == ~flight.busy /\ child.at = "idle"
CloseRegistry ==
  /\ phase = "closing" /\ AllSettled /\ phase' = "closed" /\ UNCHANGED <<lifeRest, limiter>>

Other ==
  /\ changes < MaxChanges /\ changes' = changes + 1
  /\ \/ \E t \in Tickets : t # ticket /\ ticket' = t /\ facts' = facts
     \/ facts' = facts + 1 /\ ticket' = ticket
  /\ UNCHANGED <<phase, tasks, shown, limiter, flight, ask, child, written, settled, failures>>

PanelNext ==
  \/ Periodic \/ TodoChanged \/ Interval \/ RefreshEnds
  \/ \E t \in Tickets : Associate(t)
  \/ AssociateCollected \/ Dismiss \/ GiveReason \/ Confirm
  \/ Reconcile \/ Accept \/ Decline
  \/ Shutdown \/ CloseRegistry \/ Other

----------------------------------------------------------------------------
PanelTypeOK ==
  /\ phase \in {"open", "closing", "closed"} /\ ticket \in Tickets \cup {NoTicket}
  /\ limiter \in Limiters /\ flight.busy = limiter.running
  /\ ask.at \in {"idle", "collecting", "asking", "confirming"}

\* No refresh and no tracked access still uses the registry when the session closes
\* it (createPiSessionLifecycle, index.ts:88).
ClosedQuiet == phase = "closed" => ~limiter.running /\ child.at = "idle"

\* An association replaces only the ticket that the operator was shown, and another
\* ticket only with the confirmation, whatever refreshes did to the panel meanwhile
\* (associateContextTicket, context-ui.ts:120); a child is settled on the facts that
\* were confirmed.
AsConfirmed ==
  /\ written.from = written.told
  /\ written.from \in {NoTicket, written.to} \/ written.confirmed
  /\ settled.found = settled.told

\* What the panel shows is not what the registry and the task list say.
PanelBehind == Open /\ (shown.ticket # ticket \/ shown.tasks # tasks)
=============================================================================
