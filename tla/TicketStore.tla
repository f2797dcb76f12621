------------------------------ MODULE TicketStore ------------------------------
(***************************************************************************)
(* The ticket store: class TicketStore of                                  *)
(* src/packages/pa-core/src/tickets/store.ts, for several processes over   *)
(* one directory of plain files.                                           *)
(*                                                                         *)
(* Every change is made inside the transaction mutex (an flock held by a   *)
(* helper that ends with its process), but none of the writes is atomic:   *)
(* a file is truncated and then filled, a move writes two tickets and two  *)
(* rows of the audit, and a process may end between any two of them.  An   *)
(* update restores the ticket and the audit when one of its writes fails,  *)
(* the other operations do not.                                            *)
(*                                                                         *)
(* The content of a ticket is the set of the calls whose change it has.    *)
(***************************************************************************)
EXTENDS Integers, FiniteSets

CONSTANTS Calls,      \* calls of the store; each is made once by its process
          MaxIds,     \* bound on the ids the counter gives out
          MaxFaults   \* bound on ended processes and failed writes

\* what the constants must satisfy: the instances assume it
StoreAssumption == MaxIds \in Nat \ {0} /\ MaxFaults \in Nat

Ids == 1..MaxIds
Free == "free"
Absent == [is |-> "absent"]
Torn == [is |-> "torn"]
TicketWith(marks) == [is |-> "ticket", marks |-> marks]
AliasOf(id) == [is |-> "alias", to |-> id]
IdleCall == [at |-> "idle"]

VARIABLES
  files,        \* id -> content of its file
  counter,      \* last id given out; -1: the file is torn
  audit,        \* the rows <<id, call>> of the audit, and whether it is torn
  storeMutex,   \* the call inside the transaction, or Free
  call,         \* what each call is doing
  acknowledged, \* rows of the changes whose call returned without an error
  faults

storeVars == <<files, counter, audit, storeMutex, call, acknowledged, faults>>

-----------------------------------------------------------------------------
(* Reading *)

\* readTicket: follows the aliases from id; 0 when there is no ticket.
Resolve(id) ==
  LET follow[n \in 0..MaxIds, i \in Ids] ==
        IF files[i].is = "torn" THEN -1
        ELSE IF files[i].is = "ticket" THEN i
        ELSE IF files[i].is = "alias" /\ n < MaxIds THEN follow[n + 1, files[i].to]
        ELSE 0
  IN follow[0, id]
Live(id) == Resolve(id) > 0
Marks(id) == files[Resolve(id)].marks

\* JSON.parse of a counter that a process left half written throws.
CounterReadable == counter >= 0
LastId == IF counter < 0 THEN 0 ELSE counter
NextId == LastId + 1

-----------------------------------------------------------------------------
(* The transaction *)

Ops == {"create", "update", "comment", "move", "hard"}

Begin(c) ==
  /\ call[c] = IdleCall /\ storeMutex = Free
  /\ \E op \in Ops, id \in Ids :
       /\ op = "create" => id = 1
       /\ op # "create" => files[id] # Absent
       /\ call' = [call EXCEPT ![c] = [at |-> "inside", op |-> op, id |-> id]]
  /\ storeMutex' = c
  /\ UNCHANGED <<files, counter, audit, acknowledged, faults>>

\* A call that did not get the mutex in five seconds gives up; one that got it
\* and finds no ticket, or a torn one, throws.
End(c, rows) ==
  /\ storeMutex' = Free
  /\ call' = [call EXCEPT ![c] = [at |-> "done"]]
  /\ acknowledged' = acknowledged \cup rows

GiveUpMutex(c) ==
  /\ call[c] = IdleCall /\ storeMutex # Free
  /\ call' = [call EXCEPT ![c] = [at |-> "done"]]
  /\ UNCHANGED <<files, counter, audit, storeMutex, acknowledged, faults>>

Refuse(c) ==
  /\ call[c].at = "inside"
  /\ IF call[c].op = "create" THEN ~CounterReadable
     ELSE ~Live(call[c].id) \/ (call[c].op = "move" /\ ~CounterReadable)
  /\ End(c, {})
  /\ UNCHANGED <<files, counter, audit, faults>>

\* Fills the next step of a call.
Goes(c, fields) == call' = [call EXCEPT ![c] = fields]

-----------------------------------------------------------------------------
(* create and move: the id is allocated before the ticket exists *)

\* writeFileSync of the counter: truncated, then filled.
TruncateCounter(c) ==
  /\ call[c].at = "inside" /\ call[c].op \in {"create", "move"}
  /\ CounterReadable /\ NextId <= MaxIds
  /\ call[c].op = "move" => Live(call[c].id)
  /\ counter' = -1
  /\ Goes(c, [at |-> "counting", op |-> call[c].op, id |-> call[c].id, new |-> NextId,
              marks |-> IF call[c].op = "move" THEN Marks(call[c].id) ELSE {}])
  /\ UNCHANGED <<files, audit, storeMutex, acknowledged, faults>>

FillCounter(c) ==
  /\ call[c].at = "counting"
  /\ counter' = call[c].new
  /\ Goes(c, [call[c] EXCEPT !.at = "allocated"])
  /\ UNCHANGED <<files, audit, storeMutex, acknowledged, faults>>

TruncateNew(c) ==
  /\ call[c].at = "allocated"
  /\ files' = [files EXCEPT ![call[c].new] = Torn]
  /\ Goes(c, [call[c] EXCEPT !.at = "creating"])
  /\ UNCHANGED <<counter, audit, storeMutex, acknowledged, faults>>

FillNew(c) ==
  /\ call[c].at = "creating"
  /\ files' = [files EXCEPT ![call[c].new] = TicketWith(call[c].marks \cup {c})]
  /\ Goes(c, [call[c] EXCEPT !.at = IF call[c].op = "move" THEN "moved" ELSE "written"])
  /\ UNCHANGED <<counter, audit, storeMutex, acknowledged, faults>>

\* move: the file of the id the caller gave becomes an alias; when that id was
\* itself an alias, the ticket it led to stays.
TruncateAlias(c) ==
  /\ call[c].at = "moved"
  /\ files' = [files EXCEPT ![call[c].id] = Torn]
  /\ Goes(c, [call[c] EXCEPT !.at = "aliasing"])
  /\ UNCHANGED <<counter, audit, storeMutex, acknowledged, faults>>

FillAlias(c) ==
  /\ call[c].at = "aliasing"
  /\ files' = [files EXCEPT ![call[c].id] = AliasOf(call[c].new)]
  /\ Goes(c, [call[c] EXCEPT !.at = "written"])
  /\ UNCHANGED <<counter, audit, storeMutex, acknowledged, faults>>

-----------------------------------------------------------------------------
(* update and comment: read, merge, write; hard deletion *)

ReadTicketUnlocked(c) ==
  /\ call[c].at = "inside" /\ call[c].op \in {"update", "comment"} /\ Live(call[c].id)
  /\ storeMutex' = Free
  /\ Goes(c, [at |-> "read", op |-> call[c].op, id |-> call[c].id, new |-> Resolve(call[c].id),
              marks |-> Marks(call[c].id), before |-> audit])
  /\ UNCHANGED <<files, counter, audit, acknowledged, faults>>

ReadTicket(c) ==
  /\ call[c].at = "inside" /\ call[c].op \in {"update", "comment"} /\ Live(call[c].id)
  /\ Goes(c, [at |-> "read", op |-> call[c].op, id |-> call[c].id, new |-> Resolve(call[c].id),
              marks |-> Marks(call[c].id), before |-> audit])
  /\ UNCHANGED <<files, counter, audit, storeMutex, acknowledged, faults>>

TruncateTicket(c) ==
  /\ call[c].at = "read"
  /\ files' = [files EXCEPT ![call[c].new] = Torn]
  /\ Goes(c, [call[c] EXCEPT !.at = "writing"])
  /\ UNCHANGED <<counter, audit, storeMutex, acknowledged, faults>>

\* Before the rows of the audit an update reads the ticket back.
FillTicket(c) ==
  /\ call[c].at = "writing"
  /\ files' = [files EXCEPT ![call[c].new] = TicketWith(call[c].marks \cup {c})]
  /\ Goes(c, [call[c] EXCEPT !.at = "written"])
  /\ UNCHANGED <<counter, audit, storeMutex, acknowledged, faults>>

\* unlink of the file of the id the caller gave, then one row.
Unlink(c) ==
  /\ call[c].at = "inside" /\ call[c].op = "hard" /\ Live(call[c].id)
  /\ files' = [files EXCEPT ![call[c].id] = Absent]
  /\ Goes(c, [at |-> "written", op |-> "hard", id |-> call[c].id, new |-> call[c].id])
  /\ UNCHANGED <<counter, audit, storeMutex, acknowledged, faults>>

-----------------------------------------------------------------------------
(* The rows, and the restoration of a failed update *)

RowsOf(c) ==
  {<<id, c>> : id \in IF call[c].op = "create" THEN {call[c].new}
                      ELSE IF call[c].op = "move" THEN {call[c].id, call[c].new}
                      ELSE {call[c].id}}

\* appendAudits of an update writes its rows at once; move writes two in turn.
AppendRows(c) ==
  /\ call[c].at = "written" /\ ~audit.torn
  /\ IF call[c].op = "move" /\ <<call[c].id, c>> \notin audit.rows
     THEN /\ audit' = [audit EXCEPT !.rows = @ \cup {<<call[c].id, c>>}]
          /\ UNCHANGED <<storeMutex, call, acknowledged>>
     ELSE /\ audit' = [audit EXCEPT !.rows = @ \cup RowsOf(c)]
          /\ End(c, RowsOf(c))
  /\ UNCHANGED <<files, counter, faults>>

\* After a torn row the next one continues its line; nothing of it can be read.
AppendAfterTorn(c) ==
  /\ call[c].at = "written" /\ audit.torn
  /\ End(c, {})
  /\ UNCHANGED <<files, counter, audit, faults>>

\* A write of an update fails: the current ticket is written again ...
UpdateFails(c) ==
  /\ call[c].at \in {"writing", "written"} /\ call[c].op = "update"
  /\ faults < MaxFaults /\ faults' = faults + 1
  /\ files' = [files EXCEPT ![call[c].new] = Torn]
  /\ Goes(c, [call[c] EXCEPT !.at = "restoring"])
  /\ UNCHANGED <<counter, audit, storeMutex, acknowledged>>

RestoreTicket(c) ==
  /\ call[c].at = "restoring"
  /\ files' = [files EXCEPT ![call[c].new] = TicketWith(call[c].marks)]
  /\ audit' = [rows |-> {}, torn |-> TRUE]
  /\ Goes(c, [call[c] EXCEPT !.at = "restored"])
  /\ UNCHANGED <<counter, storeMutex, acknowledged, faults>>

\* ... and the audit is replaced by what it was before the update.
RestoreAudit(c) ==
  /\ call[c].at = "restored"
  /\ audit' = call[c].before
  /\ End(c, {})
  /\ UNCHANGED <<files, counter, faults>>

\* A write of another operation fails: what it wrote stays.
WriteFails(c) ==
  /\ call[c].at \in {"counting", "creating", "aliasing", "writing"} /\ call[c].op # "update"
  /\ faults < MaxFaults /\ faults' = faults + 1
  /\ End(c, {})
  /\ UNCHANGED <<files, counter, audit>>

\* The process ends; its helper reads the end of its input and releases the lock.
ProcessEnds(c) ==
  /\ call[c].at \notin {"idle", "done"} /\ storeMutex = c
  /\ faults < MaxFaults /\ faults' = faults + 1
  /\ End(c, {})
  /\ UNCHANGED <<files, counter, audit>>

-----------------------------------------------------------------------------
StoreInit ==
  /\ files = [i \in Ids |-> Absent]
  /\ counter = 0
  /\ audit = [rows |-> {}, torn |-> FALSE]
  /\ storeMutex = Free
  /\ call = [c \in Calls |-> IdleCall]
  /\ acknowledged = {}
  /\ faults = 0

StoreNext ==
  \E c \in Calls :
    \/ Begin(c) \/ GiveUpMutex(c) \/ Refuse(c)
    \/ TruncateCounter(c) \/ FillCounter(c) \/ TruncateNew(c) \/ FillNew(c)
    \/ TruncateAlias(c) \/ FillAlias(c)
    \/ ReadTicket(c) \/ TruncateTicket(c) \/ FillTicket(c) \/ Unlink(c)
    \/ AppendRows(c) \/ AppendAfterTorn(c)
    \/ UpdateFails(c) \/ RestoreTicket(c) \/ RestoreAudit(c)
    \/ WriteFails(c) \/ ProcessEnds(c)

StoreSpec == StoreInit /\ [][StoreNext]_storeVars

-----------------------------------------------------------------------------
(* Every variable holds the values its declaration names. *)
StoreTypeOK ==
  /\ \A i \in Ids : \/ files[i] \in {Absent, Torn}
                    \/ files[i].is = "ticket" /\ files[i].marks \subseteq Calls
                    \/ files[i].is = "alias" /\ files[i].to \in Ids
  /\ counter \in -1..MaxIds /\ faults \in 0..MaxFaults
  /\ audit.rows \subseteq Ids \X Calls /\ acknowledged \subseteq Ids \X Calls
  /\ storeMutex \in Calls \cup {Free}

(* A change whose call returned without an error stays: it is in the ticket  *)
(* its id leads to, as long as there is one, and in the audit, whatever      *)
(* other calls read, wrote, moved or restored in between                     *)
(* (withTransaction around read, merge, write and rows in store.ts).         *)
AcknowledgedKept ==
  \A row \in acknowledged :
    /\ Live(row[1]) => row[2] \in Marks(row[1])
    /\ audit.torn \/ row \in audit.rows

(* An id is given out once: no creation or move ever writes over the file of *)
(* a ticket, also after a deletion, a crash between the counter and the      *)
(* ticket, or a counter left torn (allocateId).                              *)
NothingOverwritten ==
  \A c \in Calls : call[c].at = "allocated" => files[call[c].new] = Absent /\ ~\E row \in audit.rows : row[1] = call[c].new
================================================================================
