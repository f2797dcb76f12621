----------------------------- MODULE PhaseReports -----------------------------
(* The phase reports of one Pi session (pa-core/src/artifacts/phase-report.ts and *)
(* pi-pa/src/phase-report-native.ts behind the tool pa_phase_report): an attempt is *)
(* captured in private evidence, published as five files of its own directory, *)
(* indexed in the Markdown of the owner, and settled again whenever somebody asks, *)
(* while the operator edits the same files and the worktree moves on.  The tool is *)
(* sequential and a capture belongs to the process that made it, so there is one *)
(* call at a time; it can stop at every write. *)
EXTENDS Integers, Sequences, FiniteSets

CONSTANTS
  Captures,     \* the tool calls that capture
  MaxAttempts,  \* bound of the source: attempts of a phase (32)
  Edited,       \* bound: the files the operator edits, by their position
  MaxEvents,    \* bound: changes of the worktree or the session, edits, failures
  MaxAsked      \* bound: publications, settlements and observations

ReportsAssumption ==
  MaxAttempts \in 1..32 /\ Edited \subseteq 1..5 /\ {MaxEvents, MaxAsked} \subseteq Nat

Apps == {"browser", "obsidian"}
\* The words of a repeated call: those of the first one, or others.
Drafts == {"first", "other"}
\* In the order in which they are published: the receipt is last.
Companions == <<"diff.patch", "diff.json", "report.md", "report.html", "report.json">>
Positions == 1..Len(Companions)

VARIABLES
  current,   \* the deployment and its report policy still admit the session
  worktree,  \* versions of the worktree and of the execution journal
  reports,   \* the private records, in the order of their publication
  keyed,     \* the record a capturing call is bound to, 0 before
  receipts,  \* the records whose receipt is recorded
  pages,     \* what stands in the directory of each attempt
  index,     \* the Markdown of the owner
  observed,  \* the private records of what the operator confirmed
  kept,      \* the operator's notes, without those written just before a rename
  toolCall,
  told,      \* the last status the tool returned
  used       \* events and questions so far

reportVars ==
  <<current, worktree, reports, keyed, receipts, pages, index, observed, kept, toolCall, told, used>>

Idle == [at |-> "idle"]
Silent == [of |-> 0, dependency |-> "none", debt |-> Apps, tree |-> 0]
Absent == [is |-> "absent", of |-> 0]

ReportsInit ==
  /\ current = TRUE /\ worktree = [tree |-> 0, journal |-> 0]
  /\ reports = <<>> /\ keyed = [c \in Captures |-> 0] /\ receipts = {}
  /\ pages = [a \in 1..MaxAttempts |-> [f \in Positions |-> Absent]]
  /\ index = [reports |-> {}, deliveries |-> {}, notes |-> {}, readable |-> TRUE]
  /\ observed = <<>> /\ kept = {} /\ toolCall = Idle /\ told = Silent
  /\ used = [events |-> 0, asked |-> 0]

Spends(what) == used' = [used EXCEPT ![what] = @ + 1]
Private == <<reports, keyed, receipts, observed>>
Public == <<pages, index, kept>>
World == <<current, worktree>>

(* Every refusal and every failure ends the call; what it wrote stays. *)
Ends == toolCall' = Idle
Stop ==
  /\ toolCall.at \notin {"idle", "ask"} /\ used.events < MaxEvents
  /\ Ends /\ Spends("events") /\ told' = Silent /\ UNCHANGED <<World, Private, Public>>
Goes(r) == toolCall' = r /\ used' = used

----------------------------------------------------------------------------
(* Capturing. *)

Belongs(c, draft) == draft = "first"

\* A repeated call gets its record again, and only for the same words.
CaptureAgain(c, draft) ==
  /\ toolCall = Idle /\ current /\ keyed[c] # 0
  /\ told' = IF Belongs(c, draft) THEN [Silent EXCEPT !.of = keyed[c], !.dependency = "source"]
             ELSE Silent
  /\ UNCHANGED <<World, Private, Public, toolCall, used>>

NextAttempt == Len(reports) + 1

\* The execution of an orchestrator may prove the scope of the diff, with all the
\* checks of its plan ("full"), or it does not.
Capture(c, proof) ==
  /\ toolCall = Idle /\ current /\ keyed[c] = 0 /\ Len(reports) < MaxAttempts
  /\ Goes([at |-> "capture", id |-> c, proof |-> proof,
           attempt |-> NextAttempt, seen |-> worktree])
  /\ told' = Silent /\ UNCHANGED <<World, Private, Public>>

\* The worktree is read again before the report is published, and the session.
Unmoved(r) == r.seen.tree = worktree.tree /\ current
Recorded ==
  /\ toolCall.at = "capture"
  /\ \/ /\ Unmoved(toolCall)
        /\ reports' = Append(reports, [id |-> toolCall.id, proof |-> toolCall.proof,
                                       attempt |-> toolCall.attempt, seen |-> toolCall.seen])
        /\ Goes([at |-> "key", id |-> toolCall.id])
     \/ ~Unmoved(toolCall) /\ Ends /\ used' = used /\ reports' = reports
  /\ UNCHANGED <<World, keyed, receipts, observed, Public, told>>

Keyed ==
  /\ toolCall.at = "key" /\ Ends
  /\ keyed' = [keyed EXCEPT ![toolCall.id] = Len(reports)]
  /\ told' = [Silent EXCEPT !.of = Len(reports), !.dependency = "source"]
  /\ UNCHANGED <<World, reports, receipts, observed, Public, used>>

----------------------------------------------------------------------------
(* Publishing: every file is linked from a temporary name and keeps what it first *)
(* held; a name that was left with two links, or edited, is refused for ever. *)

Directory(i) == reports[i].attempt
Page(i, f) == pages[Directory(i)][f]
Same(i, f) == Page(i, f) = [is |-> "whole", of |-> i]

\* A settlement of record i with the sources d, and what follows it.
Settling(i, d, next, app) ==
  [at |-> "verify", of |-> i, given |-> d, next |-> next, app |-> app]

\* Every record of the session may be named, one whose call failed before its key too.
Publish(i) ==
  /\ toolCall = Idle /\ current /\ used.asked < MaxAsked /\ Spends("asked")
  /\ toolCall' = [at |-> "write", of |-> i, file |-> 1] /\ told' = Silent
  /\ UNCHANGED <<World, Private, Public>>

Written(i, f) ==
  Goes(IF f = Len(Companions) THEN Settling(i, {}, "settle", "none")
       ELSE [at |-> "write", of |-> i, file |-> f + 1])

MayStand(i, f) == Same(i, f)
Put(is) ==
  pages' = [pages EXCEPT ![Directory(toolCall.of)][toolCall.file] = [is |-> is, of |-> toolCall.of]]

PublishAbsent ==
  /\ toolCall.at = "write"
  /\ LET i == toolCall.of f == toolCall.file IN
       \/ Page(i, f) = Absent /\ Put("linked") /\ Goes([toolCall EXCEPT !.at = "unlink"])
       \/ Page(i, f) # Absent /\ MayStand(i, f) /\ Written(i, f) /\ pages' = pages
       \/ Page(i, f) # Absent /\ ~MayStand(i, f) /\ Ends /\ UNCHANGED <<pages, used>>
  /\ UNCHANGED <<World, Private, index, kept, told>>

Unlink ==
  /\ toolCall.at = "unlink" /\ Put("whole") /\ Written(toolCall.of, toolCall.file)
  /\ UNCHANGED <<World, Private, index, kept, told>>

----------------------------------------------------------------------------
(* Settling: the files and the private diff are compared, the report is indexed, *)
(* and every delivery of it is recorded beside it. *)

\* Reports are named by a recorded receipt.
Ask(i, d, next, app) ==
  /\ toolCall = Idle /\ current /\ i \in receipts /\ used.asked < MaxAsked /\ Spends("asked")
  /\ toolCall' = Settling(i, d, next, app) /\ told' = Silent
  /\ UNCHANGED <<World, Private, Public>>
Settle(i, d) == Ask(i, d, "answer", "none")
Observe(i, app) == Ask(i, {}, "ask", app)

\* publish compares its own files before it settles, and needs no authority for it.
Verified(r) == (current \/ r.next = "settle") /\ \A f \in Positions : Same(r.of, f)
Verify ==
  /\ toolCall.at = "verify"
  /\ \/ Verified(toolCall) /\ Goes([toolCall EXCEPT !.at = "index"])
     \/ ~Verified(toolCall) /\ Ends /\ used' = used
  /\ UNCHANGED <<World, Private, Public, told>>

\* One update of the owner's Markdown: read, compared just before the rename, and
\* read back.
Update(after) ==
  [at |-> "compare", of |-> toolCall.of, given |-> toolCall.given, next |-> toolCall.next,
   app |-> toolCall.app, before |-> index, after |-> after]
AfterIndex(r) ==
  IF r.next = "settle" THEN Settling(r.of, {}, "published", "none")
  ELSE [Settling(r.of, r.given, r.next, r.app) EXCEPT !.at = "deliver"]

Index ==
  /\ toolCall.at = "index"
  /\ IF ~(current /\ index.readable) THEN Ends /\ used' = used
     ELSE Goes(IF toolCall.of \in index.reports THEN AfterIndex(toolCall)
               ELSE Update([index EXCEPT !.reports = @ \cup {toolCall.of}]))
  /\ UNCHANGED <<World, Private, Public, told>>

Unedited == index.readable /\ index = toolCall.before
Compare ==
  /\ toolCall.at = "compare"
  /\ \/ Unedited /\ Goes([toolCall EXCEPT !.at = "rename"])
     \/ ~Unedited /\ Ends /\ used' = used
  /\ UNCHANGED <<World, Private, Public, told>>
Rename ==
  /\ toolCall.at = "rename" /\ index' = toolCall.after
  /\ Goes([toolCall EXCEPT !.at = "readback"])
  /\ UNCHANGED <<World, Private, pages, kept, told>>
Readback ==
  /\ toolCall.at = "readback"
  /\ IF index # toolCall.after THEN Ends /\ used' = used
     ELSE Goes(AfterIndex(toolCall))
  /\ UNCHANGED <<World, Private, Public, told>>

Known(i) == {k \in index.deliveries : observed[k].of = i}
Combined(r) == Known(r.of) \cup r.given
\* Of this report, and one for each application.
Fits(r) ==
  /\ \A k \in Combined(r) : observed[k].of = r.of
  /\ \A k, l \in Combined(r) : observed[k].app = observed[l].app => k = l

Deliver(k) ==
  /\ toolCall.at = "deliver" /\ current /\ index.readable /\ Fits(toolCall)
  /\ k \in toolCall.given \ index.deliveries
  /\ Goes(Update([index EXCEPT !.deliveries = @ \cup {k}]))
  /\ UNCHANGED <<World, Private, Public, told>>
DeliverFails ==
  /\ toolCall.at = "deliver"
  /\ ~index.readable \/ ~Fits(toolCall) \/ (~current /\ Combined(toolCall) # {})
  /\ Ends /\ UNCHANGED <<World, Private, Public, told, used>>

\* What the report says of the work that depends on it: the deadline of its checks
\* may have passed, and the execution may not be resolved any more.
Dependency(i) ==
  IF reports[i].seen.tree # worktree.tree THEN {"historical"}
  ELSE IF reports[i].proof # "full" THEN {"missing-check-evidence"}
  ELSE {"missing-check-evidence", "historical"} \cup
         (IF reports[i].seen.journal = worktree.journal THEN {"available"} ELSE {})

Delivered(i) == {observed[k].app : k \in Known(i)}
Settled ==
  /\ toolCall.at = "deliver" /\ index.readable /\ Fits(toolCall)
  /\ toolCall.given \subseteq index.deliveries /\ (current \/ Combined(toolCall) = {})
  /\ LET i == toolCall.of app == toolCall.app IN
       \/ /\ toolCall.next \in {"answer", "published"}
          /\ \E d \in Dependency(i) :
               told' = [of |-> i, dependency |-> d, debt |-> Apps \ Delivered(i), tree |-> worktree.tree]
          /\ toolCall' = IF toolCall.next = "answer" THEN Idle ELSE [at |-> "receipt", of |-> i]
       \/ /\ toolCall.next = "ask" /\ told' = told
          /\ toolCall' = IF app \in Delivered(i)
                         THEN Settling(i, {k \in Known(i) : observed[k].app = app}, "answer", app)
                         ELSE [at |-> "ask", of |-> i, app |-> app]
       \/ /\ toolCall.next = "evidence" /\ told' = told
          /\ toolCall' = [at |-> "evidence", of |-> i, app |-> app]
  /\ UNCHANGED <<World, Private, Public, used>>

Receipt ==
  /\ toolCall.at = "receipt" /\ Ends /\ receipts' = receipts \cup {toolCall.of}
  /\ UNCHANGED <<World, reports, keyed, observed, Public, told, used>>

\* The operator answers; only a confirmation is an observation, and the files are
\* compared again before it is recorded.
Answer(confirmed) ==
  /\ toolCall.at = "ask"
  /\ \/ /\ confirmed /\ ~current /\ Ends /\ used' = used
     \/ /\ ~(confirmed /\ ~current)
        /\ Goes(Settling(toolCall.of, {}, IF confirmed THEN "evidence" ELSE "answer", toolCall.app))
  /\ UNCHANGED <<World, Private, Public, told>>
Observed ==
  /\ toolCall.at = "evidence"
  /\ observed' = Append(observed, [of |-> toolCall.of, app |-> toolCall.app])
  /\ Goes(Settling(toolCall.of, {Len(observed) + 1}, "answer", toolCall.app))
  /\ UNCHANGED <<World, reports, keyed, receipts, Public, told>>

----------------------------------------------------------------------------
(* The rest of the world. *)

Move(what) ==
  /\ used.events < MaxEvents /\ Spends("events") /\ worktree' = [worktree EXCEPT ![what] = @ + 1]
  /\ UNCHANGED <<current, Private, Public, toolCall, told>>
\* The deployment ends, or its policy is withdrawn.
Leave ==
  /\ current /\ current' = FALSE /\ used.events < MaxEvents /\ Spends("events")
  /\ UNCHANGED <<worktree, Private, Public, toolCall, told>>

Edits == used.events < MaxEvents /\ Spends("events") /\ UNCHANGED <<World, Private, toolCall, told>>
Indexed == index.reports # {}
WriteNote ==
  /\ Edits /\ Indexed /\ index' = [index EXCEPT !.notes = @ \cup {used.events}]
  /\ kept' = IF toolCall.at = "rename" THEN kept ELSE kept \cup {used.events}
  /\ UNCHANGED pages
\* An entry that can no longer be read, or a file with another mode.
Mangle == Edits /\ Indexed /\ index' = [index EXCEPT !.readable = FALSE] /\ UNCHANGED <<pages, kept>>
EditPage(a, f) ==
  /\ Edits /\ pages[a][f].is = "whole" /\ pages' = [pages EXCEPT ![a][f].is = "edited"]
  /\ UNCHANGED <<index, kept>>

----------------------------------------------------------------------------
Sources == SUBSET (1..Len(observed))

Actors ==
  \/ \E c \in Captures, d \in Drafts : CaptureAgain(c, d)
  \/ \E c \in Captures, p \in {"some", "full"} : Capture(c, p)
  \/ \E i \in 1..Len(reports) : Publish(i) \/ \E d \in Sources : Settle(i, d)
  \/ \E i \in 1..Len(reports), app \in Apps : Observe(i, app)
Steps ==
  \/ Recorded \/ Keyed \/ PublishAbsent \/ Unlink \/ Verify \/ Index \/ Compare \/ Rename
  \/ Readback \/ (\E k \in 1..Len(observed) : Deliver(k)) \/ DeliverFails \/ Settled \/ Receipt
  \/ Observed \/ \E b \in BOOLEAN : Answer(b)
Outside ==
  \/ Stop \/ Leave \/ WriteNote \/ Mangle
  \/ (\E what \in {"tree", "journal"} : Move(what))
  \/ \E a \in 1..MaxAttempts, f \in Edited : EditPage(a, f)

ReportsNext == Actors \/ Steps \/ Outside
Spec == ReportsInit /\ [][ReportsNext]_reportVars

----------------------------------------------------------------------------
\* The type invariant.
ReportsTypeOK ==
  /\ Len(reports) <= MaxAttempts /\ keyed \in [Captures -> 0..Len(reports)]
  /\ receipts \subseteq index.reports /\ index.reports \subseteq 1..Len(reports)
  /\ index.deliveries \subseteq 1..Len(observed) /\ kept \subseteq 0..MaxEvents

\* Two records never share a directory, and a call is bound to a record of its own
\* words, whatever failed between the record and its key (phase-report-native.ts,
\* capture).
AttemptsApart ==
  /\ \A i, j \in 1..Len(reports) : i # j => reports[i].attempt # reports[j].attempt
  /\ \A c \in Captures : keyed[c] # 0 => reports[keyed[c]].id = c

\* The receipt file of an attempt is the last one: where it stands, the four other
\* files stand too, none of them half published (publishAbsent).
ReceiptFileLast ==
  \A a \in 1..MaxAttempts :
    pages[a][5].is # "absent" =>
      \A f \in 1..4 : pages[a][f].is \in {"whole", "edited"} /\ pages[a][f].of = pages[a][5].of

\* What the owner's Markdown lists was completely published, and each delivery
\* beside it is one the operator confirmed of that report, one for each application.
IndexBacked ==
  /\ \A i \in index.reports, f \in Positions :
       pages[reports[i].attempt][f] \in [is : {"whole", "edited"}, of : {i}]
  /\ \A k \in index.deliveries : observed[k].of \in index.reports
  /\ \A k, l \in index.deliveries : observed[k] = observed[l] => k = l

\* A note of the operator in the owner's Markdown outlives every update, unless it
\* was written between the last comparison and the rename (#ownerUpdate).
NotesOutlive == kept \subseteq index.notes

\* What the tool told of a report holds: it is listed, work may go on only from an
\* unchanged worktree with all checks, and no debt means two confirmed views.
ToldTrue ==
  told.dependency \notin {"none", "source"} =>
    /\ told.of \in index.reports
    /\ told.dependency = "available" =>
         reports[told.of].seen.tree = told.tree /\ reports[told.of].proof = "full"
    /\ told.debt = {} =>
         \A app \in Apps : \E k \in index.deliveries : observed[k] = [of |-> told.of, app |-> app]

ReportsSafe ==
  /\ ReportsTypeOK /\ AttemptsApart /\ ReceiptFileLast /\ IndexBacked /\ NotesOutlive
  /\ ToldTrue
==============================================================================
