--------------------------- MODULE OperatorInbox ---------------------------
(* The operator's documents (agent-api/routes/actions.ts, utils/markdown.ts): *)
(* files that agents put into the inbox and that requests annotate and move from *)
(* folder to folder, and the attachments of a ticket.  A handler tests that the *)
(* file is there, awaits the body of its request and does the rest without *)
(* another await; in between the other requests of the server run. *)
EXTENDS Integers, FiniteSets

CONSTANTS
  Reqs,      \* requests under way at the same time
  Names,     \* file names
  Docs,      \* documents that agents write, each once
  MaxNotes,  \* bound: texts that the operator adds
  MaxMoves,  \* bound: projects a ticket is moved to
  MaxKills   \* bound: ends of the server in the middle of a handler

InboxAssumption ==
  /\ MaxNotes \in Nat /\ MaxMoves \in Nat /\ MaxKills \in Nat
  /\ "none" \notin Docs /\ "torn" \notin Docs

Folders == {"inbox", "approved", "rejected", "deferred", "done", "for-later"}
\* for-later has no route: what is there stays there
Routed == Folders \ {"inbox", "for-later"}
Notes == 1..MaxNotes
NoFile == [doc |-> "none"]
Torn == [doc |-> "torn"]

VARIABLES
  files,    \* folder, name -> the content of the file, or NoFile
  req,      \* request -> what it waits for
  notes,    \* the texts written so far
  told,     \* the sections of which a request was told that they are written
  written,  \* documents that agents wrote
  ticket,   \* the last identifier of the ticket, 0 when it is deleted
  stored,   \* the attachment files, by the identifier they were uploaded for
  refs,     \* the attachments that the ticket lists
  side,     \* what the requests are about: "documents" or "ticket"
  kills

documentVars == <<files, notes, told, written>>
ticketVars == <<ticket, stored, refs>>
inboxVars == <<documentVars, req, ticketVars, side, kills>>

Idle == [at |-> "idle"]

InboxInit ==
  /\ files = [f \in Folders |-> [n \in Names |-> NoFile]]
  /\ req = [r \in Reqs |-> Idle]
  /\ notes = 0 /\ told = {} /\ written = {} /\ kills = 0
  /\ ticket = 1 /\ stored = {} /\ refs = {} /\ side \in {"documents", "ticket"}

Readable(c) == c # NoFile /\ c # Torn

\* The front matter holds one feedback, and a later one replaces it; a section is
\* added to the end of the text.  The other keys of the front matter, also the one
\* that says from which folder a document came, are left out.
WithFeedback(c, verdict) == [c EXCEPT !.feedback = verdict]
WithSection(c, note) == [c EXCEPT !.sections = @ \cup {note}]

Destination ==
  [approve |-> "approved", reject |-> "rejected", defer |-> "deferred", acknowledge |-> "done",
   save |-> "for-later", requeue |-> "inbox", archive |-> "done"]
Verdict ==
  [approve |-> "approved", reject |-> "rejected", defer |-> "deferred",
   acknowledge |-> "acknowledged", save |-> "saved-for-later", pending |-> "pending-reject"]

\* Which actions add a section: the note of an acknowledgement is in the front
\* matter only.  Without a note an approval, a deferral and an acknowledgement
\* leave the document as it is.
Sections(action, noted) ==
  action = "append" \/ action = "reject" \/ (action \in {"approve", "defer"} /\ noted)
Marks(action, noted) == action \in {"reject", "pending", "save"} \/ noted

\* writeFeedbackAnnotation and appendSection
Annotated(c, action, note, noted) ==
  LET marked == IF action # "append" /\ Marks(action, noted)
                THEN WithFeedback(c, Verdict[action])
                ELSE c
  IN  IF Sections(action, noted) THEN WithSection(marked, note) ELSE marked

Vacant(folder, n) == files[folder][n] = NoFile

Put(folder, n, c) == [files EXCEPT ![folder][n] = c]

\* What a handler leaves: the file rewritten in its place, and moved when no file
\* of its name is in the way.
Left(folder, n, c, to) ==
  IF to # "none" /\ Vacant(to, n)
  THEN [files EXCEPT ![folder][n] = NoFile, ![to][n] = c]
  ELSE Put(folder, n, c)

Answered(r) == req' = [req EXCEPT ![r] = Idle]

----------------------------------------------------------------------------
(* The documents. *)

\* An agent writes a document into the inbox.
Drop(d, n) ==
  /\ d \notin written /\ Vacant("inbox", n)
  /\ written' = written \cup {d}
  /\ files' = Put("inbox", n, [doc |-> d, feedback |-> "none", sections |-> {}])
  /\ UNCHANGED <<req, notes, told, ticketVars, kills>>

\* The request names a file that exists and waits for its body.
Ask(r, folder, n) ==
  /\ req[r] = Idle /\ folder \in Routed \cup {"inbox"} /\ files[folder][n] # NoFile
  /\ req' = [req EXCEPT ![r] = [at |-> "document", folder |-> folder, name |-> n]]
  /\ UNCHANGED <<documentVars, ticketVars, kills>>

\* The body is no JSON, lacks a field or asks for something unknown; or the file is
\* gone and reading it fails.
Reject(r) == req[r].at = "document" /\ Answered(r) /\ UNCHANGED <<documentVars, ticketVars, kills>>

\* The handler reads the file after the body has come.
Content(r) == files[req[r].folder][req[r].name]

Allowed(folder, action) ==
  IF folder = "inbox" THEN action \in {"approve", "reject", "pending", "defer", "acknowledge", "save", "append"}
  ELSE action \in {"requeue", "archive", "append"} \/ (action = "save" /\ folder = "approved")

\* The content that a handler writes back before it moves the file.
Rewritten(r, action, noted) ==
  IF req[r].folder = "inbox" \/ action = "append"
  THEN Annotated(Content(r), action, notes + 1, noted)
  ELSE Content(r)

Act(r, action, noted) ==
  LET folder == req[r].folder  n == req[r].name
      to == IF action \in {"append", "pending"} THEN "none" ELSE Destination[action]
      new == Rewritten(r, action, noted)
      adds == (folder = "inbox" \/ action = "append") /\ (noted \/ action \in {"append", "reject"})
  IN  /\ req[r].at = "document" /\ Readable(Content(r)) /\ Allowed(folder, action)
      /\ action \in {"approve", "defer", "acknowledge"} \/ ~noted
      /\ adds => notes < MaxNotes
      /\ notes' = IF adds THEN notes + 1 ELSE notes
      /\ files' = Left(folder, n, new, to)
      /\ told' = IF Sections(action, noted) /\ (to = "none" \/ Vacant(to, n))
                 THEN told \cup {notes + 1} ELSE told
      /\ Answered(r) /\ UNCHANGED <<written, ticketVars, kills>>

\* The server ends in the middle of a handler: the file is truncated, or rewritten
\* and not moved.  Every request goes with it.
Killed(r, action, noted) ==
  LET folder == req[r].folder  n == req[r].name
  IN  /\ req[r].at = "document" /\ Readable(Content(r)) /\ Allowed(folder, action)
      /\ action # "archive" /\ (noted => action \in {"approve", "defer", "acknowledge"})
      /\ kills < MaxKills /\ kills' = kills + 1 /\ notes < MaxNotes /\ notes' = notes + 1
      /\ files' \in {Put(folder, n, Torn), Put(folder, n, Rewritten(r, action, noted))}
      /\ req' = [q \in Reqs |-> Idle]
      /\ UNCHANGED <<told, written, ticketVars>>

----------------------------------------------------------------------------
(* The attachments. *)

\* The ticket exists, under this identifier or under one it was moved to.
Upload(r, id) ==
  /\ req[r] = Idle /\ ticket # 0 /\ id \in 1..ticket
  /\ req' = [req EXCEPT ![r] = [at |-> "upload", id |-> id, name |-> r]]
  /\ UNCHANGED <<documentVars, ticketVars, kills>>

\* A file that is too large or of another type is refused.
RefuseUpload(r) == req[r].at = "upload" /\ Answered(r) /\ UNCHANGED <<documentVars, ticketVars, kills>>

\* The bytes are written under the requested identifier; then the ticket lists them,
\* unless it has been deleted or the server ends in between.
PathOf(r) == <<req[r].id, req[r].name>>
Store(r) ==
  /\ req[r].at = "upload" /\ Answered(r)
  /\ stored' = stored \cup {PathOf(r)}
  /\ refs' = IF ticket # 0 THEN refs \cup {PathOf(r)} ELSE refs
  /\ UNCHANGED <<documentVars, ticket, kills>>
StoreKilled(r) ==
  /\ req[r].at = "upload" /\ kills < MaxKills /\ kills' = kills + 1
  /\ stored' = stored \cup {PathOf(r)} /\ req' = [q \in Reqs |-> Idle]
  /\ UNCHANGED <<documentVars, ticket, refs>>

\* The route that moves a ticket gives it a new identifier and keeps what it lists.
MoveTicket ==
  /\ ticket \in 1..MaxMoves /\ ticket' = ticket + 1
  /\ UNCHANGED <<documentVars, req, stored, refs, kills>>
DeleteTicket ==
  /\ ticket # 0 /\ ticket' = 0 /\ refs' = {}
  /\ UNCHANGED <<documentVars, req, stored, kills>>

InboxActions == {"approve", "reject", "pending", "defer", "acknowledge", "save", "append",
                 "requeue", "archive"}
DocumentStep ==
  \/ \E d \in Docs, n \in Names : Drop(d, n)
  \/ \E r \in Reqs, f \in Folders, n \in Names : Ask(r, f, n)
  \/ \E r \in Reqs : Reject(r)
  \/ \E r \in Reqs, a \in InboxActions, noted \in BOOLEAN : Act(r, a, noted) \/ Killed(r, a, noted)
TicketStep ==
  \/ \E r \in Reqs, id \in 1..(MaxMoves + 1) : Upload(r, id)
  \/ \E r \in Reqs : RefuseUpload(r) \/ Store(r) \/ StoreKilled(r)
  \/ MoveTicket \/ DeleteTicket

\* The two share nothing but the process: a behaviour is about one of them.
InboxNext ==
  /\ side' = side
  /\ \/ side = "documents" /\ DocumentStep
     \/ side = "ticket" /\ TicketStep

----------------------------------------------------------------------------
InboxTypeOK ==
  /\ \A f \in Folders, n \in Names : Readable(files[f][n]) => files[f][n].doc \in Docs
  /\ notes \in 0..MaxNotes /\ told \subseteq Notes /\ written \subseteq Docs
  /\ ticket \in 0..(MaxMoves + 1) /\ kills \in 0..MaxKills
  /\ \A r \in Reqs : req[r].at \in {"idle", "document", "upload"}

Places(d) == {p \in Folders \X Names : files[p[1]][p[2]].doc = d}

\* A document that an agent wrote is in one place, whatever requests work on it at
\* the same time; only a server that ends while it writes leaves a torn file
\* (moveMarkdownFile, actions.ts:263).
DocumentsKept ==
  /\ \A d \in written : Cardinality(Places(d)) <= 1
  /\ Cardinality({d \in written : Places(d) = {}}) <= kills

\* A section of which the operator was told is in a document for good
\* (appendSection, applyAnnotation).
SectionsKept ==
  kills = 0 => \A m \in told :
    \E f \in Folders, n \in Names : Readable(files[f][n]) /\ m \in files[f][n].sections

\* A document among the rejected ones says in its front matter that it was rejected
\* (runInboxMoveAction, actions.ts:232).
RejectionsSay ==
  \A n \in Names : Readable(files["rejected"][n])
                     => files["rejected"][n].feedback = "rejected"

\* What the ticket lists was stored, also under an identifier it no longer has.
ListedStored == refs \subseteq stored

InboxSafe == InboxTypeOK /\ DocumentsKept /\ SectionsKept /\ RejectionsSay /\ ListedStored
=============================================================================
