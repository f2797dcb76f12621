---------------------------- MODULE SignalNotes ----------------------------
(* signal collect (signal/*.ts, cli/commands/signal.ts): notes that the operator *)
(* sends to itself are read from the database of Signal, saved as raw files behind *)
(* a cursor, and routed to tickets, pages, the journal or a private log. *)
(* Collectors take no lock, and one may end anywhere. *)
EXTENDS Integers, FiniteSets, FiniteSetsExt

CONSTANTS
  Collectors,    \* processes
  Messages,      \* notes, numbered by the time they were sent at
  TraitsOf,      \* what the text of a note is: see Traits
  MaxRuns,       \* bound: commands
  MaxEnds        \* bound: commands that end early

Traits == {"empty", "idea", "task", "buy", "learn", "yt", "link", "secret",
           "private", "youtube", "facebook", "article", "url", "plain",
           "lines"}  \* the text has more than one line

SignalAssumption ==
  /\ Messages \subseteq Nat \ {0}
  /\ TraitsOf \in [Messages -> SUBSET Traits] /\ MaxRuns \in Nat /\ MaxEnds \in Nat

VARIABLES
  arrived,   \* the notes in the database
  cursor,    \* state.json: the last time read; -1 when the file is torn
  raw,       \* notes saved as raw files
  routed,    \* notes marked as processed
  tickets,   \* note -> tickets made of it
  pages,     \* notes that have a page
  journal,   \* note -> its blocks in the journal
  log,       \* note -> its lines in the private log
  queue,     \* note -> its lines in the video queue
  run,       \* collector -> what it does
  late,      \* notes that came when the cursor was past them
  overlap,   \* two commands were under way at the same time
  runs, ends

filesVars == <<raw, routed, tickets, pages, journal, log, queue>>
signalVars == <<arrived, cursor, filesVars, run, late, overlap, runs, ends>>

Idle == [at |-> "idle"]
Zero == [m \in Messages |-> 0]

SignalInit ==
  /\ arrived = {} /\ cursor = 0 /\ raw = {} /\ routed = {} /\ pages = {}
  /\ tickets = Zero /\ journal = Zero /\ log = Zero /\ queue = Zero
  /\ run = [c \in Collectors |-> Idle]
  /\ late = {} /\ overlap = FALSE /\ runs = 0 /\ ends = 0

\* parseTag: the word behind the leading #.
Tags == {"idea", "task", "buy", "learn", "yt", "link", "secret"}
TagDestination ==
  [idea |-> "ticket", task |-> "ticket", buy |-> "ticket", learn |-> "article",
   yt |-> "youtube", link |-> "journal", secret |-> "private"]

\* routeRawSignalNote: a tag goes before what the text looks like, and that before
\* the addresses in it.
Destination(m) ==
  LET traits == TraitsOf[m]  tags == traits \cap Tags
  IN  CASE "empty" \in traits -> "journal"
        [] "empty" \notin traits /\ tags # {} -> TagDestination[CHOOSE t \in tags : TRUE]
        [] OTHER -> IF "private" \in traits THEN "private"
                    ELSE IF "youtube" \in traits THEN "youtube"
                    ELSE IF "article" \in traits /\ "facebook" \notin traits THEN "article"
                    ELSE "journal"

Goes(c, state) == run' = [run EXCEPT ![c] = state]
Starts(c, state) ==
  /\ run[c] = Idle /\ runs < MaxRuns /\ runs' = runs + 1
  /\ Goes(c, state)
  /\ overlap' = (overlap \/ \E o \in Collectors \ {c} : run[o] # Idle)
Stay == UNCHANGED <<arrived, late, overlap, runs, ends>>

Known == IF cursor < 0 THEN 0 ELSE cursor

\* Signal Desktop receives a note, also one that was sent before others it has.
Arrive(m) ==
  /\ m \notin arrived /\ arrived' = arrived \cup {m}
  /\ late' = IF \/ m <= cursor
                \/ \E c \in Collectors : run[c].at \in {"save", "truncate", "write"} /\ m <= run[c].last
             THEN late \cup {m} ELSE late
  /\ UNCHANGED <<cursor, filesVars, run, overlap, runs, ends>>

\* parseSqlcipherRows: a row is a line of the output, so that a note of several
\* lines is in none of the rows that fetchNotesSince keeps.
OneRow(m) == "lines" \notin TraitsOf[m]

\* extractNotesSinceLastRun.  A state file that does not parse counts as none.
Pending(since) == {m \in arrived : m > since /\ OneRow(m)}
Collect(c, route) ==
  /\ LET found == Pending(Known)
     IN  Starts(c, [at |-> "save", todo |-> found, files |-> found, route |-> route,
                    last |-> IF found = {} THEN Known ELSE Max(found)])
  /\ UNCHANGED <<arrived, cursor, filesVars, late, ends>>

\* copyAttachments and saveRawNote; the name of the file is that of the note.
Save(c) ==
  /\ run[c].at = "save" /\ run[c].todo # {}
  /\ raw' = raw \cup {Min(run[c].todo)}
  /\ Goes(c, [run[c] EXCEPT !.todo = @ \ {Min(@)}])
  /\ Stay /\ UNCHANGED <<cursor, routed, tickets, pages, journal, log, queue>>

\* The last note of those that were saved
Reached(c) == run[c].last

Truncate(c) ==
  /\ run[c].at = "save" /\ run[c].todo = {} /\ cursor' = -1
  /\ Goes(c, [run[c] EXCEPT !.at = "write"])
  /\ Stay /\ UNCHANGED filesVars
Routing(files) == IF files = {} THEN Idle ELSE [at |-> "route", files |-> files]
WriteState(c) ==
  /\ run[c].at = "write" /\ cursor' = Reached(c)
  /\ Goes(c, IF run[c].route THEN Routing(run[c].files) ELSE Idle)
  /\ Stay /\ UNCHANGED filesVars

\* collect --reprocess: what earlier runs wrote into the journal, the pages and the
\* private log is removed, the tickets and the queue stay; then every raw note is
\* routed.
Kept(blocks) == blocks
Cleaned(blocks) == Zero
Reprocess(c) ==
  /\ raw # {} /\ Starts(c, [at |-> "clean", files |-> raw])
  /\ UNCHANGED <<arrived, cursor, filesVars, late, ends>>
Clean(c) ==
  /\ run[c].at = "clean" /\ Goes(c, Routing(run[c].files))
  /\ journal' = Cleaned(journal) /\ log' = Cleaned(log) /\ pages' = {}
  /\ Stay /\ UNCHANGED <<cursor, raw, routed, tickets, queue>>

More(blocks, m) == [blocks EXCEPT ![m] = @ + 1]
Note(c) == Min(run[c].files)
Write(c) == run[c].at = "route" /\ Stay /\ UNCHANGED <<cursor, raw, routed>>
Marking(c) == Goes(c, [run[c] EXCEPT !.at = "mark"])

\* writeRoutedMessage: a ticket, a block of the journal or a line of the log.
ToOne(c) ==
  LET to == Destination(Note(c))
  IN  /\ Write(c) /\ to \in {"ticket", "journal", "private"} /\ Marking(c)
      /\ tickets' = IF to = "ticket" THEN More(tickets, Note(c)) ELSE tickets
      /\ journal' = IF to = "journal" THEN More(journal, Note(c)) ELSE journal
      /\ log' = IF to = "private" THEN More(log, Note(c)) ELSE log
      /\ UNCHANGED <<pages, queue>>
\* A video or an article: the queue file when there is one, a ticket, a page, a
\* block of the journal.
ToMedia(c) ==
  /\ Write(c) /\ Destination(Note(c)) \in {"youtube", "article"}
  /\ queue' = IF Destination(Note(c)) = "youtube" THEN More(queue, Note(c)) ELSE queue
  /\ tickets' = More(tickets, Note(c))
  /\ Goes(c, [run[c] EXCEPT !.at = "page"])
  /\ UNCHANGED <<pages, journal, log>>
ToPage(c) ==
  /\ run[c].at = "page" /\ pages' = pages \cup {Note(c)}
  /\ Goes(c, [run[c] EXCEPT !.at = "block"])
  /\ Stay /\ UNCHANGED <<cursor, raw, routed, tickets, journal, log, queue>>
ToBlock(c) ==
  /\ run[c].at = "block" /\ journal' = More(journal, Note(c)) /\ Marking(c)
  /\ Stay /\ UNCHANGED <<cursor, raw, routed, tickets, pages, log, queue>>

\* A note that cannot be written is counted as an error and passed over.
Fails(c) ==
  /\ run[c].at = "route" /\ ends < MaxEnds /\ ends' = ends + 1
  /\ Goes(c, Routing(run[c].files \ {Note(c)}))
  /\ UNCHANGED <<arrived, cursor, filesVars, late, overlap, runs>>

\* markSignalNoteAsProcessed
MarkNote(c) ==
  /\ run[c].at = "mark" /\ routed' = routed \cup {Note(c)}
  /\ Goes(c, Routing(run[c].files \ {Note(c)}))
  /\ Stay /\ UNCHANGED <<cursor, raw, tickets, pages, journal, log, queue>>

\* The command ends early, at any point.
EndEarly(c) ==
  /\ run[c] # Idle /\ ends < MaxEnds /\ ends' = ends + 1 /\ Goes(c, Idle)
  /\ UNCHANGED <<arrived, cursor, filesVars, late, overlap, runs>>

SignalNext ==
  \/ \E m \in Messages : Arrive(m)
  \/ \E c \in Collectors :
       \/ (\E route \in BOOLEAN : Collect(c, route)) \/ Save(c) \/ Truncate(c) \/ WriteState(c)
       \/ Reprocess(c) \/ Clean(c) \/ ToOne(c) \/ ToMedia(c)
       \/ ToPage(c) \/ ToBlock(c) \/ Fails(c) \/ MarkNote(c) \/ EndEarly(c)

----------------------------------------------------------------------------
SignalTypeOK ==
  /\ arrived \subseteq Messages /\ raw \subseteq arrived /\ routed \subseteq raw
  /\ cursor \in {-1, 0} \cup Messages /\ runs \in 0..MaxRuns /\ ends \in 0..MaxEnds

Quiet == \A c \in Collectors : run[c] = Idle
WrittenWell(m) ==
  CASE Destination(m) = "ticket" -> tickets[m] >= 1
    [] Destination(m) = "private" -> log[m] = 1
    [] OTHER -> journal[m] = 1

\* The cursor never passes a note that has not been saved, whoever overlaps or ends
\* early; only a note that comes when the cursor is past it, and one of several lines,
\* is never collected (extractNotesSinceLastRun, signal/reader.ts:202).
NoneSkipped == \A m \in arrived \ late : m <= cursor /\ OneRow(m) => m \in raw

\* While commands run one by one to their end, a note marked as processed stands in
\* the journal or in the log once: reprocessing removes what it writes again.  Tickets
\* it makes again (cleanSignalEntries, signal/writers.ts:43).
WrittenOnce ==
  Quiet /\ ~overlap /\ ends = 0 => \A m \in routed : WrittenWell(m)

\* What was told apart as private is in no ticket, no page and not in the journal.
PrivateApart ==
  \A m \in Messages : Destination(m) = "private" =>
    tickets[m] = 0 /\ m \notin pages /\ journal[m] = 0 /\ queue[m] = 0

SignalSafe == SignalTypeOK /\ NoneSkipped /\ WrittenOnce /\ PrivateApart
=============================================================================
