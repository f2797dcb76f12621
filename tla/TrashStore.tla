----------------------------- MODULE TrashStore -----------------------------
(* The trash (trash/store.ts, cli/commands/trash.ts) and the bulletins *)
(* (bulletins/store.ts and its routes and commands).  Both take identifiers from a *)
(* counter file and keep plain files; both are used by processes that take no *)
(* lock.  A file that is written is empty for a moment, and stays so when the *)
(* process dies then. *)
EXTENDS Integers, Sequences, FiniteSets

CONSTANTS
  Procs,    \* processes, each running one command after the other
  Paths,    \* where files can be, all of one base name
  Titles,   \* titles of bulletins; one created on the same day under the same
            \* title has the same file name
  MaxCommands, \* bound: commands
  MaxIds,   \* bound: identifiers
  MaxDeaths \* bound: processes that die in the middle of a command

TrashAssumption == MaxIds \in Nat /\ MaxCommands \in Nat /\ MaxDeaths \in Nat

Ids == 1..MaxIds
Nothing == 0
Empty == -1

VARIABLES
  counter,   \* the next identifier, or Empty
  disk,      \* path -> the content of the file there, or Nothing; contents are numbered
  bin,       \* identifier -> the content of the trashed file, or Nothing
  manifest,  \* the entries, in order
  active, resolved,  \* title -> [id, mark], or Nothing and Empty as identifiers
  pc,        \* process -> what it does
  made,      \* contents written so far
  removed,   \* contents that a purge or a forced restore removed on purpose
  standing,  \* bulletins whose creation was acknowledged and that no one resolved
  replaced,  \* bulletins of which a later one has taken the file
  shared,    \* two commands have taken the same identifier
  late,      \* a file was written where a restore had found none
  overlap,   \* a command was under way when another one began or a file was written
  deaths, commands,
  area       \* "trash" or "bulletins"

trashVars == <<disk, bin, manifest, made, removed>>
bulletinVars == <<active, resolved, standing, replaced>>
storeFileVars == <<counter, trashVars, bulletinVars, pc, shared, late, overlap, deaths, commands, area>>

Idle == [at |-> "idle"]
NoBulletin == [id |-> Nothing, mark |-> "none"]
TornBulletin == [id |-> Empty, mark |-> "none"]

TrashInit ==
  /\ counter = 1 /\ bin = [i \in Ids |-> Nothing] /\ manifest = <<>>
  /\ disk = [p \in Paths |-> Nothing] /\ made = 0 /\ removed = {}
  /\ active = [t \in Titles |-> NoBulletin] /\ resolved = active
  /\ standing = {} /\ replaced = {}
  /\ pc = [p \in Procs |-> Idle] /\ deaths = 0 /\ commands = 0
  /\ shared = FALSE /\ late = FALSE /\ overlap = FALSE
  /\ area \in {"trash", "bulletins"}

Quiet == \A p \in Procs : pc[p] = Idle
Goes(p, state) == pc' = [pc EXCEPT ![p] = state]
Ends(p) == Goes(p, Idle)
Starts(p, state) ==
  /\ pc[p] = Idle /\ Goes(p, state)
  /\ commands < MaxCommands /\ commands' = commands + 1
  /\ overlap' = (overlap \/ \E q \in Procs \ {p} : pc[q] # Idle)
Same == UNCHANGED <<shared, late, overlap, deaths, commands, area>>

----------------------------------------------------------------------------
(* allocateId, of both stores: an empty counter file is no JSON, and the command *)
(* fails. *)

ReadCounter(p) ==
  /\ pc[p].at = "count"
  /\ \/ counter = Empty /\ Ends(p)
     \/ counter \in Ids /\ Goes(p, [pc[p] EXCEPT !.at = "truncate", !.id = counter])
  /\ shared' = (shared \/ \E q \in Procs \ {p} :
                  pc[q].at \in {"truncate", "fill", "take"} /\ pc[q].id = counter)
  /\ UNCHANGED <<late, overlap, deaths, commands, area>> /\ UNCHANGED <<counter, trashVars, bulletinVars>>
TruncateCounter(p) ==
  /\ pc[p].at = "truncate" /\ counter' = Empty /\ Goes(p, [pc[p] EXCEPT !.at = "fill"])
  /\ Same /\ UNCHANGED <<trashVars, bulletinVars>>
FillCounter(p) ==
  /\ pc[p].at = "fill" /\ counter' = pc[p].id + 1 /\ Goes(p, [pc[p] EXCEPT !.at = "take"])
  /\ Same /\ UNCHANGED <<trashVars, bulletinVars>>

----------------------------------------------------------------------------
(* The trash. *)

\* A program writes a file.
WriteFile(path) ==
  /\ area = "trash" /\ disk[path] = Nothing /\ made < MaxIds
  /\ made' = made + 1 /\ disk' = [disk EXCEPT ![path] = made + 1]
  /\ overlap' = (overlap \/ ~Quiet)
  /\ late' = (late \/ \E p \in Procs : pc[p].at = "back" /\ pc[p].path = path)
  /\ UNCHANGED <<counter, bin, manifest, removed, bulletinVars, pc, shared, deaths, commands, area>>

\* move: the file must exist when the command starts, and again when it is moved.
Move(p, path) ==
  /\ area = "trash" /\ disk[path] # Nothing
  /\ Starts(p, [at |-> "count", do |-> "move", path |-> path, id |-> Nothing])
  /\ UNCHANGED <<counter, trashVars, bulletinVars, shared, late, deaths, area>>
TakeFile(p) ==
  LET i == pc[p].id
  IN  /\ pc[p].at = "take" /\ pc[p].do = "move"
      /\ IF disk[pc[p].path] = Nothing THEN Ends(p) /\ UNCHANGED <<disk, bin>>
         ELSE /\ bin' = [bin EXCEPT ![i] = disk[pc[p].path]]
              /\ disk' = [disk EXCEPT ![pc[p].path] = Nothing]
              /\ Goes(p, [at |-> "enter", id |-> i, path |-> pc[p].path])
      /\ Same /\ UNCHANGED <<counter, manifest, made, removed, bulletinVars>>
Entry(i, path, status) == [id |-> i, path |-> path, status |-> status]
Saves(p, entries) == Goes(p, [at |-> "save", entries |-> entries])
Enter(p) ==
  /\ pc[p].at = "enter"
  /\ Saves(p, Append(manifest, Entry(pc[p].id, pc[p].path, "trashed")))
  /\ Same /\ UNCHANGED <<counter, trashVars, bulletinVars>>

Index(i) == {k \in 1..Len(manifest) : manifest[k].id = i}
First(i) == CHOOSE k \in Index(i) : \A l \in Index(i) : k <= l
WithStatus(k, status) == [manifest EXCEPT ![k].status = status]

InTrash(e) == e.status = "trashed"

\* restore reads the manifest, tests the two files, clears the way when it is
\* forced, moves the file back and writes the manifest it has read.
Restore(p, i, force) ==
  /\ area = "trash" /\ Index(i) # {} /\ InTrash(manifest[First(i)]) /\ bin[i] # Nothing
  /\ disk[manifest[First(i)].path] = Nothing \/ force
  /\ Starts(p, [at |-> "back", id |-> i, path |-> manifest[First(i)].path, force |-> force,
                entries |-> WithStatus(First(i), "restored")])
  /\ UNCHANGED <<counter, trashVars, bulletinVars, shared, late, deaths, area>>
ClearWay(p) ==
  /\ pc[p].at = "back" /\ pc[p].force /\ disk[pc[p].path] # Nothing
  /\ disk' = [disk EXCEPT ![pc[p].path] = Nothing]
  /\ removed' = removed \cup {disk[pc[p].path]}
  /\ Same /\ UNCHANGED <<counter, bin, manifest, made, bulletinVars, pc>>
PutBack(p) ==
  LET i == pc[p].id  path == pc[p].path
  IN  /\ pc[p].at = "back" /\ ~(pc[p].force /\ disk[path] # Nothing)
      /\ IF bin[i] = Nothing THEN Ends(p) /\ UNCHANGED <<disk, bin>>
         ELSE /\ disk' = [disk EXCEPT ![path] = bin[i]] /\ bin' = [bin EXCEPT ![i] = Nothing]
              /\ Saves(p, pc[p].entries)
      /\ late' = (late \/ \E q \in Procs \ {p} : pc[q].at = "back" /\ pc[q].path = path)
      /\ UNCHANGED <<counter, manifest, made, removed, bulletinVars, shared, overlap, deaths, commands, area>>

\* purge: the entries up to an age, which is their order.
Expired(i) == {k \in 1..Len(manifest) : InTrash(manifest[k]) /\ manifest[k].id <= i}
Purge(p, i) ==
  /\ area = "trash" /\ Expired(i) # {}
  /\ Starts(p, [at |-> "purge", ids |-> {manifest[k].id : k \in Expired(i)},
                entries |-> [k \in 1..Len(manifest) |->
                  IF k \in Expired(i) THEN [manifest[k] EXCEPT !.status = "purged"]
                                      ELSE manifest[k]]])
  /\ UNCHANGED <<counter, trashVars, bulletinVars, shared, late, deaths, area>>
RemoveOne(p) ==
  /\ pc[p].at = "purge" /\ pc[p].ids # {}
  /\ LET i == CHOOSE i \in pc[p].ids : \A j \in pc[p].ids : i <= j
     IN  /\ bin' = [bin EXCEPT ![i] = Nothing]
         /\ removed' = IF bin[i] # Nothing THEN removed \cup {bin[i]} ELSE removed
         /\ Goes(p, [pc[p] EXCEPT !.ids = @ \ {i}])
  /\ Same /\ UNCHANGED <<counter, disk, manifest, made, bulletinVars>>
Purged(p) ==
  /\ pc[p].at = "purge" /\ pc[p].ids = {} /\ Saves(p, pc[p].entries)
  /\ Same /\ UNCHANGED <<counter, trashVars, bulletinVars>>

\* writeManifest: an empty manifest is read as one without entries.
TruncateManifest(p) ==
  /\ pc[p].at = "save" /\ manifest' = <<>> /\ Goes(p, [pc[p] EXCEPT !.at = "saving"])
  /\ Same /\ UNCHANGED <<counter, disk, bin, made, removed, bulletinVars>>
FillManifest(p) ==
  /\ pc[p].at = "saving" /\ manifest' = pc[p].entries /\ Ends(p)
  /\ Same /\ UNCHANGED <<counter, disk, bin, made, removed, bulletinVars>>

----------------------------------------------------------------------------
(* The bulletins. *)

Create(p, t) ==
  /\ area = "bulletins"
  /\ Starts(p, [at |-> "count", do |-> "create", title |-> t, id |-> Nothing])
  /\ UNCHANGED <<counter, trashVars, bulletinVars, shared, late, deaths, area>>
TruncateBulletin(p) ==
  /\ pc[p].at = "take" /\ pc[p].do = "create"
  /\ active' = [active EXCEPT ![pc[p].title] = TornBulletin]
  /\ replaced' = replaced \cup ({active[pc[p].title].id} \cap Ids)
  /\ Goes(p, [pc[p] EXCEPT !.at = "publish"])
  /\ Same /\ UNCHANGED <<counter, trashVars, resolved, standing>>
Publish(p) ==
  /\ pc[p].at = "publish"
  /\ active' = [active EXCEPT ![pc[p].title] = [id |-> pc[p].id, mark |-> "active"]]
  /\ standing' = standing \cup {pc[p].id} /\ Ends(p)
  /\ Same /\ UNCHANGED <<counter, trashVars, resolved, replaced>>

Matches(b, i) == b.id = i

\* resolve looks through the active directory, marks the file and moves it, over a
\* resolved one of its name.
Resolve(p, i) ==
  /\ area = "bulletins"
  /\ \E t \in Titles : Matches(active[t], i) /\ Starts(p, [at |-> "mark", title |-> t, id |-> i])
  /\ standing' = standing \ {i}
  /\ UNCHANGED <<counter, trashVars, active, resolved, replaced, shared, late, deaths, area>>
Mark(p) ==
  /\ pc[p].at = "mark" /\ active' = [active EXCEPT ![pc[p].title] = TornBulletin]
  /\ Goes(p, [pc[p] EXCEPT !.at = "marking"])
  /\ Same /\ UNCHANGED <<counter, trashVars, resolved, standing, replaced>>
Marked(p) ==
  /\ pc[p].at = "marking"
  /\ active' = [active EXCEPT ![pc[p].title] = [id |-> pc[p].id, mark |-> "resolved"]]
  /\ Goes(p, [pc[p] EXCEPT !.at = "file"])
  /\ Same /\ UNCHANGED <<counter, trashVars, resolved, standing, replaced>>
File(p) ==
  LET t == pc[p].title
  IN  /\ pc[p].at = "file" /\ Ends(p)
      /\ active' = [active EXCEPT ![t] = NoBulletin]
      /\ resolved' = IF active[t] = NoBulletin THEN resolved ELSE [resolved EXCEPT ![t] = active[t]]
      /\ Same /\ UNCHANGED <<counter, trashVars, standing, replaced>>

\* A process dies where it stands.
Die(p) ==
  /\ pc[p] # Idle /\ deaths < MaxDeaths /\ deaths' = deaths + 1 /\ Ends(p)
  /\ UNCHANGED <<counter, trashVars, bulletinVars, shared, late, overlap, commands, area>>

TrashNext ==
  \/ \E path \in Paths : WriteFile(path)
  \/ \E p \in Procs :
       \/ ReadCounter(p) \/ TruncateCounter(p) \/ FillCounter(p) \/ TakeFile(p) \/ Enter(p)
       \/ ClearWay(p) \/ PutBack(p) \/ RemoveOne(p) \/ Purged(p)
       \/ TruncateManifest(p) \/ FillManifest(p) \/ TruncateBulletin(p) \/ Publish(p)
       \/ Mark(p) \/ Marked(p) \/ File(p) \/ Die(p)
       \/ \E path \in Paths : Move(p, path)
       \/ \E i \in Ids : (\E force \in BOOLEAN : Restore(p, i, force)) \/ Purge(p, i) \/ Resolve(p, i)
       \/ \E t \in Titles : Create(p, t)

----------------------------------------------------------------------------
TrashTypeOK ==
  /\ counter \in -1..(MaxIds + 1) /\ made \in 0..MaxIds /\ deaths \in 0..MaxDeaths
  /\ \A path \in Paths : disk[path] \in 0..MaxIds
  /\ \A k \in 1..Len(manifest) : manifest[k].id \in Ids
  /\ area = "trash" => standing = {}
  /\ area = "bulletins" => made = 0

Contents == {disk[p] : p \in Paths} \cup {bin[i] : i \in Ids}
\* A file is where it was put, in the trash, or removed on purpose, whatever commands
\* overlap or die: what is lost then is at most the record of the file.  It takes two
\* moves under one identifier, or a file that comes where a restore found none, to
\* lose more (movePath, trash/store.ts:104).
ContentKept == ~shared /\ ~late => 1..made \subseteq Contents \cup removed

\* The manifest and the trash agree when every command was alone and came to its
\* end: what is trashed can be restored, and every file can be found.
ManifestExact ==
  Quiet /\ ~overlap /\ deaths = 0 =>
    /\ \A i \in Ids : Cardinality(Index(i)) <= 1
    /\ \A i \in Ids : bin[i] # Nothing <=> \E k \in Index(i) : InTrash(manifest[k])

\* A bulletin stands until it is resolved or another one takes its file name, and
\* its resolution leaves the others in force (resolve, bulletins/store.ts:51).
BulletinsStand ==
  ~overlap /\ deaths = 0 => \A i \in standing \ replaced : \E t \in Titles : active[t].id = i

TrashSafe == TrashTypeOK /\ ContentKept /\ ManifestExact /\ BulletinsStand
=============================================================================
