----------------------------- MODULE HostProofs -----------------------------
(***************************************************************************)
(* Theorems about the parts of MCHost, for every value of the constants:   *)
(* the evidence files of the worktrees, the OpenCode deployment and the Pi *)
(* deployment.  A behaviour is one of a single part, so an invariant is    *)
(* proved on the steps of its part, and the other parts leave it alone.    *)
(***************************************************************************)
EXTENDS MCHost, TLAPS

-----------------------------------------------------------------------------
(* The evidence files.                                                     *)

CallRecords ==
    [op : File!Operations \cup {"none"}, at : File!Places, tree : Trees,
     mine : 0..MaxRecords, seen : SUBSET Trees]

\* A record at a path, under a temporary or a quarantine name was written.
FileTyped ==
    /\ callers \in [Callers -> CallRecords] /\ running \subseteq Callers
    /\ helper \in [Callers -> [Trees -> {"none", "waiting", "held"}]]
    /\ Primary \in present /\ present \subseteq Trees
    /\ writer \in Seq(Callers) /\ Len(writer) <= MaxRecords
    /\ path \in [Trees -> 0..Len(writer)]
    /\ temporary \subseteq 1..Len(writer) /\ kept \subseteq 1..Len(writer)
    /\ withdrawn \subseteq 1..Len(writer)
    /\ unguarded \in BOOLEAN /\ mishaps \in 0..MaxMishaps

\* One helper has the mutex of a worktree.
OneHolder ==
    \A c, d \in Callers, t \in Trees :
        helper[c][t] = "held" /\ helper[d][t] = "held" => c = d

\* A record of a live process is under its temporary name exactly while its writer is
\* about to publish it, and it is at no path but the writer's.
Publishing == {"publish", "clean", "rename"}
TempOfWriter ==
    /\ \A c \in running :
         callers[c].at \in Publishing =>
           /\ callers[c].mine \in temporary /\ writer[callers[c].mine] = c
           /\ \A t \in Trees :
                path[t] = callers[c].mine => callers[c].at = "clean" /\ t = callers[c].tree
    /\ \A i \in temporary :
         writer[i] \in running =>
           callers[writer[i]].mine = i /\ callers[writer[i]].at \in Publishing

\* The processes at work that have the mutex, and find at the path what they looked
\* at or left there.
Away == {"idle", "waiting", "leaving"}
AtWork == {c \in running : callers[c].at \notin Away}
Undisturbed ==
    {c \in running :
       /\ helper[c][callers[c].tree] = "held"
       /\ callers[c].at = "keep" =>
            /\ callers[c].op = "force" /\ path[callers[c].tree] # 0
            /\ writer[path[callers[c].tree]] \notin running
       /\ callers[c].at = "unlink" =>
            callers[c].op = "force" /\ path[callers[c].tree] \in kept
       /\ callers[c].at = "publish" \/ (callers[c].at = "write" /\ callers[c].op # "update") =>
            path[callers[c].tree] = 0
       /\ callers[c].at = "clean" => path[callers[c].tree] = callers[c].mine
       /\ callers[c].at \in {"rename", "remove"} \/ (callers[c].at = "write" /\ callers[c].op = "update") =>
            path[callers[c].tree] # 0 /\ writer[path[callers[c].tree]] = c
       /\ callers[c].at = "setup" =>
            \A t \in callers[c].seen : helper[c][t] = "held" /\ path[t] = 0}

\* What is quarantined has no live owner.
QuarantinedDead == \A i \in kept : writer[i] \notin running

\* The inductive invariant behind EvidenceSafe.
FileInv ==
    /\ FileTyped /\ OneHolder /\ TempOfWriter
    /\ ~unguarded => AtWork \subseteq Undisturbed /\ QuarantinedDead
    /\ File!BytesKept

EvidenceHolds == part = "evidence" => FileInv

\* The invariant and what EvidenceSafe says of it: a setup holds the mutex of every
\* worktree it has seen, and who is at work on one holds its mutex too.
LEMMA EvidenceMeans == EvidenceHolds => EvidenceSafe
<1> SUFFICES ASSUME FileInv PROVE File!EvidenceTypeOK /\ File!EvidenceSafe
  BY DEF EvidenceHolds, EvidenceSafe
<1>1. File!EvidenceTypeOK
  <2>1. \A c \in Callers : callers[c] \in CallRecords
    BY DEF FileInv, FileTyped
  <2> QED BY <2>1, EvidenceConstants
       DEF FileInv, FileTyped, CallRecords, File!EvidenceTypeOK, File!Ids,
           File!EvidenceAssumption
<1>2. File!SetupAlone
  <2> SUFFICES ASSUME ~unguarded, NEW c \in running, callers[c].at = "setup"
               PROVE  \A t \in callers[c].seen :
                        path[t] = 0 /\ \A d \in Callers \ {c} : ~File!Busy(d, t)
    BY DEF File!SetupAlone
  <2>0. \A t \in callers[c].seen : path[t] = 0
    BY DEF FileInv, AtWork, Away, Undisturbed
  <2> SUFFICES ASSUME NEW t \in callers[c].seen, NEW d \in Callers \ {c} PROVE ~File!Busy(d, t)
    BY <2>0
  <2>1. c \in Callers /\ t \in Trees
    BY DEF FileInv, FileTyped, CallRecords
  <2>2. helper[c][t] = "held" /\ path[t] = 0
    BY DEF FileInv, AtWork, Away, Undisturbed
  <2>3. ASSUME File!Busy(d, t) PROVE FALSE
    <3>1. helper[d][t] = "held"
      BY <2>3 DEF FileInv, AtWork, Away, Undisturbed, File!Busy
    <3> QED BY <2>1, <2>2, <3>1 DEF FileInv, OneHolder
  <2> QED BY <2>3
<1> QED BY <1>1, <1>2 DEF FileInv, File!EvidenceSafe

LEMMA NoCallTyped == File!NoCall \in CallRecords
BY EvidenceConstants DEF CallRecords, File!NoCall, File!EvidenceAssumption, File!Places

LEMMA EvidenceStarts == HostInit => EvidenceHolds
<1> SUFFICES ASSUME File!EvidenceInit PROVE FileInv
  BY DEF HostInit, PartInit, EvidenceHolds
<1>1. File!NoCall \in CallRecords
  BY NoCallTyped
<1>2. Len(writer) = 0 /\ writer \in Seq(Callers) /\ DOMAIN writer = {}
  BY DEF File!EvidenceInit
<1>3. FileTyped
  <2>1. callers \in [Callers -> CallRecords]
    BY <1>1 DEF File!EvidenceInit
  <2>2. path \in [Trees -> 0..Len(writer)] /\ temporary = {} /\ kept = {} /\ withdrawn = {}
    BY <1>2 DEF File!EvidenceInit
  <2>3. helper \in [Callers -> [Trees -> {"none", "waiting", "held"}]]
    BY DEF File!EvidenceInit
  <2>4. MaxRecords \in Nat /\ MaxMishaps \in Nat /\ Primary \in Trees
    BY EvidenceConstants DEF File!EvidenceAssumption
  <2>5. Primary \in present /\ present \subseteq Trees /\ running \subseteq Callers
    BY <2>4 DEF File!EvidenceInit
  <2>6. unguarded = FALSE /\ mishaps = 0
    BY DEF File!EvidenceInit
  <2>7. unguarded \in BOOLEAN
    BY <2>6
  <2>8. mishaps \in 0..MaxMishaps
    BY <2>4, <2>6
  <2> QED BY <1>2, <2>1, <2>2, <2>3, <2>4, <2>5, <2>7, <2>8
       DEF FileTyped
<1>4. \A c \in Callers : callers[c].at = "idle" /\ \A t \in Trees : helper[c][t] = "none"
  BY DEF File!EvidenceInit, File!NoCall
<1> QED BY <1>2, <1>3, <1>4
     DEF FileInv, OneHolder, TempOfWriter, AtWork, Away, Undisturbed, QuarantinedDead,
         Publishing, File!BytesKept, File!EvidenceInit

\* A step of one caller that leaves the records alone.
LEMMA EvidenceCall ==
    ASSUME FileInv, NEW c \in Callers, NEW call \in CallRecords,
           callers' = [callers EXCEPT ![c] = call],
           UNCHANGED <<running, path, writer, temporary, kept, withdrawn, unguarded, mishaps, present>>,
           callers[c].at \notin Publishing, call.at \notin Publishing,
           helper' \in [Callers -> [Trees -> {"none", "waiting", "held"}]],
           OneHolder',
           ~unguarded =>
             /\ \A d \in running \ {c}, t \in Trees : helper[d][t] = "held" => helper'[d][t] = "held"
             /\ c \in AtWork' => c \in Undisturbed'
    PROVE  FileInv'
<1>1. /\ callers' \in [Callers -> CallRecords] /\ running \subseteq Callers
      /\ callers'[c] = call /\ \A d \in Callers \ {c} : callers'[d] = callers[d]
  BY DEF FileInv, FileTyped
<1>2. FileTyped'
  BY <1>1 DEF FileInv, FileTyped
<1>3. TempOfWriter'
  <2>1. ASSUME NEW d \in running', callers'[d].at \in Publishing
        PROVE  /\ callers'[d].mine \in temporary' /\ writer'[callers'[d].mine] = d
               /\ \A t \in Trees :
                    path'[t] = callers'[d].mine => callers'[d].at = "clean" /\ t = callers'[d].tree
    BY <1>1, <2>1 DEF FileInv, TempOfWriter
  <2>2. ASSUME NEW i \in temporary', writer'[i] \in running'
        PROVE  callers'[writer'[i]].mine = i /\ callers'[writer'[i]].at \in Publishing
    BY <1>1, <2>2 DEF FileInv, TempOfWriter
  <2> QED BY <2>1, <2>2 DEF TempOfWriter, Publishing
<1>4. ASSUME ~unguarded, NEW d \in AtWork' PROVE d \in Undisturbed'
  <2>1. CASE d = c
    BY <1>4, <2>1
  <2>2. CASE d # c
    <3>1. d \in running /\ callers'[d] = callers[d] /\ d \in AtWork /\ d \in Undisturbed
      BY <1>1, <1>4, <2>2 DEF FileInv, AtWork
    <3>2. \A t \in Trees : helper[d][t] = "held" => helper'[d][t] = "held"
      BY <1>4, <2>2, <3>1
    <3>3. callers[d].tree \in Trees /\ callers[d].seen \subseteq Trees
      BY <1>1, <3>1 DEF FileInv, FileTyped, CallRecords
    <3> QED BY <3>1, <3>2, <3>3 DEF Undisturbed
  <2> QED BY <2>1, <2>2
<1>5. QuarantinedDead = QuarantinedDead' /\ File!BytesKept = File!BytesKept'
  BY DEF QuarantinedDead, File!BytesKept
<1> QED BY <1>2, <1>3, <1>4, <1>5 DEF FileInv

\* The same of a caller that goes on to another place.
LEMMA EvidenceGoes ==
    ASSUME FileInv, NEW c \in Callers, NEW where \in File!Places, File!Goes(c, where),
           UNCHANGED <<running, helper, present, path, writer, temporary, kept, withdrawn, unguarded, mishaps>>,
           callers[c].at \notin Publishing, where \notin Publishing,
           ~unguarded => (c \in AtWork' => c \in Undisturbed')
    PROVE  FileInv'
<1> DEFINE call == [callers[c] EXCEPT !.at = where]
<1>1. callers[c] \in CallRecords
  BY DEF FileInv, FileTyped
<1>2. call \in CallRecords /\ call.at = where
  BY <1>1 DEF CallRecords
<1>3. callers' = [callers EXCEPT ![c] = call]
  BY DEF File!Goes
<1> HIDE DEF call
<1>4. helper' \in [Callers -> [Trees -> {"none", "waiting", "held"}]] /\ OneHolder'
  BY DEF FileInv, FileTyped, OneHolder
<1> QED BY <1>2, <1>3, <1>4, EvidenceCall

\* The calls and the mutex.
LEMMA EvidenceAsks ==
    ASSUME FileInv,
           File!Ask \/ File!Enter \/ File!GiveUp \/ File!Leave
    PROVE  FileInv'
<1> USE DEF File!records, File!faults
<1>1. CASE File!Ask
  <2>1. PICK c \in Callers, op \in File!Operations, t \in present :
          /\ File!At(c, "idle")
          /\ callers' = [callers EXCEPT ![c] = [File!NoCall EXCEPT !.op = op, !.at = "waiting", !.tree = t]]
          /\ helper' = [helper EXCEPT ![c][t] = "waiting"]
          /\ UNCHANGED <<running, present, path, writer, temporary, kept, withdrawn, unguarded, mishaps>>
    BY <1>1 DEF File!Ask
  <2> DEFINE call == [File!NoCall EXCEPT !.op = op, !.at = "waiting", !.tree = t]
  <2>2. call \in CallRecords /\ call.at = "waiting"
    <3>1. t \in Trees /\ "waiting" \in File!Places
      BY DEF FileInv, FileTyped, File!Places
    <3> QED BY <3>1, NoCallTyped DEF CallRecords
  <2>3. callers' = [callers EXCEPT ![c] = call] /\ callers[c].at = "idle"
    BY <2>1 DEF File!At
  <2> HIDE DEF call
  <2>4. t \in Trees /\ helper \in [Callers -> [Trees -> {"none", "waiting", "held"}]]
    BY DEF FileInv, FileTyped
  <2>5. helper' \in [Callers -> [Trees -> {"none", "waiting", "held"}]]
    BY <2>1, <2>4
  <2>6. \A d \in Callers, u \in Trees :
          /\ helper'[d][u] = "held" => helper[d][u] = "held"
          /\ d # c => helper'[d][u] = helper[d][u]
    BY <2>1, <2>4
  <2>7. OneHolder' /\ \A d \in running \ {c}, u \in Trees : helper[d][u] = "held" => helper'[d][u] = "held"
    BY <2>6 DEF FileInv, FileTyped, OneHolder
  <2>8. c \notin AtWork' /\ callers[c].at \notin Publishing /\ call.at \notin Publishing
    BY <2>2, <2>3 DEF AtWork, Away, Publishing, FileInv, FileTyped
  <2> QED BY <2>1, <2>2, <2>3, <2>5, <2>7, <2>8, EvidenceCall
<1>3. CASE File!Enter
  <2>1. PICK c \in Callers :
          /\ File!At(c, "waiting") /\ helper[c][callers[c].tree] = "held"
          /\ File!Goes(c, IF callers[c].op = "setup" THEN "inventory" ELSE "inspect")
          /\ UNCHANGED <<running, helper, present, path, writer, temporary, kept, withdrawn, unguarded, mishaps>>
    BY <1>3 DEF File!Enter, File!Tree
  <2>2. PICK where \in {"inventory", "inspect"} : File!Goes(c, where)
    BY <2>1
  <2>3. callers' = [callers EXCEPT ![c].at = where] /\ callers[c].at = "waiting" /\ callers[c] \in CallRecords
    BY <2>1, <2>2 DEF File!Goes, File!At, FileInv, FileTyped
  <2>4. callers'[c].at = where /\ callers'[c].tree = callers[c].tree
    BY <2>3 DEF FileInv, FileTyped, CallRecords
  <2>5. c \in AtWork' => c \in Undisturbed'
    BY <2>1, <2>4 DEF AtWork, Undisturbed
  <2> QED BY EvidenceGoes, <2>1, <2>2, <2>3, <2>5 DEF File!Places, Publishing
<1>4. CASE File!GiveUp
  <2>1. PICK c \in Callers :
          /\ callers[c].at \in {"waiting", "locking"} /\ File!Goes(c, "leaving")
          /\ UNCHANGED <<running, helper, present, path, writer, temporary, kept, withdrawn, unguarded, mishaps>>
    BY <1>4 DEF File!GiveUp, File!At
  <2>2. callers'[c].at = "leaving"
    BY <2>1 DEF File!Goes, FileInv, FileTyped, CallRecords
  <2>3. c \notin AtWork'
    BY <2>2 DEF AtWork, Away
  <2> QED BY EvidenceGoes, <2>1, <2>3 DEF File!Places, Publishing
<1>5. CASE File!Leave
  <2>1. PICK c \in Callers :
          /\ File!At(c, "leaving")
          /\ helper' = [helper EXCEPT ![c] = [t \in Trees |-> "none"]]
          /\ callers' = [callers EXCEPT ![c] = File!NoCall]
          /\ UNCHANGED <<running, present, path, writer, temporary, kept, withdrawn, unguarded, mishaps>>
    BY <1>5 DEF File!Leave
  <2>2. File!NoCall \in CallRecords /\ File!NoCall.at = "idle"
    BY NoCallTyped DEF File!NoCall
  <2>3. helper' \in [Callers -> [Trees -> {"none", "waiting", "held"}]]
    BY <2>1 DEF FileInv, FileTyped
  <2>4. \A d \in Callers, u \in Trees :
          /\ helper'[d][u] = "held" => helper[d][u] = "held"
          /\ d # c => helper'[d][u] = helper[d][u]
    BY <2>1 DEF FileInv, FileTyped
  <2>5. OneHolder' /\ \A d \in running \ {c}, u \in Trees : helper[d][u] = "held" => helper'[d][u] = "held"
    BY <2>4 DEF FileInv, FileTyped, OneHolder
  <2>6. callers'[c].at = "idle" /\ callers[c].at = "leaving"
    BY <2>1, <2>2 DEF FileInv, FileTyped, File!At
  <2>7. c \notin AtWork' /\ callers[c].at \notin Publishing /\ File!NoCall.at \notin Publishing
    BY <2>2, <2>6 DEF AtWork, Away, Publishing
  <2> QED BY <2>1, <2>2, <2>3, <2>5, <2>7, EvidenceCall
<1> QED BY <1>1, <1>3, <1>4, <1>5

LEMMA EvidenceLocks ==
    ASSUME FileInv,
           File!Grant \/ File!HelperEnds \/ File!LockNext
    PROVE  FileInv'
<1> USE DEF File!records, File!faults
<1>1. ASSUME NEW c \in Callers,
             UNCHANGED <<callers, running, present, path, writer, temporary, kept, withdrawn, unguarded, mishaps>>,
             helper' \in [Callers -> [Trees -> {"none", "waiting", "held"}]], OneHolder',
             c \notin running \/ (\A t \in Trees : helper[c][t] = "held" => helper'[c][t] = "held"),
             \A d \in Callers \ {c} : helper'[d] = helper[d]
      PROVE  FileInv'
  <2>1. FileTyped'
    BY <1>1 DEF FileInv, FileTyped
  <2>2. ASSUME ~unguarded, NEW d \in AtWork' PROVE d \in Undisturbed'
    <3>1. d \in running /\ d \in Callers /\ d \in Undisturbed /\ callers[d] \in CallRecords
      BY <1>1, <2>2 DEF FileInv, FileTyped, AtWork
    <3>2. \A t \in Trees : helper[d][t] = "held" => helper'[d][t] = "held"
      BY <1>1, <3>1
    <3>3. callers[d].tree \in Trees /\ callers[d].seen \subseteq Trees
      BY <3>1 DEF CallRecords
    <3> QED BY <1>1, <3>1, <3>2, <3>3 DEF Undisturbed
  <2>3. TempOfWriter' /\ QuarantinedDead = QuarantinedDead' /\ File!BytesKept = File!BytesKept'
    BY <1>1 DEF FileInv, TempOfWriter, QuarantinedDead, File!BytesKept
  <2> QED BY <1>1, <2>1, <2>2, <2>3 DEF FileInv
<1>2. CASE File!Grant
  <2>1. PICK c \in Callers, t \in Trees :
          /\ helper[c][t] = "waiting" /\ \A d \in Callers : helper[d][t] # "held"
          /\ helper' = [helper EXCEPT ![c][t] = "held"]
          /\ UNCHANGED <<callers, running, present, path, writer, temporary, kept, withdrawn, unguarded, mishaps>>
    BY <1>2 DEF File!Grant, File!Granted, File!FreeFor, File!Holders
  <2>2. helper \in [Callers -> [Trees -> {"none", "waiting", "held"}]]
    BY DEF FileInv, FileTyped
  <2>3. helper' \in [Callers -> [Trees -> {"none", "waiting", "held"}]]
    BY <2>1, <2>2
  <2>4. \A d \in Callers, u \in Trees :
          helper'[d][u] = IF d = c /\ u = t THEN "held" ELSE helper[d][u]
    BY <2>1, <2>2
  <2>5. OneHolder'
    <3> SUFFICES ASSUME NEW d \in Callers, NEW e \in Callers, NEW u \in Trees,
                        helper'[d][u] = "held", helper'[e][u] = "held"
                 PROVE  d = e
      BY DEF OneHolder
    <3> QED BY <2>1, <2>4 DEF FileInv, OneHolder
  <2>6. /\ \A u \in Trees : helper[c][u] = "held" => helper'[c][u] = "held"
        /\ \A d \in Callers \ {c} : helper'[d] = helper[d]
    BY <2>1, <2>2, <2>4
  <2> QED BY <1>1, <2>1, <2>3, <2>5, <2>6
<1>3. CASE File!HelperEnds
  <2>1. PICK c \in Callers :
          /\ c \notin running
          /\ helper' = [helper EXCEPT ![c] = [t \in Trees |-> "none"]]
          /\ UNCHANGED <<callers, running, present, path, writer, temporary, kept, withdrawn, unguarded, mishaps>>
    BY <1>3 DEF File!HelperEnds
  <2>2. helper \in [Callers -> [Trees -> {"none", "waiting", "held"}]]
    BY DEF FileInv, FileTyped
  <2>3. helper' \in [Callers -> [Trees -> {"none", "waiting", "held"}]]
    BY <2>1, <2>2
  <2>4. \A d \in Callers, u \in Trees : helper'[d][u] = "held" => helper[d][u] = "held"
    BY <2>1, <2>2
  <2>5. OneHolder'
    BY <2>4 DEF FileInv, OneHolder
  <2> QED BY <1>1, <2>1, <2>2, <2>3, <2>5
<1>4. CASE File!LockNext
  <2>0. PICK c \in Callers :
          \E t \in File!Needs(c) :
            /\ helper[c][t] = "none" /\ helper' = [helper EXCEPT ![c][t] = "waiting"]
            /\ UNCHANGED <<callers, running, present, path, writer, temporary, kept, withdrawn, unguarded, mishaps>>
    BY <1>4 DEF File!LockNext
  <2>1. PICK t \in callers[c].seen :
          /\ helper[c][t] = "none" /\ helper' = [helper EXCEPT ![c][t] = "waiting"]
          /\ UNCHANGED <<callers, running, present, path, writer, temporary, kept, withdrawn, unguarded, mishaps>>
    BY <2>0 DEF File!Needs, File!AllMutexes
  <2>2. helper \in [Callers -> [Trees -> {"none", "waiting", "held"}]] /\ t \in Trees
    BY <2>1 DEF FileInv, FileTyped, CallRecords
  <2>3. helper' \in [Callers -> [Trees -> {"none", "waiting", "held"}]]
    BY <2>1, <2>2
  <2>4. \A d \in Callers, u \in Trees :
          helper'[d][u] = IF d = c /\ u = t THEN "waiting" ELSE helper[d][u]
    BY <2>1, <2>2
  <2>5. OneHolder'
    BY <2>4 DEF FileInv, OneHolder
  <2>6. /\ \A u \in Trees : helper[c][u] = "held" => helper'[c][u] = "held"
        /\ \A d \in Callers \ {c} : helper'[d] = helper[d]
    BY <2>1, <2>2, <2>4
  <2> QED BY <1>1, <2>1, <2>3, <2>5, <2>6
<1> QED BY <1>2, <1>3, <1>4

\* A process dies, a helper is killed, and people add or remove a worktree.
LEMMA EvidenceMishaps ==
    ASSUME FileInv,
           File!Crash \/ File!KillHelper \/ File!EditTrees
    PROVE  FileInv'
<1> USE DEF File!records, File!faults
<1>1. CASE File!Crash
  <2>1. PICK c \in running :
          /\ running' = running \ {c} /\ callers' = [callers EXCEPT ![c] = File!NoCall]
          /\ UNCHANGED <<helper, present, path, writer, temporary, kept, withdrawn, unguarded, mishaps>>
    BY <1>1 DEF File!Crash
  <2>2. /\ callers' \in [Callers -> CallRecords] /\ running' \subseteq Callers
        /\ \A d \in running' : callers'[d] = callers[d] /\ d \in running
    BY <2>1, NoCallTyped DEF FileInv, FileTyped
  <2>3. FileTyped' /\ OneHolder'
    BY <2>1, <2>2 DEF FileInv, FileTyped, OneHolder
  <2>4. TempOfWriter'
    <3>1. ASSUME NEW d \in running', callers'[d].at \in Publishing
          PROVE  /\ callers'[d].mine \in temporary' /\ writer'[callers'[d].mine] = d
                 /\ \A t \in Trees :
                      path'[t] = callers'[d].mine => callers'[d].at = "clean" /\ t = callers'[d].tree
      BY <2>1, <2>2, <3>1 DEF FileInv, TempOfWriter
    <3>2. ASSUME NEW i \in temporary', writer'[i] \in running'
          PROVE  callers'[writer'[i]].mine = i /\ callers'[writer'[i]].at \in Publishing
      BY <2>1, <2>2, <3>2 DEF FileInv, TempOfWriter
    <3> QED BY <3>1, <3>2 DEF TempOfWriter, Publishing
  <2>5. ASSUME ~unguarded, NEW d \in AtWork' PROVE d \in Undisturbed'
    <3>1. d \in running' /\ d \in running /\ callers'[d] = callers[d] /\ d \in Undisturbed
      BY <2>2, <2>5 DEF FileInv, AtWork
    <3> QED BY <2>1, <3>1 DEF Undisturbed
  <2>6. /\ QuarantinedDead => QuarantinedDead'
        /\ File!BytesKept = File!BytesKept'
    BY <2>1 DEF QuarantinedDead, File!BytesKept
  <2> QED BY <2>1, <2>3, <2>4, <2>5, <2>6 DEF FileInv
<1>2. CASE File!KillHelper
  <2>1. PICK c \in running, t \in Trees :
          /\ mishaps < MaxMishaps /\ mishaps' = mishaps + 1 /\ unguarded' = TRUE
          /\ helper' = [helper EXCEPT ![c][t] = "none"]
          /\ UNCHANGED <<callers, running, present, path, writer, temporary, kept, withdrawn>>
    BY <1>2 DEF File!KillHelper
  <2>2. helper \in [Callers -> [Trees -> {"none", "waiting", "held"}]]
    BY DEF FileInv, FileTyped
  <2>3. helper' \in [Callers -> [Trees -> {"none", "waiting", "held"}]]
    BY <2>1, <2>2
  <2>4. \A d \in Callers, u \in Trees : helper'[d][u] = "held" => helper[d][u] = "held"
    BY <2>1, <2>2
  <2>5. OneHolder'
    BY <2>4 DEF FileInv, OneHolder
  <2>6. MaxMishaps \in Nat /\ mishaps \in 0..MaxMishaps
    BY EvidenceConstants DEF File!EvidenceAssumption, FileInv, FileTyped
  <2>7. mishaps' \in 0..MaxMishaps /\ unguarded' \in BOOLEAN
    BY <2>1, <2>6
  <2>8. FileTyped'
    BY <2>1, <2>3, <2>7 DEF FileInv, FileTyped
  <2>9. TempOfWriter'
    BY <2>1 DEF FileInv, TempOfWriter
  <2> QED BY <2>1, <2>5, <2>8, <2>9 DEF FileInv, File!BytesKept
<1>3. CASE File!EditTrees
  <2>1. /\ mishaps < MaxMishaps /\ mishaps' = mishaps + 1
        /\ UNCHANGED <<callers, running, helper, path, writer, temporary, kept, withdrawn, unguarded>>
    BY <1>3 DEF File!EditTrees
  <2>2. Primary \in present' /\ present' \subseteq Trees
    BY <1>3 DEF File!EditTrees, FileInv, FileTyped
  <2>3. MaxMishaps \in Nat /\ mishaps \in 0..MaxMishaps
    BY EvidenceConstants DEF File!EvidenceAssumption, FileInv, FileTyped
  <2>4. mishaps' \in 0..MaxMishaps
    BY <2>1, <2>3
  <2>5. FileTyped'
    BY <2>1, <2>2, <2>4 DEF FileInv, FileTyped
  <2> QED BY <2>1, <2>5
       DEF FileInv, OneHolder, TempOfWriter, AtWork, Undisturbed, QuarantinedDead,
           File!BytesKept
<1> QED BY <1>1, <1>2, <1>3

\* The steps of an operation that only look.
LEMMA EvidenceLooks ==
    ASSUME FileInv,
           \/ File!Inspect \/ File!Fails \/ File!Inventory
           \/ File!BeginSetup \/ File!EndSetup
    PROVE  FileInv'
<1> USE DEF File!records, File!faults
<1>1. CASE File!Inspect
  <2>1. PICK c \in Callers :
          /\ File!At(c, "inspect")
          /\ File!Goes(c, CASE callers[c].op \in {"acquire", "force"} /\ File!Inspection(callers[c].tree) = "absent" /\ callers[c].tree \in present -> "write"
                 [] callers[c].op = "force" /\ File!MayTake(File!Inspection(callers[c].tree)) -> "keep"
                 [] callers[c].op = "update" /\ path[callers[c].tree] # 0 /\ writer[path[callers[c].tree]] = c -> "write"
                 [] callers[c].op = "release" /\ path[callers[c].tree] # 0 /\ writer[path[callers[c].tree]] = c -> "remove"
                 [] OTHER -> "leaving")
          /\ UNCHANGED <<running, helper, present, path, writer, temporary, kept, withdrawn, unguarded, mishaps>>
    BY <1>1 DEF File!Inspect
  <2> DEFINE t == callers[c].tree
  <2>2. callers[c] \in CallRecords /\ t \in Trees /\ callers[c].at = "inspect" /\ c \in running
    BY <2>1 DEF FileInv, FileTyped, CallRecords, File!At
  <2>3. \/ /\ callers[c].op \in {"acquire", "force"} /\ File!Inspection(t) = "absent"
           /\ File!Goes(c, "write")
        \/ /\ callers[c].op = "force" /\ File!Inspection(t) \in {"malformed", "stale"}
           /\ File!Goes(c, "keep")
        \/ /\ callers[c].op = "update" /\ path[t] # 0 /\ writer[path[t]] = c
           /\ File!Goes(c, "write")
        \/ path[t] # 0 /\ writer[path[t]] = c /\ File!Goes(c, "remove")
        \/ File!Goes(c, "leaving")
    BY <2>1 DEF File!MayTake, File!Takeable
  <2>4. ASSUME NEW where \in File!Places, File!Goes(c, where)
        PROVE  /\ callers'[c].at = where /\ callers'[c].tree = t /\ callers'[c].op = callers[c].op
    BY <2>2, <2>4 DEF File!Goes, FileInv, FileTyped, CallRecords
  <2>5. ~unguarded => helper[c][t] = "held"
    BY <2>2 DEF FileInv, AtWork, Away, Undisturbed
  <2>6. ASSUME ~unguarded, File!Inspection(t) \in {"malformed", "stale"}
        PROVE  path[t] # 0 /\ writer[path[t]] \notin running
    <3>1. path[t] # 0 /\ (writer[path[t]] \notin running \/ path[t] \in temporary \cup kept)
      BY <2>6 DEF File!Inspection, File!Single
    <3>2. path[t] \in kept => writer[path[t]] \notin running
      BY <2>6 DEF FileInv, QuarantinedDead
    <3>3. ASSUME path[t] \in temporary, writer[path[t]] \in running PROVE FALSE
      <4>1. PICK d \in running : d = writer[path[t]]
        BY <3>3
      <4>2. callers[d].mine = path[t] /\ callers[d].at \in Publishing
        BY <3>3, <4>1 DEF FileInv, TempOfWriter
      <4>3. callers[d].at = "clean" /\ callers[d].tree = t
        BY <2>2, <4>2 DEF FileInv, TempOfWriter
      <4>4. helper[d][t] = "held"
        BY <2>6, <4>3 DEF FileInv, AtWork, Away, Undisturbed
      <4> QED BY <2>2, <2>5, <2>6, <4>3, <4>4 DEF FileInv, FileTyped, OneHolder
    <3> QED BY <3>1, <3>2, <3>3
  <2>7. File!Inspection(t) = "absent" => path[t] = 0
    BY DEF File!Inspection
  <2> HIDE DEF t
  <2>8. ASSUME NEW where \in {"write", "keep", "remove", "leaving"}, File!Goes(c, where),
               ~unguarded /\ where # "leaving" => c \in Undisturbed'
        PROVE  FileInv'
    <3>1. where = "leaving" => c \notin AtWork'
      BY <2>4, <2>8 DEF AtWork, Away, File!Places
    <3> QED BY <2>1, <2>2, <2>8, <3>1, EvidenceGoes DEF File!Places, Publishing
  <2>9. CASE File!Goes(c, "leaving")
    BY <2>8, <2>9
  <2>10. CASE /\ callers[c].op \in {"acquire", "force"} /\ File!Inspection(t) = "absent"
              /\ File!Goes(c, "write")
    <3>1. ~unguarded => c \in Undisturbed'
      BY <2>1, <2>2, <2>4, <2>5, <2>7, <2>10 DEF Undisturbed, File!Places
    <3> QED BY <2>8, <2>10, <3>1
  <2>11. CASE /\ callers[c].op = "force" /\ File!Inspection(t) \in {"malformed", "stale"}
              /\ File!Goes(c, "keep")
    <3>1. ~unguarded => c \in Undisturbed'
      BY <2>1, <2>2, <2>4, <2>5, <2>6, <2>11 DEF Undisturbed, File!Places
    <3> QED BY <2>8, <2>11, <3>1
  <2>12. CASE /\ callers[c].op = "update" /\ path[t] # 0 /\ writer[path[t]] = c
              /\ File!Goes(c, "write")
    <3>1. ~unguarded => c \in Undisturbed'
      BY <2>1, <2>2, <2>4, <2>5, <2>12 DEF Undisturbed, File!Places
    <3> QED BY <2>8, <2>12, <3>1
  <2>13. CASE path[t] # 0 /\ writer[path[t]] = c /\ File!Goes(c, "remove")
    <3>1. ~unguarded => c \in Undisturbed'
      BY <2>1, <2>2, <2>4, <2>5, <2>13 DEF Undisturbed, File!Places
    <3> QED BY <2>8, <2>13, <3>1
  <2> QED BY <2>3, <2>9, <2>10, <2>11, <2>12, <2>13
<1>2. CASE File!Fails
  <2>1. PICK c \in Callers :
          /\ callers[c].at \in {"keep", "remove"} /\ File!Goes(c, "leaving")
          /\ UNCHANGED <<running, helper, present, path, writer, temporary, kept, withdrawn, unguarded, mishaps>>
    BY <1>2 DEF File!Fails, File!At
  <2>2. callers'[c].at = "leaving"
    BY <2>1 DEF File!Goes, FileInv, FileTyped, CallRecords
  <2>3. c \notin AtWork'
    BY <2>2 DEF AtWork, Away
  <2> QED BY EvidenceGoes, <2>1, <2>3 DEF File!Places, Publishing
<1>3. CASE File!Inventory
  <2>1. PICK c \in Callers :
          /\ File!At(c, "inventory")
          /\ callers' = [callers EXCEPT ![c].seen = present, ![c].at = "locking"]
          /\ UNCHANGED <<running, helper, present, path, writer, temporary, kept, withdrawn, unguarded, mishaps>>
    BY <1>3 DEF File!Inventory
  <2> DEFINE call == [callers[c] EXCEPT !.seen = present, !.at = "locking"]
  <2>2. callers[c] \in CallRecords /\ present \in SUBSET Trees /\ c \in running /\ callers[c].at = "inventory"
    BY <2>1 DEF FileInv, FileTyped, File!At
  <2>3. call \in CallRecords /\ call.at = "locking" /\ call.tree = callers[c].tree
    BY <2>2 DEF CallRecords, File!Places
  <2>4. callers' = [callers EXCEPT ![c] = call]
    BY <2>1
  <2> HIDE DEF call
  <2>5. callers'[c] = call
    BY <2>4 DEF FileInv, FileTyped
  <2>6. ~unguarded => c \in Undisturbed'
    BY <2>1, <2>2, <2>3, <2>5 DEF FileInv, AtWork, Away, Undisturbed
  <2>7. helper' \in [Callers -> [Trees -> {"none", "waiting", "held"}]] /\ OneHolder'
    BY <2>1 DEF FileInv, FileTyped, OneHolder
  <2> QED BY <2>1, <2>2, <2>3, <2>4, <2>6, <2>7, EvidenceCall DEF Publishing
<1>4. CASE File!BeginSetup
  <2>1. PICK c \in Callers :
          /\ File!At(c, "locking") /\ \A t \in File!Needs(c) : helper[c][t] = "held"
          /\ File!Goes(c, IF File!Vacant(c) THEN "setup" ELSE "leaving")
          /\ UNCHANGED <<running, helper, present, path, writer, temporary, kept, withdrawn, unguarded, mishaps>>
    BY <1>4 DEF File!BeginSetup
  <2>2. callers[c] \in CallRecords /\ callers[c].at = "locking" /\ c \in running
    BY <2>1 DEF FileInv, FileTyped, File!At
  <2>3. ASSUME NEW where \in File!Places, File!Goes(c, where)
        PROVE  /\ callers'[c].at = where /\ callers'[c].tree = callers[c].tree
               /\ callers'[c].seen = callers[c].seen
    BY <2>2, <2>3 DEF File!Goes, FileInv, FileTyped, CallRecords
  <2>4. CASE File!Vacant(c)
    <3>1. File!Goes(c, "setup") /\ "setup" \in File!Places
      BY <2>1, <2>4 DEF File!Places
    <3>2. \A t \in callers[c].seen : helper[c][t] = "held" /\ path[t] = 0
      BY <2>1, <2>4 DEF File!Vacant, File!Needs, File!AllMutexes
    <3>3. ~unguarded => helper[c][callers[c].tree] = "held"
      BY <2>2 DEF FileInv, AtWork, Away, Undisturbed
    <3>4. callers'[c].at = "setup" /\ callers'[c].tree = callers[c].tree /\ callers'[c].seen = callers[c].seen
      BY <2>3, <3>1
    <3>5. ~unguarded => c \in Undisturbed'
      BY <2>1, <2>2, <3>2, <3>3, <3>4 DEF Undisturbed
    <3> QED BY <2>1, <2>2, <3>1, <3>5, EvidenceGoes DEF Publishing
  <2>5. CASE ~File!Vacant(c)
    <3>1. File!Goes(c, "leaving") /\ "leaving" \in File!Places
      BY <2>1, <2>5 DEF File!Places
    <3>2. callers'[c].at = "leaving"
      BY <2>3, <3>1
    <3>3. c \notin AtWork'
      BY <3>2 DEF AtWork, Away
    <3> QED BY <2>1, <2>2, <3>1, <3>3, EvidenceGoes DEF Publishing
  <2> QED BY <2>4, <2>5
<1>5. CASE File!EndSetup
  <2>1. PICK c \in Callers :
          /\ File!At(c, "setup") /\ File!Goes(c, "leaving")
          /\ UNCHANGED <<running, helper, present, path, writer, temporary, kept, withdrawn, unguarded, mishaps>>
    BY <1>5 DEF File!EndSetup
  <2>2. callers'[c].at = "leaving" /\ callers[c].at = "setup"
    BY <2>1 DEF File!Goes, File!At, FileInv, FileTyped, CallRecords
  <2>3. c \notin AtWork'
    BY <2>2 DEF AtWork, Away
  <2> QED BY EvidenceGoes, <2>1, <2>2, <2>3 DEF File!Places, Publishing
<1> QED BY <1>1, <1>2, <1>3, <1>4, <1>5

\* A write of one process, at its own worktree: the mutex keeps the others' paths.
LEMMA OthersUndisturbed ==
    ASSUME FileInv, ~unguarded, NEW c \in AtWork,
           UNCHANGED <<running, helper>>, kept \subseteq kept',
           \A d \in Callers \ {c} : callers'[d] = callers[d],
           \A u \in Trees : path'[u] # path[u] => u = callers[c].tree,
           \A i \in 1..Len(writer) : writer'[i] = writer[i]
    PROVE  \A d \in AtWork' : d # c => d \in Undisturbed'
<1> SUFFICES ASSUME NEW d \in AtWork', d # c PROVE d \in Undisturbed'
  OBVIOUS
<1>1. c \in Callers /\ d \in Callers /\ callers'[d] = callers[d] /\ d \in running
  BY DEF FileInv, FileTyped, AtWork
<1>2. callers[d] \in CallRecords /\ callers[c] \in CallRecords
  BY <1>1 DEF FileInv, FileTyped
<1>3. callers[d].tree \in Trees /\ callers[d].seen \subseteq Trees /\ callers[c].tree \in Trees
  BY <1>2 DEF CallRecords
<1>4. d \in AtWork
  BY <1>1 DEF AtWork
<1>5. d \in Undisturbed /\ helper[c][callers[c].tree] = "held"
  BY <1>4 DEF FileInv, Undisturbed
<1>6. \A u \in Trees : helper[d][u] = "held" => path'[u] = path[u]
  BY <1>1, <1>3, <1>5 DEF FileInv, OneHolder
<1>7. helper[d][callers[d].tree] = "held" /\ path'[callers[d].tree] = path[callers[d].tree]
  BY <1>3, <1>5, <1>6 DEF Undisturbed
<1>8. path[callers[d].tree] # 0 => writer'[path[callers[d].tree]] = writer[path[callers[d].tree]]
  <2>1. path[callers[d].tree] \in 0..Len(writer) /\ Len(writer) \in Nat
    BY <1>3 DEF FileInv, FileTyped
  <2> QED BY <2>1
<1>9. callers[d].at = "setup" => \A u \in callers[d].seen : helper[d][u] = "held" /\ path'[u] = 0
  BY <1>3, <1>5, <1>6 DEF Undisturbed
<1> QED BY <1>1, <1>5, <1>7, <1>8, <1>9 DEF Undisturbed

\* Who the writer of a record is, and that a record is not its neighbour's.
LEMMA EvidenceShape ==
    ASSUME FileInv, NEW c \in running
    PROVE  /\ c \in Callers /\ callers[c] \in CallRecords /\ callers[c].tree \in Trees
           /\ path[callers[c].tree] \in 0..Len(writer) /\ Len(writer) \in Nat
           /\ DOMAIN writer = 1..Len(writer) /\ MaxRecords \in Nat
BY EvidenceConstants DEF FileInv, FileTyped, CallRecords, File!EvidenceAssumption

\* What the quarantine takes has no live owner, and stays under its other name.
LEMMA EvidenceQuarantine ==
    ASSUME FileInv, File!QuarantineLink \/ File!QuarantineUnlink
    PROVE  FileInv'
<1> USE DEF File!faults
<1>1. CASE File!QuarantineLink
  <2>1. PICK c \in Callers :
          /\ File!At(c, "keep") /\ path[callers[c].tree] # 0
          /\ kept' = kept \cup {path[callers[c].tree]} /\ File!Goes(c, "unlink")
          /\ UNCHANGED <<running, helper, present, path, writer, temporary, withdrawn, unguarded, mishaps>>
    BY <1>1 DEF File!QuarantineLink, File!Keeps, File!LinkFirst, File!Tree
  <2>2. c \in running /\ callers[c].at = "keep"
    BY <2>1 DEF File!At
  <2>3. /\ callers[c] \in CallRecords /\ callers[c].tree \in Trees
        /\ path[callers[c].tree] \in 0..Len(writer) /\ Len(writer) \in Nat
    BY <2>2, EvidenceShape
  <2>4. /\ callers' = [callers EXCEPT ![c] = [callers[c] EXCEPT !.at = "unlink"]]
        /\ [callers[c] EXCEPT !.at = "unlink"] \in CallRecords
    BY <2>1, <2>3 DEF File!Goes, CallRecords, File!Places
  <2>5. /\ callers' \in [Callers -> CallRecords] /\ \A d \in Callers \ {c} : callers'[d] = callers[d]
        /\ callers'[c] = [callers[c] EXCEPT !.at = "unlink"]
    BY <2>4 DEF FileInv, FileTyped
  <2>6. kept' \subseteq 1..Len(writer)
    <3>1. path[callers[c].tree] \in 1..Len(writer)
      BY <2>1, <2>3
    <3> QED BY <2>1, <3>1 DEF FileInv, FileTyped
  <2>7. FileTyped'
    BY <2>1, <2>5, <2>6 DEF FileInv, FileTyped
  <2>8. OneHolder'
    BY <2>1 DEF FileInv, OneHolder
  <2>9. callers'[c].at = "unlink" /\ callers'[c].tree = callers[c].tree /\ callers'[c].op = callers[c].op
    BY <2>3, <2>5 DEF CallRecords
  <2>10. TempOfWriter'
    <3>1. ASSUME NEW d \in running', callers'[d].at \in Publishing
          PROVE  /\ callers'[d].mine \in temporary' /\ writer'[callers'[d].mine] = d
                 /\ \A t \in Trees :
                      path'[t] = callers'[d].mine => callers'[d].at = "clean" /\ t = callers'[d].tree
      <4>1. d # c /\ d \in running /\ callers'[d] = callers[d]
        BY <2>1, <2>5, <2>9, <3>1 DEF Publishing, FileInv, FileTyped
      <4> QED BY <2>1, <3>1, <4>1 DEF FileInv, TempOfWriter
    <3>2. ASSUME NEW i \in temporary', writer'[i] \in running'
          PROVE  callers'[writer'[i]].mine = i /\ callers'[writer'[i]].at \in Publishing
      <4>1. callers[writer[i]].mine = i /\ callers[writer[i]].at \in Publishing /\ writer[i] \in Callers
        BY <2>1, <3>2 DEF FileInv, FileTyped, TempOfWriter
      <4> QED BY <2>1, <2>2, <2>5, <4>1 DEF Publishing
    <3> QED BY <3>1, <3>2 DEF TempOfWriter, Publishing
  <2>11. ASSUME ~unguarded PROVE AtWork' \subseteq Undisturbed' /\ QuarantinedDead'
    <3>1. c \in AtWork
      BY <2>2 DEF AtWork, Away
    <3>2. c \in Undisturbed
      BY <2>11, <3>1 DEF FileInv
    <3>3. c \in Undisturbed'
      BY <2>1, <2>2, <2>9, <3>2 DEF Undisturbed
    <3>4. \A d \in AtWork' : d # c => d \in Undisturbed'
      BY <2>1, <2>5, <2>11, <3>1, OthersUndisturbed
    <3>5. writer[path[callers[c].tree]] \notin running
      BY <2>2, <3>2 DEF Undisturbed
    <3>6. QuarantinedDead'
      BY <2>1, <2>11, <3>5 DEF FileInv, QuarantinedDead
    <3> QED BY <3>3, <3>4, <3>6
  <2>12. File!BytesKept'
    BY <2>1 DEF FileInv, File!BytesKept
  <2> QED BY <2>1, <2>7, <2>8, <2>10, <2>11, <2>12 DEF FileInv
<1>2. CASE File!QuarantineUnlink
  <2>1. PICK c \in Callers :
          /\ File!At(c, "unlink") /\ path' = [path EXCEPT ![callers[c].tree] = 0]
          /\ File!Goes(c, "write")
          /\ UNCHANGED <<running, helper, present, writer, temporary, kept, withdrawn, unguarded, mishaps>>
    BY <1>2 DEF File!QuarantineUnlink, File!Tree
  <2>2. c \in running /\ callers[c].at = "unlink"
    BY <2>1 DEF File!At
  <2>3. /\ callers[c] \in CallRecords /\ callers[c].tree \in Trees
        /\ path[callers[c].tree] \in 0..Len(writer) /\ Len(writer) \in Nat
    BY <2>2, EvidenceShape
  <2>4. /\ callers' = [callers EXCEPT ![c] = [callers[c] EXCEPT !.at = "write"]]
        /\ [callers[c] EXCEPT !.at = "write"] \in CallRecords
    BY <2>1, <2>3 DEF File!Goes, CallRecords, File!Places
  <2>5. /\ callers' \in [Callers -> CallRecords] /\ \A d \in Callers \ {c} : callers'[d] = callers[d]
        /\ callers'[c] = [callers[c] EXCEPT !.at = "write"]
    BY <2>4 DEF FileInv, FileTyped
  <2>6. /\ path' \in [Trees -> 0..Len(writer)]
        /\ \A u \in Trees : path'[u] = IF u = callers[c].tree THEN 0 ELSE path[u]
    BY <2>1, <2>3 DEF FileInv, FileTyped
  <2>7. FileTyped'
    BY <2>1, <2>5, <2>6 DEF FileInv, FileTyped
  <2>8. OneHolder'
    BY <2>1 DEF FileInv, OneHolder
  <2>9. callers'[c].at = "write" /\ callers'[c].tree = callers[c].tree /\ callers'[c].op = callers[c].op
    BY <2>3, <2>5 DEF CallRecords
  <2>10. TempOfWriter'
    <3>1. ASSUME NEW d \in running', callers'[d].at \in Publishing
          PROVE  /\ callers'[d].mine \in temporary' /\ writer'[callers'[d].mine] = d
                 /\ \A t \in Trees :
                      path'[t] = callers'[d].mine => callers'[d].at = "clean" /\ t = callers'[d].tree
      <4>1. d # c /\ d \in running /\ callers'[d] = callers[d]
        BY <2>1, <2>5, <2>9, <3>1 DEF Publishing, FileInv, FileTyped
      <4>2. callers[d].mine \in temporary /\ temporary \subseteq 1..Len(writer)
        BY <3>1, <4>1 DEF FileInv, FileTyped, TempOfWriter
      <4>3. callers[d].mine # 0
        BY <2>3, <4>2
      <4> QED BY <2>1, <2>6, <3>1, <4>1, <4>3 DEF FileInv, TempOfWriter
    <3>2. ASSUME NEW i \in temporary', writer'[i] \in running'
          PROVE  callers'[writer'[i]].mine = i /\ callers'[writer'[i]].at \in Publishing
      <4>1. callers[writer[i]].mine = i /\ callers[writer[i]].at \in Publishing /\ writer[i] \in Callers
        BY <2>1, <3>2 DEF FileInv, FileTyped, TempOfWriter
      <4> QED BY <2>1, <2>2, <2>5, <4>1 DEF Publishing
    <3> QED BY <3>1, <3>2 DEF TempOfWriter, Publishing
  <2>11. ASSUME ~unguarded PROVE AtWork' \subseteq Undisturbed' /\ QuarantinedDead' /\ path[callers[c].tree] \in kept
    <3>1. c \in AtWork
      BY <2>2 DEF AtWork, Away
    <3>2. c \in Undisturbed
      BY <2>11, <3>1 DEF FileInv
    <3>3. callers[c].op = "force" /\ path[callers[c].tree] \in kept /\ helper[c][callers[c].tree] = "held"
      BY <2>2, <3>2 DEF Undisturbed
    <3>4. c \in Undisturbed'
      BY <2>1, <2>2, <2>3, <2>6, <2>9, <3>3 DEF Undisturbed
    <3>5. \A d \in AtWork' : d # c => d \in Undisturbed'
      BY <2>1, <2>5, <2>6, <2>11, <3>1, OthersUndisturbed
    <3>6. QuarantinedDead'
      BY <2>1, <2>11 DEF FileInv, QuarantinedDead
    <3> QED BY <3>3, <3>4, <3>5, <3>6
  <2>12. File!BytesKept'
    BY <2>1, <2>3, <2>6, <2>11 DEF FileInv, File!BytesKept
  <2> QED BY <2>1, <2>7, <2>8, <2>10, <2>11, <2>12 DEF FileInv
<1> QED BY <1>1, <1>2

\* A record is written under its temporary name.
LEMMA EvidenceWrites ==
    ASSUME FileInv, File!WriteTemporary
    PROVE  FileInv'
<1>1. PICK c \in Callers :
        /\ File!At(c, "write") /\ Len(writer) < MaxRecords
        /\ writer' = Append(writer, c)
        /\ temporary' = temporary \cup {Len(writer')}
        /\ callers' = [callers EXCEPT ![c].mine = Len(writer'),
                                      ![c].at = IF callers[c].op = "update" THEN "rename" ELSE "publish"]
        /\ UNCHANGED <<running, helper, present, path, kept, withdrawn, unguarded, mishaps>>
  BY DEF File!WriteTemporary, File!faults
<1>2. c \in running /\ callers[c].at = "write"
  BY <1>1 DEF File!At
<1>3. /\ callers[c] \in CallRecords /\ callers[c].tree \in Trees
      /\ path[callers[c].tree] \in 0..Len(writer) /\ Len(writer) \in Nat /\ MaxRecords \in Nat
  BY <1>2, EvidenceShape
<1> DEFINE fresh == Len(writer) + 1
           where == IF callers[c].op = "update" THEN "rename" ELSE "publish"
<1>4. /\ Len(writer') = fresh /\ writer' \in Seq(Callers) /\ fresh <= MaxRecords /\ fresh \in Nat
      /\ writer'[fresh] = c /\ \A i \in 1..Len(writer) : writer'[i] = writer[i]
      /\ DOMAIN writer = 1..Len(writer) /\ DOMAIN writer' = 1..fresh
  BY <1>1, <1>3 DEF FileInv, FileTyped
<1>5. where \in {"rename", "publish"} /\ where \in File!Places /\ where \in Publishing
  BY DEF File!Places, Publishing
<1>6. callers' = [callers EXCEPT ![c] = [callers[c] EXCEPT !.mine = fresh, !.at = where]]
  BY <1>1, <1>4
<1> HIDE DEF where
<1>7. [callers[c] EXCEPT !.mine = fresh, !.at = where] \in CallRecords
  <2>1. fresh \in 0..MaxRecords
    BY <1>3, <1>4
  <2> HIDE DEF fresh
  <2> QED BY <1>3, <1>5, <2>1 DEF CallRecords
<1>8. /\ callers' \in [Callers -> CallRecords] /\ \A d \in Callers \ {c} : callers'[d] = callers[d]
      /\ callers'[c] = [callers[c] EXCEPT !.mine = fresh, !.at = where]
  BY <1>6, <1>7 DEF FileInv, FileTyped
<1>9. /\ callers'[c].at = where /\ callers'[c].mine = fresh
      /\ callers'[c].tree = callers[c].tree /\ callers'[c].op = callers[c].op
  BY <1>3, <1>8 DEF CallRecords
<1>10. temporary' = temporary \cup {fresh} /\ 1..Len(writer) \subseteq 1..Len(writer')
       /\ 0..Len(writer) \subseteq 0..Len(writer') /\ fresh \in 1..Len(writer')
  BY <1>1, <1>3, <1>4
<1>11. FileTyped'
  <2>1. path' \in [Trees -> 0..Len(writer')]
    BY <1>1, <1>10 DEF FileInv, FileTyped
  <2>2. temporary' \subseteq 1..Len(writer') /\ kept' \subseteq 1..Len(writer') /\ withdrawn' \subseteq 1..Len(writer')
    BY <1>1, <1>10 DEF FileInv, FileTyped
  <2>3. Len(writer') <= MaxRecords
    BY <1>4
  <2> QED BY <1>1, <1>4, <1>8, <2>1, <2>2, <2>3 DEF FileInv, FileTyped
<1>12. OneHolder'
  BY <1>1 DEF FileInv, OneHolder
<1>13. temporary \subseteq 1..Len(writer) /\ kept \subseteq 1..Len(writer) /\ \A t \in Trees : path[t] \in 0..Len(writer)
  BY DEF FileInv, FileTyped
<1>14. TempOfWriter'
  <2>1. ASSUME NEW d \in running', callers'[d].at \in Publishing
        PROVE  /\ callers'[d].mine \in temporary' /\ writer'[callers'[d].mine] = d
               /\ \A t \in Trees :
                    path'[t] = callers'[d].mine => callers'[d].at = "clean" /\ t = callers'[d].tree
    <3>1. CASE d = c
      <4>1. \A t \in Trees : path'[t] # fresh
        BY <1>1, <1>3, <1>13
      <4> QED BY <1>4, <1>9, <1>10, <3>1, <4>1
    <3>2. CASE d # c
      <4>1. d \in running /\ callers'[d] = callers[d]
        BY <1>1, <1>8, <3>2 DEF FileInv, FileTyped
      <4>2. callers[d].mine \in temporary /\ writer[callers[d].mine] = d
        BY <2>1, <4>1 DEF FileInv, TempOfWriter
      <4>3. writer'[callers[d].mine] = d
        BY <1>4, <1>13, <4>2
      <4>4. \A t \in Trees : path[t] = callers[d].mine => callers[d].at = "clean" /\ t = callers[d].tree
        BY <2>1, <4>1 DEF FileInv, TempOfWriter
      <4> QED BY <1>1, <1>10, <4>1, <4>2, <4>3, <4>4
    <3> QED BY <3>1, <3>2
  <2>2. ASSUME NEW i \in temporary', writer'[i] \in running'
        PROVE  callers'[writer'[i]].mine = i /\ callers'[writer'[i]].at \in Publishing
    <3>1. CASE i = fresh
      BY <1>4, <1>5, <1>9, <3>1
    <3>2. CASE i # fresh
      <4>1. i \in temporary /\ writer'[i] = writer[i] /\ writer[i] \in running
        BY <1>1, <1>4, <1>10, <1>13, <2>2, <3>2
      <4>2. callers[writer[i]].mine = i /\ callers[writer[i]].at \in Publishing /\ writer[i] \in Callers
        BY <4>1 DEF FileInv, FileTyped, TempOfWriter
      <4> QED BY <1>2, <1>8, <4>1, <4>2 DEF Publishing
    <3> QED BY <3>1, <3>2
  <2> QED BY <2>1, <2>2 DEF TempOfWriter, Publishing
<1>15. ASSUME ~unguarded PROVE AtWork' \subseteq Undisturbed' /\ QuarantinedDead'
  <2>1. c \in AtWork
    BY <1>2 DEF AtWork, Away
  <2>2. c \in Undisturbed
    BY <1>15, <2>1 DEF FileInv
  <2>3. c \in Undisturbed'
    <3>1. helper'[c][callers'[c].tree] = "held"
      BY <1>1, <1>9, <2>2 DEF Undisturbed
    <3>2. CASE callers[c].op = "update"
      <4>1. path[callers[c].tree] # 0 /\ writer[path[callers[c].tree]] = c
        BY <1>2, <2>2, <3>2 DEF Undisturbed
      <4>2. writer'[path[callers[c].tree]] = c
        BY <1>3, <1>4, <4>1
      <4>3. callers'[c].at = "rename"
        BY <1>9, <3>2 DEF where
      <4> QED BY <1>1, <1>2, <1>9, <3>1, <4>1, <4>2, <4>3 DEF Undisturbed
    <3>3. CASE callers[c].op # "update"
      <4>1. path[callers[c].tree] = 0
        BY <1>2, <2>2, <3>3 DEF Undisturbed
      <4>2. callers'[c].at = "publish"
        BY <1>9, <3>3 DEF where
      <4> QED BY <1>1, <1>2, <1>9, <3>1, <4>1, <4>2 DEF Undisturbed
    <3> QED BY <3>2, <3>3
  <2>4. \A d \in AtWork' : d # c => d \in Undisturbed'
    BY <1>1, <1>4, <1>8, <1>15, <2>1, OthersUndisturbed
  <2>5. QuarantinedDead'
    BY <1>1, <1>4, <1>13, <1>15 DEF FileInv, QuarantinedDead
  <2> QED BY <2>3, <2>4, <2>5
<1>16. File!BytesKept'
  <2> SUFFICES ASSUME ~unguarded, NEW i \in (DOMAIN writer') \ temporary'
               PROVE  i \in kept' \cup withdrawn' \/ \E t \in Trees : path'[t] = i
    BY <1>1 DEF File!BytesKept
  <2>1. i \in (DOMAIN writer) \ temporary
    BY <1>3, <1>4, <1>10
  <2> QED BY <1>1, <2>1 DEF FileInv, File!BytesKept
<1> QED BY <1>1, <1>11, <1>12, <1>14, <1>15, <1>16 DEF FileInv

\* A writer that has given its record its place leaves, and takes the temporary name away.
LEMMA WriterLeaves ==
    ASSUME FileInv, NEW c \in running,
           callers[c].at \in Publishing, callers'[c].at \notin Publishing,
           \A d \in Callers \ {c} : callers'[d] = callers[d],
           temporary' = temporary \ {callers[c].mine}, UNCHANGED <<running, writer>>,
           \A u \in Trees : path'[u] # path[u] => path'[u] = 0 \/ writer[path'[u]] = c
    PROVE  TempOfWriter'
<1>1. writer[callers[c].mine] = c /\ Len(writer) \in Nat /\ temporary \subseteq 1..Len(writer)
  BY EvidenceShape DEF FileInv, FileTyped, TempOfWriter
<1>2. ASSUME NEW d \in running', callers'[d].at \in Publishing
      PROVE  /\ callers'[d].mine \in temporary' /\ writer'[callers'[d].mine] = d
             /\ \A t \in Trees :
                  path'[t] = callers'[d].mine => callers'[d].at = "clean" /\ t = callers'[d].tree
  <2>1. d # c /\ d \in running /\ callers'[d] = callers[d]
    BY <1>2 DEF FileInv, FileTyped
  <2>2. callers[d].mine \in temporary /\ writer[callers[d].mine] = d
    BY <1>2, <2>1 DEF FileInv, TempOfWriter
  <2>3. callers[d].mine # callers[c].mine /\ callers[d].mine # 0
    BY <1>1, <2>1, <2>2
  <2>4. \A t \in Trees : path'[t] = callers[d].mine => path[t] = callers[d].mine
    BY <2>1, <2>2, <2>3
  <2> QED BY <1>2, <2>1, <2>2, <2>3, <2>4 DEF FileInv, TempOfWriter
<1>3. ASSUME NEW i \in temporary', writer'[i] \in running'
      PROVE  callers'[writer'[i]].mine = i /\ callers'[writer'[i]].at \in Publishing
  <2>1. i \in temporary /\ i # callers[c].mine
    BY <1>3
  <2>2. callers[writer[i]].mine = i /\ callers[writer[i]].at \in Publishing /\ writer[i] \in Callers
    BY <1>3, <2>1 DEF FileInv, FileTyped, TempOfWriter
  <2>3. writer[i] # c
    BY <2>1, <2>2
  <2> QED BY <2>2, <2>3
<1> QED BY <1>2, <1>3 DEF TempOfWriter, Publishing

\* A record comes to its worktree's path, and loses its temporary name.
LEMMA EvidencePublishes ==
    ASSUME FileInv, File!Publish \/ File!Clean
    PROVE  FileInv'
<1> USE DEF File!faults
<1>1. CASE File!Publish
  <2>1. PICK c \in Callers :
          /\ File!At(c, "publish") /\ File!Goes(c, "clean")
          /\ path' = IF path[callers[c].tree] = 0
                       THEN [path EXCEPT ![callers[c].tree] = callers[c].mine] ELSE path
          /\ UNCHANGED <<running, helper, present, writer, temporary, kept, withdrawn, unguarded, mishaps>>
    BY <1>1 DEF File!Publish, File!MayPublish, File!NoClobber, File!Tree
  <2>2. c \in running /\ callers[c].at = "publish" /\ callers[c].at \in Publishing
    BY <2>1 DEF File!At, Publishing
  <2>3. /\ callers[c] \in CallRecords /\ callers[c].tree \in Trees
        /\ path[callers[c].tree] \in 0..Len(writer) /\ Len(writer) \in Nat
    BY <2>2, EvidenceShape
  <2>4. /\ callers' = [callers EXCEPT ![c] = [callers[c] EXCEPT !.at = "clean"]]
        /\ [callers[c] EXCEPT !.at = "clean"] \in CallRecords
    BY <2>1, <2>3 DEF File!Goes, CallRecords, File!Places
  <2>5. /\ callers' \in [Callers -> CallRecords] /\ \A d \in Callers \ {c} : callers'[d] = callers[d]
        /\ callers'[c] = [callers[c] EXCEPT !.at = "clean"]
    BY <2>4 DEF FileInv, FileTyped
  <2>6. /\ callers'[c].at = "clean" /\ callers'[c].tree = callers[c].tree /\ callers'[c].op = callers[c].op
        /\ callers'[c].mine = callers[c].mine
    BY <2>3, <2>5 DEF CallRecords
  <2>7. /\ callers[c].mine \in temporary /\ writer[callers[c].mine] = c
        /\ \A t \in Trees : path[t] # callers[c].mine
        /\ callers[c].mine \in 0..Len(writer)
    <3>1. /\ callers[c].mine \in temporary /\ writer[callers[c].mine] = c
          /\ \A t \in Trees : path[t] # callers[c].mine
      BY <2>2 DEF FileInv, TempOfWriter
    <3>2. callers[c].mine \in 1..Len(writer)
      BY <3>1 DEF FileInv, FileTyped
    <3> QED BY <2>3, <3>1, <3>2
  <2>8. /\ path' \in [Trees -> 0..Len(writer)]
        /\ \A u \in Trees : path'[u] = IF u = callers[c].tree /\ path[u] = 0 THEN callers[c].mine ELSE path[u]
    BY <2>1, <2>3, <2>7 DEF FileInv, FileTyped
  <2>9. FileTyped' /\ OneHolder'
    BY <2>1, <2>5, <2>8 DEF FileInv, FileTyped, OneHolder
  <2>10. TempOfWriter'
    <3>1. ASSUME NEW d \in running', callers'[d].at \in Publishing
          PROVE  /\ callers'[d].mine \in temporary' /\ writer'[callers'[d].mine] = d
                 /\ \A t \in Trees :
                      path'[t] = callers'[d].mine => callers'[d].at = "clean" /\ t = callers'[d].tree
      <4>1. CASE d = c
        BY <2>1, <2>6, <2>7, <2>8, <4>1
      <4>2. CASE d # c
        <5>1. d \in running /\ callers'[d] = callers[d]
          BY <2>1, <2>5, <4>2 DEF FileInv, FileTyped
        <5>2. callers[d].mine \in temporary /\ writer[callers[d].mine] = d
          BY <3>1, <5>1 DEF FileInv, TempOfWriter
        <5>3. callers[d].mine # callers[c].mine
          BY <2>7, <4>2, <5>2
        <5> QED BY <2>1, <2>8, <3>1, <5>1, <5>2, <5>3 DEF FileInv, TempOfWriter
      <4> QED BY <4>1, <4>2
    <3>2. ASSUME NEW i \in temporary', writer'[i] \in running'
          PROVE  callers'[writer'[i]].mine = i /\ callers'[writer'[i]].at \in Publishing
      <4>1. callers[writer[i]].mine = i /\ callers[writer[i]].at \in Publishing /\ writer[i] \in Callers
        BY <2>1, <3>2 DEF FileInv, FileTyped, TempOfWriter
      <4> QED BY <2>1, <2>5, <2>6, <4>1 DEF Publishing
    <3> QED BY <3>1, <3>2 DEF TempOfWriter, Publishing
  <2>11. ASSUME ~unguarded PROVE AtWork' \subseteq Undisturbed' /\ QuarantinedDead' /\ path[callers[c].tree] = 0
    <3>1. c \in AtWork
      BY <2>2 DEF AtWork, Away
    <3>2. c \in Undisturbed
      BY <2>11, <3>1 DEF FileInv
    <3>3. path[callers[c].tree] = 0 /\ helper[c][callers[c].tree] = "held"
      BY <2>2, <3>2 DEF Undisturbed
    <3>4. c \in Undisturbed'
      BY <2>1, <2>2, <2>3, <2>6, <2>8, <3>3 DEF Undisturbed
    <3>5. \A d \in AtWork' : d # c => d \in Undisturbed'
      BY <2>1, <2>5, <2>8, <2>11, <3>1, OthersUndisturbed
    <3>6. QuarantinedDead'
      BY <2>1, <2>11 DEF FileInv, QuarantinedDead
    <3> QED BY <3>3, <3>4, <3>5, <3>6
  <2>12. File!BytesKept'
    <3> SUFFICES ASSUME ~unguarded, NEW i \in (DOMAIN writer) \ temporary
                 PROVE  i \in kept \cup withdrawn \/ \E t \in Trees : path'[t] = i
      BY <2>1 DEF File!BytesKept
    <3>1. i \in kept \cup withdrawn \/ \E t \in Trees : path[t] = i
      BY DEF FileInv, File!BytesKept
    <3>2. i # 0
      BY <2>3 DEF FileInv, FileTyped
    <3> QED BY <2>8, <2>11, <3>1, <3>2
  <2> QED BY <2>1, <2>9, <2>10, <2>11, <2>12 DEF FileInv
<1>2. CASE File!Clean
  <2>1. PICK c \in Callers :
          /\ File!At(c, "clean") /\ File!Goes(c, "leaving")
          /\ temporary' = temporary \ {callers[c].mine}
          /\ UNCHANGED <<running, helper, present, path, writer, kept, withdrawn, unguarded, mishaps>>
    BY <1>2 DEF File!Clean
  <2>2. c \in running /\ callers[c].at = "clean" /\ callers[c].at \in Publishing
    BY <2>1 DEF File!At, Publishing
  <2>3. /\ callers[c] \in CallRecords /\ callers[c].tree \in Trees
        /\ path[callers[c].tree] \in 0..Len(writer) /\ Len(writer) \in Nat
    BY <2>2, EvidenceShape
  <2>4. /\ callers' = [callers EXCEPT ![c] = [callers[c] EXCEPT !.at = "leaving"]]
        /\ [callers[c] EXCEPT !.at = "leaving"] \in CallRecords
    BY <2>1, <2>3 DEF File!Goes, CallRecords, File!Places
  <2>5. /\ callers' \in [Callers -> CallRecords] /\ \A d \in Callers \ {c} : callers'[d] = callers[d]
        /\ callers'[c] = [callers[c] EXCEPT !.at = "leaving"]
    BY <2>4 DEF FileInv, FileTyped
  <2>6. callers'[c].at = "leaving" /\ c \notin AtWork'
    BY <2>3, <2>5 DEF CallRecords, AtWork, Away
  <2>8. FileTyped' /\ OneHolder'
    BY <2>1, <2>5 DEF FileInv, FileTyped, OneHolder
  <2>9. TempOfWriter'
    BY <2>1, <2>2, <2>5, <2>6, WriterLeaves DEF Publishing
  <2>10. ASSUME ~unguarded
         PROVE  AtWork' \subseteq Undisturbed' /\ QuarantinedDead' /\ path[callers[c].tree] = callers[c].mine
    <3>1. c \in AtWork
      BY <2>2 DEF AtWork, Away
    <3>2. path[callers[c].tree] = callers[c].mine
      BY <2>2, <2>10, <3>1 DEF FileInv, Undisturbed
    <3>3. \A d \in AtWork' : d # c => d \in Undisturbed'
      BY <2>1, <2>5, <2>10, <3>1, OthersUndisturbed
    <3>4. QuarantinedDead'
      BY <2>1, <2>10 DEF FileInv, QuarantinedDead
    <3> QED BY <2>6, <3>2, <3>3, <3>4
  <2>11. File!BytesKept'
    BY <2>1, <2>3, <2>10 DEF FileInv, File!BytesKept
  <2> QED BY <2>1, <2>8, <2>9, <2>10, <2>11 DEF FileInv
<1> QED BY <1>1, <1>2

\* An owner replaces its record or takes it away.
LEMMA EvidenceReplaces ==
    ASSUME FileInv, File!Rename \/ File!Remove
    PROVE  FileInv'
<1> USE DEF File!faults
<1>1. CASE File!Rename
  <2>1. PICK c \in Callers :
          /\ File!At(c, "rename") /\ File!Goes(c, "leaving")
          /\ withdrawn' = IF path[callers[c].tree] # 0 /\ writer[path[callers[c].tree]] = c
                            THEN withdrawn \cup {path[callers[c].tree]} ELSE withdrawn
          /\ path' = [path EXCEPT ![callers[c].tree] = callers[c].mine]
          /\ temporary' = temporary \ {callers[c].mine}
          /\ UNCHANGED <<running, helper, present, writer, kept, unguarded, mishaps>>
    BY <1>1 DEF File!Rename, File!Tree
  <2>2. c \in running /\ callers[c].at = "rename" /\ callers[c].at \in Publishing
    BY <2>1 DEF File!At, Publishing
  <2>3. /\ callers[c] \in CallRecords /\ callers[c].tree \in Trees
        /\ path[callers[c].tree] \in 0..Len(writer) /\ Len(writer) \in Nat
    BY <2>2, EvidenceShape
  <2>4. /\ callers' = [callers EXCEPT ![c] = [callers[c] EXCEPT !.at = "leaving"]]
        /\ [callers[c] EXCEPT !.at = "leaving"] \in CallRecords
    BY <2>1, <2>3 DEF File!Goes, CallRecords, File!Places
  <2>5. /\ callers' \in [Callers -> CallRecords] /\ \A d \in Callers \ {c} : callers'[d] = callers[d]
        /\ callers'[c] = [callers[c] EXCEPT !.at = "leaving"]
    BY <2>4 DEF FileInv, FileTyped
  <2>6. callers'[c].at = "leaving" /\ c \notin AtWork'
    BY <2>3, <2>5 DEF CallRecords, AtWork, Away
  <2>7. writer[callers[c].mine] = c /\ callers[c].mine \in 0..Len(writer)
    <3>1. callers[c].mine \in temporary /\ writer[callers[c].mine] = c
      BY <2>2 DEF FileInv, TempOfWriter
    <3>2. callers[c].mine \in 1..Len(writer)
      BY <3>1 DEF FileInv, FileTyped
    <3> QED BY <2>3, <3>1, <3>2
  <2>8. /\ path' \in [Trees -> 0..Len(writer)]
        /\ \A u \in Trees : path'[u] = IF u = callers[c].tree THEN callers[c].mine ELSE path[u]
    BY <2>1, <2>3, <2>7 DEF FileInv, FileTyped
  <2>9. withdrawn' \subseteq 1..Len(writer) /\ withdrawn \subseteq withdrawn'
    <3>1. path[callers[c].tree] # 0 => path[callers[c].tree] \in 1..Len(writer)
      BY <2>3
    <3> QED BY <2>1, <3>1 DEF FileInv, FileTyped
  <2>10. FileTyped' /\ OneHolder'
    BY <2>1, <2>5, <2>8, <2>9 DEF FileInv, FileTyped, OneHolder
  <2>11. TempOfWriter'
    BY <2>1, <2>2, <2>5, <2>6, <2>7, <2>8, WriterLeaves DEF Publishing
  <2>12. ASSUME ~unguarded PROVE AtWork' \subseteq Undisturbed' /\ QuarantinedDead' /\ path[callers[c].tree] \in withdrawn'
    <3>1. c \in AtWork
      BY <2>2 DEF AtWork, Away
    <3>2. path[callers[c].tree] # 0 /\ writer[path[callers[c].tree]] = c
      BY <2>2, <2>12, <3>1 DEF FileInv, Undisturbed
    <3>3. \A d \in AtWork' : d # c => d \in Undisturbed'
      BY <2>1, <2>5, <2>8, <2>12, <3>1, OthersUndisturbed
    <3>4. QuarantinedDead'
      BY <2>1, <2>12 DEF FileInv, QuarantinedDead
    <3> QED BY <2>1, <2>6, <3>2, <3>3, <3>4
  <2>13. File!BytesKept'
    <3> SUFFICES ASSUME ~unguarded, NEW i \in (DOMAIN writer) \ temporary'
                 PROVE  i \in kept \cup withdrawn' \/ \E t \in Trees : path'[t] = i
      BY <2>1 DEF File!BytesKept
    <3>1. i = callers[c].mine \/ i \in kept \cup withdrawn \/ \E t \in Trees : path[t] = i
      BY <2>1 DEF FileInv, File!BytesKept
    <3> QED BY <2>3, <2>8, <2>9, <2>12, <3>1
  <2> QED BY <2>1, <2>10, <2>11, <2>12, <2>13 DEF FileInv
<1>2. CASE File!Remove
  <2>1. PICK c \in Callers :
          /\ File!At(c, "remove") /\ path[callers[c].tree] # 0 /\ File!Goes(c, "leaving")
          /\ withdrawn' = IF writer[path[callers[c].tree]] = c
                            THEN withdrawn \cup {path[callers[c].tree]} ELSE withdrawn
          /\ path' = [path EXCEPT ![callers[c].tree] = 0]
          /\ UNCHANGED <<running, helper, present, writer, temporary, kept, unguarded, mishaps>>
    BY <1>2 DEF File!Remove, File!Tree
  <2>2. c \in running /\ callers[c].at = "remove" /\ callers[c].at \notin Publishing
    BY <2>1 DEF File!At, Publishing
  <2>3. /\ callers[c] \in CallRecords /\ callers[c].tree \in Trees
        /\ path[callers[c].tree] \in 0..Len(writer) /\ Len(writer) \in Nat
    BY <2>2, EvidenceShape
  <2>4. /\ callers' = [callers EXCEPT ![c] = [callers[c] EXCEPT !.at = "leaving"]]
        /\ [callers[c] EXCEPT !.at = "leaving"] \in CallRecords
    BY <2>1, <2>3 DEF File!Goes, CallRecords, File!Places
  <2>5. /\ callers' \in [Callers -> CallRecords] /\ \A d \in Callers \ {c} : callers'[d] = callers[d]
        /\ callers'[c] = [callers[c] EXCEPT !.at = "leaving"]
    BY <2>4 DEF FileInv, FileTyped
  <2>6. callers'[c].at = "leaving" /\ callers'[c].at \notin Publishing /\ c \notin AtWork'
    BY <2>3, <2>5 DEF CallRecords, AtWork, Away, Publishing
  <2>7. /\ path' \in [Trees -> 0..Len(writer)]
        /\ \A u \in Trees : path'[u] = IF u = callers[c].tree THEN 0 ELSE path[u]
    BY <2>1, <2>3 DEF FileInv, FileTyped
  <2>8. withdrawn' \subseteq 1..Len(writer) /\ withdrawn \subseteq withdrawn'
    <3>1. path[callers[c].tree] \in 1..Len(writer)
      BY <2>1, <2>3
    <3> QED BY <2>1, <3>1 DEF FileInv, FileTyped
  <2>9. FileTyped' /\ OneHolder'
    BY <2>1, <2>5, <2>7, <2>8 DEF FileInv, FileTyped, OneHolder
  <2>10. TempOfWriter'
    <3>1. ASSUME NEW d \in running', callers'[d].at \in Publishing
          PROVE  /\ callers'[d].mine \in temporary' /\ writer'[callers'[d].mine] = d
                 /\ \A t \in Trees :
                      path'[t] = callers'[d].mine => callers'[d].at = "clean" /\ t = callers'[d].tree
      <4>1. d # c /\ d \in running /\ callers'[d] = callers[d]
        BY <2>1, <2>5, <2>6, <3>1 DEF FileInv, FileTyped
      <4>2. callers[d].mine \in temporary /\ temporary \subseteq 1..Len(writer)
        BY <3>1, <4>1 DEF FileInv, FileTyped, TempOfWriter
      <4>3. callers[d].mine # 0
        BY <2>3, <4>2
      <4> QED BY <2>1, <2>7, <3>1, <4>1, <4>3 DEF FileInv, TempOfWriter
    <3>2. ASSUME NEW i \in temporary', writer'[i] \in running'
          PROVE  callers'[writer'[i]].mine = i /\ callers'[writer'[i]].at \in Publishing
      <4>1. callers[writer[i]].mine = i /\ callers[writer[i]].at \in Publishing /\ writer[i] \in Callers
        BY <2>1, <3>2 DEF FileInv, FileTyped, TempOfWriter
      <4> QED BY <2>1, <2>2, <2>5, <4>1 DEF Publishing
    <3> QED BY <3>1, <3>2 DEF TempOfWriter, Publishing
  <2>11. ASSUME ~unguarded PROVE AtWork' \subseteq Undisturbed' /\ QuarantinedDead' /\ path[callers[c].tree] \in withdrawn'
    <3>1. c \in AtWork
      BY <2>2 DEF AtWork, Away
    <3>2. path[callers[c].tree] # 0 /\ writer[path[callers[c].tree]] = c
      BY <2>2, <2>11, <3>1 DEF FileInv, Undisturbed
    <3>3. \A d \in AtWork' : d # c => d \in Undisturbed'
      BY <2>1, <2>5, <2>7, <2>11, <3>1, OthersUndisturbed
    <3>4. QuarantinedDead'
      BY <2>1, <2>11 DEF FileInv, QuarantinedDead
    <3> QED BY <2>1, <2>6, <3>2, <3>3, <3>4
  <2>12. File!BytesKept'
    <3> SUFFICES ASSUME ~unguarded, NEW i \in (DOMAIN writer) \ temporary
                 PROVE  i \in kept \cup withdrawn' \/ \E t \in Trees : path'[t] = i
      BY <2>1 DEF File!BytesKept
    <3>1. i \in kept \cup withdrawn \/ \E t \in Trees : path[t] = i
      BY DEF FileInv, File!BytesKept
    <3> QED BY <2>3, <2>7, <2>8, <2>11, <3>1
  <2> QED BY <2>1, <2>9, <2>10, <2>11, <2>12 DEF FileInv
<1> QED BY <1>1, <1>2

LEMMA EvidenceStepsKeep == EvidenceHolds /\ [HostNext]_hostVars => EvidenceHolds'
<1> SUFFICES ASSUME EvidenceHolds, [HostNext]_hostVars, part' = "evidence" PROVE FileInv'
  BY DEF EvidenceHolds
<1>1. CASE EvidenceStep
  BY <1>1, EvidenceAsks, EvidenceLocks, EvidenceMishaps, EvidenceLooks, EvidenceQuarantine,
     EvidenceWrites, EvidencePublishes, EvidenceReplaces
  DEF EvidenceStep, EvidenceHolds, File!EvidenceNext
<1>2. CASE UNCHANGED hostVars
  <2>1. UNCHANGED <<part, evidenceVars>>
    BY <1>2 DEF hostVars
  <2> QED BY <2>1 DEF evidenceVars, EvidenceHolds, FileInv, FileTyped, OneHolder, TempOfWriter,
       AtWork, Undisturbed, QuarantinedDead, File!BytesKept
<1>3. CASE DeployStep \/ OpenCodeStep \/ InboxStep \/ TrashStep \/ ServerStep \/ HubStep
  BY <1>3 DEF DeployStep, OpenCodeStep, InboxStep, TrashStep, ServerStep, HubStep
<1> QED BY <1>1, <1>2, <1>3 DEF HostNext

\* Published evidence is still at its worktree's path or in quarantine unless its owner
\* took it back, and a setup runs alone with no evidence anywhere, whoever dies between
\* two system calls, until a helper is killed under its caller: EvidenceSafe.
THEOREM EvidenceIsSafe == HostSpec => []EvidenceSafe
BY EvidenceMeans, EvidenceStarts, EvidenceStepsKeep, PTL DEF HostSpec

\* A step takes the evidence of a live owner away from its path only by the owner's hand.
LEMMA EvidenceStays ==
    ASSUME FileInv, File!EvidenceNext PROVE File!LiveEvidence
<1> SUFFICES ASSUME NEW t \in Trees, ~unguarded', path[t] # 0, path'[t] # path[t],
                    writer[path[t]] \in running
             PROVE  path[t] \in withdrawn'
  BY DEF File!LiveEvidence
<1> USE DEF File!records, File!faults
<1>1. \/ File!QuarantineUnlink \/ File!Publish \/ File!Rename \/ File!Remove
  BY DEF File!EvidenceNext, File!Ask, File!Grant, File!Enter, File!GiveUp,
     File!Leave, File!Crash, File!HelperEnds, File!KillHelper, File!Inspect,
     File!QuarantineLink, File!Fails, File!WriteTemporary, File!Clean,
     File!Inventory, File!LockNext, File!BeginSetup, File!EndSetup, File!EditTrees
<1>2. PICK c \in running :
        /\ UNCHANGED unguarded
        /\ \/ callers[c].at = "unlink" /\ path' = [path EXCEPT ![callers[c].tree] = 0]
           \/ /\ callers[c].at = "publish"
              /\ path' = IF path[callers[c].tree] = 0
                           THEN [path EXCEPT ![callers[c].tree] = callers[c].mine] ELSE path
           \/ /\ callers[c].at \in {"rename", "remove"}
              /\ path[callers[c].tree] # 0 /\ writer[path[callers[c].tree]] = c =>
                   path[callers[c].tree] \in withdrawn'
              /\ \E i \in {0, callers[c].mine} : path' = [path EXCEPT ![callers[c].tree] = i]
  BY <1>1 DEF File!QuarantineUnlink, File!Publish, File!Rename, File!Remove,
     File!At, File!Tree, File!MayPublish, File!NoClobber
<1>3. path \in [Trees -> 0..Len(writer)] /\ t = callers[c].tree
  BY <1>2 DEF FileInv, FileTyped
<1>4. c \in Undisturbed /\ QuarantinedDead
  BY <1>2 DEF FileInv, AtWork, Away
<1>5. callers[c].at # "publish" /\ callers[c].at # "unlink"
  BY <1>2, <1>3, <1>4 DEF Undisturbed, QuarantinedDead
<1> QED BY <1>2, <1>3, <1>4, <1>5 DEF Undisturbed

-----------------------------------------------------------------------------
(* The OpenCode deployment.                                                *)

PermissionEvents == {"permission.asked", "permission.replied", "session.idle"}
PermissionRecords == [event : PermissionEvents, ts : 0..MaxClock]

OpenCodeTyped ==
    /\ plan \in [mode : {"foreground", "background"}, owns : BOOLEAN, advisory : BOOLEAN]
    /\ launcher \in {"start", "admit", "snapshot", "compare", "spawn", "await", "report", "stop", "attend",
                     "release", "catch", "done", "dead"}
    /\ supervisor \in {"none", "boot", "start", "acknowledge", "watch", "record", "fail", "finally",
                       "release", "gone"}
    /\ loop \in 0..3 /\ holds \in BOOLEAN /\ answer \in {"none", "pending", "success", "failed"}
    /\ seen \in Code!Terminal \cup {"none", "running"} /\ proof \in {"none", "active", "failed"}
    /\ runtime \in {"none", "runs", "waits", "stopping", "clean", "bad"}
    /\ repository \in {"nobody", "launcher", "supervisor", "left", "rival"}
    /\ registered \in Code!Terminal \cup {"none", "running"}
    /\ drifted \in BOOLEAN /\ stale \in BOOLEAN
    /\ remedied \in {"no", "justly", "wrongly", "late"} /\ failed \in 0..MaxMishaps

\* Nothing runs before it was started, and the primer that an agent reads is written.
BeforeSpawn == {"start", "admit", "snapshot", "compare", "spawn"}
StartedInTurn ==
    /\ launcher \in BeforeSpawn => supervisor = "none" /\ runtime = "none"
    /\ launcher \in {"start", "admit", "snapshot", "compare"} => loop <= 2
    /\ launcher \in {"attend"} => ~Code!Background
    /\ launcher \in {"await", "report", "stop"} => Code!Background /\ supervisor # "none"
    /\ ~Code!Background => supervisor = "none"
    /\ Code!Background /\ runtime # "none" => supervisor # "none"
    /\ supervisor \in {"boot", "start"} => runtime = "none"
    /\ supervisor \in {"none", "boot"} => proof = "none"
    /\ launcher = "compare" \/ runtime # "none" \/ supervisor # "none" \/ launcher = "spawn" => ~stale

\* The registry hears of the start first and of a result before a release.
ResultFirst ==
    /\ launcher = "start" <=> registered = "none"
    /\ launcher = "release" \/ supervisor = "release" => registered \in Code!Terminal
    /\ answer # "none" => launcher = "done"

\* An agent works only while the process that started it attends to it.
Attended ==
    /\ supervisor \in {"record", "fail", "finally", "release"} => ~Code!Alive
    /\ Code!Alive => Code!Background \/ launcher \in {"attend", "dead"}

\* As long as nothing was killed and no call failed: who has the repository, and that
\* a supervisor that is gone left a result.
WithoutMishap ==
    /\ launcher # "dead"
    /\ launcher \in {"catch", "release"} => supervisor \in {"none", "gone"} /\ ~Code!Alive
    /\ supervisor = "gone" => ~Code!Alive /\ (registered \in Code!Terminal \/ launcher = "catch")
    /\ supervisor = "boot" => launcher \in {"await", "stop"} /\ proof = "none"
    /\ plan.owns /\ launcher \in {"snapshot", "compare", "spawn", "attend"} => repository = "launcher"
    /\ plan.owns /\ supervisor = "boot" => repository = "launcher"
    /\ plan.owns /\ supervisor \in {"start", "acknowledge", "watch"} => repository = "supervisor"
    /\ launcher \in {"report"} => supervisor # "boot"

\* The stamps of the log grow, an asked permission has a latest asking, and an agent
\* that runs has had its answer.
Answers ==
    /\ log \in Seq(PermissionRecords) /\ Len(log) <= MaxEvents
    /\ clock \in 0..MaxClock
    /\ \A i, j \in 1..Len(log) : i <= j => log[i].ts <= log[j].ts
    /\ \A i \in 1..Len(log) : log[i].ts <= clock
    /\ Code!Asked # {} => \E i \in Code!Asked : \A j \in Code!Asked : j <= i
    /\ runtime = "runs" =>
         \A i \in Code!Asked : \E j \in 1..Len(log) : j >= i /\ log[j].event = "permission.replied"
    /\ runtime = "none" => log = <<>>
    /\ runtime = "stopping" => remedied # "no"
    /\ remedied # "wrongly"

\* The inductive invariant behind OpenCodeSafe and ReleasedAfterRow.
OpenCodeInv ==
    /\ OpenCodeTyped /\ StartedInTurn /\ ResultFirst /\ Attended
    /\ failed = 0 => WithoutMishap
    /\ Answers

OpenCodeHolds == part = "opencode" => OpenCodeInv

LEMMA OpenCodeLimit == MaxMishaps \in Nat /\ MaxEvents \in Nat /\ MaxClock \in Nat
BY OpenCodeConstants DEF Code!OpenCodeAssumption

\* A step that reports no permission event lets no agent run that waited.
LEMMA AnswersKept ==
    ASSUME Answers, UNCHANGED <<log, clock, remedied>>,
           runtime' \in {runtime, "clean", "bad"} \/ runtime = "none"
    PROVE  runtime' # "stopping" \/ runtime = "stopping" => Answers'
BY DEF Answers, Code!Asked

\* The launcher.
LEMMA OpenCodeLaunches ==
    ASSUME OpenCodeInv,
           \/ Code!EmitStarted \/ Code!Acquire \/ Code!WritePrimer \/ Code!Compare
           \/ Code!Spawn \/ Code!Ready \/ Code!NotReady \/ Code!Stop
           \/ Code!Report \/ Code!Complete \/ Code!Release \/ Code!Catch
    PROVE  OpenCodeInv'
<1> USE OpenCodeLimit DEF OpenCodeInv, OpenCodeTyped, StartedInTurn, ResultFirst, Attended, WithoutMishap, BeforeSpawn,
    Code!Background, Code!Alive, Code!Terminal, Code!Mishap, Code!launching, Code!supervising,
    Code!snapshots, Code!permissions
<1>1. CASE Code!EmitStarted
  BY <1>1, AnswersKept DEF Code!EmitStarted
<1>2. CASE Code!Acquire
  <2>1. Answers'
    BY <1>2, AnswersKept DEF Code!Acquire
  <2>2. OpenCodeTyped'
    <3>1. holds' \in BOOLEAN
      BY <1>2 DEF Code!Acquire
    <3>2. drifted' \in BOOLEAN
      BY <1>2 DEF Code!Acquire
    <3>3. stale' \in BOOLEAN
      BY <1>2 DEF Code!Acquire
    <3> QED BY <1>2, <3>1, <3>2, <3>3 DEF Code!Acquire
  <2>3. StartedInTurn'
    BY <1>2 DEF Code!Acquire
  <2>4. ResultFirst' /\ Attended'
    BY <1>2 DEF Code!Acquire
  <2>5. failed' = 0 => WithoutMishap'
    BY <1>2 DEF Code!Acquire
  <2> QED BY <2>1, <2>2, <2>3, <2>4, <2>5
<1>3. CASE Code!WritePrimer
  <2>1. Answers'
    BY <1>3, AnswersKept DEF Code!WritePrimer
  <2>2. OpenCodeTyped'
    <3>1. holds' \in BOOLEAN
      BY <1>3 DEF Code!WritePrimer
    <3>2. drifted' \in BOOLEAN
      BY <1>3 DEF Code!WritePrimer
    <3>3. stale' \in BOOLEAN
      BY <1>3 DEF Code!WritePrimer
    <3> QED BY <1>3, <3>1, <3>2, <3>3 DEF Code!WritePrimer
  <2>3. StartedInTurn'
    BY <1>3 DEF Code!WritePrimer
  <2>4. ResultFirst' /\ Attended'
    BY <1>3 DEF Code!WritePrimer
  <2>5. failed' = 0 => WithoutMishap'
    BY <1>3 DEF Code!WritePrimer
  <2> QED BY <2>1, <2>2, <2>3, <2>4, <2>5
<1>4. CASE Code!Compare
  <2>1. Answers'
    BY <1>4, AnswersKept DEF Code!Compare, Code!AfterUpdate, Code!Again
  <2>2. OpenCodeTyped'
    <3>1. holds' \in BOOLEAN
      BY <1>4 DEF Code!Compare, Code!AfterUpdate, Code!Again
    <3>2. drifted' \in BOOLEAN
      BY <1>4 DEF Code!Compare, Code!AfterUpdate, Code!Again
    <3>3. stale' \in BOOLEAN
      BY <1>4 DEF Code!Compare, Code!AfterUpdate, Code!Again
    <3> QED BY <1>4, <3>1, <3>2, <3>3 DEF Code!Compare, Code!AfterUpdate, Code!Again
  <2>3. StartedInTurn'
    BY <1>4 DEF Code!Compare, Code!AfterUpdate, Code!Again
  <2>4. ResultFirst' /\ Attended'
    BY <1>4 DEF Code!Compare, Code!AfterUpdate, Code!Again
  <2>5. failed' = 0 => WithoutMishap'
    BY <1>4 DEF Code!Compare, Code!AfterUpdate, Code!Again
  <2> QED BY <2>1, <2>2, <2>3, <2>4, <2>5
<1>5. CASE Code!Spawn
  <2>1. Answers'
    BY <1>5, AnswersKept DEF Code!Spawn
  <2>2. OpenCodeTyped'
    <3>1. holds' \in BOOLEAN
      BY <1>5 DEF Code!Spawn
    <3>2. drifted' \in BOOLEAN
      BY <1>5 DEF Code!Spawn
    <3>3. stale' \in BOOLEAN
      BY <1>5 DEF Code!Spawn
    <3> QED BY <1>5, <3>1, <3>2, <3>3 DEF Code!Spawn
  <2>3. StartedInTurn'
    BY <1>5 DEF Code!Spawn
  <2>4. ResultFirst' /\ Attended'
    BY <1>5 DEF Code!Spawn
  <2>5. failed' = 0 => WithoutMishap'
    BY <1>5 DEF Code!Spawn
  <2> QED BY <2>1, <2>2, <2>3, <2>4, <2>5
<1>6. CASE Code!Ready
  BY <1>6, AnswersKept DEF Code!Ready
<1>7. CASE Code!NotReady
  BY <1>7, AnswersKept DEF Code!NotReady
<1>8. CASE Code!Stop
  BY <1>8, AnswersKept DEF Code!Stop, Code!StopAgent, Code!StopsGroup
<1>9. CASE Code!Report
  <2>1. Answers'
    BY <1>9, AnswersKept DEF Code!Report
  <2>2. OpenCodeTyped'
    <3>1. holds' \in BOOLEAN
      BY <1>9 DEF Code!Report
    <3>2. drifted' \in BOOLEAN
      BY <1>9 DEF Code!Report
    <3>3. stale' \in BOOLEAN
      BY <1>9 DEF Code!Report
    <3> QED BY <1>9, <3>1, <3>2, <3>3 DEF Code!Report
  <2>3. StartedInTurn'
    BY <1>9 DEF Code!Report
  <2>4. ResultFirst' /\ Attended'
    BY <1>9 DEF Code!Report
  <2>5. failed' = 0 => WithoutMishap'
    BY <1>9 DEF Code!Report
  <2> QED BY <2>1, <2>2, <2>3, <2>4, <2>5
<1>10. CASE Code!Complete
  BY <1>10, AnswersKept DEF Code!Complete
<1>11. CASE Code!Release
  <2>1. Answers'
    BY <1>11, AnswersKept DEF Code!Release, Code!Freed
  <2>2. OpenCodeTyped'
    <3>1. holds' \in BOOLEAN
      BY <1>11 DEF Code!Release, Code!Freed
    <3>2. drifted' \in BOOLEAN
      BY <1>11 DEF Code!Release, Code!Freed
    <3>3. stale' \in BOOLEAN
      BY <1>11 DEF Code!Release, Code!Freed
    <3> QED BY <1>11, <3>1, <3>2, <3>3 DEF Code!Release, Code!Freed
  <2>3. StartedInTurn'
    BY <1>11 DEF Code!Release, Code!Freed
  <2>4. ResultFirst' /\ Attended'
    BY <1>11 DEF Code!Release, Code!Freed
  <2>5. failed' = 0 => WithoutMishap'
    BY <1>11 DEF Code!Release, Code!Freed
  <2> QED BY <2>1, <2>2, <2>3, <2>4, <2>5
<1>12. CASE Code!Catch
  BY <1>12, AnswersKept DEF Code!Catch
<1> QED BY <1>1, <1>2, <1>3, <1>4, <1>5, <1>6, <1>7, <1>8, <1>9, <1>10, <1>11, <1>12

\* The supervisor.
LEMMA OpenCodeSupervises ==
    ASSUME OpenCodeInv,
           \/ Code!Transfer \/ Code!StartAgent \/ Code!Acknowledge \/ Code!ReadStatus
           \/ Code!Record \/ Code!Fail \/ Code!Finally \/ Code!SupervisorReleases
    PROVE  OpenCodeInv'
<1> USE OpenCodeLimit DEF OpenCodeInv, OpenCodeTyped, StartedInTurn, ResultFirst, Attended, WithoutMishap, BeforeSpawn,
    Code!Background, Code!Alive, Code!Terminal, Code!Mishap, Code!launching, Code!supervising,
    Code!snapshots, Code!permissions
<1>1. CASE Code!Transfer
  BY <1>1, AnswersKept DEF Code!Transfer
<1>2. CASE Code!StartAgent
  BY <1>2, AnswersKept DEF Code!StartAgent
<1>3. CASE Code!Acknowledge
  BY <1>3, AnswersKept DEF Code!Acknowledge
<1>4. CASE Code!ReadStatus
  BY <1>4, AnswersKept DEF Code!ReadStatus
<1>5. CASE Code!Record
  BY <1>5, AnswersKept DEF Code!Record, Code!Result
<1>6. CASE Code!Fail
  BY <1>6, AnswersKept DEF Code!Fail
<1>7. CASE Code!Finally
  BY <1>7, AnswersKept DEF Code!Finally, Code!Marker, Code!Marked
<1>8. CASE Code!SupervisorReleases
  BY <1>8, AnswersKept DEF Code!SupervisorReleases, Code!Freed
<1> QED BY <1>1, <1>2, <1>3, <1>4, <1>5, <1>6, <1>7, <1>8

\* The agent ends, the tree changes, processes are killed, a rival comes.
LEMMA OpenCodeSuffers ==
    ASSUME OpenCodeInv,
           \/ Code!AgentEnds \/ Code!ForegroundTimeout \/ Code!EditTree \/ Code!KillLauncher
           \/ Code!KillSupervisor \/ Code!Rival
    PROVE  OpenCodeInv'
<1> USE OpenCodeLimit DEF OpenCodeInv, OpenCodeTyped, StartedInTurn, ResultFirst, Attended, WithoutMishap, BeforeSpawn,
    Code!Background, Code!Alive, Code!Terminal, Code!Mishap, Code!launching, Code!supervising,
    Code!snapshots, Code!permissions
<1>1. CASE Code!AgentEnds
  BY <1>1, AnswersKept DEF Code!AgentEnds
<1>2. CASE Code!ForegroundTimeout
  BY <1>2, AnswersKept DEF Code!ForegroundTimeout
<1>3. CASE Code!EditTree
  BY <1>3, AnswersKept DEF Code!EditTree
<1>4. CASE Code!KillLauncher
  BY <1>4, AnswersKept DEF Code!KillLauncher
<1>5. CASE Code!KillSupervisor
  BY <1>5, AnswersKept DEF Code!KillSupervisor
<1>6. CASE Code!Rival
  BY <1>6, AnswersKept DEF Code!Rival
<1> QED BY <1>1, <1>2, <1>3, <1>4, <1>5, <1>6

LEMMA LoggedPermission ==
    ASSUME OpenCodeInv, NEW i \in 1..Len(log) PROVE log[i].ts \in 0..MaxClock
<1>1. log[i] \in PermissionRecords
  BY DEF OpenCodeInv, Answers
<1> QED BY <1>1 DEF PermissionRecords

\* A permission event is stamped and appended.
LEMMA PermissionLogged ==
    ASSUME OpenCodeInv, NEW what \in PermissionEvents, Code!Event(what), Code!Alive,
           runtime' = CASE what = "permission.asked" -> "waits"
                        [] what = "permission.replied" -> "runs" [] OTHER -> runtime
    PROVE  OpenCodeInv'
<1> USE OpenCodeLimit
<1>1. /\ UNCHANGED <<plan, launcher, loop, holds, answer, supervisor, seen, proof, repository, registered,
                     drifted, stale, remedied, failed>>
      /\ Len(log) < MaxEvents
  BY DEF Code!Event, Code!launching, Code!supervising, Code!snapshots
<1>2. PICK stamp \in clock .. MaxClock : clock' = stamp /\ log' = Append(log, [event |-> what, ts |-> stamp])
  BY DEF Code!Event
<1>3. runtime \in {"runs", "waits", "stopping"} /\ runtime' \in {"runs", "waits", "stopping"}
  BY DEF Code!Alive, PermissionEvents
<1> DEFINE n == Len(log) + 1
<1>4. /\ log \in Seq(PermissionRecords) /\ Len(log) \in Nat /\ clock \in 0..MaxClock
      /\ stamp \in 0..MaxClock /\ clock <= stamp /\ clock' = stamp
  BY <1>2 DEF OpenCodeInv, Answers
<1>5. [event |-> what, ts |-> stamp] \in PermissionRecords
  BY <1>4 DEF PermissionRecords
<1>6. /\ log' \in Seq(PermissionRecords) /\ Len(log') = n
      /\ log'[n] = [event |-> what, ts |-> stamp] /\ \A k \in 1..Len(log) : log'[k] = log[k]
  BY <1>2, <1>4, <1>5
<1>7. \A k \in 1..n : k \in 1..Len(log) \/ k = n
  BY <1>4
<1>8. 1..Len(log) \subseteq 1..n /\ n \in 1..n /\ \A k \in 1..Len(log) : k <= n /\ n # k /\ ~(n <= k)
  BY <1>4
<1>9. /\ \A k \in 1..Len(log) : log'[k].ts = log[k].ts /\ log'[k].event = log[k].event
      /\ log'[n].ts = stamp /\ log'[n].event = what
  BY <1>6
<1>10. /\ Code!Asked = {k \in 1..Len(log) : log[k].event = "permission.asked"}
       /\ Code!Asked' = {k \in 1..n : log'[k].event = "permission.asked"}
  <2>1. DOMAIN log = 1..Len(log) /\ DOMAIN log' = 1..n
    BY <1>4, <1>6
  <2> QED BY <2>1 DEF Code!Asked
<1> HIDE DEF n
<1>11. Code!Asked' = IF what = "permission.asked" THEN Code!Asked \cup {n} ELSE Code!Asked
  BY <1>7, <1>8, <1>9, <1>10
<1>12. \A i, j \in 1..n : i <= j => log'[i].ts <= log'[j].ts
  <2> SUFFICES ASSUME NEW i \in 1..n, NEW j \in 1..n, i <= j PROVE log'[i].ts <= log'[j].ts
    OBVIOUS
  <2>1. CASE i \in 1..Len(log) /\ j \in 1..Len(log)
    BY <1>9, <2>1 DEF OpenCodeInv, Answers
  <2>2. CASE i \in 1..Len(log) /\ j = n
    <3>1. log[i].ts <= clock /\ log[i].ts \in 0..MaxClock
      BY LoggedPermission, <2>2 DEF OpenCodeInv, Answers
    <3> QED BY <1>4, <1>9, <2>2, <3>1
  <2>3. CASE i = n
    <3>1. j = n
      BY <1>7, <1>8, <2>3
    <3> QED BY <1>4, <1>9, <2>3, <3>1
  <2> QED BY <1>7, <2>1, <2>2, <2>3
<1>13. \A i \in 1..n : log'[i].ts <= clock'
  <2> SUFFICES ASSUME NEW i \in 1..n PROVE log'[i].ts <= clock'
    OBVIOUS
  <2>1. CASE i \in 1..Len(log)
    <3>1. log[i].ts <= clock /\ log[i].ts \in 0..MaxClock
      BY LoggedPermission, <2>1 DEF OpenCodeInv, Answers
    <3> QED BY <1>4, <1>9, <2>1, <3>1
  <2>2. CASE i = n
    BY <1>4, <1>9, <2>2
  <2> QED BY <1>7, <2>1, <2>2
<1>14. Code!Asked' # {} => \E i \in Code!Asked' : \A j \in Code!Asked' : j <= i
  <2>1. CASE what = "permission.asked"
    <3>1. \A j \in Code!Asked' : j <= n
      BY <1>4, <1>8, <1>10, <1>11, <2>1 DEF n
    <3> QED BY <1>11, <2>1, <3>1
  <2>2. CASE what # "permission.asked"
    BY <1>11, <2>2 DEF OpenCodeInv, Answers
  <2> QED BY <2>1, <2>2
<1>15. runtime' = "runs" =>
         \A i \in Code!Asked' : \E j \in 1..n : j >= i /\ log'[j].event = "permission.replied"
  <2> SUFFICES ASSUME runtime' = "runs", NEW i \in Code!Asked'
               PROVE  \E j \in 1..n : j >= i /\ log'[j].event = "permission.replied"
    OBVIOUS
  <2>1. what # "permission.asked" /\ i \in Code!Asked /\ i \in 1..Len(log)
    BY <1>10, <1>11
  <2>2. CASE what = "permission.replied"
    BY <1>4, <1>8, <1>9, <2>1, <2>2
  <2>3. CASE what # "permission.replied"
    <3>1. runtime = "runs"
      BY <2>1, <2>3
    <3>2. PICK j \in 1..Len(log) : j >= i /\ log[j].event = "permission.replied"
      BY <2>1, <3>1 DEF OpenCodeInv, Answers
    <3> QED BY <1>8, <1>9, <3>2
  <2> QED BY <2>2, <2>3
<1>16. runtime' = "stopping" => runtime = "stopping"
  BY DEF PermissionEvents
<1>17. Answers'
  <2>1. Len(log') <= MaxEvents /\ clock' \in 0..MaxClock
    BY <1>1, <1>2, <1>4, <1>6 DEF n
  <2> QED BY <1>1, <1>3, <1>6, <1>12, <1>13, <1>14, <1>15, <1>16, <2>1 DEF OpenCodeInv, Answers
<1> QED BY <1>1, <1>3, <1>17
     DEF OpenCodeInv, OpenCodeTyped, StartedInTurn, ResultFirst, Attended, WithoutMishap, BeforeSpawn,
         Code!Alive, Code!Background

\* The agent that the watchdog stops waits: one that runs has had its answer.
LEMMA WatchdogIsJust ==
    ASSUME OpenCodeInv, Code!Watchdog PROVE OpenCodeInv' /\ remedied' # "wrongly"
<1>1. /\ supervisor \in {"acknowledge", "watch"} /\ remedied = "no" /\ Code!DetectPermissionWait
      /\ remedied' = IF runtime = "waits" THEN "justly" ELSE IF Code!Alive THEN "wrongly" ELSE "late"
      /\ registered' = "failed" /\ runtime' = IF Code!Alive THEN "stopping" ELSE runtime
      /\ UNCHANGED <<plan, launcher, loop, holds, answer, supervisor, seen, proof, repository, drifted, stale,
                     log, clock, failed>>
  BY DEF Code!Watchdog, Code!launching, Code!supervising, Code!snapshots
<1>2. DOMAIN log = 1..Len(log) /\ Code!Asked = {k \in 1..Len(log) : log[k].event = "permission.asked"}
  <2>1. DOMAIN log = 1..Len(log)
    BY DEF OpenCodeInv, Answers
  <2> QED BY <2>1 DEF Code!Asked
<1>3. Code!Latest \in Code!Asked
  BY <1>1 DEF OpenCodeInv, Answers, Code!Latest, Code!DetectPermissionWait
<1>4. ASSUME runtime = "runs" PROVE FALSE
  <2>1. PICK j \in 1..Len(log) : j >= Code!Latest /\ log[j].event = "permission.replied"
    BY <1>3, <1>4 DEF OpenCodeInv, Answers
  <2>2. Code!Latest \in 1..Len(log)
    BY <1>2, <1>3
  <2>3. log[Code!Latest].ts \in 0..MaxClock /\ log[j].ts \in 0..MaxClock
    BY <2>2, LoggedPermission
  <2>4. log[Code!Latest].ts <= log[j].ts
    BY <2>1, <2>2 DEF OpenCodeInv, Answers
  <2>5. log[j].ts >= log[Code!Latest].ts
    BY <2>3, <2>4, OpenCodeLimit
  <2>6. Code!Since("permission.replied")
    BY <1>2, <2>1, <2>5 DEF Code!Since
  <2> QED BY <1>1, <2>6 DEF Code!DetectPermissionWait, Code!Replied, Code!Answered
<1>5. runtime # "stopping"
  BY <1>1 DEF OpenCodeInv, Answers
<1>6. remedied' \in {"justly", "late"}
  BY <1>1, <1>4, <1>5 DEF Code!Alive
<1>7. Answers'
  BY <1>1, <1>2, <1>6 DEF OpenCodeInv, Answers, Code!Asked, Code!Alive
<1> QED BY <1>1, <1>6, <1>7
     DEF OpenCodeInv, OpenCodeTyped, StartedInTurn, ResultFirst, Attended, WithoutMishap, BeforeSpawn,
         Code!Alive, Code!Background, Code!Terminal

LEMMA OpenCodeMeans == OpenCodeInv => Code!OpenCodeTypeOK /\ Code!OpenCodeSafe
<1> SUFFICES ASSUME OpenCodeInv PROVE Code!OpenCodeTypeOK /\ Code!OpenCodeSafe
  OBVIOUS
<1> USE DEF OpenCodeInv
<1>1. Code!OpenCodeTypeOK
  BY DEF OpenCodeTyped, Answers, Code!OpenCodeTypeOK
<1>2. Code!LeaseCoversAgent
  BY DEF OpenCodeTyped, StartedInTurn, Attended, WithoutMishap, BeforeSpawn, Code!LeaseCoversAgent,
     Code!Alive, Code!Background
<1>3. Code!PrimerMatchesLease
  BY DEF StartedInTurn, Code!PrimerMatchesLease, Code!Alive
<1>4. Code!PendingIsWatched
  BY OpenCodeLimit DEF OpenCodeTyped, ResultFirst, WithoutMishap, Code!PendingIsWatched, Code!Terminal
<1>5. Code!RemediesWaiting
  BY DEF Answers, Code!RemediesWaiting
<1> QED BY <1>1, <1>2, <1>3, <1>4, <1>5 DEF Code!OpenCodeSafe

LEMMA OpenCodeStarts == HostInit => OpenCodeHolds
<1> SUFFICES ASSUME Code!OpenCodeInit PROVE OpenCodeInv
  BY DEF HostInit, PartInit, OpenCodeHolds
<1> USE OpenCodeLimit DEF Code!OpenCodeInit
<1>1. OpenCodeTyped
  <2>1. holds \in BOOLEAN
    OBVIOUS
  <2>2. drifted \in BOOLEAN
    OBVIOUS
  <2>3. stale \in BOOLEAN
    OBVIOUS
  <2> QED BY <2>1, <2>2, <2>3 DEF OpenCodeTyped, Code!Terminal
<1>2. Answers
  <2>1. log \in Seq(PermissionRecords) /\ Len(log) = 0 /\ Code!Asked = {}
    BY DEF Code!Asked
  <2> QED BY <2>1 DEF Answers
<1>3. StartedInTurn /\ ResultFirst /\ Attended /\ WithoutMishap
  BY DEF StartedInTurn, ResultFirst, Attended, WithoutMishap, BeforeSpawn, Code!Alive, Code!Terminal
<1> QED BY <1>1, <1>2, <1>3 DEF OpenCodeInv

LEMMA OpenCodeNextKeeps == OpenCodeInv /\ Code!OpenCodeNext => OpenCodeInv'
<1> SUFFICES ASSUME OpenCodeInv, Code!OpenCodeNext PROVE OpenCodeInv'
  OBVIOUS
<1>1. CASE Code!Ask
  BY <1>1, PermissionLogged DEF Code!Ask, Code!Alive, PermissionEvents
<1>2. CASE Code!Reply
  BY <1>2, PermissionLogged DEF Code!Reply, Code!Alive, PermissionEvents
<1>3. CASE Code!SessionIdle
  BY <1>3, PermissionLogged DEF Code!SessionIdle, PermissionEvents
<1>4. CASE Code!Watchdog
  BY <1>4, WatchdogIsJust
<1> QED BY <1>1, <1>2, <1>3, <1>4, OpenCodeLaunches, OpenCodeSupervises, OpenCodeSuffers
     DEF Code!OpenCodeNext

LEMMA OpenCodeStepsKeep == OpenCodeHolds /\ [HostNext]_hostVars => OpenCodeHolds'
<1> SUFFICES ASSUME OpenCodeHolds, [HostNext]_hostVars, part' = "opencode" PROVE OpenCodeInv'
  BY DEF OpenCodeHolds
<1>1. CASE OpenCodeStep
  BY <1>1, OpenCodeNextKeeps DEF OpenCodeStep, OpenCodeHolds
<1>2. CASE UNCHANGED hostVars
  <2>1. UNCHANGED <<part, openCodeVars>>
    BY <1>2 DEF hostVars
  <2> QED BY <2>1 DEF openCodeVars, OpenCodeHolds, OpenCodeInv, OpenCodeTyped, StartedInTurn, ResultFirst,
       Attended, WithoutMishap, Answers, BeforeSpawn, Code!Alive, Code!Background, Code!Asked
<1>3. CASE DeployStep \/ EvidenceStep \/ InboxStep \/ TrashStep \/ ServerStep \/ HubStep
  BY <1>3 DEF DeployStep, EvidenceStep, InboxStep, TrashStep, ServerStep, HubStep
<1> QED BY <1>1, <1>2, <1>3 DEF HostNext

\* Neither the launcher nor the supervisor of an OpenCode deployment gives the repository
\* back before the registry has a result, and no step takes a live owner's evidence from
\* its path but by the owner's own hand: HostSteps.
THEOREM HostStepsAreSafe == HostSpec => HostSteps
<1>1. OpenCodeHolds /\ EvidenceHolds /\ [HostNext]_hostVars =>
        [ /\ part = "opencode" => Code!ReleasedAfterRow
          /\ part = "evidence" => File!LiveEvidence ]_hostVars
  <2> SUFFICES ASSUME OpenCodeHolds, EvidenceHolds, HostNext
               PROVE  /\ part = "opencode" => Code!ReleasedAfterRow
                      /\ part = "evidence" => File!LiveEvidence
    OBVIOUS
  <2>1. ASSUME part = "evidence" PROVE File!LiveEvidence
    BY <2>1, EvidenceStays
    DEF EvidenceHolds, HostNext, EvidenceStep, DeployStep, OpenCodeStep, InboxStep, TrashStep, ServerStep,
        HubStep
  <2>2. ASSUME part = "opencode" PROVE Code!ReleasedAfterRow
    <3>1. OpenCodeInv /\ Code!OpenCodeNext
      BY <2>2 DEF OpenCodeHolds, HostNext, EvidenceStep, DeployStep, OpenCodeStep, InboxStep, TrashStep,
         ServerStep, HubStep
    <3> SUFFICES ASSUME repository \in {"launcher", "supervisor"}, repository' = "nobody"
                 PROVE  registered' \in Code!Terminal
      BY DEF Code!ReleasedAfterRow
    <3> USE DEF Code!launching, Code!supervising, Code!snapshots, Code!permissions
    <3>2. Code!Release \/ Code!SupervisorReleases
      <4>1. CASE \/ Code!EmitStarted \/ Code!Acquire \/ Code!WritePrimer \/ Code!Compare
                 \/ Code!Spawn \/ Code!Ready \/ Code!NotReady \/ Code!Stop
                 \/ Code!Report \/ Code!Complete \/ Code!Catch
        BY <4>1 DEF Code!EmitStarted, Code!Acquire, Code!WritePrimer, Code!Compare,
           Code!Spawn, Code!Ready, Code!NotReady, Code!Stop, Code!Report,
           Code!Complete, Code!Catch
      <4>2. CASE \/ Code!Transfer \/ Code!StartAgent \/ Code!Acknowledge \/ Code!ReadStatus
                 \/ Code!Record \/ Code!Fail \/ Code!Finally
        BY <4>2 DEF Code!Transfer, Code!StartAgent, Code!Acknowledge, Code!ReadStatus,
           Code!Record, Code!Fail, Code!Finally
      <4>3. CASE \/ Code!Ask \/ Code!Reply \/ Code!SessionIdle \/ Code!Watchdog
                 \/ Code!AgentEnds \/ Code!ForegroundTimeout \/ Code!EditTree
                 \/ Code!KillLauncher \/ Code!KillSupervisor \/ Code!Rival
        BY <4>3 DEF Code!Ask, Code!Reply, Code!SessionIdle, Code!Event, Code!Watchdog,
           Code!AgentEnds, Code!ForegroundTimeout, Code!EditTree, Code!KillLauncher,
           Code!KillSupervisor, Code!Rival
      <4> QED BY <3>1, <4>1, <4>2, <4>3 DEF Code!OpenCodeNext
    <3> QED BY <3>1, <3>2 DEF OpenCodeInv, ResultFirst, Code!Release, Code!SupervisorReleases
  <2> QED BY <2>1, <2>2
<1> QED BY OpenCodeStarts, OpenCodeStepsKeep, EvidenceStarts, EvidenceStepsKeep, <1>1, PTL DEF HostSpec, HostSteps

-----------------------------------------------------------------------------
(* The Pi deployment.                                                      *)

Early == {"idle", "select", "branch", "materialize", "plan", "tools"}
Unadmitted == Early \cup {"protect", "hooks", "authorize"}
Admitted == {"preflight", "recheck", "spawn"}
Ending == {"publish", "settle", "owner", "permit", "row", "file"}
CallSteps == Unadmitted \cup Admitted \cup {"running"} \cup Ending \cup {"returned", "threw"}
EndedRows == {"success", "partial", "failed", "crashed"}
CallOrNone == Calls \cup {NoOne}

Views == {<<>>} \cup (Nat \X Nat \X CallOrNone \X CallOrNone)

CallFields ==
    [at : CallSteps, bg : BOOLEAN, parent : CallOrNone, base : Nat, plan : Nat,
     seen : Views,
     has : SUBSET {"slot", "lease", "borrower", "review"}, started : BOOLEAN, verified : BOOLEAN,
     want : {"none"} \cup EndedRows, told : BOOLEAN, again : BOOLEAN, pending : BOOLEAN,
     result : {"none", "failed", "success", "pending"}]

DeployTyped ==
    /\ tree \in Nat /\ linked \in Nat /\ edits \in Nat /\ faults \in Nat
    /\ tree = edits + 1 /\ linked >= 1 /\ linked <= tree /\ faults + edits <= MaxMishaps
    /\ slot \in [by : CallOrNone, intent : BOOLEAN]
    /\ lease \in CallOrNone /\ borrower \in CallOrNone /\ review \in CallOrNone
    /\ row \in [Calls -> {"none", "running"} \cup EndedRows]
    /\ file \in [Calls -> {"none", "success", "failed"}]
    /\ agent \in [Calls -> {"none", "live", "ended"}]
    /\ launch \in [Calls -> CallFields]

\* What a call has it knows of until it returns, and it is of the call's kind.
Knows ==
    {d \in Calls :
       /\ launch[d].at # "returned" =>
            /\ slot.by = d <=> "slot" \in launch[d].has
            /\ lease = d <=> "lease" \in launch[d].has
            /\ borrower = d <=> "borrower" \in launch[d].has
            /\ review = d <=> "review" \in launch[d].has
       /\ "slot" \in launch[d].has \/ "lease" \in launch[d].has => Kind[d] = "orchestrator"
       /\ "borrower" \in launch[d].has => Kind[d] = "child"
       /\ "review" \in launch[d].has => Kind[d] = "review"
       /\ launch[d].at \in {"idle", "select"} => launch[d].has = {}
       /\ launch[d].at \in Unadmitted => launch[d].has \subseteq {"slot", "review"}
       /\ launch[d].at \in Admitted \cup {"running"} =>
            /\ Kind[d] = "child" => "borrower" \in launch[d].has
            /\ Kind[d] = "orchestrator" => "lease" \in launch[d].has
       /\ Kind[d] \in {"child", "review"} /\ launch[d].at \notin {"idle", "returned"} => launch[d].bg}

\* A runtime was started by its call, and is still attended to, handed over, or left
\* with its cleanup unverified.
AttendedCalls ==
    {d \in Calls :
       /\ launch[d].at \in Unadmitted \cup Admitted => ~launch[d].started /\ agent[d] = "none"
       /\ agent[d] = "live" =>
            /\ launch[d].started
            /\ launch[d].at = "running" \/ launch[d].pending \/ ~launch[d].verified
            /\ Kind[d] = "review" => ~launch[d].verified /\ review = d
            /\ Kind[d] = "child" => borrower = d
            /\ Kind[d] = "orchestrator" /\ launch[d].verified => lease = d
       /\ launch[d].pending => launch[d].at = "returned" /\ launch[d].result = "pending"}

\* What is kept is told, stage by stage of writeTerminal, and the row comes before the
\* file.
ToldCalls ==
    {d \in Calls :
       /\ launch[d].at \in Early => row[d] = "none"
       /\ launch[d].at # "returned" => file[d] = "none"
       /\ launch[d].at \in Ending =>
            launch[d].want \in EndedRows /\ (launch[d].bg => launch[d].want \in Pi!Failed)
       /\ "borrower" \in launch[d].has /\ launch[d].at \in {"owner", "permit", "row", "file"} => launch[d].told
       /\ "lease" \in launch[d].has /\ launch[d].at \in {"permit", "row", "file"} => launch[d].told
       /\ "slot" \in launch[d].has /\ launch[d].at \in {"row", "file"} => launch[d].told
       /\ "borrower" \in launch[d].has /\ launch[d].started /\ launch[d].at \in Ending \ {"publish"} =>
            row[d] \in Pi!Failed
       /\ launch[d].at = "file" =>
            /\ row[d] \in EndedRows
            /\ launch[d].told \/ launch[d].want \in Pi!Failed => row[d] \in Pi!Failed
       /\ launch[d].at = "returned" /\ launch[d].result # "pending" =>
            /\ ~launch[d].told => d \notin {slot.by, lease, borrower, review}
            /\ launch[d].result = "success" => row[d] \in {"success", "partial"} /\ file[d] = "success"
            /\ launch[d].result = "failed" /\ row[d] # "none" => row[d] \in Pi!Failed /\ file[d] # "success"}

\* The inductive invariant behind the Pi half of LaunchesSafe.
DeployInv ==
    DeployTyped /\ Calls \subseteq Knows /\ Calls \subseteq AttendedCalls /\ Calls \subseteq ToldCalls

DeployHolds == part = "deploy" => DeployInv

LEMMA DeployConstantsHold ==
    /\ Kind \in [Calls -> {"orchestrator", "child", "review", "selection"}]
    /\ NoOne \notin Calls /\ MaxMishaps \in Nat
BY DeployConstants DEF Pi!PiDeployAssumption

\* Everything of DeployTyped but the calls.
CallsTyped ==
    /\ tree \in Nat /\ linked \in Nat /\ edits \in Nat /\ faults \in Nat
    /\ tree = edits + 1 /\ linked >= 1 /\ linked <= tree /\ faults + edits <= MaxMishaps
    /\ slot \in [by : CallOrNone, intent : BOOLEAN]
    /\ lease \in CallOrNone /\ borrower \in CallOrNone /\ review \in CallOrNone
    /\ row \in [Calls -> {"none", "running"} \cup EndedRows]
    /\ file \in [Calls -> {"none", "success", "failed"}]
    /\ agent \in [Calls -> {"none", "live", "ended"}]

\* The custody another call has is not touched: what changes is taken from nobody or
\* was the call's own.
OwnOnly(d, was, is) == is = was \/ (was \in {d, NoOne} /\ is \in {d, NoOne})

\* A step of one call keeps what holds of the others.
LEMMA OneCall ==
    ASSUME DeployInv, NEW d \in Calls, NEW c \in CallFields,
           launch' = [launch EXCEPT ![d] = c], CallsTyped',
           \A e \in Calls \ {d} : row'[e] = row[e] /\ file'[e] = file[e] /\ agent'[e] = agent[e],
           OwnOnly(d, slot.by, slot'.by), OwnOnly(d, lease, lease'),
           OwnOnly(d, borrower, borrower'), OwnOnly(d, review, review'),
           d \in Knows' /\ d \in AttendedCalls' /\ d \in ToldCalls'
    PROVE  DeployInv'
<1>1. launch \in [Calls -> CallFields] /\ launch' \in [Calls -> CallFields]
  BY DEF DeployInv, DeployTyped
<1>2. DeployTyped'
  BY <1>1 DEF CallsTyped, DeployTyped
<1>3. ASSUME NEW e \in Calls, e # d PROVE e \in Knows' /\ e \in AttendedCalls' /\ e \in ToldCalls'
  <2>1. launch'[e] = launch[e] /\ row'[e] = row[e] /\ file'[e] = file[e] /\ agent'[e] = agent[e]
    BY <1>1, <1>3
  <2>2. e # NoOne
    BY DeployConstantsHold
  <2>3. /\ slot'.by = e <=> slot.by = e
        /\ lease' = e <=> lease = e
        /\ borrower' = e <=> borrower = e
        /\ review' = e <=> review = e
    BY <1>3, <2>2 DEF OwnOnly
  <2>4. e \in Knows /\ e \in AttendedCalls /\ e \in ToldCalls
    BY DEF DeployInv
  <2>5. e \in Knows'
    BY <2>1, <2>3, <2>4 DEF Knows
  <2>6. e \in AttendedCalls'
    BY <2>1, <2>3, <2>4 DEF AttendedCalls
  <2>7. e \in ToldCalls'
    BY <2>1, <2>3, <2>4 DEF ToldCalls
  <2> QED BY <2>5, <2>6, <2>7
<1> QED BY <1>2, <1>3 DEF DeployInv

\* What a call's record is before the step.
LEMMA CallShape ==
    ASSUME DeployInv, NEW d \in Calls
    PROVE  /\ launch[d] \in CallFields /\ d # NoOne /\ CallsTyped
           /\ launch \in [Calls -> CallFields]
           /\ d \in Knows /\ d \in AttendedCalls /\ d \in ToldCalls
BY DeployConstantsHold DEF DeployInv, DeployTyped, CallsTyped

LEMMA RecordGoes ==
    ASSUME NEW c \in CallFields, NEW step \in CallSteps
    PROVE  [c EXCEPT !.at = step] \in CallFields
BY DEF CallFields

\* A call that goes to another step and leaves everything else alone.
LEMMA CallGoes ==
    ASSUME DeployInv, NEW d \in Calls, NEW step \in CallSteps, Pi!Goes(d, step),
           UNCHANGED <<tree, linked, lease, borrower, review, agent, faults, edits, file>>,
           slot' = slot \/ slot' = [slot EXCEPT !.intent = TRUE],
           row' = row \/ (step \notin Early /\ row' = [row EXCEPT ![d] = "running"]),
           \/ launch[d].at = "branch" /\ step = "materialize"
           \/ launch[d].at = "tools" /\ step \in {"protect", "hooks"}
           \/ launch[d].at = "protect" /\ step = "hooks"
           \/ launch[d].at = "hooks" /\ step = "authorize"
           \/ launch[d].at = "authorize" /\ Kind[d] \in {"review", "selection"} /\ step = "preflight"
           \/ launch[d].at = "preflight" /\ step = "recheck"
    PROVE  DeployInv'
<1> DEFINE c == [launch[d] EXCEPT !.at = step]
<1> USE CallShape
<1>1. c \in CallFields
  BY RecordGoes
<1>2. launch' = [launch EXCEPT ![d] = c]
  BY DEF Pi!Goes, Pi!Sets
<1>3. /\ c.at = step /\ c.has = launch[d].has /\ c.started = launch[d].started /\ c.bg = launch[d].bg
      /\ c.verified = launch[d].verified /\ c.pending = launch[d].pending /\ c.result = launch[d].result
      /\ c.told = launch[d].told /\ c.want = launch[d].want
  BY DEF CallFields
<1> HIDE DEF c
<1>4. launch'[d] = c
  BY <1>2
<1>5. /\ slot' \in [by : CallOrNone, intent : BOOLEAN] /\ slot'.by = slot.by
      /\ row' \in [Calls -> {"none", "running"} \cup EndedRows]
      /\ \A e \in Calls \ {d} : row'[e] = row[e]
  BY DEF CallsTyped
<1>6. CallsTyped'
  BY <1>5 DEF CallsTyped
<1>7. d \in Knows'
  BY <1>3, <1>4, <1>5 DEF Knows, Early, Unadmitted, Admitted
<1>8. d \in AttendedCalls'
  BY <1>3, <1>4 DEF AttendedCalls, Early, Unadmitted, Admitted
<1>9. d \in ToldCalls'
  BY <1>3, <1>4, <1>5 DEF ToldCalls, Early, Ending
<1> QED BY <1>1, <1>2, <1>5, <1>6, <1>7, <1>8, <1>9, OneCall DEF OwnOnly

\* The records that the steps write.
LEMMA ReservedRecord ==
    ASSUME NEW c \in CallFields, NEW step \in CallSteps, NEW n \in Nat,
           NEW h \in SUBSET {"slot", "lease", "borrower", "review"}
    PROVE  [c EXCEPT !.at = step, !.base = n, !.has = h] \in CallFields
BY DEF CallFields

LEMMA SelectedRecord ==
    ASSUME NEW c \in CallFields, NEW step \in CallSteps, NEW n \in Nat,
           NEW view \in Views
    PROVE  [c EXCEPT !.at = step, !.base = n, !.seen = view] \in CallFields
BY DEF CallFields

LEMMA HoldingRecord ==
    ASSUME NEW c \in CallFields, NEW step \in CallSteps, NEW h \in SUBSET {"slot", "lease", "borrower", "review"}
    PROVE  [c EXCEPT !.at = step, !.has = h] \in CallFields
BY DEF CallFields

LEMMA BasedRecord ==
    ASSUME NEW c \in CallFields, NEW step \in CallSteps, NEW n \in Nat
    PROVE  [c EXCEPT !.at = step, !.base = n] \in CallFields
BY DEF CallFields

LEMMA PlannedRecord ==
    ASSUME NEW c \in CallFields, NEW step \in CallSteps, NEW n \in Nat
    PROVE  [c EXCEPT !.at = step, !.plan = n] \in CallFields
BY DEF CallFields

LEMMA BegunRecord ==
    ASSUME NEW c \in CallFields, NEW step \in CallSteps, NEW b \in BOOLEAN,
           NEW p \in CallOrNone
    PROVE  [c EXCEPT !.at = step, !.bg = b, !.parent = p] \in CallFields
BY DEF CallFields

LEMMA EndedRecord ==
    ASSUME NEW c \in CallFields, NEW step \in CallSteps, NEW outcome \in {"failed", "success", "pending"}
    PROVE  [c EXCEPT !.at = step, !.result = outcome] \in CallFields
BY DEF CallFields

LEMMA GivenBackRecord ==
    ASSUME NEW c \in CallFields, NEW step \in CallSteps, NEW b \in BOOLEAN,
           NEW outcome \in {"failed", "success", "pending"}
    PROVE  [[c EXCEPT !.told = b] EXCEPT !.at = step, !.result = outcome] \in CallFields
BY DEF CallFields

LEMMA FailingRecord ==
    ASSUME NEW c \in CallFields, NEW step \in CallSteps, NEW status \in EndedRows
    PROVE  [c EXCEPT !.at = step, !.want = status] \in CallFields
BY DEF CallFields

LEMMA LeasedRecord ==
    ASSUME NEW c \in CallFields, NEW step \in CallSteps, NEW n \in Nat,
           NEW h \in SUBSET {"slot", "lease", "borrower", "review"}
    PROVE  [c EXCEPT !.at = step, !.plan = n, !.has = h] \in CallFields
BY DEF CallFields

LEMMA StartedRecord ==
    ASSUME NEW c \in CallFields, NEW step \in CallSteps, NEW b \in BOOLEAN,
           NEW v \in BOOLEAN
    PROVE  [c EXCEPT !.at = step, !.started = b, !.verified = v] \in CallFields
BY DEF CallFields

LEMMA AnsweredRecord ==
    ASSUME NEW c \in CallFields, NEW step \in CallSteps, NEW b \in BOOLEAN,
           NEW status \in EndedRows
    PROVE  [[c EXCEPT !.at = step, !.want = status] EXCEPT !.verified = b] \in CallFields
BY DEF CallFields

LEMMA HandedOverRecord ==
    ASSUME NEW c \in CallFields, NEW step \in CallSteps, NEW h \in SUBSET {"slot", "lease", "borrower", "review"},
           NEW b \in BOOLEAN,
           NEW outcome \in {"failed", "success", "pending"}
    PROVE  [[c EXCEPT !.has = h, !.pending = b] EXCEPT !.at = step, !.result = outcome] \in CallFields
BY DEF CallFields

LEMMA SettledRecord ==
    ASSUME NEW c \in CallFields, NEW step \in CallSteps, NEW h \in SUBSET {"slot", "lease", "borrower", "review"},
           NEW b \in BOOLEAN
    PROVE  [c EXCEPT !.at = step, !.has = h, !.told = b] \in CallFields
BY DEF CallFields

LEMMA ToldRecord ==
    ASSUME NEW c \in CallFields, NEW step \in CallSteps, NEW b \in BOOLEAN
    PROVE  [c EXCEPT !.at = step, !.told = b] \in CallFields
BY DEF CallFields

LEMMA PublishedRecord ==
    ASSUME NEW c \in CallFields, NEW step \in CallSteps, NEW h \in SUBSET {"slot", "lease", "borrower", "review"},
           NEW b \in BOOLEAN,
           NEW outcome \in {"failed", "success", "pending"}
    PROVE  [[c EXCEPT !.has = h, !.told = b] EXCEPT !.at = step, !.result = outcome] \in CallFields
BY DEF CallFields

LEMMA RetriedRecord ==
    ASSUME NEW c \in CallFields, NEW step \in CallSteps, NEW b \in BOOLEAN,
           NEW status \in EndedRows
    PROVE  [[c EXCEPT !.at = step, !.want = status] EXCEPT !.again = b] \in CallFields
BY DEF CallFields

\* Up to the plan.
LEMMA CallSelects ==
    ASSUME DeployInv, NEW d \in Calls,
           \/ Pi!ReserveReview(d) \/ Pi!Select(d) \/ Pi!TakeSlot(d) \/ Pi!MarkIntent(d)
           \/ Pi!Materialize(d) \/ Pi!AuthenticateParent(d) \/ Pi!Plan(d)
    PROVE  DeployInv'
<1> USE CallShape, DeployConstantsHold
<1>1. CASE Pi!ReserveReview(d)
  <2> DEFINE c == [launch[d] EXCEPT !.at = "plan", !.base = tree, !.has = {"review"}]
  <2>1. /\ launch' = [launch EXCEPT ![d] = c]
        /\ launch[d].at = "select" /\ Kind[d] = "review" /\ review = NoOne /\ review' = d
        /\ UNCHANGED <<cast, tree, linked, agent, faults, edits>>
        /\ UNCHANGED <<row, file>>
        /\ UNCHANGED <<slot, lease, borrower>>
    BY <1>1 DEF Pi!ReserveReview, Pi!Sets, Pi!At, Pi!world, Pi!custody, Pi!records
  <2>2. c \in CallFields
    <3>1. "plan" \in CallSteps /\ tree \in Nat
      BY <2>1 DEF CallFields, CallsTyped, CallSteps, Unadmitted, Early, Admitted, Ending,
         EndedRows
    <3> QED BY <3>1, ReservedRecord
  <2>3. /\ c.at = "plan" /\ c.bg = launch[d].bg /\ c.has = {"review"}
        /\ c.started = launch[d].started /\ c.verified = launch[d].verified
        /\ c.want = launch[d].want /\ c.told = launch[d].told /\ c.pending = launch[d].pending
        /\ c.result = launch[d].result
    BY DEF CallFields
  <2> HIDE DEF c
  <2>4. launch'[d] = c
    BY <2>1
  <2>5. CallsTyped'
    BY <2>1 DEF CallsTyped, EndedRows, CallOrNone
  <2>6. d \in Knows'
    BY <2>1, <2>3, <2>4 DEF Knows, Early, Unadmitted, Admitted
  <2>7. d \in AttendedCalls'
    BY <2>1, <2>3, <2>4 DEF AttendedCalls, Early, Unadmitted, Admitted
  <2>8. d \in ToldCalls'
    BY <2>1, <2>3, <2>4 DEF ToldCalls, Early, Ending, EndedRows, Pi!Failed
  <2> QED BY <2>1, <2>2, <2>5, <2>6, <2>7, <2>8, OneCall DEF OwnOnly, CallsTyped
<1>2. CASE Pi!Select(d)
  <2> DEFINE c == [launch[d] EXCEPT !.at = "plan", !.base = tree, !.seen = Pi!Selection]
  <2>1. /\ launch' = [launch EXCEPT ![d] = c]
        /\ launch[d].at = "select" /\ Kind[d] = "selection"
        /\ UNCHANGED <<cast, tree, linked, agent, faults, edits>>
        /\ UNCHANGED <<row, file>>
        /\ UNCHANGED <<slot, lease, borrower, review>>
    BY <1>2 DEF Pi!Select, Pi!Sets, Pi!At, Pi!world, Pi!custody, Pi!records
  <2>2. c \in CallFields
    <3>1. "plan" \in CallSteps /\ tree \in Nat /\ Pi!Selection \in Views
      BY <2>1 DEF CallFields, CallsTyped, CallSteps, Unadmitted, Early, Admitted, Ending,
         EndedRows, Views, Pi!Selection
    <3> QED BY <3>1, SelectedRecord
  <2>3. /\ c.at = "plan" /\ c.bg = launch[d].bg /\ c.has = launch[d].has
        /\ c.started = launch[d].started /\ c.verified = launch[d].verified
        /\ c.want = launch[d].want /\ c.told = launch[d].told /\ c.pending = launch[d].pending
        /\ c.result = launch[d].result
    BY DEF CallFields
  <2> HIDE DEF c
  <2>4. launch'[d] = c
    BY <2>1
  <2>5. CallsTyped'
    BY <2>1 DEF CallsTyped, EndedRows, CallOrNone, Views, Pi!Selection
  <2>6. d \in Knows'
    BY <2>1, <2>3, <2>4 DEF Knows, Early, Unadmitted, Admitted
  <2>7. d \in AttendedCalls'
    BY <2>1, <2>3, <2>4 DEF AttendedCalls, Early, Unadmitted, Admitted
  <2>8. d \in ToldCalls'
    BY <2>1, <2>3, <2>4 DEF ToldCalls, Early, Ending, EndedRows, Pi!Failed
  <2> QED BY <2>1, <2>2, <2>5, <2>6, <2>7, <2>8, OneCall DEF OwnOnly, CallsTyped
<1>3. CASE Pi!TakeSlot(d)
  <2> DEFINE c == [launch[d] EXCEPT !.at = "branch", !.has = {"slot"}]
  <2>1. /\ launch' = [launch EXCEPT ![d] = c]
        /\ launch[d].at = "select" /\ Kind[d] = "orchestrator" /\ slot.by = NoOne /\ slot' = [by |-> d, intent |-> FALSE]
        /\ UNCHANGED <<cast, tree, linked, agent, faults, edits>>
        /\ UNCHANGED <<row, file>>
        /\ UNCHANGED <<lease, borrower, review>>
    BY <1>3 DEF Pi!TakeSlot, Pi!Sets, Pi!At, Pi!world, Pi!custody, Pi!records
  <2>2. c \in CallFields
    <3>1. "branch" \in CallSteps
      BY DEF CallSteps, Unadmitted, Early, Admitted, Ending
    <3> QED BY <3>1, HoldingRecord
  <2>3. /\ c.at = "branch" /\ c.bg = launch[d].bg /\ c.has = {"slot"}
        /\ c.started = launch[d].started /\ c.verified = launch[d].verified
        /\ c.want = launch[d].want /\ c.told = launch[d].told /\ c.pending = launch[d].pending
        /\ c.result = launch[d].result
    BY DEF CallFields
  <2> HIDE DEF c
  <2>4. launch'[d] = c
    BY <2>1
  <2>5. CallsTyped'
    BY <2>1 DEF CallsTyped, EndedRows, CallOrNone
  <2>6. d \in Knows'
    BY <2>1, <2>3, <2>4 DEF Knows, Early, Unadmitted, Admitted
  <2>7. d \in AttendedCalls'
    BY <2>1, <2>3, <2>4 DEF AttendedCalls, Early, Unadmitted, Admitted
  <2>8. d \in ToldCalls'
    BY <2>1, <2>3, <2>4 DEF ToldCalls, Early, Ending, EndedRows, Pi!Failed
  <2> QED BY <2>1, <2>2, <2>5, <2>6, <2>7, <2>8, OneCall DEF OwnOnly, CallsTyped
<1>4. CASE Pi!MarkIntent(d)
  BY <1>4, CallGoes DEF Pi!MarkIntent, Pi!At, Pi!world, Pi!custody, Pi!records, CallSteps, Unadmitted, Early
<1>5. CASE Pi!Materialize(d)
  <2> DEFINE c == [launch[d] EXCEPT !.at = "plan", !.base = tree]
  <2>1. /\ launch' = [launch EXCEPT ![d] = c]
        /\ launch[d].at = "materialize" /\ linked' = tree
        /\ UNCHANGED <<cast, tree, agent, faults, edits>>
        /\ UNCHANGED <<row, file>>
        /\ UNCHANGED <<slot, lease, borrower, review>>
    BY <1>5 DEF Pi!Materialize, Pi!Sets, Pi!At, Pi!world, Pi!custody, Pi!records
  <2>2. c \in CallFields
    <3>1. "plan" \in CallSteps /\ tree \in Nat
      BY <2>1 DEF CallFields, CallsTyped, CallSteps, Unadmitted, Early, Admitted, Ending,
         EndedRows
    <3> QED BY <3>1, BasedRecord
  <2>3. /\ c.at = "plan" /\ c.bg = launch[d].bg /\ c.has = launch[d].has
        /\ c.started = launch[d].started /\ c.verified = launch[d].verified
        /\ c.want = launch[d].want /\ c.told = launch[d].told /\ c.pending = launch[d].pending
        /\ c.result = launch[d].result
    BY DEF CallFields
  <2> HIDE DEF c
  <2>4. launch'[d] = c
    BY <2>1
  <2>5. CallsTyped'
    BY <2>1 DEF CallsTyped, EndedRows, CallOrNone
  <2>6. d \in Knows'
    BY <2>1, <2>3, <2>4 DEF Knows, Early, Unadmitted, Admitted
  <2>7. d \in AttendedCalls'
    BY <2>1, <2>3, <2>4 DEF AttendedCalls, Early, Unadmitted, Admitted
  <2>8. d \in ToldCalls'
    BY <2>1, <2>3, <2>4 DEF ToldCalls, Early, Ending, EndedRows, Pi!Failed
  <2> QED BY <2>1, <2>2, <2>5, <2>6, <2>7, <2>8, OneCall DEF OwnOnly, CallsTyped
<1>6. CASE Pi!AuthenticateParent(d)
  <2> DEFINE c == [launch[d] EXCEPT !.at = "plan", !.base = tree]
  <2>1. /\ launch' = [launch EXCEPT ![d] = c]
        /\ launch[d].at = "select" /\ Kind[d] = "child"
        /\ UNCHANGED <<cast, tree, linked, agent, faults, edits>>
        /\ UNCHANGED <<row, file>>
        /\ UNCHANGED <<slot, lease, borrower, review>>
    BY <1>6 DEF Pi!AuthenticateParent, Pi!Sets, Pi!At, Pi!world, Pi!custody,
       Pi!records
  <2>2. c \in CallFields
    <3>1. "plan" \in CallSteps /\ tree \in Nat
      BY <2>1 DEF CallFields, CallsTyped, CallSteps, Unadmitted, Early, Admitted, Ending,
         EndedRows
    <3> QED BY <3>1, BasedRecord
  <2>3. /\ c.at = "plan" /\ c.bg = launch[d].bg /\ c.has = launch[d].has
        /\ c.started = launch[d].started /\ c.verified = launch[d].verified
        /\ c.want = launch[d].want /\ c.told = launch[d].told /\ c.pending = launch[d].pending
        /\ c.result = launch[d].result
    BY DEF CallFields
  <2> HIDE DEF c
  <2>4. launch'[d] = c
    BY <2>1
  <2>5. CallsTyped'
    BY <2>1 DEF CallsTyped, EndedRows, CallOrNone
  <2>6. d \in Knows'
    BY <2>1, <2>3, <2>4 DEF Knows, Early, Unadmitted, Admitted
  <2>7. d \in AttendedCalls'
    BY <2>1, <2>3, <2>4 DEF AttendedCalls, Early, Unadmitted, Admitted
  <2>8. d \in ToldCalls'
    BY <2>1, <2>3, <2>4 DEF ToldCalls, Early, Ending, EndedRows, Pi!Failed
  <2> QED BY <2>1, <2>2, <2>5, <2>6, <2>7, <2>8, OneCall DEF OwnOnly, CallsTyped
<1>7. CASE Pi!Plan(d)
  <2> DEFINE c == [launch[d] EXCEPT !.at = "tools", !.plan = tree]
  <2>1. /\ launch' = [launch EXCEPT ![d] = c]
        /\ launch[d].at = "plan"
        /\ UNCHANGED <<cast, tree, linked, agent, faults, edits>>
        /\ UNCHANGED <<row, file>>
        /\ UNCHANGED <<slot, lease, borrower, review>>
    BY <1>7 DEF Pi!Plan, Pi!Sets, Pi!At, Pi!world, Pi!custody, Pi!records
  <2>2. c \in CallFields
    <3>1. "tools" \in CallSteps /\ tree \in Nat
      BY <2>1 DEF CallFields, CallsTyped, CallSteps, Unadmitted, Early, Admitted, Ending,
         EndedRows
    <3> QED BY <3>1, PlannedRecord
  <2>3. /\ c.at = "tools" /\ c.bg = launch[d].bg /\ c.has = launch[d].has
        /\ c.started = launch[d].started /\ c.verified = launch[d].verified
        /\ c.want = launch[d].want /\ c.told = launch[d].told /\ c.pending = launch[d].pending
        /\ c.result = launch[d].result
    BY DEF CallFields
  <2> HIDE DEF c
  <2>4. launch'[d] = c
    BY <2>1
  <2>5. CallsTyped'
    BY <2>1 DEF CallsTyped, EndedRows, CallOrNone
  <2>6. d \in Knows'
    BY <2>1, <2>3, <2>4 DEF Knows, Early, Unadmitted, Admitted
  <2>7. d \in AttendedCalls'
    BY <2>1, <2>3, <2>4 DEF AttendedCalls, Early, Unadmitted, Admitted
  <2>8. d \in ToldCalls'
    BY <2>1, <2>3, <2>4 DEF ToldCalls, Early, Ending, EndedRows, Pi!Failed
  <2> QED BY <2>1, <2>2, <2>5, <2>6, <2>7, <2>8, OneCall DEF OwnOnly, CallsTyped
<1> QED BY <1>1, <1>2, <1>3, <1>4, <1>5, <1>6, <1>7

\* A call begins, is refused, or ends before its started row.
LEMMA CallBegins ==
    ASSUME DeployInv, NEW d \in Calls,
           \/ Pi!Begin(d) \/ Pi!Refuse(d) \/ Pi!PlanningFails(d) \/ Pi!ToolsFail(d)
           \/ Pi!AnnounceThrows(d)
    PROVE  DeployInv'
<1> USE CallShape, DeployConstantsHold
<1>1. CASE Pi!Begin(d)
  <2>1. PICK bg \in BOOLEAN, p \in CallOrNone :
          /\ Kind[d] \in {"child", "review"} => bg
          /\ Pi!Sets(d, [launch[d] EXCEPT !.at = "select", !.bg = bg, !.parent = p])
    BY <1>1 DEF Pi!Begin, CallOrNone
  <2>2. launch[d].at = "idle" /\ UNCHANGED <<tree, linked, agent, faults, edits, slot, lease, borrower, review, row, file>>
    BY <1>1 DEF Pi!Begin, Pi!At, Pi!world, Pi!custody, Pi!records
  <2> QED
    <3> DEFINE c == [launch[d] EXCEPT !.at = "select", !.bg = bg, !.parent = p]
    <3>1. /\ launch' = [launch EXCEPT ![d] = c]
          /\ launch[d].at = "idle" /\ (Kind[d] \in {"child", "review"} => bg)
          /\ UNCHANGED <<tree, linked, agent, faults, edits, slot, lease, borrower, review, row, file>>
      BY <2>1, <2>2 DEF Pi!Sets
    <3>2. c \in CallFields
      <4>1. "select" \in CallSteps
        BY DEF CallSteps, Unadmitted, Early, Admitted, Ending
      <4> QED BY <4>1, BegunRecord
    <3>3. /\ c.at = "select" /\ c.bg = bg /\ c.has = launch[d].has /\ c.started = launch[d].started
          /\ c.verified = launch[d].verified /\ c.want = launch[d].want /\ c.told = launch[d].told
          /\ c.pending = launch[d].pending /\ c.result = launch[d].result
      BY DEF CallFields
    <3> HIDE DEF c
    <3>4. launch'[d] = c
      BY <3>1
    <3>5. CallsTyped'
      BY <3>1 DEF CallsTyped, EndedRows, CallOrNone
    <3>6. d \in Knows'
      BY <3>1, <3>3, <3>4 DEF Knows, Early, Unadmitted, Admitted
    <3>7. d \in AttendedCalls'
      BY <3>1, <3>3, <3>4 DEF AttendedCalls, Early, Unadmitted, Admitted
    <3>8. d \in ToldCalls'
      BY <3>1, <3>3, <3>4 DEF ToldCalls, Early, Ending, EndedRows, Pi!Failed
    <3> QED BY <3>1, <3>2, <3>5, <3>6, <3>7, <3>8, OneCall DEF OwnOnly, CallsTyped
<1>2. CASE Pi!Refuse(d)
  <2> DEFINE c == [launch[d] EXCEPT !.at = "returned", !.result = "failed"]
  <2>1. /\ launch' = [launch EXCEPT ![d] = c]
        /\ launch[d].at = "idle" /\ Kind[d] # "child"
        /\ \/ row' = row /\ file' = file
           \/ row' = [row EXCEPT ![d] = "failed"] /\ file' = [file EXCEPT ![d] = "failed"]
        /\ UNCHANGED <<cast, tree, linked, agent, faults, edits>>
        /\ UNCHANGED <<slot, lease, borrower, review>>
    BY <1>2 DEF Pi!Refuse, Pi!Sets, Pi!Ends, CallsTyped, Pi!At, Pi!world,
       Pi!custody, Pi!records
  <2>2. c \in CallFields
    <3>1. "returned" \in CallSteps
      BY DEF CallSteps, Unadmitted, Early, Admitted, Ending
    <3> QED BY <3>1, EndedRecord
  <2>3. /\ c.at = "returned" /\ c.bg = launch[d].bg /\ c.has = launch[d].has
        /\ c.started = launch[d].started /\ c.verified = launch[d].verified
        /\ c.want = launch[d].want /\ c.told = launch[d].told /\ c.pending = launch[d].pending
        /\ c.result = "failed"
    BY DEF CallFields
  <2> HIDE DEF c
  <2>4. launch'[d] = c
    BY <2>1
  <2>5. CallsTyped'
    BY <2>1 DEF CallsTyped, EndedRows, CallOrNone
  <2>6. d \in Knows'
    BY <2>1, <2>3, <2>4 DEF Knows, Early, Unadmitted, Admitted
  <2>7. d \in AttendedCalls'
    BY <2>1, <2>3, <2>4 DEF AttendedCalls, Early, Unadmitted, Admitted
  <2>8. d \in ToldCalls'
    BY <2>1, <2>3, <2>4 DEF ToldCalls, Early, Ending, EndedRows, Pi!Failed, Knows, CallsTyped
  <2> QED BY <2>1, <2>2, <2>5, <2>6, <2>7, <2>8, OneCall DEF OwnOnly, CallsTyped
<1>3. CASE Pi!PlanningFails(d)
  <2>1. PICK lost \in BOOLEAN : Pi!MayLose(d, lost) /\ Pi!GiveBackUnstarted(d, lost)
    BY <1>3 DEF Pi!PlanningFails
  <2>2. /\ launch[d].at \in {"select", "branch", "materialize", "plan"}
        /\ row' = [row EXCEPT ![d] = "failed"]
        /\ file' = [file EXCEPT ![d] = "failed"]
    BY <1>3 DEF Pi!PlanningFails, Pi!At, Pi!Reconciled, Pi!Failed, ToldCalls, Early
  <2> DEFINE keeps == Pi!UnstartedSlot(d) \/ lost
  <2>3. keeps \in BOOLEAN /\ (keeps <=> (slot.by = d /\ slot.intent) \/ lost)
    BY DEF Pi!UnstartedSlot
  <2>4. launch' = [launch EXCEPT ![d] = [[launch[d] EXCEPT !.told = keeps] EXCEPT !.at = "returned", !.result = "failed"]]
    BY <2>1 DEF Pi!GiveBackUnstarted, Pi!Ends, Pi!Sets
  <2> HIDE DEF keeps
  <2> QED
    <3> DEFINE c == [[launch[d] EXCEPT !.told = keeps] EXCEPT !.at = "returned", !.result = "failed"]
    <3>1. /\ launch' = [launch EXCEPT ![d] = c]
          /\ slot' = IF slot.by = d /\ ~slot.intent THEN [by |-> NoOne, intent |-> FALSE] ELSE slot
          /\ review' = IF review = d /\ ~lost THEN NoOne ELSE review
          /\ faults' \in Nat /\ faults' + edits <= MaxMishaps
          /\ UNCHANGED <<tree, linked, agent, edits, lease, borrower>>
          /\ launch[d].at \in {"select", "branch", "materialize", "plan"}
          /\ row' = [row EXCEPT ![d] = "failed"]
          /\ file' = [file EXCEPT ![d] = "failed"]
      BY <2>1, <2>2, <2>4 DEF Pi!MayLose, Pi!GiveBackUnstarted, Pi!NoSlot, CallsTyped
    <3>2. c \in CallFields
      <4>1. "returned" \in CallSteps /\ keeps \in BOOLEAN
        BY <3>1, <2>3 DEF CallFields, CallsTyped, CallSteps, Unadmitted, Early, Admitted, Ending,
           EndedRows
      <4> QED BY <4>1, GivenBackRecord
    <3>3. /\ c.at = "returned" /\ c.bg = launch[d].bg /\ c.has = launch[d].has
          /\ c.started = launch[d].started /\ c.verified = launch[d].verified
          /\ c.want = launch[d].want /\ c.told = keeps /\ c.pending = launch[d].pending
          /\ c.result = "failed"
      BY DEF CallFields
    <3> HIDE DEF c
    <3>4. launch'[d] = c
      BY <3>1
    <3>5. CallsTyped'
      BY <3>1 DEF CallsTyped, EndedRows, CallOrNone
    <3>6. d \in Knows'
      BY <3>1, <3>3, <3>4 DEF Knows, Early, Unadmitted, Admitted
    <3>7. d \in AttendedCalls'
      BY <3>1, <3>3, <3>4 DEF AttendedCalls, Early, Unadmitted, Admitted
    <3>8. d \in ToldCalls'
      BY <3>1, <3>3, <3>4, <2>3 DEF ToldCalls, Early, Ending, EndedRows, Pi!Failed, Knows, Unadmitted
    <3> QED BY <3>1, <3>2, <3>5, <3>6, <3>7, <3>8, OneCall DEF OwnOnly, CallsTyped
<1>4. CASE Pi!ToolsFail(d)
  <2>1. PICK lost \in BOOLEAN : Pi!MayLose(d, lost) /\ Pi!GiveBackUnstarted(d, lost)
    BY <1>4 DEF Pi!ToolsFail
  <2>2. /\ launch[d].at = "tools"
        /\ row' = [row EXCEPT ![d] = IF review = d THEN "failed" ELSE row[d]]
        /\ file' = file
    BY <1>4 DEF Pi!ToolsFail, Pi!At, Pi!Reconciled, Pi!Failed, ToldCalls, Early
  <2> DEFINE keeps == Pi!UnstartedSlot(d) \/ lost
  <2>3. keeps \in BOOLEAN /\ (keeps <=> (slot.by = d /\ slot.intent) \/ lost)
    BY DEF Pi!UnstartedSlot
  <2>4. launch' = [launch EXCEPT ![d] = [[launch[d] EXCEPT !.told = keeps] EXCEPT !.at = "returned", !.result = "failed"]]
    BY <2>1 DEF Pi!GiveBackUnstarted, Pi!Ends, Pi!Sets
  <2> HIDE DEF keeps
  <2> QED
    <3> DEFINE c == [[launch[d] EXCEPT !.told = keeps] EXCEPT !.at = "returned", !.result = "failed"]
    <3>1. /\ launch' = [launch EXCEPT ![d] = c]
          /\ slot' = IF slot.by = d /\ ~slot.intent THEN [by |-> NoOne, intent |-> FALSE] ELSE slot
          /\ review' = IF review = d /\ ~lost THEN NoOne ELSE review
          /\ faults' \in Nat /\ faults' + edits <= MaxMishaps
          /\ UNCHANGED <<tree, linked, agent, edits, lease, borrower>>
          /\ launch[d].at = "tools"
          /\ row' = [row EXCEPT ![d] = IF review = d THEN "failed" ELSE row[d]]
          /\ file' = file
      BY <2>1, <2>2, <2>4 DEF Pi!MayLose, Pi!GiveBackUnstarted, Pi!NoSlot, CallsTyped
    <3>2. c \in CallFields
      <4>1. "returned" \in CallSteps /\ keeps \in BOOLEAN
        BY <3>1, <2>3 DEF CallFields, CallsTyped, CallSteps, Unadmitted, Early, Admitted, Ending,
           EndedRows
      <4> QED BY <4>1, GivenBackRecord
    <3>3. /\ c.at = "returned" /\ c.bg = launch[d].bg /\ c.has = launch[d].has
          /\ c.started = launch[d].started /\ c.verified = launch[d].verified
          /\ c.want = launch[d].want /\ c.told = keeps /\ c.pending = launch[d].pending
          /\ c.result = "failed"
      BY DEF CallFields
    <3> HIDE DEF c
    <3>4. launch'[d] = c
      BY <3>1
    <3>5. CallsTyped'
      BY <3>1 DEF CallsTyped, EndedRows, CallOrNone
    <3>6. d \in Knows'
      BY <3>1, <3>3, <3>4 DEF Knows, Early, Unadmitted, Admitted
    <3>7. d \in AttendedCalls'
      BY <3>1, <3>3, <3>4 DEF AttendedCalls, Early, Unadmitted, Admitted
    <3>8. d \in ToldCalls'
      BY <3>1, <3>3, <3>4, <2>3 DEF ToldCalls, Early, Ending, EndedRows, Pi!Failed, Knows, Unadmitted
    <3> QED BY <3>1, <3>2, <3>5, <3>6, <3>7, <3>8, OneCall DEF OwnOnly, CallsTyped
<1>5. CASE Pi!AnnounceThrows(d)
  <2> DEFINE c == [launch[d] EXCEPT !.at = "threw"]
  <2>1. /\ launch' = [launch EXCEPT ![d] = c]
        /\ launch[d].at = "tools" /\ faults + edits < MaxMishaps /\ faults' = faults + 1
        /\ UNCHANGED <<tree, linked, agent, edits>>
        /\ UNCHANGED <<row, file>>
        /\ UNCHANGED <<slot, lease, borrower, review>>
    BY <1>5 DEF Pi!AnnounceThrows, Pi!Sets, Pi!Goes, Pi!At, Pi!world, Pi!custody,
       Pi!records
  <2>2. c \in CallFields
    <3>1. "threw" \in CallSteps
      BY DEF CallSteps, Unadmitted, Early, Admitted, Ending
    <3> QED BY <3>1, RecordGoes
  <2>3. /\ c.at = "threw" /\ c.bg = launch[d].bg /\ c.has = launch[d].has
        /\ c.started = launch[d].started /\ c.verified = launch[d].verified
        /\ c.want = launch[d].want /\ c.told = launch[d].told /\ c.pending = launch[d].pending
        /\ c.result = launch[d].result
    BY DEF CallFields
  <2> HIDE DEF c
  <2>4. launch'[d] = c
    BY <2>1
  <2>5. CallsTyped'
    BY <2>1 DEF CallsTyped, EndedRows, CallOrNone
  <2>6. d \in Knows'
    BY <2>1, <2>3, <2>4 DEF Knows, Early, Unadmitted, Admitted
  <2>7. d \in AttendedCalls'
    BY <2>1, <2>3, <2>4 DEF AttendedCalls, Early, Unadmitted, Admitted
  <2>8. d \in ToldCalls'
    BY <2>1, <2>3, <2>4 DEF ToldCalls, Early, Ending, EndedRows, Pi!Failed
  <2> QED BY <2>1, <2>2, <2>5, <2>6, <2>7, <2>8, OneCall DEF OwnOnly, CallsTyped
<1> QED BY <1>1, <1>2, <1>3, <1>4, <1>5

\* completeFailure, crashFailure: a call asks for a failure and goes on to publish it.
LEMMA CallFails ==
    ASSUME DeployInv, NEW d \in Calls, NEW failure \in Pi!Failed,
           Pi!Sets(d, Pi!Asks(d, failure)),
           UNCHANGED <<tree, slot, lease, borrower, review, row, file, agent, faults, edits>>,
           linked' = linked \/ linked' = tree,
           \/ launch[d].at \in {"protect", "hooks", "authorize"} \cup Admitted
           \/ launch[d].at = "running" /\ agent[d] = "none"
    PROVE  DeployInv'
<1> USE CallShape, DeployConstantsHold
<1> DEFINE c == [launch[d] EXCEPT !.at = "publish", !.want = failure]
<1>1. /\ launch' = [launch EXCEPT ![d] = c]
      /\ UNCHANGED <<tree, slot, lease, borrower, review, row, file, agent, faults, edits>>
      /\ linked' = linked \/ linked' = tree
  BY DEF Pi!Asks, Pi!Sets
<1>2. c \in CallFields
  <2>1. "publish" \in CallSteps /\ failure \in EndedRows
    BY <1>1 DEF CallFields, CallsTyped, CallSteps, Unadmitted, Early, Admitted, Ending, EndedRows,
       Pi!Failed
  <2> QED BY <2>1, FailingRecord
<1>3. /\ c.at = "publish" /\ c.bg = launch[d].bg /\ c.has = launch[d].has
      /\ c.started = launch[d].started /\ c.verified = launch[d].verified /\ c.want = failure
      /\ c.told = launch[d].told /\ c.pending = launch[d].pending /\ c.result = launch[d].result
  BY DEF CallFields
<1> HIDE DEF c
<1>4. launch'[d] = c
  BY <1>1
<1>5. CallsTyped'
  BY <1>1 DEF CallsTyped, EndedRows, CallOrNone, Pi!Failed
<1>6. d \in Knows'
  BY <1>1, <1>3, <1>4 DEF Knows, Early, Unadmitted, Admitted
<1>7. d \in AttendedCalls'
  BY <1>1, <1>3, <1>4 DEF AttendedCalls, Early, Unadmitted, Admitted
<1>8. d \in ToldCalls'
  BY <1>1, <1>3, <1>4 DEF ToldCalls, Early, Ending, EndedRows, Pi!Failed, Admitted
<1> QED BY <1>1, <1>2, <1>5, <1>6, <1>7, <1>8, OneCall DEF OwnOnly, CallsTyped

\* From the started row to the last readings.
LEMMA CallPrepares ==
    ASSUME DeployInv, NEW d \in Calls,
           \/ Pi!Announce(d) \/ Pi!Protect(d) \/ Pi!InstallHooks(d) \/ Pi!Borrow(d)
           \/ Pi!AcquireLease(d) \/ Pi!AuthorizeReader(d) \/ Pi!AuthorizeFails(d) \/ Pi!Preflight(d)
    PROVE  DeployInv'
<1> USE CallShape, DeployConstantsHold
<1>1. CASE Pi!Announce(d)
  BY <1>1, CallGoes DEF Pi!Announce, Pi!At, Pi!world, Pi!custody, Pi!records,
     CallSteps, Unadmitted, Early, Admitted, Pi!Failed
<1>2. CASE Pi!Protect(d)
  <2>1. launch[d].at = "protect" /\ UNCHANGED <<tree, linked, agent, faults, edits, slot, lease, borrower, review, row, file>>
    BY <1>2 DEF Pi!Protect, Pi!Fails, Pi!At, Pi!world, Pi!custody, Pi!records
  <2>2. CASE \E failure \in Pi!Failed : Pi!Fails(d, failure)
    BY <2>1, <2>2, CallFails DEF Pi!Fails, Admitted
  <2>3. CASE \E step \in CallSteps : Pi!Goes(d, step) /\ (step = "hooks")
    BY <2>1, <2>3, CallGoes
  <2> QED BY <1>2, <2>2, <2>3 DEF Pi!Protect, CallSteps, Unadmitted, Early, Admitted, Pi!Failed
<1>3. CASE Pi!InstallHooks(d)
  <2>1. launch[d].at = "hooks" /\ UNCHANGED <<tree, linked, agent, faults, edits, slot, lease, borrower, review, row, file>>
    BY <1>3 DEF Pi!InstallHooks, Pi!Fails, Pi!At, Pi!world, Pi!custody, Pi!records
  <2>2. CASE \E failure \in Pi!Failed : Pi!Fails(d, failure)
    BY <2>1, <2>2, CallFails DEF Pi!Fails, Admitted
  <2>3. CASE \E step \in CallSteps : Pi!Goes(d, step) /\ (step = "authorize")
    BY <2>1, <2>3, CallGoes
  <2> QED BY <1>3, <2>2, <2>3 DEF Pi!InstallHooks, CallSteps, Unadmitted, Early, Admitted, Pi!Failed
<1>4. CASE Pi!Borrow(d)
  <2> DEFINE c == [launch[d] EXCEPT !.at = "preflight", !.has = {"borrower"}]
  <2>1. /\ launch' = [launch EXCEPT ![d] = c]
        /\ launch[d].at = "authorize" /\ Kind[d] = "child" /\ borrower = NoOne /\ borrower' = d
        /\ UNCHANGED <<tree, linked, agent, faults, edits>>
        /\ UNCHANGED <<row, file>>
        /\ UNCHANGED <<slot, lease, review>>
    BY <1>4 DEF Pi!Borrow, Pi!Sets, Pi!At, Pi!world, Pi!custody, Pi!records
  <2>2. c \in CallFields
    <3>1. "preflight" \in CallSteps
      BY DEF CallSteps, Unadmitted, Early, Admitted, Ending
    <3> QED BY <3>1, HoldingRecord
  <2>3. /\ c.at = "preflight" /\ c.bg = launch[d].bg /\ c.has = {"borrower"}
        /\ c.started = launch[d].started /\ c.verified = launch[d].verified
        /\ c.want = launch[d].want /\ c.told = launch[d].told /\ c.pending = launch[d].pending
        /\ c.result = launch[d].result
    BY DEF CallFields
  <2> HIDE DEF c
  <2>4. launch'[d] = c
    BY <2>1
  <2>5. CallsTyped'
    BY <2>1 DEF CallsTyped, EndedRows, CallOrNone
  <2>6. d \in Knows'
    BY <2>1, <2>3, <2>4 DEF Knows, Early, Unadmitted, Admitted
  <2>7. d \in AttendedCalls'
    BY <2>1, <2>3, <2>4 DEF AttendedCalls, Early, Unadmitted, Admitted
  <2>8. d \in ToldCalls'
    BY <2>1, <2>3, <2>4 DEF ToldCalls, Early, Ending, EndedRows, Pi!Failed
  <2> QED BY <2>1, <2>2, <2>5, <2>6, <2>7, <2>8, OneCall DEF OwnOnly, CallsTyped
<1>5. CASE Pi!AcquireLease(d)
  <2> DEFINE c == [launch[d] EXCEPT !.at = "preflight", !.plan = tree, !.has = launch[d].has \cup {"lease"}]
  <2>1. /\ launch' = [launch EXCEPT ![d] = c]
        /\ launch[d].at = "authorize" /\ Kind[d] = "orchestrator" /\ lease = NoOne /\ lease' = d
        /\ UNCHANGED <<tree, linked, agent, faults, edits>>
        /\ UNCHANGED <<row, file>>
        /\ UNCHANGED <<slot, borrower, review>>
    BY <1>5 DEF Pi!AcquireLease, Pi!Sets, Pi!At, Pi!world, Pi!custody, Pi!records,
       Pi!Unclaimed
  <2>2. c \in CallFields
    <3>1. "preflight" \in CallSteps /\ tree \in Nat /\ launch[d].has \cup {"lease"} \in SUBSET {"slot", "lease", "borrower", "review"}
      BY <2>1 DEF CallFields, CallsTyped, CallSteps, Unadmitted, Early, Admitted, Ending,
         EndedRows
    <3> QED BY <3>1, LeasedRecord
  <2>3. /\ c.at = "preflight" /\ c.bg = launch[d].bg /\ c.has = launch[d].has \cup {"lease"}
        /\ c.started = launch[d].started /\ c.verified = launch[d].verified
        /\ c.want = launch[d].want /\ c.told = launch[d].told /\ c.pending = launch[d].pending
        /\ c.result = launch[d].result
    BY DEF CallFields
  <2> HIDE DEF c
  <2>4. launch'[d] = c
    BY <2>1
  <2>5. CallsTyped'
    BY <2>1 DEF CallsTyped, EndedRows, CallOrNone
  <2>6. d \in Knows'
    BY <2>1, <2>3, <2>4 DEF Knows, Early, Unadmitted, Admitted
  <2>7. d \in AttendedCalls'
    BY <2>1, <2>3, <2>4 DEF AttendedCalls, Early, Unadmitted, Admitted
  <2>8. d \in ToldCalls'
    BY <2>1, <2>3, <2>4 DEF ToldCalls, Early, Ending, EndedRows, Pi!Failed
  <2> QED BY <2>1, <2>2, <2>5, <2>6, <2>7, <2>8, OneCall DEF OwnOnly, CallsTyped
<1>6. CASE Pi!AuthorizeReader(d)
  BY <1>6, CallGoes DEF Pi!AuthorizeReader, Pi!At, Pi!world, Pi!custody, Pi!records,
     CallSteps, Unadmitted, Early, Admitted, Pi!Failed
<1>7. CASE Pi!AuthorizeFails(d)
  BY <1>7, CallFails DEF Pi!AuthorizeFails, Pi!Fails, Pi!At, Pi!world, Pi!custody, Pi!records
<1>8. CASE Pi!Preflight(d)
  <2>1. launch[d].at = "preflight" /\ UNCHANGED <<tree, linked, agent, faults, edits, slot, lease, borrower, review, row, file>>
    BY <1>8 DEF Pi!Preflight, Pi!Fails, Pi!At, Pi!world, Pi!custody, Pi!records
  <2>2. CASE \E failure \in Pi!Failed : Pi!Fails(d, failure)
    BY <2>1, <2>2, CallFails DEF Pi!Fails, Admitted
  <2>3. CASE \E step \in CallSteps : Pi!Goes(d, step) /\ (step = "recheck")
    BY <2>1, <2>3, CallGoes
  <2> QED BY <1>8, <2>2, <2>3 DEF Pi!Preflight, CallSteps, Unadmitted, Early, Admitted, Pi!Failed
<1> QED BY <1>1, <1>2, <1>3, <1>4, <1>5, <1>6, <1>7, <1>8

\* The last readings and the spawn.
LEMMA CallStarts ==
    ASSUME DeployInv, NEW d \in Calls,
           \/ Pi!Recheck(d) \/ Pi!Spawn(d)
    PROVE  DeployInv'
<1> USE CallShape, DeployConstantsHold
<1>1. CASE Pi!Recheck(d)
  <2>1. /\ launch[d].at = "recheck" /\ (linked' = linked \/ linked' = tree)
        /\ UNCHANGED <<tree, slot, lease, borrower, review, row, file, agent, faults, edits>>
    BY <1>1 DEF Pi!Recheck, Pi!At, Pi!world, Pi!custody, Pi!records
  <2>2. \/ Pi!Sets(d, Pi!Asks(d, "crashed"))
        \/ Pi!Sets(d, [launch[d] EXCEPT !.at = "spawn"])
    BY <1>1 DEF Pi!Recheck
  <2>3. CASE Pi!Sets(d, Pi!Asks(d, "crashed"))
    BY <2>1, <2>3, CallFails DEF Pi!Failed, Admitted
  <2>4. CASE Pi!Sets(d, [launch[d] EXCEPT !.at = "spawn"])
    <3> DEFINE c == [launch[d] EXCEPT !.at = "spawn"]
    <3>1. /\ launch' = [launch EXCEPT ![d] = c]
          /\ launch[d].at = "recheck" /\ (linked' = linked \/ linked' = tree)
          /\ UNCHANGED <<tree, slot, lease, borrower, review, row, file, agent, faults, edits>>
      BY <2>1, <2>4 DEF Pi!Sets
    <3>2. c \in CallFields
      <4>1. "spawn" \in CallSteps
        BY DEF CallSteps, Unadmitted, Early, Admitted, Ending
      <4> QED BY <4>1, RecordGoes
    <3>3. /\ c.at = "spawn" /\ c.bg = launch[d].bg /\ c.has = launch[d].has
          /\ c.started = launch[d].started /\ c.verified = launch[d].verified
          /\ c.want = launch[d].want /\ c.told = launch[d].told /\ c.pending = launch[d].pending
          /\ c.result = launch[d].result
      BY DEF CallFields
    <3> HIDE DEF c
    <3>4. launch'[d] = c
      BY <3>1
    <3>5. CallsTyped'
      BY <3>1 DEF CallsTyped, EndedRows, CallOrNone
    <3>6. d \in Knows'
      BY <3>1, <3>3, <3>4 DEF Knows, Early, Unadmitted, Admitted
    <3>7. d \in AttendedCalls'
      BY <3>1, <3>3, <3>4 DEF AttendedCalls, Early, Unadmitted, Admitted
    <3>8. d \in ToldCalls'
      BY <3>1, <3>3, <3>4 DEF ToldCalls, Early, Ending, EndedRows, Pi!Failed
    <3> QED BY <3>1, <3>2, <3>5, <3>6, <3>7, <3>8, OneCall DEF OwnOnly, CallsTyped
  <2> QED BY <2>2, <2>3, <2>4
<1>2. CASE Pi!Spawn(d)
  <2> DEFINE plain == Kind[d] # "review"
  <2>1. plain \in BOOLEAN /\ (plain <=> Kind[d] # "review")
    OBVIOUS
  <2>2. launch[d].at = "spawn"
    BY <1>2 DEF Pi!Spawn, Pi!At
  <2>3. CASE Pi!Fails(d, "crashed")
    BY <2>2, <2>3, CallFails DEF Pi!Fails, Pi!Failed, Admitted, Pi!world, Pi!custody, Pi!records
  <2> HIDE DEF plain
  <2>4. CASE /\ Pi!MaySpawn(d)
             /\ \E alive \in BOOLEAN : agent' = [agent EXCEPT ![d] = IF alive THEN "live" ELSE @]
             /\ Pi!Sets(d, [launch[d] EXCEPT !.at = "running", !.started = TRUE, !.verified = plain])
             /\ UNCHANGED <<Pi!custody, Pi!records, cast, tree, linked, faults, edits>>
    <3> DEFINE c == [launch[d] EXCEPT !.at = "running", !.started = TRUE, !.verified = plain]
    <3>1. /\ launch' = [launch EXCEPT ![d] = c]
          /\ launch[d].at = "spawn" /\ (Kind[d] = "review" => review = d)
          /\ \/ agent' = agent
             \/ agent' = [agent EXCEPT ![d] = "live"]
          /\ UNCHANGED <<tree, linked, slot, lease, borrower, review, row, file, faults, edits>>
      BY <2>2, <2>4 DEF Pi!Sets, Pi!MaySpawn, Pi!ReviewHolds, CallsTyped, Pi!custody, Pi!records
    <3>2. c \in CallFields
      <4>1. "running" \in CallSteps /\ plain \in BOOLEAN
        BY <3>1, <2>1 DEF CallFields, CallsTyped, CallSteps, Unadmitted, Early, Admitted, Ending,
           EndedRows
      <4> QED BY <4>1, StartedRecord
    <3>3. /\ c.at = "running" /\ c.bg = launch[d].bg /\ c.has = launch[d].has /\ c.started = TRUE
          /\ c.verified = plain /\ c.want = launch[d].want /\ c.told = launch[d].told
          /\ c.pending = launch[d].pending /\ c.result = launch[d].result
      BY DEF CallFields
    <3> HIDE DEF c
    <3>4. launch'[d] = c
      BY <3>1
    <3>5. CallsTyped'
      BY <3>1 DEF CallsTyped, EndedRows, CallOrNone
    <3>6. d \in Knows'
      BY <3>1, <3>3, <3>4 DEF Knows, Early, Unadmitted, Admitted
    <3>7. d \in AttendedCalls'
      BY <2>1, <3>1, <3>3, <3>4 DEF AttendedCalls, Knows, CallsTyped, Early, Unadmitted, Admitted
    <3>8. d \in ToldCalls'
      BY <3>1, <3>3, <3>4 DEF ToldCalls, Early, Ending, EndedRows, Pi!Failed
    <3> QED BY <3>1, <3>2, <3>5, <3>6, <3>7, <3>8, OneCall DEF OwnOnly, CallsTyped
  <2> QED BY <1>2, <2>3, <2>4 DEF plain, Pi!Spawn
<1> QED BY <1>1, <1>2

\* The result of the runtime.
LEMMA CallIsAnswered ==
    ASSUME DeployInv, NEW d \in Calls,
           \/ Pi!SessionEnds(d) \/ Pi!AdapterFails(d) \/ Pi!SpawnThrows(d) \/ Pi!HandOver(d)
    PROVE  DeployInv'
<1> USE CallShape, DeployConstantsHold
<1>1. CASE Pi!SessionEnds(d)
  <2>1. PICK status \in {"success", "partial", "failed"} :
          Pi!Sets(d, [Pi!Asks(d, status) EXCEPT !.verified = TRUE])
    BY <1>1 DEF Pi!SessionEnds
  <2> QED
    <3> DEFINE c == [[launch[d] EXCEPT !.at = "publish", !.want = status] EXCEPT !.verified = TRUE]
    <3>1. /\ launch' = [launch EXCEPT ![d] = c]
          /\ launch[d].at = "running" /\ ~launch[d].bg /\ agent' = [agent EXCEPT ![d] = "ended"]
          /\ UNCHANGED <<tree, linked, slot, lease, borrower, review, row, file, faults, edits>>
      BY <1>1, <2>1 DEF Pi!SessionEnds, Pi!Asks, Pi!Sets, Pi!At, Pi!world, Pi!custody, Pi!records
    <3>2. c \in CallFields
      <4>1. "publish" \in CallSteps /\ status \in EndedRows
        BY <3>1 DEF CallFields, CallsTyped, CallSteps, Unadmitted, Early, Admitted, Ending,
           EndedRows
      <4> QED BY <4>1, AnsweredRecord
    <3>3. /\ c.at = "publish" /\ c.bg = launch[d].bg /\ c.has = launch[d].has
          /\ c.started = launch[d].started /\ c.verified = TRUE /\ c.want = status
          /\ c.told = launch[d].told /\ c.pending = launch[d].pending /\ c.result = launch[d].result
      BY DEF CallFields
    <3> HIDE DEF c
    <3>4. launch'[d] = c
      BY <3>1
    <3>5. CallsTyped'
      BY <3>1 DEF CallsTyped, EndedRows, CallOrNone
    <3>6. d \in Knows'
      BY <3>1, <3>3, <3>4 DEF Knows, Early, Unadmitted, Admitted
    <3>7. d \in AttendedCalls'
      BY <3>1, <3>3, <3>4 DEF AttendedCalls, CallsTyped, Early, Unadmitted, Admitted
    <3>8. d \in ToldCalls'
      BY <3>1, <3>3, <3>4 DEF ToldCalls, Early, Ending, EndedRows, Pi!Failed
    <3> QED BY <3>1, <3>2, <3>5, <3>6, <3>7, <3>8, OneCall DEF OwnOnly, CallsTyped
<1>2. CASE Pi!AdapterFails(d)
  <2>1. PICK gone \in BOOLEAN :
          /\ agent[d] = "none" => gone
          /\ agent' = [agent EXCEPT ![d] = IF gone /\ @ = "live" THEN "ended" ELSE @]
          /\ Pi!Sets(d, [Pi!Asks(d, "failed") EXCEPT !.verified = gone])
    BY <1>2 DEF Pi!AdapterFails
  <2> QED
    <3> DEFINE c == [[launch[d] EXCEPT !.at = "publish", !.want = "failed"] EXCEPT !.verified = gone]
    <3>1. /\ launch' = [launch EXCEPT ![d] = c]
          /\ launch[d].at = "running" /\ agent' = [agent EXCEPT ![d] = IF gone /\ agent[d] = "live" THEN "ended" ELSE agent[d]]
          /\ UNCHANGED <<tree, linked, slot, lease, borrower, review, row, file, faults, edits>>
      BY <1>2, <2>1 DEF Pi!AdapterFails, Pi!Asks, Pi!Sets, Pi!At, Pi!world, Pi!custody, Pi!records
    <3>2. c \in CallFields
      <4>1. "publish" \in CallSteps /\ "failed" \in EndedRows
        BY <3>1 DEF CallFields, CallsTyped, CallSteps, Unadmitted, Early, Admitted, Ending,
           EndedRows
      <4> QED BY <4>1, AnsweredRecord
    <3>3. /\ c.at = "publish" /\ c.bg = launch[d].bg /\ c.has = launch[d].has
          /\ c.started = launch[d].started /\ c.verified = gone /\ c.want = "failed"
          /\ c.told = launch[d].told /\ c.pending = launch[d].pending /\ c.result = launch[d].result
      BY DEF CallFields
    <3> HIDE DEF c
    <3>4. launch'[d] = c
      BY <3>1
    <3>5. CallsTyped'
      BY <3>1 DEF CallsTyped, EndedRows, CallOrNone
    <3>6. d \in Knows'
      BY <3>1, <3>3, <3>4 DEF Knows, Early, Unadmitted, Admitted
    <3>7. d \in AttendedCalls'
      BY <3>1, <3>3, <3>4 DEF AttendedCalls, CallsTyped, Early, Unadmitted, Admitted
    <3>8. d \in ToldCalls'
      BY <3>1, <3>3, <3>4 DEF ToldCalls, Early, Ending, EndedRows, Pi!Failed
    <3> QED BY <3>1, <3>2, <3>5, <3>6, <3>7, <3>8, OneCall DEF OwnOnly, CallsTyped
<1>3. CASE Pi!SpawnThrows(d)
  BY <1>3, CallFails DEF Pi!SpawnThrows, Pi!Failed, Pi!At, Pi!world, Pi!custody, Pi!records
<1>4. CASE Pi!HandOver(d)
  <2> DEFINE c == [[launch[d] EXCEPT !.has = {}, !.pending = TRUE] EXCEPT !.at = "returned", !.result = "pending"]
  <2>1. /\ launch' = [launch EXCEPT ![d] = c]
        /\ launch[d].at = "running" /\ agent[d] = "live"
        /\ UNCHANGED <<tree, linked, agent, faults, edits>>
        /\ UNCHANGED <<row, file>>
        /\ UNCHANGED <<slot, lease, borrower, review>>
    BY <1>4 DEF Pi!HandOver, Pi!Sets, Pi!Ends, Pi!At, Pi!world, Pi!custody,
       Pi!records
  <2>2. c \in CallFields
    <3>1. "returned" \in CallSteps
      BY DEF CallSteps, Unadmitted, Early, Admitted, Ending
    <3> QED BY <3>1, HandedOverRecord
  <2>3. /\ c.at = "returned" /\ c.bg = launch[d].bg /\ c.has = {} /\ c.started = launch[d].started
        /\ c.verified = launch[d].verified /\ c.want = launch[d].want /\ c.told = launch[d].told
        /\ c.pending = TRUE /\ c.result = "pending"
    BY DEF CallFields
  <2> HIDE DEF c
  <2>4. launch'[d] = c
    BY <2>1
  <2>5. CallsTyped'
    BY <2>1 DEF CallsTyped, EndedRows, CallOrNone
  <2>6. d \in Knows'
    BY <2>1, <2>3, <2>4 DEF Knows, Early, Unadmitted, Admitted
  <2>7. d \in AttendedCalls'
    BY <2>1, <2>3, <2>4 DEF AttendedCalls, Early, Unadmitted, Admitted
  <2>8. d \in ToldCalls'
    BY <2>1, <2>3, <2>4 DEF ToldCalls, Early, Ending, EndedRows, Pi!Failed
  <2> QED BY <2>1, <2>2, <2>5, <2>6, <2>7, <2>8, OneCall DEF OwnOnly, CallsTyped
<1> QED BY <1>1, <1>2, <1>3, <1>4

\* writeTerminal: a child's early row, then what the call gives back.
LEMMA CallSettles ==
    ASSUME DeployInv, NEW d \in Calls,
           \/ Pi!PublishFirst(d) \/ Pi!SettleBorrower(d) \/ Pi!SettleLease(d) \/ Pi!SettleSlot(d)
    PROVE  DeployInv'
<1> USE CallShape, DeployConstantsHold
<1>1. CASE Pi!PublishFirst(d)
  <2> DEFINE published == IF "borrower" \in launch[d].has /\ launch[d].started
                          THEN Pi!Reconciled(row[d], launch[d].want) ELSE row[d]
  <2>1. /\ launch[d].at = "publish" /\ row' = [row EXCEPT ![d] = published]
        /\ Pi!Sets(d, [launch[d] EXCEPT !.at = "settle"])
        /\ UNCHANGED <<tree, linked, agent, faults, edits, slot, lease, borrower, review, file>>
    BY <1>1 DEF Pi!PublishFirst, Pi!Goes, Pi!At, Pi!world, Pi!custody
  <2>2. launch[d].want \in EndedRows /\ ("borrower" \in launch[d].has => launch[d].want \in Pi!Failed)
    BY <2>1 DEF ToldCalls, Knows, Ending
  <2>3. row[d] \in {"none", "running"} \cup EndedRows
    BY DEF CallsTyped
  <2>4. published \in {"none", "running"} \cup EndedRows
    BY <2>2, <2>3 DEF Pi!Reconciled
  <2>5. "borrower" \in launch[d].has /\ launch[d].started => published \in Pi!Failed
    BY <2>2, <2>3 DEF Pi!Reconciled, Pi!Failed, EndedRows
  <2> HIDE DEF published
  <2> QED
    <3> DEFINE c == [launch[d] EXCEPT !.at = "settle"]
    <3>1. /\ launch' = [launch EXCEPT ![d] = c]
          /\ launch[d].at = "publish"
          /\ row' = [row EXCEPT ![d] = published]
          /\ UNCHANGED <<tree, linked, agent, faults, edits>>
          /\ UNCHANGED <<slot, lease, borrower, review, file>>
      BY <2>1 DEF Pi!Sets
    <3>2. c \in CallFields
      <4>1. "settle" \in CallSteps
        BY DEF CallSteps, Unadmitted, Early, Admitted, Ending
      <4> QED BY <4>1, RecordGoes
    <3>3. /\ c.at = "settle" /\ c.bg = launch[d].bg /\ c.has = launch[d].has
          /\ c.started = launch[d].started /\ c.verified = launch[d].verified
          /\ c.want = launch[d].want /\ c.told = launch[d].told /\ c.pending = launch[d].pending
          /\ c.result = launch[d].result
      BY DEF CallFields
    <3> HIDE DEF c
    <3>4. launch'[d] = c
      BY <3>1
    <3>5. CallsTyped'
      BY <3>1, <2>4 DEF CallsTyped, EndedRows, CallOrNone
    <3>6. d \in Knows'
      BY <3>1, <3>3, <3>4 DEF Knows, Early, Unadmitted, Admitted
    <3>7. d \in AttendedCalls'
      BY <3>1, <3>3, <3>4 DEF AttendedCalls, Early, Unadmitted, Admitted
    <3>8. d \in ToldCalls'
      BY <3>1, <3>3, <3>4, <2>2, <2>4, <2>5 DEF ToldCalls, Early, Ending, EndedRows, Pi!Failed, CallsTyped
    <3> QED BY <3>1, <3>2, <3>5, <3>6, <3>7, <3>8, OneCall DEF OwnOnly, CallsTyped
<1>2. CASE Pi!SettleBorrower(d)
  <2> DEFINE back == Pi!RollsBack(d)
             rest == IF back THEN launch[d].has \ {"borrower"} ELSE launch[d].has
             keeps == launch[d].told \/ ("borrower" \in launch[d].has /\ ~back)
  <2>1. /\ launch[d].at = "settle" /\ borrower' = IF back THEN NoOne ELSE borrower
        /\ Pi!Sets(d, [launch[d] EXCEPT !.at = "owner", !.has = rest, !.told = keeps])
        /\ UNCHANGED <<tree, linked, agent, faults, edits, slot, lease, review, row, file>>
    BY <1>2 DEF Pi!SettleBorrower, Pi!At, Pi!world, Pi!records
  <2>2. back <=> "borrower" \in launch[d].has /\ ~launch[d].started
    BY DEF Pi!RollsBack
  <2>3. keeps \in BOOLEAN
    OBVIOUS
  <2>4. keeps <=> launch[d].told \/ ("borrower" \in launch[d].has /\ launch[d].started)
    BY <2>2
  <2>5. /\ rest \in SUBSET {"slot", "lease", "borrower", "review"} /\ rest \subseteq launch[d].has
        /\ "borrower" \in rest <=> "borrower" \in launch[d].has /\ launch[d].started
        /\ \A x \in {"slot", "lease", "review"} : x \in rest <=> x \in launch[d].has
    BY <2>2 DEF CallFields
  <2>6. borrower' = IF "borrower" \in launch[d].has /\ ~launch[d].started THEN NoOne ELSE borrower
    BY <2>1, <2>2
  <2> HIDE DEF back, rest, keeps
  <2> QED
    <3> DEFINE c == [launch[d] EXCEPT !.at = "owner", !.has = rest, !.told = keeps]
    <3>1. /\ launch' = [launch EXCEPT ![d] = c]
          /\ launch[d].at = "settle"
          /\ borrower' = IF "borrower" \in launch[d].has /\ ~launch[d].started THEN NoOne ELSE borrower
          /\ UNCHANGED <<tree, linked, agent, faults, edits>>
          /\ UNCHANGED <<slot, lease, review, row, file>>
      BY <2>1, <2>6 DEF Pi!Sets
    <3>2. c \in CallFields
      <4>1. "owner" \in CallSteps /\ rest \in SUBSET {"slot", "lease", "borrower", "review"} /\ keeps \in BOOLEAN
        BY <3>1, <2>3, <2>5 DEF CallFields, CallsTyped, CallSteps, Unadmitted, Early, Admitted,
           Ending, EndedRows
      <4> QED BY <4>1, SettledRecord
    <3>3. /\ c.at = "owner" /\ c.bg = launch[d].bg /\ c.has = rest /\ c.started = launch[d].started
          /\ c.verified = launch[d].verified /\ c.want = launch[d].want /\ c.told = keeps
          /\ c.pending = launch[d].pending /\ c.result = launch[d].result
      BY DEF CallFields
    <3> HIDE DEF c
    <3>4. launch'[d] = c
      BY <3>1
    <3>5. CallsTyped'
      BY <3>1 DEF CallsTyped, EndedRows, CallOrNone
    <3>6. d \in Knows'
      BY <3>1, <3>3, <3>4, <2>3, <2>4, <2>5 DEF Knows, AttendedCalls, Early, Unadmitted, Admitted
    <3>7. d \in AttendedCalls'
      BY <3>1, <3>3, <3>4, <2>3, <2>4, <2>5 DEF AttendedCalls, Knows, CallsTyped, Early, Unadmitted, Admitted
    <3>8. d \in ToldCalls'
      BY <3>1, <3>3, <3>4, <2>3, <2>4, <2>5 DEF ToldCalls, Early, Ending, EndedRows, Pi!Failed, Knows, AttendedCalls
    <3>9. /\ OwnOnly(d, slot.by, slot'.by) /\ OwnOnly(d, lease, lease')
          /\ OwnOnly(d, borrower, borrower') /\ OwnOnly(d, review, review')
      BY <3>1, <2>3, <2>4, <2>5 DEF OwnOnly, Knows, CallsTyped
    <3> QED BY <3>1, <3>2, <3>5, <3>6, <3>7, <3>8, <3>9, OneCall DEF CallsTyped
<1>3. CASE Pi!SettleLease(d)
  <2>1. /\ launch[d].at = "owner"
        /\ UNCHANGED <<tree, linked, agent, faults, edits, slot, borrower, review, row, file>>
    BY <1>3 DEF Pi!SettleLease, Pi!At, Pi!world, Pi!records
  <2>2. CASE /\ "lease" \notin launch[d].has /\ lease' = lease
             /\ Pi!Sets(d, [launch[d] EXCEPT !.at = "permit"])
    <3> DEFINE c == [launch[d] EXCEPT !.at = "permit"]
    <3>1. /\ launch' = [launch EXCEPT ![d] = c]
          /\ launch[d].at = "owner"
          /\ "lease" \notin launch[d].has /\ lease' = lease
          /\ UNCHANGED <<tree, linked, agent, faults, edits, slot, borrower, review, row, file>>
      BY <2>1, <2>2 DEF Pi!Sets
    <3>2. c \in CallFields
      <4>1. "permit" \in CallSteps
        BY DEF CallSteps, Unadmitted, Early, Admitted, Ending
      <4> QED BY <4>1, RecordGoes
    <3>3. /\ c.at = "permit" /\ c.bg = launch[d].bg /\ c.has = launch[d].has
          /\ c.started = launch[d].started /\ c.verified = launch[d].verified
          /\ c.want = launch[d].want /\ c.told = launch[d].told /\ c.pending = launch[d].pending
          /\ c.result = launch[d].result
      BY DEF CallFields
    <3> HIDE DEF c
    <3>4. launch'[d] = c
      BY <3>1
    <3>5. CallsTyped'
      BY <3>1 DEF CallsTyped, EndedRows, CallOrNone
    <3>6. d \in Knows'
      BY <3>1, <3>3, <3>4 DEF Knows, Early, Unadmitted, Admitted
    <3>7. d \in AttendedCalls'
      BY <3>1, <3>3, <3>4 DEF AttendedCalls, Knows, Early, Unadmitted, Admitted
    <3>8. d \in ToldCalls'
      BY <3>1, <3>3, <3>4 DEF ToldCalls, Early, Ending, EndedRows, Pi!Failed, Knows, AttendedCalls
    <3>9. /\ OwnOnly(d, slot.by, slot'.by) /\ OwnOnly(d, lease, lease')
          /\ OwnOnly(d, borrower, borrower') /\ OwnOnly(d, review, review')
      BY <3>1 DEF OwnOnly, Knows, CallsTyped
    <3> QED BY <3>1, <3>2, <3>5, <3>6, <3>7, <3>8, <3>9, OneCall DEF CallsTyped
  <2>3. CASE /\ "lease" \in launch[d].has /\ lease' = NoOne
             /\ Pi!Sets(d, [launch[d] EXCEPT !.at = "permit", !.has = launch[d].has \ {"lease"}])
    <3> DEFINE c == [launch[d] EXCEPT !.at = "permit", !.has = launch[d].has \ {"lease"}]
    <3>1. /\ launch' = [launch EXCEPT ![d] = c]
          /\ launch[d].at = "owner"
          /\ "lease" \in launch[d].has /\ lease' = NoOne
          /\ UNCHANGED <<tree, linked, agent, faults, edits, slot, borrower, review, row, file>>
      BY <2>1, <2>3 DEF Pi!Sets
    <3>2. c \in CallFields
      <4>1. "permit" \in CallSteps /\ launch[d].has \ {"lease"} \in SUBSET {"slot", "lease", "borrower", "review"}
        BY <3>1 DEF CallFields, CallsTyped, CallSteps, Unadmitted, Early, Admitted, Ending,
           EndedRows
      <4> QED BY <4>1, HoldingRecord
    <3>3. /\ c.at = "permit" /\ c.bg = launch[d].bg /\ c.has = launch[d].has \ {"lease"}
          /\ c.started = launch[d].started /\ c.verified = launch[d].verified
          /\ c.want = launch[d].want /\ c.told = launch[d].told /\ c.pending = launch[d].pending
          /\ c.result = launch[d].result
      BY DEF CallFields
    <3> HIDE DEF c
    <3>4. launch'[d] = c
      BY <3>1
    <3>5. CallsTyped'
      BY <3>1 DEF CallsTyped, EndedRows, CallOrNone
    <3>6. d \in Knows'
      BY <3>1, <3>3, <3>4 DEF Knows, Early, Unadmitted, Admitted
    <3>7. d \in AttendedCalls'
      BY <3>1, <3>3, <3>4 DEF AttendedCalls, Knows, Early, Unadmitted, Admitted
    <3>8. d \in ToldCalls'
      BY <3>1, <3>3, <3>4 DEF ToldCalls, Early, Ending, EndedRows, Pi!Failed, Knows, AttendedCalls
    <3>9. /\ OwnOnly(d, slot.by, slot'.by) /\ OwnOnly(d, lease, lease')
          /\ OwnOnly(d, borrower, borrower') /\ OwnOnly(d, review, review')
      BY <3>1 DEF OwnOnly, Knows, CallsTyped
    <3> QED BY <3>1, <3>2, <3>5, <3>6, <3>7, <3>8, <3>9, OneCall DEF CallsTyped
  <2>4. CASE /\ "lease" \in launch[d].has /\ lease' = lease
             /\ Pi!Sets(d, [launch[d] EXCEPT !.at = "permit", !.told = TRUE])
    <3> DEFINE c == [launch[d] EXCEPT !.at = "permit", !.told = TRUE]
    <3>1. /\ launch' = [launch EXCEPT ![d] = c]
          /\ launch[d].at = "owner"
          /\ "lease" \in launch[d].has /\ lease' = lease
          /\ UNCHANGED <<tree, linked, agent, faults, edits, slot, borrower, review, row, file>>
      BY <2>1, <2>4 DEF Pi!Sets
    <3>2. c \in CallFields
      <4>1. "permit" \in CallSteps
        BY DEF CallSteps, Unadmitted, Early, Admitted, Ending
      <4> QED BY <4>1, ToldRecord
    <3>3. /\ c.at = "permit" /\ c.bg = launch[d].bg /\ c.has = launch[d].has
          /\ c.started = launch[d].started /\ c.verified = launch[d].verified
          /\ c.want = launch[d].want /\ c.told = TRUE /\ c.pending = launch[d].pending
          /\ c.result = launch[d].result
      BY DEF CallFields
    <3> HIDE DEF c
    <3>4. launch'[d] = c
      BY <3>1
    <3>5. CallsTyped'
      BY <3>1 DEF CallsTyped, EndedRows, CallOrNone
    <3>6. d \in Knows'
      BY <3>1, <3>3, <3>4 DEF Knows, Early, Unadmitted, Admitted
    <3>7. d \in AttendedCalls'
      BY <3>1, <3>3, <3>4 DEF AttendedCalls, Knows, Early, Unadmitted, Admitted
    <3>8. d \in ToldCalls'
      BY <3>1, <3>3, <3>4 DEF ToldCalls, Early, Ending, EndedRows, Pi!Failed, Knows, AttendedCalls
    <3>9. /\ OwnOnly(d, slot.by, slot'.by) /\ OwnOnly(d, lease, lease')
          /\ OwnOnly(d, borrower, borrower') /\ OwnOnly(d, review, review')
      BY <3>1 DEF OwnOnly, Knows, CallsTyped
    <3> QED BY <3>1, <3>2, <3>5, <3>6, <3>7, <3>8, <3>9, OneCall DEF CallsTyped
  <2> QED BY <1>3, <2>2, <2>3, <2>4 DEF Pi!SettleLease, Pi!Goes
<1>4. CASE Pi!SettleSlot(d)
  <2> DEFINE free == "slot" \in launch[d].has /\ Pi!SlotReleased
             rest == IF free THEN launch[d].has \ {"slot"} ELSE launch[d].has
             keeps == launch[d].told \/ Pi!PermitRefusal(d, free)
  <2>1. /\ launch[d].at = "permit" /\ slot' = IF free THEN Pi!NoSlot ELSE slot
        /\ Pi!Sets(d, [launch[d] EXCEPT !.at = "row", !.has = rest, !.told = keeps])
        /\ UNCHANGED <<tree, linked, agent, faults, edits, lease, borrower, review, row, file>>
    BY <1>4 DEF Pi!SettleSlot, Pi!At, Pi!world, Pi!records
  <2>2. free => "slot" \in launch[d].has
    OBVIOUS
  <2>3. keeps \in BOOLEAN
    BY DEF Pi!PermitRefusal, Pi!SlotRefusal
  <2>4. keeps <=> launch[d].told \/ ("slot" \in launch[d].has /\ ~free)
    BY DEF Pi!PermitRefusal, Pi!SlotRefusal
  <2>5. /\ rest \in SUBSET {"slot", "lease", "borrower", "review"} /\ rest \subseteq launch[d].has
        /\ "slot" \in rest <=> "slot" \in launch[d].has /\ ~free
        /\ \A x \in {"borrower", "lease", "review"} : x \in rest <=> x \in launch[d].has
    BY <2>2 DEF CallFields
  <2>6. slot' = IF free THEN [by |-> NoOne, intent |-> FALSE] ELSE slot
    BY <2>1 DEF Pi!NoSlot
  <2> HIDE DEF free, rest, keeps
  <2> QED
    <3> DEFINE c == [launch[d] EXCEPT !.at = "row", !.has = rest, !.told = keeps]
    <3>1. /\ launch' = [launch EXCEPT ![d] = c]
          /\ launch[d].at = "permit"
          /\ slot' = IF free THEN [by |-> NoOne, intent |-> FALSE] ELSE slot
          /\ UNCHANGED <<tree, linked, agent, faults, edits>>
          /\ UNCHANGED <<lease, borrower, review, row, file>>
      BY <2>1, <2>6 DEF Pi!Sets
    <3>2. c \in CallFields
      <4>1. "row" \in CallSteps /\ rest \in SUBSET {"slot", "lease", "borrower", "review"} /\ keeps \in BOOLEAN
        BY <3>1, <2>3, <2>5 DEF CallFields, CallsTyped, CallSteps, Unadmitted, Early, Admitted,
           Ending, EndedRows
      <4> QED BY <4>1, SettledRecord
    <3>3. /\ c.at = "row" /\ c.bg = launch[d].bg /\ c.has = rest /\ c.started = launch[d].started
          /\ c.verified = launch[d].verified /\ c.want = launch[d].want /\ c.told = keeps
          /\ c.pending = launch[d].pending /\ c.result = launch[d].result
      BY DEF CallFields
    <3> HIDE DEF c
    <3>4. launch'[d] = c
      BY <3>1
    <3>5. CallsTyped'
      BY <3>1 DEF CallsTyped, EndedRows, CallOrNone
    <3>6. d \in Knows'
      BY <3>1, <3>3, <3>4, <2>2, <2>3, <2>4, <2>5 DEF Knows, AttendedCalls, Early, Unadmitted, Admitted
    <3>7. d \in AttendedCalls'
      BY <3>1, <3>3, <3>4, <2>2, <2>3, <2>4, <2>5 DEF AttendedCalls, Knows, CallsTyped, Early, Unadmitted, Admitted
    <3>8. d \in ToldCalls'
      BY <3>1, <3>3, <3>4, <2>2, <2>3, <2>4, <2>5 DEF ToldCalls, Early, Ending, EndedRows, Pi!Failed, Knows, AttendedCalls
    <3>9. /\ OwnOnly(d, slot.by, slot'.by) /\ OwnOnly(d, lease, lease')
          /\ OwnOnly(d, borrower, borrower') /\ OwnOnly(d, review, review')
      BY <3>1, <2>2, <2>3, <2>4, <2>5 DEF OwnOnly, Knows, CallsTyped
    <3> QED BY <3>1, <3>2, <3>5, <3>6, <3>7, <3>8, <3>9, OneCall DEF CallsTyped
<1> QED BY <1>1, <1>2, <1>3, <1>4

\* writeTerminal: the row, then the status file.
LEMMA CallPublishes ==
    ASSUME DeployInv, NEW d \in Calls,
           \/ Pi!PublishRow(d) \/ Pi!PublishFile(d) \/ Pi!PublishThrows(d)
    PROVE  DeployInv'
<1> USE CallShape, DeployConstantsHold
<1>1. CASE Pi!PublishRow(d)
  <2> DEFINE published == IF "borrower" \in launch[d].has /\ launch[d].started
                          THEN row[d] ELSE Pi!Reconciled(row[d], Pi!Requested(d))
  <2>1. /\ launch[d].at = "row" /\ row' = [row EXCEPT ![d] = published]
        /\ Pi!Sets(d, [launch[d] EXCEPT !.at = "file"])
        /\ UNCHANGED <<tree, linked, agent, faults, edits, slot, lease, borrower, review, file>>
    BY <1>1 DEF Pi!PublishRow, Pi!Goes, Pi!At, Pi!world, Pi!custody
  <2>2. /\ launch[d].want \in EndedRows
        /\ "borrower" \in launch[d].has /\ launch[d].started => row[d] \in Pi!Failed
    BY <2>1 DEF ToldCalls, Ending
  <2>3. /\ Pi!Requested(d) \in EndedRows
        /\ launch[d].told \/ launch[d].want \in Pi!Failed => Pi!Requested(d) \in Pi!Failed
    BY <2>2 DEF Pi!Requested, Pi!Failed, EndedRows
  <2>4. row[d] \in {"none", "running"} \cup EndedRows
    BY DEF CallsTyped
  <2>5. /\ published \in EndedRows
        /\ launch[d].told \/ launch[d].want \in Pi!Failed => published \in Pi!Failed
        /\ "borrower" \in launch[d].has /\ launch[d].started => published \in Pi!Failed
    BY <2>2, <2>3, <2>4 DEF Pi!Reconciled, Pi!Failed, EndedRows
  <2> HIDE DEF published
  <2> QED
    <3> DEFINE c == [launch[d] EXCEPT !.at = "file"]
    <3>1. /\ launch' = [launch EXCEPT ![d] = c]
          /\ launch[d].at = "row"
          /\ row' = [row EXCEPT ![d] = published]
          /\ UNCHANGED <<tree, linked, agent, faults, edits>>
          /\ UNCHANGED <<slot, lease, borrower, review, file>>
      BY <2>1 DEF Pi!Sets
    <3>2. c \in CallFields
      <4>1. "file" \in CallSteps
        BY DEF CallSteps, Unadmitted, Early, Admitted, Ending
      <4> QED BY <4>1, RecordGoes
    <3>3. /\ c.at = "file" /\ c.bg = launch[d].bg /\ c.has = launch[d].has
          /\ c.started = launch[d].started /\ c.verified = launch[d].verified
          /\ c.want = launch[d].want /\ c.told = launch[d].told /\ c.pending = launch[d].pending
          /\ c.result = launch[d].result
      BY DEF CallFields
    <3> HIDE DEF c
    <3>4. launch'[d] = c
      BY <3>1
    <3>5. CallsTyped'
      BY <3>1, <2>5 DEF CallsTyped, EndedRows, CallOrNone
    <3>6. d \in Knows'
      BY <3>1, <3>3, <3>4 DEF Knows, Early, Unadmitted, Admitted
    <3>7. d \in AttendedCalls'
      BY <3>1, <3>3, <3>4 DEF AttendedCalls, Early, Unadmitted, Admitted
    <3>8. d \in ToldCalls'
      BY <3>1, <3>3, <3>4, <2>2, <2>5 DEF ToldCalls, Early, Ending, EndedRows, Pi!Failed, CallsTyped
    <3> QED BY <3>1, <3>2, <3>5, <3>6, <3>7, <3>8, OneCall DEF OwnOnly, CallsTyped
<1>2. CASE Pi!PublishFile(d)
  <2> DEFINE over == "review" \in launch[d].has /\ (launch[d].started => launch[d].verified)
             rest == IF over THEN {} ELSE launch[d].has
             keeps == launch[d].told \/ ("review" \in launch[d].has /\ ~over)
             reply == Pi!Answer(d)
             verdict == IF launch[d].want \in Pi!Failed THEN "failed" ELSE reply
  <2>1. /\ launch[d].at = "file" /\ review' = IF over THEN NoOne ELSE review
        /\ Pi!Sets(d, [[launch[d] EXCEPT !.has = rest, !.told = keeps] EXCEPT !.at = "returned", !.result = verdict])
        /\ file' = [file EXCEPT ![d] = reply]
        /\ UNCHANGED <<tree, linked, agent, faults, edits, slot, lease, borrower, row>>
    BY <1>2 DEF Pi!PublishFile, Pi!Ends, Pi!At, Pi!world
  <2>2. /\ launch[d].want \in EndedRows /\ row[d] \in EndedRows
        /\ launch[d].told \/ launch[d].want \in Pi!Failed => row[d] \in Pi!Failed
        /\ \A x \in {"slot", "lease", "borrower"} : x \in launch[d].has => launch[d].told
    BY <2>1 DEF ToldCalls, Ending
  <2>3. keeps \in BOOLEAN
    OBVIOUS
  <2>4. keeps <=> launch[d].told \/ ("review" \in launch[d].has /\ ~over)
    OBVIOUS
  <2>5. /\ rest \in SUBSET {"slot", "lease", "borrower", "review"} /\ rest \subseteq launch[d].has
        /\ over => rest = {} /\ "review" \in launch[d].has
        /\ ~over => rest = launch[d].has
        /\ over /\ launch[d].started => launch[d].verified
    BY DEF CallFields
  <2>6. /\ reply \in {"failed", "success"} /\ verdict \in {"failed", "success"}
        /\ reply = "success" => ~launch[d].told /\ row[d] \in {"success", "partial"}
        /\ reply = "failed" => row[d] \in Pi!Failed
        /\ verdict = "success" => reply = "success"
        /\ verdict = "failed" => row[d] \in Pi!Failed /\ reply # "success"
    BY <2>2 DEF Pi!Answer, Pi!Reported, Pi!Outcome, Pi!Failed, EndedRows
  <2> HIDE DEF over, rest, keeps, reply, verdict
  <2> QED
    <3> DEFINE c == [[launch[d] EXCEPT !.has = rest, !.told = keeps] EXCEPT !.at = "returned", !.result = verdict]
    <3>1. /\ launch' = [launch EXCEPT ![d] = c]
          /\ launch[d].at = "file" /\ review' = IF over THEN NoOne ELSE review
          /\ file' = [file EXCEPT ![d] = reply]
          /\ UNCHANGED <<tree, linked, agent, faults, edits>>
          /\ UNCHANGED <<slot, lease, borrower, row>>
      BY <2>1 DEF Pi!Sets
    <3>2. c \in CallFields
      <4>1. "returned" \in CallSteps /\ rest \in SUBSET {"slot", "lease", "borrower", "review"} /\ keeps \in BOOLEAN /\ verdict \in {"failed", "success"}
        BY <3>1, <2>3, <2>5, <2>6 DEF CallFields, CallsTyped, CallSteps, Unadmitted, Early,
           Admitted, Ending, EndedRows
      <4> QED BY <4>1, PublishedRecord
    <3>3. /\ c.at = "returned" /\ c.bg = launch[d].bg /\ c.has = rest
          /\ c.started = launch[d].started /\ c.verified = launch[d].verified
          /\ c.want = launch[d].want /\ c.told = keeps /\ c.pending = launch[d].pending
          /\ c.result = verdict
      BY DEF CallFields
    <3> HIDE DEF c
    <3>4. launch'[d] = c
      BY <3>1
    <3>5. CallsTyped'
      BY <3>1, <2>6 DEF CallsTyped, EndedRows, CallOrNone
    <3>6. d \in Knows'
      BY <3>1, <3>3, <3>4, <2>5 DEF Knows, AttendedCalls, Early, Unadmitted, Admitted
    <3>7. d \in AttendedCalls'
      BY <3>1, <3>3, <3>4, <2>5 DEF AttendedCalls, Knows, CallsTyped, Early, Unadmitted, Admitted
    <3>8. d \in ToldCalls'
      BY <3>1, <3>3, <3>4, <2>2, <2>3, <2>4, <2>5, <2>6 DEF ToldCalls, Early, Ending, EndedRows, Pi!Failed, Knows, CallsTyped
    <3>9. /\ OwnOnly(d, slot.by, slot'.by) /\ OwnOnly(d, lease, lease')
          /\ OwnOnly(d, borrower, borrower') /\ OwnOnly(d, review, review')
      BY <3>1, <2>5 DEF OwnOnly, Knows, CallsTyped
    <3> QED BY <3>1, <3>2, <3>5, <3>6, <3>7, <3>8, <3>9, OneCall DEF CallsTyped
<1>3. CASE Pi!PublishThrows(d)
  <2>1. /\ launch[d].at \in {"row", "file"} /\ faults' = faults + 1 /\ faults + edits < MaxMishaps
        /\ UNCHANGED <<tree, linked, agent, edits, slot, lease, borrower, review, row, file>>
    BY <1>3 DEF Pi!PublishThrows, Pi!custody, Pi!records
  <2>2. CASE Pi!Sets(d, [launch[d] EXCEPT !.at = "threw"])
    <3> DEFINE c == [launch[d] EXCEPT !.at = "threw"]
    <3>1. /\ launch' = [launch EXCEPT ![d] = c]
          /\ launch[d].at \in {"row", "file"} /\ faults' = faults + 1 /\ faults + edits < MaxMishaps
          /\ UNCHANGED <<tree, linked, agent, edits, slot, lease, borrower, review, row, file>>
      BY <2>1, <2>2 DEF Pi!Sets, Pi!Asks
    <3>2. c \in CallFields
      <4>1. "threw" \in CallSteps
        BY DEF CallSteps, Unadmitted, Early, Admitted, Ending
      <4> QED BY <4>1, RecordGoes
    <3>3. /\ c.at = "threw" /\ c.bg = launch[d].bg /\ c.has = launch[d].has
          /\ c.started = launch[d].started /\ c.verified = launch[d].verified
          /\ c.want = launch[d].want /\ c.told = launch[d].told /\ c.pending = launch[d].pending
          /\ c.result = launch[d].result
      BY DEF CallFields
    <3> HIDE DEF c
    <3>4. launch'[d] = c
      BY <3>1
    <3>5. CallsTyped'
      BY <3>1 DEF CallsTyped, EndedRows, CallOrNone
    <3>6. d \in Knows'
      BY <3>1, <3>3, <3>4 DEF Knows, Early, Unadmitted, Admitted
    <3>7. d \in AttendedCalls'
      BY <3>1, <3>3, <3>4 DEF AttendedCalls, Early, Unadmitted, Admitted
    <3>8. d \in ToldCalls'
      BY <3>1, <3>3, <3>4 DEF ToldCalls, Early, Ending, EndedRows, Pi!Failed
    <3> QED BY <3>1, <3>2, <3>5, <3>6, <3>7, <3>8, OneCall DEF OwnOnly, CallsTyped
  <2>3. CASE Pi!Sets(d, [Pi!Asks(d, "crashed") EXCEPT !.again = TRUE])
    <3> DEFINE c == [[launch[d] EXCEPT !.at = "publish", !.want = "crashed"] EXCEPT !.again = TRUE]
    <3>1. /\ launch' = [launch EXCEPT ![d] = c]
          /\ launch[d].at \in {"row", "file"} /\ faults' = faults + 1 /\ faults + edits < MaxMishaps
          /\ UNCHANGED <<tree, linked, agent, edits, slot, lease, borrower, review, row, file>>
      BY <2>1, <2>3 DEF Pi!Sets, Pi!Asks
    <3>2. c \in CallFields
      <4>1. "publish" \in CallSteps /\ "crashed" \in EndedRows
        BY <3>1 DEF CallFields, CallsTyped, CallSteps, Unadmitted, Early, Admitted, Ending,
           EndedRows
      <4> QED BY <4>1, RetriedRecord
    <3>3. /\ c.at = "publish" /\ c.bg = launch[d].bg /\ c.has = launch[d].has
          /\ c.started = launch[d].started /\ c.verified = launch[d].verified /\ c.want = "crashed"
          /\ c.told = launch[d].told /\ c.pending = launch[d].pending /\ c.result = launch[d].result
      BY DEF CallFields
    <3> HIDE DEF c
    <3>4. launch'[d] = c
      BY <3>1
    <3>5. CallsTyped'
      BY <3>1 DEF CallsTyped, EndedRows, CallOrNone
    <3>6. d \in Knows'
      BY <3>1, <3>3, <3>4 DEF Knows, Early, Unadmitted, Admitted
    <3>7. d \in AttendedCalls'
      BY <3>1, <3>3, <3>4 DEF AttendedCalls, Early, Unadmitted, Admitted
    <3>8. d \in ToldCalls'
      BY <3>1, <3>3, <3>4 DEF ToldCalls, Early, Ending, EndedRows, Pi!Failed
    <3> QED BY <3>1, <3>2, <3>5, <3>6, <3>7, <3>8, OneCall DEF OwnOnly, CallsTyped
  <2> QED BY <1>3, <2>2, <2>3 DEF Pi!PublishThrows
<1> QED BY <1>1, <1>2, <1>3

\* A result recorded elsewhere, and the end that the supervisor of a handed over
\* deployment brings about, leave the call alone.
LEMMA CallRecordedElsewhere ==
    ASSUME DeployInv, NEW d \in Calls, Pi!RecordElsewhere(d) \/ Pi!SupervisorSettles(d)
    PROVE  DeployInv'
<1> USE CallShape, DeployConstantsHold
<1>1. launch' = launch /\ launch' = [launch EXCEPT ![d] = launch[d]]
  BY DEF Pi!RecordElsewhere, Pi!SupervisorSettles
<1>2. CASE Pi!RecordElsewhere(d)
  <2>1. PICK status \in {"success", "crashed"} : row' = [row EXCEPT ![d] = status]
    BY <1>2 DEF Pi!RecordElsewhere
  <2>2. /\ row[d] = "running" /\ faults' = faults + 1 /\ faults + edits < MaxMishaps
        /\ UNCHANGED <<tree, linked, agent, edits, slot, lease, borrower, review, file>>
    BY <1>2 DEF Pi!RecordElsewhere, Pi!custody
  <2>3. CallsTyped'
    BY <2>1, <2>2 DEF CallsTyped, EndedRows
  <2>4. d \in Knows'
    BY <1>1, <2>2 DEF Knows
  <2>5. d \in AttendedCalls'
    BY <1>1, <2>2 DEF AttendedCalls
  <2>6. launch[d].at \notin Early /\ launch[d].at # "file"
    BY <2>2 DEF ToldCalls, EndedRows
  <2>7. /\ ~("borrower" \in launch[d].has /\ launch[d].started /\ launch[d].at \in Ending \ {"publish"})
        /\ ~(launch[d].at = "returned" /\ launch[d].result \in {"success", "failed"})
    BY <2>2 DEF ToldCalls, Pi!Failed
  <2>8. d \in ToldCalls'
    BY <1>1, <2>2, <2>6, <2>7 DEF ToldCalls
  <2>9. /\ OwnOnly(d, slot.by, slot'.by) /\ OwnOnly(d, lease, lease')
        /\ OwnOnly(d, borrower, borrower') /\ OwnOnly(d, review, review')
    BY <2>2 DEF OwnOnly
  <2>10. \A e \in Calls \ {d} : row'[e] = row[e] /\ file'[e] = file[e] /\ agent'[e] = agent[e]
    BY <2>1, <2>2 DEF CallsTyped
  <2> QED BY <1>1, <2>3, <2>4, <2>5, <2>8, <2>9, <2>10, OneCall
<1>3. CASE Pi!SupervisorSettles(d)
  <2>1. PICK status \in {"success", "failed"} : row' = [row EXCEPT ![d] = Pi!Reconciled(row[d], status)]
    BY <1>3 DEF Pi!SupervisorSettles
  <2>2. /\ launch[d].pending /\ agent' = [agent EXCEPT ![d] = "ended"]
        /\ UNCHANGED <<tree, linked, faults, edits, file>>
    BY <1>3 DEF Pi!SupervisorSettles
  <2>3. PICK stays \in BOOLEAN :
          /\ borrower' = IF borrower = d /\ ~stays THEN NoOne ELSE borrower
          /\ lease' = IF lease = d /\ ~stays THEN NoOne ELSE lease
          /\ slot' = IF slot.by = d /\ ~stays THEN Pi!NoSlot ELSE slot
          /\ review' = IF review = d /\ ~stays THEN NoOne ELSE review
    BY <1>3 DEF Pi!SupervisorSettles
  <2>4. Pi!Reconciled(row[d], status) \in {"none", "running"} \cup EndedRows
    BY DEF Pi!Reconciled, EndedRows, CallsTyped
  <2>5. CallsTyped'
    BY <2>1, <2>2, <2>3, <2>4 DEF CallsTyped, CallOrNone, Pi!NoSlot
  <2>6. launch[d].at = "returned" /\ launch[d].result = "pending" /\ agent'[d] = "ended"
    BY <2>2 DEF AttendedCalls, CallsTyped
  <2>7. d \in Knows'
    BY <1>1, <2>6 DEF Knows
  <2>8. d \in AttendedCalls'
    BY <1>1, <2>6 DEF AttendedCalls, Unadmitted, Early, Admitted
  <2>9. d \in ToldCalls'
    BY <1>1, <2>6 DEF ToldCalls, Early, Ending
  <2>10. /\ OwnOnly(d, slot.by, slot'.by) /\ OwnOnly(d, lease, lease')
         /\ OwnOnly(d, borrower, borrower') /\ OwnOnly(d, review, review')
    BY <2>3 DEF OwnOnly, Pi!NoSlot
  <2> QED BY <1>1, <2>1, <2>2, <2>5, <2>7, <2>8, <2>9, <2>10, OneCall DEF CallsTyped
<1> QED BY <1>2, <1>3

\* A commit in the checkout.
LEMMA CommitKeeps ==
    ASSUME DeployInv, Pi!Commit
    PROVE  DeployInv'
<1>1. /\ edits' = edits + 1 /\ tree' = tree + 1 /\ faults + edits < MaxMishaps
      /\ UNCHANGED <<linked, slot, lease, borrower, review, row, file, agent, launch, faults>>
  BY DEF Pi!Commit, Pi!custody, Pi!records
<1>2. DeployTyped'
  BY <1>1, DeployConstantsHold DEF DeployInv, DeployTyped
<1>3. Knows' = Knows
  BY <1>1 DEF Knows
<1>4. AttendedCalls' = AttendedCalls
  BY <1>1 DEF AttendedCalls
<1>5. ToldCalls' = ToldCalls
  BY <1>1 DEF ToldCalls
<1> QED BY <1>2, <1>3, <1>4, <1>5 DEF DeployInv

\* The invariant gives the properties of a Pi deployment.
LEMMA DeployMeans ==
    ASSUME DeployInv
    PROVE  /\ Pi!DeployTypeOK /\ Pi!CustodyCoversRuntime
           /\ Pi!NothingLeftUntold /\ Pi!ResultsAgree
<1>1. Pi!DeployTypeOK
  BY DeployConstantsHold
  DEF DeployInv, DeployTyped, Pi!DeployTypeOK, CallOrNone, EndedRows, CallFields
<1>2. Pi!CustodyCoversRuntime
  BY DEF DeployInv, AttendedCalls, Pi!CustodyCoversRuntime
<1>3. Pi!NothingLeftUntold
  BY DEF DeployInv, ToldCalls, Pi!NothingLeftUntold
<1>4. Pi!ResultsAgree
  BY DEF DeployInv, ToldCalls, Pi!ResultsAgree
<1> QED BY <1>1, <1>2, <1>3, <1>4

LEMMA NewLaunchTyped == Pi!NewLaunch \in CallFields
BY DEF Pi!NewLaunch, CallFields, CallSteps, Unadmitted, Early, Views, CallOrNone

LEMMA DeployStarts == HostInit => DeployHolds
<1> SUFFICES ASSUME HostInit, part = "deploy"
             PROVE  DeployInv
  BY DEF DeployHolds
<1>1. Pi!DeployInit
  BY DEF HostInit, PartInit
<1>2. /\ tree = 1 /\ linked = 1 /\ faults = 0 /\ edits = 0
      /\ slot = [by |-> NoOne, intent |-> FALSE] /\ lease = NoOne /\ borrower = NoOne /\ review = NoOne
      /\ row = [d \in Calls |-> "none"] /\ file = [d \in Calls |-> "none"]
      /\ agent = [d \in Calls |-> "none"] /\ launch = [d \in Calls |-> Pi!NewLaunch]
  BY <1>1 DEF Pi!DeployInit, Pi!NoSlot
<1>3. DeployTyped
  BY <1>2, NewLaunchTyped, DeployConstantsHold DEF DeployTyped, CallOrNone
<1>4. ASSUME NEW d \in Calls
      PROVE  d \in Knows /\ d \in AttendedCalls /\ d \in ToldCalls
  <2>1. /\ launch[d].at = "idle" /\ launch[d].has = {} /\ ~launch[d].started /\ ~launch[d].pending
        /\ row[d] = "none" /\ file[d] = "none" /\ agent[d] = "none" /\ d # NoOne
    BY <1>2, DeployConstantsHold DEF Pi!NewLaunch
  <2>2. d \in Knows
    BY <1>2, <2>1 DEF Knows, Admitted
  <2>3. d \in AttendedCalls
    BY <2>1 DEF AttendedCalls
  <2>4. d \in ToldCalls
    BY <2>1 DEF ToldCalls, Ending
  <2> QED BY <2>2, <2>3, <2>4
<1> QED BY <1>3, <1>4 DEF DeployInv

LEMMA DeployNextKeeps ==
    ASSUME DeployInv, Pi!DeployNext
    PROVE  DeployInv'
<1>1. CASE Pi!Commit
  BY <1>1, CommitKeeps
<1>2. CASE ~Pi!Commit
  <2>1. PICK d \in Calls :
          \/ Pi!Begin(d) \/ Pi!Refuse(d) \/ Pi!ReserveReview(d) \/ Pi!Select(d)
          \/ Pi!TakeSlot(d) \/ Pi!MarkIntent(d) \/ Pi!Materialize(d)
          \/ Pi!AuthenticateParent(d) \/ Pi!Plan(d) \/ Pi!PlanningFails(d) \/ Pi!ToolsFail(d)
          \/ Pi!Announce(d) \/ Pi!AnnounceThrows(d) \/ Pi!Protect(d) \/ Pi!InstallHooks(d)
          \/ Pi!Borrow(d) \/ Pi!AcquireLease(d) \/ Pi!AuthorizeReader(d) \/ Pi!AuthorizeFails(d)
          \/ Pi!Preflight(d) \/ Pi!Recheck(d) \/ Pi!Spawn(d)
          \/ Pi!SessionEnds(d) \/ Pi!AdapterFails(d) \/ Pi!SpawnThrows(d) \/ Pi!HandOver(d)
          \/ Pi!PublishFirst(d) \/ Pi!SettleBorrower(d) \/ Pi!SettleLease(d) \/ Pi!SettleSlot(d)
          \/ Pi!PublishRow(d) \/ Pi!PublishFile(d) \/ Pi!PublishThrows(d)
          \/ Pi!RecordElsewhere(d) \/ Pi!SupervisorSettles(d)
    BY <1>2 DEF Pi!DeployNext
  <2> QED
    BY <2>1, CallSelects, CallBegins, CallPrepares, CallStarts, CallIsAnswered, CallSettles, CallPublishes,
       CallRecordedElsewhere
<1> QED BY <1>1, <1>2

LEMMA DeployStepsKeep == DeployHolds /\ [HostNext]_hostVars => DeployHolds'
<1> SUFFICES ASSUME DeployHolds, [HostNext]_hostVars, part' = "deploy"
             PROVE  DeployInv'
  BY DEF DeployHolds
<1>1. CASE part = "deploy" /\ Pi!DeployNext
  BY <1>1, DeployNextKeeps DEF DeployHolds
<1>2. CASE UNCHANGED <<part, deployVars>>
  <2>1. DeployInv
    BY <1>2 DEF DeployHolds
  <2>2. /\ DeployTyped' = DeployTyped /\ Knows' = Knows
        /\ AttendedCalls' = AttendedCalls /\ ToldCalls' = ToldCalls
    BY <1>2 DEF deployVars, DeployTyped, Knows, AttendedCalls, ToldCalls
  <2> QED BY <2>1, <2>2 DEF DeployInv
<1> QED BY <1>1, <1>2 DEF HostNext, hostVars, DeployStep, OpenCodeStep, EvidenceStep, InboxStep, TrashStep,
        ServerStep, HubStep

\* Whatever the launches of Pi and of OpenCode take, they hold while their runtime may
\* live, give back or report on every way out, and what they return, the registry's row
\* and the status file agree (pi-pa/src/deploy.ts, opencode-pa/src/deploy.ts).
THEOREM LaunchesAreSafe == HostSpec => []LaunchesSafe
<1>1. DeployHolds /\ OpenCodeHolds => LaunchesSafe
  BY DeployMeans, OpenCodeMeans DEF DeployHolds, OpenCodeHolds, LaunchesSafe
<1> QED BY DeployStarts, DeployStepsKeep, OpenCodeStarts, OpenCodeStepsKeep, <1>1, PTL DEF HostSpec
=============================================================================
