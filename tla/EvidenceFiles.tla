----------------------------- MODULE EvidenceFiles -----------------------------
(***************************************************************************)
(* The files below the repository admission                                *)
(* (pa-core/src/deploy/repository-admission.ts): how ownership evidence is *)
(* inspected, published, replaced and quarantined, the mutation mutex that *)
(* a helper process holds for its caller, and the setup of a repository    *)
(* that takes the mutex of every worktree.  RepositoryAdmission takes an   *)
(* operation under the mutex for one action; here every system call is     *)
(* one, callers die between them, and a helper may be killed.              *)
(*                                                                         *)
(* A record is a number, an inode: at the path of a worktree, under the    *)
(* temporary name of its publisher, under a quarantine name, or under      *)
(* several of these.                                                       *)
(***************************************************************************)
EXTENDS Naturals, Sequences

CONSTANTS Callers,      \* processes
          Trees,        \* the worktrees of the repository
          Primary,      \* the one that is always there
          MaxRecords,   \* bound on the records ever written
          MaxMishaps    \* bound on helpers killed and worktrees added or removed

\* what the constants must satisfy: the instances assume it
EvidenceAssumption == Primary \in Trees /\ {MaxRecords, MaxMishaps} \subseteq Nat

VARIABLES
  callers,   \* the call of each process
  running,   \* processes that live
  helper,    \* per call and worktree: "none", "waiting" or "held"
  present,   \* worktrees that exist
  path,      \* the record at each worktree's path, 0 for none
  owner,     \* whose process each record names, in the order they were written
  temporary, \* records still under their temporary name
  kept,      \* records under a quarantine name
  withdrawn, \* records that their owner took back or replaced
  unguarded, \* a helper was killed while its caller relied on it
  mishaps

evidenceVars == <<callers, running, helper, present, path, owner, temporary, kept, withdrawn, unguarded,
                  mishaps>>
records == <<path, owner, temporary, kept, withdrawn>>
faults == <<unguarded, mishaps>>

Ids == 1 .. MaxRecords
Operations == {"acquire", "force", "update", "release", "setup"}
NoCall == [op |-> "none", at |-> "idle", tree |-> Primary, mine |-> 0, seen |-> {}]

EvidenceInit ==
  /\ callers = [c \in Callers |-> NoCall] /\ running = Callers
  /\ helper = [c \in Callers |-> [t \in Trees |-> "none"]]
  /\ present = Trees
  /\ path = [t \in Trees |-> 0] /\ owner = <<>>
  /\ temporary = {} /\ kept = {} /\ withdrawn = {}
  /\ unguarded = FALSE /\ mishaps = 0

At(c, where) == c \in running /\ callers[c].at = where
Goes(c, where) == callers' = [callers EXCEPT ![c].at = where]
Tree(c) == callers[c].tree

-----------------------------------------------------------------------------
(* Inspection *)

\* nlink: a record under two names is not a protected regular file
Single(i) == i \notin temporary \cup kept

Inspection(t) ==
  IF path[t] = 0 THEN "absent"
  ELSE IF ~Single(path[t]) THEN "malformed"
  ELSE IF owner[path[t]] \in running THEN "live" ELSE "stale"

-----------------------------------------------------------------------------
(* The mutex *)

Holders(t) == {c \in Callers : helper[c][t] = "held"}

\* withMutationMutex spawns flock
Ask ==
  \E c \in Callers, op \in Operations, t \in present :
    /\ At(c, "idle") /\ (op = "setup" => t = Primary)
    /\ callers' = [callers EXCEPT ![c] = [NoCall EXCEPT !.op = op, !.at = "waiting", !.tree = t]]
    /\ helper' = [helper EXCEPT ![c][t] = "waiting"]
    /\ UNCHANGED <<running, present, records, faults>>

\* flock has the lock and the script makes the ready file
FreeFor(t) == Holders(t) = {}

Granted(t) == FreeFor(t)

Grant ==
  \E c \in Callers, t \in Trees :
    /\ helper[c][t] = "waiting" /\ Granted(t)
    /\ helper' = [helper EXCEPT ![c][t] = "held"]
    /\ UNCHANGED <<callers, running, present, records, faults>>

\* waitForPath sees it and the operation begins
Enter ==
  \E c \in Callers :
    /\ At(c, "waiting") /\ helper[c][Tree(c)] = "held"
    /\ Goes(c, IF callers[c].op = "setup" THEN "inventory" ELSE "inspect")
    /\ UNCHANGED <<running, helper, present, records, faults>>

\* waitForPath gives up after five seconds; the helper gets the end of its input
GiveUp ==
  \E c \in Callers :
    /\ At(c, "waiting") \/ At(c, "locking")
    /\ Goes(c, "leaving")
    /\ UNCHANGED <<running, helper, present, records, faults>>

\* the finally: the end of the input, the done file or SIGKILL; a setup leaves
\* every mutex it has taken
Leave ==
  \E c \in Callers :
    /\ At(c, "leaving")
    /\ helper' = [helper EXCEPT ![c] = [t \in Trees |-> "none"]]
    /\ callers' = [callers EXCEPT ![c] = NoCall]
    /\ UNCHANGED <<running, present, records, faults>>

\* the process dies; the kernel closes the helper's input
Crash ==
  \E c \in Callers :
    /\ c \in running /\ running' = running \ {c}
    /\ callers' = [callers EXCEPT ![c] = NoCall]
    /\ UNCHANGED <<helper, present, records, faults>>

HelperEnds ==
  \E c \in Callers :
    /\ c \notin running /\ helper[c] # [t \in Trees |-> "none"]
    /\ helper' = [helper EXCEPT ![c] = [t \in Trees |-> "none"]]
    /\ UNCHANGED <<callers, running, present, records, faults>>

KillHelper ==
  \E c \in running, t \in Trees :
    /\ helper[c][t] = "held" /\ mishaps < MaxMishaps
    /\ mishaps' = mishaps + 1 /\ unguarded' = TRUE
    /\ helper' = [helper EXCEPT ![c][t] = "none"]
    /\ UNCHANGED <<callers, running, present, records>>

-----------------------------------------------------------------------------
(* The operations under it *)

\* an OpenCode caller takes evidence that nobody lives for, with force; a Pi
\* caller takes none
Takeable(state) == state \in {"malformed", "stale"}

MayTake(state) == Takeable(state)

Inspect ==
  \E c \in Callers :
    LET call == callers[c] now == Inspection(call.tree) IN
    /\ At(c, "inspect")
    /\ Goes(c, CASE call.op \in {"acquire", "force"} /\ now = "absent" /\ call.tree \in present -> "write"
                 [] call.op = "force" /\ MayTake(now) -> "keep"
                 [] call.op = "update" /\ path[call.tree] # 0 /\ owner[path[call.tree]] = c -> "write"
                 [] call.op = "release" /\ path[call.tree] # 0 /\ owner[path[call.tree]] = c -> "remove"
                 [] OTHER -> "leaving")
    /\ UNCHANGED <<running, helper, present, records, faults>>

\* quarantineLeaseUnlocked: link, then unlink
LinkFirst(t) == kept \cup {path[t]}

\* the path is taken away before the quarantine has it
UnlinkFirst(t) == kept

Keeps(t) == LinkFirst(t)

QuarantineLink ==
  \E c \in Callers :
    /\ At(c, "keep") /\ path[Tree(c)] # 0
    /\ kept' = Keeps(Tree(c)) /\ Goes(c, "unlink")
    /\ UNCHANGED <<running, helper, present, path, owner, temporary, withdrawn, faults>>

QuarantineUnlink ==
  \E c \in Callers :
    /\ At(c, "unlink")
    /\ path' = [path EXCEPT ![Tree(c)] = 0] /\ Goes(c, "write")
    /\ UNCHANGED <<running, helper, present, owner, temporary, kept, withdrawn, faults>>

\* a system call that another writer has made impossible
Fails ==
  \E c \in Callers :
    /\ \/ At(c, "keep") /\ path[Tree(c)] = 0
       \/ At(c, "remove") /\ path[Tree(c)] = 0
    /\ Goes(c, "leaving")
    /\ UNCHANGED <<running, helper, present, records, faults>>

\* the record under its temporary name
WriteTemporary ==
  \E c \in Callers :
    /\ At(c, "write") /\ Len(owner) < MaxRecords
    /\ owner' = Append(owner, c)
    /\ temporary' = temporary \cup {Len(owner')}
    /\ callers' = [callers EXCEPT ![c].mine = Len(owner'),
                                  ![c].at = IF callers[c].op = "update" THEN "rename" ELSE "publish"]
    /\ UNCHANGED <<running, helper, present, path, kept, withdrawn, faults>>

\* publishLeaseExclusive: a link never overwrites
NoClobber(t) == path[t] = 0

MayPublish(t) == NoClobber(t)

Publish ==
  \E c \in Callers :
    /\ At(c, "publish")
    /\ path' = IF MayPublish(Tree(c)) THEN [path EXCEPT ![Tree(c)] = callers[c].mine] ELSE path
    /\ Goes(c, "clean")
    /\ UNCHANGED <<running, helper, present, owner, temporary, kept, withdrawn, faults>>

Clean ==
  \E c \in Callers :
    /\ At(c, "clean")
    /\ temporary' = temporary \ {callers[c].mine} /\ Goes(c, "leaving")
    /\ UNCHANGED <<running, helper, present, path, owner, kept, withdrawn, faults>>

\* replaceLeaseAtomic
Rename ==
  \E c \in Callers :
    /\ At(c, "rename")
    /\ withdrawn' = IF path[Tree(c)] # 0 /\ owner[path[Tree(c)]] = c THEN withdrawn \cup {path[Tree(c)]} ELSE withdrawn
    /\ path' = [path EXCEPT ![Tree(c)] = callers[c].mine]
    /\ temporary' = temporary \ {callers[c].mine} /\ Goes(c, "leaving")
    /\ UNCHANGED <<running, helper, present, owner, kept, faults>>

\* releaseRepositoryMutationLease: unlink of the path
Remove ==
  \E c \in Callers :
    /\ At(c, "remove") /\ path[Tree(c)] # 0
    /\ withdrawn' = IF owner[path[Tree(c)]] = c THEN withdrawn \cup {path[Tree(c)]} ELSE withdrawn
    /\ path' = [path EXCEPT ![Tree(c)] = 0] /\ Goes(c, "leaving")
    /\ UNCHANGED <<running, helper, present, owner, temporary, kept, faults>>

-----------------------------------------------------------------------------
(* Setup: withVacantRepositorySetup *)

Inventory ==
  \E c \in Callers :
    /\ At(c, "inventory")
    /\ callers' = [callers EXCEPT ![c].seen = present, ![c].at = "locking"]
    /\ UNCHANGED <<running, helper, present, records, faults>>

\* the linked worktrees' mutexes, one inside the other
AllMutexes(c) == callers[c].seen

Needs(c) == AllMutexes(c)

LockNext ==
  \E c \in Callers :
    \E t \in Needs(c) :
      /\ At(c, "locking") /\ helper[c][t] = "none"
      /\ \A u \in Trees : helper[c][u] # "waiting"
      /\ helper' = [helper EXCEPT ![c][t] = "waiting"]
      /\ UNCHANGED <<callers, running, present, records, faults>>

Vacant(c) == callers[c].seen = present /\ \A t \in present : path[t] = 0

BeginSetup ==
  \E c \in Callers :
    /\ At(c, "locking") /\ \A t \in Needs(c) : helper[c][t] = "held"
    /\ Goes(c, IF Vacant(c) THEN "setup" ELSE "leaving")
    /\ UNCHANGED <<running, helper, present, records, faults>>

\* the callback has run; the second look decides between its result and an error
EndSetup ==
  \E c \in Callers :
    /\ At(c, "setup")
    /\ Goes(c, "leaving")
    /\ UNCHANGED <<running, helper, present, records, faults>>

\* git worktree add and remove, by people and by materialization
EditTrees ==
  \E t \in Trees \ {Primary} :
    /\ mishaps < MaxMishaps /\ mishaps' = mishaps + 1
    /\ t \in present => path[t] = 0
    /\ present' = IF t \in present THEN present \ {t} ELSE present \cup {t}
    /\ UNCHANGED <<callers, running, helper, records, unguarded>>

EvidenceNext ==
  \/ Ask \/ Grant \/ Enter \/ GiveUp \/ Leave \/ Crash \/ HelperEnds \/ KillHelper
  \/ Inspect \/ QuarantineLink \/ QuarantineUnlink \/ Fails \/ WriteTemporary \/ Publish \/ Clean \/ Rename \/ Remove
  \/ Inventory \/ LockNext \/ BeginSetup \/ EndSetup \/ EditTrees

EvidenceSpec == EvidenceInit /\ [][EvidenceNext]_evidenceVars

-----------------------------------------------------------------------------
(* Properties *)

Places == {"idle", "waiting", "leaving", "inspect", "keep", "unlink", "write", "publish", "clean", "rename", "remove",
           "inventory", "locking", "setup"}

EvidenceTypeOK ==
  /\ \A c \in Callers : /\ callers[c].op \in Operations \cup {"none"} /\ callers[c].at \in Places
                        /\ callers[c].tree \in Trees /\ callers[c].mine \in 0 .. MaxRecords /\ callers[c].seen \subseteq Trees
  /\ running \subseteq Callers /\ helper \in [Callers -> [Trees -> {"none", "waiting", "held"}]]
  /\ Primary \in present /\ present \subseteq Trees
  /\ path \in [Trees -> 0 .. MaxRecords] /\ owner \in Seq(Callers) /\ Len(owner) <= MaxRecords
  /\ temporary \subseteq Ids /\ kept \subseteq Ids /\ withdrawn \subseteq Ids
  /\ unguarded \in BOOLEAN /\ mishaps \in 0 .. MaxMishaps

\* As long as no helper was killed, a record that was published is still at its
\* path or in quarantine unless its owner took it back, whoever dies between two
\* calls (quarantineLeaseUnlocked, publishLeaseExclusive).
BytesKept ==
  ~unguarded =>
    \A i \in DOMAIN owner \ temporary :
      i \in kept \cup withdrawn \/ \E t \in Trees : path[t] = i

\* Evidence of a live owner leaves its path only by the owner's hand
\* (withMutationMutex, inspectLeaseUnlocked).
LiveEvidence ==
  \A t \in Trees :
    LET i == path[t] IN
    ~unguarded' /\ i # 0 /\ path'[t] # i /\ owner[i] \in running => i \in withdrawn'

\* A setup's callback runs alone: while it does, no process is at work on the
\* evidence of a worktree it has seen, and there is none.
Busy(c, t) == c \in running /\ callers[c].tree = t /\ callers[c].at \notin {"idle", "waiting", "leaving"}

SetupAlone ==
  ~unguarded =>
    \A c \in running :
      callers[c].at = "setup" =>
        \A t \in callers[c].seen : path[t] = 0 /\ \A d \in Callers \ {c} : ~Busy(d, t)

EvidenceSafe == BytesKept /\ SetupAlone
=============================================================================
