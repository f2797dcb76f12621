-------------------------- MODULE BranchMaterialization --------------------------
(***************************************************************************)
(* Materialization of the branch of one ticket:                            *)
(* src/packages/pa-core/src/tickets/materialization.ts, with the linked    *)
(* branch of the ticket (store.ts, git-validation.ts) and the intent of    *)
(* deploy/ticket-concurrency.ts.                                           *)
(*                                                                         *)
(* A caller works inside the transaction mutex of the repository and in    *)
(* its own linked worktree.  The mutex orders the callers; it does not     *)
(* stop an operator from using git, nor `ticket update --linked-branch`.   *)
(* The effects are a chain that a crash can cut anywhere: the intent in    *)
(* the slot, the ref with the marker of the operation in its reflog, the   *)
(* checkout, the promotion of the linked branch from planned.              *)
(*                                                                         *)
(* A commit <<n, k>> is the k-th commit of a feature on commit n of the    *)
(* integration branch; <<-1, 0>> has another history.                      *)
(***************************************************************************)
EXTENDS Integers, FiniteSets

CONSTANTS Callers,     \* processes, each with a worktree of its own
          KindOf,      \* caller -> "ordinary", "prepared" or "plain"
          NoCaller,
          MaxDevelop,  \* bound on the integration branch
          MaxFeature,  \* bound on the commits of a feature
          MaxOperator  \* bound on the operator's steps

\* what the constants must satisfy: the instances assume it
MaterializationAssumption ==
  /\ KindOf \in [Callers -> {"ordinary", "prepared", "plain"}] /\ NoCaller \notin Callers
  /\ MaxDevelop \in Nat /\ MaxFeature \in Nat /\ MaxOperator \in Nat

Commits == ((0..MaxDevelop) \X (0..MaxFeature)) \cup {<<-1, 0>>}
NoCommit == <<-2, 0>>
Planned == [state |-> "planned", base |-> NoCommit, head |-> NoCommit]
IsAncestor(a, b) ==
  \/ a = b
  \/ a[1] >= 0 /\ (IF a[2] = 0 THEN a[1] <= b[1] ELSE a[1] = b[1] /\ a[2] <= b[2])
NoIntent == [owner |-> NoCaller, base |-> NoCommit]
Nothing == [at |-> "idle"]

VARIABLES
  link,       \* the linked branch of the ticket
  developSha, \* head of the integration branch
  branchRef,  \* commit of the local branch, or NoCommit
  marker,     \* operation in the last entry of its reflog, or NoIntent
  onBranch,   \* worktrees that have the branch checked out
  holder,     \* owner of the capacity slot of the ticket, and its intent
  gitMutex,   \* caller inside the transaction of the repository
  step,       \* what each caller is doing
  operated    \* operator steps so far

materializationVars ==
  <<link, developSha, branchRef, marker, onBranch, holder, gitMutex, step, operated>>
refs == <<branchRef, marker, onBranch>>

-----------------------------------------------------------------------------
(* The evidence on the ticket *)

\* resolveLinkedBranch and mergeLinkedBranchEvidence: what an update with
\* add_linked_branch makes of the link.  A second planned entry is an error.
Evidence ==
  [state |-> "materialized", head |-> branchRef,
   base |-> IF link.state = "materialized" THEN link.base ELSE branchRef]

\* The base a baseline names now: the retained one, or the integration branch.
TaskBase == IF link.state = "materialized" THEN link.base ELSE developSha

-----------------------------------------------------------------------------
(* Selection, before the mutex *)

\* The slot of the ticket is taken by a new owner when its owner has ended.
TakeSlot(c) ==
  /\ KindOf[c] # "plain" /\ step[c] = Nothing
  /\ holder.owner # NoCaller =>
       holder.owner # c /\ step[holder.owner].at = "ended" /\ KindOf[holder.owner] # "prepared"
  /\ holder' = [NoIntent EXCEPT !.owner = c]
  /\ UNCHANGED <<link, developSha, refs, gitMutex, step, operated>>

SelectBranch(c) ==
  /\ step[c] = Nothing
  /\ KindOf[c] # "plain" => holder.owner = c
  /\ step' = [step EXCEPT ![c] = [at |-> "selected", seen |-> link, base |-> TaskBase]]
  /\ UNCHANGED <<link, developSha, refs, holder, gitMutex, operated>>

-----------------------------------------------------------------------------
(* Inside the mutex *)

Back(c) == step' = [step EXCEPT ![c] = Nothing]
To(c, where) == step' = [step EXCEPT ![c] = [@ EXCEPT !.at = where]]
OthersOnBranch(c) == onBranch \ {c} # {}

\* The ticket, the baseline and the worktree are read again.
Reauthenticated(c) ==
  /\ link = step[c].seen
  /\ KindOf[c] = "ordinary" => TaskBase = step[c].base
  /\ KindOf[c] # "plain" /\ link.state = "materialized" => link.base = step[c].base
  /\ ~OthersOnBranch(c)

EnterMutex(c) ==
  /\ step[c].at = "selected" /\ gitMutex = NoCaller /\ Reauthenticated(c)
  /\ gitMutex' = c
  /\ step' = [step EXCEPT ![c].at = "inside",
                          ![c].base = IF KindOf[c] = "plain" THEN developSha ELSE step[c].base]
  /\ UNCHANGED <<link, developSha, refs, holder, operated>>

\* Changed evidence, or a checkout that is dirty or held by another authority.
RefuseEntry(c) ==
  /\ step[c].at = "selected" /\ gitMutex = NoCaller
  /\ Back(c)
  /\ UNCHANGED <<link, developSha, refs, holder, gitMutex, operated>>

Marker(c) == [owner |-> c, base |-> step[c].base]

\* ordinaryIntent: bound to the slot of this process, its worktree and base.
RecordIntent(c) ==
  /\ step[c].at = "inside" /\ KindOf[c] = "ordinary" /\ step[c].seen.state = "planned"
  /\ holder.owner = c /\ holder.base \in {NoCommit, step[c].base}
  /\ holder' = Marker(c)
  /\ To(c, "intended")
  /\ UNCHANGED <<link, developSha, refs, gitMutex, operated>>

\* The planned branch may be created or, when it exists, must be its own.
MayPlace(c) ==
  /\ step[c].at = IF KindOf[c] = "ordinary" THEN "intended" ELSE "inside"
  /\ step[c].seen.state = "planned"

CreateRef(c) ==
  /\ MayPlace(c) /\ branchRef = NoCommit
  /\ branchRef' = step[c].base
  /\ IF KindOf[c] = "ordinary"
     THEN marker' = Marker(c) /\ To(c, "created") /\ UNCHANGED onBranch
     ELSE marker' = NoIntent /\ To(c, "placed") /\ onBranch' = onBranch \cup {c}
  /\ UNCHANGED <<link, developSha, holder, gitMutex, operated>>

Owned(c) ==
  /\ branchRef = step[c].base
  /\ \/ KindOf[c] = "ordinary" /\ ~OthersOnBranch(c) /\ marker = Marker(c)
     \/ KindOf[c] = "prepared" /\ c \in onBranch

AdoptRef(c) ==
  /\ MayPlace(c) /\ branchRef # NoCommit /\ Owned(c)
  /\ To(c, "created")
  /\ UNCHANGED <<link, developSha, refs, holder, gitMutex, operated>>

\* A materialized branch is only selected, never recreated.
SelectExisting(c) ==
  /\ step[c].at = "inside" /\ step[c].seen.state = "materialized" /\ branchRef # NoCommit
  /\ To(c, "created")
  /\ UNCHANGED <<link, developSha, refs, holder, gitMutex, operated>>

\* git refuses a branch that another worktree has checked out.
Checkout(c) ==
  /\ step[c].at = "created" /\ branchRef # NoCommit /\ ~OthersOnBranch(c)
  /\ onBranch' = onBranch \cup {c}
  /\ To(c, "placed")
  /\ UNCHANGED <<link, developSha, branchRef, marker, holder, gitMutex, operated>>

CompatibleHead(c) ==
  LET seen == step[c].seen IN
  /\ c \in onBranch /\ branchRef # NoCommit
  /\ seen.state = "planned" => branchRef = step[c].base
  /\ seen.state = "materialized" =>
       IsAncestor(seen.base, branchRef) /\ IsAncestor(seen.head, branchRef)

CheckHead(c) ==
  /\ step[c].at = "placed" /\ CompatibleHead(c)
  /\ step' = [step EXCEPT ![c] =
       [at |-> "checked", seen |-> step[c].seen, head |-> branchRef,
        base |-> IF step[c].seen.state = "planned" THEN step[c].base ELSE step[c].seen.base]]
  /\ UNCHANGED <<link, developSha, refs, holder, gitMutex, operated>>

\* refreshTicketLinkedBranchHead: no selection before, no checkout after.
CheckRefresh(c) ==
  /\ step[c] = Nothing /\ gitMutex = NoCaller
  /\ link.state = "materialized" /\ c \in onBranch /\ branchRef # NoCommit
  /\ IsAncestor(link.base, branchRef) /\ IsAncestor(link.head, branchRef)
  /\ gitMutex' = c
  /\ step' = [step EXCEPT ![c] = [at |-> "checked", seen |-> link, head |-> branchRef, base |-> link.base]]
  /\ UNCHANGED <<link, developSha, refs, holder, operated>>

\* The update reads the branch again; its result is compared after it is written.
PromoteUnread(c) ==
  /\ step[c].at = "checked" /\ branchRef # NoCommit
  /\ link' = Evidence
  /\ step' = [step EXCEPT ![c] = [@ EXCEPT !.at = "returned"]]
  /\ gitMutex' = NoCaller
  /\ UNCHANGED <<developSha, refs, holder, operated>>

Promote(c) ==
  /\ step[c].at = "checked" /\ branchRef # NoCommit
  /\ link' = Evidence
  /\ step' = [step EXCEPT ![c] =
       IF Evidence.head = @.head /\ Evidence.base = @.base THEN [@ EXCEPT !.at = "returned"] ELSE Nothing]
  /\ gitMutex' = NoCaller
  /\ UNCHANGED <<developSha, refs, holder, operated>>

Return(c) ==
  /\ step[c].at = "returned" /\ Back(c)
  /\ UNCHANGED <<link, developSha, refs, holder, gitMutex, operated>>

\* Any of the checks fails: what was done stays.
Fail(c) ==
  /\ gitMutex = c /\ gitMutex' = NoCaller
  /\ Back(c)
  /\ UNCHANGED <<link, developSha, refs, holder, operated>>

EndCaller(c) ==
  /\ step[c].at # "ended"
  /\ step' = [step EXCEPT ![c] = [at |-> "ended"]]
  /\ gitMutex' = IF gitMutex = c THEN NoCaller ELSE gitMutex
  /\ UNCHANGED <<link, developSha, refs, holder, operated>>

-----------------------------------------------------------------------------
(* The operator and the agents in the worktrees *)

Operate(action) == operated < MaxOperator /\ operated' = operated + 1 /\ action
                   /\ UNCHANGED <<holder, gitMutex, step>>

DevelopAdvances ==
  developSha[1] < MaxDevelop /\ developSha' = <<developSha[1] + 1, 0>> /\ UNCHANGED <<link, refs>>

CommitOnBranch ==
  /\ branchRef # NoCommit /\ branchRef[2] < MaxFeature /\ branchRef[1] >= 0
  /\ branchRef' = <<branchRef[1], branchRef[2] + 1>> /\ marker' = NoIntent
  /\ UNCHANGED <<link, developSha, onBranch>>

\* Creates the branch, or resets it.
SetBranch ==
  /\ \E to \in {developSha, <<-1, 0>>} : branchRef' = to
  /\ marker' = NoIntent /\ UNCHANGED <<link, developSha, onBranch>>

DeleteBranch ==
  /\ branchRef # NoCommit /\ onBranch = {}
  /\ branchRef' = NoCommit /\ marker' = NoIntent /\ UNCHANGED <<link, developSha, onBranch>>

LeaveBranch ==
  /\ \E c \in onBranch : onBranch' = onBranch \ {c}
  /\ UNCHANGED <<link, developSha, branchRef, marker>>

\* ticket update --linked-branch, by anyone.
LinkBranch ==
  branchRef # NoCommit /\ link' = Evidence /\ UNCHANGED <<developSha, refs>>

Operator ==
  \/ Operate(DevelopAdvances) \/ Operate(CommitOnBranch) \/ Operate(SetBranch)
  \/ Operate(DeleteBranch) \/ Operate(LeaveBranch) \/ Operate(LinkBranch)

-----------------------------------------------------------------------------
MaterializationInit ==
  /\ link = Planned
  /\ developSha = <<0, 0>>
  /\ branchRef = NoCommit /\ marker = NoIntent /\ onBranch = {}
  /\ holder = NoIntent
  /\ gitMutex = NoCaller
  /\ step = [c \in Callers |-> Nothing]
  /\ operated = 0

MaterializationNext ==
  \/ \E c \in Callers :
       \/ TakeSlot(c) \/ SelectBranch(c) \/ EnterMutex(c) \/ RefuseEntry(c)
       \/ RecordIntent(c) \/ CreateRef(c) \/ AdoptRef(c) \/ SelectExisting(c)
       \/ Checkout(c) \/ CheckHead(c) \/ CheckRefresh(c) \/ Promote(c)
       \/ Return(c) \/ Fail(c) \/ EndCaller(c)
  \/ Operator

MaterializationSpec == MaterializationInit /\ [][MaterializationNext]_materializationVars

-----------------------------------------------------------------------------
(* Every variable holds the values its declaration names. *)
MaterializationTypeOK ==
  /\ link.state \in {"planned", "materialized"} /\ {link.base, link.head} \subseteq Commits \cup {NoCommit}
  /\ developSha \in Commits /\ branchRef \in Commits \cup {NoCommit}
  /\ onBranch \subseteq Callers
  /\ {holder.owner, marker.owner, gitMutex} \subseteq Callers \cup {NoCaller}
  /\ operated \in 0..MaxOperator

(* The base of a materialized branch never changes, whatever the branch, the *)
(* integration branch and other writers of the ticket do                     *)
(* (mergeLinkedBranchEvidence, and the checks of materializeTicketBranch).   *)
BaseImmutable == link.state = "materialized" => link'.base = link.base

(* A caller that is told its branch is materialized is told the truth: the   *)
(* ticket has the base the task was approved on, and the head descends from  *)
(* it, although the branch can be created, reset or linked by others between *)
(* any two of its steps.                                                     *)
ReturnedExact ==
  \A c \in Callers : step[c].at = "returned" =>
    link.state = "materialized" /\ link.base = step[c].base /\ IsAncestor(link.base, step[c].head)
================================================================================
