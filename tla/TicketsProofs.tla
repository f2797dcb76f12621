---------------------------- MODULE TicketsProofs ----------------------------
(***************************************************************************)
(* Theorems about the parts of MCTickets, for every value of the           *)
(* constants: the materialization of a ticket's branch, the workflow       *)
(* service, the operator's documents, phase reports, the prepared workflow *)
(* and the requests to deploy.  A behaviour is one of a single part, so    *)
(* each invariant is proved on the steps of its part, and the other parts  *)
(* leave it alone.                                                         *)
(***************************************************************************)
EXTENDS MCTickets, TLAPS, FiniteSetTheorems

-----------------------------------------------------------------------------
(* The branch of a ticket.                                                 *)

Heads == Branch!Commits \cup {Branch!NoCommit}
Links == [state : {"planned", "materialized"}, base : Heads, head : Heads]
Owners == Materializers \cup {NoCaller}

\* What a caller is doing: it has selected and goes on, or it has checked the head.
BranchSteps ==
    {Branch!Nothing} \cup [at : {"ended"}]
    \cup [at : {"selected", "inside", "intended", "created", "placed"}, seen : Links, base : Heads]
    \cup [at : {"checked", "returned"}, seen : Links, base : Heads, head : Heads]

BranchTyped ==
    /\ link \in Links /\ developSha \in Branch!Commits /\ branchRef \in Heads
    /\ marker \in [owner : Owners, base : Heads] /\ holder \in [owner : Owners, base : Heads]
    /\ onBranch \subseteq Materializers /\ gitMutex \in Owners
    /\ step \in [Materializers -> BranchSteps] /\ operated \in 0..MaxOperator

\* A head that was checked descends from the base it was checked against.
CheckedDescends ==
    \A c \in Materializers : step[c].at = "checked" => Branch!IsAncestor(step[c].base, step[c].head)

\* The inductive invariant behind BranchSafe.
BranchInv == BranchTyped /\ CheckedDescends /\ Branch!ReturnedExact

BranchHolds == part = "branch" => BranchInv

LEMMA BranchMeans == BranchHolds => BranchSafe
<1> SUFFICES ASSUME BranchInv PROVE Branch!MaterializationTypeOK
  BY DEF BranchHolds, BranchSafe, BranchInv
<1> QED BY DEF BranchInv, BranchTyped, Branch!MaterializationTypeOK, Links, Heads, Owners

LEMMA BranchStarts == TicketsInit => BranchHolds
<1> SUFFICES ASSUME Branch!MaterializationInit PROVE BranchInv
  BY DEF TicketsInit, BranchHolds
<1>1. Branch!NoCommit \in Heads /\ <<0, 0>> \in Branch!Commits
  BY BranchConstants DEF Branch!MaterializationAssumption, Heads, Branch!Commits
<1>2. Branch!Planned \in Links
  BY <1>1 DEF Branch!Planned, Links
<1>3. step \in [Materializers -> BranchSteps] /\ \A c \in Materializers : step[c].at = "idle"
  BY DEF Branch!MaterializationInit, BranchSteps, Branch!Nothing
<1>4. BranchTyped
  BY <1>1, <1>2, <1>3, BranchConstants DEF Branch!MaterializationInit, BranchTyped, Branch!NoIntent, Owners,
     Branch!MaterializationAssumption
<1> QED BY <1>3, <1>4 DEF BranchInv, CheckedDescends, Branch!ReturnedExact

\* A commit is its own ancestor.
LEMMA OwnAncestor == ASSUME NEW commit PROVE Branch!IsAncestor(commit, commit)
BY DEF Branch!IsAncestor

\* A step of one caller: it keeps the link, or leaves the base of a materialized one.
LEMMA BranchKeeps ==
    ASSUME BranchInv, NEW c \in Materializers, NEW next \in BranchSteps,
           step' = [step EXCEPT ![c] = next],
           next.at = "checked" => Branch!IsAncestor(next.base, next.head),
           next.at = "returned" =>
             /\ link'.state = "materialized" /\ link'.base = next.base
             /\ Branch!IsAncestor(next.base, next.head),
           link' \in Links,
           link.state = "materialized" => link'.state = "materialized" /\ link'.base = link.base,
           developSha' \in Branch!Commits, branchRef' \in Heads,
           marker' \in [owner : Owners, base : Heads], holder' \in [owner : Owners, base : Heads],
           onBranch' \subseteq Materializers, gitMutex' \in Owners, operated' = operated
    PROVE  BranchInv'
<1>1. /\ step' \in [Materializers -> BranchSteps] /\ step'[c] = next
      /\ \A d \in Materializers : d # c => step'[d] = step[d]
  BY DEF BranchInv, BranchTyped
<1>2. BranchTyped'
  BY <1>1 DEF BranchInv, BranchTyped
<1>3. CheckedDescends'
  BY <1>1 DEF BranchInv, CheckedDescends
<1>4. Branch!ReturnedExact'
  <2> SUFFICES ASSUME NEW d \in Materializers, step'[d].at = "returned"
               PROVE  /\ link'.state = "materialized" /\ link'.base = step'[d].base
                      /\ Branch!IsAncestor(link'.base, step'[d].head)
    BY DEF Branch!ReturnedExact
  <2>1. CASE d = c
    BY <1>1, <2>1
  <2>2. CASE d # c
    BY <1>1, <2>2 DEF BranchInv, Branch!ReturnedExact
  <2> QED BY <2>1, <2>2
<1> QED BY <1>2, <1>3, <1>4 DEF BranchInv

\* What an update makes of the link keeps a base that was recorded.
LEMMA EvidenceKeepsBase ==
    ASSUME BranchTyped
    PROVE  /\ Branch!Evidence \in Links /\ Branch!Evidence.state = "materialized"
           /\ link.state = "materialized" => Branch!Evidence.base = link.base
<1> DEFINE base == IF link.state = "materialized" THEN link.base ELSE branchRef
<1>1. base \in Heads
  BY DEF BranchTyped, Links
<1>2. Branch!Evidence = [state |-> "materialized", head |-> branchRef, base |-> base]
  BY DEF Branch!Evidence
<1> HIDE DEF base
<1>3. Branch!Evidence \in Links
  BY <1>1, <1>2 DEF BranchTyped, Links
<1> QED BY <1>2, <1>3 DEF base

\* The steps before the head is checked, and the steps that go back.
LEMMA BranchGoes ==
    ASSUME BranchInv, NEW c \in Materializers,
           \/ Branch!SelectBranch(c) \/ Branch!EnterMutex(c) \/ Branch!RefuseEntry(c)
           \/ Branch!RecordIntent(c) \/ Branch!CreateRef(c) \/ Branch!AdoptRef(c)
           \/ Branch!SelectExisting(c) \/ Branch!Checkout(c)
           \/ Branch!Return(c) \/ Branch!Fail(c) \/ Branch!EndCaller(c)
    PROVE  BranchInv'
<1> USE DEF Branch!refs
<1> DEFINE Going == {"selected", "inside", "intended", "created", "placed"}
<1>0. /\ link \in Links /\ developSha \in Branch!Commits /\ branchRef \in Heads
      /\ marker \in [owner : Owners, base : Heads] /\ holder \in [owner : Owners, base : Heads]
      /\ onBranch \subseteq Materializers /\ gitMutex \in Owners
      /\ step \in [Materializers -> BranchSteps] /\ step[c] \in BranchSteps
      /\ NoCaller \in Owners /\ c \in Owners /\ Branch!NoCommit \in Heads /\ developSha \in Heads
  BY DEF BranchInv, BranchTyped, Owners, Heads
<1>1. ASSUME step[c].at \in Going
      PROVE  /\ step[c].seen \in Links /\ step[c].base \in Heads
             /\ \A at \in Going : [step[c] EXCEPT !.at = at] \in BranchSteps
             /\ \A at \in Going, base \in Heads : [step[c] EXCEPT !.at = at, !.base = base] \in BranchSteps
             /\ \A at \in Going : [step[c] EXCEPT !.at = at].at = at
             /\ \A at \in Going, base \in Heads : [step[c] EXCEPT !.at = at, !.base = base].at = at
  <2>1. step[c] \in [at : Going, seen : Links, base : Heads]
    BY <1>0, <1>1 DEF BranchSteps, Branch!Nothing
  <2>2. [at : Going, seen : Links, base : Heads] \subseteq BranchSteps
    BY DEF BranchSteps
  <2> QED BY <2>1, <2>2
<1>2. ASSUME UNCHANGED <<link, developSha, operated>>,
             NEW next \in BranchSteps, step' = [step EXCEPT ![c] = next],
             next.at \notin {"checked", "returned"},
             branchRef' \in Heads, marker' \in [owner : Owners, base : Heads],
             holder' \in [owner : Owners, base : Heads], onBranch' \subseteq Materializers, gitMutex' \in Owners
      PROVE  BranchInv'
  BY <1>0, <1>2, BranchKeeps
<1>3. CASE Branch!SelectBranch(c)
  <2> DEFINE base == IF link.state = "materialized" THEN link.base ELSE developSha
             next == [at |-> "selected", seen |-> link, base |-> base]
  <2>1. base \in Heads
    BY <1>0 DEF Links
  <2>2. next \in BranchSteps /\ next.at = "selected"
    <3> HIDE DEF base
    <3> QED BY <1>0, <2>1 DEF BranchSteps
  <2>3. step' = [step EXCEPT ![c] = next]
    BY <1>3 DEF Branch!SelectBranch, Branch!TaskBase
  <2> HIDE DEF next
  <2> QED BY <1>0, <1>2, <1>3, <2>2, <2>3 DEF Branch!SelectBranch
<1>4. CASE Branch!EnterMutex(c)
  <2>1. step[c].at \in Going
    BY <1>4 DEF Branch!EnterMutex
  <2> DEFINE base == IF KindOf[c] = "plain" THEN developSha ELSE step[c].base
  <2>2. base \in Heads
    BY <1>0, <1>1, <2>1
  <2>5. step' = [step EXCEPT ![c] = [step[c] EXCEPT !.at = "inside", !.base = base]]
    BY <1>0, <1>4 DEF Branch!EnterMutex
  <2> HIDE DEF base
  <2> DEFINE next == [step[c] EXCEPT !.at = "inside", !.base = base]
  <2>3. next \in BranchSteps /\ next.at = "inside"
    BY <1>1, <2>1, <2>2
  <2>4. step' = [step EXCEPT ![c] = next]
    BY <2>5
  <2> HIDE DEF next
  <2> QED BY <1>0, <1>2, <1>4, <2>3, <2>4 DEF Branch!EnterMutex
<1>5. ASSUME step[c].at \in Going, NEW at \in Going, Branch!To(c, at),
             UNCHANGED <<link, developSha, gitMutex, operated>>,
             branchRef' \in Heads, marker' \in [owner : Owners, base : Heads],
             holder' \in [owner : Owners, base : Heads], onBranch' \subseteq Materializers
      PROVE  BranchInv'
  <2> DEFINE next == [step[c] EXCEPT !.at = at]
  <2>1. next \in BranchSteps /\ next.at = at
    BY <1>1, <1>5
  <2>2. step' = [step EXCEPT ![c] = next]
    BY <1>0, <1>5 DEF Branch!To
  <2> HIDE DEF next
  <2> QED BY <1>0, <1>2, <1>5, <2>1, <2>2
<1>6. step[c].at \in Going => Branch!Marker(c) \in [owner : Owners, base : Heads]
  BY <1>0, <1>1 DEF Branch!Marker
<1>7. CASE Branch!RecordIntent(c)
  <2>1. holder' \in [owner : Owners, base : Heads]
    BY <1>6, <1>7 DEF Branch!RecordIntent
  <2> QED BY <1>0, <1>5, <1>7, <2>1 DEF Branch!RecordIntent
<1>8. CASE Branch!CreateRef(c)
  <2>1. step[c].at \in Going /\ branchRef' = step[c].base
    BY <1>8 DEF Branch!CreateRef, Branch!MayPlace
  <2>2. branchRef' \in Heads
    BY <1>1, <2>1
  <2>3. Branch!NoIntent \in [owner : Owners, base : Heads]
    BY <1>0 DEF Branch!NoIntent
  <2>4. CASE marker' = Branch!Marker(c) /\ Branch!To(c, "created") /\ UNCHANGED onBranch
    BY <1>0, <1>5, <1>6, <1>8, <2>1, <2>2, <2>4 DEF Branch!CreateRef
  <2>5. CASE marker' = Branch!NoIntent /\ Branch!To(c, "placed") /\ onBranch' = onBranch \cup {c}
    BY <1>0, <1>5, <1>8, <2>1, <2>2, <2>3, <2>5 DEF Branch!CreateRef
  <2> QED BY <1>8, <2>4, <2>5 DEF Branch!CreateRef
<1>9. CASE Branch!AdoptRef(c)
  BY <1>0, <1>5, <1>9 DEF Branch!AdoptRef, Branch!MayPlace
<1>10. CASE Branch!SelectExisting(c)
  BY <1>0, <1>5, <1>10 DEF Branch!SelectExisting
<1>11. CASE Branch!Checkout(c)
  BY <1>0, <1>5, <1>11 DEF Branch!Checkout
<1>12. CASE Branch!RefuseEntry(c) \/ Branch!Return(c) \/ Branch!Fail(c)
  <2>1. Branch!Nothing \in BranchSteps /\ Branch!Nothing.at = "idle"
    BY DEF BranchSteps, Branch!Nothing
  <2>2. /\ step' = [step EXCEPT ![c] = Branch!Nothing]
        /\ UNCHANGED <<link, developSha, branchRef, marker, onBranch, holder, operated>>
        /\ gitMutex' \in {gitMutex, NoCaller}
    BY <1>12 DEF Branch!RefuseEntry, Branch!Return, Branch!Fail, Branch!Back
  <2> QED BY <1>0, <1>2, <2>1, <2>2
<1>13. CASE Branch!EndCaller(c)
  <2>1. [at |-> "ended"] \in BranchSteps
    BY DEF BranchSteps
  <2> QED BY <1>0, <1>2, <1>13, <2>1 DEF Branch!EndCaller
<1> QED BY <1>3, <1>4, <1>7, <1>8, <1>9, <1>10, <1>11, <1>12, <1>13

\* The head is checked, and what is returned is compared with what was written.
LEMMA BranchChecks ==
    ASSUME BranchInv, NEW c \in Materializers,
           Branch!CheckHead(c) \/ Branch!CheckRefresh(c) \/ Branch!Promote(c)
    PROVE  BranchInv'
<1> USE DEF Branch!refs
<1>0. /\ BranchTyped /\ link \in Links /\ developSha \in Branch!Commits /\ branchRef \in Heads
      /\ marker \in [owner : Owners, base : Heads] /\ holder \in [owner : Owners, base : Heads]
      /\ onBranch \subseteq Materializers /\ gitMutex \in Owners
      /\ step[c] \in BranchSteps /\ NoCaller \in Owners /\ c \in Owners
  BY DEF BranchInv, BranchTyped, Owners
<1>1. CASE Branch!CheckHead(c)
  <2> DEFINE seen == step[c].seen
             base == IF seen.state = "planned" THEN step[c].base ELSE seen.base
             next == [at |-> "checked", seen |-> seen, head |-> branchRef, base |-> base]
  <2>1. step[c].at = "placed"
    BY <1>1 DEF Branch!CheckHead
  <2>2. seen \in Links /\ step[c].base \in Heads
    BY <1>0, <2>1 DEF BranchSteps, Branch!Nothing
  <2>3. base \in Heads
    BY <2>2 DEF Links
  <2>4. Branch!IsAncestor(base, branchRef)
    <3>1. CASE seen.state = "planned"
      BY <1>1, <3>1, OwnAncestor DEF Branch!CheckHead, Branch!CompatibleHead
    <3>2. CASE seen.state = "materialized"
      BY <1>1, <3>2 DEF Branch!CheckHead, Branch!CompatibleHead
    <3> QED BY <2>2, <3>1, <3>2 DEF Links
  <2>5. step' = [step EXCEPT ![c] = next]
    BY <1>1 DEF Branch!CheckHead
  <2> HIDE DEF seen, base
  <2>6. next \in BranchSteps /\ next.at = "checked" /\ next.base = base /\ next.head = branchRef
    BY <1>0, <2>2, <2>3 DEF BranchSteps
  <2> HIDE DEF next
  <2> QED BY <1>0, <1>1, <2>4, <2>5, <2>6, BranchKeeps DEF Branch!CheckHead
<1>2. CASE Branch!CheckRefresh(c)
  <2> DEFINE next == [at |-> "checked", seen |-> link, head |-> branchRef, base |-> link.base]
  <2>1. next \in BranchSteps /\ next.at = "checked" /\ next.base = link.base /\ next.head = branchRef
    BY <1>0 DEF BranchSteps, Links
  <2>2. step' = [step EXCEPT ![c] = next]
    BY <1>2 DEF Branch!CheckRefresh
  <2> HIDE DEF next
  <2> QED BY <1>0, <1>2, <2>1, <2>2, BranchKeeps DEF Branch!CheckRefresh
<1>3. CASE Branch!Promote(c)
  <2> DEFINE heard == [step[c] EXCEPT !.at = "returned"]
             next == IF Branch!Evidence.head = step[c].head /\ Branch!Evidence.base = step[c].base
                     THEN heard ELSE Branch!Nothing
  <2>1. step[c].at = "checked" /\ link' = Branch!Evidence
    BY <1>3 DEF Branch!Promote
  <2>2. step[c] \in [at : {"checked", "returned"}, seen : Links, base : Heads, head : Heads]
    BY <1>0, <2>1 DEF BranchSteps, Branch!Nothing
  <2>3. heard \in BranchSteps /\ heard.at = "returned" /\ heard.base = step[c].base /\ heard.head = step[c].head
    BY <2>2 DEF BranchSteps
  <2>4. Branch!Nothing \in BranchSteps /\ Branch!Nothing.at = "idle"
    BY DEF BranchSteps, Branch!Nothing
  <2>5. Branch!IsAncestor(step[c].base, step[c].head)
    BY <2>1 DEF BranchInv, CheckedDescends
  <2>6. step' = [step EXCEPT ![c] = next]
    BY <1>3 DEF Branch!Promote
  <2> HIDE DEF heard
  <2>7. /\ next \in BranchSteps /\ next.at # "checked"
        /\ next.at = "returned" => next = heard /\ Branch!Evidence.base = step[c].base
    BY <2>3, <2>4
  <2> HIDE DEF next
  <2>8. /\ link' \in Links
        /\ link.state = "materialized" => link'.state = "materialized" /\ link'.base = link.base
        /\ link'.state = "materialized" /\ link'.base = Branch!Evidence.base
    BY <1>0, <2>1, EvidenceKeepsBase
  <2>9. /\ UNCHANGED <<developSha, branchRef, marker, onBranch, holder, operated>>
        /\ gitMutex' = NoCaller
    BY <1>3 DEF Branch!Promote
  <2>10. next.at = "returned" =>
           /\ link'.state = "materialized" /\ link'.base = next.base
           /\ Branch!IsAncestor(next.base, next.head)
    BY <2>3, <2>5, <2>7, <2>8
  <2> QED BY <1>0, <2>6, <2>7, <2>8, <2>9, <2>10, BranchKeeps
<1> QED BY <1>1, <1>2, <1>3

\* What the operator and the agents in the worktrees do.
LEMMA BranchOperated ==
    ASSUME BranchInv, Branch!Operator
    PROVE  BranchInv'
<1> USE DEF Branch!refs
<1>0. /\ BranchTyped /\ link \in Links /\ developSha \in Branch!Commits /\ branchRef \in Heads
      /\ marker \in [owner : Owners, base : Heads] /\ Branch!NoIntent \in [owner : Owners, base : Heads]
      /\ onBranch \subseteq Materializers /\ Branch!NoCommit \in Heads /\ developSha \in Heads
  BY DEF BranchInv, BranchTyped, Owners, Heads, Branch!NoIntent
<1>c. MaxDevelop \in Nat /\ MaxFeature \in Nat /\ MaxOperator \in Nat
  BY BranchConstants DEF Branch!MaterializationAssumption
<1>1. /\ UNCHANGED <<holder, gitMutex, step>> /\ operated < MaxOperator /\ operated' = operated + 1
  BY DEF Branch!Operator, Branch!Operate
<1>2. operated' \in 0..MaxOperator
  BY <1>0, <1>1, <1>c DEF BranchTyped
<1>3. ASSUME link' \in Links,
             link.state = "materialized" => link'.state = "materialized" /\ link'.base = link.base,
             developSha' \in Branch!Commits, branchRef' \in Heads,
             marker' \in [owner : Owners, base : Heads], onBranch' \subseteq Materializers
      PROVE  BranchInv'
  <2>1. BranchTyped'
    BY <1>0, <1>1, <1>2, <1>3 DEF BranchTyped
  <2>2. Branch!ReturnedExact'
    BY <1>1, <1>3 DEF BranchInv, Branch!ReturnedExact
  <2> QED BY <1>1, <2>1, <2>2 DEF BranchInv, CheckedDescends
<1>4. CASE Branch!DevelopAdvances
  <2>1. developSha' \in Branch!Commits
    BY <1>0, <1>4, <1>c DEF Branch!DevelopAdvances, Branch!Commits
  <2> QED BY <1>0, <1>3, <1>4, <2>1 DEF Branch!DevelopAdvances
<1>5. CASE Branch!CommitOnBranch
  <2>1. branchRef' \in Heads
    BY <1>0, <1>5, <1>c DEF Branch!CommitOnBranch, Heads, Branch!Commits, Branch!NoCommit
  <2> QED BY <1>0, <1>3, <1>5, <2>1 DEF Branch!CommitOnBranch
<1>6. CASE Branch!SetBranch
  <2>1. branchRef' \in Heads
    BY <1>0, <1>6 DEF Branch!SetBranch, Heads, Branch!Commits
  <2> QED BY <1>0, <1>3, <1>6, <2>1 DEF Branch!SetBranch
<1>7. CASE Branch!DeleteBranch
  BY <1>0, <1>3, <1>7 DEF Branch!DeleteBranch
<1>8. CASE Branch!LeaveBranch
  BY <1>0, <1>3, <1>8 DEF Branch!LeaveBranch
<1>9. CASE Branch!LinkBranch
  <2>1. /\ link' \in Links
        /\ link.state = "materialized" => link'.state = "materialized" /\ link'.base = link.base
    BY <1>0, <1>9, EvidenceKeepsBase DEF Branch!LinkBranch
  <2> QED BY <1>0, <1>3, <1>9, <2>1 DEF Branch!LinkBranch
<1> QED BY <1>4, <1>5, <1>6, <1>7, <1>8, <1>9 DEF Branch!Operator, Branch!Operate

LEMMA BranchKept ==
    ASSUME BranchInv, Branch!MaterializationNext
    PROVE  BranchInv'
<1>1. ASSUME NEW c \in Materializers, Branch!TakeSlot(c) PROVE BranchInv'
  <2>1. /\ UNCHANGED <<link, developSha, branchRef, marker, onBranch, gitMutex, step, operated>>
        /\ holder' = [owner |-> c, base |-> Branch!NoCommit]
    BY <1>1 DEF Branch!TakeSlot, Branch!refs, Branch!NoIntent
  <2>2. holder' \in [owner : Owners, base : Heads]
    BY <2>1 DEF Owners, Heads
  <2> QED BY <2>1, <2>2 DEF BranchInv, BranchTyped, CheckedDescends, Branch!ReturnedExact
<1> QED BY <1>1, BranchGoes, BranchChecks, BranchOperated DEF Branch!MaterializationNext

LEMMA BranchStepsKeep == BranchHolds /\ [TicketsNext]_ticketsVars => BranchHolds'
<1> SUFFICES ASSUME BranchHolds, [TicketsNext]_ticketsVars, part' = "branch"
             PROVE  BranchInv'
  BY DEF BranchHolds
<1>1. CASE BranchStep
  BY <1>1, BranchKept DEF BranchStep, BranchHolds
<1>2. CASE UNCHANGED ticketsVars
  <2>1. UNCHANGED <<part, branchVars>>
    BY <1>2 DEF ticketsVars
  <2> QED BY <2>1 DEF branchVars, BranchHolds, BranchInv, BranchTyped, CheckedDescends, Branch!ReturnedExact
<1>3. CASE DocumentsStep \/ WorkflowStep \/ StoreStep \/ PreparedStep \/ SignalStep \/ ReportsStep \/ DeploysStep
  BY <1>3 DEF DocumentsStep, WorkflowStep, StoreStep, PreparedStep, SignalStep, ReportsStep, DeploysStep
<1> QED BY <1>1, <1>2, <1>3 DEF TicketsNext

\* A caller that is told its branch is materialized is told the truth, although others
\* create, reset and link the branch between its steps: BranchSafe.
THEOREM BranchIsSafe == TicketsSpec => []BranchSafe
BY BranchStarts, BranchStepsKeep, BranchMeans, PTL DEF TicketsSpec

-----------------------------------------------------------------------------
(* The workflow service.                                                   *)

Deeds == {"publication.pair", "ticket.queue", "source"}
Reached == Flow!Choices \cup {"none", "completed"}
RunRecords ==
    [revision : 1..MaxRevision, subject : Flow!Subjects, fresh : BOOLEAN,
     outcomes : [Flow!Subjects -> [Flow!Steps -> Reached]],
     revoked : SUBSET Flow!Subjects, pending : Deeds \cup {"none"},
     coordinator : Coordinators, queueOnly : BOOLEAN, documentOnly : BOOLEAN,
     documentSubject : Flow!Subjects \cup {0}]

Writing == {"write", "first", "second"}
Inside == Writing \cup {"execute"}
Performing == Inside \cup {"observe", "settle"}
\* A call waits for nothing, for the operator, or performs an effect.
CallRecords ==
    {Flow!Waiting}
    \cup [at : {"asked"}, by : Coordinators, what : {"decide", "recover", "revoke", "adopt"},
          revision : 1..MaxRevision]
    \cup [at : Performing, by : Coordinators, step : Deeds, subject : Flow!Subjects]

FlowTyped ==
    /\ run \in RunRecords
    /\ pairFiles \in [Flow!Subjects -> {"absent", "torn", "half", "exact"}]
    /\ pairRefs \in [Flow!Subjects -> SUBSET Flow!PairRefs]
    /\ pairPrimary \in Flow!Subjects \cup {0, -1}
    /\ live \subseteq Coordinators /\ pairMutex \in Requests \cup {Flow!NotHeld}
    /\ request \in [Requests -> CallRecords]

\* A call is of a live deployment; one that performs an effect, of the coordinator,
\* and inside the mutex of the ticket store there is only the one that holds it, with a
\* step of the ticket owner.
CallersLive ==
    \A c \in Requests :
        /\ request[c].at # "none" => request[c].by \in live
        /\ request[c].at \in Performing => request[c].by = run.coordinator
        /\ request[c].at \in Inside => pairMutex = c /\ request[c].step # "source"

\* A call that is about to write, or in the middle of a file, performs the pending
\* intent, whose effect is not there yet.
WritesUnproven ==
    \A c \in Requests : request[c].at \in Writing =>
        /\ Flow!IntentOf(c)
        /\ request[c].step = "publication.pair" => ~Flow!PairComplete
        /\ request[c].step = "ticket.queue" => ~Flow!QueueProven

\* What the steps before a step came to when it may be taken.
Done(deed) == IF deed = "package" THEN "approved" ELSE "completed"
\* The steps of a subject are completed in order.
InOrder ==
    \A n \in Flow!Subjects, deed \in Deeds :
        /\ run.outcomes[n][deed] \in {"none", "completed"}
        /\ run.outcomes[n][deed] = "completed" =>
             run.outcomes[n][Flow!Predecessor(deed)] = Done(Flow!Predecessor(deed))
\* The pending step is the next one.
PendingNext ==
    run.pending # "none" =>
        /\ run.outcomes[run.subject][run.pending] = "none"
        /\ run.outcomes[run.subject][Flow!Predecessor(run.pending)] = Done(Flow!Predecessor(run.pending))

\* The inductive invariant behind WorkflowSafe.
FlowInv ==
    /\ FlowTyped /\ CallersLive /\ WritesUnproven /\ InOrder /\ PendingNext
    /\ Flow!PublishedApproved /\ Flow!DocumentSuccessor

WorkflowHolds == part = "workflow" => FlowInv

LEMMA WorkflowMeans == WorkflowHolds => WorkflowSafe
<1> SUFFICES ASSUME FlowInv
             PROVE  Flow!WorkflowTypeOK /\ Flow!LoneCoordinator /\ Flow!SubjectCurrent
  BY DEF WorkflowHolds, WorkflowSafe, FlowInv
<1>1. Flow!WorkflowTypeOK
  BY DEF FlowInv, FlowTyped, Flow!WorkflowTypeOK, RunRecords, Deeds, Flow!Steps, Reached
<1>2. Flow!LoneCoordinator
  BY DEF FlowInv, CallersLive, Flow!LoneCoordinator, Performing, Inside, Writing
<1>3. Flow!SubjectCurrent
  BY DEF FlowInv, WritesUnproven, Flow!SubjectCurrent, Writing
<1> QED BY <1>1, <1>2, <1>3

LEMMA WorkflowStarts == TicketsInit => WorkflowHolds
<1> SUFFICES ASSUME Flow!WorkflowInit PROVE FlowInv
  BY DEF TicketsInit, WorkflowHolds
<1>1. First \in Coordinators /\ 1 \in Flow!Subjects /\ 1 \in 1..MaxRevision
  BY WorkflowConstants DEF Flow!WorkflowAssumption, Flow!Subjects
<1>2. run \in RunRecords
  BY <1>1 DEF Flow!WorkflowInit, RunRecords, Reached
<1>3. \A c \in Requests : request[c] \in CallRecords /\ request[c].at = "none"
  BY DEF Flow!WorkflowInit, CallRecords, Flow!Waiting
<1>4. FlowTyped
  BY <1>2, <1>3 DEF Flow!WorkflowInit, FlowTyped
<1>5. CallersLive /\ WritesUnproven
  BY <1>3 DEF CallersLive, WritesUnproven, Performing, Inside, Writing
<1>6. InOrder
  BY DEF Flow!WorkflowInit, InOrder, Deeds, Flow!Steps
<1> QED BY <1>4, <1>5, <1>6 DEF FlowInv, Flow!WorkflowInit, PendingNext, Flow!PublishedApproved,
       Flow!DocumentSuccessor

\* Only one step of a subject is ever pending: no other is eligible meanwhile.
LEMMA PendingAlone ==
    ASSUME FlowInv, NEW deed \in Flow!Steps, Flow!Eligible(deed)
    PROVE  run.pending = "none"
<1> SUFFICES ASSUME run.pending # "none" PROVE FALSE
  OBVIOUS
<1> DEFINE was == run.outcomes[run.subject]
<1>1. run.pending \in Deeds /\ run.subject \in Flow!Subjects
  BY DEF FlowInv, FlowTyped, RunRecords
<1>2. /\ was["ticket.queue"] = "completed" => was["publication.pair"] = "completed"
      /\ was["publication.pair"] = "completed" => was["package"] = "approved"
  BY <1>1 DEF FlowInv, InOrder, Deeds, Done, Flow!Predecessor
<1>3. /\ was[run.pending] = "none"
      /\ run.pending = "publication.pair" => was["package"] = "approved"
      /\ run.pending = "ticket.queue" => was["publication.pair"] = "completed"
      /\ run.pending = "source" => was["ticket.queue"] = "completed"
  BY <1>1 DEF FlowInv, PendingNext, Deeds, Done, Flow!Predecessor
<1>4. /\ was[deed] = "none" /\ run.pending # deed
      /\ deed = "publication.pair" => was["package"] = "approved"
      /\ deed = "ticket.queue" => was["publication.pair"] = "completed"
      /\ deed = "source" => was["ticket.queue"] = "completed"
  BY DEF Flow!Eligible, Flow!Outcome, Flow!Predecessor
<1> HIDE DEF was
<1> QED BY <1>1, <1>2, <1>3, <1>4 DEF Deeds, Flow!Steps

LastOf(S) == CHOOSE n \in S : \A m \in S : m <= n

\* Whether an effect of the ticket owner is there depends on the ticket and on what the
\* subject and those before it came to.
LEMMA EffectsStand ==
    ASSUME UNCHANGED <<pairFiles, pairRefs, pairPrimary, queueState>>,
           run'.subject = run.subject, run'.outcomes = run.outcomes
    PROVE  /\ Flow!PairComplete' <=> Flow!PairComplete
           /\ Flow!QueueProven' <=> Flow!QueueProven
<1>1. Flow!Previous' = Flow!Previous
  BY DEF Flow!Previous
<1>2. Flow!PreviousPair = LastOf(Flow!Previous) /\ Flow!PreviousPair' = LastOf(Flow!Previous')
  BY DEF Flow!PreviousPair, LastOf
<1>3. Flow!PreviousPair' = Flow!PreviousPair
  BY <1>1, <1>2
<1>4. \A n : Flow!PairThere(n)' <=> Flow!PairThere(n)
  BY DEF Flow!PairThere
<1>5. Flow!PairConflict' <=> Flow!PairConflict
  BY <1>1, <1>3, <1>4 DEF Flow!PairConflict
<1>6. Flow!PairComplete' <=> Flow!PairComplete
  BY <1>4, <1>5 DEF Flow!PairComplete
<1>7. Flow!QueueComplete' <=> Flow!QueueComplete
  BY <1>1, <1>3 DEF Flow!QueueComplete
<1> QED BY <1>6, <1>7 DEF Flow!QueueProven

\* A step of one call that leaves the journal and the ticket.
LEMMA CallMoves ==
    ASSUME FlowInv, NEW c \in Requests, NEW next \in CallRecords,
           UNCHANGED <<run, pairFiles, pairRefs, pairPrimary, queueState, live>>,
           request' = [request EXCEPT ![c] = next],
           next.at # "none" => next.by \in live,
           next.at \in Performing => next.by = run.coordinator,
           next.at \in Inside => pairMutex' = c /\ next.step # "source",
           pairMutex' \in Requests \cup {Flow!NotHeld},
           \A d \in Requests \ {c} : pairMutex = d => pairMutex' = d,
           next.at \in Writing =>
             /\ run.pending = next.step /\ run.subject = next.subject
             /\ next.step = "publication.pair" => ~Flow!PairComplete
             /\ next.step = "ticket.queue" => ~Flow!QueueProven
    PROVE  FlowInv'
<1>1. /\ request' \in [Requests -> CallRecords] /\ request'[c] = next
      /\ \A d \in Requests : d # c => request'[d] = request[d]
  BY DEF FlowInv, FlowTyped
<1>2. FlowTyped'
  BY <1>1 DEF FlowInv, FlowTyped
<1>3. CallersLive'
  BY <1>1 DEF FlowInv, CallersLive
<1>4. WritesUnproven'
  <2> SUFFICES ASSUME NEW d \in Requests, request'[d].at \in Writing
               PROVE  /\ run.pending = request'[d].step /\ run.subject = request'[d].subject
                      /\ request'[d].step = "publication.pair" => ~Flow!PairComplete
                      /\ request'[d].step = "ticket.queue" => ~Flow!QueueProven
    BY EffectsStand DEF WritesUnproven, Flow!IntentOf
  <2>1. CASE d = c
    BY <1>1, <2>1
  <2>2. CASE d # c
    BY <1>1, <2>2 DEF FlowInv, WritesUnproven, Flow!IntentOf
  <2> QED BY <2>1, <2>2
<1>5. InOrder' /\ PendingNext' /\ Flow!PublishedApproved' /\ Flow!DocumentSuccessor'
  BY DEF FlowInv, InOrder, PendingNext, Flow!PublishedApproved, Flow!DocumentSuccessor
<1> QED BY <1>2, <1>3, <1>4, <1>5 DEF FlowInv

\* A call that performs an effect goes on, with the same step of the same subject.
LEMMA CallGoesOn ==
    ASSUME FlowInv, NEW c \in Requests, request[c].at \in Performing, NEW at \in Performing
    PROVE  /\ [request[c] EXCEPT !.at = at] \in CallRecords
           /\ [request[c] EXCEPT !.at = at].at = at
           /\ [request[c] EXCEPT !.at = at].by = request[c].by
           /\ [request[c] EXCEPT !.at = at].step = request[c].step
           /\ [request[c] EXCEPT !.at = at].subject = request[c].subject
           /\ request[c].by = run.coordinator /\ request[c].by \in live
           /\ request[c].step \in Deeds /\ request[c].subject \in Flow!Subjects
<1> DEFINE Effects == [at : Performing, by : Coordinators, step : Deeds, subject : Flow!Subjects]
<1>1. request[c] \in Effects
  BY DEF FlowInv, FlowTyped, CallRecords, Flow!Waiting, Performing, Inside, Writing
<1>2. [request[c] EXCEPT !.at = at] \in Effects
  BY <1>1
<1>3. request[c].at # "none"
  BY DEF Performing, Inside, Writing
<1> QED BY <1>1, <1>2, <1>3 DEF FlowInv, CallersLive, CallRecords

\* The calls that wait for the operator, observe, and enter and leave the mutex.
LEMMA WorkflowCalls ==
    ASSUME FlowInv, NEW c \in Requests,
           \/ \E d \in Coordinators, what \in {"decide", "recover", "revoke", "adopt"} :
                Flow!AskOperator(c, d, what)
           \/ Flow!Abandon(c) \/ Flow!ObserveEffect(c) \/ Flow!EnterExecute(c)
           \/ Flow!AuthorizeWrite(c) \/ Flow!LeaveExecute(c)
    PROVE  FlowInv'
<1> USE DEF Flow!world, Flow!ticketState
<1>0. /\ pairMutex \in Requests \cup {Flow!NotHeld} /\ run.revision \in 1..MaxRevision
      /\ request \in [Requests -> CallRecords] /\ Flow!NotHeld \notin Requests
      /\ Flow!Waiting \in CallRecords /\ Flow!Waiting.at = "none"
  BY WorkflowConstants DEF Flow!WorkflowAssumption, FlowInv, FlowTyped, RunRecords, CallRecords,
     Flow!Waiting
<1>p. "none" \notin Performing /\ "asked" \notin Performing /\ Inside \subseteq Performing /\ Writing \subseteq Inside
  BY DEF Performing, Inside, Writing
<1>1. ASSUME UNCHANGED <<run, pairFiles, pairRefs, pairPrimary, queueState, live>>,
             request' = [request EXCEPT ![c] = Flow!Waiting],
             pairMutex' \in {pairMutex, Flow!NotHeld}, pairMutex' # pairMutex => pairMutex = c
      PROVE  FlowInv'
  BY <1>0, <1>1, <1>p, CallMoves
<1>2. ASSUME request[c].at \in Performing, NEW at \in Performing, Flow!At(c, at),
             UNCHANGED <<run, pairFiles, pairRefs, pairPrimary, queueState, live>>,
             at \in Inside => pairMutex' = c /\ request[c].step # "source",
             pairMutex' \in Requests \cup {Flow!NotHeld},
             \A d \in Requests \ {c} : pairMutex = d => pairMutex' = d,
             at \in Writing =>
               /\ Flow!IntentOf(c)
               /\ request[c].step = "publication.pair" => ~Flow!PairComplete
               /\ request[c].step = "ticket.queue" => ~Flow!QueueProven
      PROVE  FlowInv'
  <2> DEFINE next == [request[c] EXCEPT !.at = at]
  <2>1. /\ next \in CallRecords /\ next.at = at /\ next.by = request[c].by
        /\ next.step = request[c].step /\ next.subject = request[c].subject
        /\ next.by = run.coordinator /\ next.by \in live
    BY <1>2, CallGoesOn
  <2>2. request' = [request EXCEPT ![c] = next]
    BY <1>0, <1>2 DEF Flow!At
  <2> HIDE DEF next
  <2> QED BY <1>2, <2>1, <2>2, CallMoves DEF Flow!IntentOf
<1>3. ASSUME NEW d \in Coordinators, NEW what \in {"decide", "recover", "revoke", "adopt"},
             Flow!AskOperator(c, d, what)
      PROVE  FlowInv'
  <2> DEFINE next == [at |-> "asked", by |-> d, what |-> what, revision |-> run.revision]
  <2>1. next \in CallRecords /\ next.at = "asked" /\ next.by = d
    BY <1>0 DEF CallRecords
  <2>2. d \in live
    BY <1>3 DEF Flow!AskOperator, Flow!MayAsk, Flow!MayAskAnyone, Flow!IsCaller
  <2>3. request' = [request EXCEPT ![c] = next] /\ pairMutex' = pairMutex
        /\ UNCHANGED <<run, pairFiles, pairRefs, pairPrimary, queueState, live>>
    BY <1>3 DEF Flow!AskOperator
  <2> HIDE DEF next
  <2> QED BY <1>0, <1>p, <2>1, <2>2, <2>3, CallMoves
<1>4. CASE Flow!Abandon(c)
  BY <1>1, <1>4 DEF Flow!Abandon, Flow!End
<1>5. CASE Flow!ObserveEffect(c)
  <2>1. "settle" \in Performing /\ "settle" \notin Inside /\ request[c].at \in Performing
    BY <1>5 DEF Flow!ObserveEffect, Performing, Inside, Writing
  <2> QED BY <1>0, <1>2, <1>5, <1>p, <2>1 DEF Flow!ObserveEffect
<1>6. CASE Flow!EnterExecute(c)
  <2>1. "execute" \in Performing /\ "execute" \notin Writing /\ request[c].at \in Performing
    BY <1>6 DEF Flow!EnterExecute, Flow!EnterExecuteUnlocked, Performing, Inside, Writing
  <2> QED BY <1>0, <1>2, <1>6, <1>p, <2>1 DEF Flow!EnterExecute, Flow!EnterExecuteUnlocked
<1>7. CASE Flow!AuthorizeWrite(c)
  <2>1. "write" \in Performing /\ "write" \in Inside /\ request[c].at \in Performing /\ request[c].at \in Inside
    BY <1>7 DEF Flow!AuthorizeWrite, Performing, Inside, Writing
  <2>2. pairMutex = c /\ request[c].step # "source"
    BY <2>1 DEF FlowInv, CallersLive
  <2>3. Flow!IntentOf(c)
    BY <1>7 DEF Flow!AuthorizeWrite, Flow!Authority
  <2>4. request[c].step \in Deeds
    BY <2>1, CallGoesOn
  <2>5. /\ request[c].step = "publication.pair" => ~Flow!PairComplete
        /\ request[c].step = "ticket.queue" => ~Flow!QueueProven
    BY <1>7 DEF Flow!AuthorizeWrite, Flow!PairAbsent, Flow!Queueable, Flow!QueueProven,
       Flow!QueueComplete
  <2> QED BY <1>0, <1>2, <1>7, <2>1, <2>2, <2>3, <2>5 DEF Flow!AuthorizeWrite
<1>8. CASE Flow!LeaveExecute(c)
  <2>1. request[c].at \in Performing /\ request[c].at \in Inside
    BY <1>8 DEF Flow!LeaveExecute, Performing, Inside, Writing
  <2>2. pairMutex = c /\ pairMutex' = Flow!NotHeld
    BY <1>8, <2>1 DEF FlowInv, CallersLive, Flow!LeaveExecute
  <2>3. "settle" \in Performing /\ "settle" \notin Inside
    BY DEF Performing, Inside, Writing
  <2>4. CASE Flow!At(c, "settle")
    BY <1>0, <1>2, <1>8, <1>p, <2>1, <2>2, <2>3, <2>4 DEF Flow!LeaveExecute
  <2>5. CASE Flow!End(c)
    BY <1>1, <1>8, <2>2, <2>5 DEF Flow!LeaveExecute, Flow!End
  <2> QED BY <1>8, <2>4, <2>5 DEF Flow!LeaveExecute
<1> QED BY <1>3, <1>4, <1>5, <1>6, <1>7, <1>8

\* What is pending was approved.
LEMMA PendingApproved ==
    ASSUME FlowInv, run.pending # "none"
    PROVE  run.outcomes[run.subject]["package"] = "approved"
<1> DEFINE was == run.outcomes[run.subject]
<1>1. run.pending \in Deeds /\ run.subject \in Flow!Subjects
  BY DEF FlowInv, FlowTyped, RunRecords
<1>2. \A deed \in Deeds : was[deed] = "completed" =>
        was[Flow!Predecessor(deed)] = Done(Flow!Predecessor(deed))
  BY <1>1 DEF FlowInv, InOrder
<1>3. was[Flow!Predecessor(run.pending)] = Done(Flow!Predecessor(run.pending))
  BY DEF FlowInv, PendingNext
<1> HIDE DEF was
<1>4. /\ was["publication.pair"] = "completed" => was["package"] = "approved"
      /\ was["ticket.queue"] = "completed" => was["publication.pair"] = "completed"
  BY <1>2 DEF Deeds, Flow!Predecessor, Done
<1>5. was["package"] = "approved"
  BY <1>1, <1>3, <1>4 DEF Deeds, Flow!Predecessor, Done
<1> QED BY <1>5 DEF was

\* A write by the call inside the mutex, for the subject the run is on.
LEMMA TicketWritten ==
    ASSUME FlowInv, NEW c \in Requests, request[c].at \in Writing,
           NEW at \in Inside, Flow!At(c, at),
           UNCHANGED <<run, live, pairMutex>>,
           pairFiles' \in [Flow!Subjects -> {"absent", "torn", "half", "exact"}],
           pairRefs' \in [Flow!Subjects -> SUBSET Flow!PairRefs],
           pairPrimary' \in Flow!Subjects \cup {0, -1},
           \A n \in Flow!Subjects \ {run.subject} : pairFiles'[n] = pairFiles[n] /\ pairRefs'[n] = pairRefs[n],
           at \in Writing => request[c].step = "publication.pair" /\ ~Flow!PairComplete'
    PROVE  FlowInv'
<1> DEFINE next == [request[c] EXCEPT !.at = at]
<1>p. Inside \subseteq Performing /\ Writing \subseteq Inside /\ "none" \notin Performing
  BY DEF Performing, Inside, Writing
<1>1. /\ next \in CallRecords /\ next.at = at /\ next.by = request[c].by
      /\ next.step = request[c].step /\ next.subject = request[c].subject
      /\ next.by = run.coordinator /\ next.by \in live
  BY <1>p, CallGoesOn
<1>2. request' = [request EXCEPT ![c] = next]
  BY DEF Flow!At, FlowInv, FlowTyped
<1> HIDE DEF next
<1>3. /\ request' \in [Requests -> CallRecords] /\ request'[c] = next
      /\ \A d \in Requests : d # c => request'[d] = request[d]
  BY <1>1, <1>2 DEF FlowInv, FlowTyped
<1>4. pairMutex = c /\ request[c].step # "source" /\ Flow!IntentOf(c)
  BY <1>p DEF FlowInv, CallersLive, WritesUnproven
<1>5. FlowTyped'
  BY <1>3 DEF FlowInv, FlowTyped
<1>6. CallersLive'
  BY <1>1, <1>3, <1>4, <1>p DEF FlowInv, CallersLive
<1>7. WritesUnproven'
  <2> SUFFICES ASSUME NEW d \in Requests, request'[d].at \in Writing
               PROVE  /\ run.pending = request'[d].step /\ run.subject = request'[d].subject
                      /\ request'[d].step = "publication.pair" => ~Flow!PairComplete'
                      /\ request'[d].step = "ticket.queue" => ~Flow!QueueProven'
    BY DEF WritesUnproven, Flow!IntentOf
  <2>1. d = c
    <3> SUFFICES ASSUME d # c PROVE FALSE
      OBVIOUS
    <3>1. request[d].at \in Inside
      BY <1>3, <1>p
    <3> QED BY <1>4, <3>1 DEF FlowInv, CallersLive
  <2> QED BY <1>1, <1>3, <1>4, <2>1 DEF Flow!IntentOf
<1>8. Flow!PublishedApproved'
  <2>1. run.pending # "none"
    BY <1>4, <1>p, CallGoesOn DEF Flow!IntentOf, Deeds
  <2>2. run.outcomes[run.subject]["package"] = "approved"
    BY <2>1, PendingApproved
  <2> QED BY <2>2 DEF FlowInv, Flow!PublishedApproved
<1>9. InOrder' /\ PendingNext' /\ Flow!DocumentSuccessor'
  BY DEF FlowInv, InOrder, PendingNext, Flow!DocumentSuccessor
<1> QED BY <1>5, <1>6, <1>7, <1>8, <1>9 DEF FlowInv

LEMMA WorkflowWrites ==
    ASSUME FlowInv, NEW c \in Requests,
           \/ Flow!CreatePairFile(c) \/ Flow!FillPairFile(c) \/ Flow!AttachPair(c)
           \/ Flow!PromotePair(c) \/ Flow!QueueForBuilder(c)
    PROVE  FlowInv'
<1> DEFINE n == request[c].subject
<1>1. request[c].at \in Writing
  BY DEF Flow!CreatePairFile, Flow!FillPairFile, Flow!AttachPair, Flow!PromotePair,
     Flow!QueueForBuilder, Writing
<1>2. n = run.subject /\ n \in Flow!Subjects /\ request \in [Requests -> CallRecords]
  BY <1>1 DEF FlowInv, WritesUnproven, Flow!IntentOf, FlowTyped, RunRecords
<1>3. /\ pairFiles \in [Flow!Subjects -> {"absent", "torn", "half", "exact"}]
      /\ pairRefs \in [Flow!Subjects -> SUBSET Flow!PairRefs]
      /\ pairPrimary \in Flow!Subjects \cup {0, -1}
      /\ "execute" \in Inside /\ "execute" \notin Writing
      /\ "first" \in Inside /\ "second" \in Inside
  BY DEF FlowInv, FlowTyped, Inside, Writing
<1> HIDE DEF n
<1>4. CASE Flow!CreatePairFile(c)
  <2>1. PICK at \in {"first", "second"} : Flow!At(c, at)
    BY <1>4 DEF Flow!CreatePairFile, Flow!At
  <2>2. pairFiles' = [pairFiles EXCEPT ![n] = "torn"] /\ request[c].step = "publication.pair"
    BY <1>4 DEF Flow!CreatePairFile, n
  <2>3. pairFiles'[run.subject] = "torn" /\ run' = run
    BY <1>2, <1>3, <1>4, <2>2 DEF Flow!CreatePairFile
  <2>4. ~Flow!PairComplete'
    BY <2>3 DEF Flow!PairComplete, Flow!PairConflict
  <2>5. pairFiles' \in [Flow!Subjects -> {"absent", "torn", "half", "exact"}]
    BY <1>3, <2>2
  <2>6. UNCHANGED <<run, live, pairMutex, pairRefs, pairPrimary>>
    BY <1>4 DEF Flow!CreatePairFile
  <2>7. \A m \in Flow!Subjects \ {run.subject} : pairFiles'[m] = pairFiles[m]
    BY <1>2, <1>3, <2>2
  <2> QED BY <1>1, <1>3, <2>1, <2>2, <2>4, <2>5, <2>6, <2>7, TicketWritten
<1>5. CASE Flow!FillPairFile(c)
  <2>1. PICK state \in {"half", "exact"} : pairFiles' = [pairFiles EXCEPT ![n] = state]
    BY <1>5 DEF Flow!FillPairFile, n
  <2>2. /\ pairFiles' \in [Flow!Subjects -> {"absent", "torn", "half", "exact"}]
        /\ \A m \in Flow!Subjects \ {run.subject} : pairFiles'[m] = pairFiles[m]
    BY <1>2, <1>3, <2>1
  <2> QED BY <1>1, <1>3, <1>5, <2>2, TicketWritten DEF Flow!FillPairFile
<1>6. CASE Flow!AttachPair(c)
  <2>1. PICK ref \in Flow!PairRefs : pairRefs' = [pairRefs EXCEPT ![n] = pairRefs[n] \cup {ref}]
    BY <1>2, <1>3, <1>6 DEF Flow!AttachPair, Flow!PairRefs, n
  <2>2. pairPrimary' \in {n, pairPrimary} /\ Flow!At(c, "execute") /\ UNCHANGED <<run, pairFiles, live, pairMutex>>
    BY <1>6 DEF Flow!AttachPair, n
  <2>3. /\ pairRefs' \in [Flow!Subjects -> SUBSET Flow!PairRefs]
        /\ \A m \in Flow!Subjects \ {run.subject} : pairRefs'[m] = pairRefs[m]
    BY <1>2, <1>3, <2>1
  <2> QED BY <1>1, <1>2, <1>3, <2>2, <2>3, TicketWritten
<1>7. CASE Flow!PromotePair(c)
  <2>1. pairPrimary' = n /\ Flow!At(c, "execute") /\ UNCHANGED <<run, pairFiles, pairRefs, live, pairMutex>>
    BY <1>7 DEF Flow!PromotePair, n
  <2> QED BY <1>1, <1>2, <1>3, <2>1, TicketWritten
<1>8. CASE Flow!QueueForBuilder(c)
  BY <1>1, <1>3, <1>8, TicketWritten DEF Flow!QueueForBuilder
<1> QED BY <1>4, <1>5, <1>6, <1>7, <1>8

\* An event is appended to the journal.
LEMMA Journaled ==
    ASSUME FlowInv, Flow!HasRevision, NEW fields \in RunRecords,
           fields.revision = run.revision, Flow!Journal(fields)
    PROVE  /\ run' \in RunRecords
           /\ run'.subject = fields.subject /\ run'.outcomes = fields.outcomes
           /\ run'.pending = fields.pending /\ run'.coordinator = fields.coordinator
           /\ run'.documentOnly = fields.documentOnly /\ run'.documentSubject = fields.documentSubject
<1>1. run.revision \in 1..MaxRevision /\ MaxRevision \in Nat
  BY WorkflowConstants DEF Flow!WorkflowAssumption, FlowInv, FlowTyped, RunRecords
<1>2. fields.revision + 1 \in 1..MaxRevision
  BY <1>1 DEF Flow!HasRevision
<1>3. run' = [fields EXCEPT !.revision = fields.revision + 1]
  BY DEF Flow!Journal
<1> QED BY <1>2, <1>3 DEF RunRecords

\* An event of the journal that leaves what is being written alone, or comes when
\* nothing is being written.
LEMMA JournalMoves ==
    ASSUME FlowInv, run' \in RunRecords,
           UNCHANGED <<pairFiles, pairRefs, pairPrimary, queueState, live, pairMutex>>,
           request' \in [Requests -> CallRecords],
           \A d \in Requests :
             \/ request'[d] = request[d] \/ request'[d].at = "none"
             \/ request'[d].at = "observe" /\ request'[d].by \in live /\ request'[d].by = run'.coordinator,
           run'.coordinator = run.coordinator \/ run.coordinator \notin live,
           \/ run'.pending = run.pending /\ run'.subject = run.subject /\ run'.outcomes = run.outcomes
           \/ \A d \in Requests : request[d].at \notin Writing,
           InOrder', PendingNext', Flow!PublishedApproved', Flow!DocumentSuccessor'
    PROVE  FlowInv'
<1>p. /\ "none" \notin Performing /\ "observe" \in Performing /\ "observe" \notin Inside
      /\ Inside \subseteq Performing /\ Writing \subseteq Inside
  BY DEF Performing, Inside, Writing
<1>1. FlowTyped'
  BY DEF FlowInv, FlowTyped
<1>2. CallersLive'
  <2> SUFFICES ASSUME NEW d \in Requests
               PROVE  /\ request'[d].at # "none" => request'[d].by \in live
                      /\ request'[d].at \in Performing => request'[d].by = run'.coordinator
                      /\ request'[d].at \in Inside => pairMutex = d /\ request'[d].step # "source"
    BY DEF CallersLive
  <2>1. /\ request[d].at # "none" => request[d].by \in live
        /\ request[d].at \in Performing => request[d].by = run.coordinator
        /\ request[d].at \in Inside => pairMutex = d /\ request[d].step # "source"
    BY DEF FlowInv, CallersLive
  <2>2. CASE request'[d] = request[d]
    BY <1>p, <2>1, <2>2
  <2>3. CASE request'[d] # request[d]
    BY <1>p, <2>1, <2>3
  <2> QED BY <2>2, <2>3
<1>3. WritesUnproven'
  <2> SUFFICES ASSUME NEW d \in Requests, request'[d].at \in Writing
               PROVE  /\ run'.pending = request'[d].step /\ run'.subject = request'[d].subject
                      /\ request'[d].step = "publication.pair" => ~Flow!PairComplete'
                      /\ request'[d].step = "ticket.queue" => ~Flow!QueueProven'
    BY DEF WritesUnproven, Flow!IntentOf
  <2>1. request'[d] = request[d]
    BY <1>p
  <2>2. run'.pending = run.pending /\ run'.subject = run.subject /\ run'.outcomes = run.outcomes
    BY <2>1
  <2>3. /\ Flow!PairComplete' <=> Flow!PairComplete
        /\ Flow!QueueProven' <=> Flow!QueueProven
    BY <2>2, EffectsStand
  <2> QED BY <2>1, <2>2, <2>3 DEF FlowInv, WritesUnproven, Flow!IntentOf
<1> QED BY <1>1, <1>2, <1>3 DEF FlowInv

\* A step of an effect that is pending: no call writes without one, nor one whose effect
\* is there.
LEMMA NobodyWrites ==
    ASSUME FlowInv,
           run.pending = "none" \/ (run.pending = "publication.pair" /\ Flow!PairComplete)
             \/ (run.pending = "ticket.queue" /\ Flow!QueueProven) \/ run.pending = "source",
           NEW d \in Requests
    PROVE  request[d].at \notin Writing
<1> SUFFICES ASSUME request[d].at \in Writing PROVE FALSE
  OBVIOUS
<1>1. request[d].at \in Inside /\ request[d].at \in Performing
  BY DEF Inside, Performing
<1>2. request[d].step \in Deeds /\ request[d].step # "source"
  BY <1>1, CallGoesOn DEF FlowInv, CallersLive
<1>3. /\ run.pending = request[d].step
      /\ request[d].step = "publication.pair" => ~Flow!PairComplete
      /\ request[d].step = "ticket.queue" => ~Flow!QueueProven
  BY DEF FlowInv, WritesUnproven, Flow!IntentOf
<1> QED BY <1>2, <1>3 DEF Deeds

\* A step is requested, or what is pending is taken up again.
LEMMA WorkflowRequests ==
    ASSUME FlowInv, NEW c \in Requests, NEW d \in Coordinators,
           (\E deed \in Flow!Steps : Flow!RequestStep(c, d, deed)) \/ Flow!ReconcileStep(c, d)
    PROVE  FlowInv'
<1> USE DEF Flow!world, Flow!ticketState
<1>0. /\ run \in RunRecords /\ request \in [Requests -> CallRecords] /\ run.subject \in Flow!Subjects
      /\ run.pending \in Deeds \cup {"none"}
  BY DEF FlowInv, FlowTyped, RunRecords
<1>1. ASSUME NEW deed \in Deeds, run'.coordinator = d, d \in live, run' \in RunRecords,
             run'.coordinator = run.coordinator,
             request' = [request EXCEPT ![c] = [at |-> "observe", by |-> d, step |-> deed, subject |-> run.subject]],
             UNCHANGED <<pairFiles, pairRefs, pairPrimary, queueState, live, pairMutex>>,
             \/ run'.pending = run.pending /\ run'.subject = run.subject /\ run'.outcomes = run.outcomes
             \/ \A e \in Requests : request[e].at \notin Writing,
             InOrder', PendingNext', Flow!PublishedApproved', Flow!DocumentSuccessor'
      PROVE  FlowInv'
  <2> DEFINE next == [at |-> "observe", by |-> d, step |-> deed, subject |-> run.subject]
  <2>1. next \in CallRecords /\ next.at = "observe" /\ next.by = d
    BY <1>0 DEF CallRecords, Performing
  <2> HIDE DEF next
  <2>2. request' = [request EXCEPT ![c] = next]
    BY <1>1 DEF next
  <2>3. /\ request' \in [Requests -> CallRecords] /\ request'[c] = next
        /\ \A e \in Requests \ {c} : request'[e] = request[e]
    BY <1>0, <2>1, <2>2
  <2> QED BY <1>1, <2>1, <2>3, JournalMoves
<1>2. ASSUME NEW deed \in Flow!Steps, Flow!RequestStep(c, d, deed) PROVE FlowInv'
  <2> DEFINE fields == [run EXCEPT !.pending = deed]
  <2>1. deed \in Deeds /\ d \in live /\ d = run.coordinator /\ Flow!Eligible(deed) /\ Flow!HasRevision
    BY <1>2 DEF Flow!RequestStep, Flow!IsCaller, Flow!Steps, Deeds
  <2>2. run.pending = "none"
    BY <2>1, PendingAlone
  <2>3. /\ fields \in RunRecords /\ fields.revision = run.revision /\ fields.pending = deed
        /\ fields.subject = run.subject /\ fields.outcomes = run.outcomes
        /\ fields.coordinator = run.coordinator /\ fields.documentOnly = run.documentOnly
        /\ fields.documentSubject = run.documentSubject
    BY <1>0, <2>1 DEF RunRecords
  <2>4. Flow!Journal(fields)
    BY <1>2 DEF Flow!RequestStep
  <2> HIDE DEF fields
  <2>5. /\ run' \in RunRecords /\ run'.subject = run.subject /\ run'.outcomes = run.outcomes
        /\ run'.pending = deed /\ run'.coordinator = run.coordinator
        /\ run'.documentOnly = run.documentOnly /\ run'.documentSubject = run.documentSubject
    BY <2>1, <2>3, <2>4, Journaled
  <2>6. PendingNext'
    <3>1. /\ run.outcomes[run.subject][deed] = "none"
          /\ run.outcomes[run.subject][Flow!Predecessor(deed)] = Done(Flow!Predecessor(deed))
      BY <2>1 DEF Flow!Eligible, Flow!Outcome, Flow!Predecessor, Done, Deeds
    <3> QED BY <2>5, <3>1 DEF PendingNext
  <2>7. Flow!DocumentSuccessor'
    <3>1. ~run.documentOnly \/ deed = "publication.pair"
            \/ (deed = "ticket.queue" /\ run.subject # run.documentSubject)
      BY <1>2 DEF Flow!RequestStep, Flow!OperationAllowed
    <3> QED BY <2>5, <3>1 DEF Flow!DocumentSuccessor
  <2>8. InOrder' /\ Flow!PublishedApproved'
    BY <1>2, <2>5 DEF Flow!RequestStep, FlowInv, InOrder, Flow!PublishedApproved
  <2>9. \A e \in Requests : request[e].at \notin Writing
    BY <2>2, NobodyWrites
  <2> QED BY <1>1, <1>2, <2>1, <2>5, <2>6, <2>7, <2>8, <2>9 DEF Flow!RequestStep
<1>3. CASE Flow!ReconcileStep(c, d)
  <2>1. run.pending \in Deeds /\ d \in live /\ d = run.coordinator /\ Flow!HasRevision
    BY <1>0, <1>3 DEF Flow!ReconcileStep, Flow!IsCaller, Flow!NothingPending
  <2>2. /\ run' \in RunRecords /\ run'.subject = run.subject /\ run'.outcomes = run.outcomes
        /\ run'.pending = run.pending /\ run'.coordinator = run.coordinator
        /\ run'.documentOnly = run.documentOnly /\ run'.documentSubject = run.documentSubject
    BY <1>0, <1>3, <2>1, Journaled DEF Flow!ReconcileStep
  <2>3. InOrder' /\ PendingNext' /\ Flow!PublishedApproved' /\ Flow!DocumentSuccessor'
    BY <1>3, <2>2 DEF Flow!ReconcileStep, FlowInv, InOrder, PendingNext, Flow!PublishedApproved,
       Flow!DocumentSuccessor
  <2> QED BY <1>1, <1>3, <2>1, <2>2, <2>3 DEF Flow!ReconcileStep
<1> QED BY <1>2, <1>3

\* The operator answers.
LEMMA WorkflowReplies ==
    ASSUME FlowInv, NEW c \in Requests, NEW choice \in Flow!Choices, Flow!Reply(c, choice)
    PROVE  FlowInv'
<1> USE DEF Flow!world, Flow!ticketState
<1> DEFINE r == request[c]
<1>0. /\ run \in RunRecords /\ request \in [Requests -> CallRecords] /\ run.subject \in Flow!Subjects
      /\ run.outcomes \in [Flow!Subjects -> [Flow!Steps -> Reached]]
      /\ Flow!HasRevision /\ r.at = "asked" /\ Flow!MayAsk(r.by, r.what)
      /\ UNCHANGED <<pairFiles, pairRefs, pairPrimary, queueState, live, pairMutex>>
  BY DEF FlowInv, FlowTyped, RunRecords, Flow!Reply
<1>1. r.by \in Coordinators /\ r.what \in {"decide", "recover", "revoke", "adopt"}
  BY <1>0 DEF CallRecords, Flow!Waiting, Performing, Inside, Writing
<1>2. /\ request' \in [Requests -> CallRecords] /\ request'[c].at = "none"
      /\ \A e \in Requests \ {c} : request'[e] = request[e]
  <2>1. request' = [request EXCEPT ![c] = Flow!Waiting] /\ Flow!Waiting \in CallRecords
    BY DEF Flow!Reply, Flow!End, CallRecords
  <2> QED BY <1>0, <2>1 DEF Flow!Waiting
<1>3. CASE r.what \in {"decide", "recover"}
  <2> DEFINE fields == Flow!Decided(choice)
             was == run.outcomes[run.subject]
  <2>1. Flow!Journal(fields)
    BY <1>3 DEF Flow!Reply
  <2>2. run.pending = "none" /\ was["package"] # "approved"
    <3>1. CASE r.what = "decide"
      <4>1. Flow!Eligible("package")
        BY <1>0, <3>1 DEF Flow!MayAsk, Flow!MayAskAnyone
      <4> QED BY <4>1, PendingAlone DEF Flow!Eligible, Flow!Outcome, Flow!Steps
    <3>2. CASE r.what = "recover"
      BY <1>0, <3>2 DEF Flow!MayAsk, Flow!MayAskAnyone, Flow!RecoverableCancelled,
         Flow!NothingPending, Flow!Resolution, Flow!Outcome
    <3> QED BY <1>3, <3>1, <3>2
  <2>3. /\ fields \in RunRecords /\ fields.revision = run.revision /\ fields.pending = "none"
        /\ fields.subject = run.subject /\ fields.coordinator = run.coordinator
        /\ fields.outcomes = [run.outcomes EXCEPT ![run.subject] = [was EXCEPT !["package"] = choice]]
    <3> DEFINE outcomes == [run.outcomes EXCEPT ![run.subject] = [was EXCEPT !["package"] = choice]]
    <3>1. outcomes \in [Flow!Subjects -> [Flow!Steps -> Reached]]
      BY <1>0 DEF Reached
    <3>2. fields = [run EXCEPT !.outcomes = outcomes]
      BY DEF Flow!Decided
    <3> HIDE DEF outcomes, fields
    <3>3. /\ fields \in RunRecords /\ fields.revision = run.revision /\ fields.pending = "none"
          /\ fields.subject = run.subject /\ fields.coordinator = run.coordinator
          /\ fields.outcomes = outcomes
      BY <1>0, <2>2, <3>1, <3>2 DEF RunRecords
    <3> QED BY <3>3 DEF outcomes
  <2> HIDE DEF fields
  <2>4. /\ run' \in RunRecords /\ run'.subject = run.subject /\ run'.pending = "none"
        /\ run'.outcomes = [run.outcomes EXCEPT ![run.subject] = [was EXCEPT !["package"] = choice]]
        /\ run'.coordinator = run.coordinator
    BY <1>0, <2>1, <2>3, Journaled
  <2>5. \A n \in Flow!Subjects, deed \in Flow!Steps :
          n # run.subject \/ deed # "package" => run'.outcomes[n][deed] = run.outcomes[n][deed]
    BY <1>0, <2>4
  <2>6. InOrder'
    <3> SUFFICES ASSUME NEW n \in Flow!Subjects, NEW deed \in Deeds
                 PROVE  /\ run'.outcomes[n][deed] \in {"none", "completed"}
                        /\ run'.outcomes[n][deed] = "completed" =>
                             run'.outcomes[n][Flow!Predecessor(deed)] = Done(Flow!Predecessor(deed))
      BY DEF InOrder
    <3>1. /\ run.outcomes[n][deed] \in {"none", "completed"}
          /\ run.outcomes[n][deed] = "completed" =>
               run.outcomes[n][Flow!Predecessor(deed)] = Done(Flow!Predecessor(deed))
      BY DEF FlowInv, InOrder
    <3>2. deed \in Flow!Steps /\ deed # "package" /\ Flow!Predecessor(deed) \in Flow!Steps
      BY DEF Deeds, Flow!Steps, Flow!Predecessor
    <3>3. run'.outcomes[n][deed] = run.outcomes[n][deed]
      BY <2>5, <3>2
    <3>4. CASE n = run.subject /\ Flow!Predecessor(deed) = "package"
      BY <2>2, <3>1, <3>3, <3>4 DEF Done
    <3>5. CASE ~(n = run.subject /\ Flow!Predecessor(deed) = "package")
      BY <2>5, <3>1, <3>2, <3>3, <3>5
    <3> QED BY <3>4, <3>5
  <2>7. Flow!PublishedApproved'
    BY <1>0, <2>2, <2>5 DEF FlowInv, Flow!PublishedApproved, Flow!Steps
  <2>8. PendingNext' /\ Flow!DocumentSuccessor'
    BY <2>4 DEF PendingNext, Flow!DocumentSuccessor
  <2>9. \A e \in Requests : request[e].at \notin Writing
    BY <2>2, NobodyWrites
  <2> QED BY <1>0, <1>2, <2>4, <2>6, <2>7, <2>8, <2>9, JournalMoves
<1>4. CASE r.what = "revoke"
  <2> DEFINE fields == [run EXCEPT !.revoked = run.revoked \cup {run.subject}]
  <2>1. Flow!Journal(fields)
    BY <1>4 DEF Flow!Reply
  <2>2. /\ fields \in RunRecords /\ fields.revision = run.revision /\ fields.pending = run.pending
        /\ fields.subject = run.subject /\ fields.coordinator = run.coordinator
        /\ fields.outcomes = run.outcomes /\ fields.documentOnly = run.documentOnly
        /\ fields.documentSubject = run.documentSubject
    BY <1>0 DEF RunRecords
  <2> HIDE DEF fields
  <2>3. /\ run' \in RunRecords /\ run'.subject = run.subject /\ run'.outcomes = run.outcomes
        /\ run'.pending = run.pending /\ run'.coordinator = run.coordinator
        /\ run'.documentOnly = run.documentOnly /\ run'.documentSubject = run.documentSubject
    BY <1>0, <2>1, <2>2, Journaled
  <2>4. InOrder' /\ PendingNext' /\ Flow!PublishedApproved' /\ Flow!DocumentSuccessor'
    BY <1>0, <2>3 DEF FlowInv, InOrder, PendingNext, Flow!PublishedApproved, Flow!DocumentSuccessor
  <2> QED BY <1>0, <1>2, <2>3, <2>4, JournalMoves
<1>5. CASE r.what = "adopt"
  <2> DEFINE purpose == Flow!AdoptionPurpose
             fields == Flow!Adopted(r.by)
  <2>1. Flow!Journal(fields)
    BY <1>5 DEF Flow!Reply
  <2>2. PICK queueOnly \in BOOLEAN, documentOnly \in BOOLEAN, documentSubject \in {0, run.subject} :
          /\ fields = [run EXCEPT !.coordinator = r.by, !.queueOnly = queueOnly,
                                  !.documentOnly = documentOnly, !.documentSubject = documentSubject]
          /\ documentOnly <=> purpose = "document-continuation"
    <3>1. /\ (purpose = "queue-reconcile") \in BOOLEAN /\ (purpose = "document-continuation") \in BOOLEAN
          /\ (IF purpose = "document-continuation" THEN run.subject ELSE 0) \in {0, run.subject}
      OBVIOUS
    <3> HIDE DEF purpose
    <3>2. fields = [run EXCEPT !.coordinator = r.by, !.queueOnly = (purpose = "queue-reconcile"),
                               !.documentOnly = (purpose = "document-continuation"),
                               !.documentSubject = IF purpose = "document-continuation" THEN run.subject ELSE 0]
      BY DEF Flow!Adopted, purpose
    <3> QED BY <3>1, <3>2
  <2>3. purpose = "document-continuation" => run.pending = "none"
    BY DEF Flow!AdoptionPurpose, Flow!StructurallyAvailable, Flow!RecoverableCancelled,
       Flow!NothingPending
  <2> HIDE DEF purpose, fields
  <2>4. /\ fields \in RunRecords /\ fields.revision = run.revision /\ fields.pending = run.pending
        /\ fields.subject = run.subject /\ fields.outcomes = run.outcomes
        /\ fields.documentOnly = documentOnly
    BY <1>0, <1>1, <2>2 DEF RunRecords
  <2>5. /\ run' \in RunRecords /\ run'.subject = run.subject /\ run'.outcomes = run.outcomes
        /\ run'.pending = run.pending /\ run'.documentOnly = documentOnly
    BY <1>0, <2>1, <2>4, Journaled
  <2>6. run.coordinator \notin live
    BY <1>0, <1>5 DEF Flow!MayAsk
  <2>7. InOrder' /\ PendingNext' /\ Flow!PublishedApproved'
    BY <1>0, <2>5 DEF FlowInv, InOrder, PendingNext, Flow!PublishedApproved
  <2>8. Flow!DocumentSuccessor'
    BY <2>2, <2>3, <2>5 DEF Flow!DocumentSuccessor
  <2> QED BY <1>0, <1>2, <2>5, <2>6, <2>7, <2>8, JournalMoves
<1> QED BY <1>1, <1>3, <1>4, <1>5

\* What is proven is settled.
LEMMA WorkflowSettles ==
    ASSUME FlowInv, NEW c \in Requests, Flow!SettleEffect(c)
    PROVE  FlowInv'
<1> USE DEF Flow!world, Flow!ticketState
<1> DEFINE was == run.outcomes[run.subject]
           deed == run.pending
<1>0. /\ run \in RunRecords /\ request \in [Requests -> CallRecords] /\ run.subject \in Flow!Subjects
      /\ run.outcomes \in [Flow!Subjects -> [Flow!Steps -> Reached]]
      /\ UNCHANGED <<pairFiles, pairRefs, pairPrimary, queueState, live, pairMutex>>
      /\ Flow!HasRevision /\ request[c].at = "settle" /\ deed = request[c].step /\ Flow!EffectProven(deed)
  BY DEF FlowInv, FlowTyped, RunRecords, Flow!SettleEffect, Flow!IntentOf
<1>1. deed \in Deeds
  BY <1>0, CallGoesOn DEF Performing
<1>2. deed \in Flow!Steps /\ deed # "package" /\ "package" \in Flow!Steps
  BY <1>1 DEF Deeds, Flow!Steps
<1>3. /\ request' \in [Requests -> CallRecords]
      /\ \A e \in Requests : request'[e] = request[e] \/ request'[e].at = "none"
  <2>1. request' = [request EXCEPT ![c] = Flow!Waiting] /\ Flow!Waiting \in CallRecords
    BY DEF Flow!SettleEffect, Flow!End, CallRecords
  <2> QED BY <1>0, <2>1 DEF Flow!Waiting
<1>4. /\ run' \in RunRecords /\ run'.subject = run.subject /\ run'.pending = "none"
      /\ run'.outcomes = [run.outcomes EXCEPT ![run.subject] = [was EXCEPT ![deed] = "completed"]]
      /\ run'.coordinator = run.coordinator
  <2> DEFINE outcomes == [run.outcomes EXCEPT ![run.subject] = [was EXCEPT ![deed] = "completed"]]
             fields == [run EXCEPT !.pending = "none", !.outcomes = outcomes]
  <2>1. Flow!Journal(fields)
    BY <1>0 DEF Flow!SettleEffect
  <2>2. outcomes \in [Flow!Subjects -> [Flow!Steps -> Reached]]
    BY <1>0, <1>2 DEF Reached
  <2> HIDE DEF outcomes
  <2>3. /\ fields \in RunRecords /\ fields.revision = run.revision /\ fields.pending = "none"
        /\ fields.subject = run.subject /\ fields.coordinator = run.coordinator /\ fields.outcomes = outcomes
    BY <1>0, <2>2 DEF RunRecords
  <2> HIDE DEF fields
  <2>4. /\ run' \in RunRecords /\ run'.subject = run.subject /\ run'.pending = "none"
        /\ run'.outcomes = outcomes /\ run'.coordinator = run.coordinator
    BY <1>0, <2>1, <2>3, Journaled
  <2> QED BY <2>4 DEF outcomes
<1>5. /\ run'.outcomes[run.subject][deed] = "completed"
      /\ \A n \in Flow!Subjects, other \in Flow!Steps :
           n # run.subject \/ other # deed => run'.outcomes[n][other] = run.outcomes[n][other]
  BY <1>0, <1>2, <1>4
<1>6. /\ was[deed] = "none"
      /\ was[Flow!Predecessor(deed)] = Done(Flow!Predecessor(deed))
  BY <1>1 DEF FlowInv, PendingNext, Deeds
<1>7. InOrder'
  <2> SUFFICES ASSUME NEW n \in Flow!Subjects, NEW other \in Deeds
               PROVE  /\ run'.outcomes[n][other] \in {"none", "completed"}
                      /\ run'.outcomes[n][other] = "completed" =>
                           run'.outcomes[n][Flow!Predecessor(other)] = Done(Flow!Predecessor(other))
    BY DEF InOrder
  <2>1. /\ run.outcomes[n][other] \in {"none", "completed"}
        /\ run.outcomes[n][other] = "completed" =>
             run.outcomes[n][Flow!Predecessor(other)] = Done(Flow!Predecessor(other))
    BY DEF FlowInv, InOrder
  <2>2. /\ other \in Flow!Steps /\ Flow!Predecessor(other) \in Flow!Steps
        /\ Flow!Predecessor(other) # other
    BY DEF Deeds, Flow!Steps, Flow!Predecessor
  <2>3. CASE n = run.subject /\ other = deed
    BY <1>5, <1>6, <2>2, <2>3
  <2>4. CASE n = run.subject /\ Flow!Predecessor(other) = deed
    <3>1. deed # "package" /\ Done(deed) = "completed"
      BY <1>2 DEF Done
    <3> QED BY <1>5, <2>1, <2>2, <2>4, <3>1
  <2>5. CASE n # run.subject \/ (other # deed /\ Flow!Predecessor(other) # deed)
    BY <1>5, <2>1, <2>2, <2>5
  <2> QED BY <2>3, <2>4, <2>5
<1>8. Flow!PublishedApproved'
  BY <1>0, <1>2, <1>5 DEF FlowInv, Flow!PublishedApproved
<1>9. PendingNext' /\ Flow!DocumentSuccessor'
  BY <1>4 DEF PendingNext, Flow!DocumentSuccessor
<1>10. \A e \in Requests : request[e].at \notin Writing
  BY <1>0, <1>1, NobodyWrites DEF Flow!EffectProven, Deeds
<1> HIDE DEF was, deed
<1> QED BY <1>0, <1>3, <1>4, <1>7, <1>8, <1>9, <1>10, JournalMoves

\* The next attempt of the run.
LEMMA WorkflowRevised ==
    ASSUME FlowInv, NEW d \in Coordinators, NEW fresh \in BOOLEAN, Flow!Revise(d, fresh)
    PROVE  FlowInv'
<1> USE DEF Flow!world, Flow!ticketState
<1> DEFINE fields == [run EXCEPT !.subject = run.subject + 1, !.fresh = fresh]
<1>0. /\ run \in RunRecords /\ request \in [Requests -> CallRecords] /\ run.pending = "none"
      /\ UNCHANGED <<pairFiles, pairRefs, pairPrimary, queueState, live, pairMutex, request>>
      /\ Flow!HasRevision /\ Flow!Journal(fields) /\ run.subject + 1 \in Flow!Subjects
  <2>1. run.subject \in 1..MaxSubjects /\ run.subject < MaxSubjects /\ MaxSubjects \in Nat
    BY WorkflowConstants DEF Flow!WorkflowAssumption, FlowInv, FlowTyped, RunRecords,
       Flow!Subjects, Flow!Revise, Flow!MayRevise
  <2> QED BY <2>1 DEF FlowInv, FlowTyped, Flow!Revise, Flow!MayRevise, Flow!NothingPending,
         Flow!Subjects
<1>1. /\ fields \in RunRecords /\ fields.revision = run.revision /\ fields.pending = "none"
      /\ fields.coordinator = run.coordinator /\ fields.outcomes = run.outcomes
  BY <1>0 DEF RunRecords
<1> HIDE DEF fields
<1>2. /\ run' \in RunRecords /\ run'.outcomes = run.outcomes /\ run'.pending = "none"
      /\ run'.coordinator = run.coordinator
  BY <1>0, <1>1, Journaled
<1>3. InOrder' /\ PendingNext' /\ Flow!PublishedApproved' /\ Flow!DocumentSuccessor'
  BY <1>0, <1>2 DEF FlowInv, InOrder, PendingNext, Flow!PublishedApproved, Flow!DocumentSuccessor
<1>4. \A e \in Requests : request[e].at \notin Writing
  BY <1>0, NobodyWrites
<1> QED BY <1>0, <1>2, <1>3, <1>4, JournalMoves

\* The native owner builds, an ordinary writer edits the ticket, a deployment dies.
LEMMA WorkflowOthers ==
    ASSUME FlowInv,
           Flow!NativeBuild \/ Flow!EditTicket \/ \E d \in Coordinators : Flow!DeploymentDies(d)
    PROVE  FlowInv'
<1> USE DEF Flow!ticketState
<1>p. Writing \subseteq Inside /\ Inside \subseteq Performing /\ "none" \notin Performing
  BY DEF Performing, Inside, Writing
<1>0. /\ request \in [Requests -> CallRecords] /\ Flow!NotHeld \notin Requests
      /\ pairRefs \in [Flow!Subjects -> SUBSET Flow!PairRefs]
      /\ pairPrimary \in Flow!Subjects \cup {0, -1}
      /\ pairMutex \in Requests \cup {Flow!NotHeld}
      /\ Flow!Waiting \in CallRecords /\ Flow!Waiting.at = "none"
  BY WorkflowConstants DEF Flow!WorkflowAssumption, FlowInv, FlowTyped, CallRecords, Flow!Waiting
<1>1. ASSUME UNCHANGED <<run, pairFiles, pairRefs, pairPrimary, queueState>>, live' \subseteq Coordinators,
             pairMutex' \in Requests \cup {Flow!NotHeld}, request' \in [Requests -> CallRecords],
             \A c \in Requests :
               \/ request'[c].at = "none"
               \/ /\ request'[c] = request[c] /\ (request[c].by \in live => request[c].by \in live')
                  /\ (pairMutex = c => pairMutex' = c)
      PROVE  FlowInv'
  <2>1. FlowTyped'
    BY <1>1 DEF FlowInv, FlowTyped
  <2>2. CallersLive'
    <3> SUFFICES ASSUME NEW c \in Requests
                 PROVE  /\ request'[c].at # "none" => request'[c].by \in live'
                        /\ request'[c].at \in Performing => request'[c].by = run'.coordinator
                        /\ request'[c].at \in Inside => pairMutex' = c /\ request'[c].step # "source"
      BY DEF CallersLive
    <3> QED BY <1>1, <1>p DEF FlowInv, CallersLive
  <2>3. WritesUnproven'
    <3> SUFFICES ASSUME NEW c \in Requests, request'[c].at \in Writing
                 PROVE  /\ run'.pending = request'[c].step /\ run'.subject = request'[c].subject
                        /\ request'[c].step = "publication.pair" => ~Flow!PairComplete'
                        /\ request'[c].step = "ticket.queue" => ~Flow!QueueProven'
      BY DEF WritesUnproven, Flow!IntentOf
    <3>1. request'[c] = request[c]
      BY <1>1, <1>p
    <3>2. /\ Flow!PairComplete' <=> Flow!PairComplete
          /\ Flow!QueueProven' <=> Flow!QueueProven
      BY <1>1, EffectsStand
    <3> QED BY <1>1, <3>1, <3>2 DEF FlowInv, WritesUnproven, Flow!IntentOf
  <2>4. InOrder' /\ PendingNext' /\ Flow!PublishedApproved' /\ Flow!DocumentSuccessor'
    BY <1>1 DEF FlowInv, InOrder, PendingNext, Flow!PublishedApproved, Flow!DocumentSuccessor
  <2> QED BY <2>1, <2>2, <2>3, <2>4 DEF FlowInv
<1>2. CASE Flow!NativeBuild
  <2>1. UNCHANGED <<run, pairFiles, pairRefs, pairPrimary, queueState, live, pairMutex, request>>
    BY <1>2 DEF Flow!NativeBuild
  <2>2. live' \subseteq Coordinators
    BY <2>1 DEF FlowInv, FlowTyped
  <2> QED BY <1>0, <1>1, <2>1, <2>2
<1>3. CASE Flow!EditTicket
  <2>1. pairMutex = Flow!NotHeld /\ UNCHANGED <<run, pairFiles, live, pairMutex, request>>
    BY <1>3 DEF Flow!EditTicket, Flow!EditTicketAnytime
  <2>2. \A c \in Requests : request[c].at \notin Writing
    BY <1>0, <1>p, <2>1 DEF FlowInv, CallersLive
  <2>3. /\ pairRefs' \in [Flow!Subjects -> SUBSET Flow!PairRefs]
        /\ \A n \in Flow!Subjects : pairRefs'[n] \subseteq pairRefs[n]
        /\ pairPrimary' \in Flow!Subjects \cup {0, -1}
    <3>1. CASE UNCHANGED pairRefs /\ pairPrimary' \in {pairPrimary, -1}
      BY <1>0, <3>1
    <3>2. CASE \E n \in Flow!Subjects, ref \in Flow!PairRefs :
                 /\ pairRefs' = [pairRefs EXCEPT ![n] = @ \ {ref}]
                 /\ pairPrimary' = IF pairPrimary = n /\ ref = "requirements" THEN 0 ELSE pairPrimary
      <4>1. PICK n \in Flow!Subjects, ref \in Flow!PairRefs :
                 /\ pairRefs' = [pairRefs EXCEPT ![n] = @ \ {ref}]
                 /\ pairPrimary' = IF pairPrimary = n /\ ref = "requirements" THEN 0 ELSE pairPrimary
        BY <3>2
      <4>2. pairRefs' \in [Flow!Subjects -> SUBSET Flow!PairRefs]
        BY <1>0, <4>1
      <4>3. \A m \in Flow!Subjects : pairRefs'[m] \subseteq pairRefs[m]
        BY <1>0, <4>1
      <4> QED BY <1>0, <4>1, <4>2, <4>3
    <3> QED BY <1>3, <3>1, <3>2 DEF Flow!EditTicket, Flow!EditTicketAnytime
  <2>4. FlowTyped' /\ CallersLive' /\ WritesUnproven'
    BY <2>1, <2>2, <2>3 DEF FlowInv, FlowTyped, CallersLive, WritesUnproven
  <2>5. Flow!PublishedApproved'
    BY <2>1, <2>3 DEF FlowInv, Flow!PublishedApproved
  <2>6. InOrder' /\ PendingNext' /\ Flow!DocumentSuccessor'
    BY <2>1 DEF FlowInv, InOrder, PendingNext, Flow!DocumentSuccessor
  <2> QED BY <2>4, <2>5, <2>6 DEF FlowInv
<1>4. ASSUME NEW d \in Coordinators, Flow!DeploymentDies(d) PROVE FlowInv'
  <2>1. /\ UNCHANGED <<run, pairFiles, pairRefs, pairPrimary, queueState>> /\ live' = live \ {d}
        /\ request' = [c \in Requests |-> IF c \in Flow!CallsOf(d) THEN Flow!Waiting ELSE request[c]]
        /\ pairMutex' = IF pairMutex \in Flow!CallsOf(d) THEN Flow!NotHeld ELSE pairMutex
    BY <1>4 DEF Flow!DeploymentDies
  <2>2. request' \in [Requests -> CallRecords]
    BY <1>0, <2>1
  <2>3. live' \subseteq Coordinators
    BY <2>1 DEF FlowInv, FlowTyped
  <2>4. ASSUME NEW c \in Requests
        PROVE  \/ request'[c].at = "none"
               \/ /\ request'[c] = request[c] /\ (request[c].by \in live => request[c].by \in live')
                  /\ (pairMutex = c => pairMutex' = c)
    <3>1. CASE c \in Flow!CallsOf(d)
      BY <1>0, <2>1, <3>1
    <3>2. CASE c \notin Flow!CallsOf(d) /\ request[c] = Flow!Waiting
      BY <1>0, <2>1, <3>2
    <3>3. CASE c \notin Flow!CallsOf(d) /\ request[c].by # d
      BY <2>1, <3>3
    <3> QED BY <3>1, <3>2, <3>3 DEF Flow!CallsOf
  <2>5. pairMutex' \in Requests \cup {Flow!NotHeld}
    BY <1>0, <2>1
  <2> QED BY <1>1, <2>1, <2>2, <2>3, <2>4, <2>5
<1> QED BY <1>2, <1>3, <1>4

LEMMA WorkflowKept ==
    ASSUME FlowInv, Flow!WorkflowNext
    PROVE  FlowInv'
<1>1. ASSUME NEW c \in Requests, Flow!WorkflowRequest(c) PROVE FlowInv'
  <2>1. CASE \E d \in Coordinators :
               (\E deed \in Flow!Steps : Flow!RequestStep(c, d, deed)) \/ Flow!ReconcileStep(c, d)
    BY <2>1, WorkflowRequests
  <2>2. CASE \E choice \in Flow!Choices : Flow!Reply(c, choice)
    BY <2>2, WorkflowReplies
  <2>3. CASE Flow!SettleEffect(c)
    BY <2>3, WorkflowSettles
  <2>4. CASE \/ \E d \in Coordinators, what \in {"decide", "recover", "revoke", "adopt"} :
                  Flow!AskOperator(c, d, what)
             \/ Flow!Abandon(c) \/ Flow!ObserveEffect(c) \/ Flow!EnterExecute(c)
             \/ Flow!AuthorizeWrite(c) \/ Flow!LeaveExecute(c)
    BY <2>4, WorkflowCalls
  <2>5. CASE \/ Flow!CreatePairFile(c) \/ Flow!FillPairFile(c) \/ Flow!AttachPair(c)
             \/ Flow!PromotePair(c) \/ Flow!QueueForBuilder(c)
    BY <2>5, WorkflowWrites
  <2> QED BY <1>1, <2>1, <2>2, <2>3, <2>4, <2>5 DEF Flow!WorkflowRequest
<1> QED BY <1>1, WorkflowRevised, WorkflowOthers DEF Flow!WorkflowNext

LEMMA WorkflowStepsKeep == WorkflowHolds /\ [TicketsNext]_ticketsVars => WorkflowHolds'
<1> SUFFICES ASSUME WorkflowHolds, [TicketsNext]_ticketsVars, part' = "workflow"
             PROVE  FlowInv'
  BY DEF WorkflowHolds
<1>1. CASE WorkflowStep
  BY <1>1, WorkflowKept DEF WorkflowStep, WorkflowHolds
<1>2. CASE UNCHANGED ticketsVars
  <2>1. UNCHANGED <<part, workflowVars>>
    BY <1>2 DEF ticketsVars
  <2>2. part = "workflow" /\ FlowInv /\ UNCHANGED <<run, pairFiles, pairRefs, pairPrimary, queueState>>
        /\ UNCHANGED <<live, pairMutex, request>>
    BY <2>1 DEF workflowVars, WorkflowHolds
  <2>3. WritesUnproven'
    BY <2>2, EffectsStand DEF FlowInv, WritesUnproven, Flow!IntentOf
  <2> QED BY <2>2, <2>3 DEF FlowInv, FlowTyped, CallersLive, InOrder, PendingNext,
         Flow!PublishedApproved, Flow!DocumentSuccessor
<1>3. CASE DocumentsStep \/ BranchStep \/ StoreStep \/ PreparedStep \/ SignalStep \/ ReportsStep \/ DeploysStep
  BY <1>3 DEF DocumentsStep, BranchStep, StoreStep, PreparedStep, SignalStep, ReportsStep, DeploysStep
<1> QED BY <1>1, <1>2, <1>3 DEF TicketsNext

\* Effects of a run are performed by its coordinator alone, for the pending intent and
\* the current subject, after the operator approved it: WorkflowSafe.
THEOREM WorkflowIsSafe == TicketsSpec => []WorkflowSafe
BY WorkflowStarts, WorkflowStepsKeep, WorkflowMeans, PTL DEF TicketsSpec

-----------------------------------------------------------------------------
(* The document packages.                                                  *)

DocTyped ==
    /\ Docs!DocumentsTypeOK
    /\ journal \in Seq(Docs!RowSet) /\ call \in [Sessions -> Docs!CallSet]

InEffect == {"read", "effect", "file", "result"}
Answering(s) == call[s].what = "revoke" /\ call[s].rev = Len(journal)

\* A call inside an effect has the mutex; an operator is asked to revoke what still stands
\* unless the journal moved; a write is approved; an effect is announced by the one
\* pending intent; and what is about to be recorded is there.
CallHolds(s) ==
    /\ call[s].at \in InEffect => mutex = s
    /\ call[s].at = "asking" =>
         /\ call[s].rev <= Len(journal)
         /\ Answering(s) => \E d \in Nat : Docs!Approved(call[s].pkg, d)
    /\ call[s].at = "file" \/ (call[s].at = "effect" /\ call[s].authorized) =>
         Docs!Approved(call[s].pkg, call[s].decision)
    /\ call[s].at \in {"effect", "file", "result"} => Docs!Pending = {Docs!Mine(s)}
    /\ call[s].at = "result" => Docs!Proven(call[s].op, call[s].pkg)

\* The inductive invariant behind the documents' part of DocumentsSafe.
DocInv == DocTyped /\ \A s \in Sessions : CallHolds(s)

LEMMA DocMeans ==
    DocInv => Docs!DocumentsTypeOK /\ Docs!WritesApproved /\ Docs!IntentFirst
BY DEF DocInv, DocTyped, CallHolds, Docs!WritesApproved, Docs!IntentFirst

LEMMA DocConstants ==
    /\ Docs!Free \notin Sessions /\ NoPackage \notin Packages
    /\ Published \subseteq Packages /\ MaxEvents \in Nat /\ MaxTouches \in Nat
BY DocumentsConstants DEF Docs!DocumentsAssumption, Docs!Free

\* The rows of a call and their shapes.
LEMMA CallShape ==
    ASSUME NEW c \in Docs!CallSet
    PROVE  \/ c = Docs!Idle /\ c.at = "idle"
           \/ /\ c \in [at : {"asking"}, what : {"capture", "revoke"}, pkg : Packages, rev : Nat]
              /\ c.at = "asking"
           \/ /\ c \in [at : InEffect, op : Docs!Effects, pkg : Packages,
                        decision : Nat, rev : Nat, authorized : BOOLEAN]
              /\ c.at \in InEffect
BY DEF Docs!CallSet, Docs!Idle, InEffect

\* What the journal says after a row was appended.
LEMMA RowAppended ==
    ASSUME journal \in Seq(Docs!RowSet), NEW row \in Docs!RowSet, journal' = Append(journal, row)
    PROVE  /\ journal' \in Seq(Docs!RowSet) /\ Len(journal') = Len(journal) + 1
           /\ DOMAIN journal = 1..Len(journal) /\ DOMAIN journal' = 1..(Len(journal) + 1)
           /\ Len(journal) \in Nat
           /\ journal'[Len(journal) + 1] = row
           /\ \A i \in 1..Len(journal) : journal'[i] = journal[i]
OBVIOUS

\* A row that says nothing of decisions leaves the approvals.
LEMMA ApprovalsStand ==
    ASSUME journal \in Seq(Docs!RowSet), NEW row \in Docs!RowSet, journal' = Append(journal, row),
           row.kind \notin {"decision", "revoked"}
    PROVE  \A p, d : Docs!Approved(p, d)' <=> Docs!Approved(p, d)
<1>1. /\ DOMAIN journal = 1..Len(journal) /\ DOMAIN journal' = 1..(Len(journal) + 1) /\ Len(journal) \in Nat
      /\ journal'[Len(journal) + 1] = row /\ \A i \in 1..Len(journal) : journal'[i] = journal[i]
  BY RowAppended
<1>2. /\ Docs!Rows("decision")' = Docs!Rows("decision")
      /\ Docs!Rows("revoked")' = Docs!Rows("revoked")
  BY <1>1 DEF Docs!Rows
<1>3. /\ \A i \in Docs!Rows("decision") : journal'[i] = journal[i]
      /\ \A i \in Docs!Rows("revoked") : journal'[i] = journal[i]
  BY <1>1 DEF Docs!Rows
<1>4. \A p : Docs!Decisions(p)' = Docs!Decisions(p)
  BY <1>2, <1>3 DEF Docs!Decisions
<1>5. \A d : Docs!Revoked(d)' <=> Docs!Revoked(d)
  BY <1>2, <1>3 DEF Docs!Revoked
<1>6. \A p : Docs!Decisions(p) \subseteq Docs!Rows("decision")
  BY DEF Docs!Decisions
<1> QED BY <1>3, <1>4, <1>5, <1>6 DEF Docs!Approved

\* What is done and what is pending after a row was appended.
LEMMA OperationsMove ==
    ASSUME journal \in Seq(Docs!RowSet), NEW row \in Docs!RowSet, journal' = Append(journal, row)
    PROVE  /\ row.kind \notin {"intent", "result"} =>
                Docs!Done' = Docs!Done /\ Docs!Pending' = Docs!Pending
           /\ row.kind = "intent" =>
                /\ Docs!Done' = Docs!Done
                /\ Docs!Pending' = (Docs!Pending \cup {row.operation}) \ Docs!Done
           /\ row.kind = "result" =>
                Docs!Done' = IF row.completed THEN Docs!Done \cup {row.operation} ELSE Docs!Done
<1>1. /\ DOMAIN journal = 1..Len(journal) /\ DOMAIN journal' = 1..(Len(journal) + 1) /\ Len(journal) \in Nat
      /\ journal'[Len(journal) + 1] = row /\ \A i \in 1..Len(journal) : journal'[i] = journal[i]
  BY RowAppended
<1> DEFINE at == Len(journal) + 1
<1>2. /\ at \in Nat /\ journal'[at] = row /\ at \notin DOMAIN journal
      /\ DOMAIN journal' = DOMAIN journal \cup {at} /\ \A i \in DOMAIN journal : journal'[i] = journal[i]
  BY <1>1
<1> HIDE DEF at
<1>3. \A o : o \in Docs!Done <=>
          \E i \in DOMAIN journal : journal[i].kind = "result" /\ journal[i].completed /\ o = journal[i].operation
  BY DEF Docs!Done, Docs!Rows
<1>4. \A o : o \in Docs!Done' <=>
          \E i \in DOMAIN journal' : journal'[i].kind = "result" /\ journal'[i].completed /\ o = journal'[i].operation
  BY DEF Docs!Done, Docs!Rows
<1>5. \A o : o \in Docs!Done' <=>
          o \in Docs!Done \/ (row.kind = "result" /\ row.completed /\ o = row.operation)
  BY <1>2, <1>3, <1>4
<1> DEFINE Meant == {journal[i].operation : i \in Docs!Rows("intent")}
<1>6. \A o : o \in Meant <=> \E i \in DOMAIN journal : journal[i].kind = "intent" /\ o = journal[i].operation
  BY DEF Docs!Rows
<1>7. \A o : o \in Meant' <=> \E i \in DOMAIN journal' : journal'[i].kind = "intent" /\ o = journal'[i].operation
  BY DEF Docs!Rows
<1>8. Docs!Pending = Meant \ Docs!Done /\ Docs!Pending' = Meant' \ Docs!Done'
  BY DEF Docs!Pending
<1> HIDE DEF Meant
<1>9. \A o : o \in Meant' <=> o \in Meant \/ (row.kind = "intent" /\ o = row.operation)
  BY <1>2, <1>6, <1>7
<1>10. row.kind \notin {"intent", "result"} => Docs!Done' = Docs!Done /\ Docs!Pending' = Docs!Pending
  BY <1>5, <1>8, <1>9
<1>11. row.kind = "intent" => Docs!Done' = Docs!Done
  BY <1>5
<1>12. row.kind = "intent" => Docs!Pending' = (Docs!Pending \cup {row.operation}) \ Docs!Done
  BY <1>8, <1>9, <1>11
<1>13. row.kind = "result" =>
          Docs!Done' = IF row.completed THEN Docs!Done \cup {row.operation} ELSE Docs!Done
  BY <1>5
<1> QED BY <1>10, <1>11, <1>12, <1>13

\* A call that is not touched: an operator who is asked sees the journal move, a call
\* inside an effect needs that nobody writes what it reads.
LEMMA AskerStands ==
    ASSUME NEW s \in Sessions, CallHolds(s), call'[s] = call[s], call[s].at = "asking",
           call[s].rev \in Nat, Len(journal) \in Nat,
           journal' = journal \/ Len(journal') = Len(journal) + 1
    PROVE  CallHolds(s)'
<1>1. CallHolds(s)' <=>
         /\ call[s].rev <= Len(journal')
         /\ call[s].what = "revoke" /\ call[s].rev = Len(journal') =>
              \E d \in Nat : Docs!Approved(call[s].pkg, d)'
  BY DEF CallHolds, InEffect, Answering
<1>2. journal' = journal => \A p, d : Docs!Approved(p, d)' <=> Docs!Approved(p, d)
  BY DEF Docs!Approved, Docs!Decisions, Docs!Revoked, Docs!Rows
<1> QED BY <1>1, <1>2 DEF CallHolds, Answering

LEMMA InsiderStands ==
    ASSUME NEW s \in Sessions, CallHolds(s), call'[s] = call[s], mutex' = mutex, call[s].at \in InEffect,
           \A p, d : Docs!Approved(p, d)' <=> Docs!Approved(p, d),
           Docs!Pending' = Docs!Pending,
           \A o, p : Docs!Proven(o, p)' <=> Docs!Proven(o, p)
    PROVE  CallHolds(s)'
<1>1. Docs!Mine(s)' = Docs!Mine(s)
  BY DEF Docs!Mine, Docs!Operation
<1> QED BY <1>1 DEF CallHolds, InEffect

\* Whether an effect is there depends on the files and the ticket alone.
LEMMA EffectsThere ==
    ASSUME UNCHANGED <<files, refs, primary, status, assignee>>
    PROVE  \A o, p : Docs!Proven(o, p)' <=> Docs!Proven(o, p)
BY DEF Docs!Proven, Docs!Queued, Docs!Complete, Docs!Conflicting, Docs!AllExact,
       Docs!PredecessorIntact

\* A step of a call while nobody else is inside an effect.
LEMMA AloneInside ==
    ASSUME DocInv, NEW s \in Sessions, mutex \in {s, Docs!Free}, NEW next \in Docs!CallSet,
           call' = [call EXCEPT ![s] = next], DocTyped',
           journal' = journal \/ Len(journal') = Len(journal) + 1,
           CallHolds(s)'
    PROVE  DocInv'
<1> SUFFICES ASSUME NEW r \in Sessions, r # s PROVE CallHolds(r)'
  BY DEF DocInv
<1>1. call'[r] = call[r] /\ call[r] \in Docs!CallSet /\ CallHolds(r) /\ Len(journal) \in Nat
  BY DEF DocInv, DocTyped
<1>2. call[r].at \notin InEffect
  BY DocConstants DEF DocInv, CallHolds
<1>3. CASE call[r].at = "asking"
  <2>1. call[r].rev \in Nat
    BY <1>1, <1>3, CallShape DEF InEffect
  <2> QED BY <1>1, <1>3, <2>1, AskerStands
<1>4. CASE call[r].at = "idle"
  BY <1>1, <1>4 DEF CallHolds, InEffect
<1> QED BY <1>1, <1>2, <1>3, <1>4, CallShape

\* A step that writes neither the journal nor the ticket and takes no mutex from another.
LEMMA OthersStand ==
    ASSUME DocInv, NEW s \in Sessions, NEW next \in Docs!CallSet, call' = [call EXCEPT ![s] = next],
           DocTyped', UNCHANGED <<journal, files, refs, primary, status, assignee>>,
           mutex = s \/ mutex' = mutex, CallHolds(s)'
    PROVE  DocInv'
<1> SUFFICES ASSUME NEW r \in Sessions, r # s PROVE CallHolds(r)'
  BY DEF DocInv
<1>1. call'[r] = call[r] /\ call[r] \in Docs!CallSet /\ CallHolds(r) /\ Len(journal) \in Nat
  BY DEF DocInv, DocTyped
<1>2. CASE call[r].at = "asking"
  <2>1. call[r].rev \in Nat
    BY <1>1, <1>2, CallShape DEF InEffect
  <2> QED BY <1>1, <1>2, <2>1, AskerStands
<1>3. CASE call[r].at \in InEffect
  <2>1. mutex = r /\ mutex' = mutex
    BY <1>1, <1>3 DEF CallHolds
  <2>2. \A p, d : Docs!Approved(p, d)' <=> Docs!Approved(p, d)
    BY DEF Docs!Approved, Docs!Decisions, Docs!Revoked, Docs!Rows
  <2>3. Docs!Pending' = Docs!Pending
    BY DEF Docs!Pending, Docs!Done, Docs!Rows
  <2> QED BY <1>1, <1>3, <2>1, <2>2, <2>3, EffectsThere, InsiderStands
<1>4. CASE call[r].at = "idle"
  BY <1>1, <1>4 DEF CallHolds, InEffect
<1> QED BY <1>1, <1>2, <1>3, <1>4, CallShape

\* What is approved and what is pending depends on the journal alone.
LEMMA JournalSays ==
    ASSUME journal' = journal
    PROVE  /\ \A p, d : Docs!Approved(p, d)' <=> Docs!Approved(p, d)
           /\ Docs!Pending' = Docs!Pending /\ Docs!Done' = Docs!Done
BY DEF Docs!Approved, Docs!Decisions, Docs!Revoked, Docs!Rows, Docs!Pending,
       Docs!Done

\* A step of nobody's call: a package is frozen, or others write while nobody is inside.
LEMMA CallsStand ==
    ASSUME DocInv, UNCHANGED <<call, mutex>>, DocTyped',
           \/ mutex = Docs!Free /\ journal' = journal
           \/ /\ UNCHANGED <<files, refs, primary, status, assignee>>
              /\ \/ journal' = journal
                 \/ \E row \in Docs!RowSet : row.kind = "frozen" /\ journal' = Append(journal, row)
    PROVE  DocInv'
<1> SUFFICES ASSUME NEW r \in Sessions PROVE CallHolds(r)'
  BY DEF DocInv
<1>1. call'[r] = call[r] /\ call[r] \in Docs!CallSet /\ CallHolds(r) /\ Len(journal) \in Nat
  BY DEF DocInv, DocTyped
<1>2. journal' = journal \/ Len(journal') = Len(journal) + 1
  BY RowAppended DEF DocInv, DocTyped
<1>3. CASE call[r].at = "asking"
  <2>1. call[r].rev \in Nat
    BY <1>1, <1>3, CallShape DEF InEffect
  <2> QED BY <1>1, <1>2, <1>3, <2>1, AskerStands
<1>4. CASE call[r].at \in InEffect
  <2>1. mutex = r /\ mutex # Docs!Free
    BY <1>1, <1>4, DocConstants DEF CallHolds
  <2>2. CASE journal' = journal
    BY <1>1, <1>4, <2>1, <2>2, JournalSays, EffectsThere, InsiderStands
  <2>3. CASE \E row \in Docs!RowSet : row.kind = "frozen" /\ journal' = Append(journal, row)
    <3>1. PICK row \in Docs!RowSet : row.kind = "frozen" /\ journal' = Append(journal, row)
      BY <2>3
    <3>2. journal \in Seq(Docs!RowSet)
      BY DEF DocInv, DocTyped
    <3>3. \A p, d : Docs!Approved(p, d)' <=> Docs!Approved(p, d)
      BY <3>1, <3>2, ApprovalsStand
    <3>4. Docs!Pending' = Docs!Pending
      BY <3>1, <3>2, OperationsMove
    <3>5. CASE UNCHANGED <<files, refs, primary, status, assignee>>
      BY <1>1, <1>4, <3>3, <3>4, <3>5, EffectsThere, InsiderStands
    <3>6. CASE journal' = journal
      BY <2>2, <3>6
    <3> QED BY <2>1, <3>5, <3>6
  <2> QED BY <2>1, <2>2, <2>3
<1>5. CASE call[r].at = "idle"
  BY <1>1, <1>5 DEF CallHolds, InEffect
<1> QED BY <1>1, <1>3, <1>4, <1>5, CallShape

LEMMA DocOthers ==
    ASSUME DocInv,
           \/ \E p \in Packages : Docs!Freeze(p) \/ Docs!Draft(p)
           \/ Docs!TouchTicket \/ Docs!Reserve
    PROVE  DocInv'
<1>0. DocTyped /\ journal \in Seq(Docs!RowSet) /\ Docs!DocumentsTypeOK
  BY DEF DocInv, DocTyped
<1>1. ASSUME NEW p \in Packages, Docs!Freeze(p) PROVE DocInv'
  <2> DEFINE row == [kind |-> "frozen", pkg |-> p]
  <2>1. row \in Docs!RowSet /\ row.kind = "frozen"
    BY DEF Docs!RowSet
  <2>2. journal' = Append(journal, row) /\ UNCHANGED <<call, mutex, touches, sources, files, refs, primary, status, assignee, reserved>>
    BY <1>1 DEF Docs!Freeze, Docs!Append1, Docs!documentState
  <2> HIDE DEF row
  <2>3. journal' \in Seq(Docs!RowSet)
    BY <1>0, <2>1, <2>2, RowAppended
  <2>4. DocTyped'
    BY <1>0, <2>2, <2>3 DEF DocTyped, Docs!DocumentsTypeOK
  <2> QED BY <2>1, <2>2, <2>4, CallsStand
<1>2. ASSUME NEW p \in Packages, Docs!Draft(p) PROVE DocInv'
  <2>1. /\ mutex = Docs!Free /\ sources' = [sources EXCEPT ![p] = ~sources[p]] /\ touches' = touches + 1
        /\ UNCHANGED <<journal, files, refs, primary, status, assignee, reserved, mutex, call>>
    BY <1>2 DEF Docs!Draft
  <2>2. sources' \in [Packages -> BOOLEAN] /\ touches' \in Nat
    BY <1>0, <2>1 DEF Docs!DocumentsTypeOK
  <2>3. DocTyped'
    BY <1>0, <2>1, <2>2 DEF DocTyped, Docs!DocumentsTypeOK
  <2> QED BY <2>1, <2>3, CallsStand
<1>3. CASE Docs!TouchTicket
  <2>1. /\ mutex = Docs!Free /\ touches' = touches + 1
        /\ UNCHANGED <<journal, sources, files, reserved, mutex, call>>
        /\ \/ /\ status' \in {"pending", "implementing"} /\ assignee' \in {"requirements", "other"}
              /\ UNCHANGED <<refs, primary>>
           \/ /\ \E p \in Packages, m \in Docs!Members : refs' = [refs EXCEPT ![p] = refs[p] \ {m}]
              /\ UNCHANGED <<primary, status, assignee>>
           \/ primary' = "foreign" /\ UNCHANGED <<refs, status, assignee>>
    BY <1>3 DEF Docs!TouchTicket, Docs!TouchUnlocked
  <2>2. refs' \in [Packages -> SUBSET Docs!Members]
    BY <1>0, <2>1 DEF Docs!DocumentsTypeOK
  <2>3. DocTyped'
    BY <1>0, <2>1, <2>2 DEF DocTyped, Docs!DocumentsTypeOK
  <2> QED BY <2>1, <2>3, CallsStand
<1>4. CASE Docs!Reserve
  <2>1. /\ touches' = touches + 1 /\ reserved' = ~reserved
        /\ UNCHANGED <<journal, sources, files, refs, primary, status, assignee, mutex, call>>
    BY <1>4 DEF Docs!Reserve
  <2>2. DocTyped'
    BY <1>0, <2>1 DEF DocTyped, Docs!DocumentsTypeOK
  <2> QED BY <2>1, <2>2, CallsStand
<1> QED BY <1>1, <1>2, <1>3, <1>4

\* What a call is that is about to do something.
LEMMA DocCallIs ==
    ASSUME DocInv, NEW s \in Sessions
    PROVE  /\ call[s] \in Docs!CallSet /\ CallHolds(s) /\ DocTyped /\ Docs!DocumentsTypeOK
           /\ journal \in Seq(Docs!RowSet) /\ Len(journal) \in Nat /\ DOMAIN journal = 1..Len(journal)
           /\ call[s].at = "asking" => call[s] \in [at : {"asking"}, what : {"capture", "revoke"}, pkg : Packages, rev : Nat]
           /\ call[s].at \in InEffect =>
                /\ mutex = s
                /\ call[s] \in [at : InEffect, op : Docs!Effects, pkg : Packages,
                                decision : Nat, rev : Nat, authorized : BOOLEAN]
                /\ Docs!Mine(s) \in Docs!OperationSet
<1>1. /\ call[s] \in Docs!CallSet /\ CallHolds(s) /\ DocTyped /\ Docs!DocumentsTypeOK
      /\ journal \in Seq(Docs!RowSet)
  BY DEF DocInv, DocTyped
<1>2. call[s].at = "asking" => call[s] \in [at : {"asking"}, what : {"capture", "revoke"}, pkg : Packages, rev : Nat]
  BY <1>1, CallShape DEF InEffect
<1>3. call[s].at \in InEffect =>
        call[s] \in [at : InEffect, op : Docs!Effects, pkg : Packages, decision : Nat, rev : Nat, authorized : BOOLEAN]
  BY <1>1, CallShape DEF InEffect
<1>4. call[s].at \in InEffect => Docs!Mine(s) \in Docs!OperationSet
  BY <1>3 DEF Docs!Mine, Docs!Operation, Docs!OperationSet
<1>5. call[s].at \in InEffect => mutex = s
  BY <1>1 DEF CallHolds
<1> QED BY <1>1, <1>2, <1>3, <1>4, <1>5

\* A call inside an effect that moves on, with or without the next write authorized.
LEMMA DocMoves ==
    ASSUME NEW c \in [at : InEffect, op : Docs!Effects, pkg : Packages,
                      decision : Nat, rev : Nat, authorized : BOOLEAN],
           NEW a \in InEffect, Len(journal) \in Nat
    PROVE  /\ [c EXCEPT !.at = a] \in Docs!CallSet
           /\ [c EXCEPT !.authorized = TRUE] \in Docs!CallSet
           /\ [c EXCEPT !.authorized = FALSE] \in Docs!CallSet
           /\ [c EXCEPT !.at = a, !.authorized = FALSE] \in Docs!CallSet
           /\ [c EXCEPT !.at = a, !.rev = Len(journal)] \in Docs!CallSet
<1> DEFINE CallsInside == [at : InEffect, op : Docs!Effects, pkg : Packages, decision : Nat, rev : Nat, authorized : BOOLEAN]
<1>1. CallsInside \subseteq Docs!CallSet
  BY DEF Docs!CallSet, InEffect
<1>2. [c EXCEPT !.at = a] \in CallsInside
  OBVIOUS
<1>3. [c EXCEPT !.authorized = TRUE] \in CallsInside /\ [c EXCEPT !.authorized = FALSE] \in CallsInside
  OBVIOUS
<1>4. [c EXCEPT !.at = a, !.authorized = FALSE] \in CallsInside
  OBVIOUS
<1>5. [c EXCEPT !.at = a, !.rev = Len(journal)] \in CallsInside
  OBVIOUS
<1> QED BY <1>1, <1>2, <1>3, <1>4, <1>5

\* The types after a step of one call.
LEMMA DocTypes ==
    ASSUME DocTyped, NEW s \in Sessions, NEW next \in Docs!CallSet, call' = [call EXCEPT ![s] = next],
           journal' \in Seq(Docs!RowSet), mutex' \in Sessions \cup {Docs!Free},
           files' \in [Packages -> [Docs!Members -> {"absent", "torn", "exact"}]],
           refs' \in [Packages -> SUBSET Docs!Members],
           primary' \in Packages \cup {NoPackage, "foreign"},
           status' \in {"review", "pending", "implementing"}, assignee' \in {"requirements", "builder", "other"},
           UNCHANGED <<sources, reserved, touches>>
    PROVE  DocTyped'
<1>1. call' \in [Sessions -> Docs!CallSet] /\ \A r \in Sessions : call'[r] \in Docs!CallSet
  BY DEF DocTyped
<1>2. \A i \in DOMAIN journal' : journal'[i] \in Docs!RowSet
  OBVIOUS
<1> QED BY <1>1, <1>2 DEF DocTyped, Docs!DocumentsTypeOK

\* The same of a step that leaves the documents and the ticket.
LEMMA DocTypesRow ==
    ASSUME DocTyped, NEW s \in Sessions, NEW next \in Docs!CallSet, call' = [call EXCEPT ![s] = next],
           mutex' \in Sessions \cup {Docs!Free},
           journal' = journal \/ \E row \in Docs!RowSet : journal' = Append(journal, row),
           UNCHANGED <<sources, files, refs, primary, status, assignee, reserved, touches>>
    PROVE  DocTyped' /\ (journal' = journal \/ Len(journal') = Len(journal) + 1)
<1>1. journal \in Seq(Docs!RowSet) /\ Docs!DocumentsTypeOK
  BY DEF DocTyped
<1>2. journal' \in Seq(Docs!RowSet) /\ (journal' = journal \/ Len(journal') = Len(journal) + 1)
  BY <1>1, RowAppended
<1> QED BY <1>1, <1>2, DocTypes DEF Docs!DocumentsTypeOK

LEMMA DocAsks ==
    ASSUME DocInv, NEW s \in Sessions, NEW p \in Packages, NEW what \in {"capture", "revoke"},
           Docs!Ask(s, p, what)
    PROVE  DocInv'
<1> DEFINE next == [at |-> "asking", what |-> what, pkg |-> p, rev |-> Len(journal)]
<1>0. DocTyped /\ Len(journal) \in Nat /\ DOMAIN journal = 1..Len(journal)
  BY DocCallIs
<1>1. next \in Docs!CallSet /\ next.at = "asking" /\ next.pkg = p /\ next.rev = Len(journal) /\ next.what = what
  BY <1>0 DEF Docs!CallSet
<1>2. /\ call' = [call EXCEPT ![s] = next] /\ journal' = journal
      /\ UNCHANGED <<sources, files, refs, primary, status, assignee, reserved, mutex, touches>>
      /\ what = "revoke" => \E d \in Docs!Decisions(p) : Docs!Approved(p, d)
  BY DEF Docs!Ask, Docs!documentState
<1> HIDE DEF next
<1>3. DocTyped'
  BY <1>0, <1>1, <1>2, DocTypesRow DEF DocTyped, Docs!DocumentsTypeOK
<1>4. call'[s] = next
  BY <1>0, <1>2 DEF DocTyped
<1>5. Docs!Decisions(p) \subseteq Nat
  BY <1>0 DEF Docs!Decisions, Docs!Rows
<1>6. what = "revoke" => \E d \in Nat : Docs!Approved(p, d)'
  BY <1>2, <1>5, JournalSays
<1>7. CallHolds(s)'
  BY <1>0, <1>1, <1>2, <1>4, <1>6 DEF CallHolds, InEffect, Answering
<1> QED BY <1>1, <1>2, <1>3, <1>7, OthersStand

\* A call that ends, and lets the mutex go if it has it.
LEMMA DocEnds ==
    ASSUME DocInv, NEW s \in Sessions, Docs!Leave(s), mutex' \in {mutex, Docs!Free},
           \/ mutex \in {s, Docs!Free}
           \/ journal' = journal /\ mutex' = mutex,
           journal' = journal \/ \E row \in Docs!RowSet : journal' = Append(journal, row),
           UNCHANGED <<sources, files, refs, primary, status, assignee, reserved, touches>>
    PROVE  DocInv'
<1>0. DocTyped /\ Len(journal) \in Nat
  BY DocCallIs
<1>1. /\ call' = [call EXCEPT ![s] = Docs!Idle] /\ Docs!Idle \in Docs!CallSet
      /\ Docs!Idle.at = "idle"
  BY DEF Docs!Leave, Docs!CallSet, Docs!Idle
<1>2. mutex' \in Sessions \cup {Docs!Free}
  BY <1>0 DEF DocTyped, Docs!DocumentsTypeOK
<1>3. DocTyped' /\ (journal' = journal \/ Len(journal') = Len(journal) + 1)
  BY <1>0, <1>1, <1>2, DocTypesRow
<1>4. call'[s] = Docs!Idle
  BY <1>0, <1>1 DEF DocTyped
<1>5. CallHolds(s)'
  BY <1>1, <1>4 DEF CallHolds, InEffect
<1>6. CASE mutex \in {s, Docs!Free}
  BY <1>1, <1>3, <1>5, <1>6, AloneInside
<1>7. CASE journal' = journal /\ mutex' = mutex
  BY <1>1, <1>3, <1>5, <1>7, OthersStand
<1> QED BY <1>6, <1>7

LEMMA DocAnswers ==
    ASSUME DocInv, NEW s \in Sessions, NEW outcome \in {"approved", "rejected"}, Docs!Answer(s, outcome)
    PROVE  DocInv'
<1>0. /\ DocTyped /\ CallHolds(s) /\ call[s].at = "asking" /\ call[s].rev = Len(journal)
      /\ call[s] \in [at : {"asking"}, what : {"capture", "revoke"}, pkg : Packages, rev : Nat]
      /\ DOMAIN journal = 1..Len(journal)
  BY DocCallIs DEF Docs!Answer, Docs!AnswerUnlocked
<1>1. /\ mutex = Docs!Free /\ mutex' = mutex /\ Docs!Leave(s)
      /\ UNCHANGED <<sources, files, refs, primary, status, assignee, reserved, touches>>
  BY DEF Docs!Answer, Docs!AnswerUnlocked, Docs!documentState
<1>2. journal' = journal \/ \E row \in Docs!RowSet : journal' = Append(journal, row)
  <2>1. CASE call[s].what = "capture"
    <3>1. [kind |-> "decision", pkg |-> call[s].pkg, outcome |-> outcome] \in Docs!RowSet
      BY <1>0 DEF Docs!RowSet
    <3> QED BY <2>1, <3>1 DEF Docs!Answer, Docs!AnswerUnlocked, Docs!Append1
  <2>2. CASE call[s].what = "revoke"
    <3> DEFINE D == CHOOSE d \in Docs!Decisions(call[s].pkg) : Docs!Approved(call[s].pkg, d)
    <3>1. PICK d \in Nat : Docs!Approved(call[s].pkg, d)
      BY <1>0, <2>2 DEF CallHolds, Answering
    <3>2. d \in Docs!Decisions(call[s].pkg)
      BY <3>1 DEF Docs!Approved
    <3>3. D \in Docs!Decisions(call[s].pkg)
      BY <3>1, <3>2
    <3>4. D \in Nat
      BY <1>0, <3>3 DEF Docs!Decisions, Docs!Rows, DocTyped
    <3>5. journal' = journal \/ journal' = Append(journal, [kind |-> "revoked", pkg |-> call[s].pkg, decision |-> D])
      BY <2>2 DEF Docs!Answer, Docs!AnswerUnlocked, Docs!Append1
    <3> HIDE DEF D
    <3>6. [kind |-> "revoked", pkg |-> call[s].pkg, decision |-> D] \in Docs!RowSet
      BY <1>0, <3>4 DEF Docs!RowSet
    <3> QED BY <3>5, <3>6
  <2> QED BY <1>0, <2>1, <2>2
<1> QED BY <1>1, <1>2, DocEnds

LEMMA DocGivesUp ==
    ASSUME DocInv, NEW s \in Sessions, Docs!GiveUp(s) \/ Docs!Crash(s)
    PROVE  DocInv'
<1>1. CASE Docs!GiveUp(s)
  BY <1>1, DocEnds DEF Docs!GiveUp, Docs!documentState
<1>2. CASE Docs!Crash(s)
  BY <1>2, DocEnds DEF Docs!Crash, Docs!documentState
<1> QED BY <1>1, <1>2

\* A call inside an effect goes on: what it then has to hold.
LEMMA DocGoesOn ==
    ASSUME DocInv, NEW s \in Sessions, mutex \in {s, Docs!Free}, mutex' = s,
           NEW next \in Docs!CallSet, call' = [call EXCEPT ![s] = next],
           journal' = journal \/ Len(journal') = Len(journal) + 1, DocTyped',
           next.at \in InEffect,
           next.at = "file" \/ (next.at = "effect" /\ next.authorized) =>
             Docs!Approved(next.pkg, next.decision)',
           next.at \in {"effect", "file", "result"} =>
             Docs!Pending' = {Docs!Operation(next.op, next.pkg, next.decision)},
           next.at = "result" => Docs!Proven(next.op, next.pkg)'
    PROVE  DocInv'
<1>1. call'[s] = next
  BY DEF DocInv, DocTyped
<1>2. Docs!Mine(s)' = Docs!Operation(next.op, next.pkg, next.decision)
  BY <1>1 DEF Docs!Mine, Docs!Operation
<1>3. CallHolds(s)'
  BY <1>1, <1>2 DEF CallHolds, InEffect
<1> QED BY <1>3, AloneInside

LEMMA DocEnters ==
    ASSUME DocInv, NEW s \in Sessions, NEW op \in Docs!Effects, NEW p \in Packages, NEW d \in DOMAIN journal,
           Docs!EnterEffect(s, op, p, d)
    PROVE  DocInv'
<1> DEFINE next == [at |-> "read", op |-> op, pkg |-> p, decision |-> d, rev |-> Len(journal), authorized |-> FALSE]
<1>0. DocTyped /\ Len(journal) \in Nat /\ DOMAIN journal = 1..Len(journal) /\ d \in Nat
  BY DocCallIs
<1>1. next \in Docs!CallSet /\ next.at = "read"
  BY <1>0 DEF Docs!CallSet
<1>2. /\ call' = [call EXCEPT ![s] = next] /\ journal' = journal /\ mutex = Docs!Free /\ mutex' = s
      /\ UNCHANGED <<sources, files, refs, primary, status, assignee, reserved, touches>>
  BY DEF Docs!EnterEffect, Docs!documentState
<1> HIDE DEF next
<1>3. DocTyped'
  BY <1>0, <1>1, <1>2, DocTypesRow
<1> QED BY <1>1, <1>2, <1>3, DocGoesOn DEF InEffect

LEMMA DocSettles ==
    ASSUME DocInv, NEW s \in Sessions,
           Docs!Settle(s) \/ Docs!Record(s) \/ Docs!Fail(s)
    PROVE  DocInv'
<1>0. call[s].at \in InEffect /\ mutex = s /\ Docs!Mine(s) \in Docs!OperationSet
  BY DocCallIs DEF Docs!Settle, Docs!Record, Docs!Fail, InEffect
<1>1. /\ Docs!Leave(s) /\ mutex' = Docs!Free
      /\ UNCHANGED <<sources, files, refs, primary, status, assignee, reserved, touches>>
  BY DEF Docs!Settle, Docs!Record, Docs!Fail, Docs!Release, Docs!documentState
<1> DEFINE row(completed) == [kind |-> "result", operation |-> Docs!Mine(s), completed |-> completed]
<1>2. row(TRUE) \in Docs!RowSet /\ row(FALSE) \in Docs!RowSet
  BY <1>0 DEF Docs!RowSet
<1>3. journal' \in {journal, Append(journal, row(TRUE)), Append(journal, row(FALSE))}
  BY DEF Docs!Settle, Docs!Record, Docs!Fail, Docs!Append1
<1> HIDE DEF row
<1> QED BY <1>0, <1>1, <1>2, <1>3, DocEnds

LEMMA DocIntends ==
    ASSUME DocInv, NEW s \in Sessions, Docs!Intend(s)
    PROVE  DocInv'
<1>0. call[s].at = "read"
  BY DEF Docs!Intend
<1>1. /\ DocTyped /\ mutex = s /\ Docs!Mine(s) \in Docs!OperationSet
      /\ journal \in Seq(Docs!RowSet) /\ Len(journal) \in Nat
      /\ call[s] \in [at : InEffect, op : Docs!Effects, pkg : Packages,
                      decision : Nat, rev : Nat, authorized : BOOLEAN]
  BY <1>0, DocCallIs DEF InEffect
<1>n. PICK next : next = [call[s] EXCEPT !.at = "effect"]
  BY Zenon
<1>r. PICK row : row = [kind |-> "intent", operation |-> Docs!Mine(s)]
  BY Zenon
<1>2. next \in Docs!CallSet
  BY <1>1, <1>n, DocMoves DEF InEffect
<1>3. /\ next.at = "effect" /\ next.op = call[s].op /\ next.pkg = call[s].pkg /\ next.decision = call[s].decision
  BY <1>1, <1>n
<1>4. row \in Docs!RowSet /\ row.kind = "intent" /\ row.operation = Docs!Mine(s)
  BY <1>1, <1>r DEF Docs!RowSet
<1>5. /\ call' = [call EXCEPT ![s] = next] /\ mutex' = mutex
      /\ UNCHANGED <<sources, files, refs, primary, status, assignee, reserved, touches>>
      /\ Docs!Approved(call[s].pkg, call[s].decision)
      /\ Docs!Pending \subseteq {Docs!Mine(s)} /\ Docs!Mine(s) \notin Docs!Done
      /\ IF Docs!Pending # {} THEN journal' = journal ELSE journal' = Append(journal, row)
  BY <1>n, <1>r DEF Docs!Intend, Docs!documentState, Docs!Authorized, Docs!MayGoOn,
     Docs!Settled, Docs!Append1
<1>6. DocTyped' /\ (journal' = journal \/ Len(journal') = Len(journal) + 1)
  BY <1>1, <1>2, <1>4, <1>5, DocTypesRow DEF DocTyped, Docs!DocumentsTypeOK
<1>7. Docs!Mine(s) = Docs!Operation(next.op, next.pkg, next.decision)
  BY <1>3 DEF Docs!Mine
<1>8. Docs!Approved(next.pkg, next.decision)
  BY <1>3, <1>5
<1>9. Docs!Approved(next.pkg, next.decision)' /\ Docs!Pending' = {Docs!Operation(next.op, next.pkg, next.decision)}
  <2>1. CASE Docs!Pending # {}
    BY <1>5, <1>7, <1>8, <2>1, JournalSays
  <2>2. CASE Docs!Pending = {}
    <3>1. journal' = Append(journal, row)
      BY <1>5, <2>2
    <3>2. Docs!Pending' = (Docs!Pending \cup {row.operation}) \ Docs!Done
      BY <1>1, <1>4, <3>1, OperationsMove
    <3>3. Docs!Approved(next.pkg, next.decision)'
      BY <1>1, <1>4, <1>8, <3>1, ApprovalsStand
    <3> QED BY <1>4, <1>5, <1>7, <2>2, <3>2, <3>3
  <2> QED BY <2>1, <2>2
<1> QED BY <1>1, <1>2, <1>3, <1>5, <1>6, <1>9, DocGoesOn DEF InEffect

\* A call that is announced writes, or is authorized to, or sees its effect.
LEMMA DocWrites ==
    ASSUME DocInv, NEW s \in Sessions, call[s].at \in {"effect", "file"},
           NEW next \in Docs!CallSet, call' = [call EXCEPT ![s] = next], next.at \in InEffect,
           next.op = call[s].op, next.pkg = call[s].pkg, next.decision = call[s].decision,
           next.at = "file" \/ (next.at = "effect" /\ next.authorized) =>
             Docs!Approved(next.pkg, next.decision),
           next.at = "result" => Docs!Proven(next.op, next.pkg)',
           UNCHANGED <<journal, sources, reserved, mutex, touches>>,
           files' \in [Packages -> [Docs!Members -> {"absent", "torn", "exact"}]],
           refs' \in [Packages -> SUBSET Docs!Members],
           primary' \in Packages \cup {NoPackage, "foreign"},
           status' \in {"review", "pending", "implementing"}, assignee' \in {"requirements", "builder", "other"}
    PROVE  DocInv'
<1>1. /\ DocTyped /\ mutex = s /\ Docs!Pending = {Docs!Mine(s)} /\ journal \in Seq(Docs!RowSet)
  BY DocCallIs DEF InEffect, CallHolds
<1>2. Docs!Mine(s) = Docs!Operation(next.op, next.pkg, next.decision)
  BY DEF Docs!Mine
<1>3. Docs!Pending' = {Docs!Operation(next.op, next.pkg, next.decision)}
  BY <1>1, <1>2, JournalSays
<1>4. next.at = "file" \/ (next.at = "effect" /\ next.authorized) => Docs!Approved(next.pkg, next.decision)'
  BY JournalSays
<1>5. DocTyped'
  BY <1>1, DocTypes
<1> QED BY <1>1, <1>3, <1>4, <1>5, DocGoesOn

LEMMA DocEffects ==
    ASSUME DocInv, NEW s \in Sessions,
           \/ \E m \in Docs!Members : \/ Docs!CreateFile(s, m) \/ Docs!WriteFile(s, m)
                                           \/ Docs!AddReference(s, m)
           \/ Docs!Authorize(s) \/ Docs!Promote(s) \/ Docs!QueueTicket(s) \/ Docs!Observe(s)
    PROVE  DocInv'
<1>0. call[s].at \in {"effect", "file"}
  BY DEF Docs!CreateFile, Docs!WriteFile, Docs!AddReference, Docs!Authorize, Docs!Promote,
     Docs!QueueTicket, Docs!Observe, Docs!Writing
<1>1. /\ DocTyped /\ CallHolds(s) /\ Docs!DocumentsTypeOK /\ Len(journal) \in Nat
      /\ call[s] \in [at : InEffect, op : Docs!Effects, pkg : Packages,
                      decision : Nat, rev : Nat, authorized : BOOLEAN]
  BY <1>0, DocCallIs DEF InEffect
<1>2. /\ files \in [Packages -> [Docs!Members -> {"absent", "torn", "exact"}]]
      /\ refs \in [Packages -> SUBSET Docs!Members] /\ primary \in Packages \cup {NoPackage, "foreign"}
      /\ status \in {"review", "pending", "implementing"} /\ assignee \in {"requirements", "builder", "other"}
      /\ call[s].pkg \in Packages
  BY <1>1 DEF Docs!DocumentsTypeOK
<1>3. CASE Docs!Authorize(s)
  <2>1. PICK next : next = [call[s] EXCEPT !.authorized = TRUE]
    BY Zenon
  <2>2. next \in Docs!CallSet
    BY <1>1, <2>1, DocMoves DEF InEffect
  <2>3. next.at = call[s].at /\ next.op = call[s].op /\ next.pkg = call[s].pkg /\ next.decision = call[s].decision
    BY <1>1, <2>1
  <2>4. /\ call' = [call EXCEPT ![s] = next] /\ call[s].at = "effect" /\ Docs!Approved(call[s].pkg, call[s].decision)
        /\ UNCHANGED <<journal, sources, files, refs, primary, status, assignee, reserved, mutex, touches>>
    BY <1>3, <2>1 DEF Docs!Authorize, Docs!Authorized, Docs!documentState
  <2> QED BY <1>0, <1>2, <2>2, <2>3, <2>4, DocWrites DEF InEffect
<1>4. CASE Docs!Observe(s)
  <2>1. PICK next : next = [call[s] EXCEPT !.at = "result", !.rev = Len(journal)]
    BY Zenon
  <2>2. next \in Docs!CallSet
    BY <1>1, <2>1, DocMoves DEF InEffect
  <2>3. next.at = "result" /\ next.op = call[s].op /\ next.pkg = call[s].pkg /\ next.decision = call[s].decision
    BY <1>1, <2>1
  <2>4. /\ call' = [call EXCEPT ![s] = next] /\ Docs!Proven(next.op, next.pkg)
        /\ UNCHANGED <<journal, sources, files, refs, primary, status, assignee, reserved, mutex, touches>>
    BY <1>4, <2>1, <2>3 DEF Docs!Observe, Docs!documentState
  <2>5. Docs!Proven(next.op, next.pkg)'
    BY <2>4, EffectsThere
  <2> QED BY <1>0, <1>2, <2>2, <2>3, <2>4, <2>5, DocWrites DEF InEffect
<1>5. ASSUME NEW m \in Docs!Members, Docs!CreateFile(s, m) PROVE DocInv'
  <2>1. PICK next : next = [call[s] EXCEPT !.at = "file"]
    BY Zenon
  <2>2. next \in Docs!CallSet
    BY <1>1, <2>1, DocMoves DEF InEffect
  <2>3. next.at = "file" /\ next.op = call[s].op /\ next.pkg = call[s].pkg /\ next.decision = call[s].decision
    BY <1>1, <2>1
  <2>4. /\ call' = [call EXCEPT ![s] = next] /\ call[s].at = "effect" /\ call[s].authorized
        /\ files' = [files EXCEPT ![call[s].pkg][m] = "torn"]
        /\ UNCHANGED <<journal, sources, refs, primary, status, assignee, reserved, mutex, touches>>
    BY <1>5, <2>1 DEF Docs!CreateFile, Docs!Writing
  <2>5. Docs!Approved(next.pkg, next.decision)
    BY <1>1, <2>3, <2>4 DEF CallHolds
  <2>6. files' \in [Packages -> [Docs!Members -> {"absent", "torn", "exact"}]]
    BY <1>2, <2>4
  <2> QED BY <1>0, <1>2, <2>2, <2>3, <2>4, <2>5, <2>6, DocWrites DEF InEffect
<1>6. ASSUME NEW m \in Docs!Members, Docs!WriteFile(s, m) PROVE DocInv'
  <2>1. PICK next : next = [call[s] EXCEPT !.at = "effect", !.authorized = FALSE]
    BY Zenon
  <2>2. next \in Docs!CallSet
    BY <1>1, <2>1, DocMoves DEF InEffect
  <2>3. next.at = "effect" /\ ~next.authorized /\ next.op = call[s].op /\ next.pkg = call[s].pkg /\ next.decision = call[s].decision
    BY <1>1, <2>1
  <2>4. /\ call' = [call EXCEPT ![s] = next]
        /\ files' = [files EXCEPT ![call[s].pkg][m] = "exact"]
        /\ UNCHANGED <<journal, sources, refs, primary, status, assignee, reserved, mutex, touches>>
    BY <1>1, <1>6, <2>1 DEF Docs!WriteFile
  <2>6. files' \in [Packages -> [Docs!Members -> {"absent", "torn", "exact"}]]
    BY <1>2, <2>4
  <2> QED BY <1>0, <1>2, <2>2, <2>3, <2>4, <2>6, DocWrites DEF InEffect
<1>7. CASE Docs!Promote(s) \/ Docs!QueueTicket(s) \/ \E m \in Docs!Members : Docs!AddReference(s, m)
  <2>1. PICK next : next = [call[s] EXCEPT !.authorized = FALSE]
    BY Zenon
  <2>2. next \in Docs!CallSet
    BY <1>1, <2>1, DocMoves DEF InEffect
  <2>3. next.at = call[s].at /\ ~next.authorized /\ next.op = call[s].op /\ next.pkg = call[s].pkg /\ next.decision = call[s].decision
    BY <1>1, <2>1
  <2>4. /\ call' = [call EXCEPT ![s] = next] /\ call[s].at = "effect"
        /\ UNCHANGED <<journal, sources, files, reserved, mutex, touches>>
        /\ \/ primary' = call[s].pkg /\ UNCHANGED <<refs, status, assignee>>
           \/ status' = "pending" /\ assignee' = "builder" /\ UNCHANGED <<refs, primary>>
           \/ /\ \E m \in Docs!Members : refs' = [refs EXCEPT ![call[s].pkg] = refs[call[s].pkg] \cup {m}]
              /\ UNCHANGED <<primary, status, assignee>>
    BY <1>7, <2>1 DEF Docs!Promote, Docs!QueueTicket, Docs!AddReference, Docs!Writing, Docs!Wrote
  <2>5. refs' \in [Packages -> SUBSET Docs!Members]
    BY <1>2, <2>4
  <2>6. /\ primary' \in Packages \cup {NoPackage, "foreign"} /\ status' \in {"review", "pending", "implementing"}
        /\ assignee' \in {"requirements", "builder", "other"}
        /\ files' \in [Packages -> [Docs!Members -> {"absent", "torn", "exact"}]]
    BY <1>2, <2>4
  <2> QED BY <1>0, <2>2, <2>3, <2>4, <2>5, <2>6, DocWrites DEF InEffect
<1> QED BY <1>3, <1>4, <1>5, <1>6, <1>7

LEMMA DocKept ==
    ASSUME DocInv, Docs!DocumentsNext
    PROVE  DocInv'
<1>1. ASSUME NEW s \in Sessions, Docs!DocumentCall(s) PROVE DocInv'
  BY <1>1, DocAsks, DocAnswers, DocGivesUp, DocEnters, DocSettles, DocIntends, DocEffects DEF Docs!DocumentCall
<1> QED BY <1>1, DocOthers DEF Docs!DocumentsNext

LEMMA DocStarts ==
    ASSUME Docs!DocumentsInit
    PROVE  DocInv
<1> DEFINE first == CHOOSE p \in Published : TRUE
<1>1. Published # {} => first \in Packages
  BY DocConstants
<1> HIDE DEF first
<1>2. journal \in Seq(Docs!RowSet)
  <2>1. CASE Published = {}
    BY <2>1 DEF Docs!DocumentsInit, Docs!History
  <2>2. CASE Published # {}
    <3>1. Docs!Operation("publish", first, 2) \in Docs!OperationSet
      BY <1>1, <2>2 DEF Docs!Operation, Docs!OperationSet, Docs!Effects
    <3> DEFINE o == Docs!Operation("publish", first, 2)
    <3>2. journal = << [kind |-> "frozen", pkg |-> first],
                       [kind |-> "decision", pkg |-> first, outcome |-> "approved"],
                       [kind |-> "intent", operation |-> o],
                       [kind |-> "result", operation |-> o, completed |-> TRUE] >>
      BY <2>2 DEF Docs!DocumentsInit, Docs!History, Docs!Publication, first
    <3> HIDE DEF o
    <3>3. /\ [kind |-> "frozen", pkg |-> first] \in Docs!RowSet
          /\ [kind |-> "decision", pkg |-> first, outcome |-> "approved"] \in Docs!RowSet
      BY <1>1, <2>2 DEF Docs!RowSet
    <3>4. /\ [kind |-> "intent", operation |-> o] \in Docs!RowSet
          /\ [kind |-> "result", operation |-> o, completed |-> TRUE] \in Docs!RowSet
      BY <3>1 DEF Docs!RowSet, o
    <3> QED BY <3>2, <3>3, <3>4
  <2> QED BY <2>1, <2>2
<1>3. call \in [Sessions -> Docs!CallSet] /\ \A s \in Sessions : call[s].at = "idle"
  BY DEF Docs!DocumentsInit, Docs!CallSet, Docs!Idle
<1>4. /\ \A i \in DOMAIN journal : journal[i] \in Docs!RowSet
      /\ \A s \in Sessions : call[s] \in Docs!CallSet
  BY <1>2, <1>3
<1>5. primary \in Packages \cup {NoPackage, "foreign"}
  BY <1>1 DEF Docs!DocumentsInit, first
<1>6. /\ sources \in [Packages -> BOOLEAN] /\ reserved \in BOOLEAN /\ touches \in Nat
      /\ files \in [Packages -> [Docs!Members -> {"absent", "torn", "exact"}]]
      /\ refs \in [Packages -> SUBSET Docs!Members]
      /\ status \in {"review", "pending", "implementing"} /\ assignee \in {"requirements", "builder", "other"}
      /\ mutex \in Sessions \cup {Docs!Free}
  BY DEF Docs!DocumentsInit
<1>7. DocTyped
  BY <1>2, <1>3, <1>4, <1>5, <1>6 DEF DocTyped, Docs!DocumentsTypeOK
<1> QED BY <1>3, <1>7 DEF DocInv, CallHolds, InEffect

\* A package's journal says completed only of what is there: each step of a call.
LEMMA DocResults ==
    ASSUME DocInv, Docs!DocumentsNext
    PROVE  Docs!ResultProven
<1>0. journal \in Seq(Docs!RowSet)
  BY DEF DocInv, DocTyped
<1>1. CASE journal' = journal
  BY <1>1, JournalSays DEF Docs!ResultProven
<1>2. ASSUME NEW row \in Docs!RowSet, row.kind # "result", journal' = Append(journal, row)
      PROVE  Docs!ResultProven
  <2>1. Docs!Done' = Docs!Done
    BY <1>0, <1>2, OperationsMove
  <2> QED BY <2>1 DEF Docs!ResultProven
<1>3. ASSUME NEW s \in Sessions, Docs!Settle(s) \/ Docs!Record(s) \/ Docs!Fail(s)
      PROVE  Docs!ResultProven
  <2>1. Docs!Mine(s) \in Docs!OperationSet /\ CallHolds(s)
    BY <1>3, DocCallIs DEF Docs!Settle, Docs!Record, Docs!Fail, InEffect
  <2>2. PICK o : o = Docs!Mine(s)
    OBVIOUS
  <2>3. o.op = call[s].op /\ o.pkg = call[s].pkg
    BY <2>2 DEF Docs!Mine, Docs!Operation
  <2>4. UNCHANGED <<files, refs, primary, status, assignee>>
    BY <1>3 DEF Docs!Settle, Docs!Record, Docs!Fail, Docs!documentState
  <2>5. \/ journal' = journal
        \/ journal' = Append(journal, [kind |-> "result", operation |-> o, completed |-> FALSE])
        \/ /\ journal' = Append(journal, [kind |-> "result", operation |-> o, completed |-> TRUE])
           /\ Docs!Proven(o.op, o.pkg)
    BY <1>3, <2>1, <2>2, <2>3
       DEF Docs!Settle, Docs!Record, Docs!Fail, Docs!Append1, CallHolds
  <2>6. /\ [kind |-> "result", operation |-> o, completed |-> FALSE] \in Docs!RowSet
        /\ [kind |-> "result", operation |-> o, completed |-> TRUE] \in Docs!RowSet
    BY <2>1, <2>2 DEF Docs!RowSet
  <2>7. journal' = Append(journal, [kind |-> "result", operation |-> o, completed |-> FALSE]) =>
          Docs!Done' = Docs!Done
    BY <1>0, <2>6, OperationsMove
  <2>8. journal' = Append(journal, [kind |-> "result", operation |-> o, completed |-> TRUE]) =>
          Docs!Done' = Docs!Done \cup {o}
    BY <1>0, <2>6, OperationsMove
  <2>9. Docs!Proven(o.op, o.pkg) => Docs!Proven(o.op, o.pkg)'
    BY <2>4, EffectsThere
  <2> QED BY <1>1, <2>5, <2>7, <2>8, <2>9 DEF Docs!ResultProven
<1>4. ASSUME NEW p \in Packages, Docs!Freeze(p) PROVE Docs!ResultProven
  <2>1. [kind |-> "frozen", pkg |-> p] \in Docs!RowSet
    BY DEF Docs!RowSet
  <2> QED BY <1>2, <1>4, <2>1 DEF Docs!Freeze, Docs!Append1
<1>5. ASSUME NEW s \in Sessions, NEW outcome \in {"approved", "rejected"}, Docs!Answer(s, outcome)
      PROVE  Docs!ResultProven
  <2>1. /\ CallHolds(s) /\ call[s].at = "asking" /\ call[s].rev = Len(journal)
        /\ call[s] \in [at : {"asking"}, what : {"capture", "revoke"}, pkg : Packages, rev : Nat]
        /\ DOMAIN journal = 1..Len(journal)
    BY <1>5, DocCallIs DEF Docs!Answer, Docs!AnswerUnlocked
  <2>2. CASE journal' = Append(journal, [kind |-> "decision", pkg |-> call[s].pkg, outcome |-> outcome])
    <3>1. [kind |-> "decision", pkg |-> call[s].pkg, outcome |-> outcome] \in Docs!RowSet
      BY <2>1 DEF Docs!RowSet
    <3> QED BY <1>2, <2>2, <3>1
  <2>3. CASE /\ call[s].what = "revoke"
             /\ journal' = Append(journal, [kind |-> "revoked", pkg |-> call[s].pkg,
                  decision |-> CHOOSE d \in Docs!Decisions(call[s].pkg) : Docs!Approved(call[s].pkg, d)])
    <3> DEFINE D == CHOOSE d \in Docs!Decisions(call[s].pkg) : Docs!Approved(call[s].pkg, d)
    <3>1. PICK d \in Nat : Docs!Approved(call[s].pkg, d)
      BY <2>1, <2>3 DEF CallHolds, Answering
    <3>2. d \in Docs!Decisions(call[s].pkg)
      BY <3>1 DEF Docs!Approved
    <3>3. D \in Docs!Decisions(call[s].pkg)
      BY <3>1, <3>2
    <3>4. D \in Nat
      BY <2>1, <3>3 DEF Docs!Decisions, Docs!Rows
    <3>5. journal' = Append(journal, [kind |-> "revoked", pkg |-> call[s].pkg, decision |-> D])
      BY <2>3
    <3> HIDE DEF D
    <3>6. [kind |-> "revoked", pkg |-> call[s].pkg, decision |-> D] \in Docs!RowSet
      BY <2>1, <3>4 DEF Docs!RowSet
    <3> QED BY <1>2, <3>5, <3>6
  <2>4. call[s].what \in {"capture", "revoke"}
    BY <2>1
  <2> QED BY <1>1, <1>5, <2>2, <2>3, <2>4 DEF Docs!Answer, Docs!AnswerUnlocked, Docs!Append1
<1>6. ASSUME NEW s \in Sessions, Docs!Intend(s) PROVE Docs!ResultProven
  <2>1. Docs!Mine(s) \in Docs!OperationSet
    BY <1>6, DocCallIs DEF Docs!Intend, InEffect
  <2>2. [kind |-> "intent", operation |-> Docs!Mine(s)] \in Docs!RowSet
    BY <2>1 DEF Docs!RowSet
  <2>3. journal' = journal \/ journal' = Append(journal, [kind |-> "intent", operation |-> Docs!Mine(s)])
    BY <1>6 DEF Docs!Intend, Docs!Append1
  <2> QED BY <1>1, <1>2, <2>2, <2>3
<1>7. ASSUME NEW s \in Sessions, Docs!DocumentCall(s) PROVE Docs!ResultProven
  <2>1. \/ journal' = journal \/ Docs!Intend(s)
        \/ Docs!Settle(s) \/ Docs!Record(s) \/ Docs!Fail(s)
        \/ \E outcome \in {"approved", "rejected"} : Docs!Answer(s, outcome)
    BY <1>7 DEF Docs!DocumentCall, Docs!Ask, Docs!GiveUp, Docs!EnterEffect, Docs!Authorize,
       Docs!CreateFile, Docs!WriteFile, Docs!AddReference, Docs!Promote, Docs!QueueTicket,
       Docs!Observe, Docs!Crash
  <2> QED BY <1>1, <1>3, <1>5, <1>6, <2>1
<1>8. CASE Docs!TouchTicket \/ Docs!Reserve \/ \E p \in Packages : Docs!Draft(p)
  BY <1>1, <1>8 DEF Docs!TouchTicket, Docs!TouchUnlocked, Docs!Reserve, Docs!Draft
<1> QED BY <1>4, <1>7, <1>8 DEF Docs!DocumentsNext

DocHolds == part = "documents" => DocInv

LEMMA DocStepsKeep == DocHolds /\ [TicketsNext]_ticketsVars => DocHolds'
<1> SUFFICES ASSUME DocHolds, [TicketsNext]_ticketsVars, part' = "documents"
             PROVE  DocInv'
  BY DEF DocHolds
<1>1. CASE DocumentsStep
  BY <1>1, DocKept DEF DocumentsStep, DocHolds
<1>2. CASE UNCHANGED ticketsVars
  <2>1. UNCHANGED <<part, documentVars>>
    BY <1>2 DEF ticketsVars
  <2>2. DocInv /\ UNCHANGED <<call, mutex, journal, sources, files, refs, primary, status, assignee, reserved, touches>>
    BY <2>1 DEF documentVars, DocHolds
  <2>3. DocTyped'
    BY <2>2 DEF DocInv, DocTyped, Docs!DocumentsTypeOK
  <2> QED BY <2>2, <2>3, CallsStand
<1>3. CASE BranchStep \/ WorkflowStep \/ StoreStep \/ PreparedStep \/ SignalStep \/ ReportsStep \/ DeploysStep
  BY <1>3 DEF BranchStep, WorkflowStep, StoreStep, PreparedStep, SignalStep, ReportsStep, DeploysStep
<1> QED BY <1>1, <1>2, <1>3 DEF TicketsNext

-----------------------------------------------------------------------------
(* The phase reports.                                                      *)

ReportRows == [id : Captures, proof : {"some", "full"}, attempt : Nat, seen : [tree : Nat, journal : Nat]]
Views == [of : Nat, app : Reps!Apps \cup {"none"}]
Listings == [reports : SUBSET Nat, deliveries : SUBSET Nat, notes : SUBSET Nat, readable : BOOLEAN]
Pages == {Reps!Absent} \cup [is : {"linked", "whole", "edited"}, of : Nat]
Stands == {"whole", "edited"}
Nexts == {"settle", "published", "answer", "ask", "evidence"}

Settlers == [at : {"verify", "index", "deliver"}, of : Nat, given : SUBSET Nat, next : Nexts,
             app : Reps!Apps \cup {"none"}]
Updaters == [at : {"compare", "rename", "readback"}, of : Nat, given : SUBSET Nat, next : Nexts,
             app : Reps!Apps \cup {"none"}, before : Listings, after : Listings]
Capturing == [at : {"capture"}, id : Captures, proof : {"some", "full"}, attempt : Nat,
              seen : [tree : Nat, journal : Nat]]
Publishing == [at : {"write", "unlink"}, of : Nat, file : 1..5]
Askers == [at : {"ask", "evidence"}, of : Nat, app : Reps!Apps \cup {"none"}]
ToolCalls ==
    {Reps!Idle} \cup Capturing \cup [at : {"key"}, id : Captures] \cup Publishing \cup Settlers
    \cup Updaters \cup [at : {"receipt"}, of : Nat] \cup Askers

RepTyped ==
    /\ entitled \in BOOLEAN /\ worktree \in [tree : Nat, journal : Nat]
    /\ reports \in Seq(ReportRows) /\ Len(reports) <= MaxReports /\ keyed \in [Captures -> 0..Len(reports)]
    /\ directories \in [1..MaxReports -> [1..5 -> Pages]]
    /\ index \in Listings /\ observed \in Seq(Views) /\ kept \subseteq 0..MaxChances

\* The files of an attempt stand, all of them or those before the one that is written.
Stood(i, n) == \A f \in 1..n : directories[i][f].is \in Stands
Backed(i) == Stood(i, 5)

\* Deliveries of listed reports, one for each application.
Honest(D, listing) ==
    /\ D \subseteq 1..Len(observed) /\ \A k \in D : observed[k].of \in listing
    /\ \A k, l \in D : observed[k] = observed[l] => k = l

\* What the records, the files and the owner's Markdown say of one another.
RepBooks ==
    /\ RepTyped
    /\ \A i \in 1..Len(reports) : reports[i].attempt = i
    /\ \A c \in Captures : keyed[c] # 0 => reports[keyed[c]].id = c
    /\ \A a \in 1..MaxReports, f \in 1..5 : directories[a][f] # Reps!Absent => directories[a][f].of = a
    /\ \A a \in 1..MaxReports : directories[a][5] # Reps!Absent => Stood(a, 4)
    /\ index.reports \subseteq 1..Len(reports) /\ \A i \in index.reports : Backed(i)
    /\ Honest(index.deliveries, index.reports)
    /\ receipts \subseteq index.reports /\ kept \subseteq index.notes

\* What a call may rely on at the place where it is.
Relies(r) ==
    /\ r \in ToolCalls
    /\ r.at = "capture" => r.attempt = Len(reports) + 1 /\ r.attempt <= MaxReports
    /\ r.at = "key" => Len(reports) >= 1 /\ reports[Len(reports)].id = r.id
    /\ r.at \in {"write", "unlink"} => r.of \in 1..Len(reports) /\ Stood(r.of, r.file - 1)
    /\ r.at \in {"verify", "index", "compare", "rename"} => r.of \in 1..Len(reports)
    /\ r.at \in {"index", "compare", "rename"} => Backed(r.of)
    /\ r.at \in {"verify", "index", "deliver", "compare", "rename", "readback"} =>
         r.given \subseteq 1..Len(observed)
    /\ r.at \in {"deliver", "readback", "receipt", "ask", "evidence"} => r.of \in index.reports
    /\ r.at \in {"compare", "rename"} =>
         /\ r.after.reports = index.reports \cup {r.of}
         /\ index.deliveries \subseteq r.after.deliveries /\ Honest(r.after.deliveries, r.after.reports)
         /\ r.after.notes = r.before.notes
    /\ r.at = "rename" => kept \subseteq r.after.notes

Spent == used \in [events : 0..MaxChances, asked : Nat]

\* The inductive invariant behind the reports' part of DocumentsSafe.
RepInv == RepBooks /\ Relies(toolCall) /\ Reps!ToldTrue /\ Spent

LEMMA FiveFiles == Reps!Positions = 1..5
BY DEF Reps!Positions, Reps!Companions

LEMMA ReportBounds == MaxReports \in 1..32 /\ MaxChances \in Nat /\ MaxAsked \in Nat
BY ReportsConstants DEF Reps!ReportsAssumption

LEMMA ReportsNatural == MaxReports \in Nat
BY ReportBounds

\* What a page holds.
LEMMA PageIs ==
    ASSUME RepBooks, NEW a \in 1..MaxReports, NEW f \in 1..5
    PROVE  /\ directories[a][f] \in Pages
           /\ directories[a][f].is # "absent" <=> directories[a][f] # Reps!Absent
           /\ directories[a][f].is \in Stands => directories[a][f] \in [is : Stands, of : {a}]
<1>1. directories[a][f] \in Pages
  BY DEF RepBooks, RepTyped
<1>2. directories[a][f].is # "absent" <=> directories[a][f] # Reps!Absent
  BY <1>1 DEF Pages, Reps!Absent
<1>3. directories[a][f] # Reps!Absent => directories[a][f].of = a
  BY DEF RepBooks
<1>4. directories[a][f].is \in Stands => directories[a][f] \in [is : {"linked", "whole", "edited"}, of : Nat]
  BY <1>1 DEF Pages, Reps!Absent, Stands
<1>5. directories[a][f].is \in Stands => directories[a][f].of = a
  BY <1>2, <1>3 DEF Stands
<1> QED BY <1>1, <1>2, <1>4, <1>5 DEF Stands

LEMMA RepMeans == RepInv => Reps!ReportsSafe
<1> SUFFICES ASSUME RepInv PROVE Reps!ReportsSafe
  OBVIOUS
<1>0. RepBooks /\ RepTyped /\ Len(reports) \in Nat /\ MaxReports \in Nat /\ \A i \in 1..Len(reports) : reports[i].attempt = i
  BY ReportBounds DEF RepInv, RepBooks, RepTyped
<1>1. Reps!ReportsTypeOK
  BY <1>0 DEF RepBooks, RepTyped, Honest, Reps!ReportsTypeOK
<1>2. Reps!AttemptsApart
  BY <1>0 DEF RepBooks, Reps!AttemptsApart
<1>3. Reps!ReceiptFileLast
  <2> SUFFICES ASSUME NEW a \in 1..MaxReports, directories[a][5].is # "absent", NEW f \in 1..4
               PROVE  directories[a][f].is \in {"whole", "edited"} /\ directories[a][f].of = directories[a][5].of
    BY DEF Reps!ReceiptFileLast
  <2>1. directories[a][5] # Reps!Absent
    BY <1>0, PageIs
  <2>2. directories[a][f].is \in Stands /\ directories[a][5].of = a
    BY <1>0, <2>1 DEF RepBooks, Stood
  <2>3. directories[a][f] \in [is : Stands, of : {a}]
    BY <1>0, <2>2, PageIs
  <2> QED BY <2>2, <2>3 DEF Stands
<1>4. Reps!IndexBacked
  <2>1. ASSUME NEW i \in index.reports, NEW f \in Reps!Positions
        PROVE  directories[reports[i].attempt][f] \in [is : {"whole", "edited"}, of : {i}]
    <3>1. i \in 1..Len(reports) /\ i \in 1..MaxReports /\ reports[i].attempt = i /\ f \in 1..5
      BY <1>0, FiveFiles DEF RepBooks, RepTyped
    <3>2. directories[i][f].is \in Stands
      BY <1>0, <3>1 DEF RepBooks, Backed, Stood
    <3>3. directories[i][f] \in [is : Stands, of : {i}]
      BY <1>0, <3>1, <3>2, PageIs
    <3> QED BY <3>1, <3>3 DEF Stands
  <2>2. /\ \A k \in index.deliveries : observed[k].of \in index.reports
        /\ \A k, l \in index.deliveries : observed[k] = observed[l] => k = l
    BY <1>0 DEF RepBooks, Honest
  <2> QED BY <2>1, <2>2 DEF Reps!IndexBacked
<1> QED BY <1>0, <1>1, <1>2, <1>3, <1>4 DEF Reps!ReportsSafe, Reps!NotesOutlive, RepInv, RepBooks

LEMMA RepStarts ==
    ASSUME Reps!ReportsInit
    PROVE  RepInv
<1>0. MaxReports \in Nat /\ MaxReports >= 1 /\ MaxChances \in Nat
  BY ReportBounds
<1>1. reports = <<>> /\ Len(reports) = 0 /\ observed = <<>> /\ Len(observed) = 0 /\ toolCall = Reps!Idle
  BY DEF Reps!ReportsInit
<1>2. directories = [a \in 1..MaxReports |-> [f \in 1..5 |-> Reps!Absent]]
  BY FiveFiles DEF Reps!ReportsInit
<1>3. RepTyped
  BY <1>0, <1>1, <1>2 DEF Reps!ReportsInit, RepTyped, Listings, Pages
<1>4. RepBooks
  BY <1>1, <1>2, <1>3 DEF Reps!ReportsInit, RepBooks, Honest, Stood, Backed
<1>5. Relies(toolCall)
  BY <1>1 DEF Relies, ToolCalls, Reps!Idle
<1>6. Reps!ToldTrue /\ Spent
  BY <1>0 DEF Reps!ReportsInit, Reps!ToldTrue, Reps!Silent, Spent
<1> QED BY <1>4, <1>5, <1>6 DEF RepInv

\* A call by the place where it is.
LEMMA ToolShape ==
    ASSUME NEW r \in ToolCalls
    PROVE  /\ r.at = "capture" => r \in Capturing
           /\ r.at = "key" => r \in [at : {"key"}, id : Captures]
           /\ r.at \in {"write", "unlink"} => r \in Publishing
           /\ r.at \in {"verify", "index", "deliver"} => r \in Settlers
           /\ r.at \in {"compare", "rename", "readback"} => r \in Updaters
           /\ r.at = "receipt" => r \in [at : {"receipt"}, of : Nat]
           /\ r.at \in {"ask", "evidence"} => r \in Askers
BY DEF ToolCalls, Reps!Idle, Capturing, Publishing, Settlers, Updaters, Askers

\* The books stand when no file, no record and no list is written.
LEMMA BooksStand ==
    ASSUME RepBooks, UNCHANGED <<reports, keyed, receipts, observed, directories, index, kept>>,
           entitled' \in BOOLEAN, worktree' \in [tree : Nat, journal : Nat]
    PROVE  RepBooks'
BY DEF RepBooks, RepTyped, Stood, Backed, Honest

\* What was told stays true while the lists and the records grow.
LEMMA ToldStands ==
    ASSUME Reps!ToldTrue, told' = told, index.reports \subseteq 1..Len(reports), Len(reports) \in Nat,
           Len(observed) \in Nat, index.deliveries \subseteq 1..Len(observed),
           index.reports \subseteq index'.reports, index.deliveries \subseteq index'.deliveries,
           \A i \in 1..Len(reports) : reports'[i] = reports[i],
           \A i \in 1..Len(observed) : observed'[i] = observed[i]
    PROVE  Reps!ToldTrue'
<1> SUFFICES ASSUME told.dependency \notin {"none", "source"}
             PROVE  /\ told.of \in index'.reports
                    /\ told.dependency = "available" =>
                         reports'[told.of].seen.tree = told.tree /\ reports'[told.of].proof = "full"
                    /\ told.debt = {} =>
                         \A app \in Reps!Apps : \E k \in index'.deliveries : observed'[k] = [of |-> told.of, app |-> app]
  BY DEF Reps!ToldTrue
<1>1. /\ told.of \in index.reports
      /\ told.dependency = "available" =>
           reports[told.of].seen.tree = told.tree /\ reports[told.of].proof = "full"
      /\ told.debt = {} =>
           \A app \in Reps!Apps : \E k \in index.deliveries : observed[k] = [of |-> told.of, app |-> app]
  BY DEF Reps!ToldTrue
<1>2. told.of \in index'.reports /\ reports'[told.of] = reports[told.of]
  BY <1>1
<1>3. \A k \in index.deliveries : k \in index'.deliveries /\ observed'[k] = observed[k]
  OBVIOUS
<1>4. told.dependency = "available" => reports'[told.of].seen.tree = told.tree /\ reports'[told.of].proof = "full"
  BY <1>1, <1>2
<1>5. told.debt = {} => \A app \in Reps!Apps : \E k \in index'.deliveries : observed'[k] = [of |-> told.of, app |-> app]
  BY <1>1, <1>3
<1> QED BY <1>2, <1>4, <1>5

\* Nothing was told that could be wrong.
LEMMA ToldNothing ==
    ASSUME told'.dependency \in {"none", "source"}
    PROVE  Reps!ToldTrue'
BY DEF Reps!ToldTrue

\* A step that moves only the call, and what it tells.
LEMMA RepMoves ==
    ASSUME RepInv, UNCHANGED <<entitled, worktree, reports, keyed, receipts, observed, directories, index, kept>>,
           Relies(toolCall)', Spent',
           told' = told \/ told'.dependency \in {"none", "source"} \/ Reps!ToldTrue'
    PROVE  RepInv'
<1>1. RepBooks /\ RepTyped
  BY DEF RepInv, RepBooks
<1>2. RepBooks'
  BY <1>1, BooksStand DEF RepTyped
<1>3. /\ index.reports \subseteq 1..Len(reports) /\ Len(reports) \in Nat /\ Len(observed) \in Nat
      /\ index.deliveries \subseteq 1..Len(observed)
  BY <1>1 DEF RepBooks, RepTyped, Honest
<1>4. told' = told => Reps!ToldTrue'
  BY <1>3, ToldStands DEF RepInv
<1> QED BY <1>2, <1>4, ToldNothing DEF RepInv

\* A call that has ended relies on nothing.
LEMMA NothingRelied == ASSUME toolCall' = Reps!Idle PROVE Relies(toolCall)'
BY DEF Relies, Reps!Idle, ToolCalls

LEMMA SpentMore ==
    ASSUME Spent, \/ used' = used
                  \/ Reps!Spends("asked")
                  \/ Reps!Spends("events") /\ used.events < MaxChances
    PROVE  Spent'
BY ReportBounds DEF Spent, Reps!Spends

LEMMA RepGoes ==
    ASSUME RepInv, NEW r, Relies(r), toolCall' = r,
           UNCHANGED <<entitled, worktree, reports, keyed, receipts, observed, directories, index, kept>>,
           \/ used' = used
           \/ Reps!Spends("asked")
           \/ Reps!Spends("events") /\ used.events < MaxChances,
           told' = told \/ told'.dependency \in {"none", "source"} \/ Reps!ToldTrue'
    PROVE  RepInv'
<1>1. Relies(toolCall)'
  BY DEF Relies, Stood, Backed, Honest
<1>2. Spent'
  BY SpentMore DEF RepInv
<1> QED BY <1>1, <1>2, RepMoves

LEMMA IdleRelied == Relies(Reps!Idle)
BY DEF Relies, Reps!Idle, ToolCalls

\* What the books say of the numbers of the records.
LEMMA Counted ==
    ASSUME RepBooks
    PROVE  /\ Len(reports) \in 0..MaxReports /\ Len(reports) \in Nat /\ Len(observed) \in Nat
           /\ reports \in Seq(ReportRows) /\ observed \in Seq(Views) /\ index \in Listings
           /\ directories \in [1..MaxReports -> [1..5 -> Pages]] /\ keyed \in [Captures -> 0..Len(reports)]
           /\ index.reports \subseteq 1..Len(reports) /\ receipts \subseteq index.reports
           /\ worktree \in [tree : Nat, journal : Nat] /\ entitled \in BOOLEAN
           /\ DOMAIN reports = 1..Len(reports) /\ DOMAIN observed = 1..Len(observed)
           /\ \A i \in 1..Len(reports) : reports[i] \in ReportRows
BY ReportBounds DEF RepBooks, RepTyped

LEMMA RepEnds ==
    ASSUME RepInv, \/ Reps!Stop
                   \/ \E c \in Captures, d \in Reps!Drafts : Reps!CaptureAgain(c, d)
                   \/ Reps!DeliverFails
    PROVE  RepInv'
<1> USE DEF Reps!World, Reps!Private, Reps!Public
<1>0. Relies(toolCall)
  BY DEF RepInv
<1>1. CASE Reps!Stop
  <2>1. toolCall' = Reps!Idle /\ told'.dependency = "none"
    BY <1>1 DEF Reps!Stop, Reps!Ends, Reps!Silent
  <2> QED BY <1>1, <2>1, IdleRelied, RepGoes DEF Reps!Stop
<1>2. ASSUME NEW c \in Captures, NEW d \in Reps!Drafts, Reps!CaptureAgain(c, d) PROVE RepInv'
  <2>1. told'.dependency \in {"none", "source"}
    BY <1>2 DEF Reps!CaptureAgain, Reps!Silent
  <2> QED BY <1>2, <2>1, IdleRelied, RepGoes DEF Reps!CaptureAgain
<1>3. CASE Reps!DeliverFails
  BY <1>3, IdleRelied, RepGoes DEF Reps!DeliverFails, Reps!Ends
<1> QED BY <1>1, <1>2, <1>3

LEMMA RepBegins ==
    ASSUME RepInv, \/ \E c \in Captures, p \in {"some", "full"} : Reps!Capture(c, p)
                   \/ \E i \in 1..Len(reports) : Reps!Publish(i) \/ \E d \in Reps!Sources : Reps!Settle(i, d)
                   \/ \E i \in 1..Len(reports), app \in Reps!Apps : Reps!Observe(i, app)
    PROVE  RepInv'
<1> USE DEF Reps!World, Reps!Private, Reps!Public
<1>0. /\ RepBooks /\ Len(reports) \in Nat /\ Len(observed) \in Nat /\ Reps!Silent.dependency = "none"
      /\ worktree \in [tree : Nat, journal : Nat] /\ MaxReports \in Nat
  BY Counted, ReportBounds DEF RepInv, Reps!Silent
<1>1. ASSUME NEW c \in Captures, NEW p \in {"some", "full"}, Reps!Capture(c, p) PROVE RepInv'
  <2>1. PICK r : r = [at |-> "capture", id |-> c, proof |-> p, attempt |-> Len(reports) + 1, seen |-> worktree]
    BY Zenon
  <2>2. r \in Capturing
    BY <1>0, <2>1 DEF Capturing
  <2>3. toolCall' = r /\ used' = used /\ told' = Reps!Silent /\ Len(reports) < MaxReports
    BY <1>1, <2>1 DEF Reps!Capture, Reps!Goes, Reps!NextAttempt
  <2>4. Relies(r)
    BY <1>0, <2>1, <2>2, <2>3 DEF Relies, ToolCalls
  <2> QED BY <1>0, <1>1, <2>3, <2>4, RepGoes DEF Reps!Capture
<1>2. ASSUME NEW i \in 1..Len(reports), Reps!Publish(i) PROVE RepInv'
  <2>1. PICK r : r = [at |-> "write", of |-> i, file |-> 1]
    BY Zenon
  <2>2. r \in Publishing
    BY <1>0, <2>1 DEF Publishing
  <2>3. Relies(r)
    BY <1>0, <2>1, <2>2 DEF Relies, ToolCalls, Stood
  <2> QED BY <1>0, <1>2, <2>1, <2>3, RepGoes DEF Reps!Publish
<1>3. ASSUME NEW i \in 1..Len(reports), NEW d \in Reps!Sources, NEW next \in Nexts,
             NEW app \in Reps!Apps \cup {"none"}, Reps!Ask(i, d, next, app)
      PROVE  RepInv'
  <2>1. PICK r : r = Reps!Settling(i, d, next, app)
    BY Zenon
  <2>2. r \in Settlers /\ r.at = "verify" /\ r.of = i /\ r.given = d /\ d \subseteq 1..Len(observed)
    BY <1>0, <2>1 DEF Settlers, Reps!Settling, Reps!Sources
  <2>3. Relies(r)
    BY <1>0, <2>2 DEF Relies, ToolCalls
  <2> QED BY <1>0, <1>3, <2>1, <2>3, RepGoes DEF Reps!Ask
<1>4. {} \in Reps!Sources /\ "answer" \in Nexts /\ "ask" \in Nexts
  BY DEF Reps!Sources, Nexts
<1> QED BY <1>1, <1>2, <1>3, <1>4 DEF Reps!Settle, Reps!Observe

\* What a call is at its place.
LEMMA ToolCallIs ==
    ASSUME RepInv
    PROVE  /\ RepBooks /\ Relies(toolCall) /\ toolCall \in ToolCalls
           /\ toolCall.at \in {"verify", "index", "deliver"} => toolCall \in Settlers
           /\ toolCall.at \in {"compare", "rename", "readback"} => toolCall \in Updaters
           /\ toolCall.at \in {"write", "unlink"} => toolCall \in Publishing
           /\ toolCall.at \in {"ask", "evidence"} => toolCall \in Askers
           /\ toolCall.at = "receipt" => toolCall.of \in Nat
BY ToolShape DEF RepInv, Relies

\* A listed report goes on to its deliveries, or back to be settled.
LEMMA AfterIndexRelied ==
    ASSUME RepBooks, NEW c \in Settlers \cup Updaters, c.of \in index.reports, c.given \subseteq 1..Len(observed)
    PROVE  Relies(Reps!AfterIndex(c))
<1>0. index.reports \subseteq 1..Len(reports) /\ Len(reports) \in Nat /\ Len(observed) \in Nat
  BY Counted
<1>1. c.of \in Nat /\ c.given \in SUBSET Nat /\ c.next \in Nexts /\ c.app \in Reps!Apps \cup {"none"}
  BY DEF Settlers, Updaters
<1>2. PICK r : r = Reps!AfterIndex(c)
  BY Zenon
<1>3. CASE c.next = "settle"
  <2>1. r = [at |-> "verify", of |-> c.of, given |-> {}, next |-> "published", app |-> "none"]
    BY <1>2, <1>3 DEF Reps!AfterIndex, Reps!Settling
  <2>2. r \in Settlers
    BY <1>1, <2>1 DEF Settlers, Nexts
  <2> QED BY <1>0, <1>2, <2>1, <2>2 DEF Relies, ToolCalls
<1>4. CASE c.next # "settle"
  <2>1. r = [at |-> "deliver", of |-> c.of, given |-> c.given, next |-> c.next, app |-> c.app]
    BY <1>2, <1>4 DEF Reps!AfterIndex, Reps!Settling
  <2>2. r \in Settlers
    BY <1>1, <2>1 DEF Settlers
  <2> QED BY <1>0, <1>2, <2>1, <2>2 DEF Relies, ToolCalls
<1> QED BY <1>3, <1>4

\* An update of the list: what it will say.
LEMMA UpdateRelied ==
    ASSUME RepBooks, toolCall \in Settlers, toolCall.of \in 1..Len(reports), Backed(toolCall.of),
           toolCall.given \subseteq 1..Len(observed), NEW D,
           index.deliveries \subseteq D, Honest(D, index.reports \cup {toolCall.of}),
           NEW after \in Listings, after.reports = index.reports \cup {toolCall.of}, after.deliveries = D,
           after.notes = index.notes
    PROVE  Relies(Reps!Update(after))
<1>0. index \in Listings
  BY Counted
<1>1. PICK r : r = Reps!Update(after)
  BY Zenon
<1>2. r = [at |-> "compare", of |-> toolCall.of, given |-> toolCall.given, next |-> toolCall.next,
           app |-> toolCall.app, before |-> index, after |-> after]
  BY <1>1 DEF Reps!Update
<1>3. r \in Updaters
  BY <1>0, <1>2 DEF Updaters, Settlers
<1>4. /\ r.at = "compare" /\ r.of = toolCall.of /\ r.given = toolCall.given /\ r.before = index /\ r.after = after
  BY <1>2
<1>5. Relies(r)
  BY <1>3, <1>4 DEF Relies, ToolCalls
<1> QED BY <1>1, <1>5

LEMMA RepVerifies ==
    ASSUME RepInv, Reps!Verify
    PROVE  RepInv'
<1> USE DEF Reps!World, Reps!Private, Reps!Public
<1>1. /\ RepBooks /\ Relies(toolCall) /\ toolCall \in Settlers /\ toolCall.at = "verify"
  BY ToolCallIs DEF Reps!Verify
<1>2. CASE Reps!Verified(toolCall) /\ Reps!Goes([toolCall EXCEPT !.at = "index"])
  <2>1. PICK r : r = [toolCall EXCEPT !.at = "index"]
    BY Zenon
  <2>2. r \in Settlers /\ r.at = "index" /\ r.of = toolCall.of /\ r.given = toolCall.given
    BY <1>1, <2>1 DEF Settlers
  <2>3. toolCall.of \in 1..Len(reports) /\ toolCall.of \in 1..MaxReports /\ reports[toolCall.of].attempt = toolCall.of
    BY <1>1, Counted, ReportBounds DEF Relies, RepBooks
  <2>4. \A f \in 1..5 : directories[toolCall.of][f] = [is |-> "whole", of |-> toolCall.of]
    BY <1>2, <2>3, FiveFiles DEF Reps!Verified, Reps!Same, Reps!Page, Reps!Directory
  <2>5. Backed(toolCall.of)
    BY <2>4 DEF Backed, Stood, Stands
  <2>6. Relies(r)
    BY <1>1, <2>2, <2>3, <2>5 DEF Relies, ToolCalls
  <2> QED BY <1>2, <2>1, <2>6, RepGoes DEF Reps!Verify, Reps!Goes
<1>3. CASE Reps!Ends /\ used' = used
  BY <1>3, IdleRelied, RepGoes DEF Reps!Verify, Reps!Ends
<1> QED BY <1>2, <1>3 DEF Reps!Verify

LEMMA RepIndexes ==
    ASSUME RepInv, Reps!Index
    PROVE  RepInv'
<1> USE DEF Reps!World, Reps!Private, Reps!Public
<1>1. /\ RepBooks /\ Relies(toolCall) /\ toolCall \in Settlers /\ toolCall.at = "index"
      /\ toolCall.of \in 1..Len(reports) /\ Backed(toolCall.of) /\ toolCall.given \subseteq 1..Len(observed)
      /\ UNCHANGED <<entitled, worktree, reports, keyed, receipts, observed, directories, index, kept, told>>
  BY ToolCallIs DEF Reps!Index, Relies
<1>2. CASE Reps!Ends /\ used' = used
  BY <1>1, <1>2, IdleRelied, RepGoes DEF Reps!Ends
<1>3. CASE toolCall.of \in index.reports /\ Reps!Goes(Reps!AfterIndex(toolCall))
  <2>1. PICK r : r = Reps!AfterIndex(toolCall)
    BY Zenon
  <2>2. Relies(r)
    BY <1>1, <1>3, <2>1, AfterIndexRelied
  <2> QED BY <1>1, <1>3, <2>1, <2>2, RepGoes DEF Reps!Goes
<1>4. CASE Reps!Goes(Reps!Update([index EXCEPT !.reports = @ \cup {toolCall.of}]))
  <2>1. PICK after : after = [index EXCEPT !.reports = index.reports \cup {toolCall.of}]
    BY Zenon
  <2>2. index \in Listings /\ toolCall.of \in Nat
    BY <1>1, Counted DEF Settlers
  <2>3. after \in Listings /\ after.reports = index.reports \cup {toolCall.of} /\ after.deliveries = index.deliveries
        /\ after.notes = index.notes
    BY <2>1, <2>2 DEF Listings
  <2>4. Honest(index.deliveries, index.reports \cup {toolCall.of})
    BY <1>1 DEF RepBooks, Honest
  <2>5. Relies(Reps!Update(after))
    BY <1>1, <2>3, <2>4, UpdateRelied
  <2>6. PICK r : r = Reps!Update(after)
    BY Zenon
  <2>7. toolCall' = r /\ used' = used
    BY <1>4, <2>1, <2>6 DEF Reps!Goes
  <2> QED BY <1>1, <2>5, <2>6, <2>7, RepGoes
<1> QED BY <1>2, <1>3, <1>4 DEF Reps!Index, Reps!Goes

LEMMA RepCompares ==
    ASSUME RepInv, Reps!Compare \/ Reps!Readback
    PROVE  RepInv'
<1> USE DEF Reps!World, Reps!Private, Reps!Public
<1>1. /\ RepBooks /\ Relies(toolCall) /\ toolCall \in Updaters /\ toolCall.at \in {"compare", "readback"}
      /\ UNCHANGED <<entitled, worktree, reports, keyed, receipts, observed, directories, index, kept, told>>
  BY ToolCallIs DEF Reps!Compare, Reps!Readback
<1>2. CASE Reps!Ends /\ used' = used
  BY <1>1, <1>2, IdleRelied, RepGoes DEF Reps!Ends
<1>3. CASE toolCall.at = "compare" /\ Reps!Unedited /\ Reps!Goes([toolCall EXCEPT !.at = "rename"])
  <2>1. PICK r : r = [toolCall EXCEPT !.at = "rename"]
    BY Zenon
  <2>2. r \in Updaters /\ r.at = "rename" /\ r.of = toolCall.of /\ r.given = toolCall.given
        /\ r.before = toolCall.before /\ r.after = toolCall.after
    BY <1>1, <2>1 DEF Updaters
  <2>3. kept \subseteq toolCall.before.notes
    BY <1>1, <1>3 DEF Reps!Unedited, RepBooks
  <2>4. Relies(r)
    BY <1>1, <1>3, <2>2, <2>3 DEF Relies, ToolCalls
  <2> QED BY <1>1, <1>3, <2>1, <2>4, RepGoes DEF Reps!Goes
<1>4. CASE toolCall.at = "readback" /\ Reps!Goes(Reps!AfterIndex(toolCall))
  <2>1. PICK r : r = Reps!AfterIndex(toolCall)
    BY Zenon
  <2>2. toolCall.of \in index.reports /\ toolCall.given \subseteq 1..Len(observed)
    BY <1>1, <1>4 DEF Relies
  <2>3. Relies(r)
    BY <1>1, <2>1, <2>2, AfterIndexRelied
  <2> QED BY <1>1, <1>4, <2>1, <2>3, RepGoes DEF Reps!Goes
<1> QED BY <1>2, <1>3, <1>4 DEF Reps!Compare, Reps!Readback

LEMMA RepDelivers ==
    ASSUME RepInv, NEW k \in 1..Len(observed), Reps!Deliver(k)
    PROVE  RepInv'
<1> USE DEF Reps!World, Reps!Private, Reps!Public
<1>1. /\ RepBooks /\ Relies(toolCall) /\ toolCall \in Settlers /\ toolCall.at = "deliver"
      /\ toolCall.of \in index.reports /\ toolCall.given \subseteq 1..Len(observed)
      /\ UNCHANGED <<entitled, worktree, reports, keyed, receipts, observed, directories, index, kept, told>>
      /\ k \in toolCall.given \ index.deliveries /\ Reps!Fits(toolCall)
      /\ Reps!Goes(Reps!Update([index EXCEPT !.deliveries = index.deliveries \cup {k}]))
  BY ToolCallIs DEF Reps!Deliver, Relies
<1>2. /\ index \in Listings /\ toolCall.of \in 1..Len(reports) /\ Backed(toolCall.of)
      /\ Honest(index.deliveries, index.reports) /\ observed \in Seq(Views) /\ k \in Nat
      /\ Len(observed) \in Nat
  BY <1>1, Counted DEF RepBooks
<1>3. PICK after : after = [index EXCEPT !.deliveries = index.deliveries \cup {k}]
  BY Zenon
<1>4. /\ after \in Listings /\ after.reports = index.reports /\ after.deliveries = index.deliveries \cup {k}
      /\ after.notes = index.notes
  BY <1>2, <1>3 DEF Listings
<1>5. index.reports \cup {toolCall.of} = index.reports
  BY <1>1
<1>6. observed[k].of = toolCall.of /\ k \in Reps!Combined(toolCall)
  BY <1>1 DEF Reps!Fits, Reps!Combined
<1>7. ASSUME NEW l \in index.deliveries, observed[l] = observed[k] PROVE FALSE
  <2>1. l \in Reps!Combined(toolCall)
    BY <1>6, <1>7 DEF Reps!Combined, Reps!Known
  <2> QED BY <1>1, <1>6, <1>7, <2>1 DEF Reps!Fits
<1>8. Honest(index.deliveries \cup {k}, index.reports)
  BY <1>1, <1>2, <1>6, <1>7 DEF Honest
<1>9. Relies(Reps!Update(after))
  BY <1>1, <1>2, <1>4, <1>5, <1>8, UpdateRelied
<1>10. PICK r : r = Reps!Update(after)
  BY Zenon
<1>11. toolCall' = r /\ used' = used
  BY <1>1, <1>3, <1>10 DEF Reps!Goes
<1> QED BY <1>1, <1>9, <1>10, <1>11, RepGoes

\* What is told of a settled report.
LEMMA RepTells ==
    ASSUME RepBooks, NEW i \in index.reports, NEW d \in Reps!Dependency(i),
           UNCHANGED <<reports, observed, index>>,
           told' = [of |-> i, dependency |-> d, debt |-> Reps!Apps \ Reps!Delivered(i), tree |-> worktree.tree]
    PROVE  Reps!ToldTrue'
<1>1. Len(observed) \in Nat /\ observed \in Seq(Views) /\ Honest(index.deliveries, index.reports)
  BY Counted DEF RepBooks
<1>2. d = "available" => reports[i].seen.tree = worktree.tree /\ reports[i].proof = "full"
  BY DEF Reps!Dependency
<1>3. ASSUME Reps!Apps \ Reps!Delivered(i) = {}, NEW app \in Reps!Apps
      PROVE  \E k \in index.deliveries : observed[k] = [of |-> i, app |-> app]
  <2>1. app \in Reps!Delivered(i)
    BY <1>3
  <2>2. PICK k \in Reps!Known(i) : observed[k].app = app
    BY <2>1 DEF Reps!Delivered
  <2>3. k \in index.deliveries /\ observed[k].of = i
    BY <2>2 DEF Reps!Known
  <2>4. k \in 1..Len(observed)
    BY <2>3, <1>1 DEF Honest
  <2>5. observed[k] \in Views
    BY <1>1, <2>4
  <2>6. observed[k] = [of |-> i, app |-> app]
    BY <2>2, <2>3, <2>5 DEF Views
  <2> QED BY <2>3, <2>6
<1>4. told'.of = i /\ told'.dependency = d /\ told'.debt = Reps!Apps \ Reps!Delivered(i)
      /\ told'.tree = worktree.tree
  OBVIOUS
<1> QED BY <1>2, <1>3, <1>4 DEF Reps!ToldTrue

LEMMA RepSettles ==
    ASSUME RepInv, Reps!Settled
    PROVE  RepInv'
<1> USE DEF Reps!World, Reps!Private, Reps!Public
<1>1. /\ RepBooks /\ Relies(toolCall) /\ toolCall \in Settlers /\ toolCall.at = "deliver"
      /\ toolCall.of \in index.reports /\ toolCall.given \subseteq 1..Len(observed)
      /\ UNCHANGED <<entitled, worktree, reports, keyed, receipts, observed, directories, index, kept>>
      /\ used' = used
  BY ToolCallIs DEF Reps!Settled, Relies
<1>2. /\ toolCall.of \in Nat /\ toolCall.of \in 1..Len(reports) /\ toolCall.app \in Reps!Apps \cup {"none"}
      /\ Len(reports) \in Nat /\ Len(observed) \in Nat
  BY <1>1, Counted DEF Settlers
<1>3. CASE /\ \E d \in Reps!Dependency(toolCall.of) :
                told' = [of |-> toolCall.of, dependency |-> d,
                         debt |-> Reps!Apps \ Reps!Delivered(toolCall.of), tree |-> worktree.tree]
           /\ toolCall' = IF toolCall.next = "answer" THEN Reps!Idle ELSE [at |-> "receipt", of |-> toolCall.of]
  <2>1. Reps!ToldTrue'
    <3>1. PICK i : i = toolCall.of
      BY Zenon
    <3>2. i \in index.reports
      BY <1>1, <3>1
    <3>3. PICK d \in Reps!Dependency(i) :
                told' = [of |-> i, dependency |-> d,
                         debt |-> Reps!Apps \ Reps!Delivered(i), tree |-> worktree.tree]
      BY <1>3, <3>1
    <3> QED BY <1>1, <3>2, <3>3, RepTells
  <2>2. PICK r : r = [at |-> "receipt", of |-> toolCall.of]
    BY Zenon
  <2>3. Relies(r)
    BY <1>1, <1>2, <2>2 DEF Relies, ToolCalls
  <2>4. toolCall' = r \/ toolCall' = Reps!Idle
    BY <1>3, <2>2
  <2> QED BY <1>1, <2>1, <2>3, <2>4, IdleRelied, RepGoes
<1>4. CASE told' = told /\ toolCall' \in {[at |-> "ask", of |-> toolCall.of, app |-> toolCall.app],
                                          [at |-> "evidence", of |-> toolCall.of, app |-> toolCall.app]}
  <2>1. PICK r : r = toolCall'
    BY Zenon
  <2>2. r \in Askers /\ r.of = toolCall.of /\ r.at \in {"ask", "evidence"}
    BY <1>2, <1>4, <2>1 DEF Askers
  <2>3. Relies(r)
    BY <1>1, <2>2 DEF Relies, ToolCalls
  <2> QED BY <1>1, <1>4, <2>1, <2>3, RepGoes
<1>5. CASE /\ told' = told
           /\ toolCall' = Reps!Settling(toolCall.of, {k \in Reps!Known(toolCall.of) : observed[k].app = toolCall.app},
                                           "answer", toolCall.app)
  <2>1. PICK D : D = {k \in Reps!Known(toolCall.of) : observed[k].app = toolCall.app}
    BY Zenon
  <2>2. D \subseteq 1..Len(observed)
    BY <1>1, <2>1 DEF Reps!Known, RepBooks, Honest
  <2>3. PICK r : r = Reps!Settling(toolCall.of, D, "answer", toolCall.app)
    BY Zenon
  <2>4. r \in Settlers /\ r.at = "verify" /\ r.of = toolCall.of /\ r.given = D
    BY <1>2, <2>2, <2>3 DEF Reps!Settling, Settlers, Nexts
  <2>5. Relies(r)
    BY <1>2, <2>2, <2>4 DEF Relies, ToolCalls
  <2> QED BY <1>1, <1>5, <2>1, <2>3, <2>5, RepGoes
<1>6. \/ /\ \E d \in Reps!Dependency(toolCall.of) :
                told' = [of |-> toolCall.of, dependency |-> d,
                         debt |-> Reps!Apps \ Reps!Delivered(toolCall.of), tree |-> worktree.tree]
         /\ toolCall' = IF toolCall.next = "answer" THEN Reps!Idle ELSE [at |-> "receipt", of |-> toolCall.of]
      \/ told' = told /\ toolCall' \in {[at |-> "ask", of |-> toolCall.of, app |-> toolCall.app],
                                        [at |-> "evidence", of |-> toolCall.of, app |-> toolCall.app]}
      \/ /\ told' = told
         /\ toolCall' = Reps!Settling(toolCall.of, {k \in Reps!Known(toolCall.of) : observed[k].app = toolCall.app},
                                         "answer", toolCall.app)
  BY Zenon DEF Reps!Settled
<1> QED BY <1>3, <1>4, <1>5, <1>6

LEMMA RepAnswers ==
    ASSUME RepInv, \E b \in BOOLEAN : Reps!Answer(b)
    PROVE  RepInv'
<1> USE DEF Reps!World, Reps!Private, Reps!Public
<1>1. /\ RepBooks /\ Relies(toolCall) /\ toolCall \in Askers /\ toolCall.at = "ask" /\ toolCall.of \in index.reports
      /\ UNCHANGED <<entitled, worktree, reports, keyed, receipts, observed, directories, index, kept, told>>
      /\ used' = used
  BY ToolCallIs DEF Reps!Answer, Reps!Goes, Relies
<1>2. CASE toolCall' = Reps!Idle
  BY <1>1, <1>2, IdleRelied, RepGoes
<1>3. ASSUME NEW next \in Nexts, toolCall' = Reps!Settling(toolCall.of, {}, next, toolCall.app) PROVE RepInv'
  <2>1. PICK r : r = Reps!Settling(toolCall.of, {}, next, toolCall.app)
    BY Zenon
  <2>2. r \in Settlers /\ r.at = "verify" /\ r.of = toolCall.of /\ r.given = {}
    BY <1>1, <2>1 DEF Settlers, Askers, Reps!Settling
  <2>3. Relies(r)
    BY <1>1, <2>2, Counted DEF Relies, ToolCalls
  <2> QED BY <1>1, <1>3, <2>1, <2>3, RepGoes
<1>4. \/ toolCall' = Reps!Idle
      \/ toolCall' = Reps!Settling(toolCall.of, {}, "evidence", toolCall.app)
      \/ toolCall' = Reps!Settling(toolCall.of, {}, "answer", toolCall.app)
  BY DEF Reps!Answer, Reps!Ends, Reps!Goes
<1> QED BY <1>2, <1>3, <1>4 DEF Nexts

\* A page is linked where nothing stood, or becomes whole.
LEMMA PagePut ==
    ASSUME RepBooks, NEW i \in 1..Len(reports), NEW f \in 1..5, NEW is \in {"linked", "whole"}, Stood(i, f - 1),
           is = "linked" => directories[i][f] = Reps!Absent,
           directories' = [directories EXCEPT ![i][f] = [is |-> is, of |-> i]],
           UNCHANGED <<entitled, worktree, reports, keyed, receipts, observed, index, kept>>
    PROVE  RepBooks' /\ Stood(i, f - 1)' /\ (is = "whole" => Stood(i, f)')
<1> DEFINE page == [is |-> is, of |-> i]
<1>0. /\ RepTyped /\ i \in 1..MaxReports /\ Len(reports) \in Nat /\ i \in Nat
      /\ directories \in [1..MaxReports -> [1..5 -> Pages]]
      /\ index.reports \subseteq 1..MaxReports
  <2>1. /\ RepTyped /\ Len(reports) \in 0..MaxReports /\ MaxReports \in Nat /\ index.reports \subseteq 1..Len(reports)
        /\ directories \in [1..MaxReports -> [1..5 -> Pages]]
    <3>1. RepTyped
      BY DEF RepBooks
    <3>2. MaxReports \in Nat
      BY ReportsNatural, Zenon
    <3> QED BY <3>1, <3>2, Counted
  <2>2. i \in 1..MaxReports /\ Len(reports) \in Nat /\ i \in Nat
    BY <2>1
  <2>3. index.reports \subseteq 1..MaxReports
    BY <2>1
  <2> QED BY <2>1, <2>2, <2>3
<1>1. page \in Pages /\ page # Reps!Absent /\ page.of = i /\ page.is = is
  BY <1>0 DEF Pages, Reps!Absent
<1>2. directories' = [directories EXCEPT ![i][f] = page]
  OBVIOUS
<1> HIDE DEF page
<1>3. directories' \in [1..MaxReports -> [1..5 -> Pages]]
  BY <1>0, <1>1, <1>2
<1>4. /\ directories'[i][f] = page
      /\ \A a \in 1..MaxReports, g \in 1..5 : a # i \/ g # f => directories'[a][g] = directories[a][g]
  BY <1>0, <1>2
<1>5. ASSUME NEW a \in 1..MaxReports, NEW n \in 0..5, Stood(a, n), is = "whole" \/ a # i \/ n < f
      PROVE  Stood(a, n)'
  BY <1>1, <1>4, <1>5 DEF Stood, Stands
<1>6. Stood(i, f - 1)' /\ (is = "whole" => Stood(i, f)')
  <2>1. Stood(i, f - 1)'
    BY <1>0, <1>5
  <2>2. is = "whole" => Stood(i, f)'
    BY <2>1, <1>1, <1>4 DEF Stood, Stands
  <2> QED BY <2>1, <2>2
<1>7. directories[i][f] = Reps!Absent => ~(directories[i][f].is \in Stands)
  BY DEF Reps!Absent, Stands
<1>8. \A a \in 1..MaxReports, g \in 1..5 : directories'[a][g] # Reps!Absent => directories'[a][g].of = a
  BY <1>1, <1>4 DEF RepBooks
<1>9. ASSUME NEW a \in 1..MaxReports, directories'[a][5] # Reps!Absent PROVE Stood(a, 4)'
  <2>1. CASE a = i /\ f = 5
    BY <1>6, <2>1
  <2>2. CASE a # i \/ f # 5
    <3>1. directories[a][5] # Reps!Absent
      BY <1>4, <1>9, <2>2
    <3>2. Stood(a, 4)
      BY <3>1 DEF RepBooks
    <3>3. is = "whole" \/ a # i \/ 4 < f
      BY <1>7, <3>2 DEF Stood
    <3> QED BY <1>5, <3>2, <3>3
  <2> QED BY <2>1, <2>2
<1>10. ASSUME NEW a \in index.reports PROVE Backed(a)'
  <2>1. a \in 1..MaxReports /\ Stood(a, 5)
    BY <1>0 DEF RepBooks, Backed
  <2>2. is = "whole" \/ a # i
    BY <1>7, <2>1 DEF Stood
  <2> QED BY <1>5, <2>1, <2>2 DEF Backed
<1>11. RepTyped'
  BY <1>0, <1>3 DEF RepTyped
<1>12. Honest(index.deliveries, index.reports)'
  BY DEF RepBooks, Honest
<1>13. RepBooks'
  BY <1>8, <1>9, <1>10, <1>11, <1>12 DEF RepBooks
<1> QED BY <1>6, <1>13

\* The next file of a report, or its settlement.
LEMMA RepWritten ==
    ASSUME RepBooks', NEW i \in 1..Len(reports), NEW f \in 1..5, Stood(i, f)', reports' = reports,
           Len(reports) \in Nat, Reps!Written(i, f)
    PROVE  Relies(toolCall)' /\ used' = used
<1>1. CASE f = 5
  <2>1. toolCall' = [at |-> "verify", of |-> i, given |-> {}, next |-> "settle", app |-> "none"]
    BY <1>1 DEF Reps!Written, Reps!Goes, Reps!Settling, Reps!Companions
  <2>2. toolCall' \in Settlers
    BY <2>1 DEF Settlers, Nexts
  <2> QED BY <2>1, <2>2 DEF Relies, ToolCalls, Reps!Written, Reps!Goes
<1>2. CASE f < 5
  <2>1. toolCall' = [at |-> "write", of |-> i, file |-> f + 1]
    BY <1>2 DEF Reps!Written, Reps!Goes, Reps!Companions
  <2>2. toolCall' \in Publishing
    BY <1>2, <2>1 DEF Publishing
  <2>3. Stood(i, (f + 1) - 1)'
    <3>1. (f + 1) - 1 = f
      OBVIOUS
    <3> QED BY <3>1
  <2> QED BY <2>1, <2>2, <2>3 DEF Relies, ToolCalls, Reps!Written, Reps!Goes
<1> QED BY <1>1, <1>2

\* What was told stands while files are written.
LEMMA ToldKept ==
    ASSUME RepInv, UNCHANGED <<reports, observed, told>>, index.reports \subseteq index'.reports,
           index.deliveries \subseteq index'.deliveries
    PROVE  Reps!ToldTrue'
BY Counted, ToldStands DEF RepInv, RepBooks, Honest

LEMMA RepPublishes ==
    ASSUME RepInv, Reps!PublishAbsent \/ Reps!Unlink
    PROVE  RepInv'
<1> USE DEF Reps!World, Reps!Private, Reps!Public
<1>1. /\ RepBooks /\ Relies(toolCall) /\ toolCall \in Publishing /\ toolCall.at \in {"write", "unlink"}
      /\ toolCall.of \in 1..Len(reports) /\ toolCall.file \in 1..5 /\ Stood(toolCall.of, toolCall.file - 1)
      /\ Len(reports) \in Nat
      /\ UNCHANGED <<entitled, worktree, reports, keyed, receipts, observed, index, kept, told>>
  BY ToolCallIs, Counted DEF Reps!PublishAbsent, Reps!Unlink, Relies, Publishing
<1>2. PICK i \in 1..Len(reports), f \in 1..5 : i = toolCall.of /\ f = toolCall.file
  BY <1>1
<1>3. Reps!Directory(i) = i /\ i \in 1..MaxReports
  BY <1>1, Counted, ReportBounds DEF RepBooks, Reps!Directory
<1>4. Reps!ToldTrue'
  BY <1>1, ToldKept
<1>5. CASE Reps!PublishAbsent /\ Reps!Page(i, f) = Reps!Absent
  <2>1. /\ directories[i][f] = Reps!Absent
        /\ directories' = [directories EXCEPT ![i][f] = [is |-> "linked", of |-> i]]
    BY <1>2, <1>3, <1>5 DEF Reps!PublishAbsent, Reps!Page, Reps!Put, Reps!MayStand, Reps!Same, Reps!Absent
  <2>2. toolCall' = [toolCall EXCEPT !.at = "unlink"] /\ used' = used
    BY <1>2, <1>5 DEF Reps!PublishAbsent, Reps!Goes
  <2>3. RepBooks' /\ Stood(i, f - 1)'
    BY <1>1, <1>2, <2>1, PagePut
  <2>4. toolCall' \in Publishing /\ toolCall'.at = "unlink" /\ toolCall'.of = i /\ toolCall'.file = f
    BY <1>1, <1>2, <2>2 DEF Publishing
  <2>5. \A g \in 1..(toolCall'.file - 1) : directories'[toolCall'.of][g].is \in Stands
    BY <2>3, <2>4 DEF Stood
  <2>6. Relies(toolCall)'
    BY <1>1, <2>4, <2>5 DEF Relies, ToolCalls, Stood
  <2> QED BY <1>4, <2>2, <2>3, <2>6 DEF RepInv, Spent
<1>6. CASE Reps!PublishAbsent /\ Reps!Page(i, f) # Reps!Absent /\ Reps!MayStand(i, f)
  <2>1. Reps!Written(i, f) /\ directories' = directories
    BY <1>2, <1>6 DEF Reps!PublishAbsent
  <2>2. directories[i][f].is = "whole"
    BY <1>3, <1>6 DEF Reps!MayStand, Reps!Same, Reps!Page
  <2>3. Stood(i, f)'
    BY <1>1, <1>2, <2>1, <2>2 DEF Stood, Stands
  <2>4. RepBooks'
    BY <1>1, <2>1, BooksStand, Counted
  <2>5. Relies(toolCall)' /\ used' = used
    BY <1>1, <2>1, <2>3, <2>4, RepWritten
  <2> QED BY <1>4, <2>4, <2>5 DEF RepInv, Spent
<1>7. CASE Reps!PublishAbsent /\ Reps!Page(i, f) # Reps!Absent /\ ~Reps!MayStand(i, f)
  <2>1. Reps!Ends /\ directories' = directories /\ used' = used
    BY <1>2, <1>7 DEF Reps!PublishAbsent
  <2> QED BY <1>1, <2>1, IdleRelied, RepGoes DEF Reps!Ends
<1>8. CASE Reps!Unlink
  <2>1. directories' = [directories EXCEPT ![i][f] = [is |-> "whole", of |-> i]] /\ Reps!Written(i, f)
    BY <1>2, <1>3, <1>8 DEF Reps!Unlink, Reps!Put
  <2>2. RepBooks' /\ Stood(i, f)'
    BY <1>1, <1>2, <2>1, PagePut
  <2>3. Relies(toolCall)' /\ used' = used
    BY <1>1, <2>1, <2>2, RepWritten
  <2> QED BY <1>4, <2>2, <2>3 DEF RepInv, Spent
<1> QED BY <1>5, <1>6, <1>7, <1>8

\* A record is published, a call is bound to it, and its receipt is recorded.
LEMMA RepRecords ==
    ASSUME RepInv, Reps!Recorded \/ Reps!Keyed \/ Reps!Receipt
    PROVE  RepInv'
<1> USE DEF Reps!World, Reps!Private, Reps!Public
<1>1. /\ RepBooks /\ Relies(toolCall) /\ RepTyped /\ Len(reports) \in 0..MaxReports /\ Len(reports) \in Nat
      /\ index.reports \subseteq 1..Len(reports) /\ Len(observed) \in Nat /\ MaxReports \in Nat
      /\ index.deliveries \subseteq 1..Len(observed)
  <2>1. RepBooks /\ Relies(toolCall)
    BY DEF RepInv
  <2>2. RepTyped /\ index.deliveries \subseteq 1..Len(observed)
    BY <2>1 DEF RepBooks, Honest
  <2>3. MaxReports \in Nat
    BY ReportBounds
  <2> QED BY <2>1, <2>2, <2>3, Counted
<1>2. CASE Reps!Recorded /\ reports' = reports /\ Reps!Ends
  BY <1>2, IdleRelied, RepGoes DEF Reps!Recorded, Reps!Ends, Reps!Goes
<1>3. CASE /\ Reps!Recorded
           /\ reports' = Append(reports, [id |-> toolCall.id, proof |-> toolCall.proof,
                                          attempt |-> toolCall.attempt, seen |-> toolCall.seen])
           /\ Reps!Goes([at |-> "key", id |-> toolCall.id])
  <2>1. /\ toolCall \in Capturing /\ toolCall.attempt = Len(reports) + 1 /\ toolCall.attempt <= MaxReports
        /\ UNCHANGED <<entitled, worktree, keyed, receipts, observed, directories, index, kept, told, used>>
        /\ toolCall' = [at |-> "key", id |-> toolCall.id]
    BY <1>1, <1>3, ToolShape DEF Reps!Recorded, Relies, Reps!Goes
  <2>2. PICK row : row = [id |-> toolCall.id, proof |-> toolCall.proof,
                          attempt |-> toolCall.attempt, seen |-> toolCall.seen]
    BY Zenon
  <2>3. row \in ReportRows /\ row.attempt = Len(reports) + 1 /\ row.id = toolCall.id
    BY <2>1, <2>2 DEF Capturing, ReportRows
  <2>4. reports' = Append(reports, row) /\ reports \in Seq(ReportRows)
    BY <1>1, <1>3, <2>2 DEF RepTyped
  <2>5. /\ reports' \in Seq(ReportRows) /\ Len(reports') = Len(reports) + 1
        /\ \A i \in 1..Len(reports) : reports'[i] = reports[i]
        /\ reports'[Len(reports) + 1] = row
    BY <2>3, <2>4
  <2>6. keyed' \in [Captures -> 0..Len(reports')]
    BY <1>1, <2>1, <2>5 DEF RepTyped
  <2>7. RepTyped'
    BY <1>1, <2>1, <2>3, <2>5, <2>6 DEF RepTyped
  <2>8. /\ \A i \in 1..Len(reports') : reports'[i].attempt = i
        /\ \A c \in Captures : keyed'[c] # 0 => reports'[keyed'[c]].id = c
        /\ index'.reports \subseteq 1..Len(reports')
    <3>1. \A i \in 1..Len(reports') : reports'[i].attempt = i
      BY <1>1, <2>3, <2>5 DEF RepBooks
    <3>2. ASSUME NEW c \in Captures, keyed'[c] # 0 PROVE reports'[keyed'[c]].id = c
      <4>1. keyed[c] \in 1..Len(reports) /\ keyed'[c] = keyed[c]
        BY <1>1, <2>1, <3>2 DEF RepTyped
      <4> QED BY <1>1, <2>5, <4>1 DEF RepBooks
    <3>3. index'.reports \subseteq 1..Len(reports')
      BY <1>1, <2>1, <2>5
    <3> QED BY <3>1, <3>2, <3>3
  <2>9. RepBooks'
    BY <1>1, <2>1, <2>7, <2>8 DEF RepBooks, Stood, Backed, Honest
  <2>10. toolCall' \in ToolCalls /\ toolCall'.at = "key" /\ toolCall'.id = row.id
    BY <2>1, <2>3 DEF ToolCalls, Capturing
  <2>11. Relies(toolCall)'
    BY <1>1, <2>5, <2>10 DEF Relies
  <2>12. Reps!ToldTrue'
    BY <1>1, <2>1, <2>5, ToldStands DEF RepInv
  <2> QED BY <2>1, <2>9, <2>11, <2>12 DEF RepInv, Spent
<1>4. CASE Reps!Keyed
  <2>1. /\ toolCall \in [at : {"key"}, id : Captures] /\ Len(reports) >= 1 /\ reports[Len(reports)].id = toolCall.id
        /\ UNCHANGED <<entitled, worktree, reports, receipts, observed, directories, index, kept, used>>
        /\ toolCall' = Reps!Idle /\ keyed' = [keyed EXCEPT ![toolCall.id] = Len(reports)]
        /\ told'.dependency = "source"
    BY <1>1, <1>4, ToolShape DEF Reps!Keyed, Relies, Reps!Ends, Reps!Silent
  <2>2. keyed \in [Captures -> 0..Len(reports)] /\ keyed' \in [Captures -> 0..Len(reports)]
    BY <1>1, <2>1 DEF RepTyped
  <2>3. \A c \in Captures : keyed'[c] # 0 => reports[keyed'[c]].id = c
    BY <1>1, <2>1, <2>2 DEF RepBooks
  <2>4. RepTyped'
    BY <1>1, <2>1, <2>2 DEF RepTyped
  <2>5. RepBooks'
    BY <1>1, <2>1, <2>3, <2>4 DEF RepBooks, Stood, Backed, Honest
  <2> QED BY <2>1, <2>5, NothingRelied, ToldNothing DEF RepInv, Spent
<1>5. CASE Reps!Receipt
  <2>1. /\ toolCall.of \in index.reports /\ receipts' = receipts \cup {toolCall.of}
        /\ UNCHANGED <<entitled, worktree, reports, keyed, observed, directories, index, kept, told, used>>
        /\ toolCall' = Reps!Idle
    BY <1>1, <1>5 DEF Reps!Receipt, Relies, Reps!Ends
  <2>2. RepBooks'
    BY <1>1, <2>1 DEF RepBooks, RepTyped, Stood, Backed, Honest
  <2>3. Reps!ToldTrue'
    BY <2>1, ToldKept
  <2> QED BY <2>1, <2>2, <2>3, NothingRelied DEF RepInv, Spent
<1> QED BY <1>2, <1>3, <1>4, <1>5 DEF Reps!Recorded

\* The owner's Markdown is replaced, and an observation of the operator is recorded.
LEMMA RepReplaces ==
    ASSUME RepInv, Reps!Rename \/ Reps!Observed
    PROVE  RepInv'
<1> USE DEF Reps!World, Reps!Private, Reps!Public
<1>1. /\ RepBooks /\ Relies(toolCall) /\ RepTyped /\ Len(reports) \in Nat
      /\ index.reports \subseteq 1..Len(reports) /\ Len(observed) \in Nat
      /\ index.deliveries \subseteq 1..Len(observed) /\ observed \in Seq(Views)
  <2>1. RepBooks /\ Relies(toolCall)
    BY DEF RepInv
  <2>2. RepTyped /\ index.deliveries \subseteq 1..Len(observed)
    BY <2>1 DEF RepBooks, Honest
  <2> QED BY <2>1, <2>2, Counted
<1>2. CASE Reps!Rename
  <2>1. toolCall \in Updaters /\ toolCall.at = "rename"
    BY <1>2, ToolCallIs DEF Reps!Rename
  <2>2. /\ toolCall.after \in Listings /\ toolCall.of \in 1..Len(reports) /\ Backed(toolCall.of)
        /\ toolCall.given \subseteq 1..Len(observed)
        /\ toolCall.after.reports = index.reports \cup {toolCall.of}
        /\ index.deliveries \subseteq toolCall.after.deliveries
        /\ Honest(toolCall.after.deliveries, toolCall.after.reports)
        /\ kept \subseteq toolCall.after.notes
    BY <1>1, <2>1 DEF Relies, Updaters
  <2>3. /\ index' = toolCall.after /\ toolCall' = [toolCall EXCEPT !.at = "readback"]
        /\ UNCHANGED <<entitled, worktree, reports, keyed, receipts, observed, directories, kept, told, used>>
    BY <1>2 DEF Reps!Rename, Reps!Goes
  <2>4. RepTyped'
    BY <1>1, <2>2, <2>3 DEF RepTyped
  <2>5. /\ index'.reports \subseteq 1..Len(reports) /\ receipts \subseteq index'.reports
        /\ \A i \in index'.reports : Backed(i)
    BY <1>1, <2>2, <2>3 DEF RepBooks
  <2>6. (\A i \in index.reports : Backed(i))'
    BY <2>3, <2>5 DEF Backed, Stood
  <2>7. Honest(index.deliveries, index.reports)'
    BY <2>2, <2>3 DEF Honest
  <2>8. RepBooks'
    BY <1>1, <2>2, <2>3, <2>4, <2>5, <2>6, <2>7 DEF RepBooks, Stood
  <2>9. /\ toolCall' \in Updaters /\ toolCall'.at = "readback" /\ toolCall'.of = toolCall.of
        /\ toolCall'.given = toolCall.given
    BY <2>1, <2>3 DEF Updaters
  <2>10. Relies(toolCall)'
    BY <2>2, <2>3, <2>9 DEF Relies, ToolCalls
  <2>11. Reps!ToldTrue'
    BY <2>2, <2>3, ToldKept
  <2> QED BY <2>3, <2>8, <2>10, <2>11 DEF RepInv, Spent
<1>3. CASE Reps!Observed
  <2>1. /\ toolCall \in Askers /\ toolCall.of \in index.reports /\ toolCall.of \in 1..Len(reports)
        /\ toolCall.of \in Nat /\ toolCall.app \in Reps!Apps \cup {"none"}
    BY <1>1, <1>3, ToolCallIs DEF Reps!Observed, Relies, Askers
  <2>2. /\ observed' = Append(observed, [of |-> toolCall.of, app |-> toolCall.app])
        /\ toolCall' = [at |-> "verify", of |-> toolCall.of, given |-> {Len(observed) + 1}, next |-> "answer",
                        app |-> toolCall.app]
        /\ UNCHANGED <<entitled, worktree, reports, keyed, receipts, index, directories, kept, told, used>>
    BY <1>3 DEF Reps!Observed, Reps!Goes, Reps!Settling
  <2>3. /\ observed' \in Seq(Views) /\ Len(observed') = Len(observed) + 1
        /\ \A k \in 1..Len(observed) : observed'[k] = observed[k]
    <3>1. [of |-> toolCall.of, app |-> toolCall.app] \in Views
      BY <2>1 DEF Views
    <3> QED BY <1>1, <2>2, <3>1
  <2>4. Honest(index.deliveries, index.reports)'
    BY <1>1, <2>2, <2>3 DEF Honest, RepBooks
  <2>5. RepTyped'
    BY <1>1, <2>2, <2>3 DEF RepTyped
  <2>6. RepBooks'
    BY <1>1, <2>2, <2>4, <2>5 DEF RepBooks, Stood, Backed
  <2>7. toolCall' \in Settlers
    BY <1>1, <2>1, <2>2 DEF Settlers, Nexts
  <2>8. Relies(toolCall)'
    BY <1>1, <2>1, <2>2, <2>3, <2>7 DEF Relies, ToolCalls
  <2>9. Reps!ToldTrue'
    BY <1>1, <2>2, <2>3, ToldStands DEF RepInv
  <2> QED BY <2>2, <2>6, <2>8, <2>9 DEF RepInv, Spent
<1> QED BY <1>2, <1>3

\* The worktree moves, the deployment ends, and the operator edits.
LEMMA RepWorld ==
    ASSUME RepInv, \/ Reps!Leave \/ Reps!WriteNote \/ Reps!Mangle
                   \/ \E what \in {"tree", "journal"} : Reps!Move(what)
                   \/ \E a \in 1..MaxReports, f \in Edited : Reps!EditPage(a, f)
    PROVE  RepInv'
<1> USE DEF Reps!World, Reps!Private, Reps!Public
<1>1. /\ RepBooks /\ Relies(toolCall) /\ RepTyped /\ index \in Listings /\ kept \subseteq 0..MaxChances
      /\ used \in [events : 0..MaxChances, asked : Nat] /\ index.reports \subseteq 1..Len(reports)
      /\ worktree \in [tree : Nat, journal : Nat]
  <2>1. RepBooks /\ Relies(toolCall) /\ Spent
    BY DEF RepInv
  <2>2. RepTyped
    BY <2>1 DEF RepBooks
  <2> QED BY <2>1, <2>2, Counted DEF RepTyped, Spent
<1>2. ASSUME NEW what \in {"tree", "journal"}, Reps!Move(what) PROVE RepInv'
  <2>1. /\ worktree' = [worktree EXCEPT ![what] = @ + 1] /\ Reps!Spends("events") /\ used.events < MaxChances
        /\ UNCHANGED <<entitled, reports, keyed, receipts, observed, directories, index, kept, toolCall, told>>
    BY <1>2 DEF Reps!Move
  <2>2. worktree' \in [tree : Nat, journal : Nat] /\ entitled' \in BOOLEAN
    BY <1>1, <2>1 DEF RepTyped
  <2>3. RepBooks'
    BY <1>1, <2>1, <2>2, BooksStand
  <2>4. Relies(toolCall)'
    BY <1>1, <2>1 DEF Relies, Stood, Backed, Honest
  <2>5. Reps!ToldTrue'
    BY <2>1, ToldKept
  <2>6. Spent'
    BY <2>1, SpentMore DEF RepInv
  <2> QED BY <2>3, <2>4, <2>5, <2>6 DEF RepInv
<1>3. CASE Reps!Leave
  <2>1. /\ entitled' = FALSE /\ Reps!Spends("events") /\ used.events < MaxChances
        /\ UNCHANGED <<worktree, reports, keyed, receipts, observed, directories, index, kept, toolCall, told>>
    BY <1>3 DEF Reps!Leave
  <2>3. RepBooks'
    BY <1>1, <2>1, BooksStand
  <2>4. Relies(toolCall)'
    BY <1>1, <2>1 DEF Relies, Stood, Backed, Honest
  <2>5. Reps!ToldTrue'
    BY <2>1, ToldKept
  <2>6. Spent'
    BY <2>1, SpentMore DEF RepInv
  <2> QED BY <2>3, <2>4, <2>5, <2>6 DEF RepInv
<1>4. CASE Reps!WriteNote \/ Reps!Mangle
  <2>1. /\ index' \in Listings /\ index'.reports = index.reports /\ index'.deliveries = index.deliveries
        /\ index.notes \subseteq index'.notes
        /\ Reps!Spends("events") /\ used.events < MaxChances
        /\ UNCHANGED <<entitled, worktree, reports, keyed, receipts, observed, directories, toolCall, told>>
        /\ kept' = kept \/ (kept' = kept \cup {used.events} /\ used.events \in index'.notes /\ toolCall.at # "rename")
    <3>1. CASE Reps!WriteNote
      <4>1. index' = [index EXCEPT !.notes = index.notes \cup {used.events}] /\ used.events \in Nat
        BY <1>1, <3>1 DEF Reps!WriteNote
      <4>2. /\ index' \in Listings /\ index'.reports = index.reports /\ index'.deliveries = index.deliveries
            /\ index'.notes = index.notes \cup {used.events}
        BY <1>1, <4>1 DEF Listings
      <4> QED BY <3>1, <4>2 DEF Reps!WriteNote, Reps!Edits
    <3>2. CASE Reps!Mangle
      <4>1. index' = [index EXCEPT !.readable = FALSE]
        BY <3>2 DEF Reps!Mangle
      <4>2. /\ index' \in Listings /\ index'.reports = index.reports /\ index'.deliveries = index.deliveries
            /\ index'.notes = index.notes
        BY <1>1, <4>1 DEF Listings
      <4> QED BY <3>2, <4>2 DEF Reps!Mangle, Reps!Edits
    <3> QED BY <1>4, <3>1, <3>2
  <2>2. kept' \subseteq 0..MaxChances /\ kept' \subseteq index'.notes
    BY <1>1, <2>1 DEF RepBooks
  <2>3. RepTyped'
    BY <1>1, <2>1, <2>2 DEF RepTyped
  <2>4. RepBooks'
    BY <1>1, <2>1, <2>2, <2>3 DEF RepBooks, Stood, Backed, Honest
  <2>5. Relies(toolCall)'
    BY <1>1, <2>1 DEF Relies, Stood, Backed, Honest
  <2>6. Reps!ToldTrue'
    BY <2>1, ToldKept
  <2>7. Spent'
    BY <2>1, SpentMore DEF RepInv
  <2> QED BY <2>4, <2>5, <2>6, <2>7 DEF RepInv
<1>5. ASSUME NEW a \in 1..MaxReports, NEW f \in Edited, Reps!EditPage(a, f) PROVE RepInv'
  <2>1. /\ directories[a][f].is = "whole" /\ directories' = [directories EXCEPT ![a][f].is = "edited"]
        /\ Reps!Spends("events") /\ used.events < MaxChances /\ f \in 1..5
        /\ UNCHANGED <<entitled, worktree, reports, keyed, receipts, observed, index, kept, toolCall, told>>
    BY <1>5, ReportsConstants DEF Reps!EditPage, Reps!Edits, Reps!ReportsAssumption
  <2>2. directories[a][f] \in [is : Stands, of : {a}]
    BY <1>1, <2>1, PageIs DEF Stands
  <2>3. directories \in [1..MaxReports -> [1..5 -> Pages]] /\ [is |-> "edited", of |-> a] \in Pages
    BY <1>1 DEF RepTyped, Pages
  <2>4. directories' = [directories EXCEPT ![a][f] = [is |-> "edited", of |-> a]]
    <3>1. [directories[a][f] EXCEPT !.is = "edited"] = [is |-> "edited", of |-> a]
      BY <2>2
    <3>2. directories' = [directories EXCEPT ![a][f] = [directories[a][f] EXCEPT !.is = "edited"]]
      BY <2>1, Zenon
    <3> QED BY <3>1, <3>2, Zenon
  <2>5. /\ directories' \in [1..MaxReports -> [1..5 -> Pages]]
        /\ \A b \in 1..MaxReports, g \in 1..5 : directories'[b][g] =
             IF b = a /\ g = f THEN [is |-> "edited", of |-> a] ELSE directories[b][g]
    BY <2>1, <2>3, <2>4
  <2>6. ASSUME NEW b \in 1..MaxReports, NEW n \in 0..5, Stood(b, n) PROVE Stood(b, n)'
    BY <2>5, <2>6 DEF Stood, Stands
  <2>7. directories[a][f] # Reps!Absent
    BY <2>1 DEF Reps!Absent
  <2>8. \A b \in 1..MaxReports, g \in 1..5 : directories'[b][g] # Reps!Absent => directories'[b][g].of = b
    BY <1>1, <2>5 DEF RepBooks
  <2>9. \A b \in 1..MaxReports : directories'[b][5] # Reps!Absent => Stood(b, 4)'
    <3> SUFFICES ASSUME NEW b \in 1..MaxReports, directories'[b][5] # Reps!Absent PROVE Stood(b, 4)'
      OBVIOUS
    <3>1. directories[b][5] # Reps!Absent
      BY <2>5, <2>7
    <3>2. Stood(b, 4)
      BY <1>1, <3>1 DEF RepBooks
    <3> QED BY <2>6, <3>2
  <2>10. index.reports \subseteq 1..MaxReports /\ Len(reports) \in 0..MaxReports /\ MaxReports \in Nat
    <3>1. Len(reports) \in 0..MaxReports
      BY <1>1, Counted
    <3>2. MaxReports \in Nat
      BY ReportsNatural, Zenon
    <3> QED BY <1>1, <3>1, <3>2
  <2>11. \A b \in 1..MaxReports : Backed(b) => Backed(b)'
    BY <2>6 DEF Backed
  <2>12. RepTyped'
    BY <1>1, <2>1, <2>5 DEF RepTyped
  <2>13. RepBooks'
    BY <1>1, <2>1, <2>8, <2>9, <2>10, <2>11, <2>12 DEF RepBooks, Honest
  <2>14. Relies(toolCall)'
    <3>1. toolCall.at \in {"write", "unlink"} => toolCall.of \in 1..MaxReports /\ toolCall.file - 1 \in 0..5
      BY <1>1, <2>10, ToolShape DEF Relies, Publishing
    <3>2. toolCall.at \in {"write", "unlink"} => Stood(toolCall.of, toolCall.file - 1)'
      <4> SUFFICES ASSUME toolCall.at \in {"write", "unlink"} PROVE Stood(toolCall.of, toolCall.file - 1)'
        OBVIOUS
      <4>1. PICK b \in 1..MaxReports, n \in 0..5 : b = toolCall.of /\ n = toolCall.file - 1
        BY <3>1
      <4>2. Stood(b, n)
        BY <1>1, <4>1 DEF Relies
      <4>3. Stood(b, n)'
        BY <2>6, <4>2
      <4> QED BY <2>1, <4>1, <4>3
    <3>3. toolCall.at \in {"index", "compare", "rename"} => Backed(toolCall.of)'
      <4> SUFFICES ASSUME toolCall.at \in {"index", "compare", "rename"} PROVE Backed(toolCall.of)'
        OBVIOUS
      <4>1. PICK b \in 1..MaxReports : b = toolCall.of
        BY <1>1, <2>10 DEF Relies
      <4>2. Backed(b)
        BY <1>1, <4>1 DEF Relies
      <4>3. Backed(b)'
        BY <2>11, <4>2
      <4> QED BY <2>1, <4>1, <4>3
    <3> QED BY <1>1, <2>1, <3>2, <3>3 DEF Relies, Honest
  <2>15. Reps!ToldTrue'
    BY <2>1, ToldKept
  <2>16. Spent'
    BY <2>1, SpentMore DEF RepInv
  <2> QED BY <2>13, <2>14, <2>15, <2>16 DEF RepInv
<1> QED BY <1>2, <1>3, <1>4, <1>5

LEMMA RepKept ==
    ASSUME RepInv, Reps!ReportsNext
    PROVE  RepInv'
<1>1. CASE Reps!Actors
  BY <1>1, RepEnds, RepBegins DEF Reps!Actors
<1>2. CASE Reps!Steps
  BY <1>2, RepEnds, RepRecords, RepPublishes, RepVerifies, RepIndexes, RepCompares, RepReplaces, RepDelivers,
     RepSettles, RepAnswers DEF Reps!Steps
<1>3. CASE Reps!Outside
  BY <1>3, RepEnds, RepWorld DEF Reps!Outside
<1> QED BY <1>1, <1>2, <1>3 DEF Reps!ReportsNext

RepHolds == part = "reports" => RepInv

LEMMA RepStepsKeep == RepHolds /\ [TicketsNext]_ticketsVars => RepHolds'
<1> SUFFICES ASSUME RepHolds, [TicketsNext]_ticketsVars, part' = "reports"
             PROVE  RepInv'
  BY DEF RepHolds
<1>1. CASE ReportsStep
  BY <1>1, RepKept DEF ReportsStep, RepHolds
<1>2. CASE UNCHANGED ticketsVars
  <2>1. UNCHANGED <<part, reportVars>>
    BY <1>2 DEF ticketsVars
  <2>2. /\ RepInv /\ UNCHANGED <<entitled, worktree, reports, keyed, receipts, directories, index, observed, kept,
                                 toolCall, told, used>>
    BY <2>1 DEF reportVars, RepHolds
  <2>3. PICK r : r = toolCall
    BY Zenon
  <2> QED BY <2>2, <2>3, RepGoes DEF RepInv
<1>3. CASE BranchStep \/ WorkflowStep \/ StoreStep \/ PreparedStep \/ SignalStep \/ DocumentsStep \/ DeploysStep
  BY <1>3 DEF BranchStep, WorkflowStep, StoreStep, PreparedStep, SignalStep, DocumentsStep, DeploysStep
<1> QED BY <1>1, <1>2, <1>3 DEF TicketsNext

\* Whatever the document service writes is approved when it is written and announced by
\* the one pending intent, and what the owner's Markdown lists of a phase was published
\* whole, whoever dies in between: DocumentsSafe.
THEOREM DocumentsIsSafe == TicketsSpec => []DocumentsSafe
<1>1. TicketsInit => DocHolds /\ RepHolds
  BY DocStarts, RepStarts DEF TicketsInit, DocHolds, RepHolds
<1>2. DocHolds /\ RepHolds => DocumentsSafe
  BY DocMeans, RepMeans DEF DocHolds, RepHolds, DocumentsSafe
<1> QED BY <1>1, <1>2, DocStepsKeep, RepStepsKeep, PTL DEF TicketsSpec

-----------------------------------------------------------------------------
(* The prepared workflow.                                                  *)

\* The rows of the ticket's capacity that the journal accounts for.
Taken(by) == [occupancy |-> "active", receipt |-> operation.receipt, lineage |-> by]
ReservedRow == [occupancy |-> "preparing", receipt |-> 0, lineage |-> NoOne]
ReadyRow == [occupancy |-> "idle-ready", receipt |-> operation.receipt, lineage |-> NoOne]
TakenRow == Taken(operation.consumer)

\* The row is that of the last action the journal holds, or of the pending one.
RowAccounted ==
    /\ operation.done = 0 =>
         slot = Prep!Free \/ (operation.pending = "reservation" /\ slot = ReservedRow)
    /\ operation.done \in 1..4 =>
         slot = ReservedRow \/ (operation.pending = "ready" /\ slot = ReadyRow)
    /\ operation.done = 5 =>
         slot = ReadyRow \/ (operation.pending = "consume" /\ slot = TakenRow)
    /\ operation.done = 6 => slot = TakenRow

JournalOrdered ==
    /\ operation.pending # "none" =>
         operation.done < 6 /\ operation.pending = Prep!Actions[operation.done + 1]
    /\ operation.state = "ready" => operation.done = 5
    /\ operation.state = "consumed" => operation.done = 6
    /\ operation.attempt = 0 => operation = Prep!NotRequested /\ owner = NoOne

\* What was performed is there, although it is not in the journal yet.
PerformedThere ==
    owner # NoOne /\ claim[owner].at = "performed" =>
      /\ operation.pending # "none"
      /\ operation.pending = "reservation" => slot = ReservedRow
      /\ operation.pending = "ready" => slot = ReadyRow
      /\ operation.pending = "consume" => slot = TakenRow

ClaimsAccounted ==
    /\ \A p \in Prep!Callers :
         /\ claim[p].at = "authorized" /\ claim[p].op = "retry" => claim[p].seen \in consents
         /\ claim[p].op = "consume" => p \in Builders
    /\ torn => owner = NoOne
    /\ admitted # {} => slot.occupancy = "active" /\ admitted \subseteq {slot.lineage}

\* The inductive invariant behind the prepared workflow's part of PreparedSafe.
PrepInv ==
    /\ Prep!PreparedTypeOK /\ RowAccounted /\ JournalOrdered /\ PerformedThere /\ ClaimsAccounted
    /\ Prep!RetriesConfirmed

LEMMA PrepConstants ==
    /\ NoOne \notin Prep!Callers /\ Builders \subseteq Prep!Callers /\ NoOne \notin Builders
    /\ Permits \in Nat \ {0} /\ MaxAttempts \in Nat \ {0} /\ MaxLeases \in Nat /\ MaxSteps \in Nat /\ MaxCrashes \in Nat
BY PreparedConstants DEF Prep!PreparedAssumption, Prep!Callers

LEMMA SixActions ==
    /\ Len(Prep!Actions) = 6
    /\ Prep!Actions[1] = "reservation" /\ Prep!Actions[2] = "allocation" /\ Prep!Actions[3] = "branch"
    /\ Prep!Actions[4] = "reread" /\ Prep!Actions[5] = "ready" /\ Prep!Actions[6] = "consume"
BY DEF Prep!Actions

Operations ==
    [state : {"not-requested", "preparing", "ready", "consumed", "not-ready-capacity", "uncertain-blocked"},
     attempt : 0..MaxAttempts, pending : {"none", "reread"} \cup Prep!Effects, done : 0..6,
     lease : 0..MaxLeases, receipt : 0..MaxLeases, consumer : {NoOne} \cup Builders, failure : Prep!Failures]
Claims ==
    [at : {"idle", "asking", "authorized", "running", "performed", "stopped", "consumed", "gone", "dead"},
     op : {"none", "request", "retry", "consume"}, seen : [attempt : 0..MaxAttempts, failure : Prep!Failures]]
SlotRows == [occupancy : {"none", "preparing", "idle-ready", "active"}, receipt : 0..MaxLeases,
             lineage : {NoOne} \cup Builders]
AtWork == {"running", "performed", "stopped"}

LEMMA PrepTypes ==
    Prep!PreparedTypeOK <=>
      /\ policy \in {"none", "active", "revoked"} /\ granted \in BOOLEAN /\ current \in BOOLEAN
      /\ operation \in Operations /\ torn \in BOOLEAN /\ owner \in {NoOne} \cup Prep!Callers
      /\ claim \in [Prep!Callers -> Claims] /\ slot \in SlotRows
      /\ rivals \in 0..Permits /\ lease \in 0..MaxLeases /\ leases \in 0..MaxLeases
      /\ roomy \in BOOLEAN /\ branch \in BOOLEAN /\ exact \in BOOLEAN
      /\ admitted \subseteq Builders /\ decided \in 0..MaxSteps /\ crashed \in 0..MaxCrashes
      /\ owner # NoOne => claim[owner].at \in AtWork
BY SixActions DEF Prep!PreparedTypeOK, Operations, Claims, SlotRows, AtWork

\* What the journal may have pending after so many actions.
LEMMA PendingIs ==
    ASSUME operation \in Operations, JournalOrdered
    PROVE  /\ operation.pending = "reservation" => operation.done = 0
           /\ operation.pending = "allocation" => operation.done = 1
           /\ operation.pending = "branch" => operation.done = 2
           /\ operation.pending = "reread" => operation.done = 3
           /\ operation.pending = "ready" => operation.done = 4
           /\ operation.pending = "consume" => operation.done = 5
           /\ operation.pending # "none" => operation.done \in 0..5
<1>1. operation.done \in {0, 1, 2, 3, 4, 5, 6}
  BY DEF Operations
<1> QED BY <1>1, SixActions DEF JournalOrdered

LEMMA PrepMeans ==
    PrepInv => Prep!PreparedTypeOK /\ Prep!JournalMatchesRow /\ Prep!RetriesConfirmed
<1> SUFFICES ASSUME PrepInv PROVE Prep!JournalMatchesRow
  BY DEF PrepInv
<1>1. operation \in Operations /\ slot \in SlotRows /\ RowAccounted /\ JournalOrdered /\ ClaimsAccounted
  BY PrepTypes DEF PrepInv
<1>2. operation.done \in {0, 1, 2, 3, 4, 5, 6}
  BY <1>1 DEF Operations
<1>3. Prep!Status = "ready" => operation.pending = "none" /\ operation.done = 5
  BY <1>1 DEF Prep!Status, JournalOrdered
<1>4. Prep!Status = "consumed" => operation.pending = "none" /\ operation.done = 6
  BY <1>1 DEF Prep!Status, JournalOrdered
<1>5. Prep!Status = "ready" => slot = [occupancy |-> "idle-ready", receipt |-> operation.receipt, lineage |-> NoOne]
  BY <1>1, <1>3 DEF RowAccounted, ReadyRow
<1>6. Prep!Status = "consumed" => slot.occupancy = "active" /\ slot.lineage = operation.consumer
  BY <1>1, <1>4 DEF RowAccounted, TakenRow, Taken
<1>7. slot.occupancy = "active" => operation.consumer = slot.lineage
  BY <1>1, <1>2 DEF RowAccounted, TakenRow, Taken, ReadyRow, ReservedRow, Prep!Free
<1>8. operation.done > 0 => slot # Prep!Free
  BY <1>1, <1>2 DEF RowAccounted, TakenRow, Taken, ReadyRow, ReservedRow, Prep!Free
<1>9. admitted \subseteq {slot.lineage}
  BY <1>1 DEF ClaimsAccounted
<1> QED BY <1>5, <1>6, <1>7, <1>8, <1>9 DEF Prep!JournalMatchesRow

LEMMA PrepStarts ==
    ASSUME Prep!PreparedInit
    PROVE  PrepInv
<1>1. operation = Prep!NotRequested /\ Prep!NotRequested \in Operations
  BY PrepConstants DEF Prep!PreparedInit, Prep!NotRequested, Operations, Prep!Failures
<1>2. slot = Prep!Free /\ Prep!Free \in SlotRows
  BY PrepConstants DEF Prep!PreparedInit, Prep!Free, SlotRows
<1>3. claim = [p \in Prep!Callers |-> Prep!Resting] /\ Prep!Resting \in Claims
  BY PrepConstants DEF Prep!PreparedInit, Prep!Resting, Prep!NoConsent, Claims, Prep!Failures
<1>4. \A p \in Prep!Callers : claim[p].at = "idle" /\ claim[p].op = "none"
  BY <1>3 DEF Prep!Resting
<1>5. Prep!PreparedTypeOK
  <2>1. policy \in {"none", "active", "revoked"} /\ granted \in BOOLEAN /\ current \in BOOLEAN
        /\ torn \in BOOLEAN /\ owner = NoOne /\ roomy \in BOOLEAN /\ branch \in BOOLEAN /\ exact \in BOOLEAN
    BY DEF Prep!PreparedInit
  <2>2. rivals \in 0..Permits /\ lease \in 0..MaxLeases /\ leases \in 0..MaxLeases
        /\ decided \in 0..MaxSteps /\ crashed \in 0..MaxCrashes
    BY PrepConstants DEF Prep!PreparedInit
  <2>3. claim \in [Prep!Callers -> Claims]
    BY <1>3
  <2>4. admitted \subseteq Builders
    BY DEF Prep!PreparedInit
  <2> QED BY <1>1, <1>2, <2>1, <2>2, <2>3, <2>4, PrepTypes
<1>6. RowAccounted /\ JournalOrdered
  BY <1>1, <1>2 DEF RowAccounted, JournalOrdered, Prep!NotRequested, Prep!PreparedInit
<1>7. PerformedThere /\ ClaimsAccounted /\ Prep!RetriesConfirmed
  BY <1>1, <1>4 DEF PerformedThere, ClaimsAccounted, Prep!RetriesConfirmed, Prep!PreparedInit, Prep!NotRequested
<1> QED BY <1>5, <1>6, <1>7 DEF PrepInv

\* What a call may become: it moves on, it leaves, it dies.
LEMMA ClaimForms ==
    ASSUME PrepInv, NEW p \in Prep!Callers
    PROVE  /\ claim[p] \in Claims /\ Prep!Resting \in Claims
           /\ Prep!Resting.at = "idle" /\ Prep!Resting.op = "none"
           /\ \A at \in {"idle", "asking", "authorized", "running", "performed", "stopped", "consumed", "gone", "dead"} :
                /\ [claim[p] EXCEPT !.at = at] \in Claims /\ [claim[p] EXCEPT !.at = at].at = at
                /\ [claim[p] EXCEPT !.at = at].op = claim[p].op /\ [claim[p] EXCEPT !.at = at].seen = claim[p].seen
                /\ [Prep!Resting EXCEPT !.at = at] \in Claims /\ [Prep!Resting EXCEPT !.at = at].at = at
                /\ [Prep!Resting EXCEPT !.at = at].op = "none"
<1>1. claim[p] \in Claims
  BY PrepTypes DEF PrepInv
<1>2. Prep!Resting \in Claims /\ Prep!Resting.at = "idle" /\ Prep!Resting.op = "none"
  BY PrepConstants DEF Prep!Resting, Prep!NoConsent, Claims, Prep!Failures
<1> QED BY <1>1, <1>2 DEF Claims

\* One call moves, with the mutex or without it: the rest of the invariant is what is left.
LEMMA PrepMoves ==
    ASSUME PrepInv, NEW p \in Prep!Callers, NEW next \in Claims,
           claim' = [claim EXCEPT ![p] = next], owner' \in {owner, NoOne, p},
           owner' = p => next.at \in AtWork /\ ~torn',
           torn' \in BOOLEAN, crashed' \in 0..MaxCrashes, torn' => owner' = NoOne,
           next.at = "authorized" /\ next.op = "retry" => next.seen \in consents',
           next.op = "consume" => p \in Builders, consents \subseteq consents',
           UNCHANGED <<policy, granted, current, rivals, roomy, exact, decided>>,
           lease' \in 0..MaxLeases, leases' \in 0..MaxLeases, branch' \in BOOLEAN,
           admitted' \subseteq Builders, admitted' # {} => slot'.occupancy = "active" /\ admitted' \subseteq {slot'.lineage},
           operation' \in Operations, slot' \in SlotRows, RowAccounted', JournalOrdered', PerformedThere',
           Prep!RetriesConfirmed'
    PROVE  PrepInv'
<1>1. \A q \in Prep!Callers : claim'[q] = IF q = p THEN next ELSE claim[q]
  BY PrepTypes DEF PrepInv
<1>2. claim' \in [Prep!Callers -> Claims]
  BY PrepTypes DEF PrepInv
<1>3. owner' \in {NoOne} \cup Prep!Callers
  BY PrepTypes DEF PrepInv
<1>4. owner' # NoOne => claim'[owner'].at \in AtWork
  BY <1>1, <1>3, PrepTypes DEF PrepInv
<1>5. Prep!PreparedTypeOK'
  <2>1. /\ policy' \in {"none", "active", "revoked"} /\ granted' \in BOOLEAN /\ current' \in BOOLEAN
        /\ rivals' \in 0..Permits /\ roomy' \in BOOLEAN /\ exact' \in BOOLEAN /\ decided' \in 0..MaxSteps
    BY PrepTypes DEF PrepInv
  <2>2. /\ policy' \in {"none", "active", "revoked"} /\ granted' \in BOOLEAN /\ current' \in BOOLEAN
        /\ operation' \in Operations /\ torn' \in BOOLEAN /\ owner' \in {NoOne} \cup Prep!Callers
        /\ claim' \in [Prep!Callers -> Claims] /\ slot' \in SlotRows
        /\ rivals' \in 0..Permits /\ lease' \in 0..MaxLeases /\ leases' \in 0..MaxLeases
        /\ roomy' \in BOOLEAN /\ branch' \in BOOLEAN /\ exact' \in BOOLEAN
        /\ admitted' \subseteq Builders /\ decided' \in 0..MaxSteps /\ crashed' \in 0..MaxCrashes
        /\ owner' # NoOne => claim'[owner'].at \in AtWork
    BY <2>1, <1>2, <1>3, <1>4
  <2> QED BY <2>2, SixActions DEF Prep!PreparedTypeOK, Operations, Claims, SlotRows, AtWork
<1>6. ClaimsAccounted'
  <2>1. \A q \in Prep!Callers :
          /\ claim'[q].at = "authorized" /\ claim'[q].op = "retry" => claim'[q].seen \in consents'
          /\ claim'[q].op = "consume" => q \in Builders
    BY <1>1 DEF PrepInv, ClaimsAccounted
  <2> QED BY <2>1 DEF ClaimsAccounted
<1> QED BY <1>5, <1>6 DEF PrepInv

\* The same where neither the journal nor the row changes.
LEMMA PrepCalls ==
    ASSUME PrepInv, NEW p \in Prep!Callers, NEW next \in Claims,
           claim' = [claim EXCEPT ![p] = next], owner' \in {owner, NoOne, p}, next.at # "performed",
           owner' = p => next.at \in AtWork /\ ~torn',
           owner' # NoOne => operation.attempt # 0,
           torn' \in BOOLEAN, crashed' \in 0..MaxCrashes, torn' => owner' = NoOne,
           next.at = "authorized" /\ next.op = "retry" => next.seen \in consents',
           next.op = "consume" => p \in Builders, consents \subseteq consents',
           UNCHANGED <<policy, granted, current, operation, slot, lease, leases, branch, rivals, roomy, exact, decided>>,
           admitted' \subseteq Builders, admitted' # {} => slot.occupancy = "active" /\ admitted' \subseteq {slot.lineage}
    PROVE  PrepInv'
<1>1. operation' \in Operations /\ slot' \in SlotRows /\ lease' \in 0..MaxLeases /\ leases' \in 0..MaxLeases
      /\ branch' \in BOOLEAN
  BY PrepTypes DEF PrepInv
<1>2. RowAccounted'
  BY DEF PrepInv, RowAccounted, ReservedRow, ReadyRow, TakenRow, Taken
<1>3. JournalOrdered'
  BY DEF PrepInv, JournalOrdered
<1>4. PerformedThere'
  <2>1. \A q \in Prep!Callers : claim'[q] = IF q = p THEN next ELSE claim[q]
    BY PrepTypes DEF PrepInv
  <2>2. owner \in {NoOne} \cup Prep!Callers
    BY PrepTypes DEF PrepInv
  <2> QED BY <2>1, <2>2 DEF PrepInv, PerformedThere, ReservedRow, ReadyRow, TakenRow, Taken
<1>5. Prep!RetriesConfirmed'
  BY DEF PrepInv, Prep!RetriesConfirmed
<1>6. admitted' # {} => slot'.occupancy = "active" /\ admitted' \subseteq {slot'.lineage}
  OBVIOUS
<1> QED BY <1>1, <1>2, <1>3, <1>4, <1>5, <1>6, PrepMoves

\* A call that leaves, or dies, gives the mutex back and holds nothing.
LEMMA PrepLeaves ==
    ASSUME PrepInv, NEW p \in Prep!Callers, Prep!Leaves(p) \/ Prep!Dies(p),
           torn' \in BOOLEAN, crashed' \in 0..MaxCrashes, torn' => torn \/ owner \in {NoOne, p},
           UNCHANGED <<policy, granted, current, operation, slot, lease, leases, branch, rivals, roomy, exact, decided>>,
           consents' = consents,
           admitted' \subseteq Builders, admitted' # {} => slot.occupancy = "active" /\ admitted' \subseteq {slot.lineage}
    PROVE  PrepInv'
<1>1. PICK next : next = (IF Prep!Leaves(p)
                          THEN (IF p \in Builders THEN [claim[p] EXCEPT !.at = "gone"] ELSE Prep!Resting)
                          ELSE (IF p \in Builders THEN [Prep!Resting EXCEPT !.at = "dead"] ELSE Prep!Resting))
  BY Zenon
<1>2. next \in Claims /\ next.at \in {"idle", "gone", "dead"} /\ (next.op = "consume" => p \in Builders)
  BY <1>1, ClaimForms
<1>3. claim' = [claim EXCEPT ![p] = next]
  BY <1>1 DEF Prep!Leaves, Prep!Dies
<1>4. owner' = (IF owner = p THEN NoOne ELSE owner)
  BY DEF Prep!Leaves, Prep!Dies
<1>5. owner' \in {owner, NoOne, p} /\ owner' # p
  BY <1>4, PrepConstants
<1>6. owner' # NoOne => operation.attempt # 0
  BY <1>4 DEF PrepInv, JournalOrdered
<1>7. torn' => owner' = NoOne
  BY <1>4 DEF PrepInv, ClaimsAccounted
<1> QED BY <1>2, <1>3, <1>5, <1>6, <1>7, PrepCalls

\* The call moves on, without the journal, the row or the mutex.
LEMMA PrepMovesOn ==
    ASSUME PrepInv, NEW p \in Prep!Callers, NEW next \in Claims, claim' = [claim EXCEPT ![p] = next],
           next.at # "performed", owner = p => next.at \in AtWork,
           next.at = "authorized" /\ next.op = "retry" => next.seen \in consents',
           next.op = "consume" => p \in Builders, consents \subseteq consents',
           UNCHANGED <<policy, granted, current, operation, slot, lease, leases, branch, rivals, roomy, exact, decided,
                       owner, torn, crashed, admitted>>
    PROVE  PrepInv'
<1>1. owner' \in {owner, NoOne, p} /\ (owner' = p => next.at \in AtWork /\ ~torn')
  BY PrepConstants DEF PrepInv, ClaimsAccounted
<1>2. owner' # NoOne => operation.attempt # 0
  BY DEF PrepInv, JournalOrdered
<1>3. torn' \in BOOLEAN /\ crashed' \in 0..MaxCrashes /\ (torn' => owner' = NoOne)
  BY PrepTypes DEF PrepInv, ClaimsAccounted
<1>4. admitted' \subseteq Builders /\ (admitted' # {} => slot.occupancy = "active" /\ admitted' \subseteq {slot.lineage})
  BY PrepTypes DEF PrepInv, ClaimsAccounted
<1> QED BY <1>1, <1>2, <1>3, <1>4, PrepCalls

\* One that rests does not hold the mutex.
LEMMA IdleHoldsNothing ==
    ASSUME PrepInv, NEW p \in Prep!Callers, claim[p].at \notin AtWork
    PROVE  owner # p
BY PrepTypes, PrepConstants DEF PrepInv

LEMMA Authorize ==
    ASSUME NEW op, NEW seen, NEW resting, resting = [at |-> "idle", op |-> "none", seen |-> seen]
    PROVE  [resting EXCEPT !.at = "authorized", !.op = op] = [at |-> "authorized", op |-> op, seen |-> seen]
<1>1. PICK mid : mid = [at |-> "authorized", op |-> "none", seen |-> seen]
  BY Zenon
<1>2. [resting EXCEPT !.at = "authorized"] = mid
  BY <1>1
<1>3. [mid EXCEPT !.op = op] = [at |-> "authorized", op |-> op, seen |-> seen]
  BY <1>1
<1> QED BY <1>2, <1>3, Zenon

LEMMA AuthorizedCall ==
    ASSUME NEW op
    PROVE  [Prep!Resting EXCEPT !.at = "authorized", !.op = op]
             = [at |-> "authorized", op |-> op, seen |-> [attempt |-> 0, failure |-> "none"]]
<1>1. Prep!Resting = [at |-> "idle", op |-> "none", seen |-> [attempt |-> 0, failure |-> "none"]]
  BY Zenon DEF Prep!Resting, Prep!NoConsent
<1> QED BY <1>1, Authorize, Zenon

LEMMA PrepCallsKeep ==
    ASSUME PrepInv, NEW p \in Prep!Callers,
           \/ Prep!AskRequest(p) \/ Prep!OpenRetry(p) \/ Prep!ConfirmRetry(p) \/ Prep!DeclineRetry(p)
           \/ p \in Builders /\ (Prep!SelectReady(p) \/ Prep!AdmitPrepared(p))
           \/ Prep!EnterTorn(p) \/ Prep!Finished(p) \/ Prep!Stop(p) \/ Prep!Crash(p)
    PROVE  PrepInv'
<1> USE DEF Prep!native, Prep!resources, Prep!outside
<1>0. /\ torn \in BOOLEAN /\ crashed \in 0..MaxCrashes /\ admitted \subseteq Builders
      /\ (admitted # {} => slot.occupancy = "active" /\ admitted \subseteq {slot.lineage})
      /\ operation \in Operations /\ claim[p] \in Claims /\ slot \in SlotRows
  BY PrepTypes DEF PrepInv, ClaimsAccounted
<1>1. CASE Prep!AskRequest(p)
  <2>1. PICK next : next = [at |-> "authorized", op |-> "request", seen |-> [attempt |-> 0, failure |-> "none"]]
    BY Zenon
  <2>2. next \in Claims /\ next.at = "authorized" /\ next.op = "request"
    <3>1. 0 \in 0..MaxAttempts /\ "none" \in Prep!Failures
      BY PrepConstants DEF Prep!Failures
    <3> QED BY <2>1, <3>1 DEF Claims
  <2>3. claim' = [claim EXCEPT ![p] = next]
    <3>1. [Prep!Resting EXCEPT !.at = "authorized", !.op = "request"] = next
      BY <2>1, AuthorizedCall
    <3> QED BY <1>1, <3>1, Zenon DEF Prep!AskRequest
  <2> QED BY <1>1, <2>2, <2>3, IdleHoldsNothing, PrepMovesOn DEF Prep!AskRequest, AtWork
<1>2. CASE Prep!OpenRetry(p)
  <2>1. PICK next : next = [at |-> "asking", op |-> "retry",
                            seen |-> [attempt |-> operation.attempt, failure |-> operation.failure]]
    BY Zenon
  <2>2. next \in Claims /\ next.at = "asking" /\ next.op = "retry"
    BY <2>1, <1>0 DEF Claims, Operations
  <2>3. claim' = [claim EXCEPT ![p] = next]
    BY <1>2, <2>1 DEF Prep!OpenRetry
  <2> QED BY <1>2, <2>2, <2>3, IdleHoldsNothing, PrepMovesOn DEF Prep!OpenRetry, AtWork
<1>3. CASE Prep!ConfirmRetry(p)
  <2>1. PICK next : next = [claim[p] EXCEPT !.at = "authorized"]
    BY Zenon
  <2>2. next \in Claims /\ next.at = "authorized" /\ next.op = claim[p].op /\ next.seen = claim[p].seen
    BY <2>1, ClaimForms
  <2>3. claim' = [claim EXCEPT ![p] = next] /\ next.seen \in consents' /\ consents \subseteq consents'
    BY <1>3, <2>1, <2>2 DEF Prep!ConfirmRetry, Prep!Moves
  <2>4. next.op = "consume" => p \in Builders
    BY <2>2 DEF PrepInv, ClaimsAccounted
  <2> QED BY <1>3, <2>2, <2>3, <2>4, IdleHoldsNothing, PrepMovesOn DEF Prep!ConfirmRetry, AtWork
<1>4. CASE Prep!DeclineRetry(p)
  BY <1>4, <1>0, PrepLeaves DEF Prep!DeclineRetry
<1>5. CASE p \in Builders /\ Prep!SelectReady(p)
  <2>1. PICK next : next = [at |-> "authorized", op |-> "consume", seen |-> [attempt |-> 0, failure |-> "none"]]
    BY Zenon
  <2>2. next \in Claims /\ next.at = "authorized" /\ next.op = "consume"
    <3>1. 0 \in 0..MaxAttempts /\ "none" \in Prep!Failures
      BY PrepConstants DEF Prep!Failures
    <3> QED BY <2>1, <3>1 DEF Claims
  <2>3. claim' = [claim EXCEPT ![p] = next]
    <3>1. [Prep!Resting EXCEPT !.at = "authorized", !.op = "consume"] = next
      BY <2>1, AuthorizedCall
    <3> QED BY <1>5, <3>1, Zenon DEF Prep!SelectReady
  <2> QED BY <1>5, <2>2, <2>3, IdleHoldsNothing, PrepMovesOn DEF Prep!SelectReady, AtWork
<1>6. CASE p \in Builders /\ Prep!AdmitPrepared(p)
  <2>1. admitted' \subseteq Builders /\ (admitted' # {} => slot.occupancy = "active" /\ admitted' \subseteq {slot.lineage})
    BY <1>6, <1>0 DEF Prep!AdmitPrepared, Prep!Admissible
  <2> QED BY <1>6, <1>0, <2>1, PrepLeaves DEF Prep!AdmitPrepared
<1>7. CASE Prep!EnterTorn(p)
  <2>1. crashed' \in 0..MaxCrashes
    BY <1>7, <1>0, PrepConstants DEF Prep!EnterTorn, Prep!Dies
  <2> QED BY <1>7, <1>0, <2>1, PrepLeaves DEF Prep!EnterTorn
<1>8. CASE Prep!Crash(p)
  <2>1. crashed' \in 0..MaxCrashes
    BY <1>8, <1>0, PrepConstants DEF Prep!Crash, Prep!Dies
  <2> QED BY <1>8, <1>0, <2>1, PrepLeaves DEF Prep!Crash
<1>9. CASE Prep!Stop(p)
  BY <1>9, <1>0, PrepLeaves DEF Prep!Stop
<1>10. CASE Prep!Finished(p)
  <2>1. CASE claim[p].op # "consume"
    BY <1>10, <1>0, <2>1, PrepLeaves DEF Prep!Finished
  <2>2. CASE claim[p].op = "consume"
    <3>1. PICK next : next = [claim[p] EXCEPT !.at = "consumed"]
      BY Zenon
    <3>2. next \in Claims /\ next.at = "consumed" /\ next.op = claim[p].op
      BY <3>1, ClaimForms
    <3>3. claim' = [claim EXCEPT ![p] = next] /\ owner' = NoOne /\ owner' # p
      BY <1>10, <2>2, <3>1, PrepConstants DEF Prep!Finished, Prep!Moves
    <3>4. next.op = "consume" => p \in Builders
      BY <3>2 DEF PrepInv, ClaimsAccounted
    <3> QED BY <1>10, <1>0, <3>2, <3>3, <3>4, PrepCalls DEF Prep!Finished
  <2> QED BY <2>1, <2>2
<1> QED BY <1>1, <1>2, <1>3, <1>4, <1>5, <1>6, <1>7, <1>8, <1>9, <1>10

\* What inspect says of the pending action, and what that says of the row.
LEMMA InspectSays ==
    ASSUME PrepInv, NEW a, a = operation.pending, a # "none"
    PROVE  /\ Prep!Inspect(a) = "absent" => Prep!Current /\ a \in Prep!Effects
           /\ a = "reservation" /\ Prep!Inspect(a) = "absent" => slot.occupancy = "none"
           /\ a = "ready" /\ Prep!Inspect(a) = "absent" => slot.occupancy = "preparing"
           /\ a = "consume" /\ Prep!Inspect(a) = "absent" => slot.occupancy = "idle-ready"
           /\ a = "reservation" /\ Prep!Inspect(a) = "observed" => slot.occupancy = "preparing"
           /\ a = "ready" /\ Prep!Inspect(a) = "observed" => slot.occupancy = "idle-ready"
           /\ a = "consume" /\ Prep!Inspect(a) = "observed" => slot.occupancy = "active"
           /\ Prep!Inspect(a) = "capacity" => a = "allocation" \/ (a = "reservation" /\ slot.occupancy = "none")
           /\ Prep!Inspect(a) = "uncertain" => a = "reservation" /\ slot.occupancy \notin {"none", "preparing"}
<1>1. a \in {"reservation", "allocation", "branch", "reread", "ready", "consume"}
  BY PrepTypes DEF PrepInv, Operations, Prep!Effects
<1>2. CASE ~Prep!Current
  <2>1. Prep!Inspect(a) = "throws"
    BY <1>2 DEF Prep!Inspect
  <2> QED BY <2>1
<1>3. CASE Prep!Current /\ a = "reservation"
  <2>1. Prep!Inspect(a) = IF slot.occupancy = "none" THEN (IF rivals = Permits THEN "capacity" ELSE "absent")
                              ELSE IF slot.occupancy = "preparing" THEN "observed" ELSE "uncertain"
    BY <1>3 DEF Prep!Inspect
  <2> QED BY <1>3, <2>1 DEF Prep!Effects
<1>4. CASE Prep!Current /\ a = "allocation"
  <2>1. Prep!Inspect(a) = IF lease # 0 THEN "observed" ELSE IF roomy THEN "absent" ELSE "capacity"
    BY <1>4 DEF Prep!Inspect
  <2> QED BY <1>4, <2>1 DEF Prep!Effects
<1>5. CASE Prep!Current /\ a = "branch"
  <2>1. Prep!Inspect(a) = IF lease = 0 \/ ~exact THEN "throws" ELSE IF branch THEN "observed" ELSE "absent"
    BY <1>5 DEF Prep!Inspect
  <2> QED BY <1>5, <2>1 DEF Prep!Effects
<1>6. CASE Prep!Current /\ a = "reread"
  <2>1. Prep!Inspect(a) = IF lease # 0 /\ branch /\ exact THEN "observed" ELSE "throws"
    BY <1>6 DEF Prep!Inspect
  <2> QED BY <1>6, <2>1
<1>7. CASE Prep!Current /\ a = "ready"
  <2>1. Prep!Inspect(a) =
          IF ~Prep!Verified \/ operation.receipt # lease THEN "throws"
          ELSE IF slot.occupancy = "preparing" THEN "absent"
          ELSE IF slot.occupancy = "idle-ready" /\ slot.receipt = operation.receipt THEN "observed" ELSE "throws"
    BY <1>7 DEF Prep!Inspect
  <2> QED BY <1>7, <2>1 DEF Prep!Effects
<1>8. CASE Prep!Current /\ a = "consume"
  <2>1. Prep!Inspect(a) =
          IF ~Prep!Verified \/ operation.receipt # lease THEN "throws"
          ELSE IF slot.occupancy = "idle-ready" /\ slot.receipt = operation.receipt THEN "absent"
          ELSE IF slot.occupancy = "active" /\ slot.lineage = operation.consumer THEN "observed" ELSE "throws"
    BY <1>8 DEF Prep!Inspect
  <2> QED BY <1>8, <2>1 DEF Prep!Effects
<1> QED BY <1>1, <1>2, <1>3, <1>4, <1>5, <1>6, <1>7, <1>8

\* The row that stands when an action is pending.
LEMMA PendingRow ==
    ASSUME PrepInv, operation.pending # "none"
    PROVE  /\ operation.pending = "reservation" => operation.done = 0 /\ slot \in {Prep!Free, ReservedRow}
           /\ operation.pending = "ready" => operation.done = 4 /\ slot \in {ReservedRow, ReadyRow}
           /\ operation.pending = "consume" => operation.done = 5 /\ slot \in {ReadyRow, TakenRow}
           /\ operation.pending \notin {"reservation", "ready", "consume"} =>
                operation.done \in 1..3 /\ slot = ReservedRow
           /\ Prep!Free.occupancy = "none" /\ ReservedRow.occupancy = "preparing"
           /\ ReadyRow.occupancy = "idle-ready" /\ TakenRow.occupancy = "active"
<1>1. operation \in Operations /\ JournalOrdered /\ RowAccounted
  BY PrepTypes DEF PrepInv
<1>2. operation.pending \in {"reservation", "allocation", "branch", "reread", "ready", "consume"}
  BY <1>1 DEF Operations, Prep!Effects
<1>3. operation.pending \notin {"reservation", "ready", "consume"} => operation.done \in 1..3
  BY <1>1, <1>2, PendingIs
<1>4. /\ operation.pending = "reservation" => operation.done = 0
      /\ operation.pending = "ready" => operation.done = 4
      /\ operation.pending = "consume" => operation.done = 5
  BY <1>1, PendingIs
<1>5. /\ Prep!Free.occupancy = "none" /\ ReservedRow.occupancy = "preparing"
      /\ ReadyRow.occupancy = "idle-ready" /\ TakenRow.occupancy = "active"
  BY DEF Prep!Free, ReservedRow, ReadyRow, TakenRow, Taken
<1> QED BY <1>1, <1>3, <1>4, <1>5 DEF RowAccounted

LEMMA EnterRuns ==
    ASSUME PrepInv, NEW p \in Prep!Callers, Prep!Moves(p, "running"), owner' = p, ~torn, operation.attempt # 0,
           UNCHANGED <<policy, granted, current, operation, slot, lease, leases, branch, rivals, roomy, exact, decided,
                       torn, crashed, consents, admitted>>
    PROVE  PrepInv'
<1>1. PICK next : next = [claim[p] EXCEPT !.at = "running"]
  BY Zenon
<1>2. next \in Claims /\ next.at = "running" /\ next.op = claim[p].op
  BY <1>1, ClaimForms
<1>3. claim' = [claim EXCEPT ![p] = next]
  BY <1>1 DEF Prep!Moves
<1>4. next.op = "consume" => p \in Builders
  BY <1>2 DEF PrepInv, ClaimsAccounted
<1>5. torn' \in BOOLEAN /\ crashed' \in 0..MaxCrashes /\ ~torn'
  BY PrepTypes DEF PrepInv
<1>6. admitted' \subseteq Builders /\ (admitted' # {} => slot.occupancy = "active" /\ admitted' \subseteq {slot.lineage})
  BY PrepTypes DEF PrepInv, ClaimsAccounted
<1> QED BY <1>2, <1>3, <1>4, <1>5, <1>6, PrepCalls DEF AtWork

\* A call that enters and opens an attempt.
LEMMA AttemptOpens ==
    ASSUME PrepInv, NEW p \in Prep!Callers, Prep!Moves(p, "running"), owner' = p, ~torn,
           UNCHANGED <<policy, granted, current, slot, lease, leases, branch, rivals, roomy, exact, decided,
                       torn, crashed, consents, admitted>>,
           NEW next \in Operations, operation' = next, next.pending = "none", operation.pending = "none",
           next.done = operation.done, next.receipt = operation.receipt, next.consumer = operation.consumer,
           next.state = "preparing", next.attempt = operation.attempt + 1,
           operation.attempt > 0 => \E c \in consents : c.attempt = operation.attempt
    PROVE  PrepInv'
<1>1. PICK moved : moved = [claim[p] EXCEPT !.at = "running"]
  BY Zenon
<1>2. moved \in Claims /\ moved.at = "running" /\ moved.op = claim[p].op
  BY <1>1, ClaimForms
<1>3. claim' = [claim EXCEPT ![p] = moved]
  BY <1>1 DEF Prep!Moves
<1>4. moved.op = "consume" => p \in Builders
  BY <1>2 DEF PrepInv, ClaimsAccounted
<1>5. torn' \in BOOLEAN /\ crashed' \in 0..MaxCrashes /\ ~torn' /\ slot' \in SlotRows
      /\ lease' \in 0..MaxLeases /\ leases' \in 0..MaxLeases /\ branch' \in BOOLEAN
  BY PrepTypes DEF PrepInv
<1>6. admitted' \subseteq Builders /\ (admitted' # {} => slot'.occupancy = "active" /\ admitted' \subseteq {slot'.lineage})
  BY PrepTypes DEF PrepInv, ClaimsAccounted
<1>7. operation \in Operations
  BY PrepTypes DEF PrepInv
<1>8. RowAccounted'
  BY DEF PrepInv, RowAccounted, ReservedRow, ReadyRow, TakenRow, Taken
<1>9. JournalOrdered'
  BY <1>7 DEF JournalOrdered, Operations
<1>10. PerformedThere'
  BY <1>2, <1>3, PrepTypes DEF PerformedThere, PrepInv
<1>11. Prep!RetriesConfirmed'
  BY <1>7 DEF Prep!RetriesConfirmed, PrepInv, Operations
<1> QED BY <1>2, <1>3, <1>4, <1>5, <1>6, <1>8, <1>9, <1>10, <1>11, PrepMoves DEF AtWork

LEMMA EnterKeeps ==
    ASSUME PrepInv, NEW p \in Prep!Callers, Prep!Enter(p)
    PROVE  PrepInv'
<1> USE DEF Prep!native, Prep!resources
<1>0. /\ torn \in BOOLEAN /\ crashed \in 0..MaxCrashes /\ admitted \subseteq Builders /\ operation \in Operations
      /\ (admitted # {} => slot.occupancy = "active" /\ admitted \subseteq {slot.lineage})
      /\ owner = NoOne /\ claim[p].at = "authorized"
      /\ UNCHANGED <<policy, granted, current, slot, lease, leases, branch, rivals, roomy, exact, decided,
                     torn, crashed, consents, admitted>>
  BY PrepTypes DEF PrepInv, ClaimsAccounted, Prep!Enter
<1>1. CASE Prep!Leaves(p) /\ operation' = operation
  BY <1>0, <1>1, PrepLeaves
<1>2. CASE Prep!Moves(p, "running") /\ operation' = operation /\ owner' = p /\ ~torn /\ operation.attempt # 0
  BY <1>0, <1>2, EnterRuns
<1>3. CASE Prep!Moves(p, "consumed") /\ operation' = operation /\ owner' = owner
  <2>1. PICK next : next = [claim[p] EXCEPT !.at = "consumed"]
    BY Zenon
  <2>2. next \in Claims /\ next.at = "consumed" /\ next.op = claim[p].op
    BY <2>1, ClaimForms
  <2>3. claim' = [claim EXCEPT ![p] = next]
    BY <1>3, <2>1 DEF Prep!Moves
  <2>4. next.op = "consume" => p \in Builders
    BY <2>2 DEF PrepInv, ClaimsAccounted
  <2> QED BY <1>0, <1>3, <2>2, <2>3, <2>4, PrepConstants, PrepMovesOn
<1>4. CASE /\ operation.attempt = 0 /\ owner' = p /\ ~torn /\ Prep!Moves(p, "running")
           /\ operation' = [Prep!NotRequested EXCEPT !.state = "preparing", !.attempt = 1]
  <2>1. PICK next : next = [Prep!NotRequested EXCEPT !.state = "preparing", !.attempt = 1]
    BY Zenon
  <2>2. operation = Prep!NotRequested
    BY <1>4 DEF PrepInv, JournalOrdered
  <2>3. next \in Operations /\ next.pending = "none" /\ operation.pending = "none" /\ next.done = operation.done
        /\ next.receipt = operation.receipt /\ next.consumer = operation.consumer /\ next.state = "preparing"
        /\ next.attempt = operation.attempt + 1
    <3>1. operation.attempt = 0 /\ operation.pending = "none" /\ operation.state = "not-requested"
      BY <2>2 DEF Prep!NotRequested
    <3>2. 1 \in 0..MaxAttempts
      BY PrepConstants
    <3>3. next = [operation EXCEPT !.state = "preparing", !.attempt = 1]
      BY <2>1, <2>2, Zenon
    <3>4. next \in Operations
      BY <1>0, <3>2, <3>3 DEF Operations
    <3> QED BY <1>0, <3>1, <3>3, <3>4 DEF Operations
  <2>4. operation' = next
    BY <1>4, <2>1
  <2> QED BY <1>0, <1>4, <2>3, <2>4, AttemptOpens
<1>5. CASE /\ owner' = p /\ ~torn /\ Prep!Moves(p, "running") /\ operation' = Prep!Retried
           /\ Prep!RetryAllowed(p) /\ claim[p].op = "retry"
  <2>1. PICK next : next = [operation EXCEPT !.attempt = @ + 1, !.state = "preparing"]
    BY Zenon
  <2>2. operation.attempt > 0 /\ operation.pending = "none" /\ operation.attempt < MaxAttempts
        /\ claim[p].seen.attempt = operation.attempt
    BY <1>5 DEF Prep!RetryAllowed, Prep!RetryFits
  <2>3. next \in Operations /\ next.pending = "none" /\ next.done = operation.done
        /\ next.receipt = operation.receipt /\ next.consumer = operation.consumer /\ next.state = "preparing"
        /\ next.attempt = operation.attempt + 1
    <3>1. operation.attempt + 1 \in 0..MaxAttempts
      BY <1>0, <2>2, PrepConstants DEF Operations
    <3>2. next = [operation EXCEPT !.attempt = operation.attempt + 1, !.state = "preparing"]
      BY <2>1, Zenon
    <3>3. next \in Operations
      BY <1>0, <3>1, <3>2 DEF Operations
    <3> QED BY <1>0, <2>2, <3>2, <3>3 DEF Operations
  <2>4. operation' = next
    BY <1>5, <2>1 DEF Prep!Retried
  <2>5. claim[p].seen \in consents
    BY <1>0, <1>5 DEF PrepInv, ClaimsAccounted
  <2>6. \E c \in consents : c.attempt = operation.attempt
    BY <2>2, <2>5
  <2> QED BY <1>0, <1>5, <2>2, <2>3, <2>4, <2>6, AttemptOpens
<1>6. operation.state \in {"ready", "preparing"} => operation.attempt # 0
  BY DEF PrepInv, JournalOrdered, Prep!NotRequested
<1>7. operation.attempt > 0 => operation.attempt # 0
  BY <1>0 DEF Operations
<1> QED BY <1>1, <1>2, <1>3, <1>4, <1>5, <1>6, <1>7 DEF Prep!Enter, Prep!Readable, Prep!MayConsume

LEMMA ClaimMoved ==
    ASSUME PrepInv, NEW p \in Prep!Callers, NEW to \in {"running", "stopped", "performed", "gone"}, NEW next,
           next = [claim[p] EXCEPT !.at = to]
    PROVE  next \in Claims /\ next.at = to /\ next.op = claim[p].op
<1>1. claim[p] \in Claims
  BY PrepTypes DEF PrepInv
<1> QED BY <1>1 DEF Claims

\* A record is published, or its caller dies half way through it.
LEMMA PrepPublishes ==
    ASSUME PrepInv, NEW p \in Prep!Callers, owner = p, NEW record \in Operations, NEW to \in {"running", "stopped"},
           Prep!Publish(p, record, to), record.attempt = operation.attempt,
           record.pending # "none" => record.done < 6 /\ record.pending = Prep!Actions[record.done + 1],
           record.state = "ready" => record.done = 5, record.state = "consumed" => record.done = 6,
           RowAccounted',
           UNCHANGED <<policy, granted, current, slot, lease, leases, branch, rivals, roomy, exact, decided,
                       consents, admitted>>
    PROVE  PrepInv'
<1>1. /\ operation' = record
      /\ \/ Prep!Moves(p, to) /\ UNCHANGED <<torn, owner, crashed>>
         \/ crashed < MaxCrashes /\ torn' = TRUE /\ Prep!Dies(p)
  BY DEF Prep!Publish
<1>2. PICK next : next = (IF Prep!Moves(p, to) /\ UNCHANGED <<torn, owner, crashed>>
                          THEN [claim[p] EXCEPT !.at = to]
                          ELSE (IF p \in Builders THEN [Prep!Resting EXCEPT !.at = "dead"] ELSE Prep!Resting))
  BY Zenon
<1>3. next \in Claims /\ (next.op = "consume" => p \in Builders) /\ next.at \in {to, "dead", "idle"}
  <2>1. claim[p].op = "consume" => p \in Builders
    BY DEF PrepInv, ClaimsAccounted
  <2>3. [Prep!Resting EXCEPT !.at = "dead"] \in Claims /\ [Prep!Resting EXCEPT !.at = "dead"].at = "dead"
        /\ [Prep!Resting EXCEPT !.at = "dead"].op = "none"
    <3>1. "dead" \in {"idle", "asking", "authorized", "running", "performed", "stopped", "consumed", "gone", "dead"}
      OBVIOUS
    <3> QED BY <3>1, ClaimForms, Zenon
  <2>4. CASE next = [claim[p] EXCEPT !.at = to]
    BY <2>1, <2>4, ClaimMoved
  <2>5. CASE next = [Prep!Resting EXCEPT !.at = "dead"]
    BY <2>3, <2>5
  <2>6. CASE next = Prep!Resting
    BY <2>6, ClaimForms
  <2> QED BY <1>2, <2>4, <2>5, <2>6
<1>4. claim' = [claim EXCEPT ![p] = next]
  BY <1>1, <1>2 DEF Prep!Moves, Prep!Dies
<1>5. /\ owner' \in {owner, NoOne, p} /\ (owner' = p => next.at \in AtWork /\ ~torn')
      /\ torn' \in BOOLEAN /\ (torn' => owner' = NoOne) /\ crashed' \in 0..MaxCrashes
  <2>1. ~torn /\ p # NoOne /\ crashed \in 0..MaxCrashes
    BY PrepTypes, PrepConstants DEF PrepInv, ClaimsAccounted
  <2>2. CASE Prep!Moves(p, to) /\ UNCHANGED <<torn, owner, crashed>>
    <3>1. next.at = to
      BY <1>2, <2>2, ClaimForms
    <3>2. owner' = owner /\ torn' = FALSE /\ crashed' = crashed
      BY <2>1, <2>2, PrepTypes DEF PrepInv
    <3>3. next.at \in AtWork
      BY <3>1 DEF AtWork
    <3> QED BY <2>1, <3>2, <3>3
  <2>3. CASE crashed < MaxCrashes /\ torn' = TRUE /\ Prep!Dies(p)
    BY <2>1, <2>3, PrepConstants DEF Prep!Dies
  <2> QED BY <1>1, <2>2, <2>3
<1>6. slot' \in SlotRows /\ lease' \in 0..MaxLeases /\ leases' \in 0..MaxLeases /\ branch' \in BOOLEAN
      /\ admitted' \subseteq Builders /\ (admitted' # {} => slot'.occupancy = "active" /\ admitted' \subseteq {slot'.lineage})
  BY PrepTypes DEF PrepInv, ClaimsAccounted
<1>7. operation.attempt # 0
  BY PrepConstants DEF PrepInv, JournalOrdered
<1>8. JournalOrdered'
  BY <1>1, <1>7 DEF JournalOrdered
<1>9. PerformedThere'
  <2>1. \A q \in Prep!Callers : q # NoOne /\ claim'[q].at = "performed" => q # p
    BY <1>3, <1>4, PrepTypes DEF PrepInv
  <2> QED BY <1>5, <2>1 DEF PerformedThere
<1>10. Prep!RetriesConfirmed'
  BY <1>1 DEF Prep!RetriesConfirmed, PrepInv
<1>11. operation' \in Operations /\ consents \subseteq consents'
  BY <1>1
<1>12. next.at = "authorized" /\ next.op = "retry" => next.seen \in consents'
  BY <1>3
<1> QED BY <1>3, <1>4, <1>5, <1>6, <1>8, <1>9, <1>10, <1>11, <1>12, PrepMoves

\* The next action, where nothing is pending.
LEMMA NextIs ==
    ASSUME operation \in Operations, Prep!NextAction # "none"
    PROVE  /\ operation.done \in 0..5 /\ Prep!NextAction = Prep!Actions[operation.done + 1]
           /\ Prep!NextAction \in {"reread"} \cup Prep!Effects
           /\ Prep!NextAction = "ready" <=> operation.done = 4
           /\ Prep!NextAction = "consume" <=> operation.done = 5
<1>1. operation.done \in {0, 1, 2, 3, 4, 5, 6}
  BY DEF Operations
<1>2. operation.done # 6 /\ Prep!NextAction = Prep!Actions[operation.done + 1]
  BY <1>1, SixActions DEF Prep!NextAction
<1> QED BY <1>1, <1>2, SixActions DEF Prep!Effects

LEMMA StartKeeps ==
    ASSUME PrepInv, NEW p \in Prep!Callers, Prep!Start(p)
    PROVE  PrepInv'
<1>1. /\ owner = p /\ claim[p].at = "running" /\ operation.pending = "none" /\ Prep!NextAction # "none"
      /\ Prep!NextAction = "consume" => claim[p].op = "consume"
      /\ Prep!Publish(p, Prep!Started(Prep!NextAction, IF Prep!NextAction = "consume" THEN p ELSE NoOne), "running")
      /\ UNCHANGED <<policy, granted, current, slot, lease, leases, branch, rivals, roomy, exact, decided,
                     consents, admitted>>
  BY DEF Prep!Start, Prep!Running, Prep!native, Prep!resources
<1>2. operation \in Operations /\ lease \in 0..MaxLeases
  BY PrepTypes DEF PrepInv
<1>3. PICK a : a = Prep!NextAction
  BY Zenon
<1>4. /\ operation.done \in 0..5 /\ a = Prep!Actions[operation.done + 1] /\ a \in {"reread"} \cup Prep!Effects
      /\ (a = "ready" <=> operation.done = 4) /\ (a = "consume" <=> operation.done = 5)
  BY <1>1, <1>2, <1>3, NextIs
<1>5. PICK by : by = IF a = "consume" THEN p ELSE NoOne
  BY Zenon
<1>6. by \in {NoOne} \cup Builders
  BY <1>1, <1>3, <1>5 DEF PrepInv, ClaimsAccounted
<1>7. PICK paid : paid = IF a = "ready" THEN lease ELSE operation.receipt
  BY Zenon
<1>8. paid \in 0..MaxLeases
  BY <1>2, <1>7 DEF Operations
<1>9. PICK record : record = [operation EXCEPT !.pending = a, !.consumer = by, !.receipt = paid]
  BY Zenon
<1>10. Prep!Started(a, by) = record
  BY <1>7, <1>9, Zenon DEF Prep!Started
<1>11. record \in Operations
  BY <1>2, <1>4, <1>6, <1>8, <1>9 DEF Operations
<1>12. /\ record.pending = a /\ record.consumer = by /\ record.receipt = paid /\ record.done = operation.done
       /\ record.state = operation.state /\ record.attempt = operation.attempt
  BY <1>2, <1>9 DEF Operations
<1>13. Prep!Publish(p, record, "running")
  BY <1>1, <1>3, <1>5, <1>10
<1>14. operation' = record
  BY <1>13 DEF Prep!Publish
<1>15. a # "none" /\ operation.done < 6
  BY <1>4 DEF Prep!Effects
<1>16. RowAccounted'
  <2>1. CASE operation.done \in 0..4
    <3>1. slot' = slot /\ operation'.done = operation.done
      BY <1>1, <1>12, <1>14
    <3>2. operation.done \in {0, 1, 2, 3, 4}
      BY <2>1
    <3>3. (operation.done = 0 => slot = Prep!Free) /\ (operation.done # 0 => slot = ReservedRow)
      BY <1>1, <2>1, <3>2 DEF PrepInv, RowAccounted
    <3>4. operation'.done # 5 /\ operation'.done # 6
      BY <3>1, <3>2
    <3> QED BY <3>1, <3>2, <3>3, <3>4 DEF RowAccounted, ReservedRow
  <2>2. CASE operation.done = 5
    <3>1. slot' = slot /\ operation'.done = 5 /\ operation'.receipt = operation.receipt
      BY <1>1, <1>4, <1>7, <1>12, <1>14, <2>2
    <3>2. slot = ReadyRow
      BY <1>1, <2>2 DEF PrepInv, RowAccounted
    <3>3. slot' = ReadyRow'
      BY <3>1, <3>2 DEF ReadyRow
    <3> QED BY <3>1, <3>3 DEF RowAccounted
  <2> QED BY <1>4, <2>1, <2>2
<1>17. record.state = "ready" => record.done = 5
  BY <1>12 DEF PrepInv, JournalOrdered
<1>18. record.state = "consumed" => record.done = 6
  BY <1>12 DEF PrepInv, JournalOrdered
<1> QED BY <1>1, <1>4, <1>11, <1>12, <1>13, <1>15, <1>16, <1>17, <1>18, PrepPublishes

LEMMA ConcludeKeeps ==
    ASSUME PrepInv, NEW p \in Prep!Callers, Prep!Conclude(p)
    PROVE  PrepInv'
<1>1. PICK a : a = operation.pending
  BY Zenon
<1>2. PICK outcome : outcome = IF claim[p].at = "performed" THEN "observed" ELSE Prep!Inspect(a)
  BY Zenon
<1>3. /\ owner = p /\ claim[p].at \in {"running", "performed"} /\ a # "none"
      /\ outcome \in {"observed", "capacity", "uncertain"}
      /\ outcome = "observed" => Prep!Publish(p, Prep!Observed(a), "running")
      /\ outcome # "observed" =>
           Prep!Publish(p, Prep!FailedBy(outcome, IF outcome = "capacity" THEN a ELSE "retained"), "stopped")
      /\ UNCHANGED <<policy, granted, current, slot, lease, leases, branch, rivals, roomy, exact, decided,
                     consents, admitted>>
  BY <1>1, <1>2 DEF Prep!Conclude, Prep!native, Prep!resources
<1>4. operation \in Operations /\ lease \in 0..MaxLeases /\ JournalOrdered /\ RowAccounted /\ p # NoOne
  BY PrepTypes, PrepConstants DEF PrepInv
<1>5. operation.done \in 0..5 /\ a = Prep!Actions[operation.done + 1]
  BY <1>1, <1>3, <1>4, PendingIs DEF JournalOrdered
<1>6. a \in {"reservation", "allocation", "branch", "reread", "ready", "consume"}
  BY <1>1, <1>3, <1>4 DEF Operations, Prep!Effects
<1>7. /\ a = "reservation" => operation.done = 0 /\ slot \in {Prep!Free, ReservedRow}
      /\ a = "ready" => operation.done = 4 /\ slot \in {ReservedRow, ReadyRow}
      /\ a = "consume" => operation.done = 5 /\ slot \in {ReadyRow, TakenRow}
      /\ a \notin {"reservation", "ready", "consume"} => operation.done \in 1..3 /\ slot = ReservedRow
      /\ Prep!Free.occupancy = "none" /\ ReservedRow.occupancy = "preparing"
      /\ ReadyRow.occupancy = "idle-ready" /\ TakenRow.occupancy = "active"
  BY <1>1, <1>3, PendingRow
<1>8. CASE outcome = "observed"
  <2>1. PICK state : state = (CASE a = "ready" -> "ready" [] a = "consume" -> "consumed" [] OTHER -> "preparing")
    BY Zenon
  <2>2. PICK held : held = IF a = "allocation" THEN lease ELSE operation.lease
    BY Zenon
  <2>3. PICK record : record = [operation EXCEPT !.pending = "none", !.done = operation.done + 1, !.lease = held, !.state = state]
    BY Zenon
  <2>4. Prep!Observed(a) = record
    BY <2>1, <2>2, <2>3, Zenon DEF Prep!Observed
  <2>5. /\ a = "ready" => state = "ready"
        /\ a = "consume" => state = "consumed"
        /\ a \notin {"ready", "consume"} => state = "preparing"
    BY <2>1
  <2>6. held \in 0..MaxLeases /\ operation.done + 1 \in 0..6 /\ state \in {"ready", "consumed", "preparing"}
    BY <1>4, <1>5, <2>2, <2>5 DEF Operations
  <2>7. record \in Operations
    BY <1>4, <2>3, <2>6 DEF Operations
  <2>8. /\ record.pending = "none" /\ record.done = operation.done + 1 /\ record.state = state
        /\ record.attempt = operation.attempt /\ record.receipt = operation.receipt /\ record.consumer = operation.consumer
    BY <1>4, <2>3 DEF Operations
  <2>9. Prep!Publish(p, record, "running")
    BY <1>3, <1>8, <2>4
  <2>10. operation' = record /\ slot' = slot
    BY <1>3, <2>9 DEF Prep!Publish
  <2>11. /\ a = "reservation" => slot = ReservedRow
         /\ a = "ready" => slot = ReadyRow
         /\ a = "consume" => slot = TakenRow
    <3>1. CASE claim[p].at = "performed"
      BY <1>1, <1>3, <1>4, <3>1 DEF PrepInv, PerformedThere
    <3>2. CASE claim[p].at # "performed"
      <4>1. Prep!Inspect(a) = "observed"
        BY <1>2, <1>8, <3>2
      <4>2. /\ a = "reservation" => slot.occupancy = "preparing"
            /\ a = "ready" => slot.occupancy = "idle-ready"
            /\ a = "consume" => slot.occupancy = "active"
        BY <1>1, <1>3, <4>1, InspectSays
      <4> QED BY <1>7, <4>2
    <3> QED BY <3>1, <3>2
  <2>12. ReadyRow' = ReadyRow /\ TakenRow' = TakenRow /\ ReservedRow' = ReservedRow /\ Prep!Free' = Prep!Free
    BY <2>8, <2>10 DEF ReadyRow, TakenRow, Taken, ReservedRow, Prep!Free
  <2>13. RowAccounted'
    <3>1. operation'.done = operation.done + 1 /\ operation'.pending = "none"
      BY <2>8, <2>10
    <3>2. a \notin {"ready", "consume"} => operation.done \in 0..3 /\ slot = ReservedRow
      BY <1>6, <1>7, <2>11
    <3>3. CASE a \notin {"ready", "consume"}
      BY <3>1, <3>2, <3>3, <2>10, <2>12 DEF RowAccounted
    <3>4. CASE a = "ready"
      BY <1>7, <2>11, <3>1, <3>4, <2>10, <2>12 DEF RowAccounted
    <3>5. CASE a = "consume"
      BY <1>7, <2>11, <3>1, <3>5, <2>10, <2>12 DEF RowAccounted
    <3> QED BY <3>3, <3>4, <3>5
  <2>14. (record.state = "ready" => record.done = 5) /\ (record.state = "consumed" => record.done = 6)
    BY <1>6, <1>7, <2>5, <2>8
  <2>15. record.pending # "none" => record.done < 6 /\ record.pending = Prep!Actions[record.done + 1]
    BY <2>8
  <2> QED BY <1>3, <2>7, <2>8, <2>9, <2>13, <2>14, <2>15, PrepPublishes
<1>9. CASE outcome # "observed"
  <2>1. PICK what : what = IF outcome = "capacity" THEN a ELSE "retained"
    BY Zenon
  <2>2. PICK state : state = IF outcome = "capacity" THEN "not-ready-capacity" ELSE "uncertain-blocked"
    BY Zenon
  <2>3. PICK record : record = [operation EXCEPT !.pending = "none", !.failure = what, !.state = state]
    BY Zenon
  <2>4. Prep!FailedBy(outcome, what) = record
    BY <2>2, <2>3, Zenon DEF Prep!FailedBy
  <2>5. Prep!Inspect(a) = outcome
    BY <1>2, <1>9
  <2>6. outcome = "capacity" => a = "allocation" \/ (a = "reservation" /\ slot.occupancy = "none")
    BY <1>1, <1>3, <2>5, InspectSays
  <2>7. outcome = "uncertain" => a = "reservation" /\ slot.occupancy \notin {"none", "preparing"}
    BY <1>1, <1>3, <2>5, InspectSays
  <2>8. outcome = "capacity"
    BY <1>3, <1>7, <1>9, <2>7
  <2>9. what \in Prep!Failures /\ state = "not-ready-capacity"
    BY <2>1, <2>2, <2>6, <2>8 DEF Prep!Failures
  <2>10. record \in Operations
    BY <1>4, <2>3, <2>9 DEF Operations
  <2>11. /\ record.pending = "none" /\ record.done = operation.done /\ record.state = "not-ready-capacity"
         /\ record.attempt = operation.attempt
    BY <1>4, <2>3, <2>9 DEF Operations
  <2>12. Prep!Publish(p, record, "stopped")
    BY <1>3, <1>9, <2>1, <2>4
  <2>13. operation' = record /\ slot' = slot
    BY <1>3, <2>12 DEF Prep!Publish
  <2>14. a = "reservation" => slot = Prep!Free
    BY <1>7, <2>6, <2>8
  <2>15. operation.done = 0 \/ operation.done \in 1..3
    BY <1>7, <2>6, <2>8
  <2>16. operation.done # 0 => slot = ReservedRow
    BY <1>7, <2>6, <2>8
  <2>17. operation.done = 0 => slot = Prep!Free
    BY <1>7, <2>6, <2>8, <2>14
  <2>18. RowAccounted'
    <3>1. operation'.done = operation.done
      BY <2>11, <2>13
    <3>2. ReservedRow' = ReservedRow
      BY DEF ReservedRow
    <3>3. operation'.done # 5 /\ operation'.done # 6
      BY <2>15, <3>1
    <3> QED BY <2>13, <2>15, <2>16, <2>17, <3>1, <3>2, <3>3 DEF RowAccounted
  <2>19. record.pending # "none" => record.done < 6 /\ record.pending = Prep!Actions[record.done + 1]
    BY <2>11
  <2> QED BY <1>3, <2>10, <2>11, <2>12, <2>18, <2>19, PrepPublishes
<1> QED BY <1>8, <1>9

\* What a performed action leaves of the row, and of the other resources.
LEMMA PerformedRow ==
    ASSUME PrepInv, operation.pending # "none", Prep!Inspect(operation.pending) = "absent",
           Prep!Performs(operation.pending), operation' = operation
    PROVE  /\ operation.pending = "reservation" => slot' = ReservedRow
           /\ operation.pending = "ready" => slot' = ReadyRow
           /\ operation.pending = "consume" => slot' = TakenRow
           /\ operation.pending \notin {"reservation", "ready", "consume"} => slot' = slot
           /\ slot.occupancy # "active" \/ slot' = slot
           /\ lease' \in 0..MaxLeases /\ leases' \in 0..MaxLeases /\ branch' \in BOOLEAN
<1>1. PICK a : a = operation.pending
  BY Zenon
<1>2. operation \in Operations /\ slot \in SlotRows /\ lease \in 0..MaxLeases /\ leases \in 0..MaxLeases /\ branch \in BOOLEAN
  BY PrepTypes DEF PrepInv
<1>3. /\ a \in Prep!Effects
      /\ a = "reservation" => slot.occupancy = "none"
      /\ a = "ready" => slot.occupancy = "preparing"
      /\ a = "consume" => slot.occupancy = "idle-ready"
  BY <1>1, InspectSays
<1>4. /\ a = "reservation" => slot \in {Prep!Free, ReservedRow}
      /\ a = "ready" => slot \in {ReservedRow, ReadyRow}
      /\ a = "consume" => slot \in {ReadyRow, TakenRow}
      /\ a \notin {"reservation", "ready", "consume"} => slot = ReservedRow
      /\ Prep!Free.occupancy = "none" /\ ReservedRow.occupancy = "preparing"
      /\ ReadyRow.occupancy = "idle-ready" /\ TakenRow.occupancy = "active"
  BY <1>1, PendingRow
<1>5. Prep!Performs(a)
  BY <1>1
<1>6. CASE a = "reservation"
  <2>1. slot' = [Prep!Free EXCEPT !.occupancy = "preparing"] /\ UNCHANGED <<lease, leases, branch>>
    BY <1>5, <1>6 DEF Prep!Performs
  <2>2. PICK row : row = [occupancy |-> "none", receipt |-> 0, lineage |-> NoOne]
    BY Zenon
  <2>3. [row EXCEPT !.occupancy = "preparing"] = ReservedRow
    BY <2>2 DEF ReservedRow
  <2>4. slot' = ReservedRow
    BY <2>1, <2>2, <2>3, Zenon DEF Prep!Free
  <2> QED BY <1>1, <1>2, <1>3, <1>6, <2>1, <2>4
<1>7. CASE a = "allocation"
  <2>1. leases < MaxLeases /\ leases' = leases + 1 /\ lease' = leases + 1 /\ branch' = FALSE /\ slot' = slot
    BY <1>5, <1>7 DEF Prep!Performs
  <2>2. leases + 1 \in 0..MaxLeases
    BY <1>2, <2>1, PrepConstants
  <2>3. lease' \in 0..MaxLeases /\ leases' \in 0..MaxLeases /\ branch' \in BOOLEAN /\ slot' = slot
    BY <2>1, <2>2
  <2> QED BY <1>1, <1>7, <2>3
<1>8. CASE a = "branch"
  <2>1. branch' = TRUE /\ slot' = slot /\ lease' = lease /\ leases' = leases
    BY <1>5, <1>8 DEF Prep!Performs
  <2> QED BY <1>1, <1>2, <1>8, <2>1
<1>9. CASE a = "ready"
  <2>1. slot' = ReadyRow /\ UNCHANGED <<lease, leases, branch>>
    BY <1>5, <1>9 DEF Prep!Performs, ReadyRow
  <2> QED BY <1>1, <1>2, <1>3, <1>9, <2>1
<1>10. CASE a = "consume"
  <2>1. slot' = [slot EXCEPT !.occupancy = "active", !.lineage = operation.consumer] /\ UNCHANGED <<lease, leases, branch>>
    BY <1>5, <1>10 DEF Prep!Performs
  <2>2. slot = ReadyRow
    BY <1>3, <1>4, <1>10
  <2>3. PICK row : row = [occupancy |-> "idle-ready", receipt |-> operation.receipt, lineage |-> NoOne]
    BY Zenon
  <2>4. [row EXCEPT !.occupancy = "active", !.lineage = operation.consumer] = TakenRow
    <3>1. PICK mid : mid = [occupancy |-> "active", receipt |-> operation.receipt, lineage |-> NoOne]
      BY Zenon
    <3>2. [row EXCEPT !.occupancy = "active"] = mid
      BY <2>3, <3>1
    <3>3. [mid EXCEPT !.lineage = operation.consumer] = TakenRow
      BY <3>1 DEF TakenRow, Taken
    <3> QED BY <3>2, <3>3, Zenon
  <2>5. slot' = TakenRow
    BY <2>1, <2>2, <2>3, <2>4, Zenon DEF ReadyRow
  <2> QED BY <1>1, <1>2, <1>3, <1>10, <2>1, <2>5
<1> QED BY <1>3, <1>6, <1>7, <1>8, <1>9, <1>10 DEF Prep!Effects

LEMMA PerformKeeps ==
    ASSUME PrepInv, NEW p \in Prep!Callers, NEW made \in BOOLEAN, NEW throws \in BOOLEAN,
           Prep!Perform(p, made, throws)
    PROVE  PrepInv'
<1>1. /\ owner = p /\ claim[p].at = "running" /\ operation.pending # "none"
      /\ Prep!Inspect(operation.pending) = "absent" /\ (~throws => made)
      /\ IF made THEN Prep!Performs(operation.pending) ELSE UNCHANGED <<slot, lease, leases, branch>>
      /\ IF throws THEN Prep!Leaves(p) ELSE Prep!Moves(p, "performed") /\ owner' = owner
      /\ UNCHANGED <<policy, granted, current, operation, torn, rivals, roomy, exact, decided, crashed, consents, admitted>>
  BY DEF Prep!Perform, Prep!Running, Prep!native, Prep!resources, Prep!outside
<1>2. /\ operation \in Operations /\ slot \in SlotRows /\ lease \in 0..MaxLeases /\ leases \in 0..MaxLeases
      /\ branch \in BOOLEAN /\ crashed \in 0..MaxCrashes /\ admitted \subseteq Builders /\ p # NoOne /\ torn = FALSE
      /\ operation.attempt # 0
      /\ (admitted # {} => slot.occupancy = "active" /\ admitted \subseteq {slot.lineage})
  BY <1>1, PrepTypes, PrepConstants DEF PrepInv, ClaimsAccounted, JournalOrdered
<1>3. /\ made => /\ operation.pending = "reservation" => slot' = ReservedRow
                 /\ operation.pending = "ready" => slot' = ReadyRow
                 /\ operation.pending = "consume" => slot' = TakenRow
                 /\ operation.pending \notin {"reservation", "ready", "consume"} => slot' = slot
      /\ slot.occupancy # "active" \/ slot' = slot
      /\ lease' \in 0..MaxLeases /\ leases' \in 0..MaxLeases /\ branch' \in BOOLEAN
  <2>1. CASE made
    BY <1>1, <2>1, PerformedRow
  <2>2. CASE ~made
    BY <1>1, <1>2, <2>2
  <2> QED BY <2>1, <2>2
<1>4. ~made => slot' = slot
  BY <1>1
<1>5. PICK next : next = IF throws THEN (IF p \in Builders THEN [claim[p] EXCEPT !.at = "gone"] ELSE Prep!Resting)
                         ELSE [claim[p] EXCEPT !.at = "performed"]
  BY Zenon
<1>6. /\ next \in Claims /\ (next.op = "consume" => p \in Builders) /\ (~throws => next.at = "performed")
      /\ next.at \in {"gone", "idle", "performed"}
  <2>1. claim[p].op = "consume" => p \in Builders
    BY DEF PrepInv, ClaimsAccounted
  <2>2. CASE throws /\ p \notin Builders
    BY <1>5, <2>2, ClaimForms
  <2>3. CASE throws /\ p \in Builders
    BY <1>5, <2>3, ClaimMoved
  <2>4. CASE ~throws
    BY <1>5, <2>1, <2>4, ClaimMoved
  <2> QED BY <2>2, <2>3, <2>4
<1>7. claim' = [claim EXCEPT ![p] = next]
  BY <1>1, <1>5 DEF Prep!Leaves, Prep!Moves
<1>8. owner' \in {owner, NoOne, p} /\ (owner' = p => ~throws) /\ (throws => owner' = NoOne)
  BY <1>1, <1>2 DEF Prep!Leaves
<1>9. /\ ReservedRow' = ReservedRow /\ ReadyRow' = ReadyRow /\ TakenRow' = TakenRow /\ Prep!Free' = Prep!Free
      /\ operation' = operation
  BY <1>1 DEF ReservedRow, ReadyRow, TakenRow, Taken, Prep!Free
<1>10. RowAccounted'
  <2>1. CASE ~made
    BY <1>4, <1>9, <2>1 DEF PrepInv, RowAccounted
  <2>2. CASE made /\ operation.pending \notin {"reservation", "ready", "consume"}
    BY <1>3, <1>9, <2>2 DEF PrepInv, RowAccounted
  <2>3. CASE made /\ operation.pending = "reservation"
    <3>1. operation.done = 0 /\ slot' = ReservedRow
      BY <1>1, <1>3, <2>3, PendingRow
    <3> QED BY <1>9, <2>3, <3>1 DEF RowAccounted
  <2>4. CASE made /\ operation.pending = "ready"
    <3>1. operation.done = 4 /\ slot' = ReadyRow
      BY <1>1, <1>3, <2>4, PendingRow
    <3> QED BY <1>9, <2>4, <3>1 DEF RowAccounted
  <2>5. CASE made /\ operation.pending = "consume"
    <3>1. operation.done = 5 /\ slot' = TakenRow
      BY <1>1, <1>3, <2>5, PendingRow
    <3> QED BY <1>9, <2>5, <3>1 DEF RowAccounted
  <2> QED BY <2>1, <2>2, <2>3, <2>4, <2>5
<1>11. JournalOrdered'
  BY <1>2, <1>9 DEF PrepInv, JournalOrdered
<1>12. PerformedThere'
  <2>1. owner' # NoOne => owner' = p /\ ~throws /\ made
    BY <1>1, <1>8
  <2> QED BY <1>1, <1>3, <1>9, <2>1 DEF PerformedThere
<1>13. slot' \in SlotRows
  <2>1. slot' \in {slot, ReservedRow, ReadyRow, TakenRow}
    BY <1>3, <1>4
  <2>2. ReservedRow \in SlotRows
    BY PrepConstants DEF ReservedRow, SlotRows
  <2>3. ReadyRow \in SlotRows
    BY <1>2 DEF ReadyRow, SlotRows, Operations
  <2>4. TakenRow \in SlotRows
    BY <1>2 DEF TakenRow, Taken, SlotRows, Operations
  <2> QED BY <1>2, <2>1, <2>2, <2>3, <2>4
<1>14. admitted' # {} => slot'.occupancy = "active" /\ admitted' \subseteq {slot'.lineage}
  BY <1>1, <1>2, <1>3
<1>15. Prep!RetriesConfirmed'
  BY <1>1 DEF Prep!RetriesConfirmed, PrepInv
<1>16. /\ owner' = p => next.at \in AtWork /\ ~torn'
       /\ torn' \in BOOLEAN /\ crashed' \in 0..MaxCrashes /\ (torn' => owner' = NoOne)
       /\ admitted' \subseteq Builders /\ operation' \in Operations /\ consents \subseteq consents'
       /\ (next.at = "authorized" /\ next.op = "retry" => next.seen \in consents')
       /\ UNCHANGED <<policy, granted, current, rivals, roomy, exact, decided>>
  BY <1>1, <1>2, <1>6, <1>8 DEF AtWork
<1> QED BY <1>3, <1>6, <1>7, <1>8, <1>10, <1>11, <1>12, <1>13, <1>14, <1>15, <1>16, PrepMoves

\* The operator and the other tickets leave the operation and its calls alone.
LEMMA WorldKeeps ==
    ASSUME PrepInv, policy' \in {"none", "active", "revoked"}, granted' \in BOOLEAN, current' \in BOOLEAN,
           rivals' \in 0..Permits, lease' \in 0..MaxLeases, roomy' \in BOOLEAN, exact' \in BOOLEAN, decided' \in 0..MaxSteps,
           UNCHANGED <<operation, torn, owner, claim, slot, leases, branch, crashed, consents, admitted>>
    PROVE  PrepInv'
<1>1. Prep!PreparedTypeOK'
  BY DEF PrepInv, Prep!PreparedTypeOK
<1>2. RowAccounted' /\ JournalOrdered'
  BY DEF PrepInv, RowAccounted, JournalOrdered, ReservedRow, ReadyRow, TakenRow, Taken
<1>3. PerformedThere' /\ ClaimsAccounted' /\ Prep!RetriesConfirmed'
  BY DEF PrepInv, PerformedThere, ClaimsAccounted, Prep!RetriesConfirmed, ReservedRow, ReadyRow, TakenRow, Taken
<1> QED BY <1>1, <1>2, <1>3 DEF PrepInv

LEMMA WorldKept ==
    ASSUME PrepInv, Prep!OperatorDecides \/ Prep!OthersMove
    PROVE  PrepInv'
<1>1. /\ policy \in {"none", "active", "revoked"} /\ granted \in BOOLEAN /\ current \in BOOLEAN
      /\ rivals \in 0..Permits /\ lease \in 0..MaxLeases /\ roomy \in BOOLEAN /\ exact \in BOOLEAN /\ decided \in 0..MaxSteps
  BY PrepTypes DEF PrepInv
<1>2. Prep!Operated => decided' \in 0..MaxSteps
  BY <1>1, PrepConstants DEF Prep!Operated
<1>3. CASE Prep!OperatorDecides
  <2>1. UNCHANGED <<operation, torn, owner, claim, slot, lease, leases, branch, rivals, roomy, exact, crashed, consents, admitted>>
    BY <1>3 DEF Prep!OperatorDecides, Prep!resources
  <2>2. policy' \in {"none", "active", "revoked"} /\ granted' \in BOOLEAN /\ current' \in BOOLEAN /\ decided' \in 0..MaxSteps
    BY <1>1, <1>2, <1>3 DEF Prep!OperatorDecides, Prep!Activate, Prep!Bind, Prep!Deactivate, Prep!Amend
  <2> QED BY <1>1, <2>1, <2>2, WorldKeeps
<1>4. CASE Prep!OthersMove
  <2>1. UNCHANGED <<policy, granted, current, operation, torn, owner, claim, slot, leases, branch, crashed, consents, admitted>>
    BY <1>4 DEF Prep!OthersMove, Prep!native
  <2>2. decided' \in 0..MaxSteps
    BY <1>2, <1>4 DEF Prep!OthersMove
  <2>3. rivals' \in 0..Permits
    <3>1. \A n : n \in 0..(Permits - (IF slot = Prep!Free THEN 0 ELSE 1)) => n \in 0..Permits
      BY PrepConstants
    <3> QED BY <1>1, <1>4, <3>1 DEF Prep!OthersMove
  <2>4. lease' \in 0..MaxLeases /\ roomy' \in BOOLEAN /\ exact' \in BOOLEAN
    <3>1. lease' \in {lease, 0} /\ (roomy' = roomy \/ roomy' = ~roomy) /\ (exact' = exact \/ exact' = ~exact \/ exact' = TRUE)
      BY <1>4 DEF Prep!OthersMove
    <3>2. 0 \in 0..MaxLeases
      BY PrepConstants
    <3>3. lease' \in 0..MaxLeases
      BY <1>1, <3>1, <3>2
    <3> QED BY <1>1, <3>1, <3>3
  <2> QED BY <1>1, <2>1, <2>2, <2>3, <2>4, WorldKeeps
<1> QED BY <1>3, <1>4

LEMMA PrepKept ==
    ASSUME PrepInv, Prep!PreparedNext
    PROVE  PrepInv'
<1>1. CASE Prep!OperatorDecides \/ Prep!OthersMove
  BY <1>1, WorldKept
<1>2. ASSUME NEW s \in Analysts,
             \/ Prep!AskRequest(s) \/ Prep!OpenRetry(s) \/ Prep!ConfirmRetry(s) \/ Prep!DeclineRetry(s)
      PROVE  PrepInv'
  BY <1>2, PrepCallsKeep DEF Prep!Callers
<1>3. ASSUME NEW b \in Builders, Prep!SelectReady(b) \/ Prep!AdmitPrepared(b)
      PROVE  PrepInv'
  BY <1>3, PrepCallsKeep DEF Prep!Callers
<1>4. ASSUME NEW p \in Prep!Callers,
             \/ Prep!Enter(p) \/ Prep!EnterTorn(p) \/ Prep!Finished(p) \/ Prep!Start(p)
             \/ Prep!Conclude(p) \/ Prep!Stop(p) \/ Prep!Crash(p)
             \/ \E made, throws \in BOOLEAN : Prep!Perform(p, made, throws)
      PROVE  PrepInv'
  BY <1>4, PrepCallsKeep, EnterKeeps, StartKeeps, ConcludeKeeps, PerformKeeps
<1> QED BY <1>1, <1>2, <1>3, <1>4 DEF Prep!PreparedNext

\* Only an effect that was inspected moves a resource.
LEMMA PrepAuthorized ==
    ASSUME PrepInv, Prep!PreparedNext
    PROVE  Prep!EffectsAuthorized
<1> USE DEF Prep!resources
<1> SUFFICES ASSUME ~(UNCHANGED <<slot, leases, branch>>) PROVE Prep!Current /\ ~torn
  BY DEF Prep!EffectsAuthorized
<1>1. PICK p \in Prep!Callers, made \in BOOLEAN, throws \in BOOLEAN : Prep!Perform(p, made, throws)
  <2>1. ~Prep!OperatorDecides /\ ~Prep!OthersMove
    BY DEF Prep!OperatorDecides, Prep!OthersMove
  <2>2. \A s \in Analysts :
          ~(Prep!AskRequest(s) \/ Prep!OpenRetry(s) \/ Prep!ConfirmRetry(s) \/ Prep!DeclineRetry(s))
    BY DEF Prep!AskRequest, Prep!OpenRetry, Prep!ConfirmRetry, Prep!DeclineRetry
  <2>3. \A b \in Builders : ~(Prep!SelectReady(b) \/ Prep!AdmitPrepared(b))
    BY DEF Prep!SelectReady, Prep!AdmitPrepared
  <2>4. \A q \in Prep!Callers :
          ~(\/ Prep!Enter(q) \/ Prep!EnterTorn(q) \/ Prep!Finished(q) \/ Prep!Start(q)
            \/ Prep!Conclude(q) \/ Prep!Stop(q) \/ Prep!Crash(q))
    BY DEF Prep!Enter, Prep!EnterTorn, Prep!Finished, Prep!Start, Prep!Conclude, Prep!Stop,
           Prep!Crash
  <2> QED BY <2>1, <2>2, <2>3, <2>4 DEF Prep!PreparedNext
<1>2. owner = p /\ operation.pending # "none" /\ Prep!Inspect(operation.pending) = "absent"
  BY <1>1 DEF Prep!Perform, Prep!Running
<1>3. Prep!Current
  BY <1>2, InspectSays
<1>4. ~torn
  BY <1>2, PrepConstants DEF PrepInv, ClaimsAccounted
<1> QED BY <1>3, <1>4

PrepHolds == part = "prepared" => PrepInv

LEMMA PrepStepsKeep == PrepHolds /\ [TicketsNext]_ticketsVars => PrepHolds'
<1> SUFFICES ASSUME PrepHolds, [TicketsNext]_ticketsVars, part' = "prepared"
             PROVE  PrepInv'
  BY DEF PrepHolds
<1>1. CASE PreparedStep
  BY <1>1, PrepKept DEF PreparedStep, PrepHolds
<1>2. CASE UNCHANGED ticketsVars
  <2>1. UNCHANGED <<part, preparedVars>>
    BY <1>2 DEF ticketsVars
  <2>2. /\ PrepInv /\ UNCHANGED <<policy, granted, current, operation, torn, owner, claim, slot, rivals, lease, leases,
                                  roomy, branch, exact, consents, admitted, decided, crashed>>
    BY <2>1 DEF preparedVars, PrepHolds
  <2>3. /\ policy \in {"none", "active", "revoked"} /\ granted \in BOOLEAN /\ current \in BOOLEAN
        /\ rivals \in 0..Permits /\ lease \in 0..MaxLeases /\ roomy \in BOOLEAN /\ exact \in BOOLEAN /\ decided \in 0..MaxSteps
    BY <2>2, PrepTypes DEF PrepInv
  <2> QED BY <2>2, <2>3, WorldKeeps
<1>3. CASE BranchStep \/ WorkflowStep \/ StoreStep \/ ReportsStep \/ SignalStep \/ DocumentsStep \/ DeploysStep
  BY <1>3 DEF BranchStep, WorkflowStep, StoreStep, ReportsStep, SignalStep, DocumentsStep, DeploysStep
<1> QED BY <1>1, <1>2, <1>3 DEF TicketsNext
-----------------------------------------------------------------------------
(* Deploy requests.                                                        *)

\* A repository as it is resolved, and what is known of the one a request was located in.
Stages == {"asked", "accepted", "located", "sent", "configured", "collected", "returning", "done"}
Away == {"sent", "configured", "collected", "returning"}
Before == {"asked", "accepted", "located", "sent", "configured"}

LaunchShaped(l) ==
    l \in [at : Stages, request : Asked, found : {l.found}, repo : {l.repo}, mode : {l.mode},
           evidence : {l.evidence}, plan : {l.plan}, answer : {l.answer}]

\* The root belongs to the tree; a linked tree is the one the request came from.
FoundThere(l) ==
    /\ l.found.root \in Req!Roots /\ l.found.tree \in Req!Trees
    /\ l.found.tree \in Req!Copies =>
         l.found.root = Req!Primary[l.found.tree] /\ l.found.tree = Req!Tree(l.request.at)
    /\ l.found.tree \in Req!Roots => l.found.root = l.found.tree
    /\ l.repo \in {Req!Unset, l.found.root} /\ (l.repo = Req!Unset => l.request.repo = Req!Unset)

\* Evidence is of a leased linked tree of the repository the request was located in.
EvidenceOf(l) ==
    LET e == l.evidence  r == l.request IN
    /\ e.for = "none" => e = Req!NoEvidence
    /\ e.for # "none" =>
         /\ e.for \in {"selection", "review"} \cup Req!BuilderRoles
         /\ Req!Runtime(r) = "pi" /\ e.tree \in Req!Copies /\ e.root = Req!Primary[e.tree]
         /\ e.ticket = r.ticket /\ e.head # 0
         /\ r.by # "api" => e.root = l.found.root
    /\ e.for \in Req!BuilderRoles => e.id # 0 /\ e.ticket # Req!Unset
    /\ e.for = "parented" => e.tree = Req!Tree(r.at)
    /\ Req!Has(r, "select") => e.for \in {"none", "selection"}
    /\ e.for = "selection" /\ r.resume = "selected" => e.tree = Earlier.tree /\ e.key = Earlier.key

\* Where the process is, by how far its request got.
LaunchFits(l, h) ==
    /\ LaunchShaped(l) /\ EvidenceOf(l)
    /\ l.at \notin Away => h = l.request.at
    /\ l.at \notin {"asked", "done"} => Req!WithinBoundary(l.request)
    /\ l.at \in {"accepted", "located"} => l.request.by # "api"
    /\ l.request.by = "api" => h = l.request.at /\ l.repo = l.request.repo
    /\ l.request.by # "api" /\ l.at \in {"located"} \cup Away => FoundThere(l)
    /\ l.request.by # "api" /\ l.at \in Away => h = l.found.tree
    /\ l.at \in {"configured", "collected"} => Req!MayResume(l.request)
    /\ l.at \in Before => l.evidence = Req!NoEvidence
    /\ l.at = "collected" /\ Req!Has(l.request, "select") => l.evidence.for = "selection"
    /\ l.plan.made => l.at \in {"returning", "done"}

\* The inductive invariant behind the requests' part of PreparedSafe.
ReqInv ==
    /\ Req!RequestsSafe /\ LaunchFits(launch, here)
    /\ commits \in [Req!Copies -> Nat \ {0}]

LEMMA ReqConstants ==
    /\ MaxWorld \in Nat /\ Keys \cap Req!Places = {} /\ IsFiniteSet(Keys)
    /\ \A r \in Asked : r.at \in Req!Places
    /\ \A r \in PoolRows : r.path \in Req!Copies
    /\ \A r \in AtFirst.rows : r.path \in Req!Copies
    /\ AtFirst.book \in [Keys -> Req!Roots \cup {"copy", "nowhere"}]
<1>1. /\ PoolRows \subseteq Req!RowType /\ AtFirst.rows \subseteq Req!RowType /\ Asked \subseteq Req!RequestType
      /\ MaxWorld \in Nat /\ Keys \cap Req!Places = {}
      /\ AtFirst.book \in [Keys -> Req!Roots \cup {"copy", "nowhere"}]
  BY DeploysConstants DEF Req!RequestsAssumption
<1>2. IsFiniteSet(Keys)
  BY DeploysConstants DEF Req!RequestsAssumption, Req!IsFiniteSet, IsFiniteSet
<1>3. \A r \in Req!RowType : r.path \in Req!Copies
  BY DEF Req!RowType
<1>4. \A r \in Req!RequestType : r.at \in Req!Places
  BY DEF Req!RequestType
<1> QED BY <1>1, <1>2, <1>3, <1>4

\* The places by name.
LEMMA PlacesAre ==
    /\ Req!Roots = {"main", "other"} /\ Req!Copies = {"copy", "spare"}
    /\ Req!Trees = {"main", "other", "copy", "spare"}
    /\ Req!Places = {"main", "other", "copy", "spare", "inside"}
    /\ \A place \in Req!Places : Req!Tree(place) \in Req!Trees
    /\ \A tree \in Req!Trees : Req!Tree(tree) = tree
    /\ \A tree \in Req!Copies : Req!Primary[tree] \in Req!Roots
    /\ Req!Unset \notin Req!Places
BY DEF Req!Roots, Req!Copies, Req!Trees, Req!Places, Req!Tree, Req!Primary, Req!Unset

LEMMA OneKey ==
    ASSUME NEW keys, keys \subseteq Keys, Req!Cardinality(keys) = 1
    PROVE  \E k \in Keys : keys = {k}
<1>1. Cardinality(keys) = 1
  BY DEF Req!Cardinality, Cardinality
<1>2. IsFiniteSet(keys)
  BY ReqConstants, FS_Subset
<1>3. PICK k : keys = {k}
  BY <1>1, <1>2, FS_Singleton
<1> QED BY <1>3

\* What a resolved repository is: a registered entry, alone in what it was found by.
LEMMA ResolveIs ==
    ASSUME NEW repo, NEW place \in Req!Places, NEW linkedToo \in BOOLEAN, NEW f \in Req!Resolve(repo, place, linkedToo)
    PROVE  /\ f.key \in Keys /\ f.root = entries[f.key] /\ f.root \in Req!Roots /\ f.tree \in Req!Trees
           /\ f.kind = "linked" <=> f.tree \in Req!Copies
           /\ repo # Req!Unset => f.tree = f.root /\ (repo \notin Keys => f.root = repo)
           /\ repo = Req!Unset => f.tree = Req!Tree(place)
           /\ f.tree \in Req!Copies => linkedToo /\ f.tree \in genuine /\ f.root = Req!Primary[f.tree]
           /\ f.tree \in Req!Roots => f.root = f.tree
           /\ repo \notin Keys => \A k \in Keys \ {f.key} : entries[k] # f.root
<1>1. PICK tree : tree = Req!Tree(place)
  BY Zenon
<1>2. PICK keys : keys = (IF repo # Req!Unset THEN Req!Named(repo)
                          ELSE IF tree \in Req!Copies /\ ~linkedToo THEN {} ELSE Req!Around(tree))
  BY Zenon
<1>3. /\ Req!Cardinality(keys) = 1
      /\ f \in {Req!Found(k, IF repo # Req!Unset THEN entries[k] ELSE tree) : k \in {x \in keys : Req!Registered(x)}}
  BY <1>1, <1>2 DEF Req!Resolve
<1>4. keys \subseteq Keys
  BY <1>2 DEF Req!Named, Req!Around
<1>5. PICK only \in Keys : keys = {only}
  BY <1>3, <1>4, OneKey
<1>6. Req!Registered(only) /\ f = Req!Found(only, IF repo # Req!Unset THEN entries[only] ELSE tree)
  BY <1>3, <1>5
<1>7. PICK at : at = IF repo # Req!Unset THEN entries[only] ELSE tree
  BY Zenon
<1>8. f = [key |-> only, root |-> entries[only], tree |-> at, kind |-> IF at \in Req!Copies THEN "linked" ELSE "primary"]
  BY <1>6, <1>7 DEF Req!Found
<1>9. /\ f.key = only /\ f.root = entries[only] /\ f.tree = at
      /\ f.kind = (IF at \in Req!Copies THEN "linked" ELSE "primary") /\ entries[only] \in Req!Roots
  BY <1>6, <1>8 DEF Req!Registered
<1>10. tree \in Req!Trees
  BY <1>1, PlacesAre
<1>11. CASE repo # Req!Unset
  <2>1. keys = Req!Named(repo) /\ at = entries[only] /\ at \in Req!Roots
    BY <1>2, <1>7, <1>9, <1>11
  <2>2. repo \notin Keys => keys = {k \in Keys : entries[k] = repo}
    BY <2>1 DEF Req!Named
  <2>3. repo \notin Keys => entries[only] = repo /\ \A k \in Keys \ {only} : entries[k] # repo
    BY <1>5, <2>2
  <2>4. at \notin Req!Copies /\ at \in Req!Trees
    BY <2>1, PlacesAre
  <2> QED BY <1>9, <1>11, <2>1, <2>3, <2>4
<1>12. CASE repo = Req!Unset /\ tree \in Req!Copies
  <2>1. linkedToo /\ keys = Req!Around(tree)
    BY <1>2, <1>5, <1>12
  <2>2. keys = {k \in Keys : tree \in genuine /\ Req!Registered(k) /\ entries[k] = Req!Primary[tree]}
    BY <1>12, <2>1 DEF Req!Around
  <2>3. tree \in genuine /\ entries[only] = Req!Primary[tree]
    BY <1>5, <2>2
  <2>4. \A k \in Keys \ {only} : entries[k] # entries[only]
    BY <1>5, <1>9, <2>2, <2>3 DEF Req!Registered
  <2>5. tree \notin Req!Roots /\ at = tree
    BY <1>7, <1>12, PlacesAre
  <2> QED BY <1>1, <1>9, <1>10, <1>12, <2>1, <2>3, <2>4, <2>5
<1>13. CASE repo = Req!Unset /\ tree \notin Req!Copies
  <2>1. keys = {k \in Keys : entries[k] = tree} /\ at = tree
    BY <1>2, <1>7, <1>13 DEF Req!Around
  <2>2. entries[only] = tree /\ \A k \in Keys \ {only} : entries[k] # tree
    BY <1>5, <2>1
  <2> QED BY <1>1, <1>9, <1>10, <1>13, <2>1, <2>2
<1> QED BY <1>11, <1>12, <1>13

PlanSafe == Req!SameRoot /\ Req!LinkedForAReason /\ Req!EvidenceFits /\ Req!StartAccepted

\* What is said of a plan is said of the request, of where it was located and of the plan.
LEMMA PlanStays ==
    ASSUME PlanSafe, launch'.plan = launch.plan, launch'.request = launch.request, launch'.found = launch.found
    PROVE  PlanSafe'
<1>1. Req!plan' = Req!plan
  BY DEF Req!plan
<1>2. Req!SameRoot'
  BY <1>1 DEF PlanSafe, Req!SameRoot
<1>3. Req!LinkedForAReason'
  BY <1>1 DEF PlanSafe, Req!LinkedForAReason
<1>4. Req!EvidenceFits'
  BY <1>1 DEF PlanSafe, Req!EvidenceFits
<1>5. Req!StartAccepted'
  BY <1>1 DEF PlanSafe, Req!StartAccepted
<1> QED BY <1>2, <1>3, <1>4, <1>5 DEF PlanSafe

LEMMA PlanUnmade ==
    ASSUME ~launch.plan.made
    PROVE  PlanSafe
BY DEF PlanSafe, Req!plan, Req!SameRoot, Req!LinkedForAReason, Req!EvidenceFits, Req!StartAccepted

\* The request goes on: what is left to show is where it stands and, once planned, the plan.
LEMMA ReqMoves ==
    ASSUME ReqInv, launch'.at \in Stages, here' \in Req!Places, LaunchFits(launch, here)', PlanSafe',
           \A r \in rows' : r.path \in Req!Copies,
           UNCHANGED <<entries, genuine, commits, changes>>
    PROVE  ReqInv'
<1>1. Req!RequestsTypeOK'
  BY DEF ReqInv, Req!RequestsSafe, Req!RequestsTypeOK, Stages
<1>2. Req!PlaceKept'
  BY DEF LaunchFits, Req!PlaceKept, Away
<1> QED BY <1>1, <1>2 DEF ReqInv, Req!RequestsSafe, PlanSafe

LEMMA WorldTurns ==
    ASSUME ReqInv, UNCHANGED <<here, launch>>, changes' \in 0..MaxWorld,
           entries' \in [Keys -> Req!Roots \cup {"copy", "nowhere"}], genuine' \subseteq Req!Copies,
           \A r \in rows' : r.path \in Req!Copies, commits' \in [Req!Copies -> Nat \ {0}]
    PROVE  ReqInv'
<1>1. Req!RequestsTypeOK'
  BY DEF ReqInv, Req!RequestsSafe, Req!RequestsTypeOK
<1>2. Req!PlaceKept'
  BY DEF ReqInv, Req!RequestsSafe, Req!PlaceKept
<1>3. PlanSafe'
  BY PlanStays DEF ReqInv, Req!RequestsSafe, PlanSafe
<1>4. LaunchFits(launch, here)'
  BY DEF ReqInv, LaunchFits, LaunchShaped, EvidenceOf, FoundThere
<1> QED BY <1>1, <1>2, <1>3, <1>4 DEF ReqInv, Req!RequestsSafe, PlanSafe

LEMMA WorldTurnsKept ==
    ASSUME ReqInv, Req!Changes
    PROVE  ReqInv'
<1>1. /\ entries \in [Keys -> Req!Roots \cup {"copy", "nowhere"}] /\ genuine \subseteq Req!Copies
      /\ \A r \in rows : r.path \in Req!Copies
      /\ changes \in 0..MaxWorld /\ commits \in [Req!Copies -> Nat \ {0}]
  BY DEF ReqInv, Req!RequestsSafe, Req!RequestsTypeOK
<1>2. Req!Outside => changes' \in 0..MaxWorld /\ UNCHANGED <<here, launch>>
  BY <1>1, ReqConstants DEF Req!Outside
<1>3. CASE Req!EditBook
  <2>1. PICK k \in Keys, p \in Req!Roots \cup {"copy", "nowhere"} : entries' = [entries EXCEPT ![k] = p]
    BY <1>3 DEF Req!EditBook
  <2>2. entries' \in [Keys -> Req!Roots \cup {"copy", "nowhere"}]
    BY <1>1, <2>1
  <2> QED BY <1>1, <1>2, <1>3, <2>2, WorldTurns DEF Req!EditBook
<1>4. CASE Req!Tamper
  BY <1>1, <1>2, <1>4, WorldTurns DEF Req!Tamper
<1>5. CASE Req!EditPool
  <2>1. \A r \in rows' : r.path \in Req!Copies
    BY <1>1, <1>5, ReqConstants DEF Req!EditPool
  <2> QED BY <1>1, <1>2, <1>5, <2>1, WorldTurns DEF Req!EditPool
<1>6. CASE Req!Commit
  <2>1. PICK c \in Req!Copies : commits' = [commits EXCEPT ![c] = commits[c] + 1]
    BY <1>6 DEF Req!Commit
  <2>2. commits' \in [Req!Copies -> Nat \ {0}]
    BY <1>1, <2>1
  <2> QED BY <1>1, <1>2, <1>6, <2>2, WorldTurns DEF Req!Commit
<1>7. CASE Req!Relink \/ Req!MoveTicket \/ Req!RetireMode \/ Req!EditArtifact
  <2>1. UNCHANGED <<entries, genuine, rows, commits>> /\ Req!Outside
    BY <1>7 DEF Req!Relink, Req!MoveTicket, Req!RetireMode, Req!EditArtifact
  <2> QED BY <1>1, <1>2, <2>1, WorldTurns
<1> QED BY <1>3, <1>4, <1>5, <1>6, <1>7 DEF Req!Changes

LEMMA ReqStarts ==
    ASSUME Req!RequestsInit
    PROVE  ReqInv
<1>1. PICK r \in Asked : launch = Req!NewLaunch(r) /\ here = r.at
  BY DEF Req!RequestsInit
<1>2. PICK l : l = [at |-> "asked", request |-> r, found |-> Req!Nowhere, repo |-> r.repo, mode |-> Req!Unset,
                    evidence |-> Req!NoEvidence, plan |-> Req!NoPlan, answer |-> "none"]
  BY Zenon
<1>3. launch = l
  BY <1>1, <1>2, Zenon DEF Req!NewLaunch
<1>4. /\ launch.at = "asked" /\ launch.request = r /\ launch.repo = r.repo /\ launch.evidence = Req!NoEvidence
      /\ launch.plan = Req!NoPlan /\ LaunchShaped(launch)
  BY <1>2, <1>3 DEF LaunchShaped, Stages
<1>5. ~launch.plan.made
  BY <1>4 DEF Req!NoPlan
<1>6. PlanSafe
  BY <1>5, PlanUnmade
<1>7. EvidenceOf(launch)
  BY <1>4 DEF EvidenceOf, Req!NoEvidence, Req!BuilderRoles
<1>8. LaunchFits(launch, here)
  BY <1>1, <1>4, <1>5, <1>7 DEF LaunchFits, Away, Before
<1>9. commits \in [Req!Copies -> Nat \ {0}]
  BY DEF Req!RequestsInit
<1>10. Req!RequestsTypeOK
  BY <1>1, <1>4, ReqConstants DEF Req!RequestsInit, Req!RequestsTypeOK
<1>11. Req!PlaceKept
  BY <1>1, <1>4 DEF Req!PlaceKept
<1> QED BY <1>6, <1>8, <1>9, <1>10, <1>11 DEF ReqInv, Req!RequestsSafe, PlanSafe

\* It stands where it may, by how far it got.
LEMMA ReqGoes ==
    ASSUME ReqInv, NEW to \in Stages, NEW word, NEW l, launch' = l,
           l = [launch EXCEPT !.at = to] \/ l = [launch EXCEPT !.at = to, !.answer = word],
           here' \in Req!Places, \A r \in rows' : r.path \in Req!Copies,
           to \notin Away => here' = launch.request.at,
           to \notin {"asked", "done"} => Req!WithinBoundary(launch.request),
           launch.request.by = "api" => here' = launch.request.at,
           launch.request.by # "api" /\ to \in {"located"} \cup Away => FoundThere(launch),
           launch.request.by # "api" /\ to \in Away => here' = launch.found.tree,
           to \in {"accepted", "located"} => launch.request.by # "api",
           to \in {"configured", "collected"} => Req!MayResume(launch.request),
           to \in Before => launch.evidence = Req!NoEvidence,
           to = "collected" /\ Req!Has(launch.request, "select") => launch.evidence.for = "selection",
           launch.plan.made => to \in {"returning", "done"},
           UNCHANGED <<entries, genuine, commits, changes>>
    PROVE  ReqInv'
<1>1. LaunchFits(launch, here) /\ PlanSafe
  BY DEF ReqInv, Req!RequestsSafe, PlanSafe
<1>2. /\ LaunchShaped(l) /\ l.at = to /\ l.request = launch.request /\ l.found = launch.found
      /\ l.repo = launch.repo /\ l.mode = launch.mode /\ l.evidence = launch.evidence /\ l.plan = launch.plan
  <2>1. LaunchShaped(launch)
    BY <1>1 DEF LaunchFits
  <2>2. CASE l = [launch EXCEPT !.at = to]
    BY <2>1, <2>2 DEF LaunchShaped
  <2>3. CASE l = [launch EXCEPT !.at = to, !.answer = word]
    BY <2>1, <2>3 DEF LaunchShaped
  <2> QED BY <2>2, <2>3
<1>3. EvidenceOf(l)
  BY <1>1, <1>2 DEF LaunchFits, EvidenceOf
<1>4. FoundThere(launch) => FoundThere(l)
  BY <1>2 DEF FoundThere
<1>5. LaunchFits(l, here')
  BY <1>1, <1>2, <1>3, <1>4 DEF LaunchFits
<1>6. PlanSafe'
  BY <1>1, <1>2, PlanStays
<1>7. launch'.at \in Stages /\ LaunchFits(launch, here)'
  BY <1>2, <1>5
<1> QED BY <1>6, <1>7, ReqMoves

\* The call of the adapter fails.
LEMMA ReqFails ==
    ASSUME ReqInv, launch.at \in {"sent", "configured", "collected"}, Req!Fails, here' = here,
           \A r \in rows' : r.path \in Req!Copies,
           UNCHANGED <<entries, genuine, commits, changes>>
    PROVE  ReqInv'
<1>1. PICK l : l = [launch EXCEPT !.at = "returning"]
  BY Zenon
<1>2. launch' = l
  BY <1>1 DEF Req!Fails, Req!Goes, Req!Becomes
<1>3. LaunchFits(launch, here) /\ here \in Req!Places
  BY DEF ReqInv, Req!RequestsSafe, Req!RequestsTypeOK
<1>4. /\ Req!WithinBoundary(launch.request) /\ (launch.request.by = "api" => here' = launch.request.at)
      /\ launch.request.by # "api" => FoundThere(launch) /\ here' = launch.found.tree
  BY <1>3 DEF LaunchFits, Away
<1> QED BY <1>1, <1>2, <1>3, <1>4, ReqGoes DEF Stages, Away, Before

\* The command ends where it was called.
LEMMA ReqEnds ==
    ASSUME ReqInv, NEW word, launch.at \notin Away \/ here' = launch.request.at, Req!Ends(word),
           here' \in {here, launch.request.at},
           UNCHANGED <<entries, genuine, rows, commits, changes>>
    PROVE  ReqInv'
<1>1. PICK l : l = [launch EXCEPT !.at = "done", !.answer = word]
  BY Zenon
<1>2. launch' = l
  BY <1>1 DEF Req!Ends, Req!Becomes
<1>3. LaunchFits(launch, here) /\ here \in Req!Places /\ \A r \in rows' : r.path \in Req!Copies
  BY DEF ReqInv, Req!RequestsSafe, Req!RequestsTypeOK
<1>4. here' = launch.request.at /\ launch.request \in Asked
  BY <1>3 DEF LaunchFits, LaunchShaped
<1>5. here' \in Req!Places
  BY <1>4, ReqConstants
<1> QED BY <1>1, <1>2, <1>3, <1>4, <1>5, ReqGoes DEF Stages, Away, Before

LEMMA CommandKept ==
    ASSUME ReqInv, \/ Req!Accept \/ Req!Preflight \/ Req!Enter \/ Req!Configure
                   \/ Req!Nothing \/ Req!Leave
    PROVE  ReqInv'
<1> USE DEF Req!worldVars
<1>1. LaunchFits(launch, here) /\ here \in Req!Places /\ (\A r \in rows : r.path \in Req!Copies)
  BY DEF ReqInv, Req!RequestsSafe, Req!RequestsTypeOK
<1>2. ASSUME NEW to \in Stages, Req!Goes(to) PROVE launch' = [launch EXCEPT !.at = to]
  BY <1>2 DEF Req!Goes, Req!Becomes
<1>3. CASE Req!Accept
  <2>1. launch.at = "asked" /\ UNCHANGED <<entries, genuine, rows, commits, changes, here>>
    BY <1>3 DEF Req!Accept
  <2>2. CASE \E word \in {"refused", "answered"} : Req!Ends(word)
    BY <2>1, <2>2, ReqEnds DEF Away
  <2>3. CASE /\ Req!WithinBoundary(launch.request)
             /\ Req!Goes(IF launch.request.by = "api" THEN "sent" ELSE "accepted")
    <3>1. PICK to : to = IF launch.request.by = "api" THEN "sent" ELSE "accepted"
      BY Zenon
    <3>2. to \in Stages /\ launch' = [launch EXCEPT !.at = to]
      BY <2>3, <3>1 DEF Stages, Req!Goes, Req!Becomes
    <3>3. here = launch.request.at /\ launch.evidence = Req!NoEvidence /\ ~launch.plan.made
      BY <1>1, <2>1 DEF LaunchFits, Away, Before
    <3>4. PICK l : l = [launch EXCEPT !.at = to]
      BY Zenon
    <3>5. to \in {"sent", "accepted"} /\ (to = "sent" <=> launch.request.by = "api")
      BY <3>1
    <3> QED BY <1>1, <2>1, <2>3, <3>2, <3>3, <3>4, <3>5, ReqGoes DEF Away, Before
  <2>4. \/ \E word \in {"refused", "answered"} : Req!Ends(word)
        \/ /\ Req!WithinBoundary(launch.request)
           /\ Req!Goes(IF launch.request.by = "api" THEN "sent" ELSE "accepted")
    BY <1>3 DEF Req!Accept
  <2> QED BY <2>2, <2>3, <2>4
<1>4. CASE Req!Preflight
  BY <1>4, ReqEnds DEF Req!Preflight, Away
<1>5. CASE Req!Enter
  <2>1. launch.at = "located" /\ UNCHANGED <<entries, genuine, rows, commits, changes>>
    BY <1>5 DEF Req!Enter
  <2>2. CASE here' = here /\ Req!Ends("refused")
    BY <2>1, <2>2, ReqEnds DEF Away
  <2>3. CASE here' = launch.found.tree /\ Req!Goes("sent")
    <3>1. launch.request.by # "api"
      BY <1>1, <2>1 DEF LaunchFits
    <3>2. FoundThere(launch)
      BY <1>1, <2>1, <3>1 DEF LaunchFits
    <3>3. here' \in Req!Places
      BY <2>3, <3>2, PlacesAre DEF FoundThere
    <3>4. PICK l : l = [launch EXCEPT !.at = "sent"]
      BY Zenon
    <3>5. launch' = l
      BY <2>3, <3>4 DEF Req!Goes, Req!Becomes
    <3>6. Req!WithinBoundary(launch.request) /\ launch.evidence = Req!NoEvidence /\ ~launch.plan.made
      BY <1>1, <2>1 DEF LaunchFits, Before
    <3> QED BY <1>1, <2>1, <2>3, <3>1, <3>2, <3>3, <3>4, <3>5, <3>6, ReqGoes DEF Stages, Away, Before
  <2> QED BY <1>5, <2>2, <2>3 DEF Req!Enter
<1>6. CASE Req!Configure
  <2>1. launch.at = "sent" /\ UNCHANGED <<entries, genuine, rows, commits, changes, here>>
    BY <1>6 DEF Req!Configure
  <2>2. CASE Req!Fails
    BY <1>1, <2>1, <2>2, ReqFails
  <2>3. CASE /\ Req!MayResume(launch.request)
             /\ launch' = [launch EXCEPT !.at = "configured", !.mode = Req!ModeOf(launch.request)]
    <3>1. PICK mode : mode = Req!ModeOf(launch.request)
      BY Zenon
    <3>2. PICK l : l = [launch EXCEPT !.at = "configured", !.mode = mode]
      BY Zenon
    <3>3. launch' = l
      BY <2>3, <3>1, <3>2
    <3>4. /\ LaunchShaped(l) /\ l.at = "configured" /\ l.request = launch.request /\ l.found = launch.found
          /\ l.repo = launch.repo /\ l.evidence = launch.evidence /\ l.plan = launch.plan
      BY <1>1, <3>2 DEF LaunchFits, LaunchShaped, Stages
    <3>5. EvidenceOf(l)
      BY <1>1, <3>4 DEF LaunchFits, EvidenceOf
    <3>6. FoundThere(launch) => FoundThere(l)
      BY <3>4 DEF FoundThere
    <3>7. LaunchFits(l, here)
      BY <1>1, <2>1, <2>3, <3>4, <3>5, <3>6 DEF LaunchFits, Away, Before
    <3>8. PlanSafe'
      BY <3>3, <3>4, PlanStays DEF ReqInv, Req!RequestsSafe, PlanSafe
    <3> QED BY <1>1, <2>1, <3>3, <3>4, <3>7, <3>8, ReqMoves DEF Stages
  <2> QED BY <1>6, <2>2, <2>3 DEF Req!Configure, Req!Becomes
<1>7. CASE Req!Nothing
  <2>1. /\ launch.at = "configured" /\ UNCHANGED <<entries, genuine, rows, commits, changes, here>>
        /\ Req!Needs(launch.request, launch.mode) = "none" /\ Req!Goes("collected")
    BY <1>7 DEF Req!Nothing
  <2>2. Req!WithinBoundary(launch.request) /\ Req!MayResume(launch.request) /\ ~launch.plan.made
    BY <1>1, <2>1 DEF LaunchFits
  <2>3. ~Req!Has(launch.request, "select")
    BY <2>1, <2>2 DEF Req!WithinBoundary, Req!Needs, Req!Runtime
  <2>4. /\ launch.request.by = "api" => here = launch.request.at
        /\ launch.request.by # "api" => FoundThere(launch) /\ here = launch.found.tree
    BY <1>1, <2>1 DEF LaunchFits, Away
  <2>5. PICK l : l = [launch EXCEPT !.at = "collected"]
    BY Zenon
  <2>6. launch' = l
    BY <2>1, <2>5 DEF Req!Goes, Req!Becomes
  <2> QED BY <1>1, <2>1, <2>2, <2>3, <2>4, <2>5, <2>6, ReqGoes DEF Stages, Away, Before
<1>8. CASE Req!Leave
  <2>1. here' = launch.request.at /\ UNCHANGED <<entries, genuine, rows, commits, changes>>
        /\ \E word \in {"launched", "failed"} : Req!Ends(word)
    BY <1>8 DEF Req!Leave
  <2> QED BY <2>1, ReqEnds
<1> QED BY <1>3, <1>4, <1>5, <1>6, <1>7, <1>8

\* Where a request is located.
LEMMA LocatedIs ==
    ASSUME NEW r \in Asked, NEW x \in Req!Located(r)
    PROVE  /\ x.found.root \in Req!Roots /\ x.found.tree \in Req!Trees
           /\ x.found.tree \in Req!Copies =>
                x.found.root = Req!Primary[x.found.tree] /\ x.found.tree = Req!Tree(r.at)
           /\ x.found.tree \in Req!Roots => x.found.root = x.found.tree
           /\ x.repo \in {Req!Unset, x.found.root} /\ (x.repo = Req!Unset => r.repo = Req!Unset)
<1>1. r.at \in Req!Places
  BY ReqConstants
<1>2. CASE Req!Parented(r)
  <2>1. PICK i \in Req!Resolve(Req!Unset, r.at, TRUE) :
          /\ i.kind = "linked" /\ x = [found |-> i, repo |-> i.root]
    BY <1>2 DEF Req!Located
  <2>2. x.found = i /\ x.repo = i.root
    BY <2>1
  <2>3. /\ i.root \in Req!Roots /\ i.tree \in Req!Trees /\ i.tree \in Req!Copies
        /\ i.tree = Req!Tree(r.at) /\ i.root = Req!Primary[i.tree]
        /\ i.tree \in Req!Roots => i.root = i.tree
    <3>1. PICK place : place = r.at
      BY Zenon
    <3>2. PICK too \in BOOLEAN : too = TRUE
      OBVIOUS
    <3>3. place \in Req!Places /\ i \in Req!Resolve(Req!Unset, place, too)
      BY <1>1, <2>1, <3>1, <3>2
    <3>4. PICK repo : repo = Req!Unset
      BY Zenon
    <3>5. i \in Req!Resolve(repo, place, too)
      BY <3>3, <3>4
    <3> QED BY <2>1, <3>1, <3>3, <3>4, <3>5, ResolveIs
  <2>4. i.root # Req!Unset
    BY <2>3, PlacesAre
  <2> QED BY <2>2, <2>3, <2>4
<1>3. CASE ~Req!Parented(r)
  <2>1. PICK inferred \in BOOLEAN : inferred = (r.by = "ppa" /\ r.repo = Req!Unset /\ ~Req!Has(r, "select"))
    OBVIOUS
  <2>2. PICK f \in Req!Resolve(r.repo, r.at, inferred) :
          x = [found |-> f, repo |-> IF inferred THEN Req!Unset ELSE f.root]
    BY <1>3, <2>1 DEF Req!Located
  <2>3. x.found = f /\ x.repo = IF inferred THEN Req!Unset ELSE f.root
    BY <2>2
  <2>4. /\ f.root \in Req!Roots /\ f.tree \in Req!Trees
        /\ r.repo # Req!Unset => f.tree = f.root
        /\ r.repo = Req!Unset => f.tree = Req!Tree(r.at)
        /\ f.tree \in Req!Copies => f.root = Req!Primary[f.tree]
        /\ f.tree \in Req!Roots => f.root = f.tree
    <3>1. PICK place : place = r.at
      BY Zenon
    <3>2. PICK repo : repo = r.repo
      BY Zenon
    <3>3. place \in Req!Places /\ f \in Req!Resolve(repo, place, inferred)
      BY <1>1, <2>2, <3>1, <3>2
    <3>4. /\ f.root \in Req!Roots /\ f.tree \in Req!Trees
          /\ repo # Req!Unset => f.tree = f.root
          /\ repo = Req!Unset => f.tree = Req!Tree(place)
          /\ f.tree \in Req!Copies => f.root = Req!Primary[f.tree]
          /\ f.tree \in Req!Roots => f.root = f.tree
      BY <3>3, ResolveIs
    <3> QED BY <3>1, <3>2, <3>4
  <2>5. f.root \notin Req!Copies /\ f.root # Req!Unset
    BY <2>4, PlacesAre
  <2> QED BY <2>1, <2>3, <2>4, <2>5
<1> QED BY <1>2, <1>3

LEMMA LocateKept ==
    ASSUME ReqInv, Req!Locate
    PROVE  ReqInv'
<1>1. /\ LaunchFits(launch, here) /\ here \in Req!Places /\ (\A r \in rows : r.path \in Req!Copies)
      /\ launch.at = "accepted" /\ UNCHANGED <<entries, genuine, rows, commits, changes, here>>
  BY DEF ReqInv, Req!RequestsSafe, Req!RequestsTypeOK, Req!Locate, Req!worldVars
<1>2. CASE Req!Ends("refused")
  BY <1>1, <1>2, ReqEnds DEF Away
<1>3. CASE \E x \in Req!Located(launch.request) :
             launch' = [launch EXCEPT !.at = "located", !.found = x.found, !.repo = x.repo]
  <2>1. PICK r \in Asked : r = launch.request
    BY <1>1 DEF LaunchFits, LaunchShaped
  <2>2. PICK x \in Req!Located(r) : launch' = [launch EXCEPT !.at = "located", !.found = x.found, !.repo = x.repo]
    BY <1>3, <2>1
  <2>3. PICK f : f = x.found
    BY Zenon
  <2>4. PICK repo : repo = x.repo
    BY Zenon
  <2>5. PICK l : l = [launch EXCEPT !.at = "located", !.found = f, !.repo = repo]
    BY Zenon
  <2>6. launch' = l
    BY <2>2, <2>3, <2>4, <2>5
  <2>7. /\ LaunchShaped(l) /\ l.at = "located" /\ l.request = launch.request /\ l.found = f
        /\ l.repo = repo /\ l.evidence = launch.evidence /\ l.plan = launch.plan
    BY <1>1, <2>5 DEF LaunchFits, LaunchShaped, Stages
  <2>8. FoundThere(l)
    BY <2>1, <2>3, <2>4, <2>7, LocatedIs DEF FoundThere
  <2>9. launch.evidence = Req!NoEvidence /\ ~launch.plan.made /\ Req!WithinBoundary(launch.request)
        /\ here = launch.request.at /\ launch.request.by # "api"
    BY <1>1 DEF LaunchFits, Before, Away
  <2>10. EvidenceOf(l)
    BY <2>7, <2>9 DEF EvidenceOf, Req!NoEvidence, Req!BuilderRoles
  <2>11. LaunchFits(l, here)
    BY <2>7, <2>8, <2>9, <2>10 DEF LaunchFits, Away, Before
  <2>12. PlanSafe'
    <3>1. ~launch'.plan.made
      BY <2>6, <2>7, <2>9
    <3>2. (~launch.plan.made => PlanSafe)'
      BY PlanUnmade, PTL
    <3> QED BY <3>1, <3>2
  <2> QED BY <1>1, <2>6, <2>7, <2>11, <2>12, ReqMoves DEF Stages
<1> QED BY <1>2, <1>3 DEF Req!Locate, Req!Becomes

\* What a launch of Pi needs before it is planned.
LEMMA NeedsIs ==
    ASSUME NEW r, NEW mode, Req!Needs(r, mode) # "none"
    PROVE  /\ Req!Runtime(r) = "pi"
           /\ Req!Needs(r, mode) \in {"selection", "review"} \cup Req!BuilderRoles
           /\ Req!Needs(r, mode) = "selection" <=> Req!Has(r, "select")
           /\ Req!Needs(r, mode) \in Req!BuilderRoles => r.ticket # Req!Unset
<1>1. Req!Runtime(r) = "pi"
  BY DEF Req!Needs
<1>2. CASE Req!Has(r, "select")
  BY <1>1, <1>2 DEF Req!Needs, Req!BuilderRoles
<1>3. CASE ~Req!Has(r, "select") /\ r.team = "requirements" /\ mode = "review-auto" /\ r.resume = "no"
  BY <1>1, <1>3 DEF Req!Needs, Req!BuilderRoles
<1>4. CASE ~Req!Has(r, "select") /\ ~(r.team = "requirements" /\ mode = "review-auto" /\ r.resume = "no")
  <2>1. /\ r.ticket # Req!Unset
        /\ Req!Needs(r, mode) = IF mode = "orchestrator" THEN "orchestrator"
                                ELSE IF Req!Has(r, "child") THEN "parented" ELSE "standalone"
    BY <1>1, <1>4 DEF Req!Needs
  <2> QED BY <1>1, <1>4, <2>1 DEF Req!BuilderRoles
<1> QED BY <1>2, <1>3, <1>4

\* A repository resolved where the process is, is the one the request was located in.
LEMMA SameRepository ==
    ASSUME LaunchFits(launch, here), here \in Req!Places, launch.at \in Away, launch.request.by # "api",
           NEW too \in BOOLEAN, NEW repo, repo \in {launch.repo, Req!Unset}, NEW f \in Req!Resolve(repo, here, too)
    PROVE  f.root = launch.found.root
<1>1. FoundThere(launch) /\ here = launch.found.tree
  BY DEF LaunchFits
<1>2. PICK place \in Req!Places : place = here
  OBVIOUS
<1>3. /\ repo # Req!Unset => (repo \notin Keys => f.root = repo)
      /\ repo = Req!Unset => f.tree = Req!Tree(place)
      /\ f.tree \in Req!Copies => f.root = Req!Primary[f.tree]
      /\ f.tree \in Req!Roots => f.root = f.tree
  <2>1. f \in Req!Resolve(repo, place, too)
    BY <1>2
  <2> QED BY <2>1, ResolveIs
<1>4. CASE repo = Req!Unset
  <2>1. f.tree = launch.found.tree
    BY <1>1, <1>2, <1>3, <1>4, PlacesAre DEF FoundThere
  <2>2. f.tree \in Req!Copies \/ f.tree \in Req!Roots
    BY <1>1, <2>1, PlacesAre DEF FoundThere
  <2> QED BY <1>1, <1>3, <2>1, <2>2 DEF FoundThere
<1>5. CASE repo # Req!Unset
  <2>1. repo = launch.found.root /\ repo \in Req!Roots
    BY <1>1, <1>5 DEF FoundThere
  <2>2. repo \notin Keys
    BY <2>1, ReqConstants, PlacesAre
  <2> QED BY <1>3, <1>5, <2>1, <2>2
<1> QED BY <1>4, <1>5

LEMMA CheckoutRoot ==
    ASSUME NEW f, NEW row, row.path \in Req!Copies, Req!SameCheckout(f, row)
    PROVE  f.root = Req!Primary[row.path] /\ row.path \in genuine
<1>1. PICK too \in BOOLEAN : too = TRUE
  OBVIOUS
<1>2. PICK place : place = row.path
  BY Zenon
<1>3. PICK s \in Req!Resolve(Req!Unset, place, too) : s.key = f.key /\ s.root = f.root
  BY <1>1, <1>2 DEF Req!SameCheckout
<1>4. place \in Req!Places /\ place \in Req!Copies /\ Req!Tree(place) = place
  BY <1>2, PlacesAre
<1>5. PICK repo : repo = Req!Unset
  BY Zenon
<1>6. s \in Req!Resolve(repo, place, too)
  BY <1>3, <1>5
<1>7. s.tree = place /\ (s.tree \in Req!Copies => s.tree \in genuine /\ s.root = Req!Primary[s.tree])
  BY <1>4, <1>5, <1>6, ResolveIs
<1> QED BY <1>2, <1>3, <1>4, <1>7

\* Evidence that was collected.
LEMMA ReqCollects ==
    ASSUME ReqInv, launch.at = "configured", NEW e, Req!Collects(e), here' = here,
           \A r \in rows' : r.path \in Req!Copies, UNCHANGED <<entries, genuine, commits, changes>>,
           e.for # "none", e.for = Req!Needs(launch.request, launch.mode), e.tree \in Req!Copies,
           e.root = Req!Primary[e.tree], e.ticket = launch.request.ticket, e.head # 0,
           launch.request.by # "api" => e.root = launch.found.root,
           e.for \in Req!BuilderRoles => e.id # 0,
           e.for = "parented" => e.tree = Req!Tree(launch.request.at),
           e.for = "selection" /\ launch.request.resume = "selected" => e.tree = Earlier.tree /\ e.key = Earlier.key
    PROVE  ReqInv'
<1>1. LaunchFits(launch, here) /\ here \in Req!Places
  BY DEF ReqInv, Req!RequestsSafe, Req!RequestsTypeOK
<1>2. PICK l : l = [launch EXCEPT !.at = "collected", !.evidence = e]
  BY Zenon
<1>3. launch' = l
  BY <1>2 DEF Req!Collects, Req!Becomes
<1>4. /\ LaunchShaped(l) /\ l.at = "collected" /\ l.request = launch.request /\ l.found = launch.found
      /\ l.repo = launch.repo /\ l.evidence = e /\ l.plan = launch.plan
  BY <1>1, <1>2 DEF LaunchFits, LaunchShaped, Stages
<1>5. PICK r : r = launch.request
  BY Zenon
<1>6. PICK mode : mode = launch.mode
  BY Zenon
<1>7. /\ Req!Runtime(r) = "pi" /\ e.for \in {"selection", "review"} \cup Req!BuilderRoles
      /\ (Req!Has(r, "select") <=> e.for = "selection")
      /\ (e.for \in Req!BuilderRoles => r.ticket # Req!Unset)
  <2>1. e.for = Req!Needs(r, mode) /\ Req!Needs(r, mode) # "none"
    BY <1>5, <1>6
  <2> QED BY <2>1, NeedsIs
<1>8. EvidenceOf(l)
  <2>1. /\ l.evidence = e /\ l.request = r /\ l.found.root = launch.found.root
        /\ e.ticket = r.ticket /\ (r.by # "api" => e.root = launch.found.root)
        /\ (e.for = "parented" => e.tree = Req!Tree(r.at))
        /\ (e.for = "selection" /\ r.resume = "selected" => e.tree = Earlier.tree /\ e.key = Earlier.key)
    BY <1>4, <1>5
  <2> QED BY <1>7, <2>1 DEF EvidenceOf
<1>9. FoundThere(launch) => FoundThere(l)
  BY <1>4 DEF FoundThere
<1>10. LaunchFits(l, here)
  BY <1>1, <1>4, <1>5, <1>7, <1>8, <1>9 DEF LaunchFits, Away, Before
<1>11. PlanSafe'
  BY <1>3, <1>4, PlanStays DEF ReqInv, Req!RequestsSafe, PlanSafe
<1> QED BY <1>1, <1>3, <1>4, <1>10, <1>11, ReqMoves DEF Stages

\* A row that is held as a lease says which.
LEMMA LeaseIs ==
    ASSUME NEW lessee, NEW row \in Req!Leases(lessee)
    PROVE  row \in rows /\ row.id # 0 /\ row.holder = lessee
BY DEF Req!Leases, Req!Readable, Req!Contradicts

LEMMA SelectKept ==
    ASSUME ReqInv, Req!Select
    PROVE  ReqInv'
<1>1. PICK r : r = launch.request
  BY Zenon
<1>2. PICK for : for = Req!Needs(r, launch.mode)
  BY Zenon
<1>3. /\ LaunchFits(launch, here) /\ here \in Req!Places /\ (\A x \in rows : x.path \in Req!Copies)
      /\ commits \in [Req!Copies -> Nat \ {0}]
      /\ launch.at = "configured" /\ for \in {"selection", "review"}
      /\ UNCHANGED <<entries, genuine, rows, commits, changes, here>>
      /\ IF Req!Selections(r, for) = {} THEN Req!Fails
         ELSE \E e \in Req!Selections(r, for) : Req!Collects(e)
  BY <1>1, <1>2 DEF ReqInv, Req!RequestsSafe, Req!RequestsTypeOK, Req!Select, Req!worldVars
<1>4. CASE Req!Fails
  BY <1>3, <1>4, ReqFails
<1>5. CASE \E e \in Req!Selections(r, for) : Req!Collects(e)
  <2>1. PICK e \in Req!Selections(r, for) : Req!Collects(e)
    BY <1>5
  <2>2. PICK too \in BOOLEAN : too = (for = "review" /\ launch.repo = Req!Unset)
    OBVIOUS
  <2>3a. PICK f \in Req!Resolve(launch.repo, here, too) : \E row \in Req!Sole(<<f.key, r.ticket>>) :
          /\ e = Req!Evidence(for, f, row, r.ticket, linked[r.ticket].head)
          /\ Req!SameSelection(r, e) /\ Req!SameCheckout(f, [path |-> e.tree]) /\ commits[e.tree] = e.head
    BY <2>1, <2>2 DEF Req!Selections
  <2>3. PICK row \in Req!Sole(<<f.key, r.ticket>>) :
          /\ e = Req!Evidence(for, f, row, r.ticket, linked[r.ticket].head)
          /\ Req!SameSelection(r, e) /\ Req!SameCheckout(f, [path |-> e.tree]) /\ commits[e.tree] = e.head
    BY <2>3a
  <2>4. PICK commit : commit = linked[r.ticket].head
    BY Zenon
  <2>5. e = [for |-> for, key |-> f.key, root |-> f.root, tree |-> row.path, ticket |-> r.ticket,
             id |-> row.id, head |-> commit, holder |-> row.holder]
    BY <2>3, <2>4 DEF Req!Evidence
  <2>6. e.for = for /\ e.root = f.root /\ e.tree = row.path /\ e.ticket = r.ticket
    BY <2>5
  <2>7. row \in rows
    BY <2>3, LeaseIs DEF Req!Sole
  <2>8. e.tree \in Req!Copies
    BY <1>3, <2>6, <2>7
  <2>9. e.root = Req!Primary[e.tree]
    <3>1. PICK at : at = [path |-> e.tree]
      BY Zenon
    <3>2. at.path = e.tree /\ Req!SameCheckout(f, at)
      BY <2>3, <3>1
    <3> QED BY <2>6, <2>8, <3>2, CheckoutRoot
  <2>10. e.head # 0
    BY <1>3, <2>3, <2>8
  <2>11. launch.request.by # "api" => e.root = launch.found.root
    <3>1. SUFFICES ASSUME launch.request.by # "api" PROVE f.root = launch.found.root
      BY <2>6
    <3>2. PICK repo : repo = launch.repo
      BY Zenon
    <3>3. f \in Req!Resolve(repo, here, too)
      BY <2>3a, <3>2
    <3> QED BY <1>3, <3>1, <3>2, <3>3, SameRepository DEF Away
  <2>12. e.for = "selection" /\ launch.request.resume = "selected" => e.tree = Earlier.tree /\ e.key = Earlier.key
    BY <1>1, <2>3 DEF Req!SameSelection
  <2>13. e.for \notin Req!BuilderRoles /\ e.for # "none" /\ e.for # "parented"
    BY <1>3, <2>6 DEF Req!BuilderRoles
  <2> QED BY <1>1, <1>2, <1>3, <2>1, <2>6, <2>8, <2>9, <2>10, <2>11, <2>12, <2>13, ReqCollects
<1> QED BY <1>3, <1>4, <1>5

\* The rows a builder's checkout may have.
LEMMA CheckoutRowIs ==
    ASSUME \A x \in rows : x.path \in Req!Copies, NEW for, NEW f, NEW lessee,
           NEW row \in Req!CheckoutRows(for, f, lessee)
    PROVE  row.path \in Req!Copies /\ row.id # 0 /\ (for # "orchestrator" => row.path = here)
<1>1. CASE row \in Req!Sole(lessee)
  <2>1. row \in rows /\ row.id # 0
    BY <1>1, LeaseIs DEF Req!Sole
  <2>2. for # "orchestrator" => row.path = here
    BY DEF Req!CheckoutRows, Req!Prepared
  <2> QED BY <2>1, <2>2
<1>2. CASE row \in Req!Granted(lessee) /\ for = "orchestrator"
  BY <1>2 DEF Req!Granted
<1>3. row \in Req!Sole(lessee) \/ (row \in Req!Granted(lessee) /\ for = "orchestrator")
  BY DEF Req!CheckoutRows, Req!Acquired, Req!Prepared
<1> QED BY <1>1, <1>2, <1>3

LEMMA CheckKept ==
    ASSUME ReqInv, Req!Check
    PROVE  ReqInv'
<1>1. PICK r : r = launch.request
  BY Zenon
<1>2. PICK for : for = Req!Needs(r, launch.mode)
  BY Zenon
<1>3. /\ LaunchFits(launch, here) /\ here \in Req!Places /\ (\A x \in rows : x.path \in Req!Copies)
      /\ commits \in [Req!Copies -> Nat \ {0}] /\ launch.request \in Asked
      /\ launch.at = "configured" /\ for \in {"orchestrator", "standalone", "parented"}
      /\ UNCHANGED <<entries, genuine, commits, changes, here>>
  BY <1>1, <1>2 DEF ReqInv, Req!RequestsSafe, Req!RequestsTypeOK, Req!Check, LaunchFits, LaunchShaped
<1>4. CASE Req!Fails /\ UNCHANGED rows
  BY <1>3, <1>4, ReqFails
<1>5. CASE \E c \in Req!Checkouts(r, for) :
             /\ rows' = rows \cup {c[2]}
             /\ IF Req!SameCheckout(c[1], c[2])
                THEN Req!Collects(Req!Evidence(for, c[1], c[2], r.ticket, commits[c[2].path]))
                ELSE Req!Fails
  <2>1. PICK c \in Req!Checkouts(r, for) :
             /\ rows' = rows \cup {c[2]}
             /\ IF Req!SameCheckout(c[1], c[2])
                THEN Req!Collects(Req!Evidence(for, c[1], c[2], r.ticket, commits[c[2].path]))
                ELSE Req!Fails
    BY <1>5
  <2>2. PICK f \in Req!Placings(r, for) :
          \E row \in Req!CheckoutRows(for, f, <<f.key, r.ticket>>) : c = <<f, row>>
    BY <2>1 DEF Req!Checkouts
  <2>2a. PICK row \in Req!CheckoutRows(for, f, <<f.key, r.ticket>>) : c = <<f, row>>
    BY <2>2
  <2>3. c[1] = f /\ c[2] = row
    BY <2>2a
  <2>4. row.path \in Req!Copies /\ row.id # 0 /\ (for # "orchestrator" => row.path = here)
    <3>1. PICK lessee : lessee = <<f.key, r.ticket>>
      BY Zenon
    <3>2. row \in Req!CheckoutRows(for, f, lessee)
      BY <2>2a, <3>1
    <3> QED BY <1>3, <3>2, CheckoutRowIs
  <2>5. \A x \in rows' : x.path \in Req!Copies
    BY <1>3, <2>1, <2>3, <2>4
  <2>6. CASE Req!Fails
    BY <1>3, <2>5, <2>6, ReqFails
  <2>7. CASE /\ Req!SameCheckout(f, row)
             /\ Req!Collects(Req!Evidence(for, f, row, r.ticket, commits[row.path]))
    <3>1. PICK commit : commit = commits[row.path]
      BY Zenon
    <3>2. PICK e : e = [for |-> for, key |-> f.key, root |-> f.root, tree |-> row.path, ticket |-> r.ticket,
                        id |-> row.id, head |-> commit, holder |-> row.holder]
      BY Zenon
    <3>3. Req!Collects(e)
      BY <2>7, <3>1, <3>2, Zenon DEF Req!Evidence
    <3>4. e.for = for /\ e.root = f.root /\ e.tree = row.path /\ e.ticket = r.ticket /\ e.id = row.id /\ e.head = commit
      BY <3>2
    <3>5. e.root = Req!Primary[e.tree]
      BY <2>4, <2>7, <3>4, CheckoutRoot
    <3>6. e.head # 0
      BY <1>3, <2>4, <3>1, <3>4
    <3>7. launch.request.by # "api" => e.root = launch.found.root
      <4>1. SUFFICES ASSUME launch.request.by # "api" PROVE f.root = launch.found.root
        BY <3>4
      <4>2. PICK too \in BOOLEAN : too = (for = "parented" \/ launch.repo = Req!Unset)
        OBVIOUS
      <4>3. PICK repo : repo = IF for = "parented" THEN Req!Unset ELSE launch.repo
        BY Zenon
      <4>4. f \in Req!Resolve(repo, here, too)
        BY <2>2, <4>2, <4>3 DEF Req!Placings, Req!Invocation
      <4>5. repo \in {launch.repo, Req!Unset}
        BY <4>3
      <4> QED BY <1>3, <4>1, <4>4, <4>5, SameRepository DEF Away
    <3>8. e.for = "parented" => e.tree = Req!Tree(launch.request.at)
      <4>1. SUFFICES ASSUME for = "parented" PROVE here = Req!Tree(launch.request.at)
        BY <2>4, <3>4
      <4>2. here \in Req!Copies
        BY <2>4, <4>1
      <4>3. CASE launch.request.by = "api"
        BY <1>3, <4>2, <4>3, PlacesAre DEF LaunchFits
      <4>4. CASE launch.request.by # "api"
        BY <1>3, <4>2, <4>4 DEF LaunchFits, FoundThere, Away
      <4> QED BY <4>3, <4>4
    <3>9. e.for # "none" /\ e.for # "selection"
      BY <1>3, <3>4
    <3> QED BY <1>1, <1>2, <1>3, <2>4, <2>5, <3>3, <3>4, <3>5, <3>6, <3>7, <3>8, <3>9, ReqCollects
  <2> QED BY <2>1, <2>3, <2>6, <2>7
<1> QED BY <1>1, <1>2, <1>4, <1>5 DEF Req!Check

\* What is planned, is resolved at that moment and agrees with the evidence.
LEMMA PlannableIs ==
    ASSUME ReqInv, launch.at = "collected", NEW f \in Req!Plannable(launch.request)
    PROVE  /\ f.key \in Keys /\ f.root = entries[f.key]
           /\ f.kind = "linked" <=> f.tree \in Req!Copies
           /\ Req!PlanRepo \notin Keys => \A k \in Keys \ {f.key} : entries[k] # f.root
           /\ f.tree \in Req!Copies =>
                /\ Req!Runtime(launch.request) = "pi" /\ Req!PlanRepo = Req!Unset
                /\ f.tree \in genuine /\ f.root = Req!Primary[f.tree]
           /\ launch.evidence.for # "none" => f.tree = launch.evidence.tree /\ f.root = launch.evidence.root
           /\ launch.request.by # "api" => f.root = launch.found.root
           /\ Req!Agrees(launch.evidence, f)
<1>1. LaunchFits(launch, here) /\ here \in Req!Places /\ EvidenceOf(launch)
  BY DEF ReqInv, Req!RequestsSafe, Req!RequestsTypeOK, LaunchFits
<1>2. PICK e : e = launch.evidence
  BY Zenon
<1>3. PICK repo : repo = Req!PlanRepo
  BY Zenon
<1>4. PICK place : place = Req!PlanPlace
  BY Zenon
<1>5. PICK too \in BOOLEAN : too = (Req!Runtime(launch.request) = "pi" /\ repo = Req!Unset)
  OBVIOUS
<1>6. f \in Req!Resolve(repo, place, too) /\ Req!Agrees(launch.evidence, f)
  BY <1>3, <1>4, <1>5 DEF Req!Plannable
<1>7. (e.for = "none" <=> e = Req!NoEvidence) /\ (e.for # "none" => e.tree \in Req!Copies /\ e.root = Req!Primary[e.tree])
  BY <1>1, <1>2 DEF EvidenceOf, Req!NoEvidence
<1>8. /\ e.for = "none" => repo = launch.repo /\ place = here
      /\ e.for # "none" => repo = Req!Unset /\ place = e.tree
  BY <1>2, <1>3, <1>4, <1>7 DEF Req!PlanRepo, Req!PlanPlace
<1>9. place \in Req!Places
  BY <1>1, <1>7, <1>8, PlacesAre
<1>10. /\ f.key \in Keys /\ f.root = entries[f.key] /\ f.root \in Req!Roots /\ f.tree \in Req!Trees
       /\ f.kind = "linked" <=> f.tree \in Req!Copies
       /\ repo # Req!Unset => f.tree = f.root /\ (repo \notin Keys => f.root = repo)
       /\ repo = Req!Unset => f.tree = Req!Tree(place)
       /\ f.tree \in Req!Copies => too /\ f.tree \in genuine /\ f.root = Req!Primary[f.tree]
       /\ f.tree \in Req!Roots => f.root = f.tree
       /\ repo \notin Keys => \A k \in Keys \ {f.key} : entries[k] # f.root
  BY <1>6, <1>9, ResolveIs
<1>11. e.for # "none" => f.tree = e.tree /\ f.root = e.root
  <2>1. e.for # "none" => f.tree = Req!Tree(e.tree)
    BY <1>8, <1>10
  <2> QED BY <1>7, <1>10, <2>1, PlacesAre
<1>12. launch.request.by # "api" => f.root = launch.found.root
  <2>1. SUFFICES ASSUME launch.request.by # "api" PROVE f.root = launch.found.root
    OBVIOUS
  <2>2. CASE e.for # "none"
    BY <1>1, <1>2, <1>11, <2>1, <2>2 DEF EvidenceOf
  <2>3. CASE e.for = "none"
    <3>1. f \in Req!Resolve(repo, here, too) /\ repo = launch.repo
      BY <1>6, <1>8, <2>3
    <3>2. launch.at \in Away
      BY DEF Away
    <3> QED BY <1>1, <2>1, <3>1, <3>2, SameRepository
  <2> QED BY <2>2, <2>3
<1> QED BY <1>2, <1>3, <1>5, <1>6, <1>10, <1>11, <1>12

\* The start row of a plan is one the registry takes.
LEMMA CorrelationIs ==
    ASSUME NEW q, NEW e, e = q.evidence, NEW ticket, NEW tree,
           e.for \in {"none", "selection", "review"} \cup Req!BuilderRoles,
           e.for \in {"selection"} \cup Req!BuilderRoles => e.head # 0,
           e.for \in Req!BuilderRoles => e.id # 0 /\ e.tree = tree /\ e.ticket = ticket /\ ticket # Req!Unset
                                         /\ e.holder = <<q.at.key, e.ticket>>
    PROVE  Req!CorrelationValid(Req!Correlation(q), ticket, tree)
<1>1. CASE e.for \in Req!BuilderRoles
  <2>1. PICK number : number = e.id
    BY Zenon
  <2>2. PICK owner2 : owner2 = e.holder
    BY Zenon
  <2>3. PICK commit : commit = e.head
    BY Zenon
  <2>4. PICK for : for = e.for
    BY Zenon
  <2>5. PICK parent : parent = (for = "parented")
    BY Zenon
  <2>6. PICK review2 : review2 = (for = "review")
    BY Zenon
  <2>7. Req!Correlation(q) = [review |-> review2, authority |-> for, parent |-> parent, path |-> tree, lease |-> number,
          holder |-> owner2, slot |-> owner2, state |-> "materialized", head |-> commit]
    BY <1>1, <2>1, <2>2, <2>3, <2>4, <2>5, <2>6, Zenon DEF Req!Correlation
  <2>8. /\ for \in {"orchestrator", "parented", "standalone"} /\ commit # 0 /\ number # 0 /\ ~review2
        /\ ticket # Req!Unset /\ owner2 = <<q.at.key, ticket>>
    BY <1>1, <2>1, <2>2, <2>3, <2>4, <2>6 DEF Req!BuilderRoles
  <2>9. owner2[2] = ticket /\ owner2 # Req!NoHolder
    BY <2>8 DEF Req!NoHolder
  <2> QED BY <2>5, <2>7, <2>8, <2>9 DEF Req!CorrelationValid, Req!Unset
<1>2. CASE e.for \notin Req!BuilderRoles
  <2>1. e.for \in {"none", "selection", "review"}
    BY <1>2
  <2>2. PICK c : c = Req!Correlation(q)
    BY Zenon
  <2>3. /\ c.authority = Req!Unset /\ c.parent = (e.for = "parented") /\ c.path = Req!Unset /\ c.lease = 0
        /\ c.holder = Req!NoHolder /\ c.slot = Req!NoHolder
        /\ c.state = (IF e.for = "selection" THEN "materialized" ELSE Req!Unset)
        /\ c.head = (IF e.for = "selection" THEN e.head ELSE 0)
    BY <1>2, <2>2 DEF Req!Correlation
  <2>4. ~Req!Bound(c)
    BY <2>1, <2>3 DEF Req!Bound
  <2>5. (c.state = Req!Unset => c.head = 0) /\ (c.state = "materialized" => c.head # 0)
    BY <2>1, <2>3 DEF Req!Unset
  <2> QED BY <2>2, <2>4, <2>5 DEF Req!CorrelationValid
<1> QED BY <1>1, <1>2

LEMMA PlanKept ==
    ASSUME ReqInv, Req!Plan
    PROVE  ReqInv'
<1>1. /\ LaunchFits(launch, here) /\ here \in Req!Places /\ (\A x \in rows : x.path \in Req!Copies)
      /\ launch.at = "collected" /\ UNCHANGED <<entries, genuine, rows, commits, changes, here>>
  BY DEF ReqInv, Req!RequestsSafe, Req!RequestsTypeOK, Req!Plan, Req!worldVars
<1>2. CASE Req!Fails
  BY <1>1, <1>2, ReqFails
<1>3. CASE \E f \in Req!Plannable(launch.request) :
             launch' = [launch EXCEPT !.at = "returning",
                          !.plan = [at |-> f, mode |-> launch.mode, evidence |-> launch.evidence, made |-> TRUE]]
  <2>1. PICK f \in Req!Plannable(launch.request) :
             launch' = [launch EXCEPT !.at = "returning",
                          !.plan = [at |-> f, mode |-> launch.mode, evidence |-> launch.evidence, made |-> TRUE]]
    BY <1>3
  <2>2. PICK e : e = launch.evidence
    BY Zenon
  <2>3. PICK q : q = [at |-> f, mode |-> launch.mode, evidence |-> e, made |-> TRUE]
    BY Zenon
  <2>4. PICK l : l = [launch EXCEPT !.at = "returning", !.plan = q]
    BY Zenon
  <2>5. launch' = l
    BY <2>1, <2>2, <2>3, <2>4
  <2>6. /\ LaunchShaped(l) /\ l.at = "returning" /\ l.request = launch.request /\ l.found = launch.found
        /\ l.repo = launch.repo /\ l.evidence = e /\ l.plan = q
    BY <1>1, <2>2, <2>4 DEF LaunchFits, LaunchShaped, Stages
  <2>7. q.at = f /\ q.evidence = e /\ q.made = TRUE
    BY <2>3
  <2>8. EvidenceOf(l) /\ EvidenceOf(launch)
    BY <1>1, <2>2, <2>6 DEF LaunchFits, EvidenceOf
  <2>9. FoundThere(launch) => FoundThere(l)
    BY <2>6 DEF FoundThere
  <2>10. LaunchFits(l, here)
    BY <1>1, <2>2, <2>6, <2>8, <2>9 DEF LaunchFits, Away, Before
  <2>11. PICK r : r = launch.request
    BY Zenon
  <2>12. /\ (f.kind = "linked" <=> f.tree \in Req!Copies)
         /\ (f.tree \in Req!Copies => Req!Runtime(r) = "pi" /\ Req!PlanRepo = Req!Unset)
         /\ (e.for # "none" => f.tree = e.tree /\ f.root = e.root)
         /\ (r.by # "api" => f.root = launch.found.root)
         /\ Req!Agrees(e, f)
    BY <1>1, <2>2, <2>11, PlannableIs
  <2>13. /\ e.for = "none" => e = Req!NoEvidence
         /\ e.for # "none" => e.for \in {"selection", "review"} \cup Req!BuilderRoles /\ e.ticket = r.ticket /\ e.head # 0
         /\ e.for \in Req!BuilderRoles => e.id # 0 /\ e.ticket # Req!Unset
         /\ e.for = "parented" => e.tree = Req!Tree(r.at)
         /\ e.for = "selection" /\ r.resume = "selected" => e.tree = Earlier.tree /\ e.key = Earlier.key
    BY <2>2, <2>8, <2>11 DEF EvidenceOf
  <2>14. /\ Req!WithinBoundary(r) /\ Req!MayResume(r) /\ (Req!Has(r, "select") => e.for = "selection")
         /\ (launch.repo = Req!Unset => r.repo = Req!Unset)
    BY <1>1, <2>2, <2>11 DEF LaunchFits, FoundThere, Away
  <2>15. launch'.plan = q /\ launch'.request = r /\ launch'.found = launch.found
    BY <2>5, <2>6, <2>11
  <2>16. Req!SameRoot'
    <3>1. r.by # "api" => f.root = launch.found.root /\ (e.for = "parented" => f.tree = Req!Tree(r.at))
      BY <2>12, <2>13
    <3> QED BY <2>7, <2>15, <3>1 DEF Req!SameRoot, Req!plan
  <2>17. Req!LinkedForAReason'
    <3>1. f.kind = "linked" => Req!Runtime(r) = "pi" /\ (e.for # "none" \/ r.repo = Req!Unset)
      <4>1. e.for = "none" => Req!PlanRepo = launch.repo
        BY <2>2, <2>13 DEF Req!PlanRepo
      <4> QED BY <2>12, <2>14, <4>1
    <3> QED BY <2>7, <2>15, <3>1 DEF Req!LinkedForAReason, Req!plan
  <2>18. Req!EvidenceFits'
    <3>1. Req!Has(r, "select") => e.for = "selection" /\ r.team # "builder"
      BY <2>14 DEF Req!WithinBoundary
    <3>2. r.resume = "selected" => e.for = "selection"
      BY <2>14 DEF Req!MayResume
    <3>3. r.resume = "selected" => e.tree = Earlier.tree /\ f.key = Earlier.key
      BY <2>12, <2>13, <3>2 DEF Req!Agrees
    <3>4. e.for # "none" => e.root = f.root /\ e.ticket = r.ticket
      BY <2>12, <2>13
    <3> QED BY <2>7, <2>15, <3>1, <3>3, <3>4 DEF Req!EvidenceFits, Req!plan
  <2>19. Req!StartAccepted'
    <3>1. PICK ticket : ticket = r.ticket
      BY Zenon
    <3>2. PICK tree : tree = f.tree
      BY Zenon
    <3>3. /\ e.for \in {"none", "selection", "review"} \cup Req!BuilderRoles
          /\ e.for \in {"selection"} \cup Req!BuilderRoles => e.head # 0
      BY <2>13 DEF Req!BuilderRoles
    <3>4. e.for \in Req!BuilderRoles => e.id # 0 /\ e.tree = tree /\ e.ticket = ticket /\ ticket # Req!Unset
                                        /\ e.holder = <<q.at.key, e.ticket>>
      BY <2>7, <2>12, <2>13, <3>1, <3>2 DEF Req!BuilderRoles, Req!Agrees
    <3>5. e = q.evidence
      BY <2>7
    <3>6. Req!CorrelationValid(Req!Correlation(q), ticket, tree)
      BY <3>3, <3>4, <3>5, CorrelationIs
    <3> QED BY <2>7, <2>15, <3>1, <3>2, <3>6 DEF Req!StartAccepted, Req!plan
  <2>20. PlanSafe'
    BY <2>16, <2>17, <2>18, <2>19 DEF PlanSafe
  <2> QED BY <1>1, <2>5, <2>6, <2>10, <2>20, ReqMoves DEF Stages
<1> QED BY <1>2, <1>3 DEF Req!Plan, Req!Becomes

LEMMA ReqKept ==
    ASSUME ReqInv, Req!RequestsNext
    PROVE  ReqInv'
BY CommandKept, LocateKept, SelectKept, CheckKept, PlanKept, WorldTurnsKept DEF Req!RequestsNext

\* A step that makes no plan leaves the plan.
LEMMA PlanLeft ==
    ASSUME ReqInv, NEW to, NEW word, NEW found2, NEW repo2, NEW mode2, NEW e,
           \/ launch' = launch
           \/ launch' = [launch EXCEPT !.at = to]
           \/ launch' = [launch EXCEPT !.at = to, !.answer = word]
           \/ launch' = [launch EXCEPT !.at = to, !.found = found2, !.repo = repo2]
           \/ launch' = [launch EXCEPT !.at = to, !.mode = mode2]
           \/ launch' = [launch EXCEPT !.at = to, !.evidence = e]
    PROVE  launch'.plan = launch.plan
BY DEF ReqInv, LaunchFits, LaunchShaped

\* A plan is made only on what holds when it is made.
LEMMA PlansAreMade ==
    ASSUME ReqInv, Req!RequestsNext
    PROVE  Req!PlansHold
<1>1. CASE Req!Plan
  <2>1. CASE Req!Fails
    <3>1. launch' = [launch EXCEPT !.at = "returning"]
      BY <2>1 DEF Req!Fails, Req!Goes, Req!Becomes
    <3> QED BY <3>1, PlanLeft DEF Req!PlansHold, Req!plan
  <2>2. CASE \E f \in Req!Plannable(launch.request) :
               launch' = [launch EXCEPT !.at = "returning",
                            !.plan = [at |-> f, mode |-> launch.mode, evidence |-> launch.evidence, made |-> TRUE]]
    <3>1. PICK f \in Req!Plannable(launch.request) :
               launch' = [launch EXCEPT !.at = "returning",
                            !.plan = [at |-> f, mode |-> launch.mode, evidence |-> launch.evidence, made |-> TRUE]]
      BY <2>2
    <3>2. PICK e : e = launch.evidence
      BY Zenon
    <3>3. PICK q : q = [at |-> f, mode |-> launch.mode, evidence |-> e, made |-> TRUE]
      BY Zenon
    <3>4. launch' = [launch EXCEPT !.at = "returning", !.plan = q]
      BY <3>1, <3>2, <3>3
    <3>5. launch'.plan = q /\ q.at = f /\ q.evidence = e
      BY <3>3, <3>4 DEF ReqInv, LaunchFits, LaunchShaped
    <3>6. launch.at = "collected"
      BY <1>1 DEF Req!Plan
    <3>7. /\ f.key \in Keys /\ f.root = entries[f.key]
          /\ f.kind = "linked" <=> f.tree \in Req!Copies
          /\ Req!PlanRepo \notin Keys => \A k \in Keys \ {f.key} : entries[k] # f.root
          /\ f.tree \in Req!Copies => f.tree \in genuine /\ f.root = Req!Primary[f.tree]
          /\ Req!Agrees(e, f)
      BY <3>2, <3>6, PlannableIs
    <3>8. e.for \in Req!BuilderRoles => commits[f.tree] = e.head
      BY <3>7 DEF Req!Agrees
    <3> QED BY <3>5, <3>7, <3>8 DEF Req!PlansHold, Req!plan
  <2> QED BY <1>1, <2>1, <2>2 DEF Req!Plan, Req!Becomes
<1>2. CASE \/ Req!Accept \/ Req!Preflight \/ Req!Enter \/ Req!Configure
           \/ Req!Nothing \/ Req!Leave \/ Req!Locate \/ Req!Select \/ Req!Check
           \/ Req!Changes
  <2> SUFFICES launch'.plan = launch.plan
    BY DEF Req!PlansHold, Req!plan
  <2>1. ASSUME NEW to, Req!Goes(to) PROVE launch'.plan = launch.plan
    BY <2>1, PlanLeft DEF Req!Goes, Req!Becomes
  <2>2. ASSUME NEW word, Req!Ends(word) PROVE launch'.plan = launch.plan
    BY <2>2, PlanLeft DEF Req!Ends, Req!Becomes
  <2>3. Req!Fails => launch'.plan = launch.plan
    BY <2>1 DEF Req!Fails
  <2>4. ASSUME NEW e, Req!Collects(e) PROVE launch'.plan = launch.plan
    BY <2>4, PlanLeft DEF Req!Collects, Req!Becomes
  <2>5. CASE Req!Accept
    BY <2>1, <2>2, <2>5 DEF Req!Accept
  <2>6. CASE Req!Preflight \/ Req!Enter \/ Req!Nothing \/ Req!Leave
    BY <2>1, <2>2, <2>6 DEF Req!Preflight, Req!Enter, Req!Nothing, Req!Leave
  <2>7. CASE Req!Configure
    BY <2>3, <2>7, PlanLeft DEF Req!Configure, Req!Becomes
  <2>8. CASE Req!Locate
    <3>1. CASE Req!Ends("refused")
      BY <2>2, <3>1
    <3>2. CASE \E x \in Req!Located(launch.request) :
                 launch' = [launch EXCEPT !.at = "located", !.found = x.found, !.repo = x.repo]
      <4>1. PICK x \in Req!Located(launch.request) :
                 launch' = [launch EXCEPT !.at = "located", !.found = x.found, !.repo = x.repo]
        BY <3>2
      <4>2. PICK to : to = "located"
        BY Zenon
      <4>3. PICK found2, repo2 : found2 = x.found /\ repo2 = x.repo
        BY Zenon
      <4>4. launch' = [launch EXCEPT !.at = to, !.found = found2, !.repo = repo2]
        BY <4>1, <4>2, <4>3
      <4> QED BY <4>4, PlanLeft
    <3> QED BY <2>8, <3>1, <3>2 DEF Req!Locate, Req!Becomes
  <2>9. CASE Req!Select
    BY <2>3, <2>4, <2>9 DEF Req!Select
  <2>10. CASE Req!Check
    BY <2>3, <2>4, <2>10 DEF Req!Check
  <2>11. CASE Req!Changes
    <3>1. UNCHANGED launch
      BY <2>11 DEF Req!Changes, Req!EditBook, Req!Tamper, Req!EditPool, Req!Commit, Req!Relink,
         Req!MoveTicket, Req!RetireMode, Req!EditArtifact, Req!Outside
    <3> QED BY <3>1
  <2> QED BY <1>2, <2>5, <2>6, <2>7, <2>8, <2>9, <2>10, <2>11
<1> QED BY <1>1, <1>2 DEF Req!RequestsNext

ReqHolds == part = "requests" => ReqInv

LEMMA ReqStepsKeep == ReqHolds /\ [TicketsNext]_ticketsVars => ReqHolds'
<1> SUFFICES ASSUME ReqHolds, [TicketsNext]_ticketsVars, part' = "requests"
             PROVE  ReqInv'
  BY DEF ReqHolds
<1>1. CASE DeploysStep
  BY <1>1, ReqKept DEF DeploysStep, ReqHolds
<1>2. CASE UNCHANGED ticketsVars
  <2>1. UNCHANGED <<part, requestVars>>
    BY <1>2 DEF ticketsVars
  <2>2. ReqInv /\ UNCHANGED <<entries, genuine, rows, commits, here, launch, changes>>
    BY <2>1 DEF requestVars, ReqHolds
  <2>3. /\ changes \in 0..MaxWorld /\ entries \in [Keys -> Req!Roots \cup {"copy", "nowhere"}]
        /\ genuine \subseteq Req!Copies /\ (\A r \in rows : r.path \in Req!Copies)
        /\ commits \in [Req!Copies -> Nat \ {0}]
    BY <2>2 DEF ReqInv, Req!RequestsSafe, Req!RequestsTypeOK
  <2> QED BY <2>2, <2>3, WorldTurns
<1>3. CASE BranchStep \/ WorkflowStep \/ StoreStep \/ ReportsStep \/ SignalStep \/ DocumentsStep \/ PreparedStep
  BY <1>3 DEF BranchStep, WorkflowStep, StoreStep, ReportsStep, SignalStep, DocumentsStep, PreparedStep
<1> QED BY <1>1, <1>2, <1>3 DEF TicketsNext

\* The journal of a prepared workflow and its resources agree and only what the operator
\* confirmed is tried again; a plan is of the repository the request was accepted for, in a
\* linked tree only for a reason, with the evidence its registry row needs: PreparedSafe.
THEOREM PreparedIsSafe == TicketsSpec => []PreparedSafe
<1>1. TicketsInit => PrepHolds /\ ReqHolds
  BY PrepStarts, ReqStarts DEF TicketsInit, PrepHolds, ReqHolds
<1>2. PrepHolds /\ ReqHolds => PreparedSafe
  BY PrepMeans DEF PrepHolds, ReqHolds, ReqInv, PreparedSafe
<1> QED BY <1>1, <1>2, PrepStepsKeep, ReqStepsKeep, PTL DEF TicketsSpec

\* The base of a materialized branch is read and kept by whoever writes the link.
LEMMA BaseStays ==
    ASSUME BranchInv, Branch!MaterializationNext
    PROVE  Branch!BaseImmutable
<1>1. BranchTyped
  BY DEF BranchInv
<1>2. CASE Branch!Operator
  BY <1>1, <1>2, EvidenceKeepsBase
  DEF Branch!Operator, Branch!Operate, Branch!DevelopAdvances, Branch!CommitOnBranch, Branch!SetBranch,
      Branch!DeleteBranch, Branch!LeaveBranch, Branch!LinkBranch, Branch!BaseImmutable
<1>3. ASSUME NEW c \in Materializers, Branch!Promote(c) PROVE Branch!BaseImmutable
  BY <1>1, <1>3, EvidenceKeepsBase DEF Branch!Promote, Branch!BaseImmutable
<1>4. ASSUME NEW c \in Materializers,
             \/ Branch!TakeSlot(c) \/ Branch!SelectBranch(c) \/ Branch!EnterMutex(c) \/ Branch!RefuseEntry(c)
             \/ Branch!RecordIntent(c) \/ Branch!CreateRef(c) \/ Branch!AdoptRef(c)
             \/ Branch!SelectExisting(c) \/ Branch!Checkout(c) \/ Branch!CheckHead(c) \/ Branch!CheckRefresh(c)
             \/ Branch!Return(c) \/ Branch!Fail(c) \/ Branch!EndCaller(c)
      PROVE  Branch!BaseImmutable
  <2>1. UNCHANGED link
    BY <1>4 DEF Branch!TakeSlot, Branch!SelectBranch, Branch!EnterMutex, Branch!RefuseEntry, Branch!RecordIntent,
       Branch!CreateRef, Branch!AdoptRef, Branch!SelectExisting, Branch!Checkout, Branch!CheckHead, Branch!CheckRefresh,
       Branch!Return, Branch!Fail, Branch!EndCaller
  <2> QED BY <2>1 DEF Branch!BaseImmutable
<1> QED BY <1>2, <1>3, <1>4 DEF Branch!MaterializationNext

\* The steps that may never happen, whoever moves in between: a document result without its
\* effect, a recorded base that changes, a prepared effect nobody authorized, a plan on
\* what no longer holds: TicketsSteps.
THEOREM TicketsStepsAreSafe == TicketsSpec => TicketsSteps
<1>1. DocHolds /\ BranchHolds /\ PrepHolds /\ ReqHolds /\ [TicketsNext]_ticketsVars =>
        [ /\ part = "documents" => Docs!ResultProven
          /\ part = "branch" => Branch!BaseImmutable
          /\ part = "prepared" => Prep!EffectsAuthorized
          /\ part = "requests" => Req!PlansHold ]_ticketsVars
  <2> SUFFICES ASSUME DocHolds, BranchHolds, PrepHolds, ReqHolds, TicketsNext
               PROVE  /\ part = "documents" => Docs!ResultProven
                      /\ part = "branch" => Branch!BaseImmutable
                      /\ part = "prepared" => Prep!EffectsAuthorized
                      /\ part = "requests" => Req!PlansHold
    OBVIOUS
  <2> USE DEF TicketsNext, DocumentsStep, WorkflowStep, StoreStep, BranchStep, PreparedStep, SignalStep, ReportsStep,
              DeploysStep
  <2>1. ASSUME part = "documents" PROVE DocInv /\ Docs!DocumentsNext
    BY <2>1 DEF DocHolds
  <2>2. ASSUME part = "branch" PROVE BranchInv /\ Branch!MaterializationNext
    BY <2>2 DEF BranchHolds
  <2>3. ASSUME part = "prepared" PROVE PrepInv /\ Prep!PreparedNext
    BY <2>3 DEF PrepHolds
  <2>4. ASSUME part = "requests" PROVE ReqInv /\ Req!RequestsNext
    BY <2>4 DEF ReqHolds
  <2> QED BY <2>1, <2>2, <2>3, <2>4, DocResults, BaseStays, PrepAuthorized, PlansAreMade
<1>2. TicketsInit => DocHolds /\ BranchHolds /\ PrepHolds /\ ReqHolds
  BY DocStarts, BranchStarts, PrepStarts, ReqStarts DEF TicketsInit, DocHolds, PrepHolds, ReqHolds
<1> QED BY <1>1, <1>2, DocStepsKeep, BranchStepsKeep, PrepStepsKeep, ReqStepsKeep, PTL DEF TicketsSpec, TicketsSteps
=============================================================================
