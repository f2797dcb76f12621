-------------------------- MODULE RegistryProofs --------------------------
(* What holds of the registry for any deployments, tickets and bounds.     *)
EXTENDS Registry, WellFoundedInduction, TLAPS

\* A set of numbers has a least member: the first failed row exists.
LEMMA Least ==
    ASSUME NEW S \in SUBSET Nat, S # {}
    PROVE  \E x \in S : \A y \in S : x <= y
<1> DEFINE R == {ss \in Nat \X Nat : ss[1] < ss[2]}
<1>1. IsWellFoundedOn(R, Nat)
  BY NatLessThanWellFounded DEF OpToRel
<1>2. \E x \in S : \A y \in S : <<y, x>> \notin R
  <2> HIDE DEF R
  <2> QED BY <1>1, WFMin
<1>3. PICK x \in S : \A y \in S : <<y, x>> \notin R
  BY <1>2
<1>4. ASSUME NEW y \in S, y < x PROVE FALSE
  <2>1. <<y, x>> \in Nat \X Nat /\ <<y, x>>[1] < <<y, x>>[2]
    BY <1>4
  <2>2. <<y, x>> \in R
    BY <2>1
  <2> QED BY <1>3, <2>2
<1>5. \A y \in S : x <= y
  BY <1>4
<1> QED BY <1>5

\* What a row shows is the status of a deployment that is over.
LEMMA ShownFacts ==
    /\ \A row \in TerminalRows : Shown(row) \in Terminal /\ Shown(row) # "running"
    /\ \A row \in TerminalRows :
         IsFailed(row) /\ ~IsFailed(Shown(row)) => row \in {"nonzero", "unstated"}
    /\ Terminal \subseteq TerminalRows
BY DEF Shown, IsFailed, TerminalRows, Terminal, Results

\* The row reconciliation keeps is one of the rows, a failed one if there is any.
LEMMA KeptRow ==
    ASSUME NEW d \in Deployments, rows[d] \in Seq(TerminalRows), rows[d] # <<>>
    PROVE  /\ \E i \in DOMAIN rows[d] : Kept(d) = rows[d][i]
           /\ Kept(d) \in TerminalRows
           /\ (\E i \in DOMAIN rows[d] : IsFailed(rows[d][i])) => IsFailed(Kept(d))
<1>1. CASE \E i \in DOMAIN rows[d] : IsFailed(rows[d][i])
  <2> DEFINE S == {i \in DOMAIN rows[d] : IsFailed(rows[d][i])}
  <2> DEFINE First(i) == IsFailed(rows[d][i]) /\ \A j \in 1..(i - 1) : ~IsFailed(rows[d][j])
  <2>1. S \in SUBSET Nat /\ S # {}
    BY <1>1
  <2>2. PICK x \in S : \A y \in S : x <= y
    <3> HIDE DEF S
    <3> QED BY <2>1, Least
  <2>3. x \in DOMAIN rows[d] /\ First(x)
    <3>1. x \in DOMAIN rows[d] /\ IsFailed(rows[d][x]) /\ x \in Nat
      BY <2>1
    <3>2. ASSUME NEW j \in 1..(x - 1) PROVE ~IsFailed(rows[d][j])
      <4>1. j \in DOMAIN rows[d] /\ j < x
        BY <3>1
      <4> QED BY <4>1, <2>2, <3>1
    <3> QED BY <3>1, <3>2
  <2>4. (CHOOSE i \in DOMAIN rows[d] : First(i)) \in DOMAIN rows[d]
        /\ First(CHOOSE i \in DOMAIN rows[d] : First(i))
    <3> HIDE DEF First
    <3> QED BY <2>3
  <2>5. Kept(d) = rows[d][CHOOSE i \in DOMAIN rows[d] : First(i)]
    BY <1>1 DEF Kept
  <2> HIDE DEF First
  <2>6. PICK n \in DOMAIN rows[d] : First(n) /\ Kept(d) = rows[d][n]
    BY <2>4, <2>5
  <2>7. IsFailed(Kept(d)) /\ Kept(d) \in TerminalRows
    BY <2>6 DEF First
  <2> QED BY <2>6, <2>7
<1>2. CASE ~\E i \in DOMAIN rows[d] : IsFailed(rows[d][i])
  <2>1. Kept(d) = rows[d][1]
    BY <1>2 DEF Kept
  <2>2. 1 \in DOMAIN rows[d] /\ rows[d][1] \in TerminalRows
    OBVIOUS
  <2> QED BY <1>2, <2>1, <2>2
<1> QED BY <1>1, <1>2

-----------------------------------------------------------------------------
(* The inductive invariant.                                                *)

\* Nothing is recorded of a deployment before it starts.
NothingUnborn ==
    /\ \A d \in Deployments : ~Started(d) => rows[d] = <<>>
    /\ \A j \in jobs : Started(j.dep)

\* A reviewer consumes one authorization.
ClaimsDistinct ==
    \A a, b \in Authorizations :
        a # b /\ claim[a] # None /\ claim[b] # None => claim[a].dep # claim[b].dep

ClaimType == [Authorizations -> [dep : Reviewers, active : BOOLEAN] \cup {None}]

\* deactivateReviewAuthorizationClaim
LEMMA DeactivateFacts ==
    ASSUME claim \in ClaimType, NEW d, Deactivate(d)
    PROVE  /\ claim' \in ClaimType
           /\ \A a \in Authorizations :
                /\ (claim'[a] = None) = (claim[a] = None)
                /\ claim[a] # None => /\ claim'[a].dep = claim[a].dep
                                      /\ claim'[a].active = (claim[a].active /\ claim[a].dep # d)
<1> USE RegistryAssumption DEF ClaimType
<1>1. ASSUME NEW a \in Authorizations
      PROVE  /\ claim'[a] \in [dep : Reviewers, active : BOOLEAN] \cup {None}
             /\ (claim'[a] = None) = (claim[a] = None)
             /\ claim[a] # None => /\ claim'[a].dep = claim[a].dep
                                   /\ claim'[a].active = (claim[a].active /\ claim[a].dep # d)
  <2>1. CASE claim[a] = None
    BY <2>1 DEF Deactivate
  <2>2. CASE claim[a] # None /\ claim[a].dep = d
    BY <2>2 DEF Deactivate
  <2>3. CASE claim[a] # None /\ claim[a].dep # d
    BY <2>3 DEF Deactivate
  <2> QED BY <2>1, <2>2, <2>3
<1>2. claim' \in ClaimType
  BY <1>1 DEF Deactivate
<1> QED BY <1>1, <1>2

\* A terminal row and its projection, in one transaction.
LEMMA PublishFacts ==
    ASSUME TypeOK, StatusIsLastRow, NothingUnborn, NEW d \in Deployments, Started(d),
           NEW log \in Seq(TerminalRows), NEW row \in TerminalRows, log # <<>>, log[Len(log)] = row,
           Publish(d, log, row),
           \A e \in Deployments : (life'[e] = "unborn") = (life[e] = "unborn")
    PROVE  /\ rows' \in [Deployments -> Seq(TerminalRows)]
           /\ status' \in [Deployments -> Terminal \cup {"absent", "running"}]
           /\ claim' \in ClaimType
           /\ StatusIsLastRow'
           /\ \A e \in Deployments : ~Started(e)' => rows'[e] = <<>>
<1>1. /\ rows' \in [Deployments -> Seq(TerminalRows)]
      /\ status' \in [Deployments -> Terminal \cup {"absent", "running"}]
  BY ShownFacts DEF Publish, TypeOK
<1>2. claim' \in ClaimType
  BY DeactivateFacts DEF Publish, TypeOK, ClaimType
<1>3. StatusIsLastRow'
  <2> SUFFICES ASSUME NEW e \in Deployments
               PROVE  status'[e] = IF ~Started(e)' THEN "absent"
                        ELSE IF rows'[e] = <<>> THEN "running" ELSE Shown(rows'[e][Len(rows'[e])])
    BY DEF StatusIsLastRow
  <2>1. CASE e = d
    BY <2>1 DEF Publish, TypeOK, Started
  <2>2. CASE e # d
    BY <2>2 DEF Publish, TypeOK, Started, StatusIsLastRow
  <2> QED BY <2>1, <2>2
<1>4. \A e \in Deployments : ~Started(e)' => rows'[e] = <<>>
  BY DEF Publish, TypeOK, Started, NothingUnborn
<1> QED BY <1>1, <1>2, <1>3, <1>4

\* The same for an appended row.
LEMMA AppendFacts ==
    ASSUME TypeOK, NEW d \in Deployments, NEW row \in TerminalRows
    PROVE  /\ Append(rows[d], row) \in Seq(TerminalRows)
           /\ Append(rows[d], row) # <<>>
           /\ Append(rows[d], row)[Len(Append(rows[d], row))] = row
<1>1. rows[d] \in Seq(TerminalRows)
  BY DEF TypeOK
<1> QED BY <1>1

LEMMA OneRow ==
    ASSUME NEW row \in TerminalRows
    PROVE  <<row>> \in Seq(TerminalRows) /\ <<row>> # <<>> /\ <<row>>[Len(<<row>>)] = row
OBVIOUS

-----------------------------------------------------------------------------
(* One step at a time.                                                     *)

ProjectionInv == TypeOK /\ StatusIsLastRow /\ NothingUnborn

\* The steps that leave terminal rows, projected status and claims alone.
Quiet == rows' = rows /\ status' = status /\ claim' = claim

\* A quiet step that starts nothing preserves the projection.
LEMMA QuietFacts ==
    ASSUME StatusIsLastRow, NothingUnborn, Quiet,
           \A e \in Deployments : (life'[e] = "unborn") = (life[e] = "unborn"),
           \A j \in jobs' : j \in jobs \/ Started(j.dep),
           jobs' \subseteq Job
    PROVE  StatusIsLastRow' /\ NothingUnborn'
BY DEF StatusIsLastRow, NothingUnborn, Quiet, Started, Job

LEMMA StartStep ==
    ASSUME ProjectionInv, NEW d \in Deployments, NEW h \in Evidence(d), Start(d, h)
    PROVE  ProjectionInv'
<1> USE RegistryAssumption DEF ProjectionInv
<1>1. h \in Heads \cup {None}
  BY DEF Evidence
<1>2. TypeOK'
  BY <1>1 DEF TypeOK, Start, Lives
<1>3. StatusIsLastRow'
  BY DEF TypeOK, StatusIsLastRow, NothingUnborn, Start, Started
<1>4. NothingUnborn'
  BY DEF TypeOK, NothingUnborn, Start, Started, Job
<1> QED BY <1>2, <1>3, <1>4

LEMMA LiveStep ==
    ASSUME ProjectionInv, NEW d \in Deployments,
           NEW from \in SUBSET (Lives \ {"unborn"}), NEW to \in Lives \ {"unborn"}, Live(d, from, to)
    PROVE  ProjectionInv'
<1> USE DEF ProjectionInv
<1>1. TypeOK'
  BY DEF TypeOK, Live, projection
<1>2. Quiet /\ \A e \in Deployments : (life'[e] = "unborn") = (life[e] = "unborn")
  BY DEF TypeOK, Live, projection, Quiet
<1>3. jobs' = jobs /\ jobs \subseteq Job
  BY DEF TypeOK, Live
<1> QED BY <1>1, <1>2, <1>3, QuietFacts

LEMMA CompleteStep ==
    ASSUME ProjectionInv, NEW d \in Deployments, NEW r \in TerminalRows, NEW h \in Evidence(d),
           Complete(d, r, h)
    PROVE  ProjectionInv'
<1> USE RegistryAssumption DEF ProjectionInv
<1> DEFINE log == Append(rows[d], r)
<1>1. log \in Seq(TerminalRows) /\ log # <<>> /\ log[Len(log)] = r
  BY AppendFacts
<1>2. Started(d) /\ Publish(d, log, r) /\ life' = life /\ jobs' = jobs
  BY DEF Complete, AppendTerminal
<1> HIDE DEF log
<1>3. /\ rows' \in [Deployments -> Seq(TerminalRows)]
      /\ status' \in [Deployments -> Terminal \cup {"absent", "running"}]
      /\ claim' \in ClaimType
      /\ StatusIsLastRow'
      /\ \A e \in Deployments : ~Started(e)' => rows'[e] = <<>>
  BY <1>1, <1>2, PublishFacts
<1>4. h \in Heads \cup {None}
  BY DEF Evidence
<1>5. TypeOK'
  BY <1>3, <1>4 DEF TypeOK, Complete, ClaimType
<1>6. NothingUnborn'
  BY <1>2, <1>3 DEF NothingUnborn, Started
<1> QED BY <1>3, <1>5, <1>6

LEMMA StageStep ==
    ASSUME ProjectionInv, NEW d \in Deployments, NEW r \in Terminal, Stage(d, r)
    PROVE  ProjectionInv'
<1> USE DEF ProjectionInv
<1>1. TypeOK'
  BY DEF TypeOK, Stage, projection
<1>2. Quiet /\ life' = life /\ jobs' = jobs /\ jobs \subseteq Job
  BY DEF TypeOK, Stage, projection, Quiet
<1> QED BY <1>1, <1>2, QuietFacts

\* What reconciliation writes is one row: a recorded one or the requested one,
\* and a failure if any of them was.
LEMMA ReconcileFacts ==
    ASSUME TypeOK, NEW d \in Deployments, NEW r \in Terminal, NEW h, Reconcile(d, r, h)
    PROVE  \E row \in TerminalRows :
              /\ Publish(d, <<row>>, row)
              /\ row = r \/ \E i \in DOMAIN rows[d] : row = rows[d][i]
              /\ (\E i \in DOMAIN rows[d] : IsFailed(rows[d][i])) \/ IsFailed(r) => IsFailed(row)
<1> DEFINE keep == rows[d] # <<>> /\ (IsFailed(Kept(d)) \/ ~IsFailed(r))
           row == IF keep THEN Kept(d) ELSE r
<1>1. rows[d] \in Seq(TerminalRows) /\ r \in TerminalRows
  BY ShownFacts DEF TypeOK
<1>2. Publish(d, <<row>>, row)
  BY DEF Reconcile
<1>3. CASE rows[d] = <<>>
  <2>1. ~keep /\ ~\E i \in DOMAIN rows[d] : IsFailed(rows[d][i])
    BY <1>3
  <2> QED BY <1>1, <1>2, <2>1
<1>4. CASE rows[d] # <<>>
  <2>1. /\ \E i \in DOMAIN rows[d] : Kept(d) = rows[d][i]
        /\ Kept(d) \in TerminalRows
        /\ (\E i \in DOMAIN rows[d] : IsFailed(rows[d][i])) => IsFailed(Kept(d))
    BY <1>1, <1>4, KeptRow
  <2>2. row \in TerminalRows /\ (row = r \/ \E i \in DOMAIN rows[d] : row = rows[d][i])
    BY <1>1, <2>1
  <2>3. (\E i \in DOMAIN rows[d] : IsFailed(rows[d][i])) \/ IsFailed(r) => IsFailed(row)
    BY <1>4, <2>1
  <2> HIDE DEF row
  <2> QED BY <1>2, <2>2, <2>3
<1> QED BY <1>3, <1>4

LEMMA FinalizeStep ==
    ASSUME ProjectionInv, NEW d \in Deployments, NEW r \in Terminal, NEW h \in Evidence(d),
           Finalize(d, r, h)
    PROVE  ProjectionInv'
<1> USE RegistryAssumption DEF ProjectionInv
<1>1. PICK row \in TerminalRows : Publish(d, <<row>>, row)
  BY ReconcileFacts DEF Finalize
<1>2. Started(d) /\ jobs' = jobs /\ \A e \in Deployments : (life'[e] = "unborn") = (life[e] = "unborn")
  BY DEF Finalize, Started, TypeOK
<1>3. /\ rows' \in [Deployments -> Seq(TerminalRows)]
      /\ status' \in [Deployments -> Terminal \cup {"absent", "running"}]
      /\ claim' \in ClaimType
      /\ StatusIsLastRow'
      /\ \A e \in Deployments : ~Started(e)' => rows'[e] = <<>>
  BY <1>1, <1>2, OneRow, PublishFacts
<1>4. h \in Heads \cup {None}
  BY DEF Evidence
<1>5. TypeOK'
  BY <1>3, <1>4 DEF TypeOK, Finalize, Reconcile, ClaimType, Lives
<1>6. NothingUnborn'
  BY <1>2, <1>3 DEF NothingUnborn, Started, TypeOK, Job
<1> QED BY <1>3, <1>5, <1>6

LEMMA OpenCodeStep ==
    ASSUME ProjectionInv, NEW d \in Deployments, NEW r \in Terminal, OpenCodeAppends(d, r)
    PROVE  ProjectionInv'
<1> USE RegistryAssumption DEF ProjectionInv
<1> DEFINE log == Append(rows[d], r)
<1>1. log \in Seq(TerminalRows) /\ log # <<>> /\ log[Len(log)] = r /\ r \in TerminalRows
  BY AppendFacts, ShownFacts
<1>2. /\ Started(d) /\ Publish(d, log, r) /\ jobs' = jobs
      /\ \A e \in Deployments : (life'[e] = "unborn") = (life[e] = "unborn")
  BY DEF OpenCodeAppends, AppendTerminal, Started, TypeOK
<1> HIDE DEF log
<1>3. /\ rows' \in [Deployments -> Seq(TerminalRows)]
      /\ status' \in [Deployments -> Terminal \cup {"absent", "running"}]
      /\ claim' \in ClaimType
      /\ StatusIsLastRow'
      /\ \A e \in Deployments : ~Started(e)' => rows'[e] = <<>>
  BY <1>1, <1>2, PublishFacts
<1>4. TypeOK'
  BY <1>3 DEF TypeOK, OpenCodeAppends, ClaimType, Lives
<1>5. NothingUnborn'
  BY <1>2, <1>3 DEF NothingUnborn, Started, TypeOK, Job
<1> QED BY <1>3, <1>4, <1>5

\* A command decides only about a started deployment.
LEMMA DecideStep ==
    ASSUME ProjectionInv, NEW d \in Deployments, NEW r \in Terminal, NEW kind \in Kinds,
           Decide(kind, d, r)
    PROVE  ProjectionInv'
<1> USE DEF ProjectionInv
<1>1. Started(d)
  <2>1. status[d] = "running" => Started(d)
    BY DEF StatusIsLastRow
  <2> QED BY <2>1 DEF Decide, Decides, Started, Kinds
<1>2. TypeOK'
  <2>1. [kind |-> kind, dep |-> d, result |-> r] \in Job
    BY DEF Job
  <2>2. jobs' = jobs \cup {[kind |-> kind, dep |-> d, result |-> r]}
    BY DEF Decide
  <2>3. jobs' \subseteq Job
    BY <2>1, <2>2 DEF TypeOK
  <2> QED BY <2>3 DEF TypeOK, Decide, projection
<1>3. Quiet /\ life' = life
  BY DEF Decide, projection, Quiet
<1>4. \A j \in jobs' : j \in jobs \/ Started(j.dep)
  BY <1>1 DEF Decide
<1>5. jobs' \subseteq Job
  BY <1>2 DEF TypeOK
<1> QED BY <1>2, <1>3, <1>4, <1>5, QuietFacts

LEMMA GiveUpStep ==
    ASSUME ProjectionInv, NEW j \in jobs, GiveUp(j)
    PROVE  ProjectionInv'
<1> USE DEF ProjectionInv
<1>1. TypeOK'
  BY DEF TypeOK, GiveUp, projection
<1>2. Quiet /\ life' = life /\ jobs' \subseteq jobs /\ jobs \subseteq Job
  BY DEF TypeOK, GiveUp, projection, Quiet
<1> QED BY <1>1, <1>2, QuietFacts

LEMMA ActStep ==
    ASSUME ProjectionInv, NEW j \in jobs, Act(j)
    PROVE  ProjectionInv'
<1> USE RegistryAssumption DEF ProjectionInv
<1> DEFINE d == j.dep
           r == j.result
           log == Append(rows[d], r)
<1>1. d \in Deployments /\ r \in TerminalRows /\ Started(d)
  BY ShownFacts DEF TypeOK, Job, NothingUnborn
<1>2. log \in Seq(TerminalRows) /\ log # <<>> /\ log[Len(log)] = r
  BY <1>1, AppendFacts
<1>3. /\ jobs' \subseteq jobs
      /\ \A e \in Deployments : (life'[e] = "unborn") = (life[e] = "unborn")
  BY <1>1 DEF Act, Started, TypeOK
<1>4. /\ rows' \in [Deployments -> Seq(TerminalRows)]
      /\ status' \in [Deployments -> Terminal \cup {"absent", "running"}]
      /\ claim' \in ClaimType
      /\ StatusIsLastRow'
      /\ \A e \in Deployments : ~Started(e)' => rows'[e] = <<>>
  <2>1. CASE Publish(d, log, r)
    <3> HIDE DEF log, d, r
    <3> QED BY <1>1, <1>2, <1>3, <2>1, PublishFacts
  <2>2. CASE Publish(d, <<r>>, r)
    <3>1. <<r>> \in Seq(TerminalRows) /\ <<r>> # <<>> /\ <<r>>[Len(<<r>>)] = r
      BY <1>1, OneRow
    <3> HIDE DEF d, r
    <3> QED BY <1>1, <1>3, <2>2, <3>1, PublishFacts
  <2>3. CASE Deactivate(d) /\ UNCHANGED <<rows, status>>
    <3>1. claim' \in ClaimType
      BY <2>3, DeactivateFacts DEF TypeOK, ClaimType
    <3>2. StatusIsLastRow' /\ \A e \in Deployments : ~Started(e)' => rows'[e] = <<>>
      BY <1>3, <2>3 DEF StatusIsLastRow, NothingUnborn, Started
    <3> QED BY <2>3, <3>1, <3>2 DEF TypeOK
  <2> QED BY <2>1, <2>2, <2>3 DEF Act, AppendTerminal, IfAbsent
<1>5. TypeOK'
  BY <1>1, <1>3, <1>4 DEF TypeOK, Act, ClaimType, Lives
<1>6. NothingUnborn'
  BY <1>3, <1>4 DEF NothingUnborn, Started, TypeOK, Job
<1> QED BY <1>4, <1>5, <1>6

LEMMA AssociateStep ==
    ASSUME ProjectionInv, NEW d \in Deployments, NEW t \in Tickets,
           NEW expected \in Tickets \cup {None}, Associate(d, expected, t)
    PROVE  ProjectionInv'
<1> USE DEF ProjectionInv
<1>1. TypeOK'
  BY DEF TypeOK, Associate
<1>2. Quiet /\ life' = life /\ jobs' = jobs /\ jobs \subseteq Job
  BY DEF TypeOK, Associate, Quiet
<1> QED BY <1>1, <1>2, QuietFacts

LEMMA ClaimReviewStep ==
    ASSUME ProjectionInv, NEW a \in Authorizations, NEW d \in Reviewers, ClaimReview(a, d)
    PROVE  ProjectionInv'
<1> USE DEF ProjectionInv
<1>1. claim' \in ClaimType
  <2> DEFINE new(b) == IF b = a THEN [dep |-> d, active |-> TRUE]
            ELSE IF claim[b] # None /\ SameReview(claim[b].dep, d)
                    /\ status[claim[b].dep] \in Terminal /\ rows[claim[b].dep] # <<>>
                 THEN [claim[b] EXCEPT !.active = FALSE] ELSE claim[b]
  <2>1. claim' = [b \in Authorizations |-> new(b)]
    BY DEF ClaimReview
  <2>2. ASSUME NEW b \in Authorizations
        PROVE  new(b) \in [dep : Reviewers, active : BOOLEAN] \cup {None}
    BY DEF TypeOK
  <2> HIDE DEF new
  <2> QED BY <2>1, <2>2 DEF ClaimType
<1>2. TypeOK'
  BY <1>1 DEF TypeOK, ClaimReview, ClaimType, projection
<1>3. rows' = rows /\ status' = status /\ life' = life /\ jobs' = jobs
  BY DEF ClaimReview, projection
<1>4. StatusIsLastRow' /\ NothingUnborn'
  BY <1>3 DEF StatusIsLastRow, NothingUnborn, Started
<1> QED BY <1>2, <1>4

\* The updates of a parent's authority, and the intents of settlements.
LEMMA ExtendFacts ==
    ASSUME TypeOK, NEW p \in Parents, NEW by \in Children \cup {None}, NEW durable \in BOOLEAN,
           NEW base \in Heads, NEW new \in Heads, Extend(p, Row(by, durable, base, new))
    PROVE  /\ authority' \in [Parents -> Seq([by : Children \cup {None}, durable : BOOLEAN,
                                              base : Heads, new : Heads])]
           /\ head' \in [Deployments -> Heads \cup {None}]
<1> DEFINE AllRows == [by : Children \cup {None}, durable : BOOLEAN, base : Heads, new : Heads]
<1>1. Row(by, durable, base, new) \in AllRows
  BY DEF Row
<1>2. authority \in [Parents -> Seq(AllRows)]
  BY DEF TypeOK
<1>3. authority' = [authority EXCEPT ![p] = Append(@, Row(by, durable, base, new))]
  BY DEF Extend
<1>4. authority' \in [Parents -> Seq(AllRows)]
  <2> HIDE DEF AllRows
  <2>1. Append(authority[p], Row(by, durable, base, new)) \in Seq(AllRows)
    BY <1>1, <1>2
  <2> QED BY <1>2, <1>3, <2>1
<1>5. head' \in [Deployments -> Heads \cup {None}]
  BY DEF TypeOK, Extend, Row
<1> QED BY <1>4, <1>5

LEMMA AdvanceParentStep ==
    ASSUME ProjectionInv, NEW c \in Children, NEW h \in Heads, startHead[c] \in Heads,
           AdvanceParent(c, h)
    PROVE  ProjectionInv'
<1> USE RegistryAssumption DEF ProjectionInv
<1>1. ParentOf[c] \in Parents
  OBVIOUS
<1>2. TypeOK'
  BY <1>1, ExtendFacts DEF TypeOK, AdvanceParent
<1>3. Quiet /\ life' = life /\ jobs' = jobs /\ jobs \subseteq Job
  BY DEF TypeOK, AdvanceParent, Quiet
<1> QED BY <1>2, <1>3, QuietFacts

LEMMA SettleIntentStep ==
    ASSUME ProjectionInv, NEW c \in Children, NEW h \in Heads, SettleIntent(c, h)
    PROVE  ProjectionInv'
<1> USE RegistryAssumption DEF ProjectionInv
<1>1. Len(authority[ParentOf[c]]) \in Nat
  BY DEF TypeOK
<1>2. rows[c][1] \in Results \cup {"nonzero"}
  BY DEF SettleIntent, Settleable
<1>3. TypeOK'
  BY <1>1, <1>2 DEF TypeOK, SettleIntent, projection
<1>4. Quiet /\ life' = life /\ jobs' = jobs /\ jobs \subseteq Job
  BY DEF TypeOK, SettleIntent, projection, Quiet
<1> QED BY <1>3, <1>4, QuietFacts

LEMMA SettleAdvanceStep ==
    ASSUME ProjectionInv, NEW c \in Children, startHead[c] \in Heads, SettleAdvance(c)
    PROVE  ProjectionInv'
<1> USE RegistryAssumption DEF ProjectionInv
<1>1. ParentOf[c] \in Parents /\ settling[c].head \in Heads
  BY DEF SettleAdvance, TypeOK
<1>2. TypeOK'
  BY <1>1, ExtendFacts DEF TypeOK, SettleAdvance
<1>3. Quiet /\ life' = life /\ jobs' = jobs /\ jobs \subseteq Job
  BY DEF TypeOK, SettleAdvance, Quiet
<1> QED BY <1>2, <1>3, QuietFacts

LEMMA AdvanceDirectStep ==
    ASSUME ProjectionInv, NEW p \in Parents, NEW base \in Heads, NEW h \in Heads,
           AdvanceDirect(p, base, h)
    PROVE  ProjectionInv'
<1> USE RegistryAssumption DEF ProjectionInv
<1>1. TypeOK'
  BY ExtendFacts DEF TypeOK, AdvanceDirect
<1>2. Quiet /\ life' = life /\ jobs' = jobs /\ jobs \subseteq Job
  BY DEF TypeOK, AdvanceDirect, Quiet
<1> QED BY <1>1, <1>2, QuietFacts

-----------------------------------------------------------------------------
(* All steps together.                                                     *)

\* A builder starts with branch evidence.
HeadsKnown == \A d \in Builders : Started(d) => startHead[d] \in Heads

\* Only Start starts a deployment and records its start.
StartsKept ==
    /\ startHead' = startHead
    /\ \A d \in Deployments : (life'[d] = "unborn") = (life[d] = "unborn")

LEMMA ReportKeepsStarts ==
    ASSUME TypeOK, NEW d \in Deployments, Report(d)
    PROVE  StartsKept
<1>1. ASSUME NEW r \in TerminalRows, NEW h \in Evidence(d), Complete(d, r, h) PROVE StartsKept
  BY <1>1 DEF StartsKept, Complete
<1>2. ASSUME NEW r \in Terminal, NEW h \in Evidence(d), Finalize(d, r, h) PROVE StartsKept
  BY <1>2 DEF StartsKept, Finalize, TypeOK
<1>3. ASSUME NEW r \in Terminal, Stage(d, r) PROVE StartsKept
  BY <1>3 DEF StartsKept, Stage
<1>4. ASSUME NEW r \in Terminal, OpenCodeAppends(d, r) PROVE StartsKept
  BY <1>4 DEF StartsKept, OpenCodeAppends, TypeOK
<1>5. ASSUME NEW r \in Terminal, NEW kind \in Kinds, Decide(kind, d, r) PROVE StartsKept
  BY <1>5 DEF StartsKept, Decide
<1> QED BY <1>1, <1>2, <1>3, <1>4, <1>5 DEF Report

LEMMA AdvanceKeepsStarts ==
    ASSUME Advance
    PROVE  StartsKept
BY DEF StartsKept, Advance, AdvanceParent, SettleIntent, SettleAdvance, AdvanceDirect

LEMMA LifecycleStep ==
    ASSUME ProjectionInv, HeadsKnown, NEW d \in Deployments, Lifecycle(d)
    PROVE  ProjectionInv' /\ HeadsKnown'
<1> USE RegistryAssumption
<1>1. ASSUME NEW h \in Evidence(d), Start(d, h) PROVE ProjectionInv' /\ HeadsKnown'
  <2>1. ProjectionInv'
    BY <1>1, StartStep
  <2>2. d \in Builders => h \in Heads
    BY DEF Evidence
  <2>3. HeadsKnown'
    BY <1>1, <2>2 DEF HeadsKnown, Start, Started, ProjectionInv, TypeOK, Builders, Deployments, Pi
  <2> QED BY <2>1, <2>3
<1>2. ASSUME NEW from \in SUBSET (Lives \ {"unborn"}), NEW to \in Lives \ {"unborn"},
             Live(d, from, to)
      PROVE  ProjectionInv' /\ HeadsKnown'
  <2>1. ProjectionInv'
    BY <1>2, LiveStep
  <2>2. HeadsKnown'
    BY <1>2 DEF HeadsKnown, Live, Started, ProjectionInv, TypeOK
  <2> QED BY <2>1, <2>2
<1>3. CASE Replay(d)
  BY <1>3 DEF Replay, vars, projection, ProjectionInv, TypeOK, StatusIsLastRow, NothingUnborn,
              HeadsKnown, Started
<1>4. CASE Pid(d)
  BY <1>4, <1>2 DEF Pid, Lives
<1>5. CASE AgentExits(d)
  BY <1>5, <1>2 DEF AgentExits, Lives
<1>6. CASE OrphanExits(d)
  BY <1>6, <1>2 DEF OrphanExits, Lives
<1>7. CASE SupervisorDies(d)
  BY <1>7, <1>2 DEF SupervisorDies, Lives
<1> QED BY <1>1, <1>3, <1>4, <1>5, <1>6, <1>7 DEF Lifecycle

LEMMA ReportStep ==
    ASSUME ProjectionInv, NEW d \in Deployments, Report(d)
    PROVE  ProjectionInv'
BY CompleteStep, FinalizeStep, StageStep, OpenCodeStep, DecideStep DEF Report

LEMMA AdvanceStep ==
    ASSUME ProjectionInv, HeadsKnown, Advance
    PROVE  ProjectionInv'
<1>1. \A c \in Children : DirectChild(c) => startHead[c] \in Heads
  BY DEF DirectChild, HeadsKnown, Builders
<1>2. ASSUME NEW c \in Children, NEW h \in Heads, AdvanceParent(c, h) PROVE ProjectionInv'
  BY <1>1, <1>2, AdvanceParentStep DEF AdvanceParent
<1>3. ASSUME NEW c \in Children, NEW h \in Heads, SettleIntent(c, h) PROVE ProjectionInv'
  BY <1>3, SettleIntentStep
<1>4. ASSUME NEW c \in Children, SettleAdvance(c) PROVE ProjectionInv'
  BY <1>1, <1>4, SettleAdvanceStep DEF SettleAdvance
<1>5. ASSUME NEW p \in Parents, NEW base \in Heads, NEW h \in Heads, AdvanceDirect(p, base, h)
      PROVE  ProjectionInv'
  BY <1>5, AdvanceDirectStep
<1> QED BY <1>2, <1>3, <1>4, <1>5 DEF Advance

LEMMA NextStep ==
    ASSUME ProjectionInv, HeadsKnown, [Next]_vars
    PROVE  ProjectionInv' /\ HeadsKnown'
<1>1. ASSUME StartsKept PROVE HeadsKnown'
  BY <1>1 DEF StartsKept, HeadsKnown, Started, Builders, Deployments, Pi
<1>2. ASSUME NEW d \in Deployments, Lifecycle(d) PROVE ProjectionInv' /\ HeadsKnown'
  BY <1>2, LifecycleStep
<1>3. ASSUME NEW d \in Deployments, Report(d) PROVE ProjectionInv' /\ HeadsKnown'
  BY <1>1, <1>3, ReportStep, ReportKeepsStarts DEF ProjectionInv
<1>4. ASSUME NEW j \in jobs, Act(j) PROVE ProjectionInv' /\ HeadsKnown'
  <2>1. StartsKept
    BY <1>4 DEF StartsKept, Act, ProjectionInv, NothingUnborn, Started, TypeOK
  <2> QED BY <1>1, <1>4, <2>1, ActStep
<1>5. ASSUME NEW j \in jobs, GiveUp(j) PROVE ProjectionInv' /\ HeadsKnown'
  <2>1. StartsKept
    BY <1>5 DEF StartsKept, GiveUp
  <2> QED BY <1>1, <1>5, <2>1, GiveUpStep
<1>6. ASSUME NEW d \in Deployments, NEW t \in Tickets, NEW expected \in Tickets \cup {None},
             Associate(d, expected, t)
      PROVE  ProjectionInv' /\ HeadsKnown'
  <2>1. StartsKept
    BY <1>6 DEF StartsKept, Associate
  <2> QED BY <1>1, <1>6, <2>1, AssociateStep
<1>7. ASSUME NEW a \in Authorizations, NEW d \in Reviewers, ClaimReview(a, d)
      PROVE  ProjectionInv' /\ HeadsKnown'
  <2>1. StartsKept
    BY <1>7 DEF StartsKept, ClaimReview
  <2> QED BY <1>1, <1>7, <2>1, ClaimReviewStep
<1>8. CASE Advance
  BY <1>1, <1>8, AdvanceStep, AdvanceKeepsStarts
<1>9. CASE UNCHANGED vars
  BY <1>9 DEF vars, projection, ProjectionInv, TypeOK, StatusIsLastRow, NothingUnborn, HeadsKnown, Started
<1> QED BY <1>2, <1>3, <1>4, <1>5, <1>6, <1>7, <1>8, <1>9 DEF Next

-----------------------------------------------------------------------------
(* The claims.                                                             *)

ClaimsInv == ActiveReviews /\ ClaimsDistinct

\* A claim stays with its consumer; it may only be closed.
ClaimsKept ==
    \A a \in Authorizations : claim[a] # None =>
        /\ claim'[a] # None /\ claim'[a].dep = claim[a].dep
        /\ claim'[a].active => claim[a].active

\* What a step can do to a claim or to a status that matters to one.
ClaimStep ==
    \/ claim' = claim /\ \A d \in Reviewers : status[d] = "running" => status'[d] = "running"
    \/ \E d \in Deployments :
          /\ Deactivate(d)
          /\ \A e \in Deployments \ {d} : status'[e] = status[e]
    \/ \E a \in Authorizations, d \in Reviewers : ClaimReview(a, d)

LEMMA PublishClaims ==
    ASSUME TypeOK, NEW d \in Deployments, NEW log, NEW row, Publish(d, log, row)
    PROVE  ClaimStep
BY DEF Publish, ClaimStep, TypeOK

LEMMA ReportClaims ==
    ASSUME TypeOK, NEW d \in Deployments, Report(d)
    PROVE  ClaimStep
<1>1. ASSUME NEW r \in TerminalRows, NEW h \in Evidence(d), Complete(d, r, h) PROVE ClaimStep
  <2>1. Publish(d, Append(rows[d], r), r)
    BY <1>1 DEF Complete, AppendTerminal
  <2> QED BY <2>1, PublishClaims
<1>2. ASSUME NEW r \in Terminal, NEW h \in Evidence(d), Finalize(d, r, h) PROVE ClaimStep
  <2>1. PICK row \in TerminalRows : Publish(d, <<row>>, row)
    BY <1>2, ReconcileFacts DEF Finalize
  <2> QED BY <2>1, PublishClaims
<1>3. ASSUME NEW r \in Terminal, Stage(d, r) PROVE ClaimStep
  BY <1>3 DEF ClaimStep, Stage, projection
<1>4. ASSUME NEW r \in Terminal, OpenCodeAppends(d, r) PROVE ClaimStep
  <2>1. Publish(d, Append(rows[d], r), r)
    BY <1>4 DEF OpenCodeAppends, AppendTerminal
  <2> QED BY <2>1, PublishClaims
<1>5. ASSUME NEW r \in Terminal, NEW kind \in Kinds, Decide(kind, d, r) PROVE ClaimStep
  BY <1>5 DEF ClaimStep, Decide, projection
<1> QED BY <1>1, <1>2, <1>3, <1>4, <1>5 DEF Report

LEMMA EveryStepClaims ==
    ASSUME ProjectionInv, [Next]_vars
    PROVE  ClaimStep
<1> USE DEF ProjectionInv
<1>1. ASSUME NEW d \in Deployments, Lifecycle(d) PROVE ClaimStep
  <2>1. ASSUME NEW h \in Evidence(d), Start(d, h) PROVE ClaimStep
    BY <2>1 DEF Start, ClaimStep, TypeOK, Deployments, Pi
  <2>2. ASSUME ~\E h \in Evidence(d) : Start(d, h) PROVE ClaimStep
    BY <1>1, <2>2 DEF Lifecycle, Replay, Pid, AgentExits, OrphanExits, SupervisorDies, Live,
                      vars, projection, ClaimStep
  <2> QED BY <2>1, <2>2
<1>2. ASSUME NEW d \in Deployments, Report(d) PROVE ClaimStep
  BY <1>2, ReportClaims
<1>3. ASSUME NEW j \in jobs, Act(j) PROVE ClaimStep
  <2>1. j.dep \in Deployments
    BY DEF TypeOK, Job
  <2>2. CASE Publish(j.dep, Append(rows[j.dep], j.result), j.result)
    BY <2>1, <2>2, PublishClaims
  <2>3. CASE Publish(j.dep, <<j.result>>, j.result)
    BY <2>1, <2>3, PublishClaims
  <2>4. CASE Deactivate(j.dep) /\ UNCHANGED <<rows, status>>
    BY <2>1, <2>4 DEF ClaimStep
  <2> QED BY <1>3, <2>2, <2>3, <2>4 DEF Act, AppendTerminal, IfAbsent
<1>4. ASSUME NEW j \in jobs, GiveUp(j) PROVE ClaimStep
  BY <1>4 DEF GiveUp, ClaimStep, projection
<1>5. ASSUME NEW d \in Deployments, NEW t \in Tickets, NEW expected \in Tickets \cup {None},
             Associate(d, expected, t)
      PROVE  ClaimStep
  BY <1>5 DEF Associate, ClaimStep
<1>6. ASSUME NEW a \in Authorizations, NEW d \in Reviewers, ClaimReview(a, d) PROVE ClaimStep
  BY <1>6 DEF ClaimStep
<1>7. CASE Advance
  BY <1>7 DEF Advance, AdvanceParent, SettleIntent, SettleAdvance, AdvanceDirect, projection, ClaimStep
<1>8. CASE UNCHANGED vars
  BY <1>8 DEF vars, projection, ClaimStep
<1> QED BY <1>1, <1>2, <1>3, <1>4, <1>5, <1>6, <1>7, <1>8 DEF Next

\* A new claim is of a running reviewer, and no active claim reviews the same.
LEMMA ClaimReviewClaims ==
    ASSUME TypeOK, ClaimsInv, NEW a \in Authorizations, NEW d \in Reviewers, ClaimReview(a, d)
    PROVE  ClaimsInv' /\ ClaimsKept
<1> USE RegistryAssumption
<1>1. /\ claim[a] = None /\ status' = status /\ status[d] = "running"
      /\ claim'[a] = [dep |-> d, active |-> TRUE] /\ claim'[a] # None
      /\ \A b \in Authorizations : claim[b] # None => claim[b].dep # d
  <2>1. claim[a] = None /\ \A b \in Authorizations : claim[b] # None => claim[b].dep # d
    BY DEF ClaimReview, Consumed, Claimant
  <2>2. status' = status /\ status[d] = "running"
    BY DEF ClaimReview, projection
  <2>3. claim'[a] = [dep |-> d, active |-> TRUE]
    BY DEF ClaimReview
  <2>4. [dep |-> d, active |-> TRUE] \in [dep : Reviewers, active : BOOLEAN]
    OBVIOUS
  <2> QED BY <2>1, <2>2, <2>3, <2>4
<1>2. ASSUME NEW b \in Authorizations, b # a
      PROVE  /\ (claim'[b] = None) = (claim[b] = None)
             /\ claim[b] # None => /\ claim'[b].dep = claim[b].dep
                                   /\ claim'[b].active => claim[b].active
  <2>1. claim[b] \in [dep : Reviewers, active : BOOLEAN] \cup {None}
    BY DEF TypeOK
  <2>2. claim'[b] = IF claim[b] # None /\ SameReview(claim[b].dep, d)
                       /\ status[claim[b].dep] \in Terminal /\ rows[claim[b].dep] # <<>>
                    THEN [claim[b] EXCEPT !.active = FALSE] ELSE claim[b]
    BY <1>2 DEF ClaimReview
  <2>3. CASE claim[b] = None
    BY <2>2, <2>3
  <2>4. CASE claim[b] # None /\ claim'[b] = claim[b]
    BY <2>4
  <2>5. CASE claim[b] # None /\ claim'[b] = [claim[b] EXCEPT !.active = FALSE]
    <3>1. claim'[b] \in [dep : Reviewers, active : BOOLEAN]
          /\ claim'[b].dep = claim[b].dep /\ claim'[b].active = FALSE
      BY <2>1, <2>5
    <3> QED BY <2>5, <3>1
  <2> QED BY <2>2, <2>3, <2>4, <2>5
<1>3. ASSUME NEW b \in Authorizations, claim[b] # None, claim[b].active
      PROVE  ~SameReview(claim[b].dep, d)
  BY <1>3 DEF ClaimReview, Reviewed, ClaimsInv, ActiveReviews
<1>4. ClaimsKept
  BY <1>1, <1>2 DEF ClaimsKept
<1>5. ClaimsDistinct'
  <2> SUFFICES ASSUME NEW b \in Authorizations, NEW e \in Authorizations, b # e,
                      claim'[b] # None, claim'[e] # None
               PROVE  claim'[b].dep # claim'[e].dep
    BY DEF ClaimsDistinct
  <2>1. CASE b = a
    BY <1>1, <1>2, <2>1
  <2>2. CASE e = a
    BY <1>1, <1>2, <2>2
  <2>3. CASE b # a /\ e # a
    BY <1>2, <2>3 DEF ClaimsInv, ClaimsDistinct
  <2> QED BY <2>1, <2>2, <2>3
<1>6. ActiveReviews'
  <2> SUFFICES ASSUME NEW b \in Authorizations, claim'[b] # None, claim'[b].active
               PROVE  /\ status'[claim'[b].dep] = "running"
                      /\ \A e \in Authorizations \ {b} : claim'[e] # None /\ claim'[e].active =>
                            ~SameReview(claim'[b].dep, claim'[e].dep)
    BY DEF ActiveReviews, SameReview
  <2>1. CASE b = a
    <3>1. ASSUME NEW e \in Authorizations \ {b}, claim'[e] # None, claim'[e].active
          PROVE  ~SameReview(d, claim'[e].dep)
      BY <1>2, <1>3, <2>1, <3>1 DEF SameReview
    <3> QED BY <1>1, <2>1, <3>1
  <2>2. CASE b # a
    <3>1. claim[b] # None /\ claim[b].active /\ claim'[b].dep = claim[b].dep
      BY <1>2, <2>2
    <3>2. ASSUME NEW e \in Authorizations \ {b}, claim'[e] # None, claim'[e].active
          PROVE  ~SameReview(claim[b].dep, claim'[e].dep)
      <4>1. CASE e = a
        BY <1>1, <1>3, <3>1, <4>1
      <4>2. CASE e # a
        BY <1>2, <3>1, <3>2, <4>2 DEF ClaimsInv, ActiveReviews
      <4> QED BY <4>1, <4>2
    <3> QED BY <1>1, <3>1, <3>2 DEF ClaimsInv, ActiveReviews
  <2> QED BY <2>1, <2>2
<1> QED BY <1>4, <1>5, <1>6 DEF ClaimsInv

LEMMA ClaimsStep ==
    ASSUME TypeOK, ClaimsInv, ClaimStep
    PROVE  ClaimsInv' /\ ClaimsKept
<1> USE RegistryAssumption
<1>1. ASSUME claim' = claim, \A d \in Reviewers : status[d] = "running" => status'[d] = "running"
      PROVE  ClaimsInv' /\ ClaimsKept
  BY <1>1 DEF ClaimsInv, ActiveReviews, ClaimsDistinct, ClaimsKept, SameReview, TypeOK
<1>2. ASSUME NEW d \in Deployments, Deactivate(d),
             \A e \in Deployments \ {d} : status'[e] = status[e]
      PROVE  ClaimsInv' /\ ClaimsKept
  <2>1. \A a \in Authorizations :
           /\ (claim'[a] = None) = (claim[a] = None)
           /\ claim[a] # None => /\ claim'[a].dep = claim[a].dep
                                 /\ claim'[a].active = (claim[a].active /\ claim[a].dep # d)
    BY <1>2, DeactivateFacts DEF TypeOK, ClaimType
  <2>2. \A a \in Authorizations : claim[a] # None => claim[a].dep \in Deployments
    BY DEF TypeOK, Deployments, Pi
  <2>3. ClaimsKept
    BY <2>1 DEF ClaimsKept
  <2>4. ClaimsDistinct'
    BY <2>1 DEF ClaimsInv, ClaimsDistinct
  <2>5. ActiveReviews'
    <3> SUFFICES ASSUME NEW a \in Authorizations, claim'[a] # None, claim'[a].active
                 PROVE  /\ status'[claim'[a].dep] = "running"
                        /\ \A b \in Authorizations \ {a} : claim'[b] # None /\ claim'[b].active =>
                              ~SameReview(claim'[a].dep, claim'[b].dep)
      BY DEF ActiveReviews, SameReview
    <3>1. claim[a] # None /\ claim[a].active /\ claim[a].dep # d /\ claim'[a].dep = claim[a].dep
      BY <2>1
    <3>2. status'[claim'[a].dep] = "running"
      BY <1>2, <2>2, <3>1 DEF ClaimsInv, ActiveReviews
    <3>3. ASSUME NEW b \in Authorizations \ {a}, claim'[b] # None, claim'[b].active
          PROVE  ~SameReview(claim'[a].dep, claim'[b].dep)
      <4>1. claim[b] # None /\ claim[b].active /\ claim'[b].dep = claim[b].dep
        BY <2>1, <3>3
      <4> QED BY <3>1, <4>1 DEF ClaimsInv, ActiveReviews
    <3> QED BY <3>2, <3>3
  <2> QED BY <2>3, <2>4, <2>5 DEF ClaimsInv
<1>3. ASSUME NEW a \in Authorizations, NEW d \in Reviewers, ClaimReview(a, d)
      PROVE  ClaimsInv' /\ ClaimsKept
  BY <1>3, ClaimReviewClaims
<1> QED BY <1>1, <1>2, <1>3 DEF ClaimStep

-----------------------------------------------------------------------------
(* Theorems.                                                               *)

\* The whole invariant.
RegistryInv == ProjectionInv /\ HeadsKnown /\ ClaimsInv

LEMMA RegistryInit == Init => RegistryInv
<1> SUFFICES ASSUME Init PROVE RegistryInv
  OBVIOUS
<1> USE RegistryAssumption DEF Init
<1>1. TypeOK
  BY DEF TypeOK, Lives
<1>2. StatusIsLastRow /\ NothingUnborn
  BY DEF StatusIsLastRow, NothingUnborn, Started
<1>3. HeadsKnown
  BY DEF HeadsKnown, Started, Builders, Deployments, Pi
<1>4. ClaimsInv
  BY DEF ClaimsInv, ActiveReviews, ClaimsDistinct
<1> QED BY <1>1, <1>2, <1>3, <1>4 DEF RegistryInv, ProjectionInv

LEMMA RegistryStep == RegistryInv /\ [Next]_vars => RegistryInv' /\ ClaimsKept
BY NextStep, EveryStepClaims, ClaimsStep DEF RegistryInv, ProjectionInv

\* The invariant holds in every state of the registry, whoever writes to it.
THEOREM RegistryInvariant == Spec => []RegistryInv
<1>1. RegistryInv /\ [Next]_vars => RegistryInv'
  BY RegistryStep
<1> QED BY <1>1, RegistryInit, PTL DEF Spec

\* insertRegistryEvent, upsertDeployment: every column keeps its type.
THEOREM TypeCorrect == Spec => []TypeOK
<1>1. RegistryInv => TypeOK
  BY DEF RegistryInv, ProjectionInv
<1> QED BY <1>1, RegistryInvariant, PTL

\* upsertDeployment, in one transaction with the row: a deployment's status is
\* running until its first terminal row and then that of its last one, however
\* appends and reconciliations interleave.
THEOREM StatusFollowsRows == Spec => []StatusIsLastRow
<1>1. RegistryInv => StatusIsLastRow
  BY DEF RegistryInv, ProjectionInv
<1> QED BY <1>1, RegistryInvariant, PTL

\* claimReviewAuthorization: two active claims never review the same ticket and
\* branch, and the reviewer of an active claim runs.
THEOREM ReviewsAreExclusive == Spec => []ActiveReviews
<1>1. RegistryInv => ActiveReviews
  BY DEF RegistryInv, ClaimsInv
<1> QED BY <1>1, RegistryInvariant, PTL

\* claimReviewAuthorization: an authorization is consumed once and for good.
THEOREM AuthorizationsUsedOnce == Spec => AuthorizedOnce
<1> DEFINE Once ==
        \A a \in Authorizations : claim[a] # None =>
          /\ claim'[a] # None /\ claim'[a].dep = claim[a].dep
          /\ claim'[a].active => claim[a].active
          /\ \A b \in Authorizations \ {a} : ~(claim'[b] # None /\ claim'[b].dep = claim'[a].dep)
<1>1. RegistryInv /\ [Next]_vars => Once
  <2> SUFFICES ASSUME RegistryInv, [Next]_vars PROVE Once
    OBVIOUS
  <2>1. RegistryInv' /\ ClaimsKept
    BY RegistryStep
  <2>2. ClaimsDistinct'
    BY <2>1 DEF RegistryInv, ClaimsInv
  <2> QED BY <2>1, <2>2 DEF ClaimsKept, ClaimsDistinct
<1>2. RegistryInv /\ [Next]_vars => [Once]_vars
  BY <1>1
<1> HIDE DEF Once
<1>3. Spec => [][Once]_vars
  BY <1>2, RegistryInvariant, PTL DEF Spec
<1> QED BY <1>3 DEF AuthorizedOnce, Once

\* reconcileTerminalRegistryEvent: when the supervisor of a Pi deployment records
\* its result, one row is left, its own or an earlier one; it is a failure if any
\* was, and shown as one unless it is a success with an exit code or unstated.
THEOREM SupervisorKeepsFailures == Spec => SupervisorKeepsFailure
<1> DEFINE Keeps ==
        \A d \in Pi : rows[d] # <<>> =>
          \A r \in Terminal, h \in Evidence(d) : Finalize(d, r, h) => KeepsFailure(d, r)
<1>1. RegistryInv => Keeps
  <2> SUFFICES ASSUME RegistryInv, NEW d \in Pi, NEW r \in Terminal, NEW h \in Evidence(d),
                      Finalize(d, r, h)
               PROVE  KeepsFailure(d, r)
    OBVIOUS
  <2>1. TypeOK /\ d \in Deployments
    BY DEF RegistryInv, ProjectionInv, Deployments
  <2>2. PICK row \in TerminalRows :
           /\ Publish(d, <<row>>, row)
           /\ row = r \/ \E i \in DOMAIN rows[d] : row = rows[d][i]
           /\ (\E i \in DOMAIN rows[d] : IsFailed(rows[d][i])) \/ IsFailed(r) => IsFailed(row)
    BY <2>1, ReconcileFacts DEF Finalize
  <2>3. rows'[d] = <<row>> /\ status'[d] = Shown(row)
    BY <2>1, <2>2 DEF Publish, TypeOK
  <2>4. Len(rows'[d]) = 1 /\ rows'[d][1] = row
    BY <2>3
  <2>5. r \notin {"nonzero", "unstated"}
    BY DEF Terminal, Results
  <2>6. IsFailed(row) /\ ~IsFailed(status'[d]) => row \in {"nonzero", "unstated"}
    BY <2>2, <2>3, ShownFacts
  <2> QED BY <2>2, <2>4, <2>5, <2>6 DEF KeepsFailure
<1>2. RegistryInv /\ [Next]_vars => [Keeps]_vars
  BY <1>1
<1> HIDE DEF Keeps
<1>3. Spec => [][Keeps]_vars
  BY <1>2, RegistryInvariant, PTL DEF Spec
<1> QED BY <1>3 DEF SupervisorKeepsFailure, Keeps

\* Which jobs a step ends, and what it then leaves alone.
LEMMA EndedJobs ==
    ASSUME RegistryInv, [Next]_vars, NEW j \in jobs, j \notin jobs'
    PROVE  Act(j) \/ GiveUp(j)
<1>1. ASSUME NEW d \in Deployments, Lifecycle(d) PROVE jobs \subseteq jobs'
  BY <1>1 DEF Lifecycle, Start, Replay, Pid, AgentExits, OrphanExits, SupervisorDies, Live, vars
<1>2. ASSUME NEW d \in Deployments, Report(d) PROVE jobs \subseteq jobs'
  BY <1>2 DEF Report, Complete, Finalize, Stage, OpenCodeAppends, Decide
<1>3. ASSUME NEW i \in jobs, Act(i) \/ GiveUp(i) PROVE Act(j) \/ GiveUp(j)
  <2>1. jobs' = jobs \ {i}
    BY <1>3 DEF Act, GiveUp
  <2>2. i = j
    BY <2>1
  <2> QED BY <1>3, <2>2
<1>4. ASSUME NEW d \in Deployments, NEW t \in Tickets, NEW expected \in Tickets \cup {None},
             Associate(d, expected, t)
      PROVE  jobs' = jobs
  BY <1>4 DEF Associate
<1>5. ASSUME NEW a \in Authorizations, NEW d \in Reviewers, ClaimReview(a, d)
      PROVE  jobs' = jobs
  BY <1>5 DEF ClaimReview
<1>6. ASSUME Advance PROVE jobs' = jobs
  BY <1>6 DEF Advance, AdvanceParent, SettleIntent, SettleAdvance, AdvanceDirect
<1>7. ASSUME UNCHANGED vars PROVE jobs' = jobs
  BY <1>7 DEF vars
<1> QED BY <1>1, <1>2, <1>3, <1>4, <1>5, <1>6, <1>7 DEF Next

\* reconcileTerminalRegistryEventIfAbsent: status --wait looks again in its
\* transaction, so that a result recorded since it decided is kept.
THEOREM ObserverAlwaysYields == Spec => ObserverYields
<1> DEFINE Yields ==
        \A j \in jobs \ jobs' : j.kind = "wait" /\ rows[j.dep] # <<>> => rows'[j.dep] = rows[j.dep]
<1>1. RegistryInv /\ [Next]_vars => Yields
  <2> SUFFICES ASSUME RegistryInv, [Next]_vars, NEW j \in jobs, j \notin jobs',
                      j.kind = "wait", rows[j.dep] # <<>>
               PROVE  rows'[j.dep] = rows[j.dep]
    OBVIOUS
  <2>1. CASE Act(j)
    BY <2>1 DEF Act, IfAbsent
  <2>2. CASE GiveUp(j)
    BY <2>2 DEF GiveUp
  <2> QED BY <2>1, <2>2, EndedJobs
<1>2. RegistryInv /\ [Next]_vars => [Yields]_vars
  BY <1>1
<1> HIDE DEF Yields
<1>3. Spec => [][Yields]_vars
  BY <1>2, RegistryInvariant, PTL DEF Spec
<1> QED BY <1>3 DEF ObserverYields, Yields

\* Projection and claims follow the rows: RegistrySafe.
THEOREM RegistryIsSafe == Spec => []RegistrySafe
BY StatusFollowsRows, ReviewsAreExclusive, PTL DEF RegistrySafe

\* No step hides a failure, a result or a use: ResultsKept.
THEOREM ResultsAreKept == Spec => ResultsKept
BY SupervisorKeepsFailures, ObserverAlwaysYields, AuthorizationsUsedOnce DEF ResultsKept

-----------------------------------------------------------------------------
(* The branch authority of a parent.                                       *)

\* Where the i-th update of a parent should start.
Before(p, i) == IF i = 1 THEN startHead[p] ELSE authority[p][i - 1].new

\* The three parts of AuthorityChain, for one parent.
Linked(p) ==
    \A i \in DOMAIN authority[p] :
        \/ authority[p][i].base = Before(p, i)
        \/ /\ Before(p, i) = startHead[p] /\ authority[p][i].by # None
           /\ \A j \in 1..(i - 1) : authority[p][j].by = None
OncePerKind(p) ==
    \A i, j \in DOMAIN authority[p] :
        /\ authority[p][i].by # None /\ authority[p][i].by = authority[p][j].by
        /\ authority[p][i].durable = authority[p][j].durable
        => i = j
AtEnd(p) == status[p] = "running" => head[p] = Before(p, Len(authority[p]) + 1)

AuthorityInv ==
    /\ \A p \in Parents : /\ Linked(p) /\ OncePerKind(p) /\ AtEnd(p)
                          /\ ~Started(p) => authority[p] = <<>>
    /\ AdvancedOnTicket

LEMMA AuthorityIsSafe == AuthorityInv => ParentAuthority
BY DEF AuthorityInv, ParentAuthority, AuthorityChain, Linked, OncePerKind, AtEnd, Before

\* A step that advances nobody: results, processes, reviews, tickets.
AuthorityKept ==
    /\ authority' = authority /\ StartsKept
    /\ \A p \in Parents :
          /\ status'[p] = "running" => status[p] = "running" /\ head'[p] = head[p]
          /\ ticket'[p] = ticket[p] \/ ticket[p] = None

LEMMA KeptAuthority ==
    ASSUME AuthorityInv, AuthorityKept
    PROVE  AuthorityInv'
<1> USE RegistryAssumption
<1>1. \A p \in Parents : p \in Deployments
  BY DEF Deployments, Pi
<1>2. \A p \in Parents : (Linked(p) /\ OncePerKind(p))'
  BY DEF AuthorityInv, AuthorityKept, StartsKept, Linked, OncePerKind, Before
<1>3. \A p \in Parents : AtEnd(p)'
  BY DEF AuthorityInv, AuthorityKept, StartsKept, AtEnd, Before
<1>4. \A p \in Parents : ~Started(p)' => authority'[p] = <<>>
  BY <1>1 DEF AuthorityInv, AuthorityKept, StartsKept, Started
<1>5. AdvancedOnTicket'
  BY DEF AuthorityInv, AuthorityKept, AdvancedOnTicket, Advanced
<1> QED BY <1>2, <1>3, <1>4, <1>5 DEF AuthorityInv

\* A parent starts with no update, at its own head.
LEMMA StartAuthority ==
    ASSUME TypeOK, AuthorityInv, NEW d \in Deployments, NEW h, Start(d, h)
    PROVE  AuthorityInv'
<1> USE RegistryAssumption
<1>1. \A p \in Parents : p \in Deployments
  BY DEF Deployments, Pi
<1>2. authority' = authority /\ ~Started(d)
  BY DEF Start, Started
<1>3. \A p \in Parents : p # d =>
        /\ startHead'[p] = startHead[p] /\ status'[p] = status[p] /\ head'[p] = head[p]
        /\ ticket'[p] = ticket[p] /\ life'[p] = life[p]
  BY <1>1 DEF Start, TypeOK
<1>4. d \in Parents => /\ authority'[d] = <<>> /\ startHead'[d] = h /\ head'[d] = h
                       /\ life'[d] # "unborn"
  BY <1>2 DEF AuthorityInv, Start, TypeOK
<1>5. \A p \in Parents : (Linked(p) /\ OncePerKind(p) /\ AtEnd(p))'
  <2> SUFFICES ASSUME NEW p \in Parents PROVE (Linked(p) /\ OncePerKind(p) /\ AtEnd(p))'
    OBVIOUS
  <2>1. CASE p = d
    BY <1>4, <2>1 DEF Linked, OncePerKind, AtEnd, Before
  <2>2. CASE p # d
    BY <1>2, <1>3, <2>2 DEF AuthorityInv, Linked, OncePerKind, AtEnd, Before
  <2> QED BY <2>1, <2>2
<1>6. \A p \in Parents : ~Started(p)' => authority'[p] = <<>>
  BY <1>2, <1>3, <1>4 DEF AuthorityInv, Started
<1>7. AdvancedOnTicket'
  <2> SUFFICES ASSUME NEW c \in Children, \E durable \in BOOLEAN : Advanced(c, durable)',
                      LaunchTicket[c] # None
               PROVE  ticket'[ParentOf[c]] = LaunchTicket[c]
    BY DEF AdvancedOnTicket
  <2>1. \E durable \in BOOLEAN : Advanced(c, durable)
    BY <1>2 DEF Advanced
  <2>2. ParentOf[c] \in Parents /\ ParentOf[c] # d
    BY <1>2, <2>1 DEF Advanced, AuthorityInv
  <2> QED BY <1>3, <2>1, <2>2 DEF AuthorityInv, AdvancedOnTicket
<1> QED BY <1>5, <1>6, <1>7 DEF AuthorityInv

\* An update begins where the parent is; the first one by a child may begin past
\* a parent that no child has moved.
LEMMA ExtendAuthority ==
    ASSUME ProjectionInv, AuthorityInv, NEW p \in Parents, NEW by \in Children \cup {None},
           NEW durable \in BOOLEAN, NEW base \in Heads, NEW new \in Heads,
           Extend(p, Row(by, durable, base, new)), status[p] = "running",
           \/ base = head[p]
           \/ /\ by # None /\ head[p] = startHead[p]
              /\ \A i \in DOMAIN authority[p] : authority[p][i].by = None,
           by # None => /\ ParentOf[by] = p /\ ~Advanced(by, durable)
                        /\ ticket[p] = LaunchTicket[by],
           UNCHANGED <<startHead, status, ticket, life>>
    PROVE  AuthorityInv'
<1> DEFINE log == authority[p]
           row == Row(by, durable, base, new)
           n == Len(log)
           AllRows == [by : Children \cup {None}, durable : BOOLEAN, base : Heads, new : Heads]
<1> USE RegistryAssumption
<1>1. log \in Seq(AllRows) /\ n \in Nat /\ row \in AllRows
  <2>1. authority \in [Parents -> Seq(AllRows)]
    BY DEF ProjectionInv, TypeOK
  <2>2. row \in AllRows
    BY DEF Row
  <2> HIDE DEF AllRows, row
  <2> QED BY <2>1, <2>2
<1>2. /\ authority'[p] = Append(log, row) /\ head'[p] = new
      /\ \A q \in Parents \ {p} : authority'[q] = authority[q] /\ head'[q] = head[q]
  BY DEF Extend, ProjectionInv, TypeOK, Row, Deployments, Pi
<1>3. /\ Len(authority'[p]) = n + 1 /\ authority'[p][n + 1] = row
      /\ DOMAIN authority'[p] = 1..(n + 1) /\ DOMAIN log = 1..n
      /\ \A i \in 1..n : authority'[p][i] = log[i]
  <2> HIDE DEF AllRows, row
  <2> QED BY <1>1, <1>2
<1>4. /\ row.by = by /\ row.durable = durable /\ row.base = base /\ row.new = new
  BY DEF Row
<1>5. head[p] = Before(p, n + 1)
  BY DEF AuthorityInv, AtEnd
<1>6. \A i \in 1..(n + 1) : Before(p, i)' = Before(p, i)
  <2> SUFFICES ASSUME NEW i \in 1..(n + 1) PROVE Before(p, i)' = Before(p, i)
    OBVIOUS
  <2>1. i # 1 => i - 1 \in 1..n
    BY <1>1
  <2> QED BY <1>3, <2>1 DEF Before
<1>7. Linked(p)'
  <2> HIDE DEF row, log, n
  <2> SUFFICES ASSUME NEW i \in 1..(n + 1)
               PROVE  \/ authority'[p][i].base = Before(p, i)'
                      \/ /\ Before(p, i)' = startHead'[p] /\ authority'[p][i].by # None
                         /\ \A j \in 1..(i - 1) : authority'[p][j].by = None
    BY <1>3 DEF Linked
  <2>1. CASE i = n + 1
    <3>1. authority'[p][i] = row /\ Before(p, i)' = head[p]
      BY <1>3, <1>5, <1>6, <2>1
    <3>2. CASE base = head[p]
      BY <1>4, <3>1, <3>2
    <3>3. CASE base # head[p]
      <4>1. by # None /\ head[p] = startHead[p] /\ \A j \in 1..n : log[j].by = None
        BY <1>3, <3>3 DEF log
      <4>2. i - 1 = n
        BY <1>1, <2>1
      <4> QED BY <1>3, <1>4, <3>1, <4>1, <4>2
    <3> QED BY <3>2, <3>3
  <2>2. CASE i \in 1..n
    <3>1. \/ log[i].base = Before(p, i)
          \/ /\ Before(p, i) = startHead[p] /\ log[i].by # None
             /\ \A j \in 1..(i - 1) : log[j].by = None
      BY <1>3, <2>2 DEF AuthorityInv, Linked, log
    <3>2. \A j \in 1..(i - 1) : j \in 1..n
      BY <1>1, <2>2
    <3> QED BY <1>3, <1>6, <2>2, <3>1, <3>2
  <2> QED BY <1>1, <2>1, <2>2
<1>8. OncePerKind(p)'
  <2> HIDE DEF row, log, n
  <2>1. \A i \in 1..n : by # None => ~(log[i].by = by /\ log[i].durable = durable)
    BY <1>3 DEF Advanced, log
  <2>2. \A i, j \in 1..n :
          log[i].by # None /\ log[i].by = log[j].by /\ log[i].durable = log[j].durable => i = j
    BY <1>3 DEF AuthorityInv, OncePerKind, log
  <2>3. \A i \in 1..(n + 1) : i = n + 1 \/ i \in 1..n
    BY <1>1
  <2> SUFFICES ASSUME NEW i \in 1..(n + 1), NEW j \in 1..(n + 1), authority'[p][i].by # None,
                      authority'[p][i].by = authority'[p][j].by,
                      authority'[p][i].durable = authority'[p][j].durable
               PROVE  i = j
    BY <1>3 DEF OncePerKind
  <2>4. CASE i = n + 1 /\ j \in 1..n
    BY <1>3, <1>4, <2>1, <2>4
  <2>5. CASE i \in 1..n /\ j = n + 1
    BY <1>3, <1>4, <2>1, <2>5
  <2>6. CASE i \in 1..n /\ j \in 1..n
    BY <1>3, <2>2, <2>6
  <2> QED BY <2>3, <2>4, <2>5, <2>6
<1>9. AtEnd(p)'
  <2>1. Len(authority'[p]) + 1 # 1 /\ Len(authority'[p]) + 1 - 1 = n + 1
    BY <1>1, <1>3
  <2> QED BY <1>2, <1>3, <1>4, <2>1 DEF AtEnd, Before
<1>10. \A q \in Parents \ {p} : (Linked(q) /\ OncePerKind(q) /\ AtEnd(q))'
  <2> SUFFICES ASSUME NEW q \in Parents \ {p} PROVE (Linked(q) /\ OncePerKind(q) /\ AtEnd(q))'
    OBVIOUS
  <2>1. /\ authority'[q] = authority[q] /\ head'[q] = head[q] /\ startHead' = startHead
        /\ status' = status /\ Linked(q) /\ OncePerKind(q) /\ AtEnd(q)
    BY <1>2 DEF AuthorityInv
  <2>2. Linked(q)'
    BY <2>1 DEF Linked, Before
  <2>3. OncePerKind(q)'
    BY <2>1 DEF OncePerKind
  <2>4. AtEnd(q)'
    BY <2>1 DEF AtEnd, Before
  <2> QED BY <2>2, <2>3, <2>4
<1>11. Started(p)
  <2>1. status[p] # "absent" => Started(p)
    BY DEF ProjectionInv, StatusIsLastRow, Deployments, Pi
  <2> QED BY <2>1
<1>12. AdvancedOnTicket'
  <2> SUFFICES ASSUME NEW c \in Children, NEW kept \in BOOLEAN, Advanced(c, kept)',
                      LaunchTicket[c] # None
               PROVE  ticket[ParentOf[c]] = LaunchTicket[c]
    BY DEF AdvancedOnTicket
  <2>1. ParentOf[c] \in Parents
    OBVIOUS
  <2>2. CASE Advanced(c, kept)
    BY <2>2 DEF AuthorityInv, AdvancedOnTicket
  <2>3. CASE ~Advanced(c, kept)
    <3>1. ParentOf[c] = p
      BY <1>2, <2>1, <2>3 DEF Advanced
    <3>2. PICK i \in 1..(n + 1) : authority'[p][i].by = c /\ authority'[p][i].durable = kept
      BY <1>3, <3>1 DEF Advanced
    <3>3. i \notin 1..n
      BY <1>3, <2>3, <3>1, <3>2 DEF Advanced
    <3>4. authority'[p][i] = row
      BY <1>1, <1>3, <3>3
    <3>5. c = by
      BY <1>4, <3>2, <3>4
    <3> QED BY <3>1, <3>5
  <2> QED BY <2>2, <2>3
<1> QED BY <1>2, <1>7, <1>8, <1>9, <1>10, <1>11, <1>12 DEF AuthorityInv, Started

LEMMA ReportAuthority ==
    ASSUME TypeOK, NEW d \in Deployments, Report(d)
    PROVE  AuthorityKept
<1> USE RegistryAssumption
<1>1. StartsKept
  BY ReportKeepsStarts
<1>2. \A p \in Parents : p \in Deployments
  BY DEF Deployments, Pi
<1>3. \A r \in TerminalRows : Shown(r) # "running"
  BY ShownFacts
<1>4. ASSUME NEW r \in TerminalRows, NEW h \in Evidence(d), Complete(d, r, h) PROVE AuthorityKept
  BY <1>1, <1>2, <1>3, <1>4 DEF AuthorityKept, Complete, AppendTerminal, Publish, TypeOK
<1>5. ASSUME NEW r \in Terminal, NEW h \in Evidence(d), Finalize(d, r, h) PROVE AuthorityKept
  <2>1. PICK row \in TerminalRows : Publish(d, <<row>>, row)
    BY <1>5, ReconcileFacts DEF Finalize
  <2>2. authority' = authority /\ ticket' = ticket /\ head' = [head EXCEPT ![d] = h]
    BY <1>5 DEF Finalize, Reconcile
  <2> QED BY <1>1, <1>2, <1>3, <2>1, <2>2 DEF AuthorityKept, Publish, TypeOK
<1>6. ASSUME NEW r \in Terminal, Stage(d, r) PROVE AuthorityKept
  BY <1>1, <1>6 DEF AuthorityKept, Stage, projection
<1>7. ASSUME NEW r \in Terminal, OpenCodeAppends(d, r) PROVE AuthorityKept
  BY <1>1, <1>2, <1>3, <1>7, ShownFacts DEF AuthorityKept, OpenCodeAppends, AppendTerminal, Publish, TypeOK
<1>8. ASSUME NEW r \in Terminal, NEW kind \in Kinds, Decide(kind, d, r) PROVE AuthorityKept
  BY <1>1, <1>8 DEF AuthorityKept, Decide, projection
<1> QED BY <1>4, <1>5, <1>6, <1>7, <1>8 DEF Report

LEMMA CommandAuthority ==
    ASSUME TypeOK, NothingUnborn, NEW j \in jobs, Act(j) \/ GiveUp(j)
    PROVE  AuthorityKept
<1> USE RegistryAssumption
<1>1. \A p \in Parents : p \in Deployments
  BY DEF Deployments, Pi
<1>2. \A r \in TerminalRows : Shown(r) # "running"
  BY ShownFacts
<1>3. CASE GiveUp(j)
  BY <1>3 DEF AuthorityKept, GiveUp, StartsKept, projection
<1>4. CASE Act(j)
  <2>1. j.dep \in Deployments /\ j.result \in TerminalRows
    BY ShownFacts DEF TypeOK, Job
  <2>2. StartsKept
    BY <1>4 DEF StartsKept, Act, NothingUnborn, Started, TypeOK
  <2>3. \A p \in Parents : status'[p] = "running" => status[p] = "running"
    BY <1>1, <1>2, <1>4, <2>1 DEF Act, IfAbsent, AppendTerminal, Publish, TypeOK
  <2> QED BY <1>4, <2>2, <2>3 DEF AuthorityKept, Act
<1> QED BY <1>3, <1>4

\* hasProtectedBuilderLaunchEvidence: the ticket of a parent is set at most once.
LEMMA AssociateAuthority ==
    ASSUME TypeOK, NEW d \in Deployments, NEW t \in Tickets, NEW expected \in Tickets \cup {None},
           Associate(d, expected, t)
    PROVE  AuthorityKept
<1>1. \A p \in Parents : ticket'[p] = ticket[p] \/ ticket[p] = None
  BY DEF Associate, Protected, Builders, TypeOK
<1>2. QED BY <1>1 DEF AuthorityKept, Associate, StartsKept

LEMMA AdvanceAuthority ==
    ASSUME RegistryInv, AuthorityInv, Advance
    PROVE  AuthorityInv'
<1> USE RegistryAssumption DEF RegistryInv
<1>1. TypeOK /\ ProjectionInv
  BY DEF ProjectionInv
<1>2. \A c \in Children : DirectChild(c) => startHead[c] \in Heads
  BY DEF DirectChild, HeadsKnown, Builders
<1>3. ASSUME NEW c \in Children, NEW h \in Heads, AdvanceParent(c, h) PROVE AuthorityInv'
  <2> DEFINE p == ParentOf[c]
  <2>1. /\ p \in Parents /\ startHead[c] \in Heads /\ status[p] = "running" /\ c # None
        /\ Extend(p, Row(c, FALSE, startHead[c], h)) /\ ~Advanced(c, FALSE)
        /\ ticket[p] = LaunchTicket[c] /\ UNCHANGED <<startHead, status, ticket, life>>
    BY <1>2, <1>3 DEF AdvanceParent, DirectChild
  <2>2. \/ startHead[c] = head[p]
        \/ /\ head[p] = startHead[p]
           /\ \A i \in DOMAIN authority[p] : authority[p][i].by = None
    BY <1>3 DEF AdvanceParent, Predecessor
  <2> HIDE DEF p
  <2>3. ParentOf[c] = p
    BY DEF p
  <2> QED BY <1>1, <2>1, <2>2, <2>3, ExtendAuthority
<1>4. ASSUME NEW c \in Children, NEW h \in Heads, SettleIntent(c, h) PROVE AuthorityInv'
  <2>1. AuthorityKept
    BY <1>4 DEF AuthorityKept, StartsKept, SettleIntent, projection
  <2> QED BY <2>1, KeptAuthority
<1>5. ASSUME NEW c \in Children, SettleAdvance(c) PROVE AuthorityInv'
  <2> DEFINE p == ParentOf[c]
  <2>1. /\ p \in Parents /\ startHead[c] \in Heads /\ status[p] = "running" /\ c # None
        /\ Extend(p, Row(c, TRUE, startHead[c], settling[c].head)) /\ ~Advanced(c, TRUE)
        /\ ticket[p] = LaunchTicket[c] /\ UNCHANGED <<startHead, status, ticket, life>>
        /\ startHead[c] = head[p]
    BY <1>2, <1>5 DEF SettleAdvance, DirectChild
  <2>2. settling[c].head \in Heads
    BY <1>1, <1>5 DEF SettleAdvance, TypeOK
  <2> HIDE DEF p
  <2>3. ParentOf[c] = p
    BY DEF p
  <2> QED BY <1>1, <2>1, <2>2, <2>3, ExtendAuthority
<1>6. ASSUME NEW p \in Parents, NEW base \in Heads, NEW h \in Heads, AdvanceDirect(p, base, h)
      PROVE  AuthorityInv'
  BY <1>1, <1>6, ExtendAuthority DEF AdvanceDirect
<1> QED BY <1>3, <1>4, <1>5, <1>6 DEF Advance

LEMMA AuthorityStep ==
    ASSUME RegistryInv, AuthorityInv, [Next]_vars
    PROVE  AuthorityInv'
<1>1. TypeOK /\ NothingUnborn
  BY DEF RegistryInv, ProjectionInv
<1>2. ASSUME NEW d \in Deployments, Lifecycle(d) PROVE AuthorityInv'
  <2>1. ASSUME NEW h \in Evidence(d), Start(d, h) PROVE AuthorityInv'
    BY <1>1, <2>1, StartAuthority
  <2>2. ASSUME NEW from \in SUBSET (Lives \ {"unborn"}), NEW to \in Lives \ {"unborn"},
               Live(d, from, to)
        PROVE  AuthorityInv'
    <3>1. AuthorityKept
      BY <1>1, <2>2 DEF AuthorityKept, StartsKept, Live, projection, TypeOK
    <3> QED BY <3>1, KeptAuthority
  <2>3. CASE Replay(d)
    <3>1. AuthorityKept
      BY <2>3 DEF Replay, vars, projection, AuthorityKept, StartsKept
    <3> QED BY <3>1, KeptAuthority
  <2>4. CASE Pid(d) \/ AgentExits(d) \/ OrphanExits(d)
    BY <2>2, <2>4 DEF Pid, AgentExits, OrphanExits, Lives
  <2>5. CASE SupervisorDies(d)
    BY <2>2, <2>5 DEF SupervisorDies, Lives
  <2> QED BY <1>2, <2>1, <2>3, <2>4, <2>5 DEF Lifecycle
<1>3. ASSUME NEW d \in Deployments, Report(d) PROVE AuthorityInv'
  BY <1>1, <1>3, ReportAuthority, KeptAuthority
<1>4. ASSUME NEW j \in jobs, Act(j) \/ GiveUp(j) PROVE AuthorityInv'
  BY <1>1, <1>4, CommandAuthority, KeptAuthority
<1>5. ASSUME NEW d \in Deployments, NEW t \in Tickets, NEW expected \in Tickets \cup {None},
             Associate(d, expected, t)
      PROVE  AuthorityInv'
  BY <1>1, <1>5, AssociateAuthority, KeptAuthority
<1>6. ASSUME NEW a \in Authorizations, NEW d \in Reviewers, ClaimReview(a, d) PROVE AuthorityInv'
  <2>1. AuthorityKept
    BY <1>6 DEF ClaimReview, projection, AuthorityKept, StartsKept
  <2> QED BY <2>1, KeptAuthority
<1>7. CASE Advance
  BY <1>7, AdvanceAuthority
<1>8. CASE UNCHANGED vars
  <2>1. AuthorityKept
    BY <1>8 DEF vars, projection, AuthorityKept, StartsKept
  <2> QED BY <2>1, KeptAuthority
<1> QED BY <1>2, <1>3, <1>4, <1>5, <1>6, <1>7, <1>8 DEF Next

LEMMA AuthorityInit == Init => AuthorityInv
<1> SUFFICES ASSUME Init PROVE AuthorityInv
  OBVIOUS
<1>1. \A p \in Parents : authority[p] = <<>> /\ status[p] = "absent"
  BY DEF Init, Deployments, Pi
<1>2. \A p \in Parents : Linked(p) /\ OncePerKind(p) /\ AtEnd(p)
  BY <1>1 DEF Linked, OncePerKind, AtEnd
<1>3. AdvancedOnTicket
  BY <1>1, RegistryAssumption DEF AdvancedOnTicket, Advanced
<1> QED BY <1>1, <1>2, <1>3 DEF AuthorityInv

\* A parent's branch authority is one chain, on one ticket, whoever advances it and
\* however results, restarts and other tickets come between
\* (advanceParentAuthoritySnapshot, associateDeploymentTicket).
THEOREM ParentAuthorityIsOneChain == Spec => []ParentAuthority
<1>1. RegistryInv /\ AuthorityInv /\ [Next]_vars => AuthorityInv'
  BY AuthorityStep
<1> QED BY <1>1, AuthorityInit, AuthorityIsSafe, RegistryInvariant, PTL DEF Spec
===========================================================================
