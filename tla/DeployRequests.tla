---------------------------- MODULE DeployRequests ----------------------------
(* From a deploy request to the immutable execution plan: ppa deploy and opa     *)
(* deploy (cli/commands/deploy.ts), POST /api/deploy (routes/deploy-control.ts), *)
(* the resolution of the registered repository (repos.ts), the leases of the     *)
(* Treehouse pool (pi-pa/src/treehouse.ts), the evidence the Pi adapter collects *)
(* and resolveExecutionPlan (deploy/plan.ts).  Each stage reads the registry,    *)
(* Git, the pool and the ticket again, and the operator changes them in between. *)
EXTENDS Naturals, FiniteSets

CONSTANTS
  Asked,       \* the requests, see RequestType
  Keys,        \* keys of the repository registry
  PoolRows,    \* what a row of the Treehouse pool may say, see RowType
  AtFirst,     \* [book, rows, link, teams]: what everything says at first
  Earlier,     \* [key, root, tree, ticket]: the selection an earlier deployment made
  MaxWorld     \* bound: changes made from outside

Unset == "unset"
NoHolder == <<Unset, Unset>>
Roots == {"main", "other"}            \* primary working trees
Copies == {"copy", "spare"}           \* linked working trees, both of main
Trees == Roots \cup Copies
Places == Trees \cup {"inside"}       \* a directory of the tree copy
Primary == [main |-> "main", other |-> "other", copy |-> "main", spare |-> "main"]
Tree(place) == IF place = "inside" THEN "copy" ELSE place

RequestType ==
  [by : {"ppa", "opa", "api"}, runtime : {"pi", "opencode"}, team : STRING, mode : STRING,
   repo : STRING, ticket : STRING, at : Places, resume : {"no", "ordinary", "selected"},
   has : SUBSET {"select", "background", "dry", "child", "only", "malformed", "operator", "force"}]
RowType == [path : Copies, holder : (Keys \cup {Unset}) \X STRING, id : 0 .. 3,
            flag : {"yes", "no", "unset"}, status : {"leased", "free", "unset"}]

\* what the constants must satisfy: the instances assume it
RequestsAssumption ==
  /\ PoolRows \subseteq RowType /\ MaxWorld \in Nat /\ Keys \cap Places = {} /\ IsFiniteSet(Keys)
  /\ Asked \subseteq RequestType /\ AtFirst.rows \subseteq RowType
  /\ AtFirst.book \in [Keys -> Roots \cup {"copy", "nowhere"}]

VARIABLES
  book,      \* repos.yaml: key -> the path it names
  genuine,   \* linked trees whose Git metadata agrees in both directions
  rows,      \* the Treehouse pool
  head,      \* linked tree -> its commit
  link,      \* ticket -> the linked branch recorded for it: [key, head]
  tickets,   \* tickets that are there
  teams,     \* team -> [modes, standard, strict]
  artifact,  \* the selection file of the earlier deployment
  here,      \* working directory of the process
  launch,    \* the request and how far it got
  changes

worldVars == <<book, genuine, rows, head, link, tickets, teams, artifact>>
requestVars == <<worldVars, here, launch, changes>>

Nowhere == [key |-> Unset, root |-> Unset, tree |-> Unset, kind |-> Unset]
NoEvidence == [for |-> "none", key |-> Unset, root |-> Unset, tree |-> Unset, ticket |-> Unset,
               id |-> 0, head |-> 0, holder |-> NoHolder]
NoPlan == [at |-> Nowhere, mode |-> Unset, evidence |-> NoEvidence, made |-> FALSE]
NewLaunch(r) == [at |-> "asked", request |-> r, found |-> Nowhere, repo |-> r.repo, mode |-> Unset,
                 evidence |-> NoEvidence, plan |-> NoPlan, answer |-> "none"]

RequestsInit ==
  /\ book = AtFirst.book /\ rows = AtFirst.rows /\ link = AtFirst.link /\ teams = AtFirst.teams
  /\ tickets = DOMAIN link /\ genuine = Copies /\ head = [c \in Copies |-> 1]
  /\ artifact = "agrees" /\ changes = 0
  /\ \E r \in Asked : launch = NewLaunch(r) /\ here = r.at

-----------------------------------------------------------------------------
(* The repository registry. *)

\* resolvedRegisteredRepo: the configured path is the root of a primary tree.
Registered(key) == book[key] \in Roots

\* resolveRepoExecutionPath, explicit input: a key, or the exact path of one entry.
Named(repo) == IF repo \in Keys THEN {repo} ELSE {k \in Keys : book[k] = repo}

\* The entries that a working directory belongs to: by its exact root, or, for a
\* linked tree that is authentic and listed by Git, by the common directory.
Around(tree) ==
  IF tree \in Copies THEN {k \in Keys : tree \in genuine /\ Registered(k) /\ book[k] = Primary[tree]}
  ELSE {k \in Keys : book[k] = tree}

Found(key, tree) == [key |-> key, root |-> book[key], tree |-> tree,
                     kind |-> IF tree \in Copies THEN "linked" ELSE "primary"]

\* The repository of an input and a working directory, as a set that is empty when
\* there is none or more than one.
Resolve(repo, place, linkedToo) ==
  LET tree == Tree(place)
      keys == IF repo # Unset THEN Named(repo)
              ELSE IF tree \in Copies /\ ~linkedToo THEN {} ELSE Around(tree)
  IN  IF Cardinality(keys) # 1 THEN {}
      ELSE {Found(k, IF repo # Unset THEN book[k] ELSE tree) : k \in {k \in keys : Registered(k)}}

-----------------------------------------------------------------------------
(* The pool of Treehouse. *)

\* parseStatusEntry: what a row says must not contradict itself.
Holds(row) == \/ row.flag = "yes"
              \/ row.status = "leased"
              \/ row.flag = "unset" /\ row.status = "unset" /\ (row.id # 0 \/ row.holder # NoHolder)
Contradicts(row) ==
  \/ (row.flag = "no" \/ row.status = "free") /\ (row.id # 0 \/ row.holder # NoHolder)
  \/ row.flag = "no" /\ row.status = "leased"
  \/ row.flag = "yes" /\ row.status = "free"
  \/ Holds(row) /\ (row.id = 0 \/ row.holder = NoHolder)

\* status: one row that contradicts itself, or a path or a lease that is listed
\* twice, makes the whole answer unusable.
Readable ==
  /\ \A r \in rows : ~Contradicts(r)
  /\ \A r, s \in rows : r # s => r.path # s.path /\ (r.id # 0 => r.id # s.id)
Leases(holder) == {r \in rows : Readable /\ Holds(r) /\ r.holder = holder}

\* selectExisting and authenticatePrepared: the one lease of the holder.
Sole(holder) == {r \in Leases(holder) : Cardinality(Leases(holder)) = 1}
Prepared(holder, place) == {r \in Sole(holder) : r.path = place}

\* getLease, answered by Treehouse: a tree that no row is about.
Granted(holder) ==
  {[path |-> c, holder |-> holder, id |-> 3, flag |-> "yes", status |-> "leased"] :
     c \in {c \in Copies : \A r \in rows : r.path # c}}

\* acquireOrReuse: the lease of the holder, or a new one when there is none.
Acquired(holder) ==
  IF ~Readable THEN {} ELSE IF Leases(holder) # {} THEN Sole(holder) ELSE Granted(holder)

-----------------------------------------------------------------------------
(* The request. *)

Has(r, what) == what \in r.has
Parented(r) == /\ r.by = "ppa" /\ r.team = "builder" /\ r.mode = "implement"
               /\ Has(r, "background") /\ r.repo # Unset /\ Has(r, "child")

\* resolveDeployMode and assertDeployResumeMode: the mode asked for, or the standard
\* one, when the team has it; a resumed deployment's mode too.
ModeOf(r) ==
  LET wanted == IF r.mode # Unset THEN r.mode ELSE teams[r.team].standard
  IN  IF r.team = "rogue-one" THEN "rogue-one" ELSE IF wanted = Unset THEN "default" ELSE wanted
ModeKnown(r) ==
  \/ r.team = "rogue-one"
  \/ ModeOf(r) = "default"
  \/ ModeOf(r) \in teams[r.team].modes

\* parseDeployArgs, validateDeployRequestFields and withResolvedDeployTimeout.
FieldsAccepted(r) == ~Has(r, "malformed") /\ ~(Has(r, "dry") /\ Has(r, "background"))

\* ticketWorktreeBoundaryError, and the API's refusal of the field.
WithinBoundary(r) ==
  Has(r, "select") => r.by = "ppa" /\ r.ticket # Unset /\ r.team # "builder"

\* The roles an operator's identity is asked for (POST /api/deploy).
Permitted(r) == r.by = "api" /\ r.team = "rogue-one" => Has(r, "operator")

Becomes(l) == launch' = l
Goes(at) == Becomes([launch EXCEPT !.at = at])
Ends(answer) == Becomes([launch EXCEPT !.at = "done", !.answer = answer])

\* runDeployCommand up to the adapter's preflight, and the same of the route.
Accept ==
  LET r == launch.request
      accepted == FieldsAccepted(r) /\ WithinBoundary(r) /\ Permitted(r)
  IN  /\ launch.at = "asked"
      /\ \/ ~accepted /\ Ends("refused")
         \/ accepted /\ Has(r, "only") /\ Ends("answered")
         \/ accepted /\ ~Has(r, "only") /\ ~ModeKnown(r) /\ Ends("refused")
         \/ accepted /\ ~Has(r, "only") /\ ModeKnown(r) /\ Goes(IF r.by = "api" THEN "sent" ELSE "accepted")
      /\ UNCHANGED <<worldVars, here, changes>>

\* deployPreflight: the objective of a protected review that is not compatible.
Preflight ==
  /\ launch.at = "accepted" /\ launch.request.by = "ppa"
  /\ ModeOf(launch.request) = "review-auto" /\ Ends("refused")
  /\ UNCHANGED <<worldVars, here, changes>>

\* The repository the process goes to, and the selector it hands to the adapter: a
\* parent's child stays in the linked tree it is called from and names the root; an
\* inferred place of Pi is inferred again; everything else is the exact root.
Located(r) ==
  IF Parented(r)
  THEN {[found |-> i, repo |-> i.root] :
          i \in {i \in Resolve(Unset, r.at, TRUE) : i.kind = "linked" /\ i.tree = r.at
                 /\ \E s \in Resolve(r.repo, r.at, FALSE) : s.key = i.key /\ s.root = i.root}}
  ELSE LET inferred == r.by = "ppa" /\ r.repo = Unset /\ ~Has(r, "select")
       IN  {[found |-> f, repo |-> IF inferred THEN Unset ELSE f.root] : f \in Resolve(r.repo, r.at, inferred)}

ProjectOf(ticket) == link[ticket].key
Locate ==
  LET r == launch.request IN
  /\ launch.at = "accepted"
  /\ \/ Located(r) = {} /\ Ends("refused")
     \/ \E l \in Located(r) : Becomes([launch EXCEPT !.at = "located", !.found = l.found, !.repo = l.repo])
  /\ UNCHANGED <<worldVars, here, changes>>

\* The selected ticket is a ticket of the repository; then the process goes there
\* and calls the adapter.
OfProject(r, key) == Has(r, "select") => r.ticket \in tickets /\ ProjectOf(r.ticket) = key
Enter ==
  /\ launch.at = "located"
  /\ IF OfProject(launch.request, launch.found.key)
     THEN here' = launch.found.tree /\ Goes("sent")
     ELSE here' = here /\ Ends("refused")
  /\ UNCHANGED <<worldVars, changes>>

-----------------------------------------------------------------------------
(* The adapter. *)

Runtime(r) == IF r.by = "api" THEN r.runtime ELSE IF r.by = "ppa" THEN "pi" ELSE "opencode"
Fails == Goes("returning")

\* deployWithPi and deployWithOpencode read the team again; readSession: only a
\* deployment of the same runtime is resumed, and a selection only with its intent.
MayResume(r) == /\ r.resume # "no" => Runtime(r) = "pi"
                /\ r.resume = "selected" => Has(r, "select")
Configure ==
  LET r == launch.request IN
  /\ launch.at = "sent"
  /\ IF ModeKnown(r) /\ MayResume(r)
     THEN Becomes([launch EXCEPT !.at = "configured", !.mode = ModeOf(r)]) ELSE Fails
  /\ UNCHANGED <<worldVars, here, changes>>

\* What the launch of this mode needs before it is planned.
Needs(r, mode) ==
  IF Runtime(r) # "pi" THEN "none"
  ELSE IF Has(r, "select") THEN "selection"
  ELSE IF Has(r, "dry") THEN "none"
  ELSE IF r.team = "requirements" /\ mode = "review-auto" /\ r.resume = "no" THEN "review"
  ELSE IF r.team = "builder" /\ r.ticket # Unset /\ mode \in teams[r.team].strict
       THEN IF mode = "orchestrator" THEN "orchestrator" ELSE IF Has(r, "child") THEN "parented" ELSE "standalone"
  ELSE "none"

Evidence(for, f, row, ticket, commit) ==
  [for |-> for, key |-> f.key, root |-> f.root, tree |-> row.path, ticket |-> ticket,
   id |-> row.id, head |-> commit, holder |-> row.holder]

\* The leased tree is a linked tree of the very repository.
SameCheckout(f, row) == \E s \in Resolve(Unset, row.path, TRUE) : s.key = f.key /\ s.root = f.root

\* authenticateTicketWorktreeResume: the earlier selection, in its file as in the
\* registry, was of this checkout.
SameSelection(r, e) ==
  r.resume = "selected" =>
    /\ artifact = "agrees" /\ Earlier.key = e.key /\ Earlier.root = e.root
    /\ Earlier.tree = e.tree /\ Earlier.ticket = e.ticket

\* authenticateTicketWorktreeSelection and selectPiReviewCandidateBeforePlanning: the
\* one existing lease, at the commit the ticket records.
Selections(r, for) ==
  UNION {{e \in {Evidence(for, f, row, r.ticket, link[r.ticket].head) : row \in Sole(<<f.key, r.ticket>>)} :
            /\ link[r.ticket].key = f.key /\ SameSelection(r, e)
            /\ SameCheckout(f, [path |-> e.tree]) /\ head[e.tree] = e.head} :
         f \in {f \in Resolve(launch.repo, here, for = "review" /\ launch.repo = Unset) : r.ticket \in tickets}}

\* The builder's checkout (deployWithPi): an orchestrator acquires or enters it, a
\* standalone implementation is called from it, a child from its parent's.
Invocation(r, for) == Resolve(IF for = "parented" THEN Unset ELSE launch.repo, here, for = "parented" \/ launch.repo = Unset)
Placed(r, for, f) ==
  /\ for \in {"standalone", "parented"} => f.kind = "linked" /\ f.tree = here
  /\ for = "standalone" => launch.repo = Unset
  /\ for = "parented" =>
       /\ Has(r, "background")
       /\ \E s \in Resolve(launch.repo, here, launch.repo = Unset) : s.key = f.key /\ s.root = f.root
CheckoutRows(for, f, holder) ==
  IF for = "orchestrator" /\ f.kind # "linked" THEN Acquired(holder) ELSE Prepared(holder, here)
Placings(r, for) ==
  {f \in Invocation(r, for) :
     /\ Placed(r, for, f) /\ r.ticket \in tickets /\ link[r.ticket].key = f.key}
Checkouts(r, for) ==
  UNION { {<<f, row>> : row \in
             \* authenticateParentTicketBranch
             {row \in CheckoutRows(for, f, <<f.key, r.ticket>>) :
                for = "parented" => link[r.ticket].head = head[row.path]}} :
          f \in Placings(r, for) }

Collects(e) == Becomes([launch EXCEPT !.at = "collected", !.evidence = e])
Nothing ==
  /\ launch.at = "configured" /\ Needs(launch.request, launch.mode) = "none"
  /\ Goes("collected") /\ UNCHANGED <<worldVars, here, changes>>
Select ==
  LET r == launch.request  for == Needs(r, launch.mode) IN
  /\ launch.at = "configured" /\ for \in {"selection", "review"}
  /\ IF Selections(r, for) = {} THEN Fails ELSE \E e \in Selections(r, for) : Collects(e)
  /\ UNCHANGED <<worldVars, here, changes>>
\* The lease stands in the pool even when the tree is not the one expected; a
\* builder's own branch is materialized, or its head recorded (materialization.ts).
Check ==
  LET r == launch.request  for == Needs(r, launch.mode) IN
  /\ launch.at = "configured" /\ for \in {"orchestrator", "standalone", "parented"}
  /\ \/ Checkouts(r, for) = {} /\ Fails /\ UNCHANGED <<rows, link>>
     \/ \E c \in Checkouts(r, for) :
          LET f == c[1]  row == c[2] IN
          /\ rows' = rows \cup {row}
          /\ IF SameCheckout(f, row)
             THEN /\ link' = [link EXCEPT ![r.ticket].head = head[row.path]]
                  /\ Collects(Evidence(for, f, row, r.ticket, head[row.path]))
             ELSE link' = link /\ Fails
  /\ UNCHANGED <<book, genuine, head, tickets, teams, artifact, here, changes>>

-----------------------------------------------------------------------------
(* resolveExecutionPlan. *)

\* With evidence the plan is made in its tree and without a selector.
PlanRepo == IF launch.evidence = NoEvidence THEN launch.repo ELSE Unset
PlanPlace == IF launch.evidence = NoEvidence THEN here ELSE launch.evidence.tree

\* The setup of a repository: ticketless, from the command line, at the root.
SetupAllowed(r, f) ==
  r.team = "repo-setup" =>
    /\ Runtime(r) = "pi" /\ r.by # "api" /\ r.ticket = Unset /\ r.resume = "no" /\ f.kind = "primary"
    /\ r.has \cap {"background", "force", "select"} = {}
BuilderRoles == {"orchestrator", "parented", "standalone"}

\* The evidence and the roots resolved now agree exactly.
Agrees(e, f) ==
  /\ e.for # "none" => /\ f.kind = "linked" /\ f.tree = e.tree
                       /\ e.holder = <<f.key, e.ticket>>
  /\ e.for \in BuilderRoles => head[f.tree] = e.head
  /\ e.for \in {"selection", "review"} => f.key = e.key /\ f.root = e.root

Plannable(r) ==
  {f \in Resolve(PlanRepo, PlanPlace, Runtime(r) = "pi" /\ PlanRepo = Unset) :
     /\ SetupAllowed(r, f) /\ Agrees(launch.evidence, f)
     /\ r.ticket = Unset => launch.mode \notin teams[r.team].strict}
Plan ==
  /\ launch.at = "collected"
  /\ \/ Plannable(launch.request) = {} /\ Fails
     \/ \E f \in Plannable(launch.request) :
          Becomes([launch EXCEPT !.at = "returning",
                     !.plan = [at |-> f, mode |-> launch.mode, evidence |-> launch.evidence, made |-> TRUE]])
  /\ UNCHANGED <<worldVars, here, changes>>

\* deploymentCorrelation: what the registry's start row says of the plan.
Correlation(plan) ==
  LET e == plan.evidence  builder == e.for \in BuilderRoles IN
  [review    |-> e.for = "review",
   authority |-> IF builder THEN e.for ELSE Unset,
   parent    |-> e.for = "parented",
   path      |-> IF builder THEN e.tree ELSE Unset,
   lease     |-> IF builder THEN e.id ELSE 0,
   holder    |-> IF builder THEN e.holder ELSE NoHolder,
   slot      |-> IF builder THEN <<plan.at.key, e.ticket>> ELSE NoHolder,
   state     |-> IF builder \/ e.for = "selection" THEN "materialized" ELSE Unset,
   head      |-> IF builder \/ e.for = "selection" THEN e.head ELSE 0]

\* validateDeploymentCorrelationEvidence.
Bound(c) == c.authority # Unset \/ c.parent \/ c.path # Unset \/ c.lease # 0 \/ c.holder # NoHolder \/ c.slot # NoHolder
CorrelationValid(c, ticket, tree) ==
  /\ c.state = Unset => c.head = 0
  /\ c.state = "materialized" => c.head # 0
  /\ c.review => ~Bound(c)
  /\ Bound(c) => /\ c.authority # Unset /\ c.path = tree /\ c.lease # 0 /\ c.holder # NoHolder
                 /\ c.state = "materialized" /\ c.holder = c.slot
                 /\ c.parent = (c.authority = "parented") /\ c.holder[2] = ticket

\* The finally of runDeployCommand, and the answer of the route.
Leave ==
  /\ launch.at = "returning"
  /\ here' = launch.request.at
  /\ Ends(IF launch.plan.made THEN "launched" ELSE "failed")
  /\ UNCHANGED <<worldVars, changes>>

-----------------------------------------------------------------------------
(* The operator, other sessions and Treehouse. *)

Outside ==
  /\ launch.at # "done" /\ changes < MaxWorld /\ changes' = changes + 1 /\ UNCHANGED <<here, launch>>
EditBook == \E k \in Keys, p \in Roots \cup {"copy", "nowhere"} :
  /\ book[k] # p /\ book' = [book EXCEPT ![k] = p] /\ Outside
  /\ UNCHANGED <<genuine, rows, head, link, tickets, teams, artifact>>
Tamper == \E c \in Copies :
  /\ genuine' = (genuine \cup {c}) \ (genuine \cap {c}) /\ Outside
  /\ UNCHANGED <<book, rows, head, link, tickets, teams, artifact>>
EditPool == \E r \in PoolRows :
  /\ rows' = (rows \cup {r}) \ (rows \cap {r}) /\ Outside
  /\ UNCHANGED <<book, genuine, head, link, tickets, teams, artifact>>
Commit == \E c \in Copies :
  /\ head' = [head EXCEPT ![c] = @ + 1] /\ Outside
  /\ UNCHANGED <<book, genuine, rows, link, tickets, teams, artifact>>
Relink == \E t \in DOMAIN link, c \in Copies :
  /\ link' = [link EXCEPT ![t].head = head[c]] /\ link' # link /\ Outside
  /\ UNCHANGED <<book, genuine, rows, head, tickets, teams, artifact>>
MoveTicket == \E t \in tickets :
  /\ tickets' = tickets \ {t} /\ Outside
  /\ UNCHANGED <<book, genuine, rows, head, link, teams, artifact>>
RetireMode == \E t \in DOMAIN teams : \E m \in teams[t].modes :
  /\ teams' = [teams EXCEPT ![t].modes = @ \ {m}] /\ Outside
  /\ UNCHANGED <<book, genuine, rows, head, link, tickets, artifact>>
EditArtifact ==
  /\ artifact' = "differs" /\ Outside
  /\ UNCHANGED <<book, genuine, rows, head, link, tickets, teams>>

Changes == EditBook \/ Tamper \/ EditPool \/ Commit \/ Relink \/ MoveTicket \/ RetireMode \/ EditArtifact
RequestsNext ==
  \/ Accept \/ Preflight \/ Locate \/ Enter \/ Configure
  \/ Nothing \/ Select \/ Check \/ Plan \/ Leave \/ Changes

-----------------------------------------------------------------------------
RequestsTypeOK ==
  /\ book \in [Keys -> Roots \cup {"copy", "nowhere"}] /\ genuine \subseteq Copies
  /\ \A r \in rows : r.path \in Copies
  /\ here \in Places /\ changes \in 0 .. MaxWorld
  /\ launch.at \in {"asked", "accepted", "located", "sent", "configured", "collected", "returning", "done"}

plan == launch.plan
\* The process is where it was called when the call is over, however it ended.
PlaceKept == launch.at = "done" => here = launch.request.at

\* The plan is of the repository the command line accepted, whatever the registry
\* says of the key by then; a child's is of the tree it was called from.
SameRoot ==
  plan.made /\ launch.request.by # "api" =>
    /\ plan.at.root = launch.found.root
    /\ plan.evidence.for = "parented" => plan.at.tree = Tree(launch.request.at)

\* An explicit input never puts a deployment into a linked tree, and OpenCode is
\* never in one.
LinkedForAReason ==
  plan.made /\ plan.at.kind = "linked" =>
    /\ Runtime(launch.request) = "pi"
    /\ plan.evidence.for # "none" \/ launch.request.repo = Unset

\* A builder's real launch for a ticket has evidence of its checkout, and what was
\* only selected carries no authority; a resumed selection is of the same checkout.
EvidenceFits ==
  LET r == launch.request IN
  plan.made =>
    /\ Has(r, "select") => plan.evidence.for = "selection" /\ r.team # "builder"
    /\ r.resume = "selected" => plan.evidence.tree = Earlier.tree /\ plan.at.key = Earlier.key
    /\ plan.evidence.for # "none" => plan.evidence.root = plan.at.root /\ plan.evidence.ticket = r.ticket

\* No plan is one whose start the registry would refuse.
StartAccepted == plan.made => CorrelationValid(Correlation(plan), launch.request.ticket, plan.at.tree)

RequestsSafe ==
  RequestsTypeOK /\ PlaceKept /\ SameRoot /\ LinkedForAReason /\ EvidenceFits /\ StartAccepted

\* A plan is made only on what holds at that moment: its registry entry names its
\* root, and is the only one that does unless the request named the entry; its
\* linked tree is authentic, and a builder's is at the commit recorded for the ticket.
PlansHold ==
  plan'.made /\ ~plan.made =>
    LET p == plan' IN
    /\ book[p.at.key] = p.at.root
    /\ PlanRepo \notin Keys => \A k \in Keys \ {p.at.key} : book[k] # p.at.root
    /\ p.at.kind = "linked" => p.at.tree \in genuine /\ Primary[p.at.tree] = p.at.root
    /\ p.evidence.for \in BuilderRoles => head[p.at.tree] = p.evidence.head

RequestsSpec == RequestsInit /\ [][RequestsNext]_requestVars
=============================================================================
