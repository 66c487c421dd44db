----------------------------- MODULE MemorySync -----------------------------
(***************************************************************************)
(* How Brain keeps its memory of reference sources in step with Notion,    *)
(* the repositories and the human reviews (server/src/brain/memory):       *)
(* MemoryService with its durable job queue, its one worker, the policy    *)
(* edits of administrators, webhooks, the index operations at Cognee and   *)
(* the retrieval of evidence for an analysis.                              *)
(*                                                                         *)
(* Every write or transaction of the store is one atomic step.  The store  *)
(* performs them in the order they were issued, so a step of the worker    *)
(* or of a recorder, which is prepared from what was read before, waits in *)
(* `chain' for its turn.  A handler with a single transaction is one       *)
(* action: it may have been issued at any earlier moment.                  *)
(*                                                                         *)
(* Abstractions: content is a version number; the deterministic name of a  *)
(* dataset is the triple it is derived from; finished jobs are dropped;    *)
(* one project asks for evidence, and the search keeps all of it.          *)
(***************************************************************************)
EXTENDS Subpages, Sequences, Functions

CONSTANTS
  Pages, Specs, Reviews,   \* the sources: Notion pages, Git specifications, human reviews
  Policies,                \* what an administrator may choose
  Project, Home,           \* the project that is analyzed; the scope of its specifications
  Plans                    \* what is there at first, and what may happen

Scopes == SUBSET ({Project} \cup Home \cup UNION {policy.scope : policy \in Policies})
Datasets == Sources \X Nat \X Nat

Registration ==
  [parent : Pages \cup {None}, approval : {"draft", "approved", "withdrawn"},
   before : {None, "draft", "approved"}, scope : Scopes, include : BOOLEAN, auto : BOOLEAN,
   status : {"pending", "syncing", "ready", "failed", "withdrawn"},
   capture : Nat \cup {None}, dataset : Datasets \cup {None}, generation : Nat \cup {None}, text : Nat]

\* An active page is of a branch that includes it, and serves the projects of the branch.
InBranch(src, s) ==
  Active(src, s) /\ src[s].parent # None =>
    LET above == src[s].parent IN
    Active(src, above) /\ src[above].include /\ SameScope(src, s, above)

\* What may be registered at first: nothing is synchronized yet.
Registrations(known) ==
  /\ known \in [Sources -> Registration \cup {None}]
  /\ \A s \in Registered(known) :
       /\ known[s].status = StatusFor(known[s].approval) /\ known[s].before = None
       /\ s \notin Pages => known[s].parent = None
       /\ known[s].parent # None => known[s].parent \in Registered(known) \ (SubpagesOf(known, s) \cup {s})
       /\ InBranch(known, s)
  /\ Cardinality(Registered(known) \cap Pages) <= MaxSources

MemoryAssumption ==
  /\ Sources = Pages \cup Specs \cup Reviews
  /\ Pages \cap Specs = {} /\ Pages \cap Reviews = {} /\ Specs \cap Reviews = {}
  /\ IsFiniteSet(Sources) /\ MaxSources \in Nat /\ Project \in Home
  /\ \A policy \in Policies :
       policy.approval \in {"draft", "approved", "withdrawn"} /\ policy.include \in BOOLEAN /\ policy.auto \in BOOLEAN
  /\ \A plan \in Plans :
       /\ Registrations(plan.known) /\ plan.tree \in [Sources -> Pages \cup {None}] /\ plan.projects \subseteq Specs
       /\ {plan.changes, plan.faults, plan.restarts, plan.retrievals} \subseteq Nat
  /\ None \notin Sources /\ None \notin Registration /\ None \notin Datasets /\ None \notin Nat
  /\ None \notin {"draft", "approved"} /\ None \notin [content : Nat, parent : Pages \cup {None}, found : SUBSET Pages]
ASSUME MemoryHypothesis == MemoryAssumption

VARIABLES
  \* the database
  sources,     \* the registrations
  jobs,        \* the jobs that are queued or running, oldest first
  captures,    \* what was captured: <<source, content>>
  bindings,    \* datasets: <<source, content, generation>>
  events,      \* webhook deliveries: <<source, content>>
  \* the process
  worker, retriever, recorder,
  registrar,   \* the project list a registration works with, or None
  indexer,     \* the dataset Cognee is building, or None
  chain,       \* who waits for the store, in order
  generation,  \* indexVersion
  stopped,
  \* the world
  tree, version, projects,
  \* history and bounds
  barred,      \* sources an administrator withdrew
  misplaced,   \* an administrator approved a page that its branch does not have
  answer,      \* the last evidence returned
  edits, changes, faults, restarts, retrievals

store == <<sources, jobs, captures, bindings, events>>
process == <<worker, retriever, recorder, registrar, indexer, chain, generation, stopped>>
world == <<tree, version, projects>>
history == <<barred, misplaced, answer>>
budgets == <<edits, changes, faults, restarts, retrievals>>
vars == <<store, process, world, history, budgets>>

Idle == [pc |-> "idle"]

\* What makeCapture keeps of a source: its text, or the version that was read.
Content(s) == IF s \in Reviews THEN sources[s].text ELSE version[s]

-----------------------------------------------------------------------------
(* The queue *)

\* (mutant) a running job stands for a new one
QueueOnce(q, src, s) ==
  IF ~Active(src, s) \/ (\E i \in DOMAIN q : q[i].source = s) THEN q
  ELSE Append(q, [source |-> s, status |-> "queued"])

\* queueJob: a source has a queued job, which is reused.
Queue(q, src, s) ==
  IF ~Active(src, s) \/ [source |-> s, status |-> "queued"] \in Range(q) THEN q
  ELSE Append(q, [source |-> s, status |-> "queued"])

Listed(set) == CHOOSE order \in [1..Cardinality(set) -> set] : Range(order) = set

QueueAll(q, src, set) ==
  LET new == {s \in set : Active(src, s) /\ [source |-> s, status |-> "queued"] \notin Range(q)}
  IN q \o [i \in 1..Cardinality(new) |-> [source |-> Listed(new)[i], status |-> "queued"]]

\* The job of the worker is the oldest one.
Rest == Tail(jobs)

-----------------------------------------------------------------------------
(* The worker: drain and synchronize *)

\* The steps of the worker that wait for the store.
StoreSteps == {"skip", "claim", "mark", "save", "reconcile", "finish", "close", "children", "fail", "failjob"}

At(pc) == worker.pc = pc /\ (pc \in StoreSteps => chain # <<>> /\ Head(chain) = "worker")

Continue(next) ==
  /\ worker' = next
  /\ chain' = (IF worker.pc \in StoreSteps THEN Tail(chain) ELSE chain)
              \o (IF next.pc \in StoreSteps THEN <<"worker">> ELSE <<>>)

Goto(pc) == Continue([worker EXCEPT !.pc = pc])

\* The policy of the source is the one its job started with.
Unchanged == PolicyVersion(sources[worker.source]) = PolicyVersion(worker.copy)

\* The oldest queued job is taken; the registration is read.
Pick ==
  /\ ~stopped /\ worker = Idle /\ jobs # <<>>
  /\ LET s == Head(jobs).source IN
     Continue([pc |-> IF Active(sources, s) THEN "claim" ELSE "skip", source |-> s, copy |-> sources[s],
               page |-> None, dataset |-> None, snapshot |-> None, todo |-> {}])
  /\ UNCHANGED <<store, retriever, recorder, registrar, indexer, generation, stopped, world, history, budgets>>

\* A withdrawn source: the job is over.
Skip ==
  /\ At("skip") /\ jobs' = Rest /\ Continue(Idle)
  /\ UNCHANGED <<sources, captures, bindings, events, retriever, recorder, registrar, indexer,
                 generation, stopped, world, history, budgets>>

Claim ==
  /\ At("claim") /\ jobs' = [jobs EXCEPT ![1].status = "running"] /\ Goto("mark")
  /\ UNCHANGED <<sources, captures, bindings, events, retriever, recorder, registrar, indexer,
                 generation, stopped, world, history, budgets>>

Mark ==
  /\ At("mark")
  /\ IF Unchanged THEN sources' = [sources EXCEPT ![worker.source].status = "syncing"] /\ Goto("read")
     ELSE UNCHANGED sources /\ Goto("fail")
  /\ UNCHANGED <<jobs, captures, bindings, events, retriever, recorder, registrar, indexer,
                 generation, stopped, world, history, budgets>>

\* A subpage is only read below the parent it is registered under.
Verified(copy, page) ==
  copy.parent # None =>
    /\ sources[copy.parent] # None
    /\ sources[copy.parent].include /\ sources[copy.parent].approval # "withdrawn"
    /\ page.parent = copy.parent

\* readSource
Read ==
  /\ At("read")
  /\ LET s == worker.source
         page == [content |-> IF s \in Reviews THEN worker.copy.text ELSE version[s],
                  parent |-> IF s \in Pages THEN tree[s] ELSE None,
                  found |-> IF s \in Pages THEN {p \in Pages : tree[p] = s} ELSE {}]
     IN IF Verified(worker.copy, page) /\ (s \in Specs => s \in projects)
        THEN Continue([worker EXCEPT !.pc = "save", !.page = page])
        ELSE Goto("fail")
  /\ UNCHANGED <<store, retriever, recorder, registrar, indexer, generation, stopped, world, history, budgets>>

\* (mutant) an index operation that fails keeps its turn
CallFailsInTurn ==
  /\ worker.pc \in {"read", "indexing", "verify"}
  /\ faults > 0 /\ faults' = faults - 1
  /\ Goto("fail")
  /\ UNCHANGED <<store, retriever, recorder, registrar, indexer, generation, stopped, world, history,
                 edits, changes, restarts, retrievals>>

\* Notion, the repository or Cognee cannot be reached, or the answer is not
\* complete: a call the worker waits for fails.
CallFails ==
  /\ \/ worker.pc \in {"read", "indexing", "verify"}
     \/ worker.pc = "discover" /\ worker.source \in Pages /\ sources[worker.source].include
  /\ faults > 0 /\ faults' = faults - 1
  /\ indexer' = IF worker.pc = "indexing" THEN None ELSE indexer
  /\ Goto("fail")
  /\ UNCHANGED <<store, retriever, recorder, registrar, generation, stopped, world, history,
                 edits, changes, restarts, retrievals>>

Binding(s, content) == <<s, content, generation>>

\* saveCapture; an approved source is indexed unless its content was before,
\* at once or in its turn.
SaveCapture ==
  /\ At("save")
  /\ captures' = captures \cup {<<worker.source, worker.page.content>>}
  /\ LET binding == Binding(worker.source, worker.page.content) IN
     IF ~Unchanged THEN Goto("fail") /\ UNCHANGED indexer
     ELSE IF worker.copy.approval # "approved" THEN Goto("discover") /\ UNCHANGED indexer
     ELSE IF binding \in bindings
     THEN Continue([worker EXCEPT !.pc = "discover", !.dataset = binding]) /\ UNCHANGED indexer
     ELSE IF indexer = None /\ ~stopped THEN Goto("indexing") /\ indexer' = binding
     ELSE Goto("index") /\ UNCHANGED indexer
  /\ UNCHANGED <<sources, jobs, bindings, events, retriever, recorder, registrar,
                 generation, stopped, world, history, budgets>>

\* (mutant) the turn is taken without a second look
StartIndexBlindly ==
  /\ worker.pc = "index" /\ indexer = None
  /\ LET binding == Binding(worker.source, worker.page.content) IN
     IF stopped THEN Goto("fail") /\ UNCHANGED indexer
     ELSE Goto("indexing") /\ indexer' = binding
  /\ UNCHANGED <<store, retriever, recorder, registrar, generation, stopped, world, history, budgets>>

\* indexCapture: index operations take turns; another one may have done it.
StartIndex ==
  /\ worker.pc = "index" /\ indexer = None
  /\ LET binding == Binding(worker.source, worker.page.content) IN
     IF binding \in bindings
     THEN Continue([worker EXCEPT !.pc = "discover", !.dataset = binding]) /\ UNCHANGED indexer
     ELSE IF stopped THEN Goto("fail") /\ UNCHANGED indexer
     ELSE Goto("indexing") /\ indexer' = binding
  /\ UNCHANGED <<store, retriever, recorder, registrar, generation, stopped, world, history, budgets>>

EndIndex ==
  /\ worker.pc = "indexing"
  /\ bindings' = bindings \cup {indexer} /\ indexer' = None
  /\ Continue([worker EXCEPT !.pc = "discover", !.dataset = indexer])
  /\ UNCHANGED <<sources, jobs, captures, events, retriever, recorder, registrar, generation, stopped,
                 world, history, budgets>>

Inspected == {worker.source} \cup worker.page.found

\* reconcileSubpages: the discovery is checked against what is registered.
Discover ==
  /\ worker.pc = "discover"
  /\ LET s == worker.source
         found == worker.page.found
         seen == [worker EXCEPT !.snapshot = [x \in Inspected |-> sources[x]]]
     IN IF ~Unchanged THEN Goto("fail")
        ELSE IF s \notin Pages \/ ~sources[s].include THEN Goto("finish")
        ELSE IF Refused(sources, s, found) THEN Goto("fail")
        ELSE Continue([seen EXCEPT !.pc = IF Moved(sources, s, found) = {} THEN "reconcile" ELSE "verify"])
  /\ UNCHANGED <<store, retriever, recorder, registrar, indexer, generation, stopped, world, history, budgets>>

\* Notion confirms, or not, that the pages that moved are now here.
Verify ==
  /\ worker.pc = "verify"
  /\ IF \A p \in worker.page.found :
          (worker.snapshot[p] # None /\ worker.snapshot[p].parent \notin {None, worker.source})
            => tree[p] = worker.source
     THEN Goto("reconcile") ELSE Goto("fail")
  /\ UNCHANGED <<store, retriever, recorder, registrar, indexer, generation, stopped, world, history, budgets>>

\* (mutant) only the pages that are new are queued
ReconcileNew ==
  /\ At("reconcile")
  /\ LET found == worker.page.found
         after == Reconciled(sources, worker.source, found)
     IN IF worker.snapshot # [x \in Inspected |-> sources[x]] \/ TooMany(sources, found)
        THEN Goto("fail") /\ UNCHANGED sources
        ELSE /\ sources' = after
             /\ Continue([worker EXCEPT !.pc = "finish", !.todo = {p \in found : sources[p] = None}])
  /\ UNCHANGED <<jobs, captures, bindings, events, retriever, recorder, registrar, indexer, generation,
                 stopped, world, history, budgets>>

\* (mutant) the limit of sources is not checked
ReconcileUnlimited ==
  /\ At("reconcile")
  /\ LET found == worker.page.found
         after == Reconciled(sources, worker.source, found)
     IN IF worker.snapshot # [x \in Inspected |-> sources[x]]
        THEN Goto("fail") /\ UNCHANGED sources
        ELSE /\ sources' = after
             /\ Continue([worker EXCEPT !.pc = "finish", !.todo = {p \in found : Active(after, p)}])
  /\ UNCHANGED <<jobs, captures, bindings, events, retriever, recorder, registrar, indexer, generation,
                 stopped, world, history, budgets>>

\* An edit during the discovery wins over it.
Reconcile ==
  /\ At("reconcile")
  /\ LET found == worker.page.found
         after == Reconciled(sources, worker.source, found)
     IN IF worker.snapshot # [x \in Inspected |-> sources[x]] \/ TooMany(sources, found)
        THEN Goto("fail") /\ UNCHANGED sources
        ELSE /\ sources' = after
             /\ Continue([worker EXCEPT !.pc = "finish", !.todo = {p \in found : Active(after, p)}])
  /\ UNCHANGED <<jobs, captures, bindings, events, retriever, recorder, registrar, indexer, generation,
                 stopped, world, history, budgets>>

Synchronized(r) ==
  [r EXCEPT !.capture = worker.page.content, !.dataset = worker.dataset, !.generation = generation,
            !.status = IF worker.copy.approval = "approved" THEN "ready" ELSE "pending"]

\* (mutant) the policy is not checked again
FinishBlindly ==
  /\ At("finish")
  /\ sources' = [sources EXCEPT ![worker.source] = Synchronized(@)] /\ Goto("close")
  /\ UNCHANGED <<jobs, captures, bindings, events, retriever, recorder, registrar, indexer,
                 generation, stopped, world, history, budgets>>

Finish ==
  /\ At("finish")
  /\ IF Unchanged
     THEN sources' = [sources EXCEPT ![worker.source] = Synchronized(@)] /\ Goto("close")
     ELSE UNCHANGED sources /\ Goto("fail")
  /\ UNCHANGED <<jobs, captures, bindings, events, retriever, recorder, registrar, indexer,
                 generation, stopped, world, history, budgets>>

\* The job succeeded; the pages below are queued one by one.
Close ==
  /\ At("close") /\ jobs' = Rest
  /\ IF worker.todo = {} THEN Continue(Idle) ELSE Goto("children")
  /\ UNCHANGED <<sources, captures, bindings, events, retriever, recorder, registrar, indexer,
                 generation, stopped, world, history, budgets>>

QueueChild ==
  /\ At("children")
  /\ \E p \in worker.todo :
       /\ jobs' = Queue(jobs, sources, p)
       /\ Continue(IF worker.todo = {p} THEN Idle ELSE [worker EXCEPT !.todo = @ \ {p}])
  /\ UNCHANGED <<sources, captures, bindings, events, retriever, recorder, registrar, indexer,
                 generation, stopped, world, history, budgets>>

\* Only the policy that failed is marked so.
FailSource ==
  /\ At("fail")
  /\ sources' = IF Unchanged /\ Active(sources, worker.source)
                THEN [sources EXCEPT ![worker.source].status = "failed"] ELSE sources
  /\ Goto("failjob")
  /\ UNCHANGED <<jobs, captures, bindings, events, retriever, recorder, registrar, indexer,
                 generation, stopped, world, history, budgets>>

FailJob ==
  /\ At("failjob") /\ jobs' = Rest /\ Continue(Idle)
  /\ UNCHANGED <<sources, captures, bindings, events, retriever, recorder, registrar, indexer,
                 generation, stopped, world, history, budgets>>

Worker ==
  \/ Pick \/ Skip \/ Claim \/ Mark \/ Read \/ SaveCapture \/ StartIndex \/ EndIndex
  \/ Discover \/ Verify \/ Reconcile \/ Finish \/ Close \/ QueueChild \/ FailSource \/ FailJob

-----------------------------------------------------------------------------
(* Administrators, projects, webhooks, reviews *)

\* The plan allows an edit, of this source to this policy.
Edit(s, policy) == edits # <<>> /\ <<s, policy>> \in Head(edits) /\ edits' = Tail(edits)
EditAny(s) == \E policy \in Policies : Edit(s, policy)

Apply(r, policy) ==
  [r EXCEPT !.approval = policy.approval, !.scope = policy.scope, !.include = policy.include,
            !.auto = policy.auto, !.status = StatusFor(policy.approval)]

\* An administrator's word on a source.
Say(s, approval) == IF approval = "withdrawn" THEN barred \cup {s} ELSE barred \ {s}

\* register
Register(p, policy) ==
  /\ Edit(p, policy)
  /\ sources[p] = None /\ Cardinality(Registered(sources)) < MaxSources
  /\ sources' = [sources EXCEPT ![p] = Apply(NewPage, policy)]
  /\ jobs' = Queue(jobs, sources', p)
  /\ barred' = Say(p, policy.approval) /\ UNCHANGED misplaced
  /\ UNCHANGED <<captures, bindings, events, process, world, answer, changes, faults, restarts, retrievals>>

\* What may be edited: a subpage is in its branch and keeps the settings of
\* the root, a specification its scope, and only pages have subpages.
Editable(s, policy) ==
  /\ policy.auto => policy.include
  /\ s \in Pages /\ sources[s].parent # None =>
       /\ sources[s].before = None
       /\ policy.scope = sources[s].scope
       /\ policy.include = sources[s].include /\ policy.auto = sources[s].auto
  /\ s \notin Pages => ~policy.include
  /\ s \in Specs => policy.scope = Home

\* update
Update(s, policy) ==
  /\ Edit(s, policy)
  /\ sources[s] # None /\ Editable(s, policy)
  /\ LET edited == [sources EXCEPT ![s] = Apply(@, policy)]
     IN sources' = IF s \in Pages THEN InheritSubpagePolicy(edited, s) ELSE edited
  /\ jobs' = Queue(jobs, sources', s)
  /\ barred' = Say(s, policy.approval)
  /\ misplaced' = (misplaced \/ ~InBranch(sources', s))
  /\ UNCHANGED <<captures, bindings, events, process, world, answer, changes, faults, restarts, retrievals>>

\* approveSubpages: the drafts of an active branch.
ApproveSubpages(s) ==
  /\ EditAny(s)
  /\ s \in Pages /\ Active(sources, s) /\ sources[s].include
  /\ LET drafts == {p \in SubpagesOf(sources, s) : sources[p].approval = "draft"} IN
     /\ sources' = [p \in Sources |->
          IF p \in drafts THEN [sources[p] EXCEPT !.approval = "approved", !.status = "pending"] ELSE sources[p]]
     /\ jobs' = QueueAll(jobs, sources', drafts)
  /\ UNCHANGED <<captures, bindings, events, process, world, history, changes, faults, restarts, retrievals>>

\* A manual synchronization, or the timer for a page that is not below another.
Sync(s) ==
  /\ Active(sources, s)
  /\ jobs' = Queue(jobs, sources, s)
  /\ UNCHANGED <<sources, captures, bindings, events, process, world, history, budgets>>

Poll(s) == ~stopped /\ sources[s] # None /\ sources[s].parent = None /\ Sync(s)

\* A delivery of a webhook, perhaps late or repeated: it is recorded with the
\* job it asks for.  The source may be withdrawn after it was looked up.
Deliver(s, content) ==
  /\ s \in Pages \cup Specs /\ sources[s] # None /\ content \in 1..version[s]
  /\ <<s, content>> \notin events
  /\ events' = events \cup {<<s, content>>}
  /\ jobs' = Queue(jobs, sources, s)
  /\ UNCHANGED <<sources, captures, bindings, process, world, history, budgets>>

NewSpec == [NewPage EXCEPT !.approval = "approved", !.scope = Home, !.include = FALSE]

\* What a registration of the listed specifications does.
WithSpecs(src, listed) ==
  [s \in Sources |->
    IF s \in listed /\ src[s] = None THEN NewSpec
    ELSE IF s \in Specs \ listed /\ Active(src, s)
    THEN [src[s] EXCEPT !.approval = "withdrawn", !.status = "withdrawn"]
    ELSE src[s]]

\* registerProjects reads the projects, then registers what they list.
LoadProjects ==
  /\ registrar = None /\ projects \cup (Registered(sources) \cap Specs) # {}
  /\ registrar' = projects
  /\ UNCHANGED <<store, worker, retriever, recorder, indexer, chain, generation, stopped, world, history, budgets>>

RegisterProjects ==
  /\ registrar # None
  /\ sources' = WithSpecs(sources, registrar)
  /\ registrar' = None
  /\ UNCHANGED <<jobs, captures, bindings, events, worker, retriever, recorder, indexer, chain,
                 generation, stopped, world, history, budgets>>

NewReview == [NewPage EXCEPT !.include = FALSE, !.scope = {Project}]

\* recordReview prepares the registration from the one it reads,
RecordReview(s, approval) ==
  /\ EditAny(s)
  /\ recorder = Idle
  /\ LET previous == IF sources[s] = None THEN NewReview ELSE sources[s] IN
     recorder' = [pc |-> "save", source |-> s,
                  record |-> [previous EXCEPT !.text = @ + 1, !.scope = {Project}, !.approval = approval,
                                              !.status = "pending"]]
  /\ chain' = Append(chain, "recorder")
  /\ UNCHANGED <<store, worker, retriever, registrar, indexer, generation, stopped, world, history,
                 changes, faults, restarts, retrievals>>

\* writes it,
SaveReview ==
  /\ recorder.pc = "save" /\ Head(chain) = "recorder"
  /\ sources' = [sources EXCEPT ![recorder.source] = recorder.record]
  /\ barred' = barred \ {recorder.source} /\ UNCHANGED misplaced
  /\ recorder' = [recorder EXCEPT !.pc = "queue"]
  /\ chain' = Append(Tail(chain), "recorder")
  /\ UNCHANGED <<jobs, captures, bindings, events, worker, retriever, registrar, indexer, generation,
                 stopped, world, answer, budgets>>

\* and queues a job.
QueueReview ==
  /\ recorder.pc = "queue" /\ Head(chain) = "recorder"
  /\ jobs' = Queue(jobs, sources, recorder.source)
  /\ recorder' = Idle /\ chain' = Tail(chain)
  /\ UNCHANGED <<sources, captures, bindings, events, worker, retriever, registrar, indexer, generation,
                 stopped, world, history, budgets>>

-----------------------------------------------------------------------------
(* retrieve *)

\* applicable
Applicable(src) ==
  {s \in Registered(src) : src[s].approval = "approved" /\ Project \in src[s].scope}

\* contextVersion
Context(src) ==
  {<<s, src[s].scope, IF s \in Specs THEN None ELSE src[s].capture>> : s \in Applicable(src)}

Branches(src) ==
  {s \in Pages : /\ Active(src, s) /\ src[s].include /\ src[s].parent = None
                 /\ Project \in src[s].scope}

Live(s) == \E i \in DOMAIN jobs : jobs[i].source = s

NeedsSync(src, s) ==
  \/ src[s].capture = None \/ src[s].status = "failed"
  \/ src[s].approval = "approved" /\ src[s].status # "ready"

\* Sources that are not synchronized, or out of date (`old'), are queued.
Retrieve ==
  /\ retriever = Idle /\ retrievals > 0 /\ retrievals' = retrievals - 1
  /\ LET branches == Branches(sources)
         scope == {s \in (Applicable(sources) \cup branches) \ Specs : sources[s].parent = None}
     IN /\ Applicable(sources) # {} \/ \E s \in branches : sources[s].auto
        /\ \E old \in SUBSET scope :
             retriever' = [pc |-> "wait", scope |-> scope, branches |-> branches,
                           todo |-> {s \in scope : ~Live(s) /\ (s \in old \/ NeedsSync(sources, s))},
                           context |-> {}, evidence |-> {}, specs |-> {}]
  /\ answer' = {}
  /\ UNCHANGED <<store, worker, recorder, registrar, indexer, chain, generation, stopped, world, barred, misplaced,
                 edits, changes, faults, restarts>>

RetrieveQueues ==
  /\ retriever.pc = "wait"
  /\ \E s \in retriever.todo :
       jobs' = Queue(jobs, sources, s) /\ retriever' = [retriever EXCEPT !.todo = @ \ {s}]
  /\ UNCHANGED <<sources, captures, bindings, events, worker, recorder, registrar, indexer, chain,
                 generation, stopped, world, history, budgets>>

\* Everything in scope, and below it, that still has a job.
Pending == {s \in retriever.scope \cup UNION {SubpagesOf(sources, p) : p \in retriever.scope} : Live(s)}

GiveUp == retriever' = Idle /\ UNCHANGED <<store, worker, recorder, registrar, indexer, chain, generation,
                                          stopped, world, history, budgets>>

\* waitForSources while the service stops
RetrieveStops == retriever.pc = "wait" /\ Pending # {} /\ stopped /\ GiveUp

Ready(s) == sources[s].status = "ready" /\ sources[s].dataset # None /\ sources[s].capture # None

\* The references that must be ready.
Needed == Applicable(sources) \ Specs

\* The wait is over: every reference is ready, or the retrieval fails.
RetrieveReady ==
  /\ retriever.pc = "wait" /\ retriever.todo = {} /\ Pending = {}
  /\ \A s \in retriever.branches : sources[s].status # "failed"
  /\ \A s \in Needed : Ready(s)
  /\ retriever' = [retriever EXCEPT !.pc = "specs", !.context = Context(sources),
                                    !.evidence = {<<s, sources[s].capture>> : s \in Needed},
                                    !.specs = Applicable(sources) \cap Specs]
  /\ UNCHANGED <<store, worker, recorder, registrar, indexer, chain, generation, stopped, world, history, budgets>>

RetrieveFails ==
  /\ retriever.pc = "wait" /\ retriever.todo = {} /\ Pending = {}
  /\ \/ \E s \in retriever.branches : sources[s].status = "failed"
     \/ \E s \in Needed : ~Ready(s)
  /\ GiveUp

\* A specification, as it is at the analyzed commit, is captured
CaptureSpec(s) ==
  /\ retriever.pc = "specs" /\ s \in retriever.specs
  /\ \E content \in 0..version[s] :
       /\ captures' = captures \cup {<<s, content>>}
       /\ retriever' = [retriever EXCEPT !.pc = IF Binding(s, content) \in bindings THEN "specs" ELSE "index",
                                         !.specs = @ \ {s}, !.evidence = @ \cup {<<s, content>>}]
  /\ UNCHANGED <<sources, jobs, bindings, events, worker, recorder, registrar, indexer, chain, generation,
                 stopped, world, history, budgets>>

\* The specification that was captured last.
Latest == CHOOSE e \in retriever.evidence : e[1] \in Specs /\ Binding(e[1], e[2]) \notin bindings

\* and indexed, in turn with the worker.
IndexSpec ==
  /\ retriever.pc = "index" /\ indexer = None
  /\ IF \A e \in retriever.evidence : e[1] \in Specs => Binding(e[1], e[2]) \in bindings
     THEN retriever' = [retriever EXCEPT !.pc = "specs"] /\ UNCHANGED indexer
     ELSE IF stopped THEN retriever' = Idle /\ UNCHANGED indexer
     ELSE retriever' = [retriever EXCEPT !.pc = "indexing"] /\ indexer' = Binding(Latest[1], Latest[2])
  /\ UNCHANGED <<store, worker, recorder, registrar, chain, generation, stopped, world, history, budgets>>

SpecIndexed ==
  /\ retriever.pc = "indexing"
  /\ bindings' = bindings \cup {indexer} /\ indexer' = None
  /\ retriever' = [retriever EXCEPT !.pc = "specs"]
  /\ UNCHANGED <<sources, jobs, captures, events, worker, recorder, registrar, chain, generation, stopped,
                 world, history, budgets>>

\* (mutant) the context is not compared
AnswerAnyway ==
  /\ retriever.pc = "specs" /\ retriever.specs = {}
  /\ answer' = retriever.evidence
  /\ retriever' = Idle
  /\ UNCHANGED <<store, worker, recorder, registrar, indexer, chain, generation, stopped, world, barred, misplaced, budgets>>

\* After the search the evidence is returned, unless the context changed.
Answer ==
  /\ retriever.pc = "specs" /\ retriever.specs = {}
  /\ answer' = IF retriever.context = Context(sources) THEN retriever.evidence ELSE answer
  /\ retriever' = Idle
  /\ UNCHANGED <<store, worker, recorder, registrar, indexer, chain, generation, stopped, world, barred, misplaced, budgets>>

\* The search, or the index, fails.
RetrieveAborts ==
  /\ retriever.pc \in {"specs", "indexing"} /\ faults > 0 /\ faults' = faults - 1
  /\ retriever' = Idle
  /\ indexer' = IF retriever.pc = "indexing" THEN None ELSE indexer
  /\ UNCHANGED <<store, worker, recorder, registrar, chain, generation, stopped, world, history,
                 edits, changes, restarts, retrievals>>

Retriever ==
  \/ Retrieve
  \/ RetrieveQueues \/ RetrieveStops \/ RetrieveReady \/ RetrieveFails
  \/ \E s \in Specs : CaptureSpec(s)
  \/ IndexSpec \/ SpecIndexed \/ Answer \/ RetrieveAborts

-----------------------------------------------------------------------------
(* The world, restarts *)

Change == changes > 0 /\ changes' = changes - 1

ChangeContent(s) ==
  /\ Change /\ s \in Pages \cup Specs /\ sources[s] # None
  /\ version' = [version EXCEPT ![s] = @ + 1]
  /\ UNCHANGED <<store, process, tree, projects, history, edits, faults, restarts, retrievals>>

\* A page is moved between registered pages, out of them or deleted; Notion
\* has no cycles.
Under(p, q) ==
  LET up[n \in 0..Cardinality(Pages)] ==
        IF n = 0 THEN {p}
        ELSE LET nearer == up[n - 1] IN nearer \cup ({tree[x] : x \in nearer} \ {None})
  IN q \in up[Cardinality(Pages)]

MovePage(p, q) ==
  /\ Change
  /\ sources[p] # None /\ (q # None => sources[q] # None)
  /\ tree[p] # q /\ (q # None => ~Under(q, p))
  /\ tree' = [tree EXCEPT ![p] = q]
  /\ UNCHANGED <<store, process, version, projects, history, edits, faults, restarts, retrievals>>

\* A project is added or removed with its specification.
ChangeProjects(s) ==
  /\ Change /\ s \in projects \cup (Registered(sources) \cap Specs)
  /\ projects' = IF s \in projects THEN projects \ {s} ELSE projects \cup {s}
  /\ UNCHANGED <<store, process, tree, version, history, edits, faults, restarts, retrievals>>

\* close: no new job is started.
Shutdown ==
  /\ ~stopped /\ restarts > 0
  /\ stopped' = TRUE
  /\ UNCHANGED <<store, worker, retriever, recorder, registrar, indexer, chain, generation, world, history, budgets>>

\* What was indexed by another generation is synchronized again.
Outdated(src, current) ==
  [s \in Sources |->
    IF src[s] # None /\ src[s].approval = "approved" /\ src[s].dataset # None /\ src[s].generation # current
    THEN [src[s] EXCEPT !.status = "pending"] ELSE src[s]]

\* The process ends, at any moment, and starts again: MemoryStore.init
\* queues the job that was running, MemoryService.init the rest.
Restart ==
  /\ restarts > 0 /\ restarts' = restarts - 1
  /\ worker' = Idle /\ retriever' = Idle /\ recorder' = Idle /\ registrar' = None
  /\ indexer' = None /\ chain' = <<>> /\ stopped' = FALSE
  /\ jobs' = [i \in DOMAIN jobs |-> [jobs[i] EXCEPT !.status = "queued"]]
  /\ generation' \in {generation, generation + 1}
  /\ sources' = Outdated(WithSpecs(sources, projects), generation')
  /\ UNCHANGED <<captures, bindings, events, world, history, edits, changes, faults, retrievals>>

-----------------------------------------------------------------------------
\* Pages were registered, with their jobs.
Init ==
  /\ \E plan \in Plans :
       /\ sources = plan.known
       /\ jobs = QueueAll(<<>>, plan.known, {s \in Pages : Active(plan.known, s) /\ plan.known[s].parent = None})
       /\ tree = plan.tree /\ projects = plan.projects
       /\ edits = plan.edits /\ changes = plan.changes /\ faults = plan.faults
       /\ restarts = plan.restarts /\ retrievals = plan.retrievals
  /\ captures = {} /\ bindings = {} /\ events = {}
  /\ worker = Idle /\ retriever = Idle /\ recorder = Idle /\ registrar = None
  /\ indexer = None /\ chain = <<>> /\ generation = 0 /\ stopped = FALSE
  /\ version = [s \in Sources |-> 0] /\ barred = {} /\ misplaced = FALSE /\ answer = {}

Next ==
  \/ Worker \/ CallFails \/ Retriever
  \/ \E s \in Sources, policy \in Policies : Update(s, policy)
  \/ \E p \in Pages, policy \in Policies : Register(p, policy)
  \/ \E s \in Pages : ApproveSubpages(s)
  \/ \E s \in Sources : Sync(s) \/ \E content \in 1..version[s] : Deliver(s, content)
  \/ LoadProjects \/ RegisterProjects
  \/ \E s \in Reviews, approval \in {"draft", "approved"} : RecordReview(s, approval)
  \/ SaveReview \/ QueueReview
  \/ \E s \in Sources : ChangeContent(s) \/ ChangeProjects(s)
  \/ \E p \in Pages, q \in Pages \cup {None} : MovePage(p, q)
  \/ Shutdown \/ Restart

Spec == Init /\ [][Next]_vars

\* The worker, the handlers that have begun and a retrieval make progress; an
\* operator starts the server again.  Nothing makes Cognee end an index
\* operation: the configuration that is shipped sets no deadline for it.
WorkerSteps == worker.pc # "indexing" /\ Worker
WaitEnds == RetrieveQueues \/ RetrieveStops \/ RetrieveReady \/ RetrieveFails
AnswerSteps == (\E s \in Specs : CaptureSpec(s)) \/ IndexSpec \/ Answer

Progress ==
  /\ WF_vars(WorkerSteps) /\ WF_vars(SaveReview \/ QueueReview) /\ WF_vars(RegisterProjects)
  /\ WF_vars(stopped /\ Restart)
  /\ WF_vars(WaitEnds) /\ WF_vars(AnswerSteps)

LiveSpec == Spec /\ Progress

-----------------------------------------------------------------------------
(* Properties *)

\* The types of the state; the only running job is the one of the worker.
TypeOK ==
  /\ \A s \in Sources : sources[s] # None => sources[s] \in Registration
  /\ \A i \in DOMAIN jobs : jobs[i].source \in Sources /\ (jobs[i].status = "running" => i = 1 /\ worker # Idle)
  /\ \A c \in captures : c[1] \in Sources
  /\ \A b \in bindings : b[1] \in Sources
  /\ events \subseteq (Pages \cup Specs) \X Nat
  /\ worker # Idle => jobs # <<>> \/ worker.pc = "children"
  /\ Len(chain) <= 2 /\ Cardinality(Registered(sources) \cap Pages) <= MaxSources

\* A reference is ready only as it was synchronized under the policy it has
\* now: its content was captured, and indexed for this source, since.  No
\* stale synchronization makes a source ready that was edited in between.
ReadyIsCurrent ==
  \A s \in Sources : sources[s] # None /\ sources[s].status = "ready" =>
    /\ sources[s].approval = "approved"
    /\ sources[s].dataset = <<s, sources[s].capture, sources[s].generation>>
    /\ sources[s].dataset \in bindings /\ <<s, sources[s].capture>> \in captures

\* A source an administrator withdrew stays withdrawn, whatever is
\* discovered, synchronized, moved, restored or restarted, until an
\* administrator (or a new review) says otherwise.
WithdrawalsHold ==
  \A s \in barred : sources[s] # None =>
    sources[s].approval = "withdrawn" /\ sources[s].status = "withdrawn"

\* An active page is in its branch and serves the projects of the branch,
\* whatever is edited, discovered, moved or restored: none is used for a
\* project the page above it was taken away from.  That ends when a page that
\* was withdrawn by itself is approved while its branch does not have it, which
\* update() allows.
BranchesAgree == ~misplaced => \A s \in Pages : InBranch(sources, s)

\* An accepted notification is not lost: once a source is ready and no job
\* is left for it, what was captured is as new as what was notified, and a
\* review is the one that was recorded last.
ReadyIsFresh ==
  \A s \in Sources : sources[s] # None /\ sources[s].status = "ready" /\ ~Live(s) /\ recorder = Idle =>
    /\ \A e \in events : e[1] = s => sources[s].capture >= e[2]
    /\ s \in Reviews => sources[s].capture = sources[s].text

\* Branches agree, no withdrawal is lost, and no notice either: what is ready is read under the
\* policy of today and after the last notice.
SourcesHold == ReadyIsCurrent /\ ReadyIsFresh /\ WithdrawalsHold /\ BranchesAgree

\* Evidence is complete and current when it is returned: it is of approved
\* sources of the project, of each one, as captured for it, and nothing that
\* was withdrawn, re-scoped or replaced while the search ran.
AnswersAreCurrent ==
  [][answer' # answer /\ answer' # {} =>
       /\ {e[1] : e \in answer'} = Applicable(sources)
       /\ answer' \subseteq captures
       /\ \A e \in answer' : e[1] \notin Specs => e[2] = sources[e[1]].capture]_answer

\* A dataset is built once: the worker and a retrieval that need the same one
\* do not both ask Cognee for it.
IndexedOnce == [][indexer' # indexer /\ indexer' # None => indexer' \notin bindings]_indexer

\* An answer cites what is approved and current, and a capture is indexed once.
EvidenceHolds ==
  /\ AnswersAreCurrent
  /\ IndexedOnce

\* COGNEE.md: only approved references are indexed.
OnlyApprovedIndexed ==
  [][indexer' # indexer /\ indexer' # None =>
       sources[indexer'[1]] # None /\ sources[indexer'[1]].approval = "approved"]_indexer

\* NOTION-MCP.md: withdrawing a branch, or disabling discovery, excludes the
\* pages below it; a page outside its branch cannot be approved.
OutsideStaysOut ==
  \A s \in Pages : Active(sources, s) /\ sources[s].parent # None =>
    Active(sources, sources[s].parent) /\ sources[sources[s].parent].include

Settled(s) ==
  sources[s] # None /\ sources[s].approval = "approved" =>
    sources[s].status = "ready" /\ sources[s].capture = Content(s)

\* Cognee ends every index operation, with the dataset or with an error.
IndexingEnds == []<>(worker.pc # "indexing") /\ []<>(retriever.pc # "indexing")

\* Once edits and failures are over, the approved references are again and
\* again all synchronized with their current content, if the timer keeps
\* asking for the pages that are not below another and index operations end.
Settles ==
  IndexingEnds /\ (\A s \in Sources : WF_vars(Poll(s))) => []<>(\A s \in Pages \cup Reviews : Settled(s))

\* A retrieval ends, with evidence or not, if index operations end and at last
\* nobody asks for more synchronizations: nothing it waits for is held by a failed call, another
\* index operation, a shutdown or a restart.
RetrievalEnds ==
  IndexingEnds /\ (<>[][Len(jobs') <= Len(jobs)]_jobs) => ((retriever # Idle) ~> (retriever = Idle))
=============================================================================
