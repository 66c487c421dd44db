---------------------------- MODULE MemoryProofs -----------------------------
(***************************************************************************)
(* The memory of a project, for any pages, specifications, reviews,        *)
(* policies and starting registrations, and whatever the worker, editors,  *)
(* webhooks, reviews, retrievals, failures and restarts do.                *)
(*                                                                         *)
(* The argument.  What administrators decided is in the registrations      *)
(* alone (PolicyInv): they form a forest, and a withdrawal is only undone  *)
(* by a decision or by the branch that withdrew the page.  The worker      *)
(* holds a copy of what it read, and can write only when the registration  *)
(* still agrees with that copy, so that what it makes ready was captured   *)
(* and indexed under the policy of now (WorkInv, SeenInv, ProgressInv).    *)
(* That needs the order of the two that wait for the store (ChainInv), and *)
(* that the worker's job is the first of the queue (JobsInv).  A notice or *)
(* a recorded review that comes while a source is synchronized is not      *)
(* lost: it is in the queue, before the worker reads, or still with the    *)
(* recorder (EventsInv, TextInv).  A retrieval compares the context it     *)
(* has read with the one of its answer (AskInv), and who builds a dataset  *)
(* has the turn (TurnInv).                                                 *)
(*                                                                         *)
(* The steps are grouped by what they leave alone: what happens meanwhile  *)
(* (Meanwhile) keeps the worker's place whoever does it.                   *)
(***************************************************************************)
EXTENDS MemorySync, FiniteSetTheorems, TLAPS

Jobs == [source : Sources, status : {"queued", "running"}]
Fetches == [content : Nat, parent : Pages \cup {None}, found : SUBSET Pages]
Snapshots == UNION {[set -> Registration \cup {None}] : set \in SUBSET Sources}
Steps == StoreSteps \cup {"read", "index", "indexing", "discover", "verify"}
Working == [pc : Steps, source : Sources, copy : Registration, page : Fetches \cup {None},
            dataset : Datasets \cup {None}, snapshot : Snapshots \cup {None}, todo : SUBSET Pages]
Recording == [pc : {"save", "queue"}, source : Reviews, record : Registration]
Contexts == Sources \X Scopes \X (Nat \cup {None})
Asking == [pc : {"wait", "specs", "index", "indexing"}, scope : SUBSET Sources, branches : SUBSET Sources,
           todo : SUBSET Sources, context : SUBSET Contexts, evidence : SUBSET (Sources \X Nat), specs : SUBSET Specs]

Typed(src) == src \in [Sources -> Registration \cup {None}]

StoreTypes ==
  /\ captures \subseteq Sources \X Nat /\ bindings \subseteq Datasets
  /\ events \subseteq (Pages \cup Specs) \X Nat
  /\ version \in [Sources -> Nat] /\ tree \in [Sources -> Pages \cup {None}] /\ generation \in Nat
  /\ projects \subseteq Specs /\ registrar \in (SUBSET Specs) \cup {None}
  /\ indexer \in Datasets \cup {None}
  /\ misplaced \in BOOLEAN

WorkTypes ==
  /\ worker \in Working \cup {Idle}
  /\ recorder \in Recording \cup {Idle}
  /\ retriever \in Asking \cup {Idle}

-----------------------------------------------------------------------------
\* A job is of a registration; only the first one can be running, and is the worker's.
Beginning == {"skip", "claim"}
Synchronizing == {"mark", "read", "save", "index", "indexing", "discover", "verify", "reconcile", "finish", "close",
                  "fail", "failjob"}
JobsInv ==
  /\ jobs \in Seq(Jobs)
  /\ \A i \in DOMAIN jobs : sources[jobs[i].source] # None /\ (i > 1 => jobs[i].status = "queued")
  /\ worker.pc \in Beginning => jobs # <<>> /\ jobs[1] = [source |-> worker.source, status |-> "queued"]
  /\ worker.pc \in Synchronizing => jobs # <<>> /\ jobs[1] = [source |-> worker.source, status |-> "running"]
  /\ worker.pc \in {"idle", "children"} /\ jobs # <<>> => jobs[1].status = "queued"

\* The worker and a recorder wait for the store once each.
ChainInv ==
  \/ chain = <<>> /\ worker.pc \notin StoreSteps /\ recorder = Idle
  \/ chain = <<"worker">> /\ worker.pc \in StoreSteps /\ recorder = Idle
  \/ chain = <<"recorder">> /\ worker.pc \notin StoreSteps /\ recorder # Idle
  \/ chain \in {<<"worker", "recorder">>, <<"recorder", "worker">>} /\ worker.pc \in StoreSteps /\ recorder # Idle

\* The registrations: only pages have parents, which are registered; only what is below one can
\* be out of its branch, and is withdrawn then; there are no cycles.
TreeOf(src) ==
  \A s \in Registered(src) :
    /\ src[s].parent # None => s \in Pages /\ src[s].parent \in Registered(src) \ (SubpagesOf(src, s) \cup {s})
    /\ src[s].before # None => src[s].parent # None /\ src[s].approval = "withdrawn"

\* An administrator's withdrawal.
Out(src, s) == src[s] # None /\ src[s].approval = "withdrawn" /\ src[s].status = "withdrawn" /\ src[s].before = None

Agreed(src) == \A s \in Pages : InBranch(src, s)

Few(src) == Cardinality(Registered(src) \cap Pages) <= MaxSources

PolicyInv ==
  /\ Typed(sources) /\ TreeOf(sources) /\ Few(sources) /\ (~misplaced => Agreed(sources))
  /\ barred \subseteq Sources /\ \A s \in barred : Out(sources, s)
RecordInv == recorder # Idle => recorder.record.parent = None /\ recorder.record.before = None /\ recorder.record.status = "pending"

\* What the worker holds.
Discovering == {"discover", "verify", "reconcile", "finish"}
Reading == {"save", "index", "indexing"} \cup Discovering
WorkInv == worker # Idle =>
  /\ sources[worker.source] # None
  /\ worker.pc # "skip" => worker.copy.approval # "withdrawn"
  /\ worker.pc \in Reading => worker.page # None
  /\ worker.pc \in Reading \ {"save"} => <<worker.source, worker.page.content>> \in captures
  /\ worker.pc \in {"index", "indexing"} => worker.copy.approval = "approved"
  /\ worker.pc = "indexing" => indexer = Binding(worker.source, worker.page.content)
  /\ worker.pc \in Discovering /\ worker.copy.approval = "approved" =>
       worker.dataset = Binding(worker.source, worker.page.content) /\ worker.dataset \in bindings

\* What was seen when the discovery was checked.
SeenInv == worker.pc \in {"verify", "reconcile"} =>
  LET seen == worker.snapshot
      p == worker.source
      found == worker.page.found
  IN /\ p \in Pages /\ seen \in [Inspected -> Registration \cup {None}]
     /\ seen[p] # None /\ seen[p].approval # "withdrawn" /\ seen[p].include
     /\ \A s \in found : seen[s] # None /\ seen[s].parent # p => seen[s].scope = seen[p].scope
     /\ found \cap AncestorsOf(sources, p) = {}

NotReady(s) == sources[s].status # "ready"
ProgressInv == worker # Idle =>
  /\ worker.pc \in {"skip", "read", "fail", "failjob"} \cup Reading => NotReady(worker.source)
  /\ worker.pc \in {"claim", "mark"} /\ ~Unchanged => NotReady(worker.source)

\* Notices: what is ready, or will be, is as new, or there is a job.
QueuedFor(s) == [source |-> s, status |-> "queued"] \in Range(jobs)
Starts(s) == worker.pc = "mark" /\ worker.source = s
EventsInv ==
  /\ \A e \in events : e[2] <= version[e[1]]
  /\ \A e \in events : sources[e[1]] # None /\ sources[e[1]].status = "ready" =>
       sources[e[1]].capture >= e[2] \/ QueuedFor(e[1]) \/ Starts(e[1])
  /\ worker.pc \in Reading =>
       \A e \in events : e[1] = worker.source =>
         worker.page.content >= e[2] \/ QueuedFor(e[1]) \/ ~Active(sources, e[1])

\* Reviews: what was read of one is what it says, or it will be read again.
Recorded(s) == recorder # Idle /\ recorder.pc = "queue" /\ recorder.source = s
TextInv ==
  /\ worker.pc = "claim" /\ worker.source \in Reviews =>
       \/ worker.copy.text = sources[worker.source].text
       \/ Recorded(worker.source) /\ chain = <<"worker", "recorder">>
  /\ worker.pc \in {"mark", "read"} \cup Reading /\ worker.source \in Reviews =>
       \/ worker.copy.text = sources[worker.source].text
       \/ QueuedFor(worker.source) \/ Recorded(worker.source) \/ ~Active(sources, worker.source)
  /\ worker.pc \in Reading /\ worker.source \in Reviews => worker.page.content = worker.copy.text
  /\ \A s \in Reviews : sources[s] # None /\ sources[s].status = "ready" =>
       \/ sources[s].capture = sources[s].text
       \/ QueuedFor(s) \/ Starts(s)
       \/ worker.pc = "close" /\ worker.source = s /\ Recorded(s) /\ chain = <<"recorder", "worker">>

\* A retrieval holds evidence of the context it has read.
AskInv == retriever.pc \in {"specs", "index", "indexing"} =>
  /\ retriever.evidence \subseteq captures
  /\ {e[1] : e \in retriever.evidence} \cup retriever.specs = {c[1] : c \in retriever.context}
  /\ \A e \in retriever.evidence : e[1] \notin Specs => \E c \in retriever.context : c[1] = e[1] /\ c[3] = e[2]

\* Who builds a dataset has the turn.
TurnInv ==
  /\ retriever.pc = "indexing" => indexer # None /\ worker.pc # "indexing"
  /\ indexer # None => retriever.pc = "indexing" \/ worker.pc = "indexing"

MemoryInv ==
  /\ StoreTypes /\ WorkTypes /\ JobsInv /\ ChainInv
  /\ PolicyInv /\ RecordInv
  /\ WorkInv /\ SeenInv /\ ProgressInv /\ ReadyIsCurrent /\ EventsInv /\ TextInv
  /\ AskInv /\ TurnInv

-----------------------------------------------------------------------------
(* What is below a page.                                                   *)

LEMMA BelowRegistered ==
  ASSUME NEW src, NEW p
  PROVE  SubpagesOf(src, p) \subseteq Registered(src) \ {p}
BY DEF SubpagesOf

LEMMA BelowIsClosed ==
  ASSUME NEW src, NEW p, NEW s \in Registered(src), s # p,
         src[s].parent \in SubpagesOf(src, p) \cup {p}
  PROVE  s \in SubpagesOf(src, p)
BY DEF SubpagesOf, Closed

LEMMA BelowIsLeast ==
  ASSUME NEW src, NEW p, NEW set, p \in set, Closed(src, set)
  PROVE  SubpagesOf(src, p) \subseteq set
<1> DEFINE part == set \cap (Registered(src) \cup {p})
<1>1. part \in SUBSET (Registered(src) \cup {p}) /\ p \in part /\ Closed(src, part)
  BY DEF Closed
<1> HIDE DEF part
<1>2. SubpagesOf(src, p) \subseteq part
  BY <1>1 DEF SubpagesOf
<1> QED
  BY <1>2 DEF part

LEMMA BelowHasParent ==
  ASSUME NEW src, NEW p, NEW s \in SubpagesOf(src, p)
  PROVE  src[s].parent \in SubpagesOf(src, p) \cup {p}
<1> SUFFICES ASSUME src[s].parent \notin SubpagesOf(src, p) \cup {p}
             PROVE  FALSE
  OBVIOUS
<1> DEFINE rest == (SubpagesOf(src, p) \cup {p}) \ {s}
<1>1. s # p
  BY BelowRegistered
<1>2. p \in rest
  BY <1>1
<1>3. Closed(src, rest)
  BY BelowIsClosed DEF Closed
<1>4. SubpagesOf(src, p) \subseteq rest
  BY <1>2, <1>3, BelowIsLeast
<1> QED
  BY <1>4

LEMMA BelowBelow ==
  ASSUME NEW src, NEW p, NEW q \in SubpagesOf(src, p) \cup {p}
  PROVE  SubpagesOf(src, q) \subseteq SubpagesOf(src, p) \cup {p}
<1>1. Closed(src, SubpagesOf(src, p) \cup {p})
  BY BelowIsClosed DEF Closed
<1> QED
  BY <1>1, BelowIsLeast

\* Only the parents matter.
LEMMA BelowSame ==
  ASSUME MemoryAssumption, NEW src, NEW after, NEW p \in Sources,
         \A s \in Registered(src) : after[s] # None /\ after[s].parent = src[s].parent,
         \A s \in Registered(after) \ Registered(src) : after[s].parent = None
  PROVE  SubpagesOf(after, p) = SubpagesOf(src, p)
<1> DEFINE before == SubpagesOf(src, p) \cup {p}
           now == SubpagesOf(after, p) \cup {p}
<1>1. Registered(src) \subseteq Registered(after) /\ Registered(after) \subseteq Sources /\ None \notin Sources
  BY DEF Registered, MemoryAssumption
<1>2. before \subseteq Sources /\ now \subseteq Sources
  BY <1>1, BelowRegistered
<1>3. Closed(after, before)
  BY <1>1, <1>2, BelowIsClosed DEF Closed
<1>4. Closed(src, now)
  BY <1>1, BelowIsClosed DEF Closed
<1>5. SubpagesOf(after, p) \subseteq before /\ SubpagesOf(src, p) \subseteq now
  BY <1>3, <1>4, BelowIsLeast
<1>6. p \notin SubpagesOf(after, p) /\ p \notin SubpagesOf(src, p)
  BY BelowRegistered
<1> QED
  BY <1>5, <1>6

-----------------------------------------------------------------------------
(* Records.                                                                *)

Approvals == {"draft", "approved", "withdrawn"}
LEMMA RegistrationParts ==
  ASSUME NEW r \in Registration
  PROVE  /\ r.parent \in Pages \cup {None} /\ r.approval \in Approvals /\ r.before \in {None, "draft", "approved"}
         /\ r.scope \in Scopes /\ r.include \in BOOLEAN /\ r.auto \in BOOLEAN
         /\ r.status \in {"pending", "syncing", "ready", "failed", "withdrawn"}
         /\ r.capture \in Nat \cup {None} /\ r.dataset \in Datasets \cup {None}
         /\ r.generation \in Nat \cup {None} /\ r.text \in Nat
BY DEF Registration, Approvals

LEMMA RegisteredParts ==
  ASSUME MemoryAssumption, NEW src, Typed(src), NEW s \in Sources
  PROVE  (src[s] # None) = (src[s] \in Registration)
BY DEF Typed, MemoryAssumption

LEMMA NewPageRecord ==
  /\ NewPage \in Registration
  /\ NewPage.parent = None /\ NewPage.before = None /\ NewPage.approval = "draft" /\ NewPage.status = "pending"
  /\ NewPage.text = 0
BY DEF NewPage, Registration, Scopes

LEMMA ExcludedRecord ==
  ASSUME NEW r \in Registration, NEW q, q = Excluded(r)
  PROVE  /\ q \in Registration
         /\ q.parent = r.parent /\ q.scope = r.scope /\ q.include = r.include /\ q.text = r.text
         /\ q.approval = "withdrawn"
         /\ r.approval = "withdrawn" => q = r
         /\ r.approval # "withdrawn" => q.status = "withdrawn"
<1>1. CASE r.approval = "withdrawn"
  BY <1>1 DEF Excluded
<1>2. CASE r.approval # "withdrawn"
  <2>1. q = [r EXCEPT !.before = r.approval, !.approval = "withdrawn", !.status = "withdrawn"]
    BY <1>2 DEF Excluded
  <2>2. r.approval \in {"draft", "approved"}
    BY <1>2, RegistrationParts DEF Approvals
  <2> QED
    BY <1>2, <2>1, <2>2 DEF Registration
<1> QED
  BY <1>1, <1>2

LEMMA InheritedRecord ==
  ASSUME NEW r \in Registration, NEW parent \in Registration, NEW approval \in Approvals,
         NEW q, q = Inherited(r, parent, approval)
  PROVE  /\ q \in Registration
         /\ q.parent = r.parent /\ q.before = r.before /\ q.text = r.text
         /\ q.scope = parent.scope /\ q.include /\ q.approval = approval /\ q.status = StatusFor(approval)
<1>1. StatusFor(approval) \in {"pending", "withdrawn"}
  BY DEF StatusFor
<1>2. parent.scope \in Scopes /\ parent.auto \in BOOLEAN
  BY RegistrationParts
<1> QED
  BY <1>1, <1>2 DEF Inherited, Registration, Approvals

LEMMA AdoptedRecord ==
  ASSUME NEW r \in Registration, NEW parent \in Registration, NEW p \in Pages, NEW q, q = Adopted(r, p, parent)
  PROVE  /\ q \in Registration
         /\ q.parent = p /\ q.before = None /\ q.text = r.text
         /\ q.scope = parent.scope /\ q.include /\ q.status = StatusFor(q.approval)
         /\ r.before = None /\ r.approval = "withdrawn" => q.approval = "withdrawn"
         /\ r.before = None /\ r.approval # "withdrawn" => q.approval # "withdrawn"
<1> DEFINE approval == Restore(r, parent.auto)
           i == Inherited(r, parent, approval)
           d == [i EXCEPT !.parent = p, !.before = None]
<1>1. approval \in Approvals
  BY RegistrationParts DEF Restore, Approvals
<1>2. /\ r.before = None /\ r.approval = "withdrawn" => approval = "withdrawn"
      /\ r.before = None /\ r.approval # "withdrawn" => approval # "withdrawn"
  BY DEF Restore
<1>3. q = d
  BY DEF Adopted
<1> HIDE DEF approval
<1>4. /\ i \in Registration /\ i.text = r.text
      /\ i.scope = parent.scope /\ i.include /\ i.approval = approval /\ i.status = StatusFor(approval)
  BY <1>1, InheritedRecord
<1> HIDE DEF i
<1>5. d \in Registration
  BY <1>4 DEF Registration
<1>6. /\ d.parent = p /\ d.before = None /\ d.text = i.text /\ d.scope = i.scope /\ d.include = i.include
      /\ d.status = i.status /\ d.approval = i.approval
  BY <1>4 DEF Registration
<1> HIDE DEF d
<1> QED
  BY <1>2, <1>3, <1>4, <1>5, <1>6

LEMMA AppliedRecord ==
  ASSUME MemoryAssumption, NEW r \in Registration, NEW policy \in Policies, NEW q, q = Apply(r, policy)
  PROVE  /\ q \in Registration
         /\ q.parent = r.parent /\ q.before = r.before /\ q.text = r.text
         /\ q.scope = policy.scope /\ q.include = policy.include /\ q.approval = policy.approval
         /\ q.status = StatusFor(policy.approval)
<1>1. policy.scope \in Scopes
  BY DEF Scopes
<1>2. policy.approval \in Approvals /\ policy.include \in BOOLEAN /\ policy.auto \in BOOLEAN
  BY DEF MemoryAssumption, Approvals
<1>3. StatusFor(policy.approval) \in {"pending", "withdrawn"}
  BY DEF StatusFor
<1> QED
  BY <1>1, <1>2, <1>3 DEF Apply, Registration, Approvals

-----------------------------------------------------------------------------
(* What an operation does to the registrations.                            *)

\* Nothing is lost, and what an edit changes has to be synchronized again.
Edited(src, after) ==
  \A s \in Sources :
    /\ src[s] # None => after[s] # None
    /\ after[s] # src[s] => after[s].status # "ready"

\* Of a source, its place in the tree and its policy.
SameText(src, after) == \A s \in Registered(src) : after[s].text = src[s].text

\* Nobody moves.
Still(src, after) ==
  /\ \A s \in Registered(src) : after[s] # None /\ after[s].parent = src[s].parent
  /\ \A s \in Registered(after) \ Registered(src) : after[s].parent = None

LEMMA SamePolicy ==
  ASSUME MemoryAssumption, NEW src, NEW after, TreeOf(src),
         \A s \in Sources : (after[s] # None) = (src[s] # None),
         \A s \in Registered(src) :
           /\ after[s].parent = src[s].parent /\ after[s].before = src[s].before
           /\ after[s].approval = src[s].approval /\ after[s].scope = src[s].scope /\ after[s].include = src[s].include
  PROVE  TreeOf(after) /\ (Agreed(src) => Agreed(after))
<1>1. Registered(after) = Registered(src)
  BY DEF Registered
<1>2. \A s \in Sources : SubpagesOf(after, s) = SubpagesOf(src, s)
  BY <1>1, BelowSame DEF Registered
<1>3. TreeOf(after)
  BY <1>1, <1>2 DEF TreeOf, Registered
<1>4. ASSUME Agreed(src)
      PROVE  Agreed(after)
  <2> SUFFICES ASSUME NEW s \in Pages, Active(after, s), after[s].parent # None
               PROVE  Active(after, after[s].parent) /\ after[after[s].parent].include
                        /\ SameScope(after, s, after[s].parent)
    BY DEF Agreed, InBranch
  <2>1. s \in Registered(src) /\ s \in Sources
    BY <1>1 DEF Active, Registered, MemoryAssumption
  <2>2. after[s].parent = src[s].parent /\ Active(src, s)
    BY <2>1 DEF Active, Registered
  <2>3. src[s].parent \in Registered(src)
    BY <2>1, <2>2 DEF TreeOf
  <2>4. Active(src, src[s].parent) /\ src[src[s].parent].include /\ SameScope(src, s, src[s].parent)
    BY <1>4, <2>2 DEF Agreed, InBranch
  <2> QED
    BY <1>1, <2>1, <2>2, <2>3, <2>4 DEF Active, SameScope, Registered
<1> QED
  BY <1>3, <1>4

LEMMA InheritOne ==
  ASSUME MemoryAssumption, NEW src, Typed(src), NEW p \in Pages, src[p] # None,
         NEW s \in Sources, NEW after, after = InheritSubpagePolicy(src, p)
  PROVE  /\ after[s] \in Registration \cup {None}
         /\ s \notin SubpagesOf(src, p) => after[s] = src[s]
         /\ s \in SubpagesOf(src, p) =>
              /\ after[s] \in Registration /\ after[s].parent = src[s].parent /\ after[s].text = src[s].text
              /\ after[s].before = src[s].before \/ after[s].approval = "withdrawn"
              /\ src[s].approval = "withdrawn" => after[s].approval = "withdrawn"
              /\ Out(src, s) => Out(after, s)
              /\ after[s] # src[s] => after[s].status # "ready"
              /\ after[s].approval # "withdrawn" =>
                   /\ src[s].approval # "withdrawn" /\ src[p].include /\ src[p].approval # "withdrawn"
              /\ src[s].approval # "withdrawn" /\ src[p].include /\ src[p].approval # "withdrawn" =>
                   after[s].approval # "withdrawn" /\ after[s].scope = src[p].scope /\ after[s].include
<1> DEFINE below == SubpagesOf(src, p)
<1>1. src[s] \in Registration \cup {None} /\ p \in Sources /\ src[p] \in Registration
  BY DEF Typed, MemoryAssumption
<1>2. s \in below => src[s] \in Registration
  BY BelowRegistered, RegisteredParts DEF Registered
<1>3. CASE ~src[p].include \/ src[p].approval = "withdrawn"
  <2>1. after[s] = IF s \in below THEN Excluded(src[s]) ELSE src[s]
    BY <1>3 DEF InheritSubpagePolicy, RemoveSubpages, Exclude
  <2> HIDE DEF below
  <2>2. CASE s \in below
    <3>1. after[s] = Excluded(src[s])
      BY <2>1, <2>2
    <3>2. /\ after[s] \in Registration /\ after[s].parent = src[s].parent /\ after[s].text = src[s].text
          /\ after[s].approval = "withdrawn"
          /\ src[s].approval = "withdrawn" => after[s] = src[s]
          /\ src[s].approval # "withdrawn" => after[s].status = "withdrawn"
      <4>1. PICK r \in Registration : r = src[s]
        BY <1>2, <2>2
      <4>2. after[s] = Excluded(r)
        BY <3>1, <4>1
      <4> QED
        BY <4>1, <4>2, ExcludedRecord
    <3> QED
      BY <1>3, <2>2, <3>2 DEF Out, below
  <2>3. CASE s \notin below
    BY <1>1, <2>1, <2>3 DEF below
  <2> QED
    BY <2>2, <2>3
<1>4. CASE src[p].include /\ src[p].approval # "withdrawn"
  <2> DEFINE approval == IF src[p].auto /\ src[s].approval = "draft" THEN "approved" ELSE src[s].approval
  <2>1. after[s] = IF s \notin below THEN src[s] ELSE Inherited(src[s], src[p], approval)
    BY <1>4 DEF InheritSubpagePolicy
  <2> HIDE DEF below
  <2>2. CASE s \in below
    <3>1. after[s] = Inherited(src[s], src[p], approval)
      BY <2>1, <2>2
    <3>2. approval \in Approvals /\ (approval = "withdrawn") = (src[s].approval = "withdrawn")
      BY <1>2, <2>2, RegistrationParts DEF Approvals
    <3> HIDE DEF approval
    <3>3. /\ after[s] \in Registration /\ after[s].parent = src[s].parent /\ after[s].text = src[s].text
          /\ after[s].before = src[s].before
          /\ after[s].scope = src[p].scope /\ after[s].include
          /\ after[s].approval = approval /\ after[s].status = StatusFor(approval)
      <4>1. src[s] \in Registration /\ src[p] \in Registration /\ approval \in Approvals
        BY <1>1, <1>2, <2>2, <3>2
      <4>2. PICK r \in Registration, parent \in Registration, a \in Approvals :
              r = src[s] /\ parent = src[p] /\ a = approval
        BY <4>1
      <4>3. after[s] = Inherited(r, parent, a)
        BY <3>1, <4>2
      <4>4. /\ after[s] \in Registration /\ after[s].parent = r.parent /\ after[s].text = r.text
            /\ after[s].before = r.before /\ after[s].scope = parent.scope /\ after[s].include
            /\ after[s].approval = a /\ after[s].status = StatusFor(a)
        BY <4>3, InheritedRecord
      <4> QED
        BY <4>2, <4>4
    <3>4. after[s] # None
      BY <3>3 DEF MemoryAssumption
    <3> QED
      BY <1>4, <2>2, <3>2, <3>3, <3>4 DEF Out, StatusFor, below
  <2>3. CASE s \notin below
    BY <1>1, <2>1, <2>3 DEF below
  <2> QED
    BY <2>2, <2>3
<1> QED
  BY <1>1, <1>3, <1>4, RegistrationParts

\* What is below an edited page is edited with it.
LEMMA InheritAll ==
  ASSUME MemoryAssumption, NEW src, Typed(src), TreeOf(src), NEW p \in Pages, src[p] # None,
         NEW q \in Registration, q.parent = src[p].parent, q.before = None, q.text = src[p].text, q.status # "ready",
         NEW edited, Typed(edited), edited[p] = q, \A s \in Sources \ {p} : edited[s] = src[s],
         NEW after, after = InheritSubpagePolicy(edited, p)
  PROVE  /\ Typed(after) /\ TreeOf(after) /\ Edited(src, after) /\ SameText(src, after) /\ Still(src, after)
         /\ Registered(after) = Registered(src)
         /\ after[p] = q
         /\ \A s \in Sources \ {p} : /\ Out(src, s) => Out(after, s)
                                     /\ Active(after, s) => Active(src, s)
         /\ Agreed(src) /\ InBranch(after, p) => Agreed(after)
<1> DEFINE below == SubpagesOf(src, p)
<1>1. src[p] \in Registration /\ p \in Sources
  BY DEF MemoryAssumption, Typed
<1>2. q # None
  BY DEF MemoryAssumption
<1>3. /\ Typed(edited) /\ edited[p] = q /\ \A s \in Sources \ {p} : edited[s] = src[s]
  OBVIOUS
<1>4. Registered(edited) = Registered(src)
  BY <1>2, <1>3 DEF Registered
<1>5. \A s \in Sources : SubpagesOf(edited, s) = SubpagesOf(src, s)
  BY <1>2, <1>3, <1>4, BelowSame DEF Registered
<1>6. below = SubpagesOf(edited, p) /\ p \notin below /\ below \subseteq Registered(src)
  BY <1>1, <1>5, BelowRegistered
<1> HIDE DEF below
<1>7. after[p] = q
  BY <1>1, <1>2, <1>3, <1>6, InheritOne
<1>8. \A s \in Sources \ (below \cup {p}) : after[s] = src[s]
  BY <1>2, <1>3, <1>6, InheritOne
<1>9. ASSUME NEW s \in below
      PROVE  /\ s # p /\ s \in Sources /\ src[s] # None
             /\ after[s] \in Registration /\ after[s].parent = src[s].parent /\ after[s].text = src[s].text
             /\ after[s].before = src[s].before \/ after[s].approval = "withdrawn"
             /\ src[s].approval = "withdrawn" => after[s].approval = "withdrawn"
             /\ Out(src, s) => Out(after, s)
             /\ after[s] # src[s] => after[s].status # "ready"
             /\ after[s].approval # "withdrawn" => src[s].approval # "withdrawn" /\ q.include /\ q.approval # "withdrawn"
             /\ src[s].approval # "withdrawn" /\ q.include /\ q.approval # "withdrawn" =>
                   after[s].approval # "withdrawn" /\ after[s].scope = q.scope /\ after[s].include
  <2>1. s # p /\ s \in Sources /\ src[s] # None
    BY <1>6, <1>9 DEF Registered
  <2>2. edited[s] = src[s] /\ Out(edited, s) = Out(src, s)
    BY <1>3, <2>1 DEF Out
  <2>3. edited[p] # None
    BY <1>2, <1>3
  <2> QED
    BY <1>3, <1>6, <1>9, <2>1, <2>2, <2>3, InheritOne
<1>10. Typed(after)
  <2>1. \A s \in Sources : after[s] \in Registration \cup {None}
    BY <1>2, <1>7, <1>8, <1>9 DEF Typed
  <2>2. after = [s \in Sources |-> after[s]]
    BY DEF InheritSubpagePolicy, RemoveSubpages, Exclude
  <2> QED
    BY <2>1, <2>2 DEF Typed
<1>11. Registered(after) = Registered(src)
  BY <1>1, <1>2, <1>7, <1>8, <1>9 DEF Registered, MemoryAssumption
<1>12. \A s \in Registered(src) : after[s].parent = src[s].parent
  BY <1>2, <1>7, <1>8, <1>9 DEF Registered
<1>13. \A s \in Sources : SubpagesOf(after, s) = SubpagesOf(src, s)
  BY <1>11, <1>12, BelowSame DEF Registered
<1>14. TreeOf(after)
  <2> SUFFICES ASSUME NEW s \in Registered(src)
               PROVE  /\ after[s].parent # None => s \in Pages /\ after[s].parent \in Registered(after) \ (SubpagesOf(after, s) \cup {s})
                      /\ after[s].before # None => after[s].parent # None /\ after[s].approval = "withdrawn"
    BY <1>11 DEF TreeOf
  <2>1. after[s].parent # None => s \in Pages /\ after[s].parent \in Registered(after) \ (SubpagesOf(after, s) \cup {s})
    BY <1>11, <1>12, <1>13 DEF TreeOf, Registered
  <2>2. after[s].before # None => after[s].parent # None /\ after[s].approval = "withdrawn"
    <3>1. CASE s = p
      BY <1>2, <1>7, <3>1
    <3>2. CASE s \in below
      <4>1. src[s].parent # None
        BY <1>6, <3>2, BelowHasParent, BelowRegistered DEF below, MemoryAssumption, Registered
      <4>2. src[s].before # None => src[s].approval = "withdrawn"
        BY DEF TreeOf
      <4> QED
        BY <1>9, <3>2, <4>1, <4>2
    <3>3. CASE s \notin below \cup {p}
      BY <1>8, <3>3 DEF TreeOf, Registered
    <3> QED
      BY <3>1, <3>2, <3>3
  <2> QED
    BY <2>1, <2>2
<1>15. Edited(src, after)
  BY <1>1, <1>2, <1>7, <1>8, <1>9, <1>11 DEF Edited, Registered
<1>16. SameText(src, after)
  BY <1>2, <1>7, <1>8, <1>9 DEF SameText, Registered
<1>17. \A s \in Sources \ {p} : (Out(src, s) => Out(after, s)) /\ (Active(after, s) => Active(src, s))
  BY <1>8, <1>9 DEF Out, Active
<1>18. ASSUME Agreed(src), InBranch(after, p)
       PROVE  Agreed(after)
  <2> SUFFICES ASSUME NEW s \in Pages, s # p, Active(after, s), after[s].parent # None
               PROVE  LET above == after[s].parent IN
                      Active(after, above) /\ after[above].include /\ SameScope(after, s, above)
    BY <1>18 DEF Agreed, InBranch
  <2> DEFINE above == after[s].parent
  <2>1. s \in Sources \ {p} /\ s \in Registered(src)
    BY <1>11 DEF MemoryAssumption, Registered, Active
  <2>2. Active(src, s) /\ above = src[s].parent /\ above \in Registered(src) /\ above \in Sources
    BY <1>12, <1>17, <2>1 DEF TreeOf, Registered
  <2>3. Active(src, above) /\ src[above].include /\ src[s].scope = src[above].scope
    BY <1>18, <2>2 DEF Agreed, InBranch, SameScope
  <2>4. after[above] # None
    BY <1>11, <2>2 DEF Registered
  <2>5. CASE s \in below
    <3>1. /\ q.include /\ q.approval # "withdrawn"
          /\ after[s].scope = q.scope
      BY <1>9, <2>2, <2>5 DEF Active
    <3>2. above \in below \cup {p}
      BY <2>2, <2>5, BelowHasParent DEF below
    <3>3. above \in below => after[above].approval # "withdrawn" /\ after[above].scope = q.scope /\ after[above].include
      BY <1>9, <2>3, <3>1 DEF Active
    <3> QED
      BY <1>7, <2>4, <3>1, <3>2, <3>3 DEF Active, SameScope
  <2>6. CASE s \notin below
    <3>1. above \notin below \cup {p}
      BY <2>1, <2>2, <2>6, BelowIsClosed DEF below
    <3>2. after[s] = src[s] /\ after[above] = src[above]
      BY <1>8, <2>1, <2>2, <2>6, <3>1
    <3> QED
      BY <2>3, <3>2 DEF Active, SameScope
  <2> QED
    BY <2>5, <2>6
<1>19. Still(src, after)
  BY <1>11, <1>12 DEF Still, Registered
<1> QED
  BY <1>7, <1>10, <1>11, <1>14, <1>15, <1>16, <1>17, <1>18, <1>19

\* update() of a page.
LEMMA UpdatePage ==
  ASSUME MemoryAssumption, NEW src, Typed(src), TreeOf(src), NEW p \in Pages, src[p] # None, src[p].before = None,
         NEW policy \in Policies, NEW q, q = Apply(src[p], policy),
         NEW edited, Typed(edited), edited[p] = q, \A s \in Sources \ {p} : edited[s] = src[s],
         NEW after, after = InheritSubpagePolicy(edited, p)
  PROVE  /\ Typed(after) /\ TreeOf(after) /\ Edited(src, after) /\ SameText(src, after) /\ Still(src, after)
         /\ Registered(after) = Registered(src)
         /\ after[p] # None /\ after[p].approval = policy.approval /\ after[p].status = StatusFor(policy.approval)
         /\ after[p].before = None
         /\ \A s \in Sources \ {p} : /\ Out(src, s) => Out(after, s)
                                     /\ Active(after, s) => Active(src, s)
         /\ Agreed(src) /\ InBranch(after, p) => Agreed(after)
<1>1. src[p] \in Registration
  BY DEF MemoryAssumption, Typed
<1>2. PICK r \in Registration : r = src[p]
  BY <1>1
<1>3. q = Apply(r, policy)
  BY <1>2
<1>4. /\ q \in Registration /\ q.parent = r.parent /\ q.before = r.before /\ q.text = r.text
      /\ q.approval = policy.approval /\ q.status = StatusFor(policy.approval)
  BY <1>3, AppliedRecord
<1>5. q.status # "ready" /\ q # None
  BY <1>4 DEF StatusFor, MemoryAssumption
<1>6. /\ q.parent = src[p].parent /\ q.before = None /\ q.text = src[p].text
  BY <1>2, <1>4
<1>7. /\ Typed(after) /\ TreeOf(after) /\ Edited(src, after) /\ SameText(src, after) /\ Still(src, after)
      /\ Registered(after) = Registered(src)
      /\ after[p] = q
      /\ \A s \in Sources \ {p} : /\ Out(src, s) => Out(after, s)
                                  /\ Active(after, s) => Active(src, s)
      /\ Agreed(src) /\ InBranch(after, p) => Agreed(after)
  BY <1>4, <1>5, <1>6, InheritAll
<1> QED
  BY <1>4, <1>5, <1>6, <1>7

-----------------------------------------------------------------------------
(* A discovery.                                                            *)

Gone(src, p, found) == {s \in Registered(src) : src[s].parent = p /\ s \notin found}
Outside(src, p, found) == Gone(src, p, found) \cup UNION {SubpagesOf(src, s) : s \in Gone(src, p, found)}

\* What makes a discovery fit what is registered.
Fits(src, p, found) ==
  /\ Active(src, p) /\ src[p].include
  /\ found \cap AncestorsOf(src, p) = {}
  /\ \A s \in found : src[s] # None /\ src[s].parent # p => src[s].scope = src[p].scope

\* With a page that is gone, everything below it is.
LEMMA OutsideIsClosed ==
  ASSUME MemoryAssumption, NEW src, TreeOf(src), NEW p \in Pages, NEW found \in SUBSET Pages, Fits(src, p, found)
  PROVE  /\ Outside(src, p, found) \subseteq Registered(src)
         /\ p \notin Outside(src, p, found) /\ p \notin found
         /\ \A s \in Registered(src) : src[s].parent \in Outside(src, p, found) => s \in Outside(src, p, found)
         /\ \A s \in Outside(src, p, found) : src[s].parent # None
<1> DEFINE gone == Gone(src, p, found)
           out == Outside(src, p, found)
<1>1. gone \subseteq Registered(src) /\ p \in Sources /\ p \in Registered(src)
  BY DEF Gone, Fits, Active, Registered, MemoryAssumption
<1>2. out \subseteq Registered(src)
  BY <1>1, BelowRegistered DEF Outside
<1>3. p \notin out
  <2>1. p \notin gone
    BY <1>1 DEF Gone, TreeOf, MemoryAssumption
  <2>2. \A g \in gone : p \notin SubpagesOf(src, g)
    BY <1>1 DEF Gone, TreeOf, MemoryAssumption
  <2> QED
    BY <2>1, <2>2 DEF Outside
<1>4. p \notin found
  BY DEF Fits, AncestorsOf
<1>5. ASSUME NEW s \in Registered(src), src[s].parent \in out
      PROVE  s \in out
  <2>1. PICK g \in gone : src[s].parent \in SubpagesOf(src, g) \cup {g}
    BY <1>5 DEF Outside
  <2>2. s \in SubpagesOf(src, g) \cup {g}
    BY <2>1, BelowIsClosed
  <2> QED
    BY <2>2 DEF Outside
<1>6. ASSUME NEW s \in out
      PROVE  src[s].parent # None
  <2>1. None \notin Sources /\ p # None
    BY <1>1 DEF MemoryAssumption
  <2>2. CASE s \in gone
    BY <2>1, <2>2 DEF Gone
  <2>3. CASE s \notin gone
    <3>1. PICK g \in gone : s \in SubpagesOf(src, g)
      BY <1>6, <2>3 DEF Outside
    <3>2. src[s].parent \in SubpagesOf(src, g) \cup {g}
      BY <3>1, BelowHasParent
    <3>3. src[s].parent \in Sources
      BY <1>1, <3>2, BelowRegistered DEF Registered
    <3> QED
      BY <2>1, <3>3
  <2> QED
    BY <2>2, <2>3
<1> QED
  BY <1>2, <1>3, <1>4, <1>5, <1>6

\* A discovery, source by source.
LEMMA ReconcileOne ==
  ASSUME MemoryAssumption, NEW src, Typed(src), TreeOf(src), NEW p \in Pages, NEW found \in SUBSET Pages,
         Fits(src, p, found), NEW after, after = Reconciled(src, p, found), NEW s \in Sources
  PROVE  /\ after[s] \in Registration \cup {None}
         /\ s \notin found \cup Outside(src, p, found) => after[s] = src[s]
         /\ s \in Outside(src, p, found) \ found =>
              /\ after[s] \in Registration
              /\ after[s].parent = src[s].parent /\ after[s].text = src[s].text /\ after[s].approval = "withdrawn"
              /\ (after[s] # src[s] => src[s].approval # "withdrawn" /\ after[s].status = "withdrawn")
         /\ s \in found =>
              /\ after[s] \in Registration
              /\ after[s].parent = p /\ after[s].before = None /\ after[s].scope = src[p].scope /\ after[s].include
              /\ after[s].status = StatusFor(after[s].approval)
              /\ src[s] # None => after[s].text = src[s].text
              /\ Out(src, s) => Out(after, s)
              /\ src[s] # None /\ src[s].approval # "withdrawn" /\ s \notin Outside(src, p, found) =>
                   after[s].approval # "withdrawn"
<1> DEFINE out == Outside(src, p, found)
           kept == [x \in Sources |-> IF x \in out THEN Excluded(src[x]) ELSE src[x]]
<1>1. p \in Sources /\ p \notin out /\ p \notin found /\ out \subseteq Registered(src)
  BY OutsideIsClosed DEF MemoryAssumption
<1>2. src[p] \in Registration
  BY <1>1 DEF Typed, Fits, Active
<1>3. after = [x \in Sources |-> IF x \notin found THEN kept[x]
                                 ELSE Adopted(IF kept[x] = None THEN NewPage ELSE kept[x], p, kept[p])]
  BY DEF Reconciled, Exclude, Outside, Gone
<1>4. kept[p] = src[p] /\ kept[s] = IF s \in out THEN Excluded(src[s]) ELSE src[s]
  BY <1>1
<1>5. after[s] = IF s \notin found THEN kept[s]
                 ELSE Adopted(IF kept[s] = None THEN NewPage ELSE kept[s], p, src[p])
  BY <1>3, <1>4
<1> HIDE DEF out, kept
<1>6. src[s] \in Registration \cup {None}
  BY DEF Typed
<1>7. s \in out => /\ src[s] \in Registration /\ kept[s] \in Registration
                   /\ kept[s].parent = src[s].parent /\ kept[s].text = src[s].text /\ kept[s].approval = "withdrawn"
                   /\ (kept[s] # src[s] => src[s].approval # "withdrawn" /\ kept[s].status = "withdrawn")
  <2> SUFFICES ASSUME s \in out
               PROVE  /\ src[s] \in Registration /\ kept[s] \in Registration
                      /\ kept[s].parent = src[s].parent /\ kept[s].text = src[s].text /\ kept[s].approval = "withdrawn"
                      /\ (kept[s] # src[s] => src[s].approval # "withdrawn" /\ kept[s].status = "withdrawn")
    OBVIOUS
  <2>1. src[s] \in Registration
    BY <1>1, <1>6 DEF Registered
  <2>2. PICK r \in Registration : r = src[s]
    BY <2>1
  <2>3. PICK q : q = kept[s]
    OBVIOUS
  <2>4. q = Excluded(r)
    BY <1>4, <2>2, <2>3
  <2>5. /\ q \in Registration
        /\ q.parent = r.parent /\ q.text = r.text /\ q.approval = "withdrawn"
        /\ r.approval = "withdrawn" => q = r
        /\ r.approval # "withdrawn" => q.status = "withdrawn"
    BY <2>4, ExcludedRecord
  <2> QED
    BY <2>2, <2>3, <2>5
<1>8. CASE s \notin found
  <2>1. after[s] = kept[s]
    BY <1>5, <1>8
  <2>2. s \notin out => kept[s] = src[s]
    BY <1>4
  <2> QED
    BY <1>6, <1>7, <1>8, <2>1, <2>2 DEF out
<1>9. CASE s \in found
  <2> DEFINE r == IF kept[s] = None THEN NewPage ELSE kept[s]
  <2>1. kept[s] \in Registration \cup {None}
    BY <1>4, <1>6, <1>7
  <2>2. r \in Registration
    BY <2>1, NewPageRecord
  <2>3. after[s] = Adopted(r, p, src[p])
    BY <1>5, <1>9
  <2>4. src[s] # None => kept[s] # None /\ r = kept[s]
    BY <1>4, <1>6, <1>7 DEF MemoryAssumption
  <2>5. src[s] # None => r.text = src[s].text
    BY <1>4, <1>6, <1>7, <2>4
  <2>6. Out(src, s) => r = src[s]
    BY <1>4, <1>7, <2>4 DEF Out
  <2>7. src[s] # None /\ src[s].approval # "withdrawn" /\ s \notin out => r.before = None /\ r.approval # "withdrawn"
    BY <1>4, <2>4 DEF TreeOf, Registered
  <2> HIDE DEF r
  <2>8. PICK parent \in Registration : parent = src[p]
    BY <1>2
  <2>9. after[s] = Adopted(r, p, parent)
    BY <2>3, <2>8
  <2>10. /\ after[s] \in Registration
         /\ after[s].parent = p /\ after[s].before = None /\ after[s].text = r.text
         /\ after[s].scope = parent.scope /\ after[s].include /\ after[s].status = StatusFor(after[s].approval)
         /\ r.before = None /\ r.approval = "withdrawn" => after[s].approval = "withdrawn"
         /\ r.before = None /\ r.approval # "withdrawn" => after[s].approval # "withdrawn"
    BY <2>2, <2>9, AdoptedRecord
  <2>11. Out(src, s) => Out(after, s)
    <3>1. after[s] # None
      BY <2>10 DEF MemoryAssumption
    <3> QED
      BY <2>6, <2>10, <3>1 DEF Out, StatusFor
  <2> QED
    BY <1>9, <2>5, <2>7, <2>8, <2>10, <2>11 DEF out
<1> QED
  BY <1>8, <1>9

LEMMA NobodyBelowUnknown ==
  ASSUME MemoryAssumption, NEW src, TreeOf(src), NEW f \in Sources, src[f] = None
  PROVE  SubpagesOf(src, f) = {}
<1>1. \A s \in Registered(src) : src[s].parent # f
  BY DEF TreeOf, Registered, MemoryAssumption
<1>2. Closed(src, {f})
  BY <1>1 DEF Closed
<1>3. SubpagesOf(src, f) \subseteq {f}
  BY <1>2, BelowIsLeast
<1> QED
  BY <1>3, BelowRegistered

\* The page is not below what it discovers.
LEMMA FoundIsBelow ==
  ASSUME MemoryAssumption, NEW src, TreeOf(src), NEW p \in Pages, NEW found \in SUBSET Pages,
         Fits(src, p, found), NEW f \in found
  PROVE  p \notin SubpagesOf(src, f) \cup {f}
<1>1. f \in Sources /\ f # p
  BY DEF MemoryAssumption, Fits, AncestorsOf
<1>2. CASE src[f] = None
  BY <1>1, <1>2, NobodyBelowUnknown
<1>3. CASE src[f] # None
  BY <1>1, <1>3 DEF Fits, AncestorsOf, Registered
<1> QED
  BY <1>2, <1>3

\* A discovery makes no cycle.
LEMMA ReconcileTree ==
  ASSUME MemoryAssumption, NEW src, TreeOf(src), NEW p \in Pages, NEW found \in SUBSET Pages, Fits(src, p, found),
         NEW after, Registered(after) = Registered(src) \cup found,
         \A s \in found : after[s].parent = p,
         \A s \in Registered(src) \ found : after[s].parent = src[s].parent,
         NEW s \in Registered(after), after[s].parent # None
  PROVE  s \in Pages /\ after[s].parent \in Registered(after) \ (SubpagesOf(after, s) \cup {s})
<1> DEFINE Branch(f) == SubpagesOf(src, f) \cup {f}
<1>1. \A f \in found : p \notin Branch(f)
  BY FoundIsBelow
<1>2. \A f : \A x \in Registered(src) : src[x].parent \in Branch(f) => x \in Branch(f)
  BY BelowIsClosed
<1>3. \A f : \A x \in Branch(f) : Branch(x) \subseteq Branch(f)
  BY BelowBelow
<1>4. p \in Registered(src)
  BY DEF Fits, Active, Registered, MemoryAssumption
<1>5. \A x \in Registered(after) : x \in found \/ x \in Registered(src) \ found
  OBVIOUS
<1>6. s \in Branch(s)
  OBVIOUS
<1>7. \A f \in found : f \in Registered(src) \/ Branch(f) = {f}
  BY NobodyBelowUnknown DEF Registered, MemoryAssumption
<1>8. \A f : SubpagesOf(src, f) \cup {f} = Branch(f)
  OBVIOUS
<1> HIDE DEF Branch
<1>9. CASE s \in found
  <2>1. after[s].parent = p /\ s # p
    BY <1>1, <1>6, <1>9
  <2>2. Closed(after, Branch(s))
    BY <1>1, <1>2, <1>5, <1>9 DEF Closed
  <2>3. SubpagesOf(after, s) \subseteq Branch(s)
    BY <1>6, <2>2, BelowIsLeast
  <2> QED
    BY <1>1, <1>4, <1>9, <2>1, <2>3
<1>10. CASE s \notin found
  <2> DEFINE above == src[s].parent
  <2>1. s \in Registered(src) /\ after[s].parent = above
    BY <1>10
  <2>2. s \in Pages /\ above \in Registered(src) /\ above \notin Branch(s)
    BY <2>1, <1>8 DEF TreeOf
  <2> HIDE DEF above
  <2>3. CASE p \notin Branch(s)
    <3>1. Closed(after, Branch(s))
      BY <1>2, <1>5, <2>3 DEF Closed
    <3>2. SubpagesOf(after, s) \subseteq Branch(s)
      BY <1>6, <3>1, BelowIsLeast
    <3> QED
      BY <1>6, <2>1, <2>2, <3>2
  <2>4. CASE p \in Branch(s)
    <3> DEFINE all == Branch(s) \cup UNION {Branch(f) : f \in found}
    <3>1. \A f \in found : f \in Branch(f)
      BY <1>8
    <3>2. Closed(after, all)
      BY <1>2, <1>5, <3>1 DEF Closed
    <3>3. s \in all
      BY <1>6
    <3>4. above \notin all
      <4> SUFFICES ASSUME NEW f \in found, above \in Branch(f)
                   PROVE  FALSE
        BY <2>2
      <4>1. s \in Branch(f)
        BY <1>2, <2>1 DEF above
      <4>2. p \in Branch(f)
        BY <1>3, <2>4, <4>1
      <4> QED
        BY <1>1, <4>2
    <3> HIDE DEF all
    <3>5. SubpagesOf(after, s) \subseteq all
      BY <3>2, <3>3, BelowIsLeast
    <3> QED
      BY <1>6, <2>1, <2>2, <3>4, <3>5
  <2> QED
    BY <2>3, <2>4
<1> QED
  BY <1>9, <1>10

\* What a discovery does.
LEMMA ReconcileBranch ==
  ASSUME MemoryAssumption, NEW src, Typed(src), TreeOf(src), NEW p \in Pages, NEW found \in SUBSET Pages,
         Fits(src, p, found), NEW after, after = Reconciled(src, p, found)
  PROVE  /\ Typed(after) /\ TreeOf(after) /\ Edited(src, after) /\ SameText(src, after)
         /\ Registered(after) = Registered(src) \cup found
         /\ p \notin found /\ after[p] = src[p]
         /\ \A s \in Sources : Out(src, s) => Out(after, s)
         /\ \A s \in Sources \ found : Active(after, s) => Active(src, s)
         /\ Agreed(src) => Agreed(after)
<1> DEFINE out == Outside(src, p, found)
<1>1. /\ out \subseteq Registered(src) /\ p \notin out /\ p \notin found /\ p \in Sources
      /\ \A s \in Registered(src) : src[s].parent \in out => s \in out
      /\ \A s \in out : src[s].parent # None
  BY OutsideIsClosed DEF MemoryAssumption
<1>2. ASSUME NEW s \in Sources \ (found \cup out)
      PROVE  after[s] = src[s]
  BY <1>2, ReconcileOne
<1>3. ASSUME NEW s \in out \ found
      PROVE  /\ s \in Sources /\ after[s] \in Registration
             /\ after[s].parent = src[s].parent /\ after[s].text = src[s].text /\ after[s].approval = "withdrawn"
             /\ after[s] # src[s] => src[s].approval # "withdrawn" /\ after[s].status = "withdrawn"
  <2>1. s \in Sources
    BY <1>1, <1>3 DEF Registered
  <2> QED
    BY <1>3, <2>1, ReconcileOne
<1>4. ASSUME NEW s \in found
      PROVE  /\ s \in Sources /\ after[s] \in Registration
             /\ after[s].parent = p /\ after[s].before = None /\ after[s].scope = src[p].scope /\ after[s].include
             /\ after[s].status = StatusFor(after[s].approval)
             /\ src[s] # None => after[s].text = src[s].text
             /\ Out(src, s) => Out(after, s)
             /\ src[s] # None /\ src[s].approval # "withdrawn" /\ s \notin out => after[s].approval # "withdrawn"
  <2>1. s \in Sources
    BY <1>4 DEF MemoryAssumption
  <2> QED
    BY <1>4, <2>1, ReconcileOne
<1> HIDE DEF out
<1>5. Typed(after)
  <2>1. \A s \in Sources : after[s] \in Registration \cup {None}
    BY ReconcileOne
  <2>2. after = [s \in Sources |-> after[s]]
    BY DEF Reconciled
  <2> QED
    BY <2>1, <2>2 DEF Typed
<1>6. None \notin Registration
  BY DEF MemoryAssumption
<1>7. Registered(after) = Registered(src) \cup found
  BY <1>1, <1>2, <1>3, <1>4, <1>6 DEF Registered
<1>8. after[p] = src[p]
  BY <1>1, <1>2
<1>9. \A s \in Registered(src) \ found : after[s].parent = src[s].parent
  BY <1>2, <1>3 DEF Registered
<1>10. TreeOf(after)
  <2>1. ASSUME NEW s \in Registered(after), after[s].parent # None
        PROVE  s \in Pages /\ after[s].parent \in Registered(after) \ (SubpagesOf(after, s) \cup {s})
    BY <1>4, <1>7, <1>9, <2>1, ReconcileTree
  <2>2. ASSUME NEW s \in Registered(after), after[s].before # None
        PROVE  after[s].parent # None /\ after[s].approval = "withdrawn"
    <3>1. s \in Registered(src) \ found /\ s \in Sources
      BY <1>4, <1>7, <2>2 DEF Registered
    <3>2. CASE s \in out
      BY <1>1, <1>3, <3>1, <3>2
    <3>3. CASE s \notin out
      BY <1>2, <2>2, <3>1, <3>3 DEF TreeOf
    <3> QED
      BY <3>2, <3>3
  <2> QED
    BY <2>1, <2>2 DEF TreeOf
<1>11. Edited(src, after)
  <2>1. \A s \in Sources : src[s] # None => after[s] # None
    BY <1>7 DEF Registered
  <2>2. ASSUME NEW s \in Sources, after[s] # src[s]
        PROVE  after[s].status # "ready"
    <3>1. CASE s \in found
      BY <1>4, <3>1 DEF StatusFor
    <3>2. CASE s \notin found
      BY <1>2, <1>3, <2>2, <3>2
    <3> QED
      BY <3>1, <3>2
  <2> QED
    BY <2>1, <2>2 DEF Edited
<1>12. SameText(src, after)
  BY <1>2, <1>3, <1>4 DEF SameText, Registered
<1>13. ASSUME NEW s \in Sources, Out(src, s)
       PROVE  Out(after, s)
  <2>1. CASE s \in found
    BY <1>4, <1>13, <2>1
  <2>2. CASE s \notin found
    <3>1. after[s] = src[s]
      BY <1>2, <1>3, <1>13, <2>2 DEF Out
    <3> QED
      BY <1>13, <3>1 DEF Out
  <2> QED
    BY <2>1, <2>2
<1>14. ASSUME NEW s \in Sources \ found, Active(after, s)
       PROVE  Active(src, s) /\ s \notin out /\ after[s] = src[s]
  <2>1. s \notin out
    BY <1>3, <1>14 DEF Active
  <2> QED
    BY <1>2, <1>14, <2>1 DEF Active
<1>15. ASSUME Agreed(src)
       PROVE  Agreed(after)
  <2> SUFFICES ASSUME NEW s \in Pages, Active(after, s), after[s].parent # None
               PROVE  Active(after, after[s].parent) /\ after[after[s].parent].include
                      /\ SameScope(after, s, after[s].parent)
    BY DEF Agreed, InBranch
  <2>1. Active(src, p) /\ src[p].include
    BY DEF Fits
  <2>2. CASE s \in found
    BY <1>4, <1>8, <2>1, <2>2 DEF Active, SameScope
  <2>3. CASE s \notin found
    <3> DEFINE above == src[s].parent
    <3>1. s \in Sources /\ Active(src, s) /\ s \notin out /\ after[s] = src[s] /\ s \in Registered(src)
      BY <1>14, <2>3 DEF MemoryAssumption, Active, Registered
    <3>2. above # None /\ above \in Registered(src) /\ above \in Sources /\ above \in Pages \cup {None}
      BY <3>1, RegistrationParts DEF TreeOf, Registered, Typed
    <3>3. Active(src, above) /\ src[above].include /\ src[s].scope = src[above].scope
      BY <1>15, <3>1, <3>2 DEF Agreed, InBranch, SameScope
    <3>4. above \notin out
      BY <1>1, <3>1
    <3>5. CASE above \notin found
      <4>1. after[above] = src[above]
        BY <1>2, <3>2, <3>4, <3>5
      <4> QED
        BY <3>1, <3>3, <4>1 DEF Active, SameScope
    <3>6. CASE above \in found
      <4>1. after[above] \in Registration /\ after[above].approval # "withdrawn" /\ after[above].include
            /\ after[above].scope = src[p].scope
        BY <1>4, <3>3, <3>4, <3>6 DEF Active
      <4>2. src[above].scope = src[p].scope
        <5>1. CASE src[above].parent = p
          <6>1. p # None
            BY <1>1 DEF MemoryAssumption
          <6> QED
            BY <1>15, <3>2, <3>3, <5>1, <6>1 DEF Agreed, InBranch, SameScope
        <5>2. CASE src[above].parent # p
          BY <3>3, <3>6, <5>2 DEF Fits, Active
        <5> QED
          BY <5>1, <5>2
      <4> QED
        BY <1>6, <3>1, <3>3, <4>1, <4>2 DEF Active, SameScope
    <3> QED
      BY <3>5, <3>6
  <2> QED
    BY <2>2, <2>3
<1> QED
  BY <1>1, <1>5, <1>7, <1>8, <1>10, <1>11, <1>12, <1>13, <1>14, <1>15

-----------------------------------------------------------------------------
(* The other operations on the registrations.                              *)

LEMMA StillTree ==
  ASSUME MemoryAssumption, NEW src, TreeOf(src), NEW after, Still(src, after),
         \A s \in Registered(after) : after[s].before # None =>
           s \in Registered(src) /\ src[s].before # None /\ after[s].approval = "withdrawn"
  PROVE  TreeOf(after)
<1>1. \A s \in Sources : SubpagesOf(after, s) = SubpagesOf(src, s)
  BY BelowSame DEF Still
<1>2. Registered(src) \subseteq Registered(after) /\ Registered(after) \subseteq Sources
  BY DEF Still, Registered
<1>3. ASSUME NEW s \in Registered(after), after[s].parent # None
      PROVE  s \in Pages /\ after[s].parent \in Registered(after) \ (SubpagesOf(after, s) \cup {s})
  <2>1. s \in Registered(src) /\ s \in Sources /\ after[s].parent = src[s].parent
    BY <1>2, <1>3 DEF Still
  <2>2. s \in Pages /\ src[s].parent \in Registered(src) \ (SubpagesOf(src, s) \cup {s})
    BY <1>3, <2>1 DEF TreeOf
  <2> QED
    BY <1>1, <1>2, <2>1, <2>2
<1>4. ASSUME NEW s \in Registered(after), after[s].before # None
      PROVE  after[s].parent # None /\ after[s].approval = "withdrawn"
  <2>1. s \in Registered(src) /\ src[s].before # None /\ after[s].approval = "withdrawn"
    BY <1>4
  <2>2. src[s].parent # None
    BY <2>1 DEF TreeOf
  <2> QED
    BY <2>1, <2>2 DEF Still
<1> QED
  BY <1>3, <1>4 DEF TreeOf

LEMMA SamePages ==
  ASSUME MemoryAssumption, NEW src, Typed(src), NEW after, \A s \in Pages : after[s] = src[s], Agreed(src)
  PROVE  Agreed(after)
<1> SUFFICES ASSUME NEW s \in Pages, Active(after, s), after[s].parent # None
             PROVE  Active(after, after[s].parent) /\ after[after[s].parent].include
                    /\ SameScope(after, s, after[s].parent)
  BY DEF Agreed, InBranch
<1>1. after[s] = src[s] /\ Active(src, s)
  BY DEF Active
<1>2. src[s].parent \in Pages
  BY <1>1, RegistrationParts DEF Active, Typed, MemoryAssumption
<1>3. Active(src, src[s].parent) /\ src[src[s].parent].include /\ SameScope(src, s, src[s].parent)
  BY <1>1, <1>2 DEF Agreed, InBranch, MemoryAssumption
<1> QED
  BY <1>1, <1>2, <1>3 DEF Active, SameScope

\* One registration is written.
LEMMA ReplaceOne ==
  ASSUME MemoryAssumption, NEW src, Typed(src), TreeOf(src), NEW p \in Sources, NEW r \in Registration,
         NEW after, after[p] = r, \A s \in Sources \ {p} : after[s] = src[s],
         src[p] = None => r.parent = None, src[p] # None => r.parent = src[p].parent,
         r.before # None => src[p] # None /\ src[p].before # None /\ r.approval = "withdrawn"
  PROVE  TreeOf(after) /\ Still(src, after)
<1>1. r # None
  BY DEF MemoryAssumption
<1>2. Registered(after) = Registered(src) \cup {p}
  BY <1>1 DEF Registered
<1>3. Still(src, after)
  BY <1>1, <1>2 DEF Still, Registered
<1>4. \A s \in Registered(after) : after[s].before # None =>
           s \in Registered(src) /\ src[s].before # None /\ after[s].approval = "withdrawn"
  <2> SUFFICES ASSUME NEW s \in Registered(after), after[s].before # None
               PROVE  s \in Registered(src) /\ src[s].before # None /\ after[s].approval = "withdrawn"
    OBVIOUS
  <2>1. CASE s = p
    BY <2>1 DEF Registered
  <2>2. CASE s # p
    BY <1>2, <2>2 DEF TreeOf, Registered
  <2> QED
    BY <2>1, <2>2
<1> QED
  BY <1>3, <1>4, StillTree

\* What synchronization writes leaves the policy alone.
LEMMA WriteOne ==
  ASSUME MemoryAssumption, NEW src, Typed(src), TreeOf(src), NEW p \in Sources, src[p] # None, NEW r \in Registration,
         NEW after, after[p] = r, \A s \in Sources \ {p} : after[s] = src[s],
         r.parent = src[p].parent, r.before = src[p].before, r.approval = src[p].approval,
         r.scope = src[p].scope, r.include = src[p].include
  PROVE  /\ TreeOf(after) /\ Still(src, after)
         /\ \A s \in Sources : Active(after, s) => Active(src, s)
         /\ Agreed(src) => Agreed(after)
<1>1. r # None
  BY DEF MemoryAssumption
<1>2. \A s \in Sources : (after[s] # None) = (src[s] # None)
  BY <1>1
<1>3. \A s \in Registered(src) :
        /\ after[s].parent = src[s].parent /\ after[s].before = src[s].before
        /\ after[s].approval = src[s].approval /\ after[s].scope = src[s].scope /\ after[s].include = src[s].include
  BY DEF Registered
<1>4. Registered(after) = Registered(src)
  BY <1>2 DEF Registered
<1>5. Still(src, after)
  BY <1>2, <1>3, <1>4 DEF Still, Registered
<1>6. TreeOf(after) /\ (Agreed(src) => Agreed(after))
  BY <1>2, <1>3, SamePolicy
<1>7. \A s \in Sources : Active(after, s) => Active(src, s)
  BY DEF Active
<1> QED
  BY <1>5, <1>6, <1>7

\* register()
LEMMA RegisterOne ==
  ASSUME MemoryAssumption, NEW src, Typed(src), TreeOf(src), NEW p \in Pages, src[p] = None, NEW policy \in Policies,
         NEW r, r = Apply(NewPage, policy),
         NEW after, after[p] = r, \A s \in Sources \ {p} : after[s] = src[s]
  PROVE  /\ r \in Registration /\ r.before = None
         /\ r.approval = policy.approval /\ r.status = StatusFor(policy.approval)
         /\ TreeOf(after) /\ Still(src, after)
         /\ Edited(src, after) /\ SameText(src, after)
         /\ Agreed(src) => Agreed(after)
<1>1. p \in Sources
  BY DEF MemoryAssumption
<1>2. /\ r \in Registration /\ r.parent = None /\ r.before = None
      /\ r.approval = policy.approval /\ r.status = StatusFor(policy.approval)
  BY NewPageRecord, AppliedRecord
<1>3. TreeOf(after) /\ Still(src, after)
  BY <1>1, <1>2, ReplaceOne
<1>4. Edited(src, after)
  BY <1>2 DEF Edited, StatusFor, MemoryAssumption
<1>5. SameText(src, after)
  BY DEF SameText, Registered
<1>6. ASSUME Agreed(src)
      PROVE  Agreed(after)
  <2> SUFFICES ASSUME NEW s \in Pages, Active(after, s), after[s].parent # None
               PROVE  Active(after, after[s].parent) /\ after[after[s].parent].include
                      /\ SameScope(after, s, after[s].parent)
    BY DEF Agreed, InBranch
  <2>1. s # p /\ s \in Sources /\ after[s] = src[s] /\ Active(src, s) /\ s \in Registered(src)
    BY <1>2 DEF MemoryAssumption, Active, Registered
  <2>2. src[s].parent \in Registered(src) /\ src[s].parent \in Sources /\ src[s].parent # p
    BY <2>1 DEF TreeOf, Registered
  <2>3. Active(src, src[s].parent) /\ src[src[s].parent].include /\ SameScope(src, s, src[s].parent)
    BY <1>6, <2>1 DEF Agreed, InBranch
  <2> QED
    BY <2>1, <2>2, <2>3 DEF Active, SameScope
<1> QED
  BY <1>2, <1>3, <1>4, <1>5, <1>6

\* update() of a source that is not a page.
LEMMA UpdateOther ==
  ASSUME MemoryAssumption, NEW src, Typed(src), TreeOf(src), NEW p \in Sources \ Pages, src[p] # None,
         NEW policy \in Policies, NEW r, r = Apply(src[p], policy),
         NEW after, after[p] = r, \A s \in Sources \ {p} : after[s] = src[s]
  PROVE  /\ r \in Registration /\ r.before = None
         /\ r.approval = policy.approval /\ r.status = StatusFor(policy.approval)
         /\ TreeOf(after) /\ Still(src, after)
         /\ Edited(src, after) /\ SameText(src, after)
         /\ Agreed(src) => Agreed(after)
<1>1. src[p] \in Registration
  BY DEF Typed
<1>2. src[p].parent = None /\ src[p].before = None
  BY DEF TreeOf, Registered
<1>3. PICK q \in Registration : q = src[p]
  BY <1>1
<1>4. r = Apply(q, policy)
  BY <1>3
<1>5. /\ r \in Registration /\ r.parent = q.parent /\ r.before = q.before /\ r.text = q.text
      /\ r.approval = policy.approval /\ r.status = StatusFor(policy.approval)
  BY <1>4, AppliedRecord
<1>6. r.parent = src[p].parent /\ r.before = None /\ r.text = src[p].text
  BY <1>2, <1>3, <1>5
<1>7. TreeOf(after) /\ Still(src, after)
  BY <1>5, <1>6, ReplaceOne
<1>8. Edited(src, after)
  BY <1>5 DEF Edited, StatusFor, MemoryAssumption
<1>9. SameText(src, after)
  BY <1>6 DEF SameText, Registered
<1>10. Agreed(src) => Agreed(after)
  <2>1. \A s \in Pages : after[s] = src[s]
    BY DEF MemoryAssumption
  <2> QED
    BY <2>1, SamePages
<1> QED
  BY <1>5, <1>6, <1>7, <1>8, <1>9, <1>10

\* recordReview()
LEMMA RecordOne ==
  ASSUME MemoryAssumption, NEW src, Typed(src), TreeOf(src), NEW p \in Reviews, NEW r \in Registration,
         r.parent = None, r.before = None, r.status = "pending",
         NEW after, after[p] = r, \A s \in Sources \ {p} : after[s] = src[s]
  PROVE  /\ TreeOf(after) /\ Still(src, after) /\ Edited(src, after)
         /\ Agreed(src) => Agreed(after)
<1>1. p \in Sources /\ p \notin Pages
  BY DEF MemoryAssumption
<1>2. src[p] # None => src[p].parent = None
  BY <1>1 DEF TreeOf, Registered
<1>3. TreeOf(after) /\ Still(src, after)
  BY <1>1, <1>2, ReplaceOne
<1>4. Edited(src, after)
  BY DEF Edited, MemoryAssumption
<1>5. Agreed(src) => Agreed(after)
  <2>1. \A s \in Pages : after[s] = src[s]
    BY <1>1 DEF MemoryAssumption
  <2> QED
    BY <2>1, SamePages
<1> QED
  BY <1>3, <1>4, <1>5

\* approveSubpages()
Promoted(r) == [r EXCEPT !.approval = "approved", !.status = "pending"]

LEMMA PromotedRecord ==
  ASSUME NEW r \in Registration, NEW q, q = Promoted(r)
  PROVE  /\ q \in Registration
         /\ q.parent = r.parent /\ q.before = r.before /\ q.scope = r.scope /\ q.include = r.include
         /\ q.text = r.text /\ q.approval = "approved" /\ q.status = "pending"
BY DEF Promoted, Registration

LEMMA PromotedIn ==
  ASSUME MemoryAssumption, NEW src, Typed(src), NEW p \in Registered(src), NEW q, q = Promoted(src[p])
  PROVE  /\ q \in Registration /\ q # None
         /\ q.parent = src[p].parent /\ q.before = src[p].before /\ q.scope = src[p].scope
         /\ q.include = src[p].include
         /\ q.text = src[p].text /\ q.approval = "approved" /\ q.status = "pending"
<1>1. PICK r \in Registration : r = src[p]
  BY DEF Registered, Typed
<1>2. q = Promoted(r)
  BY <1>1
<1>3. /\ q \in Registration
      /\ q.parent = r.parent /\ q.before = r.before /\ q.scope = r.scope /\ q.include = r.include
      /\ q.text = r.text /\ q.approval = "approved" /\ q.status = "pending"
  BY <1>2, PromotedRecord
<1> QED
  BY <1>1, <1>3 DEF MemoryAssumption

LEMMA ApproveDrafts ==
  ASSUME MemoryAssumption, NEW src, Typed(src), TreeOf(src), NEW drafts \in SUBSET Registered(src),
         \A s \in drafts : src[s].approval = "draft",
         NEW after, Typed(after),
         \A s \in Sources \ drafts : after[s] = src[s],
         \A s \in drafts : after[s] = Promoted(src[s])
  PROVE  /\ TreeOf(after) /\ Still(src, after) /\ Edited(src, after) /\ SameText(src, after)
         /\ Registered(after) = Registered(src)
         /\ \A s \in Sources : (Active(after, s) => Active(src, s)) /\ (Out(src, s) => Out(after, s))
         /\ Agreed(src) => Agreed(after)
<1>1. \A s \in drafts :
        /\ s \in Sources /\ src[s] # None /\ after[s] \in Registration /\ after[s] # None
        /\ after[s].parent = src[s].parent /\ after[s].before = src[s].before /\ after[s].scope = src[s].scope
        /\ after[s].include = src[s].include /\ after[s].text = src[s].text
        /\ after[s].approval = "approved" /\ after[s].status = "pending"
        /\ src[s].before = None
  <2> SUFFICES ASSUME NEW s \in drafts
               PROVE  /\ s \in Sources /\ src[s] # None /\ after[s] \in Registration /\ after[s] # None
                      /\ after[s].parent = src[s].parent /\ after[s].before = src[s].before
                      /\ after[s].scope = src[s].scope
                      /\ after[s].include = src[s].include /\ after[s].text = src[s].text
                      /\ after[s].approval = "approved" /\ after[s].status = "pending"
                      /\ src[s].before = None
    OBVIOUS
  <2>1. s \in Registered(src) /\ s \in Sources /\ src[s] # None
    BY DEF Registered
  <2>2. src[s].before = None
    BY <2>1 DEF TreeOf
  <2> QED
    BY <2>1, <2>2, PromotedIn
<1>2. Registered(after) = Registered(src)
  BY <1>1 DEF Registered
<1>3. Still(src, after)
  BY <1>1, <1>2 DEF Still, Registered
<1>4. TreeOf(after)
  <2>1. \A s \in Registered(after) : after[s].before # None =>
           s \in Registered(src) /\ src[s].before # None /\ after[s].approval = "withdrawn"
    BY <1>1, <1>2 DEF TreeOf, Registered
  <2> QED
    BY <1>3, <2>1, StillTree
<1>5. Edited(src, after) /\ SameText(src, after)
  BY <1>1, <1>2 DEF Edited, SameText, Registered
<1>6. \A s \in Sources : (Active(after, s) => Active(src, s)) /\ (Out(src, s) => Out(after, s))
  BY <1>1 DEF Active, Out
<1>7. ASSUME Agreed(src)
      PROVE  Agreed(after)
  <2> SUFFICES ASSUME NEW s \in Pages, Active(after, s), after[s].parent # None
               PROVE  Active(after, after[s].parent) /\ after[after[s].parent].include
                      /\ SameScope(after, s, after[s].parent)
    BY DEF Agreed, InBranch
  <2> DEFINE above == src[s].parent
  <2>1. s \in Sources /\ Active(src, s) /\ after[s].parent = above /\ s \in Registered(src)
    BY <1>1, <1>6 DEF MemoryAssumption, Active, Registered
  <2>2. above \in Sources /\ above \in Registered(src)
    BY <2>1 DEF TreeOf, Registered
  <2>3. Active(src, above) /\ src[above].include /\ src[s].scope = src[above].scope
    BY <1>7, <2>1 DEF Agreed, InBranch, SameScope
  <2> HIDE DEF above
  <2>4. /\ after[above] # None /\ after[above].approval # "withdrawn"
        /\ after[above].include = src[above].include /\ after[above].scope = src[above].scope
    BY <1>1, <2>2, <2>3 DEF Active
  <2>5. after[s].scope = src[s].scope
    BY <1>1, <2>1
  <2> QED
    BY <2>1, <2>3, <2>4, <2>5 DEF Active, SameScope
<1> QED
  BY <1>2, <1>3, <1>4, <1>5, <1>6, <1>7

\* registerProjects()
DroppedFrom(r) == [r EXCEPT !.approval = "withdrawn", !.status = "withdrawn"]

LEMMA DroppedRecord ==
  ASSUME NEW r \in Registration, NEW q, q = DroppedFrom(r)
  PROVE  /\ q \in Registration
         /\ q.parent = r.parent /\ q.before = r.before /\ q.text = r.text
         /\ q.approval = "withdrawn" /\ q.status = "withdrawn"
BY DEF DroppedFrom, Registration

LEMMA NewSpecRecord ==
  /\ NewSpec \in Registration
  /\ NewSpec.parent = None /\ NewSpec.before = None /\ NewSpec.approval = "approved" /\ NewSpec.status = "pending"
BY NewPageRecord DEF NewSpec, Registration, Scopes

LEMMA ListedSpecs ==
  ASSUME MemoryAssumption, NEW src, Typed(src), TreeOf(src), NEW listed \in SUBSET Specs,
         NEW after, after = WithSpecs(src, listed)
  PROVE  /\ Typed(after) /\ TreeOf(after) /\ Still(src, after) /\ Edited(src, after) /\ SameText(src, after)
         /\ \A s \in Sources \ Specs : after[s] = src[s]
         /\ \A s \in Registered(src) : Active(after, s) => Active(src, s)
         /\ \A s \in Sources : Out(src, s) => Out(after, s)
         /\ Agreed(src) => Agreed(after)
<1>1. PICK now : now = after
  OBVIOUS
<1>2. /\ now = [s \in Sources |-> now[s]]
      /\ \A s \in Sources : now[s] =
           IF s \in listed /\ src[s] = None THEN NewSpec
           ELSE IF s \in Specs \ listed /\ Active(src, s) THEN DroppedFrom(src[s])
           ELSE src[s]
  BY <1>1 DEF WithSpecs, DroppedFrom
<1>3. SUFFICES /\ Typed(now) /\ TreeOf(now) /\ Still(src, now) /\ Edited(src, now) /\ SameText(src, now)
               /\ \A s \in Sources \ Specs : now[s] = src[s]
               /\ \A s \in Registered(src) : Active(now, s) => Active(src, s)
               /\ \A s \in Sources : Out(src, s) => Out(now, s)
               /\ Agreed(src) => Agreed(now)
  BY <1>1
<1>4. ASSUME NEW s \in Sources
      PROVE  \/ now[s] = src[s]
             \/ src[s] = None /\ s \in Specs /\ now[s] = NewSpec
             \/ /\ src[s] # None /\ src[s].approval # "withdrawn" /\ s \in Specs
                /\ now[s] \in Registration /\ now[s].parent = src[s].parent /\ now[s].before = src[s].before
                /\ now[s].text = src[s].text
                /\ now[s].approval = "withdrawn" /\ now[s].status = "withdrawn"
  <2>1. CASE s \in listed /\ src[s] = None
    BY <1>2, <2>1
  <2>2. CASE ~(s \in listed /\ src[s] = None) /\ s \in Specs \ listed /\ Active(src, s)
    <3>1. PICK r \in Registration : r = src[s]
      BY <2>2 DEF Active, Typed
    <3>2. PICK q : q = DroppedFrom(r)
      OBVIOUS
    <3>3. now[s] = q
      BY <1>2, <2>2, <3>1, <3>2
    <3>4. /\ q \in Registration
          /\ q.parent = r.parent /\ q.before = r.before /\ q.text = r.text
          /\ q.approval = "withdrawn" /\ q.status = "withdrawn"
      BY <3>2, DroppedRecord
    <3> QED
      BY <2>2, <3>1, <3>3, <3>4 DEF Active
  <2>3. CASE ~(s \in listed /\ src[s] = None) /\ ~(s \in Specs \ listed /\ Active(src, s))
    BY <1>2, <2>3
  <2> QED
    BY <2>1, <2>2, <2>3
<1>5. None \notin Registration
  BY DEF MemoryAssumption
<1>6. Typed(now)
  <2>1. \A s \in Sources : now[s] \in Registration \cup {None}
    BY <1>4, NewSpecRecord DEF Typed
  <2> QED
    BY <1>2, <2>1 DEF Typed
<1>7. \A s \in Sources : src[s] # None => now[s] # None /\ now[s].parent = src[s].parent /\ now[s].before = src[s].before
  BY <1>4, <1>5
<1>8. \A s \in Sources : src[s] = None /\ now[s] # None => s \in Specs /\ now[s] = NewSpec
  BY <1>4
<1>9. Still(src, now)
  BY <1>7, <1>8, NewSpecRecord DEF Still, Registered
<1>10. TreeOf(now)
  <2>1. ASSUME NEW s \in Registered(now), now[s].before # None
        PROVE  s \in Registered(src) /\ src[s].before # None /\ now[s].approval = "withdrawn"
    <3>1. s \in Sources /\ src[s] # None /\ src[s].before # None
      BY <1>7, <1>8, <2>1, NewSpecRecord DEF Registered
    <3>2. src[s].approval = "withdrawn"
      BY <3>1 DEF TreeOf, Registered
    <3> QED
      BY <1>4, <3>1, <3>2 DEF Registered
  <2> QED
    BY <1>9, <2>1, StillTree
<1>11. Edited(src, now)
  BY <1>4, <1>7, NewSpecRecord DEF Edited
<1>12. SameText(src, now)
  BY <1>4 DEF SameText, Registered
<1>13. \A s \in Sources \ Specs : now[s] = src[s]
  BY <1>4
<1>14. \A s \in Registered(src) : Active(now, s) => Active(src, s)
  BY <1>4 DEF Active, Registered
<1>15. \A s \in Sources : Out(src, s) => Out(now, s)
  BY <1>4 DEF Out
<1>16. Agreed(src) => Agreed(now)
  <2>1. \A s \in Pages : now[s] = src[s]
    BY <1>13 DEF MemoryAssumption
  <2> QED
    BY <2>1, SamePages
<1> QED
  BY <1>6, <1>9, <1>10, <1>11, <1>12, <1>13, <1>14, <1>15, <1>16

\* MemoryService.init()
LEMMA OutdatedSources ==
  ASSUME MemoryAssumption, NEW src, Typed(src), TreeOf(src), NEW current, NEW after, after = Outdated(src, current)
  PROVE  /\ Typed(after) /\ TreeOf(after) /\ Edited(src, after) /\ SameText(src, after)
         /\ Registered(after) = Registered(src)
         /\ \A s \in Sources : (Active(after, s) => Active(src, s)) /\ (Out(src, s) => Out(after, s))
         /\ Agreed(src) => Agreed(after)
<1> DEFINE Late(r) == [r EXCEPT !.status = "pending"]
<1>1. PICK now : now = after
  OBVIOUS
<1>2. /\ now = [s \in Sources |-> now[s]]
      /\ \A s \in Sources : now[s] = src[s] \/ (src[s] # None /\ src[s].approval = "approved" /\ now[s] = Late(src[s]))
  BY <1>1 DEF Outdated
<1>3. SUFFICES /\ Typed(now) /\ TreeOf(now) /\ Edited(src, now) /\ SameText(src, now)
               /\ Registered(now) = Registered(src)
               /\ \A s \in Sources : (Active(now, s) => Active(src, s)) /\ (Out(src, s) => Out(now, s))
               /\ Agreed(src) => Agreed(now)
  BY <1>1
<1>4. ASSUME NEW r \in Registration, NEW q, q = Late(r)
      PROVE  /\ q \in Registration
             /\ q.parent = r.parent /\ q.before = r.before /\ q.scope = r.scope /\ q.include = r.include
             /\ q.text = r.text /\ q.approval = r.approval /\ q.status = "pending"
  BY <1>4 DEF Registration
<1> HIDE DEF Late
<1>5. ASSUME NEW s \in Sources
      PROVE  \/ now[s] = src[s]
             \/ /\ src[s] # None /\ src[s].approval = "approved"
                /\ now[s] \in Registration
                /\ now[s].parent = src[s].parent /\ now[s].before = src[s].before /\ now[s].scope = src[s].scope
                /\ now[s].include = src[s].include
                /\ now[s].text = src[s].text /\ now[s].approval = src[s].approval /\ now[s].status = "pending"
  <2> SUFFICES ASSUME src[s] # None /\ src[s].approval = "approved" /\ now[s] = Late(src[s])
               PROVE  /\ src[s] # None /\ src[s].approval = "approved"
                      /\ now[s] \in Registration
                      /\ now[s].parent = src[s].parent /\ now[s].before = src[s].before /\ now[s].scope = src[s].scope
                      /\ now[s].include = src[s].include
                      /\ now[s].text = src[s].text /\ now[s].approval = src[s].approval /\ now[s].status = "pending"
    BY <1>2
  <2>1. PICK r \in Registration : r = src[s]
    BY DEF Typed
  <2>2. PICK q : q = Late(r)
    OBVIOUS
  <2>3. now[s] = q
    BY <2>1, <2>2
  <2>4. /\ q \in Registration
        /\ q.parent = r.parent /\ q.before = r.before /\ q.scope = r.scope /\ q.include = r.include
        /\ q.text = r.text /\ q.approval = r.approval /\ q.status = "pending"
    BY <1>4, <2>2
  <2> QED
    BY <2>1, <2>3, <2>4
<1>6. None \notin Registration
  BY DEF MemoryAssumption
<1>7. Typed(now)
  <2>1. \A s \in Sources : now[s] \in Registration \cup {None}
    BY <1>5 DEF Typed
  <2> QED
    BY <1>2, <2>1 DEF Typed
<1>8. \A s \in Sources : (now[s] # None) = (src[s] # None)
  BY <1>5, <1>6
<1>9. \A s \in Registered(src) :
        /\ now[s].parent = src[s].parent /\ now[s].before = src[s].before
        /\ now[s].approval = src[s].approval /\ now[s].scope = src[s].scope /\ now[s].include = src[s].include
  BY <1>5 DEF Registered
<1>10. TreeOf(now) /\ (Agreed(src) => Agreed(now))
  BY <1>8, <1>9, SamePolicy
<1>11. Edited(src, now) /\ SameText(src, now) /\ Registered(now) = Registered(src)
  BY <1>5, <1>8 DEF Edited, SameText, Registered
<1>12. \A s \in Sources : (Active(now, s) => Active(src, s)) /\ (Out(src, s) => Out(now, s))
  BY <1>5, <1>6 DEF Active, Out
<1> QED
  BY <1>7, <1>10, <1>11, <1>12

-----------------------------------------------------------------------------
(* The queue.                                                              *)

Asked(s) == [source |-> s, status |-> "queued"]

\* Jobs of registrations were added.
Grown(q, after, src) ==
  /\ Len(q) <= Len(after)
  /\ \A i \in 1..Len(q) : after[i] = q[i]
  /\ \A i \in (Len(q) + 1)..Len(after) : after[i].status = "queued" /\ src[after[i].source] # None

LEMMA SameGrown ==
  ASSUME NEW q \in Seq(Jobs), NEW src
  PROVE  Grown(q, q, src)
BY DEF Grown

LEMMA QueueGrows ==
  ASSUME NEW q \in Seq(Jobs), NEW src, NEW s \in Sources, NEW after, after = Queue(q, src, s)
  PROVE  /\ after \in Seq(Jobs) /\ Grown(q, after, src)
         /\ Active(src, s) => Asked(s) \in Range(after)
<1>1. Asked(s) \in Jobs
  BY DEF Asked, Jobs
<1>2. CASE ~Active(src, s) \/ Asked(s) \in Range(q)
  <2>1. after = q
    BY <1>2 DEF Queue, Asked
  <2> QED
    BY <1>2, <2>1, SameGrown
<1>3. CASE Active(src, s) /\ Asked(s) \notin Range(q)
  <2>1. after = Append(q, Asked(s))
    BY <1>3 DEF Queue, Asked
  <2>2. after \in Seq(Jobs) /\ Len(after) = Len(q) + 1
    BY <1>1, <2>1
  <2>3. \A i \in 1..Len(q) : after[i] = q[i]
    BY <1>1, <2>1
  <2>4. after[Len(q) + 1] = Asked(s)
    BY <1>1, <2>1
  <2>5. Asked(s).status = "queued" /\ Asked(s).source = s /\ src[s] # None
    BY <1>3 DEF Asked, Active
  <2>6. Len(q) \in Nat
    OBVIOUS
  <2>7. Grown(q, after, src)
    <3>1. \A i \in (Len(q) + 1)..Len(after) : i = Len(q) + 1
      BY <2>2, <2>6
    <3>2. Len(q) <= Len(after)
      BY <2>2, <2>6
    <3> QED
      BY <2>3, <2>4, <2>5, <3>1, <3>2 DEF Grown
  <2>8. Asked(s) \in Range(after)
    BY <2>2, <2>4, <2>6 DEF Range
  <2> QED
    BY <2>2, <2>7, <2>8
<1> QED
  BY <1>2, <1>3

LEMMA ListedType ==
  ASSUME NEW set, IsFiniteSet(set)
  PROVE  /\ Cardinality(set) \in Nat
         /\ Listed(set) \in [1..Cardinality(set) -> set]
<1>1. Cardinality(set) \in Nat /\ ExistsBijection(1..Cardinality(set), set)
  BY FS_CardinalityType
<1>2. PICK order \in [1..Cardinality(set) -> set] : \A x \in set : \E i \in 1..Cardinality(set) : order[i] = x
  BY <1>1 DEF ExistsBijection, Bijection, Surjection
<1>3. Range(order) = set
  BY <1>2 DEF Range
<1> QED
  BY <1>1, <1>2, <1>3 DEF Listed

LEMMA QueueAllGrows ==
  ASSUME MemoryAssumption, NEW q \in Seq(Jobs), NEW src, NEW set \in SUBSET Sources,
         NEW after, after = QueueAll(q, src, set)
  PROVE  after \in Seq(Jobs) /\ Grown(q, after, src)
<1> DEFINE new == {s \in set : Active(src, s) /\ [source |-> s, status |-> "queued"] \notin Range(q)}
           n == Cardinality(new)
           order == Listed(new)
           more == [i \in 1..n |-> [source |-> order[i], status |-> "queued"]]
<1>1. new \subseteq Sources /\ IsFiniteSet(new) /\ \A s \in new : src[s] # None
  BY FS_Subset DEF MemoryAssumption, Active
<1>2. after = q \o more
  BY DEF QueueAll
<1> HIDE DEF new
<1>3. n \in Nat /\ order \in [1..n -> new]
  BY <1>1, ListedType
<1> HIDE DEF n, order
<1>4. \A i \in 1..n : more[i] \in Jobs /\ more[i].status = "queued" /\ src[more[i].source] # None
  BY <1>1, <1>3 DEF Jobs
<1>5. more \in Seq(Jobs) /\ Len(more) = n
  BY <1>3, <1>4
<1> HIDE DEF more
<1>6. Len(q) \in Nat
  OBVIOUS
<1>7. after \in Seq(Jobs) /\ Len(after) = Len(q) + n
  <2>1. q \o more \in Seq(Jobs) /\ Len(q \o more) = Len(q) + Len(more)
    BY <1>5
  <2> QED
    BY <1>2, <1>5, <2>1
<1>8. \A i \in 1..Len(q) : after[i] = q[i]
  BY <1>2, <1>5
<1>9. \A i \in (Len(q) + 1)..Len(after) : after[i] = more[i - Len(q)] /\ i - Len(q) \in 1..n
  BY <1>2, <1>3, <1>5, <1>6, <1>7
<1>10. \A i \in (Len(q) + 1)..Len(after) : after[i].status = "queued" /\ src[after[i].source] # None
  BY <1>4, <1>9
<1>11. Len(q) <= Len(after)
  BY <1>3, <1>6, <1>7
<1> QED
  BY <1>7, <1>8, <1>10, <1>11 DEF Grown

\* Jobs that were asked for are there.
LEMMA GrownRange ==
  ASSUME NEW q \in Seq(Jobs), NEW after \in Seq(Jobs), NEW src, Grown(q, after, src)
  PROVE  Range(q) \subseteq Range(after)
<1>1. Len(q) \in Nat /\ Len(after) \in Nat /\ DOMAIN q = 1..Len(q) /\ DOMAIN after = 1..Len(after)
  OBVIOUS
<1>2. \A i \in 1..Len(q) : i \in 1..Len(after) /\ after[i] = q[i]
  BY <1>1 DEF Grown
<1> QED
  BY <1>1, <1>2 DEF Range

-----------------------------------------------------------------------------
(* A step of somebody else, as the worker and a recorder see it.           *)

Meanwhile ==
  /\ worker' = worker /\ recorder' = recorder /\ chain' = chain /\ generation' = generation
  /\ Edited(sources, sources') /\ SameText(sources, sources') /\ Still(sources, sources')
  /\ \A s \in Registered(sources) : Active(sources', s) => Active(sources, s) \/ Asked(s) \in Range(jobs')
  /\ jobs' \in Seq(Jobs) /\ Grown(jobs, jobs', sources')
  /\ captures \subseteq captures' /\ bindings \subseteq bindings'
  /\ worker.pc = "indexing" => indexer' = indexer
  /\ \A s \in Sources : version[s] <= version'[s]
  /\ \A e \in events' : e \in events \/ (e[2] <= version[e[1]] /\ (Active(sources', e[1]) => Asked(e[1]) \in Range(jobs')))

LEMMA StillAncestors ==
  ASSUME MemoryAssumption, NEW src, TreeOf(src), NEW after, Still(src, after), TreeOf(after), NEW p \in Sources
  PROVE  AncestorsOf(after, p) = AncestorsOf(src, p)
<1>1. \A a \in Sources : SubpagesOf(after, a) = SubpagesOf(src, a)
  BY BelowSame DEF Still
<1>2. \A a \in Sources : src[a] = None => SubpagesOf(src, a) = {}
  BY NobodyBelowUnknown
<1>3. Registered(src) \subseteq Registered(after)
  BY DEF Still, Registered
<1>4. \A a \in Sources : a \in Registered(after) /\ p \in SubpagesOf(after, a) <=> a \in Registered(src) /\ p \in SubpagesOf(src, a)
  <2> SUFFICES ASSUME NEW a \in Sources
               PROVE  a \in Registered(after) /\ p \in SubpagesOf(after, a) <=> a \in Registered(src) /\ p \in SubpagesOf(src, a)
    OBVIOUS
  <2>1. CASE src[a] = None
    BY <1>1, <1>2, <2>1 DEF Registered
  <2>2. CASE src[a] # None
    BY <1>1, <1>3, <2>2 DEF Registered
  <2> QED
    BY <2>1, <2>2
<1> QED
  BY <1>4 DEF AncestorsOf, Registered

LEMMA WorkerParts ==
  ASSUME WorkTypes
  PROVE  /\ worker.pc = "idle" <=> worker = Idle
         /\ worker # Idle => /\ worker.pc \in Steps /\ worker.source \in Sources /\ worker.copy \in Registration
                             /\ worker.page \in Fetches \cup {None} /\ worker.dataset \in Datasets \cup {None}
                             /\ worker.snapshot \in Snapshots \cup {None} /\ worker.todo \subseteq Pages
BY DEF WorkTypes, Working, Idle, Steps, StoreSteps

LEMMA GrowingJobs ==
  ASSUME JobsInv, worker' = worker, jobs' \in Seq(Jobs), Grown(jobs, jobs', sources'),
         \A s \in Sources : sources[s] # None => sources'[s] # None
  PROVE  JobsInv'
<1>1. /\ jobs \in Seq(Jobs) /\ jobs' \in Seq(Jobs) /\ worker' = worker /\ Grown(jobs, jobs', sources')
      /\ \A s \in Sources : sources[s] # None => sources'[s] # None
  BY DEF JobsInv
<1>2. PICK q, now \in Seq(Jobs) : q = jobs /\ now = jobs'
  BY <1>1
<1>3. /\ Len(q) \in Nat /\ Len(now) \in Nat /\ Len(q) <= Len(now)
      /\ \A i \in 1..Len(q) : now[i] = q[i]
      /\ \A i \in (Len(q) + 1)..Len(now) : now[i].status = "queued" /\ sources'[now[i].source] # None
  BY <1>1, <1>2 DEF Grown
<1>4. \A i \in 1..Len(q) : sources'[q[i].source] # None /\ (i > 1 => q[i].status = "queued")
  <2> TAKE i \in 1..Len(q)
  <2>1. q[i] \in Jobs
    OBVIOUS
  <2>2. q[i].source \in Sources
    BY <2>1 DEF Jobs
  <2> QED
    BY <1>1, <1>2, <2>2 DEF JobsInv
<1>5. \A i \in 1..Len(now) : sources'[now[i].source] # None /\ (i > 1 => now[i].status = "queued")
  <2> TAKE i \in 1..Len(now)
  <2>1. i \in 1..Len(q) \/ i \in (Len(q) + 1)..Len(now)
    BY <1>3
  <2> QED
    BY <1>3, <1>4, <2>1
<1>6. q # <<>> => Len(q) >= 1 /\ Len(now) >= 1 /\ now # <<>> /\ now[1] = q[1]
  BY <1>3
<1>7. now # <<>> /\ q = <<>> => now[1].status = "queued"
  <2>1. now # <<>> /\ q = <<>> => Len(q) = 0 /\ 1 \in (Len(q) + 1)..Len(now)
    BY <1>3
  <2> QED
    BY <1>3, <2>1
<1> QED
  BY <1>1, <1>2, <1>5, <1>6, <1>7 DEF JobsInv

LEMMA MeanwhileJobs ==
  ASSUME JobsInv, Meanwhile
  PROVE  JobsInv'
BY GrowingJobs DEF Meanwhile, Edited

LEMMA MeanwhileWork ==
  ASSUME MemoryAssumption, WorkTypes, WorkInv, RecordInv, ChainInv, Meanwhile
  PROVE  WorkInv' /\ RecordInv' /\ ChainInv'
<1>1. worker' = worker /\ recorder' = recorder /\ chain' = chain /\ generation' = generation
  BY DEF Meanwhile
<1>2. RecordInv' /\ ChainInv'
  BY <1>1 DEF RecordInv, ChainInv
<1>3. worker # Idle => sources'[worker.source] # None
  BY WorkerParts DEF WorkInv, Meanwhile, Edited
<1>4. WorkInv'
  BY <1>1, <1>3 DEF WorkInv, Meanwhile, Binding
<1> QED
  BY <1>2, <1>4

LEMMA MeanwhileSeen ==
  ASSUME MemoryAssumption, WorkTypes, PolicyInv, SeenInv, Meanwhile, PolicyInv'
  PROVE  SeenInv'
<1>1. worker' = worker
  BY DEF Meanwhile
<1>2. worker.pc \in {"verify", "reconcile"} => worker.source \in Sources
  BY WorkerParts DEF Idle
<1>3. worker.pc \in {"verify", "reconcile"} => AncestorsOf(sources', worker.source) = AncestorsOf(sources, worker.source)
  BY <1>2, StillAncestors DEF PolicyInv, Meanwhile
<1> QED
  BY <1>1, <1>3 DEF SeenInv, Inspected

LEMMA MeanwhileProgress ==
  ASSUME MemoryAssumption, WorkTypes, WorkInv, ProgressInv, Meanwhile
  PROVE  ProgressInv'
<1>1. worker' = worker
  BY DEF Meanwhile
<1>2. SUFFICES ASSUME worker # Idle
               PROVE  ProgressInv'
  BY <1>1 DEF ProgressInv
<1>3. worker.source \in Sources /\ sources[worker.source] # None
  BY <1>2, WorkerParts DEF WorkInv
<1>4. sources'[worker.source] # sources[worker.source] => sources'[worker.source].status # "ready"
  BY <1>3 DEF Meanwhile, Edited
<1>5. CASE sources'[worker.source] # sources[worker.source]
  BY <1>1, <1>4, <1>5 DEF ProgressInv, NotReady
<1>6. CASE sources'[worker.source] = sources[worker.source]
  BY <1>1, <1>2, <1>6 DEF ProgressInv, NotReady, Unchanged
<1> QED
  BY <1>5, <1>6

LEMMA MeanwhileReady ==
  ASSUME ReadyIsCurrent, Meanwhile
  PROVE  ReadyIsCurrent'
<1>1. \A s \in Sources : sources'[s] # None /\ sources'[s].status = "ready" => sources'[s] = sources[s]
  BY DEF Meanwhile, Edited
<1>2. captures \subseteq captures' /\ bindings \subseteq bindings'
  BY DEF Meanwhile
<1> QED
  BY <1>1, <1>2 DEF ReadyIsCurrent

LEMMA MeanwhileEvents ==
  ASSUME MemoryAssumption, StoreTypes, StoreTypes', WorkTypes, JobsInv, WorkInv, ReadyIsCurrent, EventsInv, Meanwhile
  PROVE  EventsInv'
<1>1. worker' = worker
  BY DEF Meanwhile
<1>2. \A e \in events' : e[1] \in Sources /\ e[2] \in Nat
  BY DEF StoreTypes, MemoryAssumption
<1>3. \A s \in Sources : version[s] \in Nat /\ version'[s] \in Nat /\ version[s] <= version'[s]
  BY DEF StoreTypes, Meanwhile
<1>4. \A e \in events' : e \in events \/ (e[2] <= version[e[1]] /\ (Active(sources', e[1]) => Asked(e[1]) \in Range(jobs')))
  BY DEF Meanwhile
<1>5. \A s : QueuedFor(s) => Asked(s) \in Range(jobs')
  <2>1. Range(jobs) \subseteq Range(jobs')
    BY GrownRange DEF JobsInv, Meanwhile
  <2> QED
    BY <2>1 DEF QueuedFor, Asked
<1>6. \A s : QueuedFor(s)' <=> Asked(s) \in Range(jobs')
  BY DEF QueuedFor, Asked
<1>7. ASSUME NEW e \in events'
      PROVE  e[2] <= version'[e[1]]
  <2>1. e[2] <= version[e[1]]
    BY <1>4, <1>7 DEF EventsInv
  <2> QED
    BY <1>2, <1>3, <1>7, <2>1
<1>8. ASSUME NEW e \in events', sources'[e[1]] # None, sources'[e[1]].status = "ready"
      PROVE  sources'[e[1]].capture >= e[2] \/ Asked(e[1]) \in Range(jobs') \/ Starts(e[1])
  <2>1. sources'[e[1]] = sources[e[1]]
    BY <1>2, <1>8 DEF Meanwhile, Edited
  <2>2. CASE e \in events
    BY <1>5, <1>8, <2>1, <2>2 DEF EventsInv
  <2>3. CASE e \notin events
    <3>1. sources[e[1]].approval = "approved"
      BY <1>2, <1>8, <2>1 DEF ReadyIsCurrent
    <3>2. Active(sources', e[1])
      BY <1>8, <2>1, <3>1 DEF Active
    <3> QED
      BY <1>4, <1>8, <2>3, <3>2
  <2> QED
    BY <2>2, <2>3
<1>9. ASSUME worker.pc \in Reading, NEW e \in events', e[1] = worker.source
      PROVE  worker.page.content >= e[2] \/ Asked(e[1]) \in Range(jobs') \/ ~Active(sources', e[1])
  <2>1. CASE e \in events
    <3>1. worker.page.content >= e[2] \/ QueuedFor(e[1]) \/ ~Active(sources, e[1])
      BY <1>9, <2>1 DEF EventsInv
    <3>2. worker # Idle
      BY <1>9 DEF Idle, Reading, Discovering
    <3>3. e[1] \in Registered(sources)
      BY <1>2, <1>9, <3>2 DEF Registered, WorkInv
    <3>4. Active(sources', e[1]) => Active(sources, e[1]) \/ Asked(e[1]) \in Range(jobs')
      BY <3>3 DEF Meanwhile
    <3> QED
      BY <1>5, <3>1, <3>4
  <2>2. CASE e \notin events
    BY <1>4, <1>9, <2>2
  <2> QED
    BY <2>1, <2>2
<1> QED
  BY <1>1, <1>6, <1>7, <1>8, <1>9 DEF EventsInv, Starts

LEMMA MeanwhileText ==
  ASSUME MemoryAssumption, WorkTypes, JobsInv, WorkInv, TextInv, Meanwhile
  PROVE  TextInv'
<1>1. worker' = worker /\ recorder' = recorder /\ chain' = chain
  BY DEF Meanwhile
<1>2. \A s : QueuedFor(s) => Asked(s) \in Range(jobs')
  <2>1. Range(jobs) \subseteq Range(jobs')
    BY GrownRange DEF JobsInv, Meanwhile
  <2> QED
    BY <2>1 DEF QueuedFor, Asked
<1>3. \A s : QueuedFor(s)' <=> Asked(s) \in Range(jobs')
  BY DEF QueuedFor, Asked
<1>4. \A s : /\ Recorded(s)' <=> Recorded(s)
             /\ Starts(s)' <=> Starts(s)
  BY <1>1 DEF Recorded, Starts
<1>5. \A s \in Sources : sources[s] # None =>
        /\ sources'[s].text = sources[s].text
        /\ Active(sources', s) => Active(sources, s) \/ Asked(s) \in Range(jobs')
  BY DEF Meanwhile, SameText, Registered
<1>6. worker # Idle => worker.source \in Sources /\ sources[worker.source] # None
  BY WorkerParts DEF WorkInv
<1>7. worker.pc # "idle" => worker # Idle
  BY WorkerParts
<1>8. worker.pc = "claim" /\ worker.source \in Reviews =>
       \/ worker.copy.text = sources'[worker.source].text
       \/ Recorded(worker.source) /\ chain = <<"worker", "recorder">>
  BY <1>5, <1>6, <1>7 DEF TextInv
<1>9. worker.pc \in {"mark", "read"} \cup Reading /\ worker.source \in Reviews =>
       \/ worker.copy.text = sources'[worker.source].text
       \/ Asked(worker.source) \in Range(jobs') \/ Recorded(worker.source) \/ ~Active(sources', worker.source)
  <2> SUFFICES ASSUME worker.pc \in {"mark", "read"} \cup Reading, worker.source \in Reviews
               PROVE  \/ worker.copy.text = sources'[worker.source].text
                      \/ Asked(worker.source) \in Range(jobs') \/ Recorded(worker.source) \/ ~Active(sources', worker.source)
    OBVIOUS
  <2>1. worker.source \in Sources /\ sources[worker.source] # None
    BY <1>6, <1>7 DEF Reading, Discovering
  <2>2. \/ worker.copy.text = sources[worker.source].text
        \/ QueuedFor(worker.source) \/ Recorded(worker.source) \/ ~Active(sources, worker.source)
    BY DEF TextInv
  <2> QED
    BY <1>2, <1>5, <2>1, <2>2
<1>10. worker.pc \in Reading /\ worker.source \in Reviews => worker.page.content = worker.copy.text
  BY DEF TextInv
<1>11. \A s \in Reviews : sources'[s] # None /\ sources'[s].status = "ready" =>
       \/ sources'[s].capture = sources'[s].text
       \/ Asked(s) \in Range(jobs') \/ Starts(s)
       \/ worker.pc = "close" /\ worker.source = s /\ Recorded(s) /\ chain = <<"recorder", "worker">>
  <2> TAKE s \in Reviews
  <2> SUFFICES ASSUME sources'[s] # None, sources'[s].status = "ready"
               PROVE  \/ sources'[s].capture = sources'[s].text
                      \/ Asked(s) \in Range(jobs') \/ Starts(s)
                      \/ worker.pc = "close" /\ worker.source = s /\ Recorded(s) /\ chain = <<"recorder", "worker">>
    OBVIOUS
  <2>1. s \in Sources
    BY DEF MemoryAssumption
  <2>2. sources'[s] = sources[s]
    BY <2>1 DEF Meanwhile, Edited
  <2>3. \/ sources[s].capture = sources[s].text
        \/ QueuedFor(s) \/ Starts(s)
        \/ worker.pc = "close" /\ worker.source = s /\ Recorded(s) /\ chain = <<"recorder", "worker">>
    BY <2>2 DEF TextInv
  <2> QED
    BY <1>2, <2>2, <2>3
<1> QED
  BY <1>1, <1>3, <1>4, <1>8, <1>9, <1>10, <1>11 DEF TextInv

-----------------------------------------------------------------------------
(* Administrators, projects, webhooks and retrievals.                      *)

LEMMA FewSame ==
  ASSUME NEW src, NEW after, Few(src), Registered(after) \cap Pages = Registered(src) \cap Pages
  PROVE  Few(after)
BY DEF Few

LEMMA UpdateStep ==
  ASSUME MemoryAssumption, StoreTypes, JobsInv, PolicyInv, NEW s \in Sources, NEW policy \in Policies, Update(s, policy)
  PROVE  Meanwhile /\ PolicyInv'
<1>1. /\ sources[s] # None /\ Editable(s, policy) /\ Typed(sources) /\ TreeOf(sources) /\ Few(sources)
      /\ barred \subseteq Sources /\ \A x \in barred : Out(sources, x)
      /\ ~misplaced => Agreed(sources)
      /\ jobs \in Seq(Jobs)
      /\ jobs' = Queue(jobs, sources', s)
      /\ barred' = Say(s, policy.approval)
      /\ ~misplaced' => ~misplaced /\ InBranch(sources', s)
      /\ UNCHANGED <<captures, bindings, events, worker, recorder, indexer, chain, generation, version>>
  BY DEF Update, PolicyInv, JobsInv, process, world
<1>2. PICK q : q = Apply(sources[s], policy)
  OBVIOUS
<1>3. PICK edited : edited = [sources EXCEPT ![s] = q]
  OBVIOUS
<1>4. sources' = IF s \in Pages THEN InheritSubpagePolicy(edited, s) ELSE edited
  BY <1>2, <1>3 DEF Update
<1>5. edited[s] = q /\ \A x \in Sources \ {s} : edited[x] = sources[x]
  BY <1>1, <1>3 DEF Typed
<1>6. q \in Registration
  <2>1. PICK r \in Registration : r = sources[s]
    BY <1>1 DEF Typed
  <2> QED
    BY <1>2, <2>1, AppliedRecord
<1>7. Typed(edited)
  BY <1>1, <1>3, <1>6 DEF Typed
<1>8. PICK after : after = sources'
  OBVIOUS
<1>9. /\ Typed(after) /\ TreeOf(after) /\ Edited(sources, after) /\ SameText(sources, after) /\ Still(sources, after)
      /\ Registered(after) = Registered(sources)
      /\ after[s] # None /\ after[s].approval = policy.approval /\ after[s].status = StatusFor(policy.approval)
      /\ after[s].before = None
      /\ \A x \in Sources \ {s} : /\ Out(sources, x) => Out(after, x)
                                  /\ Active(after, x) => Active(sources, x)
      /\ Agreed(sources) /\ InBranch(after, s) => Agreed(after)
  <2>1. CASE s \in Pages
    <3>1. sources[s].before = None
      BY <1>1, <2>1 DEF Editable, TreeOf, Registered
    <3>2. after = InheritSubpagePolicy(edited, s)
      BY <1>4, <1>8, <2>1
    <3> QED
      BY <1>1, <1>2, <1>5, <1>7, <2>1, <3>1, <3>2, UpdatePage
  <2>2. CASE s \notin Pages
    <3>1. after = edited
      BY <1>4, <1>8, <2>2
    <3>2. after[s] = q /\ \A x \in Sources \ {s} : after[x] = sources[x]
      BY <1>5, <3>1
    <3>3. /\ q.before = None /\ q.approval = policy.approval /\ q.status = StatusFor(policy.approval)
          /\ TreeOf(after) /\ Still(sources, after) /\ Edited(sources, after) /\ SameText(sources, after)
          /\ Agreed(sources) => Agreed(after)
      BY <1>1, <1>2, <2>2, <3>2, UpdateOther
    <3>4. q # None
      BY <1>6 DEF MemoryAssumption
    <3>5. Registered(after) = Registered(sources)
      BY <1>1, <3>2, <3>4 DEF Registered
    <3>6. \A x \in Sources \ {s} : (Out(sources, x) => Out(after, x)) /\ (Active(after, x) => Active(sources, x))
      BY <3>2 DEF Out, Active
    <3> QED
      BY <1>7, <3>1, <3>2, <3>3, <3>4, <3>5, <3>6
  <2> QED
    BY <2>1, <2>2
<1>10. jobs' \in Seq(Jobs) /\ Grown(jobs, jobs', after) /\ (Active(after, s) => Asked(s) \in Range(jobs'))
  BY <1>1, <1>8, QueueGrows
<1>11. \A x \in Registered(sources) : Active(after, x) => Active(sources, x) \/ Asked(x) \in Range(jobs')
  BY <1>9, <1>10 DEF Registered
<1>12. \A x \in Sources : version[x] <= version'[x]
  BY <1>1 DEF StoreTypes
<1>13. Meanwhile
  BY <1>1, <1>8, <1>9, <1>10, <1>11, <1>12 DEF Meanwhile
<1>14. Few(after)
  BY <1>1, <1>9, FewSame
<1>15. ~misplaced' => Agreed(after)
  BY <1>1, <1>8, <1>9
<1>16. barred' \subseteq Sources /\ \A x \in barred' : Out(after, x)
  <2>1. CASE policy.approval = "withdrawn"
    <3>1. barred' = barred \cup {s} /\ Out(after, s)
      BY <1>1, <1>9, <2>1 DEF Say, Out, StatusFor
    <3> QED
      BY <1>1, <1>9, <3>1
  <2>2. CASE policy.approval # "withdrawn"
    <3>1. barred' = barred \ {s}
      BY <1>1, <2>2 DEF Say
    <3> QED
      BY <1>1, <1>9, <3>1
  <2> QED
    BY <2>1, <2>2
<1>17. PolicyInv'
  BY <1>8, <1>9, <1>14, <1>15, <1>16 DEF PolicyInv
<1> QED
  BY <1>13, <1>17

LEMMA RegisterStep ==
  ASSUME MemoryAssumption, StoreTypes, JobsInv, PolicyInv, NEW p \in Pages, NEW policy \in Policies, Register(p, policy)
  PROVE  Meanwhile /\ PolicyInv'
<1>1. /\ sources[p] = None /\ Cardinality(Registered(sources)) < MaxSources
      /\ Typed(sources) /\ TreeOf(sources) /\ Few(sources)
      /\ barred \subseteq Sources /\ \A x \in barred : Out(sources, x)
      /\ ~misplaced => Agreed(sources)
      /\ jobs \in Seq(Jobs)
      /\ jobs' = Queue(jobs, sources', p)
      /\ barred' = Say(p, policy.approval) /\ misplaced' = misplaced
      /\ UNCHANGED <<captures, bindings, events, worker, recorder, indexer, chain, generation, version>>
  BY DEF Register, PolicyInv, JobsInv, process, world
<1>2. p \in Sources
  BY DEF MemoryAssumption
<1>3. PICK q : q = Apply(NewPage, policy)
  OBVIOUS
<1>4. PICK after : after = sources'
  OBVIOUS
<1>5. after = [sources EXCEPT ![p] = q]
  BY <1>3, <1>4 DEF Register
<1>6. after[p] = q /\ \A x \in Sources \ {p} : after[x] = sources[x]
  BY <1>1, <1>2, <1>5 DEF Typed
<1>7. /\ q \in Registration /\ q.before = None
      /\ q.approval = policy.approval /\ q.status = StatusFor(policy.approval)
      /\ TreeOf(after) /\ Still(sources, after)
      /\ Edited(sources, after) /\ SameText(sources, after)
      /\ Agreed(sources) => Agreed(after)
  BY <1>1, <1>3, <1>6, RegisterOne
<1>8. Typed(after)
  BY <1>1, <1>5, <1>7 DEF Typed
<1>9. q # None
  BY <1>7 DEF MemoryAssumption
<1>10. Registered(after) = Registered(sources) \cup {p}
  BY <1>2, <1>6, <1>9 DEF Registered
<1>11. jobs' \in Seq(Jobs) /\ Grown(jobs, jobs', after)
  BY <1>1, <1>2, <1>4, QueueGrows
<1>12. \A x \in Registered(sources) : Active(after, x) => Active(sources, x)
  BY <1>1, <1>6 DEF Active, Registered
<1>13. \A x \in Sources : version[x] <= version'[x]
  BY <1>1 DEF StoreTypes
<1>14. Meanwhile
  BY <1>1, <1>4, <1>7, <1>11, <1>12, <1>13 DEF Meanwhile
<1>15. Few(after)
  <2>1. IsFiniteSet(Registered(sources)) /\ p \notin Registered(sources)
    BY <1>1, FS_Subset DEF Registered, MemoryAssumption
  <2>2. /\ IsFiniteSet(Registered(after)) /\ Cardinality(Registered(after)) = Cardinality(Registered(sources)) + 1
    BY <1>10, <2>1, FS_AddElement
  <2>3. Cardinality(Registered(after) \cap Pages) <= Cardinality(Registered(after)) /\ IsFiniteSet(Registered(after) \cap Pages)
    BY <2>2, FS_Subset
  <2>4. /\ Cardinality(Registered(after) \cap Pages) \in Nat /\ Cardinality(Registered(after)) \in Nat
        /\ Cardinality(Registered(sources)) \in Nat /\ MaxSources \in Nat
    BY <2>1, <2>2, <2>3, FS_CardinalityType DEF MemoryAssumption
  <2> QED
    BY <1>1, <2>2, <2>3, <2>4 DEF Few
<1>16. barred' \subseteq Sources /\ \A x \in barred' : Out(after, x)
  <2>1. \A x \in barred : x # p /\ Out(after, x)
    BY <1>1, <1>6 DEF Out
  <2>2. policy.approval = "withdrawn" => Out(after, p)
    BY <1>6, <1>7, <1>9 DEF Out, StatusFor
  <2> QED
    BY <1>1, <1>2, <2>1, <2>2 DEF Say
<1>17. PolicyInv'
  BY <1>1, <1>4, <1>7, <1>8, <1>15, <1>16 DEF PolicyInv
<1> QED
  BY <1>14, <1>17

LEMMA ApproveStep ==
  ASSUME MemoryAssumption, StoreTypes, JobsInv, PolicyInv, NEW p \in Pages, ApproveSubpages(p)
  PROVE  Meanwhile /\ PolicyInv'
<1> DEFINE drafts == {x \in SubpagesOf(sources, p) : sources[x].approval = "draft"}
<1>1. /\ Typed(sources) /\ TreeOf(sources) /\ Few(sources)
      /\ barred \subseteq Sources /\ \A x \in barred : Out(sources, x)
      /\ ~misplaced => Agreed(sources)
      /\ jobs \in Seq(Jobs)
      /\ jobs' = QueueAll(jobs, sources', drafts)
      /\ barred' = barred /\ misplaced' = misplaced
      /\ UNCHANGED <<captures, bindings, events, worker, recorder, indexer, chain, generation, version>>
  BY DEF ApproveSubpages, PolicyInv, JobsInv, process, world, history
<1>2. PICK after : after = sources'
  OBVIOUS
<1>3. after = [x \in Sources |-> IF x \in drafts THEN Promoted(sources[x]) ELSE sources[x]]
  BY <1>2 DEF ApproveSubpages, Promoted
<1>4. drafts \subseteq Registered(sources) /\ drafts \subseteq Sources /\ \A x \in drafts : sources[x].approval = "draft"
  BY BelowRegistered DEF Registered
<1> HIDE DEF drafts
<1>5. /\ \A x \in Sources \ drafts : after[x] = sources[x]
      /\ \A x \in drafts : after[x] = Promoted(sources[x])
  BY <1>3, <1>4
<1>6. Typed(after)
  <2>1. \A x \in Sources : after[x] \in Registration \cup {None}
    <3> TAKE x \in Sources
    <3>1. CASE x \in drafts
      BY <1>1, <1>4, <1>5, <3>1, PromotedIn
    <3>2. CASE x \notin drafts
      BY <1>1, <1>5, <3>2 DEF Typed
    <3> QED
      BY <3>1, <3>2
  <2>2. after = [x \in Sources |-> after[x]]
    BY <1>3
  <2> QED
    BY <2>1, <2>2 DEF Typed
<1>7. /\ TreeOf(after) /\ Still(sources, after) /\ Edited(sources, after) /\ SameText(sources, after)
      /\ Registered(after) = Registered(sources)
      /\ \A x \in Sources : (Active(after, x) => Active(sources, x)) /\ (Out(sources, x) => Out(after, x))
      /\ Agreed(sources) => Agreed(after)
  BY <1>1, <1>4, <1>5, <1>6, ApproveDrafts
<1>8. jobs' \in Seq(Jobs) /\ Grown(jobs, jobs', after)
  BY <1>1, <1>2, <1>4, QueueAllGrows
<1>9. \A x \in Sources : version[x] <= version'[x]
  BY <1>1 DEF StoreTypes
<1>10. Meanwhile
  BY <1>1, <1>2, <1>7, <1>8, <1>9 DEF Meanwhile, Registered
<1>11. Few(after)
  BY <1>1, <1>7, FewSame
<1>12. PolicyInv'
  BY <1>1, <1>2, <1>6, <1>7, <1>11 DEF PolicyInv
<1> QED
  BY <1>10, <1>12

LEMMA SpecsPolicy ==
  ASSUME MemoryAssumption, PolicyInv, NEW listed \in SUBSET Specs, NEW after, after = WithSpecs(sources, listed)
  PROVE  /\ Typed(after) /\ TreeOf(after) /\ Few(after) /\ (~misplaced => Agreed(after))
         /\ \A x \in barred : Out(after, x)
<1>1. /\ Typed(sources) /\ TreeOf(sources) /\ Few(sources)
      /\ barred \subseteq Sources /\ \A x \in barred : Out(sources, x)
      /\ ~misplaced => Agreed(sources)
  BY DEF PolicyInv
<1>2. /\ Typed(after) /\ TreeOf(after)
      /\ \A x \in Sources \ Specs : after[x] = sources[x]
      /\ \A x \in Sources : Out(sources, x) => Out(after, x)
      /\ Agreed(sources) => Agreed(after)
  BY <1>1, ListedSpecs
<1>3. Registered(after) \cap Pages = Registered(sources) \cap Pages
  BY <1>2 DEF Registered, MemoryAssumption
<1>4. Few(after)
  BY <1>1, <1>3, FewSame
<1> QED
  BY <1>1, <1>2, <1>4

LEMMA ProjectsStep ==
  ASSUME MemoryAssumption, StoreTypes, JobsInv, PolicyInv, RegisterProjects
  PROVE  Meanwhile /\ PolicyInv'
<1>1. /\ Typed(sources) /\ TreeOf(sources) /\ barred \subseteq Sources
      /\ jobs \in Seq(Jobs) /\ registrar \in SUBSET Specs
      /\ barred' = barred /\ misplaced' = misplaced
      /\ UNCHANGED <<jobs, captures, bindings, events, worker, recorder, indexer, chain, generation, version>>
  BY DEF RegisterProjects, PolicyInv, JobsInv, StoreTypes, world, history
<1>2. PICK after : after = sources'
  OBVIOUS
<1>3. after = WithSpecs(sources, registrar)
  BY <1>2 DEF RegisterProjects
<1>4. /\ Still(sources, after) /\ Edited(sources, after) /\ SameText(sources, after)
      /\ \A x \in Registered(sources) : Active(after, x) => Active(sources, x)
  BY <1>1, <1>3, ListedSpecs
<1>5. /\ Typed(after) /\ TreeOf(after) /\ Few(after) /\ (~misplaced => Agreed(after))
      /\ \A x \in barred : Out(after, x)
  BY <1>1, <1>3, SpecsPolicy
<1>6. jobs' \in Seq(Jobs) /\ Grown(jobs, jobs', after)
  BY <1>1, SameGrown
<1>7. \A x \in Sources : version[x] <= version'[x]
  BY <1>1 DEF StoreTypes
<1>8. Meanwhile
  BY <1>1, <1>2, <1>4, <1>6, <1>7 DEF Meanwhile
<1>9. PolicyInv'
  BY <1>1, <1>2, <1>5 DEF PolicyInv
<1> QED
  BY <1>8, <1>9

\* The registrations stay as they are.
LEMMA QuietStep ==
  ASSUME StoreTypes, JobsInv, PolicyInv,
         UNCHANGED <<sources, barred, misplaced, worker, recorder, chain, generation>>,
         jobs' \in Seq(Jobs), Grown(jobs, jobs', sources'), captures \subseteq captures', bindings \subseteq bindings',
         worker.pc = "indexing" => indexer' = indexer,
         \A s \in Sources : version[s] <= version'[s],
         \A e \in events' : e \in events \/ (e[2] <= version[e[1]] /\ (Active(sources', e[1]) => Asked(e[1]) \in Range(jobs')))
  PROVE  Meanwhile /\ PolicyInv'
<1>1. PICK after : after = sources'
  OBVIOUS
<1>2. after = sources
  BY <1>1
<1>3. Edited(sources, after) /\ SameText(sources, after) /\ Still(sources, after)
  BY <1>2 DEF Edited, SameText, Still, Registered
<1>4. Meanwhile
  BY <1>1, <1>2, <1>3 DEF Meanwhile
<1>5. PolicyInv'
  BY <1>2, <1>1 DEF PolicyInv
<1> QED
  BY <1>4, <1>5

LEMMA QuietQueue ==
  ASSUME StoreTypes, JobsInv, PolicyInv,
         UNCHANGED <<sources, barred, misplaced, worker, recorder, chain, generation, captures, bindings, indexer, version>>,
         NEW s \in Sources, jobs' = Queue(jobs, sources, s),
         \A e \in events' : e \in events \/ (e[1] = s /\ e[2] <= version[s])
  PROVE  Meanwhile /\ PolicyInv'
<1>1. jobs \in Seq(Jobs)
  BY DEF JobsInv
<1>2. jobs' \in Seq(Jobs) /\ Grown(jobs, jobs', sources) /\ (Active(sources, s) => Asked(s) \in Range(jobs'))
  BY <1>1, QueueGrows
<1>3. \A x \in Sources : version[x] <= version'[x]
  BY DEF StoreTypes
<1>4. \A e \in events' : e \in events \/ (e[2] <= version[e[1]] /\ (Active(sources, e[1]) => Asked(e[1]) \in Range(jobs')))
  BY <1>2
<1> QED
  BY <1>2, <1>3, <1>4, QuietStep

LEMMA QuietJobs ==
  ASSUME StoreTypes, JobsInv, PolicyInv,
         UNCHANGED <<sources, barred, misplaced, jobs, events, worker, recorder, chain, generation>>,
         captures \subseteq captures', bindings \subseteq bindings',
         worker.pc = "indexing" => indexer' = indexer,
         \A s \in Sources : version[s] <= version'[s]
  PROVE  Meanwhile /\ PolicyInv'
<1>1. jobs \in Seq(Jobs)
  BY DEF JobsInv
<1>2. jobs' \in Seq(Jobs) /\ Grown(jobs, jobs', sources')
  BY <1>1, SameGrown
<1> QED
  BY <1>2, QuietStep

LEMMA AskingParts ==
  ASSUME WorkTypes
  PROVE  /\ retriever = Idle \/ retriever \in Asking
         /\ retriever.pc \in {"wait", "specs", "index", "indexing"} =>
              /\ retriever.scope \subseteq Sources /\ retriever.branches \subseteq Sources /\ retriever.todo \subseteq Sources
              /\ retriever.context \subseteq Contexts /\ retriever.evidence \subseteq Sources \X Nat
              /\ retriever.specs \subseteq Specs
BY DEF WorkTypes, Asking, Idle

LEMMA SameVersion ==
  ASSUME StoreTypes, version' = version
  PROVE  \A s \in Sources : version[s] <= version'[s]
BY DEF StoreTypes

LEMMA RetrieverStep ==
  ASSUME MemoryAssumption, StoreTypes, WorkTypes, JobsInv, PolicyInv, WorkInv, TurnInv, Retriever
  PROVE  Meanwhile /\ PolicyInv'
<1> USE DEF store, process, world, history, budgets
<1>1. worker.pc = "indexing" => indexer # None
  <2>1. SUFFICES ASSUME worker.pc = "indexing"
                 PROVE  indexer # None
    OBVIOUS
  <2>2. worker # Idle /\ worker.page # None /\ indexer = Binding(worker.source, worker.page.content)
    BY <2>1 DEF WorkInv, Idle, Reading
  <2>3. worker.source \in Sources /\ worker.page.content \in Nat
    BY <2>2, WorkerParts DEF Fetches
  <2> QED
    BY <2>2, <2>3 DEF Binding, MemoryAssumption, StoreTypes, Datasets
<1>2. CASE RetrieveQueues
  <2>1. PICK s \in retriever.todo : jobs' = Queue(jobs, sources, s)
    BY <1>2 DEF RetrieveQueues
  <2>2. s \in Sources
    BY <1>2, <2>1, AskingParts DEF RetrieveQueues
  <2> QED
    BY <1>2, <2>1, <2>2, QuietQueue DEF RetrieveQueues
<1>3. CASE Retrieve \/ RetrieveStops \/ RetrieveReady \/ RetrieveFails \/ Answer
  BY <1>3, QuietJobs, SameVersion DEF Retrieve, RetrieveStops, RetrieveReady, RetrieveFails, GiveUp, Answer
<1>4. CASE \E s \in Specs : CaptureSpec(s)
  BY <1>4, QuietJobs, SameVersion DEF CaptureSpec
<1>5. CASE IndexSpec
  BY <1>1, <1>5, QuietJobs, SameVersion DEF IndexSpec
<1>6. CASE SpecIndexed
  BY <1>6, QuietJobs, SameVersion DEF SpecIndexed, TurnInv
<1>7. CASE RetrieveAborts
  BY <1>7, QuietJobs, SameVersion DEF RetrieveAborts, TurnInv
<1> QED
  BY <1>2, <1>3, <1>4, <1>5, <1>6, <1>7 DEF Retriever

LEMMA WorldStep ==
  ASSUME MemoryAssumption, StoreTypes, JobsInv, PolicyInv,
         \/ \E s \in Sources : Sync(s) \/ \E content \in 1..version[s] : Deliver(s, content)
         \/ LoadProjects
         \/ \E s \in Sources : ChangeContent(s) \/ ChangeProjects(s)
         \/ \E p \in Pages, q \in Pages \cup {None} : MovePage(p, q)
         \/ Shutdown
  PROVE  Meanwhile /\ PolicyInv'
<1> USE DEF store, process, world, history, budgets
<1>1. CASE \E s \in Sources : Sync(s)
  BY <1>1, QuietQueue DEF Sync
<1>2. CASE \E s \in Sources : \E content \in 1..version[s] : Deliver(s, content)
  <2>1. PICK s \in Sources : \E content \in 1..version[s] : Deliver(s, content)
    BY <1>2
  <2>2. PICK content \in 1..version[s] : Deliver(s, content)
    BY <2>1
  <2>3. content <= version[s] /\ events' = events \cup {<<s, content>>}
    BY <2>2 DEF Deliver, StoreTypes
  <2>4. \A e \in events' : e \in events \/ (e[1] = s /\ e[2] <= version[s])
    BY <2>3
  <2> QED
    BY <2>2, <2>4, QuietQueue DEF Deliver
<1>3. CASE LoadProjects \/ Shutdown \/ (\E s \in Sources : ChangeProjects(s))
           \/ (\E p \in Pages, q \in Pages \cup {None} : MovePage(p, q))
  BY <1>3, QuietJobs, SameVersion DEF LoadProjects, Shutdown, ChangeProjects, MovePage
<1>4. CASE \E s \in Sources : ChangeContent(s)
  <2>1. PICK s \in Sources : ChangeContent(s)
    BY <1>4
  <2>2. version' = [version EXCEPT ![s] = @ + 1]
    BY <2>1 DEF ChangeContent
  <2>3. \A x \in Sources : version[x] <= version'[x]
    BY <2>2 DEF StoreTypes
  <2> QED
    BY <2>1, <2>3, QuietJobs DEF ChangeContent
<1> QED
  BY <1>1, <1>2, <1>3, <1>4

-----------------------------------------------------------------------------
(* What the worker writes.                                                 *)

WorkerWrites ==
  /\ SameText(sources, sources')
  /\ \A s \in Sources : sources[s] # None => sources'[s] # None
  /\ \A s \in Sources : sources'[s] # sources[s] =>
       sources'[s].status # "ready" \/ (s = worker.source /\ worker.pc = "finish" /\ worker'.pc = "close")
  /\ worker # Idle => (Active(sources', worker.source) => Active(sources, worker.source))

LEMMA StatusRecord ==
  ASSUME NEW r \in Registration, NEW status \in {"syncing", "failed"}, NEW q, q = [r EXCEPT !.status = status]
  PROVE  /\ q \in Registration
         /\ q.parent = r.parent /\ q.before = r.before /\ q.approval = r.approval /\ q.scope = r.scope
         /\ q.include = r.include /\ q.auto = r.auto /\ q.text = r.text /\ q.status = status
BY DEF Registration

LEMMA SynchronizedRecord ==
  ASSUME NEW r \in Registration, StoreTypes, WorkTypes, worker # Idle, worker.page # None,
         NEW q, q = Synchronized(r)
  PROVE  /\ q \in Registration
         /\ q.parent = r.parent /\ q.before = r.before /\ q.approval = r.approval /\ q.scope = r.scope
         /\ q.include = r.include /\ q.auto = r.auto /\ q.text = r.text
         /\ q.capture = worker.page.content /\ q.dataset = worker.dataset /\ q.generation = generation
         /\ q.status = IF worker.copy.approval = "approved" THEN "ready" ELSE "pending"
<1>1. worker.page.content \in Nat /\ worker.dataset \in Datasets \cup {None} /\ generation \in Nat
  BY WorkerParts DEF Fetches, StoreTypes
<1> QED
  BY <1>1 DEF Synchronized, Registration

\* Synchronization writes the registration of a source that is active.
LEMMA WriteStep ==
  ASSUME MemoryAssumption, PolicyInv, NEW p \in Sources, sources[p] # None, sources[p].approval # "withdrawn",
         NEW r \in Registration,
         r.parent = sources[p].parent, r.before = sources[p].before, r.approval = sources[p].approval,
         r.scope = sources[p].scope, r.include = sources[p].include, r.text = sources[p].text,
         sources' = [sources EXCEPT ![p] = r], barred' = barred, misplaced' = misplaced
  PROVE  /\ PolicyInv'
         /\ SameText(sources, sources')
         /\ \A s \in Sources : sources[s] # None => sources'[s] # None
         /\ sources'[p] = r /\ \A s \in Sources \ {p} : sources'[s] = sources[s]
         /\ \A s \in Sources : Active(sources', s) => Active(sources, s)
<1>1. /\ Typed(sources) /\ TreeOf(sources) /\ Few(sources)
      /\ barred \subseteq Sources /\ \A x \in barred : Out(sources, x)
      /\ ~misplaced => Agreed(sources)
  BY DEF PolicyInv
<1>2. PICK after : after = sources'
  OBVIOUS
<1>3. after[p] = r /\ \A s \in Sources \ {p} : after[s] = sources[s]
  BY <1>1, <1>2 DEF Typed
<1>4. Typed(after)
  BY <1>1, <1>2 DEF Typed
<1>5. r # None
  BY DEF MemoryAssumption
<1>6. /\ TreeOf(after)
      /\ \A s \in Sources : Active(after, s) => Active(sources, s)
      /\ Agreed(sources) => Agreed(after)
  BY <1>1, <1>3, WriteOne
<1>7. Registered(after) = Registered(sources)
  BY <1>3, <1>5 DEF Registered
<1>8. Few(after)
  BY <1>1, <1>7, FewSame
<1>9. \A x \in barred : Out(after, x)
  BY <1>1, <1>3 DEF Out
<1>10. SameText(sources, after)
  BY <1>3 DEF SameText, Registered
<1>11. PolicyInv'
  BY <1>1, <1>2, <1>4, <1>6, <1>8, <1>9 DEF PolicyInv
<1> QED
  BY <1>2, <1>3, <1>5, <1>6, <1>10, <1>11

LEMMA SameWrites ==
  ASSUME PolicyInv, UNCHANGED <<sources, barred, misplaced>>
  PROVE  PolicyInv' /\ WorkerWrites
<1>1. PolicyInv'
  BY DEF PolicyInv
<1>2. WorkerWrites
  BY DEF WorkerWrites, SameText
<1> QED
  BY <1>1, <1>2

LEMMA MarkStep ==
  ASSUME MemoryAssumption, WorkTypes, PolicyInv, WorkInv, Mark
  PROVE  PolicyInv' /\ WorkerWrites
<1> DEFINE p == worker.source
<1>1. worker # Idle /\ worker.copy.approval # "withdrawn" /\ sources[p] # None /\ barred' = barred /\ misplaced' = misplaced
  BY DEF Mark, At, Idle, WorkInv, history
<1>2. p \in Sources
  BY <1>1, WorkerParts
<1>3. CASE sources' = sources
  BY <1>1, <1>3, SameWrites
<1>4. CASE Unchanged /\ sources' = [sources EXCEPT ![p].status = "syncing"]
  <2>1. PICK r \in Registration : r = sources[p]
    BY <1>1, <1>2 DEF PolicyInv, Typed
  <2>2. PICK q : q = [r EXCEPT !.status = "syncing"]
    OBVIOUS
  <2>3. sources' = [sources EXCEPT ![p] = q]
    BY <1>4, <2>1, <2>2
  <2>4. /\ q \in Registration
        /\ q.parent = r.parent /\ q.before = r.before /\ q.approval = r.approval /\ q.scope = r.scope
        /\ q.include = r.include /\ q.text = r.text /\ q.status = "syncing"
    BY <2>2, StatusRecord
  <2>5. sources[p].approval # "withdrawn"
    BY <1>1, <1>4 DEF Unchanged, PolicyVersion
  <2>6. /\ q.parent = sources[p].parent /\ q.before = sources[p].before /\ q.approval = sources[p].approval
        /\ q.scope = sources[p].scope /\ q.include = sources[p].include /\ q.text = sources[p].text
    BY <2>1, <2>4
  <2> HIDE DEF p
  <2>7. /\ PolicyInv'
        /\ SameText(sources, sources')
        /\ \A s \in Sources : sources[s] # None => sources'[s] # None
        /\ sources'[p] = q /\ \A s \in Sources \ {p} : sources'[s] = sources[s]
        /\ \A s \in Sources : Active(sources', s) => Active(sources, s)
    BY <1>1, <1>2, <2>3, <2>4, <2>5, <2>6, WriteStep
  <2> QED
    BY <1>2, <2>4, <2>7 DEF WorkerWrites, p
<1> QED
  BY <1>3, <1>4 DEF Mark

LEMMA FailStep ==
  ASSUME MemoryAssumption, WorkTypes, PolicyInv, WorkInv, FailSource
  PROVE  PolicyInv' /\ WorkerWrites
<1> DEFINE p == worker.source
<1>1. worker # Idle /\ sources[p] # None /\ barred' = barred /\ misplaced' = misplaced
  BY DEF FailSource, At, Idle, WorkInv, history
<1>2. p \in Sources
  BY <1>1, WorkerParts
<1>3. CASE sources' = sources
  BY <1>1, <1>3, SameWrites
<1>4. CASE Active(sources, p) /\ sources' = [sources EXCEPT ![p].status = "failed"]
  <2>1. PICK r \in Registration : r = sources[p]
    BY <1>1, <1>2 DEF PolicyInv, Typed
  <2>2. PICK q : q = [r EXCEPT !.status = "failed"]
    OBVIOUS
  <2>3. sources' = [sources EXCEPT ![p] = q]
    BY <1>4, <2>1, <2>2
  <2>4. /\ q \in Registration
        /\ q.parent = r.parent /\ q.before = r.before /\ q.approval = r.approval /\ q.scope = r.scope
        /\ q.include = r.include /\ q.text = r.text /\ q.status = "failed"
    BY <2>2, StatusRecord
  <2>5. sources[p].approval # "withdrawn"
    BY <1>4 DEF Active
  <2>6. /\ q.parent = sources[p].parent /\ q.before = sources[p].before /\ q.approval = sources[p].approval
        /\ q.scope = sources[p].scope /\ q.include = sources[p].include /\ q.text = sources[p].text
    BY <2>1, <2>4
  <2> HIDE DEF p
  <2>7. /\ PolicyInv'
        /\ SameText(sources, sources')
        /\ \A s \in Sources : sources[s] # None => sources'[s] # None
        /\ sources'[p] = q /\ \A s \in Sources \ {p} : sources'[s] = sources[s]
        /\ \A s \in Sources : Active(sources', s) => Active(sources, s)
    BY <1>1, <1>2, <2>3, <2>4, <2>5, <2>6, WriteStep
  <2> QED
    BY <1>2, <2>4, <2>7 DEF WorkerWrites, p
<1> QED
  BY <1>3, <1>4 DEF FailSource

LEMMA FinishStep ==
  ASSUME MemoryAssumption, StoreTypes, WorkTypes, PolicyInv, WorkInv, Finish
  PROVE  /\ PolicyInv' /\ WorkerWrites
         /\ \/ ~Unchanged /\ sources' = sources /\ worker'.pc = "fail"
            \/ /\ Unchanged /\ worker'.pc = "close"
               /\ \A s \in Sources \ {worker.source} : sources'[s] = sources[s]
               /\ sources'[worker.source].capture = worker.page.content
               /\ sources'[worker.source].dataset = worker.dataset
               /\ sources'[worker.source].generation = generation
               /\ sources'[worker.source].text = sources[worker.source].text
               /\ sources'[worker.source].approval = worker.copy.approval
               /\ sources'[worker.source].status = IF worker.copy.approval = "approved" THEN "ready" ELSE "pending"
<1> DEFINE p == worker.source
<1>1. /\ worker # Idle /\ worker.pc = "finish" /\ worker.copy.approval # "withdrawn" /\ sources[p] # None
      /\ worker.page # None /\ barred' = barred /\ misplaced' = misplaced
  BY DEF Finish, At, Idle, WorkInv, history, Reading, Discovering
<1>2. p \in Sources
  BY <1>1, WorkerParts
<1>3. CASE ~Unchanged
  <2>1. sources' = sources /\ Goto("fail")
    BY <1>3 DEF Finish
  <2>2. worker'.pc = "fail"
    BY <1>1, <2>1 DEF Goto, Continue, WorkTypes, Working, Idle
  <2> QED
    BY <1>1, <1>3, <2>1, <2>2, SameWrites
<1>4. CASE Unchanged
  <2>1. PICK r \in Registration : r = sources[p]
    BY <1>1, <1>2 DEF PolicyInv, Typed
  <2>2. PICK q : q = Synchronized(r)
    OBVIOUS
  <2>3. sources' = [sources EXCEPT ![p] = q] /\ Goto("close")
    BY <1>4, <2>1, <2>2 DEF Finish
  <2>4. /\ q \in Registration
        /\ q.parent = r.parent /\ q.before = r.before /\ q.approval = r.approval /\ q.scope = r.scope
        /\ q.include = r.include /\ q.text = r.text
        /\ q.capture = worker.page.content /\ q.dataset = worker.dataset /\ q.generation = generation
        /\ q.status = IF worker.copy.approval = "approved" THEN "ready" ELSE "pending"
    BY <1>1, <2>2, SynchronizedRecord
  <2>5. sources[p].approval = worker.copy.approval
    BY <1>4 DEF Unchanged, PolicyVersion
  <2>6. /\ q.parent = sources[p].parent /\ q.before = sources[p].before /\ q.approval = sources[p].approval
        /\ q.scope = sources[p].scope /\ q.include = sources[p].include /\ q.text = sources[p].text
    BY <2>1, <2>4
  <2>7. worker'.pc = "close"
    BY <1>1, <2>3 DEF Goto, Continue, WorkTypes, Working, Idle
  <2> HIDE DEF p
  <2>8. /\ PolicyInv'
        /\ SameText(sources, sources')
        /\ \A s \in Sources : sources[s] # None => sources'[s] # None
        /\ sources'[p] = q /\ \A s \in Sources \ {p} : sources'[s] = sources[s]
        /\ \A s \in Sources : Active(sources', s) => Active(sources, s)
    BY <1>1, <1>2, <2>3, <2>4, <2>5, <2>6, WriteStep
  <2>9. WorkerWrites
    BY <1>1, <1>2, <2>7, <2>8 DEF WorkerWrites, p
  <2> QED
    BY <1>4, <2>4, <2>5, <2>6, <2>7, <2>8, <2>9 DEF p
<1> QED
  BY <1>3, <1>4

LEMMA ReconcileStep ==
  ASSUME MemoryAssumption, StoreTypes, WorkTypes, PolicyInv, WorkInv, SeenInv, Reconcile
  PROVE  PolicyInv' /\ WorkerWrites /\ sources'[worker.source] = sources[worker.source]
<1> DEFINE p == worker.source
           found == worker.page.found
<1>1. /\ worker # Idle /\ worker.pc = "reconcile" /\ sources[p] # None /\ worker.page # None
      /\ barred' = barred /\ misplaced' = misplaced
  BY DEF Reconcile, At, Idle, WorkInv, history, Reading, Discovering
<1>2. p \in Pages /\ p \in Sources /\ found \in SUBSET Pages /\ found \subseteq Sources
  BY <1>1, WorkerParts DEF SeenInv, Fetches, MemoryAssumption
<1>3. CASE sources' = sources
  BY <1>1, <1>3, SameWrites
<1>4. CASE /\ worker.snapshot = [x \in Inspected |-> sources[x]] /\ ~TooMany(sources, found)
           /\ sources' = Reconciled(sources, p, found)
  <2> DEFINE seen == worker.snapshot
  <2>1. /\ seen[p] # None /\ seen[p].approval # "withdrawn" /\ seen[p].include
        /\ \A s \in found : seen[s] # None /\ seen[s].parent # p => seen[s].scope = seen[p].scope
        /\ found \cap AncestorsOf(sources, p) = {}
    BY <1>1 DEF SeenInv
  <2>2. seen[p] = sources[p] /\ \A s \in found : seen[s] = sources[s]
    BY <1>4 DEF Inspected
  <2> HIDE DEF p, found, seen
  <2>3. Fits(sources, p, found)
    BY <1>1, <2>1, <2>2 DEF Fits, Active
  <2>4. PICK after : after = sources'
    OBVIOUS
  <2>5. /\ Typed(sources) /\ TreeOf(sources) /\ Few(sources)
        /\ barred \subseteq Sources /\ \A x \in barred : Out(sources, x)
        /\ ~misplaced => Agreed(sources)
    BY DEF PolicyInv
  <2>6. /\ Typed(after) /\ TreeOf(after) /\ Edited(sources, after) /\ SameText(sources, after)
        /\ Registered(after) = Registered(sources) \cup found
        /\ p \notin found /\ after[p] = sources[p]
        /\ \A s \in Sources : Out(sources, s) => Out(after, s)
        /\ \A s \in Sources \ found : Active(after, s) => Active(sources, s)
        /\ Agreed(sources) => Agreed(after)
    BY <1>2, <1>4, <2>3, <2>4, <2>5, ReconcileBranch
  <2>7. Few(after)
    <3>1. IsFiniteSet(Registered(after))
      BY FS_Subset DEF Registered, MemoryAssumption
    <3>2. /\ Cardinality(Registered(after) \cap Pages) <= Cardinality(Registered(after))
          /\ IsFiniteSet(Registered(after) \cap Pages)
      BY <3>1, FS_Subset
    <3>3. /\ Cardinality(Registered(after) \cap Pages) \in Nat /\ Cardinality(Registered(after)) \in Nat
          /\ MaxSources \in Nat
      BY <3>1, <3>2, FS_CardinalityType DEF MemoryAssumption
    <3>4. Cardinality(Registered(after)) <= MaxSources
      BY <1>4, <2>6, <3>3 DEF TooMany
    <3> QED
      BY <3>2, <3>3, <3>4 DEF Few
  <2>8. PolicyInv'
    BY <1>1, <2>4, <2>5, <2>6, <2>7 DEF PolicyInv
  <2>9. WorkerWrites
    BY <1>2, <2>4, <2>6 DEF WorkerWrites, Edited, p
  <2> QED
    BY <2>4, <2>6, <2>8, <2>9 DEF p
<1> QED
  BY <1>3, <1>4 DEF Reconcile

\* The other steps of the worker write no registration.
Reads == Pick \/ Skip \/ Claim \/ Read \/ SaveCapture \/ StartIndex \/ EndIndex \/ Discover \/ Verify \/ Close
           \/ QueueChild \/ FailJob \/ CallFails

LEMMA ReadsStep ==
  ASSUME PolicyInv, Reads
  PROVE  PolicyInv' /\ WorkerWrites /\ sources' = sources
<1>1. UNCHANGED <<sources, barred, misplaced>>
  BY DEF Reads, Pick, Skip, Claim, Read, SaveCapture, StartIndex, EndIndex, Discover, Verify, Close, QueueChild,
         FailJob, CallFails, store, history
<1> QED
  BY <1>1, SameWrites

LEMMA WorkerPolicy ==
  ASSUME MemoryAssumption, StoreTypes, WorkTypes, PolicyInv, WorkInv, SeenInv, Worker \/ CallFails
  PROVE  PolicyInv' /\ WorkerWrites
BY ReadsStep, MarkStep, FailStep, FinishStep, ReconcileStep DEF Worker, Reads

-----------------------------------------------------------------------------
(* How the worker moves on.                                                *)

LEMMA OneOf ==
  ASSUME NEW S, NEW a \in S
  PROVE  Append(<<>>, a) = <<a>> /\ Append(<<>>, a) \in Seq(S)
OBVIOUS

LEMMA TwoOf ==
  ASSUME NEW S, NEW q \in Seq(S), Len(q) = 2
  PROVE  q = <<q[1], q[2]>>
OBVIOUS

LEMMA Joined ==
  ASSUME NEW S, NEW p \in Seq(S), NEW d \in Seq(S), NEW r, r = p \o d
  PROVE  /\ r \in Seq(S) /\ Len(r) = Len(p) + Len(d)
         /\ \A i \in 1..Len(p) : r[i] = p[i]
         /\ \A i \in (Len(p) + 1)..(Len(p) + Len(d)) : r[i] = d[i - Len(p)]
OBVIOUS

LEMMA Pairs ==
  ASSUME NEW S, NEW a \in S, NEW b \in S
  PROVE  Append(<<a>>, b) = <<a, b>> /\ <<a>> \o <<b>> = <<a, b>>
<1>1. PICK p \in Seq(S) : p = Append(<<>>, a)
  BY OneOf
<1>2. PICK d \in Seq(S) : d = Append(<<>>, b)
  BY OneOf
<1>3. Len(p) = 1 /\ p[1] = a
  BY <1>1
<1>4. Len(d) = 1 /\ d[1] = b
  BY <1>2
<1>5. p = <<a>> /\ d = <<b>>
  BY <1>1, <1>2, OneOf
<1>6. Append(p, b) \in Seq(S)
  OBVIOUS
<1>7. PICK q \in Seq(S) : q = Append(p, b)
  BY <1>6
<1>8. Len(q) = 2 /\ q[1] = a /\ q[2] = b
  BY <1>3, <1>7
<1>9. PICK r : r = p \o d
  OBVIOUS
<1>10. /\ r \in Seq(S) /\ Len(r) = Len(p) + Len(d)
       /\ \A i \in 1..Len(p) : r[i] = p[i]
       /\ \A i \in (Len(p) + 1)..(Len(p) + Len(d)) : r[i] = d[i - Len(p)]
  BY <1>9, Joined
<1>11. Len(r) = 2 /\ r[1] = a /\ r[2] = b
  BY <1>3, <1>4, <1>10
<1>12. q = <<a, b>> /\ r = <<a, b>>
  BY <1>8, <1>10, <1>11, TwoOf
<1> QED
  BY <1>5, <1>7, <1>9, <1>12

LEMMA Turns ==
  /\ Tail(<<"worker">>) = <<>> /\ Tail(<<"worker", "recorder">>) = <<"recorder">>
  /\ Tail(<<"recorder">>) = <<>> /\ Tail(<<"recorder", "worker">>) = <<"worker">>
  /\ <<>> \o <<>> = <<>> /\ <<>> \o <<"worker">> = <<"worker">>
  /\ <<"recorder">> \o <<>> = <<"recorder">> /\ <<"recorder">> \o <<"worker">> = <<"recorder", "worker">>
  /\ Append(<<>>, "recorder") = <<"recorder">> /\ Append(<<"worker">>, "recorder") = <<"worker", "recorder">>
  /\ Head(<<"worker">>) = "worker" /\ Head(<<"worker", "recorder">>) = "worker"
  /\ Head(<<"recorder">>) = "recorder" /\ Head(<<"recorder", "worker">>) = "recorder"
  /\ <<"recorder", "worker">> # <<"worker", "recorder">>
<1>1. /\ Tail(<<"worker">>) = <<>> /\ Tail(<<"worker", "recorder">>) = <<"recorder">>
      /\ Tail(<<"recorder">>) = <<>> /\ Tail(<<"recorder", "worker">>) = <<"worker">>
  OBVIOUS
<1>2. <<>> \o <<>> = <<>> /\ <<>> \o <<"worker">> = <<"worker">> /\ <<"recorder">> \o <<>> = <<"recorder">>
  OBVIOUS
<1>3. /\ <<"recorder">> \o <<"worker">> = <<"recorder", "worker">>
      /\ Append(<<"worker">>, "recorder") = <<"worker", "recorder">>
  <2>1. "worker" \in {"worker", "recorder"} /\ "recorder" \in {"worker", "recorder"}
    OBVIOUS
  <2> QED
    BY <2>1, Pairs
<1>4. Append(<<>>, "recorder") = <<"recorder">>
  OBVIOUS
<1>5. /\ Head(<<"worker">>) = "worker" /\ Head(<<"worker", "recorder">>) = "worker"
      /\ Head(<<"recorder">>) = "recorder" /\ Head(<<"recorder", "worker">>) = "recorder"
  OBVIOUS
<1>6. <<"recorder", "worker">> # <<"worker", "recorder">>
  OBVIOUS
<1> QED
  BY <1>1, <1>2, <1>3, <1>4, <1>5, <1>6

LEMMA ChainStep ==
  ASSUME ChainInv, recorder' = recorder, NEW next, Continue(next),
         worker.pc \in StoreSteps => Head(chain) = "worker"
  PROVE  /\ ChainInv' /\ worker' = next
         /\ worker.pc \in StoreSteps /\ recorder # Idle => chain = <<"worker", "recorder">>
         /\ worker.pc \in StoreSteps /\ recorder # Idle /\ next.pc \in StoreSteps => chain' = <<"recorder", "worker">>
<1>1. /\ worker' = next
      /\ chain' = (IF worker.pc \in StoreSteps THEN Tail(chain) ELSE chain)
                  \o (IF next.pc \in StoreSteps THEN <<"worker">> ELSE <<>>)
  BY DEF Continue
<1>2. PICK rest : rest = IF worker.pc \in StoreSteps THEN Tail(chain) ELSE chain
  OBVIOUS
<1>3. /\ worker.pc \in StoreSteps /\ recorder # Idle => chain = <<"worker", "recorder">>
      /\ recorder = Idle => rest = <<>>
      /\ recorder # Idle => rest = <<"recorder">>
  BY <1>2, Turns DEF ChainInv
<1>4. /\ next.pc \in StoreSteps => chain' = rest \o <<"worker">>
      /\ next.pc \notin StoreSteps => chain' = rest \o <<>>
  BY <1>1, <1>2
<1>5. CASE recorder = Idle
  BY <1>1, <1>3, <1>4, <1>5, Turns DEF ChainInv
<1>6. CASE recorder # Idle
  BY <1>1, <1>3, <1>4, <1>6, Turns DEF ChainInv
<1> QED
  BY <1>3, <1>5, <1>6

\* Only the step changes.
Stays == worker'.source = worker.source /\ worker'.copy = worker.copy

LEMMA Going ==
  ASSUME WorkTypes, worker # Idle, NEW pc \in Steps, Goto(pc)
  PROVE  /\ worker' \in Working /\ worker'.pc = pc /\ Stays
         /\ worker'.page = worker.page /\ worker'.dataset = worker.dataset /\ worker'.snapshot = worker.snapshot
         /\ worker'.todo = worker.todo
BY DEF Goto, Continue, WorkTypes, Working, Stays

LEMMA StepNames ==
  /\ Reading \subseteq Synchronizing /\ Synchronizing \subseteq Steps /\ Beginning \subseteq Steps
  /\ Steps = Beginning \cup Synchronizing \cup {"children"}
  /\ \A pc \in Steps : pc # "idle"
BY DEF Reading, Discovering, Synchronizing, Beginning, Steps, StoreSteps

LEMMA PickMoves ==
  ASSUME MemoryAssumption, WorkTypes, JobsInv, PolicyInv, Pick
  PROVE  /\ worker = Idle /\ worker.pc = "idle" /\ worker' \in Working
         /\ jobs # <<>> /\ jobs[1] = Asked(worker'.source)
         /\ worker'.copy = sources[worker'.source] /\ sources[worker'.source] # None
         /\ \/ worker'.pc = "claim" /\ worker'.copy.approval # "withdrawn"
            \/ worker'.pc = "skip" /\ worker'.copy.approval = "withdrawn"
         /\ UNCHANGED <<sources, jobs, captures, bindings, events, version, recorder, indexer, generation, retriever>>
<1>1. worker = Idle /\ worker.pc = "idle" /\ jobs # <<>> /\ jobs \in Seq(Jobs)
  BY DEF Pick, Idle, JobsInv
<1>2. 1 \in DOMAIN jobs /\ Head(jobs) = jobs[1] /\ jobs[1] \in Jobs
  BY <1>1
<1>3. PICK s \in Sources : jobs[1].source = s
  BY <1>2 DEF Jobs
<1>4. sources[s] # None /\ sources[s] \in Registration
  BY <1>2, <1>3 DEF JobsInv, PolicyInv, Typed
<1>5. jobs[1].status = "queued" /\ jobs[1] = Asked(s)
  BY <1>1, <1>2, <1>3 DEF JobsInv, Jobs, Asked
<1>6. worker' = [pc |-> IF Active(sources, s) THEN "claim" ELSE "skip", source |-> s, copy |-> sources[s],
                 page |-> None, dataset |-> None, snapshot |-> None, todo |-> {}]
  BY <1>2, <1>3 DEF Pick, Continue
<1>7. worker' \in Working /\ worker'.source = s /\ worker'.copy = sources[s]
  BY <1>4, <1>6 DEF Working, Steps, StoreSteps
<1>8. \/ worker'.pc = "claim" /\ worker'.copy.approval # "withdrawn"
      \/ worker'.pc = "skip" /\ worker'.copy.approval = "withdrawn"
  BY <1>4, <1>6 DEF Active
<1>9. UNCHANGED <<sources, jobs, captures, bindings, events, version, recorder, indexer, generation, retriever>>
  BY DEF Pick, store, world
<1> QED
  BY <1>1, <1>4, <1>5, <1>7, <1>8, <1>9

LEMMA ReadMoves ==
  ASSUME MemoryAssumption, StoreTypes, WorkTypes, Read
  PROVE  /\ worker.pc = "read" /\ worker' \in Working /\ Stays
         /\ \/ worker'.pc = "fail"
            \/ /\ worker'.pc = "save" /\ worker'.page # None
               /\ worker'.page.content = IF worker.source \in Reviews THEN worker.copy.text ELSE version[worker.source]
<1>1. worker.pc = "read" /\ worker # Idle /\ worker \in Working
  BY DEF Read, At, Idle, WorkTypes
<1>2. CASE Goto("fail")
  BY <1>1, <1>2, Going DEF Steps, StoreSteps
<1>3. CASE ~Goto("fail")
  <2> DEFINE s == worker.source
             page == [content |-> IF s \in Reviews THEN worker.copy.text ELSE version[s],
                      parent |-> IF s \in Pages THEN tree[s] ELSE None,
                      found |-> IF s \in Pages THEN {p \in Pages : tree[p] = s} ELSE {}]
  <2>1. worker' = [worker EXCEPT !.pc = "save", !.page = page]
    BY <1>3 DEF Read, Continue
  <2>2. s \in Sources /\ worker.copy \in Registration
    BY <1>1 DEF Working
  <2>3. worker.copy.text \in Nat /\ version[s] \in Nat /\ (s \in Pages => tree[s] \in Pages \cup {None})
    BY <2>2, RegistrationParts DEF StoreTypes
  <2>4. page \in Fetches
    BY <2>3 DEF Fetches
  <2>5. page # None
    BY <2>4 DEF Fetches, MemoryAssumption
  <2>6. page.content = IF s \in Reviews THEN worker.copy.text ELSE version[s]
    OBVIOUS
  <2> HIDE DEF page
  <2>7. worker' \in Working /\ Stays /\ worker'.pc = "save" /\ worker'.page = page
    BY <1>1, <2>1, <2>4 DEF Working, Stays, Steps, StoreSteps
  <2> QED
    BY <1>1, <2>5, <2>6, <2>7
<1> QED
  BY <1>2, <1>3

LEMMA SkipMoves ==
  ASSUME WorkTypes, Skip \/ FailJob
  PROVE  /\ worker # Idle /\ worker.pc \in {"skip", "failjob"} /\ worker' = Idle /\ jobs' = Tail(jobs)
         /\ Head(chain) = "worker"
BY DEF Skip, FailJob, At, Idle, Continue, Rest, StoreSteps

LEMMA ClaimMoves ==
  ASSUME WorkTypes, Claim
  PROVE  /\ worker # Idle /\ worker.pc = "claim" /\ worker' \in Working /\ worker'.pc = "mark" /\ Stays
         /\ jobs' = [jobs EXCEPT ![1].status = "running"]
         /\ Head(chain) = "worker"
<1>1. worker # Idle /\ worker.pc = "claim" /\ Head(chain) = "worker"
  BY DEF Claim, At, Idle, StoreSteps
<1>2. "mark" \in Steps /\ Goto("mark")
  BY DEF Claim, Steps, StoreSteps
<1> QED
  BY <1>1, <1>2, Going DEF Claim

LEMMA MarkMoves ==
  ASSUME MemoryAssumption, WorkTypes, PolicyInv, WorkInv, Mark
  PROVE  /\ worker # Idle /\ worker.pc = "mark" /\ worker' \in Working /\ Stays
         /\ \/ worker'.pc = "read" /\ NotReady(worker.source)'
            \/ worker'.pc = "fail" /\ ~Unchanged /\ sources' = sources
<1>1. worker # Idle /\ worker.pc = "mark" /\ worker.source \in Sources
  BY WorkerParts DEF Mark, At, Idle
<1>2. CASE ~Unchanged
  <2>1. "fail" \in Steps /\ Goto("fail") /\ sources' = sources
    BY <1>2 DEF Mark, Steps, StoreSteps
  <2> QED
    BY <1>1, <1>2, <2>1, Going
<1>3. CASE Unchanged
  <2>1. "read" \in Steps /\ Goto("read") /\ sources' = [sources EXCEPT ![worker.source].status = "syncing"]
    BY <1>3 DEF Mark, Steps, StoreSteps
  <2>2. PICK r \in Registration : r = sources[worker.source]
    BY <1>1 DEF PolicyInv, Typed, WorkInv
  <2>3. PICK q : q = [r EXCEPT !.status = "syncing"]
    OBVIOUS
  <2>4. q.status = "syncing"
    BY <2>3, StatusRecord
  <2>5. sources'[worker.source] = q
    BY <1>1, <2>1, <2>2, <2>3 DEF PolicyInv, Typed
  <2>6. worker' \in Working /\ worker'.pc = "read" /\ Stays
    BY <1>1, <2>1, Going
  <2> QED
    BY <1>1, <2>4, <2>5, <2>6 DEF NotReady, Stays
<1> QED
  BY <1>2, <1>3

LEMMA SaveMoves ==
  ASSUME MemoryAssumption, StoreTypes, WorkTypes, WorkInv, SaveCapture
  PROVE  /\ worker # Idle /\ worker.pc = "save" /\ worker' \in Working /\ Stays /\ worker'.page = worker.page
         /\ captures' = captures \cup {<<worker.source, worker.page.content>>}
         /\ \/ worker'.pc = "fail" /\ indexer' = indexer
            \/ /\ worker'.pc = "discover" /\ indexer' = indexer
               /\ worker.copy.approval = "approved" =>
                    worker'.dataset = Binding(worker.source, worker.page.content) /\ worker'.dataset \in bindings
            \/ worker'.pc = "index" /\ worker.copy.approval = "approved" /\ indexer' = indexer
            \/ /\ worker'.pc = "indexing" /\ worker.copy.approval = "approved" /\ indexer = None
               /\ indexer' = Binding(worker.source, worker.page.content)
               /\ Binding(worker.source, worker.page.content) \notin bindings
<1> DEFINE binding == Binding(worker.source, worker.page.content)
<1>1. worker # Idle /\ worker.pc = "save" /\ worker \in Working /\ worker.page # None
  BY DEF SaveCapture, At, Idle, WorkTypes, WorkInv, Reading
<1>2. captures' = captures \cup {<<worker.source, worker.page.content>>}
  BY DEF SaveCapture
<1>3. {"fail", "discover", "index", "indexing"} \subseteq Steps
  BY DEF Steps, StoreSteps
<1>4. CASE Goto("fail") /\ UNCHANGED indexer
  BY <1>1, <1>2, <1>3, <1>4, Going
<1>5. CASE worker.copy.approval # "approved" /\ Goto("discover") /\ UNCHANGED indexer
  BY <1>1, <1>2, <1>3, <1>5, Going
<1>6. CASE binding \in bindings /\ Continue([worker EXCEPT !.pc = "discover", !.dataset = binding]) /\ UNCHANGED indexer
  <2>1. binding \in Datasets
    BY <1>6 DEF StoreTypes
  <2> HIDE DEF binding
  <2>2. worker' = [worker EXCEPT !.pc = "discover", !.dataset = binding]
    BY <1>6 DEF Continue
  <2>3. worker' \in Working /\ Stays /\ worker'.pc = "discover" /\ worker'.page = worker.page /\ worker'.dataset = binding
    BY <1>1, <1>3, <2>1, <2>2 DEF Working, Stays
  <2> QED
    BY <1>1, <1>2, <1>6, <2>3 DEF binding
<1>7. CASE worker.copy.approval = "approved" /\ binding \notin bindings /\ indexer = None /\ Goto("indexing") /\ indexer' = binding
  BY <1>1, <1>2, <1>3, <1>7, Going
<1>8. CASE worker.copy.approval = "approved" /\ Goto("index") /\ UNCHANGED indexer
  BY <1>1, <1>2, <1>3, <1>8, Going
<1> QED
  BY <1>4, <1>5, <1>6, <1>7, <1>8 DEF SaveCapture

LEMMA StartMoves ==
  ASSUME MemoryAssumption, StoreTypes, WorkTypes, WorkInv, StartIndex
  PROVE  /\ worker # Idle /\ worker.pc = "index" /\ worker' \in Working /\ Stays /\ worker'.page = worker.page
         /\ indexer = None
         /\ \/ worker'.pc = "fail" /\ indexer' = indexer
            \/ /\ worker'.pc = "discover" /\ indexer' = indexer
               /\ worker'.dataset = Binding(worker.source, worker.page.content) /\ worker'.dataset \in bindings
            \/ /\ worker'.pc = "indexing" /\ indexer' = Binding(worker.source, worker.page.content)
               /\ Binding(worker.source, worker.page.content) \notin bindings
<1> DEFINE binding == Binding(worker.source, worker.page.content)
<1>1. worker # Idle /\ worker.pc = "index" /\ worker \in Working /\ worker.page # None /\ indexer = None
  BY DEF StartIndex, Idle, WorkTypes, WorkInv, Reading
<1>2. {"fail", "discover", "indexing"} \subseteq Steps
  BY DEF Steps, StoreSteps
<1>3. CASE Goto("fail") /\ UNCHANGED indexer
  BY <1>1, <1>2, <1>3, Going
<1>4. CASE binding \in bindings /\ Continue([worker EXCEPT !.pc = "discover", !.dataset = binding]) /\ UNCHANGED indexer
  <2>1. binding \in Datasets
    BY <1>4 DEF StoreTypes
  <2> HIDE DEF binding
  <2>2. worker' = [worker EXCEPT !.pc = "discover", !.dataset = binding]
    BY <1>4 DEF Continue
  <2>3. worker' \in Working /\ Stays /\ worker'.pc = "discover" /\ worker'.page = worker.page /\ worker'.dataset = binding
    BY <1>1, <1>2, <2>1, <2>2 DEF Working, Stays
  <2> QED
    BY <1>1, <1>4, <2>3 DEF binding
<1>5. CASE binding \notin bindings /\ Goto("indexing") /\ indexer' = binding
  BY <1>1, <1>2, <1>5, Going
<1> QED
  BY <1>3, <1>4, <1>5 DEF StartIndex

LEMMA EndMoves ==
  ASSUME MemoryAssumption, StoreTypes, WorkTypes, WorkInv, EndIndex
  PROVE  /\ worker # Idle /\ worker.pc = "indexing" /\ worker' \in Working /\ Stays /\ worker'.page = worker.page
         /\ worker'.pc = "discover" /\ worker'.dataset = Binding(worker.source, worker.page.content)
         /\ indexer = worker'.dataset /\ indexer # None /\ indexer' = None
         /\ bindings' = bindings \cup {worker'.dataset}
<1> DEFINE binding == Binding(worker.source, worker.page.content)
<1>1. /\ worker # Idle /\ worker.pc = "indexing" /\ worker \in Working /\ worker.page # None
      /\ indexer = binding
  BY DEF EndIndex, Idle, WorkTypes, WorkInv, Reading
<1>2. worker.source \in Sources /\ worker.page.content \in Nat /\ generation \in Nat
  BY <1>1, WorkerParts DEF Fetches, StoreTypes
<1>3. binding \in Datasets /\ binding # None
  BY <1>2 DEF Datasets, Binding, MemoryAssumption
<1> HIDE DEF binding
<1>4. worker' = [worker EXCEPT !.pc = "discover", !.dataset = binding]
  BY <1>1 DEF EndIndex, Continue
<1>5. "discover" \in Steps
  BY DEF Steps
<1>6. worker' \in Working /\ Stays /\ worker'.pc = "discover" /\ worker'.page = worker.page /\ worker'.dataset = binding
  BY <1>1, <1>3, <1>4, <1>5 DEF Working, Stays
<1>7. indexer' = None /\ bindings' = bindings \cup {indexer}
  BY DEF EndIndex
<1> QED
  BY <1>1, <1>3, <1>6, <1>7 DEF binding

LEMMA DiscoverMoves ==
  ASSUME MemoryAssumption, StoreTypes, WorkTypes, PolicyInv, WorkInv, Discover
  PROVE  /\ worker # Idle /\ worker.pc = "discover" /\ worker' \in Working /\ Stays /\ worker'.page = worker.page
         /\ worker'.dataset = worker.dataset
         /\ \/ worker'.pc = "fail"
            \/ worker'.pc = "finish"
            \/ worker'.pc \in {"reconcile", "verify"} /\ SeenInv'
<1> DEFINE s == worker.source
           found == worker.page.found
           snapshot == [x \in Inspected |-> sources[x]]
<1>1. worker # Idle /\ worker.pc = "discover" /\ worker \in Working /\ worker.page \in Fetches
  BY DEF Discover, Idle, WorkTypes, WorkInv, Reading, Discovering, Working
<1>2. {"fail", "finish", "reconcile", "verify"} \subseteq Steps
  BY DEF Steps, StoreSteps
<1>3. CASE Goto("fail") \/ Goto("finish")
  BY <1>1, <1>2, <1>3, Going
<1>4. CASE /\ Unchanged /\ s \in Pages /\ sources[s].include /\ ~Refused(sources, s, found)
           /\ \E pc \in {"reconcile", "verify"} : worker' = [worker EXCEPT !.snapshot = snapshot, !.pc = pc]
  <2>1. s \in Sources /\ found \subseteq Pages /\ sources[s] # None /\ worker.copy.approval # "withdrawn"
    BY <1>1 DEF Working, Fetches, WorkInv
  <2>2. Inspected \subseteq Sources
    BY <2>1 DEF Inspected, MemoryAssumption
  <2>3. snapshot \in [Inspected -> Registration \cup {None}]
    BY <2>2 DEF PolicyInv, Typed
  <2>4. snapshot \in Snapshots
    BY <2>2, <2>3 DEF Snapshots
  <2>6. snapshot[s] = sources[s] /\ \A x \in found : snapshot[x] = sources[x]
    BY DEF Inspected
  <2>7. sources[s].approval # "withdrawn"
    BY <1>4, <2>1 DEF Unchanged, PolicyVersion
  <2>8. found \cap AncestorsOf(sources, s) = {}
    BY <1>4 DEF Refused
  <2>9. ASSUME NEW x \in found, sources[x] # None, sources[x].parent # s
        PROVE  sources[x].scope = sources[s].scope
    <3>1. x \in Elsewhere(sources, s, found)
      BY <2>1, <2>9 DEF Elsewhere, Registered, MemoryAssumption
    <3> QED
      BY <1>4, <3>1 DEF Refused, SameScope
  <2> HIDE DEF snapshot, s, found
  <2>10. PICK pc \in {"reconcile", "verify"} : worker' = [worker EXCEPT !.snapshot = snapshot, !.pc = pc]
    BY <1>4
  <2>11. /\ worker' \in Working /\ Stays /\ worker'.pc = pc /\ worker'.page = worker.page
         /\ worker'.dataset = worker.dataset /\ worker'.snapshot = snapshot
    BY <1>1, <1>2, <2>4, <2>10 DEF Working, Stays
  <2>12. sources' = sources
    BY DEF Discover, store
  <2>13. worker'.source = s /\ worker'.page.found = found
    BY <2>11 DEF Stays, s, found
  <2>14. Inspected' = Inspected
    BY <2>11, <2>13 DEF Inspected, s, found
  <2>15. SeenInv'
    BY <1>4, <2>1, <2>3, <2>6, <2>7, <2>8, <2>9, <2>11, <2>12, <2>13, <2>14 DEF SeenInv
  <2> QED
    BY <1>1, <2>10, <2>11, <2>15
<1>5. ASSUME Unchanged, s \in Pages, sources[s].include, ~Refused(sources, s, found)
      PROVE  \E pc \in {"reconcile", "verify"} : worker' = [worker EXCEPT !.snapshot = snapshot, !.pc = pc]
  <2>1. PICK pc : pc = IF Moved(sources, s, found) = {} THEN "reconcile" ELSE "verify"
    OBVIOUS
  <2>2. Continue([[worker EXCEPT !.snapshot = snapshot] EXCEPT !.pc = pc])
    BY <1>5, <2>1 DEF Discover
  <2>3. worker' = [worker EXCEPT !.snapshot = snapshot, !.pc = pc]
    BY <1>1, <2>2 DEF Continue, Working
  <2> QED
    BY <2>1, <2>3
<1> QED
  BY <1>3, <1>4, <1>5 DEF Discover

LEMMA VerifyMoves ==
  ASSUME MemoryAssumption, WorkTypes, WorkInv, SeenInv, Verify
  PROVE  /\ worker # Idle /\ worker.pc = "verify" /\ worker' \in Working /\ Stays /\ worker'.page = worker.page
         /\ worker'.dataset = worker.dataset
         /\ \/ worker'.pc = "fail"
            \/ worker'.pc = "reconcile" /\ SeenInv'
<1>1. worker # Idle /\ worker.pc = "verify" /\ sources' = sources
  BY DEF Verify, Idle, store
<1>2. {"fail", "reconcile"} \subseteq Steps
  BY DEF Steps, StoreSteps
<1>3. CASE Goto("fail")
  BY <1>1, <1>2, <1>3, Going
<1>4. CASE Goto("reconcile")
  <2>1. /\ worker' \in Working /\ worker'.pc = "reconcile" /\ Stays
        /\ worker'.page = worker.page /\ worker'.dataset = worker.dataset /\ worker'.snapshot = worker.snapshot
    BY <1>1, <1>2, <1>4, Going
  <2>2. SeenInv'
    BY <1>1, <2>1 DEF SeenInv, Inspected, Stays
  <2> QED
    BY <1>1, <2>1, <2>2
<1> QED
  BY <1>3, <1>4 DEF Verify

LEMMA ReconcileMoves ==
  ASSUME MemoryAssumption, WorkTypes, WorkInv, Reconcile
  PROVE  /\ worker # Idle /\ worker.pc = "reconcile" /\ worker' \in Working /\ Stays /\ worker'.page = worker.page
         /\ worker'.dataset = worker.dataset /\ worker'.pc \in {"fail", "finish"}
<1>1. worker # Idle /\ worker.pc = "reconcile" /\ worker \in Working /\ worker.page \in Fetches
  BY DEF Reconcile, At, Idle, WorkTypes, WorkInv, Reading, Discovering, Working
<1>2. {"fail", "finish"} \subseteq Steps
  BY DEF Steps, StoreSteps
<1>3. CASE Goto("fail")
  BY <1>1, <1>2, <1>3, Going
<1>4. CASE \E set \in SUBSET Pages : Continue([worker EXCEPT !.pc = "finish", !.todo = set])
  BY <1>1, <1>2, <1>4 DEF Continue, Working, Stays
<1>5. \A src : {p \in worker.page.found : Active(src, p)} \in SUBSET Pages
  BY <1>1 DEF Fetches
<1> QED
  BY <1>3, <1>4, <1>5 DEF Reconcile

LEMMA FinishMoves ==
  ASSUME WorkTypes, Finish
  PROVE  worker # Idle /\ worker.pc = "finish" /\ worker' \in Working /\ Stays /\ worker'.pc \in {"close", "fail"}
<1>1. worker # Idle /\ worker.pc = "finish" /\ (Goto("close") \/ Goto("fail"))
  BY DEF Finish, At, Idle
<1>2. {"fail", "close"} \subseteq Steps
  BY DEF Steps, StoreSteps
<1> QED
  BY <1>1, <1>2, Going

LEMMA CloseMoves ==
  ASSUME WorkTypes, Close
  PROVE  /\ worker # Idle /\ worker.pc = "close" /\ jobs' = Tail(jobs) /\ Head(chain) = "worker"
         /\ worker' = Idle \/ (worker' \in Working /\ worker'.pc = "children" /\ Stays)
<1>1. worker # Idle /\ worker.pc = "close" /\ jobs' = Tail(jobs) /\ Head(chain) = "worker"
  BY DEF Close, At, Idle, Rest, StoreSteps
<1>2. "children" \in Steps
  BY DEF Steps, StoreSteps
<1>3. Continue(Idle) \/ Goto("children")
  BY DEF Close
<1> QED
  BY <1>1, <1>2, <1>3, Going DEF Continue

LEMMA ChildMoves ==
  ASSUME WorkTypes, QueueChild
  PROVE  /\ worker # Idle /\ worker.pc = "children"
         /\ \E p \in Pages : jobs' = Queue(jobs, sources, p)
         /\ worker' = Idle \/ (worker' \in Working /\ worker'.pc = "children" /\ Stays)
<1>1. worker # Idle /\ worker.pc = "children" /\ worker \in Working
  BY DEF QueueChild, At, Idle, WorkTypes
<1>2. PICK p \in worker.todo : /\ jobs' = Queue(jobs, sources, p)
                               /\ worker' = (IF worker.todo = {p} THEN Idle ELSE [worker EXCEPT !.todo = @ \ {p}])
  BY DEF QueueChild, Continue
<1>3. p \in Pages
  BY <1>1 DEF Working
<1>4. [worker EXCEPT !.todo = @ \ {p}] \in Working
  BY <1>1 DEF Working
<1>5. CASE worker.todo = {p}
  BY <1>1, <1>2, <1>3, <1>5
<1>6. CASE worker.todo # {p}
  <2>1. worker' = [worker EXCEPT !.todo = @ \ {p}]
    BY <1>2, <1>6
  <2>2. worker'.pc = "children" /\ Stays
    BY <1>1, <2>1 DEF Working, Stays
  <2> QED
    BY <1>1, <1>2, <1>3, <1>4, <2>1, <2>2
<1> QED
  BY <1>5, <1>6

LEMMA FailMoves ==
  ASSUME WorkTypes, FailSource \/ CallFails
  PROVE  /\ worker # Idle /\ worker' \in Working /\ Stays
         /\ \/ worker.pc = "fail" /\ worker'.pc = "failjob"
            \/ worker.pc \in {"read", "indexing", "verify", "discover"} /\ worker'.pc = "fail"
<1>1. {"fail", "failjob"} \subseteq Steps
  BY DEF Steps, StoreSteps
<1>2. CASE FailSource
  BY <1>1, <1>2, Going DEF FailSource, At, Idle
<1>3. CASE CallFails
  BY <1>1, <1>3, Going DEF CallFails, Idle
<1> QED
  BY <1>2, <1>3

LEMMA WorkerContinues ==
  ASSUME WorkTypes, Worker \/ CallFails
  PROVE  /\ Continue(worker')
         /\ worker.pc \in StoreSteps => Head(chain) = "worker"
         /\ UNCHANGED <<recorder, generation, events, version, retriever, tree, projects, registrar, misplaced, answer>>
<1> USE DEF store, process, world, history, budgets
<1>1. UNCHANGED <<recorder, generation, events, version, retriever, tree, projects, registrar, misplaced, answer>>
  BY DEF Worker, Pick, Skip, Claim, Mark, Read, SaveCapture, StartIndex, EndIndex, Discover, Verify, Reconcile, Finish,
         Close, QueueChild, FailSource, FailJob, CallFails
<1>2. worker.pc \in StoreSteps => Head(chain) = "worker"
  BY DEF Worker, Pick, Skip, Claim, Mark, Read, SaveCapture, StartIndex, EndIndex, Discover, Verify, Reconcile, Finish,
         Close, QueueChild, FailSource, FailJob, CallFails, At, Idle, StoreSteps
<1>3. \A next : Continue(next) => Continue(worker')
  BY DEF Continue
<1>4. CASE Pick
  BY <1>1, <1>2, <1>3, <1>4 DEF Pick, Goto
<1>5. CASE Skip
  BY <1>1, <1>2, <1>3, <1>5 DEF Skip, Goto
<1>6. CASE Claim
  BY <1>1, <1>2, <1>3, <1>6 DEF Claim, Goto
<1>7. CASE Mark
  BY <1>1, <1>2, <1>3, <1>7 DEF Mark, Goto
<1>8. CASE Read
  BY <1>1, <1>2, <1>3, <1>8 DEF Read, Goto
<1>9. CASE SaveCapture
  BY <1>1, <1>2, <1>3, <1>9 DEF SaveCapture, Goto
<1>10. CASE StartIndex
  BY <1>1, <1>2, <1>3, <1>10 DEF StartIndex, Goto
<1>11. CASE EndIndex
  BY <1>1, <1>2, <1>3, <1>11 DEF EndIndex, Goto
<1>12. CASE Discover
  BY <1>1, <1>2, <1>3, <1>12 DEF Discover, Goto
<1>13. CASE Verify
  BY <1>1, <1>2, <1>3, <1>13 DEF Verify, Goto
<1>14. CASE Reconcile
  BY <1>1, <1>2, <1>3, <1>14 DEF Reconcile, Goto
<1>15. CASE Finish
  BY <1>1, <1>2, <1>3, <1>15 DEF Finish, Goto
<1>16. CASE Close
  BY <1>1, <1>2, <1>3, <1>16 DEF Close, Goto
<1>17. CASE QueueChild
  BY <1>1, <1>2, <1>3, <1>17 DEF QueueChild, Goto
<1>18. CASE FailSource
  BY <1>1, <1>2, <1>3, <1>18 DEF FailSource, Goto
<1>19. CASE FailJob
  BY <1>1, <1>2, <1>3, <1>19 DEF FailJob, Goto
<1>20. CASE CallFails
  BY <1>1, <1>2, <1>3, <1>20 DEF CallFails, Goto
<1> QED
  BY <1>4, <1>5, <1>6, <1>7, <1>8, <1>9, <1>10, <1>11, <1>12, <1>13, <1>14, <1>15, <1>16, <1>17, <1>18, <1>19, <1>20 DEF Worker

LEMMA WorkerChain ==
  ASSUME WorkTypes, ChainInv, RecordInv, Worker \/ CallFails
  PROVE  /\ ChainInv' /\ RecordInv'
         /\ worker.pc \in StoreSteps /\ recorder # Idle => chain = <<"worker", "recorder">>
         /\ worker.pc \in StoreSteps /\ recorder # Idle /\ worker'.pc \in StoreSteps => chain' = <<"recorder", "worker">>
<1>1. PICK next : next = worker' /\ Continue(next)
  BY WorkerContinues
<1>2. (worker.pc \in StoreSteps => Head(chain) = "worker") /\ recorder' = recorder
  BY WorkerContinues
<1>3. RecordInv'
  BY <1>2 DEF RecordInv
<1> QED
  BY <1>1, <1>2, <1>3, ChainStep

\* What the worker is about to do, and what it has for it.
LEMMA WorkerWork ==
  ASSUME MemoryAssumption, StoreTypes, WorkTypes, JobsInv, PolicyInv, WorkInv, SeenInv, Worker \/ CallFails
  PROVE  worker' \in Working \cup {Idle} /\ WorkInv' /\ SeenInv'
<1> USE DEF Reading, Discovering
<1>1. WorkerWrites
  BY WorkerPolicy
<1>2. \A s \in Sources : sources[s] # None => sources'[s] # None
  BY <1>1 DEF WorkerWrites
<1>3. worker # Idle => worker.source \in Sources /\ sources'[worker.source] # None
  BY <1>2, WorkerParts DEF WorkInv
<1>4. \A s, content : Binding(s, content)' = Binding(s, content)
  BY WorkerContinues DEF Binding
<1>5. CASE Pick
  <2>1. /\ worker' \in Working /\ worker'.copy = sources[worker'.source] /\ sources[worker'.source] # None
        /\ \/ worker'.pc = "claim" /\ worker'.copy.approval # "withdrawn"
           \/ worker'.pc = "skip" /\ worker'.copy.approval = "withdrawn"
        /\ sources' = sources
    BY <1>5, PickMoves
  <2> QED
    BY <2>1 DEF WorkInv, SeenInv
<1>6. CASE Skip \/ FailJob
  <2>1. worker' = Idle
    BY <1>6, SkipMoves
  <2>2. worker'.pc = "idle"
    BY <2>1 DEF Idle
  <2> QED
    BY <2>1, <2>2 DEF WorkInv, SeenInv
<1>7. CASE Claim
  <2>1. worker # Idle /\ worker.pc = "claim" /\ worker' \in Working /\ worker'.pc = "mark" /\ Stays
    BY <1>7, ClaimMoves
  <2> QED
    BY <1>3, <2>1 DEF WorkInv, SeenInv, Stays
<1>8. CASE Mark
  <2>1. worker # Idle /\ worker.pc = "mark" /\ worker' \in Working /\ worker'.pc \in {"read", "fail"} /\ Stays
    BY <1>8, MarkMoves
  <2> QED
    BY <1>3, <2>1 DEF WorkInv, SeenInv, Stays
<1>9. CASE Read
  <2>1. /\ worker.pc = "read" /\ worker' \in Working /\ Stays /\ worker'.pc \in {"fail", "save"}
        /\ worker'.pc = "save" => worker'.page # None
    BY <1>9, ReadMoves
  <2>2. worker # Idle
    BY <2>1 DEF Idle
  <2> QED
    BY <1>3, <2>1, <2>2 DEF WorkInv, SeenInv, Stays
<1>10. CASE SaveCapture
  <2> DEFINE binding == Binding(worker.source, worker.page.content)
  <2>1. /\ worker # Idle /\ worker.pc = "save" /\ worker' \in Working /\ Stays /\ worker'.page = worker.page
        /\ captures' = captures \cup {<<worker.source, worker.page.content>>}
        /\ worker'.pc \in {"fail", "discover", "index", "indexing"}
        /\ worker'.pc = "discover" /\ worker.copy.approval = "approved" => worker'.dataset = binding /\ worker'.dataset \in bindings
        /\ worker'.pc \in {"index", "indexing"} => worker.copy.approval = "approved"
        /\ worker'.pc = "indexing" => indexer' = binding
    BY <1>10, SaveMoves
  <2>2. bindings' = bindings
    BY <1>10 DEF SaveCapture
  <2>3. worker.copy.approval # "withdrawn" /\ worker.page # None
    BY <2>1 DEF WorkInv
  <2>4. worker'.source = worker.source /\ worker'.copy = worker.copy
    BY <2>1 DEF Stays
  <2>5. Binding(worker.source, worker.page.content)' = binding
    BY <1>4, <2>1, <2>4
  <2>6. SeenInv'
    BY <2>1 DEF SeenInv
  <2> HIDE DEF binding
  <2>7. WorkInv'
    BY <1>3, <2>1, <2>2, <2>3, <2>4, <2>5 DEF WorkInv
  <2> QED
    BY <2>1, <2>6, <2>7
<1>11. CASE StartIndex
  <2> DEFINE binding == Binding(worker.source, worker.page.content)
  <2>1. /\ worker # Idle /\ worker.pc = "index" /\ worker' \in Working /\ Stays /\ worker'.page = worker.page
        /\ worker'.pc \in {"fail", "discover", "indexing"}
        /\ worker'.pc = "discover" => worker'.dataset = binding /\ worker'.dataset \in bindings
        /\ worker'.pc = "indexing" => indexer' = binding
    BY <1>11, StartMoves
  <2>2. bindings' = bindings /\ captures' = captures
    BY <1>11 DEF StartIndex, store
  <2>3. /\ worker.copy.approval = "approved" /\ worker.page # None
        /\ <<worker.source, worker.page.content>> \in captures
    BY <2>1 DEF WorkInv
  <2>4. worker'.source = worker.source /\ worker'.copy = worker.copy
    BY <2>1 DEF Stays
  <2>5. Binding(worker.source, worker.page.content)' = binding
    BY <1>4, <2>1, <2>4
  <2>6. SeenInv'
    BY <2>1 DEF SeenInv
  <2> HIDE DEF binding
  <2>7. WorkInv'
    BY <1>3, <2>1, <2>2, <2>3, <2>4, <2>5 DEF WorkInv
  <2> QED
    BY <2>1, <2>6, <2>7
<1>12. CASE EndIndex
  <2> DEFINE binding == Binding(worker.source, worker.page.content)
  <2>1. /\ worker # Idle /\ worker.pc = "indexing" /\ worker' \in Working /\ Stays /\ worker'.page = worker.page
        /\ worker'.pc = "discover" /\ worker'.dataset = binding /\ bindings' = bindings \cup {worker'.dataset}
    BY <1>12, EndMoves
  <2>2. captures' = captures
    BY <1>12 DEF EndIndex
  <2>3. /\ worker.copy.approval = "approved" /\ worker.page # None
        /\ <<worker.source, worker.page.content>> \in captures
    BY <2>1 DEF WorkInv
  <2>4. worker'.source = worker.source /\ worker'.copy = worker.copy
    BY <2>1 DEF Stays
  <2>5. Binding(worker.source, worker.page.content)' = binding
    BY <1>4, <2>1, <2>4
  <2>6. SeenInv'
    BY <2>1 DEF SeenInv
  <2> HIDE DEF binding
  <2>7. WorkInv'
    BY <1>3, <2>1, <2>2, <2>3, <2>4, <2>5 DEF WorkInv
  <2> QED
    BY <2>1, <2>6, <2>7
<1>13. CASE Discover \/ Verify \/ Reconcile
  <2> DEFINE binding == Binding(worker.source, worker.page.content)
  <2>1. /\ worker # Idle /\ worker.pc \in {"discover", "verify", "reconcile"} /\ worker' \in Working /\ Stays
        /\ worker'.page = worker.page /\ worker'.dataset = worker.dataset
        /\ worker'.pc \in {"fail", "finish", "reconcile", "verify"}
        /\ worker'.pc \in {"reconcile", "verify"} => SeenInv'
    BY <1>13, DiscoverMoves, VerifyMoves, ReconcileMoves
  <2>2. captures' = captures /\ bindings' = bindings
    BY <1>13 DEF Discover, Verify, Reconcile, store
  <2>3. /\ worker.copy.approval # "withdrawn" /\ worker.page # None
        /\ <<worker.source, worker.page.content>> \in captures
        /\ worker.copy.approval = "approved" => worker.dataset = binding /\ worker.dataset \in bindings
    BY <2>1 DEF WorkInv
  <2>4. worker'.source = worker.source /\ worker'.copy = worker.copy
    BY <2>1 DEF Stays
  <2>5. Binding(worker.source, worker.page.content)' = binding
    BY <1>4, <2>1, <2>4
  <2>6. SeenInv'
    BY <2>1 DEF SeenInv
  <2> HIDE DEF binding
  <2>7. WorkInv'
    BY <1>3, <2>1, <2>2, <2>3, <2>4, <2>5 DEF WorkInv
  <2> QED
    BY <2>1, <2>6, <2>7
<1>14. CASE Finish
  <2>1. worker # Idle /\ worker.pc = "finish" /\ worker' \in Working /\ Stays /\ worker'.pc \in {"close", "fail"}
    BY <1>14, FinishMoves
  <2> QED
    BY <1>3, <2>1 DEF WorkInv, SeenInv, Stays
<1>15. CASE Close \/ QueueChild
  <2>1. /\ worker # Idle /\ worker.pc \in {"close", "children"}
        /\ worker' = Idle \/ (worker' \in Working /\ worker'.pc = "children" /\ Stays)
    BY <1>15, CloseMoves, ChildMoves
  <2>2. CASE worker' = Idle
    <3>1. worker'.pc = "idle"
      BY <2>2 DEF Idle
    <3> QED
      BY <2>2, <3>1 DEF WorkInv, SeenInv
  <2>3. CASE worker' # Idle
    BY <1>3, <2>1, <2>3 DEF WorkInv, SeenInv, Stays
  <2> QED
    BY <2>2, <2>3
<1>16. CASE FailSource \/ CallFails
  <2>1. /\ worker # Idle /\ worker.pc \in {"fail", "read", "indexing", "verify", "discover"} /\ worker' \in Working /\ Stays
        /\ worker'.pc \in {"fail", "failjob"}
    BY <1>16, FailMoves
  <2> QED
    BY <1>3, <2>1 DEF WorkInv, SeenInv, Stays
<1> QED
  BY <1>5, <1>6, <1>7, <1>8, <1>9, <1>10, <1>11, <1>12, <1>13, <1>14, <1>15, <1>16 DEF Worker

-----------------------------------------------------------------------------
(* The worker and the queue.                                               *)

LEMMA Dropped ==
  ASSUME NEW q \in Seq(Jobs), q # <<>>, NEW after, after = Tail(q)
  PROVE  /\ after \in Seq(Jobs)
         /\ \A i \in DOMAIN after : i + 1 \in DOMAIN q /\ i + 1 > 1 /\ after[i] = q[i + 1]
         /\ \A i \in DOMAIN q : i > 1 => q[i] \in Range(after)
<1>1. Len(q) \in Nat /\ Len(q) >= 1 /\ DOMAIN q = 1..Len(q)
  OBVIOUS
<1>2. after \in Seq(Jobs) /\ Len(after) = Len(q) - 1
  OBVIOUS
<1>3. DOMAIN after = 1..(Len(q) - 1)
  BY <1>2
<1>4. \A i \in 1..(Len(q) - 1) : after[i] = q[i + 1]
  OBVIOUS
<1>5. \A i \in DOMAIN after : i + 1 \in DOMAIN q /\ i + 1 > 1 /\ after[i] = q[i + 1]
  BY <1>1, <1>3, <1>4
<1>6. ASSUME NEW i \in DOMAIN q, i > 1
      PROVE  q[i] \in Range(after)
  <2>1. i - 1 \in DOMAIN after /\ after[i - 1] = q[i]
    BY <1>1, <1>3, <1>4, <1>6
  <2> QED
    BY <2>1 DEF Range
<1> QED
  BY <1>2, <1>5, <1>6

\* Nothing that was asked for is forgotten, but what the worker takes or finds withdrawn.
LEMMA WorkerJobs ==
  ASSUME MemoryAssumption, StoreTypes, WorkTypes, JobsInv, PolicyInv, WorkInv, SeenInv, Worker \/ CallFails
  PROVE  /\ JobsInv'
         /\ \A s \in Sources : QueuedFor(s) => \/ QueuedFor(s)'
                                               \/ s = worker.source /\ worker.pc = "claim" /\ worker'.pc = "mark"
                                               \/ s = worker.source /\ worker.pc = "skip"
<1>1. /\ jobs \in Seq(Jobs)
      /\ \A i \in DOMAIN jobs : sources[jobs[i].source] # None /\ (i > 1 => jobs[i].status = "queued")
  BY DEF JobsInv
<1>2. \A s \in Sources : sources[s] # None => sources'[s] # None
  BY WorkerPolicy DEF WorkerWrites
<1>3. \A i \in DOMAIN jobs : jobs[i] \in Jobs /\ sources'[jobs[i].source] # None
  <2> TAKE i \in DOMAIN jobs
  <2>1. jobs[i] \in Jobs
    BY <1>1
  <2>2. jobs[i].source \in Sources
    BY <2>1 DEF Jobs
  <2> QED
    BY <1>1, <1>2, <2>1, <2>2
<1>4. ASSUME jobs' = jobs, Stays, worker.pc \in Synchronizing, worker'.pc \in Synchronizing
      PROVE  JobsInv' /\ \A s \in Sources : QueuedFor(s) => QueuedFor(s)'
  <2>1. jobs # <<>> /\ jobs[1] = [source |-> worker.source, status |-> "running"]
    BY <1>4 DEF JobsInv
  <2>2. worker'.pc \notin Beginning /\ worker'.pc \notin {"idle", "children"}
    BY <1>4 DEF Beginning, Synchronizing
  <2>3. JobsInv'
    BY <1>1, <1>3, <1>4, <2>1, <2>2 DEF JobsInv, Stays
  <2> QED
    BY <1>4, <2>3 DEF QueuedFor
<1>5. CASE Pick
  <2>1. /\ jobs # <<>> /\ jobs[1] = Asked(worker'.source) /\ jobs' = jobs
        /\ worker'.pc \in Beginning /\ worker'.pc \notin Synchronizing /\ worker'.pc \notin {"idle", "children"}
    BY <1>5, PickMoves DEF Beginning, Synchronizing
  <2>2. JobsInv'
    BY <1>1, <1>3, <2>1 DEF JobsInv, Asked
  <2> QED
    BY <2>1, <2>2 DEF QueuedFor
<1>6. ASSUME jobs # <<>>, jobs' = Tail(jobs), worker'.pc \in {"idle", "children"}
      PROVE  JobsInv' /\ \A s \in Sources : QueuedFor(s) => QueuedFor(s)' \/ jobs[1] = Asked(s)
  <2>1. PICK after : after = jobs'
    OBVIOUS
  <2>2. /\ after \in Seq(Jobs)
        /\ \A i \in DOMAIN after : i + 1 \in DOMAIN jobs /\ i + 1 > 1 /\ after[i] = jobs[i + 1]
        /\ \A i \in DOMAIN jobs : i > 1 => jobs[i] \in Range(after)
    BY <1>1, <1>6, <2>1, Dropped
  <2>3. \A i \in DOMAIN after : sources'[after[i].source] # None /\ after[i].status = "queued"
    BY <1>1, <1>3, <2>2
  <2>4. after # <<>> => 1 \in DOMAIN after
    BY <2>2
  <2>5. worker'.pc \notin Beginning /\ worker'.pc \notin Synchronizing
    BY <1>6 DEF Beginning, Synchronizing
  <2>6. JobsInv'
    BY <2>1, <2>2, <2>3, <2>4, <2>5 DEF JobsInv
  <2>7. ASSUME NEW s \in Sources, QueuedFor(s), jobs[1] # Asked(s)
        PROVE  QueuedFor(s)'
    <3>1. PICK i \in DOMAIN jobs : jobs[i] = Asked(s)
      BY <2>7 DEF QueuedFor, Range, Asked
    <3>2. i > 1
      BY <1>1, <2>7, <3>1
    <3> QED
      BY <2>1, <2>2, <3>1, <3>2 DEF QueuedFor, Asked
  <2> QED
    BY <2>6, <2>7
<1>7. CASE Skip \/ FailJob \/ Close
  <2>1. /\ worker.pc \in {"skip", "failjob", "close"} /\ worker'.pc \in {"idle", "children"}
        /\ jobs' = Tail(jobs)
    BY <1>7, SkipMoves, CloseMoves DEF Idle
  <2>2. /\ jobs # <<>> /\ worker.pc = "skip" => jobs[1] = Asked(worker.source)
        /\ jobs # <<>> /\ worker.pc # "skip" => jobs[1].status = "running"
        /\ jobs # <<>>
    BY <2>1 DEF JobsInv, Asked, Beginning, Synchronizing
  <2>3. \A s \in Sources : jobs[1] = Asked(s) => worker.pc = "skip" /\ s = worker.source
    BY <2>2 DEF Asked
  <2> QED
    BY <1>6, <2>1, <2>2, <2>3
<1>8. CASE Claim
  <2>1. /\ worker.pc = "claim" /\ worker'.pc = "mark" /\ Stays /\ jobs' = [jobs EXCEPT ![1].status = "running"]
    BY <1>8, ClaimMoves
  <2>2. jobs # <<>> /\ jobs[1] = Asked(worker.source)
    BY <2>1 DEF JobsInv, Beginning, Asked
  <2>3. 1 \in DOMAIN jobs /\ DOMAIN jobs = 1..Len(jobs) /\ Len(jobs) \in Nat
    BY <1>1, <2>2
  <2>4. PICK r : r = [source |-> worker.source, status |-> "running"]
    OBVIOUS
  <2>5. jobs' = [jobs EXCEPT ![1] = r]
    <3>1. jobs' = [jobs EXCEPT ![1] = [jobs[1] EXCEPT !.status = "running"]]
      BY <2>1
    <3>2. [Asked(worker.source) EXCEPT !.status = "running"] = r
      BY <2>4 DEF Asked
    <3> QED
      BY <2>2, <3>1, <3>2
  <2>6. r \in Jobs
    BY <1>3, <2>2, <2>3, <2>4 DEF Jobs, Asked
  <2>7. PICK after : after = jobs'
    OBVIOUS
  <2>8. after \in Seq(Jobs) /\ DOMAIN after = DOMAIN jobs /\ after[1] = r /\ \A i \in DOMAIN jobs \ {1} : after[i] = jobs[i]
    BY <1>1, <2>3, <2>5, <2>6, <2>7
  <2>9. \A i \in DOMAIN after : sources'[after[i].source] # None /\ (i > 1 => after[i].status = "queued")
    BY <1>1, <1>3, <2>2, <2>3, <2>4, <2>8 DEF Asked
  <2>10. after # <<>> /\ worker'.pc \notin Beginning /\ worker'.pc \notin {"idle", "children"}
    BY <2>1, <2>3, <2>8 DEF Beginning
  <2>11. JobsInv'
    BY <2>1, <2>4, <2>7, <2>8, <2>9, <2>10 DEF JobsInv, Stays
  <2>12. ASSUME NEW s \in Sources, QueuedFor(s), s # worker.source
         PROVE  QueuedFor(s)'
    <3>1. PICK i \in DOMAIN jobs : jobs[i] = Asked(s)
      BY <2>12 DEF QueuedFor, Range, Asked
    <3>2. i # 1
      BY <2>2, <2>12, <3>1 DEF Asked
    <3>3. i \in DOMAIN after /\ after[i] = Asked(s)
      BY <2>8, <3>1, <3>2
    <3> QED
      BY <2>7, <3>3 DEF QueuedFor, Range, Asked
  <2> QED
    BY <2>1, <2>11, <2>12
<1>9. CASE QueueChild
  <2>1. PICK p \in Pages : jobs' = Queue(jobs, sources, p)
    BY <1>9, ChildMoves
  <2>2. worker.pc = "children" /\ worker'.pc \in {"idle", "children"}
    BY <1>9, ChildMoves DEF Idle
  <2>3. p \in Sources
    BY DEF MemoryAssumption
  <2>4. PICK after \in Seq(Jobs) : after = jobs' /\ Grown(jobs, after, sources)
    BY <1>1, <2>1, <2>3, QueueGrows
  <2>5. sources' = sources
    BY <1>9 DEF QueueChild
  <2>6. /\ Len(jobs) \in Nat /\ Len(after) \in Nat /\ Len(jobs) <= Len(after)
        /\ \A i \in 1..Len(jobs) : after[i] = jobs[i]
        /\ \A i \in (Len(jobs) + 1)..Len(after) : after[i].status = "queued" /\ sources[after[i].source] # None
    BY <1>1, <2>4 DEF Grown
  <2>7. \A i \in 1..Len(after) : sources'[after[i].source] # None /\ after[i].status = "queued"
    <3> TAKE i \in 1..Len(after)
    <3>1. i \in 1..Len(jobs) \/ i \in (Len(jobs) + 1)..Len(after)
      BY <2>6
    <3>2. \A k \in 1..Len(jobs) : jobs[k].status = "queued" /\ sources[jobs[k].source] # None
      <4> TAKE k \in 1..Len(jobs)
      <4>1. k \in DOMAIN jobs /\ (k = 1 \/ k > 1) /\ jobs # <<>>
        BY <1>1
      <4> QED
        BY <2>2, <4>1 DEF JobsInv
    <3> QED
      BY <2>5, <2>6, <3>1, <3>2
  <2>8. worker'.pc \notin Beginning /\ worker'.pc \notin Synchronizing
    BY <2>2 DEF Beginning, Synchronizing
  <2>9. DOMAIN after = 1..Len(after) /\ (after # <<>> => 1 \in 1..Len(after))
    BY <2>4
  <2>10. JobsInv'
    BY <2>4, <2>7, <2>8, <2>9 DEF JobsInv
  <2>11. \A s \in Sources : QueuedFor(s) => QueuedFor(s)'
    BY <1>1, <2>4, GrownRange DEF QueuedFor
  <2> QED
    BY <2>10, <2>11
<1>10. CASE Mark \/ Read \/ SaveCapture \/ StartIndex \/ EndIndex
  <2>1. Stays /\ worker.pc \in Synchronizing /\ worker'.pc \in Synchronizing
    BY <1>10, MarkMoves, ReadMoves, SaveMoves, StartMoves, EndMoves DEF Synchronizing
  <2>2. jobs' = jobs
    BY <1>10 DEF Mark, Read, SaveCapture, StartIndex, EndIndex, store
  <2> QED
    BY <1>4, <2>1, <2>2
<1>11. CASE Discover \/ Verify \/ Reconcile \/ Finish \/ FailSource \/ CallFails
  <2>1. Stays /\ worker.pc \in Synchronizing /\ worker'.pc \in Synchronizing
    BY <1>11, DiscoverMoves, VerifyMoves, ReconcileMoves, FinishMoves, FailMoves DEF Synchronizing
  <2>2. jobs' = jobs
    BY <1>11 DEF Discover, Verify, Reconcile, Finish, FailSource, CallFails, store
  <2> QED
    BY <1>4, <2>1, <2>2
<1> QED
  BY <1>5, <1>7, <1>8, <1>9, <1>10, <1>11 DEF Worker

-----------------------------------------------------------------------------
(* The worker and what is ready.                                           *)

LEMMA WorkerProgress ==
  ASSUME MemoryAssumption, StoreTypes, WorkTypes, JobsInv, PolicyInv, WorkInv, SeenInv, ProgressInv, ReadyIsCurrent,
         Worker \/ CallFails
  PROVE  ProgressInv'
<1> USE DEF Reading, Discovering
<1>1. WorkerWrites
  BY WorkerPolicy
<1>2. ASSUME worker # Idle, Stays, worker.pc \in {"read", "fail", "failjob"} \cup Reading,
             worker'.pc \notin {"claim", "mark", "close"}
      PROVE  ProgressInv'
  <2>1. worker.source \in Sources /\ NotReady(worker.source)
    BY <1>2, WorkerParts DEF ProgressInv
  <2>2. NotReady(worker.source)'
    BY <1>1, <1>2, <2>1 DEF WorkerWrites, NotReady, Stays
  <2> QED
    BY <1>2, <2>2 DEF ProgressInv, Stays, NotReady
<1>3. CASE Pick
  <2>1. /\ worker' \in Working /\ worker'.copy = sources[worker'.source] /\ sources[worker'.source] # None
        /\ \/ worker'.pc = "claim" /\ worker'.copy.approval # "withdrawn"
           \/ worker'.pc = "skip" /\ worker'.copy.approval = "withdrawn"
        /\ sources' = sources
    BY <1>3, PickMoves
  <2>2. Unchanged'
    BY <2>1 DEF Unchanged
  <2>3. worker'.source \in Sources
    BY <2>1 DEF Working
  <2>4. worker'.pc = "skip" => NotReady(worker.source)'
    BY <2>1, <2>3 DEF ReadyIsCurrent, NotReady
  <2> QED
    BY <2>1, <2>2, <2>4 DEF ProgressInv, NotReady
<1>4. CASE Skip \/ FailJob
  BY <1>4, SkipMoves DEF ProgressInv
<1>5. CASE Claim
  <2>1. worker # Idle /\ worker.pc = "claim" /\ worker'.pc = "mark" /\ Stays
    BY <1>5, ClaimMoves
  <2>2. sources' = sources
    BY <1>5 DEF Claim
  <2> QED
    BY <2>1, <2>2 DEF ProgressInv, NotReady, Unchanged, Stays
<1>6. CASE Mark
  <2>1. /\ worker # Idle /\ worker.pc = "mark" /\ Stays
        /\ \/ worker'.pc = "read" /\ NotReady(worker.source)'
           \/ worker'.pc = "fail" /\ ~Unchanged /\ sources' = sources
    BY <1>6, MarkMoves
  <2> QED
    BY <2>1 DEF ProgressInv, NotReady, Stays
<1>7. CASE Read \/ SaveCapture \/ StartIndex \/ EndIndex
  <2>1. /\ worker # Idle /\ Stays /\ worker.pc \in {"read"} \cup Reading
        /\ worker'.pc \in {"fail"} \cup Reading
    BY <1>7, ReadMoves, SaveMoves, StartMoves, EndMoves DEF Idle
  <2> QED
    BY <1>2, <2>1
<1>8. CASE Discover \/ Verify \/ Reconcile
  <2>1. /\ worker # Idle /\ Stays /\ worker.pc \in Reading
        /\ worker'.pc \in {"fail"} \cup Reading
    BY <1>8, DiscoverMoves, VerifyMoves, ReconcileMoves
  <2> QED
    BY <1>2, <2>1
<1>9. CASE Finish
  <2>1. worker # Idle /\ worker.pc = "finish" /\ Stays /\ worker'.pc \in {"close", "fail"}
    BY <1>9, FinishMoves
  <2>2. CASE worker'.pc = "close"
    BY <2>2 DEF ProgressInv
  <2>3. CASE worker'.pc = "fail"
    BY <1>2, <2>1, <2>3
  <2> QED
    BY <2>1, <2>2, <2>3
<1>10. CASE Close \/ QueueChild
  BY <1>10, CloseMoves, ChildMoves DEF ProgressInv
<1>11. CASE FailSource \/ CallFails
  <2>1. /\ worker # Idle /\ Stays /\ worker.pc \in {"fail", "read"} \cup Reading
        /\ worker'.pc \in {"fail", "failjob"}
    BY <1>11, FailMoves
  <2> QED
    BY <1>2, <2>1
<1> QED
  BY <1>3, <1>4, <1>5, <1>6, <1>7, <1>8, <1>9, <1>10, <1>11 DEF Worker

LEMMA WorkerStores ==
  ASSUME Worker \/ CallFails
  PROVE  captures \subseteq captures' /\ bindings \subseteq bindings'
<1> USE DEF store
<1>1. CASE SaveCapture
  BY <1>1 DEF SaveCapture
<1>2. CASE EndIndex
  BY <1>2 DEF EndIndex
<1>3. CASE ~SaveCapture /\ ~EndIndex
  <2>1. captures' = captures /\ bindings' = bindings
    BY <1>3 DEF Worker, Pick, Skip, Claim, Mark, Read, StartIndex, Discover, Verify, Reconcile, Finish, Close, QueueChild,
                FailSource, FailJob, CallFails
  <2> QED
    BY <2>1
<1> QED
  BY <1>1, <1>2, <1>3

\* Only a job that is done makes a source ready.
LEMMA OnlyFinish ==
  ASSUME MemoryAssumption, StoreTypes, WorkTypes, PolicyInv, WorkInv, SeenInv, Worker \/ CallFails
  PROVE  \/ Finish
         \/ \A s \in Sources : sources'[s] # None /\ sources'[s].status = "ready" => sources'[s] = sources[s]
<1>1. WorkerWrites
  BY WorkerPolicy
<1>2. SUFFICES ASSUME ~Finish
               PROVE  ~(worker.pc = "finish" /\ worker'.pc = "close")
  BY <1>1 DEF WorkerWrites
<1>3. worker.pc = "finish" => CallFails \/ Finish
  BY DEF Worker, Pick, Skip, Claim, Mark, Read, SaveCapture, StartIndex, EndIndex, Discover, Verify, Reconcile, Close,
         QueueChild, FailSource, FailJob, At, Idle
<1>4. worker.pc = "finish" => ~CallFails
  BY DEF CallFails
<1> QED
  BY <1>2, <1>3, <1>4

LEMMA WorkerReady ==
  ASSUME MemoryAssumption, StoreTypes, WorkTypes, PolicyInv, WorkInv, SeenInv, ReadyIsCurrent, Worker \/ CallFails
  PROVE  ReadyIsCurrent'
<1>1. captures \subseteq captures' /\ bindings \subseteq bindings'
  BY WorkerStores
<1>2. ASSUME NEW s \in Sources, sources'[s] # None, sources'[s].status = "ready", sources'[s] = sources[s]
      PROVE  /\ sources'[s].approval = "approved"
             /\ sources'[s].dataset = <<s, sources'[s].capture, sources'[s].generation>>
             /\ sources'[s].dataset \in bindings' /\ <<s, sources'[s].capture>> \in captures'
  BY <1>1, <1>2 DEF ReadyIsCurrent
<1>3. ASSUME NEW s \in Sources, sources'[s] # None, sources'[s].status = "ready", sources'[s] # sources[s]
      PROVE  /\ sources'[s].approval = "approved"
             /\ sources'[s].dataset = <<s, sources'[s].capture, sources'[s].generation>>
             /\ sources'[s].dataset \in bindings' /\ <<s, sources'[s].capture>> \in captures'
  <2>1. Finish
    BY <1>3, OnlyFinish
  <2>2. \/ ~Unchanged /\ sources' = sources /\ worker'.pc = "fail"
        \/ /\ Unchanged /\ worker'.pc = "close"
           /\ \A x \in Sources \ {worker.source} : sources'[x] = sources[x]
           /\ sources'[worker.source].capture = worker.page.content
           /\ sources'[worker.source].dataset = worker.dataset
           /\ sources'[worker.source].generation = generation
           /\ sources'[worker.source].text = sources[worker.source].text
           /\ sources'[worker.source].approval = worker.copy.approval
           /\ sources'[worker.source].status = IF worker.copy.approval = "approved" THEN "ready" ELSE "pending"
    BY <2>1, FinishStep
  <2>3. /\ s = worker.source /\ worker.copy.approval = "approved"
        /\ sources'[s].capture = worker.page.content
        /\ sources'[s].dataset = worker.dataset
        /\ sources'[s].generation = generation
        /\ sources'[s].approval = "approved"
    BY <1>3, <2>2
  <2>4. worker # Idle /\ worker.pc = "finish"
    BY <2>1, FinishMoves
  <2>5. /\ <<worker.source, worker.page.content>> \in captures
        /\ worker.dataset = Binding(worker.source, worker.page.content) /\ worker.dataset \in bindings
    BY <2>3, <2>4 DEF WorkInv, Reading, Discovering
  <2> QED
    BY <1>1, <2>3, <2>5 DEF Binding
<1> QED
  BY <1>2, <1>3 DEF ReadyIsCurrent

\* The queue of the worker's steps, and the jobs it is about to start, keep every notice.
WorkerAsks ==
  \A s \in Sources : QueuedFor(s) \/ Starts(s) =>
    QueuedFor(s)' \/ Starts(s)' \/ (sources'[s] = sources[s] /\ NotReady(s)) \/ NotReady(s)'

LEMMA WorkerKeeps ==
  ASSUME MemoryAssumption, StoreTypes, WorkTypes, JobsInv, PolicyInv, WorkInv, SeenInv, ProgressInv, Worker \/ CallFails
  PROVE  WorkerAsks
<1> SUFFICES ASSUME NEW s \in Sources, QueuedFor(s) \/ Starts(s)
             PROVE  QueuedFor(s)' \/ Starts(s)' \/ (sources'[s] = sources[s] /\ NotReady(s)) \/ NotReady(s)'
  BY DEF WorkerAsks
<1>1. CASE Starts(s)
  <2>1. worker.pc = "mark" /\ s = worker.source
    BY <1>1 DEF Starts
  <2>2. Mark
    BY <2>1 DEF Worker, Pick, Skip, Claim, Read, SaveCapture, StartIndex, EndIndex, Discover, Verify, Reconcile, Finish,
                Close, QueueChild, FailSource, FailJob, CallFails, At, Idle
  <2>3. /\ worker # Idle /\ Stays
        /\ NotReady(worker.source)' \/ (~Unchanged /\ sources' = sources)
    BY <2>2, MarkMoves
  <2> QED
    BY <2>1, <2>3 DEF ProgressInv, NotReady, Stays
<1>2. CASE QueuedFor(s)
  <2>1. \/ QueuedFor(s)'
        \/ s = worker.source /\ worker.pc = "claim" /\ worker'.pc = "mark"
        \/ s = worker.source /\ worker.pc = "skip"
    BY <1>2, WorkerJobs
  <2>2. CASE s = worker.source /\ worker.pc = "claim" /\ worker'.pc = "mark"
    <3>1. Claim
      BY <2>2 DEF Worker, Pick, Skip, Mark, Read, SaveCapture, StartIndex, EndIndex, Discover, Verify, Reconcile, Finish,
                  Close, QueueChild, FailSource, FailJob, CallFails, At, Idle
    <3>2. Stays
      BY <3>1, ClaimMoves
    <3> QED
      BY <2>2, <3>2 DEF Stays, Starts
  <2>3. CASE s = worker.source /\ worker.pc = "skip"
    <3>1. Skip
      BY <2>3 DEF Worker, Pick, Claim, Mark, Read, SaveCapture, StartIndex, EndIndex, Discover, Verify, Reconcile, Finish,
                  Close, QueueChild, FailSource, FailJob, CallFails, At, Idle
    <3>2. worker # Idle /\ sources' = sources
      BY <3>1, SkipMoves DEF Skip
    <3> QED
      BY <2>3, <3>2 DEF ProgressInv
  <2> QED
    BY <2>1, <2>2, <2>3
<1> QED
  BY <1>1, <1>2

\* While a source is read and synchronized, the queue does not change.
LEMMA WorkerReads ==
  ASSUME MemoryAssumption, StoreTypes, WorkTypes, JobsInv, PolicyInv, WorkInv, SeenInv, Worker \/ CallFails
  PROVE  /\ worker'.pc \in Reading =>
              /\ worker # Idle /\ Stays /\ jobs' = jobs
              /\ \/ worker.pc \in Reading /\ worker'.page = worker.page
                 \/ /\ worker.pc = "read"
                    /\ worker'.page.content = IF worker.source \in Reviews THEN worker.copy.text ELSE version[worker.source]
         /\ worker'.pc = "read" => worker # Idle /\ Stays /\ jobs' = jobs /\ worker.pc = "mark"
         /\ worker'.pc = "mark" => Claim
         /\ worker'.pc = "claim" => Pick
<1> USE DEF Reading, Discovering
<1>1. CASE Pick
  <2>1. worker'.pc \in {"claim", "skip"}
    BY <1>1, PickMoves
  <2> QED
    BY <1>1, <2>1
<1>2. CASE Skip \/ FailJob
  BY <1>2, SkipMoves DEF Idle
<1>3. CASE Claim
  BY <1>3, ClaimMoves
<1>4. CASE Mark
  <2>1. worker # Idle /\ worker.pc = "mark" /\ Stays /\ worker'.pc \in {"read", "fail"}
    BY <1>4, MarkMoves
  <2>2. jobs' = jobs
    BY <1>4 DEF Mark
  <2> QED
    BY <2>1, <2>2
<1>5. CASE Read
  <2>1. /\ worker.pc = "read" /\ Stays
        /\ \/ worker'.pc = "fail"
           \/ /\ worker'.pc = "save"
              /\ worker'.page.content = IF worker.source \in Reviews THEN worker.copy.text ELSE version[worker.source]
    BY <1>5, ReadMoves
  <2>2. jobs' = jobs /\ worker # Idle
    BY <1>5, <2>1 DEF Read, store, Idle
  <2> QED
    BY <2>1, <2>2
<1>6. CASE SaveCapture \/ StartIndex \/ EndIndex
  <2>1. /\ worker # Idle /\ worker.pc \in Reading /\ Stays /\ worker'.page = worker.page
        /\ worker'.pc \in {"fail"} \cup Reading
    BY <1>6, SaveMoves, StartMoves, EndMoves
  <2>2. jobs' = jobs
    BY <1>6 DEF SaveCapture, StartIndex, EndIndex, store
  <2> QED
    BY <2>1, <2>2
<1>7. CASE Discover \/ Verify \/ Reconcile
  <2>1. /\ worker # Idle /\ worker.pc \in Reading /\ Stays /\ worker'.page = worker.page
        /\ worker'.pc \in {"fail"} \cup Reading
    BY <1>7, DiscoverMoves, VerifyMoves, ReconcileMoves
  <2>2. jobs' = jobs
    BY <1>7 DEF Discover, Verify, Reconcile, store
  <2> QED
    BY <2>1, <2>2
<1>8. CASE Finish \/ Close \/ QueueChild \/ FailSource \/ CallFails
  <2>1. worker'.pc \in {"close", "fail", "failjob", "children", "idle"}
    BY <1>8, FinishMoves, CloseMoves, ChildMoves, FailMoves DEF Idle
  <2> QED
    BY <2>1
<1> QED
  BY <1>1, <1>2, <1>3, <1>4, <1>5, <1>6, <1>7, <1>8 DEF Worker

\* A source that the worker makes ready.
LEMMA MadeReady ==
  ASSUME MemoryAssumption, StoreTypes, WorkTypes, PolicyInv, WorkInv, SeenInv, Worker \/ CallFails,
         NEW s \in Sources, sources'[s] # None, sources'[s].status = "ready", sources'[s] # sources[s]
  PROVE  /\ Finish /\ s = worker.source /\ worker # Idle /\ worker.pc = "finish" /\ worker'.pc = "close" /\ Stays
         /\ sources'[s].capture = worker.page.content /\ sources'[s].text = sources[s].text
         /\ Active(sources, s) /\ jobs' = jobs
<1>1. Finish
  BY OnlyFinish
<1>2. \/ ~Unchanged /\ sources' = sources /\ worker'.pc = "fail"
      \/ /\ Unchanged /\ worker'.pc = "close"
         /\ \A x \in Sources \ {worker.source} : sources'[x] = sources[x]
         /\ sources'[worker.source].capture = worker.page.content
         /\ sources'[worker.source].dataset = worker.dataset
         /\ sources'[worker.source].generation = generation
         /\ sources'[worker.source].text = sources[worker.source].text
         /\ sources'[worker.source].approval = worker.copy.approval
         /\ sources'[worker.source].status = IF worker.copy.approval = "approved" THEN "ready" ELSE "pending"
  BY <1>1, FinishStep
<1>3. /\ s = worker.source /\ worker'.pc = "close" /\ Unchanged
      /\ sources'[s].capture = worker.page.content /\ sources'[s].text = sources[s].text
      /\ worker.copy.approval = "approved"
  BY <1>2
<1>4. worker # Idle /\ worker.pc = "finish" /\ Stays
  BY <1>1, FinishMoves
<1>5. sources[s].approval = "approved" /\ sources[s] # None
  BY <1>3, <1>4 DEF Unchanged, PolicyVersion, WorkInv
<1>6. jobs' = jobs
  BY <1>1 DEF Finish
<1> QED
  BY <1>1, <1>3, <1>4, <1>5, <1>6 DEF Active

LEMMA WorkerEvents ==
  ASSUME MemoryAssumption, StoreTypes, WorkTypes, JobsInv, PolicyInv, WorkInv, SeenInv, ProgressInv, EventsInv,
         Worker \/ CallFails
  PROVE  EventsInv'
<1>1. events' = events /\ version' = version
  BY WorkerContinues
<1>2. WorkerAsks
  BY WorkerKeeps
<1>3. \A e \in events : e[1] \in Sources /\ e[1] \notin Reviews
  BY DEF StoreTypes, MemoryAssumption
<1>4. WorkerWrites
  BY WorkerPolicy
<1>5. ASSUME NEW e \in events, sources'[e[1]] # None, sources'[e[1]].status = "ready"
      PROVE  sources'[e[1]].capture >= e[2] \/ QueuedFor(e[1])' \/ Starts(e[1])'
  <2>1. CASE sources'[e[1]] = sources[e[1]]
    <3>1. sources[e[1]].capture >= e[2] \/ QueuedFor(e[1]) \/ Starts(e[1])
      BY <1>5, <2>1 DEF EventsInv
    <3>2. ~NotReady(e[1]) /\ ~NotReady(e[1])'
      BY <1>1, <1>5, <2>1 DEF NotReady
    <3> QED
      BY <1>2, <1>3, <2>1, <3>1, <3>2 DEF WorkerAsks
  <2>2. CASE sources'[e[1]] # sources[e[1]]
    <3>1. /\ e[1] = worker.source /\ worker.pc = "finish" /\ Active(sources, e[1])
          /\ sources'[e[1]].capture = worker.page.content /\ jobs' = jobs
      BY <1>3, <1>5, <2>2, MadeReady
    <3>2. worker.page.content >= e[2] \/ QueuedFor(e[1])
      BY <3>1 DEF EventsInv, Reading, Discovering
    <3> QED
      BY <1>1, <3>1, <3>2 DEF QueuedFor
  <2> QED
    BY <2>1, <2>2
<1>6. ASSUME worker'.pc \in Reading, NEW e \in events, e[1] = worker'.source
      PROVE  worker'.page.content >= e[2] \/ QueuedFor(e[1])' \/ ~Active(sources', e[1])
  <2>1. /\ worker # Idle /\ Stays /\ jobs' = jobs
        /\ \/ worker.pc \in Reading /\ worker'.page = worker.page
           \/ /\ worker.pc = "read"
              /\ worker'.page.content = IF worker.source \in Reviews THEN worker.copy.text ELSE version[worker.source]
    BY <1>6, WorkerReads
  <2>2. e[1] = worker.source
    BY <1>6, <2>1 DEF Stays
  <2>3. CASE worker.pc \in Reading /\ worker'.page = worker.page
    <3>1. worker.page.content >= e[2] \/ QueuedFor(e[1]) \/ ~Active(sources, e[1])
      BY <2>2, <2>3 DEF EventsInv
    <3>2. Active(sources', e[1]) => Active(sources, e[1])
      BY <1>4, <2>1, <2>2 DEF WorkerWrites
    <3> QED
      BY <2>1, <2>3, <3>1, <3>2 DEF QueuedFor
  <2>4. CASE worker.pc = "read"
           /\ worker'.page.content = IF worker.source \in Reviews THEN worker.copy.text ELSE version[worker.source]
    <3>1. worker'.page.content = version[e[1]]
      BY <1>3, <2>2, <2>4
    <3>2. e[2] <= version[e[1]] /\ version[e[1]] \in Nat /\ e[2] \in Nat
      BY <1>3 DEF EventsInv, StoreTypes
    <3> QED
      BY <3>1, <3>2
  <2> QED
    BY <2>1, <2>3, <2>4
<1>7. \A e \in events : e[2] <= version[e[1]]
  BY DEF EventsInv
<1> QED
  BY <1>1, <1>5, <1>6, <1>7 DEF EventsInv

LEMMA WorkerText ==
  ASSUME MemoryAssumption, StoreTypes, WorkTypes, JobsInv, ChainInv, RecordInv, PolicyInv, WorkInv, SeenInv, ProgressInv,
         TextInv, Worker \/ CallFails
  PROVE  TextInv'
<1>1. recorder' = recorder /\ \A s : Recorded(s)' <=> Recorded(s)
  BY WorkerContinues DEF Recorded
<1>2. WorkerAsks
  BY WorkerKeeps
<1>3. WorkerWrites
  BY WorkerPolicy
<1>4. \A s \in Reviews : s \in Sources
  BY DEF MemoryAssumption
<1>5. \A s \in Sources : sources[s] # None => sources'[s].text = sources[s].text
  BY <1>3 DEF WorkerWrites, SameText, Registered
<1>6. worker # Idle => worker.source \in Sources /\ sources[worker.source] # None
  BY WorkerParts DEF WorkInv
<1>7. worker'.pc = "claim" => worker'.copy.text = sources'[worker'.source].text
  <2> SUFFICES ASSUME worker'.pc = "claim"
               PROVE  worker'.copy.text = sources'[worker'.source].text
    OBVIOUS
  <2>1. Pick
    BY WorkerReads
  <2> QED
    BY <2>1, PickMoves
<1>8. ASSUME worker'.pc \in {"mark", "read"} \cup Reading, worker'.source \in Reviews
      PROVE  \/ worker'.copy.text = sources'[worker'.source].text
             \/ QueuedFor(worker.source)' \/ Recorded(worker'.source) \/ ~Active(sources', worker'.source)
  <2>1. /\ worker # Idle /\ Stays
        /\ \/ worker.pc \in {"mark", "read"} \cup Reading /\ jobs' = jobs
           \/ worker.pc = "claim"
    <3>1. worker'.pc = "mark" => Claim
      BY WorkerReads
    <3>2. worker'.pc # "mark" => worker # Idle /\ Stays /\ worker.pc \in {"mark", "read"} \cup Reading /\ jobs' = jobs
      BY <1>8, WorkerReads
    <3> QED
      BY <3>1, <3>2, ClaimMoves
  <2>2. worker'.source = worker.source /\ worker'.copy = worker.copy /\ worker.source \in Reviews
    BY <1>8, <2>1 DEF Stays
  <2>3. CASE worker.pc = "claim"
    BY <1>5, <1>6, <2>1, <2>2, <2>3 DEF TextInv
  <2>4. CASE worker.pc \in {"mark", "read"} \cup Reading /\ jobs' = jobs
    <3>1. \/ worker.copy.text = sources[worker.source].text
          \/ QueuedFor(worker.source) \/ Recorded(worker.source) \/ ~Active(sources, worker.source)
      BY <2>2, <2>4 DEF TextInv
    <3>2. Active(sources', worker.source) => Active(sources, worker.source)
      BY <1>3, <2>1 DEF WorkerWrites
    <3>3. QueuedFor(worker.source) => QueuedFor(worker.source)'
      BY <2>2, <2>4 DEF QueuedFor
    <3> QED
      BY <1>5, <1>6, <2>1, <2>2, <3>1, <3>2, <3>3
  <2> QED
    BY <2>1, <2>3, <2>4
<1>9. ASSUME worker'.pc \in Reading, worker'.source \in Reviews
      PROVE  worker'.page.content = worker'.copy.text
  <2>1. /\ worker # Idle /\ Stays
        /\ \/ worker.pc \in Reading /\ worker'.page = worker.page
           \/ /\ worker.pc = "read"
              /\ worker'.page.content = IF worker.source \in Reviews THEN worker.copy.text ELSE version[worker.source]
    BY <1>9, WorkerReads
  <2> QED
    BY <1>9, <2>1 DEF TextInv, Stays
<1>10. ASSUME NEW s \in Reviews, sources'[s] # None, sources'[s].status = "ready"
       PROVE  \/ sources'[s].capture = sources'[s].text
              \/ QueuedFor(s)' \/ Starts(s)'
              \/ worker'.pc = "close" /\ worker'.source = s /\ Recorded(s) /\ chain' = <<"recorder", "worker">>
  <2>1. CASE sources'[s] = sources[s]
    <3>1. \/ sources[s].capture = sources[s].text
          \/ QueuedFor(s) \/ Starts(s)
          \/ worker.pc = "close" /\ chain = <<"recorder", "worker">>
      BY <1>10, <2>1 DEF TextInv
    <3>2. ~(worker.pc = "close" /\ chain = <<"recorder", "worker">>)
      BY WorkerContinues, Turns DEF StoreSteps
    <3>3. ~NotReady(s) /\ ~NotReady(s)'
      BY <1>10, <2>1 DEF NotReady
    <3>4. QueuedFor(s) \/ Starts(s) => QueuedFor(s)' \/ Starts(s)'
      BY <1>2, <1>4, <3>3 DEF WorkerAsks
    <3> QED
      BY <2>1, <3>1, <3>2, <3>4
  <2>2. CASE sources'[s] # sources[s]
    <3>1. /\ s = worker.source /\ worker.pc = "finish" /\ worker'.pc = "close" /\ Stays
          /\ sources'[s].capture = worker.page.content /\ sources'[s].text = sources[s].text
          /\ Active(sources, s) /\ jobs' = jobs
      BY <1>4, <1>10, <2>2, MadeReady
    <3>2. \/ worker.copy.text = sources[s].text
          \/ QueuedFor(s) \/ Recorded(s)
      BY <1>10, <3>1 DEF TextInv, Reading, Discovering
    <3>3. worker.page.content = worker.copy.text
      BY <1>10, <3>1 DEF TextInv, Reading, Discovering
    <3>4. QueuedFor(s) => QueuedFor(s)'
      BY <3>1 DEF QueuedFor
    <3>5. CASE Recorded(s)
      <4>1. recorder # Idle
        BY <3>5 DEF Recorded
      <4>2. worker.pc \in StoreSteps /\ worker'.pc \in StoreSteps
        BY <3>1 DEF StoreSteps
      <4>3. chain' = <<"recorder", "worker">>
        BY <4>1, <4>2, WorkerChain
      <4> QED
        BY <3>1, <3>5, <4>3 DEF Stays
    <3> QED
      BY <3>1, <3>2, <3>3, <3>4, <3>5
  <2> QED
    BY <2>1, <2>2
<1> QED
  BY <1>1, <1>7, <1>8, <1>9, <1>10 DEF TextInv

-----------------------------------------------------------------------------
(* A review is recorded.                                                   *)

LEMMA RecorderParts ==
  ASSUME WorkTypes
  PROVE  /\ recorder # Idle => recorder.pc \in {"save", "queue"} /\ recorder.source \in Reviews /\ recorder.record \in Registration
         /\ recorder.pc \in {"save", "queue"} => recorder # Idle
BY DEF WorkTypes, Recording, Idle

LEMMA ReviewRecord ==
  ASSUME MemoryAssumption, NEW r \in Registration, NEW approval \in {"draft", "approved"},
         NEW q, q = [r EXCEPT !.text = @ + 1, !.scope = {Project}, !.approval = approval, !.status = "pending"]
  PROVE  q \in Registration /\ q.parent = r.parent /\ q.before = r.before /\ q.status = "pending"
<1>1. {Project} \in Scopes
  BY DEF Scopes
<1>2. r.text + 1 \in Nat
  BY RegistrationParts
<1> QED
  BY <1>1, <1>2 DEF Registration

LEMMA NewReviewRecord ==
  ASSUME MemoryAssumption
  PROVE  NewReview \in Registration /\ NewReview.parent = None /\ NewReview.before = None
<1>1. {Project} \in Scopes
  BY DEF Scopes
<1>2. PICK r \in Registration : r = NewPage /\ r.parent = None /\ r.before = None
  BY NewPageRecord
<1>3. PICK q : q = [r EXCEPT !.include = FALSE, !.scope = {Project}]
  OBVIOUS
<1>4. q \in Registration /\ q.parent = r.parent /\ q.before = r.before
  BY <1>1, <1>3 DEF Registration
<1>5. q = NewReview
  BY <1>2, <1>3 DEF NewReview
<1> QED
  BY <1>2, <1>4, <1>5

LEMMA RecordStep ==
  ASSUME MemoryAssumption, WorkTypes, PolicyInv, ChainInv, NEW s \in Reviews, NEW approval \in {"draft", "approved"},
         RecordReview(s, approval)
  PROVE  /\ recorder = Idle /\ recorder' \in Recording /\ recorder'.pc = "save" /\ RecordInv' /\ ChainInv'
         /\ UNCHANGED <<sources, jobs, captures, bindings, events, worker, retriever, registrar, indexer, generation,
                        stopped, tree, version, projects, barred, misplaced, answer>>
<1>1. /\ recorder = Idle /\ chain' = Append(chain, "recorder")
      /\ UNCHANGED <<sources, jobs, captures, bindings, events, worker, retriever, registrar, indexer, generation,
                     stopped, tree, version, projects, barred, misplaced, answer>>
  BY DEF RecordReview, store, world, history
<1>2. s \in Sources /\ s \notin Pages
  BY DEF MemoryAssumption
<1>3. PICK r : r = IF sources[s] = None THEN NewReview ELSE sources[s]
  OBVIOUS
<1>4. r \in Registration /\ r.parent = None /\ r.before = None
  <2>1. CASE sources[s] = None
    BY <1>3, <2>1, NewReviewRecord
  <2>2. CASE sources[s] # None
    BY <1>2, <1>3, <2>2 DEF PolicyInv, Typed, TreeOf, Registered
  <2> QED
    BY <2>1, <2>2
<1>5. PICK q : q = [r EXCEPT !.text = @ + 1, !.scope = {Project}, !.approval = approval, !.status = "pending"]
  OBVIOUS
<1>6. q \in Registration /\ q.parent = None /\ q.before = None /\ q.status = "pending"
  BY <1>4, <1>5, ReviewRecord
<1>7. recorder' = [pc |-> "save", source |-> s, record |-> q]
  BY <1>3, <1>5 DEF RecordReview
<1>8. recorder' \in Recording /\ recorder'.pc = "save" /\ recorder'.record = q /\ recorder' # Idle
  BY <1>6, <1>7 DEF Recording, Idle
<1>9. RecordInv'
  BY <1>6, <1>8 DEF RecordInv
<1>10. ChainInv'
  BY <1>1, <1>8, Turns DEF ChainInv
<1> QED
  BY <1>1, <1>8, <1>9, <1>10

\* Only the recorder moves.
LEMMA RecordKeeps ==
  ASSUME MemoryAssumption, StoreTypes, WorkTypes, JobsInv, PolicyInv, ChainInv, WorkInv, SeenInv, ProgressInv,
         ReadyIsCurrent, EventsInv, TextInv,
         NEW s \in Reviews, NEW approval \in {"draft", "approved"}, RecordReview(s, approval)
  PROVE  /\ JobsInv' /\ PolicyInv' /\ WorkInv' /\ SeenInv' /\ ProgressInv' /\ ReadyIsCurrent' /\ EventsInv' /\ TextInv'
<1>1. /\ recorder = Idle /\ recorder'.pc = "save"
      /\ UNCHANGED <<sources, jobs, captures, bindings, events, worker, indexer, generation, version, barred, misplaced>>
  BY RecordStep
<1>2. JobsInv' /\ PolicyInv'
  BY <1>1 DEF JobsInv, PolicyInv
<1>3. WorkInv' /\ SeenInv'
  BY <1>1 DEF WorkInv, SeenInv, Binding, Inspected
<1>4. ProgressInv' /\ ReadyIsCurrent'
  BY <1>1 DEF ProgressInv, NotReady, Unchanged, ReadyIsCurrent
<1>5. EventsInv'
  BY <1>1 DEF EventsInv, QueuedFor, Starts
<1>6. \A x : ~Recorded(x) /\ ~Recorded(x)'
  BY <1>1 DEF Recorded
<1>7. TextInv'
  BY <1>1, <1>6 DEF TextInv, QueuedFor, Starts
<1> QED
  BY <1>2, <1>3, <1>4, <1>5, <1>7

LEMMA SaveStep ==
  ASSUME MemoryAssumption, WorkTypes, JobsInv, PolicyInv, ChainInv, RecordInv, SaveReview
  PROVE  /\ recorder.pc = "save" /\ recorder # Idle /\ recorder.source \in Reviews
         /\ recorder' \in Recording /\ recorder'.pc = "queue" /\ recorder'.source = recorder.source
         /\ PolicyInv' /\ RecordInv' /\ ChainInv'
         /\ Still(sources, sources') /\ Edited(sources, sources')
         /\ sources'[recorder.source].status = "pending"
         /\ \A s \in Sources \ {recorder.source} : sources'[s] = sources[s]
         /\ worker.pc \in StoreSteps => chain' = <<"worker", "recorder">>
         /\ UNCHANGED <<jobs, captures, bindings, events, worker, retriever, registrar, indexer, generation,
                        tree, version, projects, misplaced, answer>>
<1> DEFINE p == recorder.source
<1>1. /\ recorder.pc = "save" /\ Head(chain) = "recorder" /\ barred' = barred \ {p}
      /\ recorder' = [recorder EXCEPT !.pc = "queue"] /\ chain' = Append(Tail(chain), "recorder")
      /\ UNCHANGED <<jobs, captures, bindings, events, worker, retriever, registrar, indexer, generation,
                     tree, version, projects, misplaced, answer>>
  BY DEF SaveReview, world
<1>2. recorder # Idle /\ p \in Reviews /\ p \in Sources /\ recorder.record \in Registration /\ recorder \in Recording
  BY <1>1, RecorderParts DEF MemoryAssumption, WorkTypes
<1>3. PICK r \in Registration : r = recorder.record /\ r.parent = None /\ r.before = None /\ r.status = "pending"
  BY <1>2 DEF RecordInv
<1>4. PICK after : after = sources' /\ after = [sources EXCEPT ![p] = r]
  BY <1>3 DEF SaveReview
<1>5. recorder' \in Recording /\ recorder'.pc = "queue" /\ recorder'.source = p /\ recorder'.record = r /\ recorder' # Idle
  BY <1>1, <1>2, <1>3 DEF Recording, Idle
<1>6. /\ Typed(sources) /\ TreeOf(sources) /\ Few(sources)
      /\ barred \subseteq Sources /\ \A x \in barred : Out(sources, x)
      /\ ~misplaced => Agreed(sources)
  BY DEF PolicyInv
<1>7. after[p] = r /\ \A s \in Sources \ {p} : after[s] = sources[s]
  BY <1>2, <1>4, <1>6 DEF Typed
<1>8. Typed(after)
  BY <1>3, <1>4, <1>6 DEF Typed
<1> HIDE DEF p
<1>9. TreeOf(after) /\ Still(sources, after) /\ Edited(sources, after) /\ (Agreed(sources) => Agreed(after))
  BY <1>2, <1>3, <1>6, <1>7, RecordOne
<1>10. Registered(after) \cap Pages = Registered(sources) \cap Pages
  <2>1. \A s \in Pages : s \in Sources \ {p}
    BY <1>2 DEF MemoryAssumption
  <2> QED
    BY <1>7, <2>1 DEF Registered
<1>11. Few(after)
  BY <1>6, <1>10, FewSame
<1>12. \A x \in barred' : x \in Sources /\ Out(after, x)
  BY <1>1, <1>6, <1>7 DEF Out
<1>13. PolicyInv'
  BY <1>1, <1>4, <1>6, <1>8, <1>9, <1>11, <1>12 DEF PolicyInv
<1>14. RecordInv'
  BY <1>3, <1>5 DEF RecordInv
<1>15. ChainInv' /\ (worker.pc \in StoreSteps => chain' = <<"worker", "recorder">>)
  BY <1>1, <1>2, <1>5, Turns DEF ChainInv
<1> QED
  BY <1>1, <1>2, <1>3, <1>4, <1>5, <1>7, <1>9, <1>13, <1>14, <1>15 DEF p

LEMMA SaveKeeps ==
  ASSUME MemoryAssumption, StoreTypes, WorkTypes, JobsInv, PolicyInv, ChainInv, RecordInv, WorkInv, SeenInv, ProgressInv,
         ReadyIsCurrent, EventsInv, TextInv, SaveReview
  PROVE  JobsInv' /\ WorkInv' /\ SeenInv' /\ ProgressInv' /\ ReadyIsCurrent' /\ EventsInv' /\ TextInv'
<1>1. PICK p \in Reviews : p = recorder.source
  BY SaveStep
<1>2. /\ recorder.pc = "save" /\ recorder'.pc = "queue" /\ recorder'.source = p /\ recorder' # Idle
      /\ TreeOf(sources') /\ Still(sources, sources') /\ Edited(sources, sources')
      /\ sources'[p].status = "pending"
      /\ \A s \in Sources \ {p} : sources'[s] = sources[s]
      /\ worker.pc \in StoreSteps => chain' = <<"worker", "recorder">>
      /\ UNCHANGED <<jobs, captures, bindings, events, worker, indexer, generation, version>>
  BY <1>1, SaveStep, RecorderParts DEF PolicyInv, Recording, Idle
<1>3. p \in Sources /\ \A s \in Sources : sources[s] # None => sources'[s] # None
  BY <1>2 DEF MemoryAssumption, Edited
<1>4. worker # Idle => worker.source \in Sources /\ sources'[worker.source] # None
  BY <1>3, WorkerParts DEF WorkInv
<1>5. \A s \in Sources : sources'[s] # None /\ sources'[s].status = "ready" => s # p /\ sources'[s] = sources[s]
  BY <1>2
<1>6. JobsInv'
  <2>1. jobs' \in Seq(Jobs) /\ Grown(jobs, jobs', sources')
    BY <1>2, SameGrown DEF JobsInv
  <2> QED
    BY <1>2, <1>3, <2>1, GrowingJobs
<1>7. WorkInv'
  BY <1>2, <1>4 DEF WorkInv, Binding
<1>8. SeenInv'
  <2>1. worker.pc \in {"verify", "reconcile"} => worker.source \in Sources
    BY WorkerParts DEF Idle
  <2>2. worker.pc \in {"verify", "reconcile"} => AncestorsOf(sources', worker.source) = AncestorsOf(sources, worker.source)
    BY <1>2, <2>1, StillAncestors DEF PolicyInv
  <2> QED
    BY <1>2, <2>2 DEF SeenInv, Inspected
<1>9. ProgressInv'
  <2>1. CASE worker = Idle
    BY <1>2, <2>1 DEF ProgressInv
  <2>2. CASE worker # Idle /\ worker.source = p
    BY <1>2, <2>2 DEF ProgressInv, NotReady
  <2>3. CASE worker # Idle /\ worker.source # p
    <3>1. sources'[worker.source] = sources[worker.source]
      BY <1>2, <1>4, <2>3
    <3> QED
      BY <1>2, <2>3, <3>1 DEF ProgressInv, NotReady, Unchanged
  <2> QED
    BY <2>1, <2>2, <2>3
<1>10. ReadyIsCurrent'
  BY <1>2, <1>5 DEF ReadyIsCurrent
<1>11. EventsInv'
  <2>1. \A e \in events : e[1] \in Sources /\ e[1] # p
    BY DEF StoreTypes, MemoryAssumption
  <2>2. \A e \in events : sources'[e[1]] = sources[e[1]]
    BY <1>2, <2>1
  <2>3. \A s : (QueuedFor(s)' <=> QueuedFor(s)) /\ (Starts(s)' <=> Starts(s))
    BY <1>2 DEF QueuedFor, Starts
  <2>4. ASSUME worker.pc \in Reading, NEW e \in events, e[1] = worker.source
        PROVE  worker.page.content >= e[2] \/ QueuedFor(e[1]) \/ ~Active(sources', e[1])
    <3>1. worker.page.content >= e[2] \/ QueuedFor(e[1]) \/ ~Active(sources, e[1])
      BY <2>4 DEF EventsInv
    <3> QED
      BY <2>2, <3>1 DEF Active
  <2> QED
    BY <1>2, <2>2, <2>3, <2>4 DEF EventsInv
<1>12. TextInv'
  <2>1. Recorded(p)' /\ \A s : ~Recorded(s)
    BY <1>2 DEF Recorded
  <2>2. \A s : (QueuedFor(s)' <=> QueuedFor(s)) /\ (Starts(s)' <=> Starts(s))
    BY <1>2 DEF QueuedFor, Starts
  <2>3. worker.pc # "idle" => worker # Idle
    BY WorkerParts
  <2>4. ASSUME worker.pc = "claim", worker.source \in Reviews
        PROVE  \/ worker.copy.text = sources'[worker.source].text
               \/ Recorded(worker.source)' /\ chain' = <<"worker", "recorder">>
    <3>1. CASE worker.source = p
      BY <1>2, <2>1, <2>4, <3>1 DEF StoreSteps
    <3>2. CASE worker.source # p
      BY <1>2, <1>4, <2>1, <2>3, <2>4, <3>2 DEF TextInv
    <3> QED
      BY <3>1, <3>2
  <2>5. ASSUME worker.pc \in {"mark", "read"} \cup Reading, worker.source \in Reviews
        PROVE  \/ worker.copy.text = sources'[worker.source].text
               \/ QueuedFor(worker.source) \/ Recorded(worker.source)' \/ ~Active(sources', worker.source)
    <3>1. CASE worker.source = p
      BY <1>2, <2>1, <3>1
    <3>2. CASE worker.source # p
      <4>1. worker # Idle
        BY <2>3, <2>5 DEF Reading, Discovering
      <4>2. sources'[worker.source] = sources[worker.source]
        BY <1>2, <1>4, <3>2, <4>1
      <4>3. \/ worker.copy.text = sources[worker.source].text
            \/ QueuedFor(worker.source) \/ ~Active(sources, worker.source)
        BY <2>1, <2>5 DEF TextInv
      <4> QED
        BY <4>2, <4>3 DEF Active
    <3> QED
      BY <3>1, <3>2
  <2>6. ASSUME NEW s \in Reviews, sources'[s] # None, sources'[s].status = "ready"
        PROVE  sources'[s].capture = sources'[s].text \/ QueuedFor(s) \/ Starts(s)
    <3>1. s \in Sources
      BY DEF MemoryAssumption
    <3>2. sources'[s] = sources[s]
      BY <1>5, <2>6, <3>1
    <3> QED
      BY <2>1, <2>6, <3>2 DEF TextInv
  <2>7. worker.pc \in Reading /\ worker.source \in Reviews => worker.page.content = worker.copy.text
    BY DEF TextInv
  <2>8. worker' = worker
    BY <1>2
  <2> QED
    BY <2>2, <2>4, <2>5, <2>6, <2>7, <2>8 DEF TextInv, Recorded
<1> QED
  BY <1>6, <1>7, <1>8, <1>9, <1>10, <1>11, <1>12

LEMMA QueueStep ==
  ASSUME MemoryAssumption, WorkTypes, JobsInv, PolicyInv, ChainInv, QueueReview
  PROVE  /\ recorder.pc = "queue" /\ recorder # Idle /\ recorder.source \in Reviews /\ recorder' = Idle
         /\ PolicyInv' /\ RecordInv' /\ ChainInv' /\ chain # <<"worker", "recorder">>
         /\ jobs' \in Seq(Jobs) /\ Grown(jobs, jobs', sources)
         /\ UNCHANGED <<sources, captures, bindings, events, worker, retriever, registrar, indexer, generation,
                        tree, version, projects, misplaced, answer>>
<1>1. /\ recorder.pc = "queue" /\ Head(chain) = "recorder" /\ recorder' = Idle /\ chain' = Tail(chain)
      /\ jobs' = Queue(jobs, sources, recorder.source)
      /\ UNCHANGED <<sources, captures, bindings, events, worker, retriever, registrar, indexer, generation,
                     tree, version, projects, barred, misplaced, answer>>
  BY DEF QueueReview, world, history
<1>2. recorder # Idle /\ recorder.source \in Reviews /\ recorder.source \in Sources /\ jobs \in Seq(Jobs)
  BY <1>1, RecorderParts DEF MemoryAssumption, JobsInv
<1>3. /\ jobs' \in Seq(Jobs) /\ Grown(jobs, jobs', sources)
      /\ Active(sources, recorder.source) => Asked(recorder.source) \in Range(jobs')
  BY <1>1, <1>2, QueueGrows
<1>4. PolicyInv' /\ RecordInv'
  BY <1>1 DEF PolicyInv, RecordInv
<1>5. ChainInv' /\ chain # <<"worker", "recorder">>
  BY <1>1, <1>2, Turns DEF ChainInv
<1> QED
  BY <1>1, <1>2, <1>3, <1>4, <1>5

LEMMA QueueKeeps ==
  ASSUME MemoryAssumption, StoreTypes, WorkTypes, JobsInv, PolicyInv, ChainInv, RecordInv, WorkInv, SeenInv, ProgressInv,
         ReadyIsCurrent, EventsInv, TextInv, QueueReview
  PROVE  JobsInv' /\ WorkInv' /\ SeenInv' /\ ProgressInv' /\ ReadyIsCurrent' /\ EventsInv' /\ TextInv'
<1>1. PICK p \in Reviews : p = recorder.source
  BY QueueStep
<1>2. /\ recorder.pc = "queue" /\ recorder' = Idle /\ chain # <<"worker", "recorder">>
      /\ jobs' \in Seq(Jobs) /\ Grown(jobs, jobs', sources)
      /\ UNCHANGED <<sources, captures, bindings, events, worker, indexer, generation, version>>
  BY QueueStep
<1>3. Active(sources, p) => Asked(p) \in Range(jobs')
  BY <1>1, QueueGrows, RecorderParts DEF QueueReview, JobsInv, MemoryAssumption, Idle
<1>4. JobsInv'
  BY <1>2, GrowingJobs
<1>5. \A s : (QueuedFor(s)' <=> Asked(s) \in Range(jobs')) /\ (QueuedFor(s) => Asked(s) \in Range(jobs'))
  <2>1. Range(jobs) \subseteq Range(jobs')
    BY <1>2, GrownRange DEF JobsInv
  <2> QED
    BY <2>1 DEF QueuedFor, Asked
<1>6. \A s : Starts(s)' <=> Starts(s)
  BY <1>2 DEF Starts
<1>7. \A s : (Recorded(s) => s = p) /\ ~Recorded(s)'
  BY <1>1, <1>2 DEF Recorded
<1>8. WorkInv' /\ SeenInv'
  BY <1>2 DEF WorkInv, SeenInv, Binding, Inspected
<1>9. ProgressInv' /\ ReadyIsCurrent'
  BY <1>2 DEF ProgressInv, NotReady, Unchanged, ReadyIsCurrent
<1>10. EventsInv'
  <2>1. \A s : QueuedFor(s) => QueuedFor(s)'
    BY <1>5
  <2> QED
    BY <1>2, <1>5, <1>6, <2>1 DEF EventsInv
<1>11. TextInv'
  <2>1. ASSUME worker.pc = "claim", worker.source \in Reviews
        PROVE  worker.copy.text = sources[worker.source].text
    BY <1>2, <2>1 DEF TextInv
  <2>2. ASSUME worker.pc \in {"mark", "read"} \cup Reading, worker.source \in Reviews
        PROVE  \/ worker.copy.text = sources[worker.source].text
               \/ Asked(worker.source) \in Range(jobs') \/ ~Active(sources, worker.source)
    BY <1>3, <1>5, <1>7, <2>2 DEF TextInv
  <2>3. ASSUME NEW s \in Reviews, sources[s] # None, sources[s].status = "ready"
        PROVE  sources[s].capture = sources[s].text \/ Asked(s) \in Range(jobs') \/ Starts(s)
    <3>1. Active(sources, s)
      BY <2>3 DEF ReadyIsCurrent, MemoryAssumption, Active
    <3> QED
      BY <1>3, <1>5, <1>7, <2>3, <3>1 DEF TextInv
  <2>4. worker.pc \in Reading /\ worker.source \in Reviews => worker.page.content = worker.copy.text
    BY DEF TextInv
  <2>5. worker' = worker /\ sources' = sources
    BY <1>2
  <2> QED
    BY <1>5, <1>6, <1>7, <2>1, <2>2, <2>3, <2>4, <2>5 DEF TextInv
<1> QED
  BY <1>4, <1>8, <1>9, <1>10, <1>11

-----------------------------------------------------------------------------
(* The process starts again.                                               *)

LEMMA RestartStep ==
  ASSUME MemoryAssumption, StoreTypes, JobsInv, PolicyInv, Restart
  PROVE  PolicyInv' /\ Edited(sources, sources') /\ SameText(sources, sources')
<1>1. /\ projects \subseteq Specs /\ barred' = barred /\ misplaced' = misplaced
      /\ Typed(sources) /\ TreeOf(sources) /\ barred \subseteq Sources
  BY DEF Restart, StoreTypes, history, PolicyInv
<1>2. PICK mid : mid = WithSpecs(sources, projects)
  OBVIOUS
<1>3. PICK after : after = sources'
  OBVIOUS
<1>4. after = Outdated(mid, generation')
  BY <1>2, <1>3 DEF Restart
<1>5. Edited(sources, mid) /\ SameText(sources, mid)
  BY <1>1, <1>2, ListedSpecs
<1>6. /\ Typed(mid) /\ TreeOf(mid) /\ Few(mid) /\ (~misplaced => Agreed(mid))
      /\ \A x \in barred : Out(mid, x)
  BY <1>1, <1>2, SpecsPolicy
<1>7. /\ Typed(after) /\ TreeOf(after) /\ Edited(mid, after) /\ SameText(mid, after)
      /\ Registered(after) = Registered(mid)
      /\ \A s \in Sources : Out(mid, s) => Out(after, s)
      /\ Agreed(mid) => Agreed(after)
  BY <1>4, <1>6, OutdatedSources
<1>8. Few(after)
  BY <1>6, <1>7, FewSame
<1>9. PolicyInv'
  BY <1>1, <1>3, <1>6, <1>7, <1>8 DEF PolicyInv
<1>10. Edited(sources, after) /\ SameText(sources, after)
  <2>1. \A s \in Sources : sources[s] # None => after[s] # None
    BY <1>5, <1>7 DEF Edited
  <2>2. ASSUME NEW s \in Sources, after[s] # sources[s]
        PROVE  after[s].status # "ready"
    BY <1>5, <1>7, <2>2 DEF Edited
  <2>3. SameText(sources, after)
    BY <1>5, <1>7 DEF SameText, Registered, Edited
  <2> QED
    BY <2>1, <2>2, <2>3 DEF Edited
<1> QED
  BY <1>3, <1>9, <1>10

LEMMA RestartKeeps ==
  ASSUME MemoryAssumption, StoreTypes, WorkTypes, JobsInv, PolicyInv, ReadyIsCurrent, EventsInv, TextInv, Restart
  PROVE  /\ JobsInv' /\ PolicyInv' /\ ChainInv' /\ RecordInv' /\ WorkInv' /\ SeenInv' /\ ProgressInv' /\ ReadyIsCurrent'
         /\ EventsInv' /\ TextInv'
<1>1. PolicyInv' /\ Edited(sources, sources') /\ SameText(sources, sources')
  BY RestartStep
<1>2. /\ worker' = Idle /\ recorder' = Idle /\ chain' = <<>> /\ worker'.pc = "idle"
      /\ UNCHANGED <<captures, bindings, events, version>>
  BY DEF Restart, world, Idle
<1>3. jobs \in Seq(Jobs) /\ jobs' = [i \in DOMAIN jobs |-> [jobs[i] EXCEPT !.status = "queued"]]
  BY DEF Restart, JobsInv
<1>4. PICK after : after = jobs'
  OBVIOUS
<1>5. \A i \in DOMAIN jobs : jobs[i].source \in Sources /\ after[i] = Asked(jobs[i].source)
  <2> TAKE i \in DOMAIN jobs
  <2>1. PICK j \in Jobs : j = jobs[i]
    BY <1>3
  <2>2. after[i] = [j EXCEPT !.status = "queued"]
    BY <1>3, <1>4, <2>1
  <2>3. [j EXCEPT !.status = "queued"] = Asked(j.source) /\ j.source \in Sources
    BY DEF Jobs, Asked
  <2> QED
    BY <2>1, <2>2, <2>3
<1>6. after \in Seq(Jobs) /\ DOMAIN after = DOMAIN jobs
  <2>1. \A s \in Sources : Asked(s) \in Jobs
    BY DEF Asked, Jobs
  <2>2. DOMAIN jobs = 1..Len(jobs) /\ Len(jobs) \in Nat
    BY <1>3
  <2>3. after = [i \in 1..Len(jobs) |-> after[i]]
    BY <1>3, <1>4, <2>2
  <2>4. \A i \in 1..Len(jobs) : after[i] \in Jobs
    BY <1>5, <2>1, <2>2
  <2>5. after \in [1..Len(jobs) -> Jobs]
    BY <2>3, <2>4
  <2> QED
    BY <2>2, <2>5
<1>7. JobsInv'
  <2>1. \A i \in DOMAIN after : sources'[after[i].source] # None /\ after[i].status = "queued"
    BY <1>1, <1>5, <1>6 DEF Asked, Edited, JobsInv
  <2>2. after # <<>> => 1 \in DOMAIN after
    BY <1>6
  <2> QED
    BY <1>2, <1>4, <1>6, <2>1, <2>2 DEF JobsInv, Beginning, Synchronizing
<1>8. ChainInv' /\ RecordInv' /\ WorkInv' /\ ProgressInv'
  BY <1>2 DEF ChainInv, RecordInv, WorkInv, ProgressInv, StoreSteps
<1>9. SeenInv'
  BY <1>2 DEF SeenInv
<1>10. \A s \in Sources : sources'[s] # None /\ sources'[s].status = "ready" => sources'[s] = sources[s]
  BY <1>1 DEF Edited
<1>11. ReadyIsCurrent'
  BY <1>2, <1>10 DEF ReadyIsCurrent
<1>12. \A s \in Sources : QueuedFor(s) => QueuedFor(s)'
  <2> SUFFICES ASSUME NEW s \in Sources, QueuedFor(s)
               PROVE  QueuedFor(s)'
    OBVIOUS
  <2>1. PICK i \in DOMAIN jobs : jobs[i] = Asked(s)
    BY DEF QueuedFor, Range, Asked
  <2>2. after[i] = Asked(s) /\ i \in DOMAIN after
    BY <1>5, <1>6, <2>1 DEF Asked
  <2> QED
    BY <1>4, <2>2 DEF QueuedFor, Range, Asked
<1>13. \A s : worker.pc \in Synchronizing /\ worker.source = s => QueuedFor(s)'
  <2> SUFFICES ASSUME worker.pc \in Synchronizing
               PROVE  Asked(worker.source) \in Range(after)
    BY <1>4 DEF QueuedFor, Asked
  <2>1. 1 \in DOMAIN jobs /\ jobs[1].source = worker.source
    BY <1>3 DEF JobsInv
  <2> QED
    BY <1>5, <1>6, <2>1 DEF Range
<1>14. \A s : Starts(s) => QueuedFor(s)'
  BY <1>13 DEF Starts, Synchronizing
<1>15. EventsInv'
  <2>1. \A e \in events : e[1] \in Sources
    BY DEF StoreTypes, MemoryAssumption
  <2>2. ASSUME NEW e \in events, sources'[e[1]] # None, sources'[e[1]].status = "ready"
        PROVE  sources'[e[1]].capture >= e[2] \/ QueuedFor(e[1])'
    <3>1. sources'[e[1]] = sources[e[1]]
      BY <1>10, <2>1, <2>2
    <3> QED
      BY <1>12, <1>14, <2>1, <2>2, <3>1 DEF EventsInv
  <2>3. \A e \in events : e[2] <= version[e[1]]
    BY DEF EventsInv
  <2> QED
    BY <1>2, <2>2, <2>3 DEF EventsInv, Reading, Discovering
<1>16. TextInv'
  <2>1. ASSUME NEW s \in Reviews, sources'[s] # None, sources'[s].status = "ready"
        PROVE  sources'[s].capture = sources'[s].text \/ QueuedFor(s)'
    <3>1. s \in Sources
      BY DEF MemoryAssumption
    <3>2. sources'[s] = sources[s]
      BY <1>10, <2>1, <3>1
    <3>3. \/ sources[s].capture = sources[s].text
          \/ QueuedFor(s) \/ Starts(s)
          \/ worker.pc = "close" /\ worker.source = s
      BY <2>1, <3>2 DEF TextInv
    <3> QED
      BY <1>12, <1>13, <1>14, <3>1, <3>2, <3>3 DEF Synchronizing
  <2> QED
    BY <1>2, <2>1 DEF TextInv, Reading, Discovering
<1> QED
  BY <1>1, <1>7, <1>8, <1>9, <1>11, <1>15, <1>16

-----------------------------------------------------------------------------
(* A retrieval.                                                            *)

LEMMA WaitingRecord ==
  ASSUME NEW scope \in SUBSET Sources, NEW branches \in SUBSET Sources, NEW todo \in SUBSET Sources
  PROVE  [pc |-> "wait", scope |-> scope, branches |-> branches, todo |-> todo, context |-> {}, evidence |-> {},
          specs |-> {}] \in Asking
BY DEF Asking

LEMMA ApplicableSources ==
  ASSUME NEW src
  PROVE  Applicable(src) \subseteq Sources /\ \A s \in Applicable(src) : src[s] # None
BY DEF Applicable, Registered

\* The context of a retrieval names its sources, and what was captured of them.
LEMMA ContextOf ==
  ASSUME MemoryAssumption, NEW src, Typed(src)
  PROVE  /\ Context(src) \subseteq Contexts
         /\ {c[1] : c \in Context(src)} = Applicable(src)
         /\ \A c \in Context(src) : c[1] \notin Specs => c[3] = src[c[1]].capture
         /\ \A s \in Applicable(src) \ Specs : \E c \in Context(src) : c[1] = s /\ c[3] = src[s].capture
<1>1. \A s \in Applicable(src) : s \in Sources /\ src[s] \in Registration
  BY ApplicableSources DEF Typed
<1>2. \A s \in Applicable(src) : src[s].scope \in Scopes /\ src[s].capture \in Nat \cup {None}
  BY <1>1, RegistrationParts
<1> DEFINE Of(s) == <<s, src[s].scope, IF s \in Specs THEN None ELSE src[s].capture>>
<1>3. Context(src) = {Of(s) : s \in Applicable(src)}
  BY DEF Context
<1>4. \A s \in Applicable(src) : Of(s) \in Contexts
  BY <1>1, <1>2 DEF Contexts
<1>5. \A s \in Applicable(src) : Of(s)[1] = s /\ (s \notin Specs => Of(s)[3] = src[s].capture)
  OBVIOUS
<1> HIDE DEF Of
<1> QED
  BY <1>3, <1>4, <1>5

LEMMA ReadyEvidence ==
  ASSUME MemoryAssumption, StoreTypes, PolicyInv, ReadyIsCurrent, RetrieveReady
  PROVE  /\ retriever' = [retriever EXCEPT !.pc = "specs", !.context = Context(sources),
                                           !.evidence = {<<s, sources[s].capture>> : s \in Needed},
                                           !.specs = Applicable(sources) \cap Specs]
         /\ \A s \in Needed : s \in Sources /\ sources[s].capture \in Nat /\ <<s, sources[s].capture>> \in captures
         /\ Context(sources) \subseteq Contexts /\ Typed(sources)
         /\ UNCHANGED <<sources, captures, bindings, indexer, worker, answer, projects, registrar, generation>>
<1>1. /\ \A s \in Needed : Ready(s)
      /\ retriever' = [retriever EXCEPT !.pc = "specs", !.context = Context(sources),
                                        !.evidence = {<<s, sources[s].capture>> : s \in Needed},
                                        !.specs = Applicable(sources) \cap Specs]
      /\ UNCHANGED <<sources, captures, bindings, indexer, worker, answer, projects, registrar, generation>>
  BY DEF RetrieveReady, store, world, history
<1>2. Typed(sources)
  BY DEF PolicyInv
<1>3. ASSUME NEW s \in Needed
      PROVE  s \in Sources /\ sources[s].capture \in Nat /\ <<s, sources[s].capture>> \in captures
  <2>1. s \in Sources /\ sources[s] # None /\ sources[s].status = "ready"
    BY <1>1, ApplicableSources DEF Needed, Ready
  <2>2. <<s, sources[s].capture>> \in captures
    BY <2>1 DEF ReadyIsCurrent
  <2> QED
    BY <2>1, <2>2 DEF StoreTypes
<1>4. Context(sources) \subseteq Contexts
  BY <1>2, ContextOf
<1> QED
  BY <1>1, <1>2, <1>3, <1>4

LEMMA LatestCapture ==
  ASSUME MemoryAssumption, StoreTypes, WorkTypes, retriever.pc = "index",
         ~(\A e \in retriever.evidence : e[1] \in Specs => Binding(e[1], e[2]) \in bindings)
  PROVE  /\ Binding(Latest[1], Latest[2]) \in Datasets /\ Binding(Latest[1], Latest[2]) # None
         /\ Binding(Latest[1], Latest[2]) \notin bindings
<1>1. \E e \in retriever.evidence : e[1] \in Specs /\ Binding(e[1], e[2]) \notin bindings
  OBVIOUS
<1>2. Latest \in retriever.evidence /\ Binding(Latest[1], Latest[2]) \notin bindings
  BY <1>1 DEF Latest
<1>3. Latest[1] \in Sources /\ Latest[2] \in Nat
  BY <1>2, AskingParts
<1>4. Binding(Latest[1], Latest[2]) \in Datasets
  BY <1>3 DEF Binding, Datasets, StoreTypes
<1> QED
  BY <1>2, <1>4 DEF MemoryAssumption

LEMMA AskingStep ==
  ASSUME MemoryAssumption, StoreTypes, WorkTypes, PolicyInv, WorkInv, ReadyIsCurrent, AskInv, Retriever
  PROVE  retriever' \in Asking \cup {Idle} /\ AskInv' /\ captures' \subseteq Sources \X Nat
<1> USE DEF store, process, world, history, budgets
<1>1. retriever \in Asking \/ retriever = Idle
  BY DEF WorkTypes
<1>2. ASSUME retriever' = Idle, captures' = captures
      PROVE  retriever' \in Asking \cup {Idle} /\ AskInv' /\ captures' \subseteq Sources \X Nat
  BY <1>2 DEF AskInv, Idle, StoreTypes
<1>3. CASE Retrieve
  <2>1. PICK scope \in SUBSET Sources, branches \in SUBSET Sources, todo \in SUBSET Sources :
          retriever' = [pc |-> "wait", scope |-> scope, branches |-> branches, todo |-> todo, context |-> {},
                        evidence |-> {}, specs |-> {}]
    <3> DEFINE branches == Branches(sources)
               scope == {s \in (Applicable(sources) \cup branches) \ Specs : sources[s].parent = None}
    <3>1. branches \subseteq Sources /\ scope \subseteq Sources
      BY ApplicableSources DEF Branches, MemoryAssumption
    <3>2. PICK old \in SUBSET scope :
            retriever' = [pc |-> "wait", scope |-> scope, branches |-> branches,
                          todo |-> {s \in scope : ~Live(s) /\ (s \in old \/ NeedsSync(sources, s))},
                          context |-> {}, evidence |-> {}, specs |-> {}]
      BY <1>3 DEF Retrieve
    <3> QED
      BY <3>1, <3>2
  <2>2. retriever' \in Asking /\ retriever'.pc = "wait"
    BY <2>1, WaitingRecord
  <2>3. captures' = captures
    BY <1>3 DEF Retrieve
  <2> QED
    BY <2>2, <2>3 DEF AskInv, StoreTypes
<1>4. CASE RetrieveStops \/ RetrieveFails \/ Answer \/ RetrieveAborts
  BY <1>2, <1>4 DEF RetrieveStops, RetrieveFails, GiveUp, Answer, RetrieveAborts
<1>5. CASE RetrieveQueues
  <2>1. PICK s \in retriever.todo : retriever' = [retriever EXCEPT !.todo = @ \ {s}]
    BY <1>5 DEF RetrieveQueues
  <2>2. retriever \in Asking /\ retriever.pc = "wait"
    BY <1>1, <1>5 DEF RetrieveQueues, Idle
  <2>3. retriever' \in Asking /\ retriever'.pc = "wait"
    BY <2>1, <2>2 DEF Asking
  <2>4. captures' = captures
    BY <1>5 DEF RetrieveQueues
  <2> QED
    BY <2>3, <2>4 DEF AskInv, StoreTypes
<1>6. CASE RetrieveReady
  <2>1. retriever \in Asking
    BY <1>1, <1>6 DEF RetrieveReady, Idle
  <2> DEFINE evidence == {<<s, sources[s].capture>> : s \in Needed}
             specs == Applicable(sources) \cap Specs
  <2>2. retriever' = [retriever EXCEPT !.pc = "specs", !.context = Context(sources), !.evidence = evidence, !.specs = specs]
    BY <1>6, ReadyEvidence
  <2>3. /\ \A s \in Needed : s \in Sources /\ sources[s].capture \in Nat /\ <<s, sources[s].capture>> \in captures
        /\ Context(sources) \subseteq Contexts /\ captures' = captures
    BY <1>6, ReadyEvidence
  <2>4. evidence \subseteq Sources \X Nat /\ evidence \subseteq captures
    BY <2>3
  <2>5. {e[1] : e \in evidence} = Needed
    <3>1. \A e \in evidence : e[1] \in Needed
      OBVIOUS
    <3>2. \A s \in Needed : \E e \in evidence : e[1] = s
      <4> TAKE s \in Needed
      <4>1. <<s, sources[s].capture>> \in evidence /\ <<s, sources[s].capture>>[1] = s
        OBVIOUS
      <4> QED
        BY <4>1
    <3> HIDE DEF evidence
    <3> QED
      BY <3>1, <3>2
  <2>6. \A e \in evidence : e[1] \notin Specs => \E c \in Context(sources) : c[1] = e[1] /\ c[3] = e[2]
    <3> SUFFICES ASSUME NEW e \in evidence
                 PROVE  \E c \in Context(sources) : c[1] = e[1] /\ c[3] = e[2]
      OBVIOUS
    <3>1. PICK s \in Needed : e = <<s, sources[s].capture>>
      OBVIOUS
    <3>2. PICK c \in Context(sources) : c[1] = s /\ c[3] = sources[s].capture
      BY ContextOf DEF Needed, PolicyInv
    <3> QED
      BY <3>1, <3>2
  <2>7. {c[1] : c \in Context(sources)} = Needed \cup specs
    BY ContextOf DEF Needed, PolicyInv
  <2>8. specs \subseteq Specs
    OBVIOUS
  <2> HIDE DEF evidence, specs
  <2>9. /\ retriever' \in Asking /\ retriever'.evidence = evidence /\ retriever'.specs = specs
        /\ retriever'.context = Context(sources)
    BY <2>1, <2>2, <2>3, <2>4, <2>8 DEF Asking
  <2>10. AskInv'
    BY <2>3, <2>4, <2>5, <2>6, <2>7, <2>9 DEF AskInv
  <2> QED
    BY <2>3, <2>9, <2>10 DEF StoreTypes
<1>7. CASE \E s \in Specs : CaptureSpec(s)
  <2>1. PICK s \in Specs : CaptureSpec(s)
    BY <1>7
  <2>2. PICK content \in 0..version[s] :
          /\ captures' = captures \cup {<<s, content>>}
          /\ retriever' = [retriever EXCEPT !.pc = IF Binding(s, content) \in bindings THEN "specs" ELSE "index",
                                            !.specs = @ \ {s}, !.evidence = @ \cup {<<s, content>>}]
    BY <2>1 DEF CaptureSpec
  <2>3. s \in Sources /\ version[s] \in Nat /\ content \in Nat
    BY <2>2 DEF StoreTypes, MemoryAssumption
  <2>4. retriever \in Asking /\ retriever.pc = "specs" /\ s \in retriever.specs
    BY <1>1, <2>1 DEF CaptureSpec, Idle
  <2>5. PICK pc \in {"specs", "index"} :
          retriever' = [retriever EXCEPT !.pc = pc, !.specs = @ \ {s}, !.evidence = @ \cup {<<s, content>>}]
    BY <2>2
  <2>6. /\ retriever' \in Asking /\ retriever'.context = retriever.context
        /\ retriever'.evidence = retriever.evidence \cup {<<s, content>>} /\ retriever'.specs = retriever.specs \ {s}
    <3>1. retriever.evidence \cup {<<s, content>>} \subseteq Sources \X Nat /\ retriever.specs \ {s} \subseteq Specs
      BY <2>3, <2>4, AskingParts
    <3>2. PICK more, less : more = retriever.evidence \cup {<<s, content>>} /\ less = retriever.specs \ {s}
      OBVIOUS
    <3>3. retriever' = [retriever EXCEPT !.pc = pc, !.specs = less, !.evidence = more]
      BY <2>4, <2>5, <3>2 DEF Asking
    <3>4. /\ retriever' \in Asking /\ retriever'.context = retriever.context
          /\ retriever'.evidence = more /\ retriever'.specs = less
      BY <2>4, <3>1, <3>2, <3>3 DEF Asking
    <3> QED
      BY <3>2, <3>4
  <2>7. {e[1] : e \in retriever'.evidence} = {e[1] : e \in retriever.evidence} \cup {s}
    <3>1. PICK last : last = <<s, content>>
      OBVIOUS
    <3>2. last[1] = s
      BY <3>1
    <3>3. retriever'.evidence = retriever.evidence \cup {last}
      BY <2>6, <3>1
    <3> QED
      BY <3>2, <3>3
  <2>8. /\ retriever.evidence \subseteq captures
        /\ {e[1] : e \in retriever.evidence} \cup retriever.specs = {c[1] : c \in retriever.context}
        /\ \A e \in retriever.evidence : e[1] \notin Specs => \E c \in retriever.context : c[1] = e[1] /\ c[3] = e[2]
    BY <2>4 DEF AskInv
  <2>9. {e[1] : e \in retriever'.evidence} \cup retriever'.specs = {c[1] : c \in retriever'.context}
    BY <2>4, <2>6, <2>7, <2>8
  <2>10. AskInv'
    BY <2>2, <2>6, <2>8, <2>9 DEF AskInv
  <2> QED
    BY <2>2, <2>3, <2>6, <2>10 DEF StoreTypes
<1>8. CASE IndexSpec \/ SpecIndexed
  <2>1. captures' = captures /\ retriever.pc \in {"index", "indexing"}
    BY <1>8 DEF IndexSpec, SpecIndexed
  <2>2. retriever \in Asking
    BY <1>1, <2>1 DEF Idle
  <2>3. retriever' = Idle \/ \E pc \in {"specs", "indexing"} : retriever' = [retriever EXCEPT !.pc = pc]
    BY <1>8 DEF IndexSpec, SpecIndexed
  <2>4. CASE \E pc \in {"specs", "indexing"} : retriever' = [retriever EXCEPT !.pc = pc]
    <3>1. /\ retriever' \in Asking /\ retriever'.context = retriever.context
          /\ retriever'.evidence = retriever.evidence /\ retriever'.specs = retriever.specs
      BY <2>2, <2>4 DEF Asking
    <3>2. AskInv'
      BY <2>1, <3>1 DEF AskInv
    <3> QED
      BY <2>1, <3>1, <3>2 DEF StoreTypes
  <2> QED
    BY <1>2, <2>1, <2>3, <2>4
<1> QED
  BY <1>3, <1>4, <1>5, <1>6, <1>7, <1>8 DEF Retriever

-----------------------------------------------------------------------------
(* Who builds a dataset.                                                   *)

LEMMA IndexerOfWorker ==
  ASSUME MemoryAssumption, StoreTypes, WorkTypes, WorkInv, worker # Idle, worker.page # None
  PROVE  /\ Binding(worker.source, worker.page.content) \in Datasets
         /\ Binding(worker.source, worker.page.content) # None
<1>1. worker.source \in Sources /\ worker.page.content \in Nat
  BY WorkerParts DEF Fetches
<1> QED
  BY <1>1 DEF Binding, Datasets, MemoryAssumption, StoreTypes

LEMMA WorkerTurn ==
  ASSUME MemoryAssumption, StoreTypes, WorkTypes, JobsInv, PolicyInv, WorkInv, SeenInv, TurnInv, Worker \/ CallFails
  PROVE  /\ TurnInv'
         /\ indexer' \in Datasets \cup {None}
         /\ indexer' # indexer /\ indexer' # None => indexer' \notin bindings
         /\ captures' \subseteq Sources \X Nat /\ bindings' \subseteq Datasets
<1>1. retriever' = retriever
  BY WorkerContinues
<1>2. /\ captures \subseteq Sources \X Nat /\ bindings \subseteq Datasets /\ indexer \in Datasets \cup {None}
  BY DEF StoreTypes
<1>3. CASE SaveCapture
  <2> DEFINE binding == Binding(worker.source, worker.page.content)
  <2>1. /\ worker # Idle /\ worker.pc = "save" /\ captures' = captures \cup {<<worker.source, worker.page.content>>}
        /\ \/ worker'.pc # "indexing" /\ indexer' = indexer
           \/ worker'.pc = "indexing" /\ indexer = None /\ indexer' = binding /\ binding \notin bindings
    BY <1>3, SaveMoves
  <2>2. bindings' = bindings
    BY <1>3 DEF SaveCapture
  <2>3. worker.page # None
    BY <2>1 DEF WorkInv, Reading
  <2>4. worker.source \in Sources /\ worker.page.content \in Nat
    BY <2>1, <2>3, WorkerParts DEF Fetches
  <2>5. binding \in Datasets /\ binding # None
    BY <2>1, <2>3, IndexerOfWorker
  <2>6. TurnInv'
    BY <1>1, <2>1, <2>5 DEF TurnInv
  <2> QED
    BY <1>2, <2>1, <2>2, <2>4, <2>5, <2>6
<1>4. CASE StartIndex
  <2> DEFINE binding == Binding(worker.source, worker.page.content)
  <2>1. /\ worker # Idle /\ worker.pc = "index"
        /\ \/ worker'.pc # "indexing" /\ indexer' = indexer
           \/ worker'.pc = "indexing" /\ indexer = None /\ indexer' = binding /\ binding \notin bindings
    BY <1>4, StartMoves
  <2>2. bindings' = bindings /\ captures' = captures
    BY <1>4 DEF StartIndex, store
  <2>3. worker.page # None
    BY <2>1 DEF WorkInv, Reading
  <2>4. binding \in Datasets /\ binding # None
    BY <2>1, <2>3, IndexerOfWorker
  <2>5. TurnInv'
    BY <1>1, <2>1, <2>4 DEF TurnInv
  <2> QED
    BY <1>2, <2>1, <2>2, <2>4, <2>5
<1>5. CASE EndIndex
  <2>1. /\ worker.pc = "indexing" /\ worker'.pc = "discover" /\ indexer' = None /\ indexer = worker'.dataset
        /\ indexer # None /\ bindings' = bindings \cup {worker'.dataset}
    BY <1>5, EndMoves
  <2>2. captures' = captures
    BY <1>5 DEF EndIndex
  <2>3. TurnInv'
    BY <1>1, <2>1 DEF TurnInv
  <2> QED
    BY <1>2, <2>1, <2>2, <2>3
<1>6. CASE CallFails
  <2>1. /\ worker'.pc = "fail"
        /\ \/ worker.pc = "indexing" /\ indexer' = None
           \/ worker.pc # "indexing" /\ indexer' = indexer
    BY <1>6, FailMoves DEF CallFails
  <2>2. bindings' = bindings /\ captures' = captures
    BY <1>6 DEF CallFails, store
  <2>3. TurnInv'
    BY <1>1, <2>1 DEF TurnInv
  <2> QED
    BY <1>2, <2>1, <2>2, <2>3
<1>7. CASE Pick \/ Skip \/ FailJob \/ Claim \/ Mark \/ Read
  <2>1. worker.pc # "indexing" /\ worker'.pc # "indexing"
    BY <1>7, PickMoves, SkipMoves, ClaimMoves, MarkMoves, ReadMoves DEF Idle
  <2>2. captures' = captures /\ bindings' = bindings /\ indexer' = indexer
    BY <1>7 DEF Pick, Skip, FailJob, Claim, Mark, Read, store
  <2>3. TurnInv'
    BY <1>1, <2>1, <2>2 DEF TurnInv
  <2> QED
    BY <1>2, <2>2, <2>3
<1>8. CASE Discover \/ Verify \/ Reconcile \/ Finish \/ Close \/ QueueChild \/ FailSource
  <2>1. worker.pc # "indexing" /\ worker'.pc # "indexing"
    <3>1. CASE Discover \/ Verify \/ Reconcile \/ Finish
      BY <3>1, DiscoverMoves, VerifyMoves, ReconcileMoves, FinishMoves
    <3>2. CASE Close \/ QueueChild
      BY <3>2, CloseMoves, ChildMoves DEF Idle
    <3>3. CASE FailSource
      BY <3>3, FailMoves DEF FailSource, At
    <3> QED
      BY <1>8, <3>1, <3>2, <3>3
  <2>2. captures' = captures /\ bindings' = bindings /\ indexer' = indexer
    BY <1>8 DEF Discover, Verify, Reconcile, Finish, Close, QueueChild, FailSource, store
  <2>3. TurnInv'
    BY <1>1, <2>1, <2>2 DEF TurnInv
  <2> QED
    BY <1>2, <2>2, <2>3
<1> QED
  BY <1>3, <1>4, <1>5, <1>6, <1>7, <1>8 DEF Worker

LEMMA RetrieverTurn ==
  ASSUME MemoryAssumption, StoreTypes, WorkTypes, WorkInv, TurnInv, Retriever
  PROVE  /\ TurnInv'
         /\ indexer' \in Datasets \cup {None}
         /\ indexer' # indexer /\ indexer' # None => indexer' \notin bindings
         /\ bindings' \subseteq Datasets
<1> USE DEF store, process, world, history, budgets
<1>1. bindings \subseteq Datasets /\ indexer \in Datasets \cup {None}
  BY DEF StoreTypes
<1>2. worker.pc = "indexing" => indexer # None
  <2> SUFFICES ASSUME worker.pc = "indexing"
               PROVE  indexer # None
    OBVIOUS
  <2>1. worker # Idle /\ worker.page # None /\ indexer = Binding(worker.source, worker.page.content)
    BY DEF WorkInv, Idle, Reading
  <2> QED
    BY <2>1, IndexerOfWorker
<1>3. ASSUME UNCHANGED <<worker, bindings, indexer>>, retriever.pc # "indexing", retriever'.pc # "indexing"
      PROVE  /\ TurnInv'
             /\ indexer' \in Datasets \cup {None}
             /\ indexer' # indexer /\ indexer' # None => indexer' \notin bindings
             /\ bindings' \subseteq Datasets
  BY <1>1, <1>3 DEF TurnInv
<1>4. CASE Retrieve
  <2>1. retriever'.pc = "wait" /\ retriever.pc = "idle" /\ UNCHANGED <<worker, bindings, indexer>>
    BY <1>4 DEF Retrieve, Idle
  <2> QED
    BY <1>3, <2>1
<1>5. CASE RetrieveQueues
  <2>1. retriever.pc = "wait" /\ retriever \in Asking
    BY <1>5, AskingParts DEF RetrieveQueues, Idle
  <2>2. retriever'.pc = "wait" /\ UNCHANGED <<worker, bindings, indexer>>
    BY <1>5, <2>1 DEF RetrieveQueues, Asking
  <2> QED
    BY <1>3, <2>1, <2>2
<1>6. CASE RetrieveStops \/ RetrieveFails \/ Answer
  <2>1. retriever' = Idle /\ retriever.pc \in {"wait", "specs"} /\ UNCHANGED <<worker, bindings, indexer>>
    BY <1>6 DEF RetrieveStops, RetrieveFails, GiveUp, Answer
  <2> QED
    BY <1>3, <2>1 DEF Idle
<1>7. CASE RetrieveReady
  <2>1. retriever.pc = "wait" /\ retriever \in Asking
    BY <1>7, AskingParts DEF RetrieveReady, Idle
  <2>2. retriever'.pc = "specs" /\ UNCHANGED <<worker, bindings, indexer>>
    BY <1>7, <2>1 DEF RetrieveReady, Asking
  <2> QED
    BY <1>3, <2>1, <2>2
<1>8. CASE \E s \in Specs : CaptureSpec(s)
  <2>1. PICK s \in Specs : CaptureSpec(s)
    BY <1>8
  <2>2. retriever.pc = "specs" /\ retriever \in Asking
    BY <2>1, AskingParts DEF CaptureSpec, Idle
  <2>3. retriever'.pc \in {"specs", "index"} /\ UNCHANGED <<worker, bindings, indexer>>
    BY <2>1, <2>2 DEF CaptureSpec, Asking
  <2> QED
    BY <1>3, <2>2, <2>3
<1>9. CASE IndexSpec
  <2>1. retriever.pc = "index" /\ retriever \in Asking /\ indexer = None /\ UNCHANGED <<worker, bindings>>
    BY <1>9, AskingParts DEF IndexSpec, Idle
  <2>2. CASE UNCHANGED indexer /\ (retriever' = Idle \/ retriever' = [retriever EXCEPT !.pc = "specs"])
    <3>1. retriever'.pc # "indexing"
      BY <2>1, <2>2 DEF Idle, Asking
    <3> QED
      BY <1>3, <2>1, <2>2, <3>1
  <2>3. CASE /\ ~(\A e \in retriever.evidence : e[1] \in Specs => Binding(e[1], e[2]) \in bindings)
             /\ retriever' = [retriever EXCEPT !.pc = "indexing"] /\ indexer' = Binding(Latest[1], Latest[2])
    <3>1. retriever'.pc = "indexing"
      BY <2>1, <2>3 DEF Asking
    <3>2. indexer' \in Datasets /\ indexer' # None /\ indexer' \notin bindings
      BY <2>1, <2>3, LatestCapture
    <3>3. worker.pc # "indexing"
      BY <1>2, <2>1
    <3> QED
      BY <1>1, <2>1, <3>1, <3>2, <3>3 DEF TurnInv
  <2> QED
    BY <1>9, <2>2, <2>3 DEF IndexSpec
<1>10. CASE SpecIndexed \/ (RetrieveAborts /\ retriever.pc = "indexing")
  <2>1. retriever.pc = "indexing" /\ retriever \in Asking /\ indexer' = None /\ worker' = worker
    BY <1>10, AskingParts DEF SpecIndexed, RetrieveAborts, Idle
  <2>2. indexer # None /\ worker.pc # "indexing"
    BY <2>1 DEF TurnInv
  <2>3. retriever'.pc # "indexing"
    BY <1>10, <2>1 DEF SpecIndexed, RetrieveAborts, Asking, Idle
  <2>4. bindings' \subseteq Datasets
    BY <1>1, <1>10, <2>2 DEF SpecIndexed, RetrieveAborts
  <2> QED
    BY <2>1, <2>2, <2>3, <2>4 DEF TurnInv
<1>11. CASE RetrieveAborts /\ retriever.pc # "indexing"
  <2>1. retriever' = Idle /\ retriever.pc = "specs" /\ UNCHANGED <<worker, bindings, indexer>>
    BY <1>11 DEF RetrieveAborts
  <2> QED
    BY <1>3, <2>1 DEF Idle
<1> QED
  BY <1>4, <1>5, <1>6, <1>7, <1>8, <1>9, <1>10, <1>11 DEF Retriever

-----------------------------------------------------------------------------
(* The types of the state.                                                 *)

LEMMA StepTypes ==
  ASSUME StoreTypes, UNCHANGED <<captures, bindings, indexer, generation>>,
         events' \subseteq (Pages \cup Specs) \X Nat, version' \in [Sources -> Nat],
         tree' \in [Sources -> Pages \cup {None}], projects' \subseteq Specs,
         registrar' \in (SUBSET Specs) \cup {None}, misplaced' \in BOOLEAN
  PROVE  StoreTypes'
BY DEF StoreTypes

LEMMA SameTypes ==
  ASSUME StoreTypes,
         UNCHANGED <<captures, bindings, indexer, generation, events, version, tree, projects, registrar, misplaced>>
  PROVE  StoreTypes'
BY DEF StoreTypes

LEMMA HandlerTypes ==
  ASSUME MemoryAssumption, StoreTypes,
         \/ \E s \in Sources, policy \in Policies : Update(s, policy)
         \/ \E p \in Pages, policy \in Policies : Register(p, policy)
         \/ \E s \in Pages : ApproveSubpages(s)
         \/ RegisterProjects
         \/ \E s \in Sources : Sync(s) \/ \E content \in 1..version[s] : Deliver(s, content)
         \/ LoadProjects
         \/ \E s \in Sources : ChangeContent(s) \/ ChangeProjects(s)
         \/ \E p \in Pages, q \in Pages \cup {None} : MovePage(p, q)
         \/ Shutdown
  PROVE  StoreTypes' /\ UNCHANGED <<worker, recorder, retriever, captures, bindings, indexer, answer>>
<1> USE DEF store, process, world, history
<1>1. /\ captures \subseteq Sources \X Nat /\ bindings \subseteq Datasets
      /\ events \subseteq (Pages \cup Specs) \X Nat
      /\ version \in [Sources -> Nat] /\ tree \in [Sources -> Pages \cup {None}] /\ generation \in Nat
      /\ projects \subseteq Specs /\ registrar \in (SUBSET Specs) \cup {None}
      /\ indexer \in Datasets \cup {None}
      /\ misplaced \in BOOLEAN
  BY DEF StoreTypes
<1>2. CASE \E s \in Sources, policy \in Policies : Update(s, policy)
  <2>1. PICK s \in Sources, policy \in Policies : Update(s, policy)
    BY <1>2
  <2>2. misplaced' = (misplaced \/ ~InBranch(sources', s))
    BY <2>1 DEF Update
  <2>3. misplaced' \in BOOLEAN
    BY <2>2
  <2>4. /\ UNCHANGED <<captures, bindings, indexer, generation, events, version, tree, projects, registrar>>
        /\ UNCHANGED <<worker, recorder, retriever, answer>>
    BY <2>1 DEF Update
  <2> QED
    BY <1>1, <2>3, <2>4, StepTypes
<1>3. CASE \/ \E p \in Pages, policy \in Policies : Register(p, policy)
           \/ \E s \in Pages : ApproveSubpages(s)
           \/ \E s \in Sources : Sync(s)
           \/ Shutdown
  BY <1>3, SameTypes DEF Register, ApproveSubpages, Sync, Shutdown
<1>4. CASE LoadProjects \/ RegisterProjects
  BY <1>1, <1>4, StepTypes DEF LoadProjects, RegisterProjects
<1>5. CASE \E s \in Sources : \E content \in 1..version[s] : Deliver(s, content)
  <2>1. PICK s \in Sources : \E content \in 1..version[s] : Deliver(s, content)
    BY <1>5
  <2>2. PICK content \in 1..version[s] : Deliver(s, content)
    BY <2>1
  <2>3. events' = events \cup {<<s, content>>} /\ s \in Pages \cup Specs /\ content \in Nat
    BY <1>1, <2>2 DEF Deliver
  <2>4. /\ UNCHANGED <<captures, bindings, indexer, generation, version, tree, projects, registrar, misplaced>>
        /\ UNCHANGED <<worker, recorder, retriever, answer>>
    BY <2>2 DEF Deliver
  <2> QED
    BY <1>1, <2>3, <2>4, StepTypes
<1>6. CASE \E s \in Sources : ChangeContent(s)
  <2>1. PICK s \in Sources : ChangeContent(s)
    BY <1>6
  <2>2. version' \in [Sources -> Nat]
    BY <1>1, <2>1 DEF ChangeContent
  <2>3. /\ UNCHANGED <<captures, bindings, indexer, generation, events, tree, projects, registrar, misplaced>>
        /\ UNCHANGED <<worker, recorder, retriever, answer>>
    BY <2>1 DEF ChangeContent
  <2> QED
    BY <1>1, <2>2, <2>3, StepTypes
<1>7. CASE \E s \in Sources : ChangeProjects(s)
  <2>1. PICK s \in Sources : ChangeProjects(s)
    BY <1>7
  <2>2. s \in Specs
    BY <1>1, <2>1 DEF ChangeProjects
  <2>3. projects' \subseteq Specs
    BY <1>1, <2>1, <2>2 DEF ChangeProjects
  <2>4. /\ UNCHANGED <<captures, bindings, indexer, generation, events, version, tree, registrar, misplaced>>
        /\ UNCHANGED <<worker, recorder, retriever, answer>>
    BY <2>1 DEF ChangeProjects
  <2> QED
    BY <1>1, <2>3, <2>4, StepTypes
<1>8. CASE \E p \in Pages, q \in Pages \cup {None} : MovePage(p, q)
  <2>1. PICK p \in Pages, q \in Pages \cup {None} : MovePage(p, q)
    BY <1>8
  <2>2. tree' \in [Sources -> Pages \cup {None}]
    BY <1>1, <2>1 DEF MovePage
  <2>3. /\ UNCHANGED <<captures, bindings, indexer, generation, events, version, projects, registrar, misplaced>>
        /\ UNCHANGED <<worker, recorder, retriever, answer>>
    BY <2>1 DEF MovePage
  <2> QED
    BY <1>1, <2>2, <2>3, StepTypes
<1> QED
  BY <1>2, <1>3, <1>4, <1>5, <1>6, <1>7, <1>8

LEMMA RetrieverSame ==
  ASSUME Retriever
  PROVE  /\ UNCHANGED <<worker, recorder, generation, events, version, tree, projects, registrar, misplaced>>
         /\ captures \subseteq captures'
<1> USE DEF store, process, world, history, budgets
<1>1. CASE Retrieve \/ RetrieveQueues \/ RetrieveStops \/ RetrieveReady \/ RetrieveFails
  BY <1>1 DEF Retrieve, RetrieveQueues, RetrieveStops, RetrieveReady, RetrieveFails, GiveUp
<1>2. CASE (\E s \in Specs : CaptureSpec(s)) \/ IndexSpec \/ SpecIndexed \/ Answer \/ RetrieveAborts
  BY <1>2 DEF CaptureSpec, IndexSpec, SpecIndexed, Answer, RetrieveAborts
<1> QED
  BY <1>1, <1>2 DEF Retriever

LEMMA RestartTypes ==
  ASSUME StoreTypes, Restart
  PROVE  StoreTypes' /\ WorkTypes' /\ AskInv' /\ TurnInv' /\ UNCHANGED answer /\ indexer' = None
<1>1. /\ worker' = Idle /\ retriever' = Idle /\ recorder' = Idle /\ registrar' = None /\ indexer' = None
      /\ generation' \in {generation, generation + 1}
      /\ UNCHANGED <<captures, bindings, events, tree, version, projects, misplaced, answer>>
  BY DEF Restart, world, history
<1>2. StoreTypes'
  BY <1>1 DEF StoreTypes
<1>3. WorkTypes' /\ AskInv' /\ TurnInv'
  BY <1>1 DEF WorkTypes, AskInv, TurnInv, Idle
<1> QED
  BY <1>1, <1>2, <1>3

\* An asking retrieval is not disturbed.
LEMMA SameAsking ==
  ASSUME AskInv, retriever' = retriever, captures \subseteq captures'
  PROVE  AskInv'
BY DEF AskInv

-----------------------------------------------------------------------------
(* Every step keeps the invariant.                                         *)

LEMMA WorkerKeepsAll ==
  ASSUME MemoryAssumption, MemoryInv, Worker \/ CallFails
  PROVE  MemoryInv'
<1>1. /\ StoreTypes /\ WorkTypes /\ JobsInv /\ ChainInv /\ PolicyInv /\ RecordInv /\ WorkInv /\ SeenInv /\ ProgressInv
      /\ ReadyIsCurrent /\ EventsInv /\ TextInv /\ AskInv /\ TurnInv
  BY DEF MemoryInv
<1>2. /\ UNCHANGED <<recorder, generation, events, version, retriever, tree, projects, registrar, misplaced>>
      /\ captures \subseteq captures'
  BY <1>1, WorkerContinues, WorkerStores
<1>3. /\ TurnInv' /\ indexer' \in Datasets \cup {None}
      /\ captures' \subseteq Sources \X Nat /\ bindings' \subseteq Datasets
  BY <1>1, WorkerTurn
<1>4. StoreTypes'
  BY <1>1, <1>2, <1>3 DEF StoreTypes
<1>5. WorkInv' /\ SeenInv' /\ worker' \in Working \cup {Idle}
  BY <1>1, WorkerWork
<1>6. WorkTypes'
  BY <1>1, <1>2, <1>5 DEF WorkTypes
<1>7. AskInv'
  BY <1>1, <1>2, SameAsking
<1>8. JobsInv'
  BY <1>1, WorkerJobs
<1>9. ChainInv' /\ RecordInv'
  BY <1>1, WorkerChain
<1>10. PolicyInv'
  BY <1>1, WorkerPolicy
<1>11. ProgressInv'
  BY <1>1, WorkerProgress
<1>12. ReadyIsCurrent'
  BY <1>1, WorkerReady
<1>13. EventsInv'
  BY <1>1, WorkerEvents
<1>14. TextInv'
  BY <1>1, WorkerText
<1> QED
  BY <1>3, <1>4, <1>5, <1>6, <1>7, <1>8, <1>9, <1>10, <1>11, <1>12, <1>13, <1>14 DEF MemoryInv

LEMMA MeanwhileKeepsAll ==
  ASSUME MemoryAssumption, MemoryInv, Meanwhile, PolicyInv', StoreTypes', WorkTypes', AskInv', TurnInv'
  PROVE  MemoryInv'
<1>1. /\ StoreTypes /\ WorkTypes /\ JobsInv /\ ChainInv /\ PolicyInv /\ RecordInv /\ WorkInv /\ SeenInv /\ ProgressInv
      /\ ReadyIsCurrent /\ EventsInv /\ TextInv
  BY DEF MemoryInv
<1>2. JobsInv'
  BY <1>1, MeanwhileJobs
<1>3. WorkInv' /\ RecordInv' /\ ChainInv'
  BY <1>1, MeanwhileWork
<1>4. SeenInv'
  BY <1>1, MeanwhileSeen
<1>5. ProgressInv'
  BY <1>1, MeanwhileProgress
<1>6. ReadyIsCurrent'
  BY <1>1, MeanwhileReady
<1>7. EventsInv'
  BY <1>1, MeanwhileEvents
<1>8. TextInv'
  BY <1>1, MeanwhileText
<1> QED
  BY <1>2, <1>3, <1>4, <1>5, <1>6, <1>7, <1>8 DEF MemoryInv

LEMMA RetrieverKeepsAll ==
  ASSUME MemoryAssumption, MemoryInv, Retriever
  PROVE  MemoryInv'
<1>1. /\ StoreTypes /\ WorkTypes /\ JobsInv /\ PolicyInv /\ WorkInv /\ ReadyIsCurrent /\ AskInv /\ TurnInv
  BY DEF MemoryInv
<1>2. Meanwhile /\ PolicyInv'
  BY <1>1, RetrieverStep
<1>3. UNCHANGED <<worker, recorder, generation, events, version, tree, projects, registrar, misplaced>>
  BY RetrieverSame
<1>4. retriever' \in Asking \cup {Idle} /\ AskInv' /\ captures' \subseteq Sources \X Nat
  BY <1>1, AskingStep
<1>5. TurnInv' /\ indexer' \in Datasets \cup {None} /\ bindings' \subseteq Datasets
  BY <1>1, RetrieverTurn
<1>6. StoreTypes'
  BY <1>1, <1>3, <1>4, <1>5 DEF StoreTypes
<1>7. WorkTypes'
  BY <1>1, <1>3, <1>4 DEF WorkTypes
<1> QED
  BY <1>2, <1>4, <1>5, <1>6, <1>7, MeanwhileKeepsAll

Handlers ==
  \/ \E s \in Sources, policy \in Policies : Update(s, policy)
  \/ \E p \in Pages, policy \in Policies : Register(p, policy)
  \/ \E s \in Pages : ApproveSubpages(s)
  \/ RegisterProjects
  \/ \E s \in Sources : Sync(s) \/ \E content \in 1..version[s] : Deliver(s, content)
  \/ LoadProjects
  \/ \E s \in Sources : ChangeContent(s) \/ ChangeProjects(s)
  \/ \E p \in Pages, q \in Pages \cup {None} : MovePage(p, q)
  \/ Shutdown

LEMMA HandlersKeepAll ==
  ASSUME MemoryAssumption, MemoryInv, Handlers
  PROVE  MemoryInv'
<1>1. /\ StoreTypes /\ WorkTypes /\ JobsInv /\ PolicyInv /\ WorkInv /\ ReadyIsCurrent /\ AskInv /\ TurnInv
  BY DEF MemoryInv
<1>2. StoreTypes' /\ UNCHANGED <<worker, recorder, retriever, captures, bindings, indexer, answer>>
  BY <1>1, HandlerTypes DEF Handlers
<1>3. Meanwhile /\ PolicyInv'
  BY <1>1, UpdateStep, RegisterStep, ApproveStep, ProjectsStep, WorldStep DEF Handlers
<1>4. WorkTypes' /\ TurnInv'
  BY <1>1, <1>2 DEF WorkTypes, TurnInv
<1>5. AskInv'
  BY <1>1, <1>2, SameAsking
<1> QED
  BY <1>2, <1>3, <1>4, <1>5, MeanwhileKeepsAll

LEMMA RecorderKeepsAll ==
  ASSUME MemoryAssumption, MemoryInv,
         \/ \E s \in Reviews, approval \in {"draft", "approved"} : RecordReview(s, approval)
         \/ SaveReview \/ QueueReview
  PROVE  MemoryInv'
<1>1. /\ StoreTypes /\ WorkTypes /\ JobsInv /\ ChainInv /\ PolicyInv /\ RecordInv /\ WorkInv /\ SeenInv /\ ProgressInv
      /\ ReadyIsCurrent /\ EventsInv /\ TextInv /\ AskInv /\ TurnInv
  BY DEF MemoryInv
<1>2. ASSUME UNCHANGED <<captures, bindings, events, worker, retriever, registrar, indexer, generation,
                         tree, version, projects, misplaced>>,
             recorder' \in Recording \cup {Idle}
      PROVE  StoreTypes' /\ WorkTypes' /\ AskInv' /\ TurnInv'
  BY <1>1, <1>2 DEF StoreTypes, WorkTypes, AskInv, TurnInv
<1>3. CASE \E s \in Reviews, approval \in {"draft", "approved"} : RecordReview(s, approval)
  <2>1. PICK s \in Reviews, approval \in {"draft", "approved"} : RecordReview(s, approval)
    BY <1>3
  <2>2. /\ JobsInv' /\ PolicyInv' /\ WorkInv' /\ SeenInv' /\ ProgressInv' /\ ReadyIsCurrent' /\ EventsInv' /\ TextInv'
    BY <1>1, <2>1, RecordKeeps
  <2>3. /\ recorder' \in Recording /\ RecordInv' /\ ChainInv'
        /\ UNCHANGED <<captures, bindings, events, worker, retriever, registrar, indexer, generation,
                       tree, version, projects, misplaced>>
    BY <1>1, <2>1, RecordStep
  <2> QED
    BY <1>2, <2>2, <2>3 DEF MemoryInv
<1>4. CASE SaveReview
  <2>1. JobsInv' /\ WorkInv' /\ SeenInv' /\ ProgressInv' /\ ReadyIsCurrent' /\ EventsInv' /\ TextInv'
    BY <1>1, <1>4, SaveKeeps
  <2>2. /\ recorder' \in Recording /\ PolicyInv' /\ RecordInv' /\ ChainInv'
        /\ UNCHANGED <<captures, bindings, events, worker, retriever, registrar, indexer, generation,
                       tree, version, projects, misplaced>>
    BY <1>1, <1>4, SaveStep
  <2> QED
    BY <1>2, <2>1, <2>2 DEF MemoryInv
<1>5. CASE QueueReview
  <2>1. JobsInv' /\ WorkInv' /\ SeenInv' /\ ProgressInv' /\ ReadyIsCurrent' /\ EventsInv' /\ TextInv'
    BY <1>1, <1>5, QueueKeeps
  <2>2. /\ recorder' = Idle /\ PolicyInv' /\ RecordInv' /\ ChainInv'
        /\ UNCHANGED <<captures, bindings, events, worker, retriever, registrar, indexer, generation,
                       tree, version, projects, misplaced>>
    BY <1>1, <1>5, QueueStep
  <2> QED
    BY <1>2, <2>1, <2>2 DEF MemoryInv
<1> QED
  BY <1>3, <1>4, <1>5

LEMMA RestartKeepsAll ==
  ASSUME MemoryAssumption, MemoryInv, Restart
  PROVE  MemoryInv'
<1>1. /\ StoreTypes /\ WorkTypes /\ JobsInv /\ PolicyInv /\ ReadyIsCurrent /\ EventsInv /\ TextInv
  BY DEF MemoryInv
<1>2. /\ JobsInv' /\ PolicyInv' /\ ChainInv' /\ RecordInv' /\ WorkInv' /\ SeenInv' /\ ProgressInv' /\ ReadyIsCurrent'
      /\ EventsInv' /\ TextInv'
  BY <1>1, RestartKeeps
<1>3. StoreTypes' /\ WorkTypes' /\ AskInv' /\ TurnInv'
  BY <1>1, RestartTypes
<1> QED
  BY <1>2, <1>3 DEF MemoryInv

LEMMA StaysWhenNothingMoves ==
  ASSUME MemoryInv, UNCHANGED vars
  PROVE  MemoryInv'
<1>1. UNCHANGED <<sources, jobs, captures, bindings, events, worker, retriever, recorder, registrar, indexer, chain,
                  generation, tree, version, projects, barred, misplaced>>
  BY DEF vars, store, process, world, history
<1>2. StoreTypes' /\ WorkTypes' /\ JobsInv' /\ ChainInv' /\ PolicyInv' /\ RecordInv'
  BY <1>1 DEF MemoryInv, StoreTypes, WorkTypes, JobsInv, ChainInv, PolicyInv, RecordInv
<1>3. WorkInv' /\ SeenInv' /\ ProgressInv' /\ ReadyIsCurrent'
  BY <1>1 DEF MemoryInv, WorkInv, Binding, SeenInv, Inspected, ProgressInv, NotReady, Unchanged, ReadyIsCurrent
<1>4. EventsInv' /\ TextInv'
  BY <1>1 DEF MemoryInv, EventsInv, TextInv, QueuedFor, Starts, Recorded
<1>5. AskInv' /\ TurnInv'
  BY <1>1 DEF MemoryInv, AskInv, TurnInv
<1> QED
  BY <1>2, <1>3, <1>4, <1>5 DEF MemoryInv

LEMMA NextKeepsAll ==
  ASSUME MemoryAssumption, MemoryInv, [Next]_vars
  PROVE  MemoryInv'
<1>1. CASE Worker \/ CallFails
  BY <1>1, WorkerKeepsAll
<1>2. CASE Retriever
  BY <1>2, RetrieverKeepsAll
<1>3. CASE Handlers
  BY <1>3, HandlersKeepAll
<1>4. CASE \/ \E s \in Reviews, approval \in {"draft", "approved"} : RecordReview(s, approval)
           \/ SaveReview \/ QueueReview
  BY <1>4, RecorderKeepsAll
<1>5. CASE Restart
  BY <1>5, RestartKeepsAll
<1>6. CASE UNCHANGED vars
  BY <1>6, StaysWhenNothingMoves
<1> QED
  BY <1>1, <1>2, <1>3, <1>4, <1>5, <1>6 DEF Next, Handlers

\* At first nothing is synchronized.
LEMMA KnownPolicy ==
  ASSUME MemoryAssumption, NEW src, Registrations(src)
  PROVE  /\ Typed(src) /\ TreeOf(src) /\ Few(src) /\ Agreed(src)
         /\ \A s \in Registered(src) : src[s].status # "ready"
<1>1. /\ src \in [Sources -> Registration \cup {None}]
      /\ \A s \in Registered(src) :
           /\ src[s].status = StatusFor(src[s].approval) /\ src[s].before = None
           /\ s \notin Pages => src[s].parent = None
           /\ src[s].parent # None => src[s].parent \in Registered(src) \ (SubpagesOf(src, s) \cup {s})
           /\ InBranch(src, s)
      /\ Cardinality(Registered(src) \cap Pages) <= MaxSources
  BY DEF Registrations
<1>2. Typed(src) /\ Few(src)
  BY <1>1 DEF Typed, Few
<1>3. TreeOf(src)
  BY <1>1 DEF TreeOf
<1>4. Agreed(src)
  <2>1. \A s \in Pages \ Registered(src) : ~Active(src, s)
    BY DEF Registered, Active, MemoryAssumption
  <2>2. \A s \in Pages \ Registered(src) : InBranch(src, s)
    BY <2>1 DEF InBranch
  <2> QED
    BY <1>1, <2>2 DEF Agreed
<1>5. \A s \in Registered(src) : src[s].status # "ready"
  BY <1>1 DEF StatusFor
<1> QED
  BY <1>2, <1>3, <1>4, <1>5

LEMMA InitHolds ==
  ASSUME MemoryAssumption, Init
  PROVE  MemoryInv
<1>1. PICK plan \in Plans :
        /\ sources = plan.known
        /\ jobs = QueueAll(<<>>, plan.known, {s \in Pages : Active(plan.known, s) /\ plan.known[s].parent = None})
        /\ tree = plan.tree /\ projects = plan.projects
  BY DEF Init
<1>2. /\ captures = {} /\ bindings = {} /\ events = {}
      /\ worker = Idle /\ retriever = Idle /\ recorder = Idle /\ registrar = None
      /\ indexer = None /\ chain = <<>> /\ generation = 0
      /\ version = [s \in Sources |-> 0] /\ barred = {} /\ misplaced = FALSE
  BY DEF Init
<1>3. Registrations(plan.known) /\ plan.tree \in [Sources -> Pages \cup {None}] /\ plan.projects \subseteq Specs
  BY DEF MemoryAssumption
<1>4. /\ Typed(sources) /\ TreeOf(sources) /\ Few(sources) /\ Agreed(sources)
      /\ \A s \in Registered(sources) : sources[s].status # "ready"
  BY <1>1, <1>3, KnownPolicy
<1>5. PolicyInv
  BY <1>2, <1>4 DEF PolicyInv
<1>6. \A s \in Sources : ~(sources[s] # None /\ sources[s].status = "ready")
  BY <1>4 DEF Registered
<1>7. StoreTypes
  BY <1>1, <1>2, <1>3 DEF StoreTypes
<1>8. Idle.pc = "idle"
  BY DEF Idle
<1>9. WorkTypes /\ ChainInv /\ RecordInv /\ WorkInv /\ SeenInv /\ ProgressInv /\ AskInv /\ TurnInv
  BY <1>2, <1>8 DEF WorkTypes, ChainInv, RecordInv, WorkInv, SeenInv, ProgressInv, AskInv, TurnInv, StoreSteps
<1>10. ReadyIsCurrent /\ EventsInv
  BY <1>2, <1>6 DEF ReadyIsCurrent, EventsInv
<1>11. TextInv
  BY <1>2, <1>6, <1>8 DEF TextInv, Reading, Discovering, MemoryAssumption
<1>12. JobsInv
  <2>1. {s \in Pages : Active(plan.known, s) /\ plan.known[s].parent = None} \in SUBSET Sources
    BY DEF MemoryAssumption
  <2>2. PICK none : none = <<>>
    OBVIOUS
  <2>6. none \in Seq(Jobs) /\ Len(none) = 0
    BY <2>2
  <2>3. PICK q \in Seq(Jobs) : q = jobs /\ Grown(none, q, sources)
    BY <1>1, <2>1, <2>2, <2>6, QueueAllGrows
  <2>4. \A i \in 1..Len(q) : q[i].status = "queued" /\ sources[q[i].source] # None
    BY <2>2, <2>3, <2>6 DEF Grown
  <2>5. DOMAIN q = 1..Len(q) /\ (q # <<>> => 1 \in 1..Len(q))
    BY <2>3
  <2> QED
    BY <1>2, <1>8, <2>3, <2>4, <2>5 DEF JobsInv, Beginning, Synchronizing
<1> QED
  BY <1>5, <1>7, <1>9, <1>10, <1>11, <1>12 DEF MemoryInv

-----------------------------------------------------------------------------
(* What follows.                                                           *)

\* A source without a job is as new as what was notified, and as a review says.
LEMMA FreshHolds ==
  ASSUME MemoryAssumption, MemoryInv
  PROVE  ReadyIsFresh
<1>1. \A s : QueuedFor(s) => Live(s)
  BY DEF QueuedFor, Live, Range
<1>2. \A s : worker.pc \in Synchronizing /\ worker.source = s => Live(s)
  BY DEF MemoryInv, JobsInv, Live
<1>3. \A s : Starts(s) => Live(s)
  BY <1>2 DEF Starts, Synchronizing
<1>4. ASSUME NEW s \in Sources, sources[s] # None, sources[s].status = "ready", ~Live(s), recorder = Idle
      PROVE  /\ \A e \in events : e[1] = s => sources[s].capture >= e[2]
             /\ s \in Reviews => sources[s].capture = sources[s].text
  <2>1. \A e \in events : e[1] = s => sources[s].capture >= e[2]
    BY <1>1, <1>3, <1>4 DEF MemoryInv, EventsInv
  <2>2. ~Recorded(s)
    BY <1>4 DEF Recorded
  <2>3. s \in Reviews => sources[s].capture = sources[s].text
    BY <1>1, <1>3, <1>4, <2>2 DEF MemoryInv, TextInv
  <2> QED
    BY <2>1, <2>3
<1> QED
  BY <1>4 DEF ReadyIsFresh

LEMMA SourcesFollow ==
  ASSUME MemoryAssumption, MemoryInv
  PROVE  SourcesHold
<1>1. ReadyIsFresh
  BY FreshHolds
<1>2. WithdrawalsHold
  BY DEF MemoryInv, PolicyInv, Out, WithdrawalsHold
<1>3. BranchesAgree
  BY DEF MemoryInv, PolicyInv, Agreed, BranchesAgree
<1> QED
  BY <1>1, <1>2, <1>3 DEF SourcesHold, MemoryInv

\* A step that answers, and one that begins to index.
Answers == answer' # answer /\ answer' # {} =>
  /\ {e[1] : e \in answer'} = Applicable(sources)
  /\ answer' \subseteq captures
  /\ \A e \in answer' : e[1] \notin Specs => e[2] = sources[e[1]].capture
Builds == indexer' # indexer /\ indexer' # None => indexer' \notin bindings

LEMMA RetrieverAnswers ==
  ASSUME MemoryAssumption, MemoryInv, Retriever
  PROVE  Answers
<1>1. CASE Answer
  <2>1. SUFFICES ASSUME answer' # answer
                 PROVE  Answers
    BY DEF Answers
  <2>2. /\ retriever.pc = "specs" /\ retriever.specs = {} /\ answer' = retriever.evidence
        /\ retriever.context = Context(sources)
    BY <1>1, <2>1 DEF Answer
  <2>3. /\ retriever.evidence \subseteq captures
        /\ {e[1] : e \in retriever.evidence} \cup retriever.specs = {c[1] : c \in retriever.context}
        /\ \A e \in retriever.evidence : e[1] \notin Specs => \E c \in retriever.context : c[1] = e[1] /\ c[3] = e[2]
    BY <2>2 DEF MemoryInv, AskInv
  <2>4. /\ {c[1] : c \in Context(sources)} = Applicable(sources)
        /\ \A c \in Context(sources) : c[1] \notin Specs => c[3] = sources[c[1]].capture
    BY ContextOf DEF MemoryInv, PolicyInv
  <2>5. {e[1] : e \in retriever.evidence} = Applicable(sources)
    BY <2>2, <2>3, <2>4
  <2>6. \A e \in retriever.evidence : e[1] \notin Specs => e[2] = sources[e[1]].capture
    BY <2>2, <2>3, <2>4
  <2> QED
    BY <2>2, <2>3, <2>5, <2>6 DEF Answers
<1>2. CASE Retrieve
  BY <1>2 DEF Retrieve, Answers
<1>3. CASE ~Answer /\ ~Retrieve
  <2>1. answer' = answer
    BY <1>3 DEF Retriever, RetrieveQueues, RetrieveStops, RetrieveReady, RetrieveFails, GiveUp, CaptureSpec, IndexSpec,
                SpecIndexed, RetrieveAborts, history
  <2> QED
    BY <2>1 DEF Answers
<1> QED
  BY <1>1, <1>2, <1>3

LEMMA StepAnswers ==
  ASSUME MemoryAssumption, MemoryInv, [Next]_vars
  PROVE  Answers /\ Builds
<1>1. /\ StoreTypes /\ WorkTypes /\ JobsInv /\ ChainInv /\ PolicyInv /\ RecordInv /\ WorkInv /\ SeenInv /\ TurnInv
  BY DEF MemoryInv
<1>2. CASE Worker \/ CallFails
  BY <1>1, <1>2, WorkerContinues, WorkerTurn DEF Answers, Builds
<1>3. CASE Retriever
  BY <1>1, <1>3, RetrieverAnswers, RetrieverTurn DEF Builds
<1>4. CASE Handlers
  <2>1. UNCHANGED <<indexer, answer>>
    BY <1>1, <1>4, HandlerTypes DEF Handlers
  <2> QED
    BY <2>1 DEF Answers, Builds
<1>5. CASE \E s \in Reviews, approval \in {"draft", "approved"} : RecordReview(s, approval)
  BY <1>1, <1>5, RecordStep DEF Answers, Builds
<1>6. CASE SaveReview \/ QueueReview
  BY <1>1, <1>6, SaveStep, QueueStep DEF Answers, Builds
<1>7. CASE Restart
  BY <1>1, <1>7, RestartTypes DEF Answers, Builds
<1>8. CASE UNCHANGED vars
  BY <1>8 DEF vars, process, history, Answers, Builds
<1> QED
  BY <1>2, <1>3, <1>4, <1>5, <1>6, <1>7, <1>8 DEF Next, Handlers

-----------------------------------------------------------------------------

\* The invariant: who waits for the store and for the index, what the worker has read and may still
\* write, and that every notice and every recorded review is in the queue, with the worker, or done.
THEOREM MemoryInvariant == Spec => []MemoryInv
<1>1. Init => MemoryInv
  BY MemoryHypothesis, InitHolds
<1>2. MemoryInv /\ [Next]_vars => MemoryInv'
  BY MemoryHypothesis, NextKeepsAll
<1> QED
  BY <1>1, <1>2, PTL DEF Spec

\* SourcesHold, for every value of the constants: what is ready was synchronized under the policy of
\* today and after the last notice, a withdrawal stands, and a page is used as its branch is, whatever
\* the worker, administrators, webhooks, reviews, retrievals and restarts do, in any order.
THEOREM SourcesAreSafe == Spec => []SourcesHold
<1>1. MemoryInv => SourcesHold
  BY MemoryHypothesis, SourcesFollow
<1> QED
  BY <1>1, MemoryInvariant, PTL

\* EvidenceHolds, for every value of the constants: an answer is of all the approved sources of the
\* project as they are now, and no dataset is built that is there.
THEOREM EvidenceIsSafe == Spec => EvidenceHolds
<1>1. MemoryInv /\ [Next]_vars => [Answers]_answer /\ [Builds]_indexer
  BY MemoryHypothesis, StepAnswers
<1>2. Spec => [][Answers]_answer /\ [][Builds]_indexer
  BY <1>1, MemoryInvariant, PTL DEF Spec
<1> QED
  BY <1>2, PTL DEF EvidenceHolds, AnswersAreCurrent, IndexedOnce, Answers, Builds

\* TypeOK, for every value of the constants: registrations and jobs are well formed, only the worker's
\* job runs, and the limit of registered pages is respected by registrations and discoveries alike.
THEOREM MemoryTypes == Spec => []TypeOK
<1>1. MemoryInv => TypeOK
  <2> SUFFICES ASSUME MemoryInv
               PROVE  TypeOK
    OBVIOUS
  <2>1. /\ StoreTypes /\ WorkTypes /\ JobsInv /\ ChainInv
        /\ Typed(sources) /\ Few(sources)
    BY DEF MemoryInv, PolicyInv
  <2>2. \A s \in Sources : sources[s] # None => sources[s] \in Registration
    BY <2>1 DEF Typed
  <2>3. worker # Idle => worker.pc \in Beginning \cup Synchronizing \cup {"children"}
    BY <2>1 DEF WorkTypes, Working, Steps, StoreSteps, Beginning, Synchronizing
  <2>4. worker = Idle => worker.pc = "idle"
    BY DEF Idle
  <2>5. worker # Idle => jobs # <<>> \/ worker.pc = "children"
    BY <2>1, <2>3 DEF JobsInv
  <2>6. ASSUME NEW i \in DOMAIN jobs
        PROVE  jobs[i].source \in Sources /\ (jobs[i].status = "running" => i = 1 /\ worker # Idle)
    <3>1. jobs \in Seq(Jobs) /\ i \in 1..Len(jobs) /\ jobs[i] \in Jobs /\ jobs # <<>>
      BY <2>1, <2>6 DEF JobsInv
    <3>2. jobs[i].status = "running" => i = 1
      BY <2>1, <3>1 DEF JobsInv
    <3>3. worker = Idle => jobs[1].status = "queued"
      BY <2>1, <2>4, <3>1 DEF JobsInv
    <3> QED
      BY <3>1, <3>2, <3>3 DEF Jobs
  <2>7. Len(chain) <= 2
    <3>1. Len(<<>>) = 0 /\ Len(<<"worker">>) = 1 /\ Len(<<"recorder">>) = 1
      OBVIOUS
    <3>2. Len(<<"worker", "recorder">>) = 2 /\ Len(<<"recorder", "worker">>) = 2
      OBVIOUS
    <3>3. PICK n : n = Len(chain)
      OBVIOUS
    <3>4. n = 0 \/ n = 1 \/ n = 2
      BY <2>1, <3>1, <3>2, <3>3, ZenonT(30) DEF ChainInv
    <3>5. n <= 2
      BY <3>4
    <3> QED
      BY <3>3, <3>5
  <2>8. captures \subseteq Sources \X Nat /\ bindings \subseteq Datasets /\ events \subseteq (Pages \cup Specs) \X Nat
    BY <2>1 DEF StoreTypes
  <2>9. \A b \in bindings : b[1] \in Sources
    BY <2>8 DEF Datasets
  <2> QED
    BY <2>1, <2>2, <2>5, <2>6, <2>7, <2>8, <2>9 DEF TypeOK, Few
<1> QED
  BY <1>1, MemoryInvariant, PTL
==============================================================================
