------------------------------ MODULE Pricing -------------------------------
(***************************************************************************)
(* The catalogue of model prices (server/src/brain/pricing): edits by an   *)
(* administrator, the lookup an administrator starts and whose proposals   *)
(* are applied by hand (service.ts), and the automatic check of models     *)
(* that were seen and have no price yet (discovery.ts).                    *)
(*                                                                         *)
(* Every change of the catalogue is a transaction of the store: it works   *)
(* on a copy (`transaction') that others see once it is committed.  A      *)
(* lookup reads the official page and asks the model, each of which takes  *)
(* minutes.                                                                *)
(*                                                                         *)
(* Abstractions: rates are present or not; a client sends the revision it  *)
(* was shown, and what it sends with another one is refused without any    *)
(* effect, so only requests with the current one appear here.              *)
(***************************************************************************)
EXTENDS Integers, FiniteSets, Sequences, Functions, Absence

CONSTANTS
  Models, MaxModels, MaxAttempts,
  PricePlans       \* what is in the catalogue and what may happen

Prices == [by : {"manual", "agent"}, edits : Nat]
Autos == [status : {"queued", "checking", "failed", "applied"}, attempts : Nat, wait : BOOLEAN]
EntryRecords == [revision : Nat, source : BOOLEAN, price : Prices \cup {None}, ignored : BOOLEAN, auto : Autos \cup {None}]
Proposals == [model : Models, revision : Nat, rates : BOOLEAN, applied : BOOLEAN, edits : Nat]
Jobs == [status : {"running", "completed", "failed", "interrupted"}, models : SUBSET Models, proposals : SUBSET Proposals]
Catalogues == [entries : [Models -> EntryRecords \cup {None}], job : Jobs \cup {None}]
Transactions == [who : {"administrator", "worker", "check"}, catalogue : Catalogues, edited : [Models -> Nat]]
Lookup == [at : {"starting", "next", "fetch", "ask", "answered", "keeping", "saving", "completing", "failing"},
           found : BOOLEAN \cup {None}, edits : Nat, left : Seq([model : Models, revision : Nat])]
Checking == [at : {"repair", "observe", "select", "claiming", "claim", "fetch", "ask", "decide", "result"},
             model : Models \cup {None}, revision : Nat, claimed : BOOLEAN, seen : SUBSET Models, edits : Nat,
             found : {None, "rates", "retry", "rejected"}]

PricingAssumption ==
  /\ \A plan \in PricePlans : plan.entries \in [Models -> EntryRecords \cup {None}]
  /\ None \notin Prices /\ None \notin Autos /\ None \notin EntryRecords /\ None \notin Jobs
  /\ None \notin Transactions /\ None \notin Lookup /\ None \notin Checking /\ None \notin Models
ASSUME PricingHypothesis == PricingAssumption

VARIABLES
  catalogue,     \* the committed catalogue: [entries, job]
  transaction,   \* the one in progress: who, and the catalogue it will commit, or None
  worker,        \* the lookup an administrator started
  check,         \* the automatic check
  checking,      \* interruptedModel
  observed,      \* pending: models seen and not yet in the catalogue
  serving,       \* the process runs
  edited,        \* history: how often each model was edited by an administrator
  priceBudget

priceVars == <<catalogue, transaction, worker, check, checking, observed, serving, edited, priceBudget>>
free == <<worker, check, checking, observed, serving, edited>>

Pay(what) == priceBudget[what] > 0 /\ priceBudget' = [priceBudget EXCEPT ![what] = @ - 1]

-----------------------------------------------------------------------------
(* The catalogue.                                                          *)

Entry(m) == catalogue.entries[m]
Known(c) == {m \in Models : c.entries[m] # None}
Job(c) == c.job

\* Who a price comes from; edits is a history: how often the model had been edited when the
\* lookup that found the price read it.
Manual == [by |-> "manual", edits |-> 0]
Agent(edits) == [by |-> "agent", edits |-> edits]

NewEntry == [revision |-> 1, source |-> TRUE, price |-> None, ignored |-> FALSE, auto |-> None]
Queued == [status |-> "queued", attempts |-> 0, wait |-> FALSE]

\* The status after an interruption or an answer that may be tried again.
Again(auto) == IF auto.attempts < MaxAttempts THEN "queued" ELSE "failed"

Valid(p) == p.rates /\ ~p.applied

-----------------------------------------------------------------------------
(* Transactions.                                                           *)

Begins(who, next) == /\ serving /\ transaction = None
                     /\ transaction' = [who |-> who, catalogue |-> next, edited |-> edited]
                     /\ UNCHANGED catalogue

\* The store reports a failure, and the changes are dropped.
CommitFails ==
  /\ transaction # None
  /\ Pay("failingWrites")
  /\ transaction' = None
  /\ worker' = IF transaction.who # "worker" THEN worker
               ELSE IF worker.at \in {"starting", "failing"} THEN None
               ELSE [worker EXCEPT !.at = "saving"]
  /\ check' = IF transaction.who = "check" THEN None ELSE check
  /\ UNCHANGED <<catalogue, checking, observed, serving, edited>>

\* What the caller does once its change is committed.
Commit ==
  /\ transaction # None
  /\ catalogue' = transaction.catalogue
  /\ edited' = transaction.edited
  /\ transaction' = None
  /\ CASE transaction.who = "worker" ->
            /\ worker' = IF worker.at = "starting" THEN [worker EXCEPT !.at = "next"]
                         ELSE IF worker.at \in {"completing", "failing"} THEN None
                         ELSE [worker EXCEPT !.at = "next", !.left = Tail(@)]
            /\ UNCHANGED <<check, checking, observed>>
       [] transaction.who = "check" ->
            /\ check' = IF check.at = "claim" /\ check.claimed THEN [check EXCEPT !.at = "fetch"]
                        ELSE IF check.at \in {"claim", "result"} THEN None
                        ELSE [check EXCEPT !.at = IF check.at = "repair" THEN "observe" ELSE "select"]
            /\ checking' = IF \/ check.at \in {"repair", "result"}
                              \/ check.at = "claim" /\ ~check.claimed THEN None ELSE checking
            /\ observed' = IF check.at = "observe" THEN observed \ check.seen ELSE observed
            /\ UNCHANGED worker
       [] OTHER -> UNCHANGED <<worker, check, checking, observed>>
  /\ UNCHANGED <<serving, priceBudget>>

-----------------------------------------------------------------------------
(* Edits: save() and setIgnored().                                         *)

Edited(m, next) ==
  /\ serving /\ transaction = None
  /\ transaction' = [who |-> "administrator", catalogue |-> next, edited |-> [edited EXCEPT ![m] = @ + 1]]
  /\ Pay("edits")
  /\ UNCHANGED <<catalogue, free>>

SaveModel(m, rates) ==
  \/ /\ Entry(m) = None /\ Cardinality(Known(catalogue)) < MaxModels
     /\ Edited(m, [catalogue EXCEPT !.entries[m] = [NewEntry EXCEPT !.price = IF rates THEN Manual ELSE None]])
  \/ /\ Entry(m) # None /\ ~Entry(m).ignored
     /\ Edited(m, [catalogue EXCEPT !.entries[m] =
          [Entry(m) EXCEPT !.revision = @ + 1, !.source = TRUE, !.price = IF rates THEN Manual ELSE @]])

\* Ignoring a model also discards its place in the latest job.
WithoutModel(job, m) == IF job = None THEN None
  ELSE [job EXCEPT !.models = @ \ {m}, !.proposals = {p \in @ : p.model # m}]

SetIgnored(m) ==
  /\ Entry(m) # None
  /\ LET ignored == ~Entry(m).ignored
         entry == [Entry(m) EXCEPT !.ignored = ignored, !.revision = @ + 1,
                     !.auto = IF ~ignored /\ Entry(m).price = None THEN Queued ELSE None]
     IN Edited(m, [catalogue EXCEPT !.entries[m] = entry,
                                    !.job = IF ignored THEN WithoutModel(@, m) ELSE @])

-----------------------------------------------------------------------------
(* A lookup that an administrator starts: start(), run(), lookup().        *)

JobRunning(c) == c.job # None /\ c.job.status = "running"

StartLookup(selected) ==
  /\ Pay("lookups")
  /\ ~JobRunning(catalogue) /\ worker = None /\ checking = None
  /\ \A m \in Range(selected) : Entry(m) # None /\ ~Entry(m).ignored /\ Entry(m).source
  /\ Begins("worker", [catalogue EXCEPT !.job =
       [status |-> "running", models |-> Range(selected), proposals |-> {}]])
  /\ worker' = [at |-> "starting", found |-> None, edits |-> 0,
                left |-> [n \in DOMAIN selected |-> [model |-> selected[n], revision |-> Entry(selected[n]).revision]]]
  /\ UNCHANGED <<check, checking, observed, serving, edited>>

\* The next model that is still part of the job; the job completes after the last.
NextModel ==
  /\ worker # None /\ worker.at = "next" /\ serving
  /\ IF worker.left = <<>>
     THEN /\ Begins("worker", [catalogue EXCEPT !.job.status = "completed"])
          /\ worker' = [worker EXCEPT !.at = "completing"]
     ELSE /\ worker' = IF Head(worker.left).model \in catalogue.job.models
                       THEN [worker EXCEPT !.at = "fetch", !.edits = edited[Head(worker.left).model]]
                       ELSE [worker EXCEPT !.left = Tail(@)]
          /\ UNCHANGED <<catalogue, transaction>>
  /\ UNCHANGED <<check, checking, observed, serving, edited, priceBudget>>

\* (mutant) the revision a price was found for is not compared.
UnchangedRevision(m, revision) == Entry(m) # None /\ ~Entry(m).ignored

\* After the page was read the model must be as it was selected; then the agent is asked.
Unchanged(m, revision) == Entry(m) # None /\ ~Entry(m).ignored /\ Entry(m).revision = revision

Fetched ==
  /\ worker # None /\ worker.at = "fetch" /\ serving
  /\ LET m == Head(worker.left) IN
       worker' = IF Unchanged(m.model, m.revision) THEN [worker EXCEPT !.at = "ask"]
                 ELSE [worker EXCEPT !.at = "answered", !.found = FALSE]
  /\ UNCHANGED <<catalogue, transaction, check, checking, observed, serving, edited, priceBudget>>

\* The answer is verified against the page, or it is an error.
Answer ==
  /\ worker # None /\ worker.at = "ask" /\ serving
  /\ \/ worker' = [worker EXCEPT !.at = "answered", !.found = TRUE] /\ UNCHANGED priceBudget
     \/ worker' = [worker EXCEPT !.at = "answered", !.found = FALSE] /\ Pay("failures")
  /\ UNCHANGED <<catalogue, transaction, check, checking, observed, serving, edited>>

Proposal(m, rates, edits) ==
  [model |-> m.model, revision |-> m.revision, rates |-> rates, applied |-> FALSE, edits |-> edits]

KeepProposal ==
  /\ worker # None /\ worker.at = "answered"
  /\ LET m == Head(worker.left) IN
       Begins("worker", IF m.model \in catalogue.job.models
         THEN [catalogue EXCEPT !.job.proposals = @ \cup {Proposal(m, worker.found, worker.edits)}]
         ELSE catalogue)
  /\ worker' = [worker EXCEPT !.at = "keeping"]
  /\ UNCHANGED <<check, checking, observed, serving, edited, priceBudget>>

\* A job that could not be saved is marked as failed; this write is not repeated.
LookupFails ==
  /\ worker # None /\ worker.at = "saving"
  /\ Begins("worker", [catalogue EXCEPT !.job.status = "failed"])
  /\ worker' = [worker EXCEPT !.at = "failing"]
  /\ UNCHANGED <<check, checking, observed, serving, edited, priceBudget>>

\* apply(): a proposal of the revision the model still has.
ApplyProposal(m) ==
  /\ catalogue.job # None
  /\ \E p \in catalogue.job.proposals :
       /\ p.model = m /\ Valid(p)
       /\ Unchanged(m, p.revision)
       /\ Begins("administrator", [catalogue EXCEPT
            !.entries[m] = [Entry(m) EXCEPT !.revision = @ + 1, !.price = Agent(p.edits)],
            !.job.proposals = (@ \ {p}) \cup {[p EXCEPT !.applied = TRUE]}])
  /\ UNCHANGED <<free, priceBudget>>

-----------------------------------------------------------------------------
(* The automatic check: observe(), schedule(), run().                      *)

\* The set of models that were seen before only saves work: entering one again changes nothing.
Observe(m) ==
  /\ serving /\ m \notin observed
  /\ Pay("observations")
  /\ observed' = observed \cup {m}
  /\ UNCHANGED <<catalogue, transaction, worker, check, checking, serving, edited>>

Schedule ==
  /\ serving /\ check = None
  /\ check' = [at |-> "repair", model |-> None, revision |-> 0, claimed |-> FALSE, seen |-> {}, edits |-> 0, found |-> None]
  /\ UNCHANGED <<catalogue, transaction, worker, checking, observed, serving, edited, priceBudget>>

\* (mutant) a check that a failing write interrupted is forgotten.
NotRepaired(c, m) == c

\* A model whose check was interrupted by a failing write does not stay in checking.
Repaired(c, m) ==
  LET entry == c.entries[m] IN
  IF entry # None /\ ~entry.ignored /\ entry.auto # None /\ entry.auto.status = "checking"
  THEN [c EXCEPT !.entries[m].auto = [entry.auto EXCEPT !.status = Again(entry.auto), !.wait = TRUE]]
  ELSE c

Repair ==
  /\ check # None /\ check.at = "repair" /\ transaction = None
  /\ IF checking # None
     THEN Begins("check", Repaired(catalogue, checking)) /\ UNCHANGED check
     ELSE check' = [check EXCEPT !.at = "observe"] /\ UNCHANGED <<catalogue, transaction>>
  /\ UNCHANGED <<worker, checking, observed, serving, edited, priceBudget>>

\* Models that were seen enter the catalogue, and those without a price the queue.
Entered(c, models) == [c EXCEPT !.entries = [m \in Models |->
  IF m \notin models THEN c.entries[m]
  ELSE LET entry == IF c.entries[m] # None THEN c.entries[m]
                    ELSE IF Cardinality(Known(c)) < MaxModels THEN NewEntry ELSE None
       IN IF entry = None \/ entry.ignored \/ entry.price # None \/ entry.auto # None THEN entry
          ELSE [entry EXCEPT !.auto = Queued]]]

EnterObserved ==
  /\ check # None /\ check.at = "observe" /\ transaction = None
  /\ IF observed # {}
     THEN Begins("check", Entered(catalogue, observed)) /\ check' = [check EXCEPT !.seen = observed]
     ELSE check' = [check EXCEPT !.at = "select"] /\ UNCHANGED <<catalogue, transaction>>
  /\ UNCHANGED <<worker, checking, observed, serving, edited, priceBudget>>

\* What may be checked: queued, due, and without a manual proposal that waits to be applied.
HasProposal(m) == catalogue.job # None /\
  \E p \in catalogue.job.proposals : p.model = m /\ p.revision = Entry(m).revision /\ Valid(p)
Checkable(m) ==
  /\ Entry(m) # None /\ ~Entry(m).ignored /\ Entry(m).price = None
  /\ Entry(m).auto # None /\ Entry(m).auto.status = "queued"
  /\ Entry(m).auto.attempts < MaxAttempts /\ ~Entry(m).auto.wait
  /\ ~HasProposal(m)

\* The worker field is set once the start of a lookup is committed.
Available == (worker = None \/ worker.at = "starting") /\ ~JobRunning(catalogue)

Select ==
  /\ check # None /\ check.at = "select" /\ serving
  /\ IF ~Available \/ ~\E m \in Models : Checkable(m)
     THEN check' = None /\ UNCHANGED checking
     ELSE \E m \in {n \in Models : Checkable(n)} :
            /\ checking' = m
            /\ check' = [check EXCEPT !.at = "claiming", !.model = m, !.revision = Entry(m).revision, !.edits = edited[m]]
  /\ UNCHANGED <<catalogue, transaction, worker, observed, serving, edited, priceBudget>>

Claim ==
  /\ check # None /\ check.at = "claiming"
  /\ LET m == check.model
         ok == Unchanged(m, check.revision) /\ Entry(m).price = None
         attempts == IF Entry(m).auto = None THEN 0 ELSE Entry(m).auto.attempts
     IN /\ Begins("check", IF ok THEN [catalogue EXCEPT !.entries[m].auto =
              [status |-> "checking", attempts |-> attempts + 1, wait |-> FALSE]] ELSE catalogue)
        /\ check' = [check EXCEPT !.at = "claim", !.claimed = ok]
  /\ UNCHANGED <<worker, checking, observed, serving, edited, priceBudget>>

CheckFetched ==
  /\ check # None /\ check.at = "fetch" /\ serving
  /\ check' = IF Unchanged(check.model, check.revision) THEN [check EXCEPT !.at = "ask"]
              ELSE [check EXCEPT !.at = "decide", !.found = "retry"]
  /\ UNCHANGED <<catalogue, transaction, worker, checking, observed, serving, edited, priceBudget>>

CheckAnswer ==
  /\ check # None /\ check.at = "ask" /\ serving
  /\ \/ check' = [check EXCEPT !.at = "decide", !.found = "rates"] /\ UNCHANGED priceBudget
     \/ /\ Pay("failures")
        /\ \E result \in {"retry", "rejected"} : check' = [check EXCEPT !.at = "decide", !.found = result]
  /\ UNCHANGED <<catalogue, transaction, worker, checking, observed, serving, edited>>

\* An edit during the check wins over its result.
Decided(m) ==
  LET entry == Entry(m)
      auto == IF entry.auto = None THEN [Queued EXCEPT !.attempts = 1] ELSE entry.auto
      changed == entry.revision # check.revision
  IN IF entry.ignored \/ (changed /\ (entry.auto = None \/ entry.auto.status # "checking")) THEN entry
     ELSE IF changed \/ entry.price # None THEN [entry EXCEPT !.auto = [auto EXCEPT !.status = "failed"]]
     ELSE IF check.found # "rates"
     THEN [entry EXCEPT !.auto = IF check.found = "retry" /\ auto.attempts < MaxAttempts
                                 THEN [auto EXCEPT !.status = "queued", !.wait = TRUE]
                                 ELSE [auto EXCEPT !.status = "failed"]]
     ELSE [entry EXCEPT !.revision = @ + 1, !.price = Agent(check.edits), !.auto = [auto EXCEPT !.status = "applied"]]

Decide ==
  /\ check # None /\ check.at = "decide"
  /\ Begins("check", [catalogue EXCEPT !.entries[check.model] = Decided(check.model)])
  /\ check' = [check EXCEPT !.at = "result"]
  /\ UNCHANGED <<worker, checking, observed, serving, edited, priceBudget>>

RetryDue(m) ==
  /\ serving /\ transaction = None /\ Entry(m) # None /\ Entry(m).auto # None /\ Entry(m).auto.wait
  /\ catalogue' = [catalogue EXCEPT !.entries[m].auto.wait = FALSE]
  /\ UNCHANGED <<transaction, free, priceBudget>>

-----------------------------------------------------------------------------
(* The process stops, and init().                                          *)

PricingStops ==
  /\ serving /\ Pay("crashes")
  /\ serving' = FALSE
  /\ \/ UNCHANGED <<catalogue, edited>>
     \/ transaction # None /\ catalogue' = transaction.catalogue /\ edited' = transaction.edited
  /\ transaction' = None /\ worker' = None /\ check' = None /\ checking' = None /\ observed' = {}

Resumed(entry) ==
  IF entry = None THEN None
  ELSE IF entry.ignored THEN [entry EXCEPT !.auto = None]
  ELSE IF entry.auto # None /\ entry.auto.status = "checking"
  THEN [entry EXCEPT !.auto.status = Again(entry.auto)]
  ELSE entry

PricingStarts ==
  /\ ~serving
  /\ serving' = TRUE
  /\ catalogue' = [entries |-> [m \in Models |-> Resumed(Entry(m))],
                   job |-> IF JobRunning(catalogue) THEN [catalogue.job EXCEPT !.status = "interrupted"]
                           ELSE catalogue.job]
  /\ UNCHANGED <<transaction, worker, check, checking, observed, edited, priceBudget>>

-----------------------------------------------------------------------------
PricingInit ==
  /\ \E plan \in PricePlans : /\ priceBudget = plan.budget
                              /\ catalogue = [entries |-> plan.entries, job |-> None]
  /\ transaction = None /\ worker = None /\ check = None /\ checking = None
  /\ observed = {} /\ serving = TRUE /\ edited = [m \in Models |-> 0]

Lookups == NextModel \/ Fetched \/ Answer \/ KeepProposal \/ LookupFails
Checks == Schedule \/ Repair \/ EnterObserved \/ Select \/ Claim \/ CheckFetched \/ CheckAnswer \/ Decide

PricingNext ==
  \/ Commit \/ CommitFails \/ Lookups \/ Checks \/ PricingStops \/ PricingStarts
  \/ \E m \in Models : \/ SetIgnored(m) \/ ApplyProposal(m) \/ Observe(m) \/ RetryDue(m)
                       \/ \E rates \in BOOLEAN : SaveModel(m, rates)
  \/ \E selected \in {<<m>> : m \in Models} \cup {<<m, n>> : m, n \in Models} :
       IsInjective(selected) /\ StartLookup(selected)

\* Transactions are answered, the timer of the check goes on, a stopped server is started again.
PricingProgress == Commit \/ Lookups \/ Checks \/ PricingStarts

PricingSpec == PricingInit /\ [][PricingNext]_priceVars /\ WF_priceVars(PricingProgress)

-----------------------------------------------------------------------------
(* Properties.                                                             *)

\* A price found by the agent is applied to the model as it was when its page was read:
\* an edit, an ignore or a restore in the minutes of the lookup wins over its result.
EditsWin ==
  [][\A m \in Models :
       LET next == catalogue'.entries[m] IN
       (next # None /\ Entry(m) # None /\ next.price # Entry(m).price /\ next.price # None /\ next.price.by = "agent")
         => next.price.edits = edited[m] /\ ~next.ignored]_priceVars

\* No model stays in checking, whatever write fails and whenever the process stops.
ChecksEnd == \A m \in Models :
  (m \in Known(catalogue) /\ Entry(m).auto # None /\ Entry(m).auto.status = "checking")
    ~> ~(m \in Known(catalogue) /\ Entry(m).auto # None /\ Entry(m).auto.status = "checking")
=============================================================================
