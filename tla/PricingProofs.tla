---------------------------- MODULE PricingProofs ----------------------------
(***************************************************************************)
(* A price that the agent found is given to a model only as it was when    *)
(* its page was read.  A proof for any models, edits, lookups, checks,     *)
(* failing writes and stops of the process.                                *)
(*                                                                         *)
(* The argument.  Whoever reads a model remembers its revision, and every  *)
(* edit gives it another one.  So what a lookup, a check or a proposal     *)
(* holds is of the model's present state whenever the revision is still    *)
(* the same (Held); an open transaction was computed from the committed    *)
(* catalogue, and nobody else changes it meanwhile (ChangeHolds), so what  *)
(* was compared before the transaction is true when it commits.            *)
(***************************************************************************)
EXTENDS Pricing, TLAPS

PricingTypes ==
  /\ catalogue \in Catalogues /\ transaction \in Transactions \cup {None}
  /\ worker \in Lookup \cup {None} /\ check \in Checking \cup {None}
  /\ checking \in Models \cup {None} /\ observed \subseteq Models /\ serving \in BOOLEAN
  /\ edited \in [Models -> Nat]

\* Whose change the open transaction is.
OwnerInv ==
  /\ transaction # None => serving
  /\ worker # None =>
       /\ worker.at \in {"starting", "keeping", "completing", "failing"} => transaction # None /\ transaction.who = "worker"
       /\ worker.at = "starting" => transaction.catalogue.job # None
       /\ worker.at # "starting" => catalogue.job # None
       /\ worker.at \in {"fetch", "ask", "answered", "keeping"} => worker.left # <<>>
       /\ worker.at = "answered" => worker.found \in BOOLEAN
  /\ transaction # None /\ transaction.who = "worker" =>
       worker # None /\ worker.at \in {"starting", "keeping", "completing", "failing"}
  /\ transaction # None /\ transaction.who = "check" => check # None /\ check.at \in {"repair", "observe", "claim", "result"}
  /\ check # None /\ check.at \in {"claiming", "claim", "fetch", "ask", "decide", "result"} => check.model \in Models
  /\ observed # {} \/ check # None \/ worker # None => serving

\* What was read of a model is of a revision it had; if it has it still, it was not edited since.
Held(c, counts, m, revision, edits) ==
  /\ c.entries[m] # None /\ revision <= c.entries[m].revision
  /\ revision = c.entries[m].revision => edits = counts[m]

ProposalsHold(c, counts) == c.job # None => \A p \in c.job.proposals : Held(c, counts, p.model, p.revision, p.edits)

WorkerHolds == worker # None =>
  /\ \A i \in DOMAIN worker.left : LET x == worker.left[i] IN Entry(x.model) # None /\ x.revision <= Entry(x.model).revision
  /\ worker.at \in {"fetch", "ask", "answered", "keeping"} =>
       Held(catalogue, edited, worker.left[1].model, worker.left[1].revision, worker.edits)
CheckHolds == check # None /\ check.at \in {"claiming", "claim", "fetch", "ask", "decide", "result"} =>
  Held(catalogue, edited, check.model, check.revision, check.edits)

\* What a change may do to a model: a price that was found is of the model as it is.
Wins(before, after, count) ==
  after # None /\ before # None /\ after.price # before.price /\ after.price # None /\ after.price.by = "agent" =>
    after.price.edits = count /\ ~after.ignored
Follows(m, next, counts) ==
  /\ Entry(m) # None =>
       /\ next.entries[m] # None /\ Entry(m).revision <= next.entries[m].revision
       /\ next.entries[m].revision = Entry(m).revision => counts[m] = edited[m]
  /\ Wins(Entry(m), next.entries[m], edited[m])
ChangeHolds == transaction # None =>
  /\ \A m \in Models : Follows(m, transaction.catalogue, transaction.edited)
  /\ ProposalsHold(transaction.catalogue, transaction.edited)
  /\ catalogue.job # None => transaction.catalogue.job # None

PricingInv ==
  /\ PricingTypes /\ OwnerInv
  /\ ProposalsHold(catalogue, edited) /\ WorkerHolds /\ CheckHolds /\ ChangeHolds

-----------------------------------------------------------------------------
(* Records.                                                                *)

LEMMA EntryParts ==
  ASSUME NEW c \in Catalogues, NEW m \in Models, c.entries[m] # None
  PROVE  LET e == c.entries[m] IN
         /\ e \in EntryRecords /\ e.revision \in Nat /\ e.price \in Prices \cup {None}
         /\ e.ignored \in BOOLEAN /\ e.auto \in Autos \cup {None}
<1>1. c.entries \in [Models -> EntryRecords \cup {None}]
  BY DEF Catalogues
<1>2. c.entries[m] \in EntryRecords
  BY <1>1
<1> QED
  BY <1>2 DEF EntryRecords

\* A change of several fields, whatever their types are.
LEMMA ThreeFields ==
  ASSUME NEW R, NEW S, NEW P, NEW I, NEW A,
         NEW o \in [revision : R, source : S, price : P, ignored : I, auto : A],
         NEW r \in R, NEW s \in S, NEW p \in P
  PROVE  LET e == [o EXCEPT !.revision = r, !.source = s, !.price = p] IN
         /\ e \in [revision : R, source : S, price : P, ignored : I, auto : A]
         /\ e.revision = r /\ e.price = p
OBVIOUS

LEMMA OtherThree ==
  ASSUME NEW R, NEW S, NEW P, NEW I, NEW A,
         NEW o \in [revision : R, source : S, price : P, ignored : I, auto : A],
         NEW i \in I, NEW r \in R, NEW a \in A
  PROVE  LET e == [o EXCEPT !.ignored = i, !.revision = r, !.auto = a] IN
         /\ e \in [revision : R, source : S, price : P, ignored : I, auto : A]
         /\ e.revision = r /\ e.price = o.price
OBVIOUS

LEMMA FoundFields ==
  ASSUME NEW R, NEW S, NEW P, NEW I, NEW A,
         NEW o \in [revision : R, source : S, price : P, ignored : I, auto : A],
         NEW r \in R, NEW p \in P, NEW a \in A
  PROVE  LET e == [o EXCEPT !.revision = r, !.price = p, !.auto = a] IN
         /\ e \in [revision : R, source : S, price : P, ignored : I, auto : A]
         /\ e.revision = r /\ e.price = p /\ e.ignored = o.ignored
OBVIOUS

LEMMA FoundPrice ==
  ASSUME NEW R, NEW S, NEW P, NEW I, NEW A,
         NEW o \in [revision : R, source : S, price : P, ignored : I, auto : A], NEW r \in R, NEW p \in P
  PROVE  LET e == [o EXCEPT !.revision = r, !.price = p] IN
         /\ e \in [revision : R, source : S, price : P, ignored : I, auto : A]
         /\ e.revision = r /\ e.price = p /\ e.ignored = o.ignored
OBVIOUS

LEMMA AppliedField ==
  ASSUME NEW M, NEW R, NEW B, NEW C, NEW E,
         NEW o \in [model : M, revision : R, rates : B, applied : C, edits : E], NEW c \in C
  PROVE  LET q == [o EXCEPT !.applied = c] IN
         /\ q \in [model : M, revision : R, rates : B, applied : C, edits : E]
         /\ q.model = o.model /\ q.revision = o.revision /\ q.edits = o.edits
OBVIOUS

LEMMA AutoField ==
  ASSUME NEW R, NEW S, NEW P, NEW I, NEW A,
         NEW o \in [revision : R, source : S, price : P, ignored : I, auto : A], NEW a \in A
  PROVE  LET e == [o EXCEPT !.auto = a] IN
         /\ e \in [revision : R, source : S, price : P, ignored : I, auto : A]
         /\ e.revision = o.revision /\ e.price = o.price /\ e.ignored = o.ignored
OBVIOUS

LEMMA TriedFields ==
  ASSUME NEW S, NEW A, NEW W, NEW o \in [status : S, attempts : A, wait : W], NEW s \in S, NEW w \in W
  PROVE  /\ [o EXCEPT !.status = s, !.wait = w] \in [status : S, attempts : A, wait : W]
         /\ [o EXCEPT !.status = s] \in [status : S, attempts : A, wait : W]
OBVIOUS

LEMMA ClaimedField ==
  ASSUME NEW A, NEW M, NEW R, NEW C, NEW S, NEW E, NEW F,
         NEW o \in [at : A, model : M, revision : R, claimed : C, seen : S, edits : E, found : F],
         NEW a \in A, NEW c \in C
  PROVE  [o EXCEPT !.at = a, !.claimed = c] \in
           [at : A, model : M, revision : R, claimed : C, seen : S, edits : E, found : F]
OBVIOUS

\* A change of one entry.
LEMMA WithEntry ==
  ASSUME NEW c \in Catalogues, NEW m \in Models, NEW e \in EntryRecords
  PROVE  LET next == [c EXCEPT !.entries[m] = e] IN
         /\ next \in Catalogues /\ next.job = c.job /\ next.entries[m] = e
         /\ \A n \in Models : n # m => next.entries[n] = c.entries[n]
<1>1. c.entries \in [Models -> EntryRecords \cup {None}] /\ c.job \in Jobs \cup {None}
      /\ c = [entries |-> c.entries, job |-> c.job]
  BY DEF Catalogues
<1>2. [c EXCEPT !.entries[m] = e] = [entries |-> [c.entries EXCEPT ![m] = e], job |-> c.job]
  BY <1>1
<1>3. [c.entries EXCEPT ![m] = e] \in [Models -> EntryRecords \cup {None}]
  BY <1>1
<1> QED
  BY <1>1, <1>2, <1>3 DEF Catalogues

LEMMA WithJob ==
  ASSUME NEW c \in Catalogues, NEW j \in Jobs \cup {None}
  PROVE  LET next == [c EXCEPT !.job = j] IN next \in Catalogues /\ next.job = j /\ next.entries = c.entries
BY DEF Catalogues

\* What is held of a model stays so when the model goes on as it may.
LEMMA HeldOn ==
  ASSUME NEW next \in Catalogues, NEW counts, NEW m \in Models, NEW revision \in Nat, NEW edits,
         catalogue \in Catalogues, Follows(m, next, counts), Held(catalogue, edited, m, revision, edits)
  PROVE  Held(next, counts, m, revision, edits)
<1>1. Entry(m) # None /\ Entry(m).revision \in Nat
  BY EntryParts DEF Held, Entry
<1>2. next.entries[m] # None /\ next.entries[m].revision \in Nat
  BY <1>1, EntryParts DEF Follows
<1> QED
  BY <1>1, <1>2 DEF Held, Follows, Entry

-----------------------------------------------------------------------------
(* What a step leaves alone.                                               *)

LEMMA SameProposals ==
  ASSUME ProposalsHold(catalogue, edited), UNCHANGED <<catalogue, edited>>
  PROVE  ProposalsHold(catalogue, edited)'
BY DEF ProposalsHold, Held

LEMMA SameWorker ==
  ASSUME WorkerHolds, UNCHANGED <<catalogue, edited, worker>>
  PROVE  WorkerHolds'
BY DEF WorkerHolds, Held, Entry

LEMMA SameCheck ==
  ASSUME CheckHolds, UNCHANGED <<catalogue, edited, check>>
  PROVE  CheckHolds'
BY DEF CheckHolds, Held

LEMMA SameChange ==
  ASSUME ChangeHolds, UNCHANGED <<catalogue, edited, transaction>>
  PROVE  ChangeHolds'
BY DEF ChangeHolds, Follows, ProposalsHold, Held, Wins, Entry

\* A change begins: it is right if it lets every model go on as it may.
LEMMA Opens ==
  ASSUME PricingAssumption, PricingInv, NEW who \in {"administrator", "worker", "check"},
         NEW next \in Catalogues, NEW counts \in [Models -> Nat],
         \A m \in Models : Follows(m, next, counts),
         next.job # None => \A p \in next.job.proposals :
           \/ catalogue.job # None /\ p \in catalogue.job.proposals
           \/ Held(next, counts, p.model, p.revision, p.edits),
         catalogue.job # None => next.job # None,
         transaction' = [who |-> who, catalogue |-> next, edited |-> counts], UNCHANGED <<catalogue, edited>>
  PROVE  /\ ChangeHolds' /\ transaction' \in Transactions /\ transaction' # None
         /\ transaction'.who = who /\ transaction'.catalogue = next
<1>1. transaction' \in Transactions /\ transaction' # None
  BY DEF Transactions, PricingAssumption
<1>2. ProposalsHold(next, counts)
  <2> SUFFICES ASSUME next.job # None, NEW p \in next.job.proposals,
                      catalogue.job # None, p \in catalogue.job.proposals
               PROVE  Held(next, counts, p.model, p.revision, p.edits)
    BY DEF ProposalsHold
  <2>1. catalogue \in Catalogues
    BY DEF PricingInv, PricingTypes
  <2>2. catalogue.job \in Jobs
    BY <2>1 DEF Catalogues
  <2>3. p \in Proposals
    BY <2>2 DEF Jobs
  <2>4. p.model \in Models /\ p.revision \in Nat
    BY <2>3 DEF Proposals
  <2>5. Held(catalogue, edited, p.model, p.revision, p.edits)
    BY DEF PricingInv, ProposalsHold
  <2> QED
    BY <2>1, <2>4, <2>5, HeldOn
<1> QED
  BY <1>1, <1>2 DEF ChangeHolds, Follows, Entry, Wins, ProposalsHold, Held

\* A change of what is not price, revision or edits.
LEMMA QuietFollows ==
  ASSUME PricingTypes, NEW next \in Catalogues,
         \A m \in Models : Entry(m) # None =>
           /\ next.entries[m] # None /\ next.entries[m].revision = Entry(m).revision
           /\ next.entries[m].price = Entry(m).price
  PROVE  \A m \in Models : Follows(m, next, edited)
<1> SUFFICES ASSUME NEW m \in Models PROVE Follows(m, next, edited)
  OBVIOUS
<1>1. Entry(m) # None => Entry(m).revision \in Nat
  BY EntryParts DEF PricingTypes, Entry
<1> QED
  BY <1>1 DEF Follows, Wins

\* The change of an administrator: the model has another revision then.
LEMMA EditFollows ==
  ASSUME PricingTypes, NEW next \in Catalogues, NEW m \in Models,
         \A n \in Models : n # m => next.entries[n] = Entry(n),
         next.entries[m] # None,
         Entry(m) # None => /\ next.entries[m].revision = Entry(m).revision + 1
                            /\ next.entries[m].price \in {Entry(m).price, Manual}
  PROVE  /\ [edited EXCEPT ![m] = @ + 1] \in [Models -> Nat]
         /\ \A n \in Models : Follows(n, next, [edited EXCEPT ![m] = @ + 1])
<1>1. [edited EXCEPT ![m] = @ + 1] \in [Models -> Nat] /\ edited \in [Models -> Nat]
  BY DEF PricingTypes
<1>2. ASSUME NEW n \in Models PROVE Follows(n, next, [edited EXCEPT ![m] = @ + 1])
  <2>1. Entry(n) # None => Entry(n).revision \in Nat
    BY EntryParts DEF PricingTypes, Entry
  <2>2. CASE n = m
    <3>1. Wins(Entry(n), next.entries[n], edited[n])
      BY <2>2 DEF Wins, Manual
    <3> QED
      BY <2>1, <2>2, <3>1 DEF Follows
  <2>3. CASE n # m
    BY <1>1, <2>1, <2>3 DEF Follows, Wins
  <2> QED
    BY <2>2, <2>3
<1> QED
  BY <1>1, <1>2

-----------------------------------------------------------------------------
(* Administrators.                                                         *)

LEMMA Parts ==
  ASSUME PricingInv
  PROVE  /\ PricingTypes /\ OwnerInv /\ ProposalsHold(catalogue, edited) /\ WorkerHolds /\ CheckHolds /\ ChangeHolds
         /\ catalogue \in Catalogues /\ catalogue.job \in Jobs \cup {None} /\ edited \in [Models -> Nat]
BY DEF PricingInv, PricingTypes, Catalogues

LEMMA EditStep ==
  ASSUME PricingAssumption, PricingInv, NEW m \in Models, NEW next \in Catalogues, Edited(m, next),
         \A n \in Models : n # m => next.entries[n] = Entry(n),
         next.entries[m] # None,
         Entry(m) # None => /\ next.entries[m].revision = Entry(m).revision + 1
                            /\ next.entries[m].price \in {Entry(m).price, Manual},
         catalogue.job # None => next.job # None,
         next.job # None => catalogue.job # None /\ next.job.proposals \subseteq catalogue.job.proposals
  PROVE  PricingInv'
<1>1. /\ transaction = None /\ serving
      /\ transaction' = [who |-> "administrator", catalogue |-> next, edited |-> [edited EXCEPT ![m] = @ + 1]]
      /\ UNCHANGED <<catalogue, worker, check, checking, observed, serving, edited>>
  BY DEF Edited, free
<1>2. /\ [edited EXCEPT ![m] = @ + 1] \in [Models -> Nat]
      /\ \A n \in Models : Follows(n, next, [edited EXCEPT ![m] = @ + 1])
  BY Parts, EditFollows
<1>3. ChangeHolds' /\ transaction' \in Transactions /\ transaction' # None /\ transaction'.who = "administrator"
  BY <1>1, <1>2, Opens
<1>4. PricingTypes'
  BY <1>1, <1>3, Parts DEF PricingTypes
<1>5. OwnerInv'
  BY <1>1, <1>3, Parts DEF OwnerInv
<1> QED
  BY <1>1, <1>3, <1>4, <1>5, Parts, SameProposals, SameWorker, SameCheck DEF PricingInv

LEMMA SaveStep ==
  ASSUME PricingAssumption, PricingInv, NEW m \in Models, NEW rates \in BOOLEAN, SaveModel(m, rates)
  PROVE  PricingInv'
<1>0. /\ catalogue \in Catalogues /\ catalogue.job \in Jobs \cup {None} /\ PricingTypes
      /\ \A n \in Models : Entry(n) = catalogue.entries[n]
  BY Parts DEF Entry
<1>1. Manual \in Prices /\ Manual # None
  BY DEF Manual, Prices, PricingAssumption
<1>2. CASE Entry(m) = None
  <2> DEFINE price == IF rates THEN Manual ELSE None
             e == [NewEntry EXCEPT !.price = price]
             next == [catalogue EXCEPT !.entries[m] = e]
  <2>1. price \in Prices \cup {None}
    BY <1>1
  <2>2. Edited(m, next)
    BY <1>2 DEF SaveModel
  <2> HIDE DEF price
  <2>3. e \in EntryRecords
    BY <2>1 DEF NewEntry, EntryRecords
  <2>4. e # None
    BY <2>3 DEF PricingAssumption
  <2> HIDE DEF e
  <2>5. /\ next \in Catalogues /\ next.job = catalogue.job /\ next.entries[m] = e
        /\ \A n \in Models : n # m => next.entries[n] = Entry(n)
    BY <1>0, <2>3, WithEntry
  <2> HIDE DEF next
  <2> QED
    BY <1>0, <1>2, <2>2, <2>4, <2>5, EditStep
<1>3. CASE Entry(m) # None
  <2> DEFINE price == IF rates THEN Manual ELSE Entry(m).price
             e == [Entry(m) EXCEPT !.revision = Entry(m).revision + 1, !.source = TRUE, !.price = price]
             next == [catalogue EXCEPT !.entries[m] = e]
  <2>1. Entry(m) \in EntryRecords /\ Entry(m).revision \in Nat /\ Entry(m).price \in Prices \cup {None}
    BY <1>0, <1>3, EntryParts
  <2>2. Edited(m, next)
    BY <1>3 DEF SaveModel
  <2>3. price \in Prices \cup {None} /\ price \in {Entry(m).price, Manual}
    BY <1>1, <2>1
  <2> HIDE DEF price
  <2>4. e \in EntryRecords /\ e.revision = Entry(m).revision + 1 /\ e.price = price
    <3>1. Entry(m).revision + 1 \in Nat /\ TRUE \in BOOLEAN
      BY <2>1
    <3>2. Entry(m) \in [revision : Nat, source : BOOLEAN, price : Prices \cup {None}, ignored : BOOLEAN,
                        auto : Autos \cup {None}]
      BY <2>1 DEF EntryRecords
    <3> QED
      BY <2>3, <3>1, <3>2, ThreeFields DEF EntryRecords
  <2>5. e # None
    BY <2>4 DEF PricingAssumption
  <2> HIDE DEF e
  <2>6. /\ next \in Catalogues /\ next.job = catalogue.job /\ next.entries[m] = e
        /\ \A n \in Models : n # m => next.entries[n] = Entry(n)
    BY <1>0, <2>4, WithEntry
  <2> HIDE DEF next
  <2> QED
    BY <1>0, <2>2, <2>3, <2>4, <2>5, <2>6, EditStep
<1> QED
  BY <1>2, <1>3

LEMMA JobWithout ==
  ASSUME PricingAssumption, NEW old \in Jobs, NEW m \in Models
  PROVE  WithoutModel(old, m) \in Jobs /\ WithoutModel(old, m).proposals \subseteq old.proposals
<1>1. old # None
  BY DEF PricingAssumption
<1> DEFINE j == [old EXCEPT !.models = @ \ {m}, !.proposals = {p \in @ : p.model # m}]
<1>2. j \in Jobs /\ j.proposals \subseteq old.proposals
  BY DEF Jobs
<1>3. WithoutModel(old, m) = j
  BY <1>1 DEF WithoutModel
<1> QED
  BY <1>2, <1>3

LEMMA IgnoreStep ==
  ASSUME PricingAssumption, PricingInv, NEW m \in Models, SetIgnored(m)
  PROVE  PricingInv'
<1>0. /\ catalogue \in Catalogues /\ catalogue.job \in Jobs \cup {None} /\ PricingTypes
      /\ \A n \in Models : Entry(n) = catalogue.entries[n]
  BY Parts DEF Entry
<1> DEFINE ignored == ~Entry(m).ignored
           auto == IF ~ignored /\ Entry(m).price = None THEN Queued ELSE None
           e == [Entry(m) EXCEPT !.ignored = ignored, !.revision = Entry(m).revision + 1, !.auto = auto]
           middle == [catalogue EXCEPT !.entries[m] = e]
           j == IF ignored THEN WithoutModel(catalogue.job, m) ELSE catalogue.job
           next == [middle EXCEPT !.job = j]
<1>1. Entry(m) # None /\ Entry(m) \in EntryRecords /\ Entry(m).revision \in Nat
  BY <1>0, EntryParts DEF SetIgnored
<1>2. ignored \in BOOLEAN
  OBVIOUS
<1>3. auto \in Autos \cup {None}
  BY DEF Queued, Autos
<1>4. Edited(m, next)
  <2>1. Edited(m, [catalogue EXCEPT !.entries[m] = e, !.job = IF ignored THEN WithoutModel(@, m) ELSE @])
    BY DEF SetIgnored
  <2>2. next = [catalogue EXCEPT !.entries[m] = e, !.job = IF ignored THEN WithoutModel(@, m) ELSE @]
    <3> HIDE DEF e, ignored
    <3> QED
      BY <1>0 DEF Catalogues
  <2> QED
    BY <2>1, <2>2
<1> HIDE DEF ignored, auto
<1>5. e \in EntryRecords /\ e.revision = Entry(m).revision + 1 /\ e.price = Entry(m).price
  <2>1. Entry(m).revision + 1 \in Nat
    BY <1>1
  <2>2. Entry(m) \in [revision : Nat, source : BOOLEAN, price : Prices \cup {None}, ignored : BOOLEAN,
                      auto : Autos \cup {None}]
    BY <1>1 DEF EntryRecords
  <2> QED
    BY <1>2, <1>3, <2>1, <2>2, OtherThree DEF EntryRecords
<1>6. e # None
  BY <1>5 DEF PricingAssumption
<1> HIDE DEF e
<1>7. /\ middle \in Catalogues /\ middle.job = catalogue.job /\ middle.entries[m] = e
      /\ \A n \in Models : n # m => middle.entries[n] = Entry(n)
  BY <1>0, <1>5, WithEntry
<1> HIDE DEF middle
<1>8. /\ j \in Jobs \cup {None} /\ (catalogue.job # None <=> j # None)
      /\ j # None => j.proposals \subseteq catalogue.job.proposals
  <2>1. CASE catalogue.job = None
    BY <2>1 DEF WithoutModel
  <2>2. CASE catalogue.job # None
    <3>1. catalogue.job \in Jobs
      BY <1>0, <2>2
    <3>2. WithoutModel(catalogue.job, m) \in Jobs /\ WithoutModel(catalogue.job, m).proposals \subseteq catalogue.job.proposals
      BY <3>1, JobWithout
    <3>3. WithoutModel(catalogue.job, m) # None
      BY <3>2 DEF PricingAssumption
    <3> QED
      BY <2>2, <3>1, <3>2, <3>3
  <2> QED
    BY <2>1, <2>2
<1> HIDE DEF j
<1>9. next \in Catalogues /\ next.job = j /\ next.entries = middle.entries
  BY <1>7, <1>8, WithJob
<1> HIDE DEF next
<1> QED
  BY <1>0, <1>1, <1>4, <1>5, <1>6, <1>7, <1>8, <1>9, EditStep

LEMMA BeginStep ==
  ASSUME PricingAssumption, PricingInv, NEW who \in {"administrator", "worker", "check"},
         NEW next \in Catalogues, Begins(who, next), UNCHANGED edited,
         \A m \in Models : Follows(m, next, edited),
         next.job # None => \A p \in next.job.proposals :
           \/ catalogue.job # None /\ p \in catalogue.job.proposals
           \/ Held(next, edited, p.model, p.revision, p.edits),
         catalogue.job # None => next.job # None
  PROVE  /\ ChangeHolds' /\ transaction' \in Transactions /\ transaction' # None
         /\ transaction'.who = who /\ transaction'.catalogue = next
         /\ transaction = None /\ serving /\ UNCHANGED <<catalogue, edited>>
         /\ ProposalsHold(catalogue, edited)'
<1>1. /\ transaction = None /\ serving /\ UNCHANGED <<catalogue, edited>> /\ edited \in [Models -> Nat]
      /\ transaction' = [who |-> who, catalogue |-> next, edited |-> edited]
  BY Parts DEF Begins
<1>2. ProposalsHold(catalogue, edited)'
  BY <1>1, Parts, SameProposals
<1> QED
  BY <1>1, <1>2, Opens

LEMMA ApplyStep ==
  ASSUME PricingAssumption, PricingInv, NEW m \in Models, ApplyProposal(m)
  PROVE  PricingInv'
<1>0. /\ catalogue \in Catalogues /\ catalogue.job \in Jobs \cup {None} /\ PricingTypes /\ edited \in [Models -> Nat]
      /\ \A n \in Models : Entry(n) = catalogue.entries[n]
  BY Parts DEF Entry
<1>1. PICK p \in catalogue.job.proposals :
        /\ p.model = m /\ Valid(p) /\ Unchanged(m, p.revision)
        /\ Begins("administrator", [catalogue EXCEPT
             !.entries[m] = [Entry(m) EXCEPT !.revision = @ + 1, !.price = Agent(p.edits)],
             !.job.proposals = (@ \ {p}) \cup {[p EXCEPT !.applied = TRUE]}])
  BY DEF ApplyProposal
<1>2. catalogue.job # None /\ catalogue.job \in Jobs
  BY <1>0 DEF ApplyProposal
<1>3. p \in Proposals /\ p.edits \in Nat /\ p.revision \in Nat
  BY <1>2 DEF Jobs, Proposals
<1>4. /\ Entry(m) # None /\ Entry(m) \in EntryRecords /\ Entry(m).revision \in Nat
      /\ ~Entry(m).ignored /\ Entry(m).revision = p.revision
  BY <1>0, <1>1, EntryParts DEF Unchanged
<1>5. p.edits = edited[m]
  BY <1>0, <1>1, <1>2, <1>4, Parts DEF ProposalsHold, Held
<1> DEFINE price == Agent(p.edits)
           e == [Entry(m) EXCEPT !.revision = Entry(m).revision + 1, !.price = price]
           middle == [catalogue EXCEPT !.entries[m] = e]
           q == [p EXCEPT !.applied = TRUE]
           j == [catalogue.job EXCEPT !.proposals = (@ \ {p}) \cup {q}]
           next == [middle EXCEPT !.job = j]
<1>6. q \in Proposals /\ q.model = m /\ q.revision = p.revision /\ q.edits = p.edits
  BY <1>1, <1>3, AppliedField DEF Proposals
<1>7. price \in Prices /\ price.edits = edited[m]
  BY <1>3, <1>5 DEF Agent, Prices
<1>8. Begins("administrator", next)
  <2>1. Begins("administrator", [catalogue EXCEPT !.entries[m] = e, !.job.proposals = (@ \ {p}) \cup {q}])
    BY <1>1
  <2>2. next = [catalogue EXCEPT !.entries[m] = e, !.job.proposals = (@ \ {p}) \cup {q}]
    <3> HIDE DEF e, q
    <3> QED
      BY <1>0 DEF Catalogues
  <2> QED
    BY <2>1, <2>2
<1> HIDE DEF q, price
<1>9. e \in EntryRecords /\ e.revision = Entry(m).revision + 1 /\ e.price = price /\ e.ignored = Entry(m).ignored
  <2>1. Entry(m).revision + 1 \in Nat /\ price \in Prices \cup {None}
    BY <1>4, <1>7
  <2>2. Entry(m) \in [revision : Nat, source : BOOLEAN, price : Prices \cup {None}, ignored : BOOLEAN,
                      auto : Autos \cup {None}]
    BY <1>4 DEF EntryRecords
  <2>3. e \in [revision : Nat, source : BOOLEAN, price : Prices \cup {None}, ignored : BOOLEAN, auto : Autos \cup {None}]
    BY <2>1, <2>2, FoundPrice
  <2> QED
    BY <2>1, <2>2, <2>3, FoundPrice DEF EntryRecords
<1>10. e # None
  BY <1>9 DEF PricingAssumption
<1> HIDE DEF e
<1>11. /\ middle \in Catalogues /\ middle.job = catalogue.job /\ middle.entries[m] = e
       /\ \A n \in Models : n # m => middle.entries[n] = Entry(n)
  BY <1>0, <1>9, WithEntry
<1> HIDE DEF middle
<1>12. j \in Jobs /\ j.proposals = (catalogue.job.proposals \ {p}) \cup {q}
  BY <1>2, <1>6 DEF Jobs
<1> HIDE DEF j
<1>13. next \in Catalogues /\ next.job = j /\ next.entries = middle.entries
  BY <1>11, <1>12, WithJob
<1> HIDE DEF next
<1>14. \A n \in Models : Follows(n, next, edited)
  <2> SUFFICES ASSUME NEW n \in Models PROVE Follows(n, next, edited)
    OBVIOUS
  <2>1. Entry(n) # None => Entry(n).revision \in Nat
    BY <1>0, EntryParts
  <2>2. CASE n = m
    BY <1>4, <1>7, <1>9, <1>10, <1>11, <1>13, <2>2 DEF Follows, Wins
  <2>3. CASE n # m
    BY <1>11, <1>13, <2>1, <2>3 DEF Follows, Wins
  <2> QED
    BY <2>2, <2>3
<1>15. Held(next, edited, q.model, q.revision, q.edits)
  BY <1>3, <1>4, <1>6, <1>9, <1>10, <1>11, <1>13 DEF Held
<1>16. next.job # None
  BY <1>12, <1>13 DEF PricingAssumption
<1>17. /\ ChangeHolds' /\ transaction' \in Transactions /\ transaction' # None
       /\ transaction'.who = "administrator" /\ UNCHANGED <<catalogue, edited>>
       /\ ProposalsHold(catalogue, edited)' /\ transaction = None /\ serving
  BY <1>2, <1>8, <1>12, <1>13, <1>14, <1>15, <1>16, BeginStep DEF ApplyProposal, free
<1>18. UNCHANGED <<worker, check, checking, observed, serving>>
  BY DEF ApplyProposal, free
<1>19. PricingTypes'
  BY <1>0, <1>17, <1>18 DEF PricingTypes
<1>20. OwnerInv'
  BY <1>17, <1>18, Parts DEF OwnerInv
<1> QED
  BY <1>17, <1>18, <1>19, <1>20, Parts, SameWorker, SameCheck DEF PricingInv

-----------------------------------------------------------------------------
(* The lookup of an administrator.                                         *)

Selected == [model : Models, revision : Nat]
Asking == {"fetch", "ask", "answered", "keeping"}

LEMMA ProposalParts ==
  ASSUME NEW M, NEW R, NEW B, NEW C, NEW E, NEW m \in M, NEW r \in R, NEW b \in B, NEW c \in C, NEW e \in E
  PROVE  LET q == [model |-> m, revision |-> r, rates |-> b, applied |-> c, edits |-> e] IN
         /\ q \in [model : M, revision : R, rates : B, applied : C, edits : E]
         /\ q.model = m /\ q.revision = r /\ q.edits = e
OBVIOUS

LEMMA SelectedDomain ==
  ASSUME NEW S, NEW s \in Seq(S)
  PROVE  \E n \in Nat : DOMAIN s = 1..n
<1>1. Len(s) \in Nat /\ DOMAIN s = 1..Len(s)
  OBVIOUS
<1> QED
  BY <1>1

LEMMA FunctionIsSeq ==
  ASSUME NEW S, NEW n \in Nat, NEW f \in [1..n -> S]
  PROVE  f \in Seq(S)
BY SMT

LEMMA LookupParts ==
  ASSUME PricingInv, worker # None
  PROVE  /\ worker \in Lookup /\ worker.left \in Seq(Selected) /\ worker.edits \in Nat
         /\ worker.found \in BOOLEAN \cup {None}
         /\ worker.left # <<>> => /\ Head(worker.left) = worker.left[1] /\ Head(worker.left) \in Selected
                                  /\ 1 \in DOMAIN worker.left /\ Tail(worker.left) \in Seq(Selected)
<1>1. worker \in Lookup
  BY DEF PricingInv, PricingTypes
<1>2. worker.left \in Seq(Selected) /\ worker.edits \in Nat /\ worker.found \in BOOLEAN \cup {None}
  BY <1>1 DEF Lookup, Selected
<1>3. ASSUME NEW s \in Seq(Selected), s # <<>>
      PROVE  /\ Head(s) = s[1] /\ Head(s) \in Selected /\ 1 \in DOMAIN s /\ Tail(s) \in Seq(Selected)
  BY <1>3
<1> QED
  BY <1>1, <1>2, <1>3

\* A lookup that goes on holds what it held, or asks for nothing.
LEMMA WorkerOn ==
  ASSUME PricingInv, catalogue' \in Catalogues, \A m \in Models : Follows(m, catalogue', edited'),
         worker # None, worker' # None,
         \/ /\ worker'.left = worker.left
            /\ worker'.at \in Asking => worker.at \in Asking /\ worker'.edits = worker.edits
         \/ worker.left # <<>> /\ worker'.left = Tail(worker.left) /\ worker'.at \notin Asking,
         worker.at \in Asking => worker.left # <<>>
  PROVE  WorkerHolds'
<1>0. catalogue \in Catalogues /\ WorkerHolds /\ worker.left \in Seq(Selected)
  BY Parts, LookupParts
<1>1. ASSUME NEW i \in DOMAIN worker.left
      PROVE  LET x == worker.left[i] IN
             catalogue'.entries[x.model] # None /\ x.revision <= catalogue'.entries[x.model].revision
  <2>1. worker.left[i] \in Selected
    BY <1>0, <1>1
  <2>2. worker.left[i].model \in Models /\ worker.left[i].revision \in Nat
    BY <2>1 DEF Selected
  <2>3. LET x == worker.left[i] IN Entry(x.model) # None /\ x.revision <= Entry(x.model).revision
    BY <1>0 DEF WorkerHolds
  <2>4. Follows(worker.left[i].model, catalogue', edited')
    BY <2>2
  <2>5. Entry(worker.left[i].model).revision \in Nat
    BY <1>0, <2>2, <2>3, EntryParts DEF Entry
  <2>6. catalogue'.entries[worker.left[i].model] # None
    BY <2>3, <2>4 DEF Follows
  <2>7. catalogue'.entries[worker.left[i].model].revision \in Nat
    BY <2>2, <2>6, EntryParts
  <2>8. Entry(worker.left[i].model).revision <= catalogue'.entries[worker.left[i].model].revision
    BY <2>3, <2>4 DEF Follows
  <2> QED
    BY <2>2, <2>3, <2>5, <2>6, <2>7, <2>8
<1>2. CASE worker'.left = worker.left /\ (worker'.at \in Asking => worker.at \in Asking /\ worker'.edits = worker.edits)
  <2>1. ASSUME worker'.at \in Asking
        PROVE  Held(catalogue', edited', worker.left[1].model, worker.left[1].revision, worker.edits)
    <3>1. worker.at \in Asking /\ worker.left # <<>>
      BY <1>2, <2>1
    <3>2. worker.left[1] \in Selected
      BY <1>0, <3>1
    <3>3. worker.left[1].model \in Models /\ worker.left[1].revision \in Nat
      BY <3>2 DEF Selected
    <3>4. Held(catalogue, edited, worker.left[1].model, worker.left[1].revision, worker.edits)
      BY <1>0, <3>1 DEF WorkerHolds, Asking
    <3> QED
      BY <1>0, <3>3, <3>4, HeldOn
  <2>2. \A i \in DOMAIN worker'.left : LET x == worker'.left[i] IN
           catalogue'.entries[x.model] # None /\ x.revision <= catalogue'.entries[x.model].revision
    BY <1>1, <1>2
  <2>3. worker'.at \in Asking =>
          Held(catalogue', edited', worker'.left[1].model, worker'.left[1].revision, worker'.edits)
    <3> SUFFICES ASSUME worker'.at \in Asking
                 PROVE  Held(catalogue', edited', worker'.left[1].model, worker'.left[1].revision, worker'.edits)
      OBVIOUS
    <3>1. worker'.left[1] = worker.left[1] /\ worker'.edits = worker.edits
      BY <1>2
    <3> QED
      BY <2>1, <3>1
  <2> QED
    BY <2>2, <2>3 DEF WorkerHolds, Entry, Asking
<1>3. CASE worker.left # <<>> /\ worker'.left = Tail(worker.left) /\ worker'.at \notin Asking
  <2>1. PICK s \in Seq(Selected) : s = worker.left
    BY <1>0
  <2>2. \A i \in DOMAIN Tail(s) : i + 1 \in DOMAIN s /\ Tail(s)[i] = s[i + 1]
    BY <1>3, <2>1
  <2>3. \A i \in DOMAIN worker'.left : LET x == worker'.left[i] IN
           catalogue'.entries[x.model] # None /\ x.revision <= catalogue'.entries[x.model].revision
    BY <1>1, <1>3, <2>1, <2>2
  <2> QED
    BY <1>3, <2>3 DEF WorkerHolds, Entry, Asking
<1> QED
  BY <1>2, <1>3

LEMMA Still ==
  ASSUME PricingInv, UNCHANGED <<catalogue, edited>>
  PROVE  catalogue' \in Catalogues /\ \A m \in Models : Follows(m, catalogue', edited')
<1>1. catalogue \in Catalogues
  BY Parts
<1> SUFFICES ASSUME NEW m \in Models PROVE Follows(m, catalogue', edited')
  BY <1>1
<1>2. Entry(m) # None => Entry(m).revision \in Nat
  BY <1>1, EntryParts DEF Entry
<1> QED
  BY <1>2 DEF Follows, Wins, Entry

Owning == {"starting", "keeping", "completing", "failing"}

\* A step of the lookup that changes nothing else.
LEMMA WorkerStep ==
  ASSUME PricingInv, UNCHANGED <<catalogue, transaction, check, checking, observed, serving, edited>>,
         serving, worker # None, worker' \in Lookup, WorkerHolds', worker.at \notin Owning, worker'.at \notin Owning,
         worker'.at \in Asking => worker'.left # <<>>, worker'.at = "answered" => worker'.found \in BOOLEAN
  PROVE  PricingInv'
<1>1. PricingTypes'
  BY Parts DEF PricingTypes
<1>2. catalogue.job # None
  BY Parts DEF OwnerInv, Owning
<1>3. OwnerInv'
  BY <1>2, Parts DEF OwnerInv, Owning, Asking
<1> QED
  BY <1>1, <1>3, Parts, SameProposals, SameCheck, SameChange DEF PricingInv

\* A step of the lookup that begins a change.
LEMMA WorkerBegins ==
  ASSUME PricingAssumption, PricingInv, NEW next \in Catalogues, Begins("worker", next),
         UNCHANGED <<check, checking, observed, serving, edited>>,
         next.entries = catalogue.entries,
         next.job # None,
         \A p \in next.job.proposals : \/ catalogue.job # None /\ p \in catalogue.job.proposals
                                       \/ Held(catalogue, edited, p.model, p.revision, p.edits),
         worker' \in Lookup, WorkerHolds', worker' # None, worker'.at \in Owning,
         worker'.at # "starting" => catalogue.job # None,
         worker'.at = "keeping" => worker'.left # <<>>
  PROVE  PricingInv'
<1>0. catalogue \in Catalogues /\ PricingTypes
  BY Parts
<1>1. \A m \in Models : Entry(m) # None => next.entries[m] = Entry(m)
  BY DEF Entry
<1>2. \A m \in Models : Follows(m, next, edited)
  BY <1>0, <1>1, QuietFollows
<1>3. \A p \in next.job.proposals :
           \/ catalogue.job # None /\ p \in catalogue.job.proposals
           \/ Held(next, edited, p.model, p.revision, p.edits)
  BY DEF Held
<1>4. /\ ChangeHolds' /\ transaction' \in Transactions /\ transaction' # None
      /\ transaction'.who = "worker" /\ transaction'.catalogue = next
      /\ transaction = None /\ serving /\ UNCHANGED <<catalogue, edited>>
      /\ ProposalsHold(catalogue, edited)'
  BY <1>2, <1>3, BeginStep
<1>5. PricingTypes'
  BY <1>0, <1>4 DEF PricingTypes
<1>6. OwnerInv'
  BY <1>4, Parts DEF OwnerInv, Owning
<1> QED
  BY <1>4, <1>5, <1>6, Parts, SameCheck DEF PricingInv

LEMMA StartStep ==
  ASSUME PricingAssumption, PricingInv, NEW selected \in Seq(Models), StartLookup(selected)
  PROVE  PricingInv'
<1>0. catalogue \in Catalogues /\ PricingTypes /\ \A n \in Models : Entry(n) = catalogue.entries[n]
  BY Parts DEF Entry
<1> DEFINE j == [status |-> "running", models |-> Range(selected), proposals |-> {}]
           next == [catalogue EXCEPT !.job = j]
           left == [n \in DOMAIN selected |-> [model |-> selected[n], revision |-> Entry(selected[n]).revision]]
<1>1. Range(selected) \subseteq Models
  BY DEF Range
<1>2. j \in Jobs /\ j.proposals = {}
  BY <1>1 DEF Jobs
<1>3. j # None
  BY <1>2 DEF PricingAssumption
<1>4. /\ Begins("worker", next) /\ UNCHANGED <<check, checking, observed, serving, edited>>
      /\ worker' = [at |-> "starting", found |-> None, edits |-> 0, left |-> left]
      /\ \A m \in Range(selected) : Entry(m) # None
  BY DEF StartLookup
<1>5. \A i \in DOMAIN selected : selected[i] \in Models /\ selected[i] \in Range(selected)
  BY DEF Range
<1>6. \A i \in DOMAIN selected : Entry(selected[i]) # None /\ Entry(selected[i]).revision \in Nat
  BY <1>0, <1>4, <1>5, EntryParts
<1>7. left \in Seq(Selected)
  <2>1. PICK n \in Nat : DOMAIN selected = 1..n
    BY SelectedDomain
  <2>2. left \in [1..n -> Selected]
    BY <1>5, <1>6, <2>1 DEF Selected
  <2> QED
    BY <2>2, FunctionIsSeq
<1>8. DOMAIN left = DOMAIN selected /\ \A i \in DOMAIN selected :
         left[i].model = selected[i] /\ left[i].revision = Entry(selected[i]).revision
  OBVIOUS
<1> HIDE DEF j
<1>9. next \in Catalogues /\ next.job = j /\ next.entries = catalogue.entries
  BY <1>0, <1>2, WithJob
<1> HIDE DEF next, left
<1>10. worker' \in Lookup /\ worker'.at = "starting" /\ worker'.left = left
  BY <1>4, <1>7 DEF Lookup, Selected
<1>11. worker' # None
  BY <1>10 DEF PricingAssumption
<1>12. UNCHANGED catalogue
  BY <1>4 DEF Begins
<1>13. WorkerHolds'
  <2>1. \A i \in DOMAIN left : LET x == left[i] IN
          catalogue.entries[x.model] # None /\ x.revision <= catalogue.entries[x.model].revision
    BY <1>0, <1>5, <1>6, <1>8
  <2> QED
    BY <1>10, <1>12, <2>1 DEF WorkerHolds, Entry
<1> QED
  BY <1>2, <1>3, <1>4, <1>9, <1>10, <1>11, <1>13, WorkerBegins DEF Owning

LEMMA FetchedStep ==
  ASSUME PricingAssumption, PricingInv, Fetched \/ Answer
  PROVE  PricingInv'
<1>1. /\ UNCHANGED <<catalogue, transaction, check, checking, observed, serving, edited>>
      /\ serving /\ worker # None /\ worker.at \in {"fetch", "ask"}
      /\ \/ worker' = [worker EXCEPT !.at = "ask"]
         \/ worker' = [worker EXCEPT !.at = "answered", !.found = FALSE]
         \/ worker' = [worker EXCEPT !.at = "answered", !.found = TRUE]
  BY DEF Fetched, Answer
<1>2. worker \in Lookup /\ worker.left # <<>> /\ TRUE \in BOOLEAN /\ FALSE \in BOOLEAN
  BY <1>1, LookupParts, Parts DEF OwnerInv
<1>3. /\ worker' \in Lookup /\ worker' # None /\ worker'.at \in {"ask", "answered"}
      /\ worker'.left = worker.left /\ worker'.edits = worker.edits
      /\ worker'.at = "answered" => worker'.found \in BOOLEAN
  <2>1. CASE worker' = [worker EXCEPT !.at = "ask"]
    BY <1>2, <2>1 DEF Lookup, PricingAssumption
  <2>2. CASE worker' = [worker EXCEPT !.at = "answered", !.found = FALSE]
    BY <1>2, <2>2 DEF Lookup, PricingAssumption
  <2>3. CASE worker' = [worker EXCEPT !.at = "answered", !.found = TRUE]
    BY <1>2, <2>3 DEF Lookup, PricingAssumption
  <2> QED
    BY <1>1, <2>1, <2>2, <2>3
<1>4. WorkerHolds'
  BY <1>1, <1>2, <1>3, Still, WorkerOn DEF Asking
<1> QED
  BY <1>1, <1>2, <1>3, <1>4, WorkerStep DEF Asking, Owning

\* The status of the job changes.
LEMMA WithStatus ==
  ASSUME PricingAssumption, NEW c \in Catalogues, c.job # None,
         NEW status \in {"running", "completed", "failed", "interrupted"}
  PROVE  LET next == [c EXCEPT !.job.status = status] IN
         /\ next \in Catalogues /\ next.entries = c.entries /\ next.job # None
         /\ next.job.proposals = c.job.proposals
<1> DEFINE j == [c.job EXCEPT !.status = status]
<1>0. c.job \in Jobs
  BY DEF Catalogues
<1>1. j \in Jobs /\ j.proposals = c.job.proposals
  BY <1>0 DEF Jobs
<1>2. [c EXCEPT !.job.status = status] = [c EXCEPT !.job = j]
  BY DEF Catalogues
<1>3. j # None
  BY <1>1 DEF PricingAssumption
<1> HIDE DEF j
<1>4. LET next == [c EXCEPT !.job = j] IN next \in Catalogues /\ next.job = j /\ next.entries = c.entries
  BY <1>1, WithJob
<1> QED
  BY <1>1, <1>2, <1>3, <1>4

LEMMA NextModelStep ==
  ASSUME PricingAssumption, PricingInv, NextModel
  PROVE  PricingInv'
<1>0. /\ catalogue \in Catalogues /\ WorkerHolds /\ edited \in [Models -> Nat]
      /\ \A n \in Models : Entry(n) = catalogue.entries[n]
  BY Parts DEF Entry
<1>1. worker # None /\ worker.at = "next" /\ serving /\ UNCHANGED <<check, checking, observed, serving, edited>>
  BY DEF NextModel
<1>2. worker \in Lookup /\ worker.left \in Seq(Selected) /\ catalogue.job # None
  BY <1>1, LookupParts, Parts DEF OwnerInv
<1>3. CASE worker.left = <<>>
  <2>1. Begins("worker", [catalogue EXCEPT !.job.status = "completed"]) /\ worker' = [worker EXCEPT !.at = "completing"]
    BY <1>3 DEF NextModel
  <2>2. worker' \in Lookup /\ worker' # None /\ worker'.at = "completing" /\ worker'.left = worker.left
    BY <1>2, <2>1 DEF Lookup, PricingAssumption
  <2>3. UNCHANGED catalogue
    BY <2>1 DEF Begins
  <2>4. WorkerHolds'
    BY <1>1, <2>2, <2>3, Still, WorkerOn DEF Asking
  <2> QED
    BY <1>0, <1>1, <1>2, <2>1, <2>2, <2>4, WithStatus, WorkerBegins DEF Owning
<1>4. CASE worker.left # <<>>
  <2> DEFINE x == Head(worker.left)
  <2>1. /\ UNCHANGED <<catalogue, transaction>>
        /\ \/ worker' = [worker EXCEPT !.at = "fetch", !.edits = edited[x.model]]
           \/ worker' = [worker EXCEPT !.left = Tail(worker.left)]
    BY <1>4 DEF NextModel
  <2>2. x = worker.left[1] /\ x \in Selected /\ 1 \in DOMAIN worker.left /\ Tail(worker.left) \in Seq(Selected)
    BY <1>1, <1>4, LookupParts
  <2> HIDE DEF x
  <2>3. x.model \in Models /\ edited[x.model] \in Nat
    BY <1>0, <2>2 DEF Selected
  <2>4. CASE worker' = [worker EXCEPT !.at = "fetch", !.edits = edited[x.model]]
    <3>1. /\ worker' \in Lookup /\ worker' # None /\ worker'.at = "fetch" /\ worker'.edits = edited[x.model]
          /\ worker'.left = worker.left
      <4>1. PICK e \in Nat : e = edited[x.model]
        BY <2>3
      <4>2. worker' = [worker EXCEPT !.at = "fetch", !.edits = e]
        BY <2>4, <4>1
      <4> QED
        BY <1>2, <4>1, <4>2 DEF Lookup, PricingAssumption
    <3>2. Held(catalogue, edited, x.model, x.revision, edited[x.model])
      BY <1>0, <1>1, <2>2, <2>3 DEF WorkerHolds, Held
    <3>3. WorkerHolds'
      BY <1>0, <1>1, <2>1, <2>2, <3>1, <3>2 DEF WorkerHolds, Entry, Held
    <3> QED
      BY <1>1, <1>4, <2>1, <3>1, <3>3, WorkerStep DEF Asking, Owning
  <2>5. CASE worker' = [worker EXCEPT !.left = Tail(worker.left)]
    <3>1. worker' \in Lookup /\ worker' # None /\ worker'.at = "next" /\ worker'.left = Tail(worker.left)
      <4>1. PICK l \in Seq(Selected) : l = Tail(worker.left)
        BY <2>2
      <4>2. worker' = [worker EXCEPT !.left = l]
        BY <2>5, <4>1
      <4> QED
        BY <1>1, <1>2, <4>1, <4>2 DEF Lookup, PricingAssumption, Selected
    <3>2. WorkerHolds'
      BY <1>1, <1>4, <2>1, <3>1, Still, WorkerOn DEF Asking
    <3> QED
      BY <1>1, <2>1, <3>1, <3>2, WorkerStep DEF Asking, Owning
  <2> QED
    BY <2>1, <2>4, <2>5
<1> QED
  BY <1>3, <1>4

LEMMA KeepStep ==
  ASSUME PricingAssumption, PricingInv, KeepProposal
  PROVE  PricingInv'
<1>1. /\ catalogue \in Catalogues /\ WorkerHolds /\ edited \in [Models -> Nat]
      /\ \A n \in Models : Entry(n) = catalogue.entries[n]
  BY Parts DEF Entry
<1>2. worker # None /\ worker.at = "answered" /\ UNCHANGED <<check, checking, observed, serving, edited>>
  BY DEF KeepProposal
<1>3. /\ worker \in Lookup /\ catalogue.job # None /\ worker.left # <<>> /\ worker.found \in BOOLEAN
      /\ worker.edits \in Nat /\ worker.left[1] = Head(worker.left) /\ Head(worker.left) \in Selected
  BY <1>2, LookupParts, Parts DEF OwnerInv
<1> DEFINE x == Head(worker.left)
           p == Proposal(x, worker.found, worker.edits)
           j == [catalogue.job EXCEPT !.proposals = @ \cup {p}]
           kept == [catalogue EXCEPT !.job.proposals = @ \cup {p}]
           next == IF x.model \in catalogue.job.models THEN kept ELSE catalogue
<1>4. Begins("worker", next) /\ worker' = [worker EXCEPT !.at = "keeping"]
  BY DEF KeepProposal
<1>5. p \in Proposals /\ p.model = x.model /\ p.revision = x.revision /\ p.edits = worker.edits
  <2>1. x \in Selected
    BY <1>3
  <2> HIDE DEF x
  <2> QED
    BY <1>3, <2>1, ProposalParts DEF Selected, Proposals, Proposal
<1>6. Held(catalogue, edited, p.model, p.revision, p.edits)
  BY <1>1, <1>2, <1>3, <1>5 DEF WorkerHolds
<1> HIDE DEF p, x
<1>7. kept = [catalogue EXCEPT !.job = j]
  BY <1>1 DEF Catalogues
<1> HIDE DEF kept
<1>8. j \in Jobs /\ j.proposals = catalogue.job.proposals \cup {p}
  BY <1>1, <1>3, <1>5 DEF Catalogues, Jobs
<1>9. j # None
  BY <1>8 DEF PricingAssumption
<1> HIDE DEF j
<1>10. /\ next \in Catalogues /\ next.entries = catalogue.entries /\ next.job # None
      /\ next.job.proposals \subseteq catalogue.job.proposals \cup {p}
  BY <1>1, <1>3, <1>7, <1>8, <1>9, WithJob
<1> HIDE DEF next
<1>11. worker' \in Lookup /\ worker' # None /\ worker'.at = "keeping" /\ worker'.left = worker.left /\ worker'.edits = worker.edits
  BY <1>3, <1>4 DEF Lookup, PricingAssumption
<1>12. UNCHANGED catalogue
  BY <1>4 DEF Begins
<1>13. WorkerHolds'
  BY <1>2, <1>3, <1>11, <1>12, Still, WorkerOn DEF Asking
<1> QED
  BY <1>2, <1>3, <1>4, <1>6, <1>10, <1>11, <1>13, WorkerBegins DEF Owning

LEMMA LookupFailsStep ==
  ASSUME PricingAssumption, PricingInv, LookupFails
  PROVE  PricingInv'
<1>0. catalogue \in Catalogues
  BY Parts
<1>1. /\ worker # None /\ worker.at = "saving" /\ UNCHANGED <<check, checking, observed, serving, edited>>
      /\ Begins("worker", [catalogue EXCEPT !.job.status = "failed"]) /\ worker' = [worker EXCEPT !.at = "failing"]
  BY DEF LookupFails
<1>2. worker \in Lookup /\ catalogue.job # None
  BY <1>1, LookupParts, Parts DEF OwnerInv
<1>3. worker' \in Lookup /\ worker' # None /\ worker'.at = "failing" /\ worker'.left = worker.left
  BY <1>1, <1>2 DEF Lookup, PricingAssumption
<1>4. UNCHANGED catalogue
  BY <1>1 DEF Begins
<1>5. WorkerHolds'
  BY <1>1, <1>3, <1>4, Still, WorkerOn DEF Asking
<1> QED
  BY <1>0, <1>1, <1>2, <1>3, <1>5, WithStatus, WorkerBegins DEF Owning

-----------------------------------------------------------------------------
(* The automatic check.                                                    *)

Reading == {"claiming", "claim", "fetch", "ask", "decide", "result"}
Writing == {"repair", "observe", "claim", "result"}

\* A check that goes on holds what it held.
LEMMA CheckOn ==
  ASSUME PricingInv, catalogue' \in Catalogues, \A m \in Models : Follows(m, catalogue', edited'),
         check' # None,
         check'.at \in Reading => /\ check # None /\ check.at \in Reading /\ check'.model = check.model
                                  /\ check'.revision = check.revision /\ check'.edits = check.edits
  PROVE  CheckHolds' /\ (check'.at \in Reading => check'.model \in Models)
<1> SUFFICES ASSUME check'.at \in Reading
             PROVE  /\ check'.model \in Models
                    /\ Held(catalogue', edited', check'.model, check'.revision, check'.edits)
  BY DEF CheckHolds, Reading
<1>1. check # None /\ check.at \in Reading /\ check \in Checking /\ catalogue \in Catalogues
  BY Parts DEF PricingTypes
<1>2. check.model \in Models /\ check.revision \in Nat
  BY <1>1, Parts DEF OwnerInv, Reading, Checking
<1>3. Held(catalogue, edited, check.model, check.revision, check.edits)
  BY <1>1, Parts DEF CheckHolds, Reading
<1>4. Held(catalogue', edited', check.model, check.revision, check.edits)
  BY <1>1, <1>2, <1>3, HeldOn
<1> QED
  BY <1>2, <1>4

LEMMA CheckStep ==
  ASSUME PricingInv, UNCHANGED <<catalogue, transaction, worker, observed, serving, edited>>, serving,
         check' \in Checking \cup {None}, checking' \in Models \cup {None}, CheckHolds',
         transaction = None \/ check = None \/ check.at \notin Writing,
         check' # None /\ check'.at \in Reading => check'.model \in Models
  PROVE  PricingInv'
<1>1. PricingTypes'
  BY Parts DEF PricingTypes
<1>2. ~(transaction # None /\ transaction.who = "check")
  BY Parts DEF OwnerInv, Writing
<1>3. OwnerInv'
  BY <1>2, Parts DEF OwnerInv, Reading
<1> QED
  BY <1>1, <1>3, Parts, SameProposals, SameWorker, SameChange DEF PricingInv

LEMMA CheckBegins ==
  ASSUME PricingAssumption, PricingInv, NEW next \in Catalogues, Begins("check", next),
         UNCHANGED <<worker, checking, observed, serving, edited>>,
         \A m \in Models : Follows(m, next, edited), next.job = catalogue.job,
         check' \in Checking, check' # None, check'.at \in Writing, CheckHolds',
         check'.at \in Reading => check'.model \in Models
  PROVE  PricingInv'
<1>1. /\ ChangeHolds' /\ transaction' \in Transactions /\ transaction' # None
      /\ transaction'.who = "check" /\ transaction'.catalogue = next
      /\ transaction = None /\ serving /\ UNCHANGED <<catalogue, edited>>
      /\ ProposalsHold(catalogue, edited)'
  BY BeginStep
<1>2. PricingTypes'
  BY <1>1, Parts DEF PricingTypes
<1>3. OwnerInv'
  BY <1>1, Parts DEF OwnerInv, Writing, Reading
<1> QED
  BY <1>1, <1>2, <1>3, Parts, SameWorker DEF PricingInv

LEMMA CheckReads ==
  ASSUME PricingAssumption, PricingInv, Schedule \/ CheckFetched \/ CheckAnswer
  PROVE  PricingInv'
<1>1. /\ UNCHANGED <<catalogue, transaction, worker, checking, observed, serving, edited>> /\ serving
      /\ \/ /\ check = None
            /\ check' = [at |-> "repair", model |-> None, revision |-> 0, claimed |-> FALSE, seen |-> {}, edits |-> 0,
                         found |-> None]
         \/ /\ check # None /\ check.at \in {"fetch", "ask"}
            /\ \/ check' = [check EXCEPT !.at = "ask"]
               \/ \E found \in {"rates", "retry", "rejected"} :
                    check' = [check EXCEPT !.at = "decide", !.found = found]
  BY DEF Schedule, CheckFetched, CheckAnswer
<1>2. check \in Checking \cup {None}
  BY Parts DEF PricingTypes
<1>3. /\ check' \in Checking /\ check' # None
      /\ check'.at \in Reading => /\ check # None /\ check.at \in Reading /\ check'.model = check.model
                                  /\ check'.revision = check.revision /\ check'.edits = check.edits
  <2>1. CASE check' = [at |-> "repair", model |-> None, revision |-> 0, claimed |-> FALSE, seen |-> {}, edits |-> 0,
                       found |-> None]
    <3>1. check' \in Checking
      BY <2>1 DEF Checking
    <3>2. check'.at = "repair"
      BY <2>1
    <3> QED
      BY <3>1, <3>2 DEF PricingAssumption, Reading
  <2>2. CASE check # None /\ check.at \in {"fetch", "ask"} /\ check' = [check EXCEPT !.at = "ask"]
    BY <1>2, <2>2 DEF Checking, PricingAssumption, Reading
  <2>3. ASSUME NEW found \in {"rates", "retry", "rejected"}, check # None, check.at \in {"fetch", "ask"},
               check' = [check EXCEPT !.at = "decide", !.found = found]
        PROVE  /\ check' \in Checking /\ check' # None
               /\ check'.at \in Reading => /\ check # None /\ check.at \in Reading /\ check'.model = check.model
                                           /\ check'.revision = check.revision /\ check'.edits = check.edits
    BY <1>2, <2>3 DEF Checking, PricingAssumption, Reading
  <2> QED
    BY <1>1, <2>1, <2>2, <2>3
<1>4. CheckHolds' /\ (check'.at \in Reading => check'.model \in Models)
  BY <1>1, <1>3, Still, CheckOn
<1>5. checking' \in Models \cup {None}
  BY <1>1, Parts DEF PricingTypes
<1> QED
  BY <1>1, <1>3, <1>4, <1>5, CheckStep DEF Writing

\* An entry whose automatic check changes is otherwise what it was.
LEMMA WithAuto ==
  ASSUME PricingAssumption, NEW o \in EntryRecords, NEW a \in Autos \cup {None}
  PROVE  LET e == [o EXCEPT !.auto = a] IN
         /\ e \in EntryRecords /\ e # None
         /\ e.revision = o.revision /\ e.price = o.price /\ e.auto = a
<1>1. [o EXCEPT !.auto = a] \in EntryRecords
  BY AutoField DEF EntryRecords
<1>2. LET e == [o EXCEPT !.auto = a] IN e.revision = o.revision /\ e.price = o.price /\ e.auto = a
  BY DEF EntryRecords
<1> QED
  BY <1>1, <1>2 DEF PricingAssumption

\* A catalogue in which the check of one model changed.
LEMMA WithCheck ==
  ASSUME PricingAssumption, PricingInv, NEW m \in Models, Entry(m) # None, NEW a \in Autos \cup {None}
  PROVE  LET next == [catalogue EXCEPT !.entries[m].auto = a] IN
         /\ next \in Catalogues /\ next.job = catalogue.job
         /\ \A n \in Models : Follows(n, next, edited)
<1>0. catalogue \in Catalogues /\ PricingTypes /\ \A n \in Models : Entry(n) = catalogue.entries[n]
  BY Parts DEF Entry
<1>1. Entry(m) \in EntryRecords
  BY <1>0, EntryParts
<1> DEFINE e == [Entry(m) EXCEPT !.auto = a]
           next == [catalogue EXCEPT !.entries[m] = e]
<1>2. e \in EntryRecords /\ e # None /\ e.revision = Entry(m).revision /\ e.price = Entry(m).price
  BY <1>1, WithAuto
<1>3. [catalogue EXCEPT !.entries[m].auto = a] = next
  BY DEF Entry
<1> HIDE DEF e
<1>4. /\ next \in Catalogues /\ next.job = catalogue.job /\ next.entries[m] = e
      /\ \A n \in Models : n # m => next.entries[n] = Entry(n)
  BY <1>0, <1>2, WithEntry
<1> HIDE DEF next
<1>5. \A n \in Models : Entry(n) # None =>
        next.entries[n] # None /\ next.entries[n].revision = Entry(n).revision /\ next.entries[n].price = Entry(n).price
  BY <1>2, <1>4
<1>6. \A n \in Models : Follows(n, next, edited)
  BY <1>0, <1>4, <1>5, QuietFollows
<1> QED
  BY <1>3, <1>4, <1>6

LEMMA RepairStep ==
  ASSUME PricingAssumption, PricingInv, Repair
  PROVE  PricingInv'
<1>0. /\ catalogue \in Catalogues /\ PricingTypes /\ \A n \in Models : Entry(n) = catalogue.entries[n]
      /\ check \in Checking \cup {None} /\ checking \in Models \cup {None}
  BY Parts DEF Entry, PricingTypes
<1>1. /\ check # None /\ check.at = "repair" /\ transaction = None
      /\ UNCHANGED <<worker, checking, observed, serving, edited>>
  BY DEF Repair
<1>2. serving
  BY <1>1, Parts DEF OwnerInv
<1>3. CASE checking # None
  <2> DEFINE next == Repaired(catalogue, checking)
  <2>1. Begins("check", next) /\ UNCHANGED check
    BY <1>3 DEF Repair
  <2>2. next \in Catalogues /\ next.job = catalogue.job /\ \A n \in Models : Follows(n, next, edited)
    <3>1. CASE /\ Entry(checking) # None /\ ~Entry(checking).ignored /\ Entry(checking).auto # None
               /\ Entry(checking).auto.status = "checking"
      <4> DEFINE a == [Entry(checking).auto EXCEPT !.status = Again(Entry(checking).auto), !.wait = TRUE]
      <4>1. Entry(checking).auto \in Autos
        BY <1>0, <1>3, <3>1, EntryParts
      <4>2. Again(Entry(checking).auto) \in {"queued", "failed"}
        BY DEF Again
      <4>3. a \in Autos
        BY <4>1, <4>2, TriedFields DEF Autos
      <4>4. next = [catalogue EXCEPT !.entries[checking].auto = a]
        BY <3>1 DEF Repaired, Entry
      <4> HIDE DEF a, next
      <4> QED
        BY <1>0, <1>3, <3>1, <4>3, <4>4, WithCheck
    <3>2. CASE ~(/\ Entry(checking) # None /\ ~Entry(checking).ignored /\ Entry(checking).auto # None
                 /\ Entry(checking).auto.status = "checking")
      <4>1. next = catalogue
        BY <3>2 DEF Repaired, Entry
      <4> HIDE DEF next
      <4> QED
        BY <1>0, <4>1, QuietFollows
    <3> QED
      BY <3>1, <3>2
  <2> HIDE DEF next
  <2>3. UNCHANGED catalogue
    BY <2>1 DEF Begins
  <2>4. CheckHolds'
    BY <1>1, <2>1, <2>3, Still, CheckOn
  <2> QED
    BY <1>0, <1>1, <2>1, <2>2, <2>4, CheckBegins DEF Writing, Reading
<1>4. CASE checking = None
  <2>1. check' = [check EXCEPT !.at = "observe"] /\ UNCHANGED <<catalogue, transaction>>
    BY <1>4 DEF Repair
  <2>2. check' \in Checking /\ check' # None /\ check'.at = "observe"
    BY <1>0, <1>1, <2>1 DEF Checking, PricingAssumption
  <2>3. CheckHolds'
    BY <2>2 DEF CheckHolds
  <2> QED
    BY <1>0, <1>1, <1>2, <2>1, <2>2, <2>3, CheckStep DEF Reading
<1> QED
  BY <1>3, <1>4

\* What a model is when it enters: a new entry, or the one it has with its check queued.
LEMMA EnteredEntries ==
  ASSUME PricingAssumption, PricingInv, NEW models \in SUBSET Models
  PROVE  LET next == Entered(catalogue, models) IN
         /\ next \in Catalogues /\ next.job = catalogue.job
         /\ \A n \in Models : Follows(n, next, edited)
<1>0. catalogue \in Catalogues /\ PricingTypes /\ \A n \in Models : Entry(n) = catalogue.entries[n]
  BY Parts DEF Entry
<1> DEFINE base(m) == IF Entry(m) # None THEN Entry(m)
                      ELSE IF Cardinality(Known(catalogue)) < MaxModels THEN NewEntry ELSE None
           new(m) == IF m \notin models THEN Entry(m)
                     ELSE IF base(m) = None \/ base(m).ignored \/ base(m).price # None \/ base(m).auto # None
                     THEN base(m) ELSE [base(m) EXCEPT !.auto = Queued]
           entries == [m \in Models |-> new(m)]
           next == [catalogue EXCEPT !.entries = entries]
<1>1. ASSUME NEW m \in Models
      PROVE  /\ new(m) \in EntryRecords \cup {None}
             /\ Entry(m) # None => /\ new(m) # None /\ new(m).revision = Entry(m).revision
                                   /\ new(m).price = Entry(m).price
  <2>1. Entry(m) # None => Entry(m) \in EntryRecords
    BY <1>0, EntryParts
  <2>2. NewEntry \in EntryRecords
    BY DEF NewEntry, EntryRecords
  <2>3. base(m) \in EntryRecords \cup {None} /\ (Entry(m) # None => base(m) = Entry(m))
    BY <2>1, <2>2
  <2>4. Queued \in Autos \cup {None}
    BY DEF Queued, Autos
  <2> HIDE DEF base
  <2>5. base(m) # None => LET e == [base(m) EXCEPT !.auto = Queued] IN
          e \in EntryRecords /\ e # None /\ e.revision = base(m).revision /\ e.price = base(m).price
    BY <2>3, <2>4, WithAuto
  <2> QED
    BY <2>1, <2>3, <2>5
<1>2. Entered(catalogue, models) = next
  BY <1>0 DEF Entered, Entry
<1> HIDE DEF new
<1>3. entries \in [Models -> EntryRecords \cup {None}]
  BY <1>1
<1>4. next \in Catalogues /\ next.job = catalogue.job /\ \A n \in Models : next.entries[n] = new(n)
  BY <1>0, <1>3 DEF Catalogues
<1> HIDE DEF next
<1>5. \A n \in Models : Follows(n, next, edited)
  BY <1>0, <1>1, <1>4, QuietFollows
<1> QED
  BY <1>2, <1>4, <1>5

LEMMA ObservedStep ==
  ASSUME PricingAssumption, PricingInv, EnterObserved
  PROVE  PricingInv'
<1>0. check \in Checking \cup {None} /\ checking \in Models \cup {None} /\ observed \in SUBSET Models
  BY Parts DEF PricingTypes
<1>1. /\ check # None /\ check.at = "observe" /\ transaction = None
      /\ UNCHANGED <<worker, checking, observed, serving, edited>>
  BY DEF EnterObserved
<1>2. serving
  BY <1>1, Parts DEF OwnerInv
<1>3. CASE observed # {}
  <2>1. Begins("check", Entered(catalogue, observed)) /\ check' = [check EXCEPT !.seen = observed]
    BY <1>3 DEF EnterObserved
  <2>2. check' \in Checking /\ check' # None /\ check'.at = "observe"
    BY <1>0, <1>1, <2>1 DEF Checking, PricingAssumption
  <2>3. CheckHolds'
    BY <2>2 DEF CheckHolds
  <2>4. LET next == Entered(catalogue, observed) IN
        next \in Catalogues /\ next.job = catalogue.job /\ \A n \in Models : Follows(n, next, edited)
    BY <1>0, EnteredEntries
  <2> QED
    BY <1>1, <2>1, <2>2, <2>3, <2>4, CheckBegins DEF Writing, Reading
<1>4. CASE observed = {}
  <2>1. check' = [check EXCEPT !.at = "select"] /\ UNCHANGED <<catalogue, transaction>>
    BY <1>4 DEF EnterObserved
  <2>2. check' \in Checking /\ check' # None /\ check'.at = "select"
    BY <1>0, <1>1, <2>1 DEF Checking, PricingAssumption
  <2>3. CheckHolds'
    BY <2>2 DEF CheckHolds
  <2> QED
    BY <1>0, <1>1, <1>2, <2>1, <2>2, <2>3, CheckStep DEF Reading
<1> QED
  BY <1>3, <1>4

LEMMA SelectStep ==
  ASSUME PricingAssumption, PricingInv, Select
  PROVE  PricingInv'
<1>0. /\ check \in Checking \cup {None} /\ checking \in Models \cup {None} /\ catalogue \in Catalogues
      /\ edited \in [Models -> Nat] /\ \A n \in Models : Entry(n) = catalogue.entries[n]
  BY Parts DEF PricingTypes, Entry
<1>1. /\ check # None /\ check.at = "select" /\ serving
      /\ UNCHANGED <<catalogue, transaction, worker, observed, serving, edited>>
  BY DEF Select
<1>2. \/ check' = None /\ UNCHANGED checking
      \/ \E m \in {n \in Models : Checkable(n)} :
           /\ checking' = m
           /\ check' = [check EXCEPT !.at = "claiming", !.model = m, !.revision = Entry(m).revision, !.edits = edited[m]]
  BY DEF Select
<1>3. CASE check' = None /\ UNCHANGED checking
  <2>1. CheckHolds'
    BY <1>3 DEF CheckHolds
  <2> QED
    BY <1>0, <1>1, <1>3, <2>1, CheckStep DEF Writing
<1>4. ASSUME NEW m \in Models, Checkable(m), checking' = m,
             check' = [check EXCEPT !.at = "claiming", !.model = m, !.revision = Entry(m).revision, !.edits = edited[m]]
      PROVE  PricingInv'
  <2>1. Entry(m) # None /\ Entry(m).revision \in Nat /\ edited[m] \in Nat
    BY <1>0, <1>4, EntryParts DEF Checkable
  <2>2. PICK r \in Nat, k \in Nat : r = Entry(m).revision /\ k = edited[m]
    BY <2>1
  <2>3. check' = [check EXCEPT !.at = "claiming", !.model = m, !.revision = r, !.edits = k]
    BY <1>4, <2>2
  <2>4. /\ check' \in Checking /\ check' # None /\ check'.model = m /\ check'.revision = r /\ check'.edits = k
    <3>1. check \in Checking
      BY <1>0, <1>1
    <3>2. check' \in Checking
      BY <2>3, <3>1 DEF Checking
    <3>3. check'.model = m /\ check'.revision = r /\ check'.edits = k
      BY <2>3, <3>1 DEF Checking
    <3> QED
      BY <3>2, <3>3 DEF PricingAssumption
  <2>5. CheckHolds'
    BY <1>0, <1>1, <2>1, <2>2, <2>4 DEF CheckHolds, Held
  <2> QED
    BY <1>1, <1>4, <2>4, <2>5, CheckStep DEF Writing
<1> QED
  BY <1>2, <1>3, <1>4

LEMMA ClaimStep ==
  ASSUME PricingAssumption, PricingInv, Claim
  PROVE  PricingInv'
<1>0. /\ check \in Checking \cup {None} /\ catalogue \in Catalogues /\ PricingTypes
      /\ edited \in [Models -> Nat] /\ \A n \in Models : Entry(n) = catalogue.entries[n]
  BY Parts DEF PricingTypes, Entry
<1>1. check # None /\ check.at = "claiming" /\ UNCHANGED <<worker, checking, observed, serving, edited>>
  BY DEF Claim
<1> DEFINE m == check.model
           ok == Unchanged(m, check.revision) /\ Entry(m).price = None
           attempts == IF Entry(m).auto = None THEN 0 ELSE Entry(m).auto.attempts
           a == [status |-> "checking", attempts |-> attempts + 1, wait |-> FALSE]
           marked == [catalogue EXCEPT !.entries[m].auto = a]
           next == IF ok THEN marked ELSE catalogue
<1>2. Begins("check", next) /\ check' = [check EXCEPT !.at = "claim", !.claimed = ok]
  BY DEF Claim
<1>3. check \in Checking /\ m \in Models
  BY <1>0, <1>1, Parts DEF OwnerInv
<1>4. Held(catalogue, edited, m, check.revision, check.edits)
  BY <1>1, Parts DEF CheckHolds
<1>5. Entry(m) # None
  BY <1>0, <1>3, <1>4 DEF Held
<1>6. attempts + 1 \in Nat
  <2>1. Entry(m).auto \in Autos \cup {None}
    BY <1>0, <1>3, <1>5, EntryParts
  <2> QED
    BY <2>1 DEF Autos
<1> HIDE DEF attempts
<1>7. a \in Autos \cup {None}
  BY <1>6 DEF Autos
<1>8. ok \in BOOLEAN
  BY DEF Unchanged
<1> HIDE DEF a, ok
<1>9. marked \in Catalogues /\ marked.job = catalogue.job /\ \A n \in Models : Follows(n, marked, edited)
  BY <1>3, <1>5, <1>7, WithCheck
<1>10. \A n \in Models : Follows(n, catalogue, edited)
  BY <1>0, QuietFollows
<1> HIDE DEF marked
<1>11. next \in Catalogues /\ next.job = catalogue.job /\ \A n \in Models : Follows(n, next, edited)
  BY <1>0, <1>9, <1>10
<1> HIDE DEF next, m
<1>12. /\ check' \in Checking /\ check' # None /\ check'.at = "claim" /\ check'.model = check.model
       /\ check'.revision = check.revision /\ check'.edits = check.edits
  <2>1. check' \in Checking
    BY <1>2, <1>3, <1>8, ClaimedField DEF Checking
  <2>2. /\ check'.at = "claim" /\ check'.model = check.model
        /\ check'.revision = check.revision /\ check'.edits = check.edits
    BY <1>2, <1>3 DEF Checking
  <2> QED
    BY <2>1, <2>2 DEF PricingAssumption
<1>13. UNCHANGED catalogue
  BY <1>2 DEF Begins
<1>14. CheckHolds' /\ check'.model \in Models
  BY <1>1, <1>12, <1>13, Still, CheckOn DEF Reading
<1> QED
  BY <1>1, <1>2, <1>11, <1>12, <1>14, CheckBegins DEF Writing

\* The result of a check goes to the model as it was when its page was read.
LEMMA DecidedEntry ==
  ASSUME PricingAssumption, PricingInv, check # None, check.at = "decide"
  PROVE  LET e == Decided(check.model) IN
         /\ check.model \in Models /\ Entry(check.model) # None
         /\ e \in EntryRecords /\ e # None
         /\ Entry(check.model).revision <= e.revision
         /\ Wins(Entry(check.model), e, edited[check.model])
<1>0. /\ check \in Checking /\ catalogue \in Catalogues /\ PricingTypes /\ check.model \in Models
      /\ \A n \in Models : Entry(n) = catalogue.entries[n]
  BY Parts DEF PricingTypes, Entry, OwnerInv
<1> DEFINE m == check.model
           entry == Entry(m)
           auto == IF entry.auto = None THEN [Queued EXCEPT !.attempts = 1] ELSE entry.auto
           failed == [auto EXCEPT !.status = "failed"]
           waits == [auto EXCEPT !.status = "queued", !.wait = TRUE]
           applied == [auto EXCEPT !.status = "applied"]
           price == Agent(check.edits)
<1>1. Held(catalogue, edited, m, check.revision, check.edits) /\ check.edits \in Nat
  BY <1>0, Parts DEF CheckHolds, Checking
<1>2. entry # None
  BY <1>0, <1>1 DEF Held
<1>3. /\ entry \in EntryRecords /\ entry.revision \in Nat /\ entry.price \in Prices \cup {None}
      /\ entry.ignored \in BOOLEAN /\ entry.auto \in Autos \cup {None}
  BY <1>0, <1>2, EntryParts
<1>4. auto \in Autos
  BY <1>3 DEF Queued, Autos
<1> HIDE DEF auto
<1>5. failed \in Autos \cup {None} /\ waits \in Autos \cup {None} /\ applied \in Autos \cup {None}
  BY <1>4, TriedFields DEF Autos
<1>6. price \in Prices /\ price.edits = check.edits /\ price \in Prices \cup {None}
  BY <1>1 DEF Agent, Prices
<1> DEFINE quiet(a) == [entry EXCEPT !.auto = a]
           found == [entry EXCEPT !.revision = entry.revision + 1, !.price = price, !.auto = applied]
           changed == entry.revision # check.revision
<1>7. \/ Decided(m) = entry \/ Decided(m) = quiet(failed) \/ Decided(m) = quiet(waits)
      \/ Decided(m) = found /\ ~entry.ignored /\ ~changed
  BY DEF Decided, auto
<1> HIDE DEF entry, failed, waits, applied, price
<1>8. ASSUME NEW a \in Autos \cup {None}
      PROVE  quiet(a) \in EntryRecords /\ quiet(a).revision = entry.revision /\ quiet(a).price = entry.price
  BY <1>3, WithAuto
<1>9. /\ found \in EntryRecords /\ found.revision = entry.revision + 1 /\ found.price = price
      /\ found.ignored = entry.ignored
  <2>1. entry.revision + 1 \in Nat
    BY <1>3
  <2>2. entry \in [revision : Nat, source : BOOLEAN, price : Prices \cup {None}, ignored : BOOLEAN,
                   auto : Autos \cup {None}]
    BY <1>3 DEF EntryRecords
  <2> QED
    BY <1>5, <1>6, <2>1, <2>2, FoundFields DEF EntryRecords
<1> HIDE DEF quiet, found
<1>10. ~changed => price.edits = edited[m]
  BY <1>0, <1>1, <1>6 DEF Held, entry
<1>11. Decided(m) \in EntryRecords /\ entry.revision <= Decided(m).revision
  BY <1>3, <1>5, <1>7, <1>8, <1>9
<1>12. Wins(entry, Decided(m), edited[m])
  <2>1. CASE Decided(m) = found /\ ~entry.ignored /\ ~changed
    BY <1>9, <1>10, <2>1 DEF Wins
  <2>2. CASE Decided(m) = entry \/ Decided(m) = quiet(failed) \/ Decided(m) = quiet(waits)
    BY <1>5, <1>8, <2>2 DEF Wins
  <2> QED
    BY <1>7, <2>1, <2>2
<1> QED
  BY <1>0, <1>2, <1>11, <1>12 DEF entry, PricingAssumption

LEMMA DecideStep ==
  ASSUME PricingAssumption, PricingInv, Decide
  PROVE  PricingInv'
<1>0. /\ check \in Checking \cup {None} /\ catalogue \in Catalogues /\ PricingTypes
      /\ \A n \in Models : Entry(n) = catalogue.entries[n]
  BY Parts DEF PricingTypes, Entry
<1>1. check # None /\ check.at = "decide" /\ UNCHANGED <<worker, checking, observed, serving, edited>>
  BY DEF Decide
<1> DEFINE m == check.model
           e == Decided(m)
           next == [catalogue EXCEPT !.entries[m] = e]
<1>2. Begins("check", next) /\ check' = [check EXCEPT !.at = "result"]
  BY DEF Decide
<1>3. /\ m \in Models /\ Entry(m) # None /\ e \in EntryRecords /\ e # None
      /\ Entry(m).revision <= e.revision /\ Wins(Entry(m), e, edited[m])
  BY <1>1, DecidedEntry
<1> HIDE DEF e
<1>4. /\ next \in Catalogues /\ next.job = catalogue.job /\ next.entries[m] = e
      /\ \A n \in Models : n # m => next.entries[n] = Entry(n)
  BY <1>0, <1>3, WithEntry
<1> HIDE DEF next
<1>5. \A n \in Models : Follows(n, next, edited)
  <2> SUFFICES ASSUME NEW n \in Models PROVE Follows(n, next, edited)
    OBVIOUS
  <2>1. Entry(n) # None => Entry(n).revision \in Nat
    BY <1>0, EntryParts
  <2>2. CASE n = m
    BY <1>3, <1>4, <2>2 DEF Follows
  <2>3. CASE n # m
    BY <1>4, <2>1, <2>3 DEF Follows, Wins
  <2> QED
    BY <2>2, <2>3
<1>6. /\ check' \in Checking /\ check' # None /\ check'.at = "result" /\ check'.model = check.model
      /\ check'.revision = check.revision /\ check'.edits = check.edits
  BY <1>0, <1>1, <1>2 DEF Checking, PricingAssumption
<1>7. UNCHANGED catalogue
  BY <1>2 DEF Begins
<1>8. CheckHolds' /\ check'.model \in Models
  BY <1>1, <1>6, <1>7, Still, CheckOn DEF Reading
<1> QED
  BY <1>1, <1>2, <1>4, <1>5, <1>6, <1>8, CheckBegins DEF Writing

-----------------------------------------------------------------------------
(* The store answers, the timer, and the process.                          *)

\* The catalogue goes on while no change is open: what is held of it stays held.
LEMMA Proceeds ==
  ASSUME PricingInv, catalogue' \in Catalogues, edited' \in [Models -> Nat],
         \A m \in Models : Follows(m, catalogue', edited'),
         \/ catalogue'.job = None
         \/ /\ catalogue.job # None /\ catalogue'.job.proposals = catalogue.job.proposals
  PROVE  ProposalsHold(catalogue, edited)'
<1> SUFFICES ASSUME catalogue'.job # None, NEW p \in catalogue'.job.proposals
             PROVE  Held(catalogue', edited', p.model, p.revision, p.edits)
  BY DEF ProposalsHold
<1>1. catalogue.job \in Jobs /\ p \in catalogue.job.proposals /\ catalogue \in Catalogues
  BY Parts
<1>2. p.model \in Models /\ p.revision \in Nat
  BY <1>1 DEF Jobs, Proposals
<1>3. Held(catalogue, edited, p.model, p.revision, p.edits)
  BY <1>1, Parts DEF ProposalsHold, PricingAssumption
<1> QED
  BY <1>1, <1>2, <1>3, HeldOn

LEMMA RetryStep ==
  ASSUME PricingAssumption, PricingInv, NEW m \in Models, RetryDue(m)
  PROVE  PricingInv' /\ \A n \in Models : Follows(n, catalogue', edited')
<1>0. catalogue \in Catalogues /\ PricingTypes /\ \A n \in Models : Entry(n) = catalogue.entries[n]
  BY Parts DEF Entry
<1>1. /\ serving /\ transaction = None /\ Entry(m) # None /\ Entry(m).auto # None
      /\ UNCHANGED <<transaction, worker, check, checking, observed, serving, edited>>
      /\ catalogue' = [catalogue EXCEPT !.entries[m].auto.wait = FALSE]
  BY DEF RetryDue, free
<1>2. Entry(m) \in EntryRecords /\ Entry(m).auto \in Autos
  BY <1>0, <1>1, EntryParts
<1> DEFINE a == [Entry(m).auto EXCEPT !.wait = FALSE]
<1>3. a \in Autos
  BY <1>2 DEF Autos
<1>4. catalogue' = [catalogue EXCEPT !.entries[m].auto = a]
  BY <1>1 DEF Entry
<1> HIDE DEF a
<1>5. catalogue' \in Catalogues /\ catalogue'.job = catalogue.job /\ \A n \in Models : Follows(n, catalogue', edited)
  <2> DEFINE next == [catalogue EXCEPT !.entries[m].auto = a]
  <2>1. a \in Autos \cup {None}
    BY <1>3
  <2>2. next \in Catalogues /\ next.job = catalogue.job /\ \A n \in Models : Follows(n, next, edited)
    BY <1>1, <2>1, WithCheck
  <2>3. catalogue' = next
    BY <1>4
  <2> HIDE DEF next
  <2> QED
    BY <2>2, <2>3
<1>6. \A n \in Models : Follows(n, catalogue', edited')
  BY <1>1, <1>5
<1>7. PricingTypes'
  BY <1>0, <1>1, <1>5 DEF PricingTypes
<1>8. OwnerInv'
  BY <1>1, <1>5, Parts DEF OwnerInv
<1>9. ProposalsHold(catalogue, edited)'
  BY <1>5, <1>6, <1>7, Proceeds DEF PricingTypes
<1>10. WorkerHolds'
  <2>1. CASE worker = None
    BY <1>1, <2>1 DEF WorkerHolds
  <2>2. CASE worker # None
    BY <1>1, <1>5, <1>6, <2>2, WorkerOn, Parts DEF OwnerInv, Asking
  <2> QED
    BY <2>1, <2>2
<1>11. CheckHolds'
  <2>1. CASE check = None
    BY <1>1, <2>1 DEF CheckHolds
  <2>2. CASE check # None
    BY <1>1, <1>5, <1>6, <2>2, CheckOn
  <2> QED
    BY <2>1, <2>2
<1>12. ChangeHolds'
  BY <1>1 DEF ChangeHolds
<1> QED
  BY <1>6, <1>7, <1>8, <1>9, <1>10, <1>11, <1>12 DEF PricingInv

LEMMA SeenStep ==
  ASSUME PricingAssumption, PricingInv, NEW m \in Models, Observe(m)
  PROVE  PricingInv'
<1>1. /\ UNCHANGED <<catalogue, transaction, worker, check, checking, serving, edited>>
      /\ serving /\ observed' = observed \cup {m}
  BY DEF Observe
<1>2. PricingTypes'
  BY <1>1, Parts DEF PricingTypes
<1>3. OwnerInv'
  BY <1>1, Parts DEF OwnerInv
<1> QED
  BY <1>1, <1>2, <1>3, Parts, SameProposals, SameWorker, SameCheck, SameChange DEF PricingInv

LEMMA FailsStep ==
  ASSUME PricingAssumption, PricingInv, CommitFails
  PROVE  PricingInv'
<1>1. /\ transaction # None /\ transaction' = None /\ UNCHANGED <<catalogue, checking, observed, serving, edited>>
      /\ worker' = IF transaction.who # "worker" THEN worker
                   ELSE IF worker.at \in {"starting", "failing"} THEN None ELSE [worker EXCEPT !.at = "saving"]
      /\ check' = IF transaction.who = "check" THEN None ELSE check
  BY DEF CommitFails
<1>2. /\ worker \in Lookup \cup {None} /\ check \in Checking \cup {None} /\ serving
  BY <1>1, Parts DEF PricingTypes, OwnerInv
<1>3. CASE transaction.who = "worker"
  <2>1. worker # None /\ worker.at \in Owning /\ check' = check
    BY <1>1, <1>3, Parts DEF OwnerInv, Owning
  <2>2. CASE worker' = None
    <3>1. PricingTypes' /\ OwnerInv' /\ WorkerHolds' /\ ChangeHolds'
      BY <1>1, <1>2, <2>1, <2>2, Parts DEF PricingTypes, OwnerInv, WorkerHolds, ChangeHolds
    <3> QED
      BY <1>1, <2>1, <3>1, Parts, SameProposals, SameCheck DEF PricingInv
  <2>3. CASE worker.at \notin {"starting", "failing"} /\ worker' = [worker EXCEPT !.at = "saving"]
    <3>1. worker' \in Lookup /\ worker' # None /\ worker'.at = "saving" /\ worker'.left = worker.left
      BY <1>2, <2>1, <2>3 DEF Lookup, PricingAssumption
    <3>2. WorkerHolds'
      BY <1>1, <2>1, <3>1, Still, WorkerOn, Parts DEF OwnerInv, Asking
    <3>3. PricingTypes'
      BY <1>1, <2>1, <3>1, Parts DEF PricingTypes
    <3>4. OwnerInv'
      BY <1>1, <1>2, <2>1, <2>3, <3>1, Parts DEF OwnerInv
    <3>5. ChangeHolds'
      BY <1>1 DEF ChangeHolds
    <3> QED
      BY <1>1, <2>1, <3>2, <3>3, <3>4, <3>5, Parts, SameProposals, SameCheck DEF PricingInv
  <2> QED
    BY <1>1, <1>3, <2>2, <2>3
<1>4. CASE transaction.who # "worker"
  <2>1. /\ worker' = worker /\ check' \in {None, check}
        /\ worker # None => worker.at \notin Owning
    BY <1>1, <1>4, Parts DEF OwnerInv, Owning
  <2>2. PricingTypes'
    BY <1>1, <2>1, Parts DEF PricingTypes
  <2>3. OwnerInv'
    BY <1>1, <1>2, <2>1, Parts DEF OwnerInv, Owning
  <2>4. CheckHolds'
    BY <1>1, <2>1, Parts DEF CheckHolds, Held
  <2>5. ChangeHolds'
    BY <1>1 DEF ChangeHolds
  <2> QED
    BY <1>1, <2>1, <2>2, <2>3, <2>4, <2>5, Parts, SameProposals, SameWorker DEF PricingInv
<1> QED
  BY <1>3, <1>4

\* What a committed change is for those who read the catalogue.
LEMMA Committed ==
  ASSUME PricingAssumption, PricingInv, transaction # None,
         catalogue' = transaction.catalogue, edited' = transaction.edited
  PROVE  /\ catalogue' \in Catalogues /\ edited' \in [Models -> Nat]
         /\ \A m \in Models : Follows(m, catalogue', edited')
         /\ ProposalsHold(catalogue, edited)'
         /\ catalogue.job # None => catalogue'.job # None
<1>1. transaction \in Transactions
  BY DEF PricingInv, PricingTypes
<1>2. catalogue' \in Catalogues /\ edited' \in [Models -> Nat]
  BY <1>1 DEF Transactions
<1>3. /\ \A m \in Models : Follows(m, transaction.catalogue, transaction.edited)
      /\ ProposalsHold(transaction.catalogue, transaction.edited)
      /\ catalogue.job # None => transaction.catalogue.job # None
  BY Parts DEF ChangeHolds
<1>4. ProposalsHold(catalogue', edited')
  BY <1>3
<1> QED
  BY <1>2, <1>3, <1>4 DEF ProposalsHold

LEMMA CommitStep ==
  ASSUME PricingAssumption, PricingInv, Commit
  PROVE  PricingInv' /\ \A m \in Models : Follows(m, catalogue', edited')
<1>1. /\ transaction # None /\ transaction' = None /\ catalogue' = transaction.catalogue /\ edited' = transaction.edited
      /\ UNCHANGED serving
  BY DEF Commit
<1>2. /\ worker \in Lookup \cup {None} /\ check \in Checking \cup {None} /\ serving
      /\ transaction.who \in {"administrator", "worker", "check"}
      /\ checking \in Models \cup {None} /\ observed \in SUBSET Models
  BY <1>1, Parts DEF PricingTypes, OwnerInv, Transactions
<1>3. /\ catalogue' \in Catalogues /\ edited' \in [Models -> Nat]
      /\ \A m \in Models : Follows(m, catalogue', edited')
      /\ ProposalsHold(catalogue, edited)'
      /\ catalogue.job # None => catalogue'.job # None
  BY <1>1, Committed
<1>4. ChangeHolds'
  BY <1>1 DEF ChangeHolds
<1>5. /\ worker' \in Lookup \cup {None} /\ WorkerHolds'
      /\ worker' # None =>
           /\ worker'.at \notin Owning /\ catalogue'.job # None
           /\ worker'.at \in {"fetch", "ask", "answered", "keeping"} => worker'.left # <<>>
           /\ worker'.at = "answered" => worker'.found \in BOOLEAN
  <2>1. CASE transaction.who # "worker"
    <3>1. worker' = worker
      BY <1>2, <2>1 DEF Commit
    <3>2. worker # None => worker.at \notin Owning /\ catalogue.job # None
      BY <2>1, Parts DEF OwnerInv, Owning
    <3>3. CASE worker = None
      BY <3>1, <3>3, <1>2 DEF WorkerHolds
    <3>4. CASE worker # None
      <4>1. worker.at \in Asking => worker.left # <<>>
        BY <3>4, Parts DEF OwnerInv, Asking
      <4>2. WorkerHolds'
        BY <1>3, <3>1, <3>4, <4>1, WorkerOn
      <4> QED
        BY <1>2, <1>3, <3>1, <3>2, <3>4, <4>2, Parts DEF OwnerInv
    <3> QED
      BY <3>3, <3>4
  <2>2. CASE transaction.who = "worker"
    <3>1. worker # None /\ worker.at \in Owning /\ worker \in Lookup /\ worker.left \in Seq(Selected)
      BY <1>1, <1>2, <2>2, LookupParts, Parts DEF OwnerInv, Owning
    <3>2. worker' = IF worker.at = "starting" THEN [worker EXCEPT !.at = "next"]
                    ELSE IF worker.at \in {"completing", "failing"} THEN None
                    ELSE [worker EXCEPT !.at = "next", !.left = Tail(worker.left)]
      BY <2>2 DEF Commit
    <3>3. CASE worker.at = "starting"
      <4>1. worker' \in Lookup /\ worker' # None /\ worker'.at = "next" /\ worker'.left = worker.left
        BY <3>1, <3>2, <3>3 DEF Lookup, PricingAssumption
      <4>2. catalogue'.job # None
        BY <1>1, <3>1, <3>3, Parts DEF OwnerInv
      <4>3. WorkerHolds'
        BY <1>3, <3>1, <3>3, <4>1, WorkerOn DEF Asking
      <4> QED
        BY <4>1, <4>2, <4>3 DEF Owning
    <3>4. CASE worker.at \in {"completing", "failing"}
      BY <3>2, <3>4 DEF WorkerHolds
    <3>5. CASE worker.at = "keeping"
      <4>1. worker.left # <<>> /\ Tail(worker.left) \in Seq(Selected) /\ catalogue.job # None
        BY <3>1, <3>5, LookupParts, Parts DEF OwnerInv
      <4>2. PICK l \in Seq(Selected) : l = Tail(worker.left)
        BY <4>1
      <4>3. worker' = [worker EXCEPT !.at = "next", !.left = l]
        BY <3>2, <3>5, <4>2
      <4>4. worker' \in Lookup /\ worker' # None /\ worker'.at = "next" /\ worker'.left = Tail(worker.left)
        BY <3>1, <4>2, <4>3 DEF Lookup, PricingAssumption, Selected
      <4>5. WorkerHolds'
        BY <1>3, <3>1, <4>1, <4>4, WorkerOn DEF Asking
      <4> QED
        BY <1>3, <4>1, <4>4, <4>5 DEF Owning
    <3> QED
      BY <3>1, <3>3, <3>4, <3>5 DEF Owning
  <2> QED
    BY <2>1, <2>2
<1>6. /\ check' \in Checking \cup {None} /\ CheckHolds'
      /\ check' # None /\ check'.at \in Reading => check'.model \in Models
      /\ checking' \in Models \cup {None} /\ observed' \subseteq observed
  <2>1. CASE transaction.who # "check"
    <3>1. check' = check /\ checking' = checking /\ observed' = observed
      BY <1>2, <2>1 DEF Commit
    <3>2. CASE check = None
      BY <1>2, <3>1, <3>2 DEF CheckHolds
    <3>3. CASE check # None
      BY <1>2, <1>3, <3>1, <3>3, CheckOn
    <3> QED
      BY <3>2, <3>3
  <2>2. CASE transaction.who = "check"
    <3>1. check # None /\ check \in Checking /\ check.at \in Writing
      BY <1>1, <1>2, <2>2, Parts DEF OwnerInv, Writing
    <3>2. /\ check' = IF check.at = "claim" /\ check.claimed THEN [check EXCEPT !.at = "fetch"]
                      ELSE IF check.at \in {"claim", "result"} THEN None
                      ELSE [check EXCEPT !.at = IF check.at = "repair" THEN "observe" ELSE "select"]
          /\ checking' \in {None, checking} /\ observed' \subseteq observed
      BY <2>2 DEF Commit
    <3>3. CASE check' = None
      BY <1>2, <3>2, <3>3 DEF CheckHolds
    <3>4. CASE check.at = "claim" /\ check' = [check EXCEPT !.at = "fetch"]
      <4>1. /\ check' \in Checking /\ check' # None /\ check'.model = check.model
            /\ check'.revision = check.revision /\ check'.edits = check.edits
        BY <3>1, <3>4 DEF Checking, PricingAssumption
      <4>2. CheckHolds' /\ (check'.at \in Reading => check'.model \in Models)
        BY <1>3, <3>1, <3>4, <4>1, CheckOn DEF Reading
      <4> QED
        BY <1>2, <3>2, <4>1, <4>2
    <3>5. CASE \E at \in {"observe", "select"} : check' = [check EXCEPT !.at = at]
      <4>1. check' \in Checking /\ check'.at \in {"observe", "select"}
        BY <3>1, <3>5 DEF Checking
      <4> QED
        BY <1>2, <3>2, <4>1 DEF CheckHolds, Reading
    <3> QED
      BY <3>1, <3>2, <3>3, <3>4, <3>5 DEF Writing
  <2> QED
    BY <2>1, <2>2
<1>7. PricingTypes'
  BY <1>1, <1>2, <1>3, <1>5, <1>6 DEF PricingTypes
<1>8. OwnerInv'
  BY <1>1, <1>2, <1>5, <1>6 DEF OwnerInv, Owning, Reading
<1> QED
  BY <1>3, <1>4, <1>5, <1>6, <1>7, <1>8 DEF PricingInv

LEMMA StopsStep ==
  ASSUME PricingAssumption, PricingInv, PricingStops
  PROVE  PricingInv' /\ \A m \in Models : Follows(m, catalogue', edited')
<1>1. /\ serving' = FALSE /\ transaction' = None /\ worker' = None /\ check' = None /\ checking' = None /\ observed' = {}
  BY DEF PricingStops
<1>2. /\ catalogue' \in Catalogues /\ edited' \in [Models -> Nat]
      /\ \A m \in Models : Follows(m, catalogue', edited')
      /\ ProposalsHold(catalogue, edited)'
  <2>1. CASE UNCHANGED <<catalogue, edited>>
    BY <2>1, Still, Parts, SameProposals
  <2>2. CASE transaction # None /\ catalogue' = transaction.catalogue /\ edited' = transaction.edited
    BY <2>2, Committed
  <2> QED
    BY <2>1, <2>2 DEF PricingStops
<1>3. PricingTypes' /\ OwnerInv' /\ WorkerHolds' /\ CheckHolds' /\ ChangeHolds'
  BY <1>1, <1>2 DEF PricingTypes, OwnerInv, WorkerHolds, CheckHolds, ChangeHolds
<1> QED
  BY <1>2, <1>3 DEF PricingInv

LEMMA StartsStep ==
  ASSUME PricingAssumption, PricingInv, PricingStarts
  PROVE  PricingInv' /\ \A m \in Models : Follows(m, catalogue', edited')
<1>0. /\ catalogue \in Catalogues /\ PricingTypes /\ edited \in [Models -> Nat]
      /\ \A n \in Models : Entry(n) = catalogue.entries[n]
  BY Parts DEF Entry
<1> DEFINE entries == [m \in Models |-> Resumed(Entry(m))]
           job == IF JobRunning(catalogue) THEN [catalogue.job EXCEPT !.status = "interrupted"] ELSE catalogue.job
           next == [entries |-> entries, job |-> job]
<1>1. /\ serving' = TRUE /\ catalogue' = next /\ ~serving
      /\ UNCHANGED <<transaction, worker, check, checking, observed, edited>>
  BY DEF PricingStarts
<1>2. transaction = None /\ worker = None /\ check = None
  BY <1>1, Parts DEF OwnerInv
<1>3. ASSUME NEW m \in Models
      PROVE  /\ Resumed(Entry(m)) \in EntryRecords \cup {None}
             /\ Entry(m) # None => /\ Resumed(Entry(m)) # None /\ Resumed(Entry(m)).revision = Entry(m).revision
                                   /\ Resumed(Entry(m)).price = Entry(m).price
  <2>1. CASE Entry(m) = None
    BY <2>1 DEF Resumed
  <2>2. CASE Entry(m) # None
    <3>1. Entry(m) \in EntryRecords /\ Entry(m).auto \in Autos \cup {None}
      BY <1>0, <2>2, EntryParts
    <3> DEFINE a == [Entry(m).auto EXCEPT !.status = Again(Entry(m).auto)]
               resumed == [Entry(m) EXCEPT !.auto = a]
               dropped == [Entry(m) EXCEPT !.auto = None]
    <3>2. /\ dropped \in EntryRecords /\ dropped # None
          /\ dropped.revision = Entry(m).revision /\ dropped.price = Entry(m).price
      BY <3>1, WithAuto
    <3>3. ASSUME Entry(m).auto # None
          PROVE  /\ resumed \in EntryRecords /\ resumed # None
                 /\ resumed.revision = Entry(m).revision /\ resumed.price = Entry(m).price
      <4>1. Again(Entry(m).auto) \in {"queued", "failed"}
        BY DEF Again
      <4>2. a \in Autos \cup {None}
        BY <3>1, <3>3, <4>1, TriedFields DEF Autos
      <4> HIDE DEF a
      <4> QED
        BY <3>1, <4>2, WithAuto
    <3>4. \/ Resumed(Entry(m)) = Entry(m) \/ Resumed(Entry(m)) = dropped
          \/ Entry(m).auto # None /\ Resumed(Entry(m)) = resumed
      BY <2>2 DEF Resumed
    <3> HIDE DEF dropped, resumed
    <3> QED
      BY <2>2, <3>1, <3>2, <3>3, <3>4
  <2> QED
    BY <2>1, <2>2
<1>4. /\ job \in Jobs \cup {None} /\ (job # None <=> catalogue.job # None)
      /\ job # None => job.proposals = catalogue.job.proposals
  <2>1. CASE catalogue.job = None
    BY <2>1 DEF JobRunning
  <2>2. CASE catalogue.job # None
    <3>1. catalogue.job \in Jobs
      BY <2>2, Parts
    <3>2. [catalogue.job EXCEPT !.status = "interrupted"] \in Jobs
      BY <3>1 DEF Jobs
    <3>3. [catalogue.job EXCEPT !.status = "interrupted"].proposals = catalogue.job.proposals
      BY <3>1 DEF Jobs
    <3> QED
      BY <2>2, <3>1, <3>2, <3>3 DEF PricingAssumption
  <2> QED
    BY <2>1, <2>2
<1> HIDE DEF job
<1>5. entries \in [Models -> EntryRecords \cup {None}] /\ \A m \in Models : entries[m] = Resumed(Entry(m))
  BY <1>3
<1> HIDE DEF entries
<1>6. next \in Catalogues /\ next.entries = entries /\ next.job = job
  BY <1>4, <1>5 DEF Catalogues
<1> HIDE DEF next
<1>7. \A m \in Models : Follows(m, next, edited)
  BY <1>0, <1>3, <1>5, <1>6, QuietFollows
<1>8. catalogue' \in Catalogues /\ \A m \in Models : Follows(m, catalogue', edited')
  BY <1>1, <1>6, <1>7
<1>9. ProposalsHold(catalogue, edited)'
  BY <1>0, <1>1, <1>4, <1>6, <1>8, Proceeds
<1>10. PricingTypes' /\ OwnerInv' /\ WorkerHolds' /\ CheckHolds' /\ ChangeHolds'
  BY <1>0, <1>1, <1>2, <1>8 DEF PricingTypes, OwnerInv, WorkerHolds, CheckHolds, ChangeHolds
<1> QED
  BY <1>8, <1>9, <1>10 DEF PricingInv

-----------------------------------------------------------------------------
(* The theorems.                                                           *)

LEMMA PricingStart == ASSUME PricingAssumption, PricingInit PROVE PricingInv
<1>1. /\ transaction = None /\ worker = None /\ check = None /\ checking = None
      /\ observed = {} /\ serving = TRUE /\ edited = [m \in Models |-> 0]
  BY DEF PricingInit
<1>2. PICK plan \in PricePlans : catalogue = [entries |-> plan.entries, job |-> None]
  BY DEF PricingInit
<1>3. plan.entries \in [Models -> EntryRecords \cup {None}]
  BY DEF PricingAssumption
<1>4. catalogue \in Catalogues /\ catalogue.job = None
  BY <1>2, <1>3 DEF Catalogues
<1>5. edited \in [Models -> Nat] /\ serving \in BOOLEAN
  BY <1>1
<1>6. PricingTypes
  BY <1>1, <1>4, <1>5 DEF PricingTypes
<1> QED
  BY <1>1, <1>4, <1>6 DEF PricingInv, OwnerInv, ProposalsHold, WorkerHolds, CheckHolds, ChangeHolds

LEMMA PricingUnchanged == ASSUME PricingInv, UNCHANGED priceVars PROVE PricingInv'
<1>1. PricingTypes'
  BY Parts DEF PricingTypes, priceVars
<1>2. OwnerInv'
  BY Parts DEF OwnerInv, priceVars
<1> QED
  BY <1>1, <1>2, Parts, SameProposals, SameWorker, SameCheck, SameChange DEF PricingInv, priceVars

\* Every step keeps what is held, and lets every model go on as it may.
LEMMA PricingStep ==
  ASSUME PricingAssumption, PricingInv, [PricingNext]_priceVars
  PROVE  PricingInv' /\ \A m \in Models : Wins(Entry(m), catalogue'.entries[m], edited[m])
<1>1. ASSUME UNCHANGED catalogue
      PROVE  \A m \in Models : Wins(Entry(m), catalogue'.entries[m], edited[m])
  BY <1>1 DEF Wins, Entry
<1>2. CASE UNCHANGED priceVars
  BY <1>1, <1>2, PricingUnchanged DEF priceVars
<1>3. CASE Commit \/ PricingStops \/ PricingStarts
  BY <1>3, CommitStep, StopsStep, StartsStep DEF Follows
<1>4. CASE CommitFails
  BY <1>1, <1>4, FailsStep DEF CommitFails
<1>5. CASE Lookups
  <2>1. CASE NextModel
    BY <1>1, <2>1, NextModelStep DEF NextModel, Begins
  <2>2. CASE Fetched \/ Answer
    BY <1>1, <2>2, FetchedStep DEF Fetched, Answer
  <2>3. CASE KeepProposal
    BY <1>1, <2>3, KeepStep DEF KeepProposal, Begins
  <2>4. CASE LookupFails
    BY <1>1, <2>4, LookupFailsStep DEF LookupFails, Begins
  <2> QED
    BY <1>5, <2>1, <2>2, <2>3, <2>4 DEF Lookups
<1>6. CASE Checks
  <2>1. CASE Schedule \/ CheckFetched \/ CheckAnswer
    BY <1>1, <2>1, CheckReads DEF Schedule, CheckFetched, CheckAnswer
  <2>2. CASE Repair
    BY <1>1, <2>2, RepairStep DEF Repair, Begins
  <2>3. CASE EnterObserved
    BY <1>1, <2>3, ObservedStep DEF EnterObserved, Begins
  <2>4. CASE Select
    BY <1>1, <2>4, SelectStep DEF Select
  <2>5. CASE Claim
    BY <1>1, <2>5, ClaimStep DEF Claim, Begins
  <2>6. CASE Decide
    BY <1>1, <2>6, DecideStep DEF Decide, Begins
  <2> QED
    BY <1>6, <2>1, <2>2, <2>3, <2>4, <2>5, <2>6 DEF Checks
<1>7. ASSUME NEW m \in Models, SetIgnored(m) \/ ApplyProposal(m) \/ Observe(m)
      PROVE  PricingInv' /\ UNCHANGED catalogue
  <2>1. CASE SetIgnored(m)
    BY <2>1, IgnoreStep DEF SetIgnored, Edited
  <2>2. CASE ApplyProposal(m)
    BY <2>2, ApplyStep DEF ApplyProposal, Begins
  <2>3. CASE Observe(m)
    BY <2>3, SeenStep DEF Observe
  <2> QED
    BY <1>7, <2>1, <2>2, <2>3
<1>8. ASSUME NEW m \in Models, RetryDue(m)
      PROVE  PricingInv' /\ \A n \in Models : Wins(Entry(n), catalogue'.entries[n], edited[n])
  BY <1>8, RetryStep DEF Follows
<1>9. ASSUME NEW m \in Models, NEW rates \in BOOLEAN, SaveModel(m, rates)
      PROVE  PricingInv' /\ UNCHANGED catalogue
  BY <1>9, SaveStep DEF SaveModel, Edited
<1>10. ASSUME NEW selected \in {<<m>> : m \in Models} \cup {<<m, n>> : m, n \in Models}, StartLookup(selected)
       PROVE  PricingInv' /\ UNCHANGED catalogue
  <2>1. ASSUME NEW m \in Models, NEW n \in Models PROVE <<m>> \in Seq(Models) /\ <<m, n>> \in Seq(Models)
    OBVIOUS
  <2>2. selected \in Seq(Models)
    <3>1. (\E m \in Models : selected = <<m>>) \/ (\E m, n \in Models : selected = <<m, n>>)
      BY <1>10
    <3>2. ASSUME NEW m \in Models, selected = <<m>> PROVE selected \in Seq(Models)
      BY <2>1, <3>2
    <3>3. ASSUME NEW m \in Models, NEW n \in Models, selected = <<m, n>> PROVE selected \in Seq(Models)
      BY <2>1, <3>3
    <3> QED
      BY <3>1, <3>2, <3>3
  <2> QED
    BY <1>10, <2>2, StartStep DEF StartLookup, Begins
<1> QED
  BY <1>1, <1>2, <1>3, <1>4, <1>5, <1>6, <1>7, <1>8, <1>9, <1>10 DEF PricingNext

\* What the lookup of an administrator, the automatic check and the proposals hold of a model was
\* read at a revision the model had, and is of its present state if the model has that revision
\* still (pricing/service.ts, pricing/discovery.ts: the revision is compared before a price is used).
THEOREM PricingInvariant == PricingSpec => []PricingInv
<1>1. PricingAssumption
  BY PricingHypothesis
<1>2. PricingInit => PricingInv
  BY <1>1, PricingStart
<1>3. PricingInv /\ [PricingNext]_priceVars => PricingInv'
  BY <1>1, PricingStep
<1> QED
  BY <1>2, <1>3, PTL DEF PricingSpec

\* A price the agent found is given to a model only as it was when its page was read: an edit, an
\* ignore or a restore in the minutes of the lookup wins (service.ts apply(), discovery.ts run()).
THEOREM EditsAreHeeded == PricingSpec => EditsWin
<1> DEFINE Heeds == \A m \in Models :
       LET next == catalogue'.entries[m] IN
       (next # None /\ Entry(m) # None /\ next.price # Entry(m).price /\ next.price # None /\ next.price.by = "agent")
         => next.price.edits = edited[m] /\ ~next.ignored
<1>1. PricingAssumption
  BY PricingHypothesis
<1>2. PricingInv /\ [PricingNext]_priceVars => Heeds
  BY <1>1, PricingStep DEF Wins
<1>3. PricingInv /\ [PricingNext]_priceVars => [Heeds]_priceVars
  BY <1>2
<1> QED
  BY <1>3, PricingInvariant, PTL DEF PricingSpec, EditsWin
=============================================================================
