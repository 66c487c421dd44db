----------------------------- MODULE Accounting -----------------------------
(***************************************************************************)
(* UsageAccounting (server/src/store/accounting.ts): what an observation   *)
(* of a client means for the account.  A Codex request is observed several *)
(* times, under a request id, a response id or both, each time with some   *)
(* of its measurements; a Claude counter is sampled, and a sample is       *)
(* charged the increase since the last one.  The operators are pure: they  *)
(* take the memory of the accounting and an observation and return the new *)
(* memory with what must be persisted.                                     *)
(*                                                                         *)
(* Abstractions: the digests that name a request or a sample are injective *)
(* (ids and tuples); one session, one known model, one tariff today and    *)
(* one saved with historical estimates; amounts are small integers.        *)
(***************************************************************************)
EXTENDS Integers, Sequences, FiniteSets

CONSTANTS
  None,
  Keys,       \* what the accounting dedupes by: request, response, event, sample and call ids
  Series,     \* the Claude counters
  Price,      \* the catalogue: [input, output, cached]
  SavedPrice, \* the tariff saved with a historical estimate
  Retention,  \* how long state is kept, in ticks
  DayLength   \* ticks of a day

Day(t) == t \div DayLength

\* retentionCutoff
Cutoff(now) == now - Retention

\* a ?? b
Else(a, b) == IF a # None THEN a ELSE b

\* estimateModelCost for a known model.
Estimate(in, out, cached, price) ==
  LET c == Else(cached, 0) IN
  IF in = None \/ out = None THEN None
  ELSE IF c > in THEN None
  ELSE (in - c) * price.input + out * price.output + c * price.cached

\* The memory of UsageAccounting; None where a map has no entry.
NoMemory == [cumulative |-> [s \in Series |-> None], seen |-> [k \in Keys |-> None],
             identity |-> [k \in Keys |-> None], requests |-> [k \in Keys |-> None]]

\* AccountingResult: what one observation leads to.
Nothing(m) == [memory |-> m, usage |-> None, cumulative |-> None, aliases |-> None,
               before |-> None]

-----------------------------------------------------------------------------
(* Codex requests *)

DedupeKeys(e) == SelectSeq(<<e.request, e.response>>, LAMBDA k : k # None)
KeySet(e) == {e.request, e.response} \ {None}
UsageId(e) == IF DedupeKeys(e) = <<>> THEN e.id ELSE DedupeKeys(e)[1]

\* The identity an id was seen under.
IdentityOf(m, k) ==
  IF m.identity[k] # None THEN m.identity[k] ELSE IF m.seen[k] # None THEN k ELSE None

\* knownId: the first of the ids of e that was seen.
KnownId(m, e) ==
  LET found == SelectSeq(<<UsageId(e)>> \o DedupeKeys(e), LAMBDA k : IdentityOf(m, k) # None)
  IN IF found = <<>> THEN None ELSE IdentityOf(m, found[1])

CostOf(e) == Else(e.cost, Estimate(e.in, e.out, e.cached, Price))
Measured(e) == CostOf(e) # None \/ e.in # None \/ e.out # None

\* (mutant) only the first id of an observation is remembered
RememberFirst(m, e, keys, id) ==
  [m EXCEPT !.seen = [k \in Keys |-> IF k = UsageId(e) THEN e.ts ELSE @[k]],
            !.identity = [k \in Keys |-> IF k = UsageId(e) THEN id ELSE @[k]]]

\* seen.set and usageIdentity.set for the keys of e.
Remember(m, e, keys, id) ==
  [m EXCEPT !.seen = [k \in Keys |-> IF k \in keys THEN e.ts ELSE @[k]],
            !.identity = [k \in Keys |-> IF k \in keys THEN id ELSE @[k]]]

\* A request nobody observed yet.
Observe(m, e) ==
  LET id == UsageId(e)
      row == [id |-> id, source |-> "codex", ts |-> e.ts, keys |-> KeySet(e), cost |-> CostOf(e),
              in |-> e.in, out |-> e.out, cached |-> e.cached, snapshot |-> None,
              origin |-> IF e.cost # None THEN "reported" ELSE "model"]
  IN [Nothing([Remember(m, e, KeySet(e) \cup {id}, id) EXCEPT !.requests[id] = row])
        EXCEPT !.usage = row]

\* (mutant) a legacy cost counts as an estimate
RevisableUnlessReported(row) == row.cost = None \/ row.origin # "reported"

\* A reported or legacy cost is authoritative; an estimate is revised.
Revisable(row) == row.cost = None \/ row.origin \in {"model", "historical_estimate"}

\* The cost of a request after e, whose measurements are now those of `merged'.
Revise(row, merged, e) ==
  IF Revisable(row) /\ e.cost # None THEN [merged EXCEPT !.cost = e.cost, !.origin = "reported"]
  ELSE IF row.origin = "historical_estimate"
  THEN LET again == Estimate(merged.in, merged.out, merged.cached, SavedPrice)
           gained == \/ merged.in # row.in
                     \/ merged.out # row.out
                     \/ merged.cached # row.cached
       IN IF gained /\ again # None THEN [merged EXCEPT !.cost = again] ELSE merged
  ELSE IF Revisable(row)
  THEN [merged EXCEPT !.origin = "model",
                      !.cost = Estimate(merged.in, merged.out, merged.cached, Price)]
  ELSE merged

\* What e adds to a request that is still in memory.
Completed(row, e) ==
  Revise(row, [row EXCEPT !.keys = @ \cup KeySet(e), !.in = Else(@, e.in), !.out = Else(@, e.out),
                          !.cached = Else(@, e.cached)], e)

\* Something else than ids changed.
Changed(old, new) == [new EXCEPT !.keys = old.keys] # old

\* UsageAliasUpdate; `values' holds the measurements, None when only ids are new.
Update(id, keys, values) == [id |-> id, keys |-> keys, values |-> values]

\* A request seen before: ids and measurements it lacked complete it.
Recall(m, e, id) ==
  LET old == m.requests[id]
      new == Completed(old, e)
      fresh == {k \in KeySet(e) : m.identity[k] = None}
      known == Remember(m, e, KeySet(e), id)
      aliases == IF fresh = {} THEN None ELSE Update(id, KeySet(e), None)
  IN IF old = None THEN [Nothing(known) EXCEPT !.aliases = aliases]
     ELSE LET kept == [known EXCEPT !.requests[id] = new] IN
          IF Changed(old, new)
          THEN [Nothing(kept) EXCEPT !.aliases = Update(id, new.keys, new), !.before = old]
          ELSE [Nothing(kept) EXCEPT !.aliases = aliases]

ConsumeRequest(m, e) ==
  LET id == KnownId(m, e) IN
  IF ~Measured(e) /\ (id = None \/ e.cached = None) THEN Nothing(m)
  ELSE IF id = None THEN Observe(m, e) ELSE Recall(m, e, id)

-----------------------------------------------------------------------------
(* Claude counters *)

\* The counter restarted between the last sample and e.
Reset(last, e) ==
  /\ e.start # None
  /\ IF last.start # None THEN e.start > last.start ELSE e.start > last.ts

\* A sample that arrives late, or from before a restart, or that falls
\* without a restart, is not believed.
Stale(last, e) ==
  \/ e.ts < last.ts
  \/ e.start # None /\ last.start # None /\ e.start < last.start
  \/ ~Reset(last, e) /\ e.value < last.value

SampleId(e) == <<e.series, e.delta, e.start, e.ts, e.value>>

\* The usage row a sample is charged with.
Charge(e, amount, snapshot) ==
  [id |-> SampleId(e), source |-> "claude", ts |-> e.ts, keys |-> {}, cost |-> amount,
   in |-> None, out |-> None, cached |-> None, snapshot |-> snapshot, origin |-> "reported"]

\* (mutant) a counter without a baseline is always new
NeverExpired(last, e, now) == FALSE

\* The baseline of a counter that started before the retained history is gone.
Expired(last, e, now) == last = None /\ e.start # None /\ e.start < Cutoff(now)

\* A cumulative sample that is believed.
Advance(m, e, now) ==
  LET last == m.cumulative[e.series]
      first == last = None
      amount == IF first THEN e.value ELSE IF Reset(last, e) THEN e.value ELSE e.value - last.value
      start == IF first \/ e.start # None THEN e.start ELSE last.start
      snapshot == [series |-> e.series, start |-> start, ts |-> e.ts, value |-> e.value]
      advanced == [m EXCEPT !.cumulative[e.series] = snapshot]
      uncharged == Expired(last, e, now) \/ m.seen[SampleId(e)] # None \/ (~first /\ amount = 0)
  IN IF uncharged THEN [Nothing(advanced) EXCEPT !.cumulative = snapshot]
     ELSE [Nothing([advanced EXCEPT !.seen[SampleId(e)] = e.ts])
             EXCEPT !.cumulative = snapshot, !.usage = Charge(e, amount, snapshot)]

ConsumeMetric(m, e, now) ==
  IF e.delta
  THEN IF m.seen[SampleId(e)] # None THEN Nothing(m)
       ELSE [Nothing([m EXCEPT !.seen[SampleId(e)] = e.ts]) EXCEPT !.usage = Charge(e, e.value, None)]
  ELSE LET last == m.cumulative[e.series] IN
       IF last # None /\ Stale(last, e) THEN Nothing(m) ELSE Advance(m, e, now)

-----------------------------------------------------------------------------
Consume(m, e, now) == IF e.kind = "metric" THEN ConsumeMetric(m, e, now) ELSE ConsumeRequest(m, e)

\* prune: what was last touched before the cutoff is forgotten.
Prune(m, before) ==
  LET seen == [k \in Keys |-> IF m.seen[k] # None /\ m.seen[k] < before THEN None ELSE m.seen[k]]
      Old(entry) == entry # None /\ entry.ts < before
  IN [cumulative |-> [s \in Series |-> IF Old(m.cumulative[s]) THEN None ELSE m.cumulative[s]],
      seen |-> seen,
      requests |-> [k \in Keys |-> IF Old(m.requests[k]) THEN None ELSE m.requests[k]],
      identity |-> [k \in Keys |-> IF seen[k] = None THEN None ELSE m.identity[k]]]
=============================================================================
