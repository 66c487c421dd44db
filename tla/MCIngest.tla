------------------------------ MODULE MCIngest ------------------------------
(* Small instances of Ingest for TLC. *)
EXTENDS Ingest

CONSTANTS req, resp, plain, o1, o2, o3, o4, o5, call, o6, o7, s1, s2, s3,
          b1, b2, b3, b4, b5, b6, c1, c2, c3, e1, e2, l1, l2, l3, l4

Request(id, ts, request, response, cost, in, out, cached) ==
  [kind |-> "request", id |-> id, ts |-> ts, request |-> request, response |-> response,
   cost |-> cost, in |-> in, out |-> out, cached |-> cached]

Prices == [input |-> 2, output |-> 3, cached |-> 1]
OldPrices == [input |-> 4, output |-> 1, cached |-> 2]

\* A request whose input is known first, then its output under both ids and
\* again under the response id, then its cached input, then a reported zero;
\* and one without any id.
Partial == Request(o1, 0, req, None, None, 2, None, None)
Complete == Request(o2, 0, req, resp, None, 2, 1, None)
Replay == Request(o3, 1, None, resp, None, 2, 1, None)
CacheOnly == Request(o4, 1, req, resp, None, None, None, 1)
Free == Request(o5, 1, req, None, 0, None, None, None)

Anonymous == Request(plain, 0, None, None, 5, None, None, None)

Row(id, source, origin, keys, cost, in) ==
  [id |-> id, source |-> source, ts |-> 0, keys |-> keys, cost |-> cost, in |-> in, out |-> None,
   cached |-> None, snapshot |-> None, origin |-> origin]

BrainCalls == {Row(call, "brain", "reported", {}, 4, 1)}

\* The request may be known from an older version, without provenance or
\* with an estimate at the price of its time.
NoRows == {{}}
OldRows == {{}, {Row(req, "codex", "legacy", {req}, 7, None)}, {Row(req, "codex", "historical_estimate", {req}, 5, 2)}}
KnownRow == {Row(req, "codex", "model", {req}, None, 2)}

Sample(id, ts, series, delta, start, value, total) ==
  [kind |-> "metric", id |-> id, ts |-> ts, series |-> series, delta |-> delta, start |-> start,
   value |-> value, total |-> total]

\* A request observed again, and under another id, after its first row expired.
Late == Request(o2, 2, req, None, None, 2, 1, None)
Later == Request(o7, 2, req, resp, None, 2, 1, None)

Again == Request(o4, 3, req, None, None, 2, None, None)
CompletedAgain == Request(o5, 3, req, resp, None, None, 1, None)

\* b: one request under two ids, from partial to reported; b4 to b6 each by one
\* observation, under the first id, the second, and both.  c: a counter that
\* says when it started and restarts, one that does not say so, and one that
\* reports increments.  e: a counter that lives longer than its history, one
\* that does not say when it started, and an increment.  l: a request seen late, and
\* again when its first observation is too old.
Exports ==
  (b1 :> <<Partial, Anonymous>>) @@ (b2 :> <<Complete, Replay>>) @@ (b3 :> <<CacheOnly, Free>>)
  @@ (b4 :> <<Partial>>) @@ (b5 :> <<Replay>>) @@ (b6 :> <<Complete>>)
  @@ (c1 :> <<Sample(o1, 1, s1, FALSE, 1, 2, 2), Sample(o2, 1, s2, FALSE, None, 3, 3),
              Sample(o3, 1, s3, TRUE, 1, 3, 3)>>)
  @@ (c2 :> <<Sample(o4, 2, s1, FALSE, 1, 5, 5), Sample(o5, 2, s2, FALSE, None, 1, 4)>>)
  @@ (c3 :> <<Sample(o6, 3, s1, FALSE, 2, 1, 6), Sample(o7, 3, s2, FALSE, None, 4, 7)>>)
  @@ (e1 :> <<Sample(o1, 0, s1, FALSE, 0, 2, 2), Sample(o2, 0, s2, FALSE, None, 3, 3),
              Sample(o3, 1, s3, TRUE, 1, 3, 3)>>)
  @@ (e2 :> <<Sample(o6, 3, s1, FALSE, 0, 6, 6), Sample(o5, 3, s2, FALSE, None, 4, 4)>>)
  @@ (l1 :> <<Late>>) @@ (l2 :> <<Later>>) @@ (l3 :> <<Again>>) @@ (l4 :> <<CompletedAgain>>)

\* Exports that are sent once, and those that may be repeated.
Plan(once, twice, first, passing, stored, failing, crashing) ==
  [now |-> first, ticks |-> passing, rows |-> stored, faults |-> failing, crashes |-> crashing,
   sends |-> [x \in Batches \cup {call} |-> IF x \in twice THEN 2 ELSE IF x \in once THEN 1 ELSE 0]]

Requests == Plan({}, {b1, b2, b3}, 0, 1, OldRows, 0, 1)
Failures == Plan({}, {b4, b2, call}, 0, 1, NoRows, 1, 1)
Metrics == Plan({c2, c3}, {c1}, 0, 3, NoRows, 1, 1)
Expiry == Plan({}, {e1, e2}, 0, 3, {KnownRow}, 0, 1)
Apart == Plan({b5, b6}, {b4}, 0, 1, NoRows, 0, 1)
Forgetting == Plan({b4, l1, l3, l4}, {}, 2, 1, {{}, KnownRow}, 0, 1)

SafetyPlans == {Requests, Failures, Metrics, Expiry, Apart, Forgetting}
RelapsePlans == {Plan({}, {b4, l1}, 0, 3, NoRows, 0, 1)}
LatchedPlans == {Plan({b4, l1, l2}, {}, 0, 3, NoRows, 0, 0)}

Metered == {e \in UNION {ToSet(Exports[b]) : b \in DOMAIN Exports} : e.kind = "metric"}
AllKeys == {SampleId(e) : e \in Metered} \cup {req, resp, plain, call}
RequestKeys == {req, resp, plain, call}

-----------------------------------------------------------------------------
(* The properties of Ingest, by what they are about.                       *)

\* The board says what the database says, before and after a restart.
BoardIsTheDatabase == LiveMatchesStored /\ RestartInvisible

\* An id that was counted adds no row, and what a row says is only improved.
RequestsCountOnce ==
  /\ CountedIdsAddNoRow
  /\ RowsOnlyImprove

\* Counters are charged as their checkpoints say, and never more than they counted.
CountersCountOnce == CheckpointMatchesCharges /\ NeverOvercharged
=============================================================================
