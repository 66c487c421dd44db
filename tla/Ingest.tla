------------------------------- MODULE Ingest -------------------------------
(***************************************************************************)
(* How the dashboard server accounts for telemetry: the ingestion handlers *)
(* (server/src/index.ts), the live state (server/src/store/store.ts), the  *)
(* write queue (server/src/persistence/queue.ts) and the history database  *)
(* (server/src/db.ts).                                                     *)
(*                                                                         *)
(* A handler applies a batch to the live state at once, queues its writes  *)
(* and answers 200 when the queue has written them; the queue stops for    *)
(* good at its first failure and the server answers 503 until it is        *)
(* restarted from the database.  Clients repeat a batch until it is        *)
(* answered 200 and sometimes afterwards.  Handlers, writes, the sweep of  *)
(* the live state, the pruning of the database, the clock, failures and    *)
(* restarts interleave.                                                    *)
(*                                                                         *)
(* Abstractions: time is a number of ticks; one provider and one session,  *)
(* so the per-provider and per-session totals are those of the day; the    *)
(* JSONL export and the pricing observations are left out.                 *)
(***************************************************************************)
EXTENDS Accounting, SequencesExt

CONSTANTS
  Batches, Body,    \* Body[b]: the sequence of observations of an export
  Calls,            \* usage rows of Brain model calls
  SeenLimit,        \* ringSize * 10: how many event ids are remembered
  Plans             \* what is stored at first, and what may happen

ASSUME IngestAssumption ==
  /\ Retention \in Nat \ {0} /\ DayLength \in Nat \ {0} /\ SeenLimit \in Nat \ {0}
  /\ \A plan \in Plans : {plan.now, plan.ticks, plan.faults, plan.crashes} \subseteq Nat

VARIABLES
  now,
  \* the server process
  up,
  memory,        \* Store.accounting
  seenEvents,    \* Store.seenEvents, oldest first
  externalIds,   \* Store.externalUsageIds
  live,          \* the totals of the day the board shows
  queue,         \* PersistenceQueue.pending: the writes not done
  failed,        \* PersistenceQueue.failed
  handler,       \* handler[b]: the request that carries batch b
  \* the database
  rows, checkpoints, events,
  cleaning,      \* the cutoff of a prune that has still to delete checkpoints
  \* history and bounds
  acked,         \* batches answered 200
  expired,       \* the rows retention deleted, in order
  overlooked,    \* requests on the board that the database took for an older one
  forgotten,     \* counters whose baseline expired
  sent,          \* batches and calls sent so far
  sends, faults, crashes, ticks   \* what may still happen

process == <<memory, seenEvents, externalIds, live, queue, failed, handler>>
database == <<rows, checkpoints, events>>
history == <<acked, expired, overlooked, forgotten>>
budgets == <<sent, sends, faults, crashes, ticks>>
vars == <<now, up, process, database, cleaning, history, budgets>>

-----------------------------------------------------------------------------
(* Live totals *)

NoTotals(day) == [day |-> day, cost |-> 0, known |-> 0, unknown |-> 0, in |-> 0, out |-> 0]

AtLeast0(n) == IF n < 0 THEN 0 ELSE n

\* applyUsageToDay: amounts are added to the day the board shows, and to no other.
Apply(totals, ts, cost, in, out, countUnknown, knownChange) ==
  IF Day(ts) # totals.day THEN totals
  ELSE [totals EXCEPT
          !.cost = @ + Else(cost, 0),
          !.unknown = IF cost = None /\ countUnknown THEN @ + 1 ELSE @,
          !.known = AtLeast0(@ + knownChange),
          !.in = @ + Else(in, 0),
          !.out = @ + Else(out, 0)]

One(condition) == IF condition THEN 1 ELSE 0

ApplyUsage(totals, row) ==
  Apply(totals, row.ts, row.cost, row.in, row.out, TRUE, One(row.cost # None))

\* (mutant) a completion counts the whole input again
ApplyCompletionAgain(totals, old, new) ==
  Apply(totals, new.ts, None, new.in, new.out, FALSE, One(new.cost # None) - One(old.cost # None))

\* A completion adds what the request lacked and corrects its cost.
ApplyCompletion(totals, old, new) ==
  LET known == One(new.cost # None) - One(old.cost # None)
      cost == IF new.cost # old.cost THEN Else(new.cost, 0) - Else(old.cost, 0) ELSE None
      added == Apply(totals, new.ts, cost, IF old.in = None THEN new.in ELSE None,
                     IF old.out = None THEN new.out ELSE None, FALSE, known)
  IN IF Day(new.ts) # totals.day THEN totals
     ELSE [added EXCEPT !.unknown = AtLeast0(@ - known)]

\* rolloverDayIfNeeded
Rollover(totals) == IF Day(now) = totals.day THEN totals ELSE NoTotals(Day(now))

-----------------------------------------------------------------------------
(* Ingestion *)

\* The writes one observation queues, in the order its listeners run.
Writes(result, e) ==
  (IF result.usage = None THEN <<>> ELSE <<[op |-> "usage", row |-> result.usage]>>)
  \o (IF result.usage # None \/ result.cumulative = None THEN <<>>
      ELSE <<[op |-> "cumulative", snapshot |-> result.cumulative]>>)
  \o (IF result.aliases = None THEN <<>> ELSE <<[op |-> "aliases", update |-> result.aliases]>>)
  \o (IF e.kind = "metric" THEN <<>> ELSE <<[op |-> "event", id |-> e.id, ts |-> e.ts]>>)

\* What a batch changed so far, s, once the accounting consumed e as well.
Consumed(s, e, result) ==
  LET seen == Append(s.seen, e.id)
      day == Rollover(s.live)
      used == IF result.usage = None THEN day ELSE ApplyUsage(day, result.usage)
      done == IF result.before = None THEN used
              ELSE ApplyCompletion(used, result.before, result.aliases.values)
  IN [memory |-> result.memory, live |-> done, writes |-> s.writes \o Writes(result, e),
      seen |-> IF Len(seen) > SeenLimit THEN Tail(seen) ELSE seen]

\* Store.ingest of one observation.  (TLC evaluates the member of a set once.)
IngestOne(s, e) ==
  IF e.ts < Cutoff(now) \/ e.id \in ToSet(s.seen) THEN s
  ELSE CHOOSE next \in {Consumed(s, e, result) : result \in {Consume(s.memory, e, now)}} : TRUE

IngestMany(batch) ==
  FoldLeft(IngestOne, [memory |-> memory, live |-> live, writes |-> <<>>, seen |-> seenEvents],
           batch)

\* Writes queued after a failure are skipped.
Enqueued(writes) == IF failed THEN <<>> ELSE queue \o writes

NoHandler == [pc |-> "none", ahead |-> 0]

\* A client sends a batch; the ingestion gate lets it in while the queue is healthy.
Send(b) ==
  /\ up /\ ~failed /\ handler[b].pc = "none" /\ sends[b] > 0
  /\ \A i \in DOMAIN Body[b] : Body[b][i].ts <= now
  /\ handler' = [handler EXCEPT ![b].pc = "parsing"]
  /\ sends' = [sends EXCEPT ![b] = @ - 1] /\ sent' = sent \cup {b}
  /\ UNCHANGED <<now, up, memory, seenEvents, externalIds, live, queue, failed, database, cleaning,
                 history, faults, crashes, ticks>>

\* The body is parsed: the batch is applied to the live state, its writes are
\* queued, and the handler waits for all that are queued so far.
Handle(b) ==
  /\ up /\ handler[b].pc = "parsing"
  /\ \E s \in {IngestMany(Body[b])} :
     /\ memory' = s.memory /\ live' = s.live /\ seenEvents' = s.seen
     /\ queue' = Enqueued(s.writes)
     /\ handler' = [handler EXCEPT ![b] = [pc |-> "flushing", ahead |-> Len(Enqueued(s.writes))]]
  /\ UNCHANGED <<now, up, externalIds, failed, database, cleaning, history, budgets>>

\* (mutant) the answer does not wait for the queue
AnswerAtOnce(b) ==
  /\ up /\ handler[b].pc = "flushing"
  /\ handler' = [handler EXCEPT ![b] = NoHandler]
  /\ acked' = IF failed THEN acked ELSE acked \cup {b}
  /\ UNCHANGED <<now, up, memory, seenEvents, externalIds, live, queue, failed, database, cleaning,
                 expired, overlooked, forgotten, budgets>>

\* The writes the handler waited for are over: 200, or 503 after a failure.
Answer(b) ==
  /\ up /\ handler[b].pc = "flushing" /\ handler[b].ahead = 0
  /\ handler' = [handler EXCEPT ![b] = NoHandler]
  /\ acked' = IF failed THEN acked ELSE acked \cup {b}
  /\ UNCHANGED <<now, up, memory, seenEvents, externalIds, live, queue, failed, database, cleaning,
                 expired, overlooked, forgotten, budgets>>

\* A Brain model call is over: its usage is queued, once or more often.
Publish(u) ==
  /\ up /\ u.ts <= now /\ sends[u.id] > 0
  /\ queue' = Enqueued(<<[op |-> "usage", row |-> u]>>)
  /\ sends' = [sends EXCEPT ![u.id] = @ - 1] /\ sent' = sent \cup {u.id}
  /\ UNCHANGED <<now, up, memory, seenEvents, externalIds, live, failed, handler, database, cleaning,
                 history, faults, crashes, ticks>>

-----------------------------------------------------------------------------
(* The queue and the database *)

Find(id) == CHOOSE row \in rows : row.id = id
Stored(id) == \E row \in rows : row.id = id

\* writeCheckpoint: a newer snapshot replaces an older one.
Checkpoint(snapshot) ==
  LET last == checkpoints[snapshot.series] IN
  IF last # None /\ snapshot.ts < last.ts THEN checkpoints
  ELSE [checkpoints EXCEPT ![snapshot.series] = snapshot]

\* (mutant) the checkpoint is not written with the row
RecordUsageAlone(row) ==
  /\ rows' = IF Stored(row.id) THEN rows ELSE rows \cup {row}
  /\ UNCHANGED <<checkpoints, events>>

\* recordUsage: insert unless the id exists, with its checkpoint.
RecordUsage(row) ==
  /\ rows' = IF Stored(row.id) THEN rows ELSE rows \cup {row}
  /\ checkpoints' = IF Stored(row.id) \/ row.snapshot = None THEN checkpoints
                    ELSE Checkpoint(row.snapshot)
  /\ events' = events

\* (mutant) a completion does not keep the ids
MergeLosesKeys(row, update) ==
  LET v == update.values
      revise == v.origin # "legacy" /\ Revisable(row)
  IN IF v = None THEN row
     ELSE [row EXCEPT !.in = Else(@, v.in), !.out = Else(@, v.out), !.cached = Else(@, v.cached),
                      !.cost = IF revise THEN v.cost ELSE Else(@, v.cost),
                      !.origin = IF revise THEN v.origin ELSE @]

\* merge in recordUsageAliases: keys are added, gaps filled, an estimate revised.
Merge(row, update) ==
  LET v == update.values
      keyed == [row EXCEPT !.keys = @ \cup update.keys]
      revise == v.origin # "legacy" /\ Revisable(row)
  IN IF v = None THEN keyed
     ELSE [keyed EXCEPT !.in = Else(@, v.in), !.out = Else(@, v.out), !.cached = Else(@, v.cached),
                        !.cost = IF revise THEN v.cost ELSE Else(@, v.cost),
                        !.origin = IF revise THEN v.origin ELSE @]

RecordAliases(update) ==
  /\ rows' = (rows \ {Find(update.id)}) \cup {Merge(Find(update.id), update)}
  /\ UNCHANGED <<checkpoints, events>>

RecordEvent(write) == events' = events \cup {[id |-> write.id, ts |-> write.ts]} /\ UNCHANGED <<rows, checkpoints>>

RecordCumulative(snapshot) ==
  checkpoints' = Checkpoint(snapshot) /\ UNCHANGED <<rows, events>>

\* What a write does to the database.
Effect(write) ==
  CASE write.op = "usage" -> RecordUsage(write.row)
    [] write.op = "cumulative" -> RecordCumulative(write.snapshot)
    [] write.op = "aliases" -> RecordAliases(write.update)
    [] write.op = "event" -> RecordEvent(write)

\* The canonical row of an alias is missing: the write throws.
Throws(write) == write.op = "aliases" /\ ~Stored(write.update.id)

\* ingestExternalUsage: an inserted Brain row reaches the board.
External(row) ==
  IF row.source = "brain" /\ ~Stored(row.id) /\ row.ts >= Cutoff(now) /\ externalIds[row.id] = None
  THEN /\ externalIds' = [externalIds EXCEPT ![row.id] = row.ts]
       /\ live' = ApplyUsage(Rollover(live), row)
  ELSE UNCHANGED <<externalIds, live>>

\* Nothing is old enough to be forgotten.
Fresh ==
  /\ expired = <<>> /\ \A row \in rows : row.ts >= Cutoff(now)
  /\ \A event \in events : event.ts >= Cutoff(now)
  /\ \A s \in Series : checkpoints[s] # None => checkpoints[s].ts >= Cutoff(now)

\* A request that was forgotten and observed again may find its older row; an
\* inserted row is the one of its request.
Overlooked(row) ==
  IF ~Stored(row.id) THEN overlooked \ {row.id}
  ELSE IF row.source = "codex" /\ ~Fresh THEN overlooked \cup {row.id} ELSE overlooked

\* Counters that lose their baseline.
Forgotten(last, next) == forgotten \cup {s \in Series : last[s] # None /\ next[s] = None}

\* (mutant) handlers that do not wait count down too
ForwardAll(h) == [b \in Batches |-> [h[b] EXCEPT !.ahead = @ - 1]]
Forward(h) == [b \in Batches |-> [h[b] EXCEPT !.ahead = AtLeast0(@ - 1)]]
Released(h) == [b \in Batches |-> [h[b] EXCEPT !.ahead = 0]]

\* The first write of the queue succeeds.
Write ==
  /\ up /\ queue # <<>> /\ ~Throws(Head(queue))
  /\ Effect(Head(queue))
  /\ IF Head(queue).op = "usage"
     THEN External(Head(queue).row) /\ overlooked' = Overlooked(Head(queue).row)
     ELSE UNCHANGED <<externalIds, live, overlooked>>
  /\ queue' = Tail(queue) /\ handler' = Forward(handler)
  /\ UNCHANGED <<now, up, memory, seenEvents, failed, cleaning, acked, expired, forgotten, budgets>>

\* (mutant) the failure is forgotten with the writes that waited
CloseUnnoticed == failed' = failed /\ queue' = <<>> /\ handler' = handler

\* It fails: the queue is closed and skips the rest.
Close == failed' = TRUE /\ queue' = <<>> /\ handler' = Released(handler)

\* The database reports an error, before or after it committed.
WriteFails ==
  /\ up /\ queue # <<>> /\ ~Throws(Head(queue)) /\ faults > 0
  /\ Effect(Head(queue)) \/ UNCHANGED database
  /\ Close /\ faults' = faults - 1
  /\ UNCHANGED <<now, up, memory, seenEvents, externalIds, live, cleaning, history, sent, sends,
                 crashes, ticks>>

WriteThrows ==
  /\ up /\ queue # <<>> /\ Throws(Head(queue))
  /\ Close
  /\ UNCHANGED <<now, up, memory, seenEvents, externalIds, live, database, cleaning, history,
                 budgets>>

-----------------------------------------------------------------------------
(* Time, restarts *)

\* sweep: expired state is forgotten and the day rolls over.
Sweep ==
  /\ up
  /\ memory' = Prune(memory, Cutoff(now))
  /\ externalIds' = [k \in Keys |->
       IF externalIds[k] # None /\ externalIds[k] < Cutoff(now) THEN None ELSE externalIds[k]]
  /\ live' = Rollover(live)
  /\ forgotten' = Forgotten(memory.cumulative, memory'.cumulative)
  /\ UNCHANGED <<now, up, seenEvents, queue, failed, handler, database, cleaning, acked, expired,
                 overlooked, budgets>>

\* History.prune deletes usage and events, and checkpoints by a later statement.
PruneRows ==
  /\ up /\ cleaning = None
  /\ \E row \in rows : row.ts < Cutoff(now)
  /\ rows' = {row \in rows : row.ts >= Cutoff(now)}
  /\ events' = {event \in events : event.ts >= Cutoff(now)}
  /\ expired' = expired \o SetToSeq(rows \ rows')
  /\ cleaning' = Cutoff(now)
  /\ UNCHANGED <<now, up, process, checkpoints, acked, overlooked, forgotten, budgets>>

PruneCheckpoints ==
  /\ up /\ cleaning # None
  /\ checkpoints' = [s \in Series |->
       IF checkpoints[s] # None /\ checkpoints[s].ts < cleaning THEN None ELSE checkpoints[s]]
  /\ cleaning' = None /\ forgotten' = Forgotten(checkpoints, checkpoints')
  /\ UNCHANGED <<now, up, process, rows, events, acked, expired, overlooked, budgets>>

Tick ==
  /\ ticks > 0 /\ ticks' = ticks - 1
  /\ now' = now + 1
  /\ UNCHANGED <<up, process, database, cleaning, history, sent, sends, faults, crashes>>

\* The process stops; what it only had in memory is gone.
Stop ==
  /\ up /\ up' = FALSE
  /\ crashes > 0 \/ failed
  /\ crashes' = IF failed THEN crashes ELSE crashes - 1
  /\ memory' = NoMemory /\ seenEvents' = <<>> /\ externalIds' = [k \in Keys |-> None] /\ live' = NoTotals(0)
  /\ queue' = <<>> /\ failed' = FALSE /\ handler' = [b \in Batches |-> NoHandler]
  /\ cleaning' = None
  /\ UNCHANGED <<now, database, history, sent, sends, faults, ticks>>

\* loadUsageIdentityMap and loadRequestUsage go through the rows in an order of
\* the database, which matters where rows share an id: the last one owns it.
Holders(kept, k) == {row \in kept : k = row.id \/ k \in row.keys}
Orders(kept) ==
  SetToSeqs({row \in kept : \E k \in row.keys : Holders(kept, k) # {row}})
Owner(kept, order, k) ==
  LET shared == SelectSeq(order, LAMBDA row : row \in Holders(kept, k))
  IN IF shared = <<>> THEN CHOOSE row \in Holders(kept, k) : TRUE ELSE Last(shared)

\* The accounting as the restore functions leave it.
Restored(kept, snapshots, first, second) ==
  LET codex == {row \in kept : row.source = "codex"} IN
  [cumulative |-> snapshots,
   identity |-> [k \in Keys |-> IF Holders(kept, k) = {} THEN None ELSE Owner(kept, first, k).id],
   seen |-> [k \in Keys |->
     IF Holders(codex, k) # {} THEN Owner(codex, second, k).ts
     ELSE IF Holders(kept, k) # {} THEN now ELSE None],
   requests |-> [k \in Keys |->
     IF \E row \in codex : row.id = k THEN CHOOSE row \in codex : row.id = k ELSE None]]

\* todayTotals
Sum(f(_), set) == FoldSet(LAMBDA row, total : total + f(row), 0, set)
TodayTotals(day, kept) ==
  LET today == {row \in kept : Day(row.ts) = day}
      Cost(row) == Else(row.cost, 0)
      In(row) == Else(row.in, 0)
      Out(row) == Else(row.out, 0)
      Known(row) == One(row.cost # None)
      Unknown(row) == One(row.cost = None)
  IN [day |-> day, cost |-> Sum(Cost, today), known |-> Sum(Known, today),
      unknown |-> Sum(Unknown, today), in |-> Sum(In, today), out |-> Sum(Out, today)]

\* buildApp: the database is pruned and the live state rebuilt from it.
Start ==
  /\ ~up /\ up' = TRUE
  /\ LET kept == {row \in rows : row.ts >= Cutoff(now)}
         snapshots == [s \in Series |->
           IF checkpoints[s] # None /\ checkpoints[s].ts < Cutoff(now) THEN None ELSE checkpoints[s]]
     IN /\ expired' = expired \o SetToSeq(rows \ kept)
        /\ rows' = kept /\ checkpoints' = snapshots
        /\ events' = {event \in events : event.ts >= Cutoff(now)}
        /\ \E first, second \in Orders(kept) : memory' = Restored(kept, snapshots, first, second)
        /\ externalIds' = [k \in Keys |-> IF Holders(kept, k) = {} THEN None ELSE now]
        /\ forgotten' = Forgotten(checkpoints, snapshots)
        /\ live' = TodayTotals(Day(now), kept)
  /\ UNCHANGED <<now, seenEvents, queue, failed, handler, cleaning, acked, overlooked, budgets>>

-----------------------------------------------------------------------------
Init ==
  /\ \E plan \in Plans :
       /\ now = plan.now /\ ticks = plan.ticks /\ rows \in plan.rows
       /\ sends = plan.sends /\ faults = plan.faults /\ crashes = plan.crashes
  /\ up = FALSE
  /\ memory = NoMemory /\ seenEvents = <<>> /\ externalIds = [k \in Keys |-> None] /\ live = NoTotals(0)
  /\ queue = <<>> /\ failed = FALSE /\ handler = [b \in Batches |-> NoHandler]
  /\ checkpoints = [s \in Series |-> None] /\ events = {}
  /\ cleaning = None /\ sent = {}
  /\ acked = {} /\ expired = <<>> /\ overlooked = {} /\ forgotten = {}

Next ==
  \/ \E b \in Batches : Send(b) \/ Handle(b) \/ Answer(b)
  \/ \E u \in Calls : Publish(u)
  \/ Write \/ WriteFails \/ WriteThrows
  \/ Sweep \/ PruneRows \/ PruneCheckpoints \/ Tick
  \/ Stop \/ Start

Spec == Init /\ [][Next]_vars

\* Clients repeat a batch until it is acknowledged; a server that closed its
\* queue, or stopped, is restarted by its operator.
Repeat(b) == b \notin acked /\ Send(b)
Recover == failed /\ Stop
Fairness ==
  /\ \A b \in Batches : WF_vars(Repeat(b)) /\ WF_vars(Handle(b)) /\ WF_vars(Answer(b))
  /\ WF_vars(Write) /\ WF_vars(WriteThrows) /\ WF_vars(Tick) /\ WF_vars(Recover) /\ WF_vars(Start)

LiveSpec == Spec /\ Fairness

-----------------------------------------------------------------------------
(* Properties *)

\* The types of the state.
TypeOK ==
  /\ now \in Nat /\ up \in BOOLEAN /\ failed \in BOOLEAN
  /\ DOMAIN memory = {"cumulative", "seen", "identity", "requests"}
  /\ memory.seen \in [Keys -> Nat \cup {None}]
  /\ memory.identity \in [Keys -> Keys \cup {None}]
  /\ \A k \in Keys : memory.requests[k] # None => memory.requests[k].id = k
  /\ externalIds \in [Keys -> Nat \cup {None}]
  /\ Len(seenEvents) <= SeenLimit
  /\ live \in [day : Nat, cost : Int, known : Nat, unknown : Nat, in : Nat, out : Nat]
  /\ \A i \in DOMAIN queue : queue[i].op \in {"usage", "cumulative", "aliases", "event"}
  /\ handler \in [Batches -> [pc : {"none", "parsing", "flushing"}, ahead : 0..Len(queue)]]
  /\ \A row \in rows : row.id \in Keys /\ row.keys \subseteq Keys
  /\ \A s \in Series : checkpoints[s] # None => checkpoints[s].series = s
  /\ cleaning \in Int \cup {None}
  /\ acked \subseteq Batches

Drained == up /\ ~failed /\ queue = <<>>

\* When every write is done the board shows what the database holds for the
\* day, whatever completions, late observations, replays, Brain calls, a
\* rollover and restarts led there; and beside it what it knows of a request
\* that was forgotten and observed again while its expired row was stored.
LiveMatchesStored ==
  Drained /\ live.day = Day(now) =>
    live = TodayTotals(live.day, rows \cup ({memory.requests[k] : k \in overlooked} \ {None}))

\* When every write is done, and nothing is old enough to be forgotten, a
\* restart would change nothing for the accounting: the same ids are known, as
\* those of a request that holds them, with the same measurements and counters.
RestartInvisible ==
  Drained /\ Fresh =>
    /\ memory.cumulative = checkpoints
    /\ \A k \in Keys \ {u.id : u \in Calls} :
         /\ memory.requests[k] = IF Stored(k) /\ Find(k).source = "codex" THEN Find(k) ELSE None
         /\ LET known == {row.id : row \in Holders(rows, k)} IN
            IF known = {} THEN IdentityOf(memory, k) = None ELSE IdentityOf(memory, k) \in known

\* A cost somebody reported, or of an older version that did not say.
Authoritative(row) == row.cost # None /\ row.origin \in {"reported", "legacy"}

Holds(row, e) ==
  /\ e.in # None => row.in # None
  /\ e.out # None => row.out # None
  /\ e.cached # None => row.cached # None
  /\ e.cost # None => Authoritative(row)

\* The row of a request says what an observation measured, or is too old to be
\* kept.
Covers(row, e) ==
  /\ ({UsageId(e)} \cup KeySet(e)) \cap ({row.id} \cup row.keys) # {}
  /\ row.ts < Cutoff(now) \/ row.id \in overlooked \/ Holds(row, e)

\* The checkpoint is past the sample, or holds more.
Passed(last, e) ==
  /\ last # None
  /\ last.ts >= e.ts \/ last.value >= e.value

\* What a client was told is stored is in the database for as long as it is
\* retained: the event, its measurements in the row of the request (which goes
\* by the age of its first observation), its sample in the counter.
AckedIsStored ==
  \A b \in acked : \A e \in ToSet(Body[b]) : e.ts >= Cutoff(now) =>
    /\ e.kind # "metric" => \E event \in events : event.id = e.id
    /\ e.kind = "request" /\ Measured(e) => \E row \in rows \cup ToSet(expired) : Covers(row, e)
    /\ e.kind = "metric" /\ e.delta => Stored(SampleId(e))
    /\ e.kind = "metric" /\ ~e.delta => Passed(checkpoints[e.series], e)

\* An observation under an id that a stored row carries adds no row, whatever
\* came between; unless something is old enough to be forgotten.
CountedIdsAddNoRow ==
  [][Fresh => \A row \in rows' :
       ~Stored(row.id) => \A k \in {row.id} \cup row.keys : Holders(rows, k) = {}]_rows

\* The counter does not say when it started, and its baseline expired: a client
\* that goes on with it is charged its total again.
Unfounded(s) ==
  /\ s \in forgotten
  /\ \E b \in Batches : \E e \in ToSet(Body[b]) :
       e.kind = "metric" /\ e.series = s /\ e.start = None

\* A usage delta and its checkpoint commit together: until rows expire those
\* since the counter last restarted add up to the checkpoint, at every moment.
\* (A counter older than the history is taken up without a charge, one that
\* does not say when it started with its total.)
CheckpointMatchesCharges ==
  expired = <<>> => \A s \in {c \in Series : ~Unfounded(c)} :
    LET Recent == checkpoints[s].start = None \/ checkpoints[s].start >= Cutoff(now)
        Epoch(row) == /\ row.snapshot # None
                      /\ row.snapshot.series = s /\ row.snapshot.start = checkpoints[s].start
        Cost(row) == row.cost
    IN checkpoints[s] # None /\ Recent =>
         Sum(Cost, {row \in rows : Epoch(row)}) = checkpoints[s].value

\* A counter is never charged more than it had counted by the latest sample
\* sent, over lost, late and repeated samples, restarts of the client and of
\* the server, and the expiry of what is remembered; except one that does not
\* say when it started and outlives its baseline.  (`total' of a sample
\* is what the client had consumed when it was taken.)
NeverOvercharged ==
  \A s \in {c \in Series : ~Unfounded(c)} :
    LET Mine(row) == row.source = "claude" /\ row.id[1] = s
        Cost(row) == row.cost
        past == SelectSeq(expired, Mine)
        stored == {row \in rows : Mine(row)}
        samples == {e \in UNION {ToSet(Body[b]) : b \in sent \cap Batches} :
                      e.kind = "metric" /\ e.series = s}
    IN past # <<>> \/ stored # {} =>
         \E e \in samples :
           FoldLeft(LAMBDA n, row : n + row.cost, Sum(Cost, stored), past) <= e.total

\* What a row says is authoritative stays: measurements are only filled in,
\* a reported or legacy cost never changes, the time of a request is that of
\* its first observation.
RowsOnlyImprove ==
  [][\A row \in rows, after \in rows' : row.id = after.id =>
       /\ row.in \in {None, after.in} /\ row.out \in {None, after.out}
       /\ row.cached \in {None, after.cached}
       /\ Authoritative(row) => row.cost = after.cost
       /\ row.ts = after.ts /\ row.keys \subseteq after.keys]_rows

\* TELEMETRY.md: within retention, late exports and request aliases remain
\* deduplicated: an observation that was acknowledged never creates a row
\* when it is repeated.
ReplayNeverRecharges ==
  [][\A b \in acked : \A i \in DOMAIN Body[b] : LET e == Body[b][i] IN
       e.kind = "request" => ~\E row \in rows' :
         row.id = UsageId(e) /\ row.ts = e.ts /\ ~Stored(row.id)]_rows

\* db.ts: the canonical usage is persisted before its aliases.
CanonicalBeforeAliases == queue # <<>> => ~Throws(Head(queue))

\* Every batch is acknowledged in the end, if the server is restarted after
\* a failure.
EventuallyAcked == <>(acked = Batches)
=============================================================================
