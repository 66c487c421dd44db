------------------------------- MODULE Reports -------------------------------
(***************************************************************************)
(* The usage reports (server/src/db.ts: trendsReport, trends; server/src/  *)
(* trends): a period is resolved to calendar days, and one query per       *)
(* figure reads the history within it, for everybody, a team or a person.  *)
(* With PostgreSQL the queries of a report run beside each other and       *)
(* beside commits and the hourly retention cleanup, so each may see        *)
(* another state of the history; with SQLite they see the same one.        *)
(*                                                                         *)
(* Bounds: LastTick, one change of the history during a report.            *)
(*                                                                         *)
(* Abstractions: a time is a number of ticks, and Midnight tells where the *)
(* days begin, which are not all of one length; the clock position that a  *)
(* change of the clock skips is the end of its day.  Tokens and cache are  *)
(* summed like costs and left out.  The two observations of a prompt carry *)
(* the same prompt: how they are paired is in Sessions.  The bounds of 90  *)
(* days and of 7 days in a week are constants.                             *)
(***************************************************************************)
EXTENDS Integers, FiniteSets, Sequences, FiniteSetsExt

CONSTANTS
  Midnight,      \* the ticks at which the days 1, 2, ... begin
  Hour,          \* ticks of an hour
  MonthStart,    \* the first day of the month
  MaxDays,       \* 90
  WeeksFrom,     \* periods of more days than this are shown in weeks
  WeekLength,    \* days of a week
  RetentionTime, \* ticks that rows are kept
  Pair,          \* PROMPT_PAIR_WINDOW_MS
  LastTick,      \* bound of now
  Aliases,       \* legacyTeamAliases: names of older records to teams
  ReportPlans,   \* records of a backend, the rows to come, the queries, the days of trends and a bound of reports
  None

VARIABLES
  plan,          \* the element of ReportPlans
  time,          \* now
  history,       \* rows of usage and of prompts
  gone,          \* rows that were pruned
  asked,         \* None, or the query of a report under way and the rows that were gone before it
  states,        \* the states of the history since the report was asked for
  report,        \* None or the last report
  reportsLeft

reportVars == <<plan, time, history, gone, asked, states, report, reportsLeft>>

Smaller(a, b) == IF a < b THEN a ELSE b

-----------------------------------------------------------------------------
(* The calendar.                                                           *)

Days == 1..(Len(Midnight) - 1)
DayOf(t) == CHOOSE d \in Days : Midnight[d] <= t /\ t < Midnight[d + 1]

\* The same clock position n days later.
ShiftDays(t, n) ==
  LET d == DayOf(t) + n
  IN Midnight[d] + Smaller(t - Midnight[DayOf(t)], Midnight[d + 1] - Midnight[d])

Interval(a, b) == [start |-> a, end |-> b]
Within(t, interval) == interval.start <= t /\ t < interval.end

FirstDay(q) == CASE q.period = "custom" -> q.from
                 [] q.period = "month" -> MonthStart
                 [] OTHER -> DayOf(time) - (q.days - 1)
LastDay(q) == IF q.period = "custom" THEN q.to ELSE DayOf(time)
DayCount(q) == LastDay(q) - FirstDay(q) + 1

\* What resolveTrendsRange does not refuse.
Accepts(q) == LastDay(q) <= DayOf(time) /\ DayCount(q) \in 1..MaxDays

PeriodEnd(q) == Smaller(time, Midnight[LastDay(q) + 1])
Period(q) == Interval(Midnight[FirstDay(q)], PeriodEnd(q))

\* Mutant: the comparison ends one duration, instead of the same clock position, earlier.
PreviousByDuration(q) ==
  LET p == Period(q) IN Interval(Max({0, p.start - (p.end - p.start)}), p.start)

Previous(q) ==
  LET p == Period(q)
  IN Interval(Midnight[FirstDay(q) - DayCount(q)], Smaller(p.start, ShiftDays(p.end, -DayCount(q))))

\* Mutant: every day has the length of the first one.
DaysOfOneLength(q) ==
  LET p == Period(q)  length == Midnight[2] - Midnight[1]
  IN [i \in 1..DayCount(q) |->
        Interval(p.start + (i - 1) * length, Smaller(p.end, p.start + i * length))]

DaysOf(q) ==
  [i \in 1..DayCount(q) |->
     Interval(Midnight[FirstDay(q) + i - 1], Smaller(PeriodEnd(q), Midnight[FirstDay(q) + i]))]

\* One interval per hour, of which the last may be cut short and the only one empty.
HoursOf(q) ==
  LET p == Period(q)  hours == Max({1, (p.end - p.start + Hour - 1) \div Hour})
  IN [i \in 1..hours |-> Interval(p.start + (i - 1) * Hour, Smaller(p.end, p.start + i * Hour))]

WeeksOf(q) ==
  LET days == DaysOf(q)  weeks == (Len(days) + WeekLength - 1) \div WeekLength
  IN [i \in 1..weeks |-> Interval(days[(i - 1) * WeekLength + 1].start,
                                  days[Smaller(i * WeekLength, Len(days))].end)]

BucketsOf(q) == IF DayCount(q) = 1 THEN HoursOf(q)
                ELSE IF DayCount(q) > WeeksFrom THEN WeeksOf(q) ELSE DaysOf(q)

-----------------------------------------------------------------------------
(* Whom a row belongs to, and which rows a query reads.                    *)

TeamsOf(r) ==
  IF r.teams # None THEN (IF r.teams = {} THEN {"unassigned"} ELSE r.teams)
  ELSE IF r.teamId = None THEN {"unassigned"}
  ELSE {IF r.teamId \in DOMAIN Aliases THEN Aliases[r.teamId] ELSE r.teamId}
PeopleOf(r) == {IF r.person = None THEN "unassigned" ELSE r.person}

Matches(r, q) == /\ q.person = None \/ q.person \in PeopleOf(r)
                 /\ q.team = None \/ q.team \in TeamsOf(r)

Scope(rows, q, interval) == {r \in rows : Within(r.ts, interval) /\ Matches(r, q)}

TeamGroups == [r \in plan.rows |-> TeamsOf(r)]
PeopleGroups == [r \in plan.rows |-> PeopleOf(r)]
ModelGroups == [r \in plan.rows |-> {r.model}]

UsageOf(rows) == {r \in rows : r.prompt = None}

\* The rows of a query, summed.
Figures(rows) ==
  LET usage == UsageOf(rows)
  IN [usage |-> Cardinality(usage),
      cost |-> MapThenSumSet(LAMBDA r : IF r.cost = None THEN 0 ELSE r.cost, usage),
      known |-> Cardinality({r \in usage : r.cost # None}),
      unknown |-> Cardinality({r \in usage : r.cost = None /\ ~r.tokensOnly}),
      sessions |-> Cardinality({<<r.provider, r.session>> : r \in {x \in rows : x.session # None}})]

IntervalOf(t, intervals) == Min({i \in DOMAIN intervals : t < intervals[i].end})

Series(rows, q, intervals) ==
  LET scope == Scope(rows, q, Interval(intervals[1].start, intervals[Len(intervals)].end))
  IN [i \in DOMAIN intervals |-> Figures({r \in scope : IntervalOf(r.ts, intervals) = i})]

\* groups: the teams, people or models that each row counts for.
GroupTotals(rows, q, interval, groups) ==
  LET scope == Scope(rows, q, interval)
  IN [g \in UNION {groups[r] : r \in scope} |-> Figures({r \in scope : g \in groups[r]})]

\* A prompt is at the time of its first observation, and belongs to whom that belongs to.
\* Mutant: every observation is a prompt.
EveryObservation(rows) == {r \in rows : r.prompt # None}

PromptsOf(rows) ==
  {r \in rows : /\ r.prompt # None
                /\ \A x \in rows : x.prompt = r.prompt => r.ts < x.ts \/ (r.ts = x.ts /\ r.id <= x.id)}

Loaded(rows, q) ==
  {r \in rows : r.prompt # None /\ r.ts >= Previous(q).start - Pair
                /\ r.ts < Smaller(time, PeriodEnd(q) + Pair)}

CountedPrompts(rows, q, interval) == Scope(PromptsOf(Loaded(rows, q)), q, interval)

PromptsIn(rows, q, intervals) ==
  [i \in DOMAIN intervals |-> Cardinality(CountedPrompts(rows, q, intervals[i]))]

PromptsBy(rows, q, interval, groups) ==
  LET counted == CountedPrompts(rows, q, interval)
  IN [g \in UNION {groups[r] : r \in counted} |-> Cardinality({r \in counted : g \in groups[r]})]

\* Mutant: whatever is there is complete.
CompleteIfAny(rows, since) == rows # {}

\* The rows of a period are all there when it is retained and something older was observed.
CompleteSince(rows, since) ==
  /\ rows # {} /\ Min({r.ts : r \in rows}) <= since
  /\ since >= time - RetentionTime

-----------------------------------------------------------------------------
Init ==
  /\ plan \in ReportPlans /\ time = Midnight[plan.day] /\ history = {} /\ gone = {}
  /\ asked = None /\ states = {} /\ report = None /\ reportsLeft = plan.reports

\* With SQLite the queries of a report are one step; with PostgreSQL the history may change.
MayChange == asked = None \/ (plan.backend = "postgres" /\ Cardinality(states) = 1)

\* Rows may be committed long after their time.
Commit(r) ==
  /\ MayChange
  /\ r \in plan.rows \ (history \cup gone) /\ r.ts <= time
  /\ history' = history \cup {r}
  /\ states' = IF asked = None THEN {} ELSE states \cup {history'}
  /\ UNCHANGED <<plan, time, gone, asked, report, reportsLeft>>

\* prune
Prune ==
  /\ MayChange
  /\ history' = {r \in history : r.ts >= time - RetentionTime} /\ history' # history
  /\ gone' = gone \cup (history \ history')
  /\ states' = IF asked = None THEN {} ELSE states \cup {history'}
  /\ UNCHANGED <<plan, time, asked, report, reportsLeft>>

Tick ==
  /\ asked = None /\ time < LastTick
  /\ time' = time + 1
  /\ UNCHANGED <<plan, history, gone, asked, states, report, reportsLeft>>

Ask(q) ==
  /\ asked = None /\ reportsLeft > 0 /\ Accepts(q)
  /\ asked' = [query |-> q, gone |-> gone] /\ states' = {history}
  /\ reportsLeft' = reportsLeft - 1
  /\ UNCHANGED <<plan, time, history, gone, report>>

\* Each query has seen one of the states since the report was asked for.
Parts == {"series", "previous", "groups", "prompts", "coverage"}

TrendsReport(q, seen) ==
  [query |-> q, gone |-> asked.gone, quiet |-> Cardinality(states) = 1,
   period |-> Period(q), previousPeriod |-> Previous(q),
   summary |-> Series(seen["series"], q, <<Period(q)>>)[1],
   previous |-> Series(seen["previous"], q, <<Previous(q)>>)[1],
   days |-> Series(seen["series"], q, DaysOf(q)),
   buckets |-> Series(seen["series"], q, BucketsOf(q)),
   models |-> GroupTotals(UsageOf(seen["groups"]), q, Period(q), ModelGroups),
   teams |-> GroupTotals(seen["groups"], q, Period(q), TeamGroups),
   people |-> GroupTotals(seen["groups"], q, Period(q), PeopleGroups),
   previousPeople |-> GroupTotals(seen["previous"], q, Previous(q), PeopleGroups),
   prompts |-> PromptsIn(seen["prompts"], q, <<Period(q), Previous(q)>>),
   dayPrompts |-> PromptsIn(seen["prompts"], q, DaysOf(q)),
   bucketPrompts |-> PromptsIn(seen["prompts"], q, BucketsOf(q)),
   peoplePrompts |-> PromptsBy(seen["prompts"], q, Period(q), PeopleGroups),
   teamPrompts |-> PromptsBy(seen["prompts"], q, Period(q), TeamGroups),
   complete |-> CompleteSince(seen["coverage"], Period(q).start)]

Answer(seen) ==
  /\ asked # None
  /\ report' = TrendsReport(asked.query, seen)
  /\ asked' = None /\ states' = {}
  /\ UNCHANGED <<plan, time, history, gone, reportsLeft>>

Next ==
  \/ \E r \in plan.rows : Commit(r)
  \/ Prune \/ Tick
  \/ \E q \in plan.queries : Ask(q)
  \/ \E seen \in [Parts -> states] : Answer(seen)

Spec == Init /\ [][Next]_reportVars

-----------------------------------------------------------------------------
(* The older report of whole days (trends): no filter, sessions of events. *)

TrendsDays(n) == [i \in 1..n |-> LET d == DayOf(time) - (n - i) IN Interval(Midnight[d], Midnight[d + 1])]
Trends(n) ==
  LET everybody == [person |-> None, team |-> None]
      days == TrendsDays(n)
      whole == Interval(days[1].start, days[n].end)
      prompts == PromptsOf({r \in history : r.prompt # None /\ r.ts >= whole.start - Pair})
  IN [days |-> Series(history, everybody, days),
      prompts |-> [i \in 1..n |-> Cardinality({r \in prompts : Within(r.ts, days[i])})],
      teams |-> GroupTotals(UsageOf(history), everybody, whole, TeamGroups)]

-----------------------------------------------------------------------------
TypeOK == /\ history \subseteq plan.rows /\ gone \subseteq plan.rows /\ history \cap gone = {}
          /\ (asked = None) = (states = {})

Total(f, field) == MapThenSumSet(LAMBDA i : f[i][field], DOMAIN f)
Count(f) == MapThenSumSet(LAMBDA i : f[i], DOMAIN f)
Additive == {"usage", "cost", "known", "unknown"}

\* A report during which nothing changed adds up: its days, its hours or weeks, its models and
\* its people each make the whole, a team has no more than the whole and the selected one has
\* all of it, and no prompt is counted twice or in no day (resolveTrendsRange, reportSeries,
\* audienceTotals, the pairing of prompts across the ends of the period).
FiguresAgree ==
  report # None /\ report.quiet =>
    /\ \A field \in Additive :
         {Total(report.days, field), Total(report.buckets, field),
          Total(report.models, field), Total(report.people, field)} = {report.summary[field]}
    /\ \A field \in Additive : Total(report.previousPeople, field) = report.previous[field]
    /\ \A t \in DOMAIN report.teams : \A field \in Additive \cup {"sessions"} :
         /\ report.teams[t][field] <= report.summary[field]
         /\ t = report.query.team => report.teams[t][field] = report.summary[field]
    /\ {Count(report.dayPrompts), Count(report.bucketPrompts), Count(report.peoplePrompts)}
       = {report.prompts[1]}
    /\ \A t \in DOMAIN report.teamPrompts :
         /\ report.teamPrompts[t] <= report.prompts[1]
         /\ t = report.query.team => report.teamPrompts[t] = report.prompts[1]
    /\ report.prompts[1] + report.prompts[2] <= Cardinality({r.prompt : r \in EveryObservation(plan.rows)})

\* A report is compared with as many calendar days before it, which touch it when its days are
\* over and never reach into it, whatever the lengths of the days (previousEnd).
PeriodsAdjoin ==
  report # None =>
    LET p == report.period  b == report.previousPeriod
    IN /\ b.end <= p.start /\ b.start <= b.end
       /\ DayOf(p.start) = DayOf(b.start) + Len(report.days)
       /\ p.end = Midnight[DayOf(p.start) + Len(report.days)] => b.end = p.start

\* A period that is reported as complete had lost no row to the retention cleanup when the
\* report was asked for, in whatever order rows arrive and are pruned (isComplete, prune).
CompleteIsWhole ==
  report # None /\ report.complete => \A r \in report.gone : ~Within(r.ts, report.period)

\* The two reports of the same days agree on what both show (trends, trendsReport).
ReportsMatch ==
  asked # None /\ asked.query.period = "days" /\ asked.query.team = None /\ asked.query.person = None =>
    LET older == Trends(asked.query.days)  q == asked.query
        Counted(f) == [field \in Additive |-> f[field]]
        past == {r \in history : r.ts < time}
    IN history = past =>
         /\ \A i \in 1..q.days : Counted(older.days[i]) = Counted(Series(history, q, DaysOf(q))[i])
         /\ older.prompts = PromptsIn(history, q, DaysOf(q))
         /\ \A t \in DOMAIN older.teams :
              Counted(older.teams[t]) = Counted(GroupTotals(history, q, Period(q), TeamGroups)[t])
=============================================================================
