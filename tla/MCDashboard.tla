---------------------------- MODULE MCDashboard ----------------------------
(***************************************************************************)
(* The parts of the dashboard around the accounting on one model checker   *)
(* run: accounts, projects, the live board with its feed, the applications *)
(* that share a history, the reports on it, the programs that move it, the *)
(* pages that poll, and the submission of a local change.  They share no   *)
(* state, so a behaviour is one of one part, chosen at the start; the      *)
(* other parts stay as they are.                                           *)
(***************************************************************************)
EXTENDS Access, Registry, Lifecycle, Submission, Migration, Pages, TLC

CONSTANTS
  \* model values
  anna, bert, team1, team2, red, blue, token,
  repo1, repo2, project1, project2, project3, hubA, hubB, elsewhere,
  main, child, appA, appB, appC,
  person, session1, session2, desk, laptop, rec1, rec2, file1, file2, doc1, doc2

VARIABLES
  part,
  script, now, hooksDone, logsLeft, past, board, endedSessions, stoppedTurns, prompts, seen, missed, left,
  reportPlan, time, history, gone, asked, states, report, reportsLeft

-----------------------------------------------------------------------------
(* Accounts: two records of an older release, one with a team; or an       *)
(* account and a team of today.                                            *)

AccessBudget == [teams |-> 2, accounts |-> 2, requests |-> 1, restarts |-> 1]
OlderAccount(name) == [teams |-> None, enabled |-> TRUE, legacy |-> name]
MCAccessPlans ==
  {[accounts |-> anna :> OlderAccount(red) @@ bert :> OlderAccount(None),
    teams |-> team1 :> None @@ team2 :> None, left |-> AccessBudget],
   [accounts |-> anna :> [teams |-> {team1}, enabled |-> TRUE, legacy |-> None] @@ bert :> None,
    teams |-> team1 :> red @@ team2 :> None, left |-> AccessBudget]}

-----------------------------------------------------------------------------
(* Projects: a historical one with its repository, one beside a repository *)
(* without project, two repositories of which one has none, and two        *)
(* aliases of one project, historical or missing.                          *)

Repository(remote, p) == [remote |-> remote, project |-> p, enabled |-> TRUE]
RegistryBudget(s, c, r) == [saves |-> s, checks |-> c, restarts |-> r]
MCRegistryPlans ==
  {[registered |-> repo1 :> Repository(elsewhere, project1) @@ repo2 :> None,
    file |-> {project1}, left |-> RegistryBudget(2, 1, 1)],
   [registered |-> repo1 :> Repository(hubA, None) @@ repo2 :> None,
    file |-> {project1}, left |-> RegistryBudget(2, 2, 1)],
   [registered |-> repo1 :> Repository(hubA, project1) @@ repo2 :> Repository(elsewhere, None),
    file |-> {}, left |-> RegistryBudget(2, 2, 1)]}
  \cup {[registered |-> repo1 :> Repository(hubA, project1) @@ repo2 :> Repository(elsewhere, project1),
          file |-> f, left |-> RegistryBudget(2, 1, 1)] : f \in {{}, {project1}}}

-----------------------------------------------------------------------------
(* The live board: two prompts without ids, their turns and the end; three *)
(* prompts of which two have ids and one no hook; a subagent.              *)

Report(s, kind, ts, id, parent, real) ==
  [session |-> s, kind |-> kind, ts |-> ts, prompt |-> id, parent |-> parent, real |-> real]
Event(kind, ts) == Report(main, kind, ts, None, None, 0)
Prompt(kind, ts, id, real) == Report(main, kind, ts, id, None, real)
Repeats(repeats, restarts) == [repeats |-> repeats, restarts |-> restarts]

TwoTurns ==
  [hooks |-> <<Prompt("prompt_submit", 1, None, 1), Event("pre_tool", 1), Event("stop", 2),
               Prompt("prompt_submit", 4, None, 2), Event("stop", 5), Event("session_end", 5)>>,
   logs |-> <<Prompt("user_prompt", 2, None, 1), Event("tool_result", 2), Prompt("user_prompt", 4, None, 2)>>,
   left |-> Repeats(0, 1)]
WithIds ==
  [hooks |-> <<Prompt("prompt_submit", 1, "x", 1), Event("stop", 1), Prompt("prompt_submit", 2, "y", 2)>>,
   logs |-> <<Prompt("user_prompt", 1, "x", 1), Prompt("user_prompt", 2, "y", 2), Prompt("user_prompt", 5, None, 3)>>,
   left |-> Repeats(1, 1)]
Subagent ==
  [hooks |-> <<Prompt("prompt_submit", 1, None, 1), Report(child, "subagent_start", 2, None, main, 0),
               Report(child, "pre_tool", 3, None, main, 0), Report(child, "subagent_stop", 4, None, main, 0),
               Event("stop", 5)>>,
   logs |-> <<Prompt("user_prompt", 1, None, 1), Report(child, "tool_result", 3, None, None, 0),
              Report(child, "api_request", 5, None, main, 0)>>,
   left |-> Repeats(1, 0)]
MCScripts == {TwoTurns, WithIds, Subagent}

S == INSTANCE Sessions WITH
       Cards <- {main, child}, IdleAfter <- 1, Ttl <- 3, Window <- 6, Pair <- 1, MaxTime <- 9,
       Scripts <- MCScripts

-----------------------------------------------------------------------------
(* The pages: polls beside a start and a failure, beside a review and a    *)
(* change of the selection, beside all of them; reads beside two writes.   *)

PageBudget(p, st, rv, sel, ch, f) ==
  [polls |-> p, starts |-> st, reviews |-> rv, selections |-> sel, changes |-> ch, failures |-> f]
MCPagePlans == {PageBudget(3, 1, 0, 0, 0, 1), PageBudget(2, 0, 1, 2, 1, 0), PageBudget(1, 0, 1, 1, 0, 1)}

MCPollPlans == {[polls |-> 2, writes |-> 2, changes |-> 1, failures |-> 1]}

QueryBudget(s, r, p, o, c, f) ==
  [selects |-> s, refreshes |-> r, polls |-> p, opens |-> o, changes |-> c, failures |-> f]
MCQueryPlans == {QueryBudget(2,1,1,0,1,1), QueryBudget(1,1,0,2,1,1), QueryBudget(0,1,2,0,2,0)}

-----------------------------------------------------------------------------
(* The reports: seven days, of which two are longer and one is shorter;    *)
(* three rows of usage on PostgreSQL, four prompts on SQLite.              *)

Row(id, ts, who, members, session) ==
  [id |-> id, ts |-> ts, person |-> who, teams |-> members, teamId |-> None, session |-> session,
   provider |-> "codex", model |-> "a", cost |-> None, tokensOnly |-> FALSE, prompt |-> None]
Cost(row, n) == [row EXCEPT !.cost = n]
PromptRow(row, n) == [row EXCEPT !.prompt = n]
Query(days, team, who) == [period |-> "days", days |-> days, from |-> 0, to |-> 0, team |-> team, person |-> who]
Custom(a, b) == [Query(0, None, None) EXCEPT !.period = "custom", !.from = a, !.to = b]
ThisMonth == [Query(0, None, None) EXCEPT !.period = "month"]

CostRows == {Cost(Row(1, 13, person, {team1, team2}, session1), 2),
             [Cost(Row(2, 17, None, None, session1), 2) EXCEPT !.teamId = "old"],
             [Cost(Row(3, 22, person, {}, session2), 1) EXCEPT !.model = "b"]}
PromptRows == {PromptRow(Row(4, 17, person, {team1}, session1), 1), PromptRow(Row(5, 18, None, None, session1), 1),
               PromptRow(Row(6, 21, person, {team1, team2}, session2), 2),
               PromptRow(Row(7, 22, person, {team1, team2}, session2), 2)}
MCReportPlans ==
  {[backend |-> "postgres", day |-> 6, rows |-> CostRows, reports |-> 1,
    queries |-> {Query(1, None, None), Query(2, None, None), Query(3, team1, None), Query(3, None, None),
                 Custom(3, 4), ThisMonth}],
   [backend |-> "sqlite", day |-> 6, rows |-> PromptRows, reports |-> 1,
    queries |-> {Query(2, None, None), Query(3, None, person), Query(2, team2, None), Custom(4, 4), Custom(5, 5)}]}

U == INSTANCE Reports WITH
       Midnight <- <<0, 4, 8, 12, 18, 22, 26, 30>>, Hour <- 2, MonthStart <- 4, MaxDays <- 3, WeeksFrom <- 2,
       WeekLength <- 2, RetentionTime <- 8, Pair <- 1, LastTick <- 24, Aliases <- ("old" :> team1),
       ReportPlans <- MCReportPlans, plan <- reportPlan

NoReports ==
  /\ reportPlan = None /\ time = 0 /\ history = {} /\ gone = {} /\ asked = None /\ states = {}
  /\ report = None /\ reportsLeft = 0

-----------------------------------------------------------------------------
(* The moves: two sources with older rows; one with older, present and     *)
(* unpriced rows beside a server; the import of Brain beside saves.        *)

NoMoves == [runs |-> 0, stops |-> 0, crashes |-> 0, usage |-> 0, corrections |-> 0, saves |-> 0]
MovePlan(older, present, unknown, fresh, what) ==
  [legacy |-> older, modern |-> present, unknown |-> unknown, sampled |-> {2, 3}, fresh |-> fresh,
   checkpoint |-> desk :> 2 @@ laptop :> 0, budget |-> what]
OnDesk(rows) == desk :> rows @@ laptop :> {}
MCMovePlans ==
  {MovePlan(desk :> {1, 2} @@ laptop :> {1}, OnDesk({}), {}, {}, [NoMoves EXCEPT !.runs = 5, !.crashes = 1]),
   MovePlan(OnDesk({1}), OnDesk({1, 2}), {1}, {3, 4, 5},
            [NoMoves EXCEPT !.runs = 3, !.crashes = 1, !.usage = 2, !.corrections = 1]),
   MovePlan(OnDesk({}), OnDesk({1}), {1}, {}, [NoMoves EXCEPT !.runs = 3, !.crashes = 1, !.saves = 2, !.stops = 1])}

NoMove ==
  /\ move = None /\ local = None /\ started = {} /\ upgraded = {} /\ target = {} /\ checkpoint = 0 /\ records = None
  /\ served = FALSE /\ program = None /\ backups = None /\ finished = {} /\ direct = {} /\ moveBudget = None

-----------------------------------------------------------------------------
(* The submissions: a file of each kind of change, beside edits and an     *)
(* addition to the index; a refused file, a retry and a smaller scope; a   *)
(* hidden file.                                                            *)

SubmissionPlan(base, files, listed, hidden, paths, others, edits, adds, captures) ==
  [baseline |-> base, disk |-> files, index |-> listed, flagged |-> hidden, scope |-> paths, scopes |-> others,
   budget |-> [edits |-> edits, adds |-> adds, scopes |-> 1, captures |-> captures]]
MCSubmissionPlans ==
  {SubmissionPlan(<<1, None, 1>>, <<2, 1, 1>>, {1, 3}, {}, {1, 2, 3}, {}, 2, 1, 1),
   SubmissionPlan(<<1, 1, 1>>, <<4, 1, 1>>, {1, 2, 3}, {}, {1, 2}, {{1}}, 2, 0, 2),
   SubmissionPlan(<<1, 1, 1>>, <<2, 2, 1>>, {1, 2, 3}, {2}, {1, 2, 3}, {}, 1, 0, 1)}

MCMinimized == 1 :> 1 @@ 2 :> 2 @@ 3 :> 2 @@ 4 :> 4 @@ None :> None

-----------------------------------------------------------------------------
boardVars == <<script, now, hooksDone, logsLeft, past, board, endedSessions, stoppedTurns, prompts, seen, missed, left>>
reportVars == <<reportPlan, time, history, gone, asked, states, report, reportsLeft>>

vars == <<part, accessVars, registryVars, boardVars, feedVars, lifecycleVars, analysesVars, statesVars,
          queryVars, reportVars, moveVars, submissionVars>>

\* A part that is not chosen has one initial state.
Only(p, plan, set) == part # p => plan = CHOOSE x \in set : TRUE

MCInit ==
  /\ part \in {"accounts", "projects", "board", "feed", "apps", "analyses", "polls", "queries", "reports", "moves", "submission"}
  /\ AccessInit /\ Only("accounts", accounts, {p.accounts : p \in MCAccessPlans})
  /\ RegistryInit /\ Only("projects", registered, {p.registered : p \in MCRegistryPlans})
  /\ S!Init /\ Only("board", script, MCScripts)
  /\ FeedInit /\ LifecycleInit
  /\ AnalysesInit /\ Only("analyses", analysesLeft, MCPagePlans)
  /\ StatesInit /\ (part # "polls" => statePage = "prices")
  /\ QueriesInit /\ Only("queries", queriesLeft, MCQueryPlans) /\ (part # "queries" => query = "graph")
  /\ IF part = "reports" THEN U!Init ELSE NoReports
  /\ IF part = "moves" THEN MigrationInit ELSE NoMove
  /\ SubmissionInit /\ Only("submission", copy, {[baseline |-> p.baseline, flagged |-> p.flagged, scopes |-> p.scopes] : p \in MCSubmissionPlans})

MCNext ==
  /\ UNCHANGED part
  /\ IF part = "accounts" THEN AccessNext ELSE UNCHANGED accessVars
  /\ IF part = "projects" THEN RegistryNext ELSE UNCHANGED registryVars
  /\ IF part = "board" THEN S!Next ELSE UNCHANGED boardVars
  /\ IF part = "feed" THEN FeedNext ELSE UNCHANGED feedVars
  /\ IF part = "apps" THEN LifecycleNext ELSE UNCHANGED lifecycleVars
  /\ IF part = "analyses" THEN AnalysesNext ELSE UNCHANGED analysesVars
  /\ IF part = "polls" THEN StatesNext ELSE UNCHANGED statesVars
  /\ IF part = "queries" THEN QueriesNext ELSE UNCHANGED queryVars
  /\ IF part = "reports" THEN U!Next ELSE UNCHANGED reportVars
  /\ IF part = "moves" THEN MigrationNext ELSE UNCHANGED moveVars
  /\ IF part = "submission" THEN SubmissionNext ELSE UNCHANGED submissionVars

\* The progress of the parts whose liveness is checked.
MCProgress ==
  /\ part \in {"feed", "apps"}
  /\ UNCHANGED <<part, accessVars, registryVars, boardVars, analysesVars, statesVars,
                queryVars, reportVars, moveVars, submissionVars>>
  /\ IF part = "feed" THEN FeedProgress ELSE UNCHANGED feedVars
  /\ IF part = "apps" THEN Progress ELSE UNCHANGED lifecycleVars

MCSpec == MCInit /\ [][MCNext]_vars /\ WF_vars(MCProgress)

-----------------------------------------------------------------------------
(* The properties of the parts.                                            *)

\* The accounts, projects, cards, connections, applications, pages, reports, moves and
\* captures have their types; the page keeps no more events than it is to (all parts).
TypeOK ==
  CASE part = "accounts" -> AccessTypeOK [] part = "projects" -> RegistryTypeOK [] part = "board" -> S!TypeOK
    [] part = "feed" -> FeedTypeOK [] part = "apps" -> LifecycleTypeOK [] part = "analyses" -> AnalysesTypeOK
    [] part = "polls" -> StatesTypeOK [] part = "queries" -> QueriesTypeOK [] part = "reports" -> U!TypeOK
    [] part = "moves" -> MigrationTypeOK [] part = "submission" -> SubmissionTypeOK

\* Sessions: every prompt counts once, a stopped turn stays idle, a session that ended is not
\* shown, and the sweep keeps the ancestors of what it keeps.
BoardHolds ==
  /\ [](part = "board" => S!PromptsCountedOnce /\ S!StoppedIsIdle /\ S!EndedIsGone)
  /\ S!FamiliesStay

\* Feed, Lifecycle: the page catches up, and the history is closed when nobody uses it.
WorkEnds ==
  /\ part = "feed" => EventuallyCurrent
  /\ EventuallyClosed

\* Reports: the figures of a report agree, also with the short report; its period is compared
\* with the one just before it; if it is called complete, it misses nothing.
ReportsAgree ==
  part = "reports" => U!FiguresAgree /\ U!ReportsMatch /\ U!PeriodsAdjoin /\ U!CompleteIsWhole
=============================================================================
