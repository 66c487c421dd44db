--------------------------- MODULE MCWorkstation ---------------------------
(***************************************************************************)
(* The workstation on one model checker run: the outbox of the relay under *)
(* three plans, the session table, the installer and the telemetry filter. *)
(* A behaviour is one of one part, chosen at the start.                    *)
(***************************************************************************)
EXTENDS Relay, Setup, RelaySessions, TLC

CONSTANTS
  r1, r2, w1, d1, d2, c1, c2, hook, export, resend,   \* of the relay
  k1, k2, checkout, folder, elsewhere,                \* of the session table
  setupA, setupB, proxy, otel                         \* of the installer

VARIABLES
  part,
  exported, session, queued, events, serial

-----------------------------------------------------------------------------
(* The outbox: a hook and an export of two repositories; one export while  *)
(* the policy and the rules are edited; one export that is repeated.       *)

Work == hook :> {w1} @@ export :> {r1, r2} @@ resend :> {w1, r2}

All == [dashboard |-> d1, projects |-> {r1, r2}, bound |-> [w \in {w1} |-> r1]]
Unbound == [All EXCEPT !.bound = [w \in {w1} |-> None]]
Rebound == [All EXCEPT !.bound = [w \in {w1} |-> r2]]
Moved == [All EXCEPT !.dashboard = d2]
Bindings == {All, Unbound, Rebound, Moved}

Open == [enabled |-> FALSE, repositories |-> {}]
Only1 == [enabled |-> TRUE, repositories |-> {r1}]
EditedRules == {Open, Only1}

OutboxPlan(asked, owners, tries, written, ed, cr, fa) ==
  [requests |-> asked, credentials |-> owners, attempts |-> tries, files |-> written,
   edits |-> ed, crashes |-> cr, faults |-> fa]
OutboxPlans ==
  [intake |-> OutboxPlan({hook, export}, {c1, c2}, 1, 3, 0, 1, 1),
   edits  |-> OutboxPlan({resend}, {c1}, 1, 2, 2, 0, 1),
   retry  |-> OutboxPlan({resend}, {c1}, 2, 3, 0, 1, 1),
   still  |-> OutboxPlan({}, {c1}, 0, 0, 0, 0, 0)]

Outbox == part \in {"intake", "edits", "retry"}
ThisPlan == IF Outbox THEN OutboxPlans[part] ELSE OutboxPlans.still

OutboxInit ==
  /\ Init
  /\ credential = c1                  \* the other is as good to begin with
  /\ part # "edits" => policy = All /\ rules = Open

WithinPlan ==
  /\ credential' \in ThisPlan.credentials
  /\ \A r \in Requests : request'[r].attempts <= IF r \in ThisPlan.requests THEN ThisPlan.attempts ELSE 0
  /\ Len(content') <= ThisPlan.files
  /\ edits' <= ThisPlan.edits /\ crashes' <= ThisPlan.crashes /\ faults' <= ThisPlan.faults
  /\ crashes' + faults' <= 1          \* one interruption, of either kind

-----------------------------------------------------------------------------
(* The session table: two sessions, one place; a checkout, a worktree of   *)
(* it or of another repository, and a folder that may be bound.            *)

MCTrees == {[d \in {checkout, elsewhere, folder} |->
               CASE d = checkout -> r1 [] d = elsewhere -> other [] OTHER -> None] : other \in {r1, r2}}
Selection(bindings) == [dashboard |-> d1, projects |-> {checkout}, bindings |-> bindings]
MCSelections == {Selection({}), Selection({<<folder, checkout>>})}
TablePlan(h, e, m, f, s) == [hooks |-> h, edits |-> e, moves |-> m, failures |-> f, stops |-> s]
MCTablePlans == {TablePlan(2, 1, 0, 0, 1), TablePlan(2, 0, 1, 1, 0), TablePlan(1, 2, 0, 0, 1)}

-----------------------------------------------------------------------------
(* The installer: two calls, two files, one edit by another, one kill.     *)

SettingsFiles == <<"policy", "settings">>

-----------------------------------------------------------------------------
(* The filter: records with at most two session attributes, one name and   *)
(* one more attribute; the session and the name also as a number, the      *)
(* session also over the length that is kept.                              *)

MCLong == "long" :> "lon"
Text(text) == [type |-> "text", text |-> text]
Figure(text) == [type |-> "number", text |-> text]
Flag(text) == [type |-> "flag", text |-> text]
Bags(names, most) == {[n \in d |-> Text(n)] : d \in {e \in SUBSET names : Cardinality(e) <= most}}
One(names, values) == {[n \in {m} |-> v] : m \in names, v \in values}
SessionBags ==
  LET plain == Bags({"session.id", "conversation.id"}, 2) \cup Bags({"conversation_id"}, 1)
  IN  plain \cup {[b EXCEPT !["session.id"] = v] :
                    v \in {Figure("7"), Text("long")}, b \in {p \in plain : "session.id" \in DOMAIN p}}
MCResources == Bags({"session.id", "conversation.id", "parent_thread_id"}, 1)
MCAttributes ==
  {s @@ t @@ u :
     s \in SessionBags,
     t \in {<<>>} \cup One({"event.name"}, {Figure("7")})
           \cup One({"event.name", "name"},
                    {Text(n) : n \in {"codex.api_request", "codex.sse_event", "codex.user_prompt",
                                      "claude_code.api_request", "claude_code.tool_result"}}),
     u \in {<<>>} \cup One({"kind"}, {Text("response.completed")}) \cup One({"success"}, {Text("false"), Flag("false")})
           \cup One({"input_token_count"}, {Figure("12"), Text("12")}) \cup One({"cached_token_count"}, {Flag("true")})
           \cup Bags({"event.id", "request_id", "prompt", "tool_name"}, 1)}

Y == INSTANCE Telemetry WITH
       Resources <- MCResources, Attributes <- MCAttributes, Long <- MCLong, Numerals <- {"12"},
       Bodies <- {None, "codex.sse_event", "hello"}, Times <- {0, 5}, MaxPosts <- 2

Unexported ==
  /\ exported = [resource |-> <<>>, attributes |-> <<>>, body |-> None, time |-> None]
  /\ session = None /\ queued = None /\ events = <<>> /\ serial = 0

-----------------------------------------------------------------------------
outboxVars == vars
telemetryVars == <<exported, session, queued, events, serial>>
workstationVars == <<part, outboxVars, tableVars, settingsVars, telemetryVars>>

\* A part that is not chosen has one initial state.
Only(p, plan, set) == part # p => plan = CHOOSE x \in set : TRUE

MCInit ==
  /\ part \in {"intake", "edits", "retry", "table", "settings", "telemetry"}
  /\ OutboxInit
  /\ TableInit /\ Only("table", tree, MCTrees) /\ Only("table", selection, MCSelections)
            /\ Only("table", sessionsLeft, MCTablePlans)
  /\ SetupInit
  /\ IF part = "telemetry" THEN Y!Init ELSE Unexported

MCNext ==
  /\ UNCHANGED part
  /\ IF Outbox THEN Next /\ WithinPlan ELSE UNCHANGED outboxVars
  /\ IF part = "table" THEN TableNext ELSE UNCHANGED tableVars
  /\ IF part = "settings" THEN SetupNext ELSE UNCHANGED settingsVars
  /\ IF part = "telemetry" THEN Y!Next ELSE UNCHANGED telemetryVars

MCSpec == MCInit /\ [][MCNext]_workstationVars

-----------------------------------------------------------------------------
(* The properties of the outbox are those of Relay, SessionsHold that of   *)
(* RelaySessions, EditsAreKept that of Setup.                              *)

\* Setup, Telemetry: the settings have their types; an event counts for the session it passed for,
\* the filter drops nothing the server uses, and a record read again is known again.
RecordsHold ==
  /\ SetupTypeOK
  /\ part = "telemetry" => Y!CountedWhereItPassed /\ Y!NothingUsedIsDropped /\ Y!RepeatsAreKnown
=============================================================================
