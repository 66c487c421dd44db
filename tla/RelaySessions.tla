---------------------------- MODULE RelaySessions ----------------------------
(***************************************************************************)
(* Who may speak for which repository over time: the session table of the  *)
(* workstation relay (ProjectFilter in fleet/relay.mjs), the file it       *)
(* survives a restart in, and the policy file that the `projects` and      *)
(* `setup` commands edit meanwhile (fleet/projects.mjs, fleet/setup.mjs).  *)
(*                                                                         *)
(* A hook names the directory its session works in; exports of the session *)
(* pass only for the repository of that directory.  What happens to the    *)
(* accepted payload afterwards is module Relay.  A relay that starts with  *)
(* another credential starts with an empty table; here there is one.       *)
(***************************************************************************)
EXTENDS Integers, Sequences, FiniteSets, Absence

CONSTANTS
  Keys,         \* sessions, by provider and id
  Dirs,         \* directories a hook or the policy may name
  Repositories, \* identities of Git repositories; linked worktrees share one
  Origins,      \* dashboards the policy may name
  MaxSessions,  \* size of the table (maximumSessions)
  Lifetime,     \* age at which a binding ends (sessionLifetimeMs)
  MaxTime,      \* bound on the clock
  Trees,        \* the repositories the directories belong to at first
  Selections,   \* policy files to begin with
  TablePlans    \* how many events of each kind one behaviour may hold

VARIABLES
  now,         \* the clock
  tree,        \* the repository each directory belongs to, or None
  selection,   \* telemetry.json
  commands,    \* edits of it under way: what they will write
  relay,       \* the process: up, its table, the policy the table was fitted to
  saves,       \* writes of the table under way, in order (sessionWrites)
  sessionFile, \* relay-sessions.json
  heard,       \* history: every hook, with what it named when
  answered,    \* history: the hooks that were answered, by their serials
  epoch,       \* counts the changes of the policy file and of the tree
  sessionsLeft \* what is left of the plan

tableVars == <<now, tree, selection, commands, relay, saves, sessionFile, heard, answered, epoch, sessionsLeft>>

PolicyFiles == [dashboard : Origins, projects : SUBSET Dirs, bindings : SUBSET (Dirs \X Dirs)]

Valid(p) ==
  /\ \A b \in p.bindings : b[2] \in p.projects
  /\ \A b, c \in p.bindings : b[1] = c[1] => b = c

ASSUME TableAssumption ==
  /\ MaxSessions \in Nat \ {0} /\ Lifetime \in Nat /\ MaxTime \in Nat
  /\ None \notin Dirs /\ None \notin Repositories
  /\ Trees \subseteq [Dirs -> Repositories \union {None}]
  /\ Selections \subseteq {p \in PolicyFiles : Valid(p)}

Spend(kind) == sessionsLeft[kind] > 0 /\ sessionsLeft' = [sessionsLeft EXCEPT ![kind] = @ - 1]

(* Repositories and the policy file.                                       *)

\* The project of a directory: a selected checkout of its own repository or,
\* outside any repository, the selected checkout it is bound to.
SelectedCheckouts(dir, p) ==
  IF tree[dir] # None
  THEN {project \in p.projects : tree[project] = tree[dir]}
  ELSE {b[2] : b \in {c \in p.bindings : c[1] = dir /\ c[2] \in p.projects /\ tree[c[2]] # None}}

\* The code takes the first of several checkouts of one repository.
SelectedRepository(dir, p) ==
  IF SelectedCheckouts(dir, p) = {} THEN None
  ELSE CHOOSE project \in SelectedCheckouts(dir, p) : TRUE

(* The commands that edit the policy.  Each reads the file, works out the  *)
(* next one and renames it into place; two of them may overlap.            *)

Allow(p, dir) ==
  IF tree[dir] = None THEN {} ELSE {[p EXCEPT !.projects = @ \union {dir}]}

Deselect(p, dir) ==
  LET projects == p.projects \ {dir}
  IN  {[p EXCEPT !.projects = projects, !.bindings = {b \in @ : b[2] \in projects}]}

Unbind(p, dir) == {[p EXCEPT !.bindings = {b \in @ : b[1] # dir}]}

BindWorkspace(p, dir, project) ==
  IF tree[dir] # None \/ tree[project] = None \/ project \notin p.projects THEN {}
  ELSE {[p EXCEPT !.bindings = {b \in @ : b[1] # dir} \union {<<dir, project>>}]}

Redirect(p, dashboard) == {[p EXCEPT !.dashboard = dashboard]}

ConfigureProjects ==
  /\ Spend("edits")
  /\ \E dir, project \in Dirs :
       \E next \in Allow(selection, dir) \union Deselect(selection, dir) \union Unbind(selection, dir)
                     \union BindWorkspace(selection, dir, project) :
         /\ next # selection
         /\ commands' = commands \union {next}
  /\ UNCHANGED <<now, tree, selection, relay, saves, sessionFile, heard, answered, epoch>>

\* setup.mjs adds repositories and may point the relay at another dashboard.
ConfigureDashboard ==
  /\ Spend("edits")
  /\ \E dashboard \in Origins \ {selection.dashboard} :
       \E next \in Redirect(selection, dashboard) : commands' = commands \union {next}
  /\ UNCHANGED <<now, tree, selection, relay, saves, sessionFile, heard, answered, epoch>>

WritePolicy ==
  /\ \E next \in commands :
       /\ Valid(next)
       /\ selection' = next
       /\ commands' = commands \ {next}
  /\ epoch' = epoch + 1
  /\ UNCHANGED <<now, tree, relay, saves, sessionFile, heard, answered, sessionsLeft>>

\* A directory becomes a repository, stops being one, or is another's worktree.
ChangeTree ==
  /\ Spend("moves")
  /\ \E dir \in Dirs, repository \in Repositories \union {None} :
       /\ tree[dir] # repository
       /\ tree' = [tree EXCEPT ![dir] = repository]
  /\ epoch' = epoch + 1
  /\ UNCHANGED <<now, selection, commands, relay, saves, sessionFile, heard, answered>>

(* The table: the bindings of a Map.  Its order is that of the serials, the *)
(* order of the hooks that made them: a hook deletes and adds its key.      *)

Without(table, key) == {s \in table : s.key # key}

\* A binding of a workspace holds while the workspace still leads to it.
StillBound(s, p) == s.workspace = None \/ SelectedRepository(s.workspace, p) = s.project

\* Every request first fits the table to the policy file as it is now.
Fitted(p) ==
  IF relay.fitted = p THEN relay.table
  ELSE IF relay.fitted.dashboard # p.dashboard THEN {}
  ELSE {s \in relay.table : s.project \in p.projects /\ StillBound(s, p)}

Live(s, p) == now - s.at <= Lifetime /\ s.project \in p.projects /\ StillBound(s, p)

\* What an export of any session would pass as: the batches of the handler.
Passing ==
  {[key |-> s.key, project |-> s.project] : s \in {t \in Fitted(selection) : Live(t, selection)}}

(* Hooks: the table changes at once, the answer waits for the file.        *)

Oldest(table) == {s \in table : \A t \in table : s.serial <= t.serial}

\* Mutant: the table grows.
NeverBounded(table) == table

\* Mutant: the newest binding makes room for itself.
BoundedAtTheEnd(table) ==
  IF Cardinality(table) > MaxSessions THEN {s \in table : \E t \in table : s.serial < t.serial} ELSE table

Bounded(table) == IF Cardinality(table) > MaxSessions THEN table \ Oldest(table) ELSE table

\* What the hook of a session in a directory binds it to.
Binding(key, dir) ==
  [key |-> key, project |-> SelectedRepository(dir, selection), at |-> now,
   workspace |-> IF tree[dir] = None THEN dir ELSE None, serial |-> Len(heard) + 1]

\* Mutant: a directory that is not selected leaves the session as it was.
ActivityKeepsBinding(key, dir) ==
  IF SelectedRepository(dir, selection) = None THEN Fitted(selection)
  ELSE Bounded(Without(Fitted(selection), key) \union {Binding(key, dir)})

Activity(key, dir) ==
  IF SelectedRepository(dir, selection) = None THEN Without(Fitted(selection), key)
  ELSE Bounded(Without(Fitted(selection), key) \union {Binding(key, dir)})

Hook ==
  /\ relay.up
  /\ Spend("hooks")
  /\ \E key \in Keys, dir \in Dirs :
       /\ relay' = [relay EXCEPT !.table = Activity(key, dir), !.fitted = selection]
       /\ saves' = Append(saves, [table |-> Activity(key, dir), dashboard |-> selection.dashboard,
                                  serial |-> Len(heard) + 1])
       /\ heard' = Append(heard, [key |-> key, project |-> SelectedRepository(dir, selection),
                                  dashboard |-> selection.dashboard, at |-> now, epoch |-> epoch])
  /\ UNCHANGED <<now, tree, selection, commands, sessionFile, answered, epoch>>

\* The head of the chain is renamed into place and its hook is answered.
SaveTable ==
  /\ relay.up /\ saves # <<>>
  /\ sessionFile' = [table |-> Head(saves).table, dashboard |-> Head(saves).dashboard]
  /\ answered' = answered \union {Head(saves).serial}
  /\ saves' = Tail(saves)
  /\ UNCHANGED <<now, tree, selection, commands, relay, heard, epoch, sessionsLeft>>

\* The hook is answered 503; the chain goes on with the next write.
SaveFails ==
  /\ relay.up /\ saves # <<>>
  /\ Spend("failures")
  /\ saves' = Tail(saves)
  /\ UNCHANGED <<now, tree, selection, commands, relay, sessionFile, heard, answered, epoch>>

\* An export filters its records by a copy of the table: its bindings stay.
Export ==
  /\ relay.up
  /\ relay' = [relay EXCEPT !.table = Fitted(selection), !.fitted = selection]
  /\ relay' # relay
  /\ UNCHANGED <<now, tree, selection, commands, saves, sessionFile, heard, answered, epoch, sessionsLeft>>

(* The process.                                                            *)

StopRelay ==
  /\ relay.up
  /\ Spend("stops")
  /\ relay' = [relay EXCEPT !.up = FALSE, !.table = {}]
  /\ saves' = <<>>
  /\ UNCHANGED <<now, tree, selection, commands, sessionFile, heard, answered, epoch>>

Restored ==
  IF sessionFile.dashboard # selection.dashboard THEN {}
  ELSE {s \in sessionFile.table : /\ now - s.at < Lifetime
                                  /\ s.project \in selection.projects
                                  /\ StillBound(s, selection)}

StartRelay ==
  /\ ~relay.up
  /\ relay' = [up |-> TRUE, table |-> Restored, fitted |-> selection]
  /\ UNCHANGED <<now, tree, selection, commands, saves, sessionFile, heard, answered, epoch, sessionsLeft>>

TimePasses ==
  /\ now < MaxTime
  /\ now' = now + 1
  /\ UNCHANGED <<tree, selection, commands, relay, saves, sessionFile, heard, answered, epoch, sessionsLeft>>

TableInit ==
  /\ now = 0
  /\ tree \in Trees
  /\ selection \in Selections
  /\ commands = {}
  /\ relay = [up |-> TRUE, table |-> {}, fitted |-> selection]
  /\ saves = <<>>
  /\ sessionFile = [table |-> {}, dashboard |-> selection.dashboard]
  /\ heard = <<>>
  /\ answered = {}
  /\ epoch = 0
  /\ sessionsLeft \in TablePlans

TableNext ==
  ConfigureProjects \/ ConfigureDashboard \/ WritePolicy \/ ChangeTree \/ Hook \/ SaveTable \/ SaveFails
  \/ Export \/ StopRelay \/ StartRelay \/ TimePasses

TableSpec == TableInit /\ [][TableNext]_tableVars

(* Properties.                                                             *)

SessionBindings == [key : Keys, project : Dirs, at : Nat, workspace : Dirs \union {None}, serial : Nat \ {0}]
Claims == [key : Keys, project : Dirs \union {None}, dashboard : Origins, at : Nat, epoch : Nat]

\* A table holds each session once and no more of them than it may.
IsTable(table) ==
  /\ table \subseteq SessionBindings
  /\ IsFiniteSet(table) /\ Cardinality(table) <= MaxSessions
  /\ \A s, t \in table : s.key = t.key => s = t

TableTypeOK ==
  /\ now \in Nat /\ epoch \in Nat
  /\ tree \in [Dirs -> Repositories \union {None}]
  /\ selection \in PolicyFiles /\ Valid(selection)
  /\ commands \subseteq PolicyFiles
  /\ heard \in Seq(Claims) /\ answered \subseteq DOMAIN heard
  /\ relay \in [up : BOOLEAN, table : SUBSET SessionBindings, fitted : PolicyFiles]
  /\ saves \in Seq([table : SUBSET SessionBindings, dashboard : Origins, serial : Nat \ {0}])
  /\ sessionFile \in [table : SUBSET SessionBindings, dashboard : Origins]
  /\ IsTable(relay.table) /\ IsTable(sessionFile.table)
  /\ \A i \in DOMAIN saves : IsTable(saves[i].table)

\* Telemetry of a session passes only as the project that its newest answered
\* hook named, or one not answered since, read under the dashboard the policy
\* names now and within its lifetime; a restart never revives an older one.
PassesAsIdentified ==
  relay.up =>
    \A b \in Passing :
      /\ b.project \in selection.projects
      /\ \E n \in DOMAIN heard :
           /\ heard[n].key = b.key /\ heard[n].project = b.project
           /\ heard[n].dashboard = selection.dashboard
           /\ now - heard[n].at <= Lifetime
           /\ \A m \in answered : heard[m].key = b.key => m <= n

\* The sessions heard after a hook.
HeardSince(n) == {heard[m].key : m \in {i \in DOMAIN heard : i > n}}

\* The newest hook of its session named a selected project, nothing changed
\* since, it is not too old and fewer than MaxSessions others were heard since.
Known(n) ==
  /\ heard[n].key \notin HeardSince(n) /\ Cardinality(HeardSince(n)) < MaxSessions
  /\ heard[n].project # None
  /\ heard[n].epoch = epoch /\ now - heard[n].at < Lifetime

\* A session whose newest hook was answered, and is still known, goes on
\* passing as the project it named, restarts of the relay included.
KnownStaysKnown ==
  relay.up =>
    \A n \in answered :
      Known(n) => [key |-> heard[n].key, project |-> heard[n].project] \in Passing

\* All of it: what passes was identified, and what was identified passes.
SessionsHold == TableTypeOK /\ PassesAsIdentified /\ KnownStaysKnown
==============================================================================
