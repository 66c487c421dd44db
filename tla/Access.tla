------------------------------- MODULE Access -------------------------------
(***************************************************************************)
(* Accounts, teams and workstation tokens (server/src/access/store.ts),    *)
(* the requests they authenticate and the teams the live board shows them  *)
(* under (server/src/index.ts).                                            *)
(*                                                                         *)
(* Every operation of the store is one transaction of BrainStorage and so  *)
(* one step.  Between the authentication of a request and the events it    *)
(* ingests, and between a change of a team and the refresh of the board,   *)
(* anything may happen.                                                    *)
(*                                                                         *)
(* Abstractions: names are compared without case; e-mails, labels and the  *)
(* audit are left out (a refused input changes nothing); an account has    *)
(* one session on the board.                                               *)
(***************************************************************************)
EXTENDS Integers, FiniteSets, Functions, Absence

CONSTANTS
  Accounts, TeamIds, TeamNames, Tokens,
  AccessPlans    \* records: the accounts and teams found at the first start, and budgets

\* An older account names one team at most, and has no set of teams.
AccountRecords == [teams : (SUBSET TeamIds) \cup {None}, enabled : BOOLEAN, legacy : TeamNames \cup {None}]
TokenRecords == [account : Accounts, revoked : BOOLEAN, expired : BOOLEAN]

\* Whatever is found at the first start, its accounts are in teams that are there.
FoundAtFirst(p) ==
  /\ p.accounts \in [Accounts -> AccountRecords \cup {None}]
  /\ p.teams \in [TeamIds -> TeamNames \cup {None}]
  /\ \A a \in Accounts : p.accounts[a] # None /\ p.accounts[a].teams # None =>
       \A t \in p.accounts[a].teams : p.teams[t] # None
  /\ p.left \in [{"teams", "accounts", "requests", "restarts"} -> Nat]

AccessAssumption ==
  /\ \A p \in AccessPlans : FoundAtFirst(p)
  /\ None \notin AccountRecords /\ None \notin TokenRecords /\ \A ids \in SUBSET TeamIds : ids # None
  /\ None \notin TeamIds /\ None \notin TeamNames
ASSUME AccessHypothesis == AccessAssumption

VARIABLES
  accounts,    \* by id: None or [teams, enabled, legacy], the older record has teams = None
  teams,       \* by id: None or the name
  aliases,     \* legacy-team-aliases: None until saved, then by name: None or a team
  tokens,      \* by id: None or [account, revoked, expired]
  serving,     \* access.init has ended
  requests,    \* authenticated requests whose events are not ingested: [token, account, teams]
  shown,       \* the board: by account None or its teams, <<id, name>>
  unrefreshed, \* a change is committed whose refresh of the board is outstanding
  accessLeft   \* what may still happen

database == <<accounts, teams, aliases, tokens>>
accessVars == <<database, serving, requests, shown, unrefreshed, accessLeft>>

Uses(what) == accessLeft[what] > 0 /\ accessLeft' = [accessLeft EXCEPT ![what] = @ - 1]

Known == {a \in Accounts : accounts[a] # None}
Existing == {t \in TeamIds : teams[t] # None}
Named(n) == {t \in Existing : teams[t] = n}

TeamsForAccount(a) == {<<t, teams[t]>> : t \in accounts[a].teams \cap Existing}

\* Older releases kept the name of one team in the account (legacy), the first release with
\* managed teams had teams and no aliases.
AccessInit ==
  \E p \in AccessPlans :
    /\ accounts = p.accounts
    /\ teams = p.teams
    /\ aliases = None
    /\ tokens = [k \in Tokens |-> None]
    /\ serving = FALSE /\ requests = {} /\ unrefreshed = FALSE
    /\ shown = [a \in Accounts |-> None]
    /\ accessLeft = p.left

-----------------------------------------------------------------------------
(* The start.                                                              *)

Legacy == {a \in Known : accounts[a].teams = None}
LegacyNames == {accounts[a].legacy : a \in Legacy} \ {None}

\* Mutant: the aliases follow the names of the teams at each start.
AliasesOfToday == [n \in TeamNames |-> IF Named(n) = {} THEN None ELSE CHOOSE t \in Named(n) : TRUE]

SavedAliases == IF aliases # None THEN aliases
                ELSE [n \in TeamNames |-> IF Named(n) = {} THEN None ELSE CHOOSE t \in Named(n) : TRUE]

\* migrateTeams: the accounts get their team, found by its name or created, and a name
\* keeps the first team it stood for.
MigrateTeams ==
  \E new \in Injection({n \in LegacyNames : Named(n) = {}}, TeamIds \ Existing) :
    LET TeamOf(n) == IF Named(n) = {} THEN new[n] ELSE CHOOSE t \in Named(n) : TRUE IN
      /\ teams' = [t \in TeamIds |->
           IF \E n \in DOMAIN new : new[n] = t THEN CHOOSE n \in DOMAIN new : new[n] = t ELSE teams[t]]
      /\ accounts' = [a \in Accounts |->
           IF a \notin Legacy THEN accounts[a]
           ELSE [accounts[a] EXCEPT !.legacy = None,
                                    !.teams = IF accounts[a].legacy = None THEN {}
                                              ELSE {TeamOf(accounts[a].legacy)}]]
      /\ aliases' = [n \in TeamNames |->
           IF SavedAliases[n] = None /\ n \in LegacyNames THEN TeamOf(n) ELSE SavedAliases[n]]

Start ==
  /\ ~serving /\ serving' = TRUE
  /\ MigrateTeams
  /\ UNCHANGED <<tokens, requests, shown, unrefreshed, accessLeft>>

Restart ==
  /\ serving /\ Uses("restarts")
  /\ serving' = FALSE /\ requests' = {} /\ unrefreshed' = FALSE
  /\ shown' = [a \in Accounts |-> None]
  /\ UNCHANGED database

-----------------------------------------------------------------------------
(* The administrator.                                                      *)

SaveTeam(t, n) ==
  /\ serving /\ Uses("teams")
  /\ Named(n) \subseteq {t}
  /\ teams' = [teams EXCEPT ![t] = n]
  /\ unrefreshed' = TRUE
  /\ UNCHANGED <<accounts, aliases, tokens, serving, requests, shown>>

\* Mutant: a team is removed without a look at its members.
NeverAssigned(t) == FALSE

Assigned(t) == \E a \in Known : t \in accounts[a].teams

RemoveTeam(t) ==
  /\ serving /\ Uses("teams")
  /\ t \in Existing /\ ~Assigned(t)
  /\ teams' = [teams EXCEPT ![t] = None]
  /\ unrefreshed' = TRUE
  /\ UNCHANGED <<accounts, aliases, tokens, serving, requests, shown>>

\* Mutant: a disabled account keeps its tokens.
RevokesNothing(a, enabled) == tokens

\* The tokens of an account that is saved as disabled are revoked.
RevokedWith(a, enabled) ==
  [k \in Tokens |-> IF ~enabled /\ tokens[k] # None /\ tokens[k].account = a
                    THEN [tokens[k] EXCEPT !.revoked = TRUE] ELSE tokens[k]]

SaveAccount(a, ids, enabled) ==
  /\ serving /\ Uses("accounts")
  /\ ids \subseteq Existing
  /\ accounts' = [accounts EXCEPT ![a] = [teams |-> ids, enabled |-> enabled, legacy |-> None]]
  /\ tokens' = RevokedWith(a, enabled)
  /\ unrefreshed' = TRUE
  /\ UNCHANGED <<teams, aliases, serving, requests, shown>>

\* onTeamsChanged: every session of the board gets the teams of its account.
RefreshTeams ==
  /\ serving /\ unrefreshed
  /\ unrefreshed' = FALSE
  /\ shown' = [a \in Accounts |-> IF shown[a] = None THEN None ELSE TeamsForAccount(a)]
  /\ UNCHANGED <<database, serving, requests, accessLeft>>

Issue(k, a) ==
  /\ serving /\ a \in Known /\ accounts[a].enabled
  /\ tokens[k] = None
  /\ tokens' = [tokens EXCEPT ![k] = [account |-> a, revoked |-> FALSE, expired |-> FALSE]]
  /\ UNCHANGED <<accounts, teams, aliases, serving, requests, shown, unrefreshed, accessLeft>>

Revoke(k) ==
  /\ serving /\ tokens[k] # None
  /\ ~tokens[k].revoked
  /\ tokens' = [tokens EXCEPT ![k].revoked = TRUE]
  /\ UNCHANGED <<accounts, teams, aliases, serving, requests, shown, unrefreshed, accessLeft>>

\* The time passes the end of a token.
Expire(k) ==
  /\ tokens[k] # None /\ ~tokens[k].expired
  /\ tokens' = [tokens EXCEPT ![k].expired = TRUE]
  /\ UNCHANGED <<accounts, teams, aliases, serving, requests, shown, unrefreshed, accessLeft>>

-----------------------------------------------------------------------------
(* The requests of workstations.                                           *)

Active(k) == /\ tokens[k] # None
             /\ ~tokens[k].revoked /\ ~tokens[k].expired
             /\ accounts[tokens[k].account].enabled

Authenticate(k) ==
  /\ serving /\ Uses("requests")
  /\ Active(k)
  /\ LET a == tokens[k].account IN
       requests' = requests \cup {[token |-> k, account |-> a, teams |-> TeamsForAccount(a)]}
  /\ UNCHANGED <<database, serving, shown, unrefreshed>>

\* Mutant: the teams of the authentication.
TeamsOfTheRequest(request) == request.teams

\* ingestEvent reads the teams anew: "enrichment can finish after an administrator changes
\* team memberships".
AttributedTeams(request) == TeamsForAccount(request.account)

IngestEvent(request) ==
  /\ serving
  /\ requests' = requests \ {request}
  /\ shown' = [shown EXCEPT ![request.account] = AttributedTeams(request)]
  /\ UNCHANGED <<database, serving, unrefreshed, accessLeft>>

AccessNext ==
  \/ Start \/ Restart \/ RefreshTeams
  \/ \E t \in TeamIds, n \in TeamNames : SaveTeam(t, n)
  \/ \E t \in TeamIds : RemoveTeam(t)
  \/ \E a \in Accounts, ids \in SUBSET TeamIds, enabled \in BOOLEAN : SaveAccount(a, ids, enabled)
  \/ \E k \in Tokens, a \in Accounts : Issue(k, a)
  \/ \E k \in Tokens : Revoke(k) \/ Expire(k) \/ Authenticate(k)
  \/ \E request \in requests : IngestEvent(request)

AccessSpec == AccessInit /\ [][AccessNext]_accessVars

-----------------------------------------------------------------------------
AccessTypeOK ==
  /\ \A a \in Known : accounts[a].enabled \in BOOLEAN
  /\ teams \in [TeamIds -> TeamNames \cup {None}]
  /\ aliases = None \/ aliases \in [TeamNames -> TeamIds \cup {None}]
  /\ \A k \in Tokens : tokens[k] # None => tokens[k].account \in Known
  /\ serving \in BOOLEAN /\ unrefreshed \in BOOLEAN

\* A token that the server refuses once, because it was revoked, because it ended or because
\* its account was disabled, is refused for good: enabling the account again or a restart
\* brings no token back (saveAccount revokes, revoke and active only add reasons).
RefusedForGood ==
  [][\A k \in Tokens : tokens[k] # None /\ ~Active(k) => ~Active(k)']_accessVars

\* A name that older records use for a team stands for the same team for good: a team that
\* takes the name of a deleted one does not inherit its history, over any number of restarts
\* (migrateTeams: "Retain aliases after deletion").
AliasesStay ==
  [][aliases # None => \A n \in TeamNames : aliases[n] # None => aliases'[n] = aliases[n]]_accessVars

\* No account belongs to a team that does not exist, whatever the order of saves of accounts
\* and removals of teams.
TeamsExist == serving => \A a \in Known : accounts[a].teams \subseteq Existing

\* Once every committed change has been followed by its refresh, the board shows each session
\* under the teams that its account has now, also for a request that was authenticated before
\* the change and ingested after it.
TeamsAreCurrent ==
  serving /\ ~unrefreshed => \A a \in Known : shown[a] # None => shown[a] = TeamsForAccount(a)

\* The four together: memberships, the board, refusals and aliases (AccessStore).
AccessHolds == [](TeamsExist /\ TeamsAreCurrent) /\ RefusedForGood /\ AliasesStay
=============================================================================
