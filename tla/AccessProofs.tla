----------------------------- MODULE AccessProofs -----------------------------
(***************************************************************************)
(* Refused is refused for good, a name of older records stands for one     *)
(* team, and the board shows the teams of today.  A proof for any accounts,*)
(* teams and tokens, and any number of changes and restarts.               *)
(*                                                                         *)
(* The argument.  A token is given only to an account that is enabled, and *)
(* a save that disables the account revokes its tokens: a token whose      *)
(* account is disabled is revoked already (TokensInv), so no later save    *)
(* brings it back.  A team is removed only when nobody is in it, also      *)
(* before the start has moved the older records (MembersInv).  What the    *)
(* board shows is written from the teams of today, by the refresh and by   *)
(* the ingestion; everything that changes those asks for a refresh.        *)
(***************************************************************************)
EXTENDS Access, Registry, Lifecycle, FiniteSetTheorems, TLAPS

AccessTypes ==
  /\ accounts \in [Accounts -> AccountRecords \cup {None}]
  /\ teams \in [TeamIds -> TeamNames \cup {None}]
  /\ aliases # None => aliases \in [TeamNames -> TeamIds \cup {None}]
  /\ tokens \in [Tokens -> TokenRecords \cup {None}]
  /\ serving \in BOOLEAN /\ unrefreshed \in BOOLEAN
  /\ shown \in [Accounts -> (SUBSET (TeamIds \X TeamNames)) \cup {None}]

-----------------------------------------------------------------------------
(* The inductive invariant.                                                *)

\* An account belongs to teams that exist; one without a set of teams is an older record, and
\* there is none once the start has ended.
MembersInv == \A a \in Known :
  /\ accounts[a].teams # None => accounts[a].teams \subseteq Existing
  /\ serving => accounts[a].teams # None

\* A token is of an account; if that is disabled the token is revoked.
TokensInv == \A k \in Tokens : tokens[k] # None =>
  /\ tokens[k].account \in Known
  /\ ~accounts[tokens[k].account].enabled => tokens[k].revoked

\* A request is of an account; before the start has ended nothing is shown and nothing is asked.
BoardInv ==
  /\ \A request \in requests : request.account \in Known
  /\ ~serving => requests = {} /\ \A a \in Accounts : shown[a] = None
  /\ TeamsAreCurrent

AccessInv == AccessTypes /\ MembersInv /\ TokensInv /\ BoardInv

-----------------------------------------------------------------------------
(* Records and sets.                                                       *)

LEMMA AccountParts ==
  ASSUME AccessAssumption, AccessTypes, NEW a \in Known
  PROVE  /\ a \in Accounts /\ accounts[a] \in AccountRecords
         /\ accounts[a].teams \in (SUBSET TeamIds) \cup {None} /\ accounts[a].enabled \in BOOLEAN
         /\ accounts[a].legacy \in TeamNames \cup {None}
  <1>1. a \in Accounts /\ accounts[a] \in AccountRecords
    BY DEF Known, AccessTypes
  <1> QED
    BY <1>1 DEF AccountRecords

LEMMA TokenParts ==
  ASSUME AccessAssumption, AccessTypes, NEW k \in Tokens, tokens[k] # None
  PROVE  tokens[k] \in TokenRecords /\ tokens[k].account \in Accounts /\ tokens[k].revoked \in BOOLEAN /\ tokens[k].expired \in BOOLEAN
  <1>1. tokens[k] \in TokenRecords
    BY DEF AccessTypes
  <1> QED
    BY <1>1 DEF TokenRecords

\* The teams of an account are pairs of a team and its name.
LEMMA TeamsType ==
  ASSUME AccessTypes, NEW a \in Accounts
  PROVE  TeamsForAccount(a) \in SUBSET (TeamIds \X TeamNames)
  BY DEF TeamsForAccount, Existing, AccessTypes

LEMMA SameTeams ==
  ASSUME NEW a \in Accounts, accounts'[a] = accounts[a], teams' = teams
  PROVE  TeamsForAccount(a)' = TeamsForAccount(a)
  BY DEF TeamsForAccount, Existing

-----------------------------------------------------------------------------
(* The start moves the older records.                                      *)

LEMMA SavedAliasesType ==
  ASSUME AccessTypes
  PROVE  SavedAliases \in [TeamNames -> TeamIds \cup {None}]
  <1>1. \A n \in TeamNames : Named(n) # {} => (CHOOSE t \in Named(n) : TRUE) \in TeamIds
    <2> SUFFICES ASSUME NEW n \in TeamNames, Named(n) # {} PROVE (CHOOSE t \in Named(n) : TRUE) \in TeamIds
      OBVIOUS
    <2>1. (CHOOSE t \in Named(n) : TRUE) \in Named(n)
      OBVIOUS
    <2> QED
      BY <2>1 DEF Named, Existing
  <1> QED
    BY <1>1 DEF SavedAliases, AccessTypes

\* Nobody is added or disabled, every account is in teams that exist, and a name keeps its team.
LEMMA Migrated ==
  ASSUME AccessAssumption, AccessTypes, MembersInv, MigrateTeams
  PROVE  /\ accounts' \in [Accounts -> AccountRecords \cup {None}] /\ teams' \in [TeamIds -> TeamNames \cup {None}]
         /\ aliases' \in [TeamNames -> TeamIds \cup {None}]
         /\ \A a \in Accounts : accounts'[a] = None <=> accounts[a] = None
         /\ \A a \in Known : accounts'[a].enabled = accounts[a].enabled /\ accounts'[a].teams # None
         /\ \A a \in Known : \A t \in accounts'[a].teams : t \in TeamIds /\ teams'[t] # None
         /\ \A n \in TeamNames : SavedAliases[n] # None => aliases'[n] = SavedAliases[n]
  <1>1. PICK new \in Injection({n \in LegacyNames : Named(n) = {}}, TeamIds \ Existing) :
          LET TeamOf(n) == IF Named(n) = {} THEN new[n] ELSE CHOOSE t \in Named(n) : TRUE IN
            /\ teams' = [t \in TeamIds |->
                 IF \E n \in DOMAIN new : new[n] = t THEN CHOOSE n \in DOMAIN new : new[n] = t ELSE teams[t]]
            /\ accounts' = [a \in Accounts |->
                 IF a \notin Legacy THEN accounts[a]
                 ELSE [accounts[a] EXCEPT !.legacy = None,
                                          !.teams = IF accounts[a].legacy = None THEN {}
                                                    ELSE {TeamOf(accounts[a].legacy)}]]
            /\ aliases' = [n \in TeamNames |->
                 IF SavedAliases[n] = None /\ n \in LegacyNames THEN TeamOf(n) ELSE SavedAliases[n]]
    BY DEF MigrateTeams
  <1> DEFINE TeamOf(n) == IF Named(n) = {} THEN new[n] ELSE CHOOSE t \in Named(n) : TRUE
  <1> DEFINE Unnamed == {n \in LegacyNames : Named(n) = {}}
  <1>2. /\ teams' = [t \in TeamIds |->
             IF \E n \in DOMAIN new : new[n] = t THEN CHOOSE n \in DOMAIN new : new[n] = t ELSE teams[t]]
        /\ accounts' = [a \in Accounts |->
             IF a \notin Legacy THEN accounts[a]
             ELSE [accounts[a] EXCEPT !.legacy = None,
                                      !.teams = IF accounts[a].legacy = None THEN {} ELSE {TeamOf(accounts[a].legacy)}]]
        /\ aliases' = [n \in TeamNames |->
             IF SavedAliases[n] = None /\ n \in LegacyNames THEN TeamOf(n) ELSE SavedAliases[n]]
    BY <1>1
  <1>3. new \in [Unnamed -> TeamIds \ Existing] /\ DOMAIN new = Unnamed
    BY <1>1 DEF Injection
  <1>4. LegacyNames \subseteq TeamNames
    BY AccountParts DEF LegacyNames, Legacy
  <1>5. \A n \in LegacyNames : TeamOf(n) \in TeamIds
    <2> SUFFICES ASSUME NEW n \in LegacyNames PROVE TeamOf(n) \in TeamIds
      OBVIOUS
    <2>1. CASE Named(n) = {}
      BY <1>3, <2>1
    <2>2. CASE Named(n) # {}
      <3>1. (CHOOSE t \in Named(n) : TRUE) \in Named(n)
        BY <2>2
      <3> QED
        BY <2>2, <3>1 DEF Named, Existing
    <2> QED
      BY <2>1, <2>2
  <1>6. \A t \in TeamIds : teams'[t] \in TeamNames \cup {None} /\ (t \in Existing => teams'[t] # None)
    <2> SUFFICES ASSUME NEW t \in TeamIds
                 PROVE  teams'[t] \in TeamNames \cup {None} /\ (t \in Existing => teams'[t] # None)
      OBVIOUS
    <2>1. CASE \E n \in DOMAIN new : new[n] = t
      <3>1. (CHOOSE n \in DOMAIN new : new[n] = t) \in DOMAIN new
        BY <2>1
      <3> QED
        BY <1>2, <1>3, <1>4, <2>1, <3>1 DEF AccessAssumption
    <2>2. CASE ~\E n \in DOMAIN new : new[n] = t
      BY <1>2, <2>2 DEF AccessTypes, Existing
    <2> QED
      BY <2>1, <2>2
  <1>7. \A n \in LegacyNames : teams'[TeamOf(n)] # None
    <2> SUFFICES ASSUME NEW n \in LegacyNames PROVE teams'[TeamOf(n)] # None
      OBVIOUS
    <2>1. CASE Named(n) = {}
      <3> DEFINE t == new[n]
      <3>1. n \in DOMAIN new /\ t \in TeamIds
        BY <1>3, <2>1
      <3>2. (CHOOSE m \in DOMAIN new : new[m] = t) \in DOMAIN new
        BY <3>1
      <3>3. teams'[t] \in TeamNames
        <4> HIDE DEF t
        <4> QED
          BY <1>2, <1>3, <1>4, <3>1, <3>2 DEF t
      <3> QED
        BY <2>1, <3>3 DEF AccessAssumption
    <2>2. CASE Named(n) # {}
      <3>1. (CHOOSE t \in Named(n) : TRUE) \in Named(n)
        BY <2>2
      <3>2. TeamOf(n) \in Existing /\ TeamOf(n) \in TeamIds
        BY <2>2, <3>1 DEF Named, Existing
      <3> QED
        BY <1>6, <3>2
    <2> QED
      BY <2>1, <2>2
  <1> HIDE DEF TeamOf
  <1>8. teams' \in [TeamIds -> TeamNames \cup {None}]
    BY <1>2, <1>6
  <1>9. aliases' \in [TeamNames -> TeamIds \cup {None}] /\ \A n \in TeamNames : SavedAliases[n] # None => aliases'[n] = SavedAliases[n]
    BY <1>2, <1>5, SavedAliasesType
  <1>10. \A a \in Accounts : IF a \notin Legacy THEN accounts'[a] = accounts[a]
           ELSE LET joined == IF accounts[a].legacy = None THEN {} ELSE {TeamOf(accounts[a].legacy)} IN
                accounts'[a] = [teams |-> joined, enabled |-> accounts[a].enabled, legacy |-> None]
    <2> SUFFICES ASSUME NEW a \in Accounts, a \in Legacy
                 PROVE  LET joined == IF accounts[a].legacy = None THEN {} ELSE {TeamOf(accounts[a].legacy)} IN
                        accounts'[a] = [teams |-> joined, enabled |-> accounts[a].enabled, legacy |-> None]
      BY <1>2
    <2>1. accounts[a] \in AccountRecords
      BY AccountParts DEF Legacy
    <2>2. accounts'[a] = [accounts[a] EXCEPT !.legacy = None,
                                             !.teams = IF accounts[a].legacy = None THEN {} ELSE {TeamOf(accounts[a].legacy)}]
      BY <1>2
    <2> QED
      BY <2>1, <2>2 DEF AccountRecords
  <1>11. \A a \in Legacy : accounts[a].legacy # None => accounts[a].legacy \in LegacyNames
    BY DEF LegacyNames
  <1>12. \A a \in Legacy : /\ accounts'[a] \in AccountRecords /\ accounts'[a].enabled = accounts[a].enabled
                           /\ accounts'[a].teams \in SUBSET TeamIds
                           /\ \A t \in accounts'[a].teams : t \in TeamIds /\ teams'[t] # None
    <2> SUFFICES ASSUME NEW a \in Legacy
                 PROVE  /\ accounts'[a] \in AccountRecords /\ accounts'[a].enabled = accounts[a].enabled
                        /\ accounts'[a].teams \in SUBSET TeamIds
                        /\ \A t \in accounts'[a].teams : t \in TeamIds /\ teams'[t] # None
      OBVIOUS
    <2> DEFINE joined == IF accounts[a].legacy = None THEN {} ELSE {TeamOf(accounts[a].legacy)}
    <2>1. joined \in SUBSET TeamIds /\ \A t \in joined : teams'[t] # None
      BY <1>5, <1>7, <1>11
    <2>2. a \in Known /\ a \in Accounts
      BY DEF Legacy, Known
    <2>3. accounts'[a] = [teams |-> joined, enabled |-> accounts[a].enabled, legacy |-> None]
      BY <1>10, <2>2
    <2>4. accounts[a].enabled \in BOOLEAN
      BY <2>2, AccountParts
    <2> HIDE DEF joined
    <2> QED
      BY <2>1, <2>3, <2>4 DEF AccountRecords
  <1>13. \A a \in Accounts \ Legacy : accounts'[a] = accounts[a]
    BY <1>10
  <1>14. Legacy \subseteq Known /\ Known \subseteq Accounts /\ \A a \in Known : a \notin Legacy => accounts[a].teams # None
    BY DEF Legacy, Known
  <1>15. \A a \in Accounts : accounts'[a] = None <=> accounts[a] = None
    BY <1>12, <1>13, <1>14 DEF AccessAssumption, Known
  <1>16. accounts' \in [Accounts -> AccountRecords \cup {None}]
    <2>1. \A a \in Accounts : accounts'[a] \in AccountRecords \cup {None}
      BY <1>12, <1>13 DEF AccessTypes
    <2> QED
      BY <1>2, <2>1
  <1>17. \A a \in Known : accounts'[a].enabled = accounts[a].enabled /\ accounts'[a].teams # None
    BY <1>12, <1>13, <1>14 DEF AccessAssumption
  <1>18. \A a \in Known \ Legacy : \A t \in accounts'[a].teams : t \in TeamIds /\ teams'[t] # None
    <2>1. \A a \in Known \ Legacy : accounts'[a] = accounts[a] /\ accounts[a].teams \subseteq Existing
      BY <1>13, <1>14 DEF MembersInv
    <2> QED
      BY <1>6, <2>1 DEF Existing
  <1> QED
    BY <1>8, <1>9, <1>12, <1>15, <1>16, <1>17, <1>18

-----------------------------------------------------------------------------
(* The steps.                                                              *)

LEMMA AccessBegins ==
  ASSUME AccessAssumption, AccessInit
  PROVE  AccessInv
  <1>1. PICK p \in AccessPlans : accounts = p.accounts /\ teams = p.teams
    BY DEF AccessInit
  <1>2. FoundAtFirst(p)
    BY DEF AccessAssumption
  <1>3. /\ aliases = None /\ tokens = [k \in Tokens |-> None] /\ serving = FALSE /\ requests = {}
        /\ unrefreshed = FALSE /\ shown = [a \in Accounts |-> None]
    BY DEF AccessInit
  <1>4. AccessTypes
    BY <1>1, <1>2, <1>3 DEF AccessTypes, FoundAtFirst
  <1>5. MembersInv
    <2>1. \A a \in Known : accounts[a].teams # None => accounts[a].teams \subseteq TeamIds
      BY <1>4, AccountParts
    <2>2. \A a \in Known : accounts[a].teams # None => \A t \in accounts[a].teams : teams[t] # None
      BY <1>1, <1>2 DEF FoundAtFirst, Known
    <2> QED
      BY <1>3, <2>1, <2>2 DEF MembersInv, Existing
  <1>6. TokensInv /\ BoardInv
    BY <1>3 DEF TokensInv, BoardInv, TeamsAreCurrent
  <1> QED
    BY <1>4, <1>5, <1>6 DEF AccessInv

\* A token is refused for as long as it is revoked or expired, or its account is disabled.
Refused(k) == tokens[k] # None /\ ~Active(k)

\* What a step may do to tokens and aliases.
Lasting == /\ \A k \in Tokens : Refused(k) => Refused(k)'
           /\ aliases # None => \A n \in TeamNames : aliases[n] # None => aliases'[n] = aliases[n]

\* The collections stay: only the handlers and the board change.
LEMMA DatabaseStays ==
  ASSUME AccessAssumption, AccessInv, UNCHANGED database, serving' \in BOOLEAN, serving' => serving,
         unrefreshed' \in BOOLEAN, BoardInv', shown' \in [Accounts -> (SUBSET (TeamIds \X TeamNames)) \cup {None}]
  PROVE  AccessInv' /\ Lasting
  <1>1. UNCHANGED <<accounts, teams, aliases, tokens>>
    BY DEF database
  <1>2. Known' = Known /\ Existing' = Existing
    BY <1>1 DEF Known, Existing
  <1>3. AccessTypes'
    BY <1>1 DEF AccessInv, AccessTypes
  <1>4. MembersInv'
    BY <1>1, <1>2 DEF AccessInv, MembersInv
  <1>5. TokensInv'
    BY <1>1, <1>2 DEF AccessInv, TokensInv
  <1>6. Lasting
    BY <1>1 DEF Lasting, Refused, Active
  <1> QED
    BY <1>3, <1>4, <1>5, <1>6 DEF AccessInv

LEMMA StartStep ==
  ASSUME AccessAssumption, AccessInv, Start
  PROVE  AccessInv' /\ Lasting
  <1>1. AccessTypes /\ MembersInv /\ TokensInv /\ BoardInv
    BY DEF AccessInv
  <1>2. ~serving /\ serving' = TRUE /\ MigrateTeams /\ UNCHANGED <<tokens, requests, shown, unrefreshed>>
    BY DEF Start
  <1>3. /\ accounts' \in [Accounts -> AccountRecords \cup {None}] /\ teams' \in [TeamIds -> TeamNames \cup {None}]
        /\ aliases' \in [TeamNames -> TeamIds \cup {None}]
        /\ \A a \in Accounts : accounts'[a] = None <=> accounts[a] = None
        /\ \A a \in Known : accounts'[a].enabled = accounts[a].enabled /\ accounts'[a].teams # None
        /\ \A a \in Known : \A t \in accounts'[a].teams : t \in TeamIds /\ teams'[t] # None
        /\ \A n \in TeamNames : SavedAliases[n] # None => aliases'[n] = SavedAliases[n]
    BY <1>1, <1>2, Migrated
  <1>4. Known' = Known
    BY <1>3 DEF Known
  <1>5. AccessTypes'
    BY <1>1, <1>2, <1>3 DEF AccessTypes
  <1>6. MembersInv'
    BY <1>3, <1>4 DEF MembersInv, Existing
  <1>7. TokensInv'
    BY <1>1, <1>2, <1>3, <1>4 DEF TokensInv
  <1>8. BoardInv'
    <2>1. requests' = {} /\ \A a \in Accounts : shown'[a] = None
      BY <1>1, <1>2 DEF BoardInv
    <2> QED
      BY <2>1, <1>2 DEF BoardInv, TeamsAreCurrent, Known
  <1>9. Lasting
    <2>1. \A k \in Tokens : Refused(k) => Refused(k)'
      BY <1>1, <1>2, <1>3 DEF Refused, Active, TokensInv
    <2>2. aliases # None => SavedAliases = aliases
      BY DEF SavedAliases
    <2> QED
      BY <1>3, <2>1, <2>2 DEF Lasting
  <1> QED
    BY <1>5, <1>6, <1>7, <1>8, <1>9 DEF AccessInv

LEMMA RestartStep ==
  ASSUME AccessAssumption, AccessInv, Restart
  PROVE  AccessInv' /\ Lasting
  <1>1. /\ UNCHANGED database /\ serving' = FALSE /\ unrefreshed' = FALSE
        /\ shown' = [a \in Accounts |-> None] /\ requests' = {}
    BY DEF Restart
  <1>2. BoardInv'
    BY <1>1 DEF BoardInv, TeamsAreCurrent
  <1>3. shown' \in [Accounts -> (SUBSET (TeamIds \X TeamNames)) \cup {None}]
    BY <1>1
  <1> QED
    BY <1>1, <1>2, <1>3, DatabaseStays

\* The board is written from the teams of today.
LEMMA BoardStep ==
  ASSUME AccessAssumption, AccessInv,
         RefreshTeams \/ (\E request \in requests : IngestEvent(request)) \/ (\E k \in Tokens : Authenticate(k))
  PROVE  AccessInv' /\ Lasting
  <1>1. AccessTypes /\ TokensInv /\ BoardInv /\ serving
    BY DEF AccessInv, RefreshTeams, IngestEvent, Authenticate
  <1>2. UNCHANGED database /\ UNCHANGED serving
    BY DEF RefreshTeams, IngestEvent, Authenticate
  <1>3. UNCHANGED <<accounts, teams, aliases, tokens>> /\ Known' = Known
    BY <1>2 DEF database, Known
  <1>4. \A a \in Accounts : TeamsForAccount(a)' = TeamsForAccount(a) /\ TeamsForAccount(a) \in SUBSET (TeamIds \X TeamNames)
    BY <1>1, <1>3, SameTeams, TeamsType
  <1>5. Known \subseteq Accounts
    BY DEF Known
  <1>6. ASSUME RefreshTeams PROVE AccessInv' /\ Lasting
    <2>1. /\ unrefreshed' = FALSE /\ requests' = requests
          /\ shown' = [a \in Accounts |-> IF shown[a] = None THEN None ELSE TeamsForAccount(a)]
      BY <1>6 DEF RefreshTeams
    <2>2. shown' \in [Accounts -> (SUBSET (TeamIds \X TeamNames)) \cup {None}]
      BY <1>4, <2>1
    <2>3. BoardInv'
      BY <1>1, <1>2, <1>3, <1>4, <1>5, <2>1 DEF BoardInv, TeamsAreCurrent
    <2> QED
      BY <1>1, <1>2, <2>1, <2>2, <2>3, DatabaseStays DEF AccessTypes
  <1>7. ASSUME NEW request \in requests, IngestEvent(request) PROVE AccessInv' /\ Lasting
    <2> DEFINE owner == request.account
    <2>1. owner \in Known
      BY <1>1 DEF BoardInv
    <2>2. /\ unrefreshed' = unrefreshed /\ requests' = requests \ {request}
          /\ shown' = [shown EXCEPT ![owner] = TeamsForAccount(owner)]
      BY <1>7 DEF IngestEvent, AttributedTeams
    <2> HIDE DEF owner
    <2>3. shown \in [Accounts -> (SUBSET (TeamIds \X TeamNames)) \cup {None}] /\ unrefreshed \in BOOLEAN
      BY <1>1 DEF AccessTypes
    <2>4. shown' \in [Accounts -> (SUBSET (TeamIds \X TeamNames)) \cup {None}]
      BY <1>4, <1>5, <2>1, <2>2, <2>3
    <2>5. \A a \in Accounts : shown'[a] = IF a = owner THEN TeamsForAccount(a) ELSE shown[a]
      BY <2>2, <2>3
    <2>6. BoardInv'
      BY <1>1, <1>2, <1>3, <1>4, <1>5, <2>2, <2>5 DEF BoardInv, TeamsAreCurrent
    <2> QED
      BY <1>1, <1>2, <2>2, <2>3, <2>4, <2>6, DatabaseStays
  <1>8. ASSUME NEW k \in Tokens, Authenticate(k) PROVE AccessInv' /\ Lasting
    <2>1. /\ UNCHANGED <<shown, unrefreshed>> /\ tokens[k] # None
          /\ requests' = requests \cup {[token |-> k, account |-> tokens[k].account, teams |-> TeamsForAccount(tokens[k].account)]}
      BY <1>8 DEF Authenticate, Active
    <2>2. tokens[k].account \in Known
      BY <1>1, <2>1 DEF TokensInv
    <2>3. \A request \in requests' : request.account \in Known
      BY <1>1, <2>1, <2>2 DEF BoardInv
    <2>4. BoardInv'
      BY <1>1, <1>2, <1>3, <1>4, <1>5, <2>1, <2>3 DEF BoardInv, TeamsAreCurrent
    <2> QED
      BY <1>1, <1>2, <2>1, <2>4, DatabaseStays DEF AccessTypes
  <1> QED
    BY <1>6, <1>7, <1>8

\* A change of a team: nobody is in a team that is removed, and the board is to be refreshed.
LEMMA TeamStep ==
  ASSUME AccessAssumption, AccessInv, NEW t \in TeamIds,
         (\E n \in TeamNames : SaveTeam(t, n)) \/ RemoveTeam(t)
  PROVE  AccessInv' /\ Lasting
  <1>1. AccessTypes /\ MembersInv /\ TokensInv /\ BoardInv /\ serving
    BY DEF AccessInv, SaveTeam, RemoveTeam
  <1>2. UNCHANGED <<accounts, aliases, tokens, serving, requests, shown>> /\ unrefreshed' = TRUE
    BY DEF SaveTeam, RemoveTeam
  <1>3. PICK name \in TeamNames \cup {None} : /\ teams' = [teams EXCEPT ![t] = name]
                                              /\ name = None => ~Assigned(t)
    BY DEF SaveTeam, RemoveTeam, AccessAssumption
  <1>4. Known' = Known
    BY <1>2 DEF Known
  <1>5. teams' \in [TeamIds -> TeamNames \cup {None}] /\ \A other \in TeamIds : teams'[other] = IF other = t THEN name ELSE teams[other]
    BY <1>1, <1>3 DEF AccessTypes
  <1>6. AccessTypes'
    BY <1>1, <1>2, <1>5 DEF AccessTypes
  <1>7. MembersInv'
    <2>1. \A a \in Known : accounts[a].teams # None /\ accounts[a].teams \subseteq Existing
      BY <1>1 DEF MembersInv
    <2>2. \A a \in Known : \A x \in accounts[a].teams : teams'[x] # None
      BY <1>3, <1>5, <2>1 DEF Assigned, Existing
    <2> QED
      BY <1>2, <1>4, <2>1, <2>2 DEF MembersInv, Existing
  <1>8. TokensInv'
    BY <1>1, <1>2, <1>4 DEF TokensInv
  <1>9. BoardInv'
    BY <1>1, <1>2, <1>4 DEF BoardInv, TeamsAreCurrent
  <1>10. Lasting
    BY <1>2 DEF Lasting, Refused, Active
  <1> QED
    BY <1>6, <1>7, <1>8, <1>9, <1>10 DEF AccessInv

\* An account that is saved as disabled loses its tokens.
LEMMA AccountStep ==
  ASSUME AccessAssumption, AccessInv, NEW a \in Accounts, NEW ids \in SUBSET TeamIds, NEW enabled \in BOOLEAN,
         SaveAccount(a, ids, enabled)
  PROVE  AccessInv' /\ Lasting
  <1> DEFINE saved == [teams |-> ids, enabled |-> enabled, legacy |-> None]
  <1>1. AccessTypes /\ MembersInv /\ TokensInv /\ BoardInv /\ serving
    BY DEF AccessInv, SaveAccount
  <1>2. /\ UNCHANGED <<teams, aliases, serving, requests, shown>> /\ unrefreshed' = TRUE
        /\ accounts' = [accounts EXCEPT ![a] = saved] /\ ids \subseteq Existing /\ tokens' = RevokedWith(a, enabled)
    BY DEF SaveAccount
  <1>3. saved \in AccountRecords /\ saved.teams = ids /\ saved.enabled = enabled
    BY DEF AccountRecords
  <1>4. saved # None /\ ids # None
    BY <1>3 DEF AccessAssumption
  <1> HIDE DEF saved
  <1>5. /\ accounts' \in [Accounts -> AccountRecords \cup {None}]
        /\ \A b \in Accounts : accounts'[b] = IF b = a THEN saved ELSE accounts[b]
    BY <1>1, <1>2, <1>3 DEF AccessTypes
  <1>6. Known' = Known \cup {a}
    BY <1>4, <1>5 DEF Known
  <1>7. \A k \in Tokens :
          IF ~enabled /\ tokens[k] # None /\ tokens[k].account = a
          THEN /\ tokens'[k] \in TokenRecords /\ tokens'[k].account = a /\ tokens'[k].revoked = TRUE
          ELSE tokens'[k] = tokens[k]
    <2> SUFFICES ASSUME NEW k \in Tokens
                 PROVE  IF ~enabled /\ tokens[k] # None /\ tokens[k].account = a
                        THEN /\ tokens'[k] \in TokenRecords /\ tokens'[k].account = a /\ tokens'[k].revoked = TRUE
                        ELSE tokens'[k] = tokens[k]
      OBVIOUS
    <2>1. tokens'[k] = IF ~enabled /\ tokens[k] # None /\ tokens[k].account = a
                       THEN [tokens[k] EXCEPT !.revoked = TRUE] ELSE tokens[k]
      BY <1>2 DEF RevokedWith
    <2>2. tokens[k] # None => tokens[k] \in TokenRecords
      BY <1>1, TokenParts
    <2> QED
      BY <2>1, <2>2 DEF TokenRecords
  <1>8. \A k \in Tokens : tokens'[k] = None <=> tokens[k] = None
    BY <1>7 DEF AccessAssumption
  <1>9. tokens' \in [Tokens -> TokenRecords \cup {None}]
    <2>1. tokens \in [Tokens -> TokenRecords \cup {None}] /\ DOMAIN tokens' = Tokens
      BY <1>1, <1>2 DEF AccessTypes, RevokedWith
    <2>2. \A k \in Tokens : tokens'[k] \in TokenRecords \cup {None}
      BY <1>7, <2>1
    <2>3. tokens' = [k \in Tokens |-> tokens'[k]]
      BY <1>2 DEF RevokedWith
    <2> QED
      BY <2>2, <2>3
  <1>10. AccessTypes'
    BY <1>1, <1>2, <1>5, <1>9 DEF AccessTypes
  <1>11. Existing' = Existing /\ Known \subseteq Accounts
    BY <1>2 DEF Existing, Known
  <1>12. MembersInv'
    BY <1>1, <1>2, <1>3, <1>4, <1>5, <1>6, <1>11 DEF MembersInv
  <1>13. \A k \in Tokens : tokens[k] # None => tokens[k].account \in Known
    BY <1>1 DEF TokensInv
  <1>14. TokensInv'
    <2> SUFFICES ASSUME NEW k \in Tokens, tokens'[k] # None
                 PROVE  /\ tokens'[k].account \in Known'
                        /\ ~accounts'[tokens'[k].account].enabled => tokens'[k].revoked
      BY DEF TokensInv
    <2>1. tokens[k] # None /\ tokens[k].account \in Accounts
      BY <1>8, <1>11, <1>13
    <2>2. CASE tokens[k].account = a
      BY <1>1, <1>3, <1>5, <1>6, <1>7, <2>1, <2>2
    <2>3. CASE tokens[k].account # a
      BY <1>1, <1>5, <1>6, <1>7, <2>1, <2>3 DEF TokensInv
    <2> QED
      BY <2>2, <2>3
  <1>15. BoardInv'
    BY <1>1, <1>2, <1>6 DEF BoardInv, TeamsAreCurrent
  <1>16. Lasting
    <2>1. \A k \in Tokens : Refused(k) => Refused(k)'
      <3> SUFFICES ASSUME NEW k \in Tokens, Refused(k) PROVE Refused(k)'
        OBVIOUS
      <3>1. tokens[k] # None /\ tokens[k].account \in Accounts /\ tokens'[k] # None
        BY <1>8, <1>11, <1>13 DEF Refused
      <3>2. CASE ~enabled /\ tokens[k].account = a
        BY <1>7, <3>1, <3>2 DEF Refused, Active
      <3>3. CASE ~(~enabled /\ tokens[k].account = a)
        <4>1. tokens'[k] = tokens[k]
          BY <1>7, <3>3
        <4>2. tokens[k].revoked \/ tokens[k].expired
          BY <1>1, <3>1 DEF Refused, Active, TokensInv
        <4> QED
          BY <3>1, <4>1, <4>2 DEF Refused, Active
      <3> QED
        BY <3>2, <3>3
    <2> QED
      BY <1>2, <2>1 DEF Lasting
  <1> QED
    BY <1>10, <1>12, <1>14, <1>15, <1>16 DEF AccessInv

\* A token is given to an account that is enabled; afterwards it can only be refused.
LEMMA TokenStep ==
  ASSUME AccessAssumption, AccessInv, NEW k \in Tokens, (\E a \in Accounts : Issue(k, a)) \/ Revoke(k) \/ Expire(k)
  PROVE  AccessInv' /\ Lasting
  <1>1. AccessTypes /\ MembersInv /\ TokensInv /\ BoardInv
    BY DEF AccessInv
  <1>2. UNCHANGED <<accounts, teams, aliases, serving, requests, shown, unrefreshed>>
    BY DEF Issue, Revoke, Expire
  <1>3. Known' = Known /\ Existing' = Existing /\ Known \subseteq Accounts
    BY <1>2 DEF Known, Existing
  <1>4. \E token \in TokenRecords :
          /\ tokens' = [tokens EXCEPT ![k] = token] /\ token.account \in Known
          /\ ~accounts[token.account].enabled => token.revoked
          /\ tokens[k] # None => token.account = tokens[k].account /\ (token.revoked \/ token.expired)
                                  /\ (tokens[k].revoked => token.revoked)
    <2>1. ASSUME NEW a \in Accounts, Issue(k, a)
          PROVE  LET token == [account |-> a, revoked |-> FALSE, expired |-> FALSE] IN
                 /\ token \in TokenRecords /\ tokens' = [tokens EXCEPT ![k] = token] /\ a \in Known
                 /\ accounts[a].enabled /\ tokens[k] = None
      BY <2>1 DEF Issue, TokenRecords
    <2>2. ASSUME Revoke(k)
          PROVE  LET token == [tokens[k] EXCEPT !.revoked = TRUE] IN
                 /\ token \in TokenRecords /\ tokens' = [tokens EXCEPT ![k] = token]
                 /\ token.account = tokens[k].account /\ token.revoked /\ tokens[k] # None
      <3>1. tokens[k] \in TokenRecords
        BY <1>1, <2>2, TokenParts DEF Revoke
      <3> QED
        BY <2>2, <3>1 DEF Revoke, TokenRecords
    <2>3. ASSUME Expire(k)
          PROVE  LET token == [tokens[k] EXCEPT !.expired = TRUE] IN
                 /\ token \in TokenRecords /\ tokens' = [tokens EXCEPT ![k] = token]
                 /\ token.account = tokens[k].account /\ token.expired /\ token.revoked = tokens[k].revoked /\ tokens[k] # None
      <3>1. tokens[k] \in TokenRecords
        BY <1>1, <2>3, TokenParts DEF Expire
      <3> QED
        BY <2>3, <3>1 DEF Expire, TokenRecords
    <2>4. tokens[k] # None => tokens[k].account \in Known /\ (~accounts[tokens[k].account].enabled => tokens[k].revoked)
      BY <1>1 DEF TokensInv
    <2> QED
      BY <2>1, <2>2, <2>3, <2>4
  <1>5. PICK token \in TokenRecords :
          /\ tokens' = [tokens EXCEPT ![k] = token] /\ token.account \in Known
          /\ ~accounts[token.account].enabled => token.revoked
          /\ tokens[k] # None => token.account = tokens[k].account /\ (token.revoked \/ token.expired)
                                  /\ (tokens[k].revoked => token.revoked)
    BY <1>4
  <1>6. tokens' \in [Tokens -> TokenRecords \cup {None}] /\ \A x \in Tokens : tokens'[x] = IF x = k THEN token ELSE tokens[x]
    BY <1>1, <1>5 DEF AccessTypes
  <1>7. AccessTypes'
    BY <1>1, <1>2, <1>6 DEF AccessTypes
  <1>8. MembersInv'
    BY <1>1, <1>2, <1>3 DEF MembersInv
  <1>9. TokensInv'
    BY <1>1, <1>2, <1>3, <1>5, <1>6 DEF TokensInv
  <1>10. BoardInv'
    <2>1. \A a \in Accounts : TeamsForAccount(a)' = TeamsForAccount(a)
      BY <1>2, SameTeams
    <2> QED
      BY <1>1, <1>2, <1>3, <2>1 DEF BoardInv, TeamsAreCurrent
  <1>11. Lasting
    <2>1. token # None
      BY DEF AccessAssumption
    <2> QED
      BY <1>2, <1>5, <1>6, <2>1 DEF Lasting, Refused, Active
  <1> QED
    BY <1>7, <1>8, <1>9, <1>10, <1>11 DEF AccessInv

LEMMA AccessStep ==
  ASSUME AccessAssumption, AccessInv, [AccessNext]_accessVars
  PROVE  AccessInv' /\ Lasting
  <1>1. CASE UNCHANGED accessVars
    <2>1. UNCHANGED database /\ UNCHANGED <<serving, requests, shown, unrefreshed>> /\ AccessTypes /\ BoardInv
      BY <1>1 DEF accessVars, AccessInv
    <2>2. UNCHANGED <<accounts, teams>> /\ Known' = Known /\ Known \subseteq Accounts
      BY <2>1 DEF database, Known
    <2>3. \A a \in Accounts : TeamsForAccount(a)' = TeamsForAccount(a)
      BY <2>2, SameTeams
    <2>4. BoardInv'
      BY <2>1, <2>2, <2>3 DEF BoardInv, TeamsAreCurrent
    <2> QED
      BY <2>1, <2>4, DatabaseStays DEF AccessTypes
  <1>2. CASE Start \/ Restart
    BY <1>2, StartStep, RestartStep
  <1>3. CASE RefreshTeams \/ (\E request \in requests : IngestEvent(request)) \/ (\E k \in Tokens : Authenticate(k))
    BY <1>3, BoardStep
  <1>4. ASSUME NEW t \in TeamIds, (\E n \in TeamNames : SaveTeam(t, n)) \/ RemoveTeam(t) PROVE AccessInv' /\ Lasting
    BY <1>4, TeamStep
  <1>5. ASSUME NEW a \in Accounts, NEW ids \in SUBSET TeamIds, NEW enabled \in BOOLEAN, SaveAccount(a, ids, enabled)
        PROVE  AccessInv' /\ Lasting
    BY <1>5, AccountStep
  <1>6. ASSUME NEW k \in Tokens, (\E a \in Accounts : Issue(k, a)) \/ Revoke(k) \/ Expire(k) PROVE AccessInv' /\ Lasting
    BY <1>6, TokenStep
  <1> QED
    BY <1>1, <1>2, <1>3, <1>4, <1>5, <1>6 DEF AccessNext

-----------------------------------------------------------------------------
(* The theorems.                                                           *)

\* What holds between accounts, teams, tokens and the board after every operation of
\* access/store.ts, every request and every start of the server.
THEOREM AccessInvariant == AccessSpec => []AccessInv
  <1> USE AccessHypothesis
  <1>1. AccessInit => AccessInv
    BY AccessBegins
  <1>2. AccessInv /\ [AccessNext]_accessVars => AccessInv'
    BY AccessStep
  <1> QED
    BY <1>1, <1>2, PTL DEF AccessSpec

\* A token that was refused is refused for good (saveAccount, revoke), a name of older records
\* stands for one team (migrateTeams), accounts are in teams that exist (removeTeam), and the
\* board shows the teams of today once it is refreshed (ingestEvent, refreshTeams).
THEOREM AccessIsSafe == AccessSpec => AccessHolds
  <1> USE AccessHypothesis
  <1> DEFINE Refuses == \A k \in Tokens : tokens[k] # None /\ ~Active(k) => ~Active(k)'
  <1> DEFINE Names == aliases # None => \A n \in TeamNames : aliases[n] # None => aliases'[n] = aliases[n]
  <1>1. AccessInv => TeamsExist /\ TeamsAreCurrent
    BY DEF AccessInv, MembersInv, BoardInv, TeamsExist
  <1>2. AccessInv /\ [AccessNext]_accessVars => [Refuses]_accessVars
    BY AccessStep DEF Lasting, Refused
  <1>3. AccessInv /\ [AccessNext]_accessVars => [Names]_accessVars
    BY AccessStep DEF Lasting
  <1>4. AccessSpec => [](TeamsExist /\ TeamsAreCurrent)
    BY <1>1, AccessInvariant, PTL
  <1>5. AccessSpec => [][Refuses]_accessVars
    BY <1>2, AccessInvariant, PTL DEF AccessSpec
  <1>6. AccessSpec => [][Names]_accessVars
    BY <1>3, AccessInvariant, PTL DEF AccessSpec
  <1> QED
    BY <1>4, <1>5, <1>6 DEF AccessHolds, RefusedForGood, AliasesStay

-----------------------------------------------------------------------------
(***************************************************************************)
(* A repository and its project stay together, code access counts as       *)
(* verified only of the project as it is, and historical projects keep     *)
(* their checkout: a proof for any repositories, projects and remotes, and *)
(* any number of saves, checks and restarts.                               *)
(*                                                                         *)
(* The argument.  The first start gives every repository a project, that   *)
(* of its aliases if it has any, and no step removes one: a later start    *)
(* finds nothing to do, and a project that does not exist is linked to     *)
(* nobody, so a new one can be linked.  A save gives the project the       *)
(* remote of the repository it saves, one of those linked (MatchInv).  A   *)
(* verdict is kept with the project it is about, so an answer that comes   *)
(* late does not fit the edited one (VerdictInv).                          *)
(***************************************************************************)

Verdicts == [fingerprint : ProjectRecords, ready : BOOLEAN]

RegistryTypes ==
  /\ registered \in [Repositories -> RepositoryRecords \cup {None}]
  /\ projects \in [Projects -> ProjectRecords \cup {None}]
  /\ codeCheck \in [Projects -> Verdicts \cup {None}]
  /\ checks \in SUBSET [repository : Repositories, project : Projects, was : ProjectRecords]
  /\ imported \in BOOLEAN /\ open \in BOOLEAN /\ file \in SUBSET Projects

\* After the first start a repository has a project; before and after, a project that is
\* fetched is fetched from the remote of a repository linked to it.
MatchInv ==
  /\ imported => \A r \in Registered :
       registered[r].project \in Projects /\ projects[registered[r].project] # None
  /\ \A p \in Projects : Managed(p) =>
       \E r \in Registered : registered[r].project = p /\ registered[r].remote = projects[p].remote

\* Historical projects: there from the import on, never fetched.
HistoryInv ==
  /\ open => imported
  /\ ~imported => \A p \in Projects : projects[p] = None
  /\ \A p \in file : /\ imported => projects[p] # None
                     /\ projects[p] # None => projects[p].remote = None

\* A verdict that reached the code did so of the project it is kept with.
VerdictInv == \A p \in Projects :
  codeCheck[p] # None /\ codeCheck[p].ready => <<p, codeCheck[p].fingerprint>> \in reachable

RegistryInv == RegistryTypes /\ MatchInv /\ HistoryInv /\ VerdictInv

-----------------------------------------------------------------------------
(* Records.                                                                *)

LEMMA RepositoryParts ==
  ASSUME RegistryAssumption, RegistryTypes, NEW r \in Registered
  PROVE  /\ r \in Repositories /\ registered[r] \in RepositoryRecords /\ registered[r].remote \in Remotes
         /\ registered[r].project \in Projects \cup {None} /\ registered[r].enabled \in BOOLEAN
<1>1. r \in Repositories /\ registered[r] \in RepositoryRecords
  BY DEF Registered, RegistryTypes
<1> QED
  BY <1>1 DEF RepositoryRecords

LEMMA ProjectParts ==
  ASSUME RegistryAssumption, RegistryTypes, NEW p \in Projects, projects[p] # None
  PROVE  projects[p] \in ProjectRecords /\ projects[p].remote \in Remotes \cup {None} /\ projects[p].version \in Nat
<1>1. projects[p] \in ProjectRecords
  BY DEF RegistryTypes
<1> QED
  BY <1>1 DEF ProjectRecords

-----------------------------------------------------------------------------
(* The steps.                                                              *)

LEMMA RegistryBegins == ASSUME RegistryAssumption, RegistryInit PROVE RegistryInv
<1>1. PICK plan \in RegistryPlans : registered = plan.registered /\ file = plan.file
  BY DEF RegistryInit
<1>2. FirstFound(plan)
  BY DEF RegistryAssumption
<1>3. /\ projects = [p \in Projects |-> None] /\ codeCheck = [p \in Projects |-> None]
      /\ imported = FALSE /\ checks = {} /\ open = FALSE
  BY DEF RegistryInit
<1>4. RegistryTypes
  BY <1>1, <1>2, <1>3 DEF RegistryTypes, FirstFound
<1> QED
  BY <1>1, <1>2, <1>3, <1>4 DEF RegistryInv, MatchInv, HistoryInv, VerdictInv, FirstFound, Managed

\* The start: afterwards every repository has a project, and what was there stays.
LEMMA StartRegistryStep ==
  ASSUME RegistryAssumption, RegistryInv, StartRegistry
  PROVE  /\ RegistryInv'
         /\ \A p \in Projects : projects[p] # None => projects'[p] = projects[p]
         /\ \A p \in Projects : Linked(p) # {} => Linked(p)' = Linked(p)
<1> DEFINE unnamed == {r \in Registered : registered[r].project = None}
           missing == {r \in Registered \ unnamed : Imported[registered[r].project] = None}
           made == unnamed \cup missing
           unlinked == {p \in Projects : Imported[p] = None /\ Linked(p) = {}}
           ProjectOf(new, r) == IF r \in unnamed THEN new[r] ELSE registered[r].project
           claimed(new) == {ProjectOf(new, r) : r \in made}
<1>1. RegistryTypes /\ MatchInv /\ HistoryInv /\ VerdictInv
  BY DEF RegistryInv
<1>2. open' = TRUE /\ imported' = TRUE /\ UNCHANGED <<codeCheck, checks, file, reachable>>
  BY DEF StartRegistry
<1>3. PICK new \in Injection(unnamed, unlinked) :
        /\ \E first \in [claimed(new) -> made] :
             /\ \A p \in claimed(new) : ProjectOf(new, first[p]) = p
             /\ projects' = [p \in Projects |->
                  IF p \in claimed(new) THEN [remote |-> registered[first[p]].remote, version |-> 0] ELSE Imported[p]]
        /\ registered' = [r \in Repositories |->
             IF r \in made THEN [registered[r] EXCEPT !.project = ProjectOf(new, r)] ELSE registered[r]]
  BY DEF StartRegistry
<1>30. PICK first \in [claimed(new) -> made] :
         /\ \A p \in claimed(new) : ProjectOf(new, first[p]) = p
         /\ projects' = [p \in Projects |->
              IF p \in claimed(new) THEN [remote |-> registered[first[p]].remote, version |-> 0] ELSE Imported[p]]
  BY <1>3
<1> DEFINE Given(r) == ProjectOf(new, r)
<1>4. new \in [unnamed -> unlinked] /\ \A r, other \in unnamed : new[r] = new[other] => r = other
  BY <1>3 DEF Injection, IsInjective
<1>5. \A r \in Registered : r \in Repositories /\ registered[r].project \in Projects \cup {None} /\ registered[r].remote \in Remotes
  BY <1>1, RepositoryParts
<1>6. \A r \in Registered : Given(r) \in Projects /\ (r \in made => Imported[Given(r)] = None)
  BY <1>4, <1>5
<1>7. \A r \in unnamed : Given(r) \in unlinked
  BY <1>4
<1>8. Imported \in [Projects -> ProjectRecords \cup {None}]
  BY <1>1 DEF Imported, RegistryTypes, ProjectRecords
<1>9. \A p \in Projects : projects[p] # None => Imported[p] = projects[p]
  BY <1>1 DEF Imported, HistoryInv, RegistryTypes
<1>10. \A p \in file : p \in Projects /\ Imported[p] # None /\ Imported[p].remote = None
  <2>1. [remote |-> None, version |-> 0] \in ProjectRecords
    BY DEF ProjectRecords
  <2> QED
    BY <1>1, <2>1 DEF Imported, HistoryInv, RegistryTypes, RegistryAssumption
<1>11. ASSUME NEW p \in Projects
       PROVE  /\ (\E r \in made : Given(r) = p) =>
                   \E r \in made : Given(r) = p /\ projects'[p] = [remote |-> registered[r].remote, version |-> 0]
              /\ (~\E r \in made : Given(r) = p) => projects'[p] = Imported[p]
  <2>1. CASE \E r \in made : Given(r) = p
    <3>1. p \in claimed(new)
      BY <2>1
    <3>2. first[p] \in made /\ Given(first[p]) = p
      BY <1>30, <3>1
    <3>3. projects'[p] = [remote |-> registered[first[p]].remote, version |-> 0]
      BY <1>30, <3>1
    <3> QED
      BY <2>1, <3>2, <3>3
  <2>2. CASE ~\E r \in made : Given(r) = p
    BY <1>30, <2>2
  <2> QED
    BY <2>1, <2>2
<1>12. \A r \in made : [remote |-> registered[r].remote, version |-> 0] \in ProjectRecords
  BY <1>5 DEF ProjectRecords
<1>13. \A r \in Registered : IF r \in made
         THEN registered'[r] = [remote |-> registered[r].remote, project |-> Given(r), enabled |-> registered[r].enabled]
         ELSE registered'[r] = registered[r] /\ Given(r) = registered[r].project
  <2> SUFFICES ASSUME NEW r \in Registered, r \in made
               PROVE  registered'[r] = [remote |-> registered[r].remote, project |-> Given(r), enabled |-> registered[r].enabled]
    BY <1>3, <1>5
  <2>1. registered'[r] = [registered[r] EXCEPT !.project = Given(r)] /\ registered[r] \in RepositoryRecords
    BY <1>1, <1>3, <1>5, RepositoryParts
  <2> QED
    BY <2>1 DEF RepositoryRecords
<1>14. made \subseteq Registered
  OBVIOUS
<1>15. \A r \in Registered : r \notin made => Imported[registered[r].project] # None
  OBVIOUS
<1>16. /\ projects' = [p \in Projects |-> projects'[p]] /\ registered' = [r \in Repositories |-> registered'[r]]
      /\ \A r \in Repositories : r \notin made => registered'[r] = registered[r]
  BY <1>3, <1>30
<1>31. \A r \in Registered : r \notin unnamed => Given(r) = registered[r].project
  OBVIOUS
<1>32. \A r \in Registered : r \in unnamed => registered[r].project = None /\ Linked(Given(r)) = {}
  BY <1>7
<1> HIDE DEF Given, ProjectOf, claimed, unlinked, made, missing, unnamed
<1>17. \A r \in Registered : /\ registered'[r] \in RepositoryRecords /\ registered'[r].project = Given(r)
                             /\ registered'[r].remote = registered[r].remote
  <2> SUFFICES ASSUME NEW r \in Registered
               PROVE  /\ registered'[r] \in RepositoryRecords /\ registered'[r].project = Given(r)
                      /\ registered'[r].remote = registered[r].remote
    OBVIOUS
  <2>1. registered[r] \in RepositoryRecords /\ registered[r].enabled \in BOOLEAN
    BY <1>1, RepositoryParts
  <2>2. CASE r \in made
    <3>1. registered'[r] = [remote |-> registered[r].remote, project |-> Given(r), enabled |-> registered[r].enabled]
      BY <1>13, <2>2
    <3>2. Given(r) \in Projects \cup {None} /\ registered[r].remote \in Remotes
      BY <1>5, <1>6
    <3> QED
      BY <2>1, <3>1, <3>2 DEF RepositoryRecords
  <2>3. CASE r \notin made
    BY <1>13, <2>1, <2>3
  <2> QED
    BY <2>2, <2>3
<1>18. \A r \in Repositories : r \notin Registered => registered'[r] = None
  BY <1>14, <1>16 DEF Registered
<1>19. Registered' = Registered
  <2>1. \A r \in Registered : registered'[r] # None
    BY <1>17 DEF RegistryAssumption
  <2> QED
    BY <1>18, <2>1 DEF Registered
<1>20. RegistryTypes'
  <2>1. ASSUME NEW p \in Projects PROVE projects'[p] \in ProjectRecords \cup {None}
    <3>1. CASE \E r \in made : Given(r) = p
      BY <1>11, <1>12, <3>1
    <3>2. CASE ~\E r \in made : Given(r) = p
      BY <1>8, <1>11, <3>2
    <3> QED
      BY <3>1, <3>2
  <2>2. \A r \in Repositories : registered'[r] \in RepositoryRecords \cup {None}
    BY <1>17, <1>18
  <2>3. projects' = [p \in Projects |-> projects'[p]] /\ registered' = [r \in Repositories |-> registered'[r]]
    BY <1>16
  <2>4. projects' \in [Projects -> ProjectRecords \cup {None}] /\ registered' \in [Repositories -> RepositoryRecords \cup {None}]
    BY <2>1, <2>2, <2>3
  <2> QED
    BY <1>1, <1>2, <2>4 DEF RegistryTypes
<1>21. \A p \in Projects : Linked(p) # {} => Linked(p)' = Linked(p)
  <2>1. \A p \in Projects : Linked(p)' = {r \in Registered : Given(r) = p}
    BY <1>17, <1>19 DEF Linked
  <2>2. \A p \in Projects : Linked(p) # {} => {r \in Registered : Given(r) = p} = Linked(p)
    BY <1>31, <1>32 DEF Linked, RegistryAssumption
  <2> QED
    BY <2>1, <2>2
<1>22. \A p \in Projects : Imported[p] # None => projects'[p] = Imported[p]
  <2> SUFFICES ASSUME NEW p \in Projects, Imported[p] # None PROVE ~\E r \in made : Given(r) = p
    BY <1>11
  <2> QED
    BY <1>6, <1>14
<1>23. MatchInv'
  <2>1. ASSUME NEW r \in Registered PROVE Given(r) \in Projects /\ projects'[Given(r)] # None
    <3>1. CASE r \in made
      <4>1. Given(r) \in Projects
        BY <1>6, <2>1
      <4>2. PICK other \in made : projects'[Given(r)] = [remote |-> registered[other].remote, version |-> 0]
        BY <1>11, <3>1, <4>1
      <4>3. projects'[Given(r)] \in ProjectRecords
        BY <1>12, <4>2
      <4> QED
        BY <4>1, <4>3 DEF RegistryAssumption
    <3>2. CASE r \notin made
      <4>1. Given(r) = registered[r].project /\ Imported[Given(r)] # None
        BY <1>13, <1>15, <2>1, <3>2
      <4> QED
        BY <1>6, <1>22, <2>1, <4>1
    <3> QED
      BY <3>1, <3>2
  <2>2. ASSUME NEW p \in Projects, projects'[p] # None, projects'[p].remote # None
        PROVE  \E r \in Registered : Given(r) = p /\ registered[r].remote = projects'[p].remote
    <3>1. CASE \E r \in made : Given(r) = p
      <4>1. PICK r \in made : Given(r) = p /\ projects'[p] = [remote |-> registered[r].remote, version |-> 0]
        BY <1>11, <2>2, <3>1
      <4>2. projects'[p].remote = registered[r].remote
        BY <4>1
      <4> QED
        BY <1>14, <4>1, <4>2
    <3>2. CASE ~\E r \in made : Given(r) = p
      <4>1. projects'[p] = Imported[p]
        BY <1>11, <2>2, <3>2
      <4>2. Imported[p] = projects[p]
        BY <2>2, <4>1 DEF Imported
      <4>3. PICK r \in Registered : registered[r].project = p /\ registered[r].remote = projects[p].remote
        BY <1>1, <2>2, <4>1, <4>2 DEF MatchInv, Managed
      <4>4. Given(r) = p
        BY <1>31, <1>32, <4>3 DEF RegistryAssumption
      <4> QED
        BY <4>1, <4>2, <4>3, <4>4
    <3> QED
      BY <3>1, <3>2
  <2>3. /\ \A r \in Registered : registered'[r].project \in Projects /\ projects'[registered'[r].project] # None
        /\ \A p \in Projects : projects'[p] # None /\ projects'[p].remote # None =>
             \E r \in Registered : registered'[r].project = p /\ registered'[r].remote = projects'[p].remote
    BY <1>17, <2>1, <2>2
  <2> QED
    BY <1>19, <2>3 DEF MatchInv, Managed
<1>24. HistoryInv'
  BY <1>2, <1>10, <1>22 DEF HistoryInv
<1>25. VerdictInv'
  BY <1>1, <1>2 DEF VerdictInv
<1> QED
  BY <1>9, <1>20, <1>21, <1>23, <1>22, <1>24, <1>25 DEF RegistryInv

\* A save keeps every project, and its fetching or not; a repository that is new gets a
\* project nobody else has, the others keep theirs.
LEMMA SaveStep ==
  ASSUME RegistryAssumption, RegistryInv, NEW r \in Repositories, NEW link \in Projects \cup {None},
         NEW remote \in Remotes, NEW enabled \in BOOLEAN, NEW edit \in BOOLEAN, Save(r, link, remote, enabled, edit)
  PROVE  /\ RegistryInv'
         /\ \A p \in Projects : projects[p] # None => projects'[p] # None /\ (projects[p].remote = None => projects'[p].remote = None)
         /\ \A p \in Projects : Linked(p) # {} => Linked(p)' = Linked(p)
<1>1. RegistryTypes /\ MatchInv /\ HistoryInv /\ VerdictInv
  BY DEF RegistryInv
<1>2. open /\ imported /\ UNCHANGED <<imported, codeCheck, checks, open, file, reachable>>
  BY <1>1 DEF Save, HistoryInv
<1>3. PICK p \in Projects :
        /\ IF Target(r, link) = None THEN projects[p] = None ELSE p = Target(r, link)
        /\ projects' = [projects EXCEPT ![p] = IF @ = None THEN [remote |-> remote, version |-> 0] ELSE Edited(p, remote, edit)]
        /\ registered' = [registered EXCEPT ![r] = [remote |-> remote, project |-> p, enabled |-> enabled]]
  BY DEF Save
<1> DEFINE project == IF projects[p] = None THEN [remote |-> remote, version |-> 0] ELSE Edited(p, remote, edit)
           repository == [remote |-> remote, project |-> p, enabled |-> enabled]
<1>4. \A other \in Registered : /\ other \in Repositories /\ registered[other].project \in Projects
                                /\ projects[registered[other].project] # None
  BY <1>1, <1>2 DEF MatchInv, Registered
<1>5. IF r \in Registered THEN p = registered[r].project ELSE Linked(p) = {}
  <2>1. CASE r \in Registered
    BY <1>3, <1>4, <2>1 DEF Target, RegistryAssumption
  <2>2. CASE r \notin Registered /\ Target(r, link) = None
    BY <1>3, <1>4, <2>2 DEF Linked
  <2>3. CASE r \notin Registered /\ Target(r, link) # None
    BY <1>3, <2>3 DEF Save, MayLink
  <2> QED
    BY <2>1, <2>2, <2>3
<1>6. project \in ProjectRecords
  <2>1. CASE projects[p] = None
    BY <2>1 DEF ProjectRecords
  <2>2. CASE projects[p] # None
    <3>1. projects[p].version \in Nat
      BY <1>1, <2>2, ProjectParts
    <3>2. Edited(p, remote, edit) \in ProjectRecords
      BY <3>1 DEF Edited, ProjectRecords
    <3> QED
      BY <2>2, <3>2
  <2> QED
    BY <2>1, <2>2
<1>7. repository \in RepositoryRecords /\ repository.project = p /\ repository.remote = remote
  BY DEF RepositoryRecords
<1>8. /\ project.remote \in {None, remote}
      /\ projects[p] # None /\ projects[p].remote = None => project.remote = None
  BY DEF Edited, Managed
<1>9. projects' = [projects EXCEPT ![p] = project] /\ registered' = [registered EXCEPT ![r] = repository]
  BY <1>1, <1>3 DEF RegistryTypes
<1> HIDE DEF project, repository
<1>10. /\ projects' \in [Projects -> ProjectRecords \cup {None}]
       /\ registered' \in [Repositories -> RepositoryRecords \cup {None}]
       /\ \A q \in Projects : projects'[q] = IF q = p THEN project ELSE projects[q]
       /\ \A other \in Repositories : registered'[other] = IF other = r THEN repository ELSE registered[other]
  BY <1>1, <1>6, <1>7, <1>9 DEF RegistryTypes
<1>11. project # None /\ repository # None
  BY <1>6, <1>7 DEF RegistryAssumption
<1>12. Registered' = Registered \cup {r}
  BY <1>10, <1>11 DEF Registered
<1>13. RegistryTypes'
  BY <1>1, <1>2, <1>10 DEF RegistryTypes
<1>14. \A q \in Projects : Linked(q) # {} => Linked(q)' = Linked(q)
  <2>1. \A q \in Projects : Linked(q)' = {other \in Registered \cup {r} : registered'[other].project = q}
    BY <1>12 DEF Linked
  <2>2. \A other \in Registered : registered'[other].project = registered[other].project
    BY <1>4, <1>5, <1>7, <1>10
  <2>3. CASE r \in Registered
    BY <2>1, <2>2, <2>3 DEF Linked
  <2>4. CASE r \notin Registered
    <3>1. \A q \in Projects : Linked(q) # {} => q # p
      BY <1>5, <2>4
    <3>2. registered'[r].project = p
      BY <1>7, <1>10
    <3>3. ASSUME NEW q \in Projects, Linked(q) # {} PROVE Linked(q)' = Linked(q)
      <4>1. q # registered'[r].project
        BY <3>1, <3>2, <3>3
      <4> QED
        BY <2>1, <2>2, <4>1 DEF Linked
    <3> QED
      BY <3>3
  <2> QED
    BY <2>3, <2>4
<1>15. MatchInv'
  <2>1. ASSUME NEW other \in Registered \cup {r}
        PROVE  registered'[other].project \in Projects /\ projects'[registered'[other].project] # None
    BY <1>4, <1>7, <1>10, <1>11
  <2>2. ASSUME NEW q \in Projects, projects'[q] # None, projects'[q].remote # None
        PROVE  \E other \in Registered \cup {r} : registered'[other].project = q /\ registered'[other].remote = projects'[q].remote
    <3>1. CASE q = p
      <4>1. projects'[q].remote = remote
        BY <1>8, <1>10, <2>2, <3>1
      <4>2. registered'[r].project = q /\ registered'[r].remote = remote
        BY <1>7, <1>10, <3>1
      <4> QED
        BY <4>1, <4>2
    <3>2. CASE q # p
      <4>1. projects'[q] = projects[q]
        BY <1>10, <3>2
      <4>2. PICK other \in Registered : registered[other].project = q /\ registered[other].remote = projects[q].remote
        BY <1>1, <2>2, <4>1 DEF MatchInv, Managed
      <4>3. other # r
        BY <1>5, <3>2, <4>2
      <4> QED
        BY <1>4, <1>10, <4>1, <4>2, <4>3
    <3> QED
      BY <3>1, <3>2
  <2> QED
    BY <1>12, <2>1, <2>2 DEF MatchInv, Managed
<1>16. HistoryInv'
  <2>1. \A q \in file : q \in Projects /\ projects[q] # None /\ projects[q].remote = None
    BY <1>1, <1>2 DEF HistoryInv, RegistryTypes
  <2>2. \A q \in file : projects'[q] # None /\ projects'[q].remote = None
    BY <1>8, <1>10, <1>11, <2>1
  <2> QED
    BY <1>2, <2>2 DEF HistoryInv
<1>17. VerdictInv'
  BY <1>1, <1>2 DEF VerdictInv
<1> QED
  BY <1>8, <1>10, <1>11, <1>13, <1>14, <1>15, <1>16, <1>17 DEF RegistryInv

\* A check and a restart change neither repositories nor projects.
LEMMA CheckStep ==
  ASSUME RegistryAssumption, RegistryInv,
         \/ RestartRegistry \/ (\E r \in Repositories : BeginCheck(r)) \/ UNCHANGED registryVars
         \/ \E check \in checks, ready \in BOOLEAN : EndCheck(check, ready)
  PROVE  RegistryInv' /\ projects' = projects /\ registered' = registered
<1>1. RegistryTypes /\ MatchInv /\ HistoryInv /\ VerdictInv
  BY DEF RegistryInv
<1>2. /\ UNCHANGED <<registered, projects, imported, file>> /\ open' \in BOOLEAN /\ (open' => open)
      /\ Registered' = Registered
  <2>1. UNCHANGED <<registered, projects, imported, file>>
    BY DEF RestartRegistry, BeginCheck, EndCheck, registryVars, stored
  <2>2. open' = open \/ open' = FALSE
    BY DEF RestartRegistry, BeginCheck, EndCheck, registryVars
  <2>3. open \in BOOLEAN
    BY <1>1 DEF RegistryTypes
  <2>4. open' \in BOOLEAN /\ (open' => open)
    <3>1. CASE open' = open
      BY <2>3, <3>1
    <3>2. CASE open' = FALSE
      BY <3>2
    <3> QED
      BY <2>2, <3>1, <3>2
  <2> QED
    BY <2>1, <2>4 DEF Registered
<1>3. MatchInv' /\ HistoryInv'
  BY <1>1, <1>2 DEF MatchInv, HistoryInv, Managed
<1>4. ASSUME NEW check \in checks, NEW ready \in BOOLEAN, EndCheck(check, ready)
      PROVE  RegistryTypes' /\ VerdictInv'
  <2>1. check.project \in Projects /\ check.was \in ProjectRecords
    BY <1>1 DEF RegistryTypes
  <2> DEFINE verdict == Verdict(check, ready)
  <2>2. /\ codeCheck' = [codeCheck EXCEPT ![check.project] = verdict] /\ checks' = checks \ {check}
        /\ reachable' = IF ready THEN reachable \cup {<<check.project, check.was>>} ELSE reachable
    BY <1>4 DEF EndCheck
  <2>3. verdict \in Verdicts /\ verdict.fingerprint = check.was /\ verdict.ready = ready
    BY <2>1 DEF Verdict, Verdicts
  <2> HIDE DEF verdict
  <2>4. RegistryTypes'
    BY <1>1, <1>2, <2>2, <2>3 DEF RegistryTypes
  <2>5. \A p \in Projects : codeCheck'[p] = IF p = check.project THEN verdict ELSE codeCheck[p]
    BY <1>1, <2>2 DEF RegistryTypes
  <2>6. VerdictInv'
    BY <1>1, <2>2, <2>3, <2>5 DEF VerdictInv
  <2> QED
    BY <2>4, <2>6
<1>5. ASSUME NEW r \in Repositories, BeginCheck(r) PROVE RegistryTypes' /\ VerdictInv'
  <2>1. r \in Registered /\ UNCHANGED <<codeCheck, reachable>> /\ projects[registered[r].project] # None
        /\ checks' = checks \cup {[repository |-> r, project |-> registered[r].project, was |-> projects[registered[r].project]]}
        /\ open
    BY <1>5 DEF BeginCheck, stored
  <2>2. registered[r].project \in Projects
    BY <1>1, <2>1 DEF MatchInv, HistoryInv
  <2>3. projects[registered[r].project] \in ProjectRecords
    BY <1>1, <2>1, <2>2, ProjectParts
  <2>4. checks' \in SUBSET [repository : Repositories, project : Projects, was : ProjectRecords]
    BY <1>1, <2>1, <2>2, <2>3 DEF RegistryTypes
  <2> QED
    BY <1>1, <1>2, <2>1, <2>4 DEF RegistryTypes, VerdictInv
<1>6. ASSUME RestartRegistry \/ UNCHANGED registryVars PROVE RegistryTypes' /\ VerdictInv'
  <2>1. UNCHANGED <<codeCheck, reachable>> /\ (checks' = checks \/ checks' = {})
    BY <1>6 DEF RestartRegistry, registryVars, stored
  <2>2. VerdictInv'
    BY <1>1, <2>1 DEF VerdictInv
  <2>3. checks' \in SUBSET [repository : Repositories, project : Projects, was : ProjectRecords]
    BY <1>1, <2>1 DEF RegistryTypes
  <2> QED
    BY <1>1, <1>2, <2>1, <2>2, <2>3 DEF RegistryTypes
<1> QED
  BY <1>2, <1>3, <1>4, <1>5, <1>6 DEF RegistryInv

\* What a step may do to projects.
LEMMA RegistryStep ==
  ASSUME RegistryAssumption, RegistryInv, [RegistryNext]_registryVars
  PROVE  /\ RegistryInv'
         /\ \A p \in Projects : projects[p] # None => projects'[p] # None /\ (projects[p].remote = None => projects'[p].remote = None)
         /\ \A p \in Projects : Linked(p) # {} => Linked(p)' = Linked(p)
<1>1. CASE StartRegistry
  BY <1>1, StartRegistryStep
<1>2. ASSUME NEW r \in Repositories, NEW link \in Projects \cup {None}, NEW remote \in Remotes,
             NEW enabled \in BOOLEAN, NEW edit \in BOOLEAN, Save(r, link, remote, enabled, edit)
      PROVE  /\ RegistryInv'
             /\ \A p \in Projects : projects[p] # None => projects'[p] # None /\ (projects[p].remote = None => projects'[p].remote = None)
             /\ \A p \in Projects : Linked(p) # {} => Linked(p)' = Linked(p)
  BY <1>2, SaveStep
<1>3. CASE \/ RestartRegistry \/ (\E r \in Repositories : BeginCheck(r)) \/ UNCHANGED registryVars
           \/ \E check \in checks, ready \in BOOLEAN : EndCheck(check, ready)
  BY <1>3, CheckStep DEF Linked, Registered
<1> QED
  BY <1>1, <1>2, <1>3 DEF RegistryNext

-----------------------------------------------------------------------------
(* The theorems.                                                           *)

\* What holds between repositories, projects and the verdicts on their code after every start,
\* save and check of ProjectRegistry.
THEOREM RegistryInvariant == RegistrySpec => []RegistryInv
<1> USE RegistryHypothesis
<1>1. RegistryInit => RegistryInv
  BY RegistryBegins
<1>2. RegistryInv /\ [RegistryNext]_registryVars => RegistryInv'
  BY RegistryStep
<1> QED
  BY <1>1, <1>2, PTL DEF RegistrySpec

\* Every repository has a project, a fetched one is fetched from the remote of one of its
\* repositories, and no later step adds to or takes from the repositories of a project;
\* "verified" is said of the project as it is; a historical project is never fetched (save,
\* init, check, status).
THEOREM ProjectsAreSafe == RegistrySpec => ProjectsHold
<1> USE RegistryHypothesis
<1> DEFINE Stays == \A p \in file : projects[p] # None => projects'[p] # None /\ projects'[p].remote = None
           Stay == \A p \in Projects : Linked(p) # {} => Linked(p)' = Linked(p)
<1>1. RegistryInv => ProjectsMatch
  <2> SUFFICES ASSUME RegistryInv, open PROVE ProjectsMatch
    BY DEF ProjectsMatch
  <2>1. \A r \in Registered : registered[r].project \in Projects /\ projects[registered[r].project] # None
    BY DEF RegistryInv, MatchInv, HistoryInv
  <2>2. \A p \in Projects : Managed(p) => \E r \in Linked(p) : registered[r].remote = projects[p].remote
    BY DEF RegistryInv, MatchInv, Linked
  <2> QED
    BY <2>1, <2>2 DEF ProjectsMatch, RegistryAssumption
<1>2. RegistryInv => VerifiedAsItIs
  <2> SUFFICES ASSUME RegistryInv, open, NEW r \in Registered, Status(r) = "verified"
               PROVE  <<registered[r].project, projects[registered[r].project]>> \in reachable
    BY DEF VerifiedAsItIs
  <2> DEFINE p == registered[r].project
  <2>1. p \in Projects
    BY DEF RegistryInv, MatchInv, HistoryInv
  <2>2. codeCheck[p] # None /\ codeCheck[p].fingerprint = projects[p] /\ codeCheck[p].ready
    BY DEF Status
  <2> QED
    BY <2>1, <2>2 DEF RegistryInv, VerdictInv
<1>3. RegistryInv /\ [RegistryNext]_registryVars => [Stays]_registryVars
  <2>1. RegistryInv => \A p \in file : p \in Projects /\ (projects[p] # None => projects[p].remote = None)
    BY DEF RegistryInv, RegistryTypes, HistoryInv
  <2> QED
    BY <2>1, RegistryStep
<1>6. RegistryInv /\ [RegistryNext]_registryVars => [Stay]_registryVars
  BY RegistryStep
<1>7. RegistrySpec => [][Stay]_registryVars
  BY <1>6, RegistryInvariant, PTL DEF RegistrySpec
<1>4. RegistrySpec => [](ProjectsMatch /\ VerifiedAsItIs)
  BY <1>1, <1>2, RegistryInvariant, PTL
<1>5. RegistrySpec => [][Stays]_registryVars
  BY <1>3, RegistryInvariant, PTL DEF RegistrySpec
<1> QED
  BY <1>4, <1>5, <1>7 DEF ProjectsHold, LinksStay, HistoricalStays

-----------------------------------------------------------------------------
(***************************************************************************)
(* An application that has acquired the history keeps it until it releases *)
(* it itself: a proof for any number of applications in one process, in    *)
(* any order of their starts, failures and closes.                         *)
(*                                                                         *)
(* The argument.  A release closes the history when it finds no users, and *)
(* its close is an await: what protects the others is that the users are   *)
(* exactly the applications that were started and have not released it,    *)
(* those whose close was rejected among them (UsersInv), and that no       *)
(* acquire passes a release that is running (RunningInv).                  *)
(***************************************************************************)

Stages == {"new", "acquiring", "acquired", "serving"} \cup Closing
Tasks == [app : Apps, kind : {"acquire", "release"}]

LifecycleTypes ==
  /\ initialized \in BOOLEAN /\ connected \in BOOLEAN /\ runningTask \in BOOLEAN
  /\ tasks \in Seq(Tasks) /\ stage \in [Apps -> Stages] /\ released \in [Apps -> BOOLEAN]

-----------------------------------------------------------------------------
(* The inductive invariant.                                                *)

Using == {app \in Apps : stage[app] \in {"acquired", "serving"}}

\* An application releases once, and its resources count as released from then on.
StageInv == \A app \in Apps : released[app] <=> stage[app] \in Closing \ {"cleanup"}

\* Every task belongs to an application that waits for it, and to no other task.
TasksInv ==
  /\ \A i \in 1..Len(tasks) :
       stage[tasks[i].app] = (IF tasks[i].kind = "acquire" THEN "acquiring" ELSE "releasing")
  /\ \A i, j \in 1..Len(tasks) : tasks[i].app = tasks[j].app => i = j

UsersInv == users = Cardinality(Claimed)

\* What the running task found when it began still holds when its await ends.
RunningInv ==
  runningTask => /\ tasks # <<>>
                 /\ FirstIs("acquire") => ~initialized
                 /\ FirstIs("release") => Using = {}

SharedInv == (Using # {} => initialized) /\ (initialized => connected)

LifecycleInv == LifecycleTypes /\ StageInv /\ TasksInv /\ UsersInv /\ RunningInv /\ SharedInv

-----------------------------------------------------------------------------
(* Lemmas.                                                                 *)

LEMMA TaskApps ==
  ASSUME LifecycleTypes
  PROVE  DOMAIN tasks = 1..Len(tasks) /\ \A i \in 1..Len(tasks) : tasks[i].app \in Apps
  <1>1. DOMAIN tasks = 1..Len(tasks) /\ \A i \in 1..Len(tasks) : tasks[i] \in Tasks
    BY DEF LifecycleTypes
  <1> QED
    BY <1>1 DEF Tasks

\* The first task: its application and its kind.
LEMMA FirstTask ==
  ASSUME LifecycleTypes, TasksInv, tasks # <<>>
  PROVE  /\ Head(tasks) \in Tasks /\ Len(tasks) \in Nat \ {0} /\ Head(tasks) = tasks[1]
         /\ Head(tasks).app \in Apps /\ Head(tasks).kind \in {"acquire", "release"}
         /\ stage[Head(tasks).app] = (IF Head(tasks).kind = "acquire" THEN "acquiring" ELSE "releasing")
         /\ \A i \in 2..Len(tasks) : tasks[i] \in Tasks /\ tasks[i].app # Head(tasks).app
  <1>1. Head(tasks) \in Tasks /\ Len(tasks) \in Nat \ {0} /\ Head(tasks) = tasks[1]
    BY DEF LifecycleTypes
  <1>2. \A i \in 1..Len(tasks) : tasks[i] \in Tasks
    BY DEF LifecycleTypes
  <1>3. 1 \in 1..Len(tasks) /\ \A i \in 2..Len(tasks) : i \in 1..Len(tasks) /\ i # 1
    BY <1>1
  <1> QED
    BY <1>1, <1>2, <1>3 DEF TasksInv, Tasks

\* The tasks that are left when the first one has gone, and its application has moved to a
\* place where it waits for nothing.
LEMMA TaskDone ==
  ASSUME LifecycleTypes, TasksInv, tasks # <<>>, NEW place \in Stages,
         stage' = [stage EXCEPT ![Head(tasks).app] = place], tasks' = Tail(tasks)
  PROVE  TasksInv' /\ tasks' \in Seq(Tasks) /\ stage' \in [Apps -> Stages]
  <1>1. /\ Head(tasks).app \in Apps /\ Len(tasks) \in Nat \ {0}
        /\ \A i \in 2..Len(tasks) : tasks[i] \in Tasks /\ tasks[i].app # Head(tasks).app
    BY FirstTask
  <1>2. tasks' \in Seq(Tasks) /\ stage' \in [Apps -> Stages]
    <2>1. stage' \in [Apps -> Stages]
      BY <1>1 DEF LifecycleTypes
    <2>2. tasks \in Seq(Tasks) /\ tasks # <<>>
      BY DEF LifecycleTypes
    <2>3. Tail(tasks) \in Seq(Tasks)
      BY <2>2
    <2> QED
      BY <2>1, <2>3
  <1>3. Len(tasks') = Len(tasks) - 1 /\ \A i \in 1..Len(tasks') : tasks'[i] = tasks[i + 1]
    BY DEF LifecycleTypes
  <1>4. ASSUME NEW i \in 1..Len(tasks')
        PROVE  i + 1 \in 2..Len(tasks) /\ i + 1 \in 1..Len(tasks)
    BY <1>1, <1>3
  <1>5. \A i \in 1..Len(tasks') :
          stage'[tasks'[i].app] = (IF tasks'[i].kind = "acquire" THEN "acquiring" ELSE "releasing")
    <2> TAKE i \in 1..Len(tasks')
    <2>1. tasks[i + 1].app \in Apps /\ tasks[i + 1].app # Head(tasks).app
      BY <1>1, <1>4 DEF Tasks
    <2>2. stage'[tasks[i + 1].app] = stage[tasks[i + 1].app]
      BY <2>1 DEF LifecycleTypes
    <2> QED
      BY <1>3, <1>4, <2>2 DEF TasksInv
  <1>6. \A i, j \in 1..Len(tasks') : tasks'[i].app = tasks'[j].app => i = j
    <2> TAKE i, j \in 1..Len(tasks')
    <2>1. tasks[i + 1].app = tasks[j + 1].app => i + 1 = j + 1
      BY <1>4 DEF TasksInv
    <2> QED
      BY <1>3, <2>1
  <1> QED
    BY <1>2, <1>5, <1>6 DEF TasksInv

\* A task of an application that waits for none joins the line.
LEMMA TaskAdded ==
  ASSUME LifecycleTypes, TasksInv, NEW app \in Apps, NEW kind \in {"acquire", "release"},
         stage[app] \notin {"acquiring", "releasing"},
         Move(app, IF kind = "acquire" THEN "acquiring" ELSE "releasing"),
         tasks' = Append(tasks, Task(app, kind))
  PROVE  /\ TasksInv' /\ tasks' \in Seq(Tasks) /\ stage' \in [Apps -> Stages] /\ tasks' # <<>>
         /\ tasks # <<>> => Head(tasks') = Head(tasks)
  <1> DEFINE n == Len(tasks)
  <1>1. n \in Nat /\ Task(app, kind) \in Tasks /\ \A i \in 1..n : tasks[i] \in Tasks
    <2>1. Task(app, kind) \in Tasks
      BY DEF Task, Tasks
    <2> QED
      BY <2>1 DEF LifecycleTypes
  <1>2. /\ tasks' \in Seq(Tasks) /\ Len(tasks') = n + 1 /\ tasks'[n + 1] = Task(app, kind)
        /\ \A i \in 1..n : tasks'[i] = tasks[i]
    BY <1>1 DEF LifecycleTypes
  <1>3. stage' \in [Apps -> Stages]
    BY DEF LifecycleTypes, Move, Stages, Closing
  <1>4. \A i \in 1..n : tasks[i].app \in Apps /\ tasks[i].app # app
    BY <1>1 DEF TasksInv, Tasks
  <1>5. \A i \in 1..(n + 1) : i \in 1..n \/ i = n + 1
    BY <1>1
  <1>6. Task(app, kind).app = app /\ Task(app, kind).kind = kind
    BY DEF Task
  <1>7. \A i \in 1..n :
          stage'[tasks[i].app] = (IF tasks[i].kind = "acquire" THEN "acquiring" ELSE "releasing")
    BY <1>4 DEF LifecycleTypes, TasksInv, Move
  <1>8. stage'[app] = (IF kind = "acquire" THEN "acquiring" ELSE "releasing")
    BY DEF LifecycleTypes, Move
  <1> HIDE DEF n
  <1>9. \A i \in 1..(n + 1) :
          stage'[tasks'[i].app] = (IF tasks'[i].kind = "acquire" THEN "acquiring" ELSE "releasing")
    BY <1>2, <1>5, <1>6, <1>7, <1>8
  <1>10. \A i, j \in 1..(n + 1) : tasks'[i].app = tasks'[j].app => i = j
    <2> TAKE i, j \in 1..(n + 1)
    <2>1. i \in 1..n /\ j \in 1..n => (tasks[i].app = tasks[j].app => i = j)
      BY DEF TasksInv, n
    <2> QED
      BY <1>2, <1>4, <1>5, <1>6, <2>1
  <1>11. tasks # <<>> => Head(tasks') = Head(tasks)
    <2> SUFFICES ASSUME tasks # <<>> PROVE Head(tasks') = Head(tasks)
      OBVIOUS
    <2>1. 1 \in 1..n /\ Head(tasks) = tasks[1] /\ Head(tasks') = tasks'[1]
      BY <1>1, <1>2 DEF n, LifecycleTypes
    <2> QED
      BY <1>2, <2>1
  <1>12. tasks' # <<>>
    BY <1>1, <1>2
  <1> QED
    BY <1>2, <1>3, <1>9, <1>10, <1>11, <1>12 DEF TasksInv

\* The step of an application that has no task, and that the users still count.
LEMMA StageStep ==
  ASSUME LifecycleInv, NEW app \in Apps, NEW place \in {"serving", "cleanup", "closing", "abandoned"},
         stage[app] \in {"acquired", "serving", "cleanup", "closing"},
         place = "serving" => stage[app] = "acquired",
         Move(app, place), released' = [released EXCEPT ![app] = (place \in {"closing", "abandoned"})],
         UNCHANGED <<users, initialized, connected, tasks, runningTask>>
  PROVE  LifecycleInv'
  <1>1. /\ stage \in [Apps -> Stages] /\ stage' \in [Apps -> Stages] /\ stage'[app] = place
        /\ \A other \in Apps \ {app} : stage'[other] = stage[other]
    BY DEF LifecycleInv, LifecycleTypes, Move, Stages, Closing
  <1>10. /\ released' \in [Apps -> BOOLEAN] /\ released'[app] = (place \in {"closing", "abandoned"})
         /\ \A other \in Apps \ {app} : released'[other] = released[other]
    BY DEF LifecycleInv, LifecycleTypes
  <1>2. LifecycleTypes'
    BY <1>1, <1>10 DEF LifecycleInv, LifecycleTypes
  <1>3. StageInv'
    BY <1>1, <1>10 DEF LifecycleInv, StageInv, Closing
  <1>4. Claimed' = Claimed
    BY <1>1 DEF Claimed
  <1>5. \A i \in 1..Len(tasks) : tasks[i].app \in Apps
    BY TaskApps DEF LifecycleInv
  <1>6. TasksInv'
    <2>1. \A i \in 1..Len(tasks) : tasks[i].app # app
      BY DEF LifecycleInv, TasksInv
    <2> QED
      BY <1>1, <1>5, <2>1 DEF LifecycleInv, TasksInv
  <1>7. Using' \subseteq Using
    BY <1>1 DEF Using
  <1> QED
    BY <1>2, <1>3, <1>4, <1>6, <1>7
    DEF LifecycleInv, UsersInv, RunningInv, SharedInv, FirstIs

\* The step in which the first task ends and its application moves on.
LEMMA EndStep ==
  ASSUME LifecycleInv, tasks # <<>>, runningTask' = FALSE, tasks' = Tail(tasks),
         NEW place \in Stages, stage' = [stage EXCEPT ![Head(tasks).app] = place],
         Head(tasks).kind = "acquire" => place \in {"acquired", "cleanup"},
         Head(tasks).kind = "release" => place = "closed",
         UNCHANGED <<users, released>>,
         initialized' \in BOOLEAN, connected' \in BOOLEAN, SharedInv'
  PROVE  LifecycleInv'
  <1> DEFINE app == Head(tasks).app
  <1>1. /\ app \in Apps /\ Head(tasks).kind \in {"acquire", "release"}
        /\ stage[app] = (IF Head(tasks).kind = "acquire" THEN "acquiring" ELSE "releasing")
    BY FirstTask DEF LifecycleInv
  <1>2. TasksInv' /\ tasks' \in Seq(Tasks) /\ stage' \in [Apps -> Stages]
    BY TaskDone DEF LifecycleInv
  <1>3. /\ stage'[app] = place /\ \A other \in Apps \ {app} : stage'[other] = stage[other]
    BY <1>1 DEF LifecycleInv, LifecycleTypes
  <1> HIDE DEF app
  <1>4. LifecycleTypes'
    BY <1>2 DEF LifecycleInv, LifecycleTypes
  <1>5. StageInv'
    BY <1>1, <1>3 DEF LifecycleInv, StageInv, Closing
  <1>6. Claimed' = Claimed
    BY <1>1, <1>3 DEF Claimed
  <1>7. RunningInv'
    BY DEF RunningInv
  <1> QED
    BY <1>2, <1>4, <1>5, <1>6, <1>7 DEF LifecycleInv, UsersInv

-----------------------------------------------------------------------------
(* The steps.                                                              *)

LEMMA LifecycleInitial ==
  ASSUME LifecycleInit
  PROVE  LifecycleInv
  <1>1. LifecycleTypes
    <2>1. tasks \in Seq(Tasks)
      BY DEF LifecycleInit
    <2> QED
      BY <2>1 DEF LifecycleInit, LifecycleTypes, Stages
  <1>2. StageInv /\ TasksInv /\ RunningInv
    BY DEF LifecycleInit, StageInv, TasksInv, RunningInv, Closing
  <1>3. Claimed = {} /\ Using = {}
    BY DEF LifecycleInit, Claimed, Using
  <1>4. UsersInv
    BY <1>3, FS_EmptySet DEF LifecycleInit, UsersInv
  <1>5. SharedInv
    BY <1>3 DEF LifecycleInit, SharedInv
  <1> QED
    BY <1>1, <1>2, <1>4, <1>5 DEF LifecycleInv

LEMMA BuildStep ==
  ASSUME LifecycleAssumption, LifecycleInv, NEW app \in Apps, Build(app)
  PROVE  LifecycleInv'
  <1>1. /\ stage[app] = "new" /\ Move(app, "acquiring")
        /\ users' = users + 1 /\ tasks' = Append(tasks, Task(app, "acquire"))
        /\ UNCHANGED <<initialized, connected, runningTask, released>>
    BY DEF Build
  <1>2. /\ TasksInv' /\ tasks' \in Seq(Tasks) /\ stage' \in [Apps -> Stages] /\ tasks' # <<>>
        /\ tasks # <<>> => Head(tasks') = Head(tasks)
    <2> DEFINE kind == "acquire"
    <2>1. kind \in {"acquire", "release"} /\ Move(app, IF kind = "acquire" THEN "acquiring" ELSE "releasing")
      BY <1>1
    <2> QED
      BY <1>1, <2>1, TaskAdded DEF LifecycleInv
  <1>3. /\ stage'[app] = "acquiring" /\ \A other \in Apps \ {app} : stage'[other] = stage[other]
        /\ released \in [Apps -> BOOLEAN] /\ ~released[app]
    BY <1>1 DEF LifecycleInv, LifecycleTypes, StageInv, Closing, Move
  <1>4. LifecycleTypes' /\ StageInv'
    BY <1>1, <1>2, <1>3 DEF LifecycleInv, LifecycleTypes, StageInv, Closing
  <1>5. Using' = Using
    BY <1>1, <1>3 DEF Using
  <1>6. RunningInv' /\ SharedInv'
    BY <1>1, <1>2, <1>5 DEF LifecycleInv, RunningInv, SharedInv, FirstIs
  <1>7. Claimed' = Claimed \cup {app} /\ app \notin Claimed /\ Claimed \in SUBSET Apps
    BY <1>1, <1>3 DEF Claimed
  <1>8. UsersInv'
    <2>1. IsFiniteSet(Claimed)
      BY <1>7, FS_Subset DEF LifecycleAssumption
    <2>2. Cardinality(Claimed \cup {app}) = Cardinality(Claimed) + 1
      BY <1>7, <2>1, FS_AddElement
    <2> QED
      BY <1>1, <1>7, <2>2 DEF LifecycleInv, UsersInv
  <1> QED
    BY <1>2, <1>4, <1>6, <1>8 DEF LifecycleInv

LEMMA ReleaseStep ==
  ASSUME LifecycleAssumption, LifecycleInv, NEW app \in Apps, ReleaseHistory(app)
  PROVE  LifecycleInv'
  <1>1. /\ stage[app] = "closing" /\ Move(app, "releasing")
        /\ users' = users - 1 /\ tasks' = Append(tasks, Task(app, "release"))
        /\ UNCHANGED <<initialized, connected, runningTask, released>>
    BY DEF ReleaseHistory
  <1>3. /\ TasksInv' /\ tasks' \in Seq(Tasks) /\ stage' \in [Apps -> Stages] /\ tasks' # <<>>
        /\ tasks # <<>> => Head(tasks') = Head(tasks)
    <2> DEFINE kind == "release"
    <2>1. kind \in {"acquire", "release"} /\ Move(app, IF kind = "acquire" THEN "acquiring" ELSE "releasing")
      BY <1>1
    <2> QED
      BY <1>1, <2>1, TaskAdded DEF LifecycleInv
  <1>4. /\ stage'[app] = "releasing" /\ \A other \in Apps \ {app} : stage'[other] = stage[other]
    BY <1>1 DEF LifecycleInv, LifecycleTypes, Move
  <1>5. LifecycleTypes' /\ StageInv'
    BY <1>1, <1>3, <1>4 DEF LifecycleInv, LifecycleTypes, StageInv, Closing
  <1>6. Using' = Using
    BY <1>1, <1>4 DEF Using
  <1>7. RunningInv' /\ SharedInv'
    BY <1>1, <1>3, <1>6 DEF LifecycleInv, RunningInv, SharedInv, FirstIs
  <1>8. Claimed' = Claimed \ {app} /\ app \in Claimed /\ Claimed \in SUBSET Apps
    BY <1>1, <1>4 DEF Claimed
  <1>9. UsersInv'
    <2>1. IsFiniteSet(Claimed)
      BY <1>8, FS_Subset DEF LifecycleAssumption
    <2>2. Cardinality(Claimed \ {app}) = Cardinality(Claimed) - 1
      BY <1>8, <2>1, FS_RemoveElement
    <2> QED
      BY <1>1, <1>8, <2>2 DEF LifecycleInv, UsersInv
  <1> QED
    BY <1>3, <1>5, <1>7, <1>9 DEF LifecycleInv

\* A release that begins finds no users: then nobody has the history.
LEMMA BeginTaskStep ==
  ASSUME LifecycleAssumption, LifecycleInv, BeginTask
  PROVE  LifecycleInv'
  <1> DEFINE idle == IF FirstIs("acquire") THEN initialized ELSE users # 0
             place == IF FirstIs("acquire") THEN "acquired" ELSE "closed"
  <1>1. /\ tasks # <<>> /\ ~runningTask /\ runningTask' = ~idle
        /\ tasks' = IF idle THEN Tail(tasks) ELSE tasks
        /\ stage' = IF ~idle THEN stage ELSE [stage EXCEPT ![Head(tasks).app] = place]
        /\ UNCHANGED <<users, initialized, connected, released>>
    BY DEF BeginTask
  <1>2. Head(tasks).kind \in {"acquire", "release"} /\ Head(tasks).app \in Apps /\ idle \in BOOLEAN
    BY <1>1, FirstTask DEF LifecycleInv, LifecycleTypes
  <1>3. FirstIs("acquire") <=> Head(tasks).kind = "acquire"
    BY <1>1 DEF FirstIs
  <1>4. CASE idle
    <2>1. /\ place \in Stages /\ tasks' = Tail(tasks) /\ runningTask' = FALSE
          /\ stage' = [stage EXCEPT ![Head(tasks).app] = place]
          /\ Head(tasks).kind = "acquire" => place \in {"acquired", "cleanup"}
          /\ Head(tasks).kind = "release" => place = "closed"
      BY <1>1, <1>3, <1>4 DEF Stages, Closing
    <2>2. SharedInv'
      <3>1. CASE FirstIs("acquire")
        BY <1>1, <1>4, <3>1 DEF LifecycleInv, SharedInv
      <3>2. CASE ~FirstIs("acquire")
        <4>1. Using' \subseteq Using
          BY <1>2, <2>1, <3>2 DEF LifecycleInv, LifecycleTypes, Using
        <4> QED
          BY <1>1, <4>1 DEF LifecycleInv, SharedInv
      <3> QED
        BY <3>1, <3>2
    <2>3. initialized' \in BOOLEAN /\ connected' \in BOOLEAN
      BY <1>1 DEF LifecycleInv, LifecycleTypes
    <2> HIDE DEF place, idle
    <2> QED
      BY <1>1, <2>1, <2>2, <2>3, EndStep
  <1>5. CASE ~idle
    <2>1. tasks' = tasks /\ stage' = stage /\ runningTask' = TRUE
      BY <1>1, <1>2, <1>5
    <2>2. /\ LifecycleTypes' /\ StageInv' /\ TasksInv' /\ SharedInv' /\ Claimed' = Claimed
          /\ Using' = Using
      BY <1>1, <2>1
      DEF LifecycleInv, LifecycleTypes, StageInv, TasksInv, SharedInv, Claimed, Using
    <2>3. RunningInv'
      <3>1. CASE Head(tasks).kind = "acquire"
        BY <1>1, <1>3, <1>5, <2>1, <3>1 DEF RunningInv, FirstIs
      <3>2. CASE Head(tasks).kind = "release"
        <4>1. users = 0 /\ users = Cardinality(Claimed)
          BY <1>3, <1>5, <3>2 DEF LifecycleInv, UsersInv
        <4>2. Claimed \in SUBSET Apps
          BY DEF Claimed
        <4>3. Claimed = {}
          BY <4>1, <4>2, FS_Subset, FS_EmptySet DEF LifecycleAssumption
        <4>4. Using \subseteq Claimed
          BY DEF LifecycleInv, StageInv, Using, Claimed
        <4> QED
          BY <1>1, <2>1, <2>2, <3>2, <4>3, <4>4 DEF RunningInv, FirstIs
      <3> QED
        BY <1>2, <3>1, <3>2
    <2> QED
      BY <1>1, <2>2, <2>3 DEF LifecycleInv, UsersInv
  <1> QED
    BY <1>4, <1>5

LEMMA InitEndsStep ==
  ASSUME LifecycleInv, NEW ok \in BOOLEAN, InitEnds(ok)
  PROVE  LifecycleInv'
  <1> DEFINE place == IF ok THEN "acquired" ELSE "cleanup"
  <1>1. /\ runningTask /\ tasks # <<>> /\ Head(tasks).kind = "acquire"
        /\ initialized' = ok /\ connected' \in (IF ok THEN {TRUE} ELSE BOOLEAN)
        /\ stage' = [stage EXCEPT ![Head(tasks).app] = place]
        /\ tasks' = Tail(tasks) /\ runningTask' = FALSE /\ UNCHANGED <<users, released>>
    BY DEF InitEnds, FirstIs, Move
  <1>2. Using = {}
    BY <1>1 DEF LifecycleInv, RunningInv, SharedInv, FirstIs
  <1>3. Head(tasks).app \in Apps
    BY <1>1, FirstTask DEF LifecycleInv
  <1>4. ~ok => Using' = {}
    BY <1>1, <1>2, <1>3 DEF LifecycleInv, LifecycleTypes, Using
  <1>5. SharedInv' /\ initialized' \in BOOLEAN /\ connected' \in BOOLEAN
    BY <1>1, <1>4 DEF SharedInv
  <1>6. place \in Stages /\ place \in {"acquired", "cleanup"} /\ Head(tasks).kind # "release"
    BY <1>1 DEF Stages, Closing
  <1> HIDE DEF place
  <1> QED
    BY <1>1, <1>5, <1>6, EndStep

LEMMA CloseEndsStep ==
  ASSUME LifecycleInv, NEW ok \in BOOLEAN, CloseEnds(ok)
  PROVE  LifecycleInv'
  <1> DEFINE place == "closed"
  <1>1. /\ runningTask /\ tasks # <<>> /\ Head(tasks).kind = "release"
        /\ initialized' = FALSE /\ connected' = FALSE
        /\ stage' = [stage EXCEPT ![Head(tasks).app] = place]
        /\ tasks' = Tail(tasks) /\ runningTask' = FALSE /\ UNCHANGED <<users, released>>
    BY DEF CloseEnds, FirstIs, Move
  <1>2. Using = {}
    BY <1>1 DEF LifecycleInv, RunningInv, FirstIs
  <1>3. Using' = {}
    BY <1>1, <1>2, FirstTask DEF LifecycleInv, LifecycleTypes, Using
  <1>4. SharedInv' /\ initialized' \in BOOLEAN /\ connected' \in BOOLEAN
    BY <1>1, <1>3 DEF SharedInv
  <1>5. place \in Stages /\ Head(tasks).kind # "acquire" /\ place = "closed"
    BY <1>1 DEF Stages, Closing
  <1> HIDE DEF place
  <1> QED
    BY <1>1, <1>4, <1>5, EndStep

LEMMA LifecycleStep ==
  ASSUME LifecycleAssumption, LifecycleInv, [LifecycleNext]_lifecycleVars
  PROVE  LifecycleInv'
  <1>1. CASE BeginTask
    BY <1>1, BeginTaskStep
  <1>2. ASSUME NEW ok \in BOOLEAN, InitEnds(ok) \/ CloseEnds(ok)
        PROVE  LifecycleInv'
    BY <1>2, InitEndsStep, CloseEndsStep
  <1>3. ASSUME NEW app \in Apps, Build(app)
        PROVE  LifecycleInv'
    BY <1>3, BuildStep
  <1>4. ASSUME NEW app \in Apps, ReleaseHistory(app)
        PROVE  LifecycleInv'
    BY <1>4, ReleaseStep
  <1>5. ASSUME NEW app \in Apps, Serve(app) \/ StartFails(app) \/ Close(app)
        PROVE  LifecycleInv'
    <2> DEFINE place == IF Serve(app) THEN "serving" ELSE "cleanup"
    <2>1. /\ stage[app] \in {"acquired", "serving"} /\ (place = "serving" => stage[app] = "acquired")
          /\ Move(app, place) /\ UNCHANGED <<users, initialized, connected, tasks, runningTask, released>>
      BY <1>5 DEF Serve, StartFails, Close
    <2>2. released[app] = FALSE /\ released \in [Apps -> BOOLEAN]
      <3>1. released[app] \in BOOLEAN /\ (released[app] <=> stage[app] \in Closing \ {"cleanup"}) /\ released \in [Apps -> BOOLEAN]
        BY DEF LifecycleInv, LifecycleTypes, StageInv
      <3>2. stage[app] \notin Closing
        BY <2>1 DEF Closing
      <3> QED
        BY <3>1, <3>2
    <2>3. place \in {"serving", "cleanup"}
      OBVIOUS
    <2> HIDE DEF place
    <2>4. released' = [released EXCEPT ![app] = (place \in {"closing", "abandoned"})]
      <3>1. (place \in {"closing", "abandoned"}) = FALSE
        BY <2>3
      <3>2. released = [released EXCEPT ![app] = FALSE]
        BY <2>2
      <3> QED
        BY <2>1, <3>1, <3>2
    <2>5. stage[app] \in {"acquired", "serving", "cleanup", "closing"} /\ place \in {"serving", "cleanup", "closing", "abandoned"}
      BY <2>1, <2>3
    <2> QED
      BY <2>1, <2>4, <2>5, StageStep
  <1>6. ASSUME NEW app \in Apps, ReleaseResources(app) \/ CloseRejects(app)
        PROVE  LifecycleInv'
    <2> DEFINE place == IF ReleaseResources(app) THEN "closing" ELSE "abandoned"
    <2>1. /\ stage[app] \in {"cleanup", "closing"} /\ released \in [Apps -> BOOLEAN]
          /\ released' = [released EXCEPT ![app] = TRUE]
          /\ Move(app, place) /\ UNCHANGED <<users, initialized, connected, tasks, runningTask>>
      <3>1. CASE ReleaseResources(app)
        BY <3>1 DEF ReleaseResources, LifecycleInv, LifecycleTypes, StageInv
      <3>2. CASE ~ReleaseResources(app)
        <4>1. CloseRejects(app)
          BY <1>6, <3>2
        <4>2. released[app] = TRUE /\ released \in [Apps -> BOOLEAN]
          BY <4>1 DEF CloseRejects, LifecycleInv, LifecycleTypes, StageInv, Closing
        <4>3. released' = [released EXCEPT ![app] = TRUE]
          BY <4>1, <4>2 DEF CloseRejects
        <4> QED
          BY <3>2, <4>1, <4>2, <4>3 DEF CloseRejects
      <3> QED
        BY <3>1, <3>2
    <2>2. place \in {"closing", "abandoned"}
      OBVIOUS
    <2> HIDE DEF place
    <2>3. released' = [released EXCEPT ![app] = (place \in {"closing", "abandoned"})]
      BY <2>1, <2>2
    <2>4. /\ stage[app] \in {"acquired", "serving", "cleanup", "closing"} /\ place # "serving"
          /\ place \in {"serving", "cleanup", "closing", "abandoned"}
      BY <2>1, <2>2
    <2> QED
      BY <2>1, <2>3, <2>4, StageStep
  <1>7. CASE UNCHANGED lifecycleVars
    BY <1>7
    DEF lifecycleVars, LifecycleInv, LifecycleTypes, StageInv, TasksInv, UsersInv, RunningInv,
        SharedInv, Claimed, Using, FirstIs
  <1> QED
    BY <1>1, <1>2, <1>3, <1>4, <1>5, <1>6, <1>7 DEF LifecycleNext

-----------------------------------------------------------------------------
(* The theorems.                                                           *)

\* The users are the applications that have not released the history, and what a running task found still
\* holds when its await ends: index.ts's acquireHistory and releaseHistory.
THEOREM LifecycleInvariant == LifecycleSpec => []LifecycleInv
  <1> USE LifecycleHypothesis
  <1>1. LifecycleInit => LifecycleInv
    BY LifecycleInitial
  <1>2. LifecycleInv /\ [LifecycleNext]_lifecycleVars => LifecycleInv'
    BY LifecycleStep
  <1> QED
    BY <1>1, <1>2, PTL DEF LifecycleSpec

\* Every application that has acquired the history finds it open until it releases it itself,
\* and the count of users is the number of applications that were started and have not
\* released it; one whose close was rejected stays among them.
THEOREM HistoryStaysOpen == LifecycleSpec => []HistoryIsShared
  <1>1. LifecycleInv => HistoryIsShared
    BY DEF LifecycleInv, SharedInv, UsersInv, HistoryIsShared, ServingHasHistory, Using
  <1> QED
    BY <1>1, LifecycleInvariant, PTL

\* The types of the state: the count of users stays between none and all of the applications.
THEOREM LifecycleTyped == LifecycleSpec => []LifecycleTypeOK
  <1> USE LifecycleHypothesis
  <1>1. LifecycleInv => LifecycleTypeOK
    <2> SUFFICES ASSUME LifecycleInv PROVE LifecycleTypeOK
      OBVIOUS
    <2>1. Claimed \in SUBSET Apps
      BY DEF Claimed
    <2>2. /\ Cardinality(Claimed) \in Nat /\ Cardinality(Apps) \in Nat
          /\ Cardinality(Claimed) <= Cardinality(Apps)
      BY <2>1, FS_Subset, FS_CardinalityType DEF LifecycleAssumption
    <2>3. users \in 0..Cardinality(Apps)
      BY <2>2 DEF LifecycleInv, UsersInv
    <2>4. \A i \in DOMAIN tasks : tasks[i].app \in Apps
      BY TaskApps DEF LifecycleInv
    <2> QED
      BY <2>3, <2>4 DEF LifecycleInv, LifecycleTypes, Stages, LifecycleTypeOK
  <1> QED
    BY <1>1, LifecycleInvariant, PTL
=============================================================================
