------------------------------ MODULE Registry ------------------------------
(***************************************************************************)
(* The projects of the dashboard (server/src/brain/project-registry.ts):   *)
(* the import of the historical projects file, the registered repositories *)
(* with the Brain project each is linked to, and the check of code access, *)
(* whose answer comes while the project may be edited.                     *)
(*                                                                         *)
(* A save and the start are transactions of BrainStorage; a check reads    *)
(* before it awaits GitHub and writes after it.                            *)
(*                                                                         *)
(* Abstractions: the fingerprint of a project is the project; its scope    *)
(* and its code paths are one version.                                     *)
(***************************************************************************)
EXTENDS Integers, FiniteSets, Functions, Absence

CONSTANTS
  Repositories, Projects,
  Github,          \* remotes of GitHub repositories
  Remotes,
  MaxProjects,     \* brainConfig.projects.maxProjects
  RegistryPlans    \* records: what the first start finds, and budgets

RepositoryRecords == [remote : Remotes, project : Projects \cup {None}, enabled : BOOLEAN]
ProjectRecords == [remote : Remotes \cup {None}, version : Nat]

\* What the first start finds: a remote is registered once, but several repositories may be
\* aliases of one project (saveRepository compares remotes only).
FirstFound(plan) ==
  /\ plan.registered \in [Repositories -> RepositoryRecords \cup {None}]
  /\ LET found == {r \in Repositories : plan.registered[r] # None} IN
       \A r \in found : \A other \in found \ {r} : plan.registered[r].remote # plan.registered[other].remote
  /\ plan.file \subseteq Projects

RegistryAssumption ==
  /\ \A plan \in RegistryPlans : FirstFound(plan)
  /\ None \notin Projects /\ None \notin RepositoryRecords /\ None \notin ProjectRecords
ASSUME RegistryHypothesis == RegistryAssumption

VARIABLES
  registered,   \* by id: None or [remote, project, enabled]
  projects,     \* by id: None or [remote, version], a local checkout has remote = None
  imported,     \* brain-projects-imported-v1
  codeCheck,    \* brain-code-check: by project None or [fingerprint, ready]
  checks,       \* checks that await their answer: [repository, project, was]
  open,         \* registry.init has ended
  file,         \* the ids of the legacy projects file
  reachable,    \* projects whose code was reached, as they were then: <<id, project>>
  registryLeft   \* what may still happen

stored == <<registered, projects, imported, codeCheck>>
registryVars == <<stored, checks, open, file, reachable, registryLeft>>

Takes(what) == registryLeft[what] > 0 /\ registryLeft' = [registryLeft EXCEPT ![what] = @ - 1]

Registered == {r \in Repositories : registered[r] # None}
Linked(p) == {r \in Registered : registered[r].project = p}
Managed(p) == projects[p] # None /\ projects[p].remote # None

RegistryInit ==
  \E plan \in RegistryPlans :
    /\ registered = plan.registered /\ file = plan.file /\ registryLeft = plan.left
    /\ projects = [p \in Projects |-> None]
    /\ codeCheck = [p \in Projects |-> None]
    /\ imported = FALSE /\ checks = {} /\ open = FALSE /\ reachable = {}

-----------------------------------------------------------------------------
(* init: the import, once, and a project for each repository without one.  *)
(* Aliases of a project that is missing share the one made for the first   *)
(* of them in the table.                                                   *)

Imported == [p \in Projects |->
  IF ~imported /\ p \in file THEN [remote |-> None, version |-> 0] ELSE projects[p]]

StartRegistry ==
  /\ ~open /\ open' = TRUE /\ imported' = TRUE
  /\ LET unnamed == {r \in Registered : registered[r].project = None}
         missing == {r \in Registered \ unnamed : Imported[registered[r].project] = None}
         free == {p \in Projects : Imported[p] = None /\ Linked(p) = {}}
     IN \E new \in Injection(unnamed, free) :
          LET ProjectOf(r) == IF r \in unnamed THEN new[r] ELSE registered[r].project
              made == unnamed \cup missing
              claimed == {ProjectOf(r) : r \in made}
          IN \E first \in [claimed -> made] :
               /\ \A p \in claimed : ProjectOf(first[p]) = p
               /\ projects' = [p \in Projects |->
                    IF p \in claimed THEN [remote |-> registered[first[p]].remote, version |-> 0] ELSE Imported[p]]
               /\ registered' = [r \in Repositories |->
                    IF r \in made THEN [registered[r] EXCEPT !.project = ProjectOf(r)] ELSE registered[r]]
  /\ UNCHANGED <<codeCheck, checks, file, reachable, registryLeft>>

RestartRegistry ==
  /\ open /\ Takes("restarts")
  /\ open' = FALSE /\ checks' = {}
  /\ UNCHANGED <<stored, file, reachable>>

-----------------------------------------------------------------------------
(* save.                                                                   *)

\* The project a save is about: the one of the repository, or the one it asks to link.
Target(r, link) == IF r \in Registered THEN registered[r].project ELSE link

\* Mutant: a project that has a repository may be linked to another one.
MayLinkAny(r, link) ==
  /\ r \in Registered /\ link # None => link = registered[r].project
  /\ Target(r, link) # None => projects[Target(r, link)] # None

MayLink(r, link) ==
  /\ r \in Registered /\ link # None => link = registered[r].project
  /\ LET p == Target(r, link) IN
       p # None => /\ projects[p] # None
                   /\ r \notin Registered => Linked(p) = {}

\* A remote that Brain cannot read is kept where it already was, or where a local checkout
\* gives the code.
MayUse(r, link, remote) ==
  remote \in Github \/ (r \in Registered /\ registered[r].remote = remote)
                    \/ (Target(r, link) # None /\ ~Managed(Target(r, link)))

KeepsCheckout(r, link, remote) ==
  LET p == Target(r, link) IN
    p # None /\ ~Managed(p) /\ r \in Registered => registered[r].remote = remote

\* saveRepository, in the same transaction.
Free(r, remote) == \A other \in Registered \ {r} : registered[other].remote # remote

\* Mutant: every project is fetched from the remote of its repository from now on.
EditedAsManaged(p, remote, edit) ==
  [remote |-> remote, version |-> IF edit THEN projects[p].version + 1 ELSE projects[p].version]

Edited(p, remote, edit) ==
  [remote |-> IF Managed(p) THEN remote ELSE None,
   version |-> IF edit THEN projects[p].version + 1 ELSE projects[p].version]

Save(r, link, remote, enabled, edit) ==
  /\ open /\ Takes("saves")
  /\ MayLink(r, link) /\ MayUse(r, link, remote) /\ KeepsCheckout(r, link, remote)
  /\ Free(r, remote)
  /\ \E p \in Projects :
       /\ IF Target(r, link) = None
          THEN projects[p] = None /\ Cardinality({q \in Projects : projects[q] # None}) < MaxProjects
          ELSE p = Target(r, link)
       /\ projects' = [projects EXCEPT ![p] =
            IF @ = None THEN [remote |-> remote, version |-> 0] ELSE Edited(p, remote, edit)]
       /\ registered' = [registered EXCEPT ![r] = [remote |-> remote, project |-> p, enabled |-> enabled]]
  /\ UNCHANGED <<imported, codeCheck, checks, open, file, reachable>>

-----------------------------------------------------------------------------
(* check.                                                                  *)

Unsupported(p) == Managed(p) /\ projects[p].remote \notin Github

BeginCheck(r) ==
  /\ open /\ r \in Registered /\ Takes("checks")
  /\ registered[r].enabled
  /\ LET p == registered[r].project IN
       /\ projects[p] # None /\ ~Unsupported(p)
       /\ checks' = checks \cup {[repository |-> r, project |-> p, was |-> projects[p]]}
  /\ UNCHANGED <<stored, open, file, reachable>>

\* Mutant: the verdict is stored with the project as it is when the answer comes.
VerdictOfToday(check, ready) == [fingerprint |-> projects[check.project], ready |-> ready]

\* The verdict is stored with the project that was read before the answer.
Verdict(check, ready) == [fingerprint |-> check.was, ready |-> ready]

EndCheck(check, ready) ==
  /\ open
  /\ checks' = checks \ {check}
  /\ codeCheck' = [codeCheck EXCEPT ![check.project] = Verdict(check, ready)]
  /\ reachable' = IF ready THEN reachable \cup {<<check.project, check.was>>} ELSE reachable
  /\ UNCHANGED <<registered, projects, imported, open, file, registryLeft>>

\* status: what the page says of a repository, the references aside.
Status(r) ==
  LET p == registered[r].project IN
    IF ~registered[r].enabled THEN "disabled"
    ELSE IF projects[p] = None THEN "unverified"
    ELSE IF Unsupported(p) THEN "unsupported"
    ELSE IF codeCheck[p] = None \/ codeCheck[p].fingerprint # projects[p] THEN "unverified"
    ELSE IF ~codeCheck[p].ready THEN "needs_access"
    ELSE "verified"

RegistryNext ==
  \/ StartRegistry \/ RestartRegistry
  \/ \E r \in Repositories, link \in Projects \cup {None}, remote \in Remotes,
        enabled \in BOOLEAN, edit \in BOOLEAN : Save(r, link, remote, enabled, edit)
  \/ \E r \in Repositories : BeginCheck(r)
  \/ \E check \in checks, ready \in BOOLEAN : EndCheck(check, ready)

RegistrySpec == RegistryInit /\ [][RegistryNext]_registryVars

-----------------------------------------------------------------------------
RegistryTypeOK ==
  /\ \A r \in Registered : registered[r].project \in Projects \cup {None}
  /\ \A p \in Projects : projects[p] # None => projects[p].remote \in Remotes \cup {None}
  /\ imported \in BOOLEAN /\ open \in BOOLEAN
  /\ \A check \in checks : check.project \in Projects

\* While requests are served, every repository has a project, and a project whose code Brain
\* fetches is fetched from the remote of one of its repositories, of its only one if it has no
\* aliases; the import, later links and changes of a remote included (save, init,
\* saveRepository).
ProjectsMatch ==
  open => /\ \A r \in Registered : registered[r].project # None /\ projects[registered[r].project] # None
          /\ \A p \in Projects : Managed(p) => \E r \in Linked(p) : registered[r].remote = projects[p].remote

\* A project that has repositories keeps exactly those: aliases come from the first start
\* only, and no save or restart links, moves or drops one (save's check of the link).
LinksStay == [][\A p \in Projects : Linked(p) # {} => Linked(p)' = Linked(p)]_registryVars

\* The page says that code access is verified only of a project that was reached as it is
\* now: an answer that comes after an edit says nothing about the edited project (check).
VerifiedAsItIs ==
  open => \A r \in Registered :
            Status(r) = "verified" => <<registered[r].project, projects[registered[r].project]>> \in reachable

\* A historical project keeps its local checkout and its approvals for good: no save and no
\* restart replaces it by a project that is fetched (save, init).
HistoricalStays ==
  [][\A p \in file : projects[p] # None => projects'[p] # None /\ projects'[p].remote = None]_registryVars

\* All together: repositories and projects match and stay linked, a verdict is of the project
\* as it is, and historical projects keep their checkout (ProjectRegistry).
ProjectsHold == [](ProjectsMatch /\ VerifiedAsItIs) /\ LinksStay /\ HistoricalStays
=============================================================================
