------------------------------ MODULE MCBrain -------------------------------
(***************************************************************************)
(* The parts of Brain around the memory on one model checker run: the      *)
(* analyses, what they read of the code, the managed clone, the catalogue  *)
(* of prices, the connection to Notion, the storage, the client of the     *)
(* index and the graph.  They share no state, so a behaviour is one of one *)
(* part, chosen at the start; the other parts stay, with nothing to do.    *)
(***************************************************************************)
EXTENDS Agents, GithubCache, Notion, BrainStorage, Pricing, Cognee, MemoryGraph, TLC

CONSTANTS
  Deleted,     \* model values
  callerA, callerB, urlA, urlB, commitA,
  modelA, modelB, serverA, serverB, recordA, recordB,
  dataA, dataB, pageA, pageB, pageC

VARIABLES
  part,
  commit, overlay, captured, excerpts, asked, searched, shown, cited, stage, rounds

-----------------------------------------------------------------------------
(* Analyses: two starts while the project or the memory changes or a       *)
(* review is made; one start with both, or a failing model, write or crash.*)

AgentPlan(s, f, w, c, ch, rv) ==
  [starts |-> s, failures |-> f, failingWrites |-> w, crashes |-> c, changes |-> ch, reviews |-> rv]
MCAgentPlans == {AgentPlan(2,0,0,0,1,0), AgentPlan(2,0,0,0,0,1), AgentPlan(1,0,0,0,1,1),
                 AgentPlan(1,1,0,1,0,0), AgentPlan(1,0,1,1,0,0), AgentPlan(1,1,1,0,0,1)}

-----------------------------------------------------------------------------
(* Code: two files and a specification, or two files of which one is       *)
(* binary; nothing, a new version, a deletion or both submitted.           *)

CodeFile(lines, raw, clean) ==
  [lines |-> lines, raw |-> raw, clean |-> clean, binary |-> FALSE, scope |-> TRUE,
   sensitive |-> FALSE, specification |-> FALSE, regular |-> TRUE]
Specified == 1 :> CodeFile(5, {1, 2, 3}, {3}) @@ 2 :> CodeFile(2, {2}, {2})
             @@ 3 :> [CodeFile(2, {1}, {1}) EXCEPT !.specification = TRUE]
WithBinary == 1 :> CodeFile(5, {1, 2, 3}, {3}) @@ 2 :> [CodeFile(2, {2}, {2}) EXCEPT !.binary = TRUE]
              @@ 4 :> CodeFile(1, {1}, {1})
MCOverlays == {<<>>, 2 :> CodeFile(3, {1}, {1}), 2 :> Deleted, 1 :> CodeFile(1, {}, {}) @@ 2 :> Deleted}

R == INSTANCE CodeReader WITH
       Commits <- {Specified, WithBinary}, Overlays <- MCOverlays,
       MaxSources <- 2, MaxBytes <- 6, MaxLinesPerRead <- 3, MaxRequests <- 2,
       MaxSearchMatches <- 2, InitialFiles <- 1, ReadRounds <- 2

-----------------------------------------------------------------------------
(* The managed clone: absent, a link, an older cache, a checkout, another  *)
(* repository's; three requests of two callers.                            *)

Folder(kind) == [kind |-> kind, marker |-> None, empty |-> TRUE, checkout |-> FALSE, bare |-> FALSE,
                 origin |-> None, commits |-> {}, head |-> None]
OlderCache == [Folder("directory") EXCEPT !.empty = FALSE, !.bare = TRUE, !.origin = urlA, !.commits = {<<urlA, commitA>>}]
Checkout == [Folder("directory") EXCEPT !.empty = FALSE, !.checkout = TRUE, !.origin = urlA]
OtherCache == [Folder("directory") EXCEPT !.empty = FALSE, !.bare = TRUE, !.origin = urlB, !.marker = urlB]

CacheBudget(f, c, m) == [failures |-> f, crashes |-> c, moves |-> m, requests |-> 3]

MCCacheBudgets == {CacheBudget(1,0,0), CacheBudget(0,1,0), CacheBudget(0,0,1)}
MCDirectories == {Folder("absent"), Folder("symlink"), OlderCache, Checkout, OtherCache}

-----------------------------------------------------------------------------
(* Prices: two models; edits beside a check or a lookup, observations      *)
(* beside a failing write, failing checks beside a crash.                  *)

PriceBudget(e, l, f, w, o, c) ==
  [edits |-> e, lookups |-> l, failures |-> f, failingWrites |-> w, observations |-> o, crashes |-> c]
PricePlan(entries, what) == [entries |-> entries, budget |-> what]
QueuedEntry == [NewEntry EXCEPT !.auto = [status |-> "queued", attempts |-> 0, wait |-> FALSE]]
Both(a, b) == modelA :> a @@ modelB :> b
MCPricePlans ==
  {PricePlan(Both(QueuedEntry, None), PriceBudget(2,0,0,0,0,0)), PricePlan(Both(NewEntry, None), PriceBudget(1,1,0,0,0,0)),
   PricePlan(Both(None, None), PriceBudget(1,0,0,1,1,0)), PricePlan(Both(QueuedEntry, None), PriceBudget(0,0,2,1,0,1)),
   PricePlan(Both(NewEntry, None), PriceBudget(1,1,1,1,0,0)), PricePlan(Both(NewEntry, NewEntry), PriceBudget(0,1,0,0,0,1)),
   PricePlan(Both(NewEntry, NewEntry), PriceBudget(1,1,0,0,0,0))}

\* The timer of the automatic check never stops: a part that is not chosen has none.
PricesOff ==
  /\ catalogue = [entries |-> Both(None, None), job |-> None] /\ transaction = None /\ worker = None
  /\ check = [at |-> "off"] /\ checking = None /\ observed = {} /\ serving = TRUE
  /\ edited = Both(0, 0) /\ priceBudget = PriceBudget(0,0,0,0,0,0)

-----------------------------------------------------------------------------
(* Notion: two connects with a crash, a renewal shared by a read and its   *)
(* stream, failing writes and answers, a disconnect beside them.           *)

NotionBudget(c, cb, d, p, e, f, w, k) ==
  [moves |-> k, connects |-> c, callbacks |-> cb, disconnects |-> d, pages |-> p, expiries |-> e,
   failures |-> f, failingWrites |-> w, crashes |-> k]
MCNotionPlans ==
  {NotionBudget(2,2,1,1,0,0,0,1), NotionBudget(1,1,0,2,1,1,0,0), NotionBudget(1,1,0,1,2,0,1,0),
   NotionBudget(1,2,1,1,1,0,0,1), NotionBudget(2,2,0,1,1,1,0,0)}

-----------------------------------------------------------------------------
(* Storage: two servers, two records, three transactions, one error, one   *)
(* lost session and one stop.                                              *)

StoragePlan == [requests |-> 3, errors |-> 1, drops |-> 1, stops |-> 1]

MCStoragePlans == {StoragePlan}

-----------------------------------------------------------------------------
(* The index: two datasets; a search and an indexing beside two expired    *)
(* tokens, an edit beside a failure, a content that comes back beside a    *)
(* prune, a crash.                                                         *)

NoIndexing == [edits |-> 0, searches |-> 0, expiries |-> 0, failures |-> 0, crashes |-> 0, prunes |-> 0, interruptions |-> 0]
MCCogneePlans ==
  {[NoIndexing EXCEPT !.searches = 1, !.expiries = 1, !.crashes = 1],
   [NoIndexing EXCEPT !.edits = 1, !.searches = 1, !.expiries = 2],
   [NoIndexing EXCEPT !.edits = 1, !.failures = 1, !.crashes = 1],
   [NoIndexing EXCEPT !.edits = 2, !.crashes = 1, !.prunes = 2, !.interruptions = 1]}

-----------------------------------------------------------------------------
(* The graph: a source with two subpages, a project's and a shared source; *)
(* no analysis, one with eight nodes, and one that fits.                   *)

Registered(approved, synchronized, shared, capture, parent) ==
  [approved |-> approved, withdrawn |-> FALSE, ready |-> synchronized, shared |-> shared, capture |-> capture, parent |-> parent]
MCMemories ==
  {<<Registered(TRUE, TRUE, TRUE, pageA, None), Registered(TRUE, TRUE, FALSE, pageB, 1), Registered(FALSE, FALSE, FALSE, None, 1)>>,
   <<Registered(TRUE, TRUE, FALSE, pageA, None), Registered(FALSE, FALSE, TRUE, None, None)>>}
Requirement(id, source, quote) == [id |-> id, source |-> source, quote |-> quote]
Finding(id, requirement, evidence) ==
  [id |-> id, requirement |-> requirement, source |-> pageA, quote |-> 1, evidence |-> evidence, reviewed |-> requirement # None]
MCSnapshots ==
  {None,
   [sources |-> <<pageA, pageB>>, requirements |-> <<Requirement(1, pageA, 1), Requirement(2, pageA, 1)>>,
    findings |-> <<Finding(1, 1, <<pageB, pageB>>), Finding(2, None, <<pageC>>)>>],
   [sources |-> <<pageA>>, requirements |-> <<Requirement(1, pageA, 1)>>, findings |-> <<Finding(1, None, <<pageA>>)>>]}

MCConcepts == pageA :> <<"x", "y">> @@ pageB :> <<"x">> @@ pageC :> <<"z">>
MCRelations == pageA :> <<<<1, 2>>>> @@ pageB :> <<>> @@ pageC :> <<>>

-----------------------------------------------------------------------------
codeVars == <<commit, overlay, captured, excerpts, asked, searched, shown, cited, stage, rounds>>

Only(p, plan, set) == part # p => plan = CHOOSE x \in set : TRUE

MCInit ==
  /\ part \in {"analyses", "code", "clone", "prices", "notion", "storage", "index", "graph"}
  /\ AgentsInit /\ Only("analyses", budget, MCAgentPlans)
  /\ R!ReaderInit /\ Only("code", commit, {Specified, WithBinary}) /\ (part # "code" => overlay = <<>>)
  /\ CacheInit /\ (part # "clone" => directory = Folder("absent") /\ cacheBudget = CacheBudget(0,0,1))
  /\ IF part = "prices" THEN PricingInit ELSE PricesOff
  /\ NotionInit /\ Only("notion", notionBudget, MCNotionPlans)
  /\ StorageInit
  /\ CogneeInit /\ Only("index", indexBudget, MCCogneePlans) /\ (part # "index" => wanted = dataA)
  /\ GraphInit /\ Only("graph", memory, MCMemories) /\ (part # "graph" => run = None)

MCNext ==
  /\ UNCHANGED part
  /\ IF part = "analyses" THEN AgentsNext ELSE UNCHANGED agentsVars
  /\ IF part = "code" THEN R!ReaderNext ELSE UNCHANGED codeVars
  /\ IF part = "clone" THEN CacheNext ELSE UNCHANGED cacheVars
  /\ IF part = "prices" THEN PricingNext ELSE UNCHANGED priceVars
  /\ IF part = "notion" THEN NotionNext ELSE UNCHANGED notionVars
  /\ IF part = "storage" THEN StorageNext ELSE UNCHANGED storageVars
  /\ IF part = "index" THEN CogneeNext ELSE UNCHANGED cogneeVars
  /\ IF part = "graph" THEN GraphNext ELSE UNCHANGED graphVars

vars == <<part, agentsVars, codeVars, cacheVars, priceVars, notionVars, storageVars, cogneeVars, graphVars>>

\* The progress of the chosen part: the parts whose liveness is checked.
MCProgress ==
  /\ part \in {"analyses", "prices", "notion", "storage"}
  /\ UNCHANGED <<part, codeVars, cacheVars, cogneeVars, graphVars>>
  /\ IF part = "analyses" THEN AgentsProgress ELSE UNCHANGED agentsVars
  /\ IF part = "prices" THEN PricingProgress ELSE UNCHANGED priceVars
  /\ IF part = "notion" THEN Works ELSE UNCHANGED notionVars
  /\ IF part = "storage" THEN StorageProgress ELSE UNCHANGED storageVars

MCSpec == MCInit /\ [][MCNext]_vars /\ WF_vars(MCProgress)

-----------------------------------------------------------------------------
(* The properties of the parts.                                            *)

\* The saved analyses, the outbox, the tasks, the datasets and the graphs have their types; an
\* analysis makes no more calls than its rounds allow (Agents, Cognee, MemoryGraph).
TypeOK == AgentsTypeOK /\ CogneeTypeOK /\ GraphTypeOK

\* CodeReader: merging excerpts loses no line and admits none, citations quote what the model
\* was shown, and a search that is not truncated is complete.
EvidenceIsExact == R!ExcerptsAreExact /\ R!CitedWasShown /\ R!SearchIsComplete

\* What was begun ends: the history hears every event of the outbox and an analysis ends
\* (Agents), no model stays in checking (Pricing), operations on the connection end (Notion),
\* and no transaction blocks the chain (BrainStorage).
WorkEnds ==
  /\ EventuallyHeard
  /\ AnalysisEnds
  /\ ChecksEnd
  /\ OperationsEnd
  /\ ChainEnds
=============================================================================
