----------------------------- MODULE QueryPages -----------------------------
(***************************************************************************)
(* The pages that read what the reader selects: the memory graph with the  *)
(* documents opened from it (ui/src/components/brain/useMemoryGraph.ts),   *)
(* the trends (ui/src/components/trends/useTrends.ts) and the activity of  *)
(* Brain (ui/src/components/brain/useBrainActivity.ts).  Reads are handled *)
(* and answered in any order.  An effect of the page lasts until the       *)
(* selection changes or the reader refreshes; its reads are not taken      *)
(* after it.                                                               *)
(*                                                                         *)
(* Abstractions: what the server answers is a version; the texts of errors *)
(* and the focus are left out.                                             *)
(***************************************************************************)
EXTENDS Integers, FiniteSets, Absence

CONSTANTS
  Documents,    \* sources of a graph
  QueryPlans    \* records of budgets: selects, refreshes, polls, opens, changes, failures

\* No document is None.
QueriesAssumption == None \notin [source : Documents, run : Nat \cup {None}]
ASSUME QueriesHypothesis == QueriesAssumption

VARIABLES
  query,         \* the page: "graph", "trends" or "activity"
  latest,        \* the version of the server
  key,           \* what is selected: "knowledge" or "analysis"
  effect,        \* the effect that runs
  pageReads,     \* under way: [key, effect, answer]
  shownAnswer,   \* None or [key, version]
  document,      \* None or [source, run]
  openings,      \* documents being read: [source, run, version, answer]
  sourceVersion,
  analysisId,    \* the analysis in which the links of the document are followed
  wanted,        \* the document that the reader asked for last, None after it was closed
  failed,        \* it could not be read
  queriesLeft

queryVars == <<query, latest, key, effect, pageReads, shownAnswer, document, openings, sourceVersion,
               analysisId, wanted, failed, queriesLeft>>
readingState == <<key, effect, pageReads, shownAnswer>>
documentState == <<document, openings, sourceVersion, analysisId, wanted, failed>>

QueriesSpend(what) == queriesLeft[what] > 0 /\ queriesLeft' = [queriesLeft EXCEPT ![what] = @ - 1]
PageRead(k, e) == [key |-> k, effect |-> e, answer |-> 0]

\* The first effect starts with the page.
QueriesInit ==
  /\ query \in {"graph", "trends", "activity"} /\ queriesLeft \in QueryPlans
  /\ latest = 1 /\ key = "knowledge" /\ effect = 1 /\ pageReads = {PageRead(key, effect)} /\ shownAnswer = None
  /\ document = None /\ openings = {} /\ sourceVersion = 0 /\ analysisId = None /\ wanted = None /\ failed = FALSE

ChangeAnswer ==
  /\ QueriesSpend("changes") /\ latest' = latest + 1
  /\ UNCHANGED <<query, readingState, documentState>>

HandleQuery(r) ==
  /\ r.answer = 0
  /\ pageReads' = (pageReads \ {r}) \cup {[r EXCEPT !.answer = latest]}
  /\ UNCHANGED <<query, latest, key, effect, shownAnswer, documentState, queriesLeft>>

-----------------------------------------------------------------------------
(* What is shown.                                                          *)

\* A new selection shows nothing of the former one and closes its document.
SelectView(k) ==
  /\ query # "activity" /\ k # key /\ QueriesSpend("selects")
  /\ key' = k /\ effect' = effect + 1 /\ pageReads' = pageReads \cup {PageRead(k, effect + 1)} /\ shownAnswer' = None
  /\ document' = None /\ sourceVersion' = sourceVersion + 1 /\ analysisId' = None /\ wanted' = None
  /\ UNCHANGED <<query, latest, openings, failed>>

\* Refresh and retry: the same selection in a new effect.
RefreshView ==
  /\ query # "activity" /\ QueriesSpend("refreshes")
  /\ effect' = effect + 1 /\ pageReads' = pageReads \cup {PageRead(key, effect + 1)}
  /\ UNCHANGED <<query, latest, key, shownAnswer, documentState>>

\* Mutant: the timer reads whatever is under way.
PollAnyway == query # "graph"

\* The timer of the trends does not read over a pending read; that of the activity starts with the end of one.
MayPoll == query # "graph" /\ \A r \in pageReads : r.effect # effect

PollView ==
  /\ MayPoll /\ QueriesSpend("polls")
  /\ pageReads' = pageReads \cup {PageRead(key, effect)}
  /\ UNCHANGED <<query, latest, key, effect, shownAnswer, documentState>>

\* Mutant: the answer of an effect that ended is taken.
TakenAnyway(r) == TRUE

\* cancelled, aborted
IsCurrent(r) == r.effect = effect

TakeAnswer(r) ==
  /\ r.answer # 0 /\ pageReads' = pageReads \ {r}
  /\ shownAnswer' = IF IsCurrent(r) THEN [key |-> r.key, version |-> r.answer] ELSE shownAnswer
  /\ UNCHANGED <<query, latest, key, effect, documentState, queriesLeft>>

FailAnswer(r) ==
  /\ QueriesSpend("failures") /\ pageReads' = pageReads \ {r}
  /\ UNCHANGED <<query, latest, key, effect, shownAnswer, documentState>>

-----------------------------------------------------------------------------
(* The documents of the graph.                                             *)

\* openSource: read from the analysis that captured it, if there is one.
Open(source, run) ==
  /\ QueriesSpend("opens")
  /\ sourceVersion' = sourceVersion + 1
  /\ openings' = openings \cup {[source |-> source, run |-> run, version |-> sourceVersion']}
  /\ wanted' = [source |-> source, run |-> run] /\ failed' = FALSE
  /\ UNCHANGED <<query, latest, readingState, document>>

\* A node of the analysis view belongs to the analysis that is shown.
OpenNode(source) ==
  /\ query = "graph" /\ shownAnswer # None
  /\ analysisId' = IF shownAnswer.key = "analysis" THEN shownAnswer.version ELSE None
  /\ Open(source, analysisId')

\* A link in the document.
OpenLink(source) == document # None /\ Open(source, analysisId) /\ UNCHANGED analysisId

\* Mutant: the document that comes last is shown.
LastToCome(o) == TRUE

IsLatest(o) == o.version = sourceVersion

Opened(o) ==
  /\ openings' = openings \ {o}
  /\ IF IsLatest(o)
     THEN analysisId' = o.run /\ document' = [source |-> o.source, run |-> o.run]
     ELSE UNCHANGED <<analysisId, document>>
  /\ UNCHANGED <<query, latest, readingState, sourceVersion, wanted, failed, queriesLeft>>

OpenFails(o) ==
  /\ QueriesSpend("failures") /\ openings' = openings \ {o}
  /\ failed' = (failed \/ IsLatest(o))
  /\ UNCHANGED <<query, latest, readingState, document, sourceVersion, analysisId, wanted>>

CloseDocument ==
  /\ document # None
  /\ document' = None /\ sourceVersion' = sourceVersion + 1 /\ wanted' = None
  /\ UNCHANGED <<query, latest, readingState, openings, analysisId, failed, queriesLeft>>

QueriesNext ==
  \/ ChangeAnswer \/ RefreshView \/ PollView \/ CloseDocument
  \/ \E k \in {"knowledge", "analysis"} : SelectView(k)
  \/ \E r \in pageReads : HandleQuery(r) \/ TakeAnswer(r) \/ FailAnswer(r)
  \/ \E source \in Documents : OpenNode(source) \/ OpenLink(source)
  \/ \E o \in openings : Opened(o) \/ OpenFails(o)

QueriesSpec == QueriesInit /\ [][QueriesNext]_queryVars

-----------------------------------------------------------------------------
QueriesTypeOK ==
  /\ query \in {"graph", "trends", "activity"} /\ latest \in Nat /\ effect \in Nat /\ sourceVersion \in Nat
  /\ document # None => document.source \in Documents

\* What a page shows answers its selection, and never goes back to an older state of the server
\* while the selection stays, whatever was selected, refreshed and polled meanwhile and in
\* which order the answers come (useMemoryGraph, useTrends, useBrainActivity).
AnswersAdvance ==
  [][shownAnswer' # None =>
       /\ shownAnswer'.key = key'
       /\ shownAnswer # None /\ key' = key => shownAnswer'.version >= shownAnswer.version]_queryVars

\* The document that is shown is the one that was asked for last, and its links are followed
\* in its own analysis, unless that document is still being read or could not be: one that was
\* asked for before it was closed, or before another selection, does not come back.
DocumentIsLatest ==
  document # None /\ ~failed =>
    /\ wanted # None
    /\ (\A o \in openings : o.version # sourceVersion) => document = wanted /\ analysisId = document.run
=============================================================================
