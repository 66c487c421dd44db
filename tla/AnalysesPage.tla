---------------------------- MODULE AnalysesPage ----------------------------
(***************************************************************************)
(* The page of the analyses (ui/src/components/brain/useProjectAnalyses.ts)*)
(* between a server that changes and answers that come in any order: the   *)
(* poll of the list, the load of the selected analysis, a start and a      *)
(* review.  Counters tell the newest request of each kind.                 *)
(*                                                                         *)
(* Abstractions: one project; an analysis is its number and a version of   *)
(* its details; the list is the versions of the analyses it names.         *)
(***************************************************************************)
EXTENDS Integers, FiniteSetsExt, Absence

CONSTANTS
  Analyses,     \* 1..n, in the order they are created
  PagePlans     \* records of budgets: polls, starts, reviews, selections, changes, failures

\* Analyses are counted from 1; no analysis, version, list or pending action is None.
AnalysesAssumption ==
  /\ Analyses \subseteq Nat /\ \E n \in Analyses : Analyses = 1..n
  /\ None \notin Nat /\ None \notin [Analyses -> Nat] /\ None \notin {"analysis", "review"}
ASSUME AnalysesHypothesis == AnalysesAssumption

VARIABLES
  saved,          \* the server: by analysis its version, 0 if there is none
  calls,          \* requests under way: [kind, run, version, answer, last], where `last' says
                  \* that its failure, or the details it brings, end the action
  list,           \* state.runs: None or by analysis the version, 0 if it is not in the list
  stateVersion, detailVersion,
  selected,       \* selectedRunId
  loaded,         \* analysis: None or [run, version]
  detailError,    \* None or the analysis whose details failed
  shownFor,       \* what the effect last ran for: <<analysis, version>>
  action,         \* pendingAction
  mine,           \* the analyses whose start was answered here
  analysesLeft

analysesState == <<list, stateVersion, detailVersion, selected, loaded, detailError, shownFor, action, mine>>
analysesVars == <<saved, calls, analysesState, analysesLeft>>

AnalysesSpend(what) == analysesLeft[what] > 0 /\ analysesLeft' = [analysesLeft EXCEPT ![what] = @ - 1]

Call(kind, run, version) ==
  [kind |-> kind, run |-> run, version |-> version, answer |-> None, last |-> kind \in {"start", "review"}]
Pending(kind) == {c \in calls : c.kind = kind}
InList(known) == {r \in Analyses : known # None /\ known[r] > 0}

\* selectedRun: the chosen one if the list has it, else the newest.
SelectedRun(known, choice) ==
  IF choice \in InList(known) THEN choice
  ELSE IF InList(known) = {} THEN None ELSE Max(InList(known))

Detail == IF loaded # None /\ loaded.run = SelectedRun(list, selected) THEN loaded ELSE None

AnalysesInit ==
  /\ saved = [r \in Analyses |-> IF r <= 2 THEN 1 ELSE 0]
  /\ calls = {} /\ list = None /\ stateVersion = 0 /\ detailVersion = 0
  /\ selected = None /\ loaded = None /\ detailError = None
  /\ shownFor = <<None, 0>> /\ action = None /\ mine = {}
  /\ analysesLeft \in PagePlans

-----------------------------------------------------------------------------
(* The server.                                                             *)

ChangeAnalysis(r) ==
  /\ saved[r] > 0 /\ AnalysesSpend("changes")
  /\ saved' = [saved EXCEPT ![r] = @ + 1]
  /\ UNCHANGED <<calls, analysesState>>

Answered(c, answer) == calls' = (calls \ {c}) \cup {[c EXCEPT !.answer = answer]}

HandleRead(c) ==
  /\ c.answer = None /\ c.kind \in {"list", "detail"}
  /\ Answered(c, IF c.kind = "list" THEN saved ELSE saved[c.run])
  /\ UNCHANGED <<saved, analysesState, analysesLeft>>

\* A start creates the next analysis, a review changes its analysis.
HandleWrite(c) ==
  /\ c.answer = None /\ c.kind \in {"start", "review"}
  /\ LET r == IF c.kind = "review" THEN c.run ELSE Min({x \in Analyses : saved[x] = 0}) IN
       /\ saved' = [saved EXCEPT ![r] = @ + 1]
       /\ Answered(c, r)
  /\ UNCHANGED <<analysesState, analysesLeft>>

-----------------------------------------------------------------------------
(* Rendering: the effect loads the selected analysis when it or its version *)
(* is another one than before.                                             *)

Render(known, choice, rest) ==
  LET r == SelectedRun(known, choice)
      wanted == IF r = None THEN <<None, 0>> ELSE <<r, known[r]>>
  IN /\ list' = known /\ selected' = choice /\ shownFor' = wanted
     /\ IF wanted = shownFor
        THEN calls' = rest /\ UNCHANGED <<detailVersion, loaded>>
        ELSE /\ detailVersion' = detailVersion + 1
             /\ calls' = IF r = None THEN rest ELSE rest \cup {Call("detail", r, detailVersion + 1)}
             /\ loaded' = IF r = None THEN None ELSE loaded

\* poll: a refresh at a time.
PollList ==
  /\ Pending("list") = {} /\ AnalysesSpend("polls")
  /\ stateVersion' = stateVersion + 1
  /\ calls' = calls \cup {Call("list", None, stateVersion + 1)}
  /\ UNCHANGED <<saved, list, detailVersion, selected, loaded, detailError, shownFor, action, mine>>

IsNewestList(c) == c.version = stateVersion

TakeList(c) ==
  /\ c.kind = "list" /\ c.answer # None
  /\ IF IsNewestList(c) THEN Render(c.answer, selected, calls \ {c})
     ELSE calls' = calls \ {c} /\ UNCHANGED <<list, selected, shownFor, detailVersion, loaded>>
  /\ UNCHANGED <<saved, stateVersion, detailError, action, mine, analysesLeft>>

\* Mutant: every answer is taken.
AnyDetail(c) == TRUE

IsNewestDetail(c) == c.version = detailVersion

TakeDetail(c) ==
  /\ c.kind = "detail" /\ c.answer # None
  /\ calls' = calls \ {c}
  /\ IF IsNewestDetail(c) THEN loaded' = [run |-> c.run, version |-> c.answer] /\ detailError' = None
     ELSE UNCHANGED <<loaded, detailError>>
  /\ action' = IF c.last THEN None ELSE action
  /\ UNCHANGED <<saved, list, stateVersion, detailVersion, selected, shownFor, mine, analysesLeft>>

\* A request fails, before or after the server handled it.
FailCall(c) ==
  /\ AnalysesSpend("failures")
  /\ calls' = calls \ {c}
  /\ detailError' = IF c.kind = "detail" /\ IsNewestDetail(c) THEN c.run ELSE detailError
  /\ action' = IF c.last THEN None ELSE action
  /\ UNCHANGED <<saved, list, stateVersion, detailVersion, selected, loaded, shownFor, mine>>

-----------------------------------------------------------------------------
(* The user.                                                               *)

SelectAnalysis(r) ==
  /\ r \in InList(list) /\ r # selected /\ AnalysesSpend("selections")
  /\ Render(list, r, calls)
  /\ UNCHANGED <<saved, stateVersion, detailError, action, mine>>

RetryDetail ==
  /\ detailError # None /\ detailError = SelectedRun(list, selected)
  /\ AnalysesSpend("selections")
  /\ detailVersion' = detailVersion + 1
  /\ calls' = calls \cup {Call("detail", detailError, detailVersion + 1)}
  /\ UNCHANGED <<saved, list, stateVersion, selected, loaded, detailError, shownFor, action, mine>>

StartAnalysis ==
  /\ action = None /\ InList(list) # {} /\ saved[Max(Analyses)] = 0 /\ AnalysesSpend("starts")
  /\ action' = "analysis"
  /\ calls' = calls \cup {Call("start", None, 0)}
  /\ UNCHANGED <<saved, list, stateVersion, detailVersion, selected, loaded, detailError, shownFor, mine>>

\* Mutant: a list that was asked for before the answer of a start is taken.
AfterStartAsBefore == stateVersion

\* The answer of a start makes every list that was asked for before it too old.
AfterStart == stateVersion + 1

Started(c) ==
  /\ c.kind = "start" /\ c.answer # None
  /\ stateVersion' = AfterStart
  /\ Render([list EXCEPT ![c.answer] = 1], c.answer, calls \ {c})
  /\ mine' = mine \cup {c.answer} /\ action' = None
  /\ UNCHANGED <<saved, detailError, analysesLeft>>

SaveReview ==
  /\ action = None /\ Detail # None /\ AnalysesSpend("reviews")
  /\ action' = "review"
  /\ calls' = calls \cup {Call("review", Detail.run, 0)}
  /\ UNCHANGED <<saved, list, stateVersion, detailVersion, selected, loaded, detailError, shownFor, mine>>

\* The review is saved: its analysis is loaded, whichever is selected by now.
Reviewed(c) ==
  /\ c.kind = "review" /\ c.answer # None
  /\ detailVersion' = detailVersion + 1
  /\ calls' = (calls \ {c}) \cup {[Call("detail", c.run, detailVersion + 1) EXCEPT !.last = TRUE]}
  /\ UNCHANGED <<saved, list, stateVersion, selected, loaded, detailError, shownFor, action, mine, analysesLeft>>

AnalysesNext ==
  \/ PollList \/ RetryDetail \/ StartAnalysis \/ SaveReview
  \/ \E r \in Analyses : ChangeAnalysis(r) \/ SelectAnalysis(r)
  \/ \E c \in calls : \/ HandleRead(c) \/ HandleWrite(c) \/ TakeList(c) \/ TakeDetail(c)
                      \/ FailCall(c) \/ Started(c) \/ Reviewed(c)

AnalysesSpec == AnalysesInit /\ [][AnalysesNext]_analysesVars

-----------------------------------------------------------------------------
AnalysesTypeOK ==
  /\ \A r \in Analyses : saved[r] \in Nat
  /\ list = None \/ \A r \in Analyses : list[r] \in Nat
  /\ selected \in Analyses \cup {None} /\ detailError \in Analyses \cup {None}
  /\ mine \subseteq Analyses

\* An analysis whose start was answered stays in the list: an older list that arrives later
\* does not take it away again (startAnalysis makes the lists under way too old).
OwnRunStays == mine \subseteq InList(list)

\* The details that are shown of an analysis never go back to an older version, however the
\* answers of the poll, of a selection, of a retry and of a review overtake each other.
DetailsAdvance ==
  [][Detail # None /\ Detail' # None /\ Detail.run = Detail'.run => Detail'.version >= Detail.version]_analysesVars
=============================================================================
