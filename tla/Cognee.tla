-------------------------------- MODULE Cognee --------------------------------
(***************************************************************************)
(* The client of the index service (server/src/brain/cognee): one login    *)
(* shared by the calls, the repeat of a call whose token was refused, and  *)
(* the steps that make a capture a dataset; and the maintenance that       *)
(* deletes datasets no source uses (server/src/brain/memory/prune.ts).     *)
(* Calls are lost or time out, before or after Cognee has done what they   *)
(* ask, or long before it does; Brain and the maintenance are interrupted. *)
(*                                                                         *)
(* Abstractions: one source, whose content goes back and forth between the *)
(* datasets; a search answers with the datasets of its hits; sizes and     *)
(* forms of answers, and the end of the patience of a poll, are failures.  *)
(* Cognee is external: what it does is what the client relies on.          *)
(***************************************************************************)
EXTENDS Integers, FiniteSets, Absence

CONSTANTS
  Datasets,
  CogneePlans    \* records of budgets: edits, searches, expiries, failures, crashes, prunes, interruptions

\* What a prune has still to do.
Prunes == [delete : SUBSET Datasets, deleted : Datasets \cup {None}, unbind : SUBSET Datasets]

CogneeAssumption ==
  None \notin Datasets /\ None \notin Nat /\ None \notin {"processing", "completed", "failed"} /\ None \notin Prunes
ASSUME CogneeHypothesis == CogneeAssumption

VARIABLES
  service,     \* service[d]: [exists, data, run, complete] at Cognee
  valid,       \* tokens Cognee accepts
  issued,      \* tokens issued so far
  lost,        \* those of a login whose answer never arrived
  token,       \* CogneeHttp.token
  loggingIn,   \* CogneeHttp.loginPending
  call,        \* call[c]: None or [path, dataset, at, token, again, answer]
  delayed,     \* calls the client gave up on that Cognee has still to do
  brainUp,     \* Brain runs
  wanted,      \* the dataset of the content of the source
  used,        \* the dataset the source is current with, or None
  pending,     \* a synchronization of the source is queued or running
  bound,       \* datasets recorded as indexed
  pruning,     \* None or [delete, deleted, unbind]: what the maintenance has still to do
  cut,         \* datasets it was interrupted over: deleted, and not forgotten
  starts,      \* starts of Brain
  indexBudget

cogneeVars == <<service, valid, issued, lost, token, loggingIn, call, delayed, brainUp, wanted, used, pending,
                bound, pruning, cut, starts, indexBudget>>
access == <<valid, issued, lost, token, loggingIn>>
sources == <<wanted, used, pending, bound>>
maintenance == <<pruning, cut, starts>>

Clients == {"index", "search"}
UseUp(what) == indexBudget[what] > 0 /\ indexBudget' = [indexBudget EXCEPT ![what] = @ - 1]

Pipelines == {"processing", "completed", "failed", None}
States == [exists : BOOLEAN, data : BOOLEAN, run : Pipelines, complete : BOOLEAN]
Paths == {"dataset", "status", "add", "cognify", "poll", "search"}
CallRecords == [path : Paths, dataset : Datasets, at : {"login", "sent", "answered", "refused"},
                token : Nat \cup {None}, again : BOOLEAN, answer : SUBSET (Datasets \cup Pipelines)]
LateCalls == [path : Paths, dataset : Datasets]

NoDataset == [exists |-> FALSE, data |-> FALSE, run |-> None, complete |-> FALSE]

CogneeInit ==
  /\ service = [d \in Datasets |-> NoDataset]
  /\ valid = {} /\ issued = 0 /\ lost = {} /\ token = None /\ loggingIn = FALSE
  /\ call = [c \in Clients |-> None] /\ delayed = {}
  /\ brainUp = TRUE /\ wanted \in Datasets /\ used = None /\ pending = FALSE /\ bound = {}
  /\ pruning = None /\ cut = {} /\ starts = 1 /\ indexBudget \in CogneePlans

-----------------------------------------------------------------------------
(* Cognee.                                                                 *)

\* What a call does to its dataset.
After(path, state) ==
  CASE path = "dataset" -> [state EXCEPT !.exists = TRUE]
    [] path = "add" /\ state.exists -> [state EXCEPT !.data = TRUE]
    [] path = "cognify" /\ state.exists /\ state.run # "completed" -> [state EXCEPT !.run = "processing"]
    [] OTHER -> state
Done(path, d) == [service EXCEPT ![d] = After(path, @)]

Replied(x, reply) == [x EXCEPT !.at = "answered", !.answer = reply]

ServeCall(c) ==
  /\ call[c] # None /\ call[c].at = "sent"
  /\ IF call[c].token \in valid
     THEN \E hits \in SUBSET {d \in Datasets : service[d].complete} :
            /\ call[c].path # "search" => hits = {}
            /\ service' = Done(call[c].path, call[c].dataset)
            /\ call' = [call EXCEPT ![c] = Replied(@, IF @.path = "search" THEN hits ELSE {service[@.dataset].run})]
     ELSE /\ call' = [call EXCEPT ![c].at = "refused"] /\ UNCHANGED service
  /\ UNCHANGED <<access, delayed, brainUp, sources, maintenance, indexBudget>>

\* The pipeline ends; it is complete when it had the capture.
Finished(state, result) ==
  [state EXCEPT !.run = result, !.complete = @ \/ (result = "completed" /\ state.data)]

Extract(d, result) ==
  /\ service[d].run = "processing"
  /\ service' = [service EXCEPT ![d] = Finished(@, result)]
  /\ UNCHANGED <<access, call, delayed, brainUp, sources, maintenance, indexBudget>>

DoLate(x) ==
  /\ service' = Done(x.path, x.dataset) /\ delayed' = delayed \ {x}
  /\ UNCHANGED <<access, call, brainUp, sources, maintenance, indexBudget>>

TokenExpires(t) ==
  /\ UseUp("expiries") /\ valid' = valid \ {t}
  /\ UNCHANGED <<service, issued, lost, token, loggingIn, call, delayed, brainUp, sources, maintenance>>

-----------------------------------------------------------------------------
(* Requests: CogneeHttp.                                                   *)

\* Sent with the known token, or after the login that is under way or begins.
NewCall(path, d) ==
  [path |-> path, dataset |-> d, at |-> IF token = None THEN "login" ELSE "sent",
   token |-> token, again |-> FALSE, answer |-> {}]

BeginCall(c, path, d) ==
  /\ call' = [call EXCEPT ![c] = NewCall(path, d)]
  /\ loggingIn' = (loggingIn \/ token = None)

\* The end of calls, and of the synchronization one is part of.
Drop(clients) ==
  /\ call' = [c \in Clients |-> IF c \in clients THEN None ELSE call[c]]
  /\ pending' = (pending /\ "index" \notin clients)

\* Mutant: every refusal drops the token.
DroppedToken(refused) == None

KeptToken(refused) == IF token = refused THEN None ELSE token

Resent(x, known) ==
  [x EXCEPT !.again = TRUE, !.token = known, !.at = IF known = None THEN "login" ELSE "sent"]

\* A refused call drops the token it used, unless another one took its place, and is sent once more.
Refused(c) ==
  /\ call[c] # None /\ call[c].at = "refused"
  /\ IF call[c].again THEN Drop({c}) /\ UNCHANGED <<token, loggingIn>>
     ELSE /\ UNCHANGED pending
          /\ token' = KeptToken(call[c].token)
          /\ call' = [call EXCEPT ![c] = Resent(@, token')]
          /\ loggingIn' = (loggingIn \/ token' = None)
  /\ UNCHANGED <<service, valid, issued, lost, delayed, brainUp, wanted, used, bound, maintenance, indexBudget>>

WithToken(x, new) == [x EXCEPT !.at = "sent", !.token = new]

\* performLogin: every call that waits goes on with the new token.
Login ==
  /\ loggingIn
  /\ issued' = issued + 1 /\ valid' = valid \cup {issued'} /\ token' = issued' /\ loggingIn' = FALSE
  /\ call' = [c \in Clients |-> IF call[c] # None /\ call[c].at = "login"
                                THEN WithToken(call[c], issued') ELSE call[c]]
  /\ UNCHANGED <<service, lost, delayed, brainUp, sources, maintenance, indexBudget>>

\* A login nobody waits for any more: Cognee did not get to it, or issued a token nobody knows.
\* (It may do so later as well: a token nobody knows changes nothing.)
Unheard ==
  \/ UNCHANGED <<valid, issued, lost>>
  \/ issued' = issued + 1 /\ valid' = valid \cup {issued'} /\ lost' = lost \cup {issued'}

\* It is refused, times out, or its answer is lost or cannot be read.
LoginFails ==
  /\ loggingIn /\ UseUp("failures") /\ loggingIn' = FALSE
  /\ Drop({c \in Clients : call[c] # None /\ call[c].at = "login"})
  /\ Unheard
  /\ UNCHANGED <<service, token, delayed, brainUp, wanted, used, bound, maintenance>>

\* A call that Brain no longer waits for is lost or done later.
GivenUp(calls) == {[path |-> x.path, dataset |-> x.dataset] : x \in {y \in calls : y.at = "sent"}}

TimeOut(c) ==
  /\ call[c] # None /\ call[c].at \in {"sent", "answered"} /\ UseUp("failures")
  /\ Drop({c})
  /\ \E late \in SUBSET GivenUp({call[c]}) : delayed' = delayed \cup late
  /\ UNCHANGED <<service, access, brainUp, wanted, used, bound, maintenance>>

-----------------------------------------------------------------------------
(* index, for a source that is not current; its calls follow each other.   *)

\* indexCapture: a dataset that was indexed before is taken as it is.
Reuse ==
  /\ brainUp /\ used # wanted /\ wanted \in bound /\ call["index"] = None
  /\ used' = wanted /\ pending' = FALSE
  /\ UNCHANGED <<service, access, call, delayed, brainUp, wanted, bound, maintenance, indexBudget>>

StartIndex ==
  /\ brainUp /\ used # wanted /\ wanted \notin bound /\ call["index"] = None
  /\ BeginCall("index", "dataset", wanted) /\ pending' = TRUE
  /\ UNCHANGED <<service, valid, issued, lost, token, delayed, brainUp, wanted, used, bound, maintenance, indexBudget>>

IndexAnswered(path) == call["index"] # None /\ call["index"].at = "answered" /\ call["index"].path = path
Status == CHOOSE s \in call["index"].answer : TRUE

Follow(path) ==
  /\ BeginCall("index", path, call["index"].dataset)
  /\ UNCHANGED <<bound, used, pending>>

Indexed ==
  /\ bound' = bound \cup {call["index"].dataset} /\ used' = call["index"].dataset
  /\ Drop({"index"}) /\ UNCHANGED loggingIn

GiveUp == Drop({"index"}) /\ UNCHANGED <<bound, used, loggingIn>>

\* Mutant: a pipeline that is under way is as good as a complete one.
NoWait(path) ==
  CASE Status \in {"completed", "processing"} -> Indexed
    [] Status = "failed" /\ path = "poll" -> GiveUp
    [] OTHER -> Follow(IF path = "status" THEN "add" ELSE "poll")

\* pipelineStatus before anything is added, and waitForIndex.
AfterStatus(path) ==
  CASE Status = "completed" -> Indexed
    [] Status = "failed" /\ path = "poll" -> GiveUp
    [] OTHER -> Follow(IF path = "status" /\ Status # "processing" THEN "add" ELSE "poll")

Index ==
  /\ \/ IndexAnswered("dataset") /\ Follow("status")
     \/ \E path \in {"status", "poll"} : IndexAnswered(path) /\ AfterStatus(path)
     \/ IndexAnswered("add") /\ Follow("cognify")
     \/ IndexAnswered("cognify") /\ Follow("poll")
  /\ UNCHANGED <<service, valid, issued, lost, token, delayed, brainUp, wanted, maintenance, indexBudget>>

\* A search that is answered with hits of other datasets fails as a whole.
Search ==
  /\ brainUp /\ used # None /\ call["search"] = None /\ UseUp("searches")
  /\ BeginCall("search", "search", used)
  /\ UNCHANGED <<service, valid, issued, lost, token, delayed, brainUp, sources, maintenance>>

Found ==
  /\ call["search"] # None /\ call["search"].at = "answered"
  /\ call' = [call EXCEPT !["search"] = None]
  /\ UNCHANGED <<service, access, delayed, brainUp, sources, maintenance, indexBudget>>

Edit(d) ==
  /\ UseUp("edits") /\ wanted' = d
  /\ UNCHANGED <<service, access, call, delayed, brainUp, used, pending, bound, maintenance>>

-----------------------------------------------------------------------------
(* Brain stops, and the maintenance runs meanwhile: pruneUnusedIndexes.    *)

StopBrain ==
  /\ brainUp /\ UseUp("crashes") /\ brainUp' = FALSE
  /\ token' = None /\ loggingIn' = FALSE /\ call' = [c \in Clients |-> None]
  /\ IF loggingIn THEN Unheard ELSE UNCHANGED <<valid, issued, lost>>
  /\ \E late \in SUBSET GivenUp({call[c] : c \in {x \in Clients : call[x] # None}}) : delayed' = delayed \cup late
  /\ UNCHANGED <<service, sources, maintenance>>

StartBrain ==
  /\ ~brainUp /\ pruning = None /\ brainUp' = TRUE /\ starts' = starts + 1
  /\ UNCHANGED <<service, access, call, delayed, sources, pruning, cut, indexBudget>>

\* Mutant: the dataset of the latest content is the one to keep.
AllButWanted == bound \ {wanted}

Unused == bound \ {used}

StartPrune ==
  /\ ~brainUp /\ pruning = None /\ ~pending /\ UseUp("prunes")
  /\ pruning' = [delete |-> {d \in Unused : service[d].exists}, deleted |-> None,
                 unbind |-> {d \in Unused : ~service[d].exists}]
  /\ UNCHANGED <<service, access, call, delayed, brainUp, sources, cut, starts>>

\* Cognee forgets what was asked of a dataset with it.
Delete(d) ==
  /\ pruning # None /\ pruning.deleted = None /\ d \in pruning.delete
  /\ service' = [service EXCEPT ![d] = NoDataset] /\ delayed' = {x \in delayed : x.dataset # d}
  /\ pruning' = [pruning EXCEPT !.delete = @ \ {d}, !.deleted = d]
  /\ UNCHANGED <<access, call, brainUp, sources, cut, starts, indexBudget>>

\* removeDataset of the one just deleted, and of the missing ones at the end.
Unbind(d) ==
  /\ pruning # None
  /\ d = pruning.deleted \/ (pruning.deleted = None /\ pruning.delete = {} /\ d \in pruning.unbind)
  /\ bound' = bound \ {d} /\ cut' = cut \ {d}
  /\ pruning' = [pruning EXCEPT !.deleted = None, !.unbind = @ \ {d}]
  /\ UNCHANGED <<service, access, call, delayed, brainUp, wanted, used, pending, starts, indexBudget>>

\* What it has deleted and not yet forgotten.
InHand == IF pruning = None THEN {} ELSE {pruning.deleted}

\* It is done, or interrupted.
EndPrune ==
  /\ pruning # None
  /\ \/ pruning.delete = {} /\ pruning.deleted = None /\ pruning.unbind = {} /\ UNCHANGED <<cut, indexBudget>>
     \/ UseUp("interruptions") /\ cut' = cut \cup (InHand \ {None})
  /\ pruning' = None
  /\ UNCHANGED <<service, access, call, delayed, brainUp, sources, starts>>

CogneeNext ==
  \/ \E c \in Clients : ServeCall(c) \/ Refused(c) \/ TimeOut(c)
  \/ \E d \in Datasets : Extract(d, "completed") \/ Extract(d, "failed") \/ Edit(d) \/ Delete(d) \/ Unbind(d)
  \/ \E x \in delayed : DoLate(x)
  \/ \E t \in valid : TokenExpires(t)
  \/ Login \/ LoginFails \/ Reuse \/ StartIndex \/ Index \/ Search \/ Found
  \/ StopBrain \/ StartBrain \/ StartPrune \/ EndPrune

CogneeSpec == CogneeInit /\ [][CogneeNext]_cogneeVars

-----------------------------------------------------------------------------
CogneeTypeOK ==
  /\ service \in [Datasets -> States]
  /\ issued \in Nat /\ valid \subseteq 1..issued /\ lost \subseteq 1..issued /\ token \in 1..issued \cup {None} /\ loggingIn \in BOOLEAN
  /\ call \in [Clients -> CallRecords \cup {None}] /\ delayed \subseteq LateCalls
  /\ brainUp \in BOOLEAN /\ starts \in Nat /\ pending \in BOOLEAN
  /\ bound \subseteq Datasets /\ cut \subseteq Datasets /\ wanted \in Datasets /\ used \in Datasets \cup {None}
  /\ pruning \in Prunes \cup {None}
  /\ \A c \in Clients : call[c] # None /\ call[c].at = "login" => loggingIn

\* A dataset that is recorded as indexed holds its capture, completely, whatever was lost, late
\* or repeated before, and the maintenance deletes none that a source is current with.  Only
\* between a deletion and its removal from the record is one recorded that is gone: while the
\* maintenance is there, and after it was interrupted there (index, waitForIndex,
\* pruneUnusedIndexes).
CurrentIsIndexed ==
  \A d \in (bound \cup {used}) \ (cut \cup InHand \cup {None}) : service[d].complete

\* The calls share a login: there are no more of them than starts of Brain, tokens that expired
\* and logins whose answer never arrived, however many calls are refused at once and however late
\* a refusal is read.
LoginsAreNeeded == issued <= Cardinality(((1..issued) \ valid) \cup lost) + starts

\* (both)
IndexHolds == CurrentIsIndexed /\ LoginsAreNeeded
=============================================================================
