------------------------------- MODULE MCLive -------------------------------
(***************************************************************************)
(* The progress of the outbox, of the accounting and of Brain's memory on  *)
(* one model checker run.  They share no state, so a behaviour is one of   *)
(* one part, chosen at the start.                                          *)
(***************************************************************************)
EXTENDS Relay, TLC

CONSTANTS
  r1, r2, w1, d1, d2, c1, c2, export,                     \* of the outbox
  req, call, o1, o3, s1, s3, requests, counters,          \* of the accounting
  top, child, spec, here                                 \* of the memory

VARIABLES
  part,
  now, serverUp, memory, seenEvents, externalIds, live, queue, failed, handler, rows, checkpoints,
  events, cleaning, acked, expired, overlooked, forgotten, sent, sends, serverFaults, serverCrashes, ticks,
  sources, jobs, captures, bindings, notices, worker, retriever, recorder, registrar, indexer, chain,
  generation, stopped, tree, version, projects, barred, misplaced, answer, policyEdits, changes,
  memoryFaults, restarts, retrievals

-----------------------------------------------------------------------------
(* The outbox: an export of a workspace and a repository, with an          *)
(* unreadable policy file, a crash and another credential.                 *)

WorkspaceExport == export :> {w1, r2}
Steady == {[dashboard |-> d1, projects |-> {r1, r2}, bound |-> w1 :> r1]}
OpenRules == {[enabled |-> FALSE, repositories |-> {}]}

-----------------------------------------------------------------------------
(* The accounting: a request, a counter with an increment, a Brain call;   *)
(* one failing write.                                                      *)

Observed ==
  [kind |-> "request", id |-> o1, ts |-> 0, request |-> req, response |-> None,
   cost |-> None, in |-> 2, out |-> None, cached |-> None]
Sample(id, ts, series, delta, start, value) ==
  [kind |-> "metric", id |-> id, ts |-> ts, series |-> series, delta |-> delta, start |-> start,
   value |-> value, total |-> value]
Exports ==
  requests :> <<Observed>> @@ counters :> <<Sample(o1, 0, s1, FALSE, 0, 2), Sample(o3, 1, s3, TRUE, 1, 3)>>
Call ==
  [id |-> call, source |-> "brain", ts |-> 0, keys |-> {}, cost |-> 4, in |-> 1, out |-> None,
   cached |-> None, snapshot |-> None, origin |-> "reported"]
ServerPlan ==
  [now |-> 1, ticks |-> 0, rows |-> {{}}, faults |-> 1, crashes |-> 0,
   sends |-> requests :> 2 @@ counters :> 2 @@ call :> 1]

\* The ids of the samples, as SampleId of Accounting makes them.
SampleIds == {<<s1, FALSE, 0, 0, 2>>, <<s3, TRUE, 1, 1, 3>>}

I == INSTANCE Ingest WITH
       Keys <- {req, call} \cup SampleIds, Series <- {s1, s3},
       Price <- [input |-> 2, output |-> 3, cached |-> 1],
       SavedPrice <- [input |-> 4, output |-> 1, cached |-> 2],
       Retention <- 2, DayLength <- 1, Batches <- {requests, counters}, Body <- Exports,
       Calls <- {Call}, SeenLimit <- 2, Plans <- {ServerPlan},
       up <- serverUp, faults <- serverFaults, crashes <- serverCrashes

-----------------------------------------------------------------------------
(* The memory: a branch to discover, with an edit, and a retrieval of a    *)
(* page and a specification, each with a failing call or a restart.        *)

Approved == [approval |-> "approved", scope |-> {here}, include |-> FALSE, auto |-> FALSE]
Branch == [Approved EXCEPT !.include = TRUE, !.auto = TRUE]
OutBranch == [Branch EXCEPT !.approval = "withdrawn"]

Registration(choice) ==
  [parent |-> None, approval |-> choice.approval, before |-> None, scope |-> choice.scope,
   include |-> choice.include, auto |-> choice.auto, status |-> "pending", capture |-> None,
   dataset |-> None, generation |-> None, text |-> 0]
Alone(choice) == [s \in {top, child, spec} |-> IF s = top THEN Registration(choice) ELSE None]
Above == [s \in {top, child, spec} |-> IF s = child THEN top ELSE None]

Discovery(failing, restarted) ==
  [known |-> Alone(Branch), tree |-> Above, projects |-> {}, edits |-> <<{top, child} \X {Branch, OutBranch}>>,
   changes |-> 0, faults |-> failing, restarts |-> restarted, retrievals |-> 0]
Retrieval(failing, restarted) ==
  [known |-> Alone(Approved), tree |-> [s \in {top, child, spec} |-> None], projects |-> {spec}, edits |-> <<>>,
   changes |-> 0, faults |-> failing, restarts |-> restarted, retrievals |-> 1]

AllSources == {top, child, spec}
BothPages == {top, child}
OneSpec == {spec}
NoReviews == {}
Home == {here}
Choices == {Approved, Branch, OutBranch}
MemoryPlans == {Discovery(1, 0), Discovery(0, 1), Retrieval(1, 0), Retrieval(0, 1)}

M == INSTANCE MemorySync WITH
       Sources <- AllSources, Pages <- BothPages, Specs <- OneSpec, Reviews <- NoReviews, MaxSources <- 3,
       Policies <- Choices, Project <- here, Plans <- MemoryPlans,
       events <- notices, edits <- policyEdits, faults <- memoryFaults

-----------------------------------------------------------------------------
outboxVars == vars
serverVars ==
  <<now, serverUp, memory, seenEvents, externalIds, live, queue, failed, handler, rows, checkpoints,
    events, cleaning, acked, expired, overlooked, forgotten, sent, sends, serverFaults, serverCrashes, ticks>>
memoryVars ==
  <<sources, jobs, captures, bindings, notices, worker, retriever, recorder, registrar, indexer, chain,
    generation, stopped, tree, version, projects, barred, misplaced, answer, policyEdits, changes,
    memoryFaults, restarts, retrievals>>
liveVars == <<part, outboxVars, serverVars, memoryVars>>

MCInit ==
  /\ part \in {"outbox", "server", "memory"}
  /\ Init /\ (part # "outbox" => credential = c1)
  /\ I!Init
  /\ M!Init /\ (part # "memory" => retrievals = 0)

\* A step of the part that was chosen.
MCNext ==
  /\ UNCHANGED part
  /\ \/ part = "outbox" /\ Next /\ UNCHANGED <<serverVars, memoryVars>>
     \/ part = "server" /\ I!Next /\ UNCHANGED <<outboxVars, memoryVars>>
     \/ part = "memory" /\ M!Next /\ UNCHANGED <<outboxVars, serverVars>>

\* The fairness of Relay, of Ingest and of MemorySync, for the part that was chosen.
Outbox(action) == part = "outbox" /\ action
Server(action) == part = "server" /\ action
Memory(action) == part = "memory" /\ action

MCFairness ==
  /\ WF_outboxVars(Outbox(Write)) /\ WF_outboxVars(Outbox(Flush)) /\ WF_outboxVars(Outbox(Drain))
  /\ WF_outboxVars(Outbox(Tick)) /\ WF_outboxVars(Outbox(Restart))
  /\ WF_serverVars(Server(I!Write)) /\ WF_serverVars(Server(I!WriteThrows)) /\ WF_serverVars(Server(I!Tick))
  /\ WF_serverVars(Server(I!Recover)) /\ WF_serverVars(Server(I!Start))
  /\ \A b \in {requests, counters} :
       /\ WF_serverVars(Server(I!Repeat(b)))
       /\ WF_serverVars(Server(I!Handle(b)))
       /\ WF_serverVars(Server(I!Answer(b)))
  /\ WF_memoryVars(Memory(M!WorkerSteps)) /\ WF_memoryVars(Memory(M!SaveReview \/ M!QueueReview))
  /\ WF_memoryVars(Memory(M!RegisterProjects)) /\ WF_memoryVars(Memory(stopped /\ M!Restart))
  /\ WF_memoryVars(Memory(M!WaitEnds)) /\ WF_memoryVars(Memory(M!AnswerSteps))

MCSpec == MCInit /\ [][MCNext]_liveVars /\ MCFairness

-----------------------------------------------------------------------------
\* Every entry leaves the outbox (Relay), and every batch is acknowledged (Ingest).
EverythingIsHandled ==
  /\ Resolved
  /\ part = "server" => I!EventuallyAcked

\* References become ready again, and retrievals end (MemorySync).
MemorySettles ==
  part = "memory" => M!Settles /\ M!RetrievalEnds
=============================================================================
