------------------------------- MODULE Agents -------------------------------
(***************************************************************************)
(* Brain's analyses (server/src/brain/analysis/service.ts): a start, the   *)
(* execution of one analysis by three roles of the model, the human review *)
(* of its findings, the outbox of activity events and the repair at a      *)
(* start of the server.                                                    *)
(*                                                                         *)
(* A handler is a task: the place it has reached (`at') and the effects it *)
(* still has to wait for (`todo'): a save of its run, an event put into    *)
(* the outbox, a delivery it begins or joins.  Every effect is a step of   *)
(* its own, with everything else in between.                               *)
(*                                                                         *)
(* Abstractions: one project; a run is its number; sources, prompts and    *)
(* answers are what they lead to; versions of the project, of its memory   *)
(* and of the approved context are numbers.                                *)
(***************************************************************************)
EXTENDS Integers, Sequences, FiniteSetsExt, Absence

CONSTANTS
  MaxRuns,      \* how many analyses are started
  MaxRounds,    \* codeRetrieval.maxRounds
  AgentPlans    \* what may happen: records of budgets

Runs == 1..MaxRuns
Roles == {"reader", "comparison", "arbitration"}

\* What the database and the handlers hold: analyses with their calls, events, what a handler
\* still waits for, and the handler itself.
ModelCalls == [role : Roles, status : {"running", "completed", "failed", "interrupted"}, next : Roles \cup {None}]
RunRecords ==
  [status : {"running", "succeeded", "failed", "interrupted"}, stages : Nat, calls : Seq(ModelCalls),
   outcome : {None, "aligned", "difference"}, reviews : Nat,
   config : Nat, context : Nat \cup {None}, knowledge : Nat \cup {None}]
EventKinds == {"started", "stage", "call:started", "call:completed", "completed", "failed", "interrupted", "review"}
Events == Runs \X EventKinds \X Nat
Awaited == [kind : {"save", "deliver", "join"}, event : {None}] \cup [kind : {"tell"}, event : Events]
Stops == {"interrupt", "repair", "serve", "projects", "begin", "capture", "retrieve", "retrieving", "invoke",
          "call", "model", "answer", "failing", "finish", "complete", "ended", "detail", "record", "noted"}
Handling == [run : Runs \cup {None}, at : Stops, todo : Seq(Awaited), mine : RunRecords \cup {None}]

Plans == [starts : Nat, failures : Nat, failingWrites : Nat, crashes : Nat, changes : Nat, reviews : Nat]

AgentsAssumption ==
  /\ MaxRuns \in Nat /\ MaxRounds \in Nat
  /\ \A plan \in AgentPlans : plan \in Plans /\ plan.starts <= MaxRuns
  /\ None \notin Runs /\ None \notin RunRecords /\ None \notin Handling
ASSUME AgentsHypothesis == AgentsAssumption

VARIABLES
  \* the database
  runs,        \* the saved analyses, by number
  feed,        \* the outbox: events in the order they were put
  delivered,   \* the events marked as delivered
  \* the process
  ready,       \* init has ended, requests are served
  task,        \* what the four kinds of handlers are doing
  running,     \* the analysis that runs
  delivery,    \* the delivery in flight: the positions of its snapshot that are left
  \* the world
  heard,       \* what the history took, in the order of the first receipt
  broken,      \* a write failed since the server was started
  config, context, knowledge,   \* the project, the approved context, the memory: versions
  budget

store == <<runs, feed, delivered>>
process == <<ready, running, delivery, broken>>
world == <<config, context, knowledge>>
agentsVars == <<store, process, task, heard, world, budget>>

Actors == {"init", "start", "execute", "review"}

Spend(what) == /\ budget[what] > 0
               /\ budget' = [budget EXCEPT ![what] = @ - 1]

-----------------------------------------------------------------------------
(* Runs, calls and events.                                                 *)

NewRun(version) ==
  [status |-> "running", stages |-> 0, calls |-> <<>>, outcome |-> None, reviews |-> 0,
   config |-> version, context |-> None, knowledge |-> None]

SavedRuns == {r \in Runs : runs[r] # None}

\* The latest analysis that succeeded, by order of creation (projectStates).
Succeeded == {r \in SavedRuns : runs[r].status = "succeeded"}
IsCurrent(r) == /\ r \in Succeeded
                /\ r = Max(Succeeded)
                /\ runs[r].config = config.version
                /\ runs[r].knowledge = knowledge

Event(r, what, n) == <<r, what, n>>
CallEnd(r, n) == Event(r, "call:completed", n)

\* The calls of saved runs that ended without an event that tells it.
Untold == {e \in {CallEnd(r, n) : r \in SavedRuns, n \in 1..(MaxRounds + 3)} :
             /\ e[3] \in DOMAIN runs[e[1]].calls
             /\ runs[e[1]].calls[e[3]].status # "running"
             /\ e \notin Range(feed)}

\* The effects of activity(), progress() and a save.
Effect(kind, e) == [kind |-> kind, event |-> e]
Saving == <<Effect("save", None)>>
Told(e) == <<Effect("tell", e), Effect("deliver", None)>>
Progressed(run) == [run EXCEPT !.stages = @ + 1]
Progress(r, run) == Saving \o Told(Event(r, "stage", run.stages + 1))

Task(r, at, todo, run) == [run |-> r, at |-> at, todo |-> todo, mine |-> run]

Reaches(a, place) == task[a] # None /\ task[a].todo = <<>> /\ task[a].at = place
Become(a, t) == task' = [task EXCEPT ![a] = t]

\* The handler goes on at a place once the effects are done.
Go(a, place, todo, run) == Become(a, Task(task[a].run, place, todo, run))

\* execute() fails: the run is saved as failed, whatever it was before.
Failed(run) == [run EXCEPT !.status = "failed"]
\* (mutant) the failure is told but not saved
FailingUnsaved == LET t == task["execute"] IN
  Task(t.run, "ended", Told(Event(t.run, "failed", 0)), Failed(t.mine))

Failing == LET t == task["execute"] IN
  Task(t.run, "ended", Saving \o Told(Event(t.run, "failed", 0)), Failed(t.mine))
Fails == Become("execute", Failing)

-----------------------------------------------------------------------------
(* The effects: one await each.                                            *)

Do(a, kind) == task[a] # None /\ task[a].todo # <<>> /\ Head(task[a].todo).kind = kind
Rest(a) == Become(a, [task[a] EXCEPT !.todo = Tail(@)])

SaveRun(a) ==
  /\ Do(a, "save")
  /\ runs' = [runs EXCEPT ![task[a].run] = task[a].mine]
  /\ Rest(a)
  /\ UNCHANGED <<feed, delivered, process, heard, world, budget>>

\* An event keeps its first form: the put is immutable.
PutEvent(a) ==
  /\ Do(a, "tell")
  /\ LET e == Head(task[a].todo).event IN
       feed' = IF e \in Range(feed) THEN feed ELSE Append(feed, e)
  /\ Rest(a)
  /\ UNCHANGED <<runs, delivered, process, heard, world, budget>>

\* Handlers whose await throws: execute() turns to its failure, and a second failure there
\* ends the process, as a failing init does; a start or a review answers an error.
Break(actors) ==
  IF "init" \in actors \/ ("execute" \in actors /\ task["execute"].at = "ended")
  THEN /\ task' = [a \in Actors |-> None]
       /\ ready' = FALSE /\ running' = None
  ELSE /\ task' = [a \in Actors |-> IF a \notin actors THEN task[a]
                                    ELSE IF a = "execute" THEN Failing ELSE None]
       /\ UNCHANGED <<ready, running>>

WriteFails(a) ==
  /\ Do(a, "save") \/ Do(a, "tell")
  /\ Spend("failingWrites") /\ broken' = TRUE
  /\ Break({a})
  /\ delivery' = IF running' = running /\ ready' = ready THEN delivery ELSE None
  /\ UNCHANGED <<store, heard, world>>

\* deliverActivity takes a snapshot of what is pending, unless a delivery is in flight.
Pending == {i \in DOMAIN feed : feed[i] \notin delivered}

NextDelivery == IF delivery # None THEN delivery
                ELSE IF Pending = {} THEN None
                ELSE [left |-> Pending, taken |-> FALSE]

BeginDelivery(a) ==
  /\ Do(a, "deliver")
  /\ delivery' = NextDelivery
  /\ IF delivery' = None THEN Rest(a)
     ELSE Become(a, [task[a] EXCEPT !.todo = <<Effect("join", None)>> \o Tail(@)])
  /\ UNCHANGED <<store, ready, running, heard, world, budget, broken>>

\* (mutant) the board only reads
OverviewReads ==
  /\ ready /\ delivery = None /\ Pending # {}
  /\ UNCHANGED agentsVars

\* A reader of the activity board: overview() begins a delivery too.
Overview ==
  /\ ready /\ delivery = None /\ Pending # {}
  /\ delivery' = NextDelivery
  /\ UNCHANGED <<store, ready, task, running, heard, world, budget, broken>>

\* The tasks after the end of the delivery they joined.
Released == [a \in Actors |-> IF Do(a, "join") THEN [task[a] EXCEPT !.todo = Tail(@)] ELSE task[a]]

\* The event whose turn it is, and the delivery without it.
Position == Min(delivery.left)
Ended == LET rest == delivery.left \ {Position} IN
  IF rest = {} THEN None ELSE [left |-> rest, taken |-> FALSE]

\* onActivity: the history takes an event once, by its stable id.
Hear(e) == heard' = IF e \in Range(heard) THEN heard ELSE Append(heard, e)

HistoryTakes ==
  /\ delivery # None /\ ~delivery.taken
  /\ Hear(feed[Position])
  /\ delivery' = [delivery EXCEPT !.taken = TRUE]
  /\ UNCHANGED <<store, ready, task, running, world, budget, broken>>

\* (mutant) the delivery goes on with the next event
HistoryFailsGoesOn ==
  /\ delivery # None /\ ~delivery.taken
  /\ Spend("failures")
  /\ delivery' = Ended
  /\ task' = IF delivery' = None THEN Released ELSE task
  /\ UNCHANGED <<store, ready, running, heard, world, broken>>

\* A failure, whether the history has stored the event or not, ends the delivery.
HistoryFails ==
  /\ delivery # None /\ ~delivery.taken
  /\ Spend("failures")
  /\ heard' = heard \/ Hear(feed[Position])
  /\ delivery' = None
  /\ task' = Released
  /\ UNCHANGED <<store, ready, running, world, broken>>

MarkDelivered ==
  /\ delivery # None /\ delivery.taken
  /\ delivered' = delivered \cup {feed[Position]}
  /\ delivery' = Ended
  /\ task' = IF delivery' = None THEN Released ELSE task
  /\ UNCHANGED <<runs, feed, ready, running, heard, world, budget, broken>>

\* The mark cannot be written: everyone who joined the delivery gets the error.
MarkFails ==
  /\ delivery # None /\ delivery.taken
  /\ Spend("failingWrites") /\ broken' = TRUE
  /\ Break({a \in Actors : Do(a, "join")})
  /\ delivery' = None
  /\ UNCHANGED <<store, heard, world>>

-----------------------------------------------------------------------------
(* start() and startRun().                                                 *)

\* (mutant) a start does not look at a start that is being prepared
StartsTwice == running = None /\ task["review"] = None

\* (mutant) a start does not look at a review
StartsDuringReview == task["start"] = None /\ running = None

MayStart == task["start"] = None /\ running = None /\ task["review"] = None

Start ==
  /\ ready /\ MayStart
  /\ Spend("starts")
  /\ Become("start", Task(None, "projects", <<>>, None))
  /\ UNCHANGED <<store, process, heard, world>>

\* After the project list was read.
StartRun ==
  /\ Reaches("start", "projects")
  /\ IF ~config.enabled \/ running # None
     THEN Become("start", None)
     ELSE LET r == Cardinality(SavedRuns) + 1 IN
          Become("start", Task(r, "begin", Saving \o Told(Event(r, "started", 0)), NewRun(config.version)))
  /\ UNCHANGED <<store, process, heard, world, budget>>

Begin ==
  /\ Reaches("start", "begin")
  /\ running' = task["start"].run
  /\ task' = [task EXCEPT !["start"] = None, !["execute"] = [task["start"] EXCEPT !.at = "capture"]]
  /\ UNCHANGED <<store, ready, delivery, heard, world, budget, broken>>

-----------------------------------------------------------------------------
(* execute(), invoke() and compareCode().                                  *)

Mine == task["execute"].mine
Run == task["execute"].run
Stay == UNCHANGED <<store, process, heard, world>>

\* captureProjectSources, applySubmittedFiles.
Capture ==
  /\ Reaches("execute", "capture")
  /\ \/ /\ Go("execute", "retrieve", Progress(Run, Mine), Progressed(Mine))
        /\ UNCHANGED budget
     \/ Spend("failures") /\ Fails
  /\ Stay

\* memory.retrieve reads both versions and ...
RetrieveBegins ==
  /\ Reaches("execute", "retrieve")
  /\ Go("execute", "retrieving", <<>>, [Mine EXCEPT !.context = context, !.knowledge = knowledge])
  /\ Stay /\ UNCHANGED budget

\* ... refuses when the context changed meanwhile; without a specification the run fails, too.
RetrieveEnds ==
  /\ Reaches("execute", "retrieving")
  /\ \/ /\ Mine.context = context
        /\ Go("execute", "invoke", Saving, Mine)
        /\ UNCHANGED budget
     \/ Mine.context # context /\ Fails /\ UNCHANGED budget
     \/ Spend("failures") /\ Fails
  /\ Stay

LastCall(run) == run.calls[Len(run.calls)]
RoleOf(run) == IF run.calls = <<>> THEN "reader"
               ELSE IF LastCall(run).next = None THEN "comparison" ELSE LastCall(run).next

\* requireCurrentContext, then progress.
CurrentContext == Mine.context = context

Invoke ==
  /\ Reaches("execute", "invoke")
  /\ IF CurrentContext
     THEN Go("execute", "call", Progress(Run, Mine), Progressed(Mine))
     ELSE Fails
  /\ Stay /\ UNCHANGED budget

CallModel ==
  /\ Reaches("execute", "call")
  /\ LET run == [Mine EXCEPT !.calls = Append(@, [role |-> RoleOf(Mine), status |-> "running", next |-> None])] IN
       Go("execute", "model", Saving \o Told(Event(Run, "call:started", Len(run.calls))), run)
  /\ Stay /\ UNCHANGED budget

\* The answer, or the failure, of the model; both are saved and told.
ModelAnswered(status) ==
  LET n == Len(Mine.calls)
      run == [Mine EXCEPT !.calls[n].status = status]
  IN Go("execute", IF status = "completed" THEN "answer" ELSE "failing",
        Saving \o Told(CallEnd(Run, n)), run)

ModelAnswers ==
  /\ Reaches("execute", "model")
  /\ \/ ModelAnswered("completed") /\ UNCHANGED budget
     \/ Spend("failures") /\ ModelAnswered("failed")
  /\ Stay

\* (mutant) the last round asks for code again.
RoundsBefore(run) == Cardinality({n \in DOMAIN run.calls : run.calls[n].role = "comparison" /\ n < Len(run.calls)})

\* What the role of the last call may lead to: parseRequirements, CodeReader,
\* parseComparisonChecks, parseArbitrationDossiers and createFindings.
Rounds(run) == Cardinality({n \in DOMAIN run.calls : run.calls[n].role = "comparison"})
FollowedBy(run, role) == [run EXCEPT !.calls[Len(run.calls)].next = role]

ReadAnswer ==
  /\ Reaches("execute", "answer") /\ LastCall(Mine).role = "reader"
  /\ \/ Go("execute", "invoke", Saving, FollowedBy(Mine, "comparison"))
     \/ Go("execute", "finish", Saving \o Progress(Run, Mine), Progressed(Mine))
  /\ Stay /\ UNCHANGED budget

\* The model asks for code once more, or gives its checks.
ComparisonAnswer ==
  /\ Reaches("execute", "answer") /\ LastCall(Mine).role = "comparison"
  /\ \/ Go("execute", "invoke", <<>>, FollowedBy(Mine, "arbitration"))
     \/ IF Rounds(Mine) > MaxRounds \/ ~CurrentContext
        THEN Fails
        ELSE Go("execute", "invoke", Progress(Run, Mine) \o Saving, Progressed(FollowedBy(Mine, "comparison")))
  /\ Stay /\ UNCHANGED budget

ArbitrationAnswer ==
  /\ Reaches("execute", "answer") /\ LastCall(Mine).role = "arbitration"
  /\ \E outcome \in {"aligned", "difference"} :
       Go("execute", "finish", <<>>, [Mine EXCEPT !.outcome = outcome])
  /\ Stay /\ UNCHANGED budget

\* An answer that does not pass the validation.
AnswerRejected ==
  /\ Reaches("execute", "answer")
  /\ Spend("failures") /\ Fails
  /\ Stay

CallFailed == Reaches("execute", "failing") /\ Fails /\ Stay /\ UNCHANGED budget

Finish ==
  /\ Reaches("execute", "finish")
  /\ IF CurrentContext
     THEN LET run == [Mine EXCEPT !.status = "succeeded"] IN
          Go("execute", "complete", Progress(Run, run), Progressed(run))
     ELSE Fails
  /\ Stay /\ UNCHANGED budget

CompleteRun ==
  /\ Reaches("execute", "complete")
  /\ Go("execute", "ended", Told(Event(Run, "completed", 0)), Mine)
  /\ Stay /\ UNCHANGED budget

ExecuteEnds ==
  /\ Reaches("execute", "ended")
  /\ running' = None
  /\ Become("execute", None)
  /\ UNCHANGED <<store, ready, delivery, heard, world, budget, broken>>

-----------------------------------------------------------------------------
(* review() and reviewFinding().                                           *)

Review(r) ==
  /\ ready /\ task["review"] = None /\ task["start"] = None /\ running = None
  /\ r \in SavedRuns
  /\ Spend("reviews")
  /\ \E seen \in 0..runs[r].reviews :
       Become("review", Task(r, "detail", <<>>, [runs[r] EXCEPT !.reviews = seen]))
  /\ UNCHANGED <<store, process, heard, world>>

\* After the detail of the run was read: refused, or added to what is saved now.
ReviewFinding ==
  /\ Reaches("review", "detail")
  /\ LET r == task["review"].run
         run == [runs[r] EXCEPT !.reviews = @ + 1]
     IN IF /\ IsCurrent(r) /\ running = None
           /\ runs[r].outcome = "difference"
           /\ runs[r].reviews = task["review"].mine.reviews
        THEN Become("review", Task(r, "record", Saving \o Told(Event(r, "review", run.reviews)), run))
        ELSE Become("review", None)
  /\ UNCHANGED <<store, process, heard, world, budget>>

\* memory.recordReview: a failure is written into the run that is saved by then.
RecordReview ==
  /\ Reaches("review", "record")
  /\ \/ Become("review", None) /\ UNCHANGED budget
     \/ /\ Spend("failures")
        /\ LET r == task["review"].run IN
             Become("review", Task(r, "noted", Saving, Progressed(runs[r])))
  /\ Stay

ReviewEnds == Reaches("review", "noted") /\ Become("review", None) /\ Stay /\ UNCHANGED budget

-----------------------------------------------------------------------------
(* The end of the process and init().                                      *)

ServerStops ==
  /\ Spend("crashes")
  /\ ready' = FALSE
  /\ task' = [a \in Actors |-> None]
  /\ running' = None /\ delivery' = None
  /\ UNCHANGED <<store, heard, world, broken>>

Restart ==
  /\ ~ready /\ task["init"] = None
  /\ Become("init", Task(None, "interrupt", <<>>, None))
  /\ UNCHANGED <<store, process, heard, world, budget>>

Interrupted(run) ==
  [run EXCEPT !.status = "interrupted",
              !.calls = [n \in DOMAIN run.calls |->
                           IF run.calls[n].status = "running"
                           THEN [run.calls[n] EXCEPT !.status = "interrupted"] ELSE run.calls[n]]]

\* Every run that was running, the newest first; then the events of calls that are missing.
StillRunning == {r \in SavedRuns : runs[r].status = "running"}

InterruptRun ==
  /\ Reaches("init", "interrupt")
  /\ IF StillRunning # {}
     THEN LET r == Max(StillRunning) IN
          Become("init", Task(r, "interrupt", Saving \o Told(Event(r, "interrupted", 0)), Interrupted(runs[r])))
     ELSE Become("init", Task(None, "repair", <<>>, None))
  /\ UNCHANGED <<store, process, heard, world, budget>>

\* (mutant) only what is pending is delivered
RepairNothing ==
  /\ Reaches("init", "repair")
  /\ Become("init", Task(None, "serve", <<Effect("deliver", None)>>, None))
  /\ UNCHANGED <<store, process, heard, world, budget>>

RepairCalls ==
  /\ Reaches("init", "repair")
  /\ IF Untold # {}
     THEN \E e \in Untold : Become("init", Task(e[1], "repair", Told(e), None))
     ELSE Become("init", Task(None, "serve", <<Effect("deliver", None)>>, None))
  /\ UNCHANGED <<store, process, heard, world, budget>>

Serve ==
  /\ Reaches("init", "serve")
  /\ ready' = TRUE /\ broken' = FALSE
  /\ Become("init", None)
  /\ UNCHANGED <<store, running, delivery, heard, world, budget>>

-----------------------------------------------------------------------------
(* What changes around Brain.                                              *)

\* A source is synchronized; one that applies to the project may also change its context.
MemoryChanges ==
  /\ Spend("changes")
  /\ knowledge' = knowledge + 1
  /\ context' \in {context, context + 1}
  /\ UNCHANGED <<store, process, task, heard, config>>

ProjectChanges ==
  /\ Spend("changes")
  /\ config' = [version |-> config.version + 1, enabled |-> ~config.enabled]
  /\ UNCHANGED <<store, process, task, heard, context, knowledge>>

-----------------------------------------------------------------------------
AgentsInit ==
  /\ budget \in AgentPlans
  /\ runs = [r \in Runs |-> None]
  /\ feed = <<>> /\ delivered = {} /\ heard = <<>>
  /\ ready = TRUE /\ broken = FALSE /\ running = None /\ delivery = None
  /\ task = [a \in Actors |-> None]
  /\ config = [version |-> 0, enabled |-> TRUE]
  /\ context = 0 /\ knowledge = 0

Effects == \E a \in Actors : SaveRun(a) \/ PutEvent(a) \/ BeginDelivery(a)
Execution == \/ Capture \/ RetrieveBegins \/ RetrieveEnds \/ Invoke \/ CallModel \/ ModelAnswers
             \/ ReadAnswer \/ ComparisonAnswer \/ ArbitrationAnswer \/ AnswerRejected
             \/ CallFailed \/ Finish \/ CompleteRun \/ ExecuteEnds
Handlers == StartRun \/ Begin \/ ReviewFinding \/ RecordReview \/ ReviewEnds
Starting == Restart \/ InterruptRun \/ RepairCalls \/ Serve
Delivering == HistoryTakes \/ MarkDelivered

AgentsNext ==
  \/ Effects \/ Execution \/ Handlers \/ Starting \/ Delivering
  \/ \E a \in Actors : WriteFails(a)
  \/ HistoryFails \/ MarkFails \/ Overview
  \/ Start \/ \E r \in Runs : Review(r)
  \/ ServerStops \/ MemoryChanges \/ ProjectChanges

\* What was begun goes on, but for a retrieval: it may wait for the index, which has no deadline;
\* a stopped server is started again.
Retrieving == Reaches("execute", "retrieving")
AgentsProgress == Effects \/ (Execution /\ ~Retrieving) \/ Handlers \/ Starting \/ Delivering

AgentsSpec == AgentsInit /\ [][AgentsNext]_agentsVars /\ WF_agentsVars(AgentsProgress)

-----------------------------------------------------------------------------
(* Properties.                                                             *)

AgentsTypeOK ==
  /\ \A r \in SavedRuns : /\ runs[r].status \in {"running", "succeeded", "failed", "interrupted"}
                      /\ runs[r].outcome \in {None, "aligned", "difference"}
                      /\ Len(runs[r].calls) <= MaxRounds + 3
  /\ Range(feed) \subseteq Events
  /\ delivered \subseteq Range(feed) /\ IsInjective(feed)
  /\ running \in Runs \cup {None} /\ ready \in BOOLEAN
  /\ \A a \in Actors : task[a] # None => task[a].run \in Runs \cup {None}

\* While requests are served and no write has failed since the start, at most one saved analysis is
\* running, and it is the one that is being started or executed ("One analysis runs at a
\* time"): simultaneous starts, reviews and restarts leave no second one and no orphan.
OneAnalysis ==
  (ready /\ ~broken) =>
    \A r \in StillRunning : \E a \in {"start", "execute"} : task[a] # None /\ task[a].run = r

\* A human review is added to the latest analysis that succeeded, when none is executed,
\* although the project and the memory were read before: start() and review() exclude each
\* other.
ReviewsTheLatest ==
  [][\A r \in Runs : (runs[r] # None /\ runs'[r].reviews # runs[r].reviews)
       => /\ runs'[r].reviews = runs[r].reviews + 1
          /\ r = Max(Succeeded) /\ running = None]_agentsVars

\* When requests are served again after a restart, the end of every model call that was
\* saved is in the outbox, wherever the process had stopped.
CallsAreTold == [][(~ready /\ ready') => Untold = {}]_agentsVars

\* The history receives the events in the order they were put, without a gap, whatever
\* fails, is repeated or is begun by several readers; what is marked has reached it.
HeardInOrder ==
  /\ Len(heard) <= Len(feed) /\ \A i \in DOMAIN heard : heard[i] = feed[i]
  /\ delivered \subseteq Range(heard)

AnalysesHold == [](OneAnalysis /\ HeardInOrder) /\ ReviewsTheLatest /\ CallsAreTold

\* The history catches up with the outbox again and again, every event reaches it at last, if the
\* board is looked at while one waits: nothing else delivers what has failed, but the next event.
EventuallyHeard == WF_agentsVars(Overview) => []<>(heard = feed)

\* An analysis that was begun ends, if retrievals do, unless a write fails.
AnalysisEnds == []<>~Retrieving => \A r \in Runs :
  (r \in StillRunning) ~> (r \notin StillRunning \/ broken)
=============================================================================
