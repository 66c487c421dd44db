----------------------------- MODULE Lifecycle -----------------------------
(***************************************************************************)
(* Applications that share one history (server/src/index.ts): acquiring,   *)
(* releasing, a start that fails half-way and the close of an application, *)
(* in any order.  The tasks of acquireHistory and releaseHistory run one   *)
(* after the other, each with an await in it.                              *)
(***************************************************************************)
EXTENDS Integers, FiniteSets, Sequences

CONSTANTS
  Apps,          \* finitely many
  MaxFailures    \* starts, closes and initializations that fail

VARIABLES
  users,         \* historyUsers
  initialized,   \* historyInitialized
  connected,     \* what history.init opened is open
  tasks,         \* historyLifecycle: the tasks that are not done, the first may be running
  runningTask,   \* the first task is in its await
  stage,         \* of each application
  released,      \* resourcesReleased, by application
  failures

LifecycleAssumption == IsFiniteSet(Apps)
ASSUME LifecycleHypothesis == LifecycleAssumption

lifecycleVars == <<users, initialized, connected, tasks, runningTask, stage, released, failures>>

Task(app, kind) == [app |-> app, kind |-> kind]
FirstIs(kind) == tasks # <<>> /\ Head(tasks).kind = kind
Move(app, place) == stage' = [stage EXCEPT ![app] = place]

LifecycleInit ==
  /\ users = 0 /\ initialized = FALSE /\ connected = FALSE
  /\ tasks = <<>> /\ runningTask = FALSE
  /\ stage = [app \in Apps |-> "new"] /\ released = [app \in Apps |-> FALSE]
  /\ failures = 0

\* buildApp: historyClaimed, then acquireHistory.
Build(app) ==
  /\ stage[app] = "new"
  /\ Move(app, "acquiring")
  /\ users' = users + 1
  /\ tasks' = Append(tasks, Task(app, "acquire"))
  /\ UNCHANGED <<initialized, connected, runningTask, released, failures>>

\* Mutant: a release closes the history without a look at its users.
BeginTaskAnyway ==
  /\ tasks # <<>> /\ ~runningTask
  /\ LET idle == FirstIs("acquire") /\ initialized IN
       /\ runningTask' = ~idle
       /\ tasks' = IF idle THEN Tail(tasks) ELSE tasks
       /\ stage' = IF ~idle THEN stage ELSE [stage EXCEPT ![Head(tasks).app] = "acquired"]
  /\ UNCHANGED <<users, initialized, connected, released, failures>>

\* A task begins: an acquire that finds the history initialized, and a release that finds
\* users, have nothing to wait for.
BeginTask ==
  /\ tasks # <<>> /\ ~runningTask
  /\ LET idle == IF FirstIs("acquire") THEN initialized ELSE users # 0 IN
       /\ runningTask' = ~idle
       /\ tasks' = IF idle THEN Tail(tasks) ELSE tasks
       /\ stage' = IF ~idle THEN stage
                   ELSE [stage EXCEPT ![Head(tasks).app] = IF FirstIs("acquire") THEN "acquired" ELSE "closed"]
  /\ UNCHANGED <<users, initialized, connected, released, failures>>

Fails == failures < MaxFailures /\ failures' = failures + 1

\* history.init ends; when it fails it may leave its pool open, and the start of the
\* application turns to its cleanup.
InitEnds(ok) ==
  /\ runningTask /\ FirstIs("acquire")
  /\ IF ok THEN UNCHANGED failures ELSE Fails
  /\ initialized' = ok /\ connected' \in (IF ok THEN {TRUE} ELSE BOOLEAN)
  /\ Move(Head(tasks).app, IF ok THEN "acquired" ELSE "cleanup")
  /\ tasks' = Tail(tasks) /\ runningTask' = FALSE
  /\ UNCHANGED <<users, released>>

\* history.close and the end of the pool, which happens although the close fails.
CloseEnds(ok) ==
  /\ runningTask /\ FirstIs("release")
  /\ IF ok THEN UNCHANGED failures ELSE Fails
  /\ initialized' = FALSE /\ connected' = FALSE
  /\ Move(Head(tasks).app, "closed")
  /\ tasks' = Tail(tasks) /\ runningTask' = FALSE
  /\ UNCHANGED <<users, released>>

\* The rest of the start: access, prices, registry, Brain.
Serve(app) ==
  /\ stage[app] = "acquired" /\ Move(app, "serving")
  /\ UNCHANGED <<users, initialized, connected, tasks, runningTask, released, failures>>

StartFails(app) ==
  /\ stage[app] = "acquired" /\ Fails /\ Move(app, "cleanup")
  /\ UNCHANGED <<users, initialized, connected, tasks, runningTask, released>>

Close(app) ==
  /\ stage[app] = "serving" /\ Move(app, "cleanup")
  /\ UNCHANGED <<users, initialized, connected, tasks, runningTask, released, failures>>

\* The stages of an application that is being closed, or is closed.
Closing == {"cleanup", "closing", "releasing", "closed", "abandoned"}

\* Mutant: the close hook and the failed start both release.
ReleaseTwice(app) ==
  /\ stage[app] \in Closing
  /\ released' = [released EXCEPT ![app] = TRUE]
  /\ Move(app, "closing")
  /\ UNCHANGED <<users, initialized, connected, tasks, runningTask, failures>>

\* releaseResources, from the onClose hook and again after a start that failed.  It then waits
\* for the writes, the prices and the access store.
ReleaseResources(app) ==
  /\ stage[app] \in Closing /\ ~released[app]
  /\ released' = [released EXCEPT ![app] = TRUE]
  /\ Move(app, "closing")
  /\ UNCHANGED <<users, initialized, connected, tasks, runningTask, failures>>

\* The prices may have models to store, and the store of the access may not close: then the
\* history is not released, and the second call of releaseResources returns at once.
CloseRejects(app) ==
  /\ stage[app] = "closing" /\ Fails /\ Move(app, "abandoned")
  /\ UNCHANGED <<users, initialized, connected, tasks, runningTask, released>>

\* Mutant: a release does not count its claim back.
ReleaseUncounted(app) ==
  /\ stage[app] = "closing" /\ Move(app, "releasing")
  /\ tasks' = Append(tasks, Task(app, "release"))
  /\ UNCHANGED <<users, initialized, connected, runningTask, released, failures>>

\* releaseHistory.
ReleaseHistory(app) ==
  /\ stage[app] = "closing" /\ Move(app, "releasing")
  /\ users' = users - 1
  /\ tasks' = Append(tasks, Task(app, "release"))
  /\ UNCHANGED <<initialized, connected, runningTask, released, failures>>

LifecycleNext ==
  \/ BeginTask
  \/ \E ok \in BOOLEAN : InitEnds(ok) \/ CloseEnds(ok)
  \/ \E app \in Apps : \/ Build(app) \/ Serve(app) \/ StartFails(app) \/ Close(app)
                       \/ ReleaseResources(app) \/ CloseRejects(app) \/ ReleaseHistory(app)

\* What goes on by itself; every one of these steps is possible only finitely often.
Progress ==
  \/ BeginTask
  \/ \E ok \in BOOLEAN : InitEnds(ok) \/ CloseEnds(ok)
  \/ \E app \in Apps : Serve(app) \/ ReleaseResources(app) \/ CloseRejects(app) \/ ReleaseHistory(app)

LifecycleSpec == LifecycleInit /\ [][LifecycleNext]_lifecycleVars /\ WF_lifecycleVars(Progress)

-----------------------------------------------------------------------------
LifecycleTypeOK ==
  /\ users \in 0..Cardinality(Apps)
  /\ \A i \in DOMAIN tasks : tasks[i].app \in Apps
  /\ stage \in [Apps -> {"new", "acquiring", "acquired", "serving"} \cup Closing]

\* An application that has acquired the history can use it until it releases it itself: the
\* close of another application, its failed start or its failed initialization never closes
\* the history under it (acquireHistory, releaseHistory).
ServingHasHistory ==
  \A app \in Apps : stage[app] \in {"acquired", "serving"} => connected /\ initialized

\* The users that are counted are the applications that were started and have not released the
\* history, none twice, however their starts and closes end; an application whose close was
\* rejected before counts for ever (historyUsers, historyClaimed and resourcesReleased).
Claimed == {app \in Apps : stage[app] \notin {"new", "releasing", "closed"}}
HistoryIsShared == ServingHasHistory /\ users = Cardinality(Claimed)

\* When every application that started has been closed, the history gets closed: no start
\* that fails, and no close of the history that fails, keeps its connections open.  A close
\* rejected before it comes to the history does, and is excepted.
EventuallyClosed ==
  \/ []<>(\E app \in Apps : stage[app] \in {"serving", "abandoned"})
  \/ <>[](~connected /\ tasks = <<>> /\ users = 0)
=============================================================================
