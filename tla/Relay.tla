-------------------------------- MODULE Relay --------------------------------
(***************************************************************************)
(* The workstation relay (fleet/relay.mjs, fleet/relay-outbox.mjs): hooks  *)
(* and exporters post activity to a loopback server, the server writes it  *)
(* durably to an outbox directory before answering 200, and a single       *)
(* drain sends the files to the dashboard in order.                        *)
(*                                                                         *)
(* Concurrency: the HTTP handlers, the chain of file writes, the drain,    *)
(* the person who edits the policy file, the dashboard's administrator and *)
(* the clock all interleave; every await of the code is a boundary between *)
(* two actions.  The process may stop between any two of them and restart  *)
(* with another credential.                                                *)
(*                                                                         *)
(* Abstractions: a body is not modelled, an outbox file is the position    *)
(* `serial' its name gives it and the entry it holds; the byte limit is    *)
(* the entry limit with entries of one size; ages replace timestamps.      *)
(***************************************************************************)
EXTENDS Integers, Sequences, FiniteSets, Absence

CONSTANTS
  Repos,            \* repositories on the workstation
  Unnamed,          \* the repositories without an origin remote
  Workspaces,       \* folders outside every repository
  Dashboards, Credentials,
  Requests,         \* requests clients send to the relay
  Hooks,            \* those that are POST /activity; the others are OTLP exports
  Body,             \* Body[r]: the working directories the request speaks of (a set)
  Policies,         \* the valid policy files a person may write
  Rules,            \* the repository rules an administrator may set
  Broken,           \* a policy file that does not parse or validate
  MaxQueueEntries, MaxQueueAge, PolicyCacheAge,   \* relay-config.json
  MaxAttempts, MaxFiles, MaxEdits, MaxCrashes, MaxFaults   \* bounds of the model

Places == Repos \cup Workspaces

ASSUME RelayAssumption ==
  /\ Unnamed \subseteq Repos /\ Hooks \subseteq Requests
  /\ Repos \cap Workspaces = {}
  /\ None \notin Places \cup Credentials \cup Dashboards
  /\ Body \in [Requests -> SUBSET Places]
  /\ Policies \subseteq [dashboard : Dashboards, projects : SUBSET Repos,
                         bound : [Workspaces -> Repos \cup {None}]]
  /\ Broken \notin Policies
  /\ Rules \subseteq [enabled : BOOLEAN, repositories : SUBSET Repos]
  /\ MaxQueueEntries \in Nat \ {0} /\ MaxQueueAge \in Nat
  /\ PolicyCacheAge \in Nat
  /\ MaxAttempts \in Nat /\ MaxFiles \in Nat /\ MaxEdits \in Nat /\ MaxCrashes \in Nat
  /\ MaxFaults \in Nat

VARIABLES
  \* the world around the relay
  policy,       \* the policy file
  rules,        \* the repository rules of the dashboard
  received,     \* what the dashboard took, in order: <<[serial, credential]>>
  stray,        \* requests the relay gave up on that are still on their way
  \* the outbox directory
  content,      \* content[s]: the entry of the file with serial s (history)
  files,        \* the serials of the files in the directory
  age,          \* age[s]: age of that file
  \* the relay process
  up, credential,
  entries,      \* RelayOutbox.entries, as serials
  remote,       \* RelayOutbox.remotePolicy
  request,      \* request[r]: the handler of r
  writing,      \* RelayOutbox.writing: the requests whose enqueue waits or runs
  stage,        \* of the enqueue that runs: "none", "temp" or "renamed"
  drain,        \* the drain in progress
  \* history and bounds
  dropped,      \* dropped[s]: why a file left the queue without delivery
  edits, crashes, faults

world == <<policy, rules>>
network == <<received, stray>>
disk == <<content, files, age, dropped>>
intake == <<request, writing, stage>>
budgets == <<edits, crashes, faults>>
Serials == 1..Len(content)   \* of the files written so far

vars == <<world, network, disk, up, credential, entries, remote, intake,
          drain, budgets>>

-----------------------------------------------------------------------------
(* Policy operators *)

\* selectedRepository: the chosen repository a working directory belongs to.
Selected(place, p) ==
  IF place \in Repos THEN IF place \in p.projects THEN place ELSE None
  ELSE IF p.bound[place] \in p.projects THEN p.bound[place] ELSE None

\* isRetired in drain: the entry may no longer leave under policy p.
Retired(e, p) ==
  \/ p.dashboard # e.dashboard
  \/ e.project \notin p.projects
  \/ e.workspace # None /\ Selected(e.workspace, p) # e.project

\* The shared rules refuse the repository of the entry.
Refused(e, r) == r.enabled /\ (e.repository = None \/ e.repository \notin r.repositories)

\* The filter binds each part of a request to its repository and the
\* dashboard of this moment; what no chosen repository owns is left out.
Bind(r, p) ==
  {[request |-> r, attempt |-> request[r].attempts + 1, place |-> place,
    project |-> Selected(place, p), dashboard |-> p.dashboard] :
     place \in {q \in Body[r] : Selected(q, p) # None}}

-----------------------------------------------------------------------------
Idle == [pc |-> "idle", ahead |-> 0, left |-> {}, cur |-> 0, why |-> "none",
         got |-> None]

Served(n) == [pc |-> "idle", todo |-> {}, asked |-> {}, attempts |-> n]

Init ==
  /\ policy \in Policies /\ rules \in Rules
  /\ received = <<>> /\ stray = {}
  /\ content = <<>> /\ files = {} /\ age = <<>> /\ dropped = <<>>
  /\ up = TRUE /\ credential \in Credentials
  /\ entries = {} /\ remote = None
  /\ request = [r \in Requests |-> Served(0)]
  /\ writing = <<>> /\ stage = "none"
  /\ drain = Idle
  /\ edits = 0 /\ crashes = 0 /\ faults = 0

-----------------------------------------------------------------------------
(* Accepting activity *)

\* The handler reads the policy and binds the request.  A hook then waits for
\* the session file; an export goes straight to its first enqueue.  With
\* nothing to keep, an export is answered 200 at once.  Exporters repeat a
\* request that failed, hooks do not (hooks/hook.js).
Accept(r) ==
  /\ up /\ request[r].attempts < MaxAttempts
  /\ request[r].pc \in IF r \in Hooks THEN {"idle"} ELSE {"idle", "failed"}
  /\ IF policy = Broken
     THEN /\ request' = [request EXCEPT ![r].pc = "failed", ![r].attempts = @ + 1]
          /\ UNCHANGED writing
     ELSE LET kept == Bind(r, policy)
              next == IF r \in Hooks THEN "saving"
                      ELSE IF kept = {} THEN "acked" ELSE "enqueue"
          IN /\ request' = [request EXCEPT ![r] =
                   [pc |-> next, todo |-> kept, asked |-> kept, attempts |-> @.attempts + 1]]
             /\ writing' = IF next = "enqueue" THEN Append(writing, r) ELSE writing
  /\ UNCHANGED <<world, network, disk, up, credential, entries, remote, stage, drain, budgets>>

\* saveSessions has finished (or failed: the hook is answered 503).
SessionsSaved(r) ==
  /\ up /\ request[r].pc = "saving"
  /\ LET next == IF request[r].todo = {} THEN "acked" ELSE "enqueue"
     IN \/ /\ request' = [request EXCEPT ![r].pc = next]
           /\ writing' = IF next = "enqueue" THEN Append(writing, r) ELSE writing
        \/ /\ request' = [request EXCEPT ![r].pc = "failed"]
           /\ UNCHANGED writing
  /\ UNCHANGED <<world, network, disk, up, credential, entries, remote, stage, drain, budgets>>

\* An enqueue leaves the write chain: one write less for the drain to await.
EndWrite == drain' = [drain EXCEPT !.ahead = IF @ > 0 THEN @ - 1 ELSE 0]

\* Mutant: one file too many.
FullTooLate == Cardinality(entries) > MaxQueueEntries

Full == Cardinality(entries) >= MaxQueueEntries

\* The entry a batch becomes, under the credential the relay runs with.
Entry(b) ==
  [project |-> b.project, dashboard |-> b.dashboard,
   workspace |-> IF b.place \in Workspaces THEN b.place ELSE None,
   repository |-> IF b.project \in Unnamed THEN None ELSE b.project,
   credential |-> credential, batch |-> b]

\* The head of the chain forms its entry and writes the temporary file.
WriteTemporary ==
  /\ up /\ writing # <<>> /\ stage = "none" /\ ~Full
  /\ Len(content) < MaxFiles
  /\ \E b \in request[Head(writing)].todo : content' = Append(content, Entry(b))
  /\ age' = Append(age, 0)
  /\ dropped' = Append(dropped, "no")
  /\ stage' = "temp"
  /\ UNCHANGED <<world, network, files, up, credential, entries, remote, request, writing,
                 drain, budgets>>

\* The handler resumes after the enqueue of batch b: it queues its next batch
\* or answers 200.
Resume(b) ==
  LET r == Head(writing)
      rest == request[r].todo \ {b}
  IN /\ request' = [request EXCEPT ![r].todo = rest,
                       ![r].pc = IF rest = {} THEN "acked" ELSE "enqueue"]
     /\ writing' = IF rest = {} THEN Tail(writing) ELSE Append(Tail(writing), r)

\* Mutant: enqueue returns the chain, which swallows the error, so the handler
\* goes on as if the batch had been written.
RefuseSilently ==
  /\ up /\ writing # <<>> /\ stage = "none"
  /\ \E b \in request[Head(writing)].todo : Resume(b)
  /\ EndWrite
  /\ UNCHANGED <<world, network, disk, up, credential, entries, remote, stage, budgets>>

\* The queue is full, or the disk refuses: the request is answered 503, the
\* batches already queued stay.
RefuseWrite ==
  /\ up /\ writing # <<>> /\ stage \in {"none", "temp"}
  /\ request' = [request EXCEPT ![Head(writing)].pc = "failed"]
  /\ writing' = Tail(writing) /\ stage' = "none"
  /\ EndWrite
  /\ UNCHANGED <<world, network, disk, up, credential, entries, remote, budgets>>

\* Mutant: the serial is advanced once more for the final name.
RenameFileAside ==
  /\ up /\ stage = "temp"
  /\ files' = files \cup {Len(content) + 1}
  /\ stage' = "renamed"
  /\ UNCHANGED <<world, network, content, age, dropped, up, credential, entries, remote,
                 request, writing, drain, budgets>>

\* The rename makes the entry durable.
RenameFile ==
  /\ up /\ stage = "temp"
  /\ files' = files \cup {Len(content)}
  /\ stage' = "renamed"
  /\ UNCHANGED <<world, network, content, age, dropped, up, credential, entries, remote,
                 request, writing, drain, budgets>>

\* Back in enqueue: the entry joins the list and the handler resumes.
PushEntry ==
  /\ up /\ stage = "renamed"
  /\ entries' = entries \cup {Len(content)}
  /\ Resume(content[Len(content)].batch)
  /\ stage' = "none"
  /\ EndWrite
  /\ UNCHANGED <<world, network, disk, up, credential, remote, budgets>>

-----------------------------------------------------------------------------
(* Draining *)

\* Mutant: a timer starts another drain although one awaits an answer.
FlushAgain ==
  /\ up /\ drain.pc \in {"idle", "took"}
  /\ drain' = [drain EXCEPT !.pc = "await", !.ahead = Len(writing)]
  /\ UNCHANGED <<world, network, disk, up, credential, entries, remote, intake, budgets>>

\* flush: one drain at a time; it first awaits the writes already chained.
Flush ==
  /\ up /\ drain.pc = "idle"
  /\ drain' = [drain EXCEPT !.pc = "await", !.ahead = Len(writing)]
  /\ UNCHANGED <<world, network, disk, up, credential, entries, remote, intake, budgets>>

\* The drain walks over a copy of the list made once those writes are over.
Snapshot ==
  /\ up /\ drain.pc = "await" /\ drain.ahead = 0
  /\ drain' = [drain EXCEPT !.pc = "next", !.left = entries]
  /\ UNCHANGED <<world, network, disk, up, credential, entries, remote, intake, budgets>>

\* The drain stops, at its end or on an error.
Stop == drain' = Idle

\* Mutant: entries of another credential are passed over before their age is read.
VerdictKeepsForeign(s, p) ==
  IF Retired(content[s], p) THEN "retired"
  ELSE IF content[s].credential # credential THEN "foreign"
  ELSE IF age[s] > MaxQueueAge THEN "expired" ELSE "ask"

\* Mutant: whatever waits is sent, whoever it belonged to.
VerdictIgnoresCredential(s, p) ==
  IF Retired(content[s], p) THEN "retired"
  ELSE IF age[s] > MaxQueueAge THEN "expired" ELSE "ask"

\* What becomes of the entry of file s under policy file p.
Verdict(s, p) ==
  IF Retired(content[s], p) THEN "retired"
  ELSE IF age[s] > MaxQueueAge THEN "expired"
  ELSE IF content[s].credential # credential THEN "foreign" ELSE "ask"

Cached(s) == /\ remote # None /\ remote.dashboard = content[s].dashboard
             /\ remote.age < PolicyCacheAge

\* The next entry of the copy is s, whose policy check did not fail.
Candidate(s) ==
  /\ up /\ drain.pc = "next" /\ policy # Broken
  /\ s \in drain.left /\ \A t \in drain.left : s <= t

\* The copy is exhausted, or the policy file cannot be read.
EndDrain ==
  /\ up /\ drain.pc = "next" /\ (drain.left = {} \/ policy = Broken)
  /\ Stop
  /\ UNCHANGED <<world, network, disk, up, credential, entries, remote, intake, budgets>>

\* Retired and expired entries are discarded.
Discard(s) ==
  /\ Candidate(s) /\ Verdict(s, policy) \in {"retired", "expired"}
  /\ drain' = [drain EXCEPT !.pc = "unlink", !.why = Verdict(s, policy), !.cur = s,
                            !.left = @ \ {s}]
  /\ UNCHANGED <<world, network, disk, up, credential, entries, remote, intake, budgets>>

\* Those of another credential stay, without holding up the others.
PassOver(s) ==
  /\ Candidate(s) /\ Verdict(s, policy) = "foreign"
  /\ drain' = [drain EXCEPT !.left = @ \ {s}]
  /\ UNCHANGED <<world, network, disk, up, credential, entries, remote, intake, budgets>>

\* The rest wait for the shared rules, cached or fetched.
AskRules(s) ==
  /\ Candidate(s) /\ Verdict(s, policy) = "ask"
  /\ drain' = [drain EXCEPT !.pc = IF Cached(s) THEN "decide" ELSE "fetch", !.cur = s,
                            !.left = @ \ {s}, !.got = IF Cached(s) THEN remote.rules ELSE None]
  /\ UNCHANGED <<world, network, disk, up, credential, entries, remote, intake, budgets>>

\* GET /api/agent-policy answers: the rules are cached.
FetchRules ==
  /\ up /\ drain.pc = "fetch"
  /\ remote' = [dashboard |-> content[drain.cur].dashboard, age |-> 0, rules |-> rules]
  /\ drain' = [drain EXCEPT !.pc = "decide", !.got = rules]
  /\ UNCHANGED <<world, network, disk, up, credential, entries, intake, budgets>>

\* It fails, times out or answers nonsense: the drain ends.
FetchFails ==
  /\ up /\ drain.pc = "fetch"
  /\ Stop
  /\ UNCHANGED <<world, network, disk, up, credential, entries, remote, intake, budgets>>

\* Mutant: the policy file is not read again after the await.
DecideAtOnce ==
  /\ up /\ drain.pc = "decide"
  /\ drain' = IF Refused(content[drain.cur], drain.got)
              THEN [drain EXCEPT !.pc = "unlink", !.why = "retired"]
              ELSE [drain EXCEPT !.pc = "post"]
  /\ UNCHANGED <<world, network, disk, up, credential, entries, remote, intake, budgets>>

\* The policy file is read again before the entry is posted.
Decide ==
  /\ up /\ drain.pc = "decide"
  /\ LET e == content[drain.cur]
     IN IF policy = Broken /\ ~Refused(e, drain.got) THEN Stop
        ELSE drain' = IF Refused(e, drain.got) \/ Retired(e, policy)
                      THEN [drain EXCEPT !.pc = "unlink", !.why = "retired"]
                      ELSE [drain EXCEPT !.pc = "post"]
  /\ UNCHANGED <<world, network, disk, up, credential, entries, remote, intake, budgets>>

\* The dashboard takes the post ...
DashboardTakes ==
  /\ up /\ drain.pc = "post" /\ ~Refused(content[drain.cur], rules)
  /\ received' = Append(received, [serial |-> drain.cur, credential |-> credential])
  /\ drain' = [drain EXCEPT !.pc = "took"]
  /\ UNCHANGED <<world, stray, disk, up, credential, entries, remote, intake, budgets>>

\* ... and its 200 arrives.
Delivered ==
  /\ up /\ drain.pc = "took"
  /\ drain' = [drain EXCEPT !.pc = "unlink", !.why = "delivered"]
  /\ UNCHANGED <<world, network, disk, up, credential, entries, remote, intake, budgets>>

\* 403 with x-harmonie-policy-rejected: the cached rules are wrong.
DashboardRejects ==
  /\ up /\ drain.pc = "post" /\ Refused(content[drain.cur], rules)
  /\ remote' = None
  /\ drain' = [drain EXCEPT !.pc = "unlink", !.why = "rejected"]
  /\ UNCHANGED <<world, network, disk, up, credential, entries, intake, budgets>>

\* Mutant: a failed post does not stop the drain.
FailsAndGoesOn ==
  /\ up /\ drain.pc = "post"
  /\ drain' = [drain EXCEPT !.pc = "next"]
  /\ UNCHANGED <<world, network, disk, up, credential, entries, remote, intake, budgets>>

\* Any other status, or no connection: the drain ends, the entry stays.
DashboardFails ==
  /\ up /\ drain.pc = "post"
  /\ Stop
  /\ UNCHANGED <<world, network, disk, up, credential, entries, remote, intake, budgets>>

\* Mutant: a post that times out is taken for delivered.
TimeoutTakenForDelivery ==
  /\ up /\ drain.pc \in {"post", "took"} /\ faults < MaxFaults
  /\ stray' = stray
  /\ drain' = [drain EXCEPT !.pc = "unlink", !.why = "delivered"]
  /\ faults' = faults + 1
  /\ UNCHANGED <<world, received, disk, up, credential, entries, remote, intake, edits, crashes>>

\* The answer is lost, or the post times out and is still on its way.
PostTimeout ==
  /\ up /\ drain.pc \in {"post", "took"} /\ faults < MaxFaults
  /\ stray' = IF drain.pc = "post"
              THEN stray \cup {[serial |-> drain.cur, credential |-> credential]}
              ELSE stray
  /\ Stop
  /\ faults' = faults + 1
  /\ UNCHANGED <<world, received, disk, up, credential, entries, remote, intake, edits, crashes>>

\* A post the relay gave up on reaches the dashboard after all.
StrayArrives(p) ==
  /\ stray' = stray \ {p}
  /\ received' = IF Refused(content[p.serial], rules) THEN received ELSE Append(received, p)
  /\ UNCHANGED <<world, disk, up, credential, entries, remote, intake, drain, budgets>>

\* entries.splice(entries.indexOf(current), 1): an absent entry would take the
\* last one with it.
Spliced(S, s) == IF s \in S THEN S \ {s} ELSE {t \in S : \E u \in S : t < u}

\* The file is removed ...
Unlink ==
  /\ up /\ drain.pc = "unlink"
  /\ files' = files \ {drain.cur}
  /\ dropped' = IF drain.why = "delivered" THEN dropped
                ELSE [dropped EXCEPT ![drain.cur] = drain.why]
  /\ age' = [age EXCEPT ![drain.cur] = 0]
  /\ drain' = [drain EXCEPT !.pc = "splice"]
  /\ UNCHANGED <<world, network, content, up, credential, entries, remote, intake, budgets>>

\* ... and the list follows once the await is over.
Splice ==
  /\ up /\ drain.pc = "splice"
  /\ entries' = Spliced(entries, drain.cur)
  /\ drain' = [drain EXCEPT !.pc = "next", !.cur = 0, !.why = "none", !.got = None]
  /\ UNCHANGED <<world, network, disk, up, credential, remote, intake, budgets>>

\* The file cannot be removed: the entry stays and will be examined again.
UnlinkFails ==
  /\ up /\ drain.pc = "unlink" /\ faults < MaxFaults
  /\ Stop
  /\ faults' = faults + 1
  /\ UNCHANGED <<world, network, disk, up, credential, entries, remote, intake, edits, crashes>>

-----------------------------------------------------------------------------
(* The world around the relay *)

EditPolicy ==
  /\ edits < MaxEdits /\ edits' = edits + 1
  /\ policy' \in (Policies \cup {Broken}) \ {policy}
  /\ UNCHANGED <<rules, network, disk, up, credential, entries, remote, intake, drain,
                 crashes, faults>>

EditRules ==
  /\ edits < MaxEdits /\ edits' = edits + 1
  /\ rules' \in Rules \ {rules}
  /\ UNCHANGED <<policy, network, disk, up, credential, entries, remote, intake, drain,
                 crashes, faults>>

\* Time passes for the files and for the cached rules.
Tick ==
  /\ LET older(a, cap) == IF a < cap THEN a + 1 ELSE a
     IN /\ age' = [s \in Serials |->
                     IF s \in files THEN older(age[s], MaxQueueAge + 1) ELSE age[s]]
        /\ remote' = IF remote = None THEN None
                     ELSE [remote EXCEPT !.age = older(@, PolicyCacheAge)]
  /\ <<age', remote'>> # <<age, remote>>
  /\ UNCHANGED <<world, network, content, files, dropped, up, credential, entries, intake,
                 drain, budgets>>

\* The process stops: only the directory survives.  Clients see a failure.
Crash ==
  /\ up /\ crashes < MaxCrashes /\ crashes' = crashes + 1
  /\ up' = FALSE
  /\ entries' = {} /\ remote' = None /\ drain' = Idle
  /\ writing' = <<>> /\ stage' = "none"
  /\ request' = [r \in Requests |-> IF request[r].pc \in {"saving", "enqueue"}
                                    THEN [request[r] EXCEPT !.pc = "failed"] ELSE request[r]]
  /\ stray' = IF drain.pc = "post"
              THEN stray \cup {[serial |-> drain.cur, credential |-> credential]}
              ELSE stray
  /\ UNCHANGED <<world, received, disk, credential, edits, faults>>

\* Mutant: the list starts empty, the directory is not read back.
RestartEmpty ==
  /\ ~up /\ policy # Broken /\ up' = TRUE
  /\ UNCHANGED <<world, network, disk, credential, entries, remote, intake, drain, budgets>>

\* startRelay and RelayOutbox.init: the directory is read back, damaged files
\* are set aside; the relay may now run under another credential.
Restart ==
  /\ ~up /\ policy # Broken
  /\ \E damaged \in SUBSET files, c \in Credentials :
       /\ faults + Cardinality(damaged) <= MaxFaults
       /\ faults' = faults + Cardinality(damaged)
       /\ credential' = c
       /\ files' = files \ damaged
       /\ entries' = files \ damaged
       /\ dropped' = [s \in Serials |-> IF s \in damaged THEN "damaged" ELSE dropped[s]]
       /\ age' = [s \in Serials |-> IF s \in damaged THEN 0 ELSE age[s]]
  /\ up' = TRUE
  /\ UNCHANGED <<world, network, content, remote, intake, drain, edits, crashes>>

-----------------------------------------------------------------------------
Drain ==
  \/ Snapshot \/ EndDrain \/ FetchRules \/ FetchFails \/ Decide
  \/ \E s \in drain.left : Discard(s) \/ PassOver(s) \/ AskRules(s)
  \/ DashboardTakes \/ Delivered \/ DashboardRejects \/ DashboardFails
  \/ Unlink \/ Splice

Write == WriteTemporary \/ RefuseWrite \/ RenameFile \/ PushEntry

Next ==
  \/ \E r \in Requests : Accept(r) \/ SessionsSaved(r)
  \/ Write \/ Flush \/ Drain \/ PostTimeout \/ UnlinkFails
  \/ \E p \in stray : StrayArrives(p)
  \/ EditPolicy \/ EditRules \/ Tick \/ Crash \/ Restart

Spec == Init /\ [][Next]_vars

\* Timers fire, the disk and the network answer (possibly with an error), and
\* someone restarts the relay.
Fairness ==
  /\ WF_vars(Write) /\ WF_vars(Flush) /\ WF_vars(Drain)
  /\ WF_vars(Tick) /\ WF_vars(Restart)

FairSpec == Spec /\ Fairness

-----------------------------------------------------------------------------
(* Properties *)

Batches == [request : Requests, attempt : Nat, place : Places, project : Repos,
            dashboard : Dashboards]
Entries == [project : Repos, dashboard : Dashboards, workspace : Workspaces \cup {None},
            repository : Repos \cup {None}, credential : Credentials, batch : Batches]
Posts == [serial : Nat \ {0}, credential : Credentials]
Reasons == {"retired", "expired", "rejected", "damaged"}

WorldType ==
  /\ policy \in Policies \cup {Broken} /\ rules \in Rules
  /\ received \in Seq(Posts) /\ stray \subseteq Posts
  /\ edits \in Nat /\ crashes \in Nat /\ faults \in Nat
DiskType ==
  /\ content \in Seq(Entries) /\ files \subseteq Serials
  /\ age \in Seq(Nat) /\ Len(age) = Len(content)
  /\ dropped \in Seq(Reasons \cup {"no"}) /\ Len(dropped) = Len(content)
ProcessType ==
  /\ up \in BOOLEAN /\ credential \in Credentials /\ entries \subseteq Nat
  /\ remote \in [dashboard : Dashboards, age : Nat, rules : Rules] \cup {None}
HandlerType ==
  /\ request \in [Requests -> [pc : {"idle", "saving", "enqueue", "acked", "failed"},
                               todo : SUBSET Batches, asked : SUBSET Batches, attempts : Nat]]
  /\ writing \in Seq(Requests) /\ stage \in {"none", "temp", "renamed"}
DrainType ==
  drain \in [pc : {"idle", "await", "next", "fetch", "decide", "post", "took", "unlink", "splice"},
             ahead : Nat, left : SUBSET Nat, cur : Nat,
             why : Reasons \cup {"none", "delivered"}, got : Rules \cup {None}]

\* Type invariant of fleet/relay-outbox.mjs and of the handlers of relay.mjs.
TypeOK == WorldType /\ DiskType /\ ProcessType /\ HandlerType /\ DrainType

Reached(s) == \E i \in DOMAIN received : received[i].serial = s

\* A batch survives when some file of it is in the directory, reached the
\* dashboard or was discarded for a stated reason.
Kept(b) == \E s \in Serials :
             /\ content[s].batch = b
             /\ s \in files \/ Reached(s) \/ dropped[s] # "no"

\* What the relay answered 200 for is never lost, over crashes, retries and
\* partly written exports ("Acknowledge durable local acceptance", relay.mjs).
AckedIsKept ==
  \A r \in Requests : request[r].pc = "acked" =>
    \A b \in request[r].asked : Kept(b)

\* The file whose enqueue, and the entry whose drain, has not resumed yet.
Unpushed == IF stage = "renamed" THEN {Len(content)} ELSE {}
Unspliced == IF drain.pc = "splice" THEN {drain.cur} ELSE {}

\* The list in memory is the directory but for these two, whatever handlers,
\* timers and restarts do meanwhile: what the drain, the limits and the status
\* rely on, and why splice finds the entry it takes out.
QueueMirrorsDirectory ==
  up => /\ entries \ Unspliced = files \ Unpushed
        /\ Unspliced \subseteq entries \ files

\* The directory never holds more files than the limit, although the limit is
\* tested long before the file appears.
DirectoryBounded == Cardinality(files) <= MaxQueueEntries

\* Activity queued under one credential never reaches a dashboard under
\* another ("A replacement credential may belong to a different developer").
CredentialKept ==
  \A i \in DOMAIN received :
    received[i].credential = content[received[i].serial].credential

\* While an entry is on its way, no older entry of its credential waits: a
\* failed post stops the drain instead of letting younger entries overtake.
NoOvertaking ==
  drain.pc \in {"post", "took"} =>
    \A s \in files : s < drain.cur => content[s].credential # credential

\* An entry reaches the dashboard once, and once more at most for each crash
\* or lost answer: drains do not run side by side (the `draining' promise).
NoNeedlessDuplicate ==
  \A s \in Serials :
    Cardinality({i \in DOMAIN received : received[i].serial = s}) <= 1 + faults + crashes

\* Entries leave in the order they came, none twice without a crash or a lost answer, and
\* their directory keeps its limit.
OutboxHolds == NoOvertaking /\ NoNeedlessDuplicate /\ DirectoryBounded

\* An entry is posted only under a policy file that still selects it at that
\* very moment, although the rules were awaited after the first look ("The
\* local binding may have been removed while fetching shared policy").
PostedOnlyWhenSelected ==
  [][drain.pc # "post" /\ drain'.pc = "post" =>
       policy # Broken /\ ~Retired(content[drain'.cur], policy)]_vars

\* Every queued entry eventually leaves the queue, delivered or discarded,
\* provided the policy file stays readable: failures and foreign credentials
\* never block it beyond the retention of the queue.
Resolved ==
  <>[](policy # Broken) =>
    \A s \in 1..MaxFiles : s \in files ~> s \notin files

-----------------------------------------------------------------------------
(* Strengthenings that make the invariants inductive *)

Busy == drain.pc \in {"fetch", "decide", "post", "took", "unlink", "splice"}

\* The writer: an entry under way is the newest, of this process, and is one
\* the request at the head of the chain still has to write.
WriterInv ==
  /\ QueueMirrorsDirectory
  /\ ~up => writing = <<>> /\ stage = "none" /\ entries = {} /\ drain = Idle
  /\ stage # "none" =>
       /\ writing # <<>> /\ content # <<>>
       /\ content[Len(content)].credential = credential
       /\ content[Len(content)].batch \in request[Head(writing)].todo
  /\ entries \subseteq Serials
  /\ stage = "temp" => /\ Len(content) \notin files \cup entries
                       /\ dropped[Len(content)] = "no"
  /\ stage = "renamed" => Len(content) \in files

\* The chain holds each request at most once, and only while its handler waits.
ChainInv ==
  /\ \A i \in DOMAIN writing : request[writing[i]].pc = "enqueue"
  /\ \A i, j \in DOMAIN writing : writing[i] = writing[j] => i = j

\* The drain: what it holds is still in the list, and an entry it posts is of
\* the credential the process runs with.
DrainInv ==
  /\ drain.left \subseteq entries
  /\ Busy => drain.cur \in entries /\ \A t \in drain.left : drain.cur < t
  /\ drain.pc \in {"fetch", "decide", "post", "took"} => content[drain.cur].credential = credential
  /\ drain.pc = "took" => Reached(drain.cur)
  /\ drain.pc = "decide" => drain.got \in Rules
  /\ drain.pc = "unlink" =>
       drain.why \in Reasons \/ (drain.why = "delivered" /\ Reached(drain.cur))

\* Posts, on their way or taken, speak of written entries and carry their credential.
NetworkInv ==
  \A p \in stray \cup {received[i] : i \in DOMAIN received} :
    /\ p.serial \in Serials /\ p.credential = content[p.serial].credential
    /\ stage = "temp" => p.serial # Len(content)

\* A handler still has to write, or has kept, each batch it answers for.
PromiseInv ==
  \A r \in Requests :
    /\ request[r].pc = "saving" => request[r].todo = request[r].asked
    /\ request[r].pc = "acked" => request[r].todo = {}
    /\ request[r].pc \in {"enqueue", "acked"} =>
         \A b \in request[r].asked : b \in request[r].todo \/ Kept(b)

\* An entry of this credential the drain no longer holds is younger than all it holds.
OrderInv ==
  drain.pc \notin {"idle", "await"} =>
    \A s \in entries : content[s].credential = credential =>
      \/ s \in drain.left \/ (Busy /\ s = drain.cur)
      \/ /\ \A t \in drain.left : t < s
         /\ Busy => drain.cur < s

\* The limit is tested on the list before the temporary file is written, and nothing else
\* enters the directory before it is renamed.
BoundInv ==
  /\ Cardinality(files) <= MaxQueueEntries
  /\ stage = "temp" => Cardinality(files) < MaxQueueEntries

\* How often the dashboard took the file, how often it may still arrive late, and whether
\* the drain knows that it was taken.
Arrivals(s) == {i \in DOMAIN received : received[i].serial = s}
Late(s) == IF \E p \in stray : p.serial = s THEN 1 ELSE 0
Confirmed(s) ==
  drain.cur = s /\ (drain.pc = "took" \/ (drain.pc = "unlink" /\ drain.why = "delivered"))

Sent(s) == Cardinality(Arrivals(s)) + Late(s)

\* An entry that may be posted again has been posted only where a fault or a crash paid for it.
DuplicateInv ==
  \A s \in Serials :
    /\ Sent(s) <= 1 + faults + crashes
    /\ s \in files /\ ~Confirmed(s) => Sent(s) <= faults + crashes

\* A post that may still arrive was the oldest of its credential when it left, and its entry
\* is in the directory or left it for a reason.
StrayInv ==
  \A p \in stray :
    /\ \A s \in files : s < p.serial => content[s].credential # p.credential
    /\ p.serial \in files \/ Reached(p.serial) \/ dropped[p.serial] # "no"

CoreInv == TypeOK /\ WriterInv /\ ChainInv /\ DrainInv /\ NetworkInv

RelayInv ==
  /\ CoreInv /\ PromiseInv /\ OrderInv /\ BoundInv /\ DuplicateInv /\ StrayInv
  /\ Len(content) <= MaxFiles

-----------------------------------------------------------------------------
\* The relay implements an at-least-once outbox.
Owned(s) == [serial |-> s, owner |-> content[s].credential]
Promise == INSTANCE Delivery WITH
  queued <- {Owned(s) : s \in files},
  delivered <- {Owned(s) : s \in {t \in Serials : Reached(t)}},
  discarded <- {Owned(s) : s \in {t \in Serials : dropped[t] # "no"}},
  Owners <- Credentials, Serials <- 1..MaxFiles

ImplementsDelivery == Promise!Spec
=============================================================================
