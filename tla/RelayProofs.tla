----------------------------- MODULE RelayProofs -----------------------------
(***************************************************************************)
(* Theorems about the relay for every set of requests, policies,           *)
(* credentials and bounds, about the session table, for any sessions,      *)
(* directories and policy files, and about the installer that configures   *)
(* the workstation, for any files and edits.                               *)
(***************************************************************************)
EXTENDS Relay, Setup, RelaySessions, FiniteSetTheorems, WellFoundedInduction, TLAPS

USE RelayAssumption DEF RelayAssumption, world, network, disk, intake, budgets, Serials

\* What an entry of content is, and what binds a batch to it.
LEMMA SelectedType ==
  ASSUME NEW p \in Policies, NEW q \in Places, Selected(q, p) # None
  PROVE  Selected(q, p) \in Repos
BY DEF Selected, Places

LEMMA BindType ==
  ASSUME TypeOK, NEW r \in Requests, NEW p \in Policies
  PROVE  Bind(r, p) \subseteq Batches
<1> SUFFICES ASSUME NEW q \in Body[r], Selected(q, p) # None
             PROVE  [request |-> r, attempt |-> request[r].attempts + 1, place |-> q,
                     project |-> Selected(q, p), dashboard |-> p.dashboard] \in Batches
  BY DEF Bind
<1>1. q \in Places
  OBVIOUS
<1>2. Selected(q, p) \in Repos
  BY <1>1, SelectedType
<1>3. request[r].attempts + 1 \in Nat /\ p.dashboard \in Dashboards
  BY DEF TypeOK, HandlerType
<1> QED BY <1>1, <1>2, <1>3 DEF Batches

LEMMA EntryType ==
  ASSUME TypeOK, NEW b \in Batches
  PROVE  Entry(b) \in Entries
BY DEF TypeOK, ProcessType, Entry, Entries, Batches, Places

\* An entry the drain holds is a file, until the drain removes it.
LEMMA CurIsFile ==
  ASSUME TypeOK, WriterInv, DrainInv, Busy, drain.pc # "splice"
  PROVE  /\ drain.cur \in files /\ drain.cur \in Serials /\ drain.cur \in Nat \ {0}
         /\ content[drain.cur] \in Entries
         /\ [serial |-> drain.cur, credential |-> credential] \in Posts
<1>1. drain.cur \in files
  BY DEF WriterInv, DrainInv, Busy, QueueMirrorsDirectory, Unspliced, Idle
<1>2. drain.cur \in Serials /\ drain.cur \in Nat \ {0}
  <2>1. Len(content) \in Nat /\ files \subseteq 1..Len(content)
    BY DEF TypeOK, DiskType
  <2>2. drain.cur \in 1..Len(content)
    BY <1>1, <2>1
  <2> QED BY <2>1, <2>2
<1> QED BY <1>1, <1>2 DEF TypeOK, DiskType, ProcessType, Posts

\* Every step keeps the types, given what the drain and the writer hold.
LEMMA TypeStep ==
  ASSUME TypeOK, WriterInv, DrainInv, [Next]_vars
  PROVE  TypeOK'
<1> USE DEF TypeOK
<1>1. ASSUME NEW r \in Requests, Accept(r) PROVE TypeOK'
  <2>1. WorldType' /\ DiskType' /\ ProcessType' /\ DrainType'
    BY <1>1 DEF WorldType, DiskType, ProcessType, DrainType, Accept
  <2>2. HandlerType'
    <3>1. CASE policy = Broken
      BY <1>1, <3>1 DEF HandlerType, Accept
    <3>2. CASE policy # Broken
      <4>1. Bind(r, policy) \subseteq Batches
        BY <3>2, BindType DEF WorldType
      <4>2. request[r].attempts + 1 \in Nat
        BY DEF HandlerType
      <4>3. PICK pc \in {"saving", "acked", "enqueue"} :
              request' = [request EXCEPT ![r] = [pc |-> pc, todo |-> Bind(r, policy),
                            asked |-> Bind(r, policy), attempts |-> request[r].attempts + 1]]
        BY <1>1, <3>2 DEF HandlerType, Accept
      <4>4. writing' \in Seq(Requests)
        <5>1. writing \in Seq(Requests) /\ Append(writing, r) \in Seq(Requests)
          BY DEF HandlerType
        <5> QED BY <1>1, <3>2, <5>1 DEF Accept
      <4> QED BY <1>1, <4>1, <4>2, <4>3, <4>4 DEF HandlerType, Accept
    <3> QED BY <3>1, <3>2
  <2> QED BY <2>1, <2>2
<1>2. ASSUME NEW r \in Requests, SessionsSaved(r) PROVE TypeOK'
  <2>1. WorldType' /\ DiskType' /\ ProcessType' /\ DrainType'
    BY <1>2 DEF WorldType, DiskType, ProcessType, DrainType, SessionsSaved
  <2>2. HandlerType'
    <3>1. PICK pc \in {"acked", "enqueue", "failed"} : request' = [request EXCEPT ![r].pc = pc]
      <4>1. CASE request[r].todo = {}
        BY <1>2, <4>1 DEF SessionsSaved
      <4>2. CASE request[r].todo # {}
        BY <1>2, <4>2 DEF SessionsSaved
      <4> QED BY <4>1, <4>2
    <3>2. writing' = Append(writing, r) \/ writing' = writing
      BY <1>2 DEF SessionsSaved
    <3>3. request' \in [Requests -> [pc : {"idle", "saving", "enqueue", "acked", "failed"},
                               todo : SUBSET Batches, asked : SUBSET Batches, attempts : Nat]]
      <4> DEFINE H == [pc : {"idle", "saving", "enqueue", "acked", "failed"},
                       todo : SUBSET Batches, asked : SUBSET Batches, attempts : Nat]
      <4>1. request \in [Requests -> H]
        BY DEF HandlerType
      <4>2. PICK h \in H : h = [request[r] EXCEPT !.pc = pc]
        BY <4>1
      <4>3. request' = [request EXCEPT ![r] = h]
        BY <3>1, <4>1, <4>2
      <4>4. request' \in [Requests -> H]
        <5> HIDE DEF H
        <5> QED BY <4>1, <4>2, <4>3
      <4> QED BY <4>4
    <3>4. writing' \in Seq(Requests)
      <4>1. writing \in Seq(Requests) /\ Append(writing, r) \in Seq(Requests)
        BY DEF HandlerType
      <4> QED BY <3>2, <4>1
    <3> QED BY <1>2, <3>3, <3>4 DEF HandlerType, SessionsSaved
  <2> QED BY <2>1, <2>2
<1>3. CASE WriteTemporary
  <2>1. WorldType' /\ ProcessType' /\ DrainType'
    BY <1>3 DEF WorldType, ProcessType, DrainType, WriteTemporary
  <2>2. DiskType'
    BY <1>3, EntryType DEF DiskType, Serials, Reasons, WorldType, HandlerType, WriteTemporary
  <2>3. HandlerType'
    BY <1>3 DEF HandlerType, Batches, WriteTemporary
  <2> QED BY <2>1, <2>2, <2>3
<1>4. CASE RefuseWrite
  <2>1. WorldType' /\ DiskType' /\ ProcessType'
    BY <1>4 DEF WorldType, DiskType, ProcessType, RefuseWrite, EndWrite
  <2>2. HandlerType'
    <3>1. Head(writing) \in Requests /\ Tail(writing) \in Seq(Requests)
      BY <1>4 DEF HandlerType, RefuseWrite
    <3> QED BY <1>4, <3>1 DEF HandlerType, RefuseWrite
  <2>3. DrainType'
    <3>1. PICK a \in Nat : drain' = [drain EXCEPT !.ahead = a]
      <4>1. drain.ahead \in Nat /\ (drain.ahead > 0 => drain.ahead - 1 \in Nat)
        BY DEF DrainType
      <4> QED BY <1>4, <4>1 DEF RefuseWrite, EndWrite
    <3> QED BY <3>1 DEF DrainType
  <2> QED BY <2>1, <2>2, <2>3
<1>5. CASE RenameFile
  <2>1. WorldType' /\ ProcessType' /\ DrainType'
    BY <1>5 DEF WorldType, ProcessType, DrainType, RenameFile
  <2>2. DiskType'
    <3>1. Len(content) \in Serials
      BY <1>5 DEF DiskType, WriterInv, RenameFile
    <3> QED BY <1>5, <3>1 DEF DiskType, RenameFile
  <2>3. HandlerType'
    BY <1>5 DEF HandlerType, Batches, RenameFile
  <2> QED BY <2>1, <2>2, <2>3
<1>6. CASE PushEntry
  <2>1. WorldType' /\ DiskType'
    BY <1>6 DEF WorldType, DiskType, PushEntry, Resume, EndWrite
  <2>2. ProcessType'
    BY <1>6 DEF ProcessType, Serials, DiskType, PushEntry, Resume, EndWrite
  <2>3. HandlerType'
    <3>1. writing # <<>> /\ Head(writing) \in Requests /\ Tail(writing) \in Seq(Requests)
      BY <1>6 DEF HandlerType, WriterInv, PushEntry
    <3>2. PICK pc \in {"acked", "enqueue"}, S \in SUBSET Batches :
            request' = [request EXCEPT ![Head(writing)].todo = S, ![Head(writing)].pc = pc]
      <4>1. request[Head(writing)].todo \ {content[Len(content)].batch} \in SUBSET Batches
        BY <3>1 DEF HandlerType
      <4> QED BY <1>6, <4>1 DEF PushEntry, Resume
    <3>3. writing' \in Seq(Requests)
      BY <1>6, <3>1 DEF PushEntry, Resume
    <3>4. request' \in [Requests -> [pc : {"idle", "saving", "enqueue", "acked", "failed"},
                               todo : SUBSET Batches, asked : SUBSET Batches, attempts : Nat]]
      <4>1. PICK q \in Requests :
              request' = [request EXCEPT ![q].todo = S, ![q].pc = pc]
        BY <3>1, <3>2
      <4> DEFINE H == [pc : {"idle", "saving", "enqueue", "acked", "failed"},
                       todo : SUBSET Batches, asked : SUBSET Batches, attempts : Nat]
      <4>2. request \in [Requests -> H]
        BY DEF HandlerType
      <4>3. PICK h \in H : h = [request[q] EXCEPT !.todo = S, !.pc = pc]
        BY <4>2
      <4>4. request' = [request EXCEPT ![q] = h]
        BY <4>1, <4>2, <4>3
      <4>5. request' \in [Requests -> H]
        <5> HIDE DEF H
        <5> QED BY <4>2, <4>3, <4>4
      <4> QED BY <4>5
    <3> QED BY <1>6, <3>3, <3>4 DEF HandlerType, PushEntry
  <2>4. DrainType'
    <3>1. PICK a \in Nat : drain' = [drain EXCEPT !.ahead = a]
      <4>1. drain.ahead \in Nat /\ (drain.ahead > 0 => drain.ahead - 1 \in Nat)
        BY DEF DrainType
      <4> QED BY <1>6, <4>1 DEF PushEntry, EndWrite
    <3> QED BY <3>1 DEF DrainType
  <2> QED BY <2>1, <2>2, <2>3, <2>4
<1>7. CASE Flush
  <2>1. WorldType' /\ DiskType' /\ ProcessType' /\ HandlerType'
    BY <1>7 DEF WorldType, DiskType, ProcessType, HandlerType, Flush
  <2>2. DrainType'
    <3>1. Len(writing) \in Nat
      BY DEF HandlerType
    <3> QED BY <1>7, <3>1 DEF DrainType, Flush
  <2> QED BY <2>1, <2>2
<1>8. CASE Snapshot
  <2>1. WorldType' /\ DiskType' /\ ProcessType' /\ HandlerType'
    BY <1>8 DEF WorldType, DiskType, ProcessType, HandlerType, Snapshot
  <2>2. DrainType'
    BY <1>8 DEF DrainType, Reasons, ProcessType, Snapshot
  <2> QED BY <2>1, <2>2
<1>9. CASE EndDrain
  <2>1. WorldType' /\ DiskType' /\ ProcessType' /\ HandlerType'
    BY <1>9 DEF WorldType, DiskType, ProcessType, HandlerType, EndDrain, Stop, Idle
  <2>2. DrainType'
    BY <1>9 DEF DrainType, Reasons, EndDrain, Stop, Idle
  <2> QED BY <2>1, <2>2
<1>10. ASSUME NEW s \in drain.left, Discard(s) PROVE TypeOK'
  <2>1. WorldType' /\ DiskType' /\ ProcessType' /\ HandlerType'
    BY <1>10 DEF WorldType, DiskType, ProcessType, HandlerType, Discard, Candidate, Verdict
  <2>2. DrainType'
    BY <1>10 DEF DrainType, Reasons, Discard, Candidate, Verdict
  <2> QED BY <2>1, <2>2
<1>11. ASSUME NEW s \in drain.left, PassOver(s) PROVE TypeOK'
  <2>1. WorldType' /\ DiskType' /\ ProcessType' /\ HandlerType'
    BY <1>11 DEF WorldType, DiskType, ProcessType, HandlerType, PassOver, Candidate
  <2>2. DrainType'
    BY <1>11 DEF DrainType, Reasons, PassOver, Candidate
  <2> QED BY <2>1, <2>2
<1>12. ASSUME NEW s \in drain.left, AskRules(s) PROVE TypeOK'
  <2>1. WorldType' /\ DiskType' /\ ProcessType' /\ HandlerType'
    BY <1>12 DEF WorldType, DiskType, ProcessType, HandlerType, AskRules, Candidate, Cached
  <2>2. DrainType'
    BY <1>12 DEF DrainType, Reasons, ProcessType, AskRules, Candidate, Cached
  <2> QED BY <2>1, <2>2
<1>13. CASE FetchRules
  <2>1. WorldType' /\ DiskType' /\ HandlerType'
    BY <1>13 DEF WorldType, DiskType, HandlerType, FetchRules
  <2>2. ProcessType'
    <3>1. content[drain.cur].dashboard \in Dashboards
      BY <1>13, CurIsFile DEF Busy, FetchRules, Entries
    <3> QED BY <1>13, <3>1 DEF ProcessType, WorldType, FetchRules
  <2>3. DrainType'
    BY <1>13 DEF DrainType, Reasons, WorldType, FetchRules
  <2> QED BY <2>1, <2>2, <2>3
<1>14. CASE FetchFails
  <2>1. WorldType' /\ DiskType' /\ ProcessType' /\ HandlerType'
    BY <1>14 DEF WorldType, DiskType, ProcessType, HandlerType, FetchFails, Stop, Idle
  <2>2. DrainType'
    BY <1>14 DEF DrainType, Reasons, FetchFails, Stop, Idle
  <2> QED BY <2>1, <2>2
<1>15. CASE Decide
  <2>1. WorldType' /\ DiskType' /\ ProcessType' /\ HandlerType'
    BY <1>15 DEF WorldType, DiskType, ProcessType, HandlerType, Decide, Stop, Idle
  <2>2. DrainType'
    <3>1. CASE drain' = Idle
      BY <3>1 DEF DrainType, Idle
    <3>2. CASE drain' = [drain EXCEPT !.pc = "unlink", !.why = "retired"]
      BY <3>2 DEF DrainType, Reasons
    <3>3. CASE drain' = [drain EXCEPT !.pc = "post"]
      BY <3>3 DEF DrainType
    <3> QED BY <1>15, <3>1, <3>2, <3>3 DEF Decide, Stop
  <2> QED BY <2>1, <2>2
<1>16. CASE DashboardTakes
  <2>1. DiskType' /\ ProcessType' /\ HandlerType'
    BY <1>16 DEF DiskType, ProcessType, HandlerType, DashboardTakes
  <2>2. WorldType'
    <3>1. [serial |-> drain.cur, credential |-> credential] \in Posts
      BY <1>16, CurIsFile DEF Busy, DashboardTakes
    <3> QED BY <1>16, <3>1 DEF WorldType, DashboardTakes
  <2>3. DrainType'
    BY <1>16 DEF DrainType, Reasons, DashboardTakes
  <2> QED BY <2>1, <2>2, <2>3
<1>17. CASE Delivered
  <2>1. WorldType' /\ DiskType' /\ ProcessType' /\ HandlerType'
    BY <1>17 DEF WorldType, DiskType, ProcessType, HandlerType, Delivered
  <2>2. DrainType'
    BY <1>17 DEF DrainType, Reasons, Delivered
  <2> QED BY <2>1, <2>2
<1>18. CASE DashboardRejects
  <2>1. WorldType' /\ DiskType' /\ HandlerType'
    BY <1>18 DEF WorldType, DiskType, HandlerType, DashboardRejects
  <2>2. ProcessType'
    BY <1>18 DEF ProcessType, Serials, DashboardRejects
  <2>3. DrainType'
    BY <1>18 DEF DrainType, Reasons, DashboardRejects
  <2> QED BY <2>1, <2>2, <2>3
<1>19. CASE DashboardFails
  <2>1. WorldType' /\ DiskType' /\ ProcessType' /\ HandlerType'
    BY <1>19 DEF WorldType, DiskType, ProcessType, HandlerType, DashboardFails, Stop, Idle
  <2>2. DrainType'
    BY <1>19 DEF DrainType, Reasons, DashboardFails, Stop, Idle
  <2> QED BY <2>1, <2>2
<1>20. CASE Unlink
  <2>1. WorldType' /\ HandlerType'
    BY <1>20 DEF WorldType, HandlerType, Unlink
  <2>2. DiskType'
    <3>1. drain.cur \in Serials
      BY <1>20, CurIsFile DEF Busy, Unlink
    <3>2. age' \in Seq(Nat) /\ Len(age') = Len(content)
      BY <1>20, <3>1 DEF DiskType, Unlink
    <3>3. drain.why # "delivered" => drain.why \in Reasons
      BY <1>20 DEF DrainInv, Unlink
    <3>4. dropped' \in Seq(Reasons \cup {"no"}) /\ Len(dropped') = Len(content)
      <4>1. CASE drain.why = "delivered"
        BY <1>20, <4>1 DEF DiskType, Unlink
      <4>2. CASE drain.why # "delivered"
        <5>1. dropped' = [dropped EXCEPT ![drain.cur] = drain.why]
          BY <1>20, <4>2 DEF Unlink
        <5> QED BY <5>1, <4>2, <3>1, <3>3 DEF DiskType
      <4> QED BY <4>1, <4>2
    <3> QED BY <1>20, <3>2, <3>4 DEF DiskType, Unlink
  <2>3. ProcessType'
    BY <1>20 DEF ProcessType, Unlink
  <2>4. DrainType'
    BY <1>20 DEF DrainType, Reasons, Unlink
  <2> QED BY <2>1, <2>2, <2>3, <2>4
<1>30. CASE Splice
  <2>1. WorldType' /\ DiskType' /\ HandlerType'
    BY <1>30 DEF WorldType, DiskType, HandlerType, Splice
  <2>2. ProcessType'
    BY <1>30 DEF ProcessType, Splice, Spliced
  <2>3. DrainType'
    BY <1>30 DEF DrainType, Reasons, Splice
  <2> QED BY <2>1, <2>2, <2>3
<1>21. CASE PostTimeout
  <2>1. DiskType' /\ ProcessType' /\ HandlerType'
    BY <1>21 DEF DiskType, ProcessType, HandlerType, PostTimeout, Stop, Idle
  <2>2. WorldType'
    BY <1>21 DEF WorldType, Posts, DrainType, ProcessType, DiskType, DrainInv, Busy, WriterInv, QueueMirrorsDirectory, Serials, PostTimeout, Stop, Idle
  <2>3. DrainType'
    BY <1>21 DEF DrainType, Reasons, PostTimeout, Stop, Idle
  <2> QED BY <2>1, <2>2, <2>3
<1>22. CASE UnlinkFails
  <2>1. DiskType' /\ ProcessType' /\ HandlerType'
    BY <1>22 DEF DiskType, ProcessType, HandlerType, UnlinkFails, Stop, Idle
  <2>2. WorldType'
    BY <1>22 DEF WorldType, Posts, UnlinkFails, Stop, Idle
  <2>3. DrainType'
    BY <1>22 DEF DrainType, Reasons, UnlinkFails, Stop, Idle
  <2> QED BY <2>1, <2>2, <2>3
<1>23. ASSUME NEW p \in stray, StrayArrives(p) PROVE TypeOK'
  <2>1. DiskType' /\ ProcessType' /\ HandlerType' /\ DrainType'
    BY <1>23 DEF DiskType, ProcessType, HandlerType, DrainType, StrayArrives
  <2>2. WorldType'
    <3>1. received' \in Seq(Posts)
      BY <1>23 DEF WorldType, StrayArrives
    <3> QED BY <1>23, <3>1 DEF WorldType, StrayArrives
  <2> QED BY <2>1, <2>2
<1>24. CASE EditPolicy
  <2>1. DiskType' /\ ProcessType' /\ HandlerType' /\ DrainType'
    BY <1>24 DEF DiskType, ProcessType, HandlerType, DrainType, EditPolicy
  <2>2. WorldType'
    BY <1>24 DEF WorldType, Posts, EditPolicy
  <2> QED BY <2>1, <2>2
<1>25. CASE EditRules
  <2>1. DiskType' /\ ProcessType' /\ HandlerType' /\ DrainType'
    BY <1>25 DEF DiskType, ProcessType, HandlerType, DrainType, EditRules
  <2>2. WorldType'
    BY <1>25 DEF WorldType, Posts, EditRules
  <2> QED BY <2>1, <2>2
<1>26. CASE Tick
  <2>1. WorldType' /\ HandlerType' /\ DrainType'
    BY <1>26 DEF WorldType, HandlerType, DrainType, Tick
  <2>2. DiskType'
    <3>1. age' \in [Serials -> Nat]
      <4>1. \A s \in Serials : age[s] \in Nat
        BY DEF DiskType
      <4>2. \A n \in Nat : (IF n < MaxQueueAge + 1 THEN n + 1 ELSE n) \in Nat
        OBVIOUS
      <4>3. \A s \in Serials : age'[s] \in {age[s], IF age[s] < MaxQueueAge + 1
                                                     THEN age[s] + 1 ELSE age[s]}
        BY <1>26 DEF Tick
      <4>4. age' = [s \in Serials |-> age'[s]]
        BY <1>26 DEF Tick
      <4> QED BY <4>1, <4>2, <4>3, <4>4
    <3> QED BY <1>26, <3>1, SMTT(20) DEF DiskType, Tick
  <2>3. ProcessType'
    <3>1. CASE remote = None
      BY <1>26, <3>1 DEF ProcessType, Tick
    <3>2. CASE remote # None
      <4>1. remote \in [dashboard : Dashboards, age : Nat, rules : Rules]
        BY <3>2 DEF ProcessType
      <4>2. PICK a \in Nat : remote' = [remote EXCEPT !.age = a]
        <5>1. (IF remote.age < PolicyCacheAge THEN remote.age + 1 ELSE remote.age) \in Nat
          BY <4>1
        <5> QED BY <1>26, <3>2, <5>1 DEF Tick
      <4> QED BY <1>26, <4>1, <4>2 DEF ProcessType, Tick
    <3> QED BY <3>1, <3>2
  <2> QED BY <2>1, <2>2, <2>3
<1>27. CASE Crash
  <2>1. DiskType'
    BY <1>27 DEF DiskType, Crash, Idle
  <2>2. WorldType'
    <3>1. drain.pc = "post" => [serial |-> drain.cur, credential |-> credential] \in Posts
      BY CurIsFile DEF Busy
    <3> QED BY <1>27, <3>1 DEF WorldType, Crash
  <2>3. ProcessType'
    BY <1>27 DEF ProcessType, Serials, Crash, Idle
  <2>4. HandlerType'
    <3> DEFINE H == [pc : {"idle", "saving", "enqueue", "acked", "failed"},
                     todo : SUBSET Batches, asked : SUBSET Batches, attempts : Nat]
    <3>1. \A r \in Requests : request'[r] \in H
      <4> SUFFICES ASSUME NEW r \in Requests PROVE request'[r] \in H
        OBVIOUS
      <4>1. request[r] \in H
        BY DEF HandlerType
      <4>2. request'[r] = request[r] \/ request'[r] = [request[r] EXCEPT !.pc = "failed"]
        BY <1>27 DEF Crash
      <4> QED BY <4>1, <4>2
    <3>2. request' = [r \in Requests |-> request'[r]]
      BY <1>27 DEF Crash
    <3>3. request' \in [Requests -> H]
      <4> HIDE DEF H
      <4> QED BY <3>1, <3>2
    <3>4. writing' \in Seq(Requests) /\ stage' = "none"
      BY <1>27 DEF Crash
    <3> QED BY <3>3, <3>4 DEF HandlerType
  <2>5. DrainType'
    BY <1>27 DEF DrainType, Reasons, Crash, Idle
  <2> QED BY <2>1, <2>2, <2>3, <2>4, <2>5
<1>28. CASE Restart
  <2>1. HandlerType' /\ DrainType'
    BY <1>28 DEF HandlerType, DrainType, Restart
  <2>2. WorldType'
    <3>1. faults' \in Nat
      <4>1. \A d \in SUBSET files : Cardinality(d) \in Nat
        <5>1. IsFiniteSet(1..Len(content)) BY FS_Interval DEF DiskType
        <5> QED BY <5>1, FS_Subset, FS_CardinalityType DEF DiskType
      <4>2. PICK d \in SUBSET files : faults' = faults + Cardinality(d)
        BY <1>28 DEF Restart
      <4> QED BY <4>1, <4>2 DEF WorldType
    <3> QED BY <1>28, <3>1 DEF WorldType, Restart
  <2>3. DiskType'
    <3>1. PICK damaged \in SUBSET files :
            /\ files' = files \ damaged
            /\ dropped' = [s \in Serials |-> IF s \in damaged THEN "damaged" ELSE dropped[s]]
            /\ age' = [s \in Serials |-> IF s \in damaged THEN 0 ELSE age[s]]
      BY <1>28 DEF Restart
    <3>2. Len(content) \in Nat /\ content' = content
      BY <1>28 DEF DiskType, Restart
    <3>3. age' \in Seq(Nat) /\ Len(age') = Len(content)
      BY <3>1, <3>2 DEF DiskType
    <3>4. \A s \in Serials : dropped[s] \in Reasons \cup {"no"}
      BY DEF DiskType
    <3>5. dropped' \in Seq(Reasons \cup {"no"}) /\ Len(dropped') = Len(content)
      BY <3>1, <3>2, <3>4 DEF Reasons
    <3> QED BY <3>1, <3>2, <3>3, <3>5 DEF DiskType
  <2>4. ProcessType'
    <3>1. /\ up' = TRUE /\ credential' \in Credentials /\ entries' \subseteq files
          /\ remote' = remote
      BY <1>28 DEF Restart
    <3>2. \A s \in entries' : s \in Nat
      <4>1. \A s \in files : s \in 1..Len(content)
        BY DEF DiskType
      <4> QED BY <3>1, <4>1 DEF DiskType
    <3>3. remote' \in [dashboard : Dashboards, age : Nat, rules : Rules] \cup {None}
      BY <3>1 DEF ProcessType
    <3>4. up' \in BOOLEAN /\ entries' \subseteq Nat
      BY <3>1, <3>2
    <3> QED BY <3>1, <3>3, <3>4 DEF ProcessType
  <2> QED BY <2>1, <2>2, <2>3, <2>4
<1>29. CASE UNCHANGED vars
  <2>1. WorldType' /\ DiskType' /\ ProcessType' /\ HandlerType' /\ DrainType'
    BY <1>29, SMTT(20) DEF WorldType, DiskType, ProcessType, HandlerType, DrainType, vars
  <2> QED BY <2>1
<1> QED BY <1>1, <1>2, <1>3, <1>4, <1>5, <1>6, <1>7, <1>8, <1>9, <1>10, <1>11, <1>12, <1>13, <1>14, <1>15, <1>16, <1>17, <1>18, <1>19, <1>20, <1>21, <1>22, <1>23, <1>24, <1>25, <1>26, <1>27, <1>28, <1>29, <1>30 DEF Next, Write, Drain

\* The writer's strengthening is kept: in particular the list mirrors the directory.
LEMMA WriterStep ==
  ASSUME TypeOK, WriterInv, ChainInv, DrainInv, [Next]_vars
  PROVE  WriterInv'
<1> USE DEF TypeOK, WriterInv, QueueMirrorsDirectory, Unpushed
<1>0. Len(content) \in Nat /\ files \subseteq 1..Len(content)
  BY DEF DiskType
<1>1. ASSUME UNCHANGED <<disk, entries, up, credential, intake>>,
             UNCHANGED drain \/ (up /\ Unspliced = {} /\ Unspliced' = {})
      PROVE  WriterInv'
  BY <1>1 DEF Unspliced
<1>a. UNCHANGED drain => Unspliced' = Unspliced
  BY DEF Unspliced
<1>b. EndWrite => Unspliced' = Unspliced
  BY DEF EndWrite, Unspliced, DrainType
<1>2. CASE \/ Flush \/ Snapshot \/ EndDrain \/ FetchRules \/ FetchFails \/ Decide
           \/ DashboardTakes \/ Delivered \/ DashboardRejects \/ DashboardFails
           \/ PostTimeout \/ UnlinkFails \/ EditPolicy \/ EditRules \/ UNCHANGED vars
  <2>1. \/ UNCHANGED drain
        \/ up /\ drain.pc # "splice" /\ drain'.pc # "splice"
    <3>1. CASE EditPolicy \/ EditRules \/ UNCHANGED vars
      BY <3>1 DEF EditPolicy, EditRules, vars
    <3>2. CASE EndDrain \/ FetchFails \/ DashboardRejects \/ DashboardFails \/ PostTimeout
               \/ UnlinkFails
      <4>1. up /\ drain.pc # "splice"
        BY <3>2 DEF EndDrain, FetchFails, DashboardRejects, DashboardFails, PostTimeout,
             UnlinkFails
      <4>2. drain' = Idle \/ (drain' = [drain EXCEPT !.pc = "unlink", !.why = "rejected"])
        BY <3>2 DEF EndDrain, FetchFails, DashboardRejects, DashboardFails, PostTimeout,
             UnlinkFails, Stop
      <4>3. Idle.pc = "idle"
        BY DEF Idle
      <4>4. [drain EXCEPT !.pc = "unlink", !.why = "rejected"].pc = "unlink"
        BY DEF DrainType
      <4>5. drain'.pc = "idle" \/ drain'.pc = "unlink"
        BY <4>2, <4>3, <4>4
      <4> QED BY <4>1, <4>5
    <3>3. CASE Flush \/ Snapshot \/ FetchRules \/ DashboardTakes
      BY <3>3 DEF Flush, Snapshot, FetchRules, DashboardTakes, DrainType
    <3>4. CASE Decide
      <4>1. up /\ drain.pc # "splice"
        BY <3>4 DEF Decide
      <4>2. \/ drain' = Idle
            \/ drain' = [drain EXCEPT !.pc = "unlink", !.why = "retired"]
            \/ drain' = [drain EXCEPT !.pc = "post"]
        BY <3>4 DEF Decide, Stop
      <4>3. Idle.pc = "idle"
        BY DEF Idle
      <4>4. /\ [drain EXCEPT !.pc = "unlink", !.why = "retired"].pc = "unlink"
            /\ [drain EXCEPT !.pc = "post"].pc = "post"
        BY DEF DrainType
      <4>5. drain'.pc \in {"idle", "unlink", "post"}
        BY <4>2, <4>3, <4>4
      <4> QED BY <4>1, <4>5
    <3>5. CASE Delivered
      BY <3>5 DEF Delivered, DrainType
    <3> QED BY <1>2, <3>1, <3>2, <3>3, <3>4, <3>5
  <2>2. UNCHANGED drain \/ (up /\ Unspliced = {} /\ Unspliced' = {})
    BY <2>1 DEF Unspliced
  <2> QED BY <1>1, <1>2, <2>2 DEF Flush, Snapshot, EndDrain, FetchRules, FetchFails, Decide, DashboardTakes,
       Delivered, DashboardRejects, DashboardFails, PostTimeout, UnlinkFails, EditPolicy,
       EditRules, vars
<1>3. ASSUME NEW s \in drain.left, Discard(s) \/ PassOver(s) \/ AskRules(s) PROVE WriterInv'
  <2>1. up /\ drain.pc # "splice" /\ drain'.pc # "splice"
    BY <1>3 DEF Discard, PassOver, AskRules, Candidate, DrainType
  <2> QED BY <1>1, <1>3, <2>1 DEF Discard, PassOver, AskRules, Unspliced
<1>4. ASSUME NEW p \in stray, StrayArrives(p) PROVE WriterInv'
  BY <1>1, <1>4 DEF StrayArrives
<1>5. CASE Tick
  BY <1>5, <1>a DEF Tick
<1>6. ASSUME NEW r \in Requests, Accept(r) \/ SessionsSaved(r) PROVE WriterInv'
  <2>1. UNCHANGED <<disk, entries, up, credential, stage, drain>> /\ up
    BY <1>6 DEF Accept, SessionsSaved
  <2>2. writing # <<>> => Head(writing) = writing[1] /\ r # writing[1]
    BY <1>6 DEF ChainInv, Accept, SessionsSaved, HandlerType
  <2>3. writing' = writing \/ writing' = Append(writing, r)
    BY <1>6 DEF Accept, SessionsSaved
  <2>4. writing # <<>> => writing' # <<>> /\ Head(writing') = Head(writing)
    <3>1. writing \in Seq(Requests)
      BY DEF HandlerType
    <3>2. writing # <<>> => /\ Append(writing, r) # <<>>
                            /\ Head(Append(writing, r)) = Head(writing)
      <4>1. ASSUME writing # <<>> PROVE Len(writing) \in Nat /\ Len(writing) >= 1
        BY <3>1, <4>1
      <4>2. Append(writing, r) # <<>>
        BY <3>1
      <4> QED BY <3>1, <4>1, <4>2
    <3> QED BY <2>3, <3>2
  <2>5. writing # <<>> => request'[Head(writing)] = request[Head(writing)]
    BY <1>6, <2>2 DEF Accept, SessionsSaved, HandlerType
  <2> QED BY <2>1, <2>4, <2>5, <1>a
<1>7. CASE WriteTemporary
  <2>1. PICK b \in request[Head(writing)].todo : content' = Append(content, Entry(b))
    BY <1>7 DEF WriteTemporary
  <2>2. /\ Len(content') = Len(content) + 1 /\ content'[Len(content')] = Entry(b)
        /\ content' # <<>>
    BY <2>1 DEF DiskType
  <2>3. dropped'[Len(content')] = "no"
    BY <1>7, <2>2 DEF WriteTemporary, DiskType
  <2>4. Entry(b).batch = b /\ Entry(b).credential = credential
    BY DEF Entry
  <2>5. Len(content') \notin files \cup entries /\ entries \subseteq 1..Len(content')
    BY <1>0, <2>2
  <2> QED BY <1>7, <2>2, <2>3, <2>4, <2>5, <1>a DEF WriteTemporary
<1>8. CASE RefuseWrite
  <2>1. stage' = "none" /\ UNCHANGED <<disk, entries, up, credential>> /\ up
    BY <1>8 DEF RefuseWrite
  <2>2. (stage = "renamed") = FALSE
    BY <1>8 DEF RefuseWrite
  <2> QED BY <2>1, <2>2, <1>8, <1>b DEF RefuseWrite
<1>9. CASE RenameFile
  <2>1. Unspliced' = Unspliced /\ Len(content) \notin files \cup entries
    BY <1>9, <1>a DEF RenameFile
  <2> QED BY <1>0, <1>9, <2>1 DEF RenameFile
<1>10. CASE PushEntry
  <2>1. Len(content) \in files /\ entries' = entries \cup {Len(content)} /\ files' = files
    BY <1>10 DEF PushEntry
  <2>2. Unspliced' = Unspliced
    BY <1>10, <1>b DEF PushEntry
  <2>3. Len(content) \in 1..Len(content)
    BY <1>0, <2>1
  <2> QED BY <1>10, <2>1, <2>2, <2>3 DEF PushEntry
<1>11. CASE Unlink
  <2>1. drain.cur \in entries /\ drain.cur \in files
    BY <1>11, CurIsFile DEF Unlink, DrainInv, Busy
  <2>2. entries' = entries /\ files' = files \ {drain.cur}
    BY <1>11 DEF Unlink
  <2>3. drain.cur # Len(content) \/ stage # "renamed"
    BY <1>11, <2>1 DEF Unlink, Unspliced
  <2>4. stage = "temp" => dropped'[Len(content)] = "no"
    BY <1>11, <2>1, <1>0 DEF Unlink, DiskType
  <2>5. UNCHANGED <<content, up, credential, intake>> /\ up
    BY <1>11 DEF Unlink
  <2>6. Unspliced = {} /\ Unspliced' = {drain.cur}
    BY <1>11 DEF Unlink, Unspliced, DrainType
  <2>7. QueueMirrorsDirectory'
    BY <2>1, <2>2, <2>3, <2>5, <2>6
  <2> QED BY <2>2, <2>3, <2>4, <2>5, <2>7
<1>14. CASE Splice
  <2>1. /\ up /\ Unspliced = {drain.cur} /\ Unspliced' = {}
        /\ UNCHANGED <<disk, up, credential, intake>>
    BY <1>14 DEF Splice, Unspliced, DrainType
  <2>2. drain.cur \in entries /\ drain.cur \notin files /\ entries \ {drain.cur} = files \ Unpushed
    BY <2>1
  <2>3. entries' = entries \ {drain.cur}
    BY <1>14, <2>2 DEF Splice, Spliced
  <2>4. QueueMirrorsDirectory'
    BY <2>1, <2>2, <2>3
  <2> QED BY <2>1, <2>3, <2>4
<1>12. CASE Crash
  BY <1>12 DEF Crash, Unspliced, Idle
<1>13. CASE Restart
  BY <1>13, <1>0 DEF Restart, Unspliced, Idle
<1> QED BY <1>2, <1>3, <1>4, <1>5, <1>6, <1>7, <1>8, <1>9, <1>10, <1>11, <1>12, <1>13, <1>14
        DEF Next, Write, Drain

\* Each request waits at most once in the chain of writes.
LEMMA ChainStep ==
  ASSUME TypeOK, WriterInv, ChainInv, [Next]_vars
  PROVE  ChainInv'
<1> USE DEF TypeOK, ChainInv
<1>0. writing \in Seq(Requests) /\ DOMAIN writing = 1..Len(writing) /\ Len(writing) \in Nat
  BY DEF HandlerType
<1>1. CASE UNCHANGED <<request, writing>>
  BY <1>1
<1>2. ASSUME NEW r \in Requests, Accept(r) \/ SessionsSaved(r) PROVE ChainInv'
  <2>1. \A i \in DOMAIN writing : writing[i] # r
    BY <1>2 DEF Accept, SessionsSaved
  <2>2. \A i \in DOMAIN writing : request'[writing[i]] = request[writing[i]]
    BY <1>0, <1>2, <2>1 DEF Accept, SessionsSaved, HandlerType
  <2>3. \/ writing' = writing
        \/ writing' = Append(writing, r) /\ request'[r].pc = "enqueue"
    BY <1>2 DEF Accept, SessionsSaved, HandlerType
  <2>4. CASE writing' = writing
    BY <2>2, <2>4
  <2>5. CASE writing' = Append(writing, r) /\ request'[r].pc = "enqueue"
    <3>1. DOMAIN writing' = 1..(Len(writing) + 1)
      BY <1>0, <2>5
    <3>2. \A i \in 1..(Len(writing) + 1) :
             writing'[i] = IF i = Len(writing) + 1 THEN r ELSE writing[i]
      BY <1>0, <2>5
    <3>3. \A i \in 1..(Len(writing) + 1) : i # Len(writing) + 1 => i \in DOMAIN writing
      BY <1>0
    <3>4. \A i \in 1..(Len(writing) + 1) : request'[writing'[i]].pc = "enqueue"
      BY <2>2, <2>5, <3>2, <3>3
    <3>5. \A i, j \in 1..(Len(writing) + 1) : writing'[i] = writing'[j] => i = j
      <4> SUFFICES ASSUME NEW i \in 1..(Len(writing) + 1), NEW j \in 1..(Len(writing) + 1),
                          writing'[i] = writing'[j]
                   PROVE  i = j
        OBVIOUS
      <4>1. CASE i = Len(writing) + 1 \/ j = Len(writing) + 1
        BY <2>1, <3>2, <3>3, <4>1
      <4>2. CASE i # Len(writing) + 1 /\ j # Len(writing) + 1
        BY <3>2, <3>3, <4>2
      <4> QED BY <4>1, <4>2
    <3> QED BY <3>1, <3>4, <3>5
  <2> QED BY <2>3, <2>4, <2>5
<1>3. CASE RefuseWrite \/ PushEntry
  <2>1. writing # <<>> /\ Head(writing) = writing[1] /\ 1 \in DOMAIN writing
    BY <1>0, <1>3 DEF RefuseWrite, PushEntry, WriterInv
  <2> DEFINE rest == Tail(writing)
  <2>2. /\ rest \in Seq(Requests) /\ Len(rest) = Len(writing) - 1 /\ DOMAIN rest = 1..Len(rest)
        /\ \A i \in 1..Len(rest) : rest[i] = writing[i + 1] /\ i + 1 \in DOMAIN writing
    BY <1>0, <2>1
  <2>3. ASSUME NEW i \in 1..Len(rest) PROVE rest[i] # writing[1]
    <3>1. i + 1 # 1 /\ i + 1 \in DOMAIN writing /\ rest[i] = writing[i + 1]
      BY <2>2
    <3> QED BY <1>0, <2>1, <3>1
  <2>4. \A q \in Requests : q # writing[1] => request'[q] = request[q]
    BY <1>3, <2>1 DEF RefuseWrite, PushEntry, Resume, HandlerType
  <2>5. \A i \in 1..Len(rest) : request'[rest[i]].pc = "enqueue"
    BY <1>0, <2>2, <2>3, <2>4
  <2>6. \A i, j \in 1..Len(rest) : rest[i] = rest[j] => i = j
    <3> SUFFICES ASSUME NEW i \in 1..Len(rest), NEW j \in 1..Len(rest), rest[i] = rest[j]
                 PROVE  i = j
      OBVIOUS
    <3>1. i + 1 = j + 1
      BY <2>2
    <3> QED BY <3>1, <2>2, <1>0
  <2>7. \/ writing' = rest
        \/ writing' = Append(rest, writing[1]) /\ request'[writing[1]].pc = "enqueue"
    <3>1. CASE RefuseWrite
      BY <3>1 DEF RefuseWrite
    <3>2. CASE PushEntry
      <4> DEFINE left == request[writing[1]].todo \ {content[Len(content)].batch}
      <4>1. request' = [request EXCEPT ![writing[1]].todo = left,
                          ![writing[1]].pc = IF left = {} THEN "acked" ELSE "enqueue"]
        BY <2>1, <3>2 DEF PushEntry, Resume
      <4>2. writing[1] \in Requests
        BY <1>0, <2>1
      <4>3. left # {} => request'[writing[1]].pc = "enqueue"
        BY <4>1, <4>2 DEF HandlerType
      <4>4. writing' = IF left = {} THEN rest ELSE Append(rest, writing[1])
        BY <2>1, <3>2 DEF PushEntry, Resume
      <4> QED BY <4>3, <4>4
    <3> QED BY <1>3, <3>1, <3>2
  <2>8. CASE writing' = rest
    BY <2>2, <2>5, <2>6, <2>8
  <2>9. CASE writing' = Append(rest, writing[1]) /\ request'[writing[1]].pc = "enqueue"
    <3>1. DOMAIN writing' = 1..(Len(rest) + 1) /\ Len(rest) \in Nat
      BY <1>0, <2>2, <2>1, <2>9
    <3>2. \A i \in 1..(Len(rest) + 1) :
             writing'[i] = IF i = Len(rest) + 1 THEN writing[1] ELSE rest[i]
      <4>1. rest \in Seq(Requests) /\ writing[1] \in Requests
        BY <1>0, <2>1, <2>2
      <4> HIDE DEF rest
      <4> QED BY <2>9, <4>1
    <3>3. \A i \in 1..(Len(rest) + 1) : i # Len(rest) + 1 => i \in 1..Len(rest)
      BY <3>1
    <3>4. \A i \in 1..(Len(rest) + 1) : request'[writing'[i]].pc = "enqueue"
      BY <2>5, <2>9, <3>2, <3>3
    <3>5. \A i, j \in 1..(Len(rest) + 1) : writing'[i] = writing'[j] => i = j
      <4> HIDE DEF rest
      <4> SUFFICES ASSUME NEW i \in 1..(Len(rest) + 1), NEW j \in 1..(Len(rest) + 1),
                          writing'[i] = writing'[j]
                   PROVE  i = j
        OBVIOUS
      <4>1. CASE i = Len(rest) + 1 \/ j = Len(rest) + 1
        BY <2>3, <3>2, <3>3, <4>1
      <4>2. CASE i # Len(rest) + 1 /\ j # Len(rest) + 1
        BY <2>6, <3>2, <3>3, <4>2
      <4> QED BY <4>1, <4>2
    <3> HIDE DEF rest
    <3> QED BY <3>1, <3>4, <3>5
  <2> QED BY <2>7, <2>8, <2>9
<1>4. CASE Crash
  BY <1>4 DEF Crash
<1>5. CASE WriteTemporary \/ RenameFile \/ Flush \/ Drain \/ PostTimeout \/ UnlinkFails
           \/ EditPolicy \/ EditRules \/ Tick \/ Restart \/ UNCHANGED vars
           \/ \E p \in stray : StrayArrives(p)
  <2>1. UNCHANGED <<request, writing>>
    BY <1>5 DEF WriteTemporary, RenameFile, Flush, Drain, Snapshot, EndDrain, FetchRules,
         FetchFails, Decide, DashboardTakes, Delivered, DashboardRejects, DashboardFails, Unlink,
         Splice, Discard, PassOver, AskRules, PostTimeout, UnlinkFails, EditPolicy, EditRules, Tick,
         Restart, vars, StrayArrives
  <2> QED BY <1>1, <2>1
<1> QED BY <1>2, <1>3, <1>4, <1>5 DEF Next, Write

\* What the drain holds stays in the list until the drain itself removes it.
LEMMA DrainStep ==
  ASSUME TypeOK, WriterInv, DrainInv, [Next]_vars
  PROVE  DrainInv'
<1> USE DEF DrainInv, Busy, Reached
<1>0. /\ Len(content) \in Nat /\ content \in Seq(Entries) /\ files \subseteq 1..Len(content)
      /\ received \in Seq(Posts) /\ entries \subseteq 1..Len(content)
  BY DEF TypeOK, DiskType, WorldType, WriterInv
<1>1. CASE UNCHANGED <<drain, entries, content, credential, received>>
  BY <1>1
<1>2. CASE drain' = Idle
  BY <1>2 DEF Idle
<1>3. ASSUME NEW s \in drain.left, Discard(s) PROVE DrainInv'
  <2>1. /\ drain' = [drain EXCEPT !.pc = "unlink", !.why = Verdict(s, policy), !.cur = s,
                                  !.left = @ \ {s}]
        /\ entries' = entries /\ Verdict(s, policy) \in Reasons
        /\ \A t \in drain.left : s <= t
    BY <1>3 DEF Discard, Candidate, Reasons
  <2>2. /\ drain'.pc = "unlink" /\ drain'.why = Verdict(s, policy) /\ drain'.cur = s
        /\ drain'.left = drain.left \ {s}
    BY <2>1 DEF TypeOK, DrainType
  <2>3. \A t \in drain'.left : s < t
    BY <2>1, <2>2 DEF TypeOK, DrainType
  <2> QED BY <2>1, <2>2, <2>3
<1>4. ASSUME NEW s \in drain.left, PassOver(s) PROVE DrainInv'
  <2>1. drain'.left = drain.left \ {s} /\ drain'.pc = "next" /\ entries' = entries
    BY <1>4 DEF PassOver, Candidate, TypeOK, DrainType
  <2> QED BY <2>1
<1>5. ASSUME NEW s \in drain.left, AskRules(s) PROVE DrainInv'
  <2>1. /\ drain' = [drain EXCEPT !.pc = IF Cached(s) THEN "decide" ELSE "fetch", !.cur = s,
                       !.left = @ \ {s}, !.got = IF Cached(s) THEN remote.rules ELSE None]
        /\ UNCHANGED <<entries, content, credential>>
        /\ \A t \in drain.left : s <= t
        /\ content[s].credential = credential
        /\ Cached(s) => remote.rules \in Rules
    BY <1>5 DEF AskRules, Candidate, Verdict, Cached, TypeOK, ProcessType
  <2>2. /\ drain'.pc = IF Cached(s) THEN "decide" ELSE "fetch"
        /\ drain'.cur = s /\ drain'.left = drain.left \ {s}
        /\ drain'.got = IF Cached(s) THEN remote.rules ELSE None
    BY <2>1 DEF TypeOK, DrainType
  <2>3. \A t \in drain'.left : s < t
    BY <2>1, <2>2 DEF TypeOK, DrainType
  <2> QED BY <2>1, <2>2, <2>3
<1>6. CASE Snapshot
  BY <1>6 DEF Snapshot, TypeOK, DrainType
<1>7. CASE Flush
  BY <1>7 DEF Flush, TypeOK, DrainType
<1>8. CASE FetchRules
  BY <1>8 DEF FetchRules, TypeOK, DrainType, WorldType
<1>9. CASE Decide
  <2>1. /\ UNCHANGED <<entries, content, credential, received>> /\ drain.pc = "decide"
        /\ \/ drain' = Idle
           \/ drain' = [drain EXCEPT !.pc = "unlink", !.why = "retired"]
           \/ drain' = [drain EXCEPT !.pc = "post"]
    BY <1>9 DEF Decide, Stop
  <2> QED BY <1>2, <2>1 DEF TypeOK, DrainType, Reasons
<1>10. CASE DashboardTakes
  <2>1. /\ received' = Append(received, [serial |-> drain.cur, credential |-> credential])
        /\ drain' = [drain EXCEPT !.pc = "took"] /\ drain.pc = "post"
        /\ UNCHANGED <<entries, content, credential>>
    BY <1>10 DEF DashboardTakes
  <2>2. drain'.pc = "took" /\ drain'.cur = drain.cur /\ drain'.left = drain.left
    BY <2>1 DEF TypeOK, DrainType
  <2>3. /\ Len(received) + 1 \in DOMAIN received'
        /\ received'[Len(received) + 1].serial = drain.cur
    BY <1>0, <2>1
  <2> QED BY <2>1, <2>2, <2>3
<1>11. CASE Delivered
  BY <1>11 DEF Delivered, TypeOK, DrainType
<1>12. CASE DashboardRejects
  BY <1>12 DEF DashboardRejects, TypeOK, DrainType, Reasons
<1>13. CASE Unlink
  BY <1>13 DEF Unlink, TypeOK, DrainType
<1>20. CASE Splice
  <2>1. drain'.pc = "next" /\ drain'.left = drain.left
    BY <1>20 DEF Splice, TypeOK, DrainType
  <2>2. entries' = entries \ {drain.cur}
    BY <1>20 DEF Splice, Spliced
  <2>3. drain.cur \notin drain.left
    BY <1>20 DEF Splice, TypeOK, DrainType
  <2> QED BY <2>1, <2>2, <2>3
<1>14. ASSUME NEW p \in stray, StrayArrives(p) PROVE DrainInv'
  <2>1. /\ UNCHANGED <<drain, entries, content, credential>>
        /\ received' = received \/ received' = Append(received, p)
        /\ p \in Posts
    BY <1>14 DEF StrayArrives, TypeOK, WorldType
  <2>2. \A i \in DOMAIN received : i \in DOMAIN received' /\ received'[i] = received[i]
    <3>1. CASE received' = received
      BY <3>1
    <3>2. CASE received' = Append(received, p)
      <4>1. DOMAIN received = 1..Len(received) /\ Len(received) \in Nat
        BY <1>0
      <4>2. \A i \in 1..Len(received) : received'[i] = received[i]
        BY <1>0, <2>1, <3>2
      <4>3. DOMAIN received' = 1..(Len(received) + 1)
        BY <1>0, <2>1, <3>2
      <4> QED BY <4>1, <4>2, <4>3
    <3> QED BY <2>1, <3>1, <3>2
  <2> QED BY <2>1, <2>2
<1>15. CASE WriteTemporary
  <2>1. UNCHANGED <<drain, entries, credential, received>>
    BY <1>15 DEF WriteTemporary
  <2>2. \A s \in 1..Len(content) : content'[s] = content[s]
    BY <1>0, <1>15, EntryType DEF WriteTemporary, TypeOK, HandlerType, WriterInv
  <2>3. drain.pc \in {"fetch", "decide", "post", "took"} => drain.cur \in 1..Len(content)
    BY <1>0
  <2> QED BY <2>1, <2>2, <2>3
<1>16. CASE RefuseWrite \/ PushEntry
  <2>1. PICK a : drain' = [drain EXCEPT !.ahead = a]
    BY <1>16 DEF RefuseWrite, PushEntry, EndWrite
  <2>2. entries \subseteq entries' /\ UNCHANGED <<content, credential, received>>
    BY <1>16 DEF RefuseWrite, PushEntry
  <2> QED BY <2>1, <2>2 DEF TypeOK, DrainType
<1>17. CASE Restart
  BY <1>17 DEF Restart, WriterInv, Idle
<1>18. CASE EndDrain \/ FetchFails \/ DashboardFails \/ PostTimeout \/ UnlinkFails \/ Crash
  BY <1>2, <1>18 DEF EndDrain, FetchFails, DashboardFails, PostTimeout, UnlinkFails, Crash, Stop
<1>19. CASE RenameFile \/ EditPolicy \/ EditRules \/ Tick \/ UNCHANGED vars
            \/ \E r \in Requests : Accept(r) \/ SessionsSaved(r)
  BY <1>1, <1>19 DEF RenameFile, EditPolicy, EditRules, Tick, vars, Accept, SessionsSaved
<1> QED BY <1>3, <1>4, <1>5, <1>6, <1>7, <1>8, <1>9, <1>10, <1>11, <1>12, <1>13, <1>14, <1>15,
           <1>16, <1>17, <1>18, <1>19, <1>20 DEF Next, Write, Drain

\* Every post, wherever it is, carries the credential of the entry it speaks of.
LEMMA NetworkStep ==
  ASSUME TypeOK, WriterInv, DrainInv, NetworkInv, [Next]_vars
  PROVE  NetworkInv'
<1> DEFINE sent == stray \cup {received[i] : i \in DOMAIN received}
           post == [serial |-> drain.cur, credential |-> credential]
<1> USE DEF NetworkInv
<1>0. /\ Len(content) \in Nat /\ content \in Seq(Entries) /\ files \subseteq 1..Len(content)
      /\ received \in Seq(Posts) /\ stray \subseteq Posts
  BY DEF TypeOK, DiskType, WorldType
<1>1. ASSUME sent' \subseteq sent \cup {post}, drain.pc \in {"post", "took"} \/ sent' \subseteq sent,
             UNCHANGED content, stage' = stage \/ stage' # "temp"
      PROVE  NetworkInv'
  <2>1. CASE sent' \subseteq sent
    BY <1>1, <2>1
  <2>2. CASE drain.pc \in {"post", "took"}
    <3>1. drain.cur \in files /\ drain.cur \in 1..Len(content)
      BY <2>2, CurIsFile DEF Busy
    <3>2. content[drain.cur].credential = credential
      BY <2>2 DEF DrainInv, Busy
    <3>3. stage = "temp" => drain.cur # Len(content)
      BY <3>1 DEF WriterInv
    <3> QED BY <1>1, <3>1, <3>2, <3>3
  <2> QED BY <1>1, <2>1, <2>2
<1>2. CASE DashboardTakes
  <2>1. received' = Append(received, post) /\ stray' = stray /\ post \in Posts
    BY <1>2, CurIsFile DEF DashboardTakes, Busy
  <2>2. sent' \subseteq sent \cup {post}
    BY <1>0, <2>1
  <2> QED BY <1>1, <1>2, <2>2 DEF DashboardTakes, Busy
<1>3. ASSUME NEW p \in stray, StrayArrives(p) PROVE NetworkInv'
  <2>1. received' = received \/ received' = Append(received, p)
    BY <1>3 DEF StrayArrives
  <2>2. stray' \subseteq stray /\ UNCHANGED <<content, stage>>
    BY <1>3 DEF StrayArrives
  <2>3. sent' \subseteq sent
    BY <1>0, <2>1, <2>2
  <2> QED BY <1>1, <2>2, <2>3
<1>4. CASE PostTimeout
  <2>1. received' = received /\ (stray' = stray \/ stray' = stray \cup {post})
        /\ UNCHANGED <<content, stage>> /\ drain.pc \in {"post", "took"}
    BY <1>4 DEF PostTimeout
  <2> QED BY <1>1, <2>1 DEF Busy
<1>5. CASE Crash
  <2>1. received' = received /\ UNCHANGED content /\ stage' = "none"
        /\ (stray' = stray \/ (drain.pc = "post" /\ stray' = stray \cup {post}))
    BY <1>5 DEF Crash
  <2> QED BY <1>1, <2>1 DEF Busy
<1>6. CASE WriteTemporary
  <2>1. \A s \in 1..Len(content) : content'[s] = content[s]
    BY <1>0, <1>6, EntryType DEF WriteTemporary, TypeOK, HandlerType, WriterInv
  <2>2. Len(content') = Len(content) + 1
    BY <1>0, <1>6 DEF WriteTemporary
  <2> QED BY <1>0, <1>6, <2>1, <2>2 DEF WriteTemporary
<1>7. CASE RefuseWrite \/ RenameFile \/ PushEntry \/ Flush \/ UnlinkFails \/ EditPolicy
           \/ EditRules \/ Tick \/ Restart \/ UNCHANGED vars \/ (Drain /\ ~DashboardTakes)
           \/ \E r \in Requests : Accept(r) \/ SessionsSaved(r)
  <2>1. UNCHANGED <<stray, received, content>> /\ (stage' = stage \/ stage' # "temp")
    BY <1>7 DEF RefuseWrite, RenameFile, PushEntry, Flush, UnlinkFails, EditPolicy, EditRules,
         Tick, Restart, vars, Accept, SessionsSaved, Drain, Snapshot, EndDrain, FetchRules,
         FetchFails, Decide, Delivered, DashboardRejects, DashboardFails, Unlink, Splice, Discard,
         PassOver, AskRules
  <2> QED BY <1>1, <2>1
<1> QED BY <1>2, <1>3, <1>4, <1>5, <1>6, <1>7 DEF Next, Write

\* The initial state has nothing on its way.
LEMMA CoreInit == Init => CoreInv
<1> SUFFICES ASSUME Init PROVE CoreInv
  OBVIOUS
<1>1. request \in [Requests -> {Served(0)}] /\ drain = Idle
  BY DEF Init
<1>2. TypeOK
  BY <1>1 DEF Init, TypeOK, WorldType, DiskType, ProcessType, HandlerType, DrainType, Served, Idle
<1> QED BY <1>2 DEF Init, CoreInv, WriterInv, ChainInv, DrainInv, NetworkInv, Idle, Busy,
             QueueMirrorsDirectory, Unspliced, Unpushed

\* The core invariant is inductive, so it holds of every reachable state.
THEOREM CoreInvariant == Spec => []CoreInv
<1>1. CoreInv /\ [Next]_vars => CoreInv'
  BY TypeStep, WriterStep, ChainStep, DrainStep, NetworkStep DEF CoreInv
<1> QED BY <1>1, CoreInit, PTL DEF Spec

\* Type correctness of the relay.
THEOREM TypeCorrect == Spec => []TypeOK
<1>1. CoreInv => TypeOK
  BY DEF CoreInv
<1> QED BY <1>1, CoreInvariant, PTL

\* The list in memory mirrors the outbox directory in every reachable state.
THEOREM MirrorsDirectory == Spec => []QueueMirrorsDirectory
<1>1. CoreInv => QueueMirrorsDirectory
  BY DEF CoreInv, WriterInv
<1> QED BY <1>1, CoreInvariant, PTL

\* No activity reaches a dashboard under a credential other than its own.
THEOREM CredentialsKept == Spec => []CredentialKept
<1>1. CoreInv => CredentialKept
  BY DEF CoreInv, NetworkInv, CredentialKept
<1> QED BY <1>1, CoreInvariant, PTL

\* An entry is posted only while the policy file selects it.
THEOREM SelectedWhenPosted == Spec => PostedOnlyWhenSelected
<1> DEFINE A == drain.pc # "post" /\ drain'.pc = "post" =>
                  policy # Broken /\ ~Retired(content[drain'.cur], policy)
<1>1. CoreInv /\ [Next]_vars => [A]_vars
  <2> SUFFICES ASSUME CoreInv, [Next]_vars, drain.pc # "post", drain'.pc = "post"
               PROVE  policy # Broken /\ ~Retired(content[drain'.cur], policy)
    OBVIOUS
  <2> USE DEF CoreInv, TypeOK, DrainType
  <2>1. CASE Decide
    <3>1. drain' # Idle
      BY DEF Idle
    <3>2. drain' # [drain EXCEPT !.pc = "unlink", !.why = "retired"]
      OBVIOUS
    <3>3. drain' = [drain EXCEPT !.pc = "post"]
          /\ policy # Broken /\ ~Retired(content[drain.cur], policy)
      BY <2>1, <3>1, <3>2 DEF Decide, Stop
    <3> QED BY <3>3
  <2>2. CASE RefuseWrite \/ PushEntry
    BY <2>2 DEF RefuseWrite, PushEntry, EndWrite
  <2>3. CASE drain' = Idle \/ UNCHANGED drain
    BY <2>3 DEF Idle
  <2>4. CASE Snapshot \/ FetchRules \/ DashboardTakes \/ Delivered \/ DashboardRejects \/ Unlink
             \/ Splice \/ Flush
    BY <2>4 DEF Snapshot, FetchRules, DashboardTakes, Delivered, DashboardRejects, Unlink, Splice,
         Flush
  <2>5. ASSUME NEW s \in drain.left, Discard(s) \/ PassOver(s) \/ AskRules(s) PROVE FALSE
    BY <2>5 DEF Discard, PassOver, AskRules, Candidate
  <2>6. CASE EndDrain \/ FetchFails \/ DashboardFails \/ PostTimeout \/ UnlinkFails \/ Crash
    BY <2>3, <2>6 DEF EndDrain, FetchFails, DashboardFails, PostTimeout, UnlinkFails, Crash, Stop
  <2>7. CASE WriteTemporary \/ RenameFile \/ EditPolicy \/ EditRules \/ Tick \/ Restart
             \/ UNCHANGED vars \/ (\E p \in stray : StrayArrives(p))
             \/ \E r \in Requests : Accept(r) \/ SessionsSaved(r)
    BY <2>3, <2>7 DEF WriteTemporary, RenameFile, EditPolicy, EditRules, Tick, Restart, vars,
         StrayArrives, Accept, SessionsSaved
  <2> QED BY <2>1, <2>2, <2>4, <2>5, <2>6, <2>7 DEF Next, Write, Drain
<1>2. [][CoreInv /\ [Next]_vars]_vars => [][A]_vars
  BY <1>1, PTL
<1> QED BY <1>1, CoreInvariant, PTL DEF Spec, PostedOnlyWhenSelected

-----------------------------------------------------------------------------
(***************************************************************************)
(* What the relay promises about its outbox, from CoreInv and its          *)
(* strengthenings: what it answered 200 for is kept, entries leave in      *)
(* order and repeat only where a fault paid for it, the directory keeps    *)
(* its limit, and the whole implements Delivery.                           *)
(***************************************************************************)

\* What changes the directory, the record of what left it, or the network.
LEMMA OutboxSteps ==
  ASSUME [Next]_vars
  PROVE  \/ UNCHANGED <<content, files, dropped, received, stray>>
         \/ WriteTemporary \/ RenameFile \/ DashboardTakes \/ PostTimeout \/ Crash \/ Unlink
         \/ Restart \/ \E p \in stray : StrayArrives(p)
BY DEF Next, Write, Drain, vars, Accept, SessionsSaved, RefuseWrite, PushEntry, Flush, Snapshot,
       EndDrain, FetchRules, FetchFails, Decide, Discard, PassOver, AskRules, Delivered,
       DashboardRejects, DashboardFails, Splice, UnlinkFails, EditPolicy, EditRules, Tick

\* The record of the outbox only grows: entries keep their place and content, posts that
\* were taken stay taken, and a file leaves the directory once it was taken or for a reason.
LEMMA HistoryGrows ==
  ASSUME CoreInv, [Next]_vars
  PROVE  /\ Len(content) \in Nat /\ Len(content') \in Nat /\ Len(content) <= Len(content')
         /\ \A s \in Serials : content'[s] = content[s]
         /\ \A s \in Serials : Reached(s) => Reached(s)'
         /\ \A s \in Serials : dropped[s] # "no" => dropped'[s] # "no"
         /\ \A s \in files : s \in files' \/ Reached(s)' \/ dropped'[s] # "no"
<1> USE DEF CoreInv, TypeOK, Reached
<1>0. /\ Len(content) \in Nat /\ content \in Seq(Entries) /\ files \subseteq 1..Len(content)
      /\ received \in Seq(Posts) /\ stray \subseteq Posts
      /\ dropped \in Seq(Reasons \cup {"no"}) /\ Len(dropped) = Len(content)
  BY DEF DiskType, WorldType
<1>1. CASE UNCHANGED <<content, files, dropped, received>>
  BY <1>0, <1>1
<1>2. ASSUME NEW p \in Posts, received' = Append(received, p), UNCHANGED <<content, files, dropped>>
      PROVE  /\ \A s \in Serials : Reached(s) => Reached(s)'
             /\ \A s \in files : s \in files'
  <2>1. \A i \in DOMAIN received : i \in DOMAIN received' /\ received'[i] = received[i]
    <3>1. DOMAIN received = 1..Len(received) /\ Len(received) \in Nat
      BY <1>0
    <3>2. \A i \in 1..Len(received) : received'[i] = received[i]
      BY <1>0, <1>2
    <3>3. DOMAIN received' = 1..(Len(received) + 1)
      BY <1>0, <1>2
    <3> QED BY <3>1, <3>2, <3>3
  <2> QED BY <1>2, <2>1
<1>3. CASE DashboardTakes
  <2>1. [serial |-> drain.cur, credential |-> credential] \in Posts
    BY <1>3, CurIsFile DEF DashboardTakes, Busy
  <2>2. /\ received' = Append(received, [serial |-> drain.cur, credential |-> credential])
        /\ UNCHANGED <<content, files, dropped>>
    BY <1>3 DEF DashboardTakes
  <2>3. (\A s \in Serials : Reached(s) => Reached(s)') /\ \A s \in files : s \in files'
    BY <1>2, <2>1, <2>2
  <2> HIDE DEF Reached
  <2> QED BY <1>0, <2>2, <2>3
<1>4. ASSUME NEW p \in stray, StrayArrives(p)
      PROVE  /\ UNCHANGED <<content, files, dropped>> /\ p \in Posts
             /\ received' = received \/ received' = Append(received, p)
  BY <1>0, <1>4 DEF StrayArrives
<1>5. CASE WriteTemporary
  <2>1. UNCHANGED <<files, received>>
    BY <1>5 DEF WriteTemporary
  <2>2. PICK b \in request[Head(writing)].todo : content' = Append(content, Entry(b))
    BY <1>5 DEF WriteTemporary
  <2>3. Len(content') = Len(content) + 1 /\ \A s \in 1..Len(content) : content'[s] = content[s]
    <3>1. Entry(b) \in {Entry(b)} \cup Entries /\ content \in Seq({Entry(b)} \cup Entries)
      BY <1>0
    <3> HIDE DEF CoreInv, TypeOK
    <3> QED BY <2>2, <3>1
  <2>4. \A s \in 1..Len(content) : dropped'[s] = dropped[s]
    BY <1>0, <1>5 DEF WriteTemporary
  <2> QED BY <1>0, <2>1, <2>3, <2>4
<1>6. CASE Unlink
  <2>1. drain.cur \in 1..Len(content)
    BY <1>6, CurIsFile DEF Unlink, Busy
  <2>2. drain.why \in Reasons \/ (drain.why = "delivered" /\ Reached(drain.cur))
    BY <1>6 DEF DrainInv, Unlink
  <2>3. /\ files' = files \ {drain.cur} /\ UNCHANGED <<content, received>>
        /\ dropped' = IF drain.why = "delivered" THEN dropped
                      ELSE [dropped EXCEPT ![drain.cur] = drain.why]
    BY <1>6 DEF Unlink
  <2>4. drain.why # "delivered" => drain.why # "no" /\ dropped'[drain.cur] = drain.why
    BY <1>0, <2>1, <2>2, <2>3 DEF Reasons
  <2>5. \A s \in 1..Len(content) : s # drain.cur => dropped'[s] = dropped[s]
    BY <1>0, <2>3
  <2>6. drain.why = "delivered" => Reached(drain.cur) /\ dropped' = dropped
    BY <2>2, <2>3 DEF Reasons
  <2> QED BY <1>0, <2>1, <2>3, <2>4, <2>5, <2>6
<1>7. CASE Restart
  BY <1>0, <1>7 DEF Restart
<1>8. CASE RenameFile \/ PostTimeout \/ Crash
  BY <1>0, <1>8 DEF RenameFile, PostTimeout, Crash
<1>9. ASSUME NEW p \in stray, StrayArrives(p)
      PROVE  /\ Len(content) \in Nat /\ Len(content') \in Nat /\ Len(content) <= Len(content')
             /\ \A s \in Serials : content'[s] = content[s]
             /\ \A s \in Serials : Reached(s) => Reached(s)'
             /\ \A s \in Serials : dropped[s] # "no" => dropped'[s] # "no"
             /\ \A s \in files : s \in files' \/ Reached(s)' \/ dropped'[s] # "no"
  <2>1. CASE received' = received
    BY <1>0, <1>4, <1>9, <2>1
  <2>2. CASE received' = Append(received, p)
    <3>1. (\A s \in Serials : Reached(s) => Reached(s)') /\ \A s \in files : s \in files'
      BY <1>2, <1>4, <1>9, <2>2
    <3> HIDE DEF Reached
    <3> QED BY <1>0, <1>4, <1>9, <3>1
  <2> QED BY <1>4, <1>9, <2>1, <2>2
<1> QED BY <1>1, <1>3, <1>5, <1>6, <1>7, <1>8, <1>9, OutboxSteps

\* What was kept stays kept.
LEMMA KeptStays ==
  ASSUME CoreInv, [Next]_vars, NEW b, Kept(b)
  PROVE  Kept(b)'
<1>1. PICK s \in Serials : /\ content[s].batch = b
                           /\ s \in files \/ Reached(s) \/ dropped[s] # "no"
  BY DEF Kept
<1>2. s \in Serials' /\ content'[s].batch = b
  BY <1>1, HistoryGrows
<1>3. s \in files' \/ Reached(s)' \/ dropped'[s] # "no"
  BY <1>1, HistoryGrows
<1> QED BY <1>2, <1>3 DEF Kept

\* A handler never answers for a batch it neither keeps nor still has to write.
LEMMA PromiseStep ==
  ASSUME CoreInv, PromiseInv, [Next]_vars
  PROVE  PromiseInv'
<1> DEFINE Promised(r) ==
      /\ request[r].pc = "saving" => request[r].todo = request[r].asked
      /\ request[r].pc = "acked" => request[r].todo = {}
      /\ request[r].pc \in {"enqueue", "acked"} =>
           \A b \in request[r].asked : b \in request[r].todo \/ Kept(b)
<1>1. request \in [Requests -> [pc : {"idle", "saving", "enqueue", "acked", "failed"},
                      todo : SUBSET Batches, asked : SUBSET Batches, attempts : Nat]]
      /\ writing \in Seq(Requests)
  BY DEF CoreInv, TypeOK, HandlerType
<1>2. \A r \in Requests : Promised(r)
  BY DEF PromiseInv
<1>3. ASSUME NEW r \in Requests, request'[r] = request[r] PROVE Promised(r)'
  BY <1>2, <1>3, KeptStays
<1>4. ASSUME NEW r \in Requests, request'[r].pc = "failed" PROVE Promised(r)'
  BY <1>4
<1> SUFFICES ASSUME NEW r \in Requests PROVE Promised(r)'
  BY DEF PromiseInv
<1>5. ASSUME NEW q \in Requests, Accept(q) PROVE Promised(r)'
  <2>1. CASE r # q \/ policy = Broken
    <3>1. request'[r] = request[r] \/ request'[r].pc = "failed"
      BY <1>1, <1>5, <2>1 DEF Accept
    <3> QED BY <1>3, <1>4, <3>1
  <2>2. CASE r = q /\ policy # Broken
    <3>1. /\ request'[r].todo = Bind(r, policy) /\ request'[r].asked = Bind(r, policy)
          /\ request'[r].pc = "acked" => Bind(r, policy) = {}
      BY <1>1, <1>5, <2>2 DEF Accept
    <3> QED BY <3>1
  <2> QED BY <2>1, <2>2
<1>6. ASSUME NEW q \in Requests, SessionsSaved(q) PROVE Promised(r)'
  <2>1. CASE r # q
    <3>1. request'[r] = request[r]
      BY <1>1, <1>6, <2>1 DEF SessionsSaved
    <3> QED BY <1>3, <3>1
  <2>2. CASE r = q
    <3>1. request[r].pc = "saving" /\ request[r].todo = request[r].asked
      BY <1>2, <1>6, <2>2 DEF SessionsSaved
    <3>2. /\ request'[r].todo = request[r].todo /\ request'[r].asked = request[r].asked
          /\ request'[r].pc \in {"acked", "enqueue", "failed"}
          /\ request'[r].pc = "acked" => request[r].todo = {}
      BY <1>1, <1>6, <2>2 DEF SessionsSaved
    <3> QED BY <3>1, <3>2
  <2> QED BY <2>1, <2>2
<1>7. CASE RefuseWrite
  <2>1. request'[r] = request[r] \/ request'[r].pc = "failed"
    BY <1>1, <1>7 DEF RefuseWrite
  <2> QED BY <1>3, <1>4, <2>1
<1>8. CASE PushEntry
  <2>1. CASE r # Head(writing)
    <3>1. request'[r] = request[r]
      BY <1>1, <1>8, <2>1 DEF PushEntry, Resume
    <3> QED BY <1>3, <3>1
  <2>2. CASE r = Head(writing)
    <3>0. PICK last : last = content[Len(content)].batch
      OBVIOUS
    <3> DEFINE rest == request[r].todo \ {last}
    <3>1. Kept(last)
      <4>1. Len(content) \in files /\ files \subseteq Serials
        BY <1>8 DEF PushEntry, CoreInv, WriterInv, TypeOK, DiskType
      <4> QED BY <3>0, <4>1 DEF Kept
    <3>2. Kept(last)'
      BY <3>1, KeptStays
    <3>3. request[r].pc = "enqueue"
      <4>1. writing # <<>> /\ Head(writing) = writing[1] /\ 1 \in DOMAIN writing
        BY <1>1, <1>8 DEF PushEntry, CoreInv, WriterInv
      <4> QED BY <2>2, <4>1 DEF CoreInv, ChainInv
    <3>4. request' = [request EXCEPT ![r].todo = rest,
                        ![r].pc = IF rest = {} THEN "acked" ELSE "enqueue"]
      BY <1>8, <2>2, <3>0 DEF PushEntry, Resume
    <3>5. /\ request'[r].todo = rest /\ request'[r].asked = request[r].asked
          /\ request'[r].pc = IF rest = {} THEN "acked" ELSE "enqueue"
      <4> HIDE DEF rest
      <4> QED BY <1>1, <3>4
    <3>6. \A b \in request[r].asked : b \in rest \/ Kept(b)'
      BY <1>2, <3>2, <3>3, KeptStays
    <3> QED BY <3>5, <3>6
  <2> QED BY <2>1, <2>2
<1>9. CASE Crash
  <2>1. request'[r] = request[r] \/ request'[r].pc = "failed"
    BY <1>1, <1>9 DEF Crash
  <2> QED BY <1>3, <1>4, <2>1
<1>10. CASE UNCHANGED request
  BY <1>3, <1>10
<1>11. CASE WriteTemporary \/ RenameFile \/ Flush \/ Drain \/ PostTimeout \/ UnlinkFails
           \/ EditPolicy \/ EditRules \/ Tick \/ Restart \/ UNCHANGED vars
           \/ \E p \in stray : StrayArrives(p)
  <2>1. UNCHANGED request
    BY <1>11 DEF WriteTemporary, RenameFile, Flush, Drain, Snapshot, EndDrain, FetchRules,
         FetchFails, Decide, DashboardTakes, Delivered, DashboardRejects, DashboardFails, Unlink,
         Splice, Discard, PassOver, AskRules, PostTimeout, UnlinkFails, EditPolicy, EditRules, Tick,
         Restart, vars, StrayArrives
  <2> QED BY <1>10, <2>1
<1> QED BY <1>5, <1>6, <1>7, <1>8, <1>9, <1>11 DEF Next, Write

\* While an entry is on its way no older one of its credential waits.
LEMMA OrderStep ==
  ASSUME CoreInv, OrderInv, [Next]_vars
  PROVE  OrderInv'
<1> USE DEF CoreInv, OrderInv, Busy
<1>0. /\ Len(content) \in Nat /\ entries \subseteq 1..Len(content)
      /\ drain.left \subseteq entries
      /\ \A s \in 1..Len(content) : content'[s] = content[s]
  BY HistoryGrows DEF TypeOK, DiskType, WriterInv, DrainInv
<1>a. /\ \A t \in entries : t \in Nat /\ t <= Len(content)
      /\ \A t \in drain.left : t \in Nat /\ t <= Len(content)
  <2> HIDE DEF CoreInv, OrderInv
  <2>1. /\ \A t \in entries : t \in 1..Len(content)
        /\ \A t \in drain.left : t \in entries
    BY <1>0
  <2>2. \A t \in 1..Len(content) : t \in Nat /\ t <= Len(content)
    BY <1>0
  <2> QED BY <2>1, <2>2
<1>1. CASE drain'.pc \in {"idle", "await"}
  BY <1>1
<1>2. CASE UNCHANGED <<entries, credential, drain>>
  BY <1>0, <1>2
<1>3. ASSUME NEW s \in drain.left, Discard(s) \/ PassOver(s) \/ AskRules(s) PROVE OrderInv'
  <2>1. /\ drain.pc = "next" /\ \A t \in drain.left : s <= t
        /\ UNCHANGED <<entries, credential>>
        /\ drain'.left = drain.left \ {s}
        /\ \/ drain'.pc \in {"unlink", "fetch", "decide"} /\ drain'.cur = s
           \/ drain'.pc = "next" /\ content[s].credential # credential
    BY <1>3 DEF Discard, PassOver, AskRules, Candidate, Verdict, TypeOK, DrainType
  <2> QED BY <1>0, <1>a, <2>1
<1>4. CASE Snapshot
  BY <1>4 DEF Snapshot, TypeOK, DrainType
<1>5. CASE FetchRules \/ DashboardTakes \/ Delivered \/ DashboardRejects \/ Unlink
  <2>1. /\ UNCHANGED <<entries, credential>> /\ drain'.left = drain.left /\ drain'.cur = drain.cur
        /\ Busy /\ drain'.pc \in {"decide", "took", "unlink", "splice"}
    BY <1>5 DEF FetchRules, DashboardTakes, Delivered, DashboardRejects, Unlink, TypeOK, DrainType
  <2> QED BY <1>0, <2>1
<1>6. CASE Decide
  <2>1. /\ UNCHANGED <<entries, credential>> /\ drain.pc = "decide"
        /\ \/ drain' = Idle
           \/ drain' = [drain EXCEPT !.pc = "unlink", !.why = "retired"]
           \/ drain' = [drain EXCEPT !.pc = "post"]
    BY <1>6 DEF Decide, Stop
  <2>2. CASE drain' = Idle
    BY <1>1, <2>2 DEF Idle
  <2>3. CASE drain' # Idle
    <3>1. drain'.left = drain.left /\ drain'.cur = drain.cur /\ drain'.pc \in {"unlink", "post"}
      BY <2>1, <2>3 DEF TypeOK, DrainType
    <3> QED BY <1>0, <2>1, <3>1
  <2> QED BY <2>2, <2>3
<1>7. CASE Splice
  <2>1. /\ drain'.pc = "next" /\ drain'.left = drain.left /\ credential' = credential
        /\ drain.pc = "splice"
    BY <1>7 DEF Splice, TypeOK, DrainType
  <2>2. entries' = entries \ {drain.cur}
    BY <1>7 DEF Splice, Spliced, DrainInv
  <2> QED BY <1>0, <2>1, <2>2
<1>8. CASE RefuseWrite \/ PushEntry
  <2>1. PICK a : drain' = [drain EXCEPT !.ahead = a]
    BY <1>8 DEF RefuseWrite, PushEntry, EndWrite
  <2>2. drain'.pc = drain.pc /\ drain'.left = drain.left /\ drain'.cur = drain.cur
    BY <2>1 DEF TypeOK, DrainType
  <2>3. \/ entries' = entries
        \/ entries' = entries \cup {Len(content)} /\ Len(content) \notin entries
    BY <1>8 DEF RefuseWrite, PushEntry, WriterInv, QueueMirrorsDirectory, Unspliced, Unpushed
  <2>4. credential' = credential /\ content' = content
    BY <1>8 DEF RefuseWrite, PushEntry
  <2>5. Busy => drain.cur \in entries
    BY DEF DrainInv
  <2>6. ASSUME Len(content) \notin entries
        PROVE  /\ \A t \in drain.left : t < Len(content)
               /\ Busy => drain.cur < Len(content)
    <3> HIDE DEF OrderInv, CoreInv, Busy
    <3>1. \A t \in entries : t # Len(content) /\ t < Len(content)
      BY <1>0, <1>a, <2>6
    <3> QED BY <1>0, <2>5, <3>1
  <2> QED BY <1>0, <2>2, <2>3, <2>4, <2>6
<1>9. CASE EndDrain \/ FetchFails \/ DashboardFails \/ PostTimeout \/ UnlinkFails \/ Crash \/ Restart
  <2>1. drain' = Idle
    BY <1>9 DEF EndDrain, FetchFails, DashboardFails, PostTimeout, UnlinkFails, Crash, Stop,
         Restart, WriterInv
  <2> QED BY <1>1, <2>1 DEF Idle
<1>11. CASE Flush
  BY <1>1, <1>11 DEF Flush, TypeOK, DrainType
<1>10. CASE WriteTemporary \/ RenameFile \/ EditPolicy \/ EditRules \/ Tick \/ UNCHANGED vars
            \/ (\E r \in Requests : Accept(r) \/ SessionsSaved(r))
            \/ \E p \in stray : StrayArrives(p)
  <2>1. UNCHANGED <<entries, credential, drain>>
    BY <1>10 DEF WriteTemporary, RenameFile, EditPolicy, EditRules, Tick, vars, Accept,
         SessionsSaved, StrayArrives
  <2> QED BY <1>2, <2>1
<1> QED BY <1>3, <1>4, <1>5, <1>6, <1>7, <1>8, <1>9, <1>10, <1>11 DEF Next, Write, Drain

\* The limit on the directory.
LEMMA BoundStep ==
  ASSUME CoreInv, BoundInv, [Next]_vars
  PROVE  BoundInv'
<1> USE DEF BoundInv
<1>0. IsFiniteSet(files) /\ Cardinality(files) \in Nat
  <2>1. Len(content) \in Nat /\ files \subseteq 1..Len(content)
    BY DEF CoreInv, TypeOK, DiskType
  <2>2. IsFiniteSet(1..Len(content))
    BY <2>1, FS_Interval
  <2> QED BY <2>1, <2>2, FS_Subset, FS_CardinalityType
<1>1. ASSUME files' \subseteq files, stage' = "temp" => stage = "temp" PROVE BoundInv'
  <2>1. IsFiniteSet(files') /\ Cardinality(files') <= Cardinality(files)
    BY <1>0, <1>1, FS_Subset
  <2>2. Cardinality(files') \in Nat
    BY <2>1, FS_CardinalityType
  <2> QED BY <1>0, <1>1, <2>1, <2>2
<1>2. CASE WriteTemporary
  <2>1. files \subseteq entries /\ files' = files /\ ~Full /\ entries \subseteq 1..Len(content)
    BY <1>2 DEF WriteTemporary, CoreInv, WriterInv, QueueMirrorsDirectory, Unpushed
  <2>2. IsFiniteSet(entries)
    <3>1. IsFiniteSet(1..Len(content))
      BY FS_Interval DEF CoreInv, TypeOK, DiskType
    <3> QED BY <2>1, <3>1, FS_Subset
  <2>3. Cardinality(files) <= Cardinality(entries) /\ Cardinality(entries) \in Nat
    BY <2>1, <2>2, FS_Subset, FS_CardinalityType
  <2> QED BY <1>0, <2>1, <2>3 DEF Full
<1>3. CASE RenameFile
  <2>1. files' = files \cup {Len(content)} /\ stage = "temp" /\ stage' = "renamed"
    BY <1>3 DEF RenameFile
  <2>2. PICK last : last = Len(content)
    OBVIOUS
  <2>3. Cardinality(files \cup {last}) =
          IF last \in files THEN Cardinality(files) ELSE Cardinality(files) + 1
    BY <1>0, FS_AddElement
  <2>4. Cardinality(files) < MaxQueueEntries
    BY <2>1
  <2> QED BY <1>0, <2>1, <2>2, <2>3, <2>4
<1>4. CASE UNCHANGED files /\ ~WriteTemporary /\ ~RenameFile
  <2>1. stage' = "temp" => stage = "temp"
    BY <1>4 DEF Next, Write, Drain, vars, Accept, SessionsSaved, RefuseWrite, PushEntry, Flush,
         Snapshot, EndDrain, FetchRules, FetchFails, Decide, Discard, PassOver, AskRules,
         DashboardTakes, Delivered, DashboardRejects, DashboardFails, PostTimeout, Unlink,
         Splice, UnlinkFails, StrayArrives, EditPolicy, EditRules, Tick, Crash, Restart
  <2> QED BY <1>1, <1>4, <2>1
<1>5. CASE Unlink \/ Restart
  <2>1. files' \subseteq files /\ stage' = stage
    BY <1>5 DEF Unlink, Restart
  <2> QED BY <1>1, <2>1
<1>6. CASE DashboardTakes \/ PostTimeout \/ Crash \/ \E p \in stray : StrayArrives(p)
  <2>1. UNCHANGED files /\ (stage' = stage \/ stage' = "none")
    BY <1>6 DEF DashboardTakes, PostTimeout, Crash, StrayArrives
  <2> QED BY <1>1, <2>1
<1> QED BY <1>2, <1>3, <1>4, <1>5, <1>6, OutboxSteps

\* No step writes more files than the bound.
LEMMA BoundedStep ==
  ASSUME CoreInv, Len(content) <= MaxFiles, [Next]_vars
  PROVE  Len(content') <= MaxFiles
<1>1. content \in Seq(Entries)
  BY DEF CoreInv, TypeOK, DiskType
<1>2. CASE WriteTemporary
  <2>1. Len(content) \in Nat /\ Len(content) < MaxFiles /\ MaxFiles \in Nat
    BY <1>1, <1>2 DEF WriteTemporary
  <2>2. PICK e : content' = Append(content, e)
    BY <1>2 DEF WriteTemporary
  <2>3. Len(content') = Len(content) + 1
    <3>1. content \in Seq(Entries \cup {e}) /\ e \in Entries \cup {e}
      BY <1>1
    <3> QED BY <2>2, <3>1
  <2> QED BY <2>1, <2>3
<1>3. CASE UNCHANGED content
  BY <1>3
<1> QED BY <1>2, <1>3, OutboxSteps DEF RenameFile, DashboardTakes, PostTimeout, Crash, Unlink,
                                       Restart, StrayArrives

\* A request on its way counts once, and each that arrives counts one more.
LEMMA ArrivalsType ==
  ASSUME TypeOK, NEW s
  PROVE  /\ IsFiniteSet(Arrivals(s)) /\ Cardinality(Arrivals(s)) \in Nat
         /\ Late(s) \in {0, 1} /\ Sent(s) \in Nat
<1>1. received \in Seq(Posts)
  BY DEF TypeOK, WorldType
<1>2. Arrivals(s) \subseteq 1..Len(received) /\ Len(received) \in Nat
  BY <1>1 DEF Arrivals
<1>3. IsFiniteSet(1..Len(received))
  BY <1>2, FS_Interval
<1>4. IsFiniteSet(Arrivals(s)) /\ Cardinality(Arrivals(s)) \in Nat
  BY <1>2, <1>3, FS_Subset, FS_CardinalityType
<1> QED BY <1>4 DEF Late, Sent

LEMMA ArrivalsAppend ==
  ASSUME TypeOK, NEW s, NEW p \in Posts, received' = Append(received, p)
  PROVE  /\ p.serial = s => Cardinality(Arrivals(s))' = Cardinality(Arrivals(s)) + 1
         /\ p.serial # s => Arrivals(s)' = Arrivals(s)
<1>1. received \in Seq(Posts) /\ Len(received) \in Nat
  BY DEF TypeOK, WorldType
<1>2. /\ DOMAIN received = 1..Len(received) /\ DOMAIN received' = 1..(Len(received) + 1)
      /\ \A i \in 1..Len(received) : received'[i] = received[i]
      /\ received'[Len(received) + 1] = p
  BY <1>1
<1>3. CASE p.serial = s
  <2>1. Arrivals(s)' = Arrivals(s) \cup {Len(received) + 1}
    BY <1>1, <1>2, <1>3 DEF Arrivals
  <2>2. Len(received) + 1 \notin Arrivals(s)
    BY <1>1, <1>2 DEF Arrivals
  <2> QED BY <1>3, <2>1, <2>2, ArrivalsType, FS_AddElement
<1>4. CASE p.serial # s
  BY <1>1, <1>2, <1>4 DEF Arrivals
<1> QED BY <1>3, <1>4

\* Duplicates are paid for.
LEMMA DuplicateStep ==
  ASSUME CoreInv, DuplicateInv, [Next]_vars
  PROVE  DuplicateInv'
<1> DEFINE Spent == faults + crashes
<1>0. /\ Len(content) \in Nat /\ content \in Seq(Entries) /\ files \subseteq 1..Len(content)
      /\ received \in Seq(Posts) /\ stray \subseteq Posts /\ Spent \in Nat
      /\ faults \in Nat /\ crashes \in Nat
  BY DEF CoreInv, TypeOK, DiskType, WorldType
<1>1. \A s : /\ Sent(s) \in Nat /\ Cardinality(Arrivals(s)) \in Nat /\ Late(s) \in {0, 1}
             /\ Sent(s) = Cardinality(Arrivals(s)) + Late(s)
  BY ArrivalsType DEF CoreInv, Sent
<1>2. \A s \in Serials : /\ Sent(s) <= 1 + Spent
                         /\ s \in files /\ ~Confirmed(s) => Sent(s) <= Spent
  <2>1. \A s \in Serials : /\ Sent(s) <= 1 + faults + crashes
                           /\ s \in files /\ ~Confirmed(s) => Sent(s) <= faults + crashes
    BY DEF DuplicateInv
  <2> QED BY <1>0, <1>1, <2>1
<1>3. PICK f \in Nat, c \in Nat : faults' = f /\ crashes' = c
  BY TypeStep DEF CoreInv, TypeOK, WorldType
<1> DEFINE Good(s) == /\ Sent(s) <= 1 + faults + crashes
                      /\ s \in files /\ ~Confirmed(s) => Sent(s) <= faults + crashes
\* Nothing more was sent, and what may be sent again could be before.
<1>4. ASSUME NEW s \in Serials, Sent(s)' \in Nat, Sent(s)' <= Sent(s), Spent <= f + c,
             s \in files' /\ ~Confirmed(s)' => s \in files /\ ~Confirmed(s)
      PROVE  Good(s)'
  <2>1. Sent(s)' <= 1 + f + c
    <3>1. Sent(s) <= 1 + Spent
      BY <1>2
    <3> QED BY <1>0, <1>1, <1>4, <3>1
  <2>2. ASSUME s \in files', ~Confirmed(s)' PROVE Sent(s)' <= f + c
    <3>1. s \in files /\ ~Confirmed(s)
      BY <1>4, <2>2
    <3>2. Sent(s) <= Spent
      BY <1>2, <3>1
    <3> QED BY <1>0, <1>1, <1>4, <3>2
  <2> QED BY <1>3, <2>1, <2>2
\* A fault or a crash pays for one more.
<1>5. ASSUME NEW s \in Serials, Sent(s)' \in Nat, f + c = Spent + 1,
             Sent(s)' <= Sent(s) \/ (s \in files /\ ~Confirmed(s) /\ Sent(s)' <= Sent(s) + 1)
      PROVE  Good(s)'
  <2>1. Sent(s)' <= Spent + 1
    <3>1. CASE Sent(s)' <= Sent(s)
      <4>1. Sent(s) <= 1 + Spent
        BY <1>2
      <4> QED BY <1>0, <1>1, <1>5, <3>1, <4>1
    <3>2. CASE s \in files /\ ~Confirmed(s) /\ Sent(s)' <= Sent(s) + 1
      <4>1. Sent(s) <= Spent
        BY <1>2, <3>2
      <4> QED BY <1>0, <1>1, <1>5, <3>2, <4>1
    <3> QED BY <1>5, <3>1, <3>2
  <2>2. Sent(s)' <= f + c /\ Sent(s)' <= 1 + f + c
    BY <1>0, <1>5, <2>1
  <2> QED BY <1>3, <2>2
\* Steps that send nothing.
<1>6. ASSUME UNCHANGED <<content, received, stray>>, Spent <= f + c,
             \A s \in Serials : s \in files' /\ ~Confirmed(s)' => s \in files /\ ~Confirmed(s)
      PROVE  DuplicateInv'
  <2> SUFFICES ASSUME NEW s \in Serials PROVE Good(s)'
    BY <1>6 DEF DuplicateInv
  <2> HIDE DEF Good
  <2>1. Sent(s)' = Sent(s)
    BY <1>6 DEF Sent, Arrivals, Late
  <2>2. Sent(s)' \in Nat /\ Sent(s)' <= Sent(s)
    BY <1>1, <2>1
  <2>3. s \in files' /\ ~Confirmed(s)' => s \in files /\ ~Confirmed(s)
    BY <1>6
  <2> QED BY <1>4, <1>6, <2>2, <2>3
<1>7. CASE DashboardTakes
  <2> DEFINE post == [serial |-> drain.cur, credential |-> credential]
  <2>1. /\ received' = Append(received, post) /\ post \in Posts
        /\ drain.cur \in files /\ drain.pc = "post" /\ drain'.pc = "took" /\ drain'.cur = drain.cur
        /\ UNCHANGED <<content, stray, files, faults, crashes>>
    BY <1>7, CurIsFile DEF DashboardTakes, Busy, CoreInv, TypeOK, DrainType
  <2> SUFFICES ASSUME NEW s \in Serials PROVE Good(s)'
    BY <2>1 DEF DuplicateInv
  <2>2. Late(s)' = Late(s)
    BY <2>1 DEF Late
  <2>3. CASE s = drain.cur
    <3>1. Sent(s)' = Sent(s) + 1
      <4>1. Cardinality(Arrivals(s))' = Cardinality(Arrivals(s)) + 1
        BY <2>1, <2>3, ArrivalsAppend DEF CoreInv
      <4> QED BY <1>1, <2>2, <4>1 DEF Sent
    <3>2. ~Confirmed(s) /\ Confirmed(s)' /\ s \in files
      BY <2>1, <2>3 DEF Confirmed
    <3>3. Sent(s) <= Spent
      BY <1>2, <3>2
    <3>4. Sent(s)' <= 1 + faults + crashes
      BY <1>0, <1>1, <3>1, <3>3
    <3> QED BY <2>1, <3>2, <3>4
  <2>4. CASE s # drain.cur
    <3>1. Sent(s)' = Sent(s)
      <4>1. Arrivals(s)' = Arrivals(s)
        BY <2>1, <2>4, ArrivalsAppend DEF CoreInv
      <4> QED BY <2>2, <4>1 DEF Sent
    <3>2. ~Confirmed(s) /\ ~Confirmed(s)'
      BY <2>1, <2>4 DEF Confirmed
    <3>3. Sent(s) <= 1 + Spent /\ (s \in files => Sent(s) <= Spent)
      BY <1>2, <3>2
    <3>4. Spent = faults + crashes /\ 1 + Spent = 1 + faults + crashes
      BY <1>0
    <3> QED BY <2>1, <3>1, <3>3, <3>4
  <2> QED BY <2>3, <2>4
<1>8. CASE PostTimeout \/ Crash
  <2> DEFINE post == [serial |-> drain.cur, credential |-> credential]
  <2>1. /\ UNCHANGED <<received, content, files>>
        /\ stray' = stray \/ (drain.pc = "post" /\ stray' = stray \cup {post})
        /\ \/ faults' = faults + 1 /\ crashes' = crashes
           \/ faults' = faults /\ crashes' = crashes + 1
    BY <1>8 DEF PostTimeout, Crash
  <2>5. f + c = Spent + 1
    BY <1>0, <1>3, <2>1
  <2> SUFFICES ASSUME NEW s \in Serials PROVE Good(s)'
    BY <2>1 DEF DuplicateInv
  <2>2. Arrivals(s)' = Arrivals(s)
    BY <2>1 DEF Arrivals
  <2>3. CASE Late(s)' = Late(s)
    <3>1. Sent(s)' = Sent(s)
      BY <2>2, <2>3 DEF Sent
    <3> HIDE DEF Good
    <3> QED BY <1>1, <1>5, <2>5, <3>1
  <2>4. CASE Late(s)' # Late(s)
    <3>1. drain.pc = "post" /\ s = drain.cur /\ Late(s)' = 1 /\ Late(s) = 0
      BY <2>1, <2>4 DEF Late
    <3>2. Sent(s)' = Sent(s) + 1
      BY <1>1, <2>2, <3>1 DEF Sent
    <3>3. s \in files /\ ~Confirmed(s)
      BY <3>1, CurIsFile DEF Busy, Confirmed, CoreInv
    <3> HIDE DEF Good
    <3> QED BY <1>1, <1>5, <2>5, <3>2, <3>3
  <2> QED BY <2>3, <2>4
<1>9. CASE UnlinkFails
  <2>1. UNCHANGED <<received, stray, content>> /\ f + c = Spent + 1
    BY <1>0, <1>3, <1>9 DEF UnlinkFails
  <2> SUFFICES ASSUME NEW s \in Serials PROVE Good(s)'
    BY <2>1 DEF DuplicateInv
  <2>2. Sent(s)' = Sent(s)
    BY <2>1 DEF Sent, Arrivals, Late
  <2> HIDE DEF Good
  <2> QED BY <1>1, <1>5, <2>1, <2>2
\* A file that appears was never sent.
<1>10. CASE RenameFile
  <2>1. /\ UNCHANGED <<received, stray, content, drain, faults, crashes>> /\ stage = "temp"
        /\ files' = files \cup {Len(content)}
    BY <1>10 DEF RenameFile
  <2> SUFFICES ASSUME NEW s \in Serials PROVE Good(s)'
    BY <2>1 DEF DuplicateInv
  <2>2. Sent(s)' = Sent(s) /\ (Confirmed(s)' <=> Confirmed(s))
    BY <2>1 DEF Sent, Arrivals, Late, Confirmed
  <2>3. CASE s = Len(content)
    <3>1. Arrivals(s) = {} /\ Late(s) = 0
      BY <2>1, <2>3 DEF CoreInv, NetworkInv, Arrivals, Late
    <3>2. Sent(s) = 0
      BY <3>1, FS_EmptySet DEF Sent
    <3> QED BY <1>0, <2>1, <2>2, <3>2
  <2>4. CASE s # Len(content)
    <3>1. s \in files' <=> s \in files
      BY <2>1, <2>4
    <3>2. Spent <= f + c
      BY <1>0, <1>3, <2>1
    <3> HIDE DEF Good
    <3> QED BY <1>1, <1>4, <2>2, <3>1, <3>2
  <2> QED BY <2>3, <2>4
<1>11. CASE WriteTemporary
  <2>1. /\ UNCHANGED <<received, stray, files, drain, faults, crashes>>
        /\ \E e : content' = Append(content, e)
    BY <1>11 DEF WriteTemporary
  <2>2. Len(content') = Len(content) + 1
    <3>1. PICK e : content' = Append(content, e)
      BY <2>1
    <3>2. content \in Seq(Entries \cup {e}) /\ e \in Entries \cup {e}
      BY <1>0
    <3> QED BY <3>1, <3>2
  <2> SUFFICES ASSUME NEW s \in 1..(Len(content) + 1) PROVE Good(s)'
    BY <2>2 DEF DuplicateInv
  <2>3. Sent(s)' = Sent(s) /\ (Confirmed(s)' <=> Confirmed(s))
    BY <2>1 DEF Sent, Arrivals, Late, Confirmed
  <2>4. CASE s \in Serials
    <3>1. Spent <= f + c
      BY <1>0, <1>3, <2>1
    <3> HIDE DEF Good
    <3> QED BY <1>1, <1>4, <2>1, <2>3, <2>4, <3>1
  <2>5. CASE s \notin Serials
    <3>1. Arrivals(s) = {} /\ Late(s) = 0
      BY <2>5 DEF CoreInv, NetworkInv, Arrivals, Late
    <3>2. Sent(s) = 0
      BY <3>1, FS_EmptySet DEF Sent
    <3> QED BY <1>0, <2>1, <2>3, <3>2
  <2> QED BY <2>4, <2>5
\* A request that was late arrives, or is refused: it is late no more.
<1>12. ASSUME NEW p \in stray, StrayArrives(p) PROVE DuplicateInv'
  <2>1. /\ p \in Posts /\ stray' = stray \ {p}
        /\ received' = received \/ received' = Append(received, p)
        /\ UNCHANGED <<content, files, drain, faults, crashes>>
    BY <1>0, <1>12 DEF StrayArrives
  <2> SUFFICES ASSUME NEW s \in Serials PROVE Good(s)'
    BY <2>1 DEF DuplicateInv
  <2>2. Sent(s)' \in Nat /\ Sent(s)' <= Sent(s)
    <3>1. CASE p.serial = s
      <4>1. \A q \in stray : q.serial = s => q = p
        <5>1. \A q \in stray : /\ q \in Posts
                               /\ q.credential = content[q.serial].credential
          BY <1>0 DEF CoreInv, NetworkInv
        <5> QED BY <3>1, <5>1 DEF Posts
      <4>2. Late(s) = 1 /\ Late(s)' = 0
        BY <2>1, <3>1, <4>1 DEF Late
      <4>3. \/ Cardinality(Arrivals(s))' = Cardinality(Arrivals(s))
            \/ Cardinality(Arrivals(s))' = Cardinality(Arrivals(s)) + 1
        <5>1. CASE received' = received
          BY <5>1 DEF Arrivals
        <5>2. CASE received' = Append(received, p)
          BY <2>1, <3>1, <5>2, ArrivalsAppend DEF CoreInv
        <5> QED BY <2>1, <5>1, <5>2
      <4> QED BY <1>1, <4>2, <4>3 DEF Sent
    <3>2. CASE p.serial # s
      <4>1. Late(s)' = Late(s)
        BY <2>1, <3>2 DEF Late
      <4>2. Arrivals(s)' = Arrivals(s)
        <5>1. CASE received' = received
          BY <5>1 DEF Arrivals
        <5>2. CASE received' = Append(received, p)
          BY <2>1, <3>2, <5>2, ArrivalsAppend DEF CoreInv
        <5> QED BY <2>1, <5>1, <5>2
      <4>3. Sent(s)' = Sent(s)
        BY <4>1, <4>2 DEF Sent
      <4> QED BY <1>1, <4>3
    <3> QED BY <3>1, <3>2
  <2>3. s \in files' /\ ~Confirmed(s)' => s \in files /\ ~Confirmed(s)
    BY <2>1 DEF Confirmed
  <2>4. Spent <= f + c
    BY <1>0, <1>3, <2>1
  <2> HIDE DEF Good
  <2> QED BY <1>4, <2>2, <2>3, <2>4
<1>13. CASE Unlink
  <2>1. UNCHANGED <<content, received, stray, faults, crashes>> /\ files' = files \ {drain.cur}
    BY <1>13 DEF Unlink
  <2>2. Spent <= f + c
    BY <1>0, <1>3, <2>1
  <2>3. \A s \in files' : s \in files /\ ~Confirmed(s)
    BY <2>1 DEF Confirmed
  <2> QED BY <1>6, <2>1, <2>2, <2>3
<1>20. CASE Splice
  <2>1. UNCHANGED <<content, received, stray, faults, crashes, files>> /\ drain.pc = "splice"
    BY <1>20 DEF Splice
  <2>2. Spent <= f + c
    BY <1>0, <1>3, <2>1
  <2>3. \A s \in files' : s \in files /\ ~Confirmed(s)
    BY <2>1 DEF Confirmed
  <2> QED BY <1>6, <2>1, <2>2, <2>3
<1>14. CASE Restart
  <2>1. PICK damaged \in SUBSET files : /\ faults' = faults + Cardinality(damaged)
                                        /\ files' = files \ damaged
    BY <1>14 DEF Restart
  <2>2. UNCHANGED <<content, received, stray, crashes>> /\ drain = Idle
    BY <1>14 DEF Restart, CoreInv, WriterInv
  <2>3. Cardinality(damaged) \in Nat
    <3>1. IsFiniteSet(1..Len(content)) /\ damaged \in SUBSET (1..Len(content))
      BY <1>0, FS_Interval
    <3> QED BY <3>1, FS_Subset, FS_CardinalityType
  <2>4. Spent <= f + c
    BY <1>0, <1>3, <2>1, <2>2, <2>3
  <2>5. \A s \in files' : s \in files /\ ~Confirmed(s)
    BY <2>1, <2>2 DEF Confirmed, Idle
  <2> QED BY <1>6, <2>2, <2>4, <2>5
\* The drain moves on, or a handler does: what was confirmed stays so.
<1>15. CASE UNCHANGED <<content, files, received, stray, faults, crashes>>
            /\ \A s : Confirmed(s) => Confirmed(s)'
  <2>1. Spent <= f + c
    BY <1>0, <1>3, <1>15
  <2> QED BY <1>6, <1>15, <2>1
<1>16. CASE Delivered
  <2>1. drain.pc = "took" /\ drain'.pc = "unlink" /\ drain'.why = "delivered"
        /\ drain'.cur = drain.cur
    BY <1>16 DEF Delivered, CoreInv, TypeOK, DrainType
  <2> QED BY <1>15, <1>16, <2>1 DEF Delivered, Confirmed
<1>17. CASE RefuseWrite \/ PushEntry
  <2>1. PICK a : drain' = [drain EXCEPT !.ahead = a]
    BY <1>17 DEF RefuseWrite, PushEntry, EndWrite
  <2>2. drain'.pc = drain.pc /\ drain'.cur = drain.cur /\ drain'.why = drain.why
    BY <2>1 DEF CoreInv, TypeOK, DrainType
  <2>3. UNCHANGED <<content, files, received, stray, faults, crashes>>
    BY <1>17 DEF RefuseWrite, PushEntry
  <2> QED BY <1>15, <2>2, <2>3 DEF Confirmed
<1>18. CASE Flush \/ Snapshot \/ EndDrain \/ FetchRules \/ FetchFails \/ Decide
            \/ DashboardRejects \/ DashboardFails
            \/ \E s \in drain.left : Discard(s) \/ PassOver(s) \/ AskRules(s)
  <2>1. drain.pc \notin {"took", "unlink"}
    BY <1>18 DEF Flush, Snapshot, EndDrain, FetchRules, FetchFails, Decide, DashboardRejects,
         DashboardFails, Discard, PassOver, AskRules, Candidate
  <2>2. UNCHANGED <<content, files, received, stray, faults, crashes>>
    BY <1>18 DEF Flush, Snapshot, EndDrain, FetchRules, FetchFails, Decide, DashboardRejects,
         DashboardFails, Discard, PassOver, AskRules
  <2> QED BY <1>15, <2>1, <2>2 DEF Confirmed
<1>19. CASE EditPolicy \/ EditRules \/ Tick \/ UNCHANGED vars
            \/ (\E r \in Requests : Accept(r) \/ SessionsSaved(r))
  <2>1. UNCHANGED <<content, files, received, stray, faults, crashes, drain>>
    BY <1>19 DEF EditPolicy, EditRules, Tick, vars, Accept, SessionsSaved
  <2> QED BY <1>15, <2>1 DEF Confirmed
<1> QED BY <1>7, <1>8, <1>9, <1>10, <1>11, <1>12, <1>13, <1>14, <1>16, <1>17, <1>18, <1>19,
           <1>20 DEF Next, Write, Drain

\* The order of the list keeps younger entries from overtaking.
LEMMA OrderKept ==
  ASSUME CoreInv, OrderInv
  PROVE  NoOvertaking
<1> SUFFICES ASSUME drain.pc \in {"post", "took"}, NEW s \in files, s < drain.cur,
                    content[s].credential = credential,
                    content[drain.cur].credential = credential
             PROVE  FALSE
  BY DEF NoOvertaking, CoreInv, DrainInv
<1>1. Busy /\ up
  BY DEF Busy, CoreInv, WriterInv, Idle
<1>2. /\ drain.cur \in 1..Len(content) /\ Len(content) \in Nat /\ s \in 1..Len(content)
      /\ \A t \in drain.left : drain.cur < t
  BY <1>1, CurIsFile DEF CoreInv, TypeOK, DiskType, DrainInv
<1>3. s # Len(content)
  BY <1>2
<1>4. s \in entries
  BY <1>1, <1>3 DEF CoreInv, WriterInv, QueueMirrorsDirectory, Unpushed
<1>5. s \in drain.left \/ s = drain.cur \/ drain.cur < s
  BY <1>1, <1>4 DEF OrderInv
<1> QED BY <1>2, <1>5

\* A post that may arrive late was the oldest of its credential, and stays it.
LEMMA StrayStep ==
  ASSUME CoreInv, OrderInv, StrayInv, [Next]_vars
  PROVE  StrayInv'
<1> DEFINE Old(p) == \A s \in files : s < p.serial => content[s].credential # p.credential
           Accounted(p) == p.serial \in files \/ Reached(p.serial) \/ dropped[p.serial] # "no"
           post == [serial |-> drain.cur, credential |-> credential]
<1>0. /\ Len(content) \in Nat /\ files \subseteq 1..Len(content) /\ stray \subseteq Posts
      /\ \A s \in 1..Len(content) : content'[s] = content[s]
  BY HistoryGrows DEF CoreInv, TypeOK, DiskType, WorldType
<1>1. ASSUME NEW p, p \in stray \/ (drain.pc = "post" /\ p = post)
      PROVE  /\ p.serial \in 1..Len(content)
             /\ \A s \in files : s < p.serial => content[s].credential # p.credential
             /\ p.serial \in files \/ Reached(p.serial) \/ dropped[p.serial] # "no"
  <2>1. CASE p \in stray
    BY <2>1 DEF StrayInv, CoreInv, NetworkInv
  <2>2. CASE drain.pc = "post" /\ p = post
    <3>1. drain.cur \in files /\ drain.cur \in 1..Len(content)
      BY <2>2, CurIsFile DEF Busy, CoreInv
    <3>2. \A s \in files : s < drain.cur => content[s].credential # credential
      BY <2>2, OrderKept DEF NoOvertaking, CoreInv, DrainInv
    <3> QED BY <2>2, <3>1, <3>2
  <2> QED BY <1>1, <2>1, <2>2
<1>2. ASSUME NEW p, p.serial \in 1..Len(content),
             p.serial \in files \/ Reached(p.serial) \/ dropped[p.serial] # "no"
      PROVE  p.serial \in files' \/ Reached(p.serial)' \/ dropped'[p.serial] # "no"
  BY <1>2, HistoryGrows
<1>3. ASSUME NEW p, p.serial \in 1..Len(content),
             \A s \in files : s < p.serial => content[s].credential # p.credential,
             files' \subseteq files \cup {Len(content)}
      PROVE  \A s \in files' : s < p.serial => content'[s].credential # p.credential
  <2> SUFFICES ASSUME NEW s \in files', s < p.serial
               PROVE  content'[s].credential # p.credential
    OBVIOUS
  <2>1. s # Len(content)
    BY <1>0, <1>3
  <2>2. s \in files
    BY <1>3, <2>1
  <2> QED BY <1>0, <1>3, <2>2
<1>4. files' \subseteq files \cup {Len(content)}
  BY OutboxSteps DEF WriteTemporary, RenameFile, DashboardTakes, PostTimeout, Crash, Unlink,
                     Restart, StrayArrives
<1>5. \A p \in stray' : p \in stray \/ (drain.pc = "post" /\ p = post)
  BY OutboxSteps DEF WriteTemporary, RenameFile, DashboardTakes, PostTimeout, Crash, Unlink,
                     Restart, StrayArrives
<1>6. ASSUME NEW p \in stray'
      PROVE  /\ \A s \in files' : s < p.serial => content'[s].credential # p.credential
             /\ p.serial \in files' \/ Reached(p.serial)' \/ dropped'[p.serial] # "no"
  BY <1>1, <1>2, <1>3, <1>4, <1>5
<1> QED BY <1>6 DEF StrayInv

LEMMA RelayInit == Init => RelayInv
<1> SUFFICES ASSUME Init PROVE RelayInv
  OBVIOUS
<1>1. /\ content = <<>> /\ received = <<>> /\ stray = {} /\ files = {} /\ stage = "none"
      /\ drain = Idle /\ faults = 0 /\ crashes = 0 /\ Len(content) = 0
      /\ request = [r \in Requests |-> Served(0)]
  BY DEF Init
<1>2. CoreInv
  BY CoreInit
<1>3. PromiseInv
  <2>1. \A r \in Requests : request[r].pc = "idle"
    BY <1>1 DEF Served
  <2> QED BY <2>1 DEF PromiseInv
<1>4. OrderInv /\ StrayInv /\ DuplicateInv
  BY <1>1 DEF OrderInv, StrayInv, DuplicateInv, Idle
<1>5. BoundInv /\ Len(content) <= MaxFiles
  BY <1>1, FS_EmptySet DEF BoundInv
<1> QED BY <1>2, <1>3, <1>4, <1>5 DEF RelayInv

\* The invariant of the relay is inductive.
THEOREM RelayInvariant == Spec => []RelayInv
<1>1. RelayInv /\ [Next]_vars => RelayInv'
  <2> SUFFICES ASSUME RelayInv, [Next]_vars PROVE RelayInv'
    OBVIOUS
  <2>1. CoreInv /\ CoreInv'
    BY TypeStep, WriterStep, ChainStep, DrainStep, NetworkStep DEF CoreInv, RelayInv
  <2>2. PromiseInv' /\ OrderInv' /\ BoundInv' /\ DuplicateInv' /\ StrayInv'
    BY <2>1, PromiseStep, OrderStep, BoundStep, DuplicateStep, StrayStep DEF RelayInv
  <2>3. Len(content') <= MaxFiles
    BY <2>1, BoundedStep DEF RelayInv
  <2> QED BY <2>1, <2>2, <2>3 DEF RelayInv
<1> QED BY <1>1, RelayInit, PTL DEF Spec

\* What the relay answered 200 for is kept: over crashes, retries, partly written exports.
THEOREM NothingAckedIsLost == Spec => []AckedIsKept
<1>1. RelayInv => AckedIsKept
  <2> SUFFICES ASSUME RelayInv, NEW r \in Requests, request[r].pc = "acked",
                      NEW b \in request[r].asked
               PROVE  Kept(b)
    BY DEF AckedIsKept
  <2> QED BY DEF RelayInv, PromiseInv
<1> QED BY <1>1, RelayInvariant, PTL

\* Order, duplicates and the limit of the directory.
THEOREM OutboxIsSafe == Spec => []OutboxHolds
<1>1. RelayInv => OutboxHolds
  <2> SUFFICES ASSUME RelayInv PROVE OutboxHolds
    OBVIOUS
  <2>1. NoOvertaking
    BY OrderKept DEF RelayInv
  <2>2. DirectoryBounded
    BY DEF RelayInv, BoundInv, DirectoryBounded
  <2>3. NoNeedlessDuplicate
    <3> SUFFICES ASSUME NEW s \in Serials
                 PROVE  Cardinality(Arrivals(s)) <= 1 + faults + crashes
      BY DEF NoNeedlessDuplicate, Arrivals
    <3>1. Sent(s) <= 1 + faults + crashes
      BY DEF RelayInv, DuplicateInv
    <3>2. /\ Cardinality(Arrivals(s)) \in Nat /\ Late(s) \in {0, 1}
          /\ Sent(s) = Cardinality(Arrivals(s)) + Late(s)
      BY ArrivalsType DEF RelayInv, CoreInv, Sent
    <3>3. faults \in Nat /\ crashes \in Nat
      BY DEF RelayInv, CoreInv, TypeOK, WorldType
    <3> QED BY <3>1, <3>2, <3>3
  <2> QED BY <2>1, <2>2, <2>3 DEF OutboxHolds
<1> QED BY <1>1, RelayInvariant, PTL

\* Every step of the relay is a step of the outbox it promises, or none.
LEMMA DeliveryStep ==
  ASSUME RelayInv, RelayInv', [Next]_vars
  PROVE  [Promise!Next]_Promise!vars
<1> DEFINE Waiting == {Owned(s) : s \in files}
           Taken == {Owned(s) : s \in {t \in Serials : Reached(t)}}
           Gone == {Owned(s) : s \in {t \in Serials : dropped[t] # "no"}}
           L == Len(content)
<1>0. /\ L \in Nat /\ L <= MaxFiles /\ content \in Seq(Entries) /\ files \subseteq 1..L
      /\ received \in Seq(Posts) /\ stray \subseteq Posts
      /\ dropped \in Seq(Reasons \cup {"no"}) /\ Len(dropped) = L
  BY DEF RelayInv, CoreInv, TypeOK, DiskType, WorldType
<1>1. /\ \A i \in DOMAIN received : received[i].serial \in 1..L
      /\ \A p \in stray : p.serial \in 1..L /\ p.credential = content[p.serial].credential
  BY DEF RelayInv, CoreInv, NetworkInv
<1>2. \A s \in 1..L : content'[s] = content[s] /\ Owned(s)' = Owned(s)
  BY HistoryGrows DEF RelayInv, Owned
<1>3. \A s : Owned(s).serial = s /\ Owned(s).owner = content[s].credential
  BY DEF Owned
<1>4. ASSUME Waiting' = Waiting, Taken' = Taken, Gone' = Gone PROVE UNCHANGED Promise!vars
  BY <1>4 DEF Promise!vars
<1>5. ASSUME NEW e \in [serial : 1..MaxFiles, owner : Credentials],
             \A k \in Waiting \cup Taken \cup Gone : k.serial < e.serial,
             Waiting' = Waiting \cup {e}, Taken' = Taken, Gone' = Gone
      PROVE  Promise!Next
  BY <1>5 DEF Promise!Next, Promise!Enqueue, Promise!Entries, Promise!Known
<1>6. ASSUME NEW e \in Waiting, \A k \in Waiting : k.owner = e.owner => e.serial <= k.serial,
             Waiting' = Waiting, Taken' = Taken \cup {e}, Gone' = Gone
      PROVE  Promise!Next
  BY <1>6 DEF Promise!Next, Promise!Deliver
<1>7. ASSUME NEW e \in Gone, Waiting' = Waiting, Taken' = Taken \cup {e}, Gone' = Gone
      PROVE  Promise!Next
  BY <1>7 DEF Promise!Next, Promise!DeliverLate
<1>8. ASSUME NEW e \in Waiting \cap Taken, Waiting' = Waiting \ {e}, Taken' = Taken, Gone' = Gone
      PROVE  Promise!Next
  BY <1>8 DEF Promise!Next, Promise!Leave
<1>9. ASSUME NEW S \in SUBSET Waiting, S # {}, Waiting' = Waiting \ S, Taken' = Taken,
             Gone' = Gone \cup S
      PROVE  Promise!Next
  BY <1>9 DEF Promise!Next, Promise!Discard
\* What follows from the parts of the outbox that a step leaves alone.
<1>10. ASSUME UNCHANGED files PROVE Waiting' = Waiting
  BY <1>0, <1>2, <1>10
<1>11. ASSUME UNCHANGED <<content, received>> PROVE Taken' = Taken
  BY <1>2, <1>11 DEF Reached
<1>12. ASSUME UNCHANGED <<content, dropped>> PROVE Gone' = Gone
  BY <1>2, <1>12
<1>13. CASE UNCHANGED <<content, files, dropped, received>>
  BY <1>4, <1>10, <1>11, <1>12, <1>13
<1>14. CASE PostTimeout \/ Crash
  BY <1>13, <1>14 DEF PostTimeout, Crash
<1>15. CASE WriteTemporary
  <2>1. UNCHANGED <<files, received>> /\ dropped' = Append(dropped, "no")
        /\ \E e : content' = Append(content, e)
    BY <1>15 DEF WriteTemporary
  <2>2. Len(content') = L + 1
    <3>1. PICK e : content' = Append(content, e)
      BY <2>1
    <3>2. content \in Seq(Entries \cup {e}) /\ e \in Entries \cup {e}
      BY <1>0
    <3> QED BY <3>1, <3>2
  <2>3. /\ \A s \in 1..L : dropped'[s] = dropped[s]
        /\ dropped'[L + 1] = "no"
    BY <1>0, <2>1
  <2>4. \A s : s \in 1..Len(content') /\ dropped'[s] # "no" <=> s \in 1..L /\ dropped[s] # "no"
    BY <1>0, <2>2, <2>3
  <2>5. Gone' = Gone
    BY <1>2, <2>4
  <2>6. \A s : s \in 1..Len(content') /\ Reached(s)' <=> s \in 1..L /\ Reached(s)
    BY <1>0, <1>1, <2>1, <2>2 DEF Reached
  <2>7. Taken' = Taken
    BY <1>2, <2>6
  <2> QED BY <1>4, <1>10, <2>1, <2>5, <2>7
<1>16. CASE RenameFile
  <2>1. /\ stage = "temp" /\ files' = files \cup {L} /\ UNCHANGED <<content, dropped, received>>
        /\ L \in 1..L /\ L \notin files /\ dropped[L] = "no"
    <3>1. /\ stage = "temp" /\ files' = files \cup {L} /\ UNCHANGED <<content, dropped, received>>
      BY <1>16 DEF RenameFile
    <3>2. L \notin files /\ dropped[L] = "no" /\ content # <<>>
      BY <3>1 DEF RelayInv, CoreInv, WriterInv
    <3>3. L \in 1..L
      BY <1>0, <3>2
    <3> QED BY <3>1, <3>2, <3>3
  <2>2. Owned(L) \in [serial : 1..MaxFiles, owner : Credentials]
    <3>1. content[L] \in Entries /\ L \in 1..MaxFiles
      BY <1>0, <2>1
    <3>2. content[L].credential \in Credentials
      BY <3>1 DEF Entries
    <3> QED BY <3>1, <3>2 DEF Owned
  <2>3. \A k \in Waiting \cup Taken \cup Gone : k.serial < L
    <3>1. \A s \in files : s < L
      BY <1>0, <2>1
    <3>2. \A s \in 1..L : Reached(s) => s < L
      <4>1. ~Reached(L)
        BY <2>1 DEF RelayInv, CoreInv, NetworkInv, Reached
      <4> QED BY <1>0, <4>1
    <3>3. \A s \in 1..L : dropped[s] # "no" => s < L
      BY <1>0, <2>1
    <3> QED BY <1>3, <3>1, <3>2, <3>3
  <2>4. Waiting' = Waiting \cup {Owned(L)}
    BY <1>0, <1>2, <2>1
  <2>5. Taken' = Taken /\ Gone' = Gone
    BY <1>11, <1>12, <2>1
  <2>6. Owned(L).serial = L
    BY <1>3
  <2> HIDE DEF Waiting, Taken, Gone
  <2> QED BY <1>5, <2>2, <2>3, <2>4, <2>5, <2>6
<1>17. ASSUME NEW p \in Posts, p.serial \in 1..L, received' = Append(received, p),
              UNCHANGED content
       PROVE  Taken' = Taken \cup {Owned(p.serial)}
  <2>1. \A s : Reached(s)' <=> Reached(s) \/ s = p.serial
    <3>1. /\ DOMAIN received = 1..Len(received) /\ Len(received) \in Nat
          /\ DOMAIN received' = 1..(Len(received) + 1)
          /\ \A i \in 1..Len(received) : received'[i] = received[i]
          /\ received'[Len(received) + 1] = p
      BY <1>0, <1>17
    <3> QED BY <3>1 DEF Reached
  <2>2. Taken' = {Owned(s) : s \in {t \in 1..L : Reached(t)'}}
    BY <1>2, <1>17
  <2>3. {t \in 1..L : Reached(t)'} = {t \in 1..L : Reached(t)} \cup {p.serial}
    BY <1>17, <2>1
  <2> QED BY <2>2, <2>3
<1>18. CASE DashboardTakes
  <2> DEFINE post == [serial |-> drain.cur, credential |-> credential]
  <2>1. /\ received' = Append(received, post) /\ post \in Posts /\ drain.cur \in files
        /\ drain.cur \in 1..L /\ drain.pc = "post" /\ content[drain.cur].credential = credential
        /\ UNCHANGED <<content, dropped, files>>
    BY <1>18, CurIsFile DEF DashboardTakes, Busy, RelayInv, CoreInv, DrainInv
  <2>2. Taken' = Taken \cup {Owned(drain.cur)}
    BY <1>17, <2>1
  <2>3. \A k \in Waiting : k.owner = Owned(drain.cur).owner => Owned(drain.cur).serial <= k.serial
    <3>1. \A s \in files : s < drain.cur => content[s].credential # content[drain.cur].credential
      BY <2>1, OrderKept DEF NoOvertaking, RelayInv
    <3>2. \A s \in files : content[s].credential = content[drain.cur].credential => drain.cur <= s
      BY <1>0, <2>1, <3>1
    <3> QED BY <1>3, <3>2
  <2>4. Owned(drain.cur) \in Waiting
    BY <2>1
  <2> HIDE DEF Waiting, Taken, Gone
  <2> QED BY <1>6, <1>10, <1>12, <2>1, <2>2, <2>3, <2>4
<1>19. ASSUME NEW p \in stray, StrayArrives(p) PROVE [Promise!Next]_Promise!vars
  <2>1. /\ received' = received \/ received' = Append(received, p)
        /\ p \in Posts /\ p.serial \in 1..L /\ p.credential = content[p.serial].credential
        /\ UNCHANGED <<content, dropped, files>>
    BY <1>0, <1>1, <1>19 DEF StrayArrives
  <2>2. CASE received' = received
    BY <1>13, <2>1, <2>2
  <2>3. CASE received' = Append(received, p)
    <3>1. Taken' = Taken \cup {Owned(p.serial)} /\ Waiting' = Waiting /\ Gone' = Gone
      BY <1>10, <1>12, <1>17, <2>1, <2>3
    <3>2. p.serial \in files \/ Reached(p.serial) \/ dropped[p.serial] # "no"
      BY DEF RelayInv, StrayInv
    <3>3. CASE p.serial \in files
      <4>1. \A s \in files : s < p.serial => content[s].credential # content[p.serial].credential
        BY <2>1 DEF RelayInv, StrayInv
      <4>2. \A s \in files : content[s].credential = content[p.serial].credential => p.serial <= s
        BY <1>0, <2>1, <4>1
      <4>3. \A k \in Waiting : k.owner = Owned(p.serial).owner => Owned(p.serial).serial <= k.serial
        BY <1>3, <4>2
      <4>4. Owned(p.serial) \in Waiting
        BY <3>3
      <4> HIDE DEF Waiting, Taken, Gone
      <4> QED BY <1>6, <3>1, <4>3, <4>4
    <3>4. CASE Reached(p.serial)
      <4>1. Owned(p.serial) \in Taken
        BY <2>1, <3>4
      <4> HIDE DEF Waiting, Taken, Gone
      <4> QED BY <1>4, <3>1, <4>1
    <3>5. CASE dropped[p.serial] # "no"
      <4>1. Owned(p.serial) \in Gone
        BY <2>1, <3>5
      <4> HIDE DEF Waiting, Taken, Gone
      <4> QED BY <1>7, <3>1, <4>1
    <3> QED BY <3>2, <3>3, <3>4, <3>5
  <2> QED BY <2>1, <2>2, <2>3
<1>20. CASE Unlink
  <2>1. /\ drain.cur \in files /\ drain.cur \in 1..L /\ files' = files \ {drain.cur}
        /\ UNCHANGED <<content, received>>
        /\ dropped' = IF drain.why = "delivered" THEN dropped
                      ELSE [dropped EXCEPT ![drain.cur] = drain.why]
        /\ drain.why \in Reasons \/ (drain.why = "delivered" /\ Reached(drain.cur))
    BY <1>20, CurIsFile DEF Unlink, Busy, RelayInv, CoreInv, DrainInv
  <2>2. Waiting' = Waiting \ {Owned(drain.cur)}
    <3>1. Waiting' = {Owned(s) : s \in files \ {drain.cur}}
      BY <1>0, <1>2, <2>1
    <3> QED BY <1>3, <3>1
  <2>3. Owned(drain.cur) \in Waiting
    BY <2>1
  <2>4. CASE drain.why = "delivered"
    <3>1. dropped' = dropped /\ Reached(drain.cur)
      BY <2>1, <2>4 DEF Reasons
    <3>2. Owned(drain.cur) \in Taken
      BY <2>1, <3>1
    <3>3. Taken' = Taken /\ Gone' = Gone
      BY <1>11, <1>12, <2>1, <3>1
    <3> HIDE DEF Waiting, Taken, Gone
    <3> QED BY <1>8, <2>2, <2>3, <3>2, <3>3
  <2>5. CASE drain.why # "delivered"
    <3>1. dropped'[drain.cur] # "no" /\ \A s \in 1..L : s # drain.cur => dropped'[s] = dropped[s]
      BY <1>0, <2>1, <2>5 DEF Reasons
    <3>2. Gone' = Gone \cup {Owned(drain.cur)}
      <4>1. Gone' = {Owned(s) : s \in {t \in 1..L : dropped'[t] # "no"}}
        BY <1>2, <2>1
      <4>2. {t \in 1..L : dropped'[t] # "no"} = {t \in 1..L : dropped[t] # "no"} \cup {drain.cur}
        BY <2>1, <3>1
      <4> QED BY <4>1, <4>2
    <3>3. Taken' = Taken
      BY <1>11, <2>1
    <3> HIDE DEF Waiting, Taken, Gone
    <3>4. {Owned(drain.cur)} \in SUBSET Waiting /\ {Owned(drain.cur)} # {}
      BY <2>3
    <3> QED BY <1>9, <2>2, <3>2, <3>3, <3>4
  <2> QED BY <2>4, <2>5
<1>21. CASE Restart
  <2>1. PICK damaged \in SUBSET files :
          /\ files' = files \ damaged
          /\ dropped' = [s \in 1..L |-> IF s \in damaged THEN "damaged" ELSE dropped[s]]
    BY <1>21 DEF Restart
  <2>2. UNCHANGED <<content, received>>
    BY <1>21 DEF Restart
  <2> DEFINE S == {Owned(s) : s \in damaged}
  <2>3. Waiting' = Waiting \ S
    <3>1. Waiting' = {Owned(s) : s \in files \ damaged}
      BY <1>0, <1>2, <2>1
    <3> QED BY <1>3, <3>1
  <2>4. Gone' = Gone \cup S
    <3>1. Gone' = {Owned(s) : s \in {t \in 1..L : dropped'[t] # "no"}}
      BY <1>2, <2>2
    <3>2. {t \in 1..L : dropped'[t] # "no"} = {t \in 1..L : dropped[t] # "no"} \cup damaged
      BY <1>0, <2>1
    <3> QED BY <3>1, <3>2
  <2>5. Taken' = Taken
    BY <1>11, <2>2
  <2>6. S \in SUBSET Waiting
    BY <2>1
  <2> HIDE DEF Waiting, Taken, Gone, S
  <2>7. CASE S = {}
    BY <1>4, <2>3, <2>4, <2>5, <2>7
  <2>8. CASE S # {}
    BY <1>9, <2>3, <2>4, <2>5, <2>6, <2>8
  <2> QED BY <2>7, <2>8
<1> QED BY <1>13, <1>14, <1>15, <1>16, <1>18, <1>19, <1>20, <1>21, OutboxSteps

\* The relay implements the outbox it promises.
THEOREM ImplementsItsPromise == Spec => ImplementsDelivery
<1>1. Init => Promise!Init
  <2> SUFFICES ASSUME Init PROVE Promise!Init
    OBVIOUS
  <2>1. files = {} /\ DOMAIN received = {} /\ Serials = {}
    BY DEF Init
  <2> QED BY <2>1 DEF Promise!Init
<1>2. RelayInv /\ RelayInv' /\ [Next]_vars => [Promise!Next]_Promise!vars
  BY DeliveryStep
<1> QED BY <1>1, <1>2, RelayInvariant, PTL DEF Spec, ImplementsDelivery, Promise!Spec

-----------------------------------------------------------------------------
(***************************************************************************)
(* The installer loses no setting of anybody else: a proof for any files,   *)
(* edits and number of installers, killed wherever they are.               *)
(*                                                                         *)
(* The argument.  What an installer has planned for a file is, but for its *)
(* own part, in the file, in a copy or was added in haste; once the file   *)
(* is exposed, that is copied or, if there was none, compared, everything  *)
(* in it is in a copy or was added in haste.  So a replacement drops       *)
(* nothing that is kept nowhere, and what another installer has planned    *)
(* for the same file stays covered, since all of the old content is.       *)
(***************************************************************************)

Contents == [ours : Options \union {None}, others : SUBSET Edits]
Phases == {"idle", "planning", "comparing", "checking", "checked", "copied", "done", "refused"}
Calls == [phase : Phases, at : Place, option : Options \union {None},
          planned : [Place -> Contents \union {None}], previous : [Place -> Contents \union {None}]]

SetupTypes ==
  /\ settings \in [Place -> Contents] /\ calls \in [Installers -> Calls]
  /\ backups \in SUBSET Contents /\ hasty \in SUBSET Edits

\* What does not depend on the files any more.
Saved(copies, late) == late \union UNION {b.others : b \in copies}

\* The plan of a call, against the files and what is saved.
CallHolds(call, current, saved) ==
  /\ call.phase = "idle" => call.at = 1
  /\ call.phase \in {"comparing", "checking", "checked", "copied"} => \A i \in Place : call.planned[i] # None
  /\ call.phase = "planning" => \A i \in Place : i < call.at => call.planned[i] # None
  /\ \A i \in Place : call.planned[i] # None => call.planned[i].others \subseteq current[i].others \union saved
  /\ Exposed(call) => current[call.at].others \subseteq saved

SetupInv == SetupTypes /\ \A c \in Installers : CallHolds(calls[c], settings, Saved(backups, hasty))

-----------------------------------------------------------------------------
(* Files and calls.                                                        *)

LEMMA PlaceType ==
  ASSUME SetupAssumption
  PROVE  Place = 1..Len(Files) /\ Len(Files) \in Nat /\ 1 \in Place
BY DEF SetupAssumption, Place

LEMMA CallType ==
  ASSUME SetupTypes, NEW c \in Installers
  PROVE  /\ calls[c] \in Calls /\ calls[c].at \in Place /\ calls[c].phase \in Phases
         /\ calls[c].option \in Options \union {None}
         /\ calls[c].planned \in [Place -> Contents \union {None}]
         /\ calls[c].previous \in [Place -> Contents \union {None}]
<1>1. calls[c] \in Calls
  BY DEF SetupTypes
<1> QED
  BY <1>1 DEF Calls

\* A call is as covered as it was when the files and what is saved together only grow.
LEMMA StillHolds ==
  ASSUME NEW call \in Calls, NEW current \in [Place -> Contents], NEW later \in [Place -> Contents],
         NEW saved, NEW more, CallHolds(call, current, saved), saved \subseteq more,
         \A i \in Place : current[i].others \subseteq later[i].others \union more,
         Exposed(call) => later[call.at].others \subseteq more
  PROVE  CallHolds(call, later, more)
BY DEF CallHolds

\* A step of one call that leaves the files alone.
LEMMA OneCall ==
  ASSUME SetupAssumption, SetupInv, NEW c \in Installers, NEW call \in Calls,
         calls' = [calls EXCEPT ![c] = call], settings' = settings, hasty' = hasty,
         backups' \in SUBSET Contents, backups \subseteq backups',
         CallHolds(call, settings, Saved(backups', hasty))
  PROVE  SetupInv'
<1>1. SetupTypes /\ \A d \in Installers : CallHolds(calls[d], settings, Saved(backups, hasty))
  BY DEF SetupInv
<1>2. Saved(backups, hasty) \subseteq Saved(backups', hasty)
  BY DEF Saved
<1>3. SetupTypes'
  BY <1>1 DEF SetupTypes
<1>4. calls \in [Installers -> Calls] /\ settings \in [Place -> Contents]
  BY <1>1 DEF SetupTypes
<1>5. ASSUME NEW d \in Installers PROVE CallHolds(calls'[d], settings, Saved(backups', hasty))
  <2>1. CASE d = c
    BY <1>4, <2>1
  <2>2. CASE d # c
    <3>1. calls'[d] = calls[d] /\ calls[d] \in Calls /\ CallHolds(calls[d], settings, Saved(backups, hasty))
      BY <1>1, <1>4, <2>2
    <3>2. Exposed(calls[d]) => settings[calls[d].at].others \subseteq Saved(backups', hasty)
      BY <1>2, <3>1 DEF CallHolds
    <3> QED
      BY <1>2, <1>4, <3>1, <3>2, StillHolds
  <2> QED
    BY <2>1, <2>2
<1> QED
  BY <1>3, <1>5 DEF SetupInv

-----------------------------------------------------------------------------
(* The steps of an installer that only read.                               *)

LEMMA SetupBegins == ASSUME SetupAssumption, SetupInit PROVE SetupInv
<1>1. NoCall \in Calls
  BY PlaceType DEF NoCall, Calls, Phases
<1>2. CallHolds(NoCall, settings, Saved(backups, hasty))
  BY DEF CallHolds, NoCall, Exposed
<1>3. SetupTypes
  BY <1>1 DEF SetupInit, SetupTypes, Contents, Nothing
<1> QED
  BY <1>2, <1>3 DEF SetupInv, SetupInit

LEMMA BeginStep == ASSUME SetupAssumption, SetupInv, NEW c \in Installers, Begin(c) PROVE SetupInv'
<1>1. SetupTypes /\ CallHolds(calls[c], settings, Saved(backups, hasty))
  BY DEF SetupInv
<1>2. PICK option \in Options : calls' = [calls EXCEPT ![c].phase = "planning", ![c].option = option]
  BY DEF Begin
<1> DEFINE call == [calls[c] EXCEPT !.phase = "planning", !.option = option]
<1>3. calls' = [calls EXCEPT ![c] = call]
  BY <1>1, <1>2 DEF SetupTypes
<1>4. calls[c] \in Calls /\ calls[c].phase = "idle"
  BY <1>1, CallType DEF Begin
<1>5. /\ call \in Calls /\ call.phase = "planning" /\ call.at = calls[c].at /\ call.planned = calls[c].planned
  BY <1>4 DEF Calls, Phases
<1> HIDE DEF call
<1>6. \A i \in Place : ~(i < 1)
  BY PlaceType
<1>7. CallHolds(call, settings, Saved(backups, hasty))
  BY <1>1, <1>4, <1>5, <1>6 DEF CallHolds, Exposed
<1>8. settings' = settings /\ hasty' = hasty /\ backups' = backups /\ backups \in SUBSET Contents
  BY <1>1 DEF Begin, SetupTypes
<1> QED
  BY <1>3, <1>5, <1>7, <1>8, OneCall

\* A file is read and planned: all that others have in it is in the plan.
LEMMA PlanStep == ASSUME SetupAssumption, SetupInv, NEW c \in Installers, Plan(c) PROVE SetupInv'
<1> DEFINE i == calls[c].at
<1>1. SetupTypes /\ CallHolds(calls[c], settings, Saved(backups, hasty))
  BY DEF SetupInv
<1>2. calls[c] \in Calls /\ i \in Place /\ calls[c].phase = "planning" /\ calls[c].planned \in [Place -> Contents \union {None}]
  BY <1>1, CallType DEF Plan
<1>3. settings' = settings /\ hasty' = hasty /\ backups' = backups /\ backups \in SUBSET Contents
  BY <1>1 DEF Plan, SetupTypes
<1>4. Merged(i, calls[c].option) \in Contents /\ Merged(i, calls[c].option).others = settings[i].others
  <2>1. settings[i] \in Contents /\ calls[c].option \in Options \union {None}
    BY <1>1, <1>2, CallType DEF SetupTypes
  <2> QED
    BY <2>1 DEF Merged, Contents
<1>5. CASE settings[i].others \intersect Unmanaged # {}
  <2> DEFINE call == [calls[c] EXCEPT !.phase = "refused"]
  <2>1. calls' = [calls EXCEPT ![c] = call]
    BY <1>5 DEF Plan
  <2>2. call \in Calls /\ call.phase = "refused" /\ call.planned = calls[c].planned
    BY <1>2 DEF Calls, Phases
  <2> HIDE DEF call
  <2>3. CallHolds(call, settings, Saved(backups, hasty))
    BY <1>1, <2>2 DEF CallHolds, Exposed
  <2> QED
    BY <1>3, <2>1, <2>2, <2>3, OneCall
<1>6. CASE ~(settings[i].others \intersect Unmanaged # {})
  <2> DEFINE merged == Merged(i, calls[c].option)
             call == [calls[c] EXCEPT !.planned[i] = merged, !.at = IF i = Len(Files) THEN 1 ELSE i + 1,
                                      !.phase = IF i = Len(Files) THEN "comparing" ELSE "planning"]
  <2>1. calls' = [calls EXCEPT ![c] = call]
    BY <1>6 DEF Plan
  <2>2. i = Len(Files) \/ i + 1 \in Place
    BY <1>2, PlaceType
  <2>3. merged \in Contents /\ merged.others = settings[i].others
    BY <1>4
  <2> HIDE DEF merged
  <2>4. call.planned = [calls[c].planned EXCEPT ![i] = merged]
    BY <1>2 DEF Calls
  <2>5. /\ call.phase = (IF i = Len(Files) THEN "comparing" ELSE "planning")
        /\ call.at = (IF i = Len(Files) THEN 1 ELSE i + 1)
    BY <1>2 DEF Calls
  <2>6. call \in Calls
    BY <1>2, <2>2, <2>3, PlaceType DEF Calls, Phases
  <2> HIDE DEF call
  <2>7. merged # None
    BY <2>3 DEF SetupAssumption, Contents
  <2>8. \A j \in Place : call.planned[j] = IF j = i THEN merged ELSE calls[c].planned[j]
    BY <1>2, <2>4
  <2>9. \A j \in Place : j < i => calls[c].planned[j] # None
    BY <1>1, <1>2 DEF CallHolds
  <2>10. \A j \in Place : (i = Len(Files) \/ j < i + 1) => call.planned[j] # None
    BY <1>2, <2>7, <2>8, <2>9, PlaceType
  <2>11. \A j \in Place : call.planned[j] # None => call.planned[j].others \subseteq settings[j].others \union Saved(backups, hasty)
    BY <1>1, <2>3, <2>8 DEF CallHolds
  <2>12. CallHolds(call, settings, Saved(backups, hasty))
    BY <2>5, <2>10, <2>11 DEF CallHolds, Exposed
  <2> QED
    BY <1>3, <2>1, <2>6, <2>12, OneCall
<1> QED
  BY <1>5, <1>6

\* The second reading, and the comparisons: the plan stays as it is.
LEMMA ReadStep ==
  ASSUME SetupAssumption, SetupInv, NEW c \in Installers, Compare(c) \/ Skip(c) \/ Check(c)
  PROVE  SetupInv'
<1>1. SetupTypes /\ CallHolds(calls[c], settings, Saved(backups, hasty))
  BY DEF SetupInv
<1>2. /\ calls[c] \in Calls /\ calls[c].at \in Place /\ calls[c].phase \in {"comparing", "checking"}
      /\ calls[c].previous \in [Place -> Contents \union {None}] /\ settings \in [Place -> Contents]
  BY <1>1, CallType DEF Compare, Skip, Check, SetupTypes
<1>3. settings' = settings /\ hasty' = hasty /\ backups' = backups /\ backups \in SUBSET Contents
  BY <1>1 DEF Compare, Skip, Check, SetupTypes
<1>4. calls[c].at = Len(Files) \/ calls[c].at + 1 \in Place
  BY <1>2, PlaceType
<1>5. \E call \in Calls : /\ calls' = [calls EXCEPT ![c] = call] /\ call.planned = calls[c].planned
                          /\ call.phase \in {"comparing", "checking", "checked", "refused", "done"}
                          /\ Exposed(call) => settings[call.at].others = {}
  <2>1. CASE Compare(c)
    <3> DEFINE i == calls[c].at
               call == [calls[c] EXCEPT !.previous[i] = settings[i], !.at = IF i = Len(Files) THEN 1 ELSE i + 1,
                                        !.phase = IF i = Len(Files) THEN "checking" ELSE "comparing"]
    <3>1. calls' = [calls EXCEPT ![c] = call]
      BY <1>1, <2>1 DEF Compare, SetupTypes
    <3>2. call \in Calls /\ call.planned = calls[c].planned /\ call.phase \in {"checking", "comparing"}
      BY <1>2, <1>4, PlaceType DEF Calls, Phases
    <3> QED
      BY <3>1, <3>2 DEF Exposed
  <2>2. CASE Skip(c)
    <3> DEFINE call == After(calls[c], calls[c].at)
    <3>1. calls' = [calls EXCEPT ![c] = call]
      BY <1>1, <2>2 DEF Skip, SetupTypes
    <3>2. call \in Calls /\ call.planned = calls[c].planned /\ call.phase \in {"checking", "done"}
      BY <1>2, <1>4 DEF Calls, Phases, After
    <3> QED
      BY <3>1, <3>2 DEF Exposed
  <2>3. CASE Check(c)
    <3> DEFINE call == [calls[c] EXCEPT !.phase = IF settings[calls[c].at] = calls[c].previous[calls[c].at] THEN "checked" ELSE "refused"]
    <3>1. calls' = [calls EXCEPT ![c] = call]
      BY <1>1, <2>3 DEF Check, SetupTypes
    <3>2. call \in Calls /\ call.planned = calls[c].planned /\ call.phase \in {"checked", "refused"}
      BY <1>2 DEF Calls, Phases
    <3>3. Exposed(call) => settings[call.at].others = {}
      <4>1. /\ call.at = calls[c].at /\ call.previous = calls[c].previous
            /\ call.phase = "checked" => settings[calls[c].at] = calls[c].previous[calls[c].at]
        BY <1>2 DEF Calls
      <4> HIDE DEF call
      <4>2. Nothing.others = {}
        BY DEF Nothing
      <4> QED
        BY <3>2, <4>1, <4>2 DEF Exposed
    <3> QED
      BY <3>1, <3>2, <3>3
  <2> QED
    BY <2>1, <2>2, <2>3
<1>6. PICK call \in Calls : /\ calls' = [calls EXCEPT ![c] = call] /\ call.planned = calls[c].planned
                            /\ call.phase \in {"comparing", "checking", "checked", "refused", "done"}
                            /\ Exposed(call) => settings[call.at].others = {}
  BY <1>5
<1>7. CallHolds(call, settings, Saved(backups, hasty))
  BY <1>1, <1>2, <1>6 DEF CallHolds
<1> QED
  BY <1>3, <1>6, <1>7, OneCall

-----------------------------------------------------------------------------
(* The steps that copy, replace, edit and kill.                            *)

\* From its copy on, what is in a file is kept elsewhere.
LEMMA CopyStep == ASSUME SetupAssumption, SetupInv, NEW c \in Installers, Copy(c) PROVE SetupInv'
<1> DEFINE call == [calls[c] EXCEPT !.phase = "copied"]
           i == calls[c].at
<1>1. SetupTypes /\ CallHolds(calls[c], settings, Saved(backups, hasty))
  BY DEF SetupInv
<1>2. calls[c] \in Calls /\ i \in Place /\ calls[c].phase = "checked" /\ settings[i] \in Contents
  BY <1>1, CallType DEF Copy, SetupTypes
<1>3. /\ settings' = settings /\ hasty' = hasty /\ calls' = [calls EXCEPT ![c] = call]
      /\ \/ calls[c].previous[i] = Nothing /\ backups' = backups
         \/ backups' = backups \union {settings[i]}
  BY <1>1 DEF Copy, SetupTypes
<1>4. call \in Calls /\ call.phase = "copied" /\ call.at = i /\ call.planned = calls[c].planned
  BY <1>2 DEF Calls, Phases
<1>5. backups' \in SUBSET Contents /\ backups \subseteq backups'
  BY <1>1, <1>2, <1>3 DEF SetupTypes
<1>6. Saved(backups, hasty) \subseteq Saved(backups', hasty)
  BY <1>5 DEF Saved
<1>7. settings[i].others \subseteq Saved(backups', hasty)
  <2>1. CASE calls[c].previous[i] = Nothing /\ backups' = backups
    <3>1. Exposed(calls[c])
      BY <1>2, <2>1 DEF Exposed
    <3> QED
      BY <1>1, <2>1, <3>1 DEF CallHolds
  <2>2. CASE backups' = backups \union {settings[i]}
    BY <2>2 DEF Saved
  <2> QED
    BY <1>3, <2>1, <2>2
<1> HIDE DEF call, i
<1>8. CallHolds(call, settings, Saved(backups', hasty))
  BY <1>1, <1>2, <1>4, <1>6, <1>7 DEF CallHolds
<1> QED
  BY <1>3, <1>4, <1>5, <1>8, OneCall

\* What a replacement drops is kept elsewhere; so is what another call has planned.
LEMMA ReplaceStep ==
  ASSUME SetupAssumption, SetupInv, NEW c \in Installers, Replace(c)
  PROVE  /\ SetupInv'
         /\ \A i \in Place : settings[i].others \subseteq settings'[i].others \union Saved(backups', hasty')
<1> DEFINE i == calls[c].at
           call == After(calls[c], i)
           saved == Saved(backups, hasty)
<1>1. SetupTypes /\ \A d \in Installers : CallHolds(calls[d], settings, saved)
  BY DEF SetupInv
<1>2. /\ calls[c] \in Calls /\ i \in Place /\ calls[c].phase = "copied"
      /\ calls[c].planned \in [Place -> Contents \union {None}] /\ settings \in [Place -> Contents]
  BY <1>1, CallType DEF Replace, SetupTypes
<1>3. /\ settings' = [settings EXCEPT ![i] = calls[c].planned[i]] /\ calls' = [calls EXCEPT ![c] = call]
      /\ UNCHANGED <<backups, hasty>>
  BY DEF Replace
<1>4. i = Len(Files) \/ i + 1 \in Place
  BY <1>2, PlaceType
<1>5. call \in Calls /\ call.planned = calls[c].planned /\ call.phase \in {"checking", "done"}
  BY <1>2, <1>4 DEF Calls, Phases, After
<1>6. /\ calls[c].planned[i] \in Contents /\ settings[i].others \subseteq saved
      /\ calls[c].planned[i].others \subseteq settings[i].others \union saved
  BY <1>1, <1>2 DEF CallHolds, Exposed
<1> HIDE DEF call, i
<1>7. /\ settings' \in [Place -> Contents]
      /\ \A j \in Place : settings'[j] = IF j = i THEN calls[c].planned[j] ELSE settings[j]
  BY <1>2, <1>3, <1>6
<1>8. \A j \in Place : /\ settings[j].others \subseteq settings'[j].others \union saved
                       /\ settings'[j].others \subseteq settings[j].others \union saved
  BY <1>6, <1>7
<1>9. SetupTypes'
  BY <1>1, <1>3, <1>5, <1>7 DEF SetupTypes
<1>10. Saved(backups', hasty') = saved
  BY <1>3
<1> HIDE DEF saved
<1>11. ASSUME NEW d \in Installers PROVE CallHolds(calls'[d], settings', saved)
  <2>1. CallHolds(calls[d], settings, saved) /\ calls \in [Installers -> Calls] /\ calls[d] \in Calls /\ calls[d].at \in Place
    BY <1>1, CallType DEF SetupTypes
  <2>2. CASE d = c
    <3>1. calls'[d] = call
      BY <1>3, <2>1, <2>2
    <3>2. CallHolds(calls[c], settings, saved)
      BY <1>1
    <3>3. CallHolds(call, settings', saved)
      BY <1>2, <1>5, <1>8, <3>2 DEF CallHolds, Exposed
    <3> QED
      BY <3>1, <3>3
  <2>3. CASE d # c
    <3>1. calls'[d] = calls[d]
      BY <1>3, <2>1, <2>3
    <3>2. Exposed(calls[d]) => settings'[calls[d].at].others \subseteq saved
      BY <1>8, <2>1 DEF CallHolds
    <3>3. CallHolds(calls[d], settings', saved)
      BY <1>2, <1>7, <1>8, <2>1, <3>2, StillHolds
    <3> QED
      BY <3>1, <3>3
  <2> QED
    BY <2>2, <2>3
<1> QED
  BY <1>8, <1>9, <1>10, <1>11 DEF SetupInv

\* An edit grows a file, in haste if the file is looked at no more.
LEMMA EditStep == ASSUME SetupAssumption, SetupInv, Edit PROVE SetupInv' /\ \A i \in Place : settings[i].others \subseteq settings'[i].others
<1>1. SetupTypes /\ \A d \in Installers : CallHolds(calls[d], settings, Saved(backups, hasty))
  BY DEF SetupInv
<1>2. PICK i \in Place, e \in Edits :
        /\ settings' = [settings EXCEPT ![i].others = @ \union {e}]
        /\ hasty' = IF \E c \in Installers : Exposed(calls[c]) /\ calls[c].at = i THEN hasty \union {e} ELSE hasty
  BY DEF Edit
<1>3. UNCHANGED <<calls, backups>>
  BY DEF Edit
<1>4. settings \in [Place -> Contents] /\ calls \in [Installers -> Calls]
  BY <1>1 DEF SetupTypes
<1> DEFINE edited == [settings[i] EXCEPT !.others = @ \union {e}]
<1>5. edited \in Contents /\ edited.others = settings[i].others \union {e}
  BY <1>4 DEF Contents
<1>6. settings' = [settings EXCEPT ![i] = edited]
  BY <1>2, <1>4
<1> HIDE DEF edited
<1>7. settings' \in [Place -> Contents] /\ \A j \in Place : settings'[j].others = IF j = i THEN settings[j].others \union {e} ELSE settings[j].others
  BY <1>4, <1>5, <1>6
<1>8. SetupTypes'
  BY <1>1, <1>2, <1>3, <1>7 DEF SetupTypes
<1>9. Saved(backups, hasty) \subseteq Saved(backups', hasty')
  BY <1>2, <1>3 DEF Saved
<1>10. ASSUME NEW c \in Installers PROVE CallHolds(calls'[c], settings', Saved(backups', hasty'))
  <2>1. calls[c] \in Calls /\ CallHolds(calls[c], settings, Saved(backups, hasty)) /\ calls'[c] = calls[c] /\ calls[c].at \in Place
    BY <1>1, <1>3, CallType
  <2>2. Exposed(calls[c]) /\ calls[c].at = i => e \in Saved(backups', hasty')
    BY <1>2 DEF Saved
  <2>3. Exposed(calls[c]) => settings'[calls[c].at].others \subseteq Saved(backups', hasty')
    <3>1. Exposed(calls[c]) => settings[calls[c].at].others \subseteq Saved(backups', hasty')
      BY <1>9, <2>1 DEF CallHolds
    <3>2. settings'[calls[c].at].others = IF calls[c].at = i THEN settings[calls[c].at].others \union {e} ELSE settings[calls[c].at].others
      BY <1>7, <2>1
    <3> QED
      BY <2>2, <3>1, <3>2
  <2>4. \A j \in Place : settings[j].others \subseteq settings'[j].others \union Saved(backups', hasty')
    BY <1>7
  <2> QED
    BY <1>4, <1>7, <1>9, <2>1, <2>3, <2>4, StillHolds
<1> QED
  BY <1>7, <1>8, <1>10 DEF SetupInv

LEMMA KillStep == ASSUME SetupAssumption, SetupInv, NEW c \in Installers, Kill(c) PROVE SetupInv'
<1>1. SetupTypes /\ NoCall \in Calls
  BY PlaceType DEF SetupInv, NoCall, Calls, Phases
<1>2. CallHolds(NoCall, settings, Saved(backups, hasty))
  BY DEF CallHolds, NoCall, Exposed
<1>3. /\ calls' = [calls EXCEPT ![c] = NoCall] /\ settings' = settings /\ hasty' = hasty /\ backups' = backups
      /\ backups \in SUBSET Contents
  BY <1>1 DEF Kill, SetupTypes
<1> QED
  BY <1>1, <1>2, <1>3, OneCall

-----------------------------------------------------------------------------
(* The theorems.                                                           *)

\* What a step drops from a file is in a copy of it, or was added in haste.
LEMMA SetupStep ==
  ASSUME SetupAssumption, SetupInv, [SetupNext]_settingsVars
  PROVE  /\ SetupInv'
         /\ \A i \in Place : settings[i].others \subseteq settings'[i].others \union Saved(backups', hasty)
<1>1. CASE Edit
  BY <1>1, EditStep
<1>2. ASSUME NEW c \in Installers, Replace(c)
      PROVE  SetupInv' /\ \A i \in Place : settings[i].others \subseteq settings'[i].others \union Saved(backups', hasty)
  <2>1. hasty' = hasty
    BY <1>2 DEF Replace
  <2> QED
    BY <1>2, <2>1, ReplaceStep
<1>3. ASSUME NEW c \in Installers, Begin(c) \/ Plan(c) \/ Compare(c) \/ Skip(c) \/ Check(c) \/ Copy(c) \/ Kill(c)
      PROVE  SetupInv' /\ settings' = settings
  <2>1. settings' = settings
    BY <1>3 DEF Begin, Plan, Compare, Skip, Check, Copy, Kill
  <2> QED
    BY <1>3, <2>1, BeginStep, PlanStep, ReadStep, CopyStep, KillStep
<1>4. CASE UNCHANGED settingsVars
  BY <1>4 DEF settingsVars, SetupInv, SetupTypes
<1> QED
  BY <1>1, <1>2, <1>3, <1>4 DEF SetupNext, Step, settingsVars

\* What an installer has planned and copied, against the files of the moment, at every step of
\* every call of setup.
THEOREM SetupInvariant == SetupSpec => []SetupInv
<1> USE SetupHypothesis
<1>1. SetupInit => SetupInv
  BY SetupBegins
<1>2. SetupInv /\ [SetupNext]_settingsVars => SetupInv'
  BY SetupStep
<1> QED
  BY <1>1, <1>2, PTL DEF SetupSpec

\* A setting of somebody else that a step drops from its file is in a backup, unless it was
\* added between the copy and the replacement, or to a file still absent at the last
\* comparison between that and the replacement (setup.mjs:313-324).
THEOREM SettingsAreKept == SetupSpec => EditsAreKept
<1> USE SetupHypothesis
<1> DEFINE Stays == \A i \in Place :
       \A e \in settings[i].others \ hasty :
         e \in settings'[i].others \/ \E b \in backups' : e \in b.others
<1>1. SetupInv /\ [SetupNext]_settingsVars => [Stays]_settingsVars
  BY SetupStep DEF Saved
<1>2. SetupSpec => [][Stays]_settingsVars
  BY <1>1, SetupInvariant, PTL DEF SetupSpec
<1> QED
  BY <1>2 DEF EditsAreKept

HIDE RelayAssumption DEF RelayAssumption, world, network, disk, intake, budgets, Serials

-----------------------------------------------------------------------------
(***************************************************************************)
(* The session table.                                                      *)
(***************************************************************************)

\* The serials a copy of the table was written after: the answered ones and
\* those whose writes come up to it in the chain.  Copy 0 is the file.
Told(i) == answered \union {saves[j].serial : j \in 1..i}
CopyTable(i) == IF i = 0 THEN sessionFile.table ELSE saves[i].table
CopyDashboard(i) == IF i = 0 THEN sessionFile.dashboard ELSE saves[i].dashboard

\* While nothing changed since its hook, an entry leads to its project.
Leads(s) ==
  heard[s.serial].epoch = epoch => s.project \in selection.projects /\ StillBound(s, selection)

\* An entry is what the hook of its serial named under that dashboard.
Identified(table, dashboard) ==
  \A s \in table :
    /\ s.serial \in DOMAIN heard
    /\ s.key = heard[s.serial].key /\ s.project = heard[s.serial].project
    /\ s.at = heard[s.serial].at /\ heard[s.serial].dashboard = dashboard
    /\ Leads(s)

\* No hook that was told of is newer than the entry of its session.
Newest(table, told) == \A s \in table, m \in told : heard[m].key = s.key => m <= s.serial

\* A hook that was told of and is still known is in the table.
Keeps(table, told) == \A n \in told : Known(n) => \E s \in table : s.serial = n

CopyInv(i) ==
  /\ Identified(CopyTable(i), CopyDashboard(i))
  /\ Newest(CopyTable(i), Told(i))
  /\ Keeps(CopyTable(i), Told(i))
  /\ \A n \in Told(i) : Known(n) => CopyDashboard(i) = selection.dashboard

MemoryInv ==
  /\ Identified(relay.table, relay.fitted.dashboard)
  /\ Newest(relay.table, Told(Len(saves)))
  /\ relay.up => Keeps(relay.table, Told(Len(saves)))
  /\ relay.up => \A n \in Told(Len(saves)) : Known(n) => relay.fitted = selection
  /\ relay.up \/ saves = <<>>

HistoryInv ==
  /\ \A n \in DOMAIN heard : heard[n].epoch <= epoch
  /\ \A i \in DOMAIN saves : saves[i].serial \in DOMAIN heard

TableInv == TableTypeOK /\ HistoryInv /\ MemoryInv /\ \A i \in 0..Len(saves) : CopyInv(i)

LEMMA PartOfTable ==
  ASSUME NEW T, IsTable(T), NEW S \in SUBSET T
  PROVE  IsTable(S)
<1>1. IsFiniteSet(S) /\ Cardinality(S) <= Cardinality(T)
  BY FS_Subset DEF IsTable
<1>2. Cardinality(S) \in Nat /\ Cardinality(T) \in Nat
  BY <1>1, FS_CardinalityType DEF IsTable
<1> QED BY <1>1, <1>2, TableAssumption DEF IsTable, TableAssumption

LEMMA FittedIsTable ==
  ASSUME TableTypeOK, NEW p
  PROVE  Fitted(p) \in SUBSET relay.table /\ IsTable(Fitted(p))
<1>1. Fitted(p) \in SUBSET relay.table
  BY DEF Fitted
<1> QED BY <1>1, PartOfTable DEF TableTypeOK

\* The repository a directory leads to is one that the policy selects.
LEMMA SelectedIsSelected ==
  ASSUME TableTypeOK, NEW dir \in Dirs, NEW p \in PolicyFiles, SelectedRepository(dir, p) # None
  PROVE  SelectedRepository(dir, p) \in p.projects /\ SelectedRepository(dir, p) \in Dirs
<1>1. SelectedCheckouts(dir, p) \subseteq p.projects
  BY DEF SelectedCheckouts
<1>2. SelectedRepository(dir, p) \in SelectedCheckouts(dir, p)
  BY DEF SelectedRepository
<1> QED BY <1>1, <1>2 DEF PolicyFiles

LEMMA BindingType ==
  ASSUME TableTypeOK, NEW key \in Keys, NEW dir \in Dirs, SelectedRepository(dir, selection) # None
  PROVE  /\ Binding(key, dir) \in SessionBindings
         /\ Binding(key, dir).key = key /\ Binding(key, dir).at = now
         /\ Binding(key, dir).project = SelectedRepository(dir, selection)
         /\ Binding(key, dir).serial = Len(heard) + 1
         /\ StillBound(Binding(key, dir), selection)
<1>1. SelectedRepository(dir, selection) \in Dirs
  BY SelectedIsSelected DEF TableTypeOK
<1>2. Len(heard) + 1 \in Nat \ {0} /\ now \in Nat
  BY DEF TableTypeOK
<1>3. Binding(key, dir) \in SessionBindings
  BY <1>1, <1>2 DEF Binding, SessionBindings
<1> QED BY <1>3 DEF Binding, StillBound

LEMMA LeastSerial ==
  ASSUME NEW N \in SUBSET Nat, N # {}
  PROVE  \E m \in N : \A k \in N : m <= k
<1> DEFINE R == {ss \in Nat \X Nat : ss[1] < ss[2]}
<1>1. IsWellFoundedOn(R, Nat)
  BY NatLessThanWellFounded DEF OpToRel
<1>2. PICK m \in N : \A k \in N : <<k, m>> \notin R
  <2> HIDE DEF R
  <2> QED BY <1>1, WFMin
<1>3. \A k \in N : k < m => <<k, m>> \in R
  OBVIOUS
<1>4. \A k \in N : ~ (k < m) /\ k \in Nat /\ m \in Nat
  <2> HIDE DEF R
  <2> QED BY <1>2, <1>3
<1> QED BY <1>4

\* Removing the oldest entry of a table of one too many fits it again.
LEMMA BoundedFits ==
  ASSUME NEW T, IsTable(T), NEW b \in SessionBindings, \A s \in T : s.key # b.key /\ s.serial # b.serial,
         \A s, t \in T : s.serial = t.serial => s = t
  PROVE  IsTable(Bounded(T \union {b}))
<1> DEFINE U == T \union {b}
<1>1. IsFiniteSet(U) /\ Cardinality(U) = Cardinality(T) + 1 /\ Cardinality(T) \in Nat
  BY FS_AddElement, FS_CardinalityType DEF IsTable
<1>2. U \subseteq SessionBindings /\ \A s, t \in U : s.key = t.key => s = t
  BY DEF IsTable
<1>3. CASE Cardinality(U) <= MaxSessions
  <2>1. Bounded(U) = U
    BY <1>1, <1>3, TableAssumption DEF Bounded, TableAssumption
  <2>2. IsTable(U)
    BY <1>1, <1>2, <1>3 DEF IsTable
  <2> QED BY <2>1, <2>2
<1>4. CASE Cardinality(U) > MaxSessions
  <2>1. PICK old \in U : \A t \in U : old.serial <= t.serial
    <3> DEFINE N == {s.serial : s \in U}
    <3>1. N \subseteq Nat /\ N # {}
      BY <1>2 DEF SessionBindings
    <3>2. PICK m \in N : \A k \in N : m <= k
      BY <3>1, LeastSerial
    <3> QED BY <3>2
  <2>2. Bounded(U) \subseteq U \ {old} /\ IsFiniteSet(U \ {old}) /\ Cardinality(U \ {old}) = Cardinality(T)
    BY <1>1, <1>4, <2>1, FS_RemoveElement DEF Bounded, Oldest, IsTable
  <2>3. IsTable(U \ {old})
    <3>1. Cardinality(T) <= MaxSessions
      BY DEF IsTable
    <3>2. U \ {old} \subseteq SessionBindings /\ \A s, t \in U \ {old} : s.key = t.key => s = t
      BY <1>2
    <3> QED BY <2>2, <3>1, <3>2 DEF IsTable
  <2> QED BY <2>2, <2>3, PartOfTable
<1> QED BY <1>1, <1>3, <1>4, TableAssumption DEF TableAssumption

\* What a hook leaves in the table: no other entry of its session, and its own
\* when it names a selected project.
LEMMA ActivityTable ==
  ASSUME TableInv, relay.up, NEW key \in Keys, NEW dir \in Dirs
  PROVE  /\ IsTable(Activity(key, dir))
         /\ Activity(key, dir) \subseteq Without(relay.table, key) \union {Binding(key, dir)}
         /\ SelectedRepository(dir, selection) = None => Activity(key, dir) \subseteq Without(relay.table, key)
<1> DEFINE W == Without(Fitted(selection), key)
<1>1. W \in SUBSET Fitted(selection) /\ IsTable(Fitted(selection)) /\ Fitted(selection) \subseteq relay.table
  BY FittedIsTable DEF Without, TableInv
<1>2. IsTable(W) /\ W \subseteq Without(relay.table, key)
  BY <1>1, PartOfTable DEF Without
<1>3. CASE SelectedRepository(dir, selection) = None
  BY <1>2, <1>3 DEF Activity
<1>4. CASE SelectedRepository(dir, selection) # None
  <2>1. Activity(key, dir) = Bounded(W \union {Binding(key, dir)})
    BY <1>4 DEF Activity
  <2>2. /\ Binding(key, dir) \in SessionBindings /\ Binding(key, dir).key = key
        /\ Binding(key, dir).serial = Len(heard) + 1
    BY <1>4, BindingType DEF TableInv
  <2>3. \A s \in relay.table : s.serial \in DOMAIN heard /\ s.key = heard[s.serial].key
    BY DEF TableInv, MemoryInv, Identified
  <2>4. DOMAIN heard = 1..Len(heard) /\ Len(heard) \in Nat
    BY DEF TableInv, TableTypeOK
  <2>5. \A s \in W : s.key # key /\ s.serial # Len(heard) + 1
    BY <1>2, <2>3, <2>4 DEF Without
  <2>6. \A s, t \in W : s.serial = t.serial => s = t
    BY <1>2, <2>3 DEF IsTable, Without
  <2>7. IsTable(Bounded(W \union {Binding(key, dir)}))
    BY <1>2, <2>2, <2>5, <2>6, BoundedFits
  <2> QED BY <1>2, <1>4, <2>1, <2>7 DEF Bounded
<1> QED BY <1>3, <1>4

\* Types.
LEMMA TableTypeStep ==
  ASSUME TableInv, [TableNext]_tableVars
  PROVE  TableTypeOK'
<1> USE DEF TableTypeOK, TableInv
<1> DEFINE Saves == [table : SUBSET SessionBindings, dashboard : Origins, serial : Nat \ {0}]
<1>1. ASSUME UNCHANGED <<relay, saves, sessionFile, heard, answered, tree>>, commands' \subseteq PolicyFiles,
             UNCHANGED selection \/ (selection' \in PolicyFiles /\ Valid(selection)'),
             now' \in Nat, epoch' \in Nat
      PROVE  TableTypeOK'
  BY <1>1 DEF IsTable, Valid
<1>2. CASE ConfigureProjects
  <2>1. \A d, project \in Dirs :
          /\ Allow(selection, d) \subseteq PolicyFiles /\ Deselect(selection, d) \subseteq PolicyFiles
          /\ Unbind(selection, d) \subseteq PolicyFiles /\ BindWorkspace(selection, d, project) \subseteq PolicyFiles
    <3> SUFFICES ASSUME NEW d \in Dirs, NEW project \in Dirs
                 PROVE  /\ Allow(selection, d) \subseteq PolicyFiles /\ Deselect(selection, d) \subseteq PolicyFiles
                        /\ Unbind(selection, d) \subseteq PolicyFiles
                        /\ BindWorkspace(selection, d, project) \subseteq PolicyFiles
      OBVIOUS
    <3>1. selection.projects \subseteq Dirs /\ selection.bindings \subseteq Dirs \X Dirs
      BY DEF PolicyFiles
    <3>2. \A ps \in SUBSET Dirs, bs \in SUBSET (Dirs \X Dirs) :
            /\ [selection EXCEPT !.projects = ps] \in PolicyFiles
            /\ [selection EXCEPT !.bindings = bs] \in PolicyFiles
            /\ [selection EXCEPT !.projects = ps, !.bindings = bs] \in PolicyFiles
      BY DEF PolicyFiles
    <3>3. Allow(selection, d) \subseteq PolicyFiles
      BY <3>1, <3>2 DEF Allow
    <3>4. Deselect(selection, d) \subseteq PolicyFiles
      <4>1. selection.projects \ {d} \in SUBSET Dirs
        BY <3>1
      <4>2. {b \in selection.bindings : b[2] \in selection.projects \ {d}} \in SUBSET (Dirs \X Dirs)
        BY <3>1
      <4> QED BY <3>2, <4>1, <4>2 DEF Deselect
    <3>5. Unbind(selection, d) \subseteq PolicyFiles
      <4>1. {b \in selection.bindings : b[1] # d} \in SUBSET (Dirs \X Dirs)
        BY <3>1
      <4> QED BY <3>2, <4>1 DEF Unbind
    <3>6. BindWorkspace(selection, d, project) \subseteq PolicyFiles
      <4>1. {b \in selection.bindings : b[1] # d} \union {<<d, project>>} \in SUBSET (Dirs \X Dirs)
        BY <3>1
      <4> QED BY <3>2, <4>1 DEF BindWorkspace
    <3> QED BY <3>3, <3>4, <3>5, <3>6
  <2>2. PICK d, project \in Dirs :
          \E next \in Allow(selection, d) \union Deselect(selection, d) \union Unbind(selection, d)
                        \union BindWorkspace(selection, d, project) : commands' = commands \union {next}
    BY <1>2 DEF ConfigureProjects
  <2>3. PICK next \in PolicyFiles : commands' = commands \union {next}
    BY <2>1, <2>2
  <2>4. commands' \subseteq PolicyFiles
    BY <2>3
  <2> QED BY <1>1, <1>2, <2>4 DEF ConfigureProjects
<1>3. CASE ConfigureDashboard
  <2>1. \A d \in Origins : Redirect(selection, d) \subseteq PolicyFiles
    BY DEF Redirect, PolicyFiles
  <2>2. commands' \subseteq PolicyFiles
    BY <1>3, <2>1 DEF ConfigureDashboard
  <2> QED BY <1>1, <1>3, <2>2 DEF ConfigureDashboard
<1>4. CASE WritePolicy
  BY <1>1, <1>4 DEF WritePolicy, Valid
<1>5. CASE ChangeTree
  <2>1. tree' \in [Dirs -> Repositories \union {None}]
    BY <1>5 DEF ChangeTree
  <2> QED BY <1>5, <2>1 DEF ChangeTree, Valid
<1>6. CASE Hook
  <2>1. PICK key \in Keys, dir \in Dirs :
          /\ relay' = [relay EXCEPT !.table = Activity(key, dir), !.fitted = selection]
          /\ saves' = Append(saves, [table |-> Activity(key, dir), dashboard |-> selection.dashboard,
                                     serial |-> Len(heard) + 1])
          /\ heard' = Append(heard, [key |-> key, project |-> SelectedRepository(dir, selection),
                                     dashboard |-> selection.dashboard, at |-> now, epoch |-> epoch])
    BY <1>6 DEF Hook
  <2>2. IsTable(Activity(key, dir)) /\ Activity(key, dir) \subseteq SessionBindings
    BY <1>6, ActivityTable DEF Hook, IsTable
  <2>3. SelectedRepository(dir, selection) \in Dirs \union {None}
    BY SelectedIsSelected
  <2>4. selection.dashboard \in Origins
    BY DEF PolicyFiles
  <2>5. heard' \in Seq(Claims) /\ DOMAIN heard \subseteq DOMAIN heard'
    <3>1. [key |-> key, project |-> SelectedRepository(dir, selection),
           dashboard |-> selection.dashboard, at |-> now, epoch |-> epoch] \in Claims
      BY <2>3, <2>4 DEF Claims
    <3> QED BY <2>1, <3>1
  <2>6. relay' \in [up : BOOLEAN, table : SUBSET SessionBindings, fitted : PolicyFiles]
        /\ relay'.table = Activity(key, dir)
    BY <2>1, <2>2
  <2>7. saves' \in Seq(Saves)
    <3>1. [table |-> Activity(key, dir), dashboard |-> selection.dashboard, serial |-> Len(heard) + 1] \in Saves
      BY <2>2, <2>4
    <3> QED BY <2>1, <3>1
  <2>8. \A i \in DOMAIN saves' : IsTable(saves'[i].table)
    <3> SUFFICES ASSUME NEW i \in DOMAIN saves' PROVE IsTable(saves'[i].table)
      OBVIOUS
    <3>1. CASE i \in DOMAIN saves
      BY <2>1, <3>1
    <3>2. CASE i = Len(saves) + 1
      BY <2>1, <2>2, <3>2
    <3> QED BY <2>1, <3>1, <3>2
  <2> QED BY <1>6, <2>2, <2>5, <2>6, <2>7, <2>8 DEF Hook, Valid, IsTable
<1>7. CASE SaveTable
  <2>1. Head(saves) = saves[1] /\ 1 \in DOMAIN saves /\ Tail(saves) \in Seq(Saves)
        /\ \A i \in DOMAIN Tail(saves) : i + 1 \in DOMAIN saves /\ Tail(saves)[i] = saves[i + 1]
    BY <1>7 DEF SaveTable
  <2>2. saves[1].serial \in DOMAIN heard
    BY <2>1 DEF HistoryInv
  <2>3. saves[1] \in Saves /\ IsTable(saves[1].table)
    <3> DEFINE S == Saves
    <3>1. saves \in Seq(S)
      OBVIOUS
    <3> HIDE DEF S
    <3>2. saves[1] \in S
      BY <2>1, <3>1
    <3> QED BY <2>1, <3>2 DEF S
  <2>4. /\ sessionFile' \in [table : SUBSET SessionBindings, dashboard : Origins]
        /\ IsTable(sessionFile'.table) /\ answered' \subseteq DOMAIN heard
    BY <1>7, <2>1, <2>2, <2>3 DEF SaveTable
  <2>5. \A i \in DOMAIN saves' : IsTable(saves'[i].table)
    BY <1>7, <2>1 DEF SaveTable
  <2> QED BY <1>7, <2>1, <2>4, <2>5 DEF SaveTable, Valid, IsTable
<1>8. CASE SaveFails
  <2>1. Tail(saves) \in Seq(Saves)
        /\ \A i \in DOMAIN Tail(saves) : i + 1 \in DOMAIN saves /\ Tail(saves)[i] = saves[i + 1]
    BY <1>8 DEF SaveFails
  <2>2. \A i \in DOMAIN saves' : IsTable(saves'[i].table)
    BY <1>8, <2>1 DEF SaveFails
  <2> QED BY <1>8, <2>1, <2>2 DEF SaveFails, Valid, IsTable
<1>9. CASE Export
  <2>1. IsTable(Fitted(selection)) /\ Fitted(selection) \subseteq SessionBindings
    BY FittedIsTable DEF IsTable
  <2>2. relay' \in [up : BOOLEAN, table : SUBSET SessionBindings, fitted : PolicyFiles]
        /\ relay'.table = Fitted(selection)
    BY <1>9, <2>1 DEF Export
  <2> QED BY <1>9, <2>1, <2>2 DEF Export, Valid, IsTable
<1>10. CASE StopRelay
  <2>1. IsTable({})
    BY FS_EmptySet, TableAssumption DEF IsTable, TableAssumption
  <2>2. relay' \in [up : BOOLEAN, table : SUBSET SessionBindings, fitted : PolicyFiles] /\ relay'.table = {}
    BY <1>10 DEF StopRelay
  <2> QED BY <1>10, <2>1, <2>2 DEF StopRelay, Valid, IsTable
<1>11. CASE StartRelay
  <2>1. Restored \in SUBSET sessionFile.table
    BY DEF Restored
  <2>2. IsTable(Restored) /\ Restored \subseteq SessionBindings
    BY <2>1, PartOfTable DEF IsTable
  <2>3. relay' \in [up : BOOLEAN, table : SUBSET SessionBindings, fitted : PolicyFiles]
        /\ relay'.table = Restored
    BY <1>11, <2>2 DEF StartRelay
  <2> QED BY <1>11, <2>2, <2>3 DEF StartRelay, Valid, IsTable
<1>12. CASE TimePasses
  BY <1>1, <1>12 DEF TimePasses
<1>13. CASE UNCHANGED tableVars
  BY <1>1, <1>13 DEF tableVars
<1> QED BY <1>2, <1>3, <1>4, <1>5, <1>6, <1>7, <1>8, <1>9, <1>10, <1>11, <1>12, <1>13 DEF TableNext

LEMMA HeardType ==
  ASSUME TableTypeOK
  PROVE  /\ DOMAIN heard = 1..Len(heard) /\ Len(heard) \in Nat
         /\ \A n \in DOMAIN heard : /\ heard[n].key \in Keys /\ heard[n].project \in Dirs \union {None}
                                    /\ heard[n].epoch \in Nat /\ heard[n].at \in Nat
<1> DEFINE C == Claims
<1>1. heard \in Seq(C)
  BY DEF TableTypeOK
<1> HIDE DEF C
<1>2. DOMAIN heard = 1..Len(heard) /\ Len(heard) \in Nat /\ \A n \in DOMAIN heard : heard[n] \in C
  BY <1>1
<1> QED BY <1>2 DEF C, Claims

LEMMA FiniteImage ==
  ASSUME NEW f, IsFiniteSet(DOMAIN f)
  PROVE  IsFiniteSet({f[x] : x \in DOMAIN f})
<1> DEFINE g == [x \in DOMAIN f |-> f[x]]
<1>1. g \in Surjection(DOMAIN f, {f[x] : x \in DOMAIN f})
  BY DEF Surjection
<1> QED BY <1>1, FS_Surjection

LEMMA ToldType ==
  ASSUME TableInv
  PROVE  /\ \A i \in 0..Len(saves) : Told(i) \subseteq Told(Len(saves)) /\ Told(i) \subseteq DOMAIN heard
         /\ Told(0) = answered /\ Len(saves) \in Nat /\ DOMAIN saves = 1..Len(saves)
<1>1. Len(saves) \in Nat /\ DOMAIN saves = 1..Len(saves)
  BY DEF TableInv, TableTypeOK
<1>2. answered \subseteq DOMAIN heard /\ \A i \in DOMAIN saves : saves[i].serial \in DOMAIN heard
  BY DEF TableInv, TableTypeOK, HistoryInv
<1> QED BY <1>1, <1>2 DEF Told

\* A step that delivers no hook makes no hook known that was not, and none at
\* all when the policy or the tree changes; entries stay what they were.
LEMMA NothingHeard ==
  ASSUME TableInv, UNCHANGED heard, now' \in Nat,
         \/ UNCHANGED <<tree, selection, epoch>> /\ now' >= now
         \/ epoch' = epoch + 1
  PROVE  /\ \A s : s.serial \in DOMAIN heard /\ Leads(s) => Leads(s)'
         /\ \A T, told : Newest(T, told) => Newest(T, told)'
         /\ \A n \in DOMAIN heard : Known(n)' => Known(n) /\ UNCHANGED selection
<1>1. /\ epoch \in Nat /\ now \in Nat /\ \A n \in DOMAIN heard : heard[n].epoch <= epoch
      /\ \A n \in DOMAIN heard : heard[n].epoch \in Nat /\ heard[n].at \in Nat
  BY HeardType DEF TableInv, TableTypeOK, HistoryInv
<1>2. \A T, told : Newest(T, told) => Newest(T, told)'
  BY DEF Newest
<1>3. \A n : HeardSince(n)' = HeardSince(n)
  BY DEF HeardSince
<1>4. CASE epoch' = epoch + 1
  <2>1. \A n \in DOMAIN heard : heard[n].epoch # epoch'
    BY <1>1, <1>4
  <2>2. \A n \in DOMAIN heard : ~Known(n)'
    BY <2>1 DEF Known
  <2>3. \A s : s.serial \in DOMAIN heard => Leads(s)'
    BY <2>1 DEF Leads
  <2> QED BY <1>2, <2>2, <2>3
<1>5. CASE UNCHANGED <<tree, selection, epoch>> /\ now' >= now
  <2>1. \A s : StillBound(s, selection)' <=> StillBound(s, selection)
    BY <1>5 DEF StillBound, SelectedRepository, SelectedCheckouts
  <2>2. \A s : Leads(s) => Leads(s)'
    BY <1>5, <2>1 DEF Leads
  <2>3. \A n \in DOMAIN heard : now' - heard[n].at < Lifetime => now - heard[n].at < Lifetime
    BY <1>1, <1>5, TableAssumption DEF TableAssumption
  <2>4. \A n \in DOMAIN heard : Known(n)' => Known(n)
    BY <1>3, <1>5, <2>3 DEF Known
  <2> QED BY <1>2, <1>5, <2>2, <2>4
<1> QED BY <1>4, <1>5

LEMMA CopiesStay ==
  ASSUME TableInv, UNCHANGED <<heard, saves, sessionFile, answered>>, now' \in Nat,
         \/ UNCHANGED <<tree, selection, epoch>> /\ now' >= now
         \/ epoch' = epoch + 1
  PROVE  (\A i \in 0..Len(saves) : CopyInv(i))' /\ HistoryInv'
<1>1. HistoryInv'
  <2>1. \A n \in DOMAIN heard : heard[n].epoch \in Nat /\ epoch \in Nat
    BY HeardType DEF TableInv, TableTypeOK
  <2> QED BY <2>1 DEF TableInv, HistoryInv
<1> SUFFICES ASSUME NEW i \in 0..Len(saves) PROVE CopyInv(i)'
  BY <1>1
<1>2. CopyInv(i)
  BY DEF TableInv
<1>3. /\ CopyTable(i)' = CopyTable(i) /\ CopyDashboard(i)' = CopyDashboard(i) /\ Told(i)' = Told(i)
      /\ Told(i) \subseteq DOMAIN heard
  BY ToldType DEF CopyTable, CopyDashboard, Told
<1>4. Identified(CopyTable(i), CopyDashboard(i))'
  <2>1. \A s : s.serial \in DOMAIN heard /\ Leads(s) => Leads(s)'
    BY NothingHeard
  <2>2. Identified(CopyTable(i), CopyDashboard(i))
    BY <1>2 DEF CopyInv
  <2> QED BY <1>3, <2>1, <2>2 DEF Identified
<1>5. Newest(CopyTable(i), Told(i))'
  BY <1>2, <1>3 DEF CopyInv, Newest
<1>6. \A n \in Told(i) : Known(n)' => Known(n) /\ UNCHANGED selection
  BY <1>3, NothingHeard
<1>7. Keeps(CopyTable(i), Told(i))'
  BY <1>2, <1>3, <1>6 DEF CopyInv, Keeps
<1> QED BY <1>2, <1>3, <1>4, <1>5, <1>6, <1>7 DEF CopyInv

LEMMA MemoryStays ==
  ASSUME TableInv, UNCHANGED <<heard, saves, relay, answered>>, now' \in Nat,
         \/ UNCHANGED <<tree, selection, epoch>> /\ now' >= now
         \/ epoch' = epoch + 1
  PROVE  MemoryInv'
<1>1. MemoryInv
  BY DEF TableInv
<1>2. Told(Len(saves))' = Told(Len(saves)) /\ Told(Len(saves)) \subseteq DOMAIN heard
  BY ToldType DEF Told
<1>3. Identified(relay.table, relay.fitted.dashboard)'
  <2>1. \A s : s.serial \in DOMAIN heard /\ Leads(s) => Leads(s)'
    BY NothingHeard
  <2>2. Identified(relay.table, relay.fitted.dashboard)
    BY <1>1 DEF MemoryInv
  <2> QED BY <2>1, <2>2 DEF Identified
<1>4. Newest(relay.table, Told(Len(saves)))'
  BY <1>1, <1>2 DEF MemoryInv, Newest
<1>5. \A n \in Told(Len(saves)) : Known(n)' => Known(n) /\ UNCHANGED selection
  BY <1>2, NothingHeard
<1>6. relay.up => Keeps(relay.table, Told(Len(saves)))'
  BY <1>1, <1>2, <1>5 DEF MemoryInv, Keeps
<1> QED BY <1>1, <1>2, <1>3, <1>4, <1>5, <1>6 DEF MemoryInv

\* The chain moves up by one: the head is written, or its write fails.
LEMMA ChainMoves ==
  ASSUME TableInv, relay.up, saves # <<>>, saves' = Tail(saves),
         UNCHANGED <<now, tree, selection, relay, heard, epoch>>,
         \/ /\ sessionFile' = [table |-> saves[1].table, dashboard |-> saves[1].dashboard]
            /\ answered' = answered \union {saves[1].serial}
         \/ UNCHANGED <<sessionFile, answered>>
  PROVE  HistoryInv' /\ MemoryInv' /\ (\A i \in 0..Len(saves) : CopyInv(i))'
<1> DEFINE L == Len(saves)
<1>1. /\ L \in Nat \ {0} /\ Len(saves)' = L - 1 /\ 1 \in DOMAIN saves
      /\ \A i \in 1..(L - 1) : saves'[i] = saves[i + 1] /\ i + 1 \in 1..L
      /\ DOMAIN saves = 1..L /\ DOMAIN saves' = 1..(L - 1)
  BY DEF TableInv, TableTypeOK
<1>2. now \in Nat /\ now' \in Nat /\ now' >= now
  BY DEF TableInv, TableTypeOK
<1>3. /\ \A s : s.serial \in DOMAIN heard /\ Leads(s) => Leads(s)'
      /\ \A n \in DOMAIN heard : Known(n)' => Known(n)
  BY <1>2, NothingHeard
<1>4. HistoryInv'
  BY <1>1 DEF TableInv, HistoryInv
<1>5. \A i \in 0..(L - 1) : Told(i)' \subseteq Told(i + 1)
  <2> SUFFICES ASSUME NEW i \in 0..(L - 1), NEW m \in Told(i)' PROVE m \in Told(i + 1)
    OBVIOUS
  <2>1. 1 \in 1..(i + 1) /\ \A j \in 1..i : saves'[j] = saves[j + 1] /\ j + 1 \in 1..(i + 1)
    BY <1>1
  <2>2. answered' \subseteq answered \union {saves[1].serial}
    OBVIOUS
  <2> QED BY <2>1, <2>2 DEF Told
<1>6. \A i \in 0..L : Told(i) \subseteq DOMAIN heard
  BY ToldType
\* What holds of a copy and what it was told of holds of the same table told of less.
<1>7. ASSUME NEW i \in 0..(L - 1), NEW j \in 0..L, CopyTable(i)' = CopyTable(j),
             CopyDashboard(i)' = CopyDashboard(j), Told(i)' \subseteq Told(j)
      PROVE  CopyInv(i)'
  <2>1. CopyInv(j)
    BY DEF TableInv
  <2>2. Identified(CopyTable(i), CopyDashboard(i))'
    BY <1>3, <1>7, <2>1 DEF CopyInv, Identified
  <2>3. Newest(CopyTable(i), Told(i))'
    BY <1>7, <2>1 DEF CopyInv, Newest
  <2>4. \A n \in Told(i)' : Known(n)' => Known(n) /\ n \in Told(j)
    BY <1>3, <1>6, <1>7
  <2>5. Keeps(CopyTable(i), Told(i))'
    BY <1>7, <2>1, <2>4 DEF CopyInv, Keeps
  <2>6. (\A n \in Told(i) : Known(n) => CopyDashboard(i) = selection.dashboard)'
    BY <1>7, <2>1, <2>4 DEF CopyInv
  <2> QED BY <2>2, <2>3, <2>5, <2>6 DEF CopyInv
<1>8. \A i \in 0..(L - 1) : CopyInv(i)'
  <2> SUFFICES ASSUME NEW i \in 0..(L - 1) PROVE CopyInv(i)'
    OBVIOUS
  <2>1. CASE i # 0
    <3>1. i \in 1..(L - 1) /\ i + 1 \in 0..L /\ i + 1 # 0
      BY <1>1, <2>1
    <3>2. CopyTable(i)' = CopyTable(i + 1) /\ CopyDashboard(i)' = CopyDashboard(i + 1)
      BY <1>1, <3>1 DEF CopyTable, CopyDashboard
    <3> QED BY <1>5, <1>7, <3>1, <3>2
  <2>2. CASE i = 0 /\ UNCHANGED <<sessionFile, answered>>
    <3>1. CopyTable(i)' = CopyTable(0) /\ CopyDashboard(i)' = CopyDashboard(0) /\ Told(i)' = Told(0)
      BY <2>2 DEF CopyTable, CopyDashboard, Told
    <3>2. 0 \in 0..L
      BY <1>1
    <3> QED BY <1>7, <3>1, <3>2
  <2>3. CASE i = 0 /\ sessionFile' = [table |-> saves[1].table, dashboard |-> saves[1].dashboard]
    <3>1. CopyTable(i)' = CopyTable(1) /\ CopyDashboard(i)' = CopyDashboard(1) /\ 1 \in 0..L
      BY <1>1, <2>3 DEF CopyTable, CopyDashboard
    <3>2. Told(i)' \subseteq Told(1)
      BY <1>5, <2>3
    <3> QED BY <1>7, <3>1, <3>2
  <2> QED BY <2>1, <2>2, <2>3
<1>9. MemoryInv'
  <2>1. MemoryInv /\ Told(Len(saves))' \subseteq Told(L) /\ L - 1 \in 0..(L - 1) /\ L \in 0..L
    <3>1. PICK l : l = L - 1 /\ l \in 0..(L - 1)
      <4>1. L - 1 \in 0..(L - 1)
        BY <1>1
      <4> QED BY <4>1
    <3>2. Told(l)' \subseteq Told(L) /\ l + 1 = L
      BY <1>1, <1>5, <3>1
    <3>3. Told(Len(saves))' = Told(l)'
      BY <1>1, <3>1 DEF Told
    <3> QED BY <1>1, <3>1, <3>2, <3>3 DEF TableInv
  <2>2. Identified(relay.table, relay.fitted.dashboard)'
    BY <1>3, <2>1 DEF MemoryInv, Identified
  <2>3. Newest(relay.table, Told(Len(saves)))'
    BY <2>1 DEF MemoryInv, Newest
  <2>4. \A n \in Told(Len(saves))' : Known(n)' => Known(n) /\ n \in Told(L)
    BY <1>3, <1>6, <2>1
  <2>5. Keeps(relay.table, Told(Len(saves)))'
    BY <2>1, <2>4 DEF MemoryInv, Keeps
  <2> QED BY <2>1, <2>2, <2>3, <2>4, <2>5 DEF MemoryInv
<1> QED BY <1>1, <1>4, <1>8, <1>9

\* What is added to the table is what the hook names; what is in it already
\* stays as it was said.  A hook that stays known is never the one forgotten.
LEMMA HookKeeps ==
  ASSUME TableInv, TableTypeOK', relay.up, NEW key \in Keys, NEW dir \in Dirs,
         relay' = [relay EXCEPT !.table = Activity(key, dir), !.fitted = selection],
         saves' = Append(saves, [table |-> Activity(key, dir), dashboard |-> selection.dashboard,
                                 serial |-> Len(heard) + 1]),
         heard' = Append(heard, [key |-> key, project |-> SelectedRepository(dir, selection),
                                 dashboard |-> selection.dashboard, at |-> now, epoch |-> epoch]),
         UNCHANGED <<now, tree, selection, sessionFile, answered, epoch>>
  PROVE  HistoryInv' /\ MemoryInv' /\ (\A i \in 0..Len(saves) : CopyInv(i))'
<1> DEFINE N == Len(heard) + 1
           L == Len(saves)
           A == Activity(key, dir)
<1>1. /\ DOMAIN heard = 1..(N - 1) /\ N \in Nat \ {0} /\ DOMAIN heard' = 1..N
      /\ \A n \in DOMAIN heard : heard'[n] = heard[n]
      /\ heard'[N] = [key |-> key, project |-> SelectedRepository(dir, selection),
                      dashboard |-> selection.dashboard, at |-> now, epoch |-> epoch]
  BY HeardType DEF TableInv, TableTypeOK
<1>2. /\ L \in Nat /\ Len(saves)' = L + 1 /\ DOMAIN saves = 1..L /\ DOMAIN saves' = 1..(L + 1)
      /\ \A i \in 1..L : saves'[i] = saves[i]
      /\ saves'[L + 1] = [table |-> A, dashboard |-> selection.dashboard, serial |-> N]
  BY DEF TableInv, TableTypeOK
<1>3. HistoryInv'
  <2>1. \A n \in DOMAIN heard : heard[n].epoch <= epoch /\ epoch \in Nat
    BY DEF TableInv, TableTypeOK, HistoryInv
  <2>2. \A i \in DOMAIN saves : saves[i].serial \in DOMAIN heard
    BY DEF TableInv, HistoryInv
  <2>3. \A n \in DOMAIN heard' : heard'[n].epoch <= epoch'
    <3> SUFFICES ASSUME NEW n \in DOMAIN heard' PROVE heard'[n].epoch <= epoch'
      OBVIOUS
    <3>1. n \in DOMAIN heard \/ n = N
      BY <1>1
    <3>2. epoch \in Nat /\ epoch' = epoch
      BY DEF TableInv, TableTypeOK
    <3> QED BY <1>1, <2>1, <3>1, <3>2
  <2>4. \A i \in DOMAIN saves' : saves'[i].serial \in DOMAIN heard'
    <3> SUFFICES ASSUME NEW i \in DOMAIN saves' PROVE saves'[i].serial \in DOMAIN heard'
      OBVIOUS
    <3>1. i \in DOMAIN saves \/ i = L + 1
      BY <1>2
    <3>2. DOMAIN heard \subseteq DOMAIN heard' /\ N \in DOMAIN heard'
      BY <1>1
    <3> QED BY <1>2, <2>2, <3>1, <3>2
  <2> QED BY <2>3, <2>4 DEF HistoryInv
\* Earlier hooks: the same, but for the session that is heard now.
<1>4. \A n \in DOMAIN heard : HeardSince(n)' = HeardSince(n) \union {key}
  BY <1>1 DEF HeardSince
<1>5. \A n \in DOMAIN heard' : IsFiniteSet(HeardSince(n)')
  <2> SUFFICES ASSUME NEW n \in DOMAIN heard' PROVE IsFiniteSet(HeardSince(n)')
    OBVIOUS
  <2> DEFINE later == {i \in DOMAIN heard' : i > n}
  <2>1. IsFiniteSet(DOMAIN heard')
    <3>1. Len(heard') \in Nat /\ DOMAIN heard' = 1..Len(heard')
      BY HeardType
    <3>2. IsFiniteSet(1..Len(heard'))
      BY <3>1, FS_Interval
    <3> QED BY <3>1, <3>2
  <2>2. IsFiniteSet(later)
    BY <2>1, FS_Subset
  <2>3. HeardSince(n)' = {heard'[m].key : m \in later}
    BY DEF HeardSince
  <2> DEFINE f == [m \in later |-> heard'[m].key]
  <2>4. HeardSince(n)' = {f[m] : m \in DOMAIN f} /\ DOMAIN f = later
    BY <2>3
  <2> HIDE DEF f
  <2> QED BY <2>2, <2>4, FiniteImage
<1>6. \A n \in DOMAIN heard : Known(n)' => Known(n) /\ heard[n].key # key
  <2> SUFFICES ASSUME NEW n \in DOMAIN heard, Known(n)' PROVE Known(n) /\ heard[n].key # key
    OBVIOUS
  <2>1. HeardSince(n) \in SUBSET HeardSince(n)' /\ key \in HeardSince(n)' /\ IsFiniteSet(HeardSince(n)')
    BY <1>1, <1>4, <1>5
  <2>2. Cardinality(HeardSince(n)) <= Cardinality(HeardSince(n)') /\ IsFiniteSet(HeardSince(n))
    BY <2>1, FS_Subset
  <2>3. Cardinality(HeardSince(n)) \in Nat /\ Cardinality(HeardSince(n)') \in Nat
    BY <2>1, <2>2, FS_CardinalityType
  <2> QED BY <1>1, <2>1, <2>2, <2>3, TableAssumption DEF Known, TableAssumption
<1>7. \A s : s.serial \in DOMAIN heard => (Leads(s)' <=> Leads(s))
  <2>1. \A s : StillBound(s, selection)' <=> StillBound(s, selection)
    BY DEF StillBound, SelectedRepository, SelectedCheckouts
  <2> QED BY <1>1, <2>1 DEF Leads
<1>8. \A s \in relay.table :
        /\ s.serial \in DOMAIN heard /\ s.key = heard[s.serial].key /\ s.project = heard[s.serial].project
        /\ s.at = heard[s.serial].at /\ heard[s.serial].dashboard = relay.fitted.dashboard /\ Leads(s)
  BY DEF TableInv, MemoryInv, Identified
<1>9. /\ A \subseteq Without(Fitted(selection), key) \union {Binding(key, dir)}
      /\ SelectedRepository(dir, selection) = None => A = Without(Fitted(selection), key)
  BY DEF Activity, Bounded
<1>10. relay'.table = A /\ relay'.fitted = selection /\ relay'.up
  BY DEF TableInv, TableTypeOK
\* Where the dashboard changed, the table was emptied.
<1>11. Fitted(selection) \subseteq relay.table
  BY DEF Fitted
<1>12. \A s \in Fitted(selection) : heard[s.serial].dashboard = selection.dashboard
  BY <1>8 DEF Fitted
<1>13. SelectedRepository(dir, selection) # None =>
         /\ Binding(key, dir).key = key /\ Binding(key, dir).at = now
         /\ Binding(key, dir).project = SelectedRepository(dir, selection)
         /\ Binding(key, dir).serial = N
         /\ Binding(key, dir).project \in selection.projects
         /\ StillBound(Binding(key, dir), selection)
  BY BindingType, SelectedIsSelected DEF TableInv, TableTypeOK
<1>14. \A s \in A : \/ s \in relay.table /\ s.key # key /\ heard[s.serial].dashboard = selection.dashboard
                    \/ s = Binding(key, dir) /\ SelectedRepository(dir, selection) # None
  BY <1>9, <1>11, <1>12 DEF Without
<1>15. Identified(relay.table, relay.fitted.dashboard)'
  <2> SUFFICES ASSUME NEW s \in A
               PROVE  /\ s.serial \in DOMAIN heard'
                      /\ s.key = heard'[s.serial].key /\ s.project = heard'[s.serial].project
                      /\ s.at = heard'[s.serial].at /\ heard'[s.serial].dashboard = selection.dashboard
                      /\ Leads(s)'
    BY <1>10 DEF Identified
  <2>1. CASE s \in relay.table /\ s.key # key /\ heard[s.serial].dashboard = selection.dashboard
    BY <1>1, <1>7, <1>8, <2>1
  <2>2. CASE s = Binding(key, dir) /\ SelectedRepository(dir, selection) # None
    <3>1. StillBound(s, selection)'
      BY <1>13, <2>2 DEF StillBound, SelectedRepository, SelectedCheckouts
    <3> QED BY <1>1, <1>13, <2>2, <3>1 DEF Leads
  <2> QED BY <1>14, <2>1, <2>2
<1>16. /\ Told(Len(saves))' = Told(L) \union {N} /\ Told(L) \subseteq DOMAIN heard
       /\ \A i \in 0..L : Told(i)' = Told(i)
  <2>1. \A i \in 0..L : Told(i)' = Told(i) /\ Told(i) \subseteq DOMAIN heard
    BY <1>2, ToldType DEF Told
  <2>2. 1..(L + 1) = 1..L \union {L + 1} /\ saves'[L + 1].serial = N
    BY <1>2
  <2>3. Told(Len(saves))' = answered \union {saves'[j].serial : j \in 1..(L + 1)}
    BY <1>2 DEF Told
  <2>4. Told(Len(saves))' = Told(L) \union {N}
    BY <1>2, <2>2, <2>3 DEF Told
  <2> QED BY <1>2, <2>1, <2>4
<1>17. Newest(relay.table, Told(Len(saves)))'
  <2> SUFFICES ASSUME NEW s \in A, NEW m \in Told(L) \union {N}, heard'[m].key = s.key
               PROVE  m <= s.serial
    BY <1>10, <1>16 DEF Newest
  <2>1. m \in 1..N
    BY <1>1, <1>16
  <2>2. CASE s \in relay.table /\ s.key # key
    BY <1>1, <1>16, <2>2 DEF TableInv, MemoryInv, Newest
  <2>3. CASE s = Binding(key, dir) /\ SelectedRepository(dir, selection) # None
    BY <1>1, <1>13, <2>1, <2>3
  <2> QED BY <1>14, <2>2, <2>3
\* A binding that is still known is not the one that makes room.
<1>18. ASSUME NEW U, U = Without(Fitted(selection), key) \union {Binding(key, dir)},
              SelectedRepository(dir, selection) # None, NEW s \in U, Known(s.serial)'
       PROVE  s \in Bounded(U)
  <2> SUFFICES ASSUME Cardinality(U) > MaxSessions, s \in Oldest(U) PROVE FALSE
    BY DEF Bounded
  <2> DEFINE R == U \ {s}
             H == HeardSince(s.serial)'
             f == [u \in R |-> u.key]
  <2>1. \A u \in U : u.serial \in DOMAIN heard' /\ u.serial \in Nat /\ u.key = heard'[u.serial].key
    BY <1>1, <1>8, <1>11, <1>13, <1>18 DEF Without
  <2>2. \A u, v \in U : u.key = v.key => u = v
    BY <1>11, <1>13, <1>18 DEF Without, TableInv, TableTypeOK, IsTable
  <2>3. \A u \in R : u.serial > s.serial
    <3>1. \A u \in R : u.serial # s.serial
      BY <2>1, <2>2
    <3>2. \A u \in R : s.serial <= u.serial
      BY DEF Oldest
    <3> QED BY <2>1, <3>1, <3>2
  <2>4. f \in [R -> H]
    BY <2>1, <2>3 DEF HeardSince
  <2>5. f \in Injection(R, H)
    BY <2>2, <2>4 DEF Injection, IsInjective
  <2>6. IsFiniteSet(H)
    BY <1>5, <2>1
  <2>7. Cardinality(R) <= Cardinality(H)
    <3> HIDE DEF R, H, f
    <3> QED BY <2>5, <2>6, FS_Injection
  <2>8. IsFiniteSet(U) /\ Cardinality(R) = Cardinality(U) - 1 /\ Cardinality(U) \in Nat
    <3>1. IsFiniteSet(relay.table)
      BY DEF TableInv, TableTypeOK, IsTable
    <3>2. IsFiniteSet(Without(Fitted(selection), key))
      <4>1. Without(Fitted(selection), key) \in SUBSET relay.table
        BY <1>11 DEF Without
      <4> QED BY <3>1, <4>1, FS_Subset
    <3>3. IsFiniteSet(U)
      BY <1>18, <3>2, FS_AddElement
    <3> QED BY <3>3, FS_RemoveElement, FS_CardinalityType
  <2>9. Cardinality(H) < MaxSessions
    BY <1>18 DEF Known
  <2>10. Cardinality(H) \in Nat /\ Cardinality(R) \in Nat
    BY <2>6, <2>8, FS_CardinalityType, FS_RemoveElement
  <2> QED BY <2>7, <2>8, <2>9, <2>10, TableAssumption DEF TableAssumption
<1>19. \A n \in Told(L) \union {N} : Known(n)' => \E s \in A : s.serial = n
  <2> SUFFICES ASSUME NEW n \in Told(L) \union {N}, Known(n)' PROVE \E s \in A : s.serial = n
    OBVIOUS
  <2> DEFINE W == Without(Fitted(selection), key)
  <2>1. CASE n = N
    <3>1. SelectedRepository(dir, selection) # None
      BY <1>1, <2>1 DEF Known
    <3>2. A = Bounded(W \union {Binding(key, dir)})
      BY <3>1 DEF Activity
    <3> QED BY <1>13, <1>18, <2>1, <3>1, <3>2
  <2>2. CASE n \in Told(L)
    <3>1. Known(n) /\ heard[n].key # key /\ n \in DOMAIN heard
      BY <1>6, <1>16, <2>2
    <3>2. PICK s \in relay.table : s.serial = n
      BY <2>2, <3>1 DEF TableInv, MemoryInv, Keeps
    <3>3. relay.fitted = selection
      BY <2>2, <3>1 DEF TableInv, MemoryInv
    <3>4. s \in W
      BY <1>8, <3>1, <3>2, <3>3 DEF Fitted, Without
    <3>5. CASE SelectedRepository(dir, selection) = None
      BY <1>9, <3>2, <3>4, <3>5
    <3>6. CASE SelectedRepository(dir, selection) # None
      <4>1. A = Bounded(W \union {Binding(key, dir)})
        BY <3>6 DEF Activity
      <4> QED BY <1>18, <3>2, <3>4, <3>6, <4>1
    <3> QED BY <3>5, <3>6
  <2> QED BY <2>1, <2>2
<1>20. MemoryInv'
  <2>1. Keeps(relay.table, Told(Len(saves)))'
    BY <1>10, <1>16, <1>19 DEF Keeps
  <2> QED BY <1>10, <1>15, <1>17, <2>1 DEF MemoryInv
<1>21. ASSUME NEW i \in 0..Len(saves)' PROVE CopyInv(i)'
  <2>1. CASE i \in 0..L
    <3>1. CopyInv(i) /\ Told(i)' = Told(i) /\ Told(i) \subseteq DOMAIN heard
      BY <1>16, <2>1, ToldType DEF TableInv
    <3>2. CopyTable(i)' = CopyTable(i) /\ CopyDashboard(i)' = CopyDashboard(i)
      BY <1>2, <2>1 DEF CopyTable, CopyDashboard
    <3>3. Identified(CopyTable(i), CopyDashboard(i))'
      BY <1>1, <1>7, <3>1, <3>2 DEF CopyInv, Identified
    <3>4. Newest(CopyTable(i), Told(i))'
      BY <1>1, <3>1, <3>2 DEF CopyInv, Newest
    <3>5. \A n \in Told(i) : Known(n)' => Known(n)
      BY <1>6, <3>1
    <3>6. Keeps(CopyTable(i), Told(i))'
      BY <3>1, <3>2, <3>5 DEF CopyInv, Keeps
    <3> QED BY <3>1, <3>2, <3>3, <3>4, <3>5, <3>6 DEF CopyInv
  <2>2. CASE i = L + 1
    <3>1. CopyTable(i)' = relay'.table /\ CopyDashboard(i)' = relay'.fitted.dashboard
      BY <1>2, <1>10, <2>2 DEF CopyTable, CopyDashboard
    <3>2. Told(i)' = Told(Len(saves))'
      BY <1>2, <2>2 DEF Told
    <3>3. Identified(CopyTable(i), CopyDashboard(i))'
      BY <1>20, <3>1 DEF MemoryInv, Identified
    <3>4. Newest(CopyTable(i), Told(i))'
      BY <1>17, <3>1, <3>2 DEF Newest
    <3>5. Keeps(CopyTable(i), Told(i))'
      BY <1>10, <1>16, <1>19, <3>1, <3>2 DEF Keeps
    <3> QED BY <1>10, <3>1, <3>3, <3>4, <3>5 DEF CopyInv
  <2> QED BY <1>2, <2>1, <2>2
<1> QED BY <1>3, <1>20, <1>21

\* Fitting the table, losing it, and reading it back from the file.
LEMMA ExportKeeps ==
  ASSUME TableInv, relay.up, relay' = [relay EXCEPT !.table = Fitted(selection), !.fitted = selection],
         UNCHANGED <<now, tree, selection, saves, sessionFile, heard, answered, epoch>>
  PROVE  MemoryInv'
<1>1. /\ Identified(relay.table, relay.fitted.dashboard) /\ Newest(relay.table, Told(Len(saves)))
      /\ Keeps(relay.table, Told(Len(saves)))
      /\ \A n \in Told(Len(saves)) : Known(n) => relay.fitted = selection
  BY DEF TableInv, MemoryInv
<1>2. relay'.table = Fitted(selection) /\ relay'.fitted = selection /\ relay'.up
  BY DEF TableInv, TableTypeOK
<1>3. /\ Fitted(selection) \subseteq relay.table
      /\ relay.fitted = selection => Fitted(selection) = relay.table
      /\ \A s \in Fitted(selection) : heard[s.serial].dashboard = selection.dashboard
  BY <1>1 DEF Fitted, Identified
<1>4. /\ \A s \in relay.table : Leads(s) => Leads(s)'
      /\ \A n : Known(n)' <=> Known(n)
      /\ Told(Len(saves))' = Told(Len(saves))
  <2>1. \A s : StillBound(s, selection)' <=> StillBound(s, selection)
    BY DEF StillBound, SelectedRepository, SelectedCheckouts
  <2> QED BY <2>1 DEF Leads, Known, HeardSince, Told
<1>5. Identified(relay.table, relay.fitted.dashboard)'
  BY <1>1, <1>2, <1>3, <1>4 DEF Identified
<1>6. Newest(relay.table, Told(Len(saves)))'
  BY <1>1, <1>2, <1>3, <1>4 DEF Newest
<1>7. Keeps(relay.table, Told(Len(saves)))'
  BY <1>1, <1>2, <1>3, <1>4 DEF Keeps
<1> QED BY <1>2, <1>5, <1>6, <1>7 DEF MemoryInv

LEMMA StopKeeps ==
  ASSUME TableInv, relay' = [relay EXCEPT !.up = FALSE, !.table = {}], saves' = <<>>,
         UNCHANGED <<now, tree, selection, sessionFile, heard, answered, epoch>>
  PROVE  HistoryInv' /\ MemoryInv' /\ (\A i \in 0..Len(saves) : CopyInv(i))'
<1>1. relay'.table = {} /\ ~relay'.up
  BY DEF TableInv, TableTypeOK
<1>2. HistoryInv'
  BY DEF TableInv, HistoryInv
<1>3. MemoryInv'
  BY <1>1 DEF MemoryInv, Identified, Newest
<1>4. 0 \in 0..Len(saves) /\ Len(saves)' = 0
  BY ToldType
<1>5. CopyInv(0)
  BY <1>4 DEF TableInv
<1>6. /\ CopyTable(0)' = CopyTable(0) /\ CopyDashboard(0)' = CopyDashboard(0) /\ Told(0)' = Told(0)
      /\ \A s : Leads(s) => Leads(s)'
      /\ \A n : Known(n)' <=> Known(n)
  <2>1. \A s : StillBound(s, selection)' <=> StillBound(s, selection)
    BY DEF StillBound, SelectedRepository, SelectedCheckouts
  <2> QED BY <2>1 DEF CopyTable, CopyDashboard, Told, Leads, Known, HeardSince
<1>7. CopyInv(0)'
  <2>1. Identified(CopyTable(0), CopyDashboard(0))'
    BY <1>5, <1>6 DEF CopyInv, Identified
  <2>2. Newest(CopyTable(0), Told(0))' /\ Keeps(CopyTable(0), Told(0))'
    BY <1>5, <1>6 DEF CopyInv, Newest, Keeps
  <2> QED BY <1>5, <1>6, <2>1, <2>2 DEF CopyInv
<1>8. \A i \in 0..Len(saves)' : i = 0
  BY <1>4
<1> QED BY <1>2, <1>3, <1>7, <1>8

LEMMA StartKeeps ==
  ASSUME TableInv, ~relay.up, relay' = [up |-> TRUE, table |-> Restored, fitted |-> selection],
         UNCHANGED <<now, tree, selection, saves, sessionFile, heard, answered, epoch>>
  PROVE  MemoryInv'
<1>1. saves = <<>> /\ Len(saves) = 0 /\ Len(saves)' = 0
  BY DEF TableInv, MemoryInv
<1>2. CopyInv(0)
  BY <1>1 DEF TableInv
<1>3. /\ Identified(sessionFile.table, sessionFile.dashboard) /\ Newest(sessionFile.table, Told(0))
      /\ Keeps(sessionFile.table, Told(0))
      /\ \A n \in Told(0) : Known(n) => sessionFile.dashboard = selection.dashboard
  BY <1>2 DEF CopyInv, CopyTable, CopyDashboard
<1>4. Restored \subseteq sessionFile.table /\ \A s \in Restored : sessionFile.dashboard = selection.dashboard
  BY DEF Restored
<1>5. /\ \A s \in sessionFile.table : Leads(s) => Leads(s)'
      /\ \A n : Known(n)' <=> Known(n)
      /\ Told(Len(saves))' = Told(0)
  <2>1. \A s : StillBound(s, selection)' <=> StillBound(s, selection)
    BY DEF StillBound, SelectedRepository, SelectedCheckouts
  <2> QED BY <1>1, <2>1 DEF Leads, Known, HeardSince, Told
<1>6. Identified(relay.table, relay.fitted.dashboard)'
  BY <1>3, <1>4, <1>5 DEF Identified
<1>7. Newest(relay.table, Told(Len(saves)))'
  BY <1>3, <1>4, <1>5 DEF Newest
<1>8. ASSUME NEW n \in Told(0), Known(n) PROVE \E s \in Restored : s.serial = n
  <2>1. PICK s \in sessionFile.table : s.serial = n
    BY <1>3, <1>8 DEF Keeps
  <2>2. s.at = heard[n].at /\ Leads(s) /\ sessionFile.dashboard = selection.dashboard
    BY <1>3, <1>8, <2>1 DEF Identified
  <2>3. heard[n].epoch = epoch /\ now - heard[n].at < Lifetime
    BY <1>8 DEF Known
  <2>4. s \in Restored
    BY <2>1, <2>2, <2>3 DEF Restored, Leads
  <2> QED BY <2>1, <2>4
<1>9. Keeps(relay.table, Told(Len(saves)))'
  BY <1>5, <1>8 DEF Keeps
<1> QED BY <1>6, <1>7, <1>9 DEF MemoryInv

LEMMA TableInvInit == TableInit => TableInv
<1> SUFFICES ASSUME TableInit PROVE TableInv
  OBVIOUS
<1>1. IsTable({})
  BY FS_EmptySet, TableAssumption DEF IsTable, TableAssumption
<1>2. selection \in PolicyFiles /\ Valid(selection) /\ tree \in [Dirs -> Repositories \union {None}]
  BY TableAssumption DEF TableInit, TableAssumption
<1>3. TableTypeOK
  BY <1>1, <1>2 DEF TableInit, TableTypeOK, PolicyFiles
<1>4. HistoryInv /\ MemoryInv
  BY DEF TableInit, HistoryInv, MemoryInv, Identified, Newest, Keeps, Told
<1>5. Len(saves) = 0 /\ \A i \in 0..Len(saves) : i = 0
  BY DEF TableInit
<1>6. CopyInv(0)
  BY DEF TableInit, CopyInv, CopyTable, CopyDashboard, Told, Identified, Newest, Keeps
<1> QED BY <1>3, <1>4, <1>5, <1>6 DEF TableInv

LEMMA TableInvStep ==
  ASSUME TableInv, [TableNext]_tableVars
  PROVE  TableInv'
<1>1. TableTypeOK'
  BY TableTypeStep
<1>2. now \in Nat /\ now' \in Nat /\ now >= now
  BY <1>1 DEF TableInv, TableTypeOK
<1>3. CASE ConfigureProjects
  BY <1>1, <1>2, <1>3, CopiesStay, MemoryStays DEF TableInv, ConfigureProjects
<1>4. CASE ConfigureDashboard
  BY <1>1, <1>2, <1>4, CopiesStay, MemoryStays DEF TableInv, ConfigureDashboard
<1>5. CASE WritePolicy
  BY <1>1, <1>2, <1>5, CopiesStay, MemoryStays DEF TableInv, WritePolicy
<1>6. CASE ChangeTree
  BY <1>1, <1>2, <1>6, CopiesStay, MemoryStays DEF TableInv, ChangeTree
<1>7. CASE Hook
  <2>1. PICK key \in Keys, dir \in Dirs :
          /\ relay' = [relay EXCEPT !.table = Activity(key, dir), !.fitted = selection]
          /\ saves' = Append(saves, [table |-> Activity(key, dir), dashboard |-> selection.dashboard,
                                     serial |-> Len(heard) + 1])
          /\ heard' = Append(heard, [key |-> key, project |-> SelectedRepository(dir, selection),
                                     dashboard |-> selection.dashboard, at |-> now, epoch |-> epoch])
    BY <1>7 DEF Hook
  <2> QED BY <1>1, <1>7, <2>1, HookKeeps DEF TableInv, Hook
<1>8. CASE SaveTable
  <2>1. Head(saves) = saves[1]
    BY <1>8 DEF SaveTable, TableInv, TableTypeOK
  <2> QED BY <1>1, <1>8, <2>1, ChainMoves DEF TableInv, SaveTable
<1>9. CASE SaveFails
  BY <1>1, <1>9, ChainMoves DEF TableInv, SaveFails
<1>10. CASE Export
  BY <1>1, <1>2, <1>10, CopiesStay, ExportKeeps DEF TableInv, Export
<1>11. CASE StopRelay
  BY <1>1, <1>11, StopKeeps DEF TableInv, StopRelay
<1>12. CASE StartRelay
  BY <1>1, <1>2, <1>12, CopiesStay, StartKeeps DEF TableInv, StartRelay
<1>13. CASE TimePasses
  <2>1. now' >= now
    BY <1>2, <1>13 DEF TimePasses
  <2> QED BY <1>1, <1>2, <1>13, <2>1, CopiesStay, MemoryStays DEF TableInv, TimePasses
<1>14. CASE UNCHANGED tableVars
  BY <1>1, <1>2, <1>14, CopiesStay, MemoryStays DEF TableInv, tableVars
<1> QED BY <1>3, <1>4, <1>5, <1>6, <1>7, <1>8, <1>9, <1>10, <1>11, <1>12, <1>13, <1>14 DEF TableNext

\* What the invariant says of exports.
LEMMA TableInvHolds == TableInv => SessionsHold
<1> SUFFICES ASSUME TableInv PROVE PassesAsIdentified /\ KnownStaysKnown
  BY DEF TableInv, SessionsHold
<1>1. /\ \A s \in relay.table :
           /\ s.serial \in DOMAIN heard /\ s.key = heard[s.serial].key /\ s.project = heard[s.serial].project
           /\ s.at = heard[s.serial].at /\ heard[s.serial].dashboard = relay.fitted.dashboard /\ Leads(s)
      /\ Newest(relay.table, Told(Len(saves)))
  BY DEF TableInv, MemoryInv, Identified
<1>2. answered \subseteq Told(Len(saves))
  BY DEF Told
<1>3. PassesAsIdentified
  <2> SUFFICES ASSUME NEW s \in Fitted(selection), Live(s, selection)
               PROVE  /\ s.project \in selection.projects
                      /\ \E n \in DOMAIN heard :
                           /\ heard[n].key = s.key /\ heard[n].project = s.project
                           /\ heard[n].dashboard = selection.dashboard
                           /\ now - heard[n].at <= Lifetime
                           /\ \A m \in answered : heard[m].key = s.key => m <= n
    BY DEF PassesAsIdentified, Passing
  <2>1. s \in relay.table /\ relay.fitted.dashboard = selection.dashboard
    BY DEF Fitted
  <2>2. \A m \in answered : heard[m].key = s.key => m <= s.serial
    BY <1>1, <1>2, <2>1 DEF Newest
  <2> QED BY <1>1, <2>1, <2>2 DEF Live
<1>4. KnownStaysKnown
  <2> SUFFICES ASSUME relay.up, NEW n \in answered, Known(n)
               PROVE  [key |-> heard[n].key, project |-> heard[n].project] \in Passing
    BY DEF KnownStaysKnown
  <2>1. relay.fitted = selection /\ \E s \in relay.table : s.serial = n
    BY <1>2 DEF TableInv, MemoryInv, Keeps
  <2>2. PICK s \in relay.table : s.serial = n
    BY <2>1
  <2>3. s \in Fitted(selection)
    BY <2>1, <2>2 DEF Fitted
  <2>4. heard[n].epoch = epoch /\ now - heard[n].at < Lifetime /\ n \in DOMAIN heard
    BY DEF Known, TableInv, TableTypeOK
  <2>5. now - heard[n].at <= Lifetime
    BY <2>4, HeardType, TableAssumption DEF TableAssumption, TableInv, TableTypeOK
  <2>6. Live(s, selection)
    BY <1>1, <2>2, <2>4, <2>5 DEF Live, Leads
  <2> QED BY <1>1, <2>2, <2>3, <2>6 DEF Passing
<1> QED BY <1>3, <1>4

\* What the copies of the table, in memory, on the way to the file and in it, hold of every hook
\* that was answered or waits for its write, at every step of the relay and of the commands.
THEOREM TableInvariant == TableSpec => []TableInv
<1>1. TableInv /\ [TableNext]_tableVars => TableInv'
  BY TableInvStep
<1> QED BY <1>1, TableInvInit, PTL DEF TableSpec

\* What passes was identified by the newest answered hook or a later one, and a session that is
\* known goes on passing, restarts included (ProjectFilter of relay.mjs and its file).
THEOREM SessionsAreSafe == TableSpec => []SessionsHold
BY TableInvariant, TableInvHolds, PTL
=============================================================================
