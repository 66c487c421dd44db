---------------------------- MODULE AgentsProofs ----------------------------
(***************************************************************************)
(* The analyses are safe: one at a time, reviews only of the latest, every *)
(* event heard in order, every call told after a restart.  A proof for any *)
(* number of starts, reviews, failures, changes and stops of the process.  *)
(*                                                                         *)
(* The argument.  The four handlers exclude each other where it matters    *)
(* (IdleInv, ReviewInv), so what a handler holds of its run differs from   *)
(* the saved run only by what the handler itself is about to save.  A      *)
(* start takes a number nobody has saved (CountInv).  What is marked as    *)
(* delivered is a prefix of the outbox, and the history is at most the     *)
(* one event of the delivery in flight ahead of it (FeedInv).              *)
(***************************************************************************)
EXTENDS Agents, FiniteSetTheorems, SequenceTheorems, WellFoundedInduction, TLAPS

AgentTypes ==
  /\ runs \in [Runs -> RunRecords \cup {None}]
  /\ task \in [Actors -> Handling \cup {None}]
  /\ budget \in Plans
  /\ config \in [version : Nat, enabled : BOOLEAN] /\ context \in Nat /\ knowledge \in Nat
  /\ ready \in BOOLEAN /\ broken \in BOOLEAN

-----------------------------------------------------------------------------
(* The inductive invariant.                                                *)

Active(a) == task[a] # None

\* Before the repair has ended no request is served.
IdleInv == ~ready => ~Active("start") /\ ~Active("execute") /\ ~Active("review") /\ running = None

NoSave(todo) == \A i \in DOMAIN todo : todo[i].kind # "save"

\* The repair: a run is held as it is saved, but for its end; what was running has been
\* interrupted, and then what was untold has been told.
InitInv == Active("init") =>
  LET t == task["init"] IN
  /\ ~ready /\ t.at \in {"interrupt", "repair", "serve"}
  /\ t.at = "interrupt" => \/ t.todo = <<>>
                           \/ /\ t.run \in Runs /\ runs[t.run] # None
                              /\ t.mine \in RunRecords /\ t.mine.reviews = runs[t.run].reviews
  /\ t.at # "interrupt" => NoSave(t.todo) /\ StillRunning = {}
  /\ t.at = "serve" => Untold = {}

\* A start excludes an execution; the run it has begun is new or saved without a review.
StartInv == Active("start") =>
  LET t == task["start"] IN
  /\ running = None /\ ~Active("execute") /\ t.at \in {"projects", "begin"}
  /\ t.at = "projects" => t.run = None /\ t.todo = <<>>
  /\ t.at = "begin" =>
       /\ t.run \in Runs /\ t.mine \in RunRecords /\ t.mine.reviews = 0
       /\ IF runs[t.run] = None THEN Do("start", "save") ELSE runs[t.run].reviews = 0

\* An execution holds the reviews of the saved run; at its end the run is saved as ended, or
\* that save comes next.
ExecuteInv == Active("execute") =>
  LET t == task["execute"] IN
  /\ t.run \in Runs /\ running = t.run /\ runs[t.run] # None
  /\ t.mine \in RunRecords /\ t.mine.reviews = runs[t.run].reviews
  /\ t.at \in {"complete", "ended"} =>
       t.mine.status # "running" /\ (Do("execute", "save") \/ runs[t.run].status # "running")

\* A review excludes a start and an execution; it holds the saved run, or one review more if
\* the run is the latest that succeeded.
ReviewInv == Active("review") =>
  LET t == task["review"] IN
  /\ ready /\ running = None /\ ~Active("start") /\ ~Active("execute")
  /\ t.run \in Runs /\ runs[t.run] # None
  /\ t.at = "detail" => t.todo = <<>>
  /\ t.at # "detail" =>
       /\ t.mine \in RunRecords /\ t.mine.status = runs[t.run].status
       /\ \/ t.mine.reviews = runs[t.run].reviews
          \/ t.mine.reviews = runs[t.run].reviews + 1 /\ t.run = Max(Succeeded)

\* The runs are saved by number; a start that is prepared has its number left.
Preparing == Active("start") /\ (task["start"].at = "projects" \/ runs[task["start"].run] = None)
CountInv == \E n \in Nat :
  /\ SavedRuns = 1..n
  /\ n + budget.starts + (IF Preparing THEN 1 ELSE 0) <= MaxRuns
  /\ Preparing /\ task["start"].at = "begin" => task["start"].run = n + 1

\* What is marked is a prefix of the outbox; the history is at most one event ahead of it, and
\* the delivery has the rest of its snapshot left.
FeedShape == /\ feed \in Seq(Events) /\ heard \in Seq(Events) /\ IsInjective(feed)
             /\ Len(heard) <= Len(feed) /\ \A i \in 1..Len(heard) : heard[i] = feed[i]
Marked(d) == /\ d <= Len(heard) /\ Len(heard) <= d + 1
             /\ delivered = {feed[i] : i \in 1..d}
Delivers(d) == delivery # None =>
  /\ delivery.taken \in BOOLEAN
  /\ delivery.taken => Len(heard) = d + 1
  /\ \E m \in Nat : d < m /\ m <= Len(feed) /\ delivery = [left |-> (d + 1)..m, taken |-> delivery.taken]
FeedInv == FeedShape /\ \E d \in Nat : Marked(d) /\ Delivers(d)

CoreInv == /\ AgentTypes /\ IdleInv /\ InitInv /\ StartInv /\ ExecuteInv /\ ReviewInv
           /\ CountInv /\ OneAnalysis
AgentsInv == CoreInv /\ FeedInv

-----------------------------------------------------------------------------
(* The least and the greatest element of a set of numbers.                 *)

LEMMA MinOfInterval ==
  ASSUME NEW d \in Nat, NEW m \in Nat, d < m
  PROVE  Min((d + 1)..m) = d + 1
  <1>1. d + 1 \in (d + 1)..m /\ \A y \in (d + 1)..m : d + 1 <= y
    OBVIOUS
  <1>2. \A x \in (d + 1)..m : (\A y \in (d + 1)..m : x <= y) => x = d + 1
    BY <1>1
  <1> QED
    BY <1>1, <1>2 DEF Min

LEMMA MaxIsIn ==
  ASSUME NEW n \in Nat, NEW S \in SUBSET (1..n), S # {}
  PROVE  Max(S) \in S
  <1> DEFINE R == {ss \in Nat \X Nat : ss[1] < ss[2]}
  <1> DEFINE gaps == {n - x : x \in S}
  <1>1. IsWellFoundedOn(R, Nat)
    BY NatLessThanWellFounded DEF OpToRel
  <1>2. gaps \subseteq Nat /\ gaps # {}
    <2>1. \A x \in S : n - x \in Nat
      OBVIOUS
    <2>2. \E x \in S : n - x \in gaps
      OBVIOUS
    <2> QED
      BY <2>1, <2>2
  <1>3. PICK g \in gaps : \A y \in gaps : <<y, g>> \notin R
    <2> HIDE DEF R, gaps
    <2> QED BY <1>1, <1>2, WFMin
  <1>4. \A y \in gaps : y < g => <<y, g>> \in R
    BY <1>2
  <1>5. \A y \in gaps : ~(y < g)
    <2> HIDE DEF R, gaps
    <2> QED BY <1>3, <1>4
  <1>6. PICK x \in S : g = n - x
    OBVIOUS
  <1>7. \A y \in S : x >= y
    BY <1>5, <1>6
  <1> QED
    BY <1>7 DEF Max

-----------------------------------------------------------------------------
(* The outbox.                                                             *)

LEMMA FeedStays ==
  ASSUME FeedInv, UNCHANGED <<feed, heard, delivered>>, delivery' \in {delivery, None}
  PROVE  FeedInv'
  BY DEF FeedInv, FeedShape, Marked, Delivers

LEMMA FeedPut ==
  ASSUME FeedInv, NEW e \in Events, feed' = IF e \in Range(feed) THEN feed ELSE Append(feed, e),
         UNCHANGED <<heard, delivered, delivery>>
  PROVE  FeedInv'
  <1>1. CASE e \in Range(feed)
    BY <1>1, FeedStays
  <1>2. CASE e \notin Range(feed)
    <2>1. feed \in Seq(Events) /\ heard \in Seq(Events) /\ IsInjective(feed) /\ feed' = Append(feed, e)
      BY <1>2 DEF FeedInv, FeedShape
    <2>2. feed' \in Seq(Events) /\ Len(feed') = Len(feed) + 1 /\ \A i \in 1..Len(feed) : feed'[i] = feed[i]
      BY <2>1
    <2>3. feed'[Len(feed) + 1] = e
      BY <2>1
    <2>4. \A i \in 1..Len(feed) : feed[i] # e
      BY <1>2, <2>1 DEF Range
    <2>5. IsInjective(feed')
      <3>1. DOMAIN feed' = 1..(Len(feed) + 1) /\ DOMAIN feed = 1..Len(feed) /\ Len(feed) \in Nat
        BY <2>1, <2>2
      <3>2. \A i, j \in 1..Len(feed) : feed[i] = feed[j] => i = j
        BY <2>1, <3>1 DEF IsInjective
      <3>3. \A i \in 1..(Len(feed) + 1) : i \in 1..Len(feed) \/ i = Len(feed) + 1
        BY <3>1
      <3> QED
        BY <2>2, <2>3, <2>4, <3>1, <3>2, <3>3 DEF IsInjective
    <2>6. Len(heard) <= Len(feed') /\ \A i \in 1..Len(heard) : heard[i] = feed'[i]
      <3>1. Len(heard) <= Len(feed) /\ \A i \in 1..Len(heard) : heard[i] = feed[i]
        BY DEF FeedInv, FeedShape
      <3> QED
        BY <2>1, <2>2, <3>1
    <2>7. PICK d \in Nat : Marked(d) /\ Delivers(d)
      BY DEF FeedInv
    <2>8. d <= Len(feed)
      BY <2>1, <2>7 DEF FeedInv, FeedShape, Marked
    <2>9. {feed'[i] : i \in 1..d} = {feed[i] : i \in 1..d}
      BY <2>1, <2>2, <2>8
    <2>10. Marked(d)'
      BY <2>7, <2>9 DEF Marked
    <2>11. Delivers(d)'
      <3>1. \A m \in Nat : m <= Len(feed) => m <= Len(feed')
        BY <2>1, <2>2
      <3> QED
        BY <2>7, <3>1 DEF Delivers
    <2>12. FeedShape'
      BY <2>1, <2>2, <2>5, <2>6 DEF FeedShape
    <2> QED
      BY <2>10, <2>11, <2>12 DEF FeedInv
  <1> QED
    BY <1>1, <1>2

LEMMA FeedBegins ==
  ASSUME FeedInv, delivery' = NextDelivery, UNCHANGED <<feed, heard, delivered>>
  PROVE  FeedInv'
  <1>1. CASE delivery' \in {delivery, None}
    BY <1>1, FeedStays
  <1>2. CASE delivery = None /\ Pending # {} /\ delivery' = [left |-> Pending, taken |-> FALSE]
    <2>1. feed \in Seq(Events) /\ heard \in Seq(Events) /\ IsInjective(feed) /\ Len(heard) <= Len(feed)
      BY DEF FeedInv, FeedShape
    <2>2. PICK d \in Nat : Marked(d)
      BY DEF FeedInv
    <2>3. DOMAIN feed = 1..Len(feed) /\ Len(feed) \in Nat /\ d <= Len(feed)
      BY <2>1, <2>2 DEF Marked
    <2>4. delivered = {feed[i] : i \in 1..d}
      BY <2>2 DEF Marked
    <2>5. \A i \in 1..Len(feed) : feed[i] \in delivered => i \in 1..d
      BY <2>1, <2>3, <2>4 DEF IsInjective
    <2>6. Pending = (d + 1)..Len(feed)
      BY <2>3, <2>4, <2>5 DEF Pending
    <2>7. d < Len(feed)
      BY <1>2, <2>3, <2>6
    <2>8. delivery' = [left |-> (d + 1)..Len(feed), taken |-> FALSE]
      BY <1>2, <2>6
    <2>9. Marked(d)'
      BY <2>2 DEF Marked
    <2>10. Delivers(d)'
      <3>1. delivery' # None => delivery'.taken = FALSE
        BY <2>8
      <3>2. delivery' # None =>
              \E m \in Nat : d < m /\ m <= Len(feed') /\ delivery' = [left |-> (d + 1)..m, taken |-> delivery'.taken]
        <4>1. Len(feed) \in Nat /\ Len(feed') = Len(feed)
          BY <2>3
        <4>2. delivery' = [left |-> (d + 1)..Len(feed), taken |-> delivery'.taken]
          BY <2>8
        <4>3. d < Len(feed) /\ Len(feed) <= Len(feed')
          BY <2>7, <4>1
        <4> QED
          BY <4>1, <4>2, <4>3
      <3> QED
        BY <3>1, <3>2 DEF Delivers
    <2>11. FeedShape'
      BY DEF FeedInv, FeedShape
    <2> QED
      BY <2>9, <2>10, <2>11 DEF FeedInv
  <1> QED
    BY <1>1, <1>2 DEF NextDelivery

\* The event whose turn it is is the first that is not marked.
LEMMA Turn ==
  ASSUME FeedInv, delivery # None
  PROVE  \E d, m \in Nat : /\ Marked(d) /\ Delivers(d) /\ d < m /\ m <= Len(feed) /\ delivery.left = (d + 1)..m
                           /\ delivery = [left |-> (d + 1)..m, taken |-> delivery.taken]
                           /\ Position = d + 1 /\ feed[Position] \in Events
  <1>1. PICK d \in Nat : Marked(d) /\ Delivers(d)
    BY DEF FeedInv
  <1>2. PICK m \in Nat : d < m /\ m <= Len(feed) /\ delivery = [left |-> (d + 1)..m, taken |-> delivery.taken]
    BY <1>1 DEF Delivers
  <1>3. delivery.left = (d + 1)..m
    BY <1>2
  <1>4. Position = d + 1
    BY <1>2, <1>3, MinOfInterval DEF Position
  <1>5. feed[d + 1] \in Events
    BY <1>2 DEF FeedInv, FeedShape
  <1> QED
    BY <1>1, <1>2, <1>3, <1>4, <1>5

\* The history takes the event, unless it has it.
LEMMA FeedHears ==
  ASSUME FeedInv, delivery # None, ~delivery.taken, heard' = heard \/ Hear(feed[Position]), UNCHANGED <<feed, delivered>>,
         \/ delivery' = None
         \/ delivery' = [delivery EXCEPT !.taken = TRUE] /\ Hear(feed[Position])
  PROVE  FeedInv'
  <1>1. PICK d, m \in Nat : /\ Marked(d) /\ Delivers(d) /\ d < m /\ m <= Len(feed)
                            /\ delivery = [left |-> (d + 1)..m, taken |-> delivery.taken]
                            /\ Position = d + 1 /\ feed[Position] \in Events
    BY Turn
  <1>2. feed \in Seq(Events) /\ heard \in Seq(Events) /\ Len(heard) <= Len(feed) /\ \A i \in 1..Len(heard) : heard[i] = feed[i]
    BY DEF FeedInv, FeedShape
  <1>3. DOMAIN feed = 1..Len(feed) /\ DOMAIN heard = 1..Len(heard) /\ Len(heard) \in Nat /\ Len(feed) \in Nat
    BY <1>2
  <1>4. d <= Len(heard) /\ Len(heard) <= d + 1
    BY <1>1 DEF Marked
  <1>5. Hear(feed[Position]) =>
          /\ heard' \in Seq(Events) /\ Len(heard') = d + 1 /\ \A i \in 1..(d + 1) : heard'[i] = feed[i]
    <2> SUFFICES ASSUME Hear(feed[Position])
                 PROVE  heard' \in Seq(Events) /\ Len(heard') = d + 1 /\ \A i \in 1..(d + 1) : heard'[i] = feed[i]
      OBVIOUS
    <2>1. heard' = IF feed[d + 1] \in Range(heard) THEN heard ELSE Append(heard, feed[d + 1])
      BY <1>1 DEF Hear
    <2>2. CASE Len(heard) = d + 1
      <3>1. feed[d + 1] \in Range(heard)
        BY <1>2, <1>3, <2>2 DEF Range
      <3> QED
        BY <1>2, <2>1, <2>2, <3>1
    <2>3. CASE Len(heard) = d
      <3>1. feed[d + 1] \notin Range(heard)
        BY <1>1, <1>2, <1>3, <2>3 DEF FeedInv, FeedShape, IsInjective, Range
      <3>2. heard' = Append(heard, feed[d + 1])
        BY <2>1, <3>1
      <3>3. feed[d + 1] \in Events
        BY <1>1
      <3>4. heard' \in Seq(Events) /\ Len(heard') = Len(heard) + 1 /\ heard'[Len(heard) + 1] = feed[d + 1]
            /\ \A i \in 1..Len(heard) : heard'[i] = heard[i]
        BY <1>2, <3>2, <3>3
      <3>5. \A i \in 1..(d + 1) : i \in 1..Len(heard) \/ i = d + 1
        BY <2>3
      <3> QED
        BY <1>2, <2>3, <3>4, <3>5
    <2> QED
      BY <1>3, <1>4, <2>2, <2>3
  <1>6. heard' \in Seq(Events) /\ Len(heard') <= Len(feed) /\ d <= Len(heard') /\ Len(heard') <= d + 1
        /\ \A i \in 1..Len(heard') : heard'[i] = feed[i]
    <2>1. CASE heard' = heard
      BY <1>2, <1>4, <2>1
    <2>2. CASE Hear(feed[Position])
      BY <1>1, <1>3, <1>5, <2>2
    <2> QED
      BY <2>1, <2>2
  <1>7. delivery' # None =>
          delivery' = [left |-> (d + 1)..m, taken |-> TRUE] /\ Len(heard') = d + 1
    BY <1>1, <1>5
  <1>8. Delivers(d)'
    <2>1. Len(feed') = Len(feed) /\ (delivery' # None => delivery'.taken = TRUE)
      BY <1>7
    <2>2. delivery' # None => \E n \in Nat : d < n /\ n <= Len(feed) /\ delivery' = [left |-> (d + 1)..n, taken |-> TRUE]
      BY <1>1, <1>7
    <2> QED
      BY <1>7, <2>1, <2>2 DEF Delivers
  <1>9. Marked(d)'
    BY <1>1, <1>6 DEF Marked
  <1>10. FeedShape'
    BY <1>2, <1>6 DEF FeedInv, FeedShape
  <1> QED
    BY <1>8, <1>9, <1>10 DEF FeedInv

\* A mark: the delivery goes on with the next event, or ends.
LEMMA FeedMarks ==
  ASSUME FeedInv, delivery # None, delivery.taken, delivered' = delivered \cup {feed[Position]},
         delivery' = Ended, UNCHANGED <<feed, heard>>
  PROVE  FeedInv'
  <1>1. PICK d, m \in Nat : /\ Marked(d) /\ Delivers(d) /\ d < m /\ m <= Len(feed) /\ delivery.left = (d + 1)..m
                            /\ delivery = [left |-> (d + 1)..m, taken |-> delivery.taken]
                            /\ Position = d + 1
    BY Turn
  <1>2. Len(heard) = d + 1 /\ delivered = {feed[i] : i \in 1..d}
    BY <1>1 DEF Marked, Delivers
  <1>3. delivered' = {feed[i] : i \in 1..(d + 1)}
    <2>1. \A i : i \in 1..(d + 1) <=> i \in 1..d \/ i = d + 1
      OBVIOUS
    <2> QED
      BY <1>1, <1>2, <2>1
  <1>4. delivery.left \ {Position} = (d + 2)..m
    BY <1>1
  <1>5. delivery' = IF (d + 2)..m = {} THEN None ELSE [left |-> (d + 2)..m, taken |-> FALSE]
    BY <1>4 DEF Ended
  <1>6. delivery' # None => d + 1 < m /\ delivery' = [left |-> (d + 2)..m, taken |-> FALSE]
    BY <1>5
  <1> DEFINE e == d + 1
  <1>7. e \in Nat /\ Marked(e)'
    <2>1. Len(heard) = e /\ e \in Nat
      BY <1>2
    <2>2. delivered' = {feed[i] : i \in 1..e}
      BY <1>3
    <2> HIDE DEF e
    <2>3. e <= Len(heard) /\ Len(heard) <= e + 1
      BY <2>1
    <2> QED
      BY <2>1, <2>2, <2>3 DEF Marked
  <1>8. delivery' # None => e < m /\ delivery' = [left |-> (e + 1)..m, taken |-> FALSE]
    <2>1. e + 1 = d + 2
      OBVIOUS
    <2> HIDE DEF e
    <2> QED
      BY <1>1, <1>6, <2>1 DEF e
  <1> HIDE DEF e
  <1>9. Delivers(e)'
    <2>1. Len(feed') = Len(feed) /\ (delivery' # None => delivery'.taken = FALSE)
      BY <1>8
    <2>2. delivery' # None => \E n \in Nat : e < n /\ n <= Len(feed) /\ delivery' = [left |-> (e + 1)..n, taken |-> FALSE]
      BY <1>1, <1>8
    <2> QED
      BY <2>1, <2>2 DEF Delivers
  <1>10. FeedShape'
    BY DEF FeedInv, FeedShape
  <1> QED
    BY <1>7, <1>9, <1>10 DEF FeedInv

-----------------------------------------------------------------------------
(* What a handler waits for, and the runs it holds.                        *)

Budgeted == {"starts", "failures", "failingWrites", "crashes", "changes", "reviews"}

LEMMA SpendType ==
  ASSUME budget \in Plans, NEW what \in Budgeted, Spend(what)
  PROVE  /\ budget' \in Plans /\ budget[what] \in Nat /\ budget[what] > 0
         /\ budget'.starts = IF what = "starts" THEN budget.starts - 1 ELSE budget.starts
  BY DEF Spend, Plans, Budgeted

LEMMA TodoTail ==
  ASSUME NEW todo \in Seq(Awaited), todo # <<>>
  PROVE  /\ Head(todo) \in Awaited /\ Tail(todo) \in Seq(Awaited)
         /\ NoSave(todo) => Head(todo).kind # "save" /\ NoSave(Tail(todo))
  <1>1. Head(todo) = todo[1] /\ Len(todo) \in Nat /\ Len(todo) >= 1 /\ todo[1] \in Awaited /\ 1 \in DOMAIN todo
    OBVIOUS
  <1>2. Tail(todo) \in Seq(Awaited) /\ DOMAIN Tail(todo) = 1..(Len(todo) - 1)
        /\ \A i \in 1..(Len(todo) - 1) : Tail(todo)[i] = todo[i + 1] /\ i + 1 \in DOMAIN todo
    OBVIOUS
  <1> QED
    BY <1>1, <1>2 DEF NoSave

LEMMA AwaitedItems == Effect("save", None) \in Awaited /\ Effect("deliver", None) \in Awaited /\ Effect("join", None) \in Awaited
  BY DEF Effect, Awaited

LEMMA TodoPrefix ==
  ASSUME NEW todo \in Seq(Awaited), NEW item \in Awaited
  PROVE  /\ <<item>> \o todo \in Seq(Awaited) /\ <<item>> \o todo # <<>> /\ Head(<<item>> \o todo) = item
         /\ item.kind # "save" /\ NoSave(todo) => NoSave(<<item>> \o todo)
  <1>1. <<item>> \o todo \in Seq(Awaited) /\ Len(<<item>> \o todo) = Len(todo) + 1 /\ (<<item>> \o todo)[1] = item
    OBVIOUS
  <1>2. <<item>> \o todo # <<>> /\ Head(<<item>> \o todo) = item
    BY <1>1
  <1>3. DOMAIN (<<item>> \o todo) = 1..(Len(todo) + 1)
    BY <1>1
  <1>4. \A i \in 2..(Len(todo) + 1) : (<<item>> \o todo)[i] = todo[i - 1] /\ i - 1 \in DOMAIN todo
    OBVIOUS
  <1>5. \A i \in 1..(Len(todo) + 1) : i = 1 \/ i \in 2..(Len(todo) + 1)
    OBVIOUS
  <1>6. item.kind # "save" /\ NoSave(todo) => NoSave(<<item>> \o todo)
    BY <1>1, <1>3, <1>4, <1>5 DEF NoSave
  <1> QED
    BY <1>1, <1>2, <1>6

LEMMA TodoTold ==
  ASSUME NEW e \in Events
  PROVE  Told(e) \in Seq(Awaited) /\ NoSave(Told(e))
  <1>1. Effect("tell", e) \in Awaited /\ Effect("deliver", None) \in Awaited
    BY DEF Effect, Awaited
  <1>2. Told(e) \in Seq(Awaited)
    BY <1>1 DEF Told
  <1>3. NoSave(Told(e))
    BY DEF NoSave, Told, Effect
  <1> QED
    BY <1>2, <1>3

\* A save comes first.
SaveFirst(todo) == todo # <<>> /\ Head(todo).kind = "save"

LEMMA TodoSaved ==
  ASSUME NEW todo \in Seq(Awaited)
  PROVE  Saving \o todo \in Seq(Awaited) /\ SaveFirst(Saving \o todo)
  <1>1. Saving = <<Effect("save", None)>> /\ Effect("save", None).kind = "save"
    BY DEF Saving, Effect
  <1> QED
    BY <1>1, AwaitedItems, TodoPrefix DEF SaveFirst

LEMMA TodoSaving == Saving \in Seq(Awaited) /\ SaveFirst(Saving) /\ <<>> \in Seq(Awaited)
  <1>1. Saving = <<Effect("save", None)>> /\ Effect("save", None).kind = "save"
    BY DEF Saving, Effect
  <1> QED
    BY <1>1, AwaitedItems DEF SaveFirst

LEMMA EventType ==
  ASSUME NEW r \in Runs, NEW what \in EventKinds, NEW n \in Nat
  PROVE  Event(r, what, n) \in Events
  BY DEF Event, Events

LEMMA TodoProgress ==
  ASSUME NEW r \in Runs, NEW run \in RunRecords
  PROVE  Progress(r, run) \in Seq(Awaited) /\ SaveFirst(Progress(r, run))
  <1>1. run.stages + 1 \in Nat
    BY DEF RunRecords
  <1>2. Event(r, "stage", run.stages + 1) \in Events
    BY <1>1, EventType DEF EventKinds
  <1>3. Told(Event(r, "stage", run.stages + 1)) \in Seq(Awaited)
    BY <1>2, TodoTold
  <1> QED
    BY <1>3, TodoSaved DEF Progress

LEMMA RunFields ==
  ASSUME NEW run \in RunRecords
  PROVE  /\ run.status \in {"running", "succeeded", "failed", "interrupted"} /\ run.stages \in Nat
         /\ run.calls \in Seq(ModelCalls) /\ run.outcome \in {None, "aligned", "difference"} /\ run.reviews \in Nat
         /\ run.config \in Nat /\ run.context \in Nat \cup {None} /\ run.knowledge \in Nat \cup {None}
  BY DEF RunRecords

\* A step of a run keeps its reviews.
LEMMA ProgressedType ==
  ASSUME NEW run \in RunRecords
  PROVE  Progressed(run) \in RunRecords /\ Progressed(run).reviews = run.reviews /\ Progressed(run).status = run.status
  BY DEF Progressed, RunRecords

LEMMA FailedType ==
  ASSUME NEW run \in RunRecords
  PROVE  Failed(run) \in RunRecords /\ Failed(run).reviews = run.reviews /\ Failed(run).status = "failed"
  BY DEF Failed, RunRecords

LEMMA CallsType ==
  ASSUME NEW run \in RunRecords, NEW calls \in Seq(ModelCalls)
  PROVE  [run EXCEPT !.calls = calls] \in RunRecords /\ [run EXCEPT !.calls = calls].reviews = run.reviews
         /\ [run EXCEPT !.calls = calls].status = run.status
  <1>1. \A c \in {calls} : c \in Seq(ModelCalls) => [run EXCEPT !.calls = c] \in RunRecords
    BY DEF RunRecords
  <1> QED
    BY <1>1 DEF RunRecords

LEMMA InterruptedType ==
  ASSUME NEW run \in RunRecords
  PROVE  Interrupted(run) \in RunRecords /\ Interrupted(run).reviews = run.reviews
  <1> DEFINE calls == [n \in DOMAIN run.calls |->
                         IF run.calls[n].status = "running"
                         THEN [run.calls[n] EXCEPT !.status = "interrupted"] ELSE run.calls[n]]
  <1> DEFINE ended == [run EXCEPT !.status = "interrupted"]
  <1>1. run.calls \in Seq(ModelCalls)
    BY RunFields
  <1>2. DOMAIN run.calls = 1..Len(run.calls) /\ Len(run.calls) \in Nat /\ \A n \in 1..Len(run.calls) : run.calls[n] \in ModelCalls
    BY <1>1
  <1>3. \A c \in ModelCalls : [c EXCEPT !.status = "interrupted"] \in ModelCalls
    BY DEF ModelCalls
  <1>4. \A n \in 1..Len(run.calls) : calls[n] \in ModelCalls
    BY <1>2, <1>3
  <1>5. calls \in [1..Len(run.calls) -> ModelCalls]
    BY <1>2, <1>4
  <1>6. calls \in Seq(ModelCalls)
    <2> HIDE DEF calls
    <2> QED
      BY <1>2, <1>5
  <1>7. ended \in RunRecords /\ ended.reviews = run.reviews
    BY DEF RunRecords
  <1>8. Interrupted(run) = [ended EXCEPT !.calls = calls]
    <2>1. Interrupted(run) = [run EXCEPT !.status = "interrupted", !.calls = calls]
      BY DEF Interrupted
    <2> HIDE DEF calls
    <2> QED
      BY <2>1 DEF RunRecords
  <1> HIDE DEF calls, ended
  <1> QED
    BY <1>6, <1>7, <1>8, CallsType

\* A handler has its parts, and is one.
LEMMA HandlingType ==
  ASSUME NEW t \in Handling
  PROVE  /\ t.run \in Runs \cup {None} /\ t.at \in Stops /\ t.todo \in Seq(Awaited) /\ t.mine \in RunRecords \cup {None}
         /\ \A todo \in Seq(Awaited) : LET u == [t EXCEPT !.todo = todo] IN
               u \in Handling /\ u.run = t.run /\ u.at = t.at /\ u.mine = t.mine /\ u.todo = todo
  <1>1. t.run \in Runs \cup {None} /\ t.at \in Stops /\ t.todo \in Seq(Awaited) /\ t.mine \in RunRecords \cup {None}
    BY DEF Handling
  <1>2. \A S : \A todo \in S : t.todo \in S => [t EXCEPT !.todo = todo] \in [run : Runs \cup {None}, at : Stops, todo : S, mine : RunRecords \cup {None}]
    BY DEF Handling
  <1>3. \A todo : LET u == [t EXCEPT !.todo = todo] IN u.run = t.run /\ u.at = t.at /\ u.mine = t.mine /\ u.todo = todo
    BY DEF Handling
  <1> QED
    BY <1>1, <1>2, <1>3 DEF Handling

LEMMA TaskType ==
  ASSUME NEW r \in Runs \cup {None}, NEW at \in Stops, NEW todo \in Seq(Awaited), NEW run \in RunRecords \cup {None}
  PROVE  LET t == Task(r, at, todo, run) IN
         t \in Handling /\ t.run = r /\ t.at = at /\ t.todo = todo /\ t.mine = run
  <1>1. \A S : todo \in S => [run |-> r, at |-> at, todo |-> todo, mine |-> run] \in
                            [run : Runs \cup {None}, at : Stops, todo : S, mine : RunRecords \cup {None}]
    OBVIOUS
  <1> QED
    BY <1>1 DEF Task, Handling

-----------------------------------------------------------------------------
(* What a step leaves alone.                                               *)

LEMMA SavedSets ==
  ASSUME runs' = runs
  PROVE  SavedRuns' = SavedRuns /\ StillRunning' = StillRunning /\ Succeeded' = Succeeded
  BY DEF SavedRuns, StillRunning, Succeeded

\* With more events in the outbox no call of the saved runs becomes untold.
LEMMA StaysTold ==
  ASSUME runs' = runs, Range(feed) \subseteq Range(feed'), Untold = {}
  PROVE  Untold' = {}
  <1>1. Untold' \subseteq Untold
    BY SavedSets DEF Untold
  <1> QED
    BY <1>1

LEMMA InitStays ==
  ASSUME InitInv, task'["init"] \in {task["init"], None}, UNCHANGED <<ready, runs, feed>>
  PROVE  InitInv'
  <1> SUFFICES ASSUME Active("init")' PROVE InitInv'
    BY DEF InitInv
  <1>1. task'["init"] = task["init"] /\ Active("init")
    BY DEF Active
  <1>2. StillRunning' = StillRunning
    BY SavedSets
  <1>3. Untold = {} => Untold' = {}
    BY StaysTold
  <1> QED
    BY <1>1, <1>2, <1>3 DEF InitInv, Active

LEMMA StartStays ==
  ASSUME StartInv, task'["start"] \in {task["start"], None}, task'["execute"] \in {task["execute"], None},
         UNCHANGED <<running, runs>>
  PROVE  StartInv'
  BY DEF StartInv, Active, Do

LEMMA ExecuteStays ==
  ASSUME ExecuteInv, task'["execute"] \in {task["execute"], None}, UNCHANGED <<running, runs>>
  PROVE  ExecuteInv'
  BY DEF ExecuteInv, Active, Do

LEMMA ReviewStays ==
  ASSUME ReviewInv, task'["review"] \in {task["review"], None}, task'["start"] \in {task["start"], None},
         task'["execute"] \in {task["execute"], None}, UNCHANGED <<ready, running, runs>>
  PROVE  ReviewInv'
  <1>1. Succeeded' = Succeeded
    BY SavedSets
  <1> QED
    BY <1>1 DEF ReviewInv, Active

LEMMA CountStays ==
  ASSUME AgentsAssumption, CountInv, budget.starts \in Nat, budget'.starts = budget.starts,
         task'["start"] \in {task["start"], None}, runs' = runs
  PROVE  CountInv'
  <1>1. PICK n \in Nat : /\ SavedRuns = 1..n /\ n + budget.starts + (IF Preparing THEN 1 ELSE 0) <= MaxRuns
                         /\ Preparing /\ task["start"].at = "begin" => task["start"].run = n + 1
    BY DEF CountInv
  <1>2. SavedRuns' = 1..n
    BY <1>1, SavedSets
  <1>3. Preparing' => Preparing /\ task'["start"] = task["start"]
    BY DEF Preparing, Active
  <1>4. n + budget'.starts + (IF Preparing' THEN 1 ELSE 0) <= MaxRuns
    <2>1. CASE Preparing'
      BY <1>1, <1>3, <2>1
    <2>2. CASE ~Preparing'
      <3>1. n + budget.starts + 0 <= MaxRuns
        BY <1>1 DEF AgentsAssumption
      <3> QED
        BY <2>2, <3>1
    <2> QED
      BY <2>1, <2>2
  <1> QED
    BY <1>1, <1>2, <1>3, <1>4 DEF CountInv

\* The one that runs stays with its owner.
LEMMA OwnerStays ==
  ASSUME OneAnalysis, runs' = runs, ready' /\ ~broken' => ready /\ ~broken,
         \A a \in {"start", "execute"} : task[a] # None => task'[a] # None /\ task'[a].run = task[a].run
  PROVE  OneAnalysis'
  <1>1. StillRunning' = StillRunning
    BY SavedSets
  <1> QED
    BY <1>1 DEF OneAnalysis

\* The core invariant, in parts.
LEMMA CoreParts ==
  ASSUME CoreInv
  PROVE  /\ AgentTypes /\ IdleInv /\ InitInv /\ StartInv /\ ExecuteInv /\ ReviewInv /\ CountInv /\ OneAnalysis
         /\ runs \in [Runs -> RunRecords \cup {None}] /\ task \in [Actors -> Handling \cup {None}]
         /\ budget \in Plans /\ budget.starts \in Nat
         /\ ready \in BOOLEAN /\ broken \in BOOLEAN
  BY DEF CoreInv, AgentTypes, Plans

\* What changes around the handlers.
WorldTypes == config \in [version : Nat, enabled : BOOLEAN] /\ context \in Nat /\ knowledge \in Nat

LEMMA WorldStays == ASSUME AgentTypes, UNCHANGED world PROVE WorldTypes'
  BY DEF AgentTypes, WorldTypes, world

\* A handler has waited for an effect that is not a save, or stays.
Waited(a, t) ==
  \/ t = task[a]
  \/ /\ task[a] # None /\ task[a].todo # <<>> /\ ~Do(a, "save")
     /\ t \in Handling /\ t.run = task[a].run /\ t.at = task[a].at /\ t.mine = task[a].mine
     /\ NoSave(task[a].todo) => NoSave(t.todo)

LEMMA Waits ==
  ASSUME AgentsAssumption, CoreInv, NEW next \in [Actors -> Handling \cup {None}], task' = next,
         \A a \in Actors : Waited(a, next[a]),
         UNCHANGED <<runs, ready, running, broken>>, Range(feed) \subseteq Range(feed'),
         WorldTypes', budget' \in Plans, budget'.starts = budget.starts
  PROVE  CoreInv'
  <1>1. \A a \in Actors : next[a] = None <=> task[a] = None
    BY DEF Waited, AgentsAssumption
  <1>2. \A a \in Actors : task[a] # None => next[a].run = task[a].run /\ next[a].at = task[a].at /\ next[a].mine = task[a].mine
    BY DEF Waited
  <1>3. \A a \in Actors : task[a] # None /\ (task[a].todo = <<>> \/ Do(a, "save")) => next[a] = task[a]
    BY DEF Waited
  <1>4. StillRunning' = StillRunning /\ Succeeded' = Succeeded /\ SavedRuns' = SavedRuns
    BY SavedSets
  <1>5. AgentTypes'
    BY CoreParts DEF AgentTypes, WorldTypes
  <1>6. IdleInv'
    BY <1>1, CoreParts DEF IdleInv, Active, Actors
  <1>7. InitInv'
    <2> SUFFICES ASSUME next["init"] # None PROVE InitInv'
      BY DEF InitInv, Active
    <2>1. Active("init") /\ "init" \in Actors
      BY <1>1 DEF Active, Actors
    <2>2. next["init"].run = task["init"].run /\ next["init"].at = task["init"].at /\ next["init"].mine = task["init"].mine
      BY <1>2, <2>1 DEF Active
    <2>3. task["init"].todo = <<>> => next["init"].todo = <<>>
      BY <1>3, <2>1 DEF Active
    <2>4. NoSave(task["init"].todo) => NoSave(next["init"].todo)
      BY <2>1 DEF Waited
    <2>5. Untold = {} => Untold' = {}
      BY StaysTold
    <2>6. InitInv
      BY CoreParts
    <2> QED
      BY <1>4, <2>1, <2>2, <2>3, <2>4, <2>5, <2>6 DEF InitInv, Active
  <1>8. StartInv'
    <2> SUFFICES ASSUME next["start"] # None PROVE StartInv'
      BY DEF StartInv, Active
    <2>1. Active("start") /\ "start" \in Actors /\ "execute" \in Actors
      BY <1>1 DEF Active, Actors
    <2>2. next["start"].run = task["start"].run /\ next["start"].at = task["start"].at /\ next["start"].mine = task["start"].mine
      BY <1>2, <2>1 DEF Active
    <2>3. task["start"].todo = <<>> \/ Do("start", "save") => next["start"] = task["start"]
      BY <1>3, <2>1 DEF Active
    <2>4. StartInv
      BY CoreParts
    <2>5. next["execute"] = None
      BY <1>1, <2>1, <2>4 DEF StartInv, Active
    <2> QED
      BY <2>1, <2>2, <2>3, <2>4, <2>5 DEF StartInv, Active, Do
  <1>9. ExecuteInv'
    <2> SUFFICES ASSUME next["execute"] # None PROVE ExecuteInv'
      BY DEF ExecuteInv, Active
    <2>1. Active("execute") /\ "execute" \in Actors
      BY <1>1 DEF Active, Actors
    <2>2. next["execute"].run = task["execute"].run /\ next["execute"].at = task["execute"].at /\ next["execute"].mine = task["execute"].mine
      BY <1>2, <2>1 DEF Active
    <2>3. Do("execute", "save") => next["execute"] = task["execute"]
      BY <1>3, <2>1 DEF Active
    <2>4. ExecuteInv
      BY CoreParts
    <2> QED
      BY <2>1, <2>2, <2>3, <2>4 DEF ExecuteInv, Active, Do
  <1>10. ReviewInv'
    <2> SUFFICES ASSUME next["review"] # None PROVE ReviewInv'
      BY DEF ReviewInv, Active
    <2>1. Active("review") /\ {"review", "start", "execute"} \subseteq Actors
      BY <1>1 DEF Active, Actors
    <2>2. next["review"].run = task["review"].run /\ next["review"].at = task["review"].at /\ next["review"].mine = task["review"].mine
      BY <1>2, <2>1 DEF Active
    <2>3. task["review"].todo = <<>> => next["review"].todo = <<>>
      BY <1>3, <2>1 DEF Active
    <2>4. ReviewInv
      BY CoreParts
    <2>5. next["start"] = None /\ next["execute"] = None
      BY <1>1, <2>1, <2>4 DEF ReviewInv, Active
    <2> QED
      BY <1>4, <2>1, <2>2, <2>3, <2>4, <2>5 DEF ReviewInv, Active
  <1>11. CountInv'
    <2>1. PICK n \in Nat : /\ SavedRuns = 1..n /\ n + budget.starts + (IF Preparing THEN 1 ELSE 0) <= MaxRuns
                           /\ Preparing /\ task["start"].at = "begin" => task["start"].run = n + 1
      BY CoreParts DEF CountInv
    <2>2. Preparing' <=> Preparing
      BY <1>1, <1>2 DEF Preparing, Active, Actors
    <2>3. Preparing' => next["start"].at = task["start"].at /\ next["start"].run = task["start"].run
      BY <1>2, <2>2 DEF Preparing, Active, Actors
    <2>4. n + budget'.starts + (IF Preparing' THEN 1 ELSE 0) <= MaxRuns
      BY <2>1, <2>2
    <2> QED
      BY <1>4, <2>1, <2>2, <2>3, <2>4 DEF CountInv
  <1>12. OneAnalysis'
    <2>1. \A a \in {"start", "execute"} : task[a] # None => task'[a] # None /\ task'[a].run = task[a].run
      BY <1>1, <1>2 DEF Actors
    <2> QED
      BY <2>1, CoreParts, OwnerStays
  <1> QED
    BY <1>5, <1>6, <1>7, <1>8, <1>9, <1>10, <1>11, <1>12 DEF CoreInv

-----------------------------------------------------------------------------
(* The effects that do not save, the delivery, and what changes around.    *)

\* The first effect is done.
LEMMA Tailed ==
  ASSUME CoreInv, NEW a \in Actors, task[a] # None, task[a].todo # <<>>, ~Do(a, "save")
  PROVE  [task[a] EXCEPT !.todo = Tail(@)] \in Handling /\ Waited(a, [task[a] EXCEPT !.todo = Tail(@)])
  <1>1. task[a] \in Handling
    BY CoreParts
  <1>2. task[a].todo \in Seq(Awaited)
    BY <1>1, HandlingType
  <1>3. Tail(task[a].todo) \in Seq(Awaited) /\ (NoSave(task[a].todo) => NoSave(Tail(task[a].todo)))
    BY <1>2, TodoTail
  <1> QED
    BY <1>1, <1>3, HandlingType DEF Waited

LEMMA OneWaits ==
  ASSUME CoreInv, NEW a \in Actors, NEW t \in Handling, Waited(a, t)
  PROVE  LET next == [task EXCEPT ![a] = t] IN
         next \in [Actors -> Handling \cup {None}] /\ \A b \in Actors : Waited(b, next[b])
  <1>1. task \in [Actors -> Handling \cup {None}]
    BY CoreParts
  <1>2. \A b \in Actors : Waited(b, task[b])
    BY DEF Waited
  <1> QED
    BY <1>1, <1>2

LEMMA PutEventStep ==
  ASSUME AgentsAssumption, AgentsInv, NEW a \in Actors, PutEvent(a)
  PROVE  AgentsInv'
  <1> DEFINE e == Head(task[a].todo).event
  <1> DEFINE t == [task[a] EXCEPT !.todo = Tail(@)]
  <1>1. CoreInv /\ FeedInv
    BY DEF AgentsInv
  <1>2. /\ Do(a, "tell") /\ feed' = (IF e \in Range(feed) THEN feed ELSE Append(feed, e))
        /\ task' = [task EXCEPT ![a] = t]
        /\ UNCHANGED <<runs, delivered, ready, running, delivery, broken, heard, config, context, knowledge, budget>>
    BY DEF PutEvent, Rest, Become, process, world
  <1>3. task[a] # None /\ task[a].todo # <<>> /\ Head(task[a].todo).kind = "tell" /\ ~Do(a, "save")
    BY <1>2 DEF Do
  <1>4. task[a] \in Handling /\ task[a].todo \in Seq(Awaited)
    BY <1>1, <1>3, CoreParts, HandlingType
  <1>5. e \in Events
    <2>1. Head(task[a].todo) \in Awaited
      BY <1>3, <1>4, TodoTail
    <2> QED
      BY <1>3, <2>1 DEF Awaited
  <1>6. t \in Handling /\ Waited(a, t)
    BY <1>1, <1>3, Tailed
  <1> HIDE DEF e, t
  <1>7. FeedInv'
    BY <1>1, <1>2, <1>5, FeedPut
  <1>8. Range(feed) \subseteq Range(feed')
    <2>1. feed \in Seq(Events)
      BY <1>1 DEF FeedInv, FeedShape
    <2>2. \A i \in DOMAIN feed : i \in DOMAIN Append(feed, e) /\ Append(feed, e)[i] = feed[i]
      BY <1>5, <2>1
    <2> QED
      BY <1>2, <2>2 DEF Range
  <1>9. WorldTypes' /\ budget' \in Plans /\ budget'.starts = budget.starts
    BY <1>1, <1>2, CoreParts, WorldStays DEF world
  <1>10. CoreInv'
    <2> DEFINE next == [task EXCEPT ![a] = t]
    <2>1. next \in [Actors -> Handling \cup {None}] /\ \A b \in Actors : Waited(b, next[b])
      BY <1>1, <1>6, OneWaits
    <2>2. task' = next
      BY <1>2
    <2> HIDE DEF next
    <2> QED
      BY <1>1, <1>2, <1>8, <1>9, <2>1, <2>2, Waits
  <1> QED
    BY <1>7, <1>10 DEF AgentsInv

LEMMA BeginDeliveryStep ==
  ASSUME AgentsAssumption, AgentsInv, NEW a \in Actors, BeginDelivery(a)
  PROVE  AgentsInv'
  <1> DEFINE done == [task[a] EXCEPT !.todo = Tail(@)]
  <1> DEFINE joined == [task[a] EXCEPT !.todo = <<Effect("join", None)>> \o Tail(@)]
  <1>1. CoreInv /\ FeedInv
    BY DEF AgentsInv
  <1>2. /\ Do(a, "deliver") /\ delivery' = NextDelivery
        /\ \E t \in {done, joined} : task' = [task EXCEPT ![a] = t]
        /\ UNCHANGED <<runs, feed, delivered, ready, running, broken, heard, config, context, knowledge, budget>>
    BY DEF BeginDelivery, Rest, Become, store, world
  <1>3. task[a] # None /\ task[a].todo # <<>> /\ ~Do(a, "save")
    BY <1>2 DEF Do
  <1>4. task[a] \in Handling /\ task[a].todo \in Seq(Awaited)
    BY <1>1, <1>3, CoreParts, HandlingType
  <1>5. done \in Handling /\ Waited(a, done)
    BY <1>1, <1>3, Tailed
  <1>6. joined \in Handling /\ Waited(a, joined)
    <2> DEFINE todo == <<Effect("join", None)>> \o Tail(task[a].todo)
    <2>1. Tail(task[a].todo) \in Seq(Awaited) /\ (NoSave(task[a].todo) => NoSave(Tail(task[a].todo)))
      BY <1>3, <1>4, TodoTail
    <2>2. Effect("join", None).kind # "save"
      BY DEF Effect
    <2>3. todo \in Seq(Awaited) /\ (NoSave(task[a].todo) => NoSave(todo))
      BY <2>1, <2>2, AwaitedItems, TodoPrefix
    <2>4. joined = [task[a] EXCEPT !.todo = todo]
      BY <1>4 DEF Handling
    <2> HIDE DEF todo, joined
    <2> QED
      BY <1>3, <1>4, <2>3, <2>4, HandlingType DEF Waited
  <1>7. PICK t : t \in {done, joined} /\ task' = [task EXCEPT ![a] = t]
    BY <1>2
  <1>8. t \in Handling /\ Waited(a, t)
    BY <1>5, <1>6, <1>7
  <1> HIDE DEF done, joined
  <1>9. FeedInv'
    BY <1>1, <1>2, FeedBegins
  <1>10. WorldTypes' /\ budget' \in Plans /\ budget'.starts = budget.starts /\ Range(feed) \subseteq Range(feed')
    BY <1>1, <1>2, CoreParts, WorldStays DEF world
  <1>11. CoreInv'
    <2> DEFINE next == [task EXCEPT ![a] = t]
    <2>1. next \in [Actors -> Handling \cup {None}] /\ \A b \in Actors : Waited(b, next[b])
      BY <1>1, <1>8, OneWaits
    <2>2. task' = next
      BY <1>7
    <2> HIDE DEF next
    <2> QED
      BY <1>1, <1>2, <1>10, <2>1, <2>2, Waits
  <1> QED
    BY <1>9, <1>11 DEF AgentsInv

\* Steps with all handlers where they are.
LEMMA Around ==
  ASSUME AgentsAssumption, CoreInv, UNCHANGED <<runs, feed, ready, running, broken, task>>,
         WorldTypes', budget' \in Plans, budget'.starts = budget.starts
  PROVE  CoreInv'
  <1> DEFINE next == task
  <1>1. next \in [Actors -> Handling \cup {None}] /\ \A b \in Actors : Waited(b, next[b])
    BY CoreParts DEF Waited
  <1>2. task' = next /\ Range(feed) \subseteq Range(feed')
    OBVIOUS
  <1> HIDE DEF next
  <1> QED
    BY <1>1, <1>2, Waits

\* ... and with those who joined the delivery going on.
LEMMA ReleasedStep ==
  ASSUME AgentsAssumption, CoreInv, task' = Released \/ task' = task, UNCHANGED <<runs, feed, ready, running, broken>>,
         WorldTypes', budget' \in Plans, budget'.starts = budget.starts
  PROVE  CoreInv'
  <1> DEFINE next == Released
  <1>1. \A a \in Actors : next[a] \in Handling \cup {None} /\ Waited(a, next[a])
    <2> SUFFICES ASSUME NEW a \in Actors PROVE next[a] \in Handling \cup {None} /\ Waited(a, next[a])
      OBVIOUS
    <2>1. CASE ~Do(a, "join")
      BY <2>1, CoreParts DEF Released, Waited
    <2>2. CASE Do(a, "join")
      <3>1. task[a] # None /\ task[a].todo # <<>> /\ ~Do(a, "save")
        BY <2>2 DEF Do
      <3>2. next[a] = [task[a] EXCEPT !.todo = Tail(@)]
        BY <2>2 DEF Released
      <3> QED
        BY <3>1, <3>2, Tailed
    <2> QED
      BY <2>1, <2>2
  <1>2. next \in [Actors -> Handling \cup {None}]
    BY <1>1 DEF Released
  <1>3. Range(feed) \subseteq Range(feed')
    OBVIOUS
  <1> HIDE DEF next
  <1>4. CASE task' = next
    BY <1>1, <1>2, <1>3, <1>4, Waits
  <1>5. CASE task' = task
    BY <1>5, Around
  <1> QED
    BY <1>4, <1>5 DEF next

LEMMA DeliveryStep ==
  ASSUME AgentsAssumption, AgentsInv, Overview \/ HistoryTakes \/ HistoryFails \/ MarkDelivered
  PROVE  AgentsInv'
  <1>1. CoreInv /\ FeedInv
    BY DEF AgentsInv
  <1>2. UNCHANGED <<runs, feed, ready, running, broken>> /\ UNCHANGED world
    BY DEF Overview, HistoryTakes, HistoryFails, MarkDelivered, store
  <1>3. WorldTypes'
    BY <1>1, <1>2, CoreParts, WorldStays
  <1>4. CASE Overview
    <2>1. delivery' = NextDelivery /\ UNCHANGED <<feed, heard, delivered, task, budget>>
      BY <1>4 DEF Overview, store
    <2>2. FeedInv'
      BY <1>1, <2>1, FeedBegins
    <2>3. CoreInv'
      BY <1>1, <1>2, <1>3, <2>1, CoreParts, Around
    <2> QED
      BY <2>2, <2>3 DEF AgentsInv
  <1>5. CASE HistoryTakes
    <2>1. /\ delivery # None /\ ~delivery.taken /\ Hear(feed[Position])
          /\ delivery' = [delivery EXCEPT !.taken = TRUE] /\ UNCHANGED <<feed, delivered, task, budget>>
      BY <1>5 DEF HistoryTakes, store
    <2>2. FeedInv'
      BY <1>1, <2>1, FeedHears
    <2>3. CoreInv'
      BY <1>1, <1>2, <1>3, <2>1, CoreParts, Around
    <2> QED
      BY <2>2, <2>3 DEF AgentsInv
  <1>6. CASE HistoryFails
    <2>1. /\ delivery # None /\ ~delivery.taken /\ (heard' = heard \/ Hear(feed[Position]))
          /\ delivery' = None /\ task' = Released /\ Spend("failures") /\ UNCHANGED <<feed, delivered>>
      BY <1>6 DEF HistoryFails, store
    <2>2. FeedInv'
      BY <1>1, <2>1, FeedHears
    <2>3. budget' \in Plans /\ budget'.starts = budget.starts
      BY <1>1, <2>1, CoreParts, SpendType DEF Budgeted
    <2>4. CoreInv'
      BY <1>1, <1>2, <1>3, <2>1, <2>3, ReleasedStep
    <2> QED
      BY <2>2, <2>4 DEF AgentsInv
  <1>7. CASE MarkDelivered
    <2>1. /\ delivery # None /\ delivery.taken /\ delivered' = delivered \cup {feed[Position]}
          /\ delivery' = Ended /\ (task' = Released \/ task' = task) /\ UNCHANGED <<feed, heard, budget>>
      BY <1>7 DEF MarkDelivered
    <2>2. FeedInv'
      BY <1>1, <2>1, FeedMarks
    <2>3. CoreInv'
      BY <1>1, <1>2, <1>3, <2>1, CoreParts, ReleasedStep
    <2> QED
      BY <2>2, <2>3 DEF AgentsInv
  <1> QED
    BY <1>4, <1>5, <1>6, <1>7

LEMMA WorldStep ==
  ASSUME AgentsAssumption, AgentsInv, MemoryChanges \/ ProjectChanges
  PROVE  AgentsInv'
  <1>1. CoreInv /\ FeedInv
    BY DEF AgentsInv
  <1>2. Spend("changes") /\ UNCHANGED <<runs, feed, delivered, ready, running, delivery, broken, task, heard>>
    BY DEF MemoryChanges, ProjectChanges, store, process
  <1>3. budget' \in Plans /\ budget'.starts = budget.starts
    BY <1>1, <1>2, CoreParts, SpendType DEF Budgeted
  <1>4. WorldTypes'
    <2>1. config \in [version : Nat, enabled : BOOLEAN] /\ context \in Nat /\ knowledge \in Nat
      BY <1>1, CoreParts DEF AgentTypes
    <2>2. config.version + 1 \in Nat /\ (~config.enabled) \in BOOLEAN
      BY <2>1
    <2>3. CASE MemoryChanges
      BY <2>1, <2>3 DEF MemoryChanges, WorldTypes
    <2>4. CASE ProjectChanges
      <3>1. config' = [version |-> config.version + 1, enabled |-> ~config.enabled] /\ UNCHANGED <<context, knowledge>>
        BY <2>4 DEF ProjectChanges
      <3>2. \A v \in Nat, b \in BOOLEAN : [version |-> v, enabled |-> b] \in [version : Nat, enabled : BOOLEAN]
        OBVIOUS
      <3> QED
        BY <2>1, <2>2, <3>1, <3>2 DEF WorldTypes
    <2> QED
      BY <2>3, <2>4
  <1>5. FeedInv'
    BY <1>1, <1>2, FeedStays
  <1>6. CoreInv'
    BY <1>1, <1>2, <1>3, <1>4, Around
  <1> QED
    BY <1>5, <1>6 DEF AgentsInv

-----------------------------------------------------------------------------
(* An execution.                                                           *)

LEMMA Executing ==
  ASSUME CoreInv, Active("execute")
  PROVE  /\ Run \in Runs /\ Mine \in RunRecords /\ running = Run /\ runs[Run] # None /\ Mine.reviews = runs[Run].reviews
         /\ ready /\ ~Active("init") /\ ~Active("start") /\ ~Active("review")
  <1>1. IdleInv /\ InitInv /\ StartInv /\ ExecuteInv /\ ReviewInv
    BY CoreParts
  <1> QED
    BY <1>1 DEF IdleInv, InitInv, StartInv, ExecuteInv, ReviewInv, Run, Mine

\* An execution goes on: what it holds has the reviews of the saved run, and at the end it has
\* the end of the run to save or has saved it.
LEMMA ExecuteGoes ==
  ASSUME AgentsAssumption, AgentsInv, Active("execute"),
         NEW at \in Stops, NEW todo \in Seq(Awaited), NEW run \in RunRecords, run.reviews = Mine.reviews,
         at \in {"complete", "ended"} => run.status # "running" /\ (SaveFirst(todo) \/ runs[Run].status # "running"),
         Go("execute", at, todo, run), Stay, budget' \in Plans, budget'.starts = budget.starts
  PROVE  AgentsInv'
  <1> DEFINE t == Task(Run, at, todo, run)
  <1>1. CoreInv /\ FeedInv
    BY DEF AgentsInv
  <1>2. UNCHANGED <<runs, feed, delivered, ready, running, delivery, broken, heard>> /\ UNCHANGED world
    BY DEF Stay, store, process
  <1>3. /\ Run \in Runs /\ running = Run /\ runs[Run] # None /\ Mine.reviews = runs[Run].reviews
        /\ ready /\ ~Active("init") /\ ~Active("start") /\ ~Active("review")
    BY <1>1, Executing
  <1>4. t \in Handling /\ t.run = Run /\ t.at = at /\ t.todo = todo /\ t.mine = run
    BY <1>3, TaskType
  <1>5. task' = [task EXCEPT !["execute"] = t]
    BY DEF Go, Become, Run
  <1> HIDE DEF t
  <1>6. t # None
    BY <1>4 DEF AgentsAssumption
  <1>7. task \in [Actors -> Handling \cup {None}] /\ task["execute"] # None /\ task["execute"].run = Run
    BY <1>1, CoreParts DEF Active, Run
  <1>8. /\ task' \in [Actors -> Handling \cup {None}] /\ task'["execute"] = t
        /\ task'["init"] = None /\ task'["start"] = None /\ task'["review"] = None
    BY <1>3, <1>4, <1>5, <1>7 DEF Actors, Active
  <1>9. FeedInv'
    BY <1>1, <1>2, FeedStays
  <1>10. AgentTypes'
    <2>1. WorldTypes'
      BY <1>1, <1>2, CoreParts, WorldStays
    <2> QED
      BY <1>1, <1>2, <1>8, <2>1, CoreParts DEF AgentTypes, WorldTypes
  <1>11. IdleInv' /\ InitInv' /\ StartInv' /\ ReviewInv'
    BY <1>2, <1>3, <1>8 DEF IdleInv, InitInv, StartInv, ReviewInv, Active
  <1>12. ExecuteInv'
    BY <1>2, <1>3, <1>4, <1>8 DEF ExecuteInv, Active, Do, SaveFirst
  <1>13. CountInv'
    BY <1>1, <1>2, <1>8, CoreParts, CountStays
  <1>14. OneAnalysis'
    <2>1. \A a \in {"start", "execute"} : task[a] # None => task'[a] # None /\ task'[a].run = task[a].run
      BY <1>3, <1>4, <1>6, <1>7, <1>8 DEF Active
    <2> QED
      BY <1>1, <1>2, <2>1, CoreParts, OwnerStays
  <1> QED
    BY <1>9, <1>10, <1>11, <1>12, <1>13, <1>14 DEF AgentsInv, CoreInv

LEMMA FailsStep ==
  ASSUME AgentsAssumption, AgentsInv, Active("execute"), Fails, Stay, budget' \in Plans, budget'.starts = budget.starts
  PROVE  AgentsInv'
  <1> DEFINE todo == Saving \o Told(Event(Run, "failed", 0))
  <1>1. Run \in Runs /\ Mine \in RunRecords
    BY Executing DEF AgentsInv
  <1>2. Event(Run, "failed", 0) \in Events
    BY <1>1, EventType DEF EventKinds
  <1>3. todo \in Seq(Awaited) /\ SaveFirst(todo)
    BY <1>2, TodoTold, TodoSaved
  <1>4. Failed(Mine) \in RunRecords /\ Failed(Mine).reviews = Mine.reviews /\ Failed(Mine).status # "running"
    BY <1>1, FailedType
  <1>5. Go("execute", "ended", todo, Failed(Mine))
    BY DEF Fails, Failing, Go, Run, Mine
  <1> HIDE DEF todo
  <1>6. "ended" \in Stops
    BY DEF Stops
  <1> QED
    BY <1>3, <1>4, <1>5, <1>6, ExecuteGoes

\* The budget after a step of an execution.
LEMMA Spent ==
  ASSUME CoreInv, UNCHANGED budget \/ Spend("failures")
  PROVE  budget' \in Plans /\ budget'.starts = budget.starts
  BY CoreParts, SpendType DEF Budgeted

\* The way through the places before the end.
LEMMA OnTheWay ==
  ASSUME AgentsAssumption, AgentsInv, Active("execute"), Stay, UNCHANGED budget \/ Spend("failures"),
         NEW at \in Stops \ {"complete", "ended"}, NEW todo \in Seq(Awaited), NEW run \in RunRecords, run.reviews = Mine.reviews,
         Go("execute", at, todo, run)
  PROVE  AgentsInv'
  <1>1. budget' \in Plans /\ budget'.starts = budget.starts
    BY Spent DEF AgentsInv
  <1> QED
    BY <1>1, ExecuteGoes

LEMMA FailsOnTheWay ==
  ASSUME AgentsAssumption, AgentsInv, Active("execute"), Stay, UNCHANGED budget \/ Spend("failures"), Fails
  PROVE  AgentsInv'
  <1>1. budget' \in Plans /\ budget'.starts = budget.starts
    BY Spent DEF AgentsInv
  <1> QED
    BY <1>1, FailsStep

LEMMA CaptureStep ==
  ASSUME AgentsAssumption, AgentsInv, Capture
  PROVE  AgentsInv'
  <1>1. Active("execute") /\ Stay
    BY DEF Capture, Reaches, Active
  <1>2. Run \in Runs /\ Mine \in RunRecords
    BY <1>1, Executing DEF AgentsInv
  <1>3. CASE Go("execute", "retrieve", Progress(Run, Mine), Progressed(Mine)) /\ UNCHANGED budget
    <2>1. "retrieve" \in Stops \ {"complete", "ended"}
      BY DEF Stops
    <2> QED
      BY <1>1, <1>2, <1>3, <2>1, TodoProgress, ProgressedType, OnTheWay
  <1>4. CASE Spend("failures") /\ Fails
    BY <1>1, <1>4, FailsOnTheWay
  <1> QED
    BY <1>3, <1>4 DEF Capture

LEMMA RetrieveBeginsStep ==
  ASSUME AgentsAssumption, AgentsInv, RetrieveBegins
  PROVE  AgentsInv'
  <1> DEFINE run == [Mine EXCEPT !.context = context, !.knowledge = knowledge]
  <1>1. Active("execute") /\ Stay /\ UNCHANGED budget /\ Go("execute", "retrieving", <<>>, run)
    BY DEF RetrieveBegins, Reaches, Active
  <1>2. Mine \in RunRecords
    BY <1>1, Executing DEF AgentsInv
  <1>3. context \in Nat /\ knowledge \in Nat
    BY CoreParts DEF AgentsInv, AgentTypes
  <1>4. run \in RunRecords /\ run.reviews = Mine.reviews
    BY <1>2, <1>3 DEF RunRecords
  <1>5. "retrieving" \in Stops \ {"complete", "ended"}
    BY DEF Stops
  <1> HIDE DEF run
  <1> QED
    BY <1>1, <1>4, <1>5, TodoSaving, OnTheWay

LEMMA RetrieveEndsStep ==
  ASSUME AgentsAssumption, AgentsInv, RetrieveEnds
  PROVE  AgentsInv'
  <1>1. Active("execute") /\ Stay
    BY DEF RetrieveEnds, Reaches, Active
  <1>2. Mine \in RunRecords
    BY <1>1, Executing DEF AgentsInv
  <1>3. CASE Go("execute", "invoke", Saving, Mine) /\ UNCHANGED budget
    <2>1. "invoke" \in Stops \ {"complete", "ended"}
      BY DEF Stops
    <2> QED
      BY <1>1, <1>2, <1>3, <2>1, TodoSaving, OnTheWay
  <1>4. CASE Fails /\ (UNCHANGED budget \/ Spend("failures"))
    BY <1>1, <1>4, FailsOnTheWay
  <1> QED
    BY <1>3, <1>4 DEF RetrieveEnds

LEMMA InvokeStep ==
  ASSUME AgentsAssumption, AgentsInv, Invoke
  PROVE  AgentsInv'
  <1>1. Active("execute") /\ Stay /\ UNCHANGED budget
    BY DEF Invoke, Reaches, Active
  <1>2. Run \in Runs /\ Mine \in RunRecords
    BY <1>1, Executing DEF AgentsInv
  <1>3. CASE Go("execute", "call", Progress(Run, Mine), Progressed(Mine))
    <2>1. "call" \in Stops \ {"complete", "ended"}
      BY DEF Stops
    <2> QED
      BY <1>1, <1>2, <1>3, <2>1, TodoProgress, ProgressedType, OnTheWay
  <1>4. CASE Fails
    BY <1>1, <1>4, FailsOnTheWay
  <1> QED
    BY <1>3, <1>4 DEF Invoke

LEMMA LastCallType ==
  ASSUME NEW run \in RunRecords, run.calls # <<>>
  PROVE  /\ LastCall(run) \in ModelCalls /\ Len(run.calls) \in 1..Len(run.calls)
         /\ LastCall(run).role \in Roles /\ LastCall(run).next \in Roles \cup {None}
  <1>1. run.calls \in Seq(ModelCalls)
    BY RunFields
  <1>2. LastCall(run) \in ModelCalls /\ Len(run.calls) \in 1..Len(run.calls)
    BY <1>1 DEF LastCall
  <1> QED
    BY <1>2 DEF ModelCalls

LEMMA CallModelStep ==
  ASSUME AgentsAssumption, AgentsInv, CallModel
  PROVE  AgentsInv'
  <1> DEFINE call == [role |-> RoleOf(Mine), status |-> "running", next |-> None]
  <1> DEFINE run == [Mine EXCEPT !.calls = Append(@, call)]
  <1> DEFINE todo == Saving \o Told(Event(Run, "call:started", Len(run.calls)))
  <1>1. Active("execute") /\ Stay /\ UNCHANGED budget /\ Go("execute", "model", todo, run)
    BY DEF CallModel, Reaches, Active
  <1>2. Run \in Runs /\ Mine \in RunRecords
    BY <1>1, Executing DEF AgentsInv
  <1>3. RoleOf(Mine) \in Roles
    BY <1>2, LastCallType DEF RoleOf, Roles
  <1>4. call \in ModelCalls
    BY <1>3 DEF ModelCalls
  <1> HIDE DEF call
  <1>5. Mine.calls \in Seq(ModelCalls)
    BY <1>2, RunFields
  <1>6. Append(Mine.calls, call) \in Seq(ModelCalls)
    BY <1>4, <1>5
  <1>7. run = [Mine EXCEPT !.calls = Append(Mine.calls, call)]
    BY <1>2 DEF RunRecords
  <1> HIDE DEF run
  <1>8. run \in RunRecords /\ run.reviews = Mine.reviews
    BY <1>2, <1>6, <1>7, CallsType
  <1>9. Len(run.calls) \in Nat
    BY <1>8, RunFields
  <1>10. Event(Run, "call:started", Len(run.calls)) \in Events
    BY <1>2, <1>9, EventType DEF EventKinds
  <1>11. todo \in Seq(Awaited)
    BY <1>10, TodoTold, TodoSaved
  <1> HIDE DEF todo
  <1>12. "model" \in Stops \ {"complete", "ended"}
    BY DEF Stops
  <1> QED
    BY <1>1, <1>8, <1>11, <1>12, OnTheWay

\* The last call with another status or another successor.
LEMMA LastCallChanges ==
  ASSUME NEW run \in RunRecords, NEW call, run.calls # <<>> => call \in ModelCalls,
         NEW changed, changed = [run EXCEPT !.calls = [@ EXCEPT ![Len(run.calls)] = call]]
  PROVE  changed \in RunRecords /\ changed.reviews = run.reviews /\ changed.status = run.status
  <1> DEFINE calls == [run.calls EXCEPT ![Len(run.calls)] = call]
  <1>1. run.calls \in Seq(ModelCalls)
    BY RunFields
  <1>2. calls \in Seq(ModelCalls)
    <2> DEFINE n == Len(run.calls)
    <2>1. n \in Nat /\ run.calls \in [1..n -> ModelCalls] /\ (n # 0 => run.calls # <<>>)
      BY <1>1
    <2> HIDE DEF n
    <2>2. \A i \in 1..n : [run.calls EXCEPT ![n] = call][i] \in ModelCalls
      BY <2>1
    <2>3. [run.calls EXCEPT ![n] = call] \in [1..n -> ModelCalls]
      BY <2>1, <2>2
    <2> QED
      BY <2>1, <2>3 DEF n
  <1>3. changed = [run EXCEPT !.calls = calls]
    BY DEF RunRecords
  <1> HIDE DEF calls
  <1> QED
    BY <1>2, <1>3, CallsType

LEMMA CallStatusType ==
  ASSUME NEW run \in RunRecords, NEW status \in {"completed", "failed"}
  PROVE  LET changed == [run EXCEPT !.calls[Len(run.calls)].status = status] IN
         changed \in RunRecords /\ changed.reviews = run.reviews /\ changed.status = run.status
  <1> DEFINE n == Len(run.calls)
  <1> DEFINE call == [run.calls[n] EXCEPT !.status = status]
  <1> DEFINE changed == [run EXCEPT !.calls[n].status = status]
  <1>1. run.calls # <<>> => run.calls[n] \in ModelCalls
    BY LastCallType DEF LastCall
  <1>2. run.calls # <<>> => call \in ModelCalls
    <2> HIDE DEF n
    <2> QED
      BY <1>1 DEF ModelCalls
  <1>3. changed = [run EXCEPT !.calls = [@ EXCEPT ![n] = call]]
    BY DEF RunRecords
  <1> HIDE DEF call, changed
  <1>4. changed \in RunRecords /\ changed.reviews = run.reviews /\ changed.status = run.status
    BY <1>2, <1>3, LastCallChanges
  <1> QED
    BY <1>4 DEF changed

LEMMA FollowedType ==
  ASSUME NEW run \in RunRecords, NEW role \in Roles
  PROVE  /\ FollowedBy(run, role) \in RunRecords
         /\ FollowedBy(run, role).reviews = run.reviews /\ FollowedBy(run, role).status = run.status
  <1> DEFINE n == Len(run.calls)
  <1> DEFINE call == [run.calls[n] EXCEPT !.next = role]
  <1>1. run.calls # <<>> => run.calls[n] \in ModelCalls
    BY LastCallType DEF LastCall
  <1>2. run.calls # <<>> => call \in ModelCalls
    <2> HIDE DEF n
    <2> QED
      BY <1>1 DEF ModelCalls
  <1>3. FollowedBy(run, role) = [run EXCEPT !.calls = [@ EXCEPT ![n] = call]]
    BY DEF RunRecords, FollowedBy
  <1> HIDE DEF call
  <1> QED
    BY <1>2, <1>3, LastCallChanges

LEMMA ModelAnswersStep ==
  ASSUME AgentsAssumption, AgentsInv, ModelAnswers
  PROVE  AgentsInv'
  <1>1. Active("execute") /\ Stay /\ (UNCHANGED budget \/ Spend("failures"))
    BY DEF ModelAnswers, Reaches, Active
  <1>2. PICK status \in {"completed", "failed"} : ModelAnswered(status)
    BY DEF ModelAnswers
  <1> DEFINE n == Len(Mine.calls)
  <1> DEFINE run == [Mine EXCEPT !.calls[n].status = status]
  <1> DEFINE at == IF status = "completed" THEN "answer" ELSE "failing"
  <1> DEFINE todo == Saving \o Told(CallEnd(Run, n))
  <1>3. Go("execute", at, todo, run)
    BY <1>2 DEF ModelAnswered
  <1>4. Run \in Runs /\ Mine \in RunRecords
    BY <1>1, Executing DEF AgentsInv
  <1>5. run \in RunRecords /\ run.reviews = Mine.reviews
    BY <1>4, CallStatusType
  <1>6. n \in Nat
    BY <1>4, RunFields
  <1>7. CallEnd(Run, n) \in Events
    BY <1>4, <1>6, EventType DEF EventKinds, CallEnd
  <1>8. todo \in Seq(Awaited)
    BY <1>7, TodoTold, TodoSaved
  <1>9. at \in Stops \ {"complete", "ended"}
    BY DEF Stops
  <1> HIDE DEF n, run, at, todo
  <1> QED
    BY <1>1, <1>3, <1>5, <1>8, <1>9, OnTheWay

LEMMA SavedProgress ==
  ASSUME NEW r \in Runs, NEW run \in RunRecords
  PROVE  /\ Saving \o Progress(r, run) \in Seq(Awaited)
         /\ Progress(r, run) \o Saving \in Seq(Awaited)
  <1>1. Progress(r, run) \in Seq(Awaited) /\ Saving \in Seq(Awaited)
    BY TodoProgress, TodoSaving
  <1> QED
    BY <1>1

LEMMA AnswerStep ==
  ASSUME AgentsAssumption, AgentsInv, ReadAnswer \/ ComparisonAnswer \/ ArbitrationAnswer \/ AnswerRejected \/ CallFailed
  PROVE  AgentsInv'
  <1>1. Active("execute") /\ Stay /\ (UNCHANGED budget \/ Spend("failures"))
    BY DEF ReadAnswer, ComparisonAnswer, ArbitrationAnswer, AnswerRejected, CallFailed, Reaches, Active
  <1>2. Run \in Runs /\ Mine \in RunRecords
    BY <1>1, Executing DEF AgentsInv
  <1>3. "invoke" \in Stops \ {"complete", "ended"} /\ "finish" \in Stops \ {"complete", "ended"}
    BY DEF Stops
  <1>4. \A role \in Roles : FollowedBy(Mine, role) \in RunRecords /\ FollowedBy(Mine, role).reviews = Mine.reviews
    BY <1>2, FollowedType
  <1>5. "comparison" \in Roles /\ "arbitration" \in Roles
    BY DEF Roles
  <1>6. CASE Fails
    BY <1>1, <1>6, FailsOnTheWay
  <1>7. CASE Go("execute", "invoke", Saving, FollowedBy(Mine, "comparison"))
    BY <1>1, <1>3, <1>4, <1>5, <1>7, TodoSaving, OnTheWay
  <1>8. CASE Go("execute", "finish", Saving \o Progress(Run, Mine), Progressed(Mine))
    BY <1>1, <1>2, <1>3, <1>8, SavedProgress, ProgressedType, OnTheWay
  <1>9. CASE Go("execute", "invoke", <<>>, FollowedBy(Mine, "arbitration"))
    BY <1>1, <1>3, <1>4, <1>5, <1>9, TodoSaving, OnTheWay
  <1>10. CASE Go("execute", "invoke", Progress(Run, Mine) \o Saving, Progressed(FollowedBy(Mine, "comparison")))
    <2> DEFINE run == Progressed(FollowedBy(Mine, "comparison"))
    <2>1. run \in RunRecords /\ run.reviews = Mine.reviews
      BY <1>4, <1>5, ProgressedType
    <2> HIDE DEF run
    <2>2. Progress(Run, Mine) \o Saving \in Seq(Awaited)
      BY <1>2, SavedProgress
    <2>3. Go("execute", "invoke", Progress(Run, Mine) \o Saving, run)
      BY <1>10 DEF run
    <2> QED
      BY <1>1, <1>3, <2>1, <2>2, <2>3, OnTheWay
  <1>11. CASE \E outcome \in {"aligned", "difference"} : Go("execute", "finish", <<>>, [Mine EXCEPT !.outcome = outcome])
    <2>1. PICK outcome \in {"aligned", "difference"} : Go("execute", "finish", <<>>, [Mine EXCEPT !.outcome = outcome])
      BY <1>11
    <2> DEFINE run == [Mine EXCEPT !.outcome = outcome]
    <2>2. run \in RunRecords /\ run.reviews = Mine.reviews
      BY <1>2 DEF RunRecords
    <2>3. Go("execute", "finish", <<>>, run)
      BY <2>1
    <2> HIDE DEF run
    <2> QED
      BY <1>1, <1>3, <2>2, <2>3, TodoSaving, OnTheWay
  <1>12. CASE ReadAnswer
    BY <1>7, <1>8, <1>12 DEF ReadAnswer
  <1>13. CASE ComparisonAnswer
    BY <1>6, <1>9, <1>10, <1>13 DEF ComparisonAnswer
  <1>14. CASE ArbitrationAnswer
    BY <1>11, <1>14 DEF ArbitrationAnswer
  <1>15. CASE AnswerRejected \/ CallFailed
    BY <1>6, <1>15 DEF AnswerRejected, CallFailed
  <1> QED
    BY <1>12, <1>13, <1>14, <1>15

LEMMA FinishStep ==
  ASSUME AgentsAssumption, AgentsInv, Finish
  PROVE  AgentsInv'
  <1>1. Active("execute") /\ Stay /\ UNCHANGED budget
    BY DEF Finish, Reaches, Active
  <1>2. Run \in Runs /\ Mine \in RunRecords
    BY <1>1, Executing DEF AgentsInv
  <1> DEFINE run == [Mine EXCEPT !.status = "succeeded"]
  <1>3. CASE Go("execute", "complete", Progress(Run, run), Progressed(run))
    <2>1. run \in RunRecords /\ run.reviews = Mine.reviews /\ run.status = "succeeded"
      BY <1>2 DEF RunRecords
    <2> HIDE DEF run
    <2>2. Progressed(run) \in RunRecords /\ Progressed(run).reviews = Mine.reviews /\ Progressed(run).status # "running"
      BY <2>1, ProgressedType
    <2>3. Progress(Run, run) \in Seq(Awaited) /\ SaveFirst(Progress(Run, run))
      BY <1>2, <2>1, TodoProgress
    <2>4. budget' \in Plans /\ budget'.starts = budget.starts
      BY <1>1, Spent DEF AgentsInv
    <2>5. "complete" \in Stops
      BY DEF Stops
    <2> QED
      BY <1>1, <1>3, <2>2, <2>3, <2>4, <2>5, ExecuteGoes
  <1>4. CASE Fails
    BY <1>1, <1>4, FailsOnTheWay
  <1> QED
    BY <1>3, <1>4 DEF Finish

LEMMA CompleteRunStep ==
  ASSUME AgentsAssumption, AgentsInv, CompleteRun
  PROVE  AgentsInv'
  <1> DEFINE todo == Told(Event(Run, "completed", 0))
  <1>1. Active("execute") /\ Stay /\ UNCHANGED budget /\ Go("execute", "ended", todo, Mine)
    BY DEF CompleteRun, Reaches, Active
  <1>2. Run \in Runs /\ Mine \in RunRecords
    BY <1>1, Executing DEF AgentsInv
  <1>3. ExecuteInv
    BY CoreParts DEF AgentsInv
  <1>4. task["execute"].todo = <<>> /\ task["execute"].at = "complete"
    BY DEF CompleteRun, Reaches
  <1>5. Mine.status # "running" /\ runs[Run].status # "running"
    BY <1>1, <1>3, <1>4 DEF ExecuteInv, Do, Mine, Run
  <1>6. todo \in Seq(Awaited)
    <2>1. Event(Run, "completed", 0) \in Events
      BY <1>2, EventType DEF EventKinds
    <2> QED
      BY <2>1, TodoTold
  <1> HIDE DEF todo
  <1>7. budget' \in Plans /\ budget'.starts = budget.starts
    BY <1>1, Spent DEF AgentsInv
  <1>8. "ended" \in Stops
    BY DEF Stops
  <1> QED
    BY <1>1, <1>2, <1>5, <1>6, <1>7, <1>8, ExecuteGoes

LEMMA ExecuteEndsStep ==
  ASSUME AgentsAssumption, AgentsInv, ExecuteEnds
  PROVE  AgentsInv'
  <1>1. CoreInv /\ FeedInv
    BY DEF AgentsInv
  <1>2. /\ Active("execute") /\ task["execute"].todo = <<>> /\ task["execute"].at = "ended"
        /\ running' = None /\ task' = [task EXCEPT !["execute"] = None]
        /\ UNCHANGED <<runs, feed, delivered, ready, delivery, broken, heard, budget>> /\ UNCHANGED world
    BY DEF ExecuteEnds, Reaches, Active, Become, store
  <1>3. ready /\ ~Active("init") /\ ~Active("start") /\ ~Active("review") /\ Run \in Runs
    BY <1>1, <1>2, Executing
  <1>4. task \in [Actors -> Handling \cup {None}] /\ ExecuteInv
    BY <1>1, CoreParts
  <1>5. task' \in [Actors -> Handling \cup {None}] /\ \A a \in Actors : task'[a] = None
    BY <1>2, <1>3, <1>4 DEF Actors, Active
  <1>6. FeedInv'
    BY <1>1, <1>2, FeedStays
  <1>7. AgentTypes'
    <2>1. WorldTypes'
      BY <1>1, <1>2, CoreParts, WorldStays
    <2> QED
      BY <1>1, <1>2, <1>5, <2>1, CoreParts DEF AgentTypes, WorldTypes
  <1>8. IdleInv' /\ InitInv' /\ StartInv' /\ ExecuteInv' /\ ReviewInv'
    BY <1>2, <1>5 DEF IdleInv, InitInv, StartInv, ExecuteInv, ReviewInv, Active, Actors
  <1>9. CountInv'
    BY <1>1, <1>2, <1>5, CoreParts, CountStays DEF Actors
  <1>10. OneAnalysis'
    <2>1. OneAnalysis /\ StillRunning' = StillRunning
      BY <1>1, <1>2, CoreParts, SavedSets
    <2>2. runs[Run].status # "running"
      BY <1>2, <1>4 DEF ExecuteInv, Do, Run
    <2>3. Run \notin StillRunning
      BY <2>2 DEF StillRunning
    <2>4. task["start"] = None /\ task["execute"].run = Run
      BY <1>3 DEF Active, Run
    <2>5. ready /\ ~broken => StillRunning = {}
      BY <2>1, <2>3, <2>4 DEF OneAnalysis
    <2> QED
      BY <1>2, <2>1, <2>5 DEF OneAnalysis
  <1> QED
    BY <1>6, <1>7, <1>8, <1>9, <1>10 DEF AgentsInv, CoreInv

-----------------------------------------------------------------------------
(* A save.                                                                 *)

\* The parts of a save by the handler a.
LEMMA SaveParts ==
  ASSUME AgentsAssumption, AgentsInv, NEW a \in Actors, SaveRun(a)
  PROVE  /\ task[a] # None /\ task[a].todo # <<>> /\ Do(a, "save") /\ ~NoSave(task[a].todo)
         /\ runs' = [runs EXCEPT ![task[a].run] = task[a].mine]
         /\ task' \in [Actors -> Handling \cup {None}] /\ \A b \in Actors \ {a} : task'[b] = task[b]
         /\ task'[a] # None /\ task'[a].run = task[a].run /\ task'[a].at = task[a].at /\ task'[a].mine = task[a].mine
         /\ UNCHANGED <<feed, delivered, ready, running, delivery, broken, heard, budget>> /\ UNCHANGED world
         /\ FeedInv' /\ WorldTypes'
  <1> DEFINE t == [task[a] EXCEPT !.todo = Tail(@)]
  <1>1. CoreInv /\ FeedInv
    BY DEF AgentsInv
  <1>2. /\ Do(a, "save") /\ task' = [task EXCEPT ![a] = t] /\ runs' = [runs EXCEPT ![task[a].run] = task[a].mine]
        /\ UNCHANGED <<feed, delivered, ready, running, delivery, broken, heard, budget>> /\ UNCHANGED world
    BY DEF SaveRun, Rest, Become, process
  <1>3. task[a] # None /\ task[a].todo # <<>> /\ Head(task[a].todo).kind = "save"
    BY <1>2 DEF Do
  <1>4. task \in [Actors -> Handling \cup {None}] /\ task[a] \in Handling /\ task[a].todo \in Seq(Awaited)
    BY <1>1, <1>3, CoreParts, HandlingType
  <1>5. ~NoSave(task[a].todo) /\ Tail(task[a].todo) \in Seq(Awaited)
    BY <1>3, <1>4, TodoTail
  <1>6. t \in Handling /\ t.run = task[a].run /\ t.at = task[a].at /\ t.mine = task[a].mine
    BY <1>4, <1>5, HandlingType
  <1>7. t # None
    BY <1>6 DEF AgentsAssumption
  <1> HIDE DEF t
  <1>8. task' \in [Actors -> Handling \cup {None}] /\ task'[a] = t /\ \A b \in Actors \ {a} : task'[b] = task[b]
    BY <1>2, <1>4, <1>6
  <1>9. FeedInv' /\ WorldTypes'
    BY <1>1, <1>2, CoreParts, FeedStays, WorldStays
  <1> QED
    BY <1>2, <1>3, <1>5, <1>6, <1>7, <1>8, <1>9

\* The runs after a save of the run r as m.
LEMMA SavedAs ==
  ASSUME AgentsAssumption, AgentTypes, NEW r \in Runs, NEW m \in RunRecords, runs' = [runs EXCEPT ![r] = m]
  PROVE  /\ runs' \in [Runs -> RunRecords \cup {None}] /\ runs'[r] = m /\ runs'[r] # None
         /\ \A x \in Runs \ {r} : runs'[x] = runs[x]
         /\ SavedRuns' = SavedRuns \cup {r} /\ StillRunning' \subseteq StillRunning \cup {r}
         /\ m.status # "running" => r \notin StillRunning'
         /\ runs[r] # None /\ m.status = runs[r].status => StillRunning' = StillRunning
  <1>1. runs \in [Runs -> RunRecords \cup {None}] /\ m # None
    BY DEF AgentTypes, AgentsAssumption
  <1>2. runs' \in [Runs -> RunRecords \cup {None}] /\ runs'[r] = m /\ \A x \in Runs \ {r} : runs'[x] = runs[x]
    BY <1>1
  <1> QED
    BY <1>1, <1>2 DEF SavedRuns, StillRunning

\* The number of saved runs does not change.
LEMMA CountSaved ==
  ASSUME AgentsAssumption, CountInv, budget.starts \in Nat, budget'.starts = budget.starts,
         SavedRuns' = SavedRuns, Preparing' => Preparing /\ task'["start"] = task["start"]
  PROVE  CountInv'
  <1>1. PICK n \in Nat : /\ SavedRuns = 1..n /\ n + budget.starts + (IF Preparing THEN 1 ELSE 0) <= MaxRuns
                         /\ Preparing /\ task["start"].at = "begin" => task["start"].run = n + 1
    BY DEF CountInv
  <1>2. n + budget'.starts + (IF Preparing' THEN 1 ELSE 0) <= MaxRuns
    <2>1. CASE Preparing'
      BY <1>1, <2>1
    <2>2. CASE ~Preparing'
      <3>1. n + budget.starts + 0 <= MaxRuns
        BY <1>1 DEF AgentsAssumption
      <3> QED
        BY <2>2, <3>1
    <2> QED
      BY <2>1, <2>2
  <1> QED
    BY <1>1, <1>2 DEF CountInv

LEMMA SaveOfInit ==
  ASSUME AgentsAssumption, AgentsInv, SaveRun("init")
  PROVE  AgentsInv'
  <1> DEFINE r == task["init"].run
  <1> DEFINE m == task["init"].mine
  <1>1. CoreInv /\ "init" \in Actors
    BY DEF AgentsInv, Actors
  <1>2. IdleInv /\ InitInv /\ CountInv /\ AgentTypes
    BY <1>1, CoreParts
  <1>3. /\ task["init"] # None /\ task["init"].todo # <<>> /\ ~NoSave(task["init"].todo)
        /\ task' \in [Actors -> Handling \cup {None}] /\ \A b \in Actors \ {"init"} : task'[b] = task[b]
        /\ task'["init"].run = r /\ task'["init"].at = task["init"].at /\ task'["init"].mine = m
        /\ UNCHANGED <<feed, delivered, ready, running, delivery, broken, heard, budget>>
        /\ FeedInv' /\ WorldTypes'
    BY <1>1, SaveParts
  <1>4. ~ready /\ task["init"].at = "interrupt" /\ r \in Runs /\ runs[r] # None /\ m \in RunRecords /\ m.reviews = runs[r].reviews
    BY <1>2, <1>3 DEF InitInv, Active
  <1>5. runs' = [runs EXCEPT ![r] = m]
    BY <1>1, SaveParts
  <1>6. /\ runs' \in [Runs -> RunRecords \cup {None}] /\ runs'[r] = m /\ runs'[r] # None /\ SavedRuns' = SavedRuns \cup {r}
    BY <1>2, <1>4, <1>5, SavedAs
  <1> HIDE DEF r, m
  <1>7. task'["start"] = None /\ task'["execute"] = None /\ task'["review"] = None /\ running' = None
    BY <1>2, <1>3, <1>4 DEF IdleInv, Active, Actors
  <1>8. AgentTypes'
    BY <1>1, <1>3, <1>6, CoreParts DEF AgentTypes, WorldTypes
  <1>9. IdleInv' /\ StartInv' /\ ExecuteInv' /\ ReviewInv'
    BY <1>7 DEF IdleInv, StartInv, ExecuteInv, ReviewInv, Active
  <1>10. InitInv'
    BY <1>3, <1>4, <1>6 DEF InitInv, Active
  <1>11. CountInv'
    <2>1. ~Preparing'
      BY <1>7 DEF Preparing, Active
    <2>2. SavedRuns' = SavedRuns
      BY <1>4, <1>6 DEF SavedRuns
    <2>3. budget.starts \in Nat
      BY <1>1, CoreParts
    <2> QED
      BY <1>2, <1>3, <2>1, <2>2, <2>3, CountSaved
  <1>12. OneAnalysis'
    BY <1>3, <1>4 DEF OneAnalysis
  <1> QED
    BY <1>3, <1>8, <1>9, <1>10, <1>11, <1>12 DEF AgentsInv, CoreInv

LEMMA SaveOfExecute ==
  ASSUME AgentsAssumption, AgentsInv, SaveRun("execute")
  PROVE  AgentsInv'
  <1>1. CoreInv /\ "execute" \in Actors
    BY DEF AgentsInv, Actors
  <1>2. IdleInv /\ ExecuteInv /\ CountInv /\ AgentTypes /\ OneAnalysis
    BY <1>1, CoreParts
  <1>3. /\ task["execute"] # None /\ runs' = [runs EXCEPT ![Run] = Mine]
        /\ task' \in [Actors -> Handling \cup {None}] /\ \A b \in Actors \ {"execute"} : task'[b] = task[b]
        /\ task'["execute"] # None
        /\ task'["execute"].run = Run /\ task'["execute"].at = task["execute"].at /\ task'["execute"].mine = Mine
        /\ UNCHANGED <<feed, delivered, ready, running, delivery, broken, heard, budget>>
        /\ FeedInv' /\ WorldTypes'
    BY <1>1, SaveParts DEF Run, Mine
  <1>4. /\ Run \in Runs /\ Mine \in RunRecords /\ running = Run /\ runs[Run] # None /\ Mine.reviews = runs[Run].reviews
        /\ ready /\ ~Active("init") /\ ~Active("start") /\ ~Active("review")
    BY <1>1, <1>3, Executing DEF Active
  <1>5. /\ runs' \in [Runs -> RunRecords \cup {None}] /\ runs'[Run] = Mine /\ runs'[Run] # None /\ SavedRuns' = SavedRuns \cup {Run}
        /\ StillRunning' \subseteq StillRunning \cup {Run}
    <2>1. AgentTypes /\ Run \in Runs /\ Mine \in RunRecords /\ runs' = [runs EXCEPT ![Run] = Mine]
      BY <1>2, <1>3, <1>4
    <2> QED
      BY <2>1, SavedAs
  <1>6. task'["init"] = None /\ task'["start"] = None /\ task'["review"] = None
    BY <1>3, <1>4 DEF Active, Actors
  <1>7. AgentTypes'
    BY <1>1, <1>3, <1>5, CoreParts DEF AgentTypes, WorldTypes
  <1>8. IdleInv' /\ InitInv' /\ StartInv' /\ ReviewInv'
    BY <1>3, <1>4, <1>6 DEF IdleInv, InitInv, StartInv, ReviewInv, Active
  <1>9. ExecuteInv'
    <2>1. task["execute"].at \in {"complete", "ended"} => Mine.status # "running"
      BY <1>2, <1>3 DEF ExecuteInv, Active, Mine
    <2> DEFINE t == task'["execute"]
    <2>2. t.run = Run /\ t.mine = Mine /\ t.at = task["execute"].at /\ running' = Run
      BY <1>3, <1>4
    <2> HIDE DEF t
    <2> QED
      BY <1>4, <1>5, <2>1, <2>2 DEF ExecuteInv, t
  <1>10. CountInv'
    <2>1. ~Preparing'
      BY <1>6 DEF Preparing, Active
    <2>2. SavedRuns' = SavedRuns
      BY <1>4, <1>5 DEF SavedRuns
    <2>3. budget.starts \in Nat
      BY <1>1, CoreParts
    <2> QED
      BY <1>2, <1>3, <2>1, <2>2, <2>3, CountSaved
  <1>11. OneAnalysis'
    <2>1. task["start"] = None /\ task["execute"].run = Run
      BY <1>4 DEF Active, Run
    <2>2. ready /\ ~broken => StillRunning \subseteq {Run}
      BY <1>2, <2>1 DEF OneAnalysis
    <2> QED
      BY <1>3, <1>5, <2>2 DEF OneAnalysis
  <1> QED
    BY <1>3, <1>7, <1>8, <1>9, <1>10, <1>11 DEF AgentsInv, CoreInv

LEMMA SaveOfStart ==
  ASSUME AgentsAssumption, AgentsInv, SaveRun("start")
  PROVE  AgentsInv'
  <1> DEFINE r == task["start"].run
  <1> DEFINE m == task["start"].mine
  <1>1. CoreInv /\ "start" \in Actors
    BY DEF AgentsInv, Actors
  <1>2. /\ IdleInv /\ InitInv /\ StartInv /\ ReviewInv /\ CountInv /\ AgentTypes /\ OneAnalysis
        /\ budget.starts \in Nat
    BY <1>1, CoreParts
  <1>3. /\ task["start"] # None /\ task["start"].todo # <<>> /\ runs' = [runs EXCEPT ![r] = m]
        /\ task' \in [Actors -> Handling \cup {None}] /\ \A b \in Actors \ {"start"} : task'[b] = task[b]
        /\ task'["start"] # None
        /\ task'["start"].run = r /\ task'["start"].at = task["start"].at /\ task'["start"].mine = m
        /\ UNCHANGED <<feed, delivered, ready, running, delivery, broken, heard, budget>>
        /\ FeedInv' /\ WorldTypes'
    BY <1>1, SaveParts
  <1>4. /\ running = None /\ task["execute"] = None /\ task["start"].at = "begin"
        /\ r \in Runs /\ m \in RunRecords /\ m.reviews = 0
    BY <1>2, <1>3 DEF StartInv, Active
  <1>5. ready /\ task["init"] = None /\ task["review"] = None
    BY <1>2, <1>3 DEF IdleInv, InitInv, ReviewInv, Active
  <1>6. /\ runs' \in [Runs -> RunRecords \cup {None}] /\ runs'[r] = m /\ runs'[r] # None /\ SavedRuns' = SavedRuns \cup {r}
        /\ StillRunning' \subseteq StillRunning \cup {r}
    BY <1>2, <1>3, <1>4, SavedAs
  <1>7. task'["init"] = None /\ task'["execute"] = None /\ task'["review"] = None
    BY <1>3, <1>4, <1>5 DEF Actors
  <1>8. AgentTypes'
    BY <1>1, <1>3, <1>6, CoreParts DEF AgentTypes, WorldTypes
  <1>9. IdleInv' /\ InitInv' /\ ExecuteInv' /\ ReviewInv'
    BY <1>3, <1>5, <1>7 DEF IdleInv, InitInv, ExecuteInv, ReviewInv, Active
  <1>10. StartInv'
    <2> DEFINE t == task'["start"]
    <2>1. t.run = r /\ t.mine = m /\ t.at = "begin" /\ running' = None
      BY <1>3, <1>4
    <2> HIDE DEF t, r, m
    <2> QED
      BY <1>4, <1>6, <1>7, <2>1 DEF StartInv, Active, t
  <1>11. CountInv'
    <2>1. ~Preparing'
      BY <1>3, <1>4, <1>6 DEF Preparing
    <2>2. CASE runs[r] # None
      <3>1. SavedRuns' = SavedRuns
        BY <1>4, <1>6, <2>2 DEF SavedRuns
      <3> QED
        BY <1>2, <1>3, <2>1, <3>1, CountSaved
    <2>3. CASE runs[r] = None
      <3>1. Preparing
        BY <1>3, <2>3 DEF Preparing, Active
      <3>2. PICK n \in Nat : SavedRuns = 1..n /\ n + budget.starts + 1 <= MaxRuns /\ r = n + 1
        BY <1>2, <1>4, <3>1 DEF CountInv
      <3>3. SavedRuns' = 1..(n + 1)
        BY <1>6, <3>2
      <3> DEFINE k == n + 1
      <3>4. k \in Nat /\ SavedRuns' = 1..k /\ k + budget.starts + 0 <= MaxRuns
        BY <1>2, <3>2, <3>3 DEF AgentsAssumption
      <3> HIDE DEF k
      <3>5. k + budget'.starts + (IF Preparing' THEN 1 ELSE 0) <= MaxRuns
        BY <1>3, <2>1, <3>4
      <3> QED
        BY <2>1, <3>4, <3>5 DEF CountInv
    <2> QED
      BY <2>2, <2>3
  <1>12. OneAnalysis'
    <2>1. ready /\ ~broken => StillRunning \subseteq {r}
      BY <1>2, <1>4 DEF OneAnalysis
    <2> QED
      BY <1>3, <1>6, <2>1 DEF OneAnalysis
  <1> QED
    BY <1>3, <1>8, <1>9, <1>10, <1>11, <1>12 DEF AgentsInv, CoreInv

LEMMA SaveOfReview ==
  ASSUME AgentsAssumption, AgentsInv, SaveRun("review")
  PROVE  AgentsInv'
  <1> DEFINE r == task["review"].run
  <1> DEFINE m == task["review"].mine
  <1>1. CoreInv /\ "review" \in Actors
    BY DEF AgentsInv, Actors
  <1>2. /\ IdleInv /\ InitInv /\ ReviewInv /\ CountInv /\ AgentTypes /\ OneAnalysis
        /\ budget.starts \in Nat
    BY <1>1, CoreParts
  <1>3. /\ task["review"] # None /\ task["review"].todo # <<>> /\ runs' = [runs EXCEPT ![r] = m]
        /\ task' \in [Actors -> Handling \cup {None}] /\ \A b \in Actors \ {"review"} : task'[b] = task[b]
        /\ task'["review"].run = r /\ task'["review"].at = task["review"].at /\ task'["review"].mine = m
        /\ UNCHANGED <<feed, delivered, ready, running, delivery, broken, heard, budget>>
        /\ FeedInv' /\ WorldTypes'
    BY <1>1, SaveParts
  <1>4. /\ ready /\ running = None /\ task["start"] = None /\ task["execute"] = None /\ task["review"].at # "detail"
        /\ r \in Runs /\ runs[r] # None /\ m \in RunRecords /\ m.status = runs[r].status
    BY <1>2, <1>3 DEF ReviewInv, Active
  <1>5. task["init"] = None
    BY <1>2, <1>4 DEF InitInv, Active
  <1>6. /\ runs' \in [Runs -> RunRecords \cup {None}] /\ runs'[r] = m /\ runs'[r] # None /\ SavedRuns' = SavedRuns \cup {r}
        /\ StillRunning' = StillRunning
    <2>1. AgentTypes /\ runs' = [runs EXCEPT ![r] = m]
      BY <1>2, <1>3
    <2> HIDE DEF r, m
    <2> QED
      BY <1>4, <2>1, SavedAs
  <1>7. task'["init"] = None /\ task'["start"] = None /\ task'["execute"] = None
    BY <1>3, <1>4, <1>5 DEF Actors
  <1>8. AgentTypes'
    BY <1>1, <1>3, <1>6, CoreParts DEF AgentTypes, WorldTypes
  <1>9. IdleInv' /\ InitInv' /\ StartInv' /\ ExecuteInv'
    BY <1>3, <1>4, <1>7 DEF IdleInv, InitInv, StartInv, ExecuteInv, Active
  <1>10. ReviewInv'
    <2> DEFINE t == task'["review"]
    <2>1. t.run = r /\ t.mine = m /\ t.at # "detail" /\ running' = None /\ ready'
      BY <1>3, <1>4
    <2> HIDE DEF t, r, m
    <2> QED
      BY <1>4, <1>6, <1>7, <2>1 DEF ReviewInv, Active, t
  <1>11. CountInv'
    <2>1. ~Preparing'
      BY <1>7 DEF Preparing, Active
    <2>2. SavedRuns' = SavedRuns
      BY <1>4, <1>6 DEF SavedRuns
    <2> QED
      BY <1>2, <1>3, <2>1, <2>2, CountSaved
  <1>12. OneAnalysis'
    BY <1>2, <1>3, <1>4, <1>6 DEF OneAnalysis
  <1> QED
    BY <1>3, <1>8, <1>9, <1>10, <1>11, <1>12 DEF AgentsInv, CoreInv

-----------------------------------------------------------------------------
(* Starts and reviews.                                                     *)

LEMMA StartStep ==
  ASSUME AgentsAssumption, AgentsInv, Start
  PROVE  AgentsInv'
  <1> DEFINE t == Task(None, "projects", <<>>, None)
  <1>1. CoreInv /\ FeedInv
    BY DEF AgentsInv
  <1>2. /\ ready /\ task["start"] = None /\ running = None /\ task["review"] = None
        /\ Spend("starts") /\ task' = [task EXCEPT !["start"] = t]
        /\ UNCHANGED <<runs, feed, delivered, ready, running, delivery, broken, heard>> /\ UNCHANGED world
    BY DEF Start, MayStart, Become, store, process
  <1>3. /\ IdleInv /\ InitInv /\ ExecuteInv /\ CountInv /\ OneAnalysis /\ budget.starts \in Nat
        /\ task \in [Actors -> Handling \cup {None}]
    BY <1>1, CoreParts
  <1>4. t \in Handling /\ t.run = None /\ t.at = "projects" /\ t.todo = <<>>
    <2>1. "projects" \in Stops /\ <<>> \in Seq(Awaited)
      BY TodoSaving DEF Stops
    <2>2. \A S : <<>> \in S => [run |-> None, at |-> "projects", todo |-> <<>>, mine |-> None] \in
                             [run : Runs \cup {None}, at : Stops, todo : S, mine : RunRecords \cup {None}]
      BY <2>1
    <2> QED
      BY <2>1, <2>2 DEF Task, Handling
  <1> HIDE DEF t
  <1>5. task["execute"] = None /\ task["init"] = None
    BY <1>2, <1>3 DEF ExecuteInv, InitInv, Active, AgentsAssumption
  <1>6. /\ task' \in [Actors -> Handling \cup {None}] /\ task'["start"] = t
        /\ task'["init"] = None /\ task'["execute"] = None /\ task'["review"] = None
    BY <1>2, <1>3, <1>4, <1>5 DEF Actors
  <1>7. budget' \in Plans /\ budget'.starts = budget.starts - 1 /\ budget.starts > 0
    BY <1>1, <1>2, CoreParts, SpendType DEF Budgeted, Plans
  <1>8. FeedInv' /\ WorldTypes'
    BY <1>1, <1>2, CoreParts, FeedStays, WorldStays
  <1>9. AgentTypes'
    BY <1>1, <1>2, <1>6, <1>7, <1>8, CoreParts DEF AgentTypes, WorldTypes
  <1>10. IdleInv' /\ InitInv' /\ StartInv' /\ ExecuteInv' /\ ReviewInv'
    BY <1>2, <1>4, <1>6 DEF IdleInv, InitInv, StartInv, ExecuteInv, ReviewInv, Active
  <1>11. CountInv'
    <2>1. PICK n \in Nat : SavedRuns = 1..n /\ n + budget.starts <= MaxRuns
      <3>1. ~Preparing
        BY <1>2 DEF Preparing, Active
      <3> QED
        BY <1>3, <3>1 DEF CountInv
    <2>2. SavedRuns' = 1..n
      BY <1>2, <2>1, SavedSets
    <2>3. n + budget'.starts + (IF Preparing' THEN 1 ELSE 0) <= MaxRuns
      <3> DEFINE left == budget'.starts
      <3>1. left = budget.starts - 1
        BY <1>7
      <3> HIDE DEF left
      <3>2. n + left + 1 <= MaxRuns /\ n + left + 0 <= MaxRuns
        BY <1>3, <2>1, <3>1 DEF AgentsAssumption
      <3> QED
        BY <3>2 DEF left
    <2>4. task'["start"].at # "begin"
      BY <1>4, <1>6
    <2> QED
      BY <2>2, <2>3, <2>4 DEF CountInv
  <1>12. OneAnalysis'
    <2>1. ready /\ ~broken => StillRunning = {}
      BY <1>2, <1>3, <1>5 DEF OneAnalysis
    <2>2. StillRunning' = StillRunning
      BY <1>2, SavedSets
    <2> QED
      BY <1>2, <2>1, <2>2 DEF OneAnalysis
  <1> QED
    BY <1>8, <1>9, <1>10, <1>11, <1>12 DEF AgentsInv, CoreInv

\* A start that is prepared has its number: it is the next one, and nobody has saved it.
LEMMA StartRunStep ==
  ASSUME AgentsAssumption, AgentsInv, StartRun
  PROVE  AgentsInv'
  <1>1. CoreInv /\ FeedInv
    BY DEF AgentsInv
  <1>2. /\ task["start"] # None /\ task["start"].todo = <<>> /\ task["start"].at = "projects"
        /\ UNCHANGED <<runs, feed, delivered, ready, running, delivery, broken, heard, budget>> /\ UNCHANGED world
    BY DEF StartRun, Reaches, store, process
  <1>3. /\ IdleInv /\ InitInv /\ StartInv /\ ExecuteInv /\ ReviewInv /\ CountInv /\ OneAnalysis
        /\ budget.starts \in Nat /\ budget \in Plans
        /\ task \in [Actors -> Handling \cup {None}] /\ AgentTypes
    BY <1>1, CoreParts
  <1>4. running = None /\ task["execute"] = None /\ task["start"].run = None
    BY <1>2, <1>3 DEF StartInv, Active
  <1>5. ready /\ task["init"] = None /\ task["review"] = None
    BY <1>2, <1>3 DEF IdleInv, InitInv, ReviewInv, Active
  <1>6. PICK n \in Nat : SavedRuns = 1..n /\ n + budget.starts + 1 <= MaxRuns
    <2>1. Preparing
      BY <1>2 DEF Preparing, Active
    <2> QED
      BY <1>3, <2>1 DEF CountInv
  <1> DEFINE r == Cardinality(SavedRuns) + 1
  <1> DEFINE todo == Saving \o Told(Event(r, "started", 0))
  <1> DEFINE t == Task(r, "begin", todo, NewRun(config.version))
  <1>7. r = n + 1 /\ r \in Runs
    <2>1. Cardinality(1..n) = n
      BY FS_Interval
    <2> QED
      BY <1>3, <1>6, <2>1 DEF Runs, AgentsAssumption
  <1>8. runs[r] = None
    <2>1. r \notin SavedRuns
      BY <1>6, <1>7
    <2> QED
      BY <1>7, <2>1 DEF SavedRuns
  <1>9. todo \in Seq(Awaited) /\ SaveFirst(todo)
    <2>1. Event(r, "started", 0) \in Events
      BY <1>7, EventType DEF EventKinds
    <2> QED
      BY <2>1, TodoTold, TodoSaved
  <1>10. NewRun(config.version) \in RunRecords /\ NewRun(config.version).reviews = 0
    <2>1. config.version \in Nat /\ <<>> \in Seq(ModelCalls)
      BY <1>3 DEF AgentTypes
    <2>2. \A S : \A v \in Nat : <<>> \in S =>
            [status |-> "running", stages |-> 0, calls |-> <<>>, outcome |-> None, reviews |-> 0,
             config |-> v, context |-> None, knowledge |-> None]
            \in [status : {"running", "succeeded", "failed", "interrupted"}, stages : Nat, calls : S,
                 outcome : {None, "aligned", "difference"}, reviews : Nat,
                 config : Nat, context : Nat \cup {None}, knowledge : Nat \cup {None}]
      OBVIOUS
    <2> QED
      BY <2>1, <2>2 DEF NewRun, RunRecords
  <1>11. t \in Handling /\ t.run = r /\ t.at = "begin" /\ t.todo = todo /\ t.mine = NewRun(config.version)
    <2> DEFINE run == NewRun(config.version)
    <2>1. "begin" \in Stops /\ run \in RunRecords \cup {None} /\ r \in Runs \cup {None}
      BY <1>7, <1>10 DEF Stops
    <2> HIDE DEF r, todo, run
    <2>2. t = Task(r, "begin", todo, run)
      BY DEF run
    <2> HIDE DEF t
    <2>3. t \in Handling /\ t.run = r /\ t.at = "begin" /\ t.todo = todo /\ t.mine = run
      BY <1>9, <2>1, <2>2, TaskType
    <2> QED
      BY <2>3 DEF run
  <1>12. task' \in {[task EXCEPT !["start"] = None], [task EXCEPT !["start"] = t]}
    BY DEF StartRun, Become
  <1> HIDE DEF r, todo, t
  <1>13. FeedInv' /\ WorldTypes'
    BY <1>1, <1>2, CoreParts, FeedStays, WorldStays
  <1>14. /\ task' \in [Actors -> Handling \cup {None}] /\ task'["start"] \in {None, t}
         /\ task'["init"] = None /\ task'["execute"] = None /\ task'["review"] = None
    BY <1>3, <1>4, <1>5, <1>11, <1>12 DEF Actors
  <1>15. AgentTypes'
    BY <1>2, <1>3, <1>13, <1>14 DEF AgentTypes, WorldTypes
  <1>16. IdleInv' /\ InitInv' /\ ExecuteInv' /\ ReviewInv'
    BY <1>2, <1>5, <1>14 DEF IdleInv, InitInv, ExecuteInv, ReviewInv, Active
  <1>17. StartInv'
    BY <1>2, <1>4, <1>7, <1>8, <1>9, <1>10, <1>11, <1>14 DEF StartInv, Active, Do, SaveFirst
  <1>18. CountInv'
    <2>1. SavedRuns' = 1..n
      BY <1>2, <1>6, SavedSets
    <2>2. n + budget'.starts + (IF Preparing' THEN 1 ELSE 0) <= MaxRuns
      <3>1. n + budget.starts + 0 <= MaxRuns
        BY <1>3, <1>6 DEF AgentsAssumption
      <3> QED
        BY <1>2, <1>6, <3>1
    <2>3. Preparing' => task'["start"].run = n + 1
      BY <1>7, <1>11, <1>14 DEF Preparing, Active
    <2> QED
      BY <2>1, <2>2, <2>3 DEF CountInv
  <1>19. OneAnalysis'
    <2>1. ready /\ ~broken => StillRunning = {}
      <3>1. \A x \in StillRunning : x \in Runs
        BY DEF StillRunning, SavedRuns
      <3>2. None \notin Runs
        BY DEF AgentsAssumption
      <3> QED
        BY <1>3, <1>4, <3>1, <3>2 DEF OneAnalysis
    <2>2. StillRunning' = StillRunning
      BY <1>2, SavedSets
    <2> QED
      BY <1>2, <2>1, <2>2 DEF OneAnalysis
  <1> QED
    BY <1>13, <1>15, <1>16, <1>17, <1>18, <1>19 DEF AgentsInv, CoreInv

LEMMA BeginStep ==
  ASSUME AgentsAssumption, AgentsInv, Begin
  PROVE  AgentsInv'
  <1> DEFINE t == [task["start"] EXCEPT !.at = "capture"]
  <1>1. CoreInv /\ FeedInv
    BY DEF AgentsInv
  <1>2. /\ task["start"] # None /\ task["start"].todo = <<>> /\ task["start"].at = "begin"
        /\ running' = task["start"].run /\ task' = [task EXCEPT !["start"] = None, !["execute"] = t]
        /\ UNCHANGED <<runs, feed, delivered, ready, delivery, broken, heard, budget>> /\ UNCHANGED world
    BY DEF Begin, Reaches, store
  <1>3. /\ IdleInv /\ InitInv /\ StartInv /\ ReviewInv /\ CountInv /\ OneAnalysis
        /\ budget.starts \in Nat /\ budget \in Plans
        /\ task \in [Actors -> Handling \cup {None}] /\ AgentTypes
    BY <1>1, CoreParts
  <1> DEFINE r == task["start"].run
  <1> DEFINE m == task["start"].mine
  <1>4. /\ task["execute"] = None /\ r \in Runs /\ m \in RunRecords /\ m.reviews = 0
        /\ runs[r] # None /\ runs[r].reviews = 0
    BY <1>2, <1>3 DEF StartInv, Active, Do
  <1>5. ready /\ task["init"] = None /\ task["review"] = None
    BY <1>2, <1>3 DEF IdleInv, InitInv, ReviewInv, Active
  <1>6. t \in Handling /\ t.run = r /\ t.at = "capture" /\ t.mine = m
    <2>1. task["start"] \in Handling
      BY <1>2, <1>3 DEF Actors
    <2> QED
      BY <2>1 DEF Handling, Stops
  <1> HIDE DEF t
  <1>7. /\ task' \in [Actors -> Handling \cup {None}] /\ task'["execute"] = t
        /\ task'["init"] = None /\ task'["start"] = None /\ task'["review"] = None
    BY <1>2, <1>3, <1>5, <1>6 DEF Actors
  <1>8. running' = r /\ t # None
    BY <1>2, <1>6 DEF AgentsAssumption
  <1> HIDE DEF r, m
  <1>9. FeedInv' /\ WorldTypes'
    BY <1>1, <1>2, CoreParts, FeedStays, WorldStays
  <1>10. AgentTypes'
    BY <1>2, <1>3, <1>7, <1>9 DEF AgentTypes, WorldTypes
  <1>11. IdleInv' /\ InitInv' /\ StartInv' /\ ReviewInv'
    BY <1>2, <1>5, <1>7 DEF IdleInv, InitInv, StartInv, ReviewInv, Active
  <1>12. ExecuteInv'
    BY <1>2, <1>4, <1>6, <1>7, <1>8 DEF ExecuteInv, Active
  <1>13. CountInv'
    BY <1>2, <1>3, <1>7, CountStays
  <1>14. OneAnalysis'
    <2>1. ready /\ ~broken => StillRunning \subseteq {r}
      BY <1>3, <1>4 DEF OneAnalysis, r
    <2>2. StillRunning' = StillRunning
      BY <1>2, SavedSets
    <2> QED
      BY <1>2, <1>6, <1>7, <1>8, <2>1, <2>2 DEF OneAnalysis
  <1> QED
    BY <1>9, <1>10, <1>11, <1>12, <1>13, <1>14 DEF AgentsInv, CoreInv

\* A review goes on with what it may hold, or ends.
LEMMA ReviewGoes ==
  ASSUME AgentsAssumption, AgentsInv, NEW t \in Handling \cup {None}, task' = [task EXCEPT !["review"] = t], Stay,
         ready, running = None, ~Active("start"), ~Active("execute"), budget' \in Plans, budget'.starts = budget.starts,
         t # None => /\ t.run \in Runs /\ runs[t.run] # None
                     /\ t.at = "detail" => t.todo = <<>>
                     /\ t.at # "detail" =>
                          /\ t.mine \in RunRecords /\ t.mine.status = runs[t.run].status
                          /\ \/ t.mine.reviews = runs[t.run].reviews
                             \/ t.mine.reviews = runs[t.run].reviews + 1 /\ t.run = Max(Succeeded)
  PROVE  AgentsInv'
  <1>1. CoreInv /\ FeedInv
    BY DEF AgentsInv
  <1>2. UNCHANGED <<runs, feed, delivered, ready, running, delivery, broken, heard>> /\ UNCHANGED world
    BY DEF Stay, store, process
  <1>3. /\ IdleInv /\ InitInv /\ CountInv /\ OneAnalysis /\ budget.starts \in Nat
        /\ task \in [Actors -> Handling \cup {None}] /\ AgentTypes
    BY <1>1, CoreParts
  <1>4. task["init"] = None /\ task["start"] = None /\ task["execute"] = None
    BY <1>3 DEF InitInv, Active
  <1>5. /\ task' \in [Actors -> Handling \cup {None}] /\ task'["review"] = t
        /\ task'["init"] = None /\ task'["start"] = None /\ task'["execute"] = None
    BY <1>3, <1>4 DEF Actors
  <1>6. FeedInv' /\ WorldTypes'
    BY <1>1, <1>2, CoreParts, FeedStays, WorldStays
  <1>7. AgentTypes'
    BY <1>2, <1>3, <1>5, <1>6 DEF AgentTypes, WorldTypes
  <1>8. IdleInv' /\ InitInv' /\ StartInv' /\ ExecuteInv'
    BY <1>2, <1>5 DEF IdleInv, InitInv, StartInv, ExecuteInv, Active
  <1>9. ReviewInv'
    <2>1. Succeeded' = Succeeded
      BY <1>2, SavedSets
    <2> QED
      BY <1>2, <1>5, <2>1 DEF ReviewInv, Active
  <1>10. CountInv'
    BY <1>2, <1>3, <1>5, CountStays
  <1>11. OneAnalysis'
    <2>1. \A a \in {"start", "execute"} : task[a] # None => task'[a] # None /\ task'[a].run = task[a].run
      BY <1>4
    <2> QED
      BY <1>2, <1>3, <2>1, OwnerStays
  <1> QED
    BY <1>6, <1>7, <1>8, <1>9, <1>10, <1>11 DEF AgentsInv, CoreInv

LEMMA ReviewStep ==
  ASSUME AgentsAssumption, AgentsInv, NEW r \in Runs, Review(r)
  PROVE  AgentsInv'
  <1>1. CoreInv /\ ExecuteInv
    BY CoreParts DEF AgentsInv
  <1>2. ready /\ running = None /\ ~Active("start") /\ r \in SavedRuns /\ Spend("reviews") /\ Stay
    BY DEF Review, Active, Stay
  <1>3. runs[r] # None /\ runs[r] \in RunRecords
    BY <1>1, <1>2, CoreParts DEF SavedRuns
  <1>4. ~Active("execute")
    BY <1>1, <1>2 DEF ExecuteInv, AgentsAssumption
  <1>5. budget' \in Plans /\ budget'.starts = budget.starts
    BY <1>1, <1>2, CoreParts, SpendType DEF Budgeted
  <1>6. PICK seen \in 0..runs[r].reviews :
          task' = [task EXCEPT !["review"] = Task(r, "detail", <<>>, [runs[r] EXCEPT !.reviews = seen])]
    BY DEF Review, Become
  <1> DEFINE run == [runs[r] EXCEPT !.reviews = seen]
  <1> DEFINE t == Task(r, "detail", <<>>, run)
  <1>7. run \in RunRecords
    <2>1. seen \in Nat
      BY <1>3, RunFields
    <2> QED
      BY <1>3, <2>1 DEF RunRecords
  <1> HIDE DEF run
  <1>8. t \in Handling /\ t.run = r /\ t.at = "detail" /\ t.todo = <<>>
    <2>1. \A S : <<>> \in S => [run |-> r, at |-> "detail", todo |-> <<>>, mine |-> run] \in
                             [run : Runs \cup {None}, at : Stops, todo : S, mine : RunRecords \cup {None}]
      BY <1>7 DEF Stops
    <2> QED
      BY <2>1, TodoSaving DEF Task, Handling
  <1>9. task' = [task EXCEPT !["review"] = t]
    BY <1>6 DEF run
  <1> HIDE DEF t
  <1> QED
    BY <1>2, <1>3, <1>4, <1>5, <1>8, <1>9, ReviewGoes

\* The parts of a review that goes on.
LEMMA Reviewing ==
  ASSUME AgentsInv, Active("review")
  PROVE  /\ ready /\ running = None /\ ~Active("start") /\ ~Active("execute")
         /\ task["review"].run \in Runs /\ runs[task["review"].run] # None /\ runs[task["review"].run] \in RunRecords
         /\ budget \in Plans
  <1>1. ReviewInv /\ runs \in [Runs -> RunRecords \cup {None}] /\ budget \in Plans
    BY CoreParts DEF AgentsInv
  <1> QED
    BY <1>1 DEF ReviewInv

LEMMA ReviewFindingStep ==
  ASSUME AgentsAssumption, AgentsInv, ReviewFinding
  PROVE  AgentsInv'
  <1> DEFINE r == task["review"].run
  <1> DEFINE run == [runs[r] EXCEPT !.reviews = @ + 1]
  <1> DEFINE todo == Saving \o Told(Event(r, "review", run.reviews))
  <1> DEFINE t == Task(r, "record", todo, run)
  <1>1. Active("review") /\ Stay /\ UNCHANGED budget
    BY DEF ReviewFinding, Reaches, Active, Stay
  <1>2. /\ ready /\ running = None /\ ~Active("start") /\ ~Active("execute")
        /\ r \in Runs /\ runs[r] # None /\ runs[r] \in RunRecords /\ budget' \in Plans /\ budget'.starts = budget.starts
    BY <1>1, Reviewing
  <1>3. CASE task' = [task EXCEPT !["review"] = None]
    BY <1>1, <1>2, <1>3, ReviewGoes
  <1>4. CASE IsCurrent(r) /\ task' = [task EXCEPT !["review"] = t]
    <2>1. run \in RunRecords /\ run.reviews = runs[r].reviews + 1 /\ run.status = runs[r].status /\ run.reviews \in Nat
      <3>1. runs[r].reviews + 1 \in Nat
        BY <1>2, RunFields
      <3>2. \A n \in Nat : LET next == [runs[r] EXCEPT !.reviews = n] IN
              next \in RunRecords /\ next.reviews = n /\ next.status = runs[r].status
        BY <1>2 DEF RunRecords
      <3> QED
        BY <3>1, <3>2
    <2> HIDE DEF r, run
    <2>2. Event(r, "review", run.reviews) \in Events
      BY <1>2, <2>1, EventType DEF EventKinds
    <2>3. todo \in Seq(Awaited)
      BY <2>2, TodoTold, TodoSaved
    <2> HIDE DEF todo
    <2>4. t \in Handling /\ t.run = r /\ t.at = "record" /\ t.mine = run
      <3>1. "record" \in Stops
        BY DEF Stops
      <3> QED
        BY <1>2, <2>1, <2>3, <3>1, TaskType
    <2>5. r = Max(Succeeded) /\ task' = [task EXCEPT !["review"] = t]
      BY <1>4 DEF IsCurrent
    <2> HIDE DEF t
    <2> QED
      BY <1>1, <1>2, <2>1, <2>4, <2>5, ReviewGoes
  <1> QED
    BY <1>3, <1>4 DEF ReviewFinding, Become

LEMMA RecordReviewStep ==
  ASSUME AgentsAssumption, AgentsInv, RecordReview
  PROVE  AgentsInv'
  <1> DEFINE r == task["review"].run
  <1> DEFINE t == Task(r, "noted", Saving, Progressed(runs[r]))
  <1>1. Active("review") /\ Stay /\ (UNCHANGED budget \/ Spend("failures"))
    BY DEF RecordReview, Reaches, Active
  <1>2. /\ ready /\ running = None /\ ~Active("start") /\ ~Active("execute")
        /\ r \in Runs /\ runs[r] # None /\ runs[r] \in RunRecords
    BY <1>1, Reviewing
  <1>3. budget' \in Plans /\ budget'.starts = budget.starts
    BY <1>1, Spent DEF AgentsInv
  <1>4. CASE task' = [task EXCEPT !["review"] = None]
    BY <1>1, <1>2, <1>3, <1>4, ReviewGoes
  <1>5. CASE task' = [task EXCEPT !["review"] = t]
    <2> DEFINE run == Progressed(runs[r])
    <2>1. run \in RunRecords /\ run.reviews = runs[r].reviews /\ run.status = runs[r].status
      BY <1>2, ProgressedType
    <2> HIDE DEF r, run
    <2>2. t \in Handling /\ t.run = r /\ t.at = "noted" /\ t.mine = run
      <3>1. "noted" \in Stops
        BY DEF Stops
      <3> QED
        BY <1>2, <2>1, <3>1, TodoSaving, TaskType DEF run
    <2>3. task' = [task EXCEPT !["review"] = t]
      BY <1>5
    <2> HIDE DEF t
    <2> QED
      BY <1>1, <1>2, <1>3, <2>1, <2>2, <2>3, ReviewGoes
  <1> QED
    BY <1>4, <1>5 DEF RecordReview, Become

LEMMA ReviewEndsStep ==
  ASSUME AgentsAssumption, AgentsInv, ReviewEnds
  PROVE  AgentsInv'
  <1>1. Active("review") /\ Stay /\ UNCHANGED budget /\ task' = [task EXCEPT !["review"] = None]
    BY DEF ReviewEnds, Reaches, Active, Become
  <1>2. ready /\ running = None /\ ~Active("start") /\ ~Active("execute") /\ budget' \in Plans /\ budget'.starts = budget.starts
    BY <1>1, Reviewing
  <1> QED
    BY <1>1, <1>2, ReviewGoes

-----------------------------------------------------------------------------
(* The end of the process, the repair, and writes that fail.               *)

\* The process has ended: nothing is at work.
LEMMA StoppedStep ==
  ASSUME AgentsAssumption, AgentsInv, task' = [a \in Actors |-> None], ready' = FALSE, running' = None,
         delivery' \in {delivery, None}, UNCHANGED <<runs, feed, delivered, heard>>, UNCHANGED world,
         broken' \in BOOLEAN, budget' \in Plans, budget'.starts = budget.starts
  PROVE  AgentsInv'
  <1>1. CoreInv /\ FeedInv
    BY DEF AgentsInv
  <1>2. AgentTypes /\ CountInv /\ budget.starts \in Nat
    BY <1>1, CoreParts
  <1>3. FeedInv' /\ WorldTypes'
    BY <1>1, <1>2, FeedStays, WorldStays
  <1>4. AgentTypes'
    BY <1>2, <1>3 DEF AgentTypes, WorldTypes
  <1>5. IdleInv' /\ InitInv' /\ StartInv' /\ ExecuteInv' /\ ReviewInv'
    BY DEF IdleInv, InitInv, StartInv, ExecuteInv, ReviewInv, Active, Actors
  <1>6. CountInv'
    <2>1. task'["start"] = None
      BY DEF Actors
    <2> QED
      BY <1>2, <2>1, CountStays
  <1>7. OneAnalysis'
    BY DEF OneAnalysis
  <1> QED
    BY <1>3, <1>4, <1>5, <1>6, <1>7 DEF AgentsInv, CoreInv

LEMMA ServerStopsStep ==
  ASSUME AgentsAssumption, AgentsInv, ServerStops
  PROVE  AgentsInv'
  <1>1. AgentTypes /\ budget \in Plans
    BY CoreParts DEF AgentsInv
  <1>2. Spend("crashes") /\ task' = [a \in Actors |-> None] /\ ready' = FALSE /\ running' = None /\ delivery' = None
        /\ UNCHANGED <<runs, feed, delivered, heard, broken>> /\ UNCHANGED world
    BY DEF ServerStops, store
  <1>3. budget' \in Plans /\ budget'.starts = budget.starts
    BY <1>1, <1>2, SpendType DEF Budgeted
  <1>4. broken' \in BOOLEAN
    BY <1>1, <1>2 DEF AgentTypes
  <1> QED
    BY <1>2, <1>3, <1>4, StoppedStep

\* Handlers whose write failed end, or turn to the failure of the execution.
LEMMA BreakStep ==
  ASSUME AgentsAssumption, AgentsInv, NEW actors \in SUBSET Actors, \A a \in actors : task[a] # None, Break(actors),
         broken' = TRUE, delivery' \in {delivery, None}, UNCHANGED <<runs, feed, delivered, heard>>, UNCHANGED world,
         budget' \in Plans, budget'.starts = budget.starts
  PROVE  AgentsInv'
  <1>1. CASE task' = [a \in Actors |-> None] /\ ready' = FALSE /\ running' = None
    BY <1>1, StoppedStep
  <1>2. CASE /\ "init" \notin actors
             /\ task' = [a \in Actors |-> IF a \notin actors THEN task[a] ELSE IF a = "execute" THEN Failing ELSE None]
             /\ UNCHANGED <<ready, running>>
    <2>1. CoreInv /\ FeedInv
      BY DEF AgentsInv
    <2>2. /\ IdleInv /\ InitInv /\ StartInv /\ ExecuteInv /\ ReviewInv /\ CountInv /\ AgentTypes /\ budget.starts \in Nat
          /\ task \in [Actors -> Handling \cup {None}]
      BY <2>1, CoreParts
    <2>3. FeedInv' /\ WorldTypes'
      BY <2>1, <2>2, FeedStays, WorldStays
    <2>4. /\ task'["init"] = task["init"] /\ task'["start"] \in {task["start"], None}
          /\ task'["review"] \in {task["review"], None}
          /\ task'["execute"] = (IF "execute" \in actors THEN Failing ELSE task["execute"])
      BY <1>2 DEF Actors
    <2>5. CASE "execute" \notin actors
      <3>1. task' \in [Actors -> Handling \cup {None}]
        BY <1>2, <2>2, <2>5
      <3>2. AgentTypes'
        BY <1>2, <2>2, <2>3, <3>1 DEF AgentTypes, WorldTypes
      <3>3. task'["execute"] = task["execute"]
        BY <2>4, <2>5
      <3>4. IdleInv'
        BY <1>2, <2>2, <2>4, <3>3 DEF IdleInv, Active
      <3>5. InitInv' /\ StartInv' /\ ExecuteInv' /\ ReviewInv' /\ CountInv'
        BY <1>2, <2>2, <2>4, <3>3, InitStays, StartStays, ExecuteStays, ReviewStays, CountStays
      <3>6. OneAnalysis'
        BY DEF OneAnalysis
      <3> QED
        BY <2>3, <3>2, <3>4, <3>5, <3>6 DEF AgentsInv, CoreInv
    <2>6. CASE "execute" \in actors
      <3> DEFINE todo == Saving \o Told(Event(Run, "failed", 0))
      <3>1. /\ Run \in Runs /\ Mine \in RunRecords /\ running = Run /\ runs[Run] # None /\ Mine.reviews = runs[Run].reviews
            /\ ready /\ ~Active("init") /\ ~Active("start") /\ ~Active("review")
        BY <2>1, <2>6, Executing DEF Active
      <3>2. Event(Run, "failed", 0) \in Events
        BY <3>1, EventType DEF EventKinds
      <3>3. todo \in Seq(Awaited) /\ SaveFirst(todo)
        BY <3>2, TodoTold, TodoSaved
      <3>4. Failed(Mine) \in RunRecords /\ Failed(Mine).reviews = Mine.reviews /\ Failed(Mine).status # "running"
        BY <3>1, FailedType
      <3>5. Failing = Task(Run, "ended", todo, Failed(Mine))
        BY DEF Failing, Run, Mine
      <3> HIDE DEF todo
      <3>6. /\ Failing \in Handling /\ Failing.run = Run /\ Failing.at = "ended" /\ Failing.todo = todo
            /\ Failing.mine = Failed(Mine)
        <4>1. "ended" \in Stops
          BY DEF Stops
        <4> QED
          BY <3>1, <3>3, <3>4, <3>5, <4>1, TaskType
      <3>7. /\ task' \in [Actors -> Handling \cup {None}] /\ task'["execute"] = Failing
            /\ task'["init"] = None /\ task'["start"] = None /\ task'["review"] = None
        BY <1>2, <2>2, <2>4, <2>6, <3>1, <3>6 DEF Active
      <3>8. AgentTypes'
        BY <1>2, <2>2, <2>3, <3>7 DEF AgentTypes, WorldTypes
      <3>9. IdleInv' /\ InitInv' /\ StartInv' /\ ReviewInv'
        BY <1>2, <3>1, <3>7 DEF IdleInv, InitInv, StartInv, ReviewInv, Active
      <3>10. ExecuteInv'
        BY <1>2, <3>1, <3>3, <3>4, <3>6, <3>7 DEF ExecuteInv, Active, Do, SaveFirst
      <3>11. CountInv'
        BY <2>2, <3>7, CountStays
      <3>12. OneAnalysis'
        BY DEF OneAnalysis
      <3> QED
        BY <2>3, <3>8, <3>9, <3>10, <3>11, <3>12 DEF AgentsInv, CoreInv
    <2> QED
      BY <2>5, <2>6
  <1> QED
    BY <1>1, <1>2 DEF Break

LEMMA WriteFailsStep ==
  ASSUME AgentsAssumption, AgentsInv, NEW a \in Actors, WriteFails(a)
  PROVE  AgentsInv'
  <1>1. budget \in Plans
    BY CoreParts DEF AgentsInv
  <1>2. /\ task[a] # None /\ Spend("failingWrites") /\ broken' = TRUE /\ Break({a}) /\ delivery' \in {delivery, None}
        /\ UNCHANGED <<runs, feed, delivered, heard>> /\ UNCHANGED world
    BY DEF WriteFails, Do, store
  <1>3. budget' \in Plans /\ budget'.starts = budget.starts
    BY <1>1, <1>2, SpendType DEF Budgeted
  <1> DEFINE actors == {a}
  <1>4. actors \in SUBSET Actors /\ (\A b \in actors : task[b] # None) /\ Break(actors)
    BY <1>2
  <1> HIDE DEF actors
  <1> QED
    BY <1>2, <1>3, <1>4, BreakStep

LEMMA MarkFailsStep ==
  ASSUME AgentsAssumption, AgentsInv, MarkFails
  PROVE  AgentsInv'
  <1>1. budget \in Plans
    BY CoreParts DEF AgentsInv
  <1> DEFINE actors == {a \in Actors : Do(a, "join")}
  <1>2. /\ Spend("failingWrites") /\ broken' = TRUE /\ Break(actors) /\ delivery' = None
        /\ UNCHANGED <<runs, feed, delivered, heard>> /\ UNCHANGED world
    BY DEF MarkFails, store
  <1>3. budget' \in Plans /\ budget'.starts = budget.starts
    BY <1>1, <1>2, SpendType DEF Budgeted
  <1>4. actors \in SUBSET Actors /\ \A b \in actors : task[b] # None
    BY DEF Do
  <1> HIDE DEF actors
  <1> QED
    BY <1>2, <1>3, <1>4, BreakStep

\* What a task waits for at the start of the server: nothing, or what is pending.
LEMMA BareTask ==
  ASSUME NEW at \in Stops, NEW todo \in {<<>>, <<Effect("deliver", None)>>}
  PROVE  LET t == Task(None, at, todo, None) IN
         t \in Handling /\ t.run = None /\ t.at = at /\ t.todo = todo /\ NoSave(todo)
  <1>1. todo \in Seq(Awaited)
    <2>1. <<>> \in Seq(Awaited) /\ <<Effect("deliver", None)>> \in Seq(Awaited)
      BY AwaitedItems
    <2> QED
      BY <2>1
  <1>2. NoSave(todo)
    <2>1. NoSave(<<>>) /\ NoSave(<<Effect("deliver", None)>>)
      BY DEF NoSave, Effect
    <2> QED
      BY <2>1
  <1>3. \A x, S : x \in S => [run |-> None, at |-> at, todo |-> x, mine |-> None] \in
                         [run : Runs \cup {None}, at : Stops, todo : S, mine : RunRecords \cup {None}]
    OBVIOUS
  <1>4. Task(None, at, todo, None) = [run |-> None, at |-> at, todo |-> todo, mine |-> None]
    BY DEF Task
  <1>5. Task(None, at, todo, None) \in Handling
    BY <1>1, <1>3, <1>4 DEF Handling
  <1> QED
    BY <1>2, <1>4, <1>5

\* The start of the server goes on with what it may hold.
LEMMA InitGoes ==
  ASSUME AgentsAssumption, AgentsInv, NEW t \in Handling, task' = [task EXCEPT !["init"] = t], Stay, ~ready, UNCHANGED budget,
         t.at \in {"interrupt", "repair", "serve"},
         t.at = "interrupt" => \/ t.todo = <<>>
                               \/ /\ t.run \in Runs /\ runs[t.run] # None
                                  /\ t.mine \in RunRecords /\ t.mine.reviews = runs[t.run].reviews,
         t.at # "interrupt" => NoSave(t.todo) /\ StillRunning = {},
         t.at = "serve" => Untold = {}
  PROVE  AgentsInv'
  <1>1. CoreInv /\ FeedInv
    BY DEF AgentsInv
  <1>2. UNCHANGED <<runs, feed, delivered, ready, running, delivery, broken, heard>> /\ UNCHANGED world
    BY DEF Stay, store, process
  <1>3. /\ IdleInv /\ CountInv /\ budget.starts \in Nat /\ budget \in Plans
        /\ task \in [Actors -> Handling \cup {None}] /\ AgentTypes
    BY <1>1, CoreParts
  <1>4. task["start"] = None /\ task["execute"] = None /\ task["review"] = None /\ running = None
    BY <1>3 DEF IdleInv, Active
  <1>5. /\ task' \in [Actors -> Handling \cup {None}] /\ task'["init"] = t
        /\ task'["start"] = None /\ task'["execute"] = None /\ task'["review"] = None
    BY <1>3, <1>4 DEF Actors
  <1>6. FeedInv' /\ WorldTypes'
    BY <1>1, <1>2, CoreParts, FeedStays, WorldStays
  <1>7. AgentTypes'
    BY <1>2, <1>3, <1>5, <1>6 DEF AgentTypes, WorldTypes
  <1>8. IdleInv' /\ StartInv' /\ ExecuteInv' /\ ReviewInv'
    BY <1>2, <1>4, <1>5 DEF IdleInv, StartInv, ExecuteInv, ReviewInv, Active
  <1>9. InitInv'
    <2>1. StillRunning' = StillRunning
      BY <1>2, SavedSets
    <2>2. Untold = {} => Untold' = {}
      BY <1>2, StaysTold
    <2> QED
      BY <1>2, <1>5, <2>1, <2>2 DEF InitInv, Active
  <1>10. CountInv'
    BY <1>2, <1>3, <1>5, CountStays
  <1>11. OneAnalysis'
    BY <1>2 DEF OneAnalysis
  <1> QED
    BY <1>6, <1>7, <1>8, <1>9, <1>10, <1>11 DEF AgentsInv, CoreInv

LEMMA RestartStep ==
  ASSUME AgentsAssumption, AgentsInv, Restart
  PROVE  AgentsInv'
  <1> DEFINE t == Task(None, "interrupt", <<>>, None)
  <1>1. ~ready /\ task' = [task EXCEPT !["init"] = t] /\ Stay /\ UNCHANGED budget
    BY DEF Restart, Become, Stay
  <1>2. t \in Handling /\ t.at = "interrupt" /\ t.todo = <<>>
    BY BareTask DEF Stops
  <1> HIDE DEF t
  <1> QED
    BY <1>1, <1>2, InitGoes

\* Once nothing runs any more, the repair goes on to the events; once nothing is untold, to the service.
LEMMA InterruptRunStep ==
  ASSUME AgentsAssumption, AgentsInv, InterruptRun
  PROVE  AgentsInv'
  <1>1. /\ Active("init") /\ InitInv /\ AgentTypes /\ CountInv /\ Stay /\ UNCHANGED budget
    BY CoreParts DEF InterruptRun, Reaches, Active, AgentsInv, Stay
  <1>2. ~ready
    BY <1>1 DEF InitInv
  <1>3. CASE StillRunning # {}
    <2> DEFINE r == Max(StillRunning)
    <2> DEFINE run == Interrupted(runs[r])
    <2> DEFINE todo == Saving \o Told(Event(r, "interrupted", 0))
    <2> DEFINE t == Task(r, "interrupt", todo, run)
    <2>1. r \in StillRunning
      <3>1. StillRunning \in SUBSET (1..MaxRuns) /\ MaxRuns \in Nat
        BY DEF StillRunning, SavedRuns, Runs, AgentsAssumption
      <3> QED
        BY <1>3, <3>1, MaxIsIn
    <2>2. task' = [task EXCEPT !["init"] = t]
      BY <1>3 DEF InterruptRun, Become
    <2> HIDE DEF r
    <2>3. r \in Runs /\ runs[r] # None /\ runs[r] \in RunRecords
      BY <1>1, <2>1 DEF StillRunning, SavedRuns, AgentTypes
    <2>4. run \in RunRecords /\ run.reviews = runs[r].reviews
      BY <2>3, InterruptedType
    <2>5. Event(r, "interrupted", 0) \in Events
      BY <2>3, EventType DEF EventKinds
    <2>6. todo \in Seq(Awaited)
      BY <2>5, TodoTold, TodoSaved
    <2> HIDE DEF run, todo
    <2>7. t \in Handling /\ t.run = r /\ t.at = "interrupt" /\ t.mine = run
      <3>1. "interrupt" \in Stops
        BY DEF Stops
      <3> QED
        BY <2>3, <2>4, <2>6, <3>1, TaskType
    <2> HIDE DEF t
    <2> QED
      BY <1>1, <1>2, <2>2, <2>3, <2>4, <2>7, InitGoes
  <1>4. CASE StillRunning = {}
    <2> DEFINE t == Task(None, "repair", <<>>, None)
    <2>1. task' = [task EXCEPT !["init"] = t]
      BY <1>4 DEF InterruptRun, Become
    <2>2. t \in Handling /\ t.at = "repair" /\ t.todo = <<>> /\ NoSave(t.todo)
      BY BareTask DEF Stops
    <2> HIDE DEF t
    <2> QED
      BY <1>1, <1>2, <1>4, <2>1, <2>2, InitGoes
  <1> QED
    BY <1>3, <1>4

LEMMA RepairCallsStep ==
  ASSUME AgentsAssumption, AgentsInv, RepairCalls
  PROVE  AgentsInv'
  <1>1. /\ task["init"] # None /\ task["init"].at = "repair" /\ InitInv /\ AgentTypes /\ Stay /\ UNCHANGED budget
    BY CoreParts DEF RepairCalls, Reaches, AgentsInv, Stay
  <1>2. ~ready /\ StillRunning = {}
    BY <1>1 DEF InitInv, Active
  <1>3. CASE Untold # {}
    <2>1. PICK e \in Untold : task' = [task EXCEPT !["init"] = Task(e[1], "repair", Told(e), None)]
      BY <1>3 DEF RepairCalls, Become
    <2>2. e[1] \in Runs /\ e \in Events
      <3>1. PICK r \in SavedRuns, n \in 1..(MaxRounds + 3) : e = CallEnd(r, n)
        BY DEF Untold
      <3>2. r \in Runs /\ n \in Nat /\ "call:completed" \in EventKinds
        BY DEF SavedRuns, EventKinds
      <3> QED
        BY <3>1, <3>2 DEF CallEnd, Event, Events
    <2> DEFINE todo == Told(e)
    <2>3. todo \in Seq(Awaited) /\ NoSave(todo)
      BY <2>2, TodoTold
    <2> DEFINE r == e[1]
    <2> HIDE DEF todo, r
    <2> DEFINE t == Task(r, "repair", todo, None)
    <2>4. t \in Handling /\ t.at = "repair" /\ t.todo = todo
      <3>1. \A x, S : x \in S => [run |-> r, at |-> "repair", todo |-> x, mine |-> None] \in
                         [run : Runs \cup {None}, at : Stops, todo : S, mine : RunRecords \cup {None}]
        BY <2>2 DEF Stops, r
      <3>2. t = [run |-> r, at |-> "repair", todo |-> todo, mine |-> None]
        BY DEF Task
      <3> QED
        BY <2>3, <3>1, <3>2 DEF Handling
    <2>5. task' = [task EXCEPT !["init"] = t]
      BY <2>1 DEF todo, r
    <2> HIDE DEF t
    <2> QED
      BY <1>1, <1>2, <2>3, <2>4, <2>5, InitGoes
  <1>4. CASE Untold = {}
    <2> DEFINE todo == <<Effect("deliver", None)>>
    <2> DEFINE t == Task(None, "serve", todo, None)
    <2>1. task' = [task EXCEPT !["init"] = t]
      BY <1>4 DEF RepairCalls, Become
    <2>2. t \in Handling /\ t.at = "serve" /\ t.todo = todo /\ NoSave(todo)
      BY BareTask DEF Stops
    <2> HIDE DEF t, todo
    <2> QED
      BY <1>1, <1>2, <1>4, <2>1, <2>2, InitGoes
  <1> QED
    BY <1>3, <1>4

LEMMA ServeStep ==
  ASSUME AgentsAssumption, AgentsInv, Serve
  PROVE  AgentsInv'
  <1>1. CoreInv /\ FeedInv
    BY DEF AgentsInv
  <1>2. /\ task["init"] # None /\ task["init"].at = "serve" /\ ready' = TRUE /\ broken' = FALSE
        /\ task' = [task EXCEPT !["init"] = None]
        /\ UNCHANGED <<runs, feed, delivered, running, delivery, heard, budget>> /\ UNCHANGED world
    BY DEF Serve, Reaches, Become, store
  <1>3. /\ IdleInv /\ InitInv /\ CountInv /\ budget.starts \in Nat /\ budget \in Plans
        /\ task \in [Actors -> Handling \cup {None}] /\ AgentTypes
    BY <1>1, CoreParts
  <1>4. ~ready /\ StillRunning = {}
    BY <1>2, <1>3 DEF InitInv, Active
  <1>5. task["start"] = None /\ task["execute"] = None /\ task["review"] = None /\ running = None
    BY <1>3, <1>4 DEF IdleInv, Active
  <1>6. /\ task' \in [Actors -> Handling \cup {None}] /\ task'["init"] = None
        /\ task'["start"] = None /\ task'["execute"] = None /\ task'["review"] = None
    BY <1>2, <1>3, <1>5 DEF Actors
  <1>7. FeedInv' /\ WorldTypes'
    BY <1>1, <1>2, CoreParts, FeedStays, WorldStays
  <1>8. AgentTypes'
    BY <1>2, <1>3, <1>6, <1>7 DEF AgentTypes, WorldTypes
  <1>9. IdleInv' /\ InitInv' /\ StartInv' /\ ExecuteInv' /\ ReviewInv'
    BY <1>2, <1>6 DEF IdleInv, InitInv, StartInv, ExecuteInv, ReviewInv, Active
  <1>10. CountInv'
    BY <1>2, <1>3, <1>6, CountStays
  <1>11. OneAnalysis'
    <2>1. StillRunning' = {}
      BY <1>2, <1>4, SavedSets
    <2> QED
      BY <2>1 DEF OneAnalysis
  <1> QED
    BY <1>7, <1>8, <1>9, <1>10, <1>11 DEF AgentsInv, CoreInv

-----------------------------------------------------------------------------
(* The invariant holds at the start, and every step keeps it.              *)

LEMMA AgentsBegins ==
  ASSUME AgentsAssumption, AgentsInit
  PROVE  AgentsInv
  <1>1. /\ budget \in Plans /\ budget.starts <= MaxRuns /\ budget.starts \in Nat /\ MaxRuns \in Nat
        /\ runs = [r \in Runs |-> None] /\ feed = <<>> /\ delivered = {} /\ heard = <<>>
        /\ ready = TRUE /\ broken = FALSE /\ running = None /\ delivery = None /\ task = [a \in Actors |-> None]
        /\ config = [version |-> 0, enabled |-> TRUE] /\ context = 0 /\ knowledge = 0
    BY DEF AgentsInit, AgentsAssumption, Plans
  <1>2. AgentTypes
    BY <1>1 DEF AgentTypes
  <1>3. \A a \in Actors : ~Active(a)
    BY <1>1 DEF Active
  <1>4. IdleInv /\ InitInv /\ StartInv /\ ExecuteInv /\ ReviewInv
    BY <1>1, <1>3 DEF IdleInv, InitInv, StartInv, ExecuteInv, ReviewInv, Actors
  <1>5. SavedRuns = {} /\ StillRunning = {}
    BY <1>1 DEF SavedRuns, StillRunning
  <1>6. CountInv
    <2>1. ~Preparing
      BY <1>3 DEF Preparing, Actors
    <2>2. 0 \in Nat /\ SavedRuns = 1..0 /\ 0 + budget.starts + 0 <= MaxRuns
      BY <1>1, <1>5
    <2> QED
      BY <2>1, <2>2 DEF CountInv
  <1>7. OneAnalysis
    BY <1>5 DEF OneAnalysis
  <1>8. FeedInv
    <2>1. FeedShape
      BY <1>1 DEF FeedShape, IsInjective
    <2>2. Marked(0) /\ Delivers(0)
      BY <1>1 DEF Marked, Delivers
    <2> QED
      BY <2>1, <2>2 DEF FeedInv
  <1> QED
    BY <1>2, <1>4, <1>6, <1>7, <1>8 DEF AgentsInv, CoreInv

LEMMA AgentsStays ==
  ASSUME AgentsAssumption, AgentsInv, UNCHANGED agentsVars
  PROVE  AgentsInv'
  <1>1. CoreInv /\ FeedInv
    BY DEF AgentsInv
  <1>2. /\ UNCHANGED <<runs, feed, delivered, ready, running, delivery, broken, task, heard, budget>> /\ UNCHANGED world
    BY DEF agentsVars, store, process
  <1>3. FeedInv' /\ WorldTypes' /\ budget' \in Plans /\ budget'.starts = budget.starts
    BY <1>1, <1>2, CoreParts, FeedStays, WorldStays
  <1> QED
    BY <1>1, <1>2, <1>3, Around DEF AgentsInv

LEMMA AgentsStep ==
  ASSUME AgentsAssumption, AgentsInv, [AgentsNext]_agentsVars
  PROVE  AgentsInv'
  <1>1. ASSUME NEW a \in Actors, SaveRun(a) PROVE AgentsInv'
    <2>1. a \in {"init", "start", "execute", "review"}
      BY DEF Actors
    <2> QED
      BY <1>1, <2>1, SaveOfInit, SaveOfStart, SaveOfExecute, SaveOfReview
  <1>2. ASSUME NEW a \in Actors, PutEvent(a) \/ BeginDelivery(a) \/ WriteFails(a) PROVE AgentsInv'
    BY <1>2, PutEventStep, BeginDeliveryStep, WriteFailsStep
  <1>3. CASE Effects
    BY <1>1, <1>2, <1>3 DEF Effects
  <1>4. CASE Execution
    BY <1>4, CaptureStep, RetrieveBeginsStep, RetrieveEndsStep, InvokeStep, CallModelStep, ModelAnswersStep,
       AnswerStep, FinishStep, CompleteRunStep, ExecuteEndsStep
    DEF Execution
  <1>5. CASE Handlers
    BY <1>5, StartRunStep, BeginStep, ReviewFindingStep, RecordReviewStep, ReviewEndsStep DEF Handlers
  <1>6. CASE Starting
    BY <1>6, RestartStep, InterruptRunStep, RepairCallsStep, ServeStep DEF Starting
  <1>7. CASE Delivering \/ Overview \/ HistoryFails
    BY <1>7, DeliveryStep DEF Delivering
  <1>8. CASE MarkFails \/ Start \/ ServerStops \/ MemoryChanges \/ ProjectChanges
    BY <1>8, MarkFailsStep, StartStep, ServerStopsStep, WorldStep
  <1>9. ASSUME NEW r \in Runs, Review(r) PROVE AgentsInv'
    BY <1>9, ReviewStep
  <1>10. CASE UNCHANGED agentsVars
    BY <1>10, AgentsStays
  <1> QED
    BY <1>2, <1>3, <1>4, <1>5, <1>6, <1>7, <1>8, <1>9, <1>10 DEF AgentsNext

-----------------------------------------------------------------------------
(* What the steps may do.                                                  *)

\* The steps that leave the saved runs alone, and those that do not serve.
LEMMA OthersKeepRuns ==
  ASSUME [AgentsNext]_agentsVars, \A a \in Actors : ~SaveRun(a)
  PROVE  runs' = runs
  <1>1. CASE Effects \/ Handlers \/ Starting \/ Delivering
    BY <1>1
    DEF Effects, PutEvent, BeginDelivery, Handlers, StartRun, Begin, ReviewFinding, RecordReview, ReviewEnds, Stay,
        Starting, Restart, InterruptRun, RepairCalls, Serve, Delivering, HistoryTakes, MarkDelivered, store
  <1>2. CASE Execution
    BY <1>2
    DEF Execution, Capture, RetrieveBegins, RetrieveEnds, Invoke, CallModel, ModelAnswers, ReadAnswer, ComparisonAnswer,
        ArbitrationAnswer, AnswerRejected, CallFailed, Finish, CompleteRun, ExecuteEnds, Stay, store
  <1>3. CASE (\E a \in Actors : WriteFails(a)) \/ HistoryFails \/ MarkFails \/ Overview \/ Start \/ \E r \in Runs : Review(r)
    BY <1>3 DEF WriteFails, HistoryFails, MarkFails, Overview, Start, Review, store
  <1>4. CASE ServerStops \/ MemoryChanges \/ ProjectChanges \/ UNCHANGED agentsVars
    BY <1>4 DEF ServerStops, MemoryChanges, ProjectChanges, agentsVars, store
  <1> QED
    BY <1>1, <1>2, <1>3, <1>4 DEF AgentsNext

LEMMA OnlyServeServes ==
  ASSUME [AgentsNext]_agentsVars, ~ready, ready'
  PROVE  Serve
  <1>1. CASE Effects \/ Handlers \/ Delivering \/ Restart \/ InterruptRun \/ RepairCalls
    BY <1>1
    DEF Effects, SaveRun, PutEvent, BeginDelivery, Handlers, StartRun, Begin, ReviewFinding, RecordReview, ReviewEnds, Stay,
        Restart, InterruptRun, RepairCalls, Delivering, HistoryTakes, MarkDelivered, process
  <1>2. CASE Execution
    BY <1>2
    DEF Execution, Capture, RetrieveBegins, RetrieveEnds, Invoke, CallModel, ModelAnswers, ReadAnswer, ComparisonAnswer,
        ArbitrationAnswer, AnswerRejected, CallFailed, Finish, CompleteRun, ExecuteEnds, Stay, process
  <1>3. CASE (\E a \in Actors : WriteFails(a)) \/ HistoryFails \/ MarkFails \/ Overview \/ Start \/ \E r \in Runs : Review(r)
    BY <1>3 DEF WriteFails, Break, HistoryFails, MarkFails, Overview, Start, Review, process
  <1>4. CASE ServerStops \/ MemoryChanges \/ ProjectChanges \/ UNCHANGED agentsVars
    BY <1>4 DEF ServerStops, MemoryChanges, ProjectChanges, agentsVars, process
  <1> QED
    BY <1>1, <1>2, <1>3, <1>4 DEF AgentsNext, Starting

\* The reviews of a saved run change by one, and only those of the latest that succeeded.
LEMMA ReviewsChange ==
  ASSUME AgentsAssumption, AgentsInv, [AgentsNext]_agentsVars, NEW r \in Runs, runs[r] # None, runs'[r].reviews # runs[r].reviews
  PROVE  runs'[r].reviews = runs[r].reviews + 1 /\ r = Max(Succeeded) /\ running = None
  <1>1. PICK a \in Actors : SaveRun(a)
    BY OthersKeepRuns
  <1> DEFINE x == task[a].run
  <1> DEFINE m == task[a].mine
  <1>2. /\ task[a] # None /\ task[a].todo # <<>> /\ ~NoSave(task[a].todo)
        /\ runs' = [runs EXCEPT ![x] = m]
    BY <1>1, SaveParts
  <1>3. AgentTypes /\ InitInv /\ StartInv /\ ExecuteInv /\ ReviewInv
    BY CoreParts DEF AgentsInv
  <1>4. runs \in [Runs -> RunRecords \cup {None}]
    BY <1>3 DEF AgentTypes
  <1> HIDE DEF x, m
  <1>5. r = x /\ runs'[r] = m
    BY <1>2, <1>4
  <1>6. m.reviews # runs[x].reviews /\ runs[x] # None
    BY <1>5
  <1>7. CASE a = "init"
    <2>1. m.reviews = runs[x].reviews
      BY <1>2, <1>3, <1>7 DEF InitInv, Active, x, m
    <2> QED
      BY <1>6, <2>1
  <1>8. CASE a = "start"
    <2>1. m.reviews = 0 /\ runs[x].reviews = 0
      BY <1>2, <1>3, <1>6, <1>8 DEF StartInv, Active, x, m
    <2> QED
      BY <1>6, <2>1
  <1>9. CASE a = "execute"
    <2>1. m.reviews = runs[x].reviews
      BY <1>2, <1>3, <1>9 DEF ExecuteInv, Active, x, m
    <2> QED
      BY <1>6, <2>1
  <1>10. CASE a = "review"
    <2>1. m.reviews = runs[x].reviews + 1 /\ x = Max(Succeeded) /\ running = None
      BY <1>2, <1>3, <1>6, <1>10 DEF ReviewInv, Active, x, m
    <2> QED
      BY <1>5, <2>1
  <1> QED
    BY <1>7, <1>8, <1>9, <1>10 DEF Actors

-----------------------------------------------------------------------------
(* The theorems.                                                           *)

\* What holds between the handlers of service.ts, the saved analyses and the outbox after every
\* step: a handler's run differs from the saved one by what the handler is about to save, and
\* the history is at most one event ahead of the marks.
THEOREM AgentsInvariant == AgentsSpec => []AgentsInv
  <1> USE AgentsHypothesis
  <1>1. AgentsInit => AgentsInv
    BY AgentsBegins
  <1>2. AgentsInv /\ [AgentsNext]_agentsVars => AgentsInv'
    BY AgentsStep
  <1> QED
    BY <1>1, <1>2, PTL DEF AgentsSpec

\* One analysis runs at a time and the history hears the events in order (start, execute and
\* deliverActivity); a review is added to the latest analysis that succeeded, when none runs
\* (reviewFinding); and requests are served only once every call that ended is told (init).
THEOREM AnalysesAreSafe == AgentsSpec => AnalysesHold
  <1> USE AgentsHypothesis
  <1> DEFINE CallsTold == (~ready /\ ready') => Untold = {}
  <1> DEFINE Reviewed == \A r \in Runs : (runs[r] # None /\ runs'[r].reviews # runs[r].reviews)
                           => /\ runs'[r].reviews = runs[r].reviews + 1
                              /\ r = Max(Succeeded) /\ running = None
  <1>1. AgentsInv => OneAnalysis /\ HeardInOrder
    <2> SUFFICES ASSUME AgentsInv PROVE OneAnalysis /\ HeardInOrder
      OBVIOUS
    <2>1. OneAnalysis /\ FeedInv
      BY CoreParts DEF AgentsInv
    <2>2. FeedShape
      BY <2>1 DEF FeedInv
    <2>3. PICK d \in Nat : Marked(d)
      BY <2>1 DEF FeedInv
    <2>4. DOMAIN heard = 1..Len(heard) /\ Len(heard) \in Nat /\ d <= Len(heard)
      BY <2>2, <2>3 DEF FeedShape, Marked
    <2>5. \A i \in 1..d : i \in DOMAIN heard /\ feed[i] = heard[i]
      BY <2>2, <2>4 DEF FeedShape
    <2>6. delivered \subseteq Range(heard)
      BY <2>3, <2>5 DEF Marked, Range
    <2> QED
      BY <2>1, <2>2, <2>4, <2>6 DEF FeedShape, HeardInOrder
  <1>2. AgentsInv /\ [AgentsNext]_agentsVars => [Reviewed]_agentsVars
    BY ReviewsChange
  <1>3. AgentsInv /\ [AgentsNext]_agentsVars => [CallsTold]_agentsVars
    <2> SUFFICES ASSUME AgentsInv, [AgentsNext]_agentsVars, ~ready, ready' PROVE Untold = {}
      OBVIOUS
    <2>1. Serve /\ InitInv
      BY OnlyServeServes, CoreParts DEF AgentsInv
    <2> QED
      BY <2>1 DEF InitInv, Serve, Reaches, Active
  <1>4. AgentsSpec => [](OneAnalysis /\ HeardInOrder)
    BY <1>1, AgentsInvariant, PTL
  <1>5. AgentsSpec => [][Reviewed]_agentsVars
    BY <1>2, AgentsInvariant, PTL DEF AgentsSpec
  <1>6. AgentsSpec => [][CallsTold]_agentsVars
    BY <1>3, AgentsInvariant, PTL DEF AgentsSpec
  <1> QED
    BY <1>4, <1>5, <1>6 DEF AnalysesHold, ReviewsTheLatest, CallsAreTold
=============================================================================
