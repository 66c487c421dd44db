----------------------------- MODULE StatePages -----------------------------
(***************************************************************************)
(* The pages that poll a state and write to it: prices                     *)
(* (ui/src/components/brain/usePricing.ts) and memory                      *)
(* (ui/src/components/brain/useBrainMemory.ts).  Requests are answered in  *)
(* any order; a counter tells the newest one.  The prices take the answer  *)
(* of a write as their state and do not poll during it, the memory reads   *)
(* again after a write.                                                    *)
(*                                                                         *)
(* Abstractions: the state of the server is a version; the sources that    *)
(* are opened on the memory page and the texts of errors are left out.     *)
(***************************************************************************)
EXTENDS Integers, FiniteSets, Absence

CONSTANTS
  PollPlans    \* records of budgets: polls, writes, changes, failures

\* No version is None.
StatesAssumption == None \notin Nat
ASSUME StatesHypothesis == StatesAssumption

VARIABLES
  statePage,     \* the page: "prices" or "memory"
  stateNow,      \* the version of the server
  stateRequests, \* under way: [type, generation, answer]
  generation,    \* generation, stateVersion
  writing,       \* a write has not ended: writing, busy
  shownState,    \* what the page shows: None or a version
  wrote,         \* the version of the last write that was answered
  unread,        \* the read that a write of the memory page waits for failed
  statesLeft

statesVars == <<statePage, stateNow, stateRequests, generation, writing, shownState, wrote, unread, statesLeft>>

StatesSpend(what) == statesLeft[what] > 0 /\ statesLeft' = [statesLeft EXCEPT ![what] = @ - 1]
StateRequest(type, n) == [type |-> type, generation |-> n, answer |-> None]

StatesInit ==
  /\ statePage \in {"prices", "memory"} /\ statesLeft \in PollPlans
  /\ stateNow = 1 /\ stateRequests = {} /\ generation = 0
  /\ writing = FALSE /\ shownState = None /\ wrote = 0 /\ unread = FALSE

ChangeState ==
  /\ StatesSpend("changes") /\ stateNow' = stateNow + 1
  /\ UNCHANGED <<statePage, stateRequests, generation, writing, shownState, wrote, unread>>

HandleState(r) ==
  /\ r.answer = None
  /\ stateNow' = IF r.type = "write" THEN stateNow + 1 ELSE stateNow
  /\ stateRequests' = (stateRequests \ {r}) \cup {[r EXCEPT !.answer = stateNow']}
  /\ UNCHANGED <<statePage, generation, writing, shownState, wrote, unread, statesLeft>>

\* Mutant: the timer reads during a write.
MayAlwaysRefresh == TRUE

MayRefresh == statePage = "prices" => ~writing

\* The timer and the retry button.
RefreshState ==
  /\ MayRefresh /\ StatesSpend("polls")
  /\ generation' = generation + 1
  /\ stateRequests' = stateRequests \cup {StateRequest("read", generation + 1)}
  /\ UNCHANGED <<statePage, stateNow, writing, shownState, wrote, unread>>

\* action, mutate: the buttons are off during a write.
WriteState ==
  /\ ~writing /\ StatesSpend("writes")
  /\ writing' = TRUE
  /\ generation' = IF statePage = "prices" THEN generation + 1 ELSE generation
  /\ stateRequests' = stateRequests \cup {StateRequest("write", generation')}
  /\ UNCHANGED <<statePage, stateNow, shownState, wrote, unread>>

\* Mutant: every answer is taken.
AnyAnswer(r) == TRUE

IsNewest(r) == r.generation = generation

TakeState(r) ==
  /\ r.type # "write" /\ r.answer # None
  /\ stateRequests' = stateRequests \ {r}
  /\ shownState' = IF IsNewest(r) THEN r.answer ELSE shownState
  /\ writing' = IF r.type = "reread" THEN FALSE ELSE writing
  /\ UNCHANGED <<statePage, stateNow, generation, wrote, unread, statesLeft>>

TakeWrite(r) ==
  /\ r.type = "write" /\ r.answer # None
  /\ wrote' = r.answer /\ unread' = FALSE
  /\ IF statePage = "prices"
     THEN /\ shownState' = IF IsNewest(r) THEN r.answer ELSE shownState
          /\ writing' = FALSE /\ stateRequests' = stateRequests \ {r}
          /\ UNCHANGED generation
     ELSE /\ generation' = generation + 1
          /\ stateRequests' = (stateRequests \ {r}) \cup {StateRequest("reread", generation + 1)}
          /\ UNCHANGED <<writing, shownState>>
  /\ UNCHANGED <<statePage, stateNow, statesLeft>>

FailState(r) ==
  /\ StatesSpend("failures")
  /\ stateRequests' = stateRequests \ {r}
  /\ writing' = IF r.type = "read" THEN writing ELSE FALSE
  /\ unread' = (unread \/ (r.type # "write" /\ IsNewest(r)))
  /\ UNCHANGED <<statePage, stateNow, generation, shownState, wrote>>

StatesNext ==
  \/ ChangeState \/ RefreshState \/ WriteState
  \/ \E r \in stateRequests : HandleState(r) \/ TakeState(r) \/ TakeWrite(r) \/ FailState(r)

StatesSpec == StatesInit /\ [][StatesNext]_statesVars

-----------------------------------------------------------------------------
StatesTypeOK ==
  /\ statePage \in {"prices", "memory"} /\ stateNow \in Nat /\ generation \in Nat
  /\ shownState = None \/ shownState \in Nat

\* What a page shows never goes back to an older state of the server, however the answers of
\* its reads and writes overtake each other (refresh, action, mutate).
PageAdvances == [][shownState # None => shownState' # None /\ shownState' >= shownState]_statesVars

\* When nothing is under way the page shows its own last write or something newer, unless
\* the read after it failed: a poll that was asked for before the write, or during it, does
\* not hide the write.
OwnWriteShown == stateRequests = {} /\ wrote > 0 /\ ~unread => shownState # None /\ shownState >= wrote
=============================================================================
