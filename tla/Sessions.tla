------------------------------ MODULE Sessions ------------------------------
(***************************************************************************)
(* The live board (server/src/store/store.ts) and the pairing of prompts   *)
(* (server/src/store/prompts.ts).                                          *)
(*                                                                         *)
(* A script says what the sessions of a workstation did: their lifecycle   *)
(* hooks, which the relay delivers in order, and their telemetry, which    *)
(* arrives in any order.  Both may come late and may come again; both      *)
(* carry the time at which they happened.  The board sweeps idle and old   *)
(* sessions, and a restart keeps only what the history stored.             *)
(*                                                                         *)
(* Abstractions: one provider; the usage of sessions is in module Ingest,  *)
(* their repository and team in Relay and Access.                          *)
(***************************************************************************)
EXTENDS Integers, FiniteSetsExt, SequencesExt

CONSTANTS
  Cards,       \* session ids
  IdleAfter,   \* config.idleMs
  Ttl,         \* config.sessionTtlMs
  Window,      \* PROMPT_WINDOW_MS
  Pair,        \* PROMPT_PAIR_WINDOW_MS
  MaxTime,
  Scripts,     \* records: hooks and logs, sequences of events, and budgets
  None

VARIABLES
  script,     \* what happens
  now,
  hooksDone,  \* how many hooks are acknowledged
  logsLeft,   \* the logs that are not acknowledged
  past,       \* the stored events
  board,      \* by id: None or [status, turn, last, ended, parent]
  endedSessions, stoppedTurns,
  prompts,    \* the tracker: [ts, id, hook, log], in the order of the first report
  seen,       \* seenEvents
  missed,     \* hooks that came after telemetry that happened later
  left

memory == <<board, endedSessions, stoppedTurns, prompts, seen, missed>>
sessionsVars == <<script, now, hooksDone, logsLeft, past, memory, left>>

Spend(what) == left[what] > 0 /\ left' = [left EXCEPT ![what] = @ - 1]

\* Events: [session, kind, ts, prompt, parent, real]; `prompt' is the promptId if the source
\* gives it, `real' numbers the prompts of the script.
Hook(i) == <<"hook", i>>
Log(j) == <<"log", j>>
EventOf(key) == IF key[1] = "hook" THEN script.hooks[key[2]] ELSE script.logs[key[2]]
Keys == {Hook(i) : i \in DOMAIN script.hooks} \cup {Log(j) : j \in DOMAIN script.logs}

NoCards == [s \in Cards |-> None]

Init ==
  /\ script \in Scripts /\ left = script.left
  /\ now = 0 /\ hooksDone = 0 /\ past = {}
  /\ logsLeft = DOMAIN script.logs
  /\ prompts = <<>> /\ board = NoCards
  /\ endedSessions = {} /\ stoppedTurns = {} /\ seen = {} /\ missed = {}

-----------------------------------------------------------------------------
(* PromptTracker.                                                          *)

IsPrompt(e) == e.kind \in {"prompt_submit", "user_prompt"}
Distance(a, b) == IF a < b THEN b - a ELSE a - b
Smaller(a, b) == IF a < b THEN a ELSE b

\* Mutant: every report is another prompt.
NoMatch(ps, key) == 0

\* The prompt a report is about: the same report, the same promptId, or the nearest prompt
\* of the session that lacks a report of this source; 0 if there is none.
Match(ps, key) ==
  LET e == EventOf(key)
      same == SelectInSeq(ps, LAMBDA p : p.session = e.session
                /\ (p[key[1]] = key \/ (e.prompt # None /\ p.id = e.prompt)))
      near == {i \in DOMAIN ps : /\ ps[i].session = e.session /\ ps[i][key[1]] = None
                                 /\ ps[i].id = None \/ e.prompt = None
                                 /\ Distance(ps[i].ts, e.ts) <= Pair}
      Nearer(i, j) == \/ Distance(ps[i].ts, e.ts) < Distance(ps[j].ts, e.ts)
                      \/ Distance(ps[i].ts, e.ts) = Distance(ps[j].ts, e.ts) /\ i <= j
  IN IF same # 0 THEN same
     ELSE IF near = {} THEN 0 ELSE CHOOSE i \in near : \A j \in near : Nearer(i, j)

NewPrompt(key) ==
  [session |-> EventOf(key).session, ts |-> EventOf(key).ts, id |-> EventOf(key).prompt,
   hook |-> IF key[1] = "hook" THEN key ELSE None, log |-> IF key[1] = "log" THEN key ELSE None]

Record(ps, key) ==
  LET i == Match(ps, key) IN
    IF i = 0 THEN Append(ps, NewPrompt(key))
    ELSE [ps EXCEPT ![i] = [@ EXCEPT ![key[1]] = key, !.ts = Smaller(@, EventOf(key).ts),
                                     !.id = IF @ = None THEN EventOf(key).prompt ELSE @]]

Prune(ps) == SelectSeq(ps, LAMBDA p : p.ts >= now - Window - Pair)

PromptsLastHour == Cardinality({i \in DOMAIN prompts : prompts[i].ts >= now - Window})

\* restorePrompts, from the stored events in the order of their time.
Restored ==
  LET recent == {k \in past : IsPrompt(EventOf(k)) /\ EventOf(k).ts >= now - Window - Pair}
  IN FoldLeft(Record, <<>>, SetToSortSeq(recent, LAMBDA a, b : EventOf(a).ts < EventOf(b).ts))

-----------------------------------------------------------------------------
(* One event at the board: applyToSession.                                 *)

ExplicitStart(e) == e.kind \in {"user_prompt", "session_start", "prompt_submit"}

\* Mutant: telemetry opens the card of a session that has ended.
OpenedAnyway(e) ==
  IF board[e.session] # None THEN [board[e.session] EXCEPT !.parent = IF e.parent = None THEN @ ELSE e.parent]
  ELSE [status |-> "idle", turn |-> None, last |-> e.ts, ended |-> FALSE, parent |-> e.parent]

\* ensureSession: the card of the event, opened unless its session has ended.
Opened(e) ==
  IF board[e.session] # None THEN [board[e.session] EXCEPT !.parent = IF e.parent = None THEN @ ELSE e.parent]
  ELSE IF e.session \in endedSessions /\ ~ExplicitStart(e) THEN None
  ELSE [status |-> "idle", turn |-> None, last |-> e.ts, ended |-> FALSE, parent |-> e.parent]

StartTurn(card, ts) == [card EXCEPT !.status = "thinking", !.turn = ts]
\* Mutant: a turn that was stopped is not remembered.
NeverStopped(e) == FALSE

Stopped(e) == e.session \in stoppedTurns

\* The card after an event that is not older than the card.
Applied(card, e) ==
  LET c == [card EXCEPT !.last = e.ts] IN
    CASE e.kind = "subagent_start" -> [StartTurn(c, e.ts) EXCEPT !.ended = FALSE]
      [] e.kind = "subagent_stop" -> [c EXCEPT !.ended = TRUE, !.turn = None, !.status = "idle"]
      [] e.kind = "session_start" -> [c EXCEPT !.status = "idle"]
      [] e.kind = "pre_tool" /\ ~c.ended -> [c EXCEPT !.status = "tool"]
      [] e.kind \in {"post_tool", "tool_result"} /\ ~c.ended /\ ~Stopped(e) -> [c EXCEPT !.status = "thinking"]
      [] e.kind = "stop" -> [c EXCEPT !.status = "idle", !.turn = None]
      [] e.kind = "session_end" -> None
      [] OTHER -> c

\* What an event leads to: its card, and whether its turn starts or stops.
Effect(key) ==
  LET e == EventOf(key)
      tracked == IsPrompt(e) /\ e.ts >= now - Window - Pair
      isNew == Match(prompts, key) = 0
      card == Opened(e)
      later == card # None /\ e.ts >= card.last
  IN IF tracked /\ ~isNew /\ board[e.session] = None
     THEN [card |-> None, opened |-> FALSE, starts |-> FALSE, stops |-> FALSE]
     ELSE IF tracked
     THEN [card |-> IF isNew /\ later THEN [StartTurn(card, e.ts) EXCEPT !.last = e.ts]
                    ELSE [card EXCEPT !.last = IF later THEN e.ts ELSE @],
           opened |-> TRUE, starts |-> isNew /\ later, stops |-> FALSE]
     ELSE [card |-> IF later THEN Applied(card, e) ELSE card,
           opened |-> card # None,
           starts |-> later /\ (e.kind = "subagent_start" \/ (e.kind = "pre_tool" /\ ~card.ended)),
           stops |-> later /\ e.kind \in {"stop", "subagent_stop"}]

\* ingest.
Ingest(key) ==
  LET e == EventOf(key) s == e.session effect == Effect(key)
      ends == effect.opened /\ effect.card = None
  IN /\ now >= e.ts
     /\ past' = past \cup {key}
     /\ IF key \in seen THEN UNCHANGED memory
        ELSE /\ seen' = seen \cup {key}
             /\ prompts' = LET ps == IF IsPrompt(e) /\ e.ts >= now - Window - Pair
                                     THEN Record(prompts, key) ELSE prompts
                           IN IF effect.opened THEN Prune(ps) ELSE ps
             /\ board' = [board EXCEPT ![s] = effect.card]
             /\ endedSessions' = IF ends THEN endedSessions \cup {s}
                                 ELSE IF effect.opened THEN endedSessions \ {s} ELSE endedSessions
             /\ stoppedTurns' = IF effect.stops THEN stoppedTurns \cup {s}
                                ELSE IF effect.starts THEN stoppedTurns \ {s} ELSE stoppedTurns
             /\ missed' = IF board[s] # None /\ e.ts < board[s].last THEN missed \cup {key} ELSE missed

\* The relay delivers hooks in order; without an answer it delivers one again.
DeliverHook ==
  /\ hooksDone < Len(script.hooks)
  /\ Ingest(Hook(hooksDone + 1))
  /\ \/ hooksDone' = hooksDone + 1 /\ UNCHANGED left
     \/ UNCHANGED hooksDone /\ Spend("repeats")
  /\ UNCHANGED <<script, now, logsLeft>>

DeliverLog(j) ==
  /\ j \in logsLeft
  /\ Ingest(Log(j))
  /\ \/ logsLeft' = logsLeft \ {j} /\ UNCHANGED left
     \/ UNCHANGED logsLeft /\ Spend("repeats")
  /\ UNCHANGED <<script, now, hooksDone>>

-----------------------------------------------------------------------------
(* The sweep, a reader, the time and a restart.                            *)

\* A session and its ancestors, along the cards that are on the board.
Ancestors(s) ==
  LET step[n \in 0..Cardinality(Cards)] ==
        IF n = 0 THEN {s}
        ELSE step[n - 1] \cup {board[a].parent : a \in {x \in step[n - 1] \cap Cards : board[x] # None}}
  IN {a \in step[Cardinality(Cards)] \cap Cards : board[a] # None}

OnBoard == {s \in Cards : board[s] # None}
\* Mutant: a session is as old as its own last event.
OwnActivity(s) == board[s].last

FamilyActivity(s) == Max({board[d].last : d \in {x \in OnBoard : s \in Ancestors(x)}})

Swept(s) ==
  IF now - FamilyActivity(s) > Ttl THEN None
  ELSE IF board[s].status = "thinking" /\ now - board[s].last > IdleAfter
  THEN [board[s] EXCEPT !.status = "idle"]
  ELSE board[s]

Sweep ==
  /\ board' = [s \in Cards |-> IF board[s] = None THEN None ELSE Swept(s)]
  /\ prompts' = IF board' # board THEN Prune(prompts) ELSE prompts
  /\ UNCHANGED <<script, now, hooksDone, logsLeft, past, endedSessions, stoppedTurns, seen, missed, left>>

\* A page that asks for the state (getAggregate).
Read ==
  /\ prompts' = Prune(prompts)
  /\ UNCHANGED <<script, now, hooksDone, logsLeft, past, board, endedSessions, stoppedTurns, seen, missed, left>>

Tick ==
  /\ now < MaxTime /\ now' = now + 1
  /\ UNCHANGED <<script, hooksDone, logsLeft, past, memory, left>>

Restart ==
  /\ Spend("restarts")
  /\ prompts' = Restored /\ board' = NoCards
  /\ endedSessions' = {} /\ stoppedTurns' = {} /\ seen' = {} /\ missed' = {}
  /\ UNCHANGED <<script, now, hooksDone, logsLeft, past>>

Next == \/ DeliverHook \/ Sweep \/ Read \/ Tick \/ Restart
        \/ \E j \in logsLeft : DeliverLog(j)

Spec == Init /\ [][Next]_sessionsVars

-----------------------------------------------------------------------------
TypeOK ==
  /\ \A s \in OnBoard : board[s].status \in {"idle", "thinking", "tool"} /\ board[s].last \in 0..MaxTime
  /\ endedSessions \subseteq Cards /\ stoppedTurns \subseteq Cards
  /\ seen \subseteq Keys /\ past \subseteq Keys

\* The prompts of the last hour are the real prompts that some report told of, each once:
\* a hook and its telemetry are paired in either order, a repeated report and a restart add
\* nothing (PromptTracker.record, restorePrompts).  Prompts of the script without an id are
\* further apart than the pairing window.
PromptsCountedOnce ==
  LET told == {EventOf(k).real : k \in {x \in past : IsPrompt(EventOf(x))}}
      When(n) == Min({EventOf(k).ts : k \in {x \in past : IsPrompt(EventOf(x)) /\ EventOf(x).real = n}})
  IN PromptsLastHour = Cardinality({n \in told : When(n) >= now - Window})

\* The newest lifecycle event of a session that this process knows: a hook, or the telemetry
\* of a prompt.
Evidence(s) == {k \in seen : EventOf(k).session = s /\ (k[1] = "hook" \/ IsPrompt(EventOf(k)))}
Newest(s) == CHOOSE k \in Evidence(s) : \A x \in Evidence(s) : EventOf(x).ts <= EventOf(k).ts
Latest(s) == IF Evidence(s) = {} \/ Newest(s) \in missed THEN "none" ELSE EventOf(Newest(s)).kind

\* A turn that its Stop hook completed is shown as idle: telemetry that comes late, comes
\* again or comes in another order does not revive it ("Delayed usage exports must not
\* revive a turn completed by a Stop hook"), unless it is so old that the next sweep takes the
\* card away.
StoppedIsIdle ==
  \A s \in OnBoard : Latest(s) \in {"stop", "subagent_stop"}
                     => board[s].status = "idle" \/ now - board[s].last > Ttl

\* A session whose end was reported is not shown; only a prompt that is reported more than
\* an hour late brings its card back, and the next sweep takes it away ("A delayed
\* duplicate must not reopen a session").
EndedIsGone ==
  \A s \in OnBoard : Latest(s) = "session_end" => now - board[s].last > Ttl

\* The sweep never takes a card away from under one that stays: a session on the board keeps
\* the path to its root ("Every ancestor is needed").
FamiliesStay ==
  [][Sweep => \A s \in OnBoard : board'[s] # None /\ board[s].parent \in OnBoard
                                  => board'[board[s].parent] # None]_sessionsVars
=============================================================================
