-------------------------------- MODULE Feed --------------------------------
(***************************************************************************)
(* The live feed of the board: the WebSocket of the server                 *)
(* (server/src/ws.ts) and the page that follows it                         *)
(* (ui/src/api/ws.ts, useDashboard).                                       *)
(*                                                                         *)
(* A connection delivers its messages in order until it is lost.  The      *)
(* page connects again after a while; a new viewer token starts over with  *)
(* a connection of its own while messages of the old one are under way.    *)
(*                                                                         *)
(* Abstractions: events are numbered as the store takes them; the sessions *)
(* are a version.  A lost connection is noticed by both ends, at different *)
(* times.                                                                  *)
(***************************************************************************)
EXTENDS Integers, Sequences, Absence

CONSTANTS
  MaxConnections, MaxChanges,
  Recent,        \* how many events a snapshot holds
  MaxEvents,     \* how many events the page keeps
  MaxTokens      \* how often the viewer enters a token

VARIABLES
  taken,         \* how many events the store has taken
  version,       \* of the sessions
  link,          \* by connection: None, or one of Links
  clients,       \* the connections the server broadcasts to
  page           \* [effect, current, connected, events, sessions, retry]

feedVars == <<taken, version, link, clients, page>>

\* What the server sends; a connection of the page: the effect (token) it was made for, the
\* messages under way, whether it is up, whether the server has accepted it, and whether the page
\* has been told that it is closed.
Messages == [type : {"snapshot"}, sessions : Nat, events : Seq(Nat)]
            \cup [type : {"event"}, event : Nat] \cup [type : {"sessions"}, sessions : Nat]
Links == [effect : Nat, queue : Seq(Messages), up : BOOLEAN, accepted : BOOLEAN, closed : BOOLEAN]

\* A snapshot holds an event, and no more of them than the page keeps (100 and 300).
ASSUME FeedAssumption ==
  /\ {MaxConnections, MaxChanges, MaxTokens} \subseteq Nat
  /\ {Recent, MaxEvents} \subseteq Nat \ {0} /\ Recent <= MaxEvents
  /\ None \notin Links

Connections == 1..MaxConnections
Made == {c \in Connections : link[c] # None}

Blank(effect) == [effect |-> effect, current |-> None, connected |-> FALSE,
                  events |-> <<>>, sessions |-> None, retry |-> TRUE]

FeedInit ==
  /\ taken = 0 /\ version = 0
  /\ link = [c \in Connections |-> None]
  /\ clients = {} /\ page = Blank(0)

-----------------------------------------------------------------------------
(* The server.                                                             *)

LastOf(n, count) == [i \in 1..(IF n < count THEN n ELSE count) |-> (IF n < count THEN 0 ELSE n - count) + i]

Snapshot == [type |-> "snapshot", sessions |-> version, events |-> LastOf(taken, Recent)]
EventMessage(n) == [type |-> "event", event |-> n]
SessionsMessage(v) == [type |-> "sessions", sessions |-> v]

Send(connections, message) ==
  [c \in Connections |-> IF c \in connections /\ link[c].up
                         THEN [link[c] EXCEPT !.queue = Append(@, message)] ELSE link[c]]

\* The store takes an event, which may also change the sessions: two broadcasts.
TakeEvent(changes) ==
  /\ taken < MaxChanges
  /\ taken' = taken + 1
  /\ version' = IF changes THEN version + 1 ELSE version
  /\ link' = LET told == Send(clients, EventMessage(taken + 1)) IN
               [c \in Connections |-> IF changes /\ c \in clients /\ link[c].up
                                      THEN [told[c] EXCEPT !.queue = Append(@, SessionsMessage(version + 1))]
                                      ELSE told[c]]
  /\ UNCHANGED <<clients, page>>

\* A sweep or a change of a team: the sessions only.
ChangeSessions ==
  /\ version < MaxChanges
  /\ version' = version + 1
  /\ link' = Send(clients, SessionsMessage(version + 1))
  /\ UNCHANGED <<taken, clients, page>>

\* GET /live: the connection is registered and gets a snapshot.
Accept(c) ==
  /\ c \in Made \ clients /\ link[c].up /\ ~link[c].accepted
  /\ clients' = clients \cup {c}
  /\ link' = [link EXCEPT ![c].queue = <<Snapshot>>, ![c].accepted = TRUE]
  /\ UNCHANGED <<taken, version, page>>

\* The server notices that a connection is closed.
Forget(c) ==
  /\ c \in clients /\ ~link[c].up
  /\ clients' = clients \ {c}
  /\ UNCHANGED <<taken, version, link, page>>

-----------------------------------------------------------------------------
(* The page.                                                               *)

Connect ==
  /\ page.retry
  /\ \E c \in Connections \ Made :
       /\ \A d \in Connections : d < c => d \in Made
       /\ link' = [link EXCEPT ![c] = [effect |-> page.effect, queue |-> <<>>, up |-> TRUE,
                                       accepted |-> FALSE, closed |-> FALSE]]
       /\ page' = [page EXCEPT !.retry = FALSE, !.current = c]
  /\ UNCHANGED <<taken, version, clients>>

\* Mutant: the callbacks of a connection do not ask whose they are.
NeverSuperseded(c) == FALSE

\* The callbacks of a connection look at `closed' of the effect that made it.
Superseded(c) == link[c].effect # page.effect

OnOpen(c) ==
  /\ c \in Made /\ link[c].accepted /\ ~link[c].closed
  /\ ~Superseded(c) /\ ~page.connected
  /\ page' = [page EXCEPT !.connected = TRUE]
  /\ UNCHANGED <<taken, version, link, clients>>

\* Mutant: the page adds the events of a snapshot to its own.
DisplayedOnTop(message) ==
  CASE message.type = "snapshot" -> [page EXCEPT !.sessions = message.sessions, !.events = @ \o message.events]
    [] message.type = "sessions" -> [page EXCEPT !.sessions = message.sessions]
    [] message.type = "event" ->
         [page EXCEPT !.events = LET all == Append(@, message.event) IN
            IF Len(all) > MaxEvents THEN Tail(all) ELSE all]

Displayed(message) ==
  CASE message.type = "snapshot" -> [page EXCEPT !.sessions = message.sessions, !.events = message.events]
    [] message.type = "sessions" -> [page EXCEPT !.sessions = message.sessions]
    [] message.type = "event" ->
         [page EXCEPT !.events = LET all == Append(@, message.event) IN
            IF Len(all) > MaxEvents THEN Tail(all) ELSE all]

OnMessage(c) ==
  /\ c \in Made /\ ~link[c].closed /\ link[c].queue # <<>>
  /\ link' = [link EXCEPT ![c].queue = Tail(@)]
  /\ page' = IF Superseded(c) THEN page ELSE Displayed(Head(link[c].queue))
  /\ UNCHANGED <<taken, version, clients>>

\* What is under way may still arrive before the page is told.  The last connection of the
\* model stays.
Lose(c) ==
  /\ c \in Made /\ link[c].up /\ c < MaxConnections
  /\ \E n \in 0..Len(link[c].queue) :
       link' = [link EXCEPT ![c].up = FALSE, ![c].queue = SubSeq(@, 1, n)]
  /\ UNCHANGED <<taken, version, clients, page>>

\* Mutant: the page does not connect again.
OnCloseForGood(c) ==
  /\ c \in Made /\ ~link[c].up /\ link[c].queue = <<>> /\ ~link[c].closed
  /\ link' = [link EXCEPT ![c].closed = TRUE]
  /\ page' = IF Superseded(c) THEN page ELSE [page EXCEPT !.connected = FALSE]
  /\ UNCHANGED <<taken, version, clients>>

OnClose(c) ==
  /\ c \in Made /\ ~link[c].up /\ link[c].queue = <<>> /\ ~link[c].closed
  /\ link' = [link EXCEPT ![c].closed = TRUE]
  /\ page' = IF Superseded(c) THEN page ELSE [page EXCEPT !.connected = FALSE, !.retry = TRUE]
  /\ UNCHANGED <<taken, version, clients>>

\* setDashboardToken: the effect runs anew, from a blank page.  The close of the old
\* connection is asked for and takes effect later.
NewToken ==
  /\ page.effect < MaxTokens
  /\ page' = Blank(page.effect + 1)
  /\ UNCHANGED <<taken, version, link, clients>>

FeedNext == \/ ChangeSessions \/ Connect \/ NewToken
        \/ \E changes \in BOOLEAN : TakeEvent(changes)
        \/ \E c \in Connections : \/ Accept(c) \/ Forget(c) \/ OnOpen(c) \/ OnMessage(c)
                                  \/ Lose(c) \/ OnClose(c)

\* What goes on by itself; every one of these steps is possible only finitely often.
FeedProgress == Connect \/ \E c \in Connections : Accept(c) \/ OnMessage(c) \/ OnClose(c)

FeedSpec == FeedInit /\ [][FeedNext]_feedVars /\ WF_feedVars(FeedProgress)

-----------------------------------------------------------------------------
FeedTypeOK ==
  /\ taken \in 0..MaxChanges /\ version \in 0..(2 * MaxChanges)
  /\ link \in [Connections -> Links \cup {None}] /\ clients \subseteq Made
  /\ page \in [effect : 0..MaxTokens, current : Connections \cup {None}, connected : BOOLEAN,
               events : Seq(1..MaxChanges), sessions : (0..(2 * MaxChanges)) \cup {None}, retry : BOOLEAN]
  /\ Len(page.events) <= MaxEvents

\* The page shows a run of the events of the server, each once, in their order and without a
\* gap: a connection that is lost, a reconnection with its snapshot and messages of the
\* connection of an earlier token leave no hole and repeat nothing (ws.ts, useDashboard).
EventsAreARun ==
  \A i \in 1..(Len(page.events) - 1) : page.events[i + 1] = page.events[i] + 1

\* As long as nothing was shown that is newer, what the page shows comes from the connection
\* of the token that is entered now: the sessions a page shows never go back.
SessionsAdvance ==
  [][page'.effect = page.effect /\ page.sessions # None => page'.sessions >= page.sessions]_feedVars

\* However often a connection is lost, the page comes to show what the server has, the newest
\* events and the sessions as they are, unless the connections of the model are used up: a
\* change that no connection was told of is in the snapshot of the next one.
EventuallyCurrent ==
  <>[](\/ page.retry /\ Made = Connections
       \/ /\ page.sessions = version
          /\ taken > 0 => page.events # <<>> /\ page.events[Len(page.events)] = taken)
=============================================================================
