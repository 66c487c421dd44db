------------------------------- MODULE Notion --------------------------------
(***************************************************************************)
(* Brain's connection to Notion (server/src/brain/notion/service.ts and    *)
(* credentials.ts): connecting, the callback of the browser, disconnecting *)
(* and reading a page.  These operations are serialized; inside a read the *)
(* event stream of the client and its requests overlap, share a renewal of *)
(* the tokens, and save the credentials each on their own.                 *)
(*                                                                         *)
(* A save replaces the file and then the credentials in memory, starting   *)
(* from the credentials in memory when it was called.                      *)
(*                                                                         *)
(* Abstractions: tokens are a pair <<grant, rotation>>, a grant is the     *)
(* number of its authorization; the registered client, discovery, verifier *)
(* and workspace are part of the saved value and never differ.  A stream   *)
(* that still saves when the next read starts is the only one.             *)
(***************************************************************************)
EXTENDS Integers, Absence

CONSTANT NotionPlans   \* what may happen: records of budgets

VARIABLES
  credentials, file,   \* [tokens, pending, reconnect] in memory and on disk
  saving,      \* for each writer the value it saves, or None
  operation,   \* the operation that runs, or None
  stream,      \* the request for the event stream, or None
  refreshing,  \* the renewal that is shared, or None
  alive,       \* the process runs
  notion,      \* the newest pair Notion gave out, and whether it accepts its access token
  offered,     \* authorizations shown to the browser: how many connects there were
  granted,     \* history: the authorization last saved as pending, 0 after a saved disconnect
  exchanged,   \* history: the authorizations presented to Notion
  again,       \* history: authorizations presented twice, pairs presented after their rotation
  notionBudget

held == <<credentials, file>>
histories == <<offered, granted, exchanged, again>>
notionVars == <<held, saving, operation, stream, refreshing, alive, notion, histories, notionBudget>>

Writers == {"operation", "stream", "renewal"}

\* What the variables hold.
Pairs == Nat \X (Nat \ {0})
Held == [tokens : Pairs \cup {None}, pending : Nat \cup {None}, reconnect : BOOLEAN]
Saves == [value : Held, renamed : BOOLEAN]
Reads == [kind : {"page"}, at : {"renewing", "send", "sent", "rejected", "close", "closing"},
          request : {1, 2}, sent : Pairs \cup {None}, second : BOOLEAN]
Switches == [kind : {"connect", "disconnect"}, at : {"save"}]
Callbacks == [kind : {"callback"}, at : {"exchange", "save"}, grant : Nat]
Renewals == [at : {"ask"}, pair : Pairs] \cup [at : {"renewed", "refused"}]

\* None is none of them.
NotionAssumption ==
  /\ None \notin Nat /\ None \notin Pairs /\ None \notin Saves
  /\ None \notin Reads /\ None \notin Switches /\ None \notin Callbacks /\ None \notin Renewals
ASSUME NotionHypothesis == NotionAssumption

Empty == [tokens |-> None, pending |-> None, reconnect |-> FALSE]

Use(what) == notionBudget[what] > 0 /\ notionBudget' = [notionBudget EXCEPT ![what] = @ - 1]

Places(o, s, r) == operation' = o /\ stream' = s /\ refreshing' = r

-----------------------------------------------------------------------------
(* Saves.                                                                  *)

Save(w, value) == saving' = [saving EXCEPT ![w] = [value |-> value, renamed |-> FALSE]]
Saved(w) == saving[w] = None

Rename(w) ==
  /\ saving[w] # None /\ ~saving[w].renamed
  /\ file' = saving[w].value
  /\ saving' = [saving EXCEPT ![w].renamed = TRUE]
  /\ granted' = IF w = "operation" /\ operation.kind = "connect" THEN offered
                ELSE IF w = "operation" /\ operation.kind = "disconnect" THEN 0 ELSE granted
  /\ UNCHANGED <<credentials, operation, stream, refreshing, alive, notion, offered, exchanged, again, notionBudget>>

Assign(w) ==
  /\ saving[w] # None /\ saving[w].renamed
  /\ credentials' = saving[w].value
  /\ saving' = [saving EXCEPT ![w] = None]
  /\ UNCHANGED <<file, operation, stream, refreshing, alive, notion, histories, notionBudget>>

-----------------------------------------------------------------------------
(* How an operation, the stream and a renewal end.                         *)

Read(at) == [kind |-> "page", at |-> at, request |-> 1, sent |-> None, second |-> FALSE]

\* An error of a read goes to the end of its client; other operations answer it.
OperationThrows == IF operation.kind = "page" THEN [operation EXCEPT !.at = "close"] ELSE None

\* (mutant) a renewal that fails does not fail the operation that waits for it.
RenewalEndsQuietly(ok) ==
  /\ refreshing' = None
  /\ operation' = IF operation # None /\ operation.at = "renewing" /\ ok THEN [operation EXCEPT !.at = "send"] ELSE operation
  /\ stream' = IF stream # None /\ stream.at = "renewing" THEN None ELSE stream

\* Who waits for a renewal goes on, or fails with it.
RenewalEnds(ok) ==
  /\ refreshing' = None
  /\ operation' = IF operation # None /\ operation.at = "renewing"
                  THEN IF ok THEN [operation EXCEPT !.at = "send"] ELSE OperationThrows
                  ELSE operation
  /\ stream' = IF stream # None /\ stream.at = "renewing"
               THEN IF ok /\ operation # None /\ operation.at # "closing" THEN [stream EXCEPT !.at = "send"] ELSE None
               ELSE stream

SaveFails(w) ==
  /\ saving[w] # None /\ ~saving[w].renamed
  /\ Use("failingWrites")
  /\ saving' = [saving EXCEPT ![w] = None]
  /\ CASE w = "operation" -> Places(OperationThrows, stream, refreshing)
       [] w = "stream" -> Places(operation, None, refreshing)
       [] w = "renewal" -> RenewalEnds(FALSE)
  /\ UNCHANGED <<held, alive, notion, histories>>

-----------------------------------------------------------------------------
(* connect(), callback() and disconnect().                                 *)

Idle == alive /\ operation = None

Connect ==
  /\ Idle /\ Use("connects")
  /\ offered' = offered + 1
  /\ Save("operation", [tokens |-> None, pending |-> offered + 1, reconnect |-> FALSE])
  /\ Places([kind |-> "connect", at |-> "save"], stream, refreshing)
  /\ UNCHANGED <<held, alive, notion, granted, exchanged, again>>

\* (mutant) the pending authorization is kept.
CallbackAgain(g) ==
  /\ Idle /\ Use("callbacks")
  /\ g \in 1..offered /\ credentials.pending = g
  /\ Places([kind |-> "callback", at |-> "exchange", grant |-> g], stream, refreshing)
  /\ UNCHANGED <<held, saving, alive, notion, histories>>

\* The pending authorization is consumed before its code is exchanged.
Callback(g) ==
  /\ Idle /\ Use("callbacks")
  /\ g \in 1..offered /\ credentials.pending = g
  /\ Save("operation", [credentials EXCEPT !.pending = None])
  /\ Places([kind |-> "callback", at |-> "exchange", grant |-> g], stream, refreshing)
  /\ UNCHANGED <<held, alive, notion, histories>>

Exchange ==
  /\ operation # None /\ operation.at = "exchange" /\ Saved("operation")
  /\ LET g == operation.grant IN
       /\ again' = IF g \in exchanged THEN again \cup {<<g, 0>>} ELSE again
       /\ exchanged' = exchanged \cup {g}
       /\ \/ /\ g \notin exchanged                   \* Notion takes a code once
             /\ notion' = [newest |-> <<g, 1>>, accepts |-> TRUE]
             /\ \/ /\ Save("operation", [credentials EXCEPT !.tokens = <<g, 1>>, !.reconnect = FALSE])
                   /\ Places([operation EXCEPT !.at = "save"], stream, refreshing)
                   /\ UNCHANGED notionBudget
                \/ /\ Use("failures")                \* the answer is lost
                   /\ Places(None, stream, refreshing) /\ UNCHANGED saving
          \/ /\ Use("failures")                      \* refused: requireReconnect
             /\ Save("operation", [tokens |-> None, pending |-> None, reconnect |-> TRUE])
             /\ Places([operation EXCEPT !.at = "save"], stream, refreshing)
             /\ UNCHANGED notion
  /\ UNCHANGED <<held, alive, offered, granted>>

Disconnect ==
  /\ Idle /\ Use("disconnects")
  /\ Save("operation", Empty)
  /\ Places([kind |-> "disconnect", at |-> "save"], stream, refreshing)
  /\ UNCHANGED <<held, alive, notion, histories>>

Answered ==
  /\ operation # None /\ operation.at = "save" /\ Saved("operation")
  /\ Places(None, stream, refreshing)
  /\ UNCHANGED <<held, saving, alive, notion, histories, notionBudget>>

-----------------------------------------------------------------------------
(* refresh() and renewTokens().                                            *)

Usable == credentials.tokens # None /\ ~credentials.reconnect

\* The renewal in flight, or a new one of the tokens that are saved now.
Renewal == IF refreshing # None THEN refreshing ELSE [at |-> "ask", pair |-> credentials.tokens]

Ask ==
  /\ refreshing # None /\ refreshing.at = "ask"
  /\ LET pair == refreshing.pair
         current == pair = notion.newest
         next == <<pair[1], pair[2] + 1>>
     IN /\ again' = IF current THEN again ELSE again \cup {pair}
        /\ \/ /\ current
              /\ notion' = [newest |-> next, accepts |-> TRUE]
              /\ \/ /\ Save("renewal", [credentials EXCEPT !.tokens = next, !.reconnect = FALSE])
                    /\ Places(operation, stream, [at |-> "renewed"])
                    /\ UNCHANGED notionBudget
                 \/ Use("failures") /\ RenewalEnds(FALSE) /\ UNCHANGED saving
           \/ /\ ~current
              /\ Save("renewal", [credentials EXCEPT !.tokens = None, !.pending = None, !.reconnect = TRUE])
              /\ Places(operation, stream, [at |-> "refused"])
              /\ UNCHANGED <<notion, notionBudget>>
           \/ /\ Use("failures") /\ RenewalEnds(FALSE)   \* Notion was not reached
              /\ UNCHANGED <<notion, saving>>
  /\ UNCHANGED <<held, alive, offered, granted, exchanged>>

Renewed ==
  /\ refreshing # None /\ refreshing.at \in {"renewed", "refused"} /\ Saved("renewal")
  /\ RenewalEnds(refreshing.at = "renewed")
  /\ UNCHANGED <<held, saving, alive, notion, histories, notionBudget>>

-----------------------------------------------------------------------------
(* withClient(): the initialization, the event stream beside it, the call  *)
(* of the tool, and the time of the check.                                 *)

\* The tokens are renewed first if they expire soon.
Page ==
  /\ Idle /\ Use("pages")
  /\ IF Usable
     THEN \/ Places(Read("send"), stream, refreshing)
          \/ Places(Read("renewing"), stream, Renewal)
     ELSE Places(Read("close"), stream, refreshing)
  /\ UNCHANGED <<held, saving, alive, notion, histories>>

\* A fetch of the operation or of the stream, after it has become t.
Goes(w, t, r) == IF w = "operation" THEN Places(t, stream, r) ELSE Places(operation, t, r)
Fetching(w) == IF w = "operation" THEN operation ELSE stream
Throws(w) == Goes(w, IF w = "operation" THEN OperationThrows ELSE None, refreshing)
IsAt(w, place) == Fetching(w) # None /\ Fetching(w).at = place

Send(w) ==
  /\ IsAt(w, "send")
  /\ IF credentials.tokens = None THEN Throws(w)
     ELSE Goes(w, [Fetching(w) EXCEPT !.at = "sent", !.sent = credentials.tokens], refreshing)
  /\ UNCHANGED <<held, saving, alive, notion, histories, notionBudget>>

Accepted(w) == Fetching(w).sent = notion.newest /\ notion.accepts

\* The answer to the first request starts the stream; the last one saves the time of the check.
Accept(w) ==
  /\ IsAt(w, "sent") /\ Accepted(w)
  /\ IF w = "stream" THEN Places(operation, None, refreshing) /\ UNCHANGED saving
     ELSE IF operation.request = 1
     THEN /\ Places([operation EXCEPT !.at = "send", !.request = 2, !.second = FALSE],
                    IF stream = None THEN Read("send") ELSE stream, refreshing)
          /\ UNCHANGED saving
     ELSE /\ Save("operation", credentials)
          /\ Places([operation EXCEPT !.at = "close"], stream, refreshing)
  /\ UNCHANGED <<held, alive, notion, histories, notionBudget>>

Lost(w) ==
  /\ IsAt(w, "sent") /\ Use("failures")
  /\ Throws(w)
  /\ UNCHANGED <<held, saving, alive, notion, histories>>

\* 401: the tokens are renewed unless somebody has done that; a second 401 asks to reconnect.
Reject(w) ==
  /\ IsAt(w, "sent") /\ ~Accepted(w) /\ ~Fetching(w).second
  /\ LET t == [Fetching(w) EXCEPT !.second = TRUE] IN
       IF credentials.tokens # t.sent THEN Goes(w, [t EXCEPT !.at = "send"], refreshing)
       ELSE IF refreshing = None /\ ~Usable THEN Throws(w)
       ELSE Goes(w, [t EXCEPT !.at = "renewing"], Renewal)
  /\ UNCHANGED <<held, saving, alive, notion, histories, notionBudget>>

RejectAgain(w) ==
  /\ IsAt(w, "sent") /\ ~Accepted(w) /\ Fetching(w).second
  /\ Save(w, [credentials EXCEPT !.tokens = None, !.pending = None, !.reconnect = TRUE])
  /\ Goes(w, [Fetching(w) EXCEPT !.at = "rejected"], refreshing)
  /\ UNCHANGED <<held, alive, notion, histories, notionBudget>>

Rejected(w) ==
  /\ IsAt(w, "rejected") /\ Saved(w)
  /\ Throws(w)
  /\ UNCHANGED <<held, saving, alive, notion, histories, notionBudget>>

\* Closing the client ends the request of the stream; a renewal is waited for.
Close ==
  /\ operation # None /\ operation.at = "close" /\ Saved("operation")
  /\ Places([operation EXCEPT !.at = "closing"],
            IF stream # None /\ stream.at \in {"send", "sent"} THEN None ELSE stream, refreshing)
  /\ UNCHANGED <<held, saving, alive, notion, histories, notionBudget>>

\* (mutant) a renewal in flight outlives the read.
ClosedAtOnce ==
  /\ operation # None /\ operation.at = "closing"
  /\ Places(None, stream, refreshing)
  /\ UNCHANGED <<held, saving, alive, notion, histories, notionBudget>>

Closed ==
  /\ operation # None /\ operation.at = "closing" /\ refreshing = None
  /\ Places(None, stream, None)
  /\ UNCHANGED <<held, saving, alive, notion, histories, notionBudget>>

-----------------------------------------------------------------------------
\* An access token expires, or the user revokes it at Notion.
Expire ==
  /\ notion.accepts /\ Use("expiries")
  /\ notion' = [notion EXCEPT !.accepts = FALSE]
  /\ UNCHANGED <<held, saving, operation, stream, refreshing, alive, histories>>

Crash ==
  /\ alive /\ Use("crashes")
  /\ alive' = FALSE
  /\ credentials' = Empty
  /\ saving' = [w \in Writers |-> None] /\ Places(None, None, None)
  /\ UNCHANGED <<file, notion, histories>>

\* The file is what a start of the server reads; tokens of another callback URL are dropped.
Load ==
  /\ ~alive /\ alive' = TRUE
  /\ \/ credentials' = file /\ UNCHANGED <<file, notionBudget>>
     \/ /\ Use("moves") /\ file # Empty
        /\ credentials' = [tokens |-> None, pending |-> None, reconnect |-> TRUE] /\ file' = credentials'
  /\ UNCHANGED <<saving, operation, stream, refreshing, notion, histories>>

NotionInit ==
  /\ notionBudget \in NotionPlans
  /\ credentials = Empty /\ file = Empty /\ saving = [w \in Writers |-> None]
  /\ operation = None /\ stream = None /\ refreshing = None /\ alive = TRUE
  /\ notion = [newest |-> None, accepts |-> FALSE]
  /\ offered = 0 /\ granted = 0 /\ exchanged = {} /\ again = {}

Works == \/ Exchange \/ Answered \/ Ask \/ Renewed \/ Close \/ Closed \/ Load
         \/ \E w \in Writers : Rename(w) \/ Assign(w)
         \/ \E w \in {"operation", "stream"} : Send(w) \/ Accept(w) \/ Reject(w) \/ RejectAgain(w) \/ Rejected(w)

NotionNext ==
  \/ Works \/ Connect \/ Disconnect \/ Page \/ Expire \/ Crash
  \/ \E g \in 1..offered : Callback(g)
  \/ \E w \in Writers : SaveFails(w)
  \/ \E w \in {"operation", "stream"} : Lost(w)

\* Every request has a deadline, so what was begun goes on.
NotionSpec == NotionInit /\ [][NotionNext]_notionVars /\ WF_notionVars(Works)

-----------------------------------------------------------------------------
(* Properties.                                                             *)

\* "Single-use state": no authorization is presented to Notion twice, wherever the server
\* stops between the browser's callback and the saved tokens.
StatesAreUsedOnce == \A g \in 1..offered : <<g, 0>> \notin again

\* Between two operations the tokens in memory and on disk belong to the last authorization:
\* no save of an earlier read or callback brings back tokens after a connect or a disconnect.
LatestGrant ==
  operation = None => \A c \in {credentials, file} : c.tokens # None => c.tokens[1] = granted

GrantsHold == StatesAreUsedOnce /\ LatestGrant

\* Every operation ends, so the queue never blocks the next one.
OperationsEnd == operation # None ~> operation = None

\* "Concurrent reads do not reuse a rotated refresh token" (while every save and request
\* succeeds and the server runs).
RotatedIsNotReused == \A pair \in again : pair[2] = 0
=============================================================================
