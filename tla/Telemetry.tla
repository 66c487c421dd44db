------------------------------ MODULE Telemetry ------------------------------
(***************************************************************************)
(* One log record on its way from a coding client to the accounting: the   *)
(* relay decides by its session whether it may pass (fleet/relay.mjs),     *)
(* keeps the structural attributes of it (fleet/safe-telemetry.mjs) and    *)
(* posts it, more than once when an answer is lost; the server parses each *)
(* post on its own (server/src/otlp/parse.ts).  The two programs look the  *)
(* attributes up independently: the relay reads texts only, the server     *)
(* reads a number or a flag as its text, and what the relay keeps of a     *)
(* text is its first 300 characters.                                       *)
(***************************************************************************)
EXTENDS Integers, Sequences, FiniteSets, SequencesExt

CONSTANTS
  Resources,   \* attributes of a resource: functions from names to typed values
  Attributes,  \* attributes of a record, the same
  Long,        \* the texts of more than 300 characters, with the first 300
  Numerals,    \* the texts that say a number
  Bodies,      \* event names a record may have as its text, and None
  Times,       \* its time: a positive one, 0 for unknown, None for absent
  None,
  MaxPosts     \* bound on the posts of one queued record

VARIABLES
  exported,  \* the record as the client sent it
  session,   \* the session the relay let it pass for, None before
  queued,    \* what the relay keeps of it
  events,    \* what the server made of each post
  serial     \* the counter and the clock of the server

vars == <<exported, session, queued, events, serial>>

Get(bag, name) == IF name \in DOMAIN bag THEN bag[name] ELSE None

Value(type, text) == [type |-> type, text |-> text]

\* What the programs make of a value.  The relay (attributes) and safeId take
\* texts, safeId of 200 characters at most; n and tokenCount what says a number;
\* truthy a flag or the text of one; coerce and str anything, as its text.
IsText(value) == value # None /\ value.type = "text"
Readable(value, how) ==
  /\ value # None
  /\ how \in {"text", "safeId"} => IsText(value)
  /\ how = "safeId" => value.text \notin DOMAIN Long \union {Long[l] : l \in DOMAIN Long}
  /\ how = "number" => value.type = "number" \/ (IsText(value) /\ value.text \in Numerals)
  /\ how = "truthy" => value.type \in {"text", "flag"} /\ value.text \in {"true", "false"}
Read(value, how) == IF Readable(value, how) THEN value.text ELSE None

\* The first of several attributes that is there, of the record or the
\* resource, and the first that a program can read.
Present(record, lookups) ==
  LET found == SelectSeq(lookups, LAMBDA l : Get(record[l[1]], l[2]) # None)
  IN  IF found = <<>> THEN None ELSE Get(record[found[1][1]], found[1][2])
First(record, lookups, how) ==
  LET texts == [i \in DOMAIN lookups |-> Read(Get(record[lookups[i][1]], lookups[i][2]), how)]
      found == SelectSeq(texts, LAMBDA text : text # None)
  IN  IF found = <<>> THEN None ELSE found[1]

Own(name) == <<"attributes", name>>
Resource(name) == <<"resource", name>>

(* The relay.                                                              *)

\* Mutant: the conversation goes before the session.
RelaySessionByConversation ==
  <<Own("conversation.id"), Own("session.id"), Resource("session.id"), Own("conversation_id"),
    Resource("conversation.id"), Resource("conversation_id")>>

RelaySession ==
  <<Own("session.id"), Resource("session.id"), Own("conversation.id"), Own("conversation_id"),
    Resource("conversation.id"), Resource("conversation_id")>>

\* The event is named by its attribute, its text or, last, its name.
EventName(record, how) ==
  LET named == First(record, <<Own("event.name")>>, how)
  IN  IF named # None THEN named
      ELSE IF record.body # None THEN record.body
      ELSE First(record, <<Own("name")>>, how)

Codex == {"codex.api_request", "codex.sse_event", "codex.user_prompt"}
Claude == {"claude_code.api_request", "claude_code.tool_result"}
Provider(record, how) ==
  IF EventName(record, how) \in Codex THEN "codex"
  ELSE IF EventName(record, how) \in Claude THEN "claude" ELSE None

\* The names of the list in safe-telemetry.mjs that the model tells apart.
AttributeNames ==
  {"event.name", "event.id", "event_id", "name", "kind", "event.kind", "session.id", "conversation.id",
   "conversation_id", "parent_thread_id", "prompt.id", "turn.id", "request.id", "request_id",
   "response.id", "model", "success", "input_tokens", "input_token_count", "cached_input_tokens",
   "cached_token_count", "output_tokens", "cost_usd", "status_code", "duration_ms", "tool_name"}

Cut(value) == IF value.type = "text" /\ value.text \in DOMAIN Long THEN [value EXCEPT !.text = Long[@]] ELSE value
Kept(bag) == [name \in DOMAIN bag \intersect AttributeNames |-> Cut(bag[name])]

\* Mutant: the text of the record is content and dropped.
SafeWithoutText(record) ==
  [resource |-> Kept(record.resource), attributes |-> Kept(record.attributes), body |-> None, time |-> record.time]

SafeTelemetry(record) ==
  [resource |-> Kept(record.resource), attributes |-> Kept(record.attributes),
   body |-> IF record.body \in Codex \union Claude THEN record.body ELSE None, time |-> record.time]

Accept ==
  /\ session = None
  /\ Provider(exported, "text") # None
  /\ First(exported, RelaySession, "text") # None
  /\ session' = First(exported, RelaySession, "text")
  /\ queued' = SafeTelemetry(exported)
  /\ UNCHANGED <<exported, events, serial>>

(* The server.                                                             *)

Lookups ==
  [sessionId   |-> <<Own("session.id"), Resource("session.id"), Own("conversation.id"),
                     Own("conversation_id"), Resource("conversation.id"), Resource("conversation_id")>>,
   parent      |-> <<Own("parent_thread_id"), Resource("parent_thread_id")>>,
   promptId    |-> <<Own("prompt.id"), Own("turn.id")>>,
   requestId   |-> <<Own("request.id"), Own("request_id")>>,
   responseId  |-> <<Own("response.id")>>,
   model       |-> <<Own("model"), Resource("model")>>,
   success     |-> <<Own("success")>>,
   input       |-> <<Own("input_tokens"), Own("input_token_count")>>,
   cached      |-> <<Own("cached_input_tokens"), Own("cached_token_count")>>,
   output      |-> <<Own("output_tokens")>>,
   cost        |-> <<Own("cost_usd")>>,
   statusCode  |-> <<Own("status_code")>>,
   duration    |-> <<Own("duration_ms")>>,
   toolName    |-> <<Own("tool_name"), Own("name")>>]

IsResponseUsage(record) ==
  /\ EventName(record, "coerce") = "codex.sse_event"
  /\ First(record, <<Own("kind"), Own("event.kind")>>, "coerce") = "response.completed"

Kind(record) ==
  LET name == EventName(record, "coerce")
  IN  CASE IsResponseUsage(record) -> "api_request"
        [] name = "codex.api_request" /\ First(record, Lookups.success, "truthy") = "false" -> "api_error"
        [] name \in {"codex.api_request", "claude_code.api_request"} -> "api_request"
        [] name = "claude_code.tool_result" -> "tool_result"
        [] name = "codex.user_prompt" -> "user_prompt"
        [] OTHER -> None

\* The fields an event of a kind has besides the identity.
Identity == {"sessionId", "parent", "promptId", "requestId", "responseId"}
Fields(kind) ==
  Identity \union
  CASE kind = "api_request" -> {"model", "input", "cached", "output", "cost", "statusCode", "duration"}
    [] kind = "api_error"   -> {"model", "statusCode", "duration"}
    [] kind = "tool_result" -> {"toolName", "success", "duration"}
    [] OTHER -> {}

Counts == {"input", "cached", "output", "cost", "statusCode", "duration"}
Field(record, f) ==
  CASE f = "parent"     -> Read(Present(record, Lookups.parent), "safeId")
    [] f = "success"    -> First(record, Lookups.success, "truthy")
    [] f \in Counts     -> First(record, Lookups[f], "number")
    [] OTHER            -> First(record, Lookups[f], "coerce")

Content(record) ==
  [kind |-> Kind(record), provider |-> Provider(record, "coerce"), response |-> IsResponseUsage(record),
   fields |-> [f \in Fields(Kind(record)) |-> Field(record, f)]]

SourceId(record) == First(record, <<Own("event.id"), Own("event_id")>>, "coerce")
Stamped(record) == record.time \notin {None, 0}

\* Mutant: only an id of its own makes a record known again.
IdWithoutTime(record, reading) ==
  IF SourceId(record) # None
  THEN [provider |-> Provider(record, "coerce"), session |-> Field(record, "sessionId"), source |-> SourceId(record)]
  ELSE [generated |-> reading]

\* A record is known again by its own id within its session or by its time and
\* content; one that has neither is new each time it is read.
Id(record, reading) ==
  IF SourceId(record) # None
  THEN [provider |-> Provider(record, "coerce"), session |-> Field(record, "sessionId"), source |-> SourceId(record)]
  ELSE IF Stamped(record) THEN [name |-> EventName(record, "coerce"), time |-> record.time, event |-> Content(record)]
  ELSE [generated |-> reading]

ParseLogs(record, reading) ==
  IF Kind(record) = None THEN {}
  ELSE {[id |-> Id(record, reading), content |-> Content(record)]}

\* The relay posts until an answer arrives.
Post ==
  /\ session # None
  /\ Len(events) < MaxPosts
  /\ events' = Append(events, ParseLogs(queued, serial))
  /\ serial' = serial + 1
  /\ UNCHANGED <<exported, session, queued>>

Init ==
  /\ exported \in [resource : Resources, attributes : Attributes, body : Bodies, time : Times]
  /\ session = None
  /\ queued = None
  /\ events = <<>>
  /\ serial = 0

Next == Accept \/ Post

Spec == Init /\ [][Next]_vars

(* Properties.                                                             *)

Parsed == UNION ToSet(events)

\* The event is counted for the session the relay let it pass for, up to the
\* cut, unless the record says its session as a number or a flag first, which
\* the relay passes over and the server reads.
CountedWhereItPassed ==
  \A e \in Parsed :
    /\ e.content.provider = Provider(exported, "text")
    /\ IsText(Present(exported, RelaySession)) =>
         e.content.fields.sessionId = Cut(Value("text", session)).text

\* Every text of a record cut, and nothing left out.
Shortened(record) ==
  [record EXCEPT !.resource = [name \in DOMAIN @ |-> Cut(@[name])],
                 !.attributes = [name \in DOMAIN @ |-> Cut(@[name])]]

\* What the relay leaves out is nothing the server would have used: the server
\* makes of the kept record what it would have made of the whole one, cut.
NothingUsedIsDropped ==
  \A i \in DOMAIN events :
    {e.content : e \in events[i]} = {e.content : e \in ParseLogs(Shortened(exported), i)}

\* A record with an id or a time is one event however often it is posted.
RepeatsAreKnown ==
  (SourceId(exported) # None \/ Stamped(exported)) => Cardinality(Parsed) <= 1
==============================================================================
