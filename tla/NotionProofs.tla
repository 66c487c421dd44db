---------------------------- MODULE NotionProofs ----------------------------
(***************************************************************************)
(* No authorization of Notion is used twice, and between two operations    *)
(* the tokens belong to the last authorization: a proof for any number of  *)
(* operations, renewals, failing writes and requests, and stops of the     *)
(* process.                                                                *)
(*                                                                         *)
(* The argument.  A save starts from the credentials in memory when it was *)
(* called and may end much later, so what protects a new authorization is  *)
(* which saves can still be on their way (SerialInv): a renewal and the    *)
(* save of a read end with their read, and the only save that outlives its *)
(* read is one of the event stream, which holds no tokens (ValueInv).  The *)
(* pending authorization leaves the memory and the file before its code is *)
(* presented (PendingInv).                                                 *)
(*                                                                         *)
(* The last part is about the graph of what was imported: it is closed,    *)
(* and shows concepts at the capture they come from, for any memory, any   *)
(* analysis and any limits (GraphInv).                                     *)
(***************************************************************************)
EXTENDS Notion, MemoryGraph, FiniteSetTheorems, TLAPS

Operations == Reads \cup Switches \cup Callbacks

NotionTypes ==
  /\ credentials \in Held /\ file \in Held
  /\ saving \in [Writers -> Saves \cup {None}]
  /\ operation \in Operations \cup {None} /\ stream \in Reads \cup {None}
  /\ refreshing \in Renewals \cup {None} /\ alive \in BOOLEAN
  /\ offered \in Nat /\ granted \in Nat /\ exchanged \subseteq 1..offered /\ again \subseteq Pairs

-----------------------------------------------------------------------------
(* The inductive invariant.                                                *)

IsRead == operation # None /\ operation.kind = "page"

\* Who is saving, and who else can be at work then.
SerialInv ==
  /\ ~alive => operation = None /\ stream = None /\ refreshing = None /\ \A w \in Writers : saving[w] = None
  /\ saving["operation"] # None => operation # None /\ operation.at \in {"save", "exchange", "rejected", "close"}
  /\ saving["stream"] # None => stream # None /\ stream.at = "rejected"
  /\ saving["renewal"] # None => refreshing # None /\ refreshing.at \in {"renewed", "refused"}
  /\ refreshing # None => IsRead
  /\ stream # None /\ stream.at # "rejected" => IsRead
  /\ stream # None /\ stream.at = "renewing" => refreshing # None
  /\ stream # None /\ stream.at \in {"send", "sent"} => operation.at # "closing"
  /\ stream # None => stream.at \in {"renewing", "send", "sent", "rejected"}

\* Tokens and a pending authorization of the grant g.
Fits(c, g) == (c.tokens # None => c.tokens[1] = g) /\ (c.pending # None => c.pending = g)
Nothing(c) == c.tokens = None /\ c.pending = None

\* A connect or a disconnect has replaced the file and has not yet assigned the credentials.
Switching == /\ operation # None /\ operation.kind \in {"connect", "disconnect"}
             /\ saving["operation"] # None /\ saving["operation"].renamed

\* What is held, presented and on its way is of the grant that was saved last.
HeldInv == Fits(file, granted) /\ (~Switching => Fits(credentials, granted))
PresentedInv ==
  /\ refreshing # None /\ refreshing.at = "ask" => refreshing.pair[1] = granted
  /\ operation # None /\ operation.kind = "callback" => operation.grant = granted
SavedInv ==
  /\ saving["stream"] # None => Nothing(saving["stream"].value)
  /\ saving["renewal"] # None => Fits(saving["renewal"].value, granted)
  /\ saving["operation"] # None =>
       /\ operation.kind = "connect" =>
            /\ saving["operation"].value.tokens = None /\ saving["operation"].value.pending = offered
            /\ saving["operation"].renamed => granted = offered
       /\ operation.kind = "disconnect" => Nothing(saving["operation"].value)
       /\ operation.kind \in {"page", "callback"} => Fits(saving["operation"].value, granted)
ValueInv == HeldInv /\ PresentedInv /\ SavedInv

\* A pending authorization was never presented.
PendingInv ==
  /\ credentials.pending \notin exchanged /\ file.pending \notin exchanged
  /\ \A w \in Writers : saving[w] # None => saving[w].value.pending \notin exchanged
  /\ operation # None /\ operation.at = "exchange" =>
       /\ operation.grant \notin exchanged /\ operation.grant \in 1..offered
       /\ IF saving["operation"] = None THEN credentials.pending = None /\ file.pending = None
          ELSE /\ saving["operation"].value.pending = None
               /\ saving["operation"].renamed => file.pending = None

NotionInv == NotionTypes /\ SerialInv /\ ValueInv /\ PendingInv

-----------------------------------------------------------------------------
(* Lemmas.                                                                 *)

\* The operation and its place.
LEMMA Kinds ==
  ASSUME NotionTypes, operation # None
  PROVE  /\ operation.kind \in {"page", "connect", "disconnect", "callback"}
         /\ operation.kind = "page" <=> operation \in Reads
         /\ operation.kind = "callback" <=> operation \in Callbacks
         /\ operation.kind = "page" =>
              operation.at \in {"renewing", "send", "sent", "rejected", "close", "closing"}
         /\ operation.kind = "callback" => operation.at \in {"exchange", "save"} /\ operation.grant \in Nat
         /\ operation.kind \in {"connect", "disconnect"} => operation.at = "save"
  <1>1. operation \in Reads \cup Switches \cup Callbacks
    BY DEF NotionTypes, Operations
  <1>2. CASE operation \in Reads
    BY <1>2 DEF Reads, Callbacks
  <1>3. CASE operation \in Switches
    BY <1>3 DEF Reads, Switches, Callbacks
  <1>4. CASE operation \in Callbacks
    BY <1>4 DEF Reads, Callbacks
  <1> QED
    BY <1>1, <1>2, <1>3, <1>4

\* A read that goes on at another place.
LEMMA Goes1 ==
  ASSUME NEW t \in Reads, NEW place \in {"renewing", "send", "sent", "rejected", "close", "closing"}
  PROVE  /\ [t EXCEPT !.at = place] \in Reads /\ [t EXCEPT !.at = place].at = place
         /\ [t EXCEPT !.at = place].kind = "page"
  BY DEF Reads

\* A read that begins.
LEMMA Starts ==
  ASSUME NotionAssumption, NEW place \in {"renewing", "send", "close"}
  PROVE  Read(place) \in Reads /\ Read(place) # None /\ Read(place).at = place /\ Read(place).kind = "page"
  <1>1. Read(place) \in Reads /\ Read(place).at = place /\ Read(place).kind = "page"
    BY DEF Read, Reads
  <1> QED
    BY <1>1 DEF NotionAssumption

\* What a save that begins changes.
LEMMA Begins ==
  ASSUME NotionAssumption, NotionTypes, NEW w \in Writers, NEW value \in Held, Save(w, value)
  PROVE  /\ saving' \in [Writers -> Saves \cup {None}] /\ saving'[w] # None
         /\ saving'[w].value = value /\ saving'[w].renamed = FALSE
         /\ \A other \in Writers \ {w} : saving'[other] = saving[other]
  <1>1. [value |-> value, renamed |-> FALSE] \in Saves
    BY DEF Saves
  <1> QED
    BY <1>1 DEF NotionTypes, Save, NotionAssumption

\* What a save that is over leaves.
LEMMA Over ==
  ASSUME NotionTypes, NEW w \in Writers, saving' = [saving EXCEPT ![w] = None]
  PROVE  /\ saving' \in [Writers -> Saves \cup {None}] /\ saving'[w] = None
         /\ \A other \in Writers \ {w} : saving'[other] = saving[other]
  BY DEF NotionTypes

\* The read goes on, or to its end, when the renewal it waits for has ended; so does its stream.
LEMMA Ends ==
  ASSUME NotionAssumption, NotionTypes, SerialInv, refreshing # None, NEW ok \in BOOLEAN, RenewalEnds(ok)
  PROVE  /\ refreshing' = None /\ operation \in Reads /\ operation # None
         /\ operation' \in Reads /\ operation' # None /\ operation'.kind = "page"
         /\ IF operation.at = "renewing" THEN operation'.at \in {"send", "close"} ELSE operation' = operation
         /\ stream' \in Reads \cup {None}
         /\ IF stream # None /\ stream.at = "renewing"
            THEN stream' = None \/ (stream'.at = "send" /\ operation.at # "closing") ELSE stream' = stream
  <1>1. operation \in Reads /\ operation # None /\ operation.kind = "page"
    BY Kinds DEF SerialInv, IsRead
  <1>2. [operation EXCEPT !.at = "send"] \in Reads /\ [operation EXCEPT !.at = "close"] \in Reads
        /\ [operation EXCEPT !.at = "send"].at = "send" /\ [operation EXCEPT !.at = "close"].at = "close"
    BY <1>1, Goes1
  <1>3. operation' \in Reads
        /\ IF operation.at = "renewing" THEN operation'.at \in {"send", "close"} ELSE operation' = operation
    BY <1>1, <1>2 DEF RenewalEnds, OperationThrows
  <1>4. operation' # None /\ operation'.kind = "page"
    BY <1>3 DEF NotionAssumption, Reads
  <1>5. CASE stream # None /\ stream.at = "renewing"
    <2>1. stream \in Reads
      BY <1>5 DEF NotionTypes
    <2>2. [stream EXCEPT !.at = "send"] \in Reads /\ [stream EXCEPT !.at = "send"].at = "send"
      BY <2>1, Goes1
    <2> QED
      BY <1>1, <1>3, <1>4, <1>5, <2>2 DEF RenewalEnds
  <1>6. CASE ~(stream # None /\ stream.at = "renewing")
    BY <1>1, <1>3, <1>4, <1>6 DEF RenewalEnds, NotionTypes
  <1> QED
    BY <1>5, <1>6

-----------------------------------------------------------------------------
(* Saves.                                                                  *)

LEMMA RenameStep ==
  ASSUME NotionAssumption, NotionInv, NEW w \in Writers, Rename(w)
  PROVE  NotionInv'
  <1>1. /\ saving[w] # None /\ ~saving[w].renamed /\ file' = saving[w].value
        /\ saving' = [saving EXCEPT ![w].renamed = TRUE]
        /\ granted' = IF w = "operation" /\ operation.kind = "connect" THEN offered
                      ELSE IF w = "operation" /\ operation.kind = "disconnect" THEN 0 ELSE granted
        /\ UNCHANGED <<credentials, operation, stream, refreshing, alive, notion, offered, exchanged, again>>
    BY DEF Rename
  <1>2. NotionTypes /\ SerialInv /\ ValueInv /\ PendingInv
    BY DEF NotionInv
  <1>3. saving[w] \in Saves
    BY <1>1, <1>2 DEF NotionTypes
  <1>4. /\ [saving[w] EXCEPT !.renamed = TRUE] \in Saves /\ saving'[w] = [saving[w] EXCEPT !.renamed = TRUE]
        /\ saving' \in [Writers -> Saves \cup {None}]
        /\ \A other \in Writers \ {w} : saving'[other] = saving[other]
    BY <1>1, <1>2, <1>3 DEF NotionTypes, Saves
  <1>5. saving'[w] # None /\ saving'[w].value = saving[w].value /\ saving'[w].renamed = TRUE
        /\ saving[w].value \in Held
    BY <1>3, <1>4 DEF Saves, NotionAssumption
  <1>6. NotionTypes'
    BY <1>1, <1>2, <1>4, <1>5 DEF NotionTypes
  <1>7. SerialInv'
    BY <1>1, <1>2, <1>4, <1>5 DEF SerialInv, IsRead, Writers
  <1>8. CASE w = "stream"
    <2>1. /\ Nothing(saving["stream"].value) /\ granted' = granted
          /\ saving'["operation"] = saving["operation"] /\ saving'["renewal"] = saving["renewal"]
      BY <1>1, <1>2, <1>4, <1>8 DEF ValueInv, SavedInv, Writers
    <2>2. HeldInv' /\ PresentedInv'
      BY <1>1, <1>2, <1>8, <2>1 DEF ValueInv, HeldInv, PresentedInv, Fits, Nothing, Switching
    <2>3. SavedInv'
      BY <1>1, <1>2, <1>5, <1>8, <2>1 DEF ValueInv, SavedInv
    <2>4. file'.pending = None /\ file'.pending \notin exchanged
      BY <1>1, <1>2, <1>8, <2>1 DEF PendingInv, Nothing
    <2>5. PendingInv'
      BY <1>1, <1>2, <1>4, <1>5, <1>8, <2>1, <2>4 DEF PendingInv
    <2> QED
      BY <1>6, <1>7, <2>2, <2>3, <2>5 DEF NotionInv, ValueInv
  <1>9. CASE w = "renewal"
    <2>1. /\ Fits(saving["renewal"].value, granted) /\ granted' = granted
          /\ saving'["operation"] = saving["operation"] /\ saving'["stream"] = saving["stream"]
      BY <1>1, <1>2, <1>4, <1>9 DEF ValueInv, SavedInv, Writers
    <2>2. HeldInv' /\ PresentedInv'
      BY <1>1, <1>2, <1>9, <2>1 DEF ValueInv, HeldInv, PresentedInv, Switching
    <2>3. SavedInv'
      BY <1>1, <1>2, <1>5, <1>9, <2>1 DEF ValueInv, SavedInv
    <2>4. operation # None /\ operation.at # "exchange"
      BY <1>1, <1>2, <1>9, Kinds DEF SerialInv, IsRead
    <2>5. PendingInv'
      BY <1>1, <1>2, <1>4, <1>5, <1>9, <2>4 DEF PendingInv
    <2> QED
      BY <1>6, <1>7, <2>2, <2>3, <2>5 DEF NotionInv, ValueInv
  <1>10. CASE w = "operation"
    <2>1. /\ operation # None /\ operation.kind \in {"page", "connect", "disconnect", "callback"}
          /\ saving'["stream"] = saving["stream"] /\ saving'["renewal"] = saving["renewal"]
      BY <1>1, <1>2, <1>4, <1>10, Kinds DEF SerialInv, Writers
    <2>2. PendingInv'
      BY <1>1, <1>2, <1>4, <1>5, <1>10 DEF PendingInv
    <2>3. CASE operation.kind = "connect"
      <3>1. refreshing = None /\ saving["renewal"] = None
        BY <1>2, <2>3 DEF SerialInv, IsRead
      <3>2. file'.tokens = None /\ file'.pending = offered /\ granted' = offered
        BY <1>1, <1>2, <1>10, <2>3 DEF ValueInv, SavedInv
      <3>3. HeldInv' /\ PresentedInv'
        <4>1. Fits(file', granted') /\ Switching'
          BY <1>1, <1>5, <1>10, <2>1, <2>3, <3>2 DEF Fits, Switching
        <4> QED
          BY <1>1, <2>3, <3>1, <4>1 DEF HeldInv, PresentedInv
      <3>4. SavedInv'
        BY <1>1, <1>2, <1>5, <1>10, <2>1, <2>3, <3>1, <3>2 DEF ValueInv, SavedInv
      <3> QED
        BY <1>6, <1>7, <2>2, <3>3, <3>4 DEF NotionInv, ValueInv
    <2>4. CASE operation.kind = "disconnect"
      <3>1. refreshing = None /\ saving["renewal"] = None
        BY <1>2, <2>4 DEF SerialInv, IsRead
      <3>2. Nothing(file') /\ granted' = 0
        BY <1>1, <1>2, <1>10, <2>4 DEF ValueInv, SavedInv
      <3>3. HeldInv' /\ PresentedInv'
        <4>1. Fits(file', granted') /\ Switching'
          BY <1>1, <1>5, <1>10, <2>1, <2>4, <3>2 DEF Fits, Nothing, Switching
        <4> QED
          BY <1>1, <2>4, <3>1, <4>1 DEF HeldInv, PresentedInv
      <3>4. SavedInv'
        BY <1>1, <1>2, <1>5, <1>10, <2>1, <2>4, <3>1 DEF ValueInv, SavedInv
      <3> QED
        BY <1>6, <1>7, <2>2, <3>3, <3>4 DEF NotionInv, ValueInv
    <2>5. CASE operation.kind \in {"page", "callback"}
      <3>1. Fits(saving["operation"].value, granted) /\ granted' = granted
        BY <1>1, <1>2, <1>10, <2>5 DEF ValueInv, SavedInv
      <3>2. HeldInv' /\ PresentedInv'
        <4>1. ~Switching /\ ~Switching'
          BY <1>1, <2>5 DEF Switching
        <4>2. Fits(file', granted') /\ Fits(credentials', granted')
          BY <1>1, <1>2, <1>10, <3>1, <4>1 DEF ValueInv, HeldInv
        <4> QED
          BY <1>1, <1>2, <3>1, <4>1, <4>2 DEF ValueInv, HeldInv, PresentedInv
      <3>3. SavedInv'
        BY <1>1, <1>2, <1>5, <1>10, <2>1, <2>5, <3>1 DEF ValueInv, SavedInv
      <3> QED
        BY <1>6, <1>7, <2>2, <3>2, <3>3 DEF NotionInv, ValueInv
    <2> QED
      BY <2>1, <2>3, <2>4, <2>5
  <1> QED
    BY <1>8, <1>9, <1>10 DEF Writers

LEMMA AssignStep ==
  ASSUME NotionAssumption, NotionInv, NEW w \in Writers, Assign(w)
  PROVE  NotionInv'
  <1>1. /\ saving[w] # None /\ saving[w].renamed /\ credentials' = saving[w].value
        /\ saving' = [saving EXCEPT ![w] = None]
        /\ UNCHANGED <<file, operation, stream, refreshing, alive, notion, offered, granted, exchanged, again>>
    BY DEF Assign, histories
  <1>2. NotionTypes /\ SerialInv /\ ValueInv /\ PendingInv
    BY DEF NotionInv
  <1>3. saving[w] \in Saves /\ saving[w].value \in Held
    BY <1>1, <1>2 DEF NotionTypes, Saves
  <1>4. /\ saving' \in [Writers -> Saves \cup {None}] /\ saving'[w] = None
        /\ \A other \in Writers \ {w} : saving'[other] = saving[other]
    BY <1>1, <1>2, Over
  <1>6. NotionTypes'
    BY <1>1, <1>2, <1>3, <1>4 DEF NotionTypes
  <1>7. SerialInv'
    BY <1>1, <1>2, <1>4 DEF SerialInv, IsRead, Writers
  <1>8. /\ \A v \in Writers : saving'[v] # None => saving[v] # None /\ saving'[v] = saving[v]
        /\ PresentedInv' /\ SavedInv'
    <2>1. \A v \in Writers : saving'[v] # None => saving[v] # None /\ saving'[v] = saving[v]
      BY <1>4
    <2>2. PresentedInv'
      BY <1>1, <1>2 DEF ValueInv, PresentedInv
    <2>3. SavedInv'
      BY <1>1, <1>2, <2>1 DEF ValueInv, SavedInv, Writers
    <2> QED
      BY <2>1, <2>2, <2>3
  <1>9. CASE w = "stream"
    <2>1. Nothing(saving["stream"].value) /\ saving'["operation"] = saving["operation"]
      BY <1>1, <1>2, <1>4, <1>9 DEF ValueInv, SavedInv, Writers
    <2>2. HeldInv'
      BY <1>1, <1>2, <1>9, <2>1 DEF ValueInv, HeldInv, Fits, Nothing, Switching
    <2>3. credentials'.pending = None /\ credentials'.pending \notin exchanged
      BY <1>1, <1>2, <1>9, <2>1 DEF PendingInv, Nothing
    <2>4. PendingInv'
      BY <1>1, <1>2, <1>8, <2>1, <2>3 DEF PendingInv
    <2> QED
      BY <1>6, <1>7, <1>8, <2>2, <2>4 DEF NotionInv, ValueInv
  <1>10. CASE w = "renewal"
    <2>1. Fits(saving["renewal"].value, granted) /\ saving'["operation"] = saving["operation"]
      BY <1>1, <1>2, <1>4, <1>10 DEF ValueInv, SavedInv, Writers
    <2>2. HeldInv'
      BY <1>1, <1>2, <1>10, <2>1 DEF ValueInv, HeldInv, Switching
    <2>3. operation # None /\ operation.at # "exchange"
      BY <1>1, <1>2, <1>10, Kinds DEF SerialInv, IsRead
    <2>4. PendingInv'
      BY <1>1, <1>2, <1>8, <1>10, <2>3 DEF PendingInv
    <2> QED
      BY <1>6, <1>7, <1>8, <2>2, <2>4 DEF NotionInv, ValueInv
  <1>11. CASE w = "operation"
    <2>1. operation # None /\ operation.kind \in {"page", "connect", "disconnect", "callback"}
      BY <1>1, <1>2, <1>11, Kinds DEF SerialInv
    <2>2. Fits(credentials', granted)
      BY <1>1, <1>2, <1>11, <2>1 DEF ValueInv, SavedInv, Fits, Nothing
    <2>3. HeldInv'
      BY <1>1, <1>2, <2>2 DEF ValueInv, HeldInv
    <2>4. PendingInv'
      BY <1>1, <1>2, <1>4, <1>8, <1>11 DEF PendingInv, Writers
    <2> QED
      BY <1>6, <1>7, <1>8, <2>3, <2>4 DEF NotionInv, ValueInv
  <1> QED
    BY <1>9, <1>10, <1>11 DEF Writers

-----------------------------------------------------------------------------
(* Reads.                                                                  *)

NoSwitch == operation = None \/ operation.kind = "page"

\* While no switch and no callback runs, what is saved fits.
LEMMA SavedFits ==
  ASSUME NotionInv, NoSwitch
  PROVE  /\ Fits(credentials, granted) /\ Fits(file, granted)
         /\ saving["stream"] # None => Nothing(saving["stream"].value)
         /\ \A v \in {"operation", "renewal"} : saving[v] # None => Fits(saving[v].value, granted)
         /\ \A v \in Writers : saving[v] # None => saving[v].value.pending \notin exchanged
         /\ credentials.pending \notin exchanged
  <1>1. ~Switching
    BY DEF NoSwitch, Switching
  <1>2. saving["operation"] # None => operation # None
    BY DEF NotionInv, SerialInv
  <1>3. \A v \in {"operation", "renewal"} : saving[v] # None => Fits(saving[v].value, granted)
    BY <1>2 DEF NotionInv, ValueInv, SavedInv, NoSwitch
  <1> QED
    BY <1>1, <1>3 DEF NotionInv, ValueInv, HeldInv, SavedInv, PendingInv

\* A step of a read, which holds and presents nothing else.
LEMMA ReadMoves ==
  ASSUME NotionInv, NoSwitch, NoSwitch', NotionTypes', SerialInv',
         UNCHANGED <<credentials, file, offered, granted, exchanged>>,
         refreshing' # None /\ refreshing'.at = "ask" => refreshing'.pair[1] = granted,
         saving'["stream"] # None => Nothing(saving'["stream"].value),
         \A v \in {"operation", "renewal"} : saving'[v] # None => Fits(saving'[v].value, granted),
         \A v \in Writers : saving'[v] # None => saving'[v].value.pending \notin exchanged
  PROVE  NotionInv'
  <1>1. Fits(credentials, granted) /\ Fits(file, granted) /\ ~Switching'
    BY SavedFits DEF NoSwitch, Switching
  <1>2. HeldInv'
    BY <1>1 DEF HeldInv
  <1>3. PresentedInv'
    BY DEF PresentedInv, NoSwitch
  <1>4. saving'["operation"] # None => operation' # None
    BY DEF SerialInv
  <1>5. SavedInv'
    BY <1>4 DEF SavedInv, NoSwitch
  <1>6. operation' # None => operation'.kind = "page"
    BY DEF NoSwitch
  <1>7. operation' # None => operation'.at # "exchange"
    <2>1. SUFFICES ASSUME operation' # None PROVE operation'.at # "exchange"
      OBVIOUS
    <2>2. operation' \in Operations
      BY <2>1 DEF NotionTypes
    <2>3. operation' \in Reads
      BY <1>6, <2>1, <2>2 DEF Operations, Switches, Callbacks
    <2> QED
      BY <2>3 DEF Reads
  <1>8. PendingInv'
    BY <1>7 DEF NotionInv, PendingInv
  <1> QED
    BY <1>2, <1>3, <1>5, <1>8 DEF NotionInv, ValueInv

\* The same when nothing is saved and the renewal is the one that was there.
LEMMA ReadGoesOn ==
  ASSUME NotionInv, NoSwitch, NoSwitch', NotionTypes', SerialInv',
         UNCHANGED <<credentials, file, saving, offered, granted, exchanged>>,
         refreshing' \in {refreshing, None}
  PROVE  NotionInv'
  <1>1. refreshing' # None /\ refreshing'.at = "ask" => refreshing'.pair[1] = granted
    BY DEF NotionInv, ValueInv, PresentedInv
  <1> QED
    BY <1>1, SavedFits, ReadMoves

\* Who fetches does so for a read, and the process runs.
LEMMA Fetches ==
  ASSUME NotionInv, NEW w \in {"operation", "stream"}, NEW place \in {"send", "sent"}, IsAt(w, place)
  PROVE  /\ IsRead /\ operation \in Reads /\ alive /\ NoSwitch
         /\ w = "operation" => operation.at = place /\ saving["operation"] = None
         /\ w = "stream" => stream \in Reads /\ stream.at = place /\ operation.at # "closing" /\ saving["stream"] = None
  <1>1. CASE w = "operation"
    BY <1>1, Kinds DEF IsAt, Fetching, NotionInv, SerialInv, IsRead, NoSwitch
  <1>2. CASE w = "stream"
    <2>1. stream # None /\ stream.at = place /\ stream \in Reads
      BY <1>2 DEF IsAt, Fetching, NotionInv, NotionTypes
    <2> QED
      BY <1>2, <2>1, Kinds DEF NotionInv, SerialInv, IsRead, NoSwitch
  <1> QED
    BY <1>1, <1>2

LEMMA PageStep ==
  ASSUME NotionAssumption, NotionInv, Page
  PROVE  NotionInv'
  <1>1. /\ alive /\ operation = None /\ stream' = stream
        /\ \/ operation' = Read("send") /\ refreshing' = refreshing
           \/ operation' = Read("close") /\ refreshing' = refreshing
           \/ operation' = Read("renewing") /\ refreshing' = Renewal /\ Usable
        /\ UNCHANGED <<credentials, file, saving, alive, offered, granted, exchanged, again>>
    BY DEF Page, Idle, Places, held, histories
  <1>2. NotionTypes /\ SerialInv /\ NoSwitch
    BY <1>1 DEF NotionInv, NoSwitch
  <1>3. /\ refreshing = None /\ saving["operation"] = None /\ saving["renewal"] = None
        /\ stream = None \/ stream.at = "rejected"
    BY <1>1, <1>2 DEF SerialInv, IsRead
  <1>4. operation' \in Reads /\ operation' # None /\ operation'.kind = "page" /\ operation'.at # "closing"
    BY <1>1, Starts
  <1>5. refreshing' # None =>
          refreshing' \in Renewals /\ refreshing'.at = "ask" /\ refreshing'.pair = credentials.tokens
    <2> SUFFICES ASSUME refreshing' # None
                 PROVE  refreshing' \in Renewals /\ refreshing'.at = "ask" /\ refreshing'.pair = credentials.tokens
      OBVIOUS
    <2>1. refreshing' = [at |-> "ask", pair |-> credentials.tokens] /\ credentials.tokens # None
      BY <1>1, <1>3 DEF Renewal, Usable
    <2>2. credentials.tokens \in Pairs
      BY <1>2, <2>1 DEF NotionTypes, Held
    <2>3. refreshing' \in [at : {"ask"}, pair : Pairs]
      BY <2>1, <2>2
    <2> QED
      BY <2>1, <2>3 DEF Renewals
  <1>6. refreshing' # None /\ refreshing'.at = "ask" => refreshing'.pair[1] = granted
    <2>1. refreshing' # None => credentials.tokens # None
      BY <1>1, <1>3 DEF Usable
    <2> QED
      BY <1>2, <1>5, <2>1, SavedFits DEF Fits
  <1>7. NotionTypes'
    BY <1>1, <1>2, <1>4, <1>5 DEF NotionTypes, Operations
  <1>8. SerialInv'
    BY <1>1, <1>2, <1>3, <1>4 DEF SerialInv, IsRead
  <1>9. NoSwitch'
    BY <1>4 DEF NoSwitch
  <1> QED
    BY <1>1, <1>2, <1>6, <1>7, <1>8, <1>9, SavedFits, ReadMoves

\* A fetch that goes on at another place of its read, and may begin a save or a renewal.
LEMMA SendStep ==
  ASSUME NotionAssumption, NotionInv, NEW w \in {"operation", "stream"}, Send(w)
  PROVE  NotionInv'
  <1>1. IsAt(w, "send") /\ UNCHANGED <<credentials, file, saving, alive, offered, granted, exchanged, again>>
    BY DEF Send, held, histories
  <1>2. /\ IsRead /\ operation \in Reads /\ alive /\ NoSwitch
        /\ w = "operation" => operation.at = "send" /\ saving["operation"] = None
        /\ w = "stream" => stream \in Reads /\ stream.at = "send" /\ operation.at # "closing" /\ saving["stream"] = None
    BY <1>1, Fetches
  <1>3. NotionTypes /\ SerialInv
    BY DEF NotionInv
  <1>4. refreshing' = refreshing
    BY DEF Send, Throws, Goes, Places
  <1>5. CASE w = "operation"
    <2>1. operation' \in Reads /\ operation'.kind = "page" /\ operation'.at \in {"sent", "close"} /\ stream' = stream
      <3>1. /\ stream' = stream
            /\ operation' = IF credentials.tokens = None THEN [operation EXCEPT !.at = "close"]
                            ELSE [operation EXCEPT !.at = "sent", !.sent = credentials.tokens]
        BY <1>2, <1>5 DEF Send, Throws, Goes, Places, OperationThrows, Fetching, IsRead
      <3>2. credentials.tokens \in Pairs \cup {None}
        BY <1>3 DEF NotionTypes, Held
      <3> QED
        BY <1>2, <3>1, <3>2 DEF Reads
    <2>2. operation' # None
      BY <2>1 DEF NotionAssumption
    <2>3. NotionTypes' /\ SerialInv' /\ NoSwitch'
      BY <1>1, <1>2, <1>3, <1>4, <1>5, <2>1, <2>2 DEF NotionTypes, Operations, SerialInv, IsRead, NoSwitch
    <2> QED
      BY <1>1, <1>2, <1>4, <2>3, ReadGoesOn
  <1>6. CASE w = "stream"
    <2>1. operation' = operation /\ (stream' = None \/ (stream' \in Reads /\ stream'.at = "sent"))
      <3>1. /\ operation' = operation
            /\ stream' = IF credentials.tokens = None THEN None
                         ELSE [stream EXCEPT !.at = "sent", !.sent = credentials.tokens]
        BY <1>6 DEF Send, Throws, Goes, Places, Fetching
      <3>2. credentials.tokens \in Pairs \cup {None}
        BY <1>3 DEF NotionTypes, Held
      <3>3. CASE credentials.tokens = None
        BY <3>1, <3>3
      <3>4. CASE credentials.tokens # None
        BY <1>2, <1>6, <3>1, <3>2, <3>4 DEF Reads
      <3> QED
        BY <3>3, <3>4
    <2>2. NotionTypes' /\ SerialInv' /\ NoSwitch'
      BY <1>1, <1>2, <1>3, <1>4, <1>6, <2>1 DEF NotionTypes, SerialInv, IsRead, NoSwitch
    <2> QED
      BY <1>1, <1>2, <1>4, <2>2, ReadGoesOn
  <1> QED
    BY <1>5, <1>6

LEMMA AcceptStep ==
  ASSUME NotionAssumption, NotionInv, NEW w \in {"operation", "stream"}, Accept(w)
  PROVE  NotionInv'
  <1>1. IsAt(w, "sent") /\ UNCHANGED <<credentials, file, alive, offered, granted, exchanged, again>>
    BY DEF Accept, held, histories
  <1>2. /\ IsRead /\ operation \in Reads /\ alive /\ NoSwitch
        /\ w = "operation" => operation.at = "sent" /\ saving["operation"] = None
        /\ w = "stream" => stream \in Reads /\ stream.at = "sent" /\ operation.at # "closing" /\ saving["stream"] = None
    BY <1>1, Fetches
  <1>3. NotionTypes /\ SerialInv
    BY DEF NotionInv
  <1>4. refreshing' = refreshing
    BY DEF Accept, Places
  <1>5. CASE w = "stream"
    <2>1. operation' = operation /\ stream' = None /\ saving' = saving
      BY <1>5 DEF Accept, Places
    <2>2. NotionTypes' /\ SerialInv' /\ NoSwitch'
      BY <1>1, <1>2, <1>3, <1>4, <1>5, <2>1 DEF NotionTypes, SerialInv, IsRead, NoSwitch
    <2> QED
      BY <1>1, <1>2, <1>4, <2>1, <2>2, ReadGoesOn
  <1>6. CASE w = "operation" /\ operation.request = 1
    <2>1. /\ operation' = [operation EXCEPT !.at = "send", !.request = 2, !.second = FALSE]
          /\ stream' = IF stream = None THEN Read("send") ELSE stream
          /\ saving' = saving
      BY <1>6 DEF Accept, Places
    <2>2. operation' \in Reads /\ operation'.kind = "page" /\ operation'.at = "send" /\ Read("send") \in Reads
          /\ Read("send").at = "send"
      BY <1>2, <2>1 DEF Reads, Read
    <2>3. operation' # None /\ Read("send") # None
      BY <2>2 DEF NotionAssumption
    <2>4. NotionTypes' /\ SerialInv' /\ NoSwitch'
      BY <1>1, <1>2, <1>3, <1>4, <1>6, <2>1, <2>2, <2>3 DEF NotionTypes, Operations, SerialInv, IsRead, NoSwitch
    <2> QED
      BY <1>1, <1>2, <1>4, <2>1, <2>4, ReadGoesOn
  <1>7. CASE w = "operation" /\ operation.request # 1
    <2>1. /\ operation' = [operation EXCEPT !.at = "close"] /\ stream' = stream
          /\ Save("operation", credentials)
      BY <1>7 DEF Accept, Places
    <2>2. operation' \in Reads /\ operation'.kind = "page" /\ operation'.at = "close" /\ operation' # None
      BY <1>2, <2>1, Goes1 DEF NotionAssumption
    <2>3. /\ saving' \in [Writers -> Saves \cup {None}] /\ saving'["operation"] # None
          /\ saving'["operation"].value = credentials
          /\ saving'["stream"] = saving["stream"] /\ saving'["renewal"] = saving["renewal"]
      <3>1. "operation" \in Writers /\ credentials \in Held
        BY <1>3 DEF Writers, NotionTypes
      <3> QED
        BY <1>3, <2>1, <3>1, Begins DEF Writers
    <2>4. NotionTypes'
      BY <1>1, <1>3, <1>4, <2>1, <2>2, <2>3 DEF NotionTypes, Operations
    <2>5. SerialInv' /\ NoSwitch'
      BY <1>1, <1>2, <1>3, <1>4, <1>7, <2>1, <2>2, <2>3 DEF SerialInv, IsRead, NoSwitch, Writers
    <2>6. refreshing' # None /\ refreshing'.at = "ask" => refreshing'.pair[1] = granted
      BY <1>4 DEF NotionInv, ValueInv, PresentedInv
    <2>7. /\ saving'["stream"] # None => Nothing(saving'["stream"].value)
          /\ \A v \in {"operation", "renewal"} : saving'[v] # None => Fits(saving'[v].value, granted)
          /\ \A v \in Writers : saving'[v] # None => saving'[v].value.pending \notin exchanged
      BY <1>2, <2>3, SavedFits DEF Writers
    <2> QED
      BY <1>1, <1>2, <2>4, <2>5, <2>6, <2>7, ReadMoves
  <1> QED
    BY <1>5, <1>6, <1>7

\* An error ends the request of the stream, or goes to the end of the read.
LEMMA Thrown ==
  ASSUME NotionAssumption, NotionTypes, NEW w \in {"operation", "stream"}, operation \in Reads,
         operation # None, Throws(w)
  PROVE  /\ refreshing' = refreshing
         /\ w = "operation" => /\ operation' \in Reads /\ operation' # None
                               /\ operation'.kind = "page" /\ operation'.at = "close" /\ stream' = stream
         /\ w = "stream" => operation' = operation /\ stream' = None
  <1>1. operation.kind = "page" /\ [operation EXCEPT !.at = "close"] \in Reads
        /\ [operation EXCEPT !.at = "close"].at = "close" /\ [operation EXCEPT !.at = "close"].kind = "page"
    BY Goes1 DEF Reads
  <1>2. CASE w = "operation"
    BY <1>1, <1>2 DEF Throws, Goes, Places, OperationThrows, NotionAssumption
  <1>3. CASE w = "stream"
    BY <1>3 DEF Throws, Goes, Places
  <1> QED
    BY <1>2, <1>3

LEMMA LostStep ==
  ASSUME NotionAssumption, NotionInv, NEW w \in {"operation", "stream"}, Lost(w)
  PROVE  NotionInv'
  <1>1. /\ IsAt(w, "sent") /\ Throws(w)
        /\ UNCHANGED <<credentials, file, saving, alive, offered, granted, exchanged, again>>
    BY DEF Lost, held, histories
  <1>2. /\ IsRead /\ operation \in Reads /\ alive /\ NoSwitch
        /\ w = "operation" => operation.at = "sent" /\ saving["operation"] = None
        /\ w = "stream" => stream \in Reads /\ stream.at = "sent" /\ operation.at # "closing" /\ saving["stream"] = None
    BY <1>1, Fetches
  <1>3. NotionTypes /\ SerialInv
    BY DEF NotionInv
  <1>4. /\ refreshing' = refreshing
        /\ w = "operation" => /\ operation' \in Reads /\ operation' # None
                              /\ operation'.kind = "page" /\ operation'.at = "close" /\ stream' = stream
        /\ w = "stream" => operation' = operation /\ stream' = None
    BY <1>1, <1>2, <1>3, Thrown DEF IsRead
  <1>5. NotionTypes' /\ SerialInv' /\ NoSwitch'
    BY <1>1, <1>2, <1>3, <1>4 DEF NotionTypes, Operations, SerialInv, IsRead, NoSwitch
  <1> QED
    BY <1>1, <1>2, <1>4, <1>5, ReadGoesOn

\* The error of the second 401, once what it saved is saved: also of a stream whose read is over.
LEMMA RejectedStep ==
  ASSUME NotionAssumption, NotionInv, NEW w \in {"operation", "stream"}, Rejected(w)
  PROVE  NotionInv'
  <1>1. /\ IsAt(w, "rejected") /\ saving[w] = None /\ Throws(w)
        /\ UNCHANGED <<credentials, file, saving, alive, offered, granted, exchanged, again>>
    BY DEF Rejected, Saved, held, histories
  <1>2. NotionTypes /\ SerialInv /\ ValueInv /\ PendingInv
    BY DEF NotionInv
  <1>3. CASE w = "operation"
    <2>1. operation # None /\ operation.at = "rejected" /\ operation \in Reads /\ operation.kind = "page"
      BY <1>1, <1>2, <1>3, Kinds DEF IsAt, Fetching
    <2>2. /\ refreshing' = refreshing /\ operation' \in Reads /\ operation' # None
          /\ operation'.kind = "page" /\ operation'.at = "close" /\ stream' = stream
      BY <1>1, <1>2, <1>3, <2>1, Thrown
    <2>3. NotionTypes' /\ SerialInv' /\ NoSwitch' /\ NoSwitch
      BY <1>1, <1>2, <1>3, <2>1, <2>2 DEF NotionTypes, Operations, SerialInv, IsRead, NoSwitch
    <2> QED
      BY <1>1, <2>2, <2>3, ReadGoesOn
  <1>4. CASE w = "stream"
    <2>1. operation' = operation /\ stream' = None /\ refreshing' = refreshing
      BY <1>1, <1>4 DEF Throws, Goes, Places
    <2>2. stream # None /\ stream.at = "rejected"
      BY <1>1, <1>4 DEF IsAt, Fetching
    <2>3. NotionTypes' /\ SerialInv'
      BY <1>1, <1>2, <1>4, <2>1 DEF NotionTypes, SerialInv, IsRead
    <2>4. HeldInv' /\ PresentedInv' /\ SavedInv' /\ PendingInv'
      BY <1>1, <1>2, <2>1
      DEF ValueInv, HeldInv, PresentedInv, SavedInv, PendingInv, Switching, Fits, Nothing
    <2> QED
      BY <2>3, <2>4 DEF NotionInv, ValueInv
  <1> QED
    BY <1>3, <1>4

\* 401: the tokens that are presented to be renewed are those in memory.
LEMMA RejectStep ==
  ASSUME NotionAssumption, NotionInv, NEW w \in {"operation", "stream"}, Reject(w)
  PROVE  NotionInv'
  <1> DEFINE again2 == [Fetching(w) EXCEPT !.second = TRUE]
  <1>1. /\ IsAt(w, "sent") /\ UNCHANGED <<credentials, file, saving, alive, offered, granted, exchanged, again>>
        /\ \/ Goes(w, [again2 EXCEPT !.at = "send"], refreshing)
           \/ Throws(w)
           \/ Goes(w, [again2 EXCEPT !.at = "renewing"], Renewal) /\ (refreshing # None \/ Usable)
    BY DEF Reject, held, histories
  <1>2. /\ IsRead /\ operation \in Reads /\ alive /\ NoSwitch
        /\ w = "operation" => operation.at = "sent" /\ saving["operation"] = None
        /\ w = "stream" => stream \in Reads /\ stream.at = "sent" /\ operation.at # "closing" /\ saving["stream"] = None
    BY <1>1, Fetches
  <1>3. NotionTypes /\ SerialInv
    BY DEF NotionInv
  <1>4. /\ [again2 EXCEPT !.at = "send"] \in Reads /\ [again2 EXCEPT !.at = "renewing"] \in Reads
        /\ [again2 EXCEPT !.at = "send"].at = "send" /\ [again2 EXCEPT !.at = "renewing"].at = "renewing"
    <2>1. Fetching(w) \in Reads
      BY <1>2 DEF Fetching
    <2>2. again2 \in Reads
      BY <2>1 DEF Reads
    <2> HIDE DEF again2
    <2> QED
      BY <2>2, Goes1
  <1>5. CASE Throws(w)
    <2>1. /\ refreshing' = refreshing
          /\ w = "operation" => /\ operation' \in Reads /\ operation' # None
                                /\ operation'.kind = "page" /\ operation'.at = "close" /\ stream' = stream
          /\ w = "stream" => operation' = operation /\ stream' = None
      BY <1>2, <1>3, <1>5, Thrown DEF IsRead
    <2>2. NotionTypes' /\ SerialInv' /\ NoSwitch'
      BY <1>1, <1>2, <1>3, <2>1 DEF NotionTypes, Operations, SerialInv, IsRead, NoSwitch
    <2> QED
      BY <1>1, <1>2, <2>1, <2>2, ReadGoesOn
  <1>6. ASSUME NEW place \in {"send", "renewing"}, NEW r \in {refreshing, Renewal},
               Goes(w, [again2 EXCEPT !.at = place], r),
               r = refreshing \/ (refreshing = None /\ Usable),
               place = "renewing" => r # None, r \in Renewals \cup {None}
        PROVE  NotionInv'
    <2>1. /\ refreshing' = r
          /\ w = "operation" => operation' = [again2 EXCEPT !.at = place] /\ stream' = stream
          /\ w = "stream" => operation' = operation /\ stream' = [again2 EXCEPT !.at = place]
      BY <1>6 DEF Goes, Places
    <2> DEFINE next == [again2 EXCEPT !.at = place]
    <2>2. next \in Reads /\ next.at = place /\ next # None /\ next.kind = "page"
      BY <1>4, <1>6 DEF Reads, NotionAssumption
    <2> HIDE DEF again2, next
    <2>3. NotionTypes'
      BY <1>1, <1>2, <1>3, <1>6, <2>1, <2>2 DEF NotionTypes, Operations, next
    <2>4. SerialInv' /\ NoSwitch'
      <3>1. CASE w = "operation"
        BY <1>1, <1>2, <1>3, <1>6, <2>1, <2>2, <3>1 DEF SerialInv, IsRead, NoSwitch, next
      <3>2. CASE w = "stream"
        BY <1>1, <1>2, <1>3, <1>6, <2>1, <2>2, <3>2 DEF SerialInv, IsRead, NoSwitch, next
      <3> QED
        BY <3>1, <3>2
    <2>5. refreshing' # None /\ refreshing'.at = "ask" => refreshing'.pair[1] = granted
      <3>1. CASE r = refreshing
        BY <2>1, <3>1 DEF NotionInv, ValueInv, PresentedInv
      <3>2. CASE refreshing = None /\ Usable
        <4>1. Fits(credentials, granted) /\ credentials.tokens # None
          BY <1>2, <3>2, SavedFits DEF Usable
        <4> QED
          BY <1>6, <2>1, <3>2, <4>1 DEF Renewal, Fits
      <3> QED
        BY <1>6, <3>1, <3>2
    <2> QED
      BY <1>1, <1>2, <2>3, <2>4, <2>5, SavedFits, ReadMoves
  <1>7. CASE Goes(w, [again2 EXCEPT !.at = "send"], refreshing)
    <2>1. refreshing \in Renewals \cup {None}
      BY <1>3 DEF NotionTypes
    <2> HIDE DEF again2
    <2> QED
      BY <1>6, <1>7, <2>1
  <1>8. CASE Goes(w, [again2 EXCEPT !.at = "renewing"], Renewal) /\ (refreshing # None \/ Usable)
    <2>1. CASE refreshing # None
      <3>1. refreshing \in Renewals /\ Renewal = refreshing
        BY <1>3, <2>1 DEF NotionTypes, Renewal
      <3> HIDE DEF again2
      <3> QED
        BY <1>6, <1>8, <2>1, <3>1
    <2>2. CASE refreshing = None
      <3>1. credentials.tokens \in Pairs
        BY <1>3, <1>8, <2>2 DEF NotionTypes, Held, Usable
      <3>2. Renewal = [at |-> "ask", pair |-> credentials.tokens]
        BY <2>2 DEF Renewal
      <3>3. Renewal \in [at : {"ask"}, pair : Pairs]
        BY <3>1, <3>2
      <3>4. Renewal \in Renewals /\ Renewal # None
        BY <3>3 DEF Renewals, NotionAssumption
      <3> HIDE DEF again2
      <3> QED
        BY <1>6, <1>8, <2>2, <3>4
    <2> QED
      BY <2>1, <2>2
  <1> QED
    BY <1>1, <1>5, <1>7, <1>8

\* What a refusal saves holds nothing.
LEMMA Refusal ==
  ASSUME NotionTypes
  PROVE  LET refusal == [credentials EXCEPT !.tokens = None, !.pending = None, !.reconnect = TRUE] IN
         refusal \in Held /\ Nothing(refusal) /\ \A g : Fits(refusal, g)
  BY DEF NotionTypes, Held, Nothing, Fits

LEMMA RejectAgainStep ==
  ASSUME NotionAssumption, NotionInv, NEW w \in {"operation", "stream"}, RejectAgain(w)
  PROVE  NotionInv'
  <1> DEFINE refusal == [credentials EXCEPT !.tokens = None, !.pending = None, !.reconnect = TRUE]
             next == [Fetching(w) EXCEPT !.at = "rejected"]
  <1>1. /\ IsAt(w, "sent") /\ Save(w, refusal) /\ Goes(w, next, refreshing)
        /\ UNCHANGED <<credentials, file, alive, offered, granted, exchanged, again>>
    BY DEF RejectAgain, held, histories
  <1>2. /\ IsRead /\ operation \in Reads /\ alive /\ NoSwitch
        /\ w = "operation" => operation.at = "sent" /\ saving["operation"] = None
        /\ w = "stream" => stream \in Reads /\ stream.at = "sent" /\ operation.at # "closing" /\ saving["stream"] = None
    BY <1>1, Fetches
  <1>3. NotionTypes /\ SerialInv
    BY DEF NotionInv
  <1>4. next \in Reads /\ next # None /\ next.at = "rejected" /\ next.kind = "page"
    <2>1. Fetching(w) \in Reads
      BY <1>2 DEF Fetching
    <2>2. next \in Reads /\ next.at = "rejected"
      BY <2>1, Goes1
    <2> HIDE DEF next
    <2> QED
      BY <2>2 DEF Reads, NotionAssumption
  <1>5. /\ refreshing' = refreshing
        /\ w = "operation" => operation' = next /\ stream' = stream
        /\ w = "stream" => operation' = operation /\ stream' = next
    BY <1>1 DEF Goes, Places
  <1>6. refusal \in Held /\ Nothing(refusal) /\ Fits(refusal, granted)
    BY <1>3, Refusal
  <1>7. refusal.pending \notin exchanged
    BY <1>3, <1>6 DEF Nothing, NotionTypes, NotionAssumption
  <1> HIDE DEF refusal, next
  <1>8. /\ saving' \in [Writers -> Saves \cup {None}] /\ saving'[w] # None /\ saving'[w].value = refusal
        /\ \A other \in Writers \ {w} : saving'[other] = saving[other]
    <2>1. w \in Writers
      BY DEF Writers
    <2> QED
      BY <1>1, <1>3, <1>6, <2>1, Begins
  <1>9. NotionTypes'
    BY <1>1, <1>2, <1>3, <1>4, <1>5, <1>8 DEF NotionTypes, Operations
  <1>10. SerialInv' /\ NoSwitch'
    <2>1. CASE w = "operation"
      BY <1>1, <1>2, <1>3, <1>4, <1>5, <1>8, <2>1 DEF SerialInv, IsRead, NoSwitch, Writers
    <2>2. CASE w = "stream"
      BY <1>1, <1>2, <1>3, <1>4, <1>5, <1>8, <2>2 DEF SerialInv, IsRead, NoSwitch, Writers
    <2> QED
      BY <2>1, <2>2
  <1>11. refreshing' # None /\ refreshing'.at = "ask" => refreshing'.pair[1] = granted
    BY <1>5 DEF NotionInv, ValueInv, PresentedInv
  <1>12. /\ saving'["stream"] # None => Nothing(saving'["stream"].value)
         /\ \A v \in {"operation", "renewal"} : saving'[v] # None => Fits(saving'[v].value, granted)
         /\ \A v \in Writers : saving'[v] # None => saving'[v].value.pending \notin exchanged
    <2>1. \A v \in Writers : v = w \/ saving'[v] = saving[v]
      BY <1>8
    <2>2. {"operation", "renewal"} \subseteq Writers /\ "stream" \in Writers
      BY DEF Writers
    <2> QED
      BY <1>2, <1>6, <1>7, <1>8, <2>1, <2>2, SavedFits
  <1> QED
    BY <1>1, <1>2, <1>9, <1>10, <1>11, <1>12, ReadMoves

LEMMA CloseStep ==
  ASSUME NotionAssumption, NotionInv, Close
  PROVE  NotionInv'
  <1>1. /\ operation # None /\ operation.at = "close" /\ saving["operation"] = None
        /\ operation' = [operation EXCEPT !.at = "closing"]
        /\ stream' = IF stream # None /\ stream.at \in {"send", "sent"} THEN None ELSE stream
        /\ refreshing' = refreshing
        /\ UNCHANGED <<credentials, file, saving, alive, offered, granted, exchanged, again>>
    BY DEF Close, Saved, Places, held, histories
  <1>2. NotionTypes /\ SerialInv
    BY DEF NotionInv
  <1>3. operation \in Reads /\ operation.kind = "page"
    BY <1>1, <1>2, Kinds
  <1>4. operation' \in Reads /\ operation' # None /\ operation'.at = "closing" /\ operation'.kind = "page"
    BY <1>1, <1>3, Goes1 DEF NotionAssumption
  <1>5. NotionTypes' /\ SerialInv' /\ NoSwitch /\ NoSwitch'
    BY <1>1, <1>2, <1>3, <1>4 DEF NotionTypes, Operations, SerialInv, IsRead, NoSwitch
  <1> QED
    BY <1>1, <1>5, ReadGoesOn

LEMMA ClosedStep ==
  ASSUME NotionAssumption, NotionInv, Closed
  PROVE  NotionInv'
  <1>1. /\ operation # None /\ operation.at = "closing" /\ refreshing = None
        /\ operation' = None /\ stream' = stream /\ refreshing' = None
        /\ UNCHANGED <<credentials, file, saving, alive, offered, granted, exchanged, again>>
    BY DEF Closed, Places, held, histories
  <1>2. NotionTypes /\ SerialInv
    BY DEF NotionInv
  <1>3. operation \in Reads /\ operation.kind = "page" /\ saving["operation"] = None
    BY <1>1, <1>2, Kinds DEF SerialInv
  <1>4. stream # None => stream.at = "rejected"
    BY <1>1, <1>2 DEF SerialInv
  <1>5. NotionTypes' /\ SerialInv' /\ NoSwitch /\ NoSwitch'
    BY <1>1, <1>2, <1>3, <1>4 DEF NotionTypes, SerialInv, IsRead, NoSwitch
  <1> QED
    BY <1>1, <1>5, ReadGoesOn

-----------------------------------------------------------------------------
(* Renewals.                                                               *)

\* What is needed of a renewal that ends, whether or not its save was there.
LEMMA RenewalIsOver ==
  ASSUME NotionAssumption, NotionInv, refreshing # None, NEW ok \in BOOLEAN, RenewalEnds(ok),
         UNCHANGED <<credentials, file, alive, offered, granted, exchanged>>, again' \subseteq Pairs,
         saving' = [saving EXCEPT !["renewal"] = None]
  PROVE  NotionInv'
  <1>1. NotionTypes /\ SerialInv /\ NoSwitch /\ alive
    BY DEF NotionInv, NoSwitch, SerialInv, IsRead
  <1>2. /\ refreshing' = None /\ operation \in Reads /\ operation # None
        /\ operation' \in Reads /\ operation' # None /\ operation'.kind = "page"
        /\ IF operation.at = "renewing" THEN operation'.at \in {"send", "close"} ELSE operation' = operation
        /\ stream' \in Reads \cup {None}
        /\ IF stream # None /\ stream.at = "renewing"
           THEN stream' = None \/ (stream'.at = "send" /\ operation.at # "closing") ELSE stream' = stream
    BY <1>1, Ends
  <1>3. /\ saving' \in [Writers -> Saves \cup {None}] /\ saving'["renewal"] = None
        /\ saving'["operation"] = saving["operation"] /\ saving'["stream"] = saving["stream"]
    BY <1>1, Over DEF Writers
  <1>4. NotionTypes'
    BY <1>1, <1>2, <1>3 DEF NotionTypes, Operations
  <1>5. SerialInv' /\ NoSwitch'
    <2>1. CASE stream # None /\ stream.at = "renewing"
      <3>1. saving["stream"] = None
        BY <1>1, <2>1 DEF SerialInv
      <3>2. operation'.at = "closing" => operation.at = "closing"
        BY <1>2
      <3> QED
        BY <1>1, <1>2, <1>3, <2>1, <3>1, <3>2 DEF SerialInv, IsRead, NoSwitch, Writers
    <2>2. CASE ~(stream # None /\ stream.at = "renewing")
      BY <1>1, <1>2, <1>3, <2>2 DEF SerialInv, IsRead, NoSwitch, Writers
    <2> QED
      BY <2>1, <2>2
  <1>6. /\ saving'["stream"] # None => Nothing(saving'["stream"].value)
        /\ \A v \in {"operation", "renewal"} : saving'[v] # None => Fits(saving'[v].value, granted)
        /\ \A v \in Writers : saving'[v] # None => saving'[v].value.pending \notin exchanged
    BY <1>1, <1>3, SavedFits DEF Writers
  <1> QED
    BY <1>1, <1>2, <1>4, <1>5, <1>6, ReadMoves

\* The renewal has been answered, and what it saves of that is on its way.
LEMMA RenewalSaves ==
  ASSUME NotionAssumption, NotionInv, refreshing # None, NEW place \in {"renewed", "refused"},
         NEW value \in Held, Fits(value, granted), value.pending \notin exchanged,
         Save("renewal", value), Places(operation, stream, [at |-> place]),
         UNCHANGED <<credentials, file, alive, offered, granted, exchanged>>, again' \subseteq Pairs
  PROVE  NotionInv'
  <1>1. NotionTypes /\ SerialInv /\ NoSwitch /\ alive
    BY DEF NotionInv, NoSwitch, SerialInv, IsRead
  <1>2. operation' = operation /\ stream' = stream /\ refreshing' = [at |-> place]
    BY DEF Places
  <1>3. refreshing' \in Renewals /\ refreshing' # None /\ refreshing'.at = place
    BY <1>2 DEF Renewals, NotionAssumption
  <1>4. /\ saving' \in [Writers -> Saves \cup {None}] /\ saving'["renewal"].value = value
        /\ saving'["operation"] = saving["operation"] /\ saving'["stream"] = saving["stream"]
    BY <1>1, Begins DEF Writers
  <1>5. NotionTypes'
    BY <1>1, <1>2, <1>3, <1>4 DEF NotionTypes
  <1>6. SerialInv' /\ NoSwitch'
    BY <1>1, <1>2, <1>3, <1>4 DEF SerialInv, IsRead, NoSwitch, Writers
  <1>7. /\ saving'["stream"] # None => Nothing(saving'["stream"].value)
        /\ \A v \in {"operation", "renewal"} : saving'[v] # None => Fits(saving'[v].value, granted)
        /\ \A v \in Writers : saving'[v] # None => saving'[v].value.pending \notin exchanged
    BY <1>1, <1>4, SavedFits DEF Writers
  <1> QED
    BY <1>1, <1>3, <1>5, <1>6, <1>7, ReadMoves

LEMMA AskStep ==
  ASSUME NotionAssumption, NotionInv, Ask
  PROVE  NotionInv'
  <1> DEFINE pair == refreshing.pair
             next == <<pair[1], pair[2] + 1>>
             renewed == [credentials EXCEPT !.tokens = next, !.reconnect = FALSE]
             refusal == [credentials EXCEPT !.tokens = None, !.pending = None, !.reconnect = TRUE]
  <1>1. /\ refreshing # None /\ refreshing.at = "ask"
        /\ again' = again \/ again' = again \cup {pair}
        /\ \/ Save("renewal", renewed) /\ Places(operation, stream, [at |-> "renewed"])
           \/ Save("renewal", refusal) /\ Places(operation, stream, [at |-> "refused"])
           \/ RenewalEnds(FALSE) /\ saving' = saving
        /\ UNCHANGED <<credentials, file, alive, offered, granted, exchanged>>
    BY DEF Ask, held
  <1>2. NotionTypes /\ SerialInv /\ NoSwitch
    BY <1>1 DEF NotionInv, NoSwitch, SerialInv, IsRead
  <1>3. pair \in Pairs /\ pair[1] = granted
    <2>1. refreshing \in [at : {"ask"}, pair : Pairs]
      BY <1>1, <1>2 DEF NotionTypes, Renewals
    <2> QED
      BY <1>1, <2>1 DEF NotionInv, ValueInv, PresentedInv
  <1>4. again' \subseteq Pairs
    BY <1>1, <1>2, <1>3 DEF NotionTypes
  <1>5. next \in Pairs /\ next[1] = granted
    BY <1>3 DEF Pairs
  <1> HIDE DEF pair, next
  <1>6. CASE RenewalEnds(FALSE) /\ saving' = saving
    <2>1. saving["renewal"] = None
      BY <1>1, <1>2 DEF SerialInv
    <2>2. saving' = [saving EXCEPT !["renewal"] = None]
      BY <1>2, <1>6, <2>1 DEF NotionTypes, Writers
    <2> QED
      BY <1>1, <1>4, <1>6, <2>2, RenewalIsOver
  <1>7. CASE Save("renewal", renewed) /\ Places(operation, stream, [at |-> "renewed"])
    <2>1. renewed \in Held /\ renewed.tokens = next /\ renewed.pending = credentials.pending
      BY <1>2, <1>5 DEF NotionTypes, Held
    <2>2. Fits(renewed, granted) /\ renewed.pending \notin exchanged
      BY <1>2, <1>5, <2>1, SavedFits DEF Fits
    <2> HIDE DEF renewed
    <2> QED
      BY <1>1, <1>4, <1>7, <2>1, <2>2, RenewalSaves
  <1>8. CASE Save("renewal", refusal) /\ Places(operation, stream, [at |-> "refused"])
    <2>1. refusal \in Held /\ Nothing(refusal) /\ Fits(refusal, granted)
      BY <1>2, Refusal
    <2>2. refusal.pending \notin exchanged
      BY <1>2, <2>1 DEF Nothing, NotionTypes, NotionAssumption
    <2> HIDE DEF refusal
    <2> QED
      BY <1>1, <1>4, <1>8, <2>1, <2>2, RenewalSaves
  <1> QED
    BY <1>1, <1>6, <1>7, <1>8

LEMMA RenewedStep ==
  ASSUME NotionAssumption, NotionInv, Renewed
  PROVE  NotionInv'
  <1> DEFINE ok == refreshing.at = "renewed"
  <1>1. /\ refreshing # None /\ saving["renewal"] = None /\ RenewalEnds(ok)
        /\ UNCHANGED <<credentials, file, saving, alive, offered, granted, exchanged, again>>
    BY DEF Renewed, Saved, held, histories
  <1>2. ok \in BOOLEAN /\ again' \subseteq Pairs
    BY <1>1 DEF NotionInv, NotionTypes
  <1>3. saving' = [saving EXCEPT !["renewal"] = None]
    BY <1>1 DEF NotionInv, NotionTypes, Writers
  <1> HIDE DEF ok
  <1> QED
    BY <1>1, <1>2, <1>3, RenewalIsOver

-----------------------------------------------------------------------------
(* Saves that fail, connects, callbacks and disconnects.                   *)

LEMMA SaveFailsStep ==
  ASSUME NotionAssumption, NotionInv, NEW w \in Writers, SaveFails(w)
  PROVE  NotionInv'
  <1>1. /\ saving[w] # None /\ ~saving[w].renamed /\ saving' = [saving EXCEPT ![w] = None]
        /\ w = "operation" => Places(OperationThrows, stream, refreshing)
        /\ w = "stream" => Places(operation, None, refreshing)
        /\ w = "renewal" => RenewalEnds(FALSE)
        /\ UNCHANGED <<credentials, file, alive, offered, granted, exchanged, again>>
    BY DEF SaveFails, held, histories
  <1>2. NotionTypes /\ SerialInv /\ ValueInv /\ PendingInv
    BY DEF NotionInv
  <1>3. /\ saving' \in [Writers -> Saves \cup {None}] /\ saving'[w] = None
        /\ \A other \in Writers \ {w} : saving'[other] = saving[other]
    BY <1>1, <1>2, Over
  <1>4. CASE w = "renewal"
    <2>1. refreshing # None /\ again' \subseteq Pairs
      BY <1>1, <1>2, <1>4 DEF SerialInv, NotionTypes
    <2> QED
      BY <1>1, <1>4, <2>1, RenewalIsOver
  <1>5. CASE w = "stream"
    <2>1. operation' = operation /\ stream' = None /\ refreshing' = refreshing
      BY <1>1, <1>5 DEF Places
    <2>2. saving'["operation"] = saving["operation"] /\ saving'["renewal"] = saving["renewal"] /\ saving'["stream"] = None
      BY <1>3, <1>5 DEF Writers
    <2>3. NotionTypes' /\ SerialInv'
      BY <1>1, <1>2, <1>3, <2>1, <2>2 DEF NotionTypes, SerialInv, IsRead, Writers
    <2>4. HeldInv' /\ PresentedInv' /\ SavedInv'
      BY <1>1, <1>2, <2>1, <2>2 DEF ValueInv, HeldInv, PresentedInv, SavedInv, Switching
    <2>5. PendingInv'
      BY <1>1, <1>2, <2>1, <2>2 DEF PendingInv, Writers
    <2> QED
      BY <2>3, <2>4, <2>5 DEF NotionInv, ValueInv
  <1>6. CASE w = "operation"
    <2>1. operation' = OperationThrows /\ stream' = stream /\ refreshing' = refreshing
      BY <1>1, <1>6 DEF Places
    <2>2. saving'["operation"] = None /\ saving'["renewal"] = saving["renewal"] /\ saving'["stream"] = saving["stream"]
      BY <1>3, <1>6 DEF Writers
    <2>3. operation # None /\ operation.at \in {"save", "exchange", "rejected", "close"}
      BY <1>1, <1>2, <1>6 DEF SerialInv
    <2>4. CASE operation.kind = "page"
      <3>1. operation \in Reads /\ operation' = [operation EXCEPT !.at = "close"]
        BY <1>2, <2>1, <2>3, <2>4, Kinds DEF OperationThrows
      <3>2. operation' \in Reads /\ operation'.at = "close" /\ operation'.kind = "page" /\ operation' # None
        BY <3>1, Goes1 DEF NotionAssumption
      <3>3. NotionTypes' /\ SerialInv' /\ NoSwitch' /\ NoSwitch
        BY <1>1, <1>2, <1>3, <2>1, <2>2, <2>3, <2>4, <3>2
        DEF NotionTypes, Operations, SerialInv, IsRead, NoSwitch, Writers
      <3>4. refreshing' # None /\ refreshing'.at = "ask" => refreshing'.pair[1] = granted
        BY <1>2, <2>1 DEF ValueInv, PresentedInv
      <3>5. /\ saving'["stream"] # None => Nothing(saving'["stream"].value)
            /\ \A v \in {"operation", "renewal"} : saving'[v] # None => Fits(saving'[v].value, granted)
            /\ \A v \in Writers : saving'[v] # None => saving'[v].value.pending \notin exchanged
        BY <2>2, <3>3, SavedFits DEF Writers
      <3> QED
        BY <1>1, <3>3, <3>4, <3>5, ReadMoves
    <2>5. CASE operation.kind # "page"
      <3>1. operation' = None /\ refreshing = None /\ saving["renewal"] = None
        BY <1>2, <2>1, <2>5 DEF OperationThrows, SerialInv, IsRead
      <3>2. stream # None => stream.at = "rejected"
        BY <1>2, <2>5 DEF SerialInv, IsRead
      <3>3. NotionTypes' /\ SerialInv'
        BY <1>1, <1>2, <1>3, <2>1, <2>2, <2>3, <3>1, <3>2 DEF NotionTypes, SerialInv, IsRead, Writers
      <3>4. ~Switching
        BY <1>1, <1>6 DEF Switching
      <3>5. HeldInv' /\ PresentedInv' /\ SavedInv'
        BY <1>1, <1>2, <2>1, <2>2, <3>1, <3>4 DEF ValueInv, HeldInv, PresentedInv, SavedInv
      <3>6. PendingInv'
        BY <1>1, <1>2, <2>2, <3>1 DEF PendingInv, Writers
      <3> QED
        BY <3>3, <3>5, <3>6 DEF NotionInv, ValueInv
    <2> QED
      BY <2>4, <2>5
  <1> QED
    BY <1>4, <1>5, <1>6 DEF Writers

\* An operation that begins while none runs: only the stream of a read may still save.
LEMMA BeginsAlone ==
  ASSUME NotionInv, Idle
  PROVE  /\ alive /\ operation = None /\ refreshing = None
         /\ saving["operation"] = None /\ saving["renewal"] = None
         /\ stream # None => stream.at = "rejected"
         /\ Fits(credentials, granted) /\ Fits(file, granted)
         /\ saving["stream"] # None => Nothing(saving["stream"].value)
  <1>1. alive /\ operation = None /\ NoSwitch
    BY DEF Idle, NoSwitch
  <1> QED
    BY <1>1, SavedFits DEF NotionInv, SerialInv, IsRead

\* Then it saves.
LEMMA SavesAlone ==
  ASSUME NotionAssumption, NotionInv, Idle, NEW o \in Operations, o.at \in {"save", "exchange"},
         o # None, o.kind # "page", NEW value \in Held,
         Save("operation", value), Places(o, stream, refreshing),
         UNCHANGED <<credentials, file, alive, granted, exchanged, again>>,
         offered' \in Nat, offered <= offered'
  PROVE  /\ NotionTypes' /\ SerialInv' /\ HeldInv'
         /\ operation' = o /\ refreshing' = None
         /\ saving'["operation"] # None /\ saving'["operation"].value = value
         /\ saving'["operation"].renamed = FALSE /\ saving'["stream"] = saving["stream"]
         /\ saving'["renewal"] = None
  <1>1. /\ alive /\ operation = None /\ refreshing = None
        /\ saving["operation"] = None /\ saving["renewal"] = None
        /\ stream # None => stream.at = "rejected"
        /\ Fits(credentials, granted) /\ Fits(file, granted)
    BY BeginsAlone
  <1>2. NotionTypes /\ SerialInv
    BY DEF NotionInv
  <1>3. operation' = o /\ stream' = stream /\ refreshing' = refreshing
    BY DEF Places
  <1>4. /\ saving' \in [Writers -> Saves \cup {None}]
        /\ saving'["operation"] # None /\ saving'["operation"].value = value
        /\ saving'["operation"].renamed = FALSE /\ saving'["stream"] = saving["stream"]
        /\ saving'["renewal"] = saving["renewal"]
    BY <1>2, Begins DEF Writers
  <1>5. exchanged' \subseteq 1..offered'
    BY <1>2 DEF NotionTypes
  <1>6. NotionTypes'
    BY <1>2, <1>3, <1>4, <1>5 DEF NotionTypes
  <1>7. SerialInv'
    BY <1>1, <1>2, <1>3, <1>4 DEF SerialInv, IsRead, Writers
  <1>8. HeldInv'
    BY <1>1 DEF HeldInv
  <1> QED
    BY <1>1, <1>3, <1>4, <1>6, <1>7, <1>8

LEMMA ConnectStep ==
  ASSUME NotionAssumption, NotionInv, Connect
  PROVE  NotionInv'
  <1> DEFINE value == [tokens |-> None, pending |-> offered + 1, reconnect |-> FALSE]
             o == [kind |-> "connect", at |-> "save"]
  <1>1. /\ Idle /\ offered' = offered + 1 /\ Save("operation", value) /\ Places(o, stream, refreshing)
        /\ UNCHANGED <<credentials, file, alive, granted, exchanged, again>>
    BY DEF Connect, held
  <1>2. NotionTypes /\ SerialInv /\ ValueInv /\ PendingInv
    BY DEF NotionInv
  <1>3. offered \in Nat /\ offered' \in Nat /\ offered <= offered' /\ offered' \notin exchanged
    BY <1>1, <1>2 DEF NotionTypes
  <1>4. value \in Held /\ value.tokens = None /\ value.pending = offered'
    BY <1>1, <1>3 DEF Held
  <1>5. o \in Operations /\ o.at = "save" /\ o.kind = "connect" /\ o # None
    <2>1. o \in Switches
      BY DEF Switches
    <2> QED
      BY <2>1 DEF Operations, NotionAssumption
  <1> HIDE DEF value, o
  <1>6. /\ NotionTypes' /\ SerialInv' /\ HeldInv'
        /\ operation' = o /\ refreshing' = None
        /\ saving'["operation"] # None /\ saving'["operation"].value = value
        /\ saving'["operation"].renamed = FALSE /\ saving'["stream"] = saving["stream"]
        /\ saving'["renewal"] = None
    BY <1>1, <1>3, <1>4, <1>5, SavesAlone
  <1>7. PresentedInv' /\ SavedInv'
    BY <1>1, <1>2, <1>4, <1>5, <1>6 DEF ValueInv, PresentedInv, SavedInv
  <1>8. PendingInv'
    BY <1>1, <1>2, <1>3, <1>4, <1>5, <1>6 DEF PendingInv, Writers
  <1> QED
    BY <1>6, <1>7, <1>8 DEF NotionInv, ValueInv

LEMMA DisconnectStep ==
  ASSUME NotionAssumption, NotionInv, Disconnect
  PROVE  NotionInv'
  <1> DEFINE o == [kind |-> "disconnect", at |-> "save"]
  <1>1. /\ Idle /\ Save("operation", Empty) /\ Places(o, stream, refreshing)
        /\ UNCHANGED <<credentials, file, alive, offered, granted, exchanged, again>>
    BY DEF Disconnect, held, histories
  <1>2. NotionTypes /\ SerialInv /\ ValueInv /\ PendingInv
    BY DEF NotionInv
  <1>3. offered' \in Nat /\ offered <= offered' /\ None \notin exchanged
    <2>1. offered \in Nat /\ exchanged \subseteq Nat
      BY <1>2 DEF NotionTypes
    <2>2. offered' = offered
      BY <1>1
    <2>3. None \notin exchanged
      BY <2>1 DEF NotionAssumption
    <2> QED
      BY <2>1, <2>2, <2>3
  <1>4. Empty \in Held /\ Empty.tokens = None /\ Empty.pending = None
    BY DEF Held, Empty
  <1>5. o \in Operations /\ o.at = "save" /\ o.kind = "disconnect" /\ o # None
    <2>1. o \in Switches
      BY DEF Switches
    <2> QED
      BY <2>1 DEF Operations, NotionAssumption
  <1> HIDE DEF o
  <1>6. /\ NotionTypes' /\ SerialInv' /\ HeldInv'
        /\ operation' = o /\ refreshing' = None
        /\ saving'["operation"] # None /\ saving'["operation"].value = Empty
        /\ saving'["operation"].renamed = FALSE /\ saving'["stream"] = saving["stream"]
        /\ saving'["renewal"] = None
    BY <1>1, <1>3, <1>4, <1>5, SavesAlone
  <1>7. PresentedInv' /\ SavedInv'
    BY <1>1, <1>2, <1>4, <1>5, <1>6 DEF ValueInv, PresentedInv, SavedInv, Nothing
  <1>8. PendingInv'
    BY <1>1, <1>2, <1>3, <1>4, <1>5, <1>6 DEF PendingInv, Writers
  <1> QED
    BY <1>6, <1>7, <1>8 DEF NotionInv, ValueInv

LEMMA CallbackStep ==
  ASSUME NotionAssumption, NotionInv, NEW g \in 1..offered, Callback(g)
  PROVE  NotionInv'
  <1> DEFINE value == [credentials EXCEPT !.pending = None]
             o == [kind |-> "callback", at |-> "exchange", grant |-> g]
  <1>1. /\ Idle /\ credentials.pending = g /\ Save("operation", value) /\ Places(o, stream, refreshing)
        /\ UNCHANGED <<credentials, file, alive, offered, granted, exchanged, again>>
    BY DEF Callback, held, histories
  <1>2. NotionTypes /\ SerialInv /\ ValueInv /\ PendingInv
    BY DEF NotionInv
  <1>3. offered' \in Nat /\ offered <= offered' /\ None \notin exchanged /\ g \in Nat /\ g # None
    BY <1>1, <1>2 DEF NotionTypes, NotionAssumption
  <1>4. Fits(credentials, granted)
    BY <1>1, BeginsAlone
  <1>5. value \in Held /\ value.pending = None /\ Fits(value, granted) /\ g = granted /\ g \notin exchanged
    BY <1>1, <1>2, <1>3, <1>4 DEF NotionTypes, Held, Fits, PendingInv
  <1>6. o \in Operations /\ o.at = "exchange" /\ o.kind = "callback" /\ o.grant = g /\ o # None
    <2>1. o \in Callbacks
      BY <1>3 DEF Callbacks
    <2> QED
      BY <2>1 DEF Operations, NotionAssumption
  <1> HIDE DEF value, o
  <1>7. /\ NotionTypes' /\ SerialInv' /\ HeldInv'
        /\ operation' = o /\ refreshing' = None
        /\ saving'["operation"] # None /\ saving'["operation"].value = value
        /\ saving'["operation"].renamed = FALSE /\ saving'["stream"] = saving["stream"]
        /\ saving'["renewal"] = None
    BY <1>1, <1>3, <1>5, <1>6, SavesAlone
  <1>8. PresentedInv' /\ SavedInv'
    BY <1>1, <1>2, <1>5, <1>6, <1>7 DEF ValueInv, PresentedInv, SavedInv
  <1>9. PendingInv'
    BY <1>1, <1>2, <1>3, <1>5, <1>6, <1>7 DEF PendingInv, Writers
  <1> QED
    BY <1>7, <1>8, <1>9 DEF NotionInv, ValueInv

\* The callback: Notion answers, the answer is lost, or it refuses.
LEMMA ExchangeStep ==
  ASSUME NotionAssumption, NotionInv, Exchange
  PROVE  NotionInv'
  <1> DEFINE g == operation.grant
             tokens == <<g, 1>>
             renewed == [credentials EXCEPT !.tokens = tokens, !.reconnect = FALSE]
             refusal == [tokens |-> None, pending |-> None, reconnect |-> TRUE]
             o == [operation EXCEPT !.at = "save"]
  <1>1. /\ operation # None /\ operation.at = "exchange" /\ saving["operation"] = None
        /\ again' = IF g \in exchanged THEN again \cup {<<g, 0>>} ELSE again
        /\ exchanged' = exchanged \cup {g}
        /\ \/ Save("operation", renewed) /\ Places(o, stream, refreshing)
           \/ Save("operation", refusal) /\ Places(o, stream, refreshing)
           \/ Places(None, stream, refreshing) /\ saving' = saving
        /\ UNCHANGED <<credentials, file, alive, offered, granted>>
    BY DEF Exchange, Saved, held
  <1>2. NotionTypes /\ SerialInv /\ ValueInv /\ PendingInv
    BY DEF NotionInv
  <1>3. operation \in Callbacks /\ operation.kind = "callback" /\ g \in Nat /\ g = granted
    BY <1>1, <1>2, Kinds DEF ValueInv, PresentedInv
  <1>4. /\ g \notin exchanged /\ g \in 1..offered /\ again' = again
        /\ credentials.pending = None /\ file.pending = None
    BY <1>1, <1>2 DEF PendingInv
  <1>5. /\ refreshing = None /\ saving["renewal"] = None
        /\ stream # None => stream.at = "rejected"
        /\ saving["stream"] # None => Nothing(saving["stream"].value)
        /\ Fits(credentials, granted) /\ Fits(file, granted)
    <2>1. ~Switching /\ ~IsRead
      BY <1>3 DEF Switching, IsRead
    <2> QED
      BY <1>2, <2>1 DEF SerialInv, ValueInv, HeldInv, SavedInv
  <1>6. exchanged' \subseteq 1..offered /\ None \notin exchanged'
    <2>1. exchanged' \subseteq 1..offered
      BY <1>1, <1>2, <1>4 DEF NotionTypes
    <2>2. exchanged' \subseteq Nat
      BY <1>2, <2>1 DEF NotionTypes
    <2> QED
      BY <2>1, <2>2 DEF NotionAssumption
  <1>7. HeldInv'
    BY <1>1, <1>5 DEF HeldInv
  <1>8. CASE Places(None, stream, refreshing) /\ saving' = saving
    <2>1. operation' = None /\ stream' = stream /\ refreshing' = None /\ saving' = saving
      BY <1>5, <1>8 DEF Places
    <2>2. NotionTypes'
      BY <1>1, <1>2, <1>4, <1>6, <2>1 DEF NotionTypes
    <2>3. SerialInv'
      BY <1>1, <1>2, <1>5, <2>1 DEF SerialInv
    <2>4. PresentedInv' /\ SavedInv'
      BY <1>1, <1>5, <2>1 DEF PresentedInv, SavedInv
    <2>5. PendingInv'
      BY <1>1, <1>4, <1>5, <1>6, <2>1 DEF PendingInv, Nothing, Writers
    <2> QED
      BY <1>7, <2>2, <2>3, <2>4, <2>5 DEF NotionInv, ValueInv
  <1>9. ASSUME NEW value \in Held, value.pending = None, Fits(value, granted),
               Save("operation", value), Places(o, stream, refreshing)
        PROVE  NotionInv'
    <2>1. operation' = o /\ stream' = stream /\ refreshing' = None
      BY <1>5, <1>9 DEF Places
    <2>2. o \in Callbacks /\ o.kind = "callback" /\ o.at = "save" /\ o.grant = g
      BY <1>3 DEF Callbacks
    <2>3. o # None
      BY <2>2 DEF NotionAssumption
    <2> HIDE DEF o
    <2>4. /\ saving' \in [Writers -> Saves \cup {None}]
          /\ saving'["operation"] # None /\ saving'["operation"].value = value
          /\ saving'["stream"] = saving["stream"] /\ saving'["renewal"] = None
      BY <1>2, <1>5, <1>9, Begins DEF Writers
    <2>5. NotionTypes'
      BY <1>1, <1>2, <1>4, <1>6, <2>1, <2>2, <2>4 DEF NotionTypes, Operations
    <2>6. SerialInv'
      BY <1>1, <1>2, <1>5, <2>1, <2>2, <2>3, <2>4 DEF SerialInv, Writers
    <2>7. PresentedInv' /\ SavedInv'
      BY <1>1, <1>3, <1>5, <1>9, <2>1, <2>2, <2>4 DEF PresentedInv, SavedInv
    <2>8. PendingInv'
      BY <1>1, <1>4, <1>5, <1>6, <1>9, <2>1, <2>2, <2>4 DEF PendingInv, Nothing, Writers
    <2> QED
      BY <1>7, <2>5, <2>6, <2>7, <2>8 DEF NotionInv, ValueInv
  <1>10. CASE Save("operation", renewed) /\ Places(o, stream, refreshing)
    <2>1. tokens \in Pairs /\ tokens[1] = granted
      BY <1>3 DEF Pairs
    <2> HIDE DEF tokens
    <2>2. renewed \in Held /\ renewed.pending = None /\ renewed.tokens = tokens
      BY <1>2, <1>4, <2>1 DEF NotionTypes, Held
    <2>3. Fits(renewed, granted)
      BY <2>1, <2>2 DEF Fits
    <2> HIDE DEF renewed
    <2> QED
      BY <1>9, <1>10, <2>2, <2>3
  <1>11. CASE Save("operation", refusal) /\ Places(o, stream, refreshing)
    <2>1. refusal \in Held /\ refusal.pending = None /\ Fits(refusal, granted)
      BY DEF Held, Fits
    <2> HIDE DEF refusal
    <2> QED
      BY <1>9, <1>11, <2>1
  <1> QED
    BY <1>1, <1>8, <1>10, <1>11

\* The answer to the browser, once what the operation saved is saved.
LEMMA AnsweredStep ==
  ASSUME NotionAssumption, NotionInv, Answered
  PROVE  NotionInv'
  <1>1. /\ operation # None /\ operation.at = "save" /\ saving["operation"] = None
        /\ operation' = None /\ stream' = stream /\ refreshing' = refreshing
        /\ UNCHANGED <<credentials, file, saving, alive, offered, granted, exchanged, again>>
    BY DEF Answered, Saved, Places, held, histories
  <1>2. NotionTypes /\ SerialInv /\ ValueInv /\ PendingInv
    BY DEF NotionInv
  <1>3. ~IsRead
    BY <1>1, <1>2, Kinds DEF IsRead
  <1>4. /\ refreshing = None /\ saving["renewal"] = None
        /\ stream # None => stream.at = "rejected"
    BY <1>2, <1>3 DEF SerialInv
  <1>5. NotionTypes' /\ SerialInv'
    BY <1>1, <1>2, <1>4 DEF NotionTypes, SerialInv
  <1>6. ~Switching
    BY <1>1 DEF Switching
  <1>7. HeldInv' /\ PresentedInv' /\ SavedInv'
    BY <1>1, <1>2, <1>4, <1>6 DEF ValueInv, HeldInv, PresentedInv, SavedInv
  <1>8. PendingInv'
    BY <1>1, <1>2 DEF PendingInv
  <1> QED
    BY <1>5, <1>7, <1>8 DEF NotionInv, ValueInv

-----------------------------------------------------------------------------
(* Expiries, stops and starts of the process.                              *)

LEMMA ExpireStep ==
  ASSUME NotionInv, Expire
  PROVE  NotionInv'
  <1>1. UNCHANGED <<credentials, file, saving, operation, stream, refreshing, alive,
                    offered, granted, exchanged, again>>
    BY DEF Expire, held, histories
  <1>2. NotionTypes' /\ SerialInv'
    BY <1>1 DEF NotionInv, NotionTypes, SerialInv, IsRead
  <1>3. ValueInv'
    BY <1>1 DEF NotionInv, ValueInv, HeldInv, PresentedInv, SavedInv, Switching
  <1>4. PendingInv'
    BY <1>1 DEF NotionInv, PendingInv
  <1> QED
    BY <1>2, <1>3, <1>4 DEF NotionInv

\* Nothing is at work.
LEMMA Stopped ==
  ASSUME NotionTypes', HeldInv', operation' = None, stream' = None, refreshing' = None,
         \A w \in Writers : saving'[w] = None,
         credentials'.pending \notin exchanged', file'.pending \notin exchanged'
  PROVE  NotionInv'
  <1>1. SerialInv'
    BY DEF SerialInv, Writers
  <1>2. PresentedInv' /\ SavedInv' /\ PendingInv'
    BY DEF PresentedInv, SavedInv, PendingInv, Writers
  <1> QED
    BY <1>1, <1>2 DEF NotionInv, ValueInv

\* What was saved before a crash is of the grant that was saved last: a connect that has replaced
\* the file holds, whether or not it has assigned the credentials.
LEMMA CrashStep ==
  ASSUME NotionAssumption, NotionInv, Crash
  PROVE  NotionInv'
  <1>1. /\ alive' = FALSE /\ credentials' = Empty /\ saving' = [w \in Writers |-> None]
        /\ operation' = None /\ stream' = None /\ refreshing' = None
        /\ UNCHANGED <<file, offered, granted, exchanged, again>>
    BY DEF Crash, Places, histories
  <1>2. NotionTypes /\ HeldInv /\ PendingInv
    BY DEF NotionInv, ValueInv
  <1>3. Empty \in Held /\ Empty.tokens = None /\ Empty.pending = None
    BY DEF Held, Empty
  <1>4. None \notin exchanged
    <2>1. exchanged \subseteq Nat
      BY <1>2 DEF NotionTypes
    <2> QED
      BY <2>1 DEF NotionAssumption
  <1>5. NotionTypes'
    BY <1>1, <1>2, <1>3 DEF NotionTypes
  <1>6. HeldInv'
    BY <1>1, <1>2, <1>3 DEF HeldInv, Fits
  <1>7. credentials'.pending \notin exchanged' /\ file'.pending \notin exchanged'
    BY <1>1, <1>2, <1>3, <1>4 DEF PendingInv
  <1> QED
    BY <1>1, <1>5, <1>6, <1>7, Stopped

LEMMA LoadStep ==
  ASSUME NotionAssumption, NotionInv, Load
  PROVE  NotionInv'
  <1> DEFINE moved == [tokens |-> None, pending |-> None, reconnect |-> TRUE]
  <1>1. /\ ~alive /\ alive' = TRUE
        /\ \/ credentials' = file /\ file' = file
           \/ credentials' = moved /\ file' = moved
        /\ UNCHANGED <<saving, operation, stream, refreshing, offered, granted, exchanged, again>>
    BY DEF Load, histories
  <1>2. NotionTypes /\ SerialInv /\ HeldInv /\ PendingInv
    BY DEF NotionInv, ValueInv
  <1>3. moved \in Held /\ moved.tokens = None /\ moved.pending = None
    BY DEF Held
  <1> HIDE DEF moved
  <1>4. None \notin exchanged
    <2>1. exchanged \subseteq Nat
      BY <1>2 DEF NotionTypes
    <2> QED
      BY <2>1 DEF NotionAssumption
  <1>5. operation' = None /\ stream' = None /\ refreshing' = None /\ \A w \in Writers : saving'[w] = None
    BY <1>1, <1>2 DEF SerialInv
  <1>6. NotionTypes'
    BY <1>1, <1>2, <1>3 DEF NotionTypes
  <1>7. HeldInv'
    BY <1>1, <1>2, <1>3 DEF HeldInv, Fits
  <1>8. credentials'.pending \notin exchanged' /\ file'.pending \notin exchanged'
    BY <1>1, <1>2, <1>3, <1>4 DEF PendingInv
  <1> QED
    BY <1>5, <1>6, <1>7, <1>8, Stopped

-----------------------------------------------------------------------------
(* The theorems.                                                           *)

LEMMA ConnectionBegins ==
  ASSUME NotionAssumption, NotionInit
  PROVE  NotionInv
  <1>1. /\ credentials = Empty /\ file = Empty /\ saving = [w \in Writers |-> None]
        /\ operation = None /\ stream = None /\ refreshing = None /\ alive = TRUE
        /\ offered = 0 /\ granted = 0 /\ exchanged = {} /\ again = {}
    BY DEF NotionInit
  <1>2. Empty \in Held /\ Empty.tokens = None /\ Empty.pending = None
    BY DEF Held, Empty
  <1>3. NotionTypes
    BY <1>1, <1>2 DEF NotionTypes
  <1>4. SerialInv
    BY <1>1 DEF SerialInv, Writers
  <1>5. ValueInv
    BY <1>1, <1>2 DEF ValueInv, HeldInv, PresentedInv, SavedInv, Fits, Writers
  <1>6. PendingInv
    BY <1>1 DEF PendingInv
  <1> QED
    BY <1>3, <1>4, <1>5, <1>6 DEF NotionInv

LEMMA ConnectionStays ==
  ASSUME NotionAssumption, NotionInv, UNCHANGED notionVars
  PROVE  NotionInv'
  <1>1. UNCHANGED <<credentials, file, saving, operation, stream, refreshing, alive,
                    offered, granted, exchanged, again>>
    BY DEF notionVars, held, histories
  <1>2. NotionTypes' /\ SerialInv'
    BY <1>1 DEF NotionInv, NotionTypes, SerialInv, IsRead
  <1>3. ValueInv'
    BY <1>1 DEF NotionInv, ValueInv, HeldInv, PresentedInv, SavedInv, Switching
  <1>4. PendingInv'
    BY <1>1 DEF NotionInv, PendingInv
  <1> QED
    BY <1>2, <1>3, <1>4 DEF NotionInv

LEMMA ConnectionStep ==
  ASSUME NotionAssumption, NotionInv, NotionNext
  PROVE  NotionInv'
  <1>1. CASE Works
    BY <1>1, ExchangeStep, AnsweredStep, AskStep, RenewedStep, CloseStep, ClosedStep, LoadStep,
       RenameStep, AssignStep, SendStep, AcceptStep, RejectStep, RejectAgainStep, RejectedStep DEF Works
  <1>2. CASE Connect \/ Disconnect \/ Page \/ Expire \/ Crash
    BY <1>2, ConnectStep, DisconnectStep, PageStep, ExpireStep, CrashStep
  <1>3. CASE \E g \in 1..offered : Callback(g)
    BY <1>3, CallbackStep
  <1>4. CASE \E w \in Writers : SaveFails(w)
    BY <1>4, SaveFailsStep
  <1>5. CASE \E w \in {"operation", "stream"} : Lost(w)
    BY <1>5, LostStep
  <1> QED
    BY <1>1, <1>2, <1>3, <1>4, <1>5 DEF NotionNext

\* The inductive invariant of the connection: which saves can still be on their way, and of
\* which authorization is what they hold.
THEOREM ConnectionInvariant == NotionSpec => []NotionInv
  <1> USE NotionHypothesis
  <1>1. NotionInit => NotionInv
    BY ConnectionBegins
  <1>2. NotionInv /\ [NotionNext]_notionVars => NotionInv'
    BY ConnectionStep, ConnectionStays
  <1> QED
    BY <1>1, <1>2, PTL DEF NotionSpec

\* "Single-use state", and no save of an earlier operation brings back other tokens: whatever the
\* order of operations, renewals, saves that fail and stops of the process.
THEOREM GrantsAreKept == NotionSpec => []GrantsHold
  <1>1. NotionInv => GrantsHold
    <2> SUFFICES ASSUME NotionInv PROVE GrantsHold
      OBVIOUS
    <2>1. NotionTypes /\ HeldInv
      BY DEF NotionInv, ValueInv
    <2>2. StatesAreUsedOnce
      <3>1. \A x \in again : x[2] \in Nat \ {0}
        BY <2>1 DEF NotionTypes, Pairs
      <3> QED
        BY <3>1 DEF StatesAreUsedOnce
    <2>3. LatestGrant
      <3>1. SUFFICES ASSUME operation = None
                     PROVE  Fits(credentials, granted) /\ Fits(file, granted)
        BY DEF LatestGrant, Fits
      <3> QED
        BY <2>1, <3>1 DEF HeldInv, Switching
    <2> QED
      BY <2>2, <2>3 DEF GrantsHold
  <1> QED
    BY <1>1, ConnectionInvariant, PTL

-----------------------------------------------------------------------------
(* The graph of a project.                                                 *)

GraphPlaces == Nat \X Nat \X Nat
\* A list: finitely many members, each at a place of its own.
Placed(list) ==
  /\ IsFiniteSet(list) /\ \A x \in list : x.at \in GraphPlaces
  /\ \A x, y \in list : x.at = y.at => x = y
UniqueIds(nodes) == \A x, y \in nodes : x.id = y.id => x = y
IsGraph(graph) ==
  /\ graph = [nodes |-> graph.nodes, edges |-> graph.edges, truncated |-> graph.truncated, warned |-> graph.warned]
  /\ graph.truncated \in BOOLEAN /\ graph.warned \in BOOLEAN
ClosedGraph(graph) ==
  /\ IsGraph(graph) /\ Placed(graph.nodes) /\ Placed(graph.edges) /\ UniqueIds(graph.nodes)
  /\ \A e \in graph.edges : Joined(graph, e)
  /\ \A d, e \in graph.edges : SameEdge(d, e) => d = e

\* GraphPlaces are in a total order.
LEMMA PlacesAreOrdered ==
  ASSUME NEW p \in GraphPlaces, NEW q \in GraphPlaces, NEW r \in GraphPlaces
  PROVE  /\ ~Before(p, p) /\ (Before(p, q) /\ Before(q, r) => Before(p, r))
         /\ p = q \/ Before(p, q) \/ Before(q, p)
<1>1. p = <<p[1], p[2], p[3]>> /\ q = <<q[1], q[2], q[3]>> /\ r = <<r[1], r[2], r[3]>>
  BY DEF GraphPlaces
<1>2. \A i \in 1..3 : p[i] \in Nat /\ q[i] \in Nat /\ r[i] \in Nat
  BY DEF GraphPlaces
<1>3. p[1] \in Nat /\ p[2] \in Nat /\ p[3] \in Nat /\ q[1] \in Nat /\ q[2] \in Nat /\ q[3] \in Nat
      /\ r[1] \in Nat /\ r[2] \in Nat /\ r[3] \in Nat
  BY <1>2
<1>4. ~Before(p, p) /\ (Before(p, q) /\ Before(q, r) => Before(p, r))
  BY <1>3 DEF Before
<1>5. p = q \/ Before(p, q) \/ Before(q, p)
  BY <1>1, <1>3 DEF Before
<1> QED
  BY <1>4, <1>5

\* The image of a finite set is finite.
LEMMA FiniteImage ==
  ASSUME NEW f, IsFiniteSet(DOMAIN f)
  PROVE  IsFiniteSet({f[x] : x \in DOMAIN f})
<1> DEFINE T == {f[x] : x \in DOMAIN f}
           g == [x \in DOMAIN f |-> f[x]]
<1>1. g \in Surjection(DOMAIN f, T)
  BY DEF Surjection
<1> QED
  BY <1>1, FS_Surjection

\* The first n members of a list are at most n; of a list of at most n they are all.
LEMMA LeadingAre ==
  ASSUME NEW list, Placed(list), NEW n \in Nat
  PROVE  /\ Leading(list, n) \subseteq list /\ Placed(Leading(list, n)) /\ Cardinality(Leading(list, n)) <= n
         /\ Cardinality(list) <= n => Leading(list, n) = list
<1> DEFINE Ahead(x) == {y \in list : Before(y.at, x.at)}
           first == Leading(list, n)
           rank == [x \in first |-> Cardinality(Ahead(x)) + 1]
<1>1. first \subseteq list /\ IsFiniteSet(first) /\ Placed(first)
  <2>1. first \subseteq list
    BY DEF Leading
  <2> QED
    BY <2>1, FS_Subset DEF Placed
<1>2. ASSUME NEW x \in list
      PROVE  IsFiniteSet(Ahead(x)) /\ Cardinality(Ahead(x)) \in Nat /\ Cardinality(Ahead(x)) < Cardinality(list)
  <2>1. Ahead(x) \subseteq list /\ x \notin Ahead(x)
    BY PlacesAreOrdered DEF Placed
  <2>2. IsFiniteSet(Ahead(x)) /\ Cardinality(Ahead(x)) <= Cardinality(list) /\ Cardinality(Ahead(x)) # Cardinality(list)
    BY <2>1, FS_Subset DEF Placed
  <2>3. Cardinality(Ahead(x)) \in Nat /\ Cardinality(list) \in Nat
    BY <2>2, FS_CardinalityType DEF Placed
  <2> HIDE DEF Ahead
  <2> QED
    BY <2>2, <2>3
<1>3. ASSUME NEW x \in list, NEW y \in list, Before(x.at, y.at)
      PROVE  Cardinality(Ahead(x)) < Cardinality(Ahead(y))
  <2>1. Ahead(x) \subseteq Ahead(y) /\ x \in Ahead(y) /\ x \notin Ahead(x)
    BY <1>3, PlacesAreOrdered DEF Placed
  <2>2. Cardinality(Ahead(x)) <= Cardinality(Ahead(y)) /\ Cardinality(Ahead(x)) # Cardinality(Ahead(y))
    BY <2>1, <1>2, FS_Subset
  <2> HIDE DEF Ahead
  <2> QED
    BY <2>2, <1>2
<1>4. rank \in Injection(first, 1..n)
  <2>1. \A x \in first : rank[x] \in 1..n
    <3>1. \A x \in first : x \in list /\ Cardinality(Ahead(x)) < n
      BY DEF Leading
    <3> HIDE DEF Ahead
    <3> QED
      BY <3>1, <1>2
  <2>2. \A x, y \in first : rank[x] = rank[y] => x = y
    <3> SUFFICES ASSUME NEW x \in first, NEW y \in first, rank[x] = rank[y], x # y PROVE FALSE
      OBVIOUS
    <3>1. x \in list /\ y \in list /\ (Before(x.at, y.at) \/ Before(y.at, x.at))
      BY <1>1, PlacesAreOrdered DEF Placed
    <3> HIDE DEF Ahead
    <3>2. Cardinality(Ahead(x)) \in Nat /\ Cardinality(Ahead(y)) \in Nat
      BY <3>1, <1>2
    <3>3. Cardinality(Ahead(x)) < Cardinality(Ahead(y)) \/ Cardinality(Ahead(y)) < Cardinality(Ahead(x))
      BY <3>1, <1>3
    <3> QED
      BY <3>2, <3>3
  <2> HIDE DEF rank
  <2>3. rank \in [first -> 1..n]
    BY <2>1 DEF rank
  <2> QED
    BY <2>2, <2>3 DEF Injection, IsInjective
<1>5. Cardinality(first) <= n
  <2>1. IsFiniteSet(1..n) /\ Cardinality(1..n) = n
    BY FS_Interval
  <2> HIDE DEF first, rank
  <2> QED
    BY <2>1, <1>4, FS_Injection
<1>6. ASSUME Cardinality(list) <= n PROVE first = list
  <2>1. \A x \in list : Cardinality(Ahead(x)) < n
    <3>1. Cardinality(list) \in Nat
      BY FS_CardinalityType DEF Placed
    <3> HIDE DEF Ahead
    <3> QED
      BY <3>1, <1>2, <1>6
  <2> QED
    BY <2>1 DEF Leading
<1> QED
  BY <1>1, <1>5, <1>6

\* The loops keep a graph closed, and add every edge that is there once.
LEMMA AddedAreClosed ==
  ASSUME NEW graph, ClosedGraph(graph), NEW nodes, NEW edges,
         Placed(graph.nodes \cup nodes), UniqueIds(graph.nodes \cup nodes), Placed(edges),
         \A d \in graph.edges, e \in edges : Before(d.at, e.at)
  PROVE  LET added == AddEdges(AddNodes(graph, nodes), edges)
         IN /\ ClosedGraph(added) /\ added.nodes = graph.nodes \cup nodes
            /\ added.edges \subseteq graph.edges \cup edges
            /\ added.truncated = graph.truncated /\ added.warned = graph.warned
            /\ \A e \in edges :
                 Joined(added, e) /\ (\A d \in graph.edges \cup edges : SameEdge(d, e) => d = e) => e \in added.edges
<1> DEFINE wider == AddNodes(graph, nodes)
           added == AddEdges(wider, edges)
           tried == {e \in edges : Joined(wider, e)}
           repeated == {e \in tried : \E d \in graph.edges \cup tried : SameEdge(d, e) /\ Before(d.at, e.at)}
<1>1. wider = [nodes |-> graph.nodes \cup nodes, edges |-> graph.edges, truncated |-> graph.truncated, warned |-> graph.warned]
  BY DEF AddNodes, ClosedGraph, IsGraph
<1>2. added = [nodes |-> graph.nodes \cup nodes, edges |-> graph.edges \cup (tried \ repeated),
               truncated |-> graph.truncated, warned |-> graph.warned]
  <2> HIDE DEF wider
  <2>1. added = [wider EXCEPT !.edges = @ \cup (tried \ repeated)]
    BY <1>1 DEF AddEdges
  <2> HIDE DEF added, tried, repeated
  <2> QED
    BY <1>1, <2>1
<1>3. \A e : Joined(graph, e) => Joined(wider, e)
  BY <1>1 DEF Joined, Ids
<1>4. \A e : Joined(added, e) <=> Joined(wider, e)
  <2>1. wider.nodes = added.nodes
    <3> HIDE DEF wider, added
    <3> QED
      BY <1>1, <1>2
  <2> HIDE DEF wider, added
  <2> QED
    BY <2>1 DEF Joined, Ids
<1> HIDE DEF wider, added
<1>5. \A d, e \in edges \cup graph.edges : d.at \in GraphPlaces /\ e.at \in GraphPlaces /\ (d # e => Before(d.at, e.at) \/ Before(e.at, d.at))
  <2>1. \A d \in edges \cup graph.edges : d.at \in GraphPlaces
    BY DEF Placed, ClosedGraph
  <2>2. \A d, e \in edges \cup graph.edges : d # e => d.at # e.at \/ Before(d.at, e.at) \/ Before(e.at, d.at)
    BY DEF Placed, ClosedGraph
  <2> QED
    BY <2>1, <2>2, PlacesAreOrdered
<1>6. ASSUME NEW d \in added.edges, NEW e \in added.edges, SameEdge(d, e) PROVE d = e
  <2>1. SameEdge(e, d)
    BY <1>6 DEF SameEdge
  <2>2. CASE d \in graph.edges /\ e \in graph.edges
    BY <2>2, <1>6 DEF ClosedGraph
  <2>3. CASE d \in tried \ repeated /\ e \in graph.edges
    BY <2>1, <2>3
  <2>4. CASE d \in graph.edges /\ e \in tried \ repeated
    BY <1>6, <2>4
  <2>5. CASE d \in tried \ repeated /\ e \in tried \ repeated
    BY <1>5, <1>6, <2>1, <2>5
  <2> QED
    BY <1>2, <2>2, <2>3, <2>4, <2>5
<1>7. Placed(added.edges)
  <2>1. IsFiniteSet(added.edges)
    <3>1. IsFiniteSet(tried \ repeated)
      BY FS_Subset DEF Placed
    <3> QED
      BY <3>1, <1>2, FS_Union DEF ClosedGraph, Placed
  <2>2. \A d, e \in added.edges : d.at = e.at => d = e
    BY <1>2, <1>5, PlacesAreOrdered
  <2> QED
    BY <1>2, <1>5, <2>1, <2>2 DEF Placed
<1>8. ClosedGraph(added)
  <2>1. IsGraph(added) /\ added.nodes = graph.nodes \cup nodes
    BY <1>2 DEF IsGraph, ClosedGraph
  <2>2. \A e \in added.edges : Joined(added, e)
    BY <1>2, <1>3, <1>4 DEF ClosedGraph
  <2> QED
    BY <1>6, <1>7, <2>1, <2>2 DEF ClosedGraph
<1>9. ASSUME NEW e \in edges, Joined(added, e), \A d \in graph.edges \cup edges : SameEdge(d, e) => d = e
      PROVE  e \in added.edges
  <2>1. e \in tried
    BY <1>4, <1>9
  <2>2. e \notin repeated
    BY <1>5, <1>9, PlacesAreOrdered
  <2> QED
    BY <1>2, <2>1, <2>2
<1> QED
  BY <1>2, <1>8, <1>9 DEF added, wider

\* Limiting keeps a graph closed, and what is not marked as cut off is all there.
LEMMA LimitedIsClosed ==
  ASSUME NEW graph, ClosedGraph(graph)
  PROVE  LET limited == Limited(graph)
         IN /\ ClosedGraph(limited)
            /\ Cardinality(limited.nodes) <= MaxGraphNodes /\ Cardinality(limited.edges) <= MaxGraphEdges
            /\ limited.nodes \subseteq graph.nodes /\ limited.warned = graph.warned
            /\ ~limited.truncated => limited.nodes = graph.nodes /\ limited.edges = graph.edges
<1> DEFINE shown == [graph EXCEPT !.nodes = Leading(@, MaxGraphNodes)]
           closed == {e \in graph.edges : Joined(shown, e)}
           limited == Limited(graph)
           cut == Cardinality(graph.nodes) > MaxGraphNodes \/ Cardinality(closed) > MaxGraphEdges
<1>1. shown = [nodes |-> Leading(graph.nodes, MaxGraphNodes), edges |-> graph.edges,
               truncated |-> graph.truncated, warned |-> graph.warned]
  BY DEF ClosedGraph, IsGraph
<1>2. limited = [nodes |-> Leading(graph.nodes, MaxGraphNodes), edges |-> Leading(closed, MaxGraphEdges),
                 truncated |-> graph.truncated \/ cut, warned |-> graph.warned]
  <2> HIDE DEF shown
  <2>1. limited = [shown EXCEPT !.edges = Leading(closed, MaxGraphEdges), !.truncated = @ \/ cut]
    BY <1>1 DEF Limited, shown
  <2> HIDE DEF limited, closed, cut
  <2> QED
    BY <1>1, <2>1
<1>3. Placed(closed)
  BY FS_Subset DEF ClosedGraph, Placed
<1>4. \A e : Joined(limited, e) <=> Joined(shown, e)
  BY <1>1, <1>2 DEF Joined, Ids
<1>5. Placed(limited.nodes) /\ Cardinality(limited.nodes) <= MaxGraphNodes /\ limited.nodes \subseteq graph.nodes
  <2> HIDE DEF limited
  <2> QED
    BY <1>2, LeadingAre, GraphAssumption DEF ClosedGraph
<1>6. Placed(limited.edges) /\ Cardinality(limited.edges) <= MaxGraphEdges /\ limited.edges \subseteq closed
  <2> HIDE DEF limited, closed
  <2> QED
    BY <1>2, <1>3, LeadingAre, GraphAssumption
<1>7. ClosedGraph(limited)
  <2>1. IsGraph(limited)
    BY <1>2 DEF IsGraph, ClosedGraph
  <2> HIDE DEF limited
  <2> QED
    BY <1>4, <1>5, <1>6, <2>1 DEF ClosedGraph, UniqueIds
<1>8. ASSUME ~limited.truncated PROVE limited.nodes = graph.nodes /\ limited.edges = graph.edges
  <2>1. ~cut
    <3> HIDE DEF limited, closed, cut
    <3> QED
      BY <1>2, <1>8
  <2>2. Cardinality(graph.nodes) \in Nat /\ Cardinality(closed) \in Nat
    BY <1>3, FS_CardinalityType DEF ClosedGraph, Placed
  <2>3. Leading(graph.nodes, MaxGraphNodes) = graph.nodes /\ Leading(closed, MaxGraphEdges) = closed
    <3> HIDE DEF closed
    <3> QED
      BY <1>3, <2>1, <2>2, LeadingAre, GraphAssumption DEF ClosedGraph
  <2>4. closed = graph.edges
    BY <1>1, <2>3 DEF ClosedGraph, Joined, Ids
  <2> QED
    BY <1>2, <2>3, <2>4
<1>9. limited.warned = graph.warned
  BY <1>2
<1> QED
  BY <1>5, <1>6, <1>7, <1>8, <1>9

LEMMA EmptyIsClosed ==
  /\ ClosedGraph(EmptyGraph) /\ EmptyGraph.nodes = {Node(Project, None, <<0, 0, 0>>)} /\ EmptyGraph.edges = {}
  /\ EmptyGraph.truncated = FALSE /\ EmptyGraph.warned = FALSE
<1> DEFINE x == Node(Project, None, <<0, 0, 0>>)
<1>1. Placed({x}) /\ Placed({}) /\ UniqueIds({x})
  <2>1. IsFiniteSet({x}) /\ IsFiniteSet({})
    BY FS_Singleton, FS_EmptySet
  <2>2. x.at \in GraphPlaces
    BY DEF Node, GraphPlaces
  <2> HIDE DEF x
  <2> QED
    BY <2>1, <2>2 DEF Placed, UniqueIds
<1> HIDE DEF x
<1> QED
  BY <1>1 DEF EmptyGraph, x, ClosedGraph, IsGraph

-----------------------------------------------------------------------------
(* The memory of now.                                                      *)

MemoryInv == memory \in Seq(Registrations) /\ OwnCaptures(memory)

\* What was recorded: no concept, and the places of the loops over the registrations.
Recorded(graph) ==
  /\ graph.warned = FALSE
  /\ \A x \in graph.nodes : x.id[1] # "entity" /\ x.at[1] \in 0..2
  /\ \A e \in graph.edges : e.at[1] \in 1..2

LEMMA CurrentIsClosed ==
  ASSUME MemoryInv, NEW scope
  PROVE  LET graph == CurrentMemory(scope)
         IN /\ ClosedGraph(graph) /\ Recorded(graph) /\ graph.truncated = FALSE
            /\ \A i \in Included(scope) : \E x \in graph.nodes : x.id = RegistrationId(i)
<1> DEFINE Shown == Included(scope)
           nodeOf == [i \in Shown |-> Node(RegistrationId(i), memory[i].capture, <<1, i, 1>>)]
           edgeOf == [i \in Shown |-> Edge(Project, RegistrationId(i), IF memory[i].shared THEN "includes" ELSE "registers", <<1, i, 1>>)]
           Children == {k \in Shown : memory[k].parent \in Shown}
           childOf == [i \in Children |-> Edge(RegistrationId(memory[i].parent), RegistrationId(i), "contains", <<2, i, 1>>)]
           nodes == MemoryNodes(scope)
           edges == MemoryEdges(scope)
           root == Node(Project, None, <<0, 0, 0>>)
<1>1. Shown \subseteq Nat /\ IsFiniteSet(Shown) /\ IsFiniteSet(Children) /\ Children \subseteq Nat
  <2>1. DOMAIN memory = 1..Len(memory) /\ Len(memory) \in Nat
    BY DEF MemoryInv
  <2>2. IsFiniteSet(1..Len(memory))
    BY <2>1, FS_Interval
  <2>3. Shown \in SUBSET (1..Len(memory)) /\ Children \in SUBSET Shown
    BY <2>1 DEF Included
  <2> QED
    BY <2>1, <2>2, <2>3, FS_Subset
<1>2. /\ nodes = {nodeOf[i] : i \in Shown}
      /\ edges = {edgeOf[i] : i \in Shown} \cup {childOf[i] : i \in Children}
  BY DEF MemoryNodes, MemoryEdges
<1>3. /\ \A i \in Shown : nodeOf[i].at = <<1, i, 1>> /\ nodeOf[i].id = RegistrationId(i) /\ edgeOf[i].at = <<1, i, 1>>
      /\ \A i \in Children : childOf[i].at = <<2, i, 1>>
  BY DEF Node, Edge
<1>4. IsFiniteSet(nodes) /\ IsFiniteSet(edges)
  <2>1. DOMAIN nodeOf = Shown /\ DOMAIN edgeOf = Shown /\ DOMAIN childOf = Children
    OBVIOUS
  <2> HIDE DEF nodeOf, edgeOf, childOf, Shown, Children, nodes, edges
  <2>2. IsFiniteSet({nodeOf[i] : i \in Shown}) /\ IsFiniteSet({edgeOf[i] : i \in Shown}) /\ IsFiniteSet({childOf[i] : i \in Children})
    BY <1>1, <2>1, FiniteImage
  <2> QED
    BY <1>2, <2>2, FS_Union
<1>5. \A i, j \in Shown : RegistrationId(i) = RegistrationId(j) => i = j
  <2>1. \A i \in Shown : i \in DOMAIN memory
    BY DEF Included
  <2> QED
    BY <2>1 DEF RegistrationId, SourceOf, MemoryInv, OwnCaptures
<1>6. \A i \in Shown : RegistrationId(i)[1] \in {"source", "registration"}
  BY DEF RegistrationId, SourceOf
<1>7. root.at = <<0, 0, 0>> /\ root.id = <<"project">> /\ root.id[1] = "project"
  BY DEF Node, Project
<1> HIDE DEF nodeOf, edgeOf, childOf, Shown, Children, nodes, edges, root
<1>8. Placed(EmptyGraph.nodes \cup nodes) /\ UniqueIds(EmptyGraph.nodes \cup nodes)
  <2>1. IsFiniteSet({root} \cup nodes)
    BY <1>4, FS_Singleton, FS_Union
  <2>2. \A x \in {root} \cup nodes : x.at \in GraphPlaces
    BY <1>1, <1>2, <1>3, <1>7 DEF GraphPlaces
  <2>3. \A x, y \in {root} \cup nodes : x.at = y.at => x = y
    BY <1>2, <1>3, <1>7
  <2>4. \A x, y \in {root} \cup nodes : x.id = y.id => x = y
    BY <1>2, <1>3, <1>5, <1>6, <1>7
  <2> QED
    BY <2>1, <2>2, <2>3, <2>4, EmptyIsClosed DEF Placed, UniqueIds, root
<1>9. Placed(edges)
  <2>1. \A x \in edges : \/ \E i \in Shown : x = edgeOf[i] /\ x.at = <<1, i, 1>>
                         \/ \E i \in Children : x = childOf[i] /\ x.at = <<2, i, 1>>
    <3>1. \A i \in Shown : edgeOf[i].at = <<1, i, 1>>
      BY <1>3
    <3>2. \A i \in Children : childOf[i].at = <<2, i, 1>>
      BY <1>3
    <3>3. edges = {edgeOf[i] : i \in Shown} \cup {childOf[i] : i \in Children}
      BY <1>2
    <3> QED
      BY <3>1, <3>2, <3>3
  <2>2. \A x \in edges : x.at \in GraphPlaces
    BY <1>1, <2>1 DEF GraphPlaces
  <2>3. \A x, y \in edges : x.at = y.at => x = y
    BY <2>1
  <2> QED
    BY <1>4, <2>2, <2>3 DEF Placed
<1>10. LET graph == CurrentMemory(scope)
       IN /\ ClosedGraph(graph) /\ graph.nodes = EmptyGraph.nodes \cup nodes /\ graph.edges \subseteq edges
          /\ graph.truncated = FALSE /\ graph.warned = FALSE
  <2>1. EmptyGraph.edges = {} /\ ClosedGraph(EmptyGraph) /\ EmptyGraph.truncated = FALSE /\ EmptyGraph.warned = FALSE
    BY EmptyIsClosed
  <2> QED
    BY <1>8, <1>9, <2>1, AddedAreClosed DEF CurrentMemory, nodes, edges
<1>11. \A e \in edges : e.at[1] \in 1..2
  <2> QED
    BY <1>2, <1>3
<1>12. \A x \in {root} \cup nodes : x.id[1] # "entity" /\ x.at[1] \in 0..2
  <2> QED
    BY <1>2, <1>3, <1>6, <1>7
<1>13. \A i \in Shown : nodeOf[i] \in nodes /\ nodeOf[i].id = RegistrationId(i)
  <2> QED
    BY <1>2, <1>3
<1> QED
  BY <1>10, <1>11, <1>12, <1>13, EmptyIsClosed DEF Recorded, root, Shown

-----------------------------------------------------------------------------
(* The concepts.                                                           *)

\* The datasets that are asked are those of sources the graph shows, one registration each.
Indexable(graph, indexed) ==
  /\ IsFiniteSet(indexed)
  /\ \A d \in indexed : d.registration \in Nat /\ d.dataset \in Captures /\ SourceOf(d.dataset) \in Ids(graph)
  /\ \A d, e \in indexed : d.dataset = e.dataset \/ d.registration = e.registration => d = e

LEMMA ConceptsOfACapture ==
  ASSUME NEW c \in Captures
  PROVE  /\ DOMAIN Concepts[c] \subseteq Nat /\ IsFiniteSet(DOMAIN Concepts[c]) /\ Distinct(Concepts[c])
         /\ DOMAIN Relations[c] \subseteq Nat /\ IsFiniteSet(DOMAIN Relations[c])
<1>1. \E n \in Nat : DOMAIN Concepts[c] = 1..n
  <2>1. Concepts[c] \in Seq(STRING)
    BY GraphAssumption
  <2> QED
    BY <2>1
<1>2. \E n \in Nat : DOMAIN Relations[c] = 1..n
  <2>1. Relations[c] \in Seq((DOMAIN Concepts[c]) \X (DOMAIN Concepts[c]))
    BY GraphAssumption
  <2> DEFINE Positions == (DOMAIN Concepts[c]) \X (DOMAIN Concepts[c])
  <2> HIDE DEF Positions
  <2>2. Relations[c] \in Seq(Positions)
    BY <2>1 DEF Positions
  <2> QED
    BY <2>2
<1>3. Distinct(Concepts[c])
  BY GraphAssumption
<1>4. \A n \in Nat : 1..n \subseteq Nat /\ IsFiniteSet(1..n)
  BY FS_Interval
<1> QED
  BY <1>1, <1>2, <1>3, <1>4

\* The concepts of a capture, and the relations between them, are lists of their own.
LEMMA ExtractedArePlaced ==
  ASSUME NEW graph, NEW indexed, Indexable(graph, indexed)
  PROVE  /\ Placed(Extracted(indexed)) /\ UniqueIds(Extracted(indexed))
         /\ \A x \in Extracted(indexed) :
              /\ x.id[1] = "entity" /\ x.at[1] = 3 /\ x.capture = x.dataset
              /\ SourceOf(x.dataset) \in Ids(graph)
<1> DEFINE Concept(d, k) == [id |-> EntityId(d.dataset, k), capture |-> CaptureOf(d), dataset |-> d.dataset, at |-> <<3, d.registration, k>>]
<1>1. \A d \in indexed : \A k :
        /\ Concept(d, k).id = <<"entity", d.dataset, Concepts[d.dataset][k]>>
        /\ Concept(d, k).capture = d.dataset /\ Concept(d, k).dataset = d.dataset
        /\ Concept(d, k).at = <<3, d.registration, k>>
  BY DEF EntityId, CaptureOf
<1>2. \A x : x \in Extracted(indexed) <=> \E d \in indexed : \E k \in DOMAIN Concepts[d.dataset] : x = Concept(d, k)
  BY DEF Extracted, ExtractedOf
<1>3. \A d \in indexed : IsFiniteSet(ExtractedOf(d))
  <2> SUFFICES ASSUME NEW d \in indexed PROVE IsFiniteSet(ExtractedOf(d))
    OBVIOUS
  <2> DEFINE f == [k \in DOMAIN Concepts[d.dataset] |-> Concept(d, k)]
  <2>1. IsFiniteSet(DOMAIN f)
    BY ConceptsOfACapture DEF Indexable
  <2>2. ExtractedOf(d) = {f[k] : k \in DOMAIN f}
    BY DEF ExtractedOf
  <2> HIDE DEF f
  <2> QED
    BY <2>1, <2>2, FiniteImage
<1>4. IsFiniteSet(Extracted(indexed))
  <2> DEFINE f == [d \in indexed |-> ExtractedOf(d)]
             Parts == {f[d] : d \in DOMAIN f}
  <2>1. IsFiniteSet(DOMAIN f) /\ Extracted(indexed) = UNION Parts /\ \A part \in Parts : IsFiniteSet(part)
    BY <1>3 DEF Extracted, Indexable
  <2>2. IsFiniteSet(Parts)
    <3> HIDE DEF f
    <3> QED
      BY <2>1, FiniteImage
  <2> HIDE DEF Parts
  <2> QED
    BY <2>1, <2>2, FS_UNION
<1> HIDE DEF Concept
<1>5. \A d \in indexed : \A k \in DOMAIN Concepts[d.dataset] : d.registration \in Nat /\ k \in Nat
  BY ConceptsOfACapture DEF Indexable
<1>6. \A d, e \in indexed : \A k \in DOMAIN Concepts[d.dataset], l \in DOMAIN Concepts[e.dataset] :
        /\ <<3, d.registration, k>> = <<3, e.registration, l>> => d = e /\ k = l
        /\ <<"entity", d.dataset, Concepts[d.dataset][k]>> = <<"entity", e.dataset, Concepts[e.dataset][l]>> => d = e /\ k = l
  <2>1. \A d \in indexed : Distinct(Concepts[d.dataset])
    BY ConceptsOfACapture DEF Indexable
  <2> QED
    BY <2>1 DEF Indexable, Distinct
<1>7. \A x \in Extracted(indexed) :
        /\ x.at \in GraphPlaces /\ x.id[1] = "entity" /\ x.at[1] = 3 /\ x.capture = x.dataset
        /\ SourceOf(x.dataset) \in Ids(graph)
  <2> SUFFICES ASSUME NEW d \in indexed, NEW k \in DOMAIN Concepts[d.dataset]
               PROVE  LET x == Concept(d, k)
                      IN /\ x.at \in GraphPlaces /\ x.id[1] = "entity" /\ x.at[1] = 3 /\ x.capture = x.dataset
                         /\ SourceOf(x.dataset) \in Ids(graph)
    BY <1>2
  <2>1. Concept(d, k).at \in GraphPlaces /\ Concept(d, k).at[1] = 3
    <3>1. <<3, d.registration, k>> \in GraphPlaces
      BY <1>5 DEF GraphPlaces
    <3> QED
      BY <1>1, <3>1
  <2>2. Concept(d, k).id[1] = "entity" /\ Concept(d, k).capture = Concept(d, k).dataset
    BY <1>1
  <2>3. SourceOf(Concept(d, k).dataset) \in Ids(graph)
    BY <1>1 DEF Indexable
  <2> QED
    BY <2>1, <2>2, <2>3
<1>8. \A x, y \in Extracted(indexed) : x.at = y.at \/ x.id = y.id => x = y
  <2> SUFFICES ASSUME NEW d \in indexed, NEW k \in DOMAIN Concepts[d.dataset],
                      NEW e \in indexed, NEW l \in DOMAIN Concepts[e.dataset],
                      Concept(d, k).at = Concept(e, l).at \/ Concept(d, k).id = Concept(e, l).id
               PROVE  d = e /\ k = l
    BY <1>2
  <2> QED
    BY <1>1, <1>6
<1> QED
  BY <1>4, <1>7, <1>8 DEF Placed, UniqueIds

LEMMA RelationsArePlaced ==
  ASSUME NEW graph, NEW indexed, Indexable(graph, indexed)
  PROVE  LET relations == UNION {RelationsOf(entry) : entry \in indexed}
         IN Placed(relations) /\ \A e \in relations : e.at[1] = 4 /\ e.label = "relates"
<1> DEFINE related(d) == Relations[d.dataset]
           Relation(d, k) == Edge(EntityId(d.dataset, related(d)[k][1]), EntityId(d.dataset, related(d)[k][2]), "relates", <<4, d.registration, k>>)
           relations == UNION {RelationsOf(entry) : entry \in indexed}
<1>1. \A d \in indexed : \A k : Relation(d, k).at = <<4, d.registration, k>> /\ Relation(d, k).label = "relates"
  BY DEF Edge
<1>2. \A x : x \in relations <=> \E d \in indexed : \E k \in DOMAIN Relations[d.dataset] : x = Relation(d, k)
  <2>1. \A d : RelationsOf(d) = {Relation(d, k) : k \in DOMAIN Relations[d.dataset]}
    BY DEF RelationsOf
  <2> HIDE DEF Relation
  <2> QED
    BY <2>1
<1>3. \A d \in indexed : IsFiniteSet(RelationsOf(d))
  <2> SUFFICES ASSUME NEW d \in indexed PROVE IsFiniteSet(RelationsOf(d))
    OBVIOUS
  <2> DEFINE f == [k \in DOMAIN Relations[d.dataset] |-> Relation(d, k)]
  <2>1. IsFiniteSet(DOMAIN f)
    BY ConceptsOfACapture DEF Indexable
  <2>2. RelationsOf(d) = {f[k] : k \in DOMAIN f}
    BY DEF RelationsOf
  <2> HIDE DEF f
  <2> QED
    BY <2>1, <2>2, FiniteImage
<1>4. IsFiniteSet(relations)
  <2> DEFINE f == [d \in indexed |-> RelationsOf(d)]
             Parts == {f[d] : d \in DOMAIN f}
  <2>1. IsFiniteSet(DOMAIN f) /\ relations = UNION Parts /\ \A part \in Parts : IsFiniteSet(part)
    BY <1>3 DEF Indexable
  <2>2. IsFiniteSet(Parts)
    <3> HIDE DEF f
    <3> QED
      BY <2>1, FiniteImage
  <2> HIDE DEF Parts, relations
  <2> QED
    BY <2>1, <2>2, FS_UNION
<1> HIDE DEF Relation, relations
<1>5. \A d \in indexed : \A k \in DOMAIN Relations[d.dataset] : d.registration \in Nat /\ k \in Nat
  BY ConceptsOfACapture DEF Indexable
<1>6. \A x \in relations : x.at \in GraphPlaces /\ x.at[1] = 4 /\ x.label = "relates"
  BY <1>1, <1>2, <1>5 DEF GraphPlaces
<1>7. \A x, y \in relations : x.at = y.at => x = y
  <2> SUFFICES ASSUME NEW d \in indexed, NEW k \in DOMAIN Relations[d.dataset],
                      NEW e \in indexed, NEW l \in DOMAIN Relations[e.dataset],
                      Relation(d, k).at = Relation(e, l).at
               PROVE  d = e /\ k = l
    BY <1>2
  <2> QED
    BY <1>1 DEF Indexable
<1> QED
  BY <1>4, <1>6, <1>7 DEF Placed, relations

LEMMA EnrichedIsClosed ==
  ASSUME NEW graph, ClosedGraph(graph), Recorded(graph), NEW indexed, Indexable(graph, indexed)
  PROVE  LET enriched == Enriched(graph, indexed)
         IN /\ ClosedGraph(enriched) /\ enriched.warned = FALSE
            /\ \A x \in Entities(enriched) :
                 /\ x.capture = x.dataset
                 /\ \E e \in enriched.edges : e.from = SourceOf(x.dataset) /\ e.to = x.id
<1> DEFINE extracted == Extracted(indexed)
           entities == Leading(extracted, MaxGraphNodes)
           relations == UNION {RelationsOf(entry) : entry \in indexed}
           edges == Links(entities) \cup relations
           added == AddEdges(AddNodes(graph, entities), edges)
           linkOf == [x \in entities |-> Edge(SourceOf(x.capture), x.id, "extracted", x.at)]
<1>1. /\ Placed(entities) /\ UniqueIds(entities)
      /\ \A x \in entities :
           x.id[1] = "entity" /\ x.at[1] = 3 /\ x.capture = x.dataset /\ SourceOf(x.dataset) \in Ids(graph)
  <2>1. Placed(extracted)
    BY ExtractedArePlaced
  <2> HIDE DEF extracted
  <2>2. entities \subseteq extracted /\ Placed(entities)
    BY <2>1, LeadingAre, GraphAssumption
  <2> HIDE DEF entities
  <2> QED
    BY <2>2, ExtractedArePlaced DEF UniqueIds, extracted
<1>2. \A x \in entities : /\ linkOf[x].from = SourceOf(x.capture) /\ linkOf[x].to = x.id
                          /\ linkOf[x].label = "extracted" /\ linkOf[x].at = x.at
  BY DEF Edge
<1>3. Links(entities) = {linkOf[x] : x \in entities} /\ DOMAIN linkOf = entities
  <2> HIDE DEF entities
  <2> QED
    BY DEF Links
<1> HIDE DEF entities, linkOf, extracted
<1>4. /\ Placed(Links(entities))
      /\ \A e \in Links(entities) : \E x \in entities : e = linkOf[x]
  <2>1. IsFiniteSet(Links(entities))
    BY <1>1, <1>3, FiniteImage DEF Placed
  <2> QED
    BY <1>1, <1>2, <1>3, <2>1 DEF Placed
<1>5. Placed(relations) /\ \A e \in relations : e.at[1] = 4 /\ e.label = "relates"
  BY RelationsArePlaced
<1> HIDE DEF relations
<1>6. \A e \in Links(entities) : e.at[1] = 3 /\ e.label = "extracted"
  BY <1>1, <1>2, <1>4
<1>7. Placed(edges)
  <2>1. IsFiniteSet(edges)
    BY <1>4, <1>5, FS_Union DEF Placed
  <2> QED
    BY <1>4, <1>5, <1>6, <2>1 DEF Placed
<1>8. Placed(graph.nodes \cup entities) /\ UniqueIds(graph.nodes \cup entities)
  <2>1. IsFiniteSet(graph.nodes \cup entities)
    BY <1>1, FS_Union DEF Placed, ClosedGraph
  <2>2. \A x \in graph.nodes, y \in entities : x.at # y.at /\ x.id # y.id
    BY <1>1 DEF Recorded
  <2> QED
    BY <1>1, <2>1, <2>2 DEF Placed, UniqueIds, ClosedGraph
<1>9. \A d \in graph.edges, e \in edges : Before(d.at, e.at)
  BY <1>5, <1>6 DEF Before, Recorded
<1>10. /\ ClosedGraph(added) /\ added.nodes = graph.nodes \cup entities /\ added.edges \subseteq graph.edges \cup edges
       /\ added.warned = FALSE
       /\ \A e \in edges :
            Joined(added, e) /\ (\A d \in graph.edges \cup edges : SameEdge(d, e) => d = e) => e \in added.edges
  <2> HIDE DEF edges
  <2> QED
    BY <1>7, <1>8, <1>9, AddedAreClosed DEF Recorded
<1> HIDE DEF added
<1>11. ASSUME NEW x \in entities PROVE linkOf[x] \in added.edges
  <2> DEFINE link == linkOf[x]
  <2>1. link \in edges
    BY <1>3
  <2>2. Joined(added, link)
    BY <1>1, <1>2, <1>10 DEF Joined, Ids
  <2>3. \A d \in graph.edges : d.to # link.to
    BY <1>1, <1>2 DEF ClosedGraph, Joined, Ids, Recorded
  <2>4. \A d \in Links(entities) : SameEdge(d, link) => d = link
    BY <1>1, <1>2, <1>4 DEF SameEdge, UniqueIds
  <2>5. \A d \in relations : d.label # link.label
    BY <1>2, <1>5
  <2> HIDE DEF link
  <2> QED
    BY <2>1, <2>2, <2>3, <2>4, <2>5, <1>10 DEF SameEdge, link
<1>12. LET enriched == Enriched(graph, indexed)
       IN /\ ClosedGraph(enriched) /\ enriched.warned = FALSE /\ enriched.nodes = added.nodes /\ enriched.edges = added.edges
  <2> DEFINE enriched == Enriched(graph, indexed)
             cut == Cardinality(extracted) > MaxGraphNodes
  <2>1. enriched = [added EXCEPT !.truncated = cut]
    BY DEF Enriched, added, entities, extracted, edges, relations
  <2> HIDE DEF enriched, cut
  <2>2. enriched = [nodes |-> added.nodes, edges |-> added.edges, truncated |-> cut, warned |-> added.warned]
    BY <1>10, <2>1 DEF ClosedGraph, IsGraph
  <2>3. \A e : Joined(enriched, e) <=> Joined(added, e)
    BY <2>2 DEF Joined, Ids
  <2>4. cut \in BOOLEAN
    BY DEF cut
  <2>5. enriched.nodes = added.nodes /\ enriched.edges = added.edges /\ enriched.warned = FALSE /\ IsGraph(enriched)
    BY <1>10, <2>2, <2>4 DEF IsGraph
  <2>6. ClosedGraph(enriched)
    BY <1>10, <2>3, <2>5 DEF ClosedGraph
  <2> QED
    BY <2>5, <2>6 DEF enriched
<1>13. ASSUME NEW x \in Entities(Enriched(graph, indexed)) PROVE x \in entities
  BY <1>10, <1>12, <1>13 DEF Entities, Recorded
<1> QED
  BY <1>1, <1>2, <1>11, <1>12, <1>13

-----------------------------------------------------------------------------
(* The analysis.                                                           *)

LEMMA AnalysisLists ==
  ASSUME run \in Snapshots, run # None
  PROVE  /\ \A list \in {run.sources, run.requirements, run.findings} : DOMAIN list \subseteq Nat /\ IsFiniteSet(DOMAIN list)
         /\ \A i \in DOMAIN run.findings :
              /\ DOMAIN run.findings[i].evidence \subseteq Nat \ {0} /\ IsFiniteSet(DOMAIN run.findings[i].evidence)
              /\ Len(run.findings[i].evidence) \in Nat
              /\ \A j \in DOMAIN run.findings[i].evidence : j <= Len(run.findings[i].evidence)
<1>1. Identified(run)
  BY GraphAssumption
<1>2. ASSUME NEW S, NEW s \in Seq(S)
      PROVE  /\ DOMAIN s \subseteq Nat \ {0} /\ IsFiniteSet(DOMAIN s) /\ Len(s) \in Nat
             /\ \A j \in DOMAIN s : j <= Len(s)
  <2>1. DOMAIN s = 1..Len(s) /\ Len(s) \in Nat
    OBVIOUS
  <2>2. IsFiniteSet(1..Len(s))
    BY <2>1, FS_Interval
  <2> QED
    BY <2>1, <2>2
<1>3. \A i \in DOMAIN run.findings : run.findings[i].evidence \in Seq(Captures)
  <2>1. run.findings \in Seq(Findings)
    BY <1>1 DEF Identified
  <2>2. \A i \in DOMAIN run.findings : run.findings[i] \in Findings
    BY <2>1
  <2> QED
    BY <2>2 DEF Findings
<1>4. run.sources \in Seq(Captures) /\ run.requirements \in Seq(Requirements) /\ run.findings \in Seq(Findings)
  BY <1>1 DEF Identified
<1>5. \A list \in {run.sources, run.requirements, run.findings} : DOMAIN list \subseteq Nat /\ IsFiniteSet(DOMAIN list)
  BY <1>2, <1>4
<1> QED
  BY <1>2, <1>3, <1>5

LEMMA FindingsArePlaced ==
  ASSUME run \in Snapshots, run # None, NEW i \in DOMAIN run.findings
  PROVE  Placed(FindingEdges(i)) /\ \A e \in FindingEdges(i) : e.at[1] = 3 /\ e.at[2] = i
<1> DEFINE f == run.findings[i]
           sole == {k \in Checked(f) : Checked(f) = {k}}
           checkOf == [j \in sole |-> Edge(FindingId(f), RequirementId(run.requirements[j]), "checks", <<3, i, 1>>)]
           cite == Edge(FindingId(f), SourceOf(f.source), "cites", <<3, i, 2>>)
           observed == [j \in DOMAIN f.evidence |-> Edge(FindingId(f), SourceOf(f.evidence[j]), "observes", <<3, i, 2 + j>>)]
           review == Edge(ReviewId(f), FindingId(f), "reviews", <<3, i, 3 + Len(f.evidence)>>)
           edges == FindingEdges(i)
<1>1. edges = {checkOf[j] : j \in sole} \cup {cite} \cup {observed[j] : j \in DOMAIN f.evidence} \cup {review}
  BY DEF FindingEdges
<1>2. /\ \A j \in sole : checkOf[j].at = <<3, i, 1>>
      /\ cite.at = <<3, i, 2>> /\ review.at = <<3, i, 3 + Len(f.evidence)>>
      /\ \A j \in DOMAIN f.evidence : observed[j].at = <<3, i, 2 + j>>
  BY DEF Edge
<1>3. \A j, k \in sole : j = k
  OBVIOUS
<1>4. /\ IsFiniteSet(sole) /\ IsFiniteSet(DOMAIN f.evidence) /\ i \in Nat
      /\ Len(f.evidence) \in Nat /\ \A j \in DOMAIN f.evidence : j \in Nat \ {0} /\ j <= Len(f.evidence)
  <2>1. sole \in SUBSET DOMAIN run.requirements
    BY DEF Checked
  <2>2. IsFiniteSet(DOMAIN run.requirements) /\ DOMAIN run.findings \subseteq Nat
    BY AnalysisLists
  <2>3. IsFiniteSet(sole)
    BY <2>1, <2>2, FS_Subset
  <2> QED
    BY <2>2, <2>3, AnalysisLists
<1>5. DOMAIN checkOf = sole /\ DOMAIN observed = DOMAIN f.evidence
  OBVIOUS
<1> HIDE DEF f, sole, checkOf, cite, observed, review, edges
<1>6. IsFiniteSet(edges)
  <2>1. IsFiniteSet({checkOf[j] : j \in sole}) /\ IsFiniteSet({observed[j] : j \in DOMAIN f.evidence})
    BY <1>4, <1>5, FiniteImage
  <2>2. IsFiniteSet({cite}) /\ IsFiniteSet({review})
    BY FS_Singleton
  <2> QED
    BY <1>1, <2>1, <2>2, FS_Union
<1> DEFINE Kind(e, k) ==
             \/ k = 1 /\ \E j \in sole : e = checkOf[j]
             \/ k = 2 /\ e = cite
             \/ \E j \in DOMAIN f.evidence : k = 2 + j /\ e = observed[j]
             \/ k = 3 + Len(f.evidence) /\ e = review
<1>7. \A e \in edges : \E k \in Nat : e.at = <<3, i, k>> /\ Kind(e, k)
  <2>1. \A j \in sole : checkOf[j].at = <<3, i, 1>> /\ Kind(checkOf[j], 1)
    BY <1>2
  <2>2. cite.at = <<3, i, 2>> /\ Kind(cite, 2)
    BY <1>2
  <2>3. \A j \in DOMAIN f.evidence : observed[j].at = <<3, i, 2 + j>> /\ Kind(observed[j], 2 + j) /\ 2 + j \in Nat
    BY <1>2, <1>4
  <2>4. review.at = <<3, i, 3 + Len(f.evidence)>> /\ Kind(review, 3 + Len(f.evidence)) /\ 3 + Len(f.evidence) \in Nat
    BY <1>2, <1>4
  <2> HIDE DEF Kind
  <2> QED
    BY <1>1, <2>1, <2>2, <2>3, <2>4
<1>8. \A k \in Nat : \A d, e : Kind(d, k) /\ Kind(e, k) => d = e
  BY <1>3, <1>4
<1> HIDE DEF Kind
<1>9. \A k \in Nat : <<3, i, k>> \in GraphPlaces
  <2>1. i \in Nat
    BY <1>4
  <2> QED
    BY <2>1 DEF GraphPlaces
<1>10. ASSUME NEW e \in edges PROVE e.at \in GraphPlaces /\ e.at[1] = 3 /\ e.at[2] = i
  <2>1. PICK k \in Nat : e.at = <<3, i, k>>
    BY <1>7
  <2> QED
    BY <2>1, <1>9
<1>11. \A d, e \in edges : d.at = e.at => d = e
  BY <1>7, <1>8
<1> QED
  BY <1>6, <1>10, <1>11 DEF Placed, edges

LEMMA AnalysisIsClosed ==
  ASSUME run \in Snapshots
  PROVE  LET graph == AnalysisGraph
         IN ClosedGraph(graph) /\ graph.warned = FALSE /\ \A x \in graph.nodes : x.id[1] # "entity"
<1>1. CASE run = None
  <2>1. \A x \in EmptyGraph.nodes : x.id[1] # "entity"
    BY EmptyIsClosed DEF Node, Project
  <2> QED
    BY <1>1, <2>1, EmptyIsClosed DEF AnalysisGraph
<1>2. CASE run # None
  <2> DEFINE S == DOMAIN run.sources
             Q == DOMAIN run.requirements
             F == DOMAIN run.findings
             Reviewed == {i \in F : run.findings[i].reviewed}
             root == Node(Project, None, <<0, 0, 0>>)
             sourceOf == [i \in S |-> Node(SourceOf(run.sources[i]), run.sources[i], <<1, i, 1>>)]
             requirementOf == [i \in Q |-> Node(RequirementId(run.requirements[i]), run.requirements[i].source, <<2, i, 1>>)]
             findingOf == [i \in F |-> Node(FindingId(run.findings[i]), run.findings[i].source, <<3, i, 1>>)]
             reviewOf == [i \in Reviewed |-> Node(ReviewId(run.findings[i]), None, <<3, i, 2>>)]
             capturesOf == [i \in S |-> Edge(Project, SourceOf(run.sources[i]), "captures", <<1, i, 1>>)]
             citesOf == [i \in Q |-> Edge(RequirementId(run.requirements[i]), SourceOf(run.requirements[i].source), "cites", <<2, i, 1>>)]
             edgesOf == [i \in F |-> FindingEdges(i)]
             nodes == {root} \cup AnalysisNodes
             edges == AnalysisEdges
  <2>1. /\ S \subseteq Nat /\ Q \subseteq Nat /\ F \subseteq Nat /\ Reviewed \subseteq F
        /\ IsFiniteSet(S) /\ IsFiniteSet(Q) /\ IsFiniteSet(F) /\ IsFiniteSet(Reviewed)
    <3>1. S \subseteq Nat /\ Q \subseteq Nat /\ F \subseteq Nat /\ IsFiniteSet(S) /\ IsFiniteSet(Q) /\ IsFiniteSet(F)
      BY <1>2, AnalysisLists
    <3>2. Reviewed \in SUBSET F
      OBVIOUS
    <3> QED
      BY <3>1, <3>2, FS_Subset
  <2>2. \A i \in F : Placed(edgesOf[i]) /\ \A e \in edgesOf[i] : e.at[1] = 3 /\ e.at[2] = i
    BY <1>2, FindingsArePlaced
  <2>3. /\ \A i \in S : sourceOf[i].at = <<1, i, 1>> /\ sourceOf[i].id = <<"source", run.sources[i]>> /\ capturesOf[i].at = <<1, i, 1>>
        /\ \A i \in Q : /\ requirementOf[i].at = <<2, i, 1>> /\ requirementOf[i].id = <<"requirement", run.requirements[i].id>>
                       /\ citesOf[i].at = <<2, i, 1>>
        /\ \A i \in F : findingOf[i].at = <<3, i, 1>> /\ findingOf[i].id = <<"finding", run.findings[i].id>>
        /\ \A i \in Reviewed : reviewOf[i].at = <<3, i, 2>> /\ reviewOf[i].id = <<"review", run.findings[i].id>>
        /\ root.at = <<0, 0, 0>> /\ root.id = <<"project">>
    BY DEF Node, Edge, SourceOf, RequirementId, FindingId, ReviewId, Project
  <2>4. /\ \A i, j \in S : run.sources[i] = run.sources[j] => i = j
        /\ \A i, j \in Q : run.requirements[i].id = run.requirements[j].id => i = j
        /\ \A i, j \in F : run.findings[i].id = run.findings[j].id => i = j
    BY <1>2, GraphAssumption DEF Identified, Distinct
  <2>5. AnalysisNodes = {sourceOf[i] : i \in S} \cup {requirementOf[i] : i \in Q}
                        \cup {findingOf[i] : i \in F} \cup {reviewOf[i] : i \in Reviewed}
    <3>1. UNION {FindingNodes(i) : i \in F} = {findingOf[i] : i \in F} \cup {reviewOf[i] : i \in Reviewed}
      <4>1. \A i \in F : FindingNodes(i) = {findingOf[i]} \cup IF i \in Reviewed THEN {reviewOf[i]} ELSE {}
        BY DEF FindingNodes
      <4> HIDE DEF findingOf, reviewOf
      <4> QED
        BY <4>1
    <3> QED
      BY <3>1 DEF AnalysisNodes
  <2>6. edges = {capturesOf[i] : i \in S} \cup {citesOf[i] : i \in Q} \cup UNION {edgesOf[i] : i \in F}
    BY DEF AnalysisEdges
  <2>7. /\ DOMAIN sourceOf = S /\ DOMAIN requirementOf = Q /\ DOMAIN findingOf = F /\ DOMAIN reviewOf = Reviewed
        /\ DOMAIN capturesOf = S /\ DOMAIN citesOf = Q /\ DOMAIN edgesOf = F
    OBVIOUS
  <2>8. \A i \in Reviewed : i \in F
    OBVIOUS
  <2> HIDE DEF S, Q, F, Reviewed, root, sourceOf, requirementOf, findingOf, reviewOf, capturesOf, citesOf, edgesOf, edges
  <2>9. \A x \in nodes : \/ x = root /\ x.at = <<0, 0, 0>> /\ x.id = <<"project">>
                         \/ \E i \in S : x = sourceOf[i] /\ x.at = <<1, i, 1>> /\ x.id = <<"source", run.sources[i]>>
                         \/ \E i \in Q : x = requirementOf[i] /\ x.at = <<2, i, 1>> /\ x.id = <<"requirement", run.requirements[i].id>>
                         \/ \E i \in F : x = findingOf[i] /\ x.at = <<3, i, 1>> /\ x.id = <<"finding", run.findings[i].id>>
                         \/ \E i \in Reviewed : x = reviewOf[i] /\ x.at = <<3, i, 2>> /\ x.id = <<"review", run.findings[i].id>>
    BY <2>3, <2>5
  <2>10. Placed(nodes) /\ UniqueIds(nodes)
    <3>1. IsFiniteSet(nodes)
      <4>1. /\ IsFiniteSet({sourceOf[i] : i \in S}) /\ IsFiniteSet({requirementOf[i] : i \in Q})
            /\ IsFiniteSet({findingOf[i] : i \in F}) /\ IsFiniteSet({reviewOf[i] : i \in Reviewed})
        BY <2>1, <2>7, FiniteImage
      <4>2. IsFiniteSet(AnalysisNodes)
        BY <2>5, <4>1, FS_Union
      <4> QED
        BY <4>2, FS_Singleton, FS_Union
    <3>2. \A x \in nodes : x.at \in GraphPlaces
      <4>1. \A i \in Nat : <<1, i, 1>> \in GraphPlaces /\ <<2, i, 1>> \in GraphPlaces /\ <<3, i, 1>> \in GraphPlaces /\ <<3, i, 2>> \in GraphPlaces
        BY DEF GraphPlaces
      <4>2. <<0, 0, 0>> \in GraphPlaces
        BY DEF GraphPlaces
      <4> QED
        BY <2>1, <2>9, <4>1, <4>2
    <3>3. \A x, y \in nodes : x.at = y.at => x = y
      BY <2>9
    <3>4. \A x, y \in nodes : x.id = y.id => x = y
      BY <2>4, <2>8, <2>9
    <3> QED
      BY <3>1, <3>2, <3>3, <3>4 DEF Placed, UniqueIds
  <2>11. Placed(edges)
    <3> DEFINE found == UNION {edgesOf[i] : i \in F}
    <3>1. IsFiniteSet(found)
      <4> DEFINE Parts == {edgesOf[i] : i \in F}
      <4>1. IsFiniteSet(Parts)
        BY <2>1, <2>7, FiniteImage
      <4>2. \A part \in Parts : IsFiniteSet(part)
        BY <2>2 DEF Placed
      <4> HIDE DEF Parts
      <4>3. IsFiniteSet(UNION Parts)
        BY <4>1, <4>2, FS_UNION
      <4> QED
        BY <4>3 DEF Parts
    <3>2. \A e \in found : e.at \in GraphPlaces /\ e.at[1] = 3 /\ e.at[2] \in F /\ e \in edgesOf[e.at[2]]
      BY <2>2 DEF Placed
    <3>3. \A d, e \in found : d.at = e.at => d = e
      BY <2>2, <3>2 DEF Placed
    <3> HIDE DEF found
    <3>4. \A e \in edges : \/ \E i \in S : e = capturesOf[i] /\ e.at = <<1, i, 1>>
                           \/ \E i \in Q : e = citesOf[i] /\ e.at = <<2, i, 1>>
                           \/ e \in found
      BY <2>3, <2>6 DEF found
    <3>5. IsFiniteSet(edges)
      <4>1. IsFiniteSet({capturesOf[i] : i \in S}) /\ IsFiniteSet({citesOf[i] : i \in Q})
        BY <2>1, <2>7, FiniteImage
      <4> QED
        BY <2>6, <3>1, <4>1, FS_Union DEF found
    <3>6. \A e \in edges : e.at \in GraphPlaces
      <4>1. \A i \in Nat : <<1, i, 1>> \in GraphPlaces /\ <<2, i, 1>> \in GraphPlaces
        BY DEF GraphPlaces
      <4> QED
        BY <2>1, <3>2, <3>4, <4>1
    <3>7. \A d, e \in edges : d.at = e.at => d = e
      BY <3>2, <3>3, <3>4
    <3> QED
      BY <3>5, <3>6, <3>7 DEF Placed
  <2>12. LET graph == AnalysisGraph
         IN ClosedGraph(graph) /\ graph.nodes = nodes /\ graph.warned = FALSE
    <3>1. EmptyGraph.nodes \cup AnalysisNodes = nodes
      BY EmptyIsClosed DEF root
    <3>2. /\ EmptyGraph.edges = {} /\ ClosedGraph(EmptyGraph) /\ EmptyGraph.warned = FALSE
      BY EmptyIsClosed
    <3>3. AnalysisGraph = AddEdges(AddNodes(EmptyGraph, AnalysisNodes), edges)
      BY <1>2 DEF AnalysisGraph, edges
    <3>4. Placed(EmptyGraph.nodes \cup AnalysisNodes) /\ UniqueIds(EmptyGraph.nodes \cup AnalysisNodes)
      BY <2>10, <3>1
    <3>5. \A d \in EmptyGraph.edges, e \in edges : Before(d.at, e.at)
      BY <3>2
    <3> DEFINE added == AddEdges(AddNodes(EmptyGraph, AnalysisNodes), edges)
    <3>6. ClosedGraph(added) /\ added.nodes = EmptyGraph.nodes \cup AnalysisNodes /\ added.warned = FALSE
      BY <2>11, <3>2, <3>4, <3>5, AddedAreClosed
    <3> HIDE DEF nodes
    <3> QED
      BY <3>1, <3>3, <3>6
  <2>13. \A x \in nodes : x.id[1] # "entity"
    BY <2>9
  <2> QED
    BY <2>12, <2>13
<1> QED
  BY <1>1, <1>2

-----------------------------------------------------------------------------
(* The inductive invariant.                                                *)

\* What waits for the concepts is a graph of the memory then, which shows what was asked for.
GraphInv ==
  /\ GraphTypeOK /\ GraphHolds /\ MemoryInv /\ run \in Snapshots
  /\ request # None => ClosedGraph(request.graph) /\ Recorded(request.graph) /\ Indexable(request.graph, request.indexed)

LEMMA AnswerHolds ==
  ASSUME NEW graph, ClosedGraph(graph), graph.warned => Entities(graph) = {},
         \A x \in Entities(graph) :
           /\ x.capture = x.dataset
           /\ \E e \in graph.edges : e.from = SourceOf(x.dataset) /\ e.to = x.id,
         answer' = Limited(graph)
  PROVE  GraphHolds' /\ answer'.truncated \in BOOLEAN /\ answer'.warned \in BOOLEAN
<1> DEFINE limited == Limited(graph)
<1>1. /\ ClosedGraph(limited)
      /\ Cardinality(limited.nodes) <= MaxGraphNodes /\ Cardinality(limited.edges) <= MaxGraphEdges
      /\ limited.nodes \subseteq graph.nodes /\ limited.warned = graph.warned
      /\ ~limited.truncated => limited.nodes = graph.nodes /\ limited.edges = graph.edges
  BY LimitedIsClosed
<1> HIDE DEF limited
<1>2. answer' = limited
  BY DEF limited
<1>3. limited.truncated \in BOOLEAN /\ limited.warned \in BOOLEAN
  BY <1>1 DEF ClosedGraph, IsGraph
<1>4. GraphIsClosed'
  BY <1>1, <1>2 DEF GraphIsClosed, ClosedGraph, UniqueIds
<1>5. Entities(limited) \subseteq Entities(graph)
  BY <1>1 DEF Entities
<1>6. ConceptsOfTheirCapture'
  BY <1>1, <1>2, <1>5 DEF ConceptsOfTheirCapture
<1> QED
  BY <1>2, <1>3, <1>4, <1>6 DEF GraphHolds

LEMMA IndexedAreShown ==
  ASSUME MemoryInv, NEW scope
  PROVE  Indexable(CurrentMemory(scope), IndexedNow(scope))
<1> DEFINE graph == CurrentMemory(scope)
           Ready == {k \in Included(scope) : memory[k].approved /\ memory[k].ready /\ memory[k].capture # None}
           entryOf == [i \in Ready |-> [registration |-> i, dataset |-> memory[i].capture]]
<1>1. \A i \in Included(scope) : \E x \in graph.nodes : x.id = RegistrationId(i)
  BY CurrentIsClosed
<1> HIDE DEF graph
<1>2. DOMAIN memory \subseteq Nat /\ IsFiniteSet(DOMAIN memory) /\ \A i \in DOMAIN memory : memory[i] \in Registrations
  <2>1. DOMAIN memory = 1..Len(memory) /\ Len(memory) \in Nat
    BY DEF MemoryInv
  <2>2. \A i \in DOMAIN memory : memory[i] \in Registrations
    BY DEF MemoryInv
  <2> QED
    BY <2>1, <2>2, FS_Interval
<1>3. Ready \subseteq DOMAIN memory /\ IsFiniteSet(Ready)
  <2>1. Ready \in SUBSET DOMAIN memory
    BY DEF Included
  <2> QED
    BY <2>1, <1>2, FS_Subset
<1>4. IndexedNow(scope) = {entryOf[i] : i \in Ready} /\ DOMAIN entryOf = Ready
  BY DEF IndexedNow
<1>5. IsFiniteSet(IndexedNow(scope))
  <2> HIDE DEF entryOf, Ready
  <2> QED
    BY <1>3, <1>4, FiniteImage
<1>6. ASSUME NEW i \in Ready
      PROVE  i \in Nat /\ memory[i].capture \in Captures /\ SourceOf(memory[i].capture) \in Ids(graph)
  <2>1. memory[i].capture \in Captures
    BY <1>2, <1>3 DEF Registrations
  <2>2. RegistrationId(i) = SourceOf(memory[i].capture)
    BY DEF RegistrationId
  <2> QED
    BY <1>1, <1>2, <1>3, <2>1, <2>2 DEF Ids
<1>7. \A i, j \in Ready : memory[i].capture = memory[j].capture => i = j
  BY <1>3 DEF MemoryInv, OwnCaptures
<1>8. \A i \in Ready : entryOf[i].registration = i /\ entryOf[i].dataset = memory[i].capture
  OBVIOUS
<1> HIDE DEF entryOf, Ready
<1>9. \A d \in IndexedNow(scope) : d.registration \in Nat /\ d.dataset \in Captures /\ SourceOf(d.dataset) \in Ids(graph)
  BY <1>4, <1>6, <1>8
<1>10. \A d, e \in IndexedNow(scope) : d.dataset = e.dataset \/ d.registration = e.registration => d = e
  BY <1>4, <1>7, <1>8
<1> QED
  BY <1>5, <1>9, <1>10 DEF Indexable, graph

LEMMA WarnedIsClosed ==
  ASSUME NEW graph, ClosedGraph(graph), Recorded(graph)
  PROVE  LET warned == [graph EXCEPT !.warned = TRUE] IN ClosedGraph(warned) /\ Entities(warned) = {}
<1> DEFINE warned == [graph EXCEPT !.warned = TRUE]
<1>1. warned = [nodes |-> graph.nodes, edges |-> graph.edges, truncated |-> graph.truncated, warned |-> TRUE]
  <2>1. graph = [nodes |-> graph.nodes, edges |-> graph.edges, truncated |-> graph.truncated, warned |-> graph.warned]
    BY DEF ClosedGraph, IsGraph
  <2>2. \A b : [graph EXCEPT !.warned = b]
               = [nodes |-> graph.nodes, edges |-> graph.edges, truncated |-> graph.truncated, warned |-> b]
    BY <2>1
  <2> QED
    BY <2>2, Zenon
<1> HIDE DEF warned
<1>2. \A e : Joined(warned, e) <=> Joined(graph, e)
  BY <1>1 DEF Joined, Ids
<1>3. IsGraph(warned) /\ warned.nodes = graph.nodes /\ warned.edges = graph.edges
  BY <1>1 DEF IsGraph, ClosedGraph
<1> QED
  BY <1>2, <1>3 DEF ClosedGraph, Entities, Recorded, warned

\* The memory keeps its type, and no capture gets a second registration.
LEMMA MemoryStep ==
  ASSUME MemoryInv, NEW i \in DOMAIN memory, NEW registration \in Registrations, Alter(i, registration),
         \/ registration.capture = memory[i].capture
         \/ \A j \in DOMAIN memory : memory[j].capture # registration.capture
  PROVE  MemoryInv'
<1>1. memory' = [memory EXCEPT ![i] = registration]
  BY DEF Alter
<1>2. memory' \in Seq(Registrations) /\ DOMAIN memory' = DOMAIN memory
  BY <1>1 DEF MemoryInv
<1>3. \A j \in DOMAIN memory : memory'[j] = IF j = i THEN registration ELSE memory[j]
  BY <1>1 DEF MemoryInv
<1>4. OwnCaptures(memory')
  BY <1>2, <1>3 DEF MemoryInv, OwnCaptures
<1> QED
  BY <1>2, <1>4 DEF MemoryInv

\* Every step keeps the invariant.
THEOREM GraphInvariant == GraphSpec => []GraphInv
<1>1. GraphInit => GraphInv
  <2> SUFFICES ASSUME GraphInit PROVE GraphInv
    OBVIOUS
  <2>1. MemoryInv
    BY GraphAssumption DEF GraphInit, MemoryInv
  <2> QED
    BY <2>1, GraphAssumption DEF GraphInit, GraphInv, GraphTypeOK, GraphHolds, GraphIsClosed, ConceptsOfTheirCapture
<1>2. GraphInv /\ [GraphNext]_graphVars => GraphInv'
  <2> SUFFICES ASSUME GraphInv, [GraphNext]_graphVars PROVE GraphInv'
    OBVIOUS
  <2>1. CASE ShowAnalysis
    <3>1. ClosedGraph(AnalysisGraph) /\ AnalysisGraph.warned = FALSE /\ Entities(AnalysisGraph) = {}
      BY AnalysisIsClosed DEF GraphInv, Entities
    <3>2. GraphHolds' /\ GraphTypeOK'
      BY <2>1, <3>1, AnswerHolds DEF ShowAnalysis, GraphTypeOK, GraphInv
    <3> QED
      BY <2>1, <3>2 DEF ShowAnalysis, GraphInv, MemoryInv
  <2>2. CASE ExtractGraph
    <3> DEFINE graph == Enriched(request.graph, request.indexed)
    <3>1. /\ ClosedGraph(graph) /\ graph.warned = FALSE
          /\ \A x \in Entities(graph) :
               x.capture = x.dataset /\ \E e \in graph.edges : e.from = SourceOf(x.dataset) /\ e.to = x.id
      BY <2>2, EnrichedIsClosed DEF ExtractGraph, GraphInv
    <3> HIDE DEF graph
    <3>2. GraphHolds' /\ GraphTypeOK'
      BY <2>2, <3>1, AnswerHolds DEF ExtractGraph, GraphTypeOK, GraphInv, graph
    <3> QED
      BY <2>2, <3>2 DEF ExtractGraph, GraphInv, MemoryInv
  <2>3. CASE ExtractFails
    <3> DEFINE graph == [request.graph EXCEPT !.warned = TRUE]
    <3>1. ClosedGraph(graph) /\ Entities(graph) = {}
      BY <2>3, WarnedIsClosed DEF ExtractFails, GraphInv
    <3> HIDE DEF graph
    <3>2. GraphHolds' /\ GraphTypeOK'
      BY <2>3, <3>1, AnswerHolds DEF ExtractFails, GraphTypeOK, GraphInv, graph
    <3> QED
      BY <2>3, <3>2 DEF ExtractFails, GraphInv, MemoryInv
  <2>4. ASSUME NEW scope \in {"project", "shared"}, NEW concepts \in BOOLEAN, AskGraph(scope, concepts) PROVE GraphInv'
    <3>1. ClosedGraph(CurrentMemory(scope)) /\ Recorded(CurrentMemory(scope)) /\ Entities(CurrentMemory(scope)) = {}
      BY CurrentIsClosed DEF GraphInv, Recorded, Entities
    <3>2. CASE answer' = Limited(CurrentMemory(scope)) /\ UNCHANGED request
      <4>1. GraphHolds' /\ GraphTypeOK'
        BY <2>4, <3>1, <3>2, AnswerHolds DEF AskGraph, GraphTypeOK, GraphInv
      <4> QED
        BY <2>4, <3>2, <4>1 DEF AskGraph, GraphInv, MemoryInv
    <3>3. CASE request' = [graph |-> CurrentMemory(scope), indexed |-> IndexedNow(scope)] /\ UNCHANGED answer
      <4>1. Indexable(CurrentMemory(scope), IndexedNow(scope))
        BY IndexedAreShown DEF GraphInv
      <4>2. /\ ClosedGraph(request'.graph) /\ Recorded(request'.graph) /\ Indexable(request'.graph, request'.indexed)
        BY <3>1, <3>3, <4>1
      <4> QED
        BY <2>4, <3>3, <4>2 DEF AskGraph, GraphInv, MemoryInv, GraphTypeOK, GraphHolds, GraphIsClosed, ConceptsOfTheirCapture
    <3> QED
      BY <2>4, <3>2, <3>3 DEF AskGraph
  <2>5. ASSUME NEW i \in DOMAIN memory, Withdraw(i) \/ \E c \in Captures : Publish(i, c) PROVE GraphInv'
    <3>1. memory[i] \in Registrations
      BY DEF GraphInv, MemoryInv
    <3>2. MemoryInv' /\ changes' \in 0..MaxChanges /\ UNCHANGED <<run, request, answer>>
      <4>1. CASE Withdraw(i)
        <5> DEFINE registration == [memory[i] EXCEPT !.withdrawn = TRUE, !.ready = FALSE]
        <5>1. registration \in Registrations /\ registration.capture = memory[i].capture
          BY <3>1 DEF Registrations
        <5>2. Alter(i, registration)
          BY <4>1 DEF Withdraw
        <5> HIDE DEF registration
        <5>3. MemoryInv'
          BY <5>1, <5>2, MemoryStep DEF GraphInv
        <5> QED
          BY <5>2, <5>3, GraphAssumption DEF GraphInv, GraphTypeOK, Alter
      <4>2. ASSUME NEW c \in Captures, Publish(i, c) PROVE MemoryInv' /\ changes' \in 0..MaxChanges /\ UNCHANGED <<run, request, answer>>
        <5> DEFINE registration == [memory[i] EXCEPT !.capture = c, !.ready = TRUE]
        <5>1. registration \in Registrations /\ registration.capture = c
          BY <3>1 DEF Registrations
        <5>2. Alter(i, registration) /\ \A j \in DOMAIN memory : memory[j].capture # c
          BY <4>2 DEF Publish
        <5> HIDE DEF registration
        <5>3. MemoryInv'
          BY <5>1, <5>2, MemoryStep DEF GraphInv
        <5> QED
          BY <5>2, <5>3, GraphAssumption DEF GraphInv, GraphTypeOK, Alter
      <4> QED
        BY <2>5, <4>1, <4>2
    <3> QED
      BY <3>2 DEF GraphInv, GraphTypeOK, GraphHolds, GraphIsClosed, ConceptsOfTheirCapture
  <2>6. CASE UNCHANGED graphVars
    BY <2>6 DEF graphVars, GraphInv, MemoryInv, GraphTypeOK, GraphHolds, GraphIsClosed, ConceptsOfTheirCapture
  <2> QED
    BY <2>1, <2>2, <2>3, <2>4, <2>5, <2>6 DEF GraphNext
<1> QED
  BY <1>1, <1>2, PTL DEF GraphSpec

\* However the memory changes while the concepts are asked for, and wherever a graph is cut
\* off, its edges join what it shows, and a concept is shown at the capture it comes from
\* (addExtractedGraph, limitGraph).
THEOREM GraphsAreClosed == GraphSpec => []GraphHolds
<1>1. GraphInv => GraphHolds
  BY DEF GraphInv
<1> QED
  BY <1>1, GraphInvariant, PTL
=============================================================================
