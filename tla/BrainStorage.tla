---------------------------- MODULE BrainStorage -----------------------------
(***************************************************************************)
(* Brain's records in PostgreSQL (server/src/brain/persistence.ts): one    *)
(* server holds an advisory lock as long as its connection lives, reads    *)
(* from an image in memory, and writes through a chain of transactions.    *)
(* The server that runs may lose its connection while a second one is      *)
(* started.                                                                *)
(*                                                                         *)
(* Abstractions: a record is a counter, and a transaction reads every      *)
(* record in its own copy of the image, adds one and puts it; a put on its *)
(* own and the removal of a record are transactions of one statement.      *)
(* PostgreSQL is external: a session dies with the transaction it had not  *)
(* committed, and its lock is free from then on.                           *)
(***************************************************************************)
EXTENDS Integers, Sequences

CONSTANTS
  Servers, Records,
  StoragePlans,    \* what may happen: records of budgets
  Nobody

StorageAssumption == Nobody \notin Servers
ASSUME StorageHypothesis == StorageAssumption

VARIABLES
  database,    \* the committed records
  written,     \* for each server the rows of its open transaction, or Nobody
  locked,      \* the server whose session holds the advisory lock
  session,     \* the servers whose session lives at PostgreSQL
  serverUp,    \* the servers that have loaded the image and answer requests
  image,       \* for each server what it reads outside a transaction
  failed,      \* connectionFailed: the servers that know they lost their session
  chain,       \* for each server the transactions in its chain: how many records the first has put
  copy,        \* for each server the image of the transaction it runs
  commits,     \* history: transactions PostgreSQL has committed
  storageBudget

postgres == <<database, written, locked, session>>
storageVars == <<postgres, serverUp, image, failed, chain, copy, commits, storageBudget>>

Afford(what) == storageBudget[what] > 0 /\ storageBudget' = [storageBudget EXCEPT ![what] = @ - 1]

Waiting == [begun |-> FALSE, put |-> {}]
Running(s) == s \in serverUp /\ chain[s] # <<>>
Reached(s) == s \in session
Healthy(s) == s \notin failed

\* The first of the chain has ended; the next one takes its turn.
Ends(s) == chain' = [chain EXCEPT ![s] = Tail(@)]
Becomes(s, transaction) == chain' = [chain EXCEPT ![s][1] = transaction]

-----------------------------------------------------------------------------
\* (mutant) the answer of pg_try_advisory_lock is not looked at.
StartServerAnyway(s) ==
  /\ s \notin serverUp
  /\ locked' = IF locked = Nobody THEN s ELSE locked
  /\ session' = session \cup {s}
  /\ serverUp' = serverUp \cup {s}
  /\ image' = [image EXCEPT ![s] = database]
  /\ UNCHANGED <<database, written, failed, chain, copy, commits, storageBudget>>

\* init(): without the lock the server does not start.
StartServer(s) ==
  /\ s \notin serverUp
  /\ locked = Nobody
  /\ locked' = s /\ session' = session \cup {s}
  /\ serverUp' = serverUp \cup {s}
  /\ image' = [image EXCEPT ![s] = database]
  /\ UNCHANGED <<database, written, failed, chain, copy, commits, storageBudget>>

\* A request joins the chain; what is not healthy throws at once.
RequestWrite(s) ==
  /\ s \in serverUp /\ Healthy(s) /\ Afford("requests")
  /\ chain' = [chain EXCEPT ![s] = Append(@, Waiting)]
  /\ UNCHANGED <<postgres, serverUp, image, failed, copy, commits>>

\* The copy of the image is made when it is the transaction's turn.
BeginWrite(s) ==
  /\ Running(s) /\ ~Head(chain[s]).begun
  /\ IF Healthy(s)
     THEN /\ Reached(s)
          /\ copy' = [copy EXCEPT ![s] = image[s]]
          /\ written' = [written EXCEPT ![s] = database]
          /\ Becomes(s, [Waiting EXCEPT !.begun = TRUE])
     ELSE Ends(s) /\ UNCHANGED <<copy, written>>
  /\ UNCHANGED <<database, locked, session, serverUp, image, failed, commits, storageBudget>>

PutRecord(s, r) ==
  /\ Running(s) /\ Head(chain[s]).begun /\ r \notin Head(chain[s]).put
  /\ Reached(s)
  /\ written' = [written EXCEPT ![s][r] = copy[s][r] + 1]
  /\ copy' = [copy EXCEPT ![s][r] = @ + 1]
  /\ Becomes(s, [Head(chain[s]) EXCEPT !.put = @ \cup {r}])
  /\ UNCHANGED <<database, locked, session, serverUp, image, failed, commits, storageBudget>>

Complete(s) == Running(s) /\ Head(chain[s]).begun /\ Head(chain[s]).put = Records /\ Reached(s)

\* The image is replaced after the commit; then the callbacks of the transaction run.
CommitWrite(s) ==
  /\ Complete(s)
  /\ database' = written[s] /\ commits' = commits + 1
  /\ written' = [written EXCEPT ![s] = Nobody]
  /\ image' = [image EXCEPT ![s] = copy[s]]
  /\ Ends(s)
  /\ UNCHANGED <<locked, session, serverUp, failed, copy, storageBudget>>

\* (mutant) the copy of the image is kept.
RollBackTheDatabase(s) ==
  /\ Running(s) /\ Head(chain[s]).begun /\ Reached(s)
  /\ Afford("errors")
  /\ written' = [written EXCEPT ![s] = Nobody]
  /\ image' = [image EXCEPT ![s] = copy[s]]
  /\ Ends(s)
  /\ UNCHANGED <<database, locked, session, serverUp, failed, copy, commits>>

\* A statement fails or the work throws: the transaction is rolled back, its copy dropped.
RollBack(s) ==
  /\ Running(s) /\ Head(chain[s]).begun /\ Reached(s)
  /\ Afford("errors")
  /\ written' = [written EXCEPT ![s] = Nobody]
  /\ Ends(s)
  /\ UNCHANGED <<database, locked, session, serverUp, image, failed, copy, commits>>

\* The session dies, perhaps right after it has committed and before the answer.
SessionDies(s) ==
  /\ s \in session /\ Afford("drops")
  /\ session' = session \ {s}
  /\ locked' = IF locked = s THEN Nobody ELSE locked
  /\ written' = [written EXCEPT ![s] = Nobody]
  /\ \/ UNCHANGED <<database, commits>>
     \/ Complete(s) /\ database' = written[s] /\ commits' = commits + 1
  /\ UNCHANGED <<serverUp, image, failed, chain, copy>>

\* (mutant) the statement in flight is never answered.
ConnectionErrorUnheard(s) ==
  /\ s \in serverUp /\ ~Reached(s) /\ Healthy(s)
  /\ failed' = failed \cup {s}
  /\ UNCHANGED <<postgres, serverUp, image, chain, copy, commits, storageBudget>>

\* The server hears of it: the statement in flight is rejected.
ConnectionError(s) ==
  /\ s \in serverUp /\ ~Reached(s) /\ Healthy(s)
  /\ failed' = failed \cup {s}
  /\ IF chain[s] # <<>> /\ Head(chain[s]).begun THEN Ends(s) ELSE UNCHANGED chain
  /\ UNCHANGED <<postgres, serverUp, image, copy, commits, storageBudget>>

\* The process ends, and its session with it.
StopServer(s) ==
  /\ s \in serverUp /\ Afford("stops")
  /\ serverUp' = serverUp \ {s}
  /\ session' = session \ {s} /\ locked' = IF locked = s THEN Nobody ELSE locked
  /\ written' = [written EXCEPT ![s] = Nobody]
  /\ failed' = failed \ {s}
  /\ chain' = [chain EXCEPT ![s] = <<>>]
  /\ UNCHANGED <<database, image, copy, commits>>

-----------------------------------------------------------------------------
NoRows == [r \in Records |-> 0]

StorageInit ==
  /\ storageBudget \in StoragePlans
  /\ database = NoRows /\ written = [s \in Servers |-> Nobody] /\ locked = Nobody /\ session = {}
  /\ serverUp = {} /\ failed = {} /\ image = [s \in Servers |-> NoRows] /\ copy = image
  /\ chain = [s \in Servers |-> <<>>] /\ commits = 0

StorageNext ==
  \E s \in Servers :
    \/ StartServer(s) \/ RequestWrite(s) \/ BeginWrite(s) \/ CommitWrite(s) \/ RollBack(s)
    \/ SessionDies(s) \/ ConnectionError(s) \/ StopServer(s)
    \/ \E r \in Records : PutRecord(s, r)

\* What has its turn goes on, and PostgreSQL or the connection answers.
StorageProgress ==
  \E s \in Servers : \/ BeginWrite(s) \/ CommitWrite(s) \/ ConnectionError(s)
                     \/ \E r \in Records : PutRecord(s, r)

StorageSpec == StorageInit /\ [][StorageNext]_storageVars /\ WF_storageVars(StorageProgress)

-----------------------------------------------------------------------------
(* Properties.                                                             *)

\* No update is lost: every committed transaction counted on the rows of all those before it,
\* although it read them in a copy of an image, and another server may have committed since.
NoUpdateIsLost == \A r \in Records : database[r] = commits

\* As long as its session lives, a server reads what is committed, and nothing else: neither
\* the rows of its transaction in progress nor those of one that was rolled back.
ImageIsCommitted == \A s \in Servers \cap session : image[s] = database

\* (both)
CommitsHold == NoUpdateIsLost /\ ImageIsCommitted

\* No transaction blocks the chain, whether it fails, or the connection is lost.
ChainEnds == \A s \in Servers : chain[s] # <<>> ~> chain[s] = <<>>
=============================================================================
