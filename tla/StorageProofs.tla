---------------------------- MODULE StorageProofs ----------------------------
(***************************************************************************)
(* What is stored stays what it is said to be: the storage of Brain, the   *)
(* clone cache, the index at Cognee and the programs that move rows, each  *)
(* in a section with its argument.                                         *)
(*                                                                         *)
(* No committed transaction of Brain is lost, and a server reads what is   *)
(* committed: a proof for any number of servers, records, transactions,    *)
(* lost sessions and restarts.                                             *)
(*                                                                         *)
(* The argument.  A transaction counts on a copy of the image, so it must  *)
(* be the one on the rows that are committed.  That holds because the lock *)
(* lives exactly as long as the session, and a server that has lost its    *)
(* session never gets it back: whoever can commit is the one whose image   *)
(* is what is committed (LockInv, TransactionInv).                         *)
(***************************************************************************)
EXTENDS BrainStorage, GithubCache, Cognee, Migration, FiniteSetTheorems, NaturalsInduction,
        WellFoundedInduction, TLAPS

Rows == [Records -> Nat]
Transactions == [begun : BOOLEAN, put : SUBSET Records]

StorageTypeOK ==
  /\ database \in Rows /\ commits \in Nat
  /\ image \in [Servers -> Rows] /\ copy \in [Servers -> Rows]
  /\ written \in [Servers -> Rows \cup {Nobody}]
  /\ chain \in [Servers -> Seq(Transactions)]
  /\ serverUp \subseteq Servers /\ session \subseteq serverUp /\ failed \subseteq serverUp

\* The lock is held by the one session that lives.
LockInv ==
  /\ \A s \in session : locked = s
  /\ locked # Nobody => locked \in session
  /\ session \cap failed = {}

\* Only the first transaction of a chain has begun, and only a server that is up has one.
ChainInv ==
  \A s \in Servers :
    /\ s \notin serverUp => chain[s] = <<>>
    /\ \A i \in 2..Len(chain[s]) : chain[s][i] = Waiting

\* An open transaction has added one to each of the committed rows that it has put.
Added(put) == [r \in Records |-> IF r \in put THEN commits + 1 ELSE commits]
TransactionInv ==
  \A s \in session :
    chain[s] # <<>> /\ chain[s][1].begun =>
      written[s] = Added(chain[s][1].put) /\ copy[s] = Added(chain[s][1].put)

StorageInv ==
  /\ StorageTypeOK /\ LockInv /\ ChainInv /\ TransactionInv
  /\ database = Added({})
  /\ \A s \in session : image[s] = database

-----------------------------------------------------------------------------
(* Lemmas on chains and rows.                                              *)

LEMMA TailWaits ==
  ASSUME NEW q \in Seq(Transactions), q # <<>>, \A i \in 2..Len(q) : q[i] = Waiting
  PROVE  Tail(q) \in Seq(Transactions) /\ \A i \in 1..Len(Tail(q)) : Tail(q)[i] = Waiting
<1>1. Tail(q) \in Seq(Transactions) /\ Len(Tail(q)) = Len(q) - 1 /\ Len(q) \in Nat
  OBVIOUS
<1>2. \A i \in 1..Len(Tail(q)) : Tail(q)[i] = q[i + 1] /\ i + 1 \in 2..Len(q)
  BY <1>1
<1> QED BY <1>1, <1>2

LEMMA WaitingType == Waiting \in Transactions /\ Waiting.begun = FALSE
  BY DEF Waiting, Transactions

\* The first transaction of a chain ends: the next ones have still not begun.
LEMMA ChainEnding ==
  ASSUME StorageTypeOK, ChainInv, NEW s \in Servers, chain[s] # <<>>, Ends(s)
  PROVE  /\ chain' \in [Servers -> Seq(Transactions)]
         /\ \A t \in Servers : t # s => chain'[t] = chain[t]
         /\ \A i \in 1..Len(chain'[s]) : chain'[s][i] = Waiting
         /\ chain'[s] # <<>> => ~chain'[s][1].begun
<1>1. chain[s] \in Seq(Transactions) /\ \A i \in 2..Len(chain[s]) : chain[s][i] = Waiting
  BY DEF StorageTypeOK, ChainInv
<1>2. PICK q \in Seq(Transactions) : q = Tail(chain[s]) /\ \A i \in 1..Len(q) : q[i] = Waiting
  BY <1>1, TailWaits
<1>3. q # <<>> => ~q[1].begun
  <2>1. q # <<>> => 1 \in 1..Len(q)
    OBVIOUS
  <2> QED BY <1>2, <2>1, WaitingType
<1>4. chain' = [chain EXCEPT ![s] = q] /\ chain \in [Servers -> Seq(Transactions)]
  BY <1>2 DEF Ends, StorageTypeOK
<1>5. chain'[s] = q
  BY <1>4
<1>6. chain' \in [Servers -> Seq(Transactions)] /\ \A t \in Servers : t # s => chain'[t] = chain[t]
  BY <1>4
<1>7. \A i \in 1..Len(chain'[s]) : chain'[s][i] = Waiting
  BY <1>2, <1>5
<1> QED BY <1>3, <1>5, <1>6, <1>7

\* The first transaction of a chain goes on.
LEMMA ChainBecoming ==
  ASSUME StorageTypeOK, ChainInv, NEW s \in Servers, chain[s] # <<>>, NEW x \in Transactions, Becomes(s, x)
  PROVE  /\ chain' \in [Servers -> Seq(Transactions)]
         /\ \A t \in Servers : t # s => chain'[t] = chain[t]
         /\ chain'[s] # <<>> /\ chain'[s][1] = x
         /\ \A i \in 2..Len(chain'[s]) : chain'[s][i] = Waiting
<1>1. chain[s] \in Seq(Transactions) /\ \A i \in 2..Len(chain[s]) : chain[s][i] = Waiting
  BY DEF StorageTypeOK, ChainInv
<1> DEFINE q == [chain[s] EXCEPT ![1] = x]
<1>2. Len(chain[s]) \in Nat \ {0}
  BY <1>1
<1>3. /\ q \in Seq(Transactions) /\ Len(q) = Len(chain[s]) /\ q[1] = x
      /\ \A i \in 2..Len(q) : q[i] = chain[s][i]
  BY <1>1, <1>2
<1>4. chain' = [chain EXCEPT ![s] = q]
  BY DEF Becomes
<1> HIDE DEF q
<1>5. chain'[s] = q /\ chain' \in [Servers -> Seq(Transactions)]
  BY <1>3, <1>4 DEF StorageTypeOK
<1>6. q # <<>>
  BY <1>2, <1>3
<1> QED BY <1>1, <1>3, <1>4, <1>5, <1>6 DEF StorageTypeOK

LEMMA AddedRows ==
  ASSUME commits \in Nat
  PROVE  /\ \A put : Added(put) \in Rows
         /\ Added(Records) = [r \in Records |-> commits + 1]
         /\ \A put \in SUBSET Records : \A r \in Records \ put :
              [Added(put) EXCEPT ![r] = Added(put)[r] + 1] = Added(put \cup {r})
<1>1. \A put : Added(put) \in Rows
  BY DEF Added, Rows
<1>2. Added(Records) = [r \in Records |-> commits + 1]
  BY DEF Added
<1>3. ASSUME NEW put \in SUBSET Records, NEW r \in Records \ put
      PROVE  [Added(put) EXCEPT ![r] = Added(put)[r] + 1] = Added(put \cup {r})
  BY DEF Added
<1> QED BY <1>1, <1>2, <1>3

\* At most one session lives; its server has the lock.
LEMMA Alone == ASSUME LockInv, NEW s \in session PROVE session = {s} /\ locked = s /\ s \notin failed
  BY DEF LockInv

-----------------------------------------------------------------------------
(* Each step preserves the invariant.                                      *)

LEMMA StartServerStep ==
  ASSUME StorageAssumption, StorageInv, NEW s \in Servers, StartServer(s)
  PROVE  StorageInv'
<1>1. /\ UNCHANGED <<database, written, failed, chain, copy, commits>>
      /\ locked = Nobody /\ locked' = s /\ session' = session \cup {s} /\ serverUp' = serverUp \cup {s}
      /\ image' = [image EXCEPT ![s] = database] /\ s \notin serverUp
  BY DEF StartServer
<1>2. session = {}
  BY <1>1 DEF StorageInv, StorageTypeOK, LockInv, StorageAssumption
<1>3. StorageTypeOK'
  BY <1>1 DEF StorageInv, StorageTypeOK
<1>4. LockInv'
  BY <1>1, <1>2 DEF StorageInv, StorageTypeOK, LockInv
<1>5. ChainInv' /\ chain[s] = <<>>
  BY <1>1 DEF StorageInv, ChainInv
<1>6. TransactionInv'
  BY <1>1, <1>2, <1>5 DEF TransactionInv
<1>7. (database = Added({}))' /\ (\A t \in session : image[t] = database)'
  BY <1>1, <1>2 DEF StorageInv, StorageTypeOK, Added
<1> QED BY <1>3, <1>4, <1>5, <1>6, <1>7 DEF StorageInv

LEMMA RequestWriteStep ==
  ASSUME StorageInv, NEW s \in Servers, RequestWrite(s)
  PROVE  StorageInv'
<1>1. /\ UNCHANGED <<database, written, locked, session, serverUp, image, failed, copy, commits>>
      /\ chain' = [chain EXCEPT ![s] = Append(chain[s], Waiting)] /\ s \in serverUp
  BY DEF RequestWrite, postgres
<1>2. chain[s] \in Seq(Transactions) /\ Len(chain[s]) \in Nat /\ \A i \in 2..Len(chain[s]) : chain[s][i] = Waiting
  BY DEF StorageInv, StorageTypeOK, ChainInv
<1> DEFINE q == Append(chain[s], Waiting)
<1>3. q \in Seq(Transactions) /\ Len(q) = Len(chain[s]) + 1 /\ q[Len(q)] = Waiting
      /\ \A i \in 1..Len(chain[s]) : q[i] = chain[s][i]
  BY <1>2, WaitingType
<1>4. \A i \in 2..Len(q) : q[i] = Waiting
  BY <1>2, <1>3
<1>5. q[1] = IF chain[s] = <<>> THEN Waiting ELSE chain[s][1]
  BY <1>2, <1>3
<1> HIDE DEF q
<1>6. chain' = [chain EXCEPT ![s] = q] /\ chain'[s] = q /\ \A t \in Servers : t # s => chain'[t] = chain[t]
  BY <1>1 DEF StorageInv, StorageTypeOK, q
<1>7. StorageTypeOK'
  BY <1>1, <1>3, <1>6 DEF StorageInv, StorageTypeOK
<1>8. LockInv' /\ (database = Added({}))' /\ (\A t \in session : image[t] = database)'
  BY <1>1 DEF StorageInv, LockInv, Added
<1>9. ChainInv'
  BY <1>1, <1>4, <1>6 DEF StorageInv, ChainInv
<1>a. TransactionInv'
  <2> SUFFICES ASSUME NEW t \in session, chain'[t] # <<>>, chain'[t][1].begun
               PROVE  written[t] = Added(chain'[t][1].put) /\ copy[t] = Added(chain'[t][1].put)
    <3>1. \A put : Added(put)' = Added(put)
      BY <1>1 DEF Added
    <3> QED BY <1>1, <3>1 DEF TransactionInv
  <2>1. t \in Servers
    BY DEF StorageInv, StorageTypeOK
  <2>2. chain[t] # <<>> /\ chain'[t][1] = chain[t][1]
    BY <1>5, <1>6, <2>1, WaitingType
  <2> QED BY <2>2 DEF StorageInv, TransactionInv
<1> QED BY <1>7, <1>8, <1>9, <1>a DEF StorageInv

LEMMA BeginWriteStep ==
  ASSUME StorageInv, NEW s \in Servers, BeginWrite(s)
  PROVE  StorageInv'
<1>1. /\ UNCHANGED <<database, locked, session, serverUp, image, failed, commits>>
      /\ s \in serverUp /\ chain[s] # <<>>
  BY DEF BeginWrite, Running
<1>2. LockInv' /\ (database = Added({}))' /\ (\A t \in session : image[t] = database)'
  BY <1>1 DEF StorageInv, LockInv, Added
<1>3. CASE s \in failed
  <2>1. Ends(s) /\ UNCHANGED <<copy, written>>
    BY <1>3 DEF BeginWrite, Healthy
  <2>2. /\ chain' \in [Servers -> Seq(Transactions)] /\ \A t \in Servers : t # s => chain'[t] = chain[t]
        /\ \A i \in 1..Len(chain'[s]) : chain'[s][i] = Waiting
    BY <1>1, <2>1, ChainEnding DEF StorageInv
  <2>3. StorageTypeOK'
    BY <1>1, <2>1, <2>2 DEF StorageInv, StorageTypeOK
  <2>4. ChainInv'
    BY <1>1, <2>2 DEF StorageInv, ChainInv
  <2>5. TransactionInv'
    <3>1. \A t \in session : t # s /\ t \in Servers
      BY <1>3, Alone DEF StorageInv, StorageTypeOK
    <3>2. \A t \in session : chain'[t] = chain[t] /\ written'[t] = written[t] /\ copy'[t] = copy[t]
      BY <2>1, <2>2, <3>1
    <3>3. \A put : Added(put)' = Added(put)
      BY <1>1 DEF Added
    <3> QED BY <1>1, <3>2, <3>3 DEF StorageInv, TransactionInv
  <2> QED BY <1>2, <2>3, <2>4, <2>5 DEF StorageInv
<1>4. CASE s \notin failed
  <2> DEFINE begun == [Waiting EXCEPT !.begun = TRUE]
  <2>1. /\ s \in session /\ copy' = [copy EXCEPT ![s] = image[s]] /\ written' = [written EXCEPT ![s] = database]
        /\ Becomes(s, begun)
    BY <1>4 DEF BeginWrite, Healthy, Reached
  <2>2. begun \in Transactions /\ begun.put = {}
    BY DEF Transactions, Waiting
  <2> HIDE DEF begun
  <2>3. /\ chain' \in [Servers -> Seq(Transactions)] /\ \A t \in Servers : t # s => chain'[t] = chain[t]
        /\ chain'[s] # <<>> /\ chain'[s][1] = begun /\ \A i \in 2..Len(chain'[s]) : chain'[s][i] = Waiting
    BY <1>1, <2>1, <2>2, ChainBecoming DEF StorageInv
  <2>4. StorageTypeOK'
    BY <1>1, <2>1, <2>3 DEF StorageInv, StorageTypeOK
  <2>5. ChainInv'
    BY <1>1, <2>3 DEF StorageInv, ChainInv
  <2>6. TransactionInv'
    <3>1. session' = {s}
      BY <1>1, <2>1, Alone DEF StorageInv
    <3>2. written'[s] = Added({}) /\ copy'[s] = Added({})
      BY <2>1 DEF StorageInv, StorageTypeOK
    <3> QED BY <1>1, <2>2, <2>3, <3>1, <3>2 DEF TransactionInv, Added
  <2> QED BY <1>2, <2>4, <2>5, <2>6 DEF StorageInv
<1> QED BY <1>3, <1>4

LEMMA PutRecordStep ==
  ASSUME StorageInv, NEW s \in Servers, NEW r \in Records, PutRecord(s, r)
  PROVE  StorageInv'
<1> DEFINE put == chain[s][1].put
           next == [chain[s][1] EXCEPT !.put = put \cup {r}]
<1>1. /\ UNCHANGED <<database, locked, session, serverUp, image, failed, commits>>
      /\ s \in session /\ chain[s] # <<>> /\ chain[s][1].begun /\ r \notin put
      /\ written' = [written EXCEPT ![s][r] = copy[s][r] + 1]
      /\ copy' = [copy EXCEPT ![s][r] = copy[s][r] + 1]
      /\ Becomes(s, next)
  BY DEF PutRecord, Running, Reached
<1>2. chain[s] \in Seq(Transactions) /\ chain[s][1] \in Transactions /\ commits \in Nat
  BY <1>1 DEF StorageInv, StorageTypeOK
<1>3. next \in Transactions /\ next.begun = chain[s][1].begun /\ next.put = put \cup {r} /\ put \subseteq Records
  BY <1>2 DEF Transactions
<1>4. written[s] = Added(put) /\ copy[s] = Added(put)
  BY <1>1 DEF StorageInv, TransactionInv
<1> HIDE DEF next
<1>5. /\ chain' \in [Servers -> Seq(Transactions)] /\ \A t \in Servers : t # s => chain'[t] = chain[t]
      /\ chain'[s] # <<>> /\ chain'[s][1] = next /\ \A i \in 2..Len(chain'[s]) : chain'[s][i] = Waiting
  BY <1>1, <1>3, ChainBecoming DEF StorageInv
<1> HIDE DEF put
<1>6. written' = [written EXCEPT ![s] = [Added(put) EXCEPT ![r] = Added(put)[r] + 1]]
      /\ copy' = [copy EXCEPT ![s] = [Added(put) EXCEPT ![r] = Added(put)[r] + 1]]
  BY <1>1, <1>4 DEF StorageInv, StorageTypeOK
<1>7. [Added(put) EXCEPT ![r] = Added(put)[r] + 1] = Added(put \cup {r})
  BY <1>1, <1>2, <1>3, AddedRows
<1>8. /\ written' = [written EXCEPT ![s] = Added(put \cup {r})] /\ copy' = [copy EXCEPT ![s] = Added(put \cup {r})]
      /\ Added(put \cup {r}) \in Rows
  BY <1>2, <1>6, <1>7, AddedRows
<1>9. StorageTypeOK'
  <2>1. copy \in [Servers -> Rows] /\ written \in [Servers -> Rows \cup {Nobody}]
    BY DEF StorageInv, StorageTypeOK
  <2>2. copy' \in [Servers -> Rows] /\ written' \in [Servers -> Rows \cup {Nobody}]
    BY <1>8, <2>1
  <2> QED BY <1>1, <1>5, <2>2 DEF StorageInv, StorageTypeOK
<1>a. LockInv' /\ (database = Added({}))' /\ (\A t \in session : image[t] = database)'
  BY <1>1 DEF StorageInv, LockInv, Added
<1>b. ChainInv'
  BY <1>1, <1>5 DEF StorageInv, ChainInv
<1>c. TransactionInv'
  <2>1. session' = {s}
    BY <1>1, Alone DEF StorageInv
  <2>2. written'[s] = Added(put \cup {r}) /\ copy'[s] = Added(put \cup {r})
    BY <1>8 DEF StorageInv, StorageTypeOK
  <2>3. \A p : Added(p)' = Added(p)
    BY <1>1 DEF Added
  <2> QED BY <1>3, <1>5, <2>1, <2>2, <2>3 DEF TransactionInv
<1> QED BY <1>9, <1>a, <1>b, <1>c DEF StorageInv

\* What commits has counted on the rows that were committed: its server is alone.
LEMMA CompleteRows ==
  ASSUME StorageInv, NEW s \in Servers, Complete(s)
  PROVE  /\ session = {s} /\ s \in serverUp /\ chain[s] # <<>> /\ commits \in Nat
         /\ written[s] = Added(Records) /\ copy[s] = Added(Records)
<1>1. s \in session /\ chain[s] # <<>> /\ chain[s][1].begun /\ chain[s][1].put = Records /\ s \in serverUp
  BY DEF Complete, Running, Reached
<1> QED BY <1>1, Alone DEF StorageInv, StorageTypeOK, TransactionInv

LEMMA CommitWriteStep ==
  ASSUME StorageInv, NEW s \in Servers, CommitWrite(s)
  PROVE  StorageInv'
<1>1. /\ UNCHANGED <<locked, session, serverUp, failed, copy>>
      /\ Complete(s) /\ database' = written[s] /\ commits' = commits + 1
      /\ written' = [written EXCEPT ![s] = Nobody] /\ image' = [image EXCEPT ![s] = copy[s]] /\ Ends(s)
  BY DEF CommitWrite
<1>2. /\ session = {s} /\ s \in serverUp /\ chain[s] # <<>> /\ commits \in Nat
      /\ written[s] = Added(Records) /\ copy[s] = Added(Records)
  BY <1>1, CompleteRows
<1>3. /\ chain' \in [Servers -> Seq(Transactions)] /\ \A t \in Servers : t # s => chain'[t] = chain[t]
      /\ \A i \in 1..Len(chain'[s]) : chain'[s][i] = Waiting
      /\ chain'[s] # <<>> => ~chain'[s][1].begun
  BY <1>1, <1>2, ChainEnding DEF StorageInv
<1>4. Added(Records) \in Rows
  BY <1>2, AddedRows
<1>5. (database = Added({}))'
  BY <1>1, <1>2, AddedRows DEF Added
<1>6. commits' \in Nat
  BY <1>1, <1>2
<1>7. StorageTypeOK'
  BY <1>1, <1>2, <1>3, <1>4, <1>6 DEF StorageInv, StorageTypeOK
<1>8. LockInv' /\ (\A t \in session : image[t] = database)'
  <2>1. image'[s] = copy[s]
    BY <1>1 DEF StorageInv, StorageTypeOK
  <2>2. LockInv'
    BY <1>1 DEF StorageInv, LockInv
  <2> QED BY <1>1, <1>2, <2>1, <2>2
<1>9. ChainInv'
  <2>1. serverUp' = serverUp /\ s \in serverUp
    BY <1>1, <1>2
  <2> QED BY <1>3, <2>1 DEF StorageInv, ChainInv
<1>a. TransactionInv'
  BY <1>1, <1>2, <1>3 DEF TransactionInv
<1> QED BY <1>5, <1>7, <1>8, <1>9, <1>a DEF StorageInv

LEMMA RollBackStep ==
  ASSUME StorageInv, NEW s \in Servers, RollBack(s)
  PROVE  StorageInv'
<1>1. /\ UNCHANGED <<database, locked, session, serverUp, image, failed, copy, commits>>
      /\ s \in session /\ s \in serverUp /\ chain[s] # <<>>
      /\ written' = [written EXCEPT ![s] = Nobody] /\ Ends(s)
  BY DEF RollBack, Running, Reached
<1>2. /\ chain' \in [Servers -> Seq(Transactions)] /\ \A t \in Servers : t # s => chain'[t] = chain[t]
      /\ \A i \in 1..Len(chain'[s]) : chain'[s][i] = Waiting
      /\ chain'[s] # <<>> => ~chain'[s][1].begun
  BY <1>1, ChainEnding DEF StorageInv
<1>3. StorageTypeOK'
  BY <1>1, <1>2 DEF StorageInv, StorageTypeOK
<1>4. LockInv' /\ (database = Added({}))' /\ (\A t \in session : image[t] = database)'
  BY <1>1 DEF StorageInv, LockInv, Added
<1>5. ChainInv'
  <2>1. serverUp' = serverUp /\ s \in serverUp
    BY <1>1
  <2> QED BY <1>2, <2>1 DEF StorageInv, ChainInv
<1>6. TransactionInv'
  <2>1. session' = {s}
    BY <1>1, Alone DEF StorageInv
  <2> QED BY <1>2, <2>1 DEF TransactionInv
<1> QED BY <1>3, <1>4, <1>5, <1>6 DEF StorageInv

\* A session dies: what it may have committed before was complete, and nobody else is left.
LEMMA SessionDiesStep ==
  ASSUME StorageInv, NEW s \in Servers, SessionDies(s)
  PROVE  StorageInv'
<1>1. /\ UNCHANGED <<serverUp, image, failed, chain, copy>>
      /\ s \in session /\ session' = session \ {s} /\ locked' = (IF locked = s THEN Nobody ELSE locked)
      /\ written' = [written EXCEPT ![s] = Nobody]
  BY DEF SessionDies
<1>2. session = {s} /\ locked = s
  BY <1>1, Alone DEF StorageInv
<1>3. session' = {} /\ locked' = Nobody
  BY <1>1, <1>2
<1>4. LockInv' /\ TransactionInv' /\ (\A t \in session : image[t] = database)'
  BY <1>3 DEF LockInv, TransactionInv
<1>5. ChainInv'
  BY <1>1 DEF StorageInv, ChainInv
<1>6. database' \in Rows /\ commits' \in Nat /\ (database = Added({}))'
  <2>1. CASE UNCHANGED <<database, commits>>
    BY <2>1 DEF StorageInv, StorageTypeOK, Added
  <2>2. CASE Complete(s) /\ database' = written[s] /\ commits' = commits + 1
    <3>1. commits \in Nat /\ written[s] = Added(Records)
      BY <2>2, CompleteRows
    <3> QED BY <2>2, <3>1, AddedRows DEF Added
  <2> QED BY <2>1, <2>2 DEF SessionDies
<1>7. written' \in [Servers -> Rows \cup {Nobody}]
  BY <1>1 DEF StorageInv, StorageTypeOK
<1>8. StorageTypeOK'
  BY <1>1, <1>3, <1>6, <1>7 DEF StorageInv, StorageTypeOK
<1> QED BY <1>4, <1>5, <1>6, <1>8 DEF StorageInv

LEMMA ConnectionErrorStep ==
  ASSUME StorageInv, NEW s \in Servers, ConnectionError(s)
  PROVE  StorageInv'
<1>1. /\ UNCHANGED <<database, written, locked, session, serverUp, image, copy, commits>>
      /\ s \in serverUp /\ s \notin session /\ failed' = failed \cup {s}
  BY DEF ConnectionError, postgres, Reached
<1>2. LockInv' /\ (database = Added({}))' /\ (\A t \in session : image[t] = database)'
  BY <1>1 DEF StorageInv, LockInv, Added
<1>3. /\ chain' \in [Servers -> Seq(Transactions)] /\ \A t \in Servers : t # s => chain'[t] = chain[t]
      /\ \A i \in 2..Len(chain'[s]) : chain'[s][i] = Waiting
  <2>1. CASE chain[s] # <<>> /\ Head(chain[s]).begun
    <3>1. Ends(s) /\ chain[s] # <<>>
      BY <2>1 DEF ConnectionError
    <3>2. /\ chain' \in [Servers -> Seq(Transactions)] /\ \A t \in Servers : t # s => chain'[t] = chain[t]
          /\ \A i \in 1..Len(chain'[s]) : chain'[s][i] = Waiting
      BY <3>1, ChainEnding DEF StorageInv
    <3> QED BY <3>2
  <2>2. CASE ~(chain[s] # <<>> /\ Head(chain[s]).begun)
    BY <2>2 DEF ConnectionError, StorageInv, StorageTypeOK, ChainInv
  <2> QED BY <2>1, <2>2
<1>4. StorageTypeOK'
  BY <1>1, <1>3 DEF StorageInv, StorageTypeOK
<1>5. ChainInv'
  BY <1>1, <1>3 DEF StorageInv, ChainInv
<1>6. TransactionInv'
  <2>1. \A t \in session : t # s /\ t \in Servers
    BY <1>1 DEF StorageInv, StorageTypeOK
  <2>2. \A t \in session : chain'[t] = chain[t]
    BY <1>3, <2>1
  <2>3. \A p : Added(p)' = Added(p)
    BY <1>1 DEF Added
  <2> QED BY <1>1, <2>2, <2>3 DEF StorageInv, TransactionInv
<1> QED BY <1>2, <1>4, <1>5, <1>6 DEF StorageInv

LEMMA StopServerStep ==
  ASSUME StorageInv, NEW s \in Servers, StopServer(s)
  PROVE  StorageInv'
<1>1. /\ UNCHANGED <<database, image, copy, commits>>
      /\ s \in serverUp /\ serverUp' = serverUp \ {s} /\ session' = session \ {s}
      /\ locked' = (IF locked = s THEN Nobody ELSE locked) /\ written' = [written EXCEPT ![s] = Nobody]
      /\ failed' = failed \ {s} /\ chain' = [chain EXCEPT ![s] = <<>>]
  BY DEF StopServer
<1>2. <<>> \in Seq(Transactions)
  OBVIOUS
<1>3. /\ chain' \in [Servers -> Seq(Transactions)] /\ chain'[s] = <<>>
      /\ \A t \in Servers : t # s => chain'[t] = chain[t] /\ written'[t] = written[t]
      /\ written' \in [Servers -> Rows \cup {Nobody}]
  BY <1>1, <1>2 DEF StorageInv, StorageTypeOK
<1>4. StorageTypeOK'
  BY <1>1, <1>3 DEF StorageInv, StorageTypeOK
<1>5. LockInv'
  BY <1>1 DEF StorageInv, LockInv
<1>6. (database = Added({}))' /\ (\A t \in session : image[t] = database)'
  BY <1>1 DEF StorageInv, Added
<1>7. ChainInv'
  BY <1>1, <1>3 DEF StorageInv, ChainInv
<1>8. TransactionInv'
  <2>1. \A t \in session' : t \in session /\ t # s /\ t \in Servers
    BY <1>1 DEF StorageInv, StorageTypeOK
  <2>2. \A t \in session' : chain'[t] = chain[t] /\ written'[t] = written[t]
    BY <1>3, <2>1
  <2>3. \A p : Added(p)' = Added(p)
    BY <1>1 DEF Added
  <2> QED BY <1>1, <2>1, <2>2, <2>3 DEF StorageInv, TransactionInv
<1> QED BY <1>4, <1>5, <1>6, <1>7, <1>8 DEF StorageInv

-----------------------------------------------------------------------------
(* The theorems.                                                           *)

LEMMA StorageStarts == StorageInit => StorageInv
<1> SUFFICES ASSUME StorageInit PROVE StorageInv
  OBVIOUS
<1>1. /\ database = NoRows /\ written = [s \in Servers |-> Nobody] /\ locked = Nobody /\ session = {}
      /\ serverUp = {} /\ failed = {} /\ image = [s \in Servers |-> NoRows] /\ copy = image
      /\ chain = [s \in Servers |-> <<>>] /\ commits = 0
  BY DEF StorageInit
<1>2. NoRows \in Rows /\ <<>> \in Seq(Transactions)
  BY DEF NoRows, Rows
<1>3. StorageTypeOK /\ LockInv /\ TransactionInv
  BY <1>1, <1>2 DEF StorageTypeOK, LockInv, TransactionInv
<1>4. ChainInv
  <2>1. \A s \in Servers : chain[s] = <<>>
    BY <1>1
  <2>2. 2..Len(<<>>) = {}
    OBVIOUS
  <2> QED BY <2>1, <2>2 DEF ChainInv
<1>5. database = Added({})
  BY <1>1 DEF Added, NoRows
<1> QED BY <1>1, <1>3, <1>4, <1>5 DEF StorageInv

\* The lock, the sessions, the chains and the open transaction fit together, always.
THEOREM StorageInvariant == StorageSpec => []StorageInv
<1> USE StorageHypothesis
<1>1. StorageInit => StorageInv
  BY StorageStarts
<1>2. StorageInv /\ [StorageNext]_storageVars => StorageInv'
  <2> SUFFICES ASSUME StorageInv, [StorageNext]_storageVars PROVE StorageInv'
    OBVIOUS
  <2>1. ASSUME NEW s \in Servers, StartServer(s) \/ RequestWrite(s) \/ BeginWrite(s) PROVE StorageInv'
    BY <2>1, StartServerStep, RequestWriteStep, BeginWriteStep
  <2>2. ASSUME NEW s \in Servers, CommitWrite(s) \/ RollBack(s) \/ \E r \in Records : PutRecord(s, r)
        PROVE  StorageInv'
    BY <2>2, CommitWriteStep, RollBackStep, PutRecordStep
  <2>3. ASSUME NEW s \in Servers, SessionDies(s) \/ ConnectionError(s) \/ StopServer(s) PROVE StorageInv'
    BY <2>3, SessionDiesStep, ConnectionErrorStep, StopServerStep
  <2>4. CASE UNCHANGED storageVars
    BY <2>4 DEF storageVars, postgres, StorageInv, StorageTypeOK, LockInv, ChainInv, TransactionInv, Added
  <2> QED BY <2>1, <2>2, <2>3, <2>4 DEF StorageNext
<1> QED BY <1>1, <1>2, PTL DEF StorageSpec

\* Every committed transaction counted on the rows of all those before it, whichever server made
\* them, and a server whose session lives reads what is committed.
THEOREM CommitsAreKept == StorageSpec => []CommitsHold
<1> USE StorageHypothesis
<1>1. StorageInv => CommitsHold
  BY DEF StorageInv, StorageTypeOK, CommitsHold, NoUpdateIsLost, ImageIsCommitted, Added
<1> QED BY <1>1, StorageInvariant, PTL

-----------------------------------------------------------------------------
(***************************************************************************)
(* One operation at a time works in a managed clone, which is only written *)
(* for its own repository: a proof for any number of requests, however     *)
(* they queue up, fail and leave, and of stops of the process.             *)
(*                                                                         *)
(* The argument.  The requests that have not settled form a line in which  *)
(* each one waits for the one before it, and `pending' holds the last one  *)
(* (QueueInv): a request that returns is none of them, so that removing it *)
(* cannot let two others in.  What an operation found when it looked into  *)
(* the directory is then still so when it writes (InsideInv).              *)
(***************************************************************************)
Places == {"idle", "waiting", "claim", "mark", "init", "resolve", "fetch", "settled"}
Folders == [kind : {"absent", "directory", "symlink", "file"}, marker : Urls \cup {None, Partial},
            empty : BOOLEAN, checkout : BOOLEAN, bare : BOOLEAN, origin : Urls \cup {None}, commits : SUBSET (Urls \X (Revisions \cup {None})),
            head : (Urls \X (Revisions \cup {None})) \cup {None}]
Request == [at : Places, url : Urls \cup {None}, asked : Revisions \cup {None}, commit : Revisions \cup {None},
            after : Callers \cup {None}]

CacheTypeOK ==
  /\ prepare \in [Callers -> Request] /\ tail \in Callers \cup {None}
  /\ directory \in Folders /\ touched \in Urls \cup {None} /\ head \in [Urls -> Revisions]
  /\ \A c \in Callers : prepare[c].at # "idle" => prepare[c].url \in Urls

-----------------------------------------------------------------------------
(* The inductive invariant.                                                *)

\* The line of the requests that have not settled.
Pending == {c \in Callers : prepare[c].at \notin {"idle", "settled"}}
Gone(c) == c = None \/ (c \in Callers /\ prepare[c].at = "settled")
Line(n, line) ==
  /\ \A i, j \in 1..n : line[i] = line[j] => i = j
  /\ Pending = {line[i] : i \in 1..n}
  /\ \A i \in 2..n : prepare[line[i]].at = "waiting" /\ prepare[line[i]].after = line[i - 1]
  /\ n > 0 /\ prepare[line[1]].at = "waiting" => Gone(prepare[line[1]].after)
  /\ IF n > 0 THEN tail = line[n] ELSE Gone(tail)
QueueInv == \E n \in Nat : \E line \in [1..n -> Callers] : Line(n, line)

\* The commits of the directory are those of the repository it belongs to.
OwnerInv ==
  /\ \A held \in directory.commits :
       IF directory.marker = None
       THEN held[1] = directory.origin /\ directory.kind # "absent" /\ ~directory.empty
       ELSE directory.marker \in {held[1], Partial}
  /\ touched # None => directory.marker = touched /\ directory.origin \in {None, touched}

\* What an operation found still holds when it writes.
InsideInv ==
  \A c \in Inside :
    /\ directory.origin \in {None, prepare[c].url}
    /\ \A held \in directory.commits : held[1] = prepare[c].url
    /\ prepare[c].at = "mark" => directory.marker = Partial
    /\ prepare[c].at \in {"init", "resolve", "fetch"} => directory.marker = prepare[c].url

CacheInv == CacheTypeOK /\ QueueInv /\ OwnerInv /\ InsideInv

-----------------------------------------------------------------------------
(* Lemmas on the line.                                                     *)

\* Who has its turn, or works in the directory, is the first of the line.
LEMMA FirstOfLine ==
  ASSUME CacheAssumption, CacheTypeOK, NEW n \in Nat, NEW line \in [1..n -> Callers], Line(n, line),
         NEW c \in Callers, c \in Inside \/ Turn(c)
  PROVE  n > 0 /\ c = line[1]
<1>1. PICK i \in 1..n : c = line[i]
  BY DEF Line, Pending, Inside, Turn, Stands
<1>2. ASSUME i # 1 PROVE FALSE
  <2>1. i \in 2..n /\ i - 1 \in 1..n
    BY <1>2
  <2>2. prepare[c].at = "waiting" /\ prepare[c].after = line[i - 1]
    BY <1>1, <2>1 DEF Line
  <2>3. line[i - 1] \in Callers /\ line[i - 1] \in Pending
    BY <2>1 DEF Line
  <2>4. line[i - 1] # None
    BY <2>3 DEF CacheAssumption
  <2> QED BY <2>2, <2>3, <2>4 DEF Turn, Settled, Pending, Inside
<1> QED BY <1>1, <1>2

LEMMA OneInside ==
  ASSUME CacheAssumption, CacheTypeOK, QueueInv
  PROVE  \A c, d \in Inside : c = d
<1>0. PICK n \in Nat : \E line \in [1..n -> Callers] : Line(n, line)
  BY DEF QueueInv
<1>1. PICK line \in [1..n -> Callers] : Line(n, line)
  BY <1>0
<1>2. \A c \in Inside : c \in Callers
  BY DEF Inside
<1> QED BY <1>1, <1>2, FirstOfLine

\* The first of the line makes a step: it stays the first, or the next one takes its turn.
LEMMA LineMoves ==
  ASSUME CacheAssumption, CacheTypeOK, QueueInv, NEW c \in Callers, c \in Inside \/ Turn(c),
         NEW place \in Places \ {"idle", "waiting"}, prepare'[c].at = place, prepare'[c].after = prepare[c].after,
         \A x \in Callers : x # c => prepare'[x] = prepare[x], tail' = tail
  PROVE  QueueInv'
<1>0. PICK n \in Nat : \E line \in [1..n -> Callers] : Line(n, line)
  BY DEF QueueInv
<1>1. PICK line \in [1..n -> Callers] : Line(n, line)
  BY <1>0
<1>2. n > 0 /\ c = line[1]
  BY <1>1, FirstOfLine
<1>3. c \in Pending
  BY DEF Pending, Inside, Turn, Stands
<1>4. \A i \in 1..n : line[i] \in Callers
  OBVIOUS
<1>5. \A i \in 2..n : i \in 1..n /\ i # 1 /\ 1 \in 1..n
  BY <1>2
<1>6. \A i \in 2..n : line[i] # c /\ line[i] \in Callers
  BY <1>1, <1>2, <1>4, <1>5 DEF Line
<1>7. CASE place # "settled"
  <2>1. Pending' = Pending
    BY <1>3, <1>7 DEF Pending, Places
  <2>2. Line(n, line)'
    <3>1. \A i \in 2..n : prepare'[line[i]].at = "waiting" /\ prepare'[line[i]].after = line[i - 1]
      BY <1>1, <1>6 DEF Line
    <3>2. prepare'[line[1]].at # "waiting"
      BY <1>2
    <3>3. tail' = line[n]
      BY <1>1, <1>2 DEF Line
    <3> QED BY <1>1, <1>2, <2>1, <3>1, <3>2, <3>3 DEF Line
  <2> QED BY <2>2 DEF QueueInv
<1>8. CASE place = "settled"
  <2> DEFINE m == n - 1
             rest == [i \in 1..m |-> line[i + 1]]
  <2>1. m \in Nat /\ \A i \in 1..m : i + 1 \in 2..n /\ i + 1 \in 1..n
    BY <1>2
  <2>2. rest \in [1..m -> Callers]
    BY <2>1
  <2>3. \A i \in 1..m : rest[i] = line[i + 1] /\ rest[i] # c /\ rest[i] \in Callers
    BY <1>6, <2>1
  <2>4. \A i, j \in 1..m : rest[i] = rest[j] => i = j
    <3> SUFFICES ASSUME NEW i \in 1..m, NEW j \in 1..m, rest[i] = rest[j] PROVE i = j
      OBVIOUS
    <3>1. i + 1 = j + 1
      BY <1>1, <2>1, <2>3 DEF Line
    <3> QED BY <2>1, <3>1
  <2>5. Pending' = {rest[i] : i \in 1..m}
    <3>1. Pending' = Pending \ {c}
      BY <1>8 DEF Pending
    <3>2. ASSUME NEW x \in Pending, x # c PROVE \E i \in 1..m : x = rest[i]
      <4>1. PICK i \in 1..n : x = line[i]
        BY <1>1, <3>2 DEF Line
      <4>2. i # 1 /\ i - 1 \in 1..m /\ (i - 1) + 1 = i
        BY <1>2, <3>2, <4>1
      <4>3. rest[i - 1] = line[i]
        BY <2>3, <4>2
      <4> QED BY <4>1, <4>2, <4>3
    <3>3. \A i \in 1..m : rest[i] \in Pending /\ rest[i] # c
      BY <1>1, <2>1, <2>3 DEF Line
    <3> QED BY <3>1, <3>2, <3>3
  <2>6. \A i \in 2..m : prepare'[rest[i]].at = "waiting" /\ prepare'[rest[i]].after = rest[i - 1]
    <3> SUFFICES ASSUME NEW i \in 2..m
                 PROVE  prepare'[rest[i]].at = "waiting" /\ prepare'[rest[i]].after = rest[i - 1]
      OBVIOUS
    <3>1. i \in 1..m /\ i - 1 \in 1..m /\ i + 1 \in 2..n /\ (i - 1) + 1 = i /\ (i + 1) - 1 = i
      BY <2>1
    <3>2. rest[i] = line[i + 1] /\ rest[i - 1] = line[i] /\ prepare'[rest[i]] = prepare[rest[i]]
      BY <2>3, <3>1
    <3> QED BY <1>1, <3>1, <3>2 DEF Line
  <2>7. Gone(c)'
    BY <1>8 DEF Gone
  <2>8. m > 0 => Gone(prepare[rest[1]].after)'
    <3> SUFFICES ASSUME m > 0 PROVE Gone(prepare[rest[1]].after)'
      OBVIOUS
    <3>1. 2 \in 2..n /\ 1 \in 1..m
      BY <2>1
    <3>2. rest[1] = line[2] /\ prepare'[rest[1]] = prepare[rest[1]]
      BY <2>3, <3>1
    <3>3. prepare[line[2]].after = line[1]
      BY <1>1, <3>1 DEF Line
    <3> QED BY <1>2, <2>7, <3>2, <3>3 DEF Gone
  <2>9. IF m > 0 THEN tail' = rest[m] ELSE Gone(tail)'
    <3>1. tail' = line[n]
      BY <1>1, <1>2 DEF Line
    <3>2. CASE m > 0
      <4>1. m \in 1..m /\ m + 1 = n
        BY <2>1, <3>2
      <4> QED BY <2>3, <3>1, <3>2, <4>1
    <3>3. CASE ~(m > 0)
      <4>1. n = 1
        BY <2>1, <3>3, <1>2
      <4> QED BY <1>2, <2>7, <3>1, <3>3, <4>1 DEF Gone
    <3> QED BY <3>2, <3>3
  <2> HIDE DEF m, rest
  <2>10. Line(m, rest)'
    BY <2>4, <2>5, <2>6, <2>8, <2>9 DEF Line
  <2> QED BY <2>1, <2>2, <2>10 DEF QueueInv
<1> QED BY <1>7, <1>8

-----------------------------------------------------------------------------
(* Each step preserves the invariant.                                      *)

\* A step of the first of the line leaves it alone in the directory.
LEMMA WorkStep ==
  ASSUME CacheAssumption, CacheInv, NEW c \in Callers, c \in Inside \/ Turn(c),
         NEW place \in Places \ {"idle", "waiting"}, Place(c, place), tail' = tail
  PROVE  /\ QueueInv' /\ Inside' \subseteq {c} /\ prepare' \in [Callers -> Request]
         /\ prepare'[c].at = place /\ prepare'[c].url = prepare[c].url /\ prepare[c].url \in Urls
         /\ \A x \in Callers : prepare'[x].at # "idle" => prepare'[x].url \in Urls
<1>1. CacheTypeOK /\ QueueInv /\ prepare[c] \in Request
  BY DEF CacheInv, CacheTypeOK
<1>2. /\ prepare' \in [Callers -> Request] /\ prepare'[c] = [prepare[c] EXCEPT !.at = place]
      /\ \A x \in Callers : x # c => prepare'[x] = prepare[x]
  BY <1>1 DEF Place, CacheTypeOK, Request
<1>3. prepare'[c].at = place /\ prepare'[c].after = prepare[c].after /\ prepare'[c].url = prepare[c].url
  BY <1>1, <1>2 DEF Request
<1>4. prepare[c].url \in Urls
  BY <1>1 DEF CacheTypeOK, Inside, Turn, Stands
<1>5. QueueInv'
  BY <1>1, <1>2, <1>3, LineMoves
<1>6. \A x \in Inside : x = c
  <2>1. PICK n \in Nat : \E line \in [1..n -> Callers] : Line(n, line)
    BY <1>1 DEF QueueInv
  <2>2. PICK line \in [1..n -> Callers] : Line(n, line)
    BY <2>1
  <2>3. \A x \in Inside : x \in Callers
    BY DEF Inside
  <2> QED BY <1>1, <2>2, <2>3, FirstOfLine
<1>7. Inside' \subseteq {c}
  BY <1>2, <1>6 DEF Inside
<1>8. \A x \in Callers : prepare'[x].at # "idle" => prepare'[x].url \in Urls
  BY <1>1, <1>2, <1>3, <1>4 DEF CacheTypeOK
<1> QED BY <1>2, <1>3, <1>4, <1>5, <1>7, <1>8

\* The request is over, whatever it found.
LEMMA SettleStep ==
  ASSUME CacheAssumption, CacheInv, NEW c \in Callers, c \in Inside \/ Turn(c), Place(c, "settled"),
         UNCHANGED <<directory, tail, head, touched>>
  PROVE  CacheInv'
<1>1. "settled" \in Places \ {"idle", "waiting"}
  BY DEF Places
<1>2. /\ QueueInv' /\ Inside' \subseteq {c} /\ prepare' \in [Callers -> Request] /\ prepare'[c].at = "settled"
      /\ \A x \in Callers : prepare'[x].at # "idle" => prepare'[x].url \in Urls
  BY <1>1, WorkStep
<1>3. Inside' = {}
  BY <1>2 DEF Inside
<1>4. CacheTypeOK' /\ OwnerInv'
  BY <1>2 DEF CacheInv, CacheTypeOK, OwnerInv
<1>5. InsideInv'
  BY <1>3 DEF InsideInv
<1> QED BY <1>2, <1>4, <1>5 DEF CacheInv

LEMMA PrepareStep ==
  ASSUME CacheAssumption, CacheInv, NEW c \in Callers, NEW url \in Urls, NEW asked \in Revisions \cup {None},
         Prepare(c, url, asked)
  PROVE  CacheInv'
<1> DEFINE new == [at |-> "waiting", url |-> url, asked |-> asked, commit |-> None, after |-> tail]
<1>1. prepare' = [prepare EXCEPT ![c] = new] /\ tail' = c /\ UNCHANGED <<directory, head, touched>> /\ prepare[c].at = "idle"
  BY DEF Prepare, Stands
<1>2. CacheTypeOK
  BY DEF CacheInv
<1>3. new \in Request
  BY <1>2 DEF CacheTypeOK, Request, Places
<1>4. new.at = "waiting" /\ new.after = tail /\ new.url = url
  OBVIOUS
<1> HIDE DEF new
<1>5. prepare' \in [Callers -> Request] /\ prepare'[c] = new /\ \A x \in Callers : x # c => prepare'[x] = prepare[x]
  BY <1>1, <1>2, <1>3 DEF CacheTypeOK
<1>6. CacheTypeOK'
  BY <1>1, <1>2, <1>4, <1>5 DEF CacheTypeOK
<1>7. OwnerInv'
  BY <1>1 DEF CacheInv, OwnerInv
<1>8. Inside' = Inside /\ c \notin Inside
  BY <1>1, <1>4, <1>5 DEF Inside
<1>9. InsideInv'
  <2>1. \A x \in Inside : x \in Callers /\ prepare'[x] = prepare[x]
    BY <1>5, <1>8 DEF Inside
  <2> QED BY <1>1, <1>8, <2>1 DEF CacheInv, InsideInv
<1>a. QueueInv'
  <2>0. PICK n \in Nat : \E line \in [1..n -> Callers] : Line(n, line)
    BY DEF CacheInv, QueueInv
  <2>1. PICK line \in [1..n -> Callers] : Line(n, line)
    BY <2>0
  <2> DEFINE longer == [i \in 1..(n + 1) |-> IF i = n + 1 THEN c ELSE line[i]]
  <2>2. longer \in [1..(n + 1) -> Callers] /\ n + 1 \in Nat
    OBVIOUS
  <2>3. longer[n + 1] = c /\ \A i \in 1..n : longer[i] = line[i] /\ line[i] \in Callers
    OBVIOUS
  <2>4. c \notin Pending /\ \A i \in 1..n : line[i] \in Pending
    BY <1>1, <2>1 DEF Pending, Line
  <2>5. \A i \in 1..n : longer[i] # c /\ prepare'[longer[i]] = prepare[line[i]]
    BY <1>5, <2>3, <2>4
  <2> HIDE DEF longer
  <2>6. \A i, j \in 1..(n + 1) : longer[i] = longer[j] => i = j
    <3>1. \A i \in 1..(n + 1) : i \in 1..n \/ i = n + 1
      OBVIOUS
    <3>2. \A i, j \in 1..n : longer[i] = longer[j] => i = j
      BY <2>1, <2>3 DEF Line
    <3> QED BY <2>3, <2>5, <3>1, <3>2
  <2>7. Pending' = {longer[i] : i \in 1..(n + 1)}
    <3>1. Pending' = Pending \cup {c}
      BY <1>4, <1>5 DEF Pending
    <3>2. Pending = {line[i] : i \in 1..n}
      BY <2>1 DEF Line
    <3>3. \A i \in 1..(n + 1) : i \in 1..n \/ i = n + 1
      OBVIOUS
    <3>4. n + 1 \in 1..(n + 1) /\ \A i \in 1..n : i \in 1..(n + 1)
      OBVIOUS
    <3> QED BY <2>3, <3>1, <3>2, <3>3, <3>4
  <2>8. \A i \in 2..(n + 1) : prepare'[longer[i]].at = "waiting" /\ prepare'[longer[i]].after = longer[i - 1]
    <3>1. ASSUME NEW i \in 2..n PROVE prepare'[longer[i]].at = "waiting" /\ prepare'[longer[i]].after = longer[i - 1]
      <4>1. i \in 1..n /\ i - 1 \in 1..n
        OBVIOUS
      <4> QED BY <2>1, <2>3, <2>5, <4>1 DEF Line
    <3>2. ASSUME n + 1 \in 2..(n + 1)
          PROVE  prepare'[longer[n + 1]].at = "waiting" /\ prepare'[longer[n + 1]].after = longer[n]
      <4>1. n \in 1..n /\ n > 0
        BY <3>2
      <4> QED BY <1>4, <1>5, <2>1, <2>3, <4>1 DEF Line
    <3>3. \A i \in 2..(n + 1) : i \in 2..n \/ (i = n + 1 /\ i - 1 = n)
      OBVIOUS
    <3> QED BY <3>1, <3>2, <3>3
  <2>9. prepare'[longer[1]].at = "waiting" => Gone(prepare[longer[1]].after)'
    <3>1. \A x : Gone(x) => Gone(x)'
      BY <1>1, <1>5 DEF Gone
    <3>2. CASE n = 0
      <4>1. Gone(tail)
        BY <2>1, <3>2 DEF Line
      <4>2. prepare'[longer[1]].after = tail
        BY <1>4, <1>5, <2>3, <3>2
      <4>3. PICK x : x = tail
        OBVIOUS
      <4>4. Gone(x)'
        BY <3>1, <4>1, <4>3
      <4> QED BY <4>2, <4>3, <4>4 DEF Gone
    <3>3. CASE n # 0
      <4>1. 1 \in 1..n /\ n > 0
        BY <3>3
      <4>2. prepare'[longer[1]] = prepare[line[1]]
        BY <2>5, <4>1
      <4>3. PICK x : x = prepare[line[1]].after
        OBVIOUS
      <4>4. prepare[line[1]].at = "waiting" => Gone(x)
        BY <2>1, <4>1, <4>3 DEF Line
      <4> QED BY <3>1, <4>2, <4>3, <4>4 DEF Gone
    <3> QED BY <3>2, <3>3
  <2>10. Line(n + 1, longer)'
    BY <1>1, <2>3, <2>6, <2>7, <2>8, <2>9 DEF Line
  <2> QED BY <2>2, <2>10 DEF QueueInv
<1> QED BY <1>6, <1>7, <1>9, <1>a DEF CacheInv

\* A request looks into the directory and finds that it is that of its repository.
LEMMA InspectStep ==
  ASSUME CacheAssumption, CacheInv, NEW c \in Callers, Inspect(c)
  PROVE  CacheInv'
<1> DEFINE url == prepare[c].url
           place == IF Ours(url) THEN IF directory.marker = None THEN "claim" ELSE "init" ELSE "settled"
<1>1. Turn(c) /\ UNCHANGED <<tail, head, touched>> /\ Place(c, place)
  BY DEF Inspect
<1>2. directory' = IF directory.kind = "absent" THEN [directory EXCEPT !.kind = "directory"] ELSE directory
  BY DEF Inspect
<1>3. place \in {"claim", "init", "settled"} /\ place \in Places \ {"idle", "waiting"}
  BY DEF Places
<1>4. /\ place \in {"claim", "init"} => Ours(url)
      /\ place = "init" => directory.marker # None
  OBVIOUS
<1> HIDE DEF place
<1>5. /\ QueueInv' /\ Inside' \subseteq {c} /\ prepare' \in [Callers -> Request]
      /\ prepare'[c].at = place /\ prepare'[c].url = url /\ url \in Urls
      /\ \A x \in Callers : prepare'[x].at # "idle" => prepare'[x].url \in Urls
  BY <1>1, <1>3, WorkStep
<1>6. CacheTypeOK /\ directory \in Folders
  BY DEF CacheInv, CacheTypeOK
<1>7. /\ directory' \in Folders /\ directory'.marker = directory.marker /\ directory'.origin = directory.origin
      /\ directory'.commits = directory.commits /\ directory'.empty = directory.empty
      /\ directory'.kind # directory.kind => directory.kind = "absent"
  <2>1. CASE directory.kind = "absent"
    <3>1. directory' = [directory EXCEPT !.kind = "directory"]
      BY <1>2, <2>1
    <3> QED BY <1>6, <2>1, <3>1 DEF Folders
  <2>2. CASE directory.kind # "absent"
    BY <1>2, <1>6, <2>2
  <2> QED BY <2>1, <2>2
<1>8. CacheTypeOK'
  BY <1>1, <1>5, <1>6, <1>7 DEF CacheTypeOK
<1>9. OwnerInv'
  BY <1>1, <1>7 DEF CacheInv, OwnerInv
<1>a. InsideInv'
  <2> SUFFICES ASSUME c \in Inside'
               PROVE  /\ directory'.origin \in {None, url}
                      /\ \A held \in directory'.commits : held[1] = url
                      /\ place # "mark"
                      /\ place \in {"init", "resolve", "fetch"} => directory'.marker = url
    BY <1>5 DEF InsideInv
  <2>1. place # "settled" /\ place \in {"claim", "init"} /\ Ours(url)
    BY <1>3, <1>4, <1>5 DEF Inside
  <2>2. directory.origin \in {None, url} /\ (directory.marker # None => directory.marker = url)
    BY <2>1 DEF Ours
  <2>3. url # Partial /\ url # None
    BY <1>5 DEF CacheAssumption
  <2>4. ASSUME NEW held \in directory.commits PROVE held[1] = url
    <3>1. CASE directory.marker = None
      <4>1. held[1] = directory.origin /\ directory.kind # "absent" /\ ~directory.empty
        BY <3>1 DEF CacheInv, OwnerInv
      <4>2. directory.origin = url
        BY <2>1, <3>1, <4>1 DEF Ours
      <4> QED BY <4>1, <4>2
    <3>2. CASE directory.marker # None
      BY <2>2, <2>3, <3>2 DEF CacheInv, OwnerInv
    <3> QED BY <3>1, <3>2
  <2> QED BY <1>4, <1>7, <2>1, <2>2, <2>4
<1> QED BY <1>5, <1>8, <1>9, <1>a DEF CacheInv

LEMMA CreateMarkerStep ==
  ASSUME CacheAssumption, CacheInv, NEW c \in Callers, CreateMarker(c)
  PROVE  CacheInv'
<1>1. c \in Inside /\ UNCHANGED <<tail, head, touched>>
  BY DEF CreateMarker, Inside, Stands
<1>2. CASE directory.marker # None
  BY <1>1, <1>2, SettleStep DEF CreateMarker
<1>3. CASE directory.marker = None
  <2>1. directory' = [directory EXCEPT !.marker = Partial, !.empty = FALSE] /\ Place(c, "mark")
    BY <1>3 DEF CreateMarker
  <2>2. "mark" \in Places \ {"idle", "waiting"}
    BY DEF Places
  <2>3. /\ QueueInv' /\ Inside' \subseteq {c} /\ prepare' \in [Callers -> Request]
        /\ prepare'[c].at = "mark" /\ prepare'[c].url = prepare[c].url
        /\ \A x \in Callers : prepare'[x].at # "idle" => prepare'[x].url \in Urls
    BY <1>1, <2>1, <2>2, WorkStep
  <2>4. /\ directory' \in Folders /\ directory'.marker = Partial /\ directory'.origin = directory.origin
        /\ directory'.commits = directory.commits
    BY <2>1 DEF CacheInv, CacheTypeOK, Folders
  <2>5. touched = None
    BY <1>3 DEF CacheInv, OwnerInv
  <2>6. CacheTypeOK'
    BY <1>1, <2>3, <2>4 DEF CacheInv, CacheTypeOK
  <2>7. OwnerInv'
    BY <1>1, <2>4, <2>5 DEF OwnerInv, CacheAssumption
  <2>8. InsideInv'
    BY <1>1, <2>3, <2>4 DEF CacheInv, InsideInv
  <2> QED BY <2>3, <2>6, <2>7, <2>8 DEF CacheInv
<1> QED BY <1>2, <1>3

\* A write for the repository of the request into the directory with its marker.
LEMMA OwnWriteStep ==
  ASSUME CacheAssumption, CacheInv, NEW c \in Callers, c \in Inside,
         NEW place \in Places \ {"idle", "waiting", "mark"}, Place(c, place),
         UNCHANGED <<tail, head>>, touched' = prepare[c].url,
         directory' \in Folders, directory'.marker = prepare[c].url,
         directory'.origin \in {directory.origin, prepare[c].url},
         \A held \in directory'.commits : held \in directory.commits \/ held[1] = prepare[c].url
  PROVE  CacheInv'
<1>1. /\ QueueInv' /\ Inside' \subseteq {c} /\ prepare' \in [Callers -> Request]
      /\ prepare'[c].at = place /\ prepare'[c].url = prepare[c].url /\ prepare[c].url \in Urls
      /\ \A x \in Callers : prepare'[x].at # "idle" => prepare'[x].url \in Urls
  BY WorkStep
<1>2. CacheTypeOK'
  BY <1>1 DEF CacheInv, CacheTypeOK
<1>3. /\ directory.origin \in {None, prepare[c].url}
      /\ \A held \in directory.commits : held[1] = prepare[c].url
  BY DEF CacheInv, InsideInv
<1>4. prepare[c].url # None
  BY <1>1 DEF CacheAssumption
<1>5. OwnerInv'
  BY <1>3, <1>4 DEF OwnerInv
<1>6. InsideInv'
  BY <1>1, <1>3 DEF InsideInv
<1> QED BY <1>1, <1>2, <1>5, <1>6 DEF CacheInv

LEMMA WriteMarkerStep ==
  ASSUME CacheAssumption, CacheInv, NEW c \in Callers, WriteMarker(c)
  PROVE  CacheInv'
<1>1. /\ c \in Inside /\ Place(c, "init") /\ UNCHANGED <<tail, head>> /\ touched' = prepare[c].url
      /\ directory' = [directory EXCEPT !.marker = prepare[c].url]
  BY DEF WriteMarker, Inside, Stands
<1>2. prepare[c].url \in Urls /\ directory \in Folders /\ "init" \in Places \ {"idle", "waiting", "mark"}
  BY <1>1 DEF CacheInv, CacheTypeOK, Inside, Places
<1>3. /\ directory' \in Folders /\ directory'.marker = prepare[c].url /\ directory'.origin = directory.origin
      /\ directory'.commits = directory.commits
  BY <1>1, <1>2 DEF Folders
<1> QED BY <1>1, <1>2, <1>3, OwnWriteStep

LEMMA InitRepositoryStep ==
  ASSUME CacheAssumption, CacheInv, NEW c \in Callers, InitRepository(c)
  PROVE  CacheInv'
<1>1. /\ c \in Inside /\ Place(c, "resolve") /\ UNCHANGED <<tail, head>> /\ touched' = prepare[c].url
      /\ directory' = [directory EXCEPT !.bare = TRUE, !.origin = prepare[c].url] /\ prepare[c].at = "init"
  BY DEF InitRepository, Inside, Stands
<1>2. prepare[c].url \in Urls /\ directory \in Folders /\ "resolve" \in Places \ {"idle", "waiting", "mark"}
  BY <1>1 DEF CacheInv, CacheTypeOK, Inside, Places
<1>3. directory.marker = prepare[c].url
  BY <1>1 DEF CacheInv, InsideInv
<1>4. /\ directory' \in Folders /\ directory'.marker = prepare[c].url /\ directory'.origin = prepare[c].url
      /\ directory'.commits = directory.commits
  BY <1>1, <1>2, <1>3 DEF Folders
<1> QED BY <1>1, <1>2, <1>4, OwnWriteStep

LEMMA FetchStep ==
  ASSUME CacheAssumption, CacheInv, NEW c \in Callers, Fetch(c)
  PROVE  CacheInv'
<1> DEFINE held == <<prepare[c].url, prepare[c].commit>>
           newest == IF prepare[c].asked = None THEN held ELSE directory.head
<1>1. /\ c \in Inside /\ Place(c, "settled") /\ UNCHANGED <<tail, head>> /\ touched' = prepare[c].url
      /\ directory' = [directory EXCEPT !.commits = directory.commits \cup {held}, !.head = newest]
      /\ prepare[c].at = "fetch"
  BY DEF Fetch, Inside, Stands
<1>2. prepare[c].url \in Urls /\ directory \in Folders /\ "settled" \in Places \ {"idle", "waiting", "mark"}
  BY <1>1 DEF CacheInv, CacheTypeOK, Inside, Places
<1>3. prepare[c].commit \in Revisions \cup {None}
  BY DEF CacheInv, CacheTypeOK, Request
<1>4. held \in Urls \X (Revisions \cup {None}) /\ held[1] = prepare[c].url
  BY <1>2, <1>3
<1>5. newest \in (Urls \X (Revisions \cup {None})) \cup {None}
  BY <1>2, <1>4 DEF Folders
<1> HIDE DEF held, newest
<1>6. directory.marker = prepare[c].url
  BY <1>1 DEF CacheInv, InsideInv
<1>7. /\ directory' \in Folders /\ directory'.marker = prepare[c].url /\ directory'.origin = directory.origin
      /\ directory'.commits = directory.commits \cup {held}
  BY <1>1, <1>2, <1>4, <1>5, <1>6 DEF Folders
<1>8. \A w \in directory'.commits : w \in directory.commits \/ w[1] = prepare[c].url
  BY <1>4, <1>7
<1> QED BY <1>1, <1>2, <1>7, <1>8, OwnWriteStep

LEMMA ResolveStep ==
  ASSUME CacheAssumption, CacheInv, NEW c \in Callers, Resolve(c)
  PROVE  CacheInv'
<1> DEFINE url == prepare[c].url
           found == IF prepare[c].commit # None THEN prepare[c].commit
                    ELSE IF prepare[c].asked # None THEN prepare[c].asked ELSE head[url]
           new == [prepare[c] EXCEPT !.at = "fetch", !.commit = found]
<1>1. c \in Inside /\ UNCHANGED <<directory, tail, head, touched>> /\ prepare[c].at = "resolve"
  BY DEF Resolve, Inside, Stands
<1>2. CacheTypeOK /\ prepare[c] \in Request /\ url \in Urls
  BY <1>1 DEF CacheInv, CacheTypeOK
<1>3. prepare' = [prepare EXCEPT ![c] = new]
  BY DEF Resolve
<1>4. found \in Revisions \cup {None}
  BY <1>2 DEF CacheTypeOK, Request
<1> HIDE DEF found
<1>5. new \in Request /\ new.at = "fetch" /\ new.url = url /\ new.after = prepare[c].after
  BY <1>2, <1>4 DEF Request, Places
<1> HIDE DEF new
<1>6. prepare' \in [Callers -> Request] /\ prepare'[c] = new /\ \A x \in Callers : x # c => prepare'[x] = prepare[x]
  BY <1>2, <1>3, <1>5 DEF CacheTypeOK
<1>7. QueueInv'
  <2>1. "fetch" \in Places \ {"idle", "waiting"}
    BY DEF Places
  <2> QED BY <1>1, <1>2, <1>5, <1>6, <2>1, LineMoves DEF CacheInv
<1>8. CacheTypeOK'
  BY <1>1, <1>2, <1>5, <1>6 DEF CacheTypeOK
<1>9. OwnerInv'
  BY <1>1 DEF CacheInv, OwnerInv
<1>a. Inside' = Inside /\ \A x \in Inside : x = c
  <2>1. \A x \in Inside : x = c
    BY <1>1, OneInside DEF CacheInv
  <2> QED BY <1>1, <1>5, <1>6, <2>1 DEF Inside
<1>b. InsideInv'
  BY <1>1, <1>5, <1>6, <1>a DEF CacheInv, InsideInv
<1> QED BY <1>7, <1>8, <1>9, <1>b DEF CacheInv

\* The request leaves, and nobody waits for it any more; it was none of the line.
LEMMA ReturnStep ==
  ASSUME CacheAssumption, CacheInv, NEW c \in Callers, Return(c)
  PROVE  CacheInv'
<1> DEFINE forget(x) == IF prepare[x].after = c THEN [prepare[x] EXCEPT !.after = None] ELSE prepare[x]
<1>1. /\ prepare[c].at = "settled" /\ UNCHANGED <<directory, head, touched>>
      /\ tail' = (IF tail = c THEN None ELSE tail)
      /\ prepare' = [x \in Callers |-> IF x = c THEN AtRest ELSE forget(x)]
  BY DEF Return, Stands
<1>2. CacheTypeOK
  BY DEF CacheInv
<1>3. AtRest \in Request /\ AtRest.at = "idle"
  BY DEF AtRest, Request, Places
<1>4. \A x \in Callers : /\ forget(x) \in Request /\ forget(x).at = prepare[x].at /\ forget(x).url = prepare[x].url
                         /\ forget(x).after = IF prepare[x].after = c THEN None ELSE prepare[x].after
  BY <1>2 DEF CacheTypeOK, Request
<1> HIDE DEF forget
<1>5. /\ prepare' \in [Callers -> Request] /\ prepare'[c].at = "idle"
      /\ \A x \in Callers : x # c =>
           /\ prepare'[x].at = prepare[x].at /\ prepare'[x].url = prepare[x].url
           /\ prepare'[x].after = IF prepare[x].after = c THEN None ELSE prepare[x].after
  BY <1>1, <1>3, <1>4
<1>6. CacheTypeOK'
  BY <1>1, <1>2, <1>5 DEF CacheTypeOK
<1>7. OwnerInv'
  BY <1>1 DEF CacheInv, OwnerInv
<1>8. Inside' = Inside /\ c \notin Inside /\ Pending' = Pending /\ c \notin Pending
  BY <1>1, <1>5 DEF Inside, Pending
<1>9. InsideInv'
  <2>1. \A x \in Inside : x \in Callers /\ x # c
    BY <1>8 DEF Inside
  <2> QED BY <1>1, <1>5, <1>8, <2>1 DEF CacheInv, InsideInv
<1>a. QueueInv'
  <2>0. PICK n \in Nat : \E line \in [1..n -> Callers] : Line(n, line)
    BY DEF CacheInv, QueueInv
  <2>1. PICK line \in [1..n -> Callers] : Line(n, line)
    BY <2>0
  <2>2. \A i \in 1..n : line[i] \in Pending /\ line[i] \in Callers /\ line[i] # c
    BY <1>8, <2>1 DEF Line
  <2>3. \A x : Gone(x) /\ x # c => Gone(x)'
    BY <1>5 DEF Gone
  <2>4. \A i \in 2..n : prepare'[line[i]].at = "waiting" /\ prepare'[line[i]].after = line[i - 1]
    <3>1. \A i \in 2..n : i \in 1..n /\ i - 1 \in 1..n
      OBVIOUS
    <3>2. \A i \in 2..n : line[i] \in Callers /\ line[i] # c /\ line[i - 1] # c
      BY <2>2, <3>1
    <3> QED BY <1>5, <2>1, <3>2 DEF Line
  <2>5. n > 0 /\ prepare'[line[1]].at = "waiting" => Gone(prepare[line[1]].after)'
    <3> SUFFICES ASSUME n > 0, prepare'[line[1]].at = "waiting" PROVE Gone(prepare[line[1]].after)'
      OBVIOUS
    <3>1. 1 \in 1..n
      OBVIOUS
    <3>2. PICK x : x = prepare[line[1]].after
      OBVIOUS
    <3>3. Gone(x)
      BY <1>5, <2>1, <2>2, <3>1, <3>2 DEF Line
    <3>4. prepare'[line[1]].after = IF x = c THEN None ELSE x
      BY <1>5, <2>2, <3>1, <3>2
    <3>5. x # c => Gone(x)'
      BY <2>3, <3>3
    <3> QED BY <3>4, <3>5 DEF Gone
  <2>6. IF n > 0 THEN tail' = line[n] ELSE Gone(tail)'
    <3>1. CASE n > 0
      <4>1. n \in 1..n /\ tail = line[n]
        BY <2>1, <3>1 DEF Line
      <4> QED BY <1>1, <2>2, <3>1, <4>1
    <3>2. CASE ~(n > 0)
      <4>1. PICK x : x = tail
        OBVIOUS
      <4>2. Gone(x)
        BY <2>1, <3>2, <4>1 DEF Line
      <4>3. tail' = IF x = c THEN None ELSE x
        BY <1>1, <4>1
      <4>4. x # c => Gone(x)'
        BY <2>3, <4>2
      <4>5. Gone(tail)'
        BY <4>3, <4>4 DEF Gone
      <4> QED BY <3>2, <4>5
    <3> QED BY <3>1, <3>2
  <2>7. Line(n, line)'
    BY <1>8, <2>1, <2>4, <2>5, <2>6 DEF Line
  <2> QED BY <2>7 DEF QueueInv
<1> QED BY <1>6, <1>7, <1>9, <1>a DEF CacheInv

\* The process stops: nobody is in line any more.
LEMMA StopStep == ASSUME CacheAssumption, CacheInv, Stop PROVE CacheInv'
<1>1. prepare' = [c \in Callers |-> AtRest] /\ tail' = None /\ UNCHANGED <<directory, head, touched>>
  BY DEF Stop
<1>2. AtRest \in Request /\ AtRest.at = "idle"
  BY DEF AtRest, Request, Places
<1>3. prepare' \in [Callers -> Request] /\ \A c \in Callers : prepare'[c].at = "idle"
  BY <1>1, <1>2
<1>4. Pending' = {} /\ Inside' = {}
  BY <1>3 DEF Pending, Inside
<1>5. PICK line : line = [i \in 1..0 |-> None]
  OBVIOUS
<1>6. line \in [1..0 -> Callers] /\ 1..0 = {} /\ 2..0 = {} /\ 0 \in Nat
  BY <1>5
<1>7. Line(0, line)'
  BY <1>1, <1>4, <1>6 DEF Line, Gone
<1>8. QueueInv'
  BY <1>6, <1>7 DEF QueueInv
<1>9. CacheTypeOK' /\ OwnerInv' /\ InsideInv'
  BY <1>1, <1>3, <1>4 DEF CacheInv, CacheTypeOK, OwnerInv, InsideInv
<1> QED BY <1>8, <1>9 DEF CacheInv

LEMMA CacheStarts == ASSUME CacheAssumption, CacheInit PROVE CacheInv
<1>1. prepare = [c \in Callers |-> AtRest] /\ tail = None /\ touched = None /\ directory \in Directories
  BY DEF CacheInit
<1>2. AtRest \in Request /\ AtRest.at = "idle"
  BY DEF AtRest, Request, Places
<1>3. prepare \in [Callers -> Request] /\ \A c \in Callers : prepare[c].at = "idle"
  BY <1>1, <1>2
<1>4. Pending = {} /\ Inside = {}
  BY <1>3 DEF Pending, Inside
<1>5. PICK line : line = [i \in 1..0 |-> None]
  OBVIOUS
<1>6. line \in [1..0 -> Callers] /\ 1..0 = {} /\ 2..0 = {} /\ 0 \in Nat
  BY <1>5
<1>7. Line(0, line)
  BY <1>1, <1>4, <1>6 DEF Line, Gone
<1>8. QueueInv
  BY <1>6, <1>7 DEF QueueInv
<1>9. directory \in Folders
  BY <1>1 DEF CacheAssumption, Folders
<1>10. head \in [Urls -> Revisions]
  BY DEF CacheInit
<1>11. CacheTypeOK /\ OwnerInv /\ InsideInv
  BY <1>1, <1>3, <1>4, <1>9, <1>10 DEF CacheTypeOK, OwnerInv, InsideInv, CacheAssumption
<1> QED BY <1>8, <1>11 DEF CacheInv

-----------------------------------------------------------------------------
(* The theorems.                                                           *)

\* The line of the requests and what they found in the directory stay as the invariant says.
THEOREM CacheInvariant == CacheSpec => []CacheInv
<1> USE CacheHypothesis
<1>1. CacheInit => CacheInv
  BY CacheStarts
<1>2. CacheInv /\ [CacheNext]_cacheVars => CacheInv'
  <2> SUFFICES ASSUME CacheInv, [CacheNext]_cacheVars PROVE CacheInv'
    OBVIOUS
  <2>1. ASSUME NEW c \in Callers, CacheSteps(c) PROVE CacheInv'
    BY <2>1, InspectStep, CreateMarkerStep, WriteMarkerStep, InitRepositoryStep, ResolveStep, FetchStep,
       ReturnStep DEF CacheSteps
  <2>2. ASSUME NEW c \in Callers, GitFails(c) PROVE CacheInv'
    <3>1. c \in Inside \/ Turn(c)
      BY <2>2 DEF GitFails, Inside
    <3> QED BY <2>2, <3>1, SettleStep DEF GitFails
  <2>3. ASSUME NEW c \in Callers, NEW url \in Urls, NEW asked \in Revisions \cup {None}, Prepare(c, url, asked)
        PROVE  CacheInv'
    BY <2>3, PrepareStep
  <2>4. CASE Stop
    BY <2>4, StopStep
  <2>5. ASSUME NEW url \in Urls, NEW commit \in Revisions, BranchMoves(url, commit) PROVE CacheInv'
    <3>1. UNCHANGED <<directory, tail, prepare, touched>> /\ head' = [head EXCEPT ![url] = commit]
      BY <2>5 DEF BranchMoves
    <3>2. head' \in [Urls -> Revisions]
      BY <3>1 DEF CacheInv, CacheTypeOK
    <3>3. CacheTypeOK' /\ OwnerInv' /\ InsideInv'
      BY <3>1, <3>2 DEF CacheInv, CacheTypeOK, OwnerInv, InsideInv, Inside
    <3>4. QueueInv'
      BY <3>1 DEF CacheInv, QueueInv, Line, Pending, Gone
    <3> QED BY <3>3, <3>4 DEF CacheInv
  <2>6. CASE UNCHANGED cacheVars
    <3>1. UNCHANGED <<directory, tail, prepare, touched, head>>
      BY <2>6 DEF cacheVars
    <3>2. CacheTypeOK' /\ OwnerInv' /\ InsideInv'
      BY <3>1 DEF CacheInv, CacheTypeOK, OwnerInv, InsideInv, Inside
    <3>3. QueueInv'
      BY <3>1 DEF CacheInv, QueueInv, Line, Pending, Gone
    <3> QED BY <3>2, <3>3 DEF CacheInv
  <2> QED BY <2>1, <2>2, <2>3, <2>4, <2>5, <2>6 DEF CacheNext
<1> QED BY <1>1, <1>2, PTL DEF CacheSpec

\* One operation at a time works in the managed clone, which is only written for the repository
\* it belongs to, and has only the commits of that one.
THEOREM CloneHasOneOwner == CacheSpec => []CloneIsOwned
<1> USE CacheHypothesis
<1>1. CacheInv => CloneIsOwned
  <2> SUFFICES ASSUME CacheInv PROVE CloneIsOwned
    OBVIOUS
  <2>1. Cardinality(Inside) <= 1
    <3>1. CASE Inside = {}
      BY <3>1, FS_EmptySet
    <3>2. CASE Inside # {}
      <4>1. PICK c \in Inside : TRUE
        BY <3>2
      <4>2. Inside = {c}
        BY <4>1, OneInside DEF CacheInv
      <4> QED BY <4>2, FS_Singleton
    <3> QED BY <3>1, <3>2
  <2>2. OwnCommitsOnly
    <3>1. touched # None => directory.marker = touched /\ directory.origin \in {None, touched}
      BY DEF CacheInv, OwnerInv
    <3>2. \A held \in directory.commits : directory.marker \notin {None, Partial} => held[1] = directory.marker
      BY DEF CacheInv, OwnerInv
    <3> QED BY <3>1, <3>2 DEF OwnCommitsOnly
  <2> QED BY <2>1, <2>2 DEF CloneIsOwned, OneAtATime
<1> QED BY <1>1, CacheInvariant, PTL
-----------------------------------------------------------------------------
(***************************************************************************)
(* What is recorded as indexed at Cognee is there, completely, and the     *)
(* calls do not log in more often than they must: a proof for any number   *)
(* of datasets, lost and late calls, expired tokens, stops and prunes.     *)
(*                                                                         *)
(* The argument.  A client knows what Cognee has done only from where its  *)
(* call is, so each place carries what may be concluded there (Concludes); *)
(* that lasts, since a late call never undoes anything and datasets are    *)
(* deleted only while Brain is down (RunsInv).  A call of the pipeline is  *)
(* never repeated before the capture is there, even late (CallInv).  Only  *)
(* one token is valid more than Brain was started while the calls know it, *)
(* and a refused call forgets it only if it is the refused one (TokenInv). *)
(***************************************************************************)
\* A pipeline had the capture it worked on, and what it completed is complete.
DatasetInv ==
  \A d \in Datasets :
    /\ service[d].run # None => service[d].data
    /\ service[d].run = "completed" => service[d].complete

\* What a client may conclude of a dataset from where its call is: an answered one has been
\* done, and says what Cognee had come to.
Concludes(state, x) ==
  LET answered == x.at = "answered"
  IN /\ x.path \in {"status", "add", "cognify", "poll"} \/ (x.path = "dataset" /\ answered) => state.exists
     /\ x.path \in {"cognify", "poll"} \/ (x.path = "add" /\ answered) => state.data
     /\ x.path \in {"status", "poll"} /\ answered =>
          \E s \in Pipelines : x.answer = {s} /\ (s # None => state.data) /\ (s = "completed" => state.complete)

CallInv ==
  /\ \A c \in Clients : call[c] # None =>
       /\ Concludes(service[call[c].dataset], call[c])
       /\ call[c].at = "login" => loggingIn
       /\ call[c].at = "refused" => call[c].token \notin valid
       /\ call[c].token \in (1..issued) \cup {None}
  /\ \A x \in delayed : x.path = "cognify" => service[x.dataset].data

\* Nothing of Brain outlives it; the maintenance runs without it, and leaves the dataset in use.
RunsInv ==
  /\ ~brainUp => token = None /\ ~loggingIn /\ \A c \in Clients : call[c] = None
  /\ loggingIn => token = None
  /\ pruning # None => ~brainUp /\ used \notin pruning.delete \cup pruning.unbind /\ (pruning.deleted = None \/ pruning.deleted # used)

\* The valid tokens that were known to the calls once.
Heard == valid \ lost

\* One more of them may be valid only when the one the calls know is.
TokenInv ==
  /\ Cardinality(Heard) <= starts
  /\ brainUp /\ token \notin Heard => Cardinality(Heard) < starts

CogneeInv == CogneeTypeOK /\ DatasetInv /\ CallInv /\ RunsInv /\ TokenInv /\ CurrentIsIndexed

-----------------------------------------------------------------------------
(* What calls do to datasets.                                              *)

\* A state of a dataset with one field changed.
LEMMA StateFields ==
  ASSUME NEW B, NEW R, NEW o \in [exists : B, data : B, run : R, complete : B], NEW b \in B, NEW r \in R
  PROVE  /\ [o EXCEPT !.exists = b] = [exists |-> b, data |-> o.data, run |-> o.run, complete |-> o.complete]
         /\ [o EXCEPT !.data = b] = [exists |-> o.exists, data |-> b, run |-> o.run, complete |-> o.complete]
         /\ [o EXCEPT !.run = r] = [exists |-> o.exists, data |-> o.data, run |-> r, complete |-> o.complete]
         /\ [o EXCEPT !.run = r, !.complete = b] = [exists |-> o.exists, data |-> o.data, run |-> r, complete |-> b]
<1>1. [o EXCEPT !.exists = b] = [exists |-> b, data |-> o.data, run |-> o.run, complete |-> o.complete]
  OBVIOUS
<1>2. [o EXCEPT !.data = b] = [exists |-> o.exists, data |-> b, run |-> o.run, complete |-> o.complete]
  OBVIOUS
<1>3. [o EXCEPT !.run = r] = [exists |-> o.exists, data |-> o.data, run |-> r, complete |-> o.complete]
  OBVIOUS
<1>4. [o EXCEPT !.run = r, !.complete = b] = [exists |-> o.exists, data |-> o.data, run |-> r, complete |-> b]
  <2>1. [o EXCEPT !.run = r, !.complete = b] = [[o EXCEPT !.run = r] EXCEPT !.complete = b]
    OBVIOUS
  <2>2. /\ [exists |-> o.exists, data |-> o.data, run |-> r, complete |-> o.complete].exists = o.exists
        /\ [[exists |-> o.exists, data |-> o.data, run |-> r, complete |-> o.complete] EXCEPT !.complete = b]
             = [exists |-> o.exists, data |-> o.data, run |-> r, complete |-> b]
    OBVIOUS
  <2> QED BY <1>3, <2>1, <2>2
<1> QED BY <1>1, <1>2, <1>3, <1>4

LEMMA StateMembers ==
  ASSUME NEW B, NEW R, NEW a \in B, NEW b \in B, NEW r \in R, NEW c \in B
  PROVE  [exists |-> a, data |-> b, run |-> r, complete |-> c] \in [exists : B, data : B, run : R, complete : B]
  OBVIOUS

LEMMA StateParts ==
  ASSUME NEW B, NEW R, NEW o \in [exists : B, data : B, run : R, complete : B]
  PROVE  o.exists \in B /\ o.data \in B /\ o.run \in R /\ o.complete \in B
  OBVIOUS

\* A state that is further than another: nothing that was there is gone.
Further(o, n) == (o.exists => n.exists) /\ (o.data => n.data) /\ (o.complete => n.complete)
Sound(o) == (o.run # None => o.data) /\ (o.run = "completed" => o.complete)

\* A call, done in time or late, takes its dataset further; nothing but a pipeline completes one.
LEMMA AfterCall ==
  ASSUME CogneeAssumption, NEW path \in Paths, NEW o \in States, Sound(o), path = "cognify" => o.data
  PROVE  /\ After(path, o) \in States /\ Further(o, After(path, o)) /\ Sound(After(path, o))
         /\ path = "dataset" => After(path, o).exists
         /\ path = "add" /\ o.exists => After(path, o).data
         /\ path \in {"status", "poll"} => After(path, o) = o
<1>1. o.exists \in BOOLEAN /\ o.data \in BOOLEAN /\ o.run \in Pipelines /\ o.complete \in BOOLEAN
  BY StateParts DEF States
<1>2. TRUE \in BOOLEAN /\ "processing" \in Pipelines
  BY DEF Pipelines
<1>3. CASE path = "dataset"
  <2>1. After(path, o) = [exists |-> TRUE, data |-> o.data, run |-> o.run, complete |-> o.complete]
    <3>1. After(path, o) = [o EXCEPT !.exists = TRUE]
      BY <1>3 DEF After
    <3> QED BY <3>1, <1>2, StateFields DEF States
  <2>2. After(path, o) \in States
    BY <2>1, <1>1, <1>2, StateMembers DEF States
  <2> QED BY <1>3, <2>1, <2>2 DEF Further, Sound
<1>4. CASE path = "add" /\ o.exists
  <2>1. After(path, o) = [exists |-> o.exists, data |-> TRUE, run |-> o.run, complete |-> o.complete]
    <3>1. After(path, o) = [o EXCEPT !.data = TRUE]
      BY <1>4 DEF After
    <3> QED BY <3>1, <1>2, StateFields DEF States
  <2>2. After(path, o) \in States
    BY <2>1, <1>1, <1>2, StateMembers DEF States
  <2> QED BY <1>4, <2>1, <2>2 DEF Further, Sound
<1>5. CASE path = "cognify" /\ o.exists /\ o.run # "completed"
  <2>1. After(path, o) = [exists |-> o.exists, data |-> o.data, run |-> "processing", complete |-> o.complete]
    <3>1. After(path, o) = [o EXCEPT !.run = "processing"]
      BY <1>5 DEF After
    <3> QED BY <3>1, <1>2, StateFields DEF States
  <2>2. After(path, o) \in States
    BY <2>1, <1>1, <1>2, StateMembers DEF States
  <2> QED BY <1>5, <2>1, <2>2 DEF Further, Sound
<1>6. CASE /\ path # "dataset" /\ ~(path = "add" /\ o.exists)
           /\ ~(path = "cognify" /\ o.exists /\ o.run # "completed")
  <2>1. After(path, o) = o
    BY <1>6 DEF After
  <2> QED BY <1>6, <2>1 DEF Further
<1> QED BY <1>3, <1>4, <1>5, <1>6

\* A pipeline that ends takes its dataset further, and completes it only if it had the capture.
LEMMA AfterPipeline ==
  ASSUME CogneeAssumption, NEW o \in States, Sound(o), o.run = "processing", NEW result \in {"completed", "failed"}
  PROVE  Finished(o, result) \in States /\ Further(o, Finished(o, result)) /\ Sound(Finished(o, result))
<1>1. o.exists \in BOOLEAN /\ o.data \in BOOLEAN /\ o.run \in Pipelines /\ o.complete \in BOOLEAN
  BY StateParts DEF States
<1>2. o.data
  BY DEF Sound, CogneeAssumption
<1> DEFINE done == o.complete \/ (result = "completed" /\ o.data)
<1>3. done \in BOOLEAN /\ result \in Pipelines /\ (o.complete => done) /\ (result = "completed" => done)
  BY <1>2 DEF Pipelines
<1>4. Finished(o, result) = [o EXCEPT !.run = result, !.complete = done]
  BY DEF Finished
<1> HIDE DEF done
<1>5. Finished(o, result) = [exists |-> o.exists, data |-> o.data, run |-> result, complete |-> done]
  BY <1>3, <1>4, StateFields DEF States
<1>6. Finished(o, result) \in States
  BY <1>1, <1>3, <1>5, StateMembers DEF States
<1> QED BY <1>2, <1>3, <1>5, <1>6 DEF Further, Sound

LEMMA ConcludesStays ==
  ASSUME NEW o, NEW n, NEW x, Concludes(o, x), Further(o, n)
  PROVE  Concludes(n, x)
  BY DEF Concludes, Further

-----------------------------------------------------------------------------
(* What becomes of calls.                                                  *)

\* Calls with fields that change, over any sets of values.
LEMMA CallFields ==
  ASSUME NEW P, NEW D, NEW A, NEW T, NEW B, NEW N,
         NEW x \in [path : P, dataset : D, at : A, token : T, again : B, answer : N],
         NEW at \in A, NEW known \in T, NEW again \in B, NEW reply \in N
  PROVE  /\ LET y == [x EXCEPT !.at = at, !.answer = reply]
            IN /\ y \in [path : P, dataset : D, at : A, token : T, again : B, answer : N]
               /\ y.path = x.path /\ y.dataset = x.dataset /\ y.at = at /\ y.token = x.token /\ y.answer = reply
         /\ LET y == [x EXCEPT !.again = again, !.token = known, !.at = at]
            IN /\ y \in [path : P, dataset : D, at : A, token : T, again : B, answer : N]
               /\ y.path = x.path /\ y.dataset = x.dataset /\ y.at = at /\ y.token = known
         /\ LET y == [x EXCEPT !.at = at, !.token = known]
            IN /\ y \in [path : P, dataset : D, at : A, token : T, again : B, answer : N]
               /\ y.path = x.path /\ y.dataset = x.dataset /\ y.at = at /\ y.token = known
<1>1. LET y == [x EXCEPT !.at = at, !.answer = reply]
      IN /\ y \in [path : P, dataset : D, at : A, token : T, again : B, answer : N]
         /\ y.path = x.path /\ y.dataset = x.dataset /\ y.at = at /\ y.token = x.token /\ y.answer = reply
  OBVIOUS
<1>2. LET y == [x EXCEPT !.again = again, !.token = known, !.at = at]
      IN /\ y \in [path : P, dataset : D, at : A, token : T, again : B, answer : N]
         /\ y.path = x.path /\ y.dataset = x.dataset /\ y.at = at /\ y.token = known
  OBVIOUS
<1>3. LET y == [x EXCEPT !.at = at, !.token = known]
      IN /\ y \in [path : P, dataset : D, at : A, token : T, again : B, answer : N]
         /\ y.path = x.path /\ y.dataset = x.dataset /\ y.at = at /\ y.token = known
  OBVIOUS
<1> QED BY <1>1, <1>2, <1>3

LEMMA CallParts ==
  ASSUME NEW x \in CallRecords
  PROVE  x.path \in Paths /\ x.dataset \in Datasets /\ x.at \in {"login", "sent", "answered", "refused"}
  BY DEF CallRecords

LEMMA CallMembers ==
  ASSUME NEW P, NEW D, NEW A, NEW T, NEW B, NEW N,
         NEW x \in [path : P, dataset : D, at : A, token : T, again : B, answer : N]
  PROVE  x.at \in A /\ x.token \in T /\ x.again \in B /\ x.answer \in N
  OBVIOUS

LEMMA RepliedCall ==
  ASSUME NEW x \in CallRecords, NEW reply \in SUBSET (Datasets \cup Pipelines)
  PROVE  LET y == Replied(x, reply)
         IN /\ y \in CallRecords /\ y.path = x.path /\ y.dataset = x.dataset
            /\ y.at = "answered" /\ y.token = x.token /\ y.answer = reply
<1>1. "answered" \in {"login", "sent", "answered", "refused"}
  OBVIOUS
<1>2. x.token \in Nat \cup {None} /\ x.again \in BOOLEAN
  BY CallMembers DEF CallRecords
<1> QED BY <1>1, <1>2, CallFields DEF CallRecords, Replied

LEMMA RefusedCall ==
  ASSUME NEW x \in CallRecords
  PROVE  LET y == [x EXCEPT !.at = "refused"]
         IN y \in CallRecords /\ y.path = x.path /\ y.dataset = x.dataset /\ y.at = "refused" /\ y.token = x.token
<1>1. ASSUME NEW P, NEW D, NEW A, NEW T, NEW B, NEW N,
             NEW z \in [path : P, dataset : D, at : A, token : T, again : B, answer : N], NEW at \in A
      PROVE  LET y == [z EXCEPT !.at = at]
             IN /\ y \in [path : P, dataset : D, at : A, token : T, again : B, answer : N]
                /\ y.path = z.path /\ y.dataset = z.dataset /\ y.at = at /\ y.token = z.token
  OBVIOUS
<1>2. "refused" \in {"login", "sent", "answered", "refused"}
  OBVIOUS
<1> QED BY <1>1, <1>2 DEF CallRecords

\* A call that is sent again, or for the first time, with the token that is known.
LEMMA ResentCall ==
  ASSUME NEW x \in CallRecords, NEW known \in Nat \cup {None}
  PROVE  /\ LET y == Resent(x, known)
            IN /\ y \in CallRecords /\ y.path = x.path /\ y.dataset = x.dataset
               /\ y.at = (IF known = None THEN "login" ELSE "sent") /\ y.token = known
         /\ LET y == WithToken(x, known)
            IN y \in CallRecords /\ y.path = x.path /\ y.dataset = x.dataset /\ y.at = "sent" /\ y.token = known
<1>1. {"login", "sent"} \subseteq {"login", "sent", "answered", "refused"} /\ TRUE \in BOOLEAN
  OBVIOUS
<1>2. x.answer \in SUBSET (Datasets \cup Pipelines)
  BY CallMembers DEF CallRecords
<1> DEFINE at == IF known = None THEN "login" ELSE "sent"
<1>3. at \in {"login", "sent", "answered", "refused"}
  OBVIOUS
<1>4. LET y == Resent(x, known) IN y \in CallRecords /\ y.path = x.path /\ y.dataset = x.dataset /\ y.at = at /\ y.token = known
  <2>1. Resent(x, known) = [x EXCEPT !.again = TRUE, !.token = known, !.at = at]
    BY DEF Resent
  <2> HIDE DEF at
  <2>2. LET y == [x EXCEPT !.again = TRUE, !.token = known, !.at = at]
        IN y \in CallRecords /\ y.path = x.path /\ y.dataset = x.dataset /\ y.at = at /\ y.token = known
    BY <1>1, <1>2, <1>3, CallFields DEF CallRecords
  <2> QED BY <2>1, <2>2
<1>5. LET y == WithToken(x, known) IN y \in CallRecords /\ y.path = x.path /\ y.dataset = x.dataset /\ y.at = "sent" /\ y.token = known
  BY <1>1, <1>2, CallFields DEF CallRecords, WithToken
<1> QED BY <1>4, <1>5

LEMMA NewCallFacts ==
  ASSUME NEW path \in Paths, NEW d \in Datasets, token \in Nat \cup {None}
  PROVE  LET y == NewCall(path, d)
         IN /\ y \in CallRecords /\ y.path = path /\ y.dataset = d
            /\ y.at = (IF token = None THEN "login" ELSE "sent") /\ y.token = token
  BY DEF NewCall, CallRecords

\* What is given up may be done later.
LEMMA GivenUpFacts ==
  ASSUME CogneeInv, NEW calls, \A x \in calls : \E c \in Clients : call[c] # None /\ x = call[c]
  PROVE  \A x \in GivenUp(calls) : x \in LateCalls /\ (x.path = "cognify" => service[x.dataset].data)
<1> SUFFICES ASSUME NEW y \in calls
             PROVE  /\ [path |-> y.path, dataset |-> y.dataset] \in LateCalls
                    /\ y.path = "cognify" => service[y.dataset].data
  BY DEF GivenUp
<1>1. PICK c \in Clients : call[c] # None /\ y = call[c]
  OBVIOUS
<1>2. y \in CallRecords /\ Concludes(service[y.dataset], y)
  BY <1>1 DEF CogneeInv, CogneeTypeOK, CallInv
<1> QED BY <1>2, CallParts DEF LateCalls, Concludes

-----------------------------------------------------------------------------
(* What steps leave as it is.                                              *)

AllFurther == \A d \in Datasets : Further(service[d], service'[d])
LateStays == \A x \in delayed' : x \in LateCalls /\ (x.path = "cognify" => service'[x.dataset].data)

LEMMA NothingFurther == ASSUME UNCHANGED service PROVE AllFurther
  BY DEF AllFurther, Further

LEMMA LateCallsStay ==
  ASSUME CogneeInv, AllFurther, delayed' \subseteq delayed
  PROVE  LateStays
<1> SUFFICES ASSUME NEW x \in delayed'
             PROVE  x \in LateCalls /\ (x.path = "cognify" => service'[x.dataset].data)
  BY DEF LateStays
<1>1. x \in LateCalls /\ (x.path = "cognify" => service[x.dataset].data)
  BY DEF CogneeInv, CogneeTypeOK, CallInv
<1>2. x.dataset \in Datasets
  BY <1>1 DEF LateCalls
<1> QED BY <1>1, <1>2 DEF AllFurther, Further

\* A call that is given up joins the late ones.
LEMMA LateCallsJoin ==
  ASSUME CogneeInv, UNCHANGED service, NEW calls, \A x \in calls : \E c \in Clients : call[c] # None /\ x = call[c],
         NEW late \in SUBSET GivenUp(calls), delayed' = delayed \cup late
  PROVE  LateStays
<1>1. \A x \in delayed : x \in LateCalls /\ (x.path = "cognify" => service[x.dataset].data)
  BY DEF CogneeInv, CogneeTypeOK, CallInv
<1> QED BY <1>1, GivenUpFacts DEF LateStays

\* Calls that stay, or end.
LEMMA CallsStay ==
  ASSUME CogneeInv, call' \in [Clients -> CallRecords \cup {None}],
         \A c \in Clients : call'[c] = None \/ call'[c] = call[c],
         \A c \in Clients : call'[c] # None /\ call'[c].at = "login" => loggingIn',
         valid' \cap ((1..issued) \cup {None}) \subseteq valid, 1..issued \subseteq 1..issued', AllFurther, LateStays
  PROVE  CallInv'
<1>1. ASSUME NEW c \in Clients, call'[c] # None
      PROVE  /\ Concludes(service'[call'[c].dataset], call'[c])
             /\ call'[c].at = "login" => loggingIn'
             /\ call'[c].at = "refused" => call'[c].token \notin valid'
             /\ call'[c].token \in (1..issued') \cup {None}
  <2>1. call'[c] = call[c] /\ call[c] # None /\ call[c] \in CallRecords
    BY <1>1 DEF CogneeInv, CogneeTypeOK
  <2>2. /\ Concludes(service[call[c].dataset], call[c]) /\ (call[c].at = "refused" => call[c].token \notin valid)
        /\ call[c].token \in (1..issued) \cup {None}
    BY <2>1 DEF CogneeInv, CallInv
  <2>3. Further(service[call[c].dataset], service'[call[c].dataset])
    BY <2>1, CallParts DEF AllFurther
  <2>4. Concludes(service'[call[c].dataset], call[c])
    BY <2>2, <2>3, ConcludesStays
  <2> QED BY <1>1, <2>1, <2>2, <2>4
<1> QED BY <1>1 DEF CallInv, LateStays

\* One call goes on.
LEMMA CallGoesOn ==
  ASSUME CogneeInv, NEW c \in Clients, NEW y \in CallRecords, call' = [call EXCEPT ![c] = y],
         Concludes(service'[y.dataset], y), y.at = "login" => loggingIn', y.at = "refused" => y.token \notin valid,
         y.token \in (1..issued) \cup {None}, loggingIn => loggingIn', UNCHANGED <<valid, issued, lost>>, AllFurther, LateStays
  PROVE  CallInv' /\ call' \in [Clients -> CallRecords \cup {None}]
<1>1. call \in [Clients -> CallRecords \cup {None}]
  BY DEF CogneeInv, CogneeTypeOK
<1>2. call' \in [Clients -> CallRecords \cup {None}] /\ call'[c] = y /\ \A b \in Clients \ {c} : call'[b] = call[b]
  BY <1>1
<1>3. ASSUME NEW b \in Clients, call'[b] # None
      PROVE  /\ Concludes(service'[call'[b].dataset], call'[b])
             /\ call'[b].at = "login" => loggingIn'
             /\ call'[b].at = "refused" => call'[b].token \notin valid'
             /\ call'[b].token \in (1..issued') \cup {None}
  <2>1. CASE b = c
    BY <1>2, <2>1
  <2>2. CASE b # c
    <3>1. call'[b] = call[b] /\ call[b] # None /\ call[b] \in CallRecords
      BY <1>1, <1>2, <1>3, <2>2
    <3>2. /\ Concludes(service[call[b].dataset], call[b])
          /\ call[b].at = "login" => loggingIn
          /\ call[b].at = "refused" => call[b].token \notin valid
          /\ call[b].token \in (1..issued) \cup {None}
      BY <3>1 DEF CogneeInv, CallInv
    <3>3. Further(service[call[b].dataset], service'[call[b].dataset])
      BY <3>1, CallParts DEF AllFurther
    <3>4. Concludes(service'[call[b].dataset], call[b])
      BY <3>2, <3>3, ConcludesStays
    <3> QED BY <3>1, <3>2, <3>4
  <2> QED BY <2>1, <2>2
<1> QED BY <1>2, <1>3 DEF CallInv, LateStays

\* Calls are dropped.
LEMMA DroppedCalls ==
  ASSUME CogneeInv, NEW clients, Drop(clients)
  PROVE  /\ call' \in [Clients -> CallRecords \cup {None}]
         /\ \A c \in Clients : call'[c] = None \/ (call'[c] = call[c] /\ c \notin clients)
         /\ (\A c \in Clients : call[c] = None) => \A c \in Clients : call'[c] = None
         /\ pending' \in BOOLEAN
  BY DEF Drop, CogneeInv, CogneeTypeOK

LEMMA StaysIndexed ==
  ASSUME CogneeInv, AllFurther, UNCHANGED <<bound, used, pruning, cut>>
  PROVE  CurrentIsIndexed'
<1>1. \A d \in (bound \cup {used}) \ (cut \cup InHand \cup {None}) : d \in Datasets /\ service[d].complete
  BY DEF CogneeInv, CogneeTypeOK, CurrentIsIndexed, InHand
<1> QED BY <1>1 DEF CurrentIsIndexed, InHand, AllFurther, Further

LEMMA CallOf ==
  ASSUME CogneeInv, NEW c \in Clients, call[c] # None
  PROVE  /\ call[c] \in CallRecords /\ brainUp
         /\ call[c].dataset \in Datasets /\ call[c].path \in Paths
         /\ Concludes(service[call[c].dataset], call[c])
         /\ call[c].at = "login" => loggingIn
         /\ call[c].at = "refused" => call[c].token \notin valid
         /\ call[c].token \in (1..issued) \cup {None}
<1>1. call[c] \in CallRecords
  BY DEF CogneeInv, CogneeTypeOK
<1>2. brainUp
  BY DEF CogneeInv, RunsInv
<1>3. /\ Concludes(service[call[c].dataset], call[c])
      /\ call[c].at = "login" => loggingIn
      /\ call[c].at = "refused" => call[c].token \notin valid
      /\ call[c].token \in (1..issued) \cup {None}
  BY DEF CogneeInv, CallInv
<1> QED BY <1>1, <1>2, <1>3, CallParts

\* A dataset's state is replaced by one that is further.
LEMMA OneFurther ==
  ASSUME CogneeInv, NEW d \in Datasets, NEW n \in States, Further(service[d], n), Sound(n),
         service' = [service EXCEPT ![d] = n]
  PROVE  service' \in [Datasets -> States] /\ service'[d] = n /\ AllFurther /\ DatasetInv'
<1>1. service' \in [Datasets -> States] /\ service'[d] = n /\ \A e \in Datasets \ {d} : service'[e] = service[e]
  BY DEF CogneeInv, CogneeTypeOK
<1>2. AllFurther
  BY <1>1 DEF AllFurther, Further
<1>3. \A e \in Datasets : Sound(service'[e])
  BY <1>1 DEF CogneeInv, DatasetInv, Sound
<1>4. DatasetInv'
  BY <1>3 DEF DatasetInv, Sound
<1> QED BY <1>1, <1>2, <1>4

LEMMA SoundStates == ASSUME CogneeInv PROVE \A d \in Datasets : service[d] \in States /\ Sound(service[d])
  BY DEF CogneeInv, CogneeTypeOK, DatasetInv, Sound

LEMMA SameTypes ==
  ASSUME CogneeInv, service' \in [Datasets -> States], call' \in [Clients -> CallRecords \cup {None}], CallInv',
         delayed' \subseteq LateCalls,
         UNCHANGED <<valid, issued, lost, token, loggingIn, brainUp, wanted, used, pending, bound, pruning, cut, starts>>
  PROVE  CogneeTypeOK'
<1>1. \A c \in Clients : call'[c] # None /\ call'[c].at = "login" => loggingIn'
  BY DEF CallInv
<1> QED BY <1>1 DEF CogneeInv, CogneeTypeOK

-----------------------------------------------------------------------------
(* Each step preserves the invariant.                                      *)

\* Steps of Cognee: only datasets, and perhaps a call that is answered, change.
LEMMA ServeStep ==
  ASSUME CogneeAssumption, CogneeInv, NEW c \in Clients, ServeCall(c)
  PROVE  CogneeInv'
<1> DEFINE x == call[c]
           d == call[c].dataset
<1>1. /\ x # None /\ x.at = "sent"
      /\ UNCHANGED <<valid, issued, lost, token, loggingIn, delayed, brainUp, wanted, used, pending, bound, pruning, cut,
                     starts>>
  BY DEF ServeCall, access, sources, maintenance
<1>2. /\ x \in CallRecords /\ brainUp /\ d \in Datasets /\ x.path \in Paths /\ Concludes(service[d], x)
      /\ x.token \in (1..issued) \cup {None}
  BY <1>1, CallOf
<1>3. service[d] \in States /\ Sound(service[d]) /\ (x.path = "cognify" => service[d].data)
  BY <1>2, SoundStates DEF Concludes
<1>4. call \in [Clients -> CallRecords \cup {None}]
  BY DEF CogneeInv, CogneeTypeOK
<1>5. CASE x.token \in valid
  <2>1. PICK hits \in SUBSET {e \in Datasets : service[e].complete} :
          /\ service' = Done(x.path, d)
          /\ call' = [call EXCEPT ![c] = Replied(@, IF @.path = "search" THEN hits ELSE {service[@.dataset].run})]
    BY <1>5 DEF ServeCall
  <2> DEFINE reply == IF x.path = "search" THEN hits ELSE {service[d].run}
             y == Replied(x, reply)
             n == After(x.path, service[d])
  <2>2. reply \in SUBSET (Datasets \cup Pipelines)
    <3>1. service[d].run \in Pipelines
      BY <1>3, StateParts DEF States
    <3> QED BY <3>1
  <2>3. call' = [call EXCEPT ![c] = y]
    BY <2>1, <1>4
  <2>4. service' = [service EXCEPT ![d] = n]
    BY <2>1, <1>2 DEF Done, CogneeInv, CogneeTypeOK
  <2>5. /\ n \in States /\ Further(service[d], n) /\ Sound(n)
        /\ x.path = "dataset" => n.exists
        /\ x.path = "add" /\ service[d].exists => n.data
        /\ x.path \in {"status", "poll"} => n = service[d]
    BY <1>2, <1>3, AfterCall
  <2>6. x.path \in {"status", "poll"} => reply = {service[d].run} /\ service[d].run \in Pipelines
    <3>1. service[d].run \in Pipelines
      BY <1>3, StateParts DEF States
    <3> QED BY <3>1
  <2> HIDE DEF reply, n
  <2>7. /\ y \in CallRecords /\ y.path = x.path /\ y.dataset = d /\ y.at = "answered"
        /\ y.token = x.token /\ y.answer = reply
    BY <1>2, <2>2, RepliedCall
  <2> HIDE DEF y
  <2>8. service' \in [Datasets -> States] /\ service'[d] = n /\ AllFurther /\ DatasetInv'
    BY <1>2, <2>4, <2>5, OneFurther
  <2>9. Concludes(n, y)
    <3>1. y.path \in {"status", "add", "cognify", "poll"} \/ y.path = "dataset" => n.exists
      BY <1>2, <2>5, <2>7 DEF Concludes, Further
    <3>2. y.path \in {"cognify", "poll"} \/ y.path = "add" => n.data
      BY <1>2, <2>5, <2>7 DEF Concludes, Further
    <3>3. y.path \in {"status", "poll"} =>
            \E s \in Pipelines : y.answer = {s} /\ (s # None => n.data) /\ (s = "completed" => n.complete)
      BY <1>3, <2>5, <2>6, <2>7 DEF Sound
    <3> QED BY <2>7, <3>1, <3>2, <3>3 DEF Concludes
  <2>10. LateStays
    BY <1>1, <2>8, LateCallsStay
  <2>11. CallInv' /\ call' \in [Clients -> CallRecords \cup {None}]
    BY <1>1, <1>2, <2>3, <2>7, <2>8, <2>9, <2>10, CallGoesOn
  <2>12. CurrentIsIndexed'
    BY <1>1, <2>8, StaysIndexed
  <2>13. CogneeTypeOK'
    <3>1. delayed' \subseteq LateCalls
      BY <1>1 DEF CogneeInv, CogneeTypeOK
    <3> QED BY <1>1, <2>8, <2>11, <3>1, SameTypes
  <2>14. RunsInv' /\ TokenInv'
    BY <1>1, <1>2 DEF CogneeInv, RunsInv, TokenInv, Heard
  <2> QED BY <2>8, <2>11, <2>12, <2>13, <2>14 DEF CogneeInv
<1>6. CASE x.token \notin valid
  <2> DEFINE y == [x EXCEPT !.at = "refused"]
  <2>1. call' = [call EXCEPT ![c] = y] /\ UNCHANGED service
    BY <1>6, <1>4 DEF ServeCall
  <2>2. y \in CallRecords /\ y.path = x.path /\ y.dataset = d /\ y.at = "refused" /\ y.token = x.token
    BY <1>2, RefusedCall
  <2> HIDE DEF y
  <2>3. Concludes(service[d], y)
    BY <1>1, <1>2, <2>2 DEF Concludes
  <2>4. AllFurther /\ LateStays
    BY <1>1, <2>1, NothingFurther, LateCallsStay
  <2>5. CallInv' /\ call' \in [Clients -> CallRecords \cup {None}]
    BY <1>1, <1>2, <1>6, <2>1, <2>2, <2>3, <2>4, CallGoesOn
  <2>6. CurrentIsIndexed'
    BY <1>1, <2>4, StaysIndexed
  <2>7. CogneeTypeOK' /\ DatasetInv'
    <3>1. delayed' \subseteq LateCalls /\ service' \in [Datasets -> States]
      BY <1>1, <2>1 DEF CogneeInv, CogneeTypeOK
    <3>2. CogneeTypeOK'
      BY <1>1, <2>5, <3>1, SameTypes
    <3>3. DatasetInv'
      BY <2>1 DEF CogneeInv, DatasetInv
    <3> QED BY <3>2, <3>3
  <2>8. RunsInv' /\ TokenInv'
    BY <1>1, <1>2 DEF CogneeInv, RunsInv, TokenInv, Heard
  <2> QED BY <2>5, <2>6, <2>7, <2>8 DEF CogneeInv
<1> QED BY <1>5, <1>6

\* A pipeline ends, or a late call is done.
LEMMA DatasetStep ==
  ASSUME CogneeAssumption, CogneeInv, NEW d \in Datasets, NEW n \in States, Further(service[d], n), Sound(n),
         service' = [service EXCEPT ![d] = n], delayed' \subseteq delayed,
         UNCHANGED <<valid, issued, lost, token, loggingIn, call, brainUp, wanted, used, pending, bound, pruning, cut, starts>>
  PROVE  CogneeInv'
<1>1. service' \in [Datasets -> States] /\ AllFurther /\ DatasetInv'
  BY OneFurther
<1>2. LateStays
  BY <1>1, LateCallsStay
<1>3. call' \in [Clients -> CallRecords \cup {None}]
  BY DEF CogneeInv, CogneeTypeOK
<1>4. \A c \in Clients : call'[c] # None /\ call'[c].at = "login" => loggingIn'
  BY DEF CogneeInv, CallInv
<1>5. CallInv'
  BY <1>1, <1>2, <1>3, <1>4, CallsStay
<1>6. CurrentIsIndexed'
  BY <1>1, StaysIndexed
<1>7. delayed' \subseteq LateCalls
  BY DEF CogneeInv, CogneeTypeOK
<1>8. CogneeTypeOK'
  BY <1>1, <1>3, <1>7 DEF CogneeInv, CogneeTypeOK
<1>9. RunsInv' /\ TokenInv'
  BY DEF CogneeInv, RunsInv, TokenInv, Heard
<1> QED BY <1>1, <1>5, <1>6, <1>8, <1>9 DEF CogneeInv

LEMMA ExtractStep ==
  ASSUME CogneeAssumption, CogneeInv, NEW d \in Datasets, NEW result \in {"completed", "failed"}, Extract(d, result)
  PROVE  CogneeInv'
<1>1. service[d].run = "processing" /\ service' = [service EXCEPT ![d] = Finished(service[d], result)]
  BY DEF Extract, CogneeInv, CogneeTypeOK
<1>2. service[d] \in States /\ Sound(service[d])
  BY SoundStates
<1>3. /\ Finished(service[d], result) \in States /\ Sound(Finished(service[d], result))
      /\ Further(service[d], Finished(service[d], result))
  BY <1>1, <1>2, AfterPipeline
<1>4. UNCHANGED <<valid, issued, lost, token, loggingIn, call, delayed, brainUp, wanted, used, pending, bound, pruning,
                  cut, starts>>
  BY DEF Extract, access, sources, maintenance
<1> QED BY <1>1, <1>3, <1>4, DatasetStep

LEMMA DoLateStep ==
  ASSUME CogneeAssumption, CogneeInv, NEW x \in delayed, DoLate(x)
  PROVE  CogneeInv'
<1>1. x \in LateCalls /\ (x.path = "cognify" => service[x.dataset].data)
  BY DEF CogneeInv, CogneeTypeOK, CallInv
<1>2. x.path \in Paths /\ x.dataset \in Datasets
  BY <1>1 DEF LateCalls
<1>3. service[x.dataset] \in States /\ Sound(service[x.dataset])
  BY <1>2, SoundStates
<1> DEFINE n == After(x.path, service[x.dataset])
<1>4. n \in States /\ Further(service[x.dataset], n) /\ Sound(n)
  BY <1>1, <1>2, <1>3, AfterCall
<1>5. service' = [service EXCEPT ![x.dataset] = n] /\ delayed' \subseteq delayed
  BY <1>2 DEF DoLate, Done, CogneeInv, CogneeTypeOK
<1>6. UNCHANGED <<valid, issued, lost, token, loggingIn, call, brainUp, wanted, used, pending, bound, pruning, cut, starts>>
  BY DEF DoLate, access, sources, maintenance
<1> HIDE DEF n
<1> QED BY <1>2, <1>4, <1>5, <1>6, DatasetStep

-----------------------------------------------------------------------------
(* Tokens and the end of calls.                                            *)

LEMMA TokensAreFinite ==
  ASSUME NEW n \in Nat, NEW tokens \in SUBSET (1..n)
  PROVE  /\ IsFiniteSet(tokens) /\ Cardinality(tokens) \in Nat
         /\ Cardinality((1..n) \ tokens) = n - Cardinality(tokens)
<1>1. IsFiniteSet(1..n) /\ Cardinality(1..n) = n
  BY FS_Interval
<1>2. IsFiniteSet(tokens) /\ Cardinality(tokens) \in Nat
  BY <1>1, FS_Subset, FS_CardinalityType
<1>3. Cardinality((1..n) \ tokens) = Cardinality(1..n) - Cardinality((1..n) \cap tokens)
  BY <1>1, FS_Difference
<1>4. (1..n) \cap tokens = tokens
  OBVIOUS
<1> QED BY <1>1, <1>2, <1>3, <1>4

LEMMA TokenExpiresStep ==
  ASSUME CogneeAssumption, CogneeInv, NEW t \in valid, TokenExpires(t)
  PROVE  CogneeInv'
<1>1. /\ valid' = valid \ {t}
      /\ UNCHANGED <<service, issued, lost, token, loggingIn, call, delayed, brainUp, wanted, used, pending, bound, pruning,
                     cut, starts>>
  BY DEF TokenExpires, sources, maintenance
<1>2. call' \in [Clients -> CallRecords \cup {None}] /\ delayed' \subseteq delayed
  BY <1>1 DEF CogneeInv, CogneeTypeOK
<1>3. AllFurther /\ LateStays
  BY <1>1, <1>2, NothingFurther, LateCallsStay
<1>4. \A c \in Clients : call'[c] # None /\ call'[c].at = "login" => loggingIn'
  BY <1>1 DEF CogneeInv, CallInv
<1>5. CallInv'
  BY <1>1, <1>2, <1>3, <1>4, CallsStay
<1>6. CurrentIsIndexed'
  BY <1>1, <1>3, StaysIndexed
<1>7. CogneeTypeOK' /\ DatasetInv' /\ RunsInv'
  BY <1>1, <1>4 DEF CogneeInv, CogneeTypeOK, DatasetInv, RunsInv
<1>8. TokenInv'
  <2>1. issued \in Nat /\ Heard \in SUBSET (1..issued)
    BY DEF CogneeInv, CogneeTypeOK, Heard
  <2>2. IsFiniteSet(Heard) /\ Cardinality(Heard) \in Nat
    BY <2>1, TokensAreFinite
  <2>3. Heard' = Heard \ {t}
    BY <1>1 DEF Heard
  <2>4. CASE t \in Heard
    <3>1. Cardinality(Heard') = Cardinality(Heard) - 1
      BY <2>2, <2>3, <2>4, FS_RemoveElement
    <3> QED BY <1>1, <2>2, <3>1 DEF CogneeInv, CogneeTypeOK, TokenInv
  <2>5. CASE t \notin Heard
    <3>1. Heard' = Heard
      BY <2>3, <2>5
    <3> QED BY <1>1, <3>1 DEF CogneeInv, TokenInv
  <2> QED BY <2>4, <2>5
<1> QED BY <1>5, <1>6, <1>7, <1>8 DEF CogneeInv

\* A token nobody heard of changes nothing for the calls.
LEMMA UnheardFacts ==
  ASSUME CogneeAssumption, CogneeInv, Unheard
  PROVE  /\ issued' \in Nat /\ valid' \subseteq 1..issued' /\ lost' \subseteq 1..issued' /\ 1..issued \subseteq 1..issued'
         /\ valid' \cap ((1..issued) \cup {None}) \subseteq valid /\ Heard' = Heard
<1>1. issued \in Nat /\ valid \subseteq 1..issued /\ lost \subseteq 1..issued
  BY DEF CogneeInv, CogneeTypeOK
<1>2. CASE UNCHANGED <<valid, issued, lost>>
  BY <1>1, <1>2 DEF Heard
<1>3. CASE issued' = issued + 1 /\ valid' = valid \cup {issued'} /\ lost' = lost \cup {issued'}
  <2>1. issued' \in Nat /\ 1..issued \subseteq 1..issued' /\ issued' \in 1..issued' /\ issued' \notin 1..issued
    BY <1>1, <1>3
  <2>2. issued' # None
    BY <2>1 DEF CogneeAssumption
  <2>3. Heard' = Heard
    BY <1>1, <1>3, <2>1 DEF Heard
  <2> QED BY <1>1, <1>3, <2>1, <2>2, <2>3
<1> QED BY <1>2, <1>3 DEF Unheard

\* Calls end, and perhaps what waited for the login that failed; others may be done late.
LEMMA EndOfCalls ==
  ASSUME CogneeAssumption, CogneeInv, NEW clients, Drop(clients), LateStays, Unheard,
         UNCHANGED <<service, token, brainUp, wanted, used, bound, pruning, cut, starts>>,
         loggingIn' \in BOOLEAN, loggingIn' => loggingIn,
         \A c \in Clients \ clients : call[c] # None /\ call[c].at = "login" => loggingIn'
  PROVE  CogneeInv'
<1>1. /\ call' \in [Clients -> CallRecords \cup {None}]
      /\ \A c \in Clients : call'[c] = None \/ (call'[c] = call[c] /\ c \notin clients)
      /\ (\A c \in Clients : call[c] = None) => \A c \in Clients : call'[c] = None
      /\ pending' \in BOOLEAN
  BY DroppedCalls
<1>2. \A c \in Clients : call'[c] # None /\ call'[c].at = "login" => loggingIn'
  BY <1>1
<1>3. AllFurther
  BY NothingFurther
<1>10. /\ issued' \in Nat /\ valid' \subseteq 1..issued' /\ lost' \subseteq 1..issued' /\ 1..issued \subseteq 1..issued'
       /\ valid' \cap ((1..issued) \cup {None}) \subseteq valid /\ Heard' = Heard
  BY UnheardFacts
<1>4. CallInv'
  BY <1>1, <1>2, <1>3, <1>10, CallsStay
<1>5. CurrentIsIndexed'
  BY <1>3, StaysIndexed
<1>6. delayed' \subseteq LateCalls
  BY DEF LateStays
<1>7. CogneeTypeOK' /\ DatasetInv'
  BY <1>1, <1>2, <1>6, <1>10 DEF CogneeInv, CogneeTypeOK, DatasetInv
<1>8. RunsInv'
  BY <1>1 DEF CogneeInv, RunsInv
<1>9. TokenInv'
  BY <1>10 DEF CogneeInv, TokenInv
<1> QED BY <1>4, <1>5, <1>7, <1>8, <1>9 DEF CogneeInv

LEMMA RefusedStep ==
  ASSUME CogneeAssumption, CogneeInv, NEW c \in Clients, Refused(c)
  PROVE  CogneeInv'
<1> DEFINE x == call[c]
<1>1. /\ x # None /\ x.at = "refused"
      /\ UNCHANGED <<service, valid, issued, lost, delayed, brainUp, wanted, used, bound, pruning, cut, starts>>
  BY DEF Refused, maintenance
<1>2. x \in CallRecords /\ brainUp /\ Concludes(service[x.dataset], x) /\ x.token \notin valid
  BY <1>1, CallOf
<1>3. AllFurther /\ LateStays
  BY <1>1, NothingFurther, LateCallsStay
<1>4. CASE x.again
  <2>1. Drop({c}) /\ UNCHANGED <<token, loggingIn>>
    BY <1>4 DEF Refused
  <2>2. loggingIn \in BOOLEAN /\ \A b \in Clients : call[b] # None /\ call[b].at = "login" => loggingIn
    BY DEF CogneeInv, CogneeTypeOK, CallInv
  <2> QED BY <1>1, <1>3, <2>1, <2>2, EndOfCalls DEF Unheard
<1>5. CASE ~x.again
  <2> DEFINE y == Resent(x, token')
  <2>1. /\ UNCHANGED pending /\ token' = KeptToken(x.token) /\ loggingIn' = (loggingIn \/ token' = None)
        /\ call' = [call EXCEPT ![c] = y]
    BY <1>5 DEF Refused, CogneeInv, CogneeTypeOK
  <2>2. token \in (1..issued) \cup {None} /\ issued \in Nat /\ loggingIn \in BOOLEAN /\ valid \subseteq 1..issued
    BY DEF CogneeInv, CogneeTypeOK
  <2>3. token' \in (1..issued) \cup {None} /\ token' \in Nat \cup {None} /\ loggingIn' \in BOOLEAN
    BY <2>1, <2>2 DEF KeptToken
  <2>4. /\ y \in CallRecords /\ y.path = x.path /\ y.dataset = x.dataset
        /\ y.at = (IF token' = None THEN "login" ELSE "sent") /\ y.token = token'
    BY <1>2, <2>3, ResentCall
  <2> HIDE DEF y
  <2>5. Concludes(service'[y.dataset], y)
    BY <1>1, <1>2, <2>4 DEF Concludes
  <2>6. CallInv' /\ call' \in [Clients -> CallRecords \cup {None}]
    <3>1. (y.at = "login" => loggingIn') /\ y.at # "refused" /\ (loggingIn => loggingIn')
      BY <2>1, <2>4
    <3>2. y.token \in (1..issued) \cup {None}
      BY <2>3, <2>4
    <3> QED BY <1>1, <1>3, <2>1, <2>4, <2>5, <3>1, <3>2, CallGoesOn
  <2>7. CurrentIsIndexed'
    BY <1>1, <1>3, StaysIndexed
  <2>8. CogneeTypeOK'
    <3>1. \A b \in Clients : call'[b] # None /\ call'[b].at = "login" => loggingIn'
      BY <2>6 DEF CallInv
    <3> QED BY <1>1, <2>1, <2>3, <2>6, <3>1 DEF CogneeInv, CogneeTypeOK
  <2>9. DatasetInv'
    BY <1>1 DEF CogneeInv, DatasetInv
  <2>10. loggingIn => token = None
    BY DEF CogneeInv, RunsInv
  <2>11. RunsInv'
    BY <1>1, <1>2, <2>1, <2>10 DEF CogneeInv, RunsInv, KeptToken
  <2>12. token' \notin Heard => token \notin Heard
    BY <1>2, <2>1 DEF KeptToken, Heard
  <2>13. TokenInv'
    BY <1>1, <2>12 DEF CogneeInv, TokenInv, Heard
  <2> QED BY <2>6, <2>7, <2>8, <2>9, <2>11, <2>13 DEF CogneeInv
<1> QED BY <1>4, <1>5

LEMMA LoginStep ==
  ASSUME CogneeAssumption, CogneeInv, Login
  PROVE  CogneeInv'
<1>1. /\ loggingIn /\ issued' = issued + 1 /\ valid' = valid \cup {issued'} /\ token' = issued' /\ loggingIn' = FALSE
      /\ call' = [c \in Clients |-> IF call[c] # None /\ call[c].at = "login"
                                    THEN WithToken(call[c], issued') ELSE call[c]]
      /\ UNCHANGED <<service, lost, delayed, brainUp, wanted, used, pending, bound, pruning, cut, starts>>
  BY DEF Login, sources, maintenance
<1>2. /\ issued \in Nat /\ valid \in SUBSET (1..issued) /\ lost \in SUBSET (1..issued)
      /\ call \in [Clients -> CallRecords \cup {None}] /\ starts \in Nat
  BY DEF CogneeInv, CogneeTypeOK
<1>3. token = None /\ brainUp /\ token \notin valid
  BY <1>1, <1>2 DEF CogneeInv, RunsInv, CogneeAssumption
<1>4. issued' \in Nat /\ issued' \in Nat \cup {None}
  BY <1>1, <1>2
<1>5. ASSUME NEW c \in Clients, call[c] # None, call[c].at = "login"
      PROVE  /\ call'[c] \in CallRecords /\ call'[c].at = "sent" /\ call'[c].path = call[c].path
             /\ call'[c].dataset = call[c].dataset /\ call'[c].token = issued'
  <2>1. call'[c] = WithToken(call[c], issued') /\ call[c] \in CallRecords
    BY <1>1, <1>2, <1>5
  <2> QED BY <1>4, <2>1, ResentCall
<1>6. ASSUME NEW c \in Clients, ~(call[c] # None /\ call[c].at = "login")
      PROVE  call'[c] = call[c]
  BY <1>1, <1>6
<1>7. call' \in [Clients -> CallRecords \cup {None}]
  <2>1. \A c \in Clients : call'[c] \in CallRecords \cup {None}
    BY <1>2, <1>5, <1>6
  <2>2. call' = [c \in Clients |-> call'[c]]
    BY <1>1
  <2> QED BY <2>1, <2>2
<1>8. ASSUME NEW c \in Clients, call'[c] # None
      PROVE  /\ Concludes(service'[call'[c].dataset], call'[c])
             /\ call'[c].at = "login" => loggingIn'
             /\ call'[c].at = "refused" => call'[c].token \notin valid'
             /\ call'[c].token \in (1..issued') \cup {None}
  <2>1. CASE call[c] # None /\ call[c].at = "login"
    <3>1. Concludes(service[call[c].dataset], call[c])
      BY <2>1 DEF CogneeInv, CallInv
    <3>2. /\ call'[c].at = "sent" /\ call'[c].path = call[c].path
          /\ call'[c].dataset = call[c].dataset /\ call'[c].token = issued'
      BY <2>1, <1>5
    <3>3. Concludes(service'[call'[c].dataset], call'[c])
      BY <1>1, <2>1, <3>1, <3>2 DEF Concludes
    <3>4. call'[c].token \in (1..issued') \cup {None}
      BY <1>1, <1>2, <3>2
    <3> QED BY <3>2, <3>3, <3>4
  <2>2. CASE ~(call[c] # None /\ call[c].at = "login")
    <3>1. call'[c] = call[c] /\ call[c] # None
      BY <2>2, <1>6, <1>8
    <3>2. Concludes(service[call[c].dataset], call[c]) /\ call[c].at # "login"
      BY <2>2, <3>1 DEF CogneeInv, CallInv
    <3>3. call[c].at = "refused" => call[c].token \notin valid
      BY <3>1 DEF CogneeInv, CallInv
    <3>4. call[c].token \in (1..issued) \cup {None}
      BY <3>1 DEF CogneeInv, CallInv
    <3>5. call[c].token # issued' /\ call[c].token \in (1..issued') \cup {None}
      BY <1>1, <1>2, <3>4 DEF CogneeAssumption
    <3> QED BY <1>1, <3>1, <3>2, <3>3, <3>5
  <2> QED BY <2>1, <2>2
<1>9. CallInv'
  BY <1>1, <1>8 DEF CogneeInv, CallInv
<1>10. CurrentIsIndexed'
  BY <1>1, NothingFurther, StaysIndexed
<1>11. valid' \subseteq 1..issued' /\ lost' \subseteq 1..issued' /\ token' \in (1..issued') \cup {None} /\ loggingIn' \in BOOLEAN
  <2>1. issued' \in 1..issued' /\ 1..issued \subseteq 1..issued'
    BY <1>1, <1>2
  <2>2. loggingIn' \in BOOLEAN
    BY <1>1
  <2> QED BY <1>1, <1>2, <2>1, <2>2
<1>12. \A c \in Clients : call'[c] # None /\ call'[c].at = "login" => loggingIn'
  BY <1>8
<1>13. CogneeTypeOK' /\ DatasetInv'
  BY <1>1, <1>4, <1>7, <1>11, <1>12 DEF CogneeInv, CogneeTypeOK, DatasetInv
<1>14. RunsInv'
  BY <1>1, <1>3 DEF CogneeInv, RunsInv
<1>15. TokenInv'
  <2>1. issued' \notin 1..issued
    BY <1>1, <1>2
  <2>2. Heard \in SUBSET (1..issued) /\ Heard' = Heard \cup {issued'}
    BY <1>1, <1>2, <2>1 DEF Heard
  <2>3. IsFiniteSet(Heard) /\ Cardinality(Heard) \in Nat /\ issued' \notin Heard
    BY <1>2, <2>1, <2>2, TokensAreFinite
  <2>4. Cardinality(Heard') = Cardinality(Heard) + 1
    BY <2>2, <2>3, FS_AddElement
  <2>5. Cardinality(Heard) < starts
    BY <1>3 DEF CogneeInv, TokenInv, Heard
  <2> QED BY <1>1, <1>2, <2>2, <2>3, <2>4, <2>5 DEF TokenInv
<1> QED BY <1>9, <1>10, <1>13, <1>14, <1>15 DEF CogneeInv

LEMMA LoginFailsStep ==
  ASSUME CogneeAssumption, CogneeInv, LoginFails
  PROVE  CogneeInv'
<1> DEFINE waiting == {c \in Clients : call[c] # None /\ call[c].at = "login"}
<1>1. /\ Drop(waiting) /\ loggingIn' = FALSE /\ Unheard
      /\ UNCHANGED <<service, token, delayed, brainUp, wanted, used, bound, pruning, cut, starts>>
  BY DEF LoginFails, maintenance
<1>2. \A c \in Clients \ waiting : ~(call[c] # None /\ call[c].at = "login")
  OBVIOUS
<1>3. LateStays
  BY <1>1, NothingFurther, LateCallsStay
<1> HIDE DEF waiting
<1> QED BY <1>1, <1>2, <1>3, EndOfCalls

LEMMA TimeOutStep ==
  ASSUME CogneeAssumption, CogneeInv, NEW c \in Clients, TimeOut(c)
  PROVE  CogneeInv'
<1>1. /\ call[c] # None /\ Drop({c})
      /\ UNCHANGED <<service, valid, issued, lost, token, loggingIn, brainUp, wanted, used, bound, pruning, cut, starts>>
  BY DEF TimeOut, access, maintenance
<1>2. PICK late \in SUBSET GivenUp({call[c]}) : delayed' = delayed \cup late
  BY DEF TimeOut
<1>3. LateStays
  BY <1>1, <1>2, LateCallsJoin
<1>4. loggingIn \in BOOLEAN /\ \A b \in Clients : call[b] # None /\ call[b].at = "login" => loggingIn
  BY DEF CogneeInv, CogneeTypeOK, CallInv
<1> QED BY <1>1, <1>3, <1>4, EndOfCalls DEF Unheard

-----------------------------------------------------------------------------
(* Indexing and searching.                                                 *)

\* A call begins, on a dataset of which the client may conclude what it asks for.
LEMMA NextCall ==
  ASSUME CogneeAssumption, CogneeInv, NEW c \in Clients, NEW path \in Paths, NEW d \in Datasets, BeginCall(c, path, d),
         brainUp, pending' \in BOOLEAN,
         path \in {"status", "add", "cognify", "poll"} => service[d].exists,
         path \in {"cognify", "poll"} => service[d].data,
         UNCHANGED <<service, valid, issued, lost, token, delayed, brainUp, wanted, used, bound, pruning, cut, starts>>
  PROVE  CogneeInv'
<1> DEFINE y == NewCall(path, d)
<1>1. call' = [call EXCEPT ![c] = y] /\ loggingIn' = (loggingIn \/ token = None)
  BY DEF BeginCall
<1>2. token \in (1..issued) \cup {None} /\ issued \in Nat /\ loggingIn \in BOOLEAN
  BY DEF CogneeInv, CogneeTypeOK
<1>3. token \in Nat \cup {None} /\ loggingIn' \in BOOLEAN
  BY <1>1, <1>2
<1>4. /\ y \in CallRecords /\ y.path = path /\ y.dataset = d
      /\ y.at = (IF token = None THEN "login" ELSE "sent") /\ y.token = token
  BY <1>3, NewCallFacts
<1> HIDE DEF y
<1>5. Concludes(service'[y.dataset], y)
  BY <1>4 DEF Concludes
<1>6. AllFurther /\ LateStays
  BY NothingFurther, LateCallsStay
<1>7. (y.at = "login" => loggingIn') /\ y.at # "refused" /\ (loggingIn => loggingIn') /\ y.token \in (1..issued) \cup {None}
  BY <1>1, <1>2, <1>4
<1>8. CallInv' /\ call' \in [Clients -> CallRecords \cup {None}]
  BY <1>1, <1>4, <1>5, <1>6, <1>7, CallGoesOn
<1>9. CurrentIsIndexed'
  BY <1>6, StaysIndexed
<1>10. \A b \in Clients : call'[b] # None /\ call'[b].at = "login" => loggingIn'
  BY <1>8 DEF CallInv
<1>11. CogneeTypeOK' /\ DatasetInv'
  BY <1>3, <1>8, <1>10 DEF CogneeInv, CogneeTypeOK, DatasetInv
<1>12. RunsInv'
  BY <1>1 DEF CogneeInv, RunsInv
<1>13. TokenInv'
  BY DEF CogneeInv, TokenInv, Heard
<1> QED BY <1>8, <1>9, <1>11, <1>12, <1>13 DEF CogneeInv

LEMMA ClientNames == {"index", "search"} \subseteq Clients /\ \A path \in {"dataset", "status", "add", "cognify", "poll", "search"} : path \in Paths
  BY DEF Clients, Paths

LEMMA StartIndexStep ==
  ASSUME CogneeAssumption, CogneeInv, StartIndex
  PROVE  CogneeInv'
<1>1. /\ brainUp /\ BeginCall("index", "dataset", wanted) /\ pending' = TRUE
      /\ UNCHANGED <<service, valid, issued, lost, token, delayed, brainUp, wanted, used, bound, pruning, cut, starts>>
  BY DEF StartIndex, maintenance
<1>2. wanted \in Datasets
  BY DEF CogneeInv, CogneeTypeOK
<1> QED BY <1>1, <1>2, ClientNames, NextCall

LEMMA SearchStep ==
  ASSUME CogneeAssumption, CogneeInv, Search
  PROVE  CogneeInv'
<1>1. /\ brainUp /\ used # None /\ BeginCall("search", "search", used) /\ UNCHANGED pending
      /\ UNCHANGED <<service, valid, issued, lost, token, delayed, brainUp, wanted, used, bound, pruning, cut, starts>>
  BY DEF Search, sources, maintenance
<1>2. used \in Datasets /\ pending' \in BOOLEAN
  BY <1>1 DEF CogneeInv, CogneeTypeOK
<1> QED BY <1>1, <1>2, ClientNames, NextCall

\* An index call is followed by another one.
LEMMA FollowStep ==
  ASSUME CogneeAssumption, CogneeInv, NEW path \in {"status", "add", "cognify", "poll"}, call["index"] # None, Follow(path),
         service[call["index"].dataset].exists,
         path \in {"cognify", "poll"} => service[call["index"].dataset].data,
         UNCHANGED <<service, valid, issued, lost, token, delayed, brainUp, wanted, pruning, cut, starts>>
  PROVE  CogneeInv'
<1>1. BeginCall("index", path, call["index"].dataset) /\ UNCHANGED <<bound, used, pending>>
  BY DEF Follow
<1>2. brainUp /\ call["index"].dataset \in Datasets
  BY ClientNames, CallOf
<1>3. pending' \in BOOLEAN /\ path \in Paths
  BY <1>1, ClientNames DEF CogneeInv, CogneeTypeOK
<1> QED BY <1>1, <1>2, <1>3, ClientNames, NextCall

\* A dataset that is complete is recorded.
LEMMA IndexedStep ==
  ASSUME CogneeAssumption, CogneeInv, call["index"] # None, service[call["index"].dataset].complete, Indexed,
         UNCHANGED <<service, valid, issued, lost, token, delayed, brainUp, wanted, pruning, cut, starts>>
  PROVE  CogneeInv'
<1> DEFINE d == call["index"].dataset
<1>1. bound' = bound \cup {d} /\ used' = d /\ Drop({"index"}) /\ UNCHANGED loggingIn
  BY DEF Indexed
<1>2. brainUp /\ d \in Datasets
  BY ClientNames, CallOf
<1>3. /\ call' \in [Clients -> CallRecords \cup {None}]
      /\ \A c \in Clients : call'[c] = None \/ call'[c] = call[c]
      /\ pending' \in BOOLEAN
  BY <1>1, DroppedCalls
<1>4. \A c \in Clients : call'[c] # None /\ call'[c].at = "login" => loggingIn'
  BY <1>1, <1>3 DEF CogneeInv, CallInv
<1>5. AllFurther /\ LateStays
  BY NothingFurther, LateCallsStay
<1>6. CallInv'
  BY <1>3, <1>4, <1>5, CallsStay
<1>7. CurrentIsIndexed'
  BY <1>1, <1>2 DEF CogneeInv, CurrentIsIndexed, InHand
<1>8. bound' \subseteq Datasets /\ used' \in Datasets \cup {None}
  BY <1>1, <1>2 DEF CogneeInv, CogneeTypeOK
<1>9. CogneeTypeOK' /\ DatasetInv'
  BY <1>1, <1>3, <1>4, <1>8 DEF CogneeInv, CogneeTypeOK, DatasetInv
<1>10. RunsInv'
  BY <1>1, <1>2 DEF CogneeInv, RunsInv
<1>11. TokenInv'
  BY DEF CogneeInv, TokenInv, Heard
<1> QED BY <1>6, <1>7, <1>9, <1>10, <1>11 DEF CogneeInv

LEMMA GiveUpStep ==
  ASSUME CogneeAssumption, CogneeInv, GiveUp,
         UNCHANGED <<service, valid, issued, lost, token, delayed, brainUp, wanted, pruning, cut, starts>>
  PROVE  CogneeInv'
<1>1. Drop({"index"}) /\ UNCHANGED <<bound, used, loggingIn>>
  BY DEF GiveUp
<1>2. LateStays
  BY NothingFurther, LateCallsStay
<1>3. loggingIn \in BOOLEAN /\ \A b \in Clients : call[b] # None /\ call[b].at = "login" => loggingIn
  BY DEF CogneeInv, CogneeTypeOK, CallInv
<1> QED BY <1>1, <1>2, <1>3, EndOfCalls DEF Unheard

LEMMA IndexStep ==
  ASSUME CogneeAssumption, CogneeInv, Index
  PROVE  CogneeInv'
<1> DEFINE x == call["index"]
           state == service[call["index"].dataset]
<1>1. UNCHANGED <<service, valid, issued, lost, token, delayed, brainUp, wanted, pruning, cut, starts>>
  BY DEF Index, maintenance
<1>2. ASSUME x # None PROVE Concludes(state, x)
  BY <1>2, ClientNames, CallOf
<1>3. CASE IndexAnswered("dataset") /\ Follow("status")
  <2>1. x # None /\ state.exists
    BY <1>2, <1>3 DEF IndexAnswered, Concludes
  <2> QED BY <1>1, <1>3, <2>1, FollowStep
<1>4. CASE IndexAnswered("add") /\ Follow("cognify")
  <2>1. x # None /\ state.exists /\ state.data
    BY <1>2, <1>4 DEF IndexAnswered, Concludes
  <2> QED BY <1>1, <1>4, <2>1, FollowStep
<1>5. CASE IndexAnswered("cognify") /\ Follow("poll")
  <2>1. x # None /\ state.exists /\ state.data
    BY <1>2, <1>5 DEF IndexAnswered, Concludes
  <2> QED BY <1>1, <1>5, <2>1, FollowStep
<1>6. ASSUME NEW path \in {"status", "poll"}, IndexAnswered(path), AfterStatus(path) PROVE CogneeInv'
  <2>1. x # None /\ x.at = "answered" /\ x.path = path
    BY <1>6 DEF IndexAnswered
  <2>2. state.exists /\ (path = "poll" => state.data)
    BY <1>2, <2>1 DEF Concludes
  <2>3. PICK s \in Pipelines : x.answer = {s} /\ (s # None => state.data) /\ (s = "completed" => state.complete)
    BY <1>2, <2>1 DEF Concludes
  <2>4. Status = s
    BY <2>3 DEF Status
  <2>5. CASE s = "completed"
    <3>1. Indexed
      BY <1>6, <2>4, <2>5 DEF AfterStatus
    <3> QED BY <1>1, <2>1, <2>3, <2>5, <3>1, IndexedStep
  <2>6. CASE s = "failed" /\ path = "poll"
    <3>1. GiveUp
      BY <1>6, <2>4, <2>6 DEF AfterStatus
    <3> QED BY <1>1, <3>1, GiveUpStep
  <2>7. CASE s # "completed" /\ ~(s = "failed" /\ path = "poll")
    <3>1. Follow(IF path = "status" /\ s # "processing" THEN "add" ELSE "poll")
      BY <1>6, <2>4, <2>7 DEF AfterStatus
    <3>2. CASE path = "status" /\ s # "processing"
      <4>1. Follow("add")
        BY <3>1, <3>2
      <4> QED BY <1>1, <2>1, <2>2, <4>1, FollowStep
    <3>3. CASE ~(path = "status" /\ s # "processing")
      <4>1. Follow("poll")
        BY <3>1, <3>3
      <4>2. state.data
        BY <2>2, <2>3, <3>3 DEF CogneeAssumption
      <4> QED BY <1>1, <2>1, <2>2, <4>1, <4>2, FollowStep
    <3> QED BY <3>2, <3>3
  <2> QED BY <2>5, <2>6, <2>7
<1> QED BY <1>3, <1>4, <1>5, <1>6 DEF Index

LEMMA FoundStep ==
  ASSUME CogneeAssumption, CogneeInv, Found
  PROVE  CogneeInv'
<1>1. /\ call["search"] # None /\ call' = [call EXCEPT !["search"] = None]
      /\ UNCHANGED <<service, valid, issued, lost, token, loggingIn, delayed, brainUp, wanted, used, pending, bound, pruning,
                     cut, starts>>
  BY DEF Found, access, sources, maintenance
<1>2. /\ call' \in [Clients -> CallRecords \cup {None}]
      /\ \A c \in Clients : call'[c] = None \/ call'[c] = call[c]
  BY <1>1 DEF CogneeInv, CogneeTypeOK
<1>3. \A c \in Clients : call'[c] # None /\ call'[c].at = "login" => loggingIn'
  BY <1>1, <1>2 DEF CogneeInv, CallInv
<1>4. AllFurther /\ LateStays
  BY <1>1, NothingFurther, LateCallsStay
<1>5. CallInv'
  BY <1>1, <1>2, <1>3, <1>4, CallsStay
<1>6. CurrentIsIndexed'
  BY <1>1, <1>4, StaysIndexed
<1>7. CogneeTypeOK' /\ DatasetInv'
  BY <1>1, <1>2, <1>3 DEF CogneeInv, CogneeTypeOK, DatasetInv
<1>8. RunsInv' /\ TokenInv'
  BY <1>1, <1>2 DEF CogneeInv, RunsInv, TokenInv, Heard
<1> QED BY <1>5, <1>6, <1>7, <1>8 DEF CogneeInv

\* The content changes, or what was indexed before is taken; calls do not.
LEMMA SourceStep ==
  ASSUME CogneeAssumption, CogneeInv,
         UNCHANGED <<service, valid, issued, lost, token, loggingIn, call, delayed, brainUp, bound, pruning, cut, starts>>,
         wanted' \in Datasets, pending' \in BOOLEAN, used' \in bound \/ used' = used, brainUp \/ used' = used
  PROVE  CogneeInv'
<1>1. used' \in Datasets \cup {None}
  BY DEF CogneeInv, CogneeTypeOK
<1>2. CogneeTypeOK' /\ DatasetInv'
  BY <1>1 DEF CogneeInv, CogneeTypeOK, DatasetInv
<1>3. CallInv'
  BY DEF CogneeInv, CallInv
<1>4. RunsInv' /\ TokenInv'
  BY DEF CogneeInv, RunsInv, TokenInv, Heard
<1>5. CurrentIsIndexed'
  BY DEF CogneeInv, CurrentIsIndexed, InHand
<1> QED BY <1>2, <1>3, <1>4, <1>5 DEF CogneeInv

LEMMA ReuseStep ==
  ASSUME CogneeAssumption, CogneeInv, Reuse
  PROVE  CogneeInv'
<1>1. /\ UNCHANGED <<service, valid, issued, lost, token, loggingIn, call, delayed, brainUp, bound, pruning, cut, starts>>
      /\ wanted' = wanted /\ pending' = FALSE /\ used' = wanted /\ wanted \in bound /\ brainUp
  BY DEF Reuse, access, maintenance
<1>2. wanted \in Datasets
  BY DEF CogneeInv, CogneeTypeOK
<1> QED BY <1>1, <1>2, SourceStep

LEMMA EditStep ==
  ASSUME CogneeAssumption, CogneeInv, NEW d \in Datasets, Edit(d)
  PROVE  CogneeInv'
<1>1. /\ UNCHANGED <<service, valid, issued, lost, token, loggingIn, call, delayed, brainUp, bound, pruning, cut, starts>>
      /\ wanted' = d /\ pending' = pending /\ used' = used
  BY DEF Edit, access, maintenance
<1>2. pending' \in BOOLEAN
  BY <1>1 DEF CogneeInv, CogneeTypeOK
<1> QED BY <1>1, <1>2, SourceStep

-----------------------------------------------------------------------------
(* Restarts and the maintenance.                                           *)

LEMMA StopBrainStep ==
  ASSUME CogneeAssumption, CogneeInv, StopBrain
  PROVE  CogneeInv'
<1>1. /\ brainUp /\ brainUp' = FALSE /\ token' = None /\ loggingIn' = FALSE /\ call' = [c \in Clients |-> None]
      /\ UNCHANGED <<service, wanted, used, pending, bound, pruning, cut, starts>>
  BY DEF StopBrain, sources, maintenance
<1>2. PICK late \in SUBSET GivenUp({call[c] : c \in {x \in Clients : call[x] # None}}) : delayed' = delayed \cup late
  BY DEF StopBrain
<1> DEFINE calls == {call[c] : c \in {x \in Clients : call[x] # None}}
<1>3. \A x \in calls : \E c \in Clients : call[c] # None /\ x = call[c]
  OBVIOUS
<1>4. late \in SUBSET GivenUp(calls)
  BY <1>2
<1> HIDE DEF calls
<1>5. AllFurther /\ LateStays
  BY <1>1, <1>2, <1>3, <1>4, NothingFurther, LateCallsJoin
<1>6. /\ call' \in [Clients -> CallRecords \cup {None}] /\ \A c \in Clients : call'[c] = None
  BY <1>1
<1>12. Unheard
  BY DEF StopBrain, Unheard
<1>13. /\ issued' \in Nat /\ valid' \subseteq 1..issued' /\ lost' \subseteq 1..issued' /\ 1..issued \subseteq 1..issued'
       /\ valid' \cap ((1..issued) \cup {None}) \subseteq valid /\ Heard' = Heard
  BY <1>12, UnheardFacts
<1>7. CallInv'
  BY <1>1, <1>5, <1>6, <1>13, CallsStay
<1>8. CurrentIsIndexed'
  BY <1>1, <1>5, StaysIndexed
<1>9. delayed' \subseteq LateCalls
  BY <1>5 DEF LateStays
<1>10. CogneeTypeOK' /\ DatasetInv'
  BY <1>1, <1>6, <1>9, <1>13 DEF CogneeInv, CogneeTypeOK, DatasetInv
<1>11. RunsInv' /\ TokenInv'
  BY <1>1, <1>6, <1>13 DEF CogneeInv, RunsInv, TokenInv
<1> QED BY <1>7, <1>8, <1>10, <1>11 DEF CogneeInv

LEMMA StartBrainStep ==
  ASSUME CogneeAssumption, CogneeInv, StartBrain
  PROVE  CogneeInv'
<1>1. /\ ~brainUp /\ pruning = None /\ brainUp' = TRUE /\ starts' = starts + 1
      /\ UNCHANGED <<service, valid, issued, lost, token, loggingIn, call, delayed, wanted, used, pending, bound, pruning,
                     cut>>
  BY DEF StartBrain, access, sources
<1>2. CogneeTypeOK' /\ DatasetInv'
  BY <1>1 DEF CogneeInv, CogneeTypeOK, DatasetInv
<1>3. CallInv' /\ CurrentIsIndexed'
  BY <1>1 DEF CogneeInv, CallInv, CurrentIsIndexed, InHand
<1>4. RunsInv'
  BY <1>1 DEF CogneeInv, RunsInv
<1>5. TokenInv'
  <2>1. issued \in Nat /\ Heard \in SUBSET (1..issued) /\ starts \in Nat
    BY DEF CogneeInv, CogneeTypeOK, Heard
  <2>2. Cardinality(Heard) \in Nat
    BY <2>1, TokensAreFinite
  <2>3. Heard' = Heard
    BY <1>1 DEF Heard
  <2> QED BY <1>1, <2>1, <2>2, <2>3 DEF CogneeInv, TokenInv
<1> QED BY <1>2, <1>3, <1>4, <1>5 DEF CogneeInv

\* What the maintenance has to do is found, or given up: nothing else changes.
\* While the maintenance runs there are no calls, but some may be done late.
LEMMA PruningFacts ==
  ASSUME CogneeInv, pruning # None
  PROVE  /\ pruning \in Prunes /\ pruning.delete \subseteq Datasets /\ pruning.unbind \subseteq Datasets
         /\ pruning.deleted \in Datasets \cup {None}
         /\ ~brainUp /\ \A c \in Clients : call[c] = None
         /\ used \notin pruning.delete \cup pruning.unbind /\ (pruning.deleted = None \/ pruning.deleted # used)
<1>1. pruning \in Prunes
  BY DEF CogneeInv, CogneeTypeOK
<1>2. pruning.delete \subseteq Datasets /\ pruning.unbind \subseteq Datasets /\ pruning.deleted \in Datasets \cup {None}
  BY <1>1 DEF Prunes
<1> QED BY <1>1, <1>2 DEF CogneeInv, RunsInv

\* A prune is a record, so it is not "none".
LEMMA NoPruneIsNone == ASSUME CogneeAssumption PROVE None \notin Prunes
BY DEF CogneeAssumption

LEMMA PruneStep ==
  ASSUME CogneeInv, pruning' \in Prunes \cup {None},
         pruning' # None => /\ ~brainUp /\ used \notin pruning'.delete \cup pruning'.unbind
                            /\ pruning'.deleted = None,
         cut' \subseteq Datasets, cut' \cup InHand' \cup {None} = cut \cup InHand \cup {None},
         UNCHANGED <<service, valid, issued, lost, token, loggingIn, call, delayed, brainUp, wanted, used, pending, bound,
                     starts>>
  PROVE  CogneeInv'
<1>1. CogneeTypeOK' /\ DatasetInv'
  BY DEF CogneeInv, CogneeTypeOK, DatasetInv
<1>2. CallInv' /\ CurrentIsIndexed'
  BY DEF CogneeInv, CallInv, CurrentIsIndexed
<1>3. RunsInv' /\ TokenInv'
  BY DEF CogneeInv, RunsInv, TokenInv, Heard
<1> QED BY <1>1, <1>2, <1>3 DEF CogneeInv

LEMMA StartPruneStep ==
  ASSUME CogneeAssumption, CogneeInv, StartPrune
  PROVE  CogneeInv'
<1> DEFINE delete == {d \in Unused : service[d].exists}
           unbind == {d \in Unused : ~service[d].exists}
<1>1. /\ ~brainUp /\ pruning = None /\ pruning' = [delete |-> delete, deleted |-> None, unbind |-> unbind]
      /\ UNCHANGED <<service, valid, issued, lost, token, loggingIn, call, delayed, brainUp, wanted, used, pending, bound, cut,
                     starts>>
  BY DEF StartPrune, access, sources
<1>2. delete \in SUBSET Datasets /\ unbind \in SUBSET Datasets /\ used \notin delete \cup unbind
  BY DEF Unused, CogneeInv, CogneeTypeOK
<1> HIDE DEF delete, unbind
<1>3. pruning' \in Prunes /\ used \notin pruning'.delete \cup pruning'.unbind /\ pruning'.deleted = None
  BY <1>1, <1>2 DEF Prunes
<1>4. cut \subseteq Datasets /\ InHand = {} /\ InHand' = {None}
  <2>1. pruning' # None
    BY <1>3, NoPruneIsNone
  <2> QED BY <1>1, <1>3, <2>1 DEF CogneeInv, CogneeTypeOK, InHand
<1> QED BY <1>1, <1>3, <1>4, PruneStep

LEMMA EndPruneStep ==
  ASSUME CogneeAssumption, CogneeInv, EndPrune
  PROVE  CogneeInv'
<1>1. /\ pruning # None /\ pruning' = None
      /\ (pruning.deleted = None /\ cut' = cut) \/ cut' = cut \cup (InHand \ {None})
      /\ UNCHANGED <<service, valid, issued, lost, token, loggingIn, call, delayed, brainUp, wanted, used, pending, bound,
                     starts>>
  BY DEF EndPrune, access, sources
<1>2. cut \subseteq Datasets /\ InHand = {pruning.deleted} /\ InHand' = {} /\ pruning.deleted \in Datasets \cup {None}
  BY <1>1, PruningFacts DEF CogneeInv, CogneeTypeOK, InHand
<1>3. cut' \subseteq Datasets /\ cut' \cup InHand' \cup {None} = cut \cup InHand \cup {None}
  BY <1>1, <1>2
<1> QED BY <1>1, <1>3, PruneStep

LEMMA DeleteStep ==
  ASSUME CogneeAssumption, CogneeInv, NEW d \in Datasets, Delete(d)
  PROVE  CogneeInv'
<1>1. /\ pruning # None /\ pruning.deleted = None /\ d \in pruning.delete
      /\ service' = [service EXCEPT ![d] = NoDataset] /\ delayed' = {x \in delayed : x.dataset # d}
      /\ UNCHANGED <<valid, issued, lost, token, loggingIn, call, brainUp, wanted, used, pending, bound, cut, starts>>
  BY DEF Delete, access, sources
<1>2. /\ pruning \in Prunes /\ pruning.delete \subseteq Datasets /\ ~brainUp /\ \A c \in Clients : call[c] = None
      /\ used \notin pruning.delete \cup pruning.unbind
  BY <1>1, PruningFacts
<1>3. d # used
  BY <1>1, <1>2
<1>4. /\ pruning' \in Prunes /\ pruning'.delete = pruning.delete \ {d} /\ pruning'.deleted = d
      /\ pruning'.unbind = pruning.unbind
  BY <1>2 DEF Delete, Prunes
<1>5. NoDataset \in States /\ Sound(NoDataset)
  <2>1. FALSE \in BOOLEAN /\ None \in Pipelines
    BY DEF Pipelines
  <2>2. NoDataset \in States
    BY <2>1, StateMembers DEF NoDataset, States
  <2> QED BY <2>2 DEF NoDataset, Sound, CogneeAssumption
<1>6. service \in [Datasets -> States]
  BY DEF CogneeInv, CogneeTypeOK
<1>7. service' \in [Datasets -> States] /\ service'[d] = NoDataset /\ \A e \in Datasets \ {d} : service'[e] = service[e]
  BY <1>1, <1>5, <1>6
<1>8. DatasetInv'
  <2>1. \A e \in Datasets : Sound(service'[e])
    BY <1>5, <1>7, SoundStates
  <2> QED BY <2>1 DEF DatasetInv, Sound
<1>9. CogneeTypeOK'
  <2>1. delayed' \subseteq LateCalls /\ cut' \subseteq Datasets
    BY <1>1 DEF CogneeInv, CogneeTypeOK
  <2> QED BY <1>1, <1>4, <1>7, <2>1 DEF CogneeInv, CogneeTypeOK
<1>10. CallInv'
  <2>1. ASSUME NEW x \in delayed', x.path = "cognify" PROVE service'[x.dataset].data
    <3>1. x \in delayed /\ x.dataset # d /\ x \in LateCalls
      BY <1>1, <2>1 DEF CogneeInv, CogneeTypeOK
    <3>2. service[x.dataset].data /\ x.dataset \in Datasets
      BY <2>1, <3>1 DEF CogneeInv, CallInv, LateCalls
    <3> QED BY <1>7, <3>1, <3>2
  <2> QED BY <1>1, <1>2, <2>1 DEF CallInv
<1>11. RunsInv'
  BY <1>1, <1>2, <1>3, <1>4 DEF CogneeInv, RunsInv
<1>12. TokenInv'
  BY <1>1 DEF CogneeInv, TokenInv, Heard
<1>13. CurrentIsIndexed'
  <2>2. InHand = {None} /\ InHand' = {d}
    BY <1>1, <1>4, NoPruneIsNone DEF InHand
  <2>1. \A e \in (bound \cup {used}) \ (cut \cup {None}) : e \in Datasets /\ service[e].complete
    BY <2>2 DEF CogneeInv, CogneeTypeOK, CurrentIsIndexed
  <2> QED BY <1>1, <1>3, <1>7, <2>1, <2>2 DEF CurrentIsIndexed
<1> QED BY <1>8, <1>9, <1>10, <1>11, <1>12, <1>13 DEF CogneeInv

LEMMA UnbindStep ==
  ASSUME CogneeAssumption, CogneeInv, NEW d \in Datasets, Unbind(d)
  PROVE  CogneeInv'
<1>1. /\ pruning # None
      /\ d = pruning.deleted \/ (pruning.deleted = None /\ pruning.delete = {} /\ d \in pruning.unbind)
      /\ bound' = bound \ {d} /\ cut' = cut \ {d}
      /\ UNCHANGED <<service, valid, issued, lost, token, loggingIn, call, delayed, brainUp, wanted, used, pending, starts>>
  BY DEF Unbind, access
<1>2. /\ pruning \in Prunes /\ ~brainUp
      /\ used \notin pruning.delete \cup pruning.unbind /\ (pruning.deleted = None \/ pruning.deleted # used)
  BY <1>1, PruningFacts
<1>3. d # used
  BY <1>1, <1>2 DEF CogneeAssumption
<1>4. /\ pruning' \in Prunes /\ pruning'.delete = pruning.delete /\ pruning'.deleted = None
      /\ pruning'.unbind = pruning.unbind \ {d}
  BY <1>2 DEF Unbind, Prunes
<1>5. CogneeTypeOK' /\ DatasetInv'
  BY <1>1, <1>4 DEF CogneeInv, CogneeTypeOK, DatasetInv
<1>6. CallInv'
  BY <1>1 DEF CogneeInv, CallInv
<1>7. RunsInv' /\ TokenInv'
  BY <1>1, <1>2, <1>4 DEF CogneeInv, RunsInv, TokenInv, Heard
<1>9. InHand = {pruning.deleted} /\ InHand' = {None}
  BY <1>1, <1>4, NoPruneIsNone DEF InHand
<1>8. CurrentIsIndexed'
  BY <1>1, <1>3, <1>9 DEF CogneeInv, CurrentIsIndexed
<1> QED BY <1>5, <1>6, <1>7, <1>8 DEF CogneeInv

LEMMA CogneeStarts ==
  ASSUME CogneeAssumption, CogneeInit
  PROVE  CogneeInv
<1>1. /\ service = [d \in Datasets |-> NoDataset]
      /\ valid = {} /\ issued = 0 /\ lost = {} /\ token = None /\ loggingIn = FALSE
      /\ call = [c \in Clients |-> None] /\ delayed = {}
      /\ brainUp = TRUE /\ wanted \in Datasets /\ used = None /\ pending = FALSE /\ bound = {}
      /\ pruning = None /\ cut = {} /\ starts = 1
  BY DEF CogneeInit
<1>2. NoDataset \in States
  <2>1. FALSE \in BOOLEAN /\ None \in Pipelines
    BY DEF Pipelines
  <2> QED BY <2>1, StateMembers DEF NoDataset, States
<1>3. CogneeTypeOK
  BY <1>1, <1>2 DEF CogneeTypeOK
<1>4. DatasetInv
  BY <1>1 DEF DatasetInv, NoDataset, CogneeAssumption
<1>5. CallInv /\ RunsInv /\ CurrentIsIndexed
  BY <1>1 DEF CallInv, RunsInv, CurrentIsIndexed, InHand
<1>6. TokenInv
  BY <1>1, FS_EmptySet DEF TokenInv, Heard
<1> QED BY <1>3, <1>4, <1>5, <1>6 DEF CogneeInv

\* The calls, the datasets, the tokens and the maintenance fit together, always.
THEOREM IndexInvariant == CogneeSpec => []CogneeInv
<1> USE CogneeHypothesis
<1>1. CogneeInit => CogneeInv
  BY CogneeStarts
<1>2. CogneeInv /\ [CogneeNext]_cogneeVars => CogneeInv'
  <2> SUFFICES ASSUME CogneeInv, [CogneeNext]_cogneeVars PROVE CogneeInv'
    OBVIOUS
  <2>1. ASSUME NEW c \in Clients, ServeCall(c) \/ Refused(c) \/ TimeOut(c) PROVE CogneeInv'
    BY <2>1, ServeStep, RefusedStep, TimeOutStep
  <2>2. ASSUME NEW d \in Datasets,
               Extract(d, "completed") \/ Extract(d, "failed") \/ Edit(d) \/ Delete(d) \/ Unbind(d)
        PROVE  CogneeInv'
    BY <2>2, ExtractStep, EditStep, DeleteStep, UnbindStep
  <2>3. ASSUME NEW x \in delayed, DoLate(x) PROVE CogneeInv'
    BY <2>3, DoLateStep
  <2>4. ASSUME NEW t \in valid, TokenExpires(t) PROVE CogneeInv'
    BY <2>4, TokenExpiresStep
  <2>5. CASE Login \/ LoginFails \/ Reuse \/ StartIndex \/ Index \/ Search \/ Found
    BY <2>5, LoginStep, LoginFailsStep, ReuseStep, StartIndexStep, IndexStep, SearchStep, FoundStep
  <2>6. CASE StopBrain \/ StartBrain \/ StartPrune \/ EndPrune
    BY <2>6, StopBrainStep, StartBrainStep, StartPruneStep, EndPruneStep
  <2>7. CASE UNCHANGED cogneeVars
    <3>1. CogneeTypeOK' /\ DatasetInv'
      BY <2>7 DEF cogneeVars, CogneeInv, CogneeTypeOK, DatasetInv
    <3>2. CallInv' /\ CurrentIsIndexed'
      BY <2>7 DEF cogneeVars, CogneeInv, CallInv, CurrentIsIndexed, InHand
    <3>3. RunsInv' /\ TokenInv'
      BY <2>7 DEF cogneeVars, CogneeInv, RunsInv, TokenInv, Heard
    <3> QED BY <3>1, <3>2, <3>3 DEF CogneeInv
  <2> QED BY <2>1, <2>2, <2>3, <2>4, <2>5, <2>6, <2>7 DEF CogneeNext
<1> QED BY <1>1, <1>2, PTL DEF CogneeSpec

\* What is recorded as indexed is there, completely, but for what a prune is at or was interrupted
\* over, whatever was lost, late or repeated; and there are no more logins than starts of Brain,
\* tokens that expired and logins whose answer never arrived.
THEOREM IndexIsSafe == CogneeSpec => []IndexHolds
<1> USE CogneeHypothesis
<1>1. CogneeInv => IndexHolds
  <2> SUFFICES ASSUME CogneeInv PROVE LoginsAreNeeded
    BY DEF CogneeInv, IndexHolds
  <2>1. issued \in Nat /\ Heard \in SUBSET (1..issued) /\ starts \in Nat
    BY DEF CogneeInv, CogneeTypeOK, Heard
  <2>2. /\ Cardinality(Heard) \in Nat
        /\ Cardinality((1..issued) \ Heard) = issued - Cardinality(Heard)
    BY <2>1, TokensAreFinite
  <2>3. valid \subseteq 1..issued /\ lost \subseteq 1..issued
    BY DEF CogneeInv, CogneeTypeOK
  <2>4. (1..issued) \ Heard = ((1..issued) \ valid) \cup lost
    BY <2>3 DEF Heard
  <2>5. Cardinality(((1..issued) \ valid) \cup lost) = issued - Cardinality(Heard)
    BY <2>2, <2>4
  <2>6. Cardinality(Heard) <= starts
    BY DEF CogneeInv, TokenInv
  <2>7. issued <= (issued - Cardinality(Heard)) + starts
    BY <2>1, <2>2, <2>6
  <2> QED BY <2>5, <2>7 DEF LoginsAreNeeded
<1> QED BY <1>1, IndexInvariant, PTL

-----------------------------------------------------------------------------
(* Migration: what the programs that move rows keep.  The argument: a row  *)
(* is named by its namespace, and the rows of today, the upgraded ones and *)
(* those of each source never share one.  So an import that goes on has    *)
(* each of its rows either in PostgreSQL or still before it, however often *)
(* it was interrupted, and a source has the names of its upgrade when its  *)
(* import begins (LocalInv, ProgramInv).  Only rows of today may have a    *)
(* cost that is not measured, so only they are backfilled, after their     *)
(* backup.                                                                 *)

IdSet == Namespaces \X Nat
Upgrades == [kind : {"upgrade"}, source : Sources, todo : SUBSET Nat]
Imports == [kind : {"history"}, source : Sources, at : {"row", "aliases"}, row : UsageRows \cup {None},
            rows : SUBSET UsageRows, ids : SUBSET IdSet, checkpoint : Nat]
Fills == [kind : {"brain"}, todo : SUBSET BrainRecords, staged : [BrainRecords -> Nat]]
Backfills == [kind : {"backfill"}, ids : SUBSET IdSet, file : BackupFiles, backed : BOOLEAN]

MoveTypes ==
  /\ move \in MovePlans
  /\ local \in [Sources -> SUBSET UsageRows] /\ started \subseteq Sources
  /\ upgraded \subseteq Sources /\ direct \subseteq Sources
  /\ target \subseteq UsageRows /\ checkpoint \in Nat
  /\ records \in [BrainRecords -> Nat] /\ served \in BOOLEAN
  /\ program \in Upgrades \cup Imports \cup Fills \cup Backfills \cup {None}
  /\ backups \in [BackupFiles -> SUBSET IdSet]
  /\ finished \subseteq [source : Sources, ids : SUBSET IdSet]

\* Older rows are measured, and what is measured has a cost.
SoundRow(r) ==
  /\ r.id[1] # "own" => r.origin = "measured"
  /\ r.origin = "measured" => r.cost # None

\* The tables of a source that today's release started on hold its rows of today, and the
\* older ones once the upgrade is complete.
LocalInv == \A s \in Sources :
  /\ s \notin started => ModernRows(s) = {} /\ local[s] = {}
  /\ \A r \in local[s] : SoundRow(r) /\ r.origin # "historical_estimate" /\ r.id \in UpgradedIds(s)
  /\ \A n \in ModernRows(s) : PresentRow(n).id \in RowIds(local[s])
  /\ s \in upgraded /\ s \notin started => LegacyRows(s) = {}
  /\ s \in upgraded \cap started => UpgradedIds(s) \subseteq RowIds(local[s])

MovedInv ==
  /\ \A r, q \in target : r.id = q.id => r = q
  /\ \A r \in target : SoundRow(r) /\ r.id[1] \in direct \cup {"legacy-sqlite-local", "own"}
  /\ BackfilledIsKept
  /\ \A f \in BackupFiles : \A id \in backups[f] : id[1] = "own"

Imported(s, ids) == ids = UpgradedIds(s) \/ (s \in direct /\ ids = DirectIds(s))
FinishedInv == \A f \in finished : f.ids \subseteq RowIds(target) /\ Imported(f.source, f.ids)

ProgramInv == program # None =>
  /\ program \in Upgrades =>
       /\ program.source \notin upgraded /\ program.source \in started
       /\ \A n \in LegacyRows(program.source) \ program.todo :
            Namespaced("legacy-sqlite-local", n) \in RowIds(local[program.source])
       /\ program.todo \subseteq LegacyRows(program.source)
  /\ program \in Imports =>
       /\ Imported(program.source, program.ids)
       /\ program.ids \subseteq RowIds(target) \cup RowIds(program.rows)
       /\ \A r \in program.rows : SoundRow(r) /\ r.origin # "historical_estimate" /\ r.id \in program.ids
       /\ program.at = "aliases" => program.row \in UsageRows /\ program.row.origin = "model"
  /\ program \in Fills =>
       /\ ~served
       /\ \A r \in BrainRecords : /\ records[r] # 0 => program.staged[r] = records[r]
                                  /\ r \notin program.todo => program.staged[r] # 0
  /\ program \in Backfills =>
       /\ \A id \in program.ids : id[1] = "own"
       /\ program.ids \subseteq RowIds(target)
       /\ \A r \in target : r.id \in program.ids => r.origin # "measured"
       /\ program.backed => backups[program.file] = program.ids

\* A step of a server leaves the rows of a backfill what they are.
Unspoiled == \A r \in target' : r \in target \/ r.id \notin RowIds(target) \/ r.origin # "measured"

MigrationInv == MoveTypes /\ LocalInv /\ MovedInv /\ FinishedInv /\ ProgramInv

-----------------------------------------------------------------------------
(* Rows and programs.                                                      *)

LEMMA OlderIsSound ==
  ASSUME MigrationAssumption, NEW ns \in Sources \cup {"legacy-sqlite-local"}, NEW n \in Nat
  PROVE  /\ OlderRow(ns, n) \in UsageRows /\ SoundRow(OlderRow(ns, n)) /\ OlderRow(ns, n).id = Namespaced(ns, n)
         /\ OlderRow(ns, n).origin = "measured" /\ OlderRow(ns, n).id[1] = ns
         /\ Namespaced(ns, n) \in IdSet /\ Namespaced(ns, n)[1] = ns
  BY DEF OlderRow, Namespaced, UsageRows, SoundRow, MigrationAssumption, IdSet, Namespaces

LEMMA PresentIsSound ==
  ASSUME MigrationAssumption, NEW n \in Nat
  PROVE  /\ PresentRow(n) \in UsageRows /\ SoundRow(PresentRow(n)) /\ PresentRow(n).origin # "historical_estimate"
         /\ PresentRow(n).id = <<"own", n>> /\ PresentRow(n).id \in IdSet /\ PresentRow(n).id[1] = "own"
  <1> DEFINE c == IF n \in move.unknown \ move.sampled THEN None ELSE 1
             o == IF n \in move.sampled THEN "measured" ELSE "model"
  <1>1. c \in Nat \cup {None} /\ o \in {"measured", "model"} /\ (o = "measured" => c # None)
    BY DEF MigrationAssumption
  <1>2. PresentRow(n) = [id |-> <<"own", n>>, cost |-> c, origin |-> o]
    BY DEF PresentRow
  <1> HIDE DEF c, o
  <1> QED
    BY <1>1, <1>2 DEF UsageRows, SoundRow, Namespaces, IdSet

LEMMA RowParts ==
  ASSUME NEW r \in UsageRows
  PROVE  r.id \in IdSet /\ r.cost \in Nat \cup {None} /\ r.origin \in {"measured", "model", "historical_estimate"}
  BY DEF UsageRows, IdSet

\* A row whose cost is written anew is the same row, and no measured one.
LEMMA RewrittenIsSound ==
  ASSUME NEW r \in UsageRows, SoundRow(r), r.origin # "measured",
         NEW c \in Nat \cup {None}, NEW o \in {"model", "historical_estimate"},
         NEW q, q = [id |-> r.id, cost |-> c, origin |-> o]
  PROVE  q \in UsageRows /\ q.id = r.id /\ q.origin = o /\ SoundRow(q)
  <1>1. r.id \in Namespaces \X Nat /\ r.id[1] = "own"
    BY DEF UsageRows, SoundRow
  <1>2. q \in UsageRows /\ q.id = r.id /\ q.origin = o
    BY <1>1 DEF UsageRows
  <1> QED
    BY <1>1, <1>2 DEF SoundRow

LEMMA RowChange ==
  ASSUME NEW r \in UsageRows, SoundRow(r), r.origin # "measured",
         NEW c \in Nat \cup {None}, NEW o \in {"model", "historical_estimate"}
  PROVE  /\ [r EXCEPT !.cost = c, !.origin = o] \in UsageRows
         /\ [r EXCEPT !.cost = c, !.origin = o].id = r.id
         /\ [r EXCEPT !.cost = c, !.origin = o].origin = o
         /\ SoundRow([r EXCEPT !.cost = c, !.origin = o])
  <1> DEFINE q == [r EXCEPT !.cost = c, !.origin = o]
  <1>1. q = [[r EXCEPT !.cost = c] EXCEPT !.origin = o]
    OBVIOUS
  <1>2. r = [id |-> r.id, cost |-> r.cost, origin |-> r.origin]
    BY DEF UsageRows
  <1>3. [r EXCEPT !.cost = c] = [id |-> r.id, cost |-> c, origin |-> r.origin]
    BY <1>2
  <1>4. [[id |-> r.id, cost |-> c, origin |-> r.origin] EXCEPT !.origin = o] = [id |-> r.id, cost |-> c, origin |-> o]
    OBVIOUS
  <1>5. q = [id |-> r.id, cost |-> c, origin |-> o]
    BY <1>1, <1>3, <1>4, Zenon
  <1> HIDE DEF q
  <1>6. q \in UsageRows /\ q.id = r.id /\ q.origin = o /\ SoundRow(q)
    BY <1>5, RewrittenIsSound
  <1> QED
    BY <1>6 DEF q

LEMMA RevisedIsSound ==
  ASSUME NEW r \in UsageRows, SoundRow(r), NEW c \in Nat \cup {None}
  PROVE  /\ RevisedRow(r, c, "model") \in UsageRows /\ SoundRow(RevisedRow(r, c, "model"))
         /\ RevisedRow(r, c, "model").id = r.id
         /\ RevisedRow(r, c, "model").origin = "historical_estimate" => r.origin = "historical_estimate"
  <1>1. CASE r.cost = None \/ r.origin \in {"model", "historical_estimate"}
    <2>1. r.origin # "measured"
      BY <1>1 DEF SoundRow
    <2> QED
      BY <1>1, <2>1, RowChange DEF RevisedRow
  <1>2. CASE ~(r.cost = None \/ r.origin \in {"model", "historical_estimate"})
    BY <1>2 DEF RevisedRow
  <1> QED
    BY <1>1, <1>2

LEMMA ProgramKinds ==
  ASSUME MoveTypes, program # None
  PROVE  /\ program.kind = "upgrade" <=> program \in Upgrades
         /\ program.kind = "history" <=> program \in Imports
         /\ program.kind = "brain" <=> program \in Fills
         /\ program.kind = "backfill" <=> program \in Backfills
  <1>1. program \in Upgrades \cup Imports \cup Fills \cup Backfills
    BY DEF MoveTypes
  <1>2. /\ \A x \in Upgrades : x.kind = "upgrade"
        /\ \A x \in Imports : x.kind = "history"
        /\ \A x \in Fills : x.kind = "brain"
        /\ \A x \in Backfills : x.kind = "backfill"
    BY DEF Upgrades, Imports, Fills, Backfills
  <1> QED
    BY <1>1, <1>2

\* A program is of one kind.
LEMMA KindsDiffer ==
  /\ \A x \in Upgrades : x \notin Imports /\ x \notin Fills /\ x \notin Backfills
  /\ \A x \in Imports : x \notin Upgrades /\ x \notin Fills /\ x \notin Backfills
  /\ \A x \in Fills : x \notin Upgrades /\ x \notin Imports /\ x \notin Backfills
  /\ \A x \in Backfills : x \notin Upgrades /\ x \notin Imports /\ x \notin Fills
  BY DEF Upgrades, Imports, Fills, Backfills

LEMMA PlanParts ==
  ASSUME MigrationAssumption, MoveTypes, NEW s \in Sources
  PROVE  /\ LegacyRows(s) \subseteq Nat /\ ModernRows(s) \subseteq Nat /\ move.checkpoint[s] \in Nat
         /\ move.fresh \subseteq Nat
  BY DEF MigrationAssumption, MoveTypes, LegacyRows, ModernRows

\* The names of a source are ids; after the upgrade none is of the namespace of a source.
LEMMA SourceIds ==
  ASSUME MigrationAssumption, MoveTypes, NEW s \in Sources
  PROVE  /\ DirectIds(s) \subseteq IdSet /\ UpgradedIds(s) \subseteq IdSet
         /\ \A id \in DirectIds(s) : id[1] = s
         /\ \A id \in UpgradedIds(s) : id[1] \in {"legacy-sqlite-local", "own"}
  <1>2. \A n \in LegacyRows(s) :
          /\ Namespaced(s, n) \in IdSet /\ Namespaced(s, n)[1] = s
          /\ Namespaced("legacy-sqlite-local", n) \in IdSet
          /\ Namespaced("legacy-sqlite-local", n)[1] = "legacy-sqlite-local"
    BY PlanParts, OlderIsSound
  <1>3. \A n \in ModernRows(s) : PresentRow(n).id \in IdSet /\ PresentRow(n).id[1] = "own"
    BY PlanParts, PresentIsSound
  <1> QED
    BY <1>2, <1>3 DEF DirectIds, UpgradedIds

-----------------------------------------------------------------------------
(* What a step does to the rows.                                           *)

\* A row that is inserted is there, and the others are.
LEMMA RowInserted ==
  ASSUME NEW rows \in SUBSET UsageRows, NEW row \in UsageRows
  PROVE  /\ WithRow(rows, row) \subseteq UsageRows
         /\ RowIds(WithRow(rows, row)) = RowIds(rows) \cup {row.id}
         /\ \A r \in WithRow(rows, row) : r \in rows \/ (r = row /\ row.id \notin RowIds(rows))
  BY DEF WithRow, RowIds

\* What is known of the rows and what an import has brought stays when PostgreSQL takes a row.
LEMMA MovedByInsertion ==
  ASSUME MoveTypes, MovedInv, NEW row \in UsageRows, SoundRow(row), row.origin # "historical_estimate",
         row.id[1] \in direct \cup {"legacy-sqlite-local", "own"},
         target' = WithRow(target, row), UNCHANGED <<direct, backups>>
  PROVE  MovedInv'
  <1> DEFINE old == target
  <1>1. target \in SUBSET UsageRows
    BY DEF MoveTypes
  <1>2. \A r \in target' : r \in target \/ (r = row /\ row.id \notin RowIds(target))
    BY <1>1, RowInserted
  <1>3. \A r, q \in target' : r.id = q.id => r = q
    BY <1>2 DEF MovedInv, RowIds
  <1>4. \A r \in target' : SoundRow(r) /\ r.id[1] \in direct' \cup {"legacy-sqlite-local", "own"}
    BY <1>2 DEF MovedInv
  <1>5. BackfilledIsKept'
    BY <1>2 DEF MovedInv, BackfilledIsKept
  <1>6. \A f \in BackupFiles : \A id \in backups'[f] : id[1] = "own"
    BY DEF MovedInv
  <1> QED
    BY <1>3, <1>4, <1>5, <1>6 DEF MovedInv

LEMMA AdvanceIsForward ==
  ASSUME checkpoint \in Nat, NEW c \in Nat
  PROVE  AdvancedTo(c) \in Nat /\ AdvancedTo(c) >= checkpoint
  <1>1. \E m \in {checkpoint, c} : \A x \in {checkpoint, c} : m >= x
    OBVIOUS
  <1>2. Max({checkpoint, c}) \in {checkpoint, c} /\ \A x \in {checkpoint, c} : Max({checkpoint, c}) >= x
    BY <1>1 DEF Max
  <1> QED
    BY <1>2 DEF AdvancedTo

\* The checkpoint that comes with a row takes the stored one no further back.
LEMMA RecordedCheckpoint ==
  ASSUME MoveTypes, NEW row \in UsageRows, RecordUsage(row)
  PROVE  checkpoint' \in Nat /\ checkpoint' >= checkpoint
  <1>1. SampleTime(row) \in Nat
    BY RowParts DEF SampleTime, IdSet
  <1>2. checkpoint \in Nat
    BY DEF MoveTypes
  <1>3. AdvancedTo(SampleTime(row)) \in Nat /\ AdvancedTo(SampleTime(row)) >= checkpoint
    BY <1>1, <1>2, AdvanceIsForward
  <1> QED
    BY <1>2, <1>3 DEF RecordUsage

\* It also stays when the cost of rows is written anew and the rows remain what they are.
LEMMA MovedByRevision ==
  ASSUME MoveTypes, MovedInv, NEW new \in [target -> UsageRows],
         \A r \in target : /\ new[r].id = r.id /\ SoundRow(new[r])
                           /\ new[r].origin = "historical_estimate" => \E f \in BackupFiles : r.id \in backups[f],
         target' = {new[r] : r \in target}, UNCHANGED <<direct, backups>>
  PROVE  MovedInv' /\ RowIds(target') = RowIds(target)
  <1>1. \A q \in target' : \E r \in target : q = new[r]
    OBVIOUS
  <1>2. \A r, q \in target' : r.id = q.id => r = q
    BY <1>1 DEF MovedInv
  <1>3. \A r \in target' : SoundRow(r) /\ r.id[1] \in direct' \cup {"legacy-sqlite-local", "own"}
    BY <1>1 DEF MovedInv
  <1>4. BackfilledIsKept'
    BY <1>1 DEF BackfilledIsKept
  <1>5. \A f \in BackupFiles : \A id \in backups'[f] : id[1] = "own"
    BY DEF MovedInv
  <1>6. RowIds(target') = RowIds(target)
    BY <1>1 DEF RowIds
  <1> QED
    BY <1>2, <1>3, <1>4, <1>5, <1>6 DEF MovedInv

-----------------------------------------------------------------------------
(* What a step leaves alone.                                               *)

LEMMA LocalFrame ==
  ASSUME LocalInv, UNCHANGED <<move, local, started, upgraded>>
  PROVE  LocalInv'
  BY DEF LocalInv, LegacyRows, ModernRows, PresentRow, UpgradedIds

LEMMA MovedFrame ==
  ASSUME MovedInv, UNCHANGED <<target, backups>>, direct \subseteq direct'
  PROVE  MovedInv'
  BY DEF MovedInv, BackfilledIsKept

LEMMA ImportedStays ==
  ASSUME move' = move, direct \subseteq direct', NEW s, NEW ids, Imported(s, ids)
  PROVE  Imported(s, ids)'
  BY DEF Imported, DirectIds, UpgradedIds, LegacyRows, ModernRows, PresentRow

LEMMA FinishedFrame ==
  ASSUME FinishedInv, move' = move, finished' = finished, direct \subseteq direct',
         RowIds(target) \subseteq RowIds(target')
  PROVE  FinishedInv'
  <1>1. \A f \in finished : Imported(f.source, f.ids)'
    BY ImportedStays DEF FinishedInv
  <1> QED
    BY <1>1 DEF FinishedInv, Imported

LEMMA ProgramStays ==
  ASSUME MoveTypes, ProgramInv, program' = program, UNCHANGED <<move, local, started, upgraded, direct, backups>>,
         RowIds(target) \subseteq RowIds(target'), Unspoiled,
         (program # None /\ program \in Fills) => ~served' /\ records' = records
  PROVE  ProgramInv'
  <1> SUFFICES ASSUME program # None PROVE ProgramInv'
    BY DEF ProgramInv
  <1>1. program \in Upgrades =>
          /\ program.source \notin upgraded' /\ program.source \in started'
          /\ \A n \in LegacyRows(program.source)' \ program.todo :
               Namespaced("legacy-sqlite-local", n) \in RowIds(local'[program.source])
          /\ program.todo \subseteq LegacyRows(program.source)'
    BY DEF ProgramInv, LegacyRows
  <1>2. program \in Imports =>
          /\ Imported(program.source, program.ids)'
          /\ program.ids \subseteq RowIds(target') \cup RowIds(program.rows)
          /\ \A r \in program.rows : SoundRow(r) /\ r.origin # "historical_estimate" /\ r.id \in program.ids
          /\ program.at = "aliases" => program.row \in UsageRows /\ program.row.origin = "model"
    <2>1. program \in Imports => Imported(program.source, program.ids)
      BY DEF ProgramInv
    <2>2. Imported(program.source, program.ids) => Imported(program.source, program.ids)'
      BY DEF Imported, DirectIds, UpgradedIds, LegacyRows, ModernRows, PresentRow
    <2> QED
      BY <2>1, <2>2 DEF ProgramInv
  <1>3. program \in Fills =>
          /\ ~served'
          /\ \A r \in BrainRecords : /\ records'[r] # 0 => program.staged[r] = records'[r]
                                     /\ r \notin program.todo => program.staged[r] # 0
    BY DEF ProgramInv
  <1>4. program \in Backfills =>
          /\ \A id \in program.ids : id[1] = "own"
          /\ program.ids \subseteq RowIds(target')
          /\ \A r \in target' : r.id \in program.ids => r.origin # "measured"
          /\ program.backed => backups'[program.file] = program.ids
    BY DEF ProgramInv, Unspoiled
  <1> QED
    BY <1>1, <1>2, <1>3, <1>4 DEF ProgramInv

-----------------------------------------------------------------------------
(* Programs that go on.                                                    *)

LEMMA LeastIsIn == ASSUME NEW S \in SUBSET Nat, S # {} PROVE Min(S) \in S
  <1> DEFINE R == {pair \in Nat \X Nat : pair[1] < pair[2]}
  <1>1. IsWellFoundedOn(R, Nat)
    BY NatLessThanWellFounded DEF OpToRel
  <1> HIDE DEF R
  <1>2. PICK x \in S : \A y \in S : <<y, x>> \notin R
    BY <1>1, WFMin
  <1>3. \A y \in S : y < x => <<y, x>> \in R
    BY DEF R
  <1>4. \A y \in S : ~(y < x)
    BY <1>2, <1>3
  <1>5. \A y \in S : x <= y
    BY <1>4
  <1> QED
    BY <1>5 DEF Min

\* An upgrade that has written one more row.
LEMMA UpgradeGoesOn ==
  ASSUME NEW p \in Upgrades, NEW n
  PROVE  LET q == [p EXCEPT !.todo = @ \ {n}] IN
           q \in Upgrades /\ q.source = p.source /\ q.todo = p.todo \ {n} /\ q.kind = "upgrade"
  <1> DEFINE q == [p EXCEPT !.todo = @ \ {n}]
  <1>1. p.source \in Sources /\ p.todo \in SUBSET Nat /\ p = [kind |-> "upgrade", source |-> p.source, todo |-> p.todo]
    BY DEF Upgrades
  <1>2. q = [kind |-> "upgrade", source |-> p.source, todo |-> p.todo \ {n}]
    BY <1>1
  <1> QED
    BY <1>1, <1>2 DEF Upgrades

\* An import that has written the measurements of a row.
LEMMA ImportReturns ==
  ASSUME NEW p \in Imports
  PROVE  LET q == [p EXCEPT !.at = "row"] IN
           /\ q \in Imports /\ q.source = p.source /\ q.ids = p.ids /\ q.rows = p.rows /\ q.row = p.row /\ q.at = "row"
  BY DEF Imports

\* A backfill that has written its backup.
LEMMA BackfillGoesOn ==
  ASSUME NEW B, TRUE \in B, NEW K, NEW I, NEW F, NEW p \in [kind : K, ids : I, file : F, backed : B]
  PROVE  LET q == [p EXCEPT !.backed = TRUE] IN
           /\ q \in [kind : K, ids : I, file : F, backed : B]
           /\ q.ids = p.ids /\ q.file = p.file
  OBVIOUS

-----------------------------------------------------------------------------
(* The steps, one by one.                                                  *)

LEMMA MigrationStarts ==
  ASSUME MigrationAssumption, MigrationInit
  PROVE  MigrationInv
  <1>1. \A s \in Sources : LegacyRows(s) \subseteq Nat /\ ModernRows(s) \subseteq Nat
    BY DEF MigrationInit, MigrationAssumption, LegacyRows, ModernRows
  <1>2. \A s \in Sources : \A n \in ModernRows(s) :
          /\ PresentRow(n) \in UsageRows /\ SoundRow(PresentRow(n)) /\ PresentRow(n).origin # "historical_estimate"
    BY <1>1, PresentIsSound
  <1>3. MoveTypes
    BY <1>2 DEF MigrationInit, MoveTypes
  <1>4. LocalInv
    <2> SUFFICES ASSUME NEW s \in Sources
                 PROVE  /\ s \notin started => ModernRows(s) = {} /\ local[s] = {}
                        /\ \A r \in local[s] : SoundRow(r) /\ r.origin # "historical_estimate" /\ r.id \in UpgradedIds(s)
                        /\ \A n \in ModernRows(s) : PresentRow(n).id \in RowIds(local[s])
                        /\ s \in upgraded /\ s \notin started => LegacyRows(s) = {}
                        /\ s \in upgraded \cap started => UpgradedIds(s) \subseteq RowIds(local[s])
      BY DEF LocalInv
    <2>1. local[s] = {PresentRow(n) : n \in ModernRows(s)}
      BY DEF MigrationInit
    <2>2. \A n \in ModernRows(s) : PresentRow(n).id \in RowIds(local[s]) /\ PresentRow(n).id \in UpgradedIds(s)
      BY <2>1 DEF RowIds, UpgradedIds
    <2>3. \A r \in local[s] : SoundRow(r) /\ r.origin # "historical_estimate" /\ r.id \in UpgradedIds(s)
      BY <2>1, <2>2, <1>2
    <2>4. LegacyRows(s) = {} => UpgradedIds(s) \subseteq RowIds(local[s])
      BY <2>2 DEF UpgradedIds
    <2>5. /\ s \notin started => ModernRows(s) = {}
          /\ s \in upgraded => LegacyRows(s) = {}
      BY DEF MigrationInit
    <2> QED
      BY <2>1, <2>2, <2>3, <2>4, <2>5
  <1>5. MovedInv /\ FinishedInv /\ ProgramInv
    BY DEF MigrationInit, MovedInv, FinishedInv, ProgramInv, BackfilledIsKept
  <1> QED
    BY <1>3, <1>4, <1>5 DEF MigrationInv

LEMMA StartLocalKeeps ==
  ASSUME MigrationAssumption, MigrationInv, NEW s \in Sources, StartLocal(s)
  PROVE  MigrationInv'
  <1> USE DEF MigrationInv
  <1> DEFINE p == [kind |-> "upgrade", source |-> s, todo |-> LegacyRows(s)]
  <1>1. p \in Upgrades
    BY PlanParts DEF Upgrades
  <1>2. MoveTypes'
    BY <1>1 DEF StartLocal, MoveTypes
  <1>3. LocalInv'
    <2> SUFFICES ASSUME NEW t \in Sources
                 PROVE  /\ t \notin started' => ModernRows(t) = {} /\ local[t] = {}
                        /\ \A r \in local[t] : SoundRow(r) /\ r.origin # "historical_estimate" /\ r.id \in UpgradedIds(t)
                        /\ \A n \in ModernRows(t) : PresentRow(n).id \in RowIds(local[t])
                        /\ t \in upgraded /\ t \notin started' => LegacyRows(t) = {}
                        /\ t \in upgraded \cap started' => UpgradedIds(t) \subseteq RowIds(local[t])
      BY DEF LocalInv, StartLocal, LegacyRows, ModernRows, PresentRow, UpgradedIds
    <2>1. t \in upgraded /\ t \notin started => UpgradedIds(t) \subseteq RowIds(local[t])
      BY DEF LocalInv, UpgradedIds
    <2> QED
      BY <2>1 DEF LocalInv, StartLocal
  <1>4. MovedInv' /\ FinishedInv'
    BY MovedFrame, FinishedFrame DEF StartLocal
  <1>5. ProgramInv'
    <2>1. CASE s \in upgraded
      BY <2>1 DEF StartLocal, ProgramInv
    <2>2. CASE s \notin upgraded
      <3>1. program' = p /\ p.source = s /\ p.todo = LegacyRows(s) /\ LegacyRows(s)' = LegacyRows(s)
            /\ s \in started' /\ s \notin upgraded'
        BY <2>2 DEF StartLocal, LegacyRows
      <3> HIDE DEF p
      <3> QED
        BY <1>1, <3>1, KindsDiffer DEF ProgramInv
    <2> QED
      BY <2>1, <2>2
  <1> QED
    BY <1>2, <1>3, <1>4, <1>5

LEMMA UpgradeRowKeeps ==
  ASSUME MigrationAssumption, MigrationInv, UpgradeRow
  PROVE  MigrationInv'
  <1> USE DEF MigrationInv
  <1> DEFINE n == Min(program.todo)
             s == program.source
             row == OlderRow("legacy-sqlite-local", n)
  <1>1. program # None /\ program \in Upgrades
    BY ProgramKinds DEF UpgradeRow
  <1>2. s \in Sources /\ program.todo \in SUBSET Nat
    BY <1>1 DEF Upgrades
  <1>3. n \in program.todo /\ n \in Nat
    BY <1>2, LeastIsIn DEF UpgradeRow
  <1>4. s \in started /\ s \notin upgraded /\ n \in LegacyRows(s)
    BY <1>1, <1>3 DEF ProgramInv
  <1>5. /\ row \in UsageRows /\ SoundRow(row) /\ row.id = Namespaced("legacy-sqlite-local", n)
        /\ row.origin = "measured"
    BY <1>3, OlderIsSound
  <1>6. /\ local' = [local EXCEPT ![s] = WithRow(local[s], row)]
        /\ program' = [program EXCEPT !.todo = @ \ {n}]
        /\ UNCHANGED <<move, started, upgraded, target, checkpoint, records, served, backups, finished, direct>>
    BY DEF UpgradeRow
  <1>7. program' \in Upgrades /\ program'.source = s /\ program'.todo = program.todo \ {n}
    BY <1>1, <1>6, UpgradeGoesOn
  <1>8. row.id \in UpgradedIds(s)
    BY <1>4, <1>5 DEF UpgradedIds
  <1>9. local[s] \in SUBSET UsageRows /\ local \in [Sources -> SUBSET UsageRows]
    BY <1>2 DEF MoveTypes
  <1> HIDE DEF row, n, s
  <1>10. /\ WithRow(local[s], row) \subseteq UsageRows
         /\ RowIds(WithRow(local[s], row)) = RowIds(local[s]) \cup {row.id}
         /\ \A r \in WithRow(local[s], row) : r \in local[s] \/ r = row
    BY <1>5, <1>9, RowInserted
  <1>11. local'[s] = WithRow(local[s], row) /\ \A t \in Sources : t # s => local'[t] = local[t]
    BY <1>2, <1>6, <1>9
  <1>12. MoveTypes'
    <2>1. local' \in [Sources -> SUBSET UsageRows]
      BY <1>2, <1>6, <1>9, <1>10
    <2> QED
      BY <2>1, <1>6, <1>7 DEF MoveTypes
  <1>13. LocalInv'
    <2> SUFFICES ASSUME NEW t \in Sources
                 PROVE  /\ t \notin started => ModernRows(t) = {} /\ local'[t] = {}
                        /\ \A r \in local'[t] : SoundRow(r) /\ r.origin # "historical_estimate" /\ r.id \in UpgradedIds(t)
                        /\ \A m \in ModernRows(t) : PresentRow(m).id \in RowIds(local'[t])
                        /\ t \in upgraded /\ t \notin started => LegacyRows(t) = {}
                        /\ t \in upgraded \cap started => UpgradedIds(t) \subseteq RowIds(local'[t])
      BY <1>6 DEF LocalInv, LegacyRows, ModernRows, PresentRow, UpgradedIds
    <2>1. CASE t = s
      BY <2>1, <1>4, <1>5, <1>8, <1>10, <1>11 DEF LocalInv
    <2>2. CASE t # s
      BY <2>2, <1>11 DEF LocalInv
    <2> QED
      BY <2>1, <2>2
  <1>14. MovedInv' /\ FinishedInv'
    BY <1>6, MovedFrame, FinishedFrame
  <1>15. ProgramInv'
    <2>1. \A m \in move.legacy[s] \ (program.todo \ {n}) : Namespaced("legacy-sqlite-local", m) \in RowIds(local'[s])
      BY <1>1, <1>5, <1>10, <1>11 DEF ProgramInv, LegacyRows, s
    <2>2. move' = move /\ program.todo \ {n} \subseteq move.legacy[s]
      BY <1>1, <1>6 DEF ProgramInv, LegacyRows, s
    <2> QED
      BY <2>1, <2>2, <1>4, <1>6, <1>7, KindsDiffer DEF ProgramInv, LegacyRows
  <1> QED
    BY <1>12, <1>13, <1>14, <1>15

LEMMA EndUpgradeKeeps ==
  ASSUME MigrationAssumption, MigrationInv, EndUpgrade
  PROVE  MigrationInv'
  <1> USE DEF MigrationInv
  <1> DEFINE s == program.source
  <1>1. program # None /\ program \in Upgrades /\ program.todo = {}
    BY ProgramKinds DEF EndUpgrade
  <1>2. s \in Sources
    BY <1>1 DEF Upgrades
  <1>3. /\ s \in started /\ upgraded' = upgraded \cup {s} /\ program' = None
        /\ UNCHANGED <<move, local, started, target, checkpoint, records, served, backups, finished, direct>>
    BY <1>1 DEF EndUpgrade, ProgramInv
  <1>4. \A n \in LegacyRows(s) : Namespaced("legacy-sqlite-local", n) \in RowIds(local[s])
    BY <1>1 DEF ProgramInv
  <1> HIDE DEF s
  <1>5. MoveTypes'
    BY <1>2, <1>3 DEF MoveTypes
  <1>6. LocalInv'
    <2> SUFFICES ASSUME NEW t \in Sources
                 PROVE  /\ t \notin started => ModernRows(t) = {} /\ local[t] = {}
                        /\ \A r \in local[t] : SoundRow(r) /\ r.origin # "historical_estimate" /\ r.id \in UpgradedIds(t)
                        /\ \A n \in ModernRows(t) : PresentRow(n).id \in RowIds(local[t])
                        /\ t \in upgraded' /\ t \notin started => LegacyRows(t) = {}
                        /\ t \in upgraded' \cap started => UpgradedIds(t) \subseteq RowIds(local[t])
      BY <1>3 DEF LocalInv, LegacyRows, ModernRows, PresentRow, UpgradedIds
    <2>1. t = s => UpgradedIds(t) \subseteq RowIds(local[t])
      BY <1>4 DEF LocalInv, UpgradedIds
    <2> QED
      BY <2>1, <1>3 DEF LocalInv
  <1>7. MovedInv' /\ FinishedInv'
    BY <1>3, MovedFrame, FinishedFrame
  <1> QED
    BY <1>3, <1>5, <1>6, <1>7 DEF ProgramInv

\* An import begins with the rows of a source, under its names.
LEMMA ImportBegins ==
  ASSUME MigrationAssumption, MigrationInv, NEW s \in Sources, NEW rows \in SUBSET UsageRows, NEW c \in Nat,
         \A r \in rows : SoundRow(r) /\ r.origin # "historical_estimate", RowIds(rows) \subseteq IdSet,
         program' = [kind |-> "history", source |-> s, at |-> "row", row |-> None, rows |-> rows,
                     ids |-> RowIds(rows), checkpoint |-> c],
         direct \subseteq direct' /\ direct' \subseteq Sources,
         RowIds(rows) = UpgradedIds(s) \/ (s \in direct' /\ RowIds(rows) = DirectIds(s)),
         UNCHANGED <<move, local, started, upgraded, target, checkpoint, records, served, backups, finished>>
  PROVE  MigrationInv'
  <1> USE DEF MigrationInv
  <1> DEFINE p == [kind |-> "history", source |-> s, at |-> "row", row |-> None, rows |-> rows,
                   ids |-> RowIds(rows), checkpoint |-> c]
  <1>1. p \in Imports /\ p.source = s /\ p.rows = rows /\ p.ids = RowIds(rows) /\ p.at = "row"
    BY DEF Imports
  <1>2. program' = p
    OBVIOUS
  <1> HIDE DEF p
  <1>3. MoveTypes'
    BY <1>1, <1>2 DEF MoveTypes
  <1>4. LocalInv'
    BY LocalFrame
  <1>5. MovedInv' /\ FinishedInv'
    BY MovedFrame, FinishedFrame
  <1>6. ProgramInv'
    <2>1. UpgradedIds(s)' = UpgradedIds(s) /\ DirectIds(s)' = DirectIds(s)
      BY DEF UpgradedIds, DirectIds, LegacyRows, ModernRows, PresentRow
    <2>2. Imported(s, RowIds(rows))'
      BY <2>1 DEF Imported
    <2>3. \A r \in rows : r.id \in RowIds(rows)
      BY DEF RowIds
    <2>4. Imported(program.source, program.ids)'
      BY <1>1, <1>2, <2>2
    <2> QED
      BY <1>1, <1>2, <2>3, <2>4, KindsDiffer DEF ProgramInv
  <1> QED
    BY <1>3, <1>4, <1>5, <1>6

LEMMA StartImportKeeps ==
  ASSUME MigrationAssumption, MigrationInv, NEW s \in Sources, StartImport(s)
  PROVE  MigrationInv'
  <1> USE DEF MigrationInv
  <1> DEFINE rows == IF s \in started THEN local[s] ELSE {OlderRow(s, n) : n \in LegacyRows(s)}
             brought == IF s \in started THEN move.checkpoint[s] ELSE 0
  <1>1. /\ program' = [kind |-> "history", source |-> s, at |-> "row", row |-> None, rows |-> rows,
                       ids |-> RowIds(rows), checkpoint |-> brought]
        /\ direct' = IF s \in started THEN direct ELSE direct \cup {s}
        /\ s \in started => s \in upgraded
        /\ UNCHANGED <<move, local, started, upgraded, target, checkpoint, records, served, backups, finished>>
    BY DEF StartImport, MayImport
  <1>2. \A n \in LegacyRows(s) :
          /\ OlderRow(s, n) \in UsageRows /\ SoundRow(OlderRow(s, n)) /\ OlderRow(s, n).origin = "measured"
          /\ OlderRow(s, n).id = Namespaced(s, n)
    BY PlanParts, OlderIsSound
  <1>3. rows \subseteq UsageRows /\ \A r \in rows : SoundRow(r) /\ r.origin # "historical_estimate"
    <2>1. CASE s \in started
      BY <2>1 DEF MoveTypes, LocalInv
    <2>2. CASE s \notin started
      BY <2>2, <1>2
    <2> QED
      BY <2>1, <2>2
  <1>4. CASE s \in started
    <2>1. RowIds(rows) = UpgradedIds(s)
      BY <1>1, <1>4 DEF LocalInv, RowIds
    <2> QED
      <3>2. RowIds(rows) \subseteq IdSet
        BY <2>1, SourceIds
      <3>3. brought \in Nat
        BY PlanParts, <1>4
      <3> QED
        BY <1>1, <1>3, <1>4, <2>1, <3>2, <3>3, ImportBegins DEF MoveTypes
  <1>5. CASE s \notin started
    <2>1. RowIds(rows) = DirectIds(s) /\ s \in direct'
      BY <1>1, <1>2, <1>5 DEF RowIds, DirectIds
    <2>2. RowIds(rows) \subseteq IdSet
      BY <2>1, SourceIds
    <2> QED
      BY <1>1, <1>3, <1>5, <2>1, <2>2, ImportBegins DEF MoveTypes
  <1> QED
    BY <1>4, <1>5

LEMMA ImportRowKeeps ==
  ASSUME MigrationAssumption, MigrationInv, ImportRow
  PROVE  MigrationInv' /\ checkpoint' >= checkpoint
  <1> USE DEF MigrationInv
  <1> DEFINE row == CHOOSE r \in program.rows : TRUE
             next == IF row.origin = "model" THEN "aliases" ELSE "row"
             rest == program.rows \ {row}
             s == program.source
  <1>1. program # None /\ program \in Imports /\ program.rows # {}
    BY ProgramKinds DEF ImportRow
  <1>2. /\ RecordUsage(row) /\ target' = WithRow(target, row)
        /\ program' = [program EXCEPT !.rows = rest, !.row = row, !.at = next]
        /\ UNCHANGED <<move, local, started, upgraded, records, served, backups, finished, direct>>
    BY DEF ImportRow, RecordUsage
  <1>3. row \in program.rows
    BY <1>1
  <1>4. program.rows \in SUBSET UsageRows /\ s \in Sources /\ target \in SUBSET UsageRows
    BY <1>1 DEF Imports, MoveTypes
  <1> HIDE DEF row
  <1>5. row \in UsageRows /\ SoundRow(row) /\ row.origin # "historical_estimate" /\ row.id \in program.ids
    BY <1>1, <1>3, <1>4 DEF ProgramInv
  <1>6. row.id[1] \in direct \cup {"legacy-sqlite-local", "own"}
    <2>1. Imported(s, program.ids)
      BY <1>1 DEF ProgramInv
    <2> QED
      BY <1>4, <1>5, <2>1, SourceIds DEF Imported
  <1>7. MovedInv'
    BY <1>2, <1>5, <1>6, MovedByInsertion
  <1>8. target' \subseteq UsageRows /\ RowIds(target') = RowIds(target) \cup {row.id}
    BY <1>2, <1>4, <1>5, RowInserted
  <1>9. next \in {"row", "aliases"} /\ rest \in SUBSET UsageRows
    BY <1>4
  <1>10. next = "aliases" => row.origin = "model"
    OBVIOUS
  <1> HIDE DEF next
  <1>11. /\ program' \in Imports /\ program'.source = s /\ program'.ids = program.ids /\ program'.rows = rest
         /\ program'.row = row /\ program'.at = next
    <2>1. PICK old, left, taken, at : old = program /\ left = rest /\ taken = row /\ at = next
      OBVIOUS
    <2>2. program' = [old EXCEPT !.rows = left, !.row = taken, !.at = at]
      BY <1>2, <2>1
    <2>3. old \in Imports /\ left \in SUBSET UsageRows /\ taken \in UsageRows /\ at \in {"row", "aliases"}
      BY <1>1, <1>5, <1>9, <2>1
    <2> DEFINE q == [old EXCEPT !.rows = left, !.row = taken, !.at = at]
    <2> HIDE DEF rest
    <2>4. q \in Imports /\ q.source = old.source /\ q.ids = old.ids /\ q.rows = left /\ q.row = taken /\ q.at = at
      <3> DEFINE q1 == [old EXCEPT !.rows = left]
                 q2 == [q1 EXCEPT !.row = taken]
                 q3 == [q2 EXCEPT !.at = at]
      <3>1. q = q3
        OBVIOUS
      <3>2. q1 \in Imports /\ q1.source = old.source /\ q1.ids = old.ids /\ q1.rows = left
        BY <2>3 DEF Imports
      <3> HIDE DEF q1
      <3>3. q2 \in Imports /\ q2.source = old.source /\ q2.ids = old.ids /\ q2.rows = left /\ q2.row = taken
        BY <2>3, <3>2 DEF Imports
      <3> HIDE DEF q2
      <3>4. q3 \in Imports /\ q3.source = old.source /\ q3.ids = old.ids /\ q3.rows = left /\ q3.row = taken /\ q3.at = at
        BY <2>3, <3>3 DEF Imports
      <3> HIDE DEF q3, q
      <3> QED
        BY <3>1, <3>4
    <2>5. program' = q
      BY <2>2
    <2> HIDE DEF q
    <2> QED
      BY <2>1, <2>4, <2>5
  <1>15. checkpoint' \in Nat /\ checkpoint' >= checkpoint
    BY <1>2, <1>5, RecordedCheckpoint
  <1>12. MoveTypes'
    BY <1>2, <1>8, <1>11, <1>15 DEF MoveTypes
  <1>13. LocalInv' /\ FinishedInv'
    BY <1>2, <1>8, LocalFrame, FinishedFrame
  <1>14. ProgramInv'
    <2>1. PICK t, ids : t = program.source /\ ids = program.ids
      OBVIOUS
    <2>2. \A r \in rest : SoundRow(r) /\ r.origin # "historical_estimate" /\ r.id \in program.ids
      BY <1>1 DEF ProgramInv
    <2>3. program.ids \subseteq RowIds(target') \cup RowIds(rest)
      <3>1. program.ids \subseteq RowIds(target) \cup RowIds(program.rows)
        BY <1>1 DEF ProgramInv
      <3>2. \A id \in RowIds(program.rows) : id = row.id \/ id \in RowIds(rest)
        BY DEF RowIds
      <3> QED
        BY <1>8, <3>1, <3>2
    <2>4. Imported(program.source, program.ids)'
      <3>1. Imported(t, ids)
        BY <1>1, <2>1 DEF ProgramInv
      <3>2. Imported(t, ids)'
        BY <1>2, <3>1, ImportedStays
      <3>3. program'.source = t /\ program'.ids = ids
        BY <1>11, <2>1
      <3> QED
        BY <3>2, <3>3
    <2> QED
      BY <1>5, <1>10, <1>11, <2>2, <2>3, <2>4, KindsDiffer DEF ProgramInv
  <1> QED
    BY <1>7, <1>12, <1>13, <1>14, <1>15

LEMMA ImportAliasesKeeps ==
  ASSUME MigrationAssumption, MigrationInv, ImportAliases
  PROVE  MigrationInv'
  <1> USE DEF MigrationInv
  <1> DEFINE c == program.row.cost
             New(r) == IF r.id = program.row.id THEN RevisedRow(r, c, "model") ELSE r
             new == [r \in target |-> New(r)]
  <1>1. program # None /\ program \in Imports /\ program.at = "aliases"
    BY ProgramKinds DEF ImportAliases
  <1>2. program.row \in UsageRows /\ program.row.origin = "model"
    BY <1>1 DEF ProgramInv
  <1>3. /\ target' = {New(r) : r \in target}
        /\ program' = [program EXCEPT !.at = "row"]
        /\ UNCHANGED <<move, local, started, upgraded, checkpoint, records, served, backups, finished, direct>>
    BY <1>2 DEF ImportAliases
  <1>4. /\ program' \in Imports /\ program'.source = program.source /\ program'.ids = program.ids
        /\ program'.rows = program.rows /\ program'.row = program.row /\ program'.at = "row"
    BY <1>1, <1>3, ImportReturns
  <1>5. c \in Nat \cup {None}
    BY <1>2, RowParts
  <1>6. \A r \in target : /\ New(r) \in UsageRows /\ New(r).id = r.id /\ SoundRow(New(r))
                          /\ New(r).origin = "historical_estimate" => r.origin = "historical_estimate"
    BY <1>5, RevisedIsSound DEF MoveTypes, MovedInv
  <1> HIDE DEF New
  <1>7. MovedInv' /\ RowIds(target') = RowIds(target)
    <2>1. new \in [target -> UsageRows] /\ target' = {new[r] : r \in target}
      BY <1>3, <1>6
    <2>2. \A r \in target : /\ new[r].id = r.id /\ SoundRow(new[r])
                            /\ new[r].origin = "historical_estimate" => \E f \in BackupFiles : r.id \in backups[f]
      BY <1>6 DEF MovedInv, BackfilledIsKept
    <2> HIDE DEF new
    <2> QED
      BY <1>3, <2>1, <2>2, MovedByRevision
  <1>8. MoveTypes'
    <2>1. target' \subseteq UsageRows
      BY <1>3, <1>6
    <2> QED
      BY <1>3, <1>4, <2>1 DEF MoveTypes
  <1>9. LocalInv' /\ FinishedInv'
    BY <1>3, <1>7, LocalFrame, FinishedFrame
  <1>10. ProgramInv'
    <2>1. Imported(program.source, program.ids) /\ program.ids \subseteq RowIds(target) \cup RowIds(program.rows)
          /\ \A r \in program.rows : SoundRow(r) /\ r.origin # "historical_estimate" /\ r.id \in program.ids
      BY <1>1 DEF ProgramInv
    <2>2. Imported(program.source, program.ids)'
      <3>1. PICK t, ids : t = program.source /\ ids = program.ids
        OBVIOUS
      <3>2. Imported(t, ids)'
        BY <1>3, <2>1, <3>1, ImportedStays
      <3>3. program'.source = t /\ program'.ids = ids
        BY <1>4, <3>1
      <3> QED
        BY <3>2, <3>3
    <2> QED
      BY <1>4, <1>7, <2>1, <2>2, KindsDiffer DEF ProgramInv
  <1> QED
    BY <1>7, <1>8, <1>9, <1>10

LEMMA EndImportKeeps ==
  ASSUME MigrationAssumption, MigrationInv, EndImport
  PROVE  MigrationInv' /\ checkpoint' >= checkpoint
  <1> USE DEF MigrationInv
  <1> DEFINE f == [source |-> program.source, ids |-> program.ids]
  <1>1. program # None /\ program \in Imports /\ program.rows = {}
    BY ProgramKinds DEF EndImport
  <1>2. program.source \in Sources /\ program.ids \in SUBSET IdSet /\ program.checkpoint \in Nat /\ checkpoint \in Nat
    BY <1>1 DEF Imports, MoveTypes
  <1>3. /\ checkpoint' = AdvancedTo(program.checkpoint) /\ finished' = finished \cup {f} /\ program' = None
        /\ UNCHANGED <<move, local, started, upgraded, target, records, served, backups, direct>>
    BY DEF EndImport
  <1>4. checkpoint' \in Nat /\ checkpoint' >= checkpoint
    BY <1>2, <1>3, AdvanceIsForward
  <1>5. f.source = program.source /\ f.ids = program.ids /\ f \in [source : Sources, ids : SUBSET IdSet]
    BY <1>2
  <1>6. Imported(program.source, program.ids) /\ program.ids \subseteq RowIds(target)
    BY <1>1 DEF ProgramInv, RowIds
  <1> HIDE DEF f
  <1>7. MoveTypes'
    BY <1>3, <1>4, <1>5 DEF MoveTypes
  <1>8. LocalInv' /\ MovedInv' /\ ProgramInv'
    BY <1>3, LocalFrame, MovedFrame DEF ProgramInv
  <1>9. FinishedInv'
    <2>1. \A g \in finished' : Imported(g.source, g.ids) /\ g.ids \subseteq RowIds(target)
      BY <1>3, <1>5, <1>6 DEF FinishedInv
    <2>2. \A g \in finished' : Imported(g.source, g.ids)'
      BY <1>3, <2>1, ImportedStays
    <2> QED
      BY <1>3, <2>1, <2>2 DEF FinishedInv, Imported
  <1> QED
    BY <1>4, <1>7, <1>8, <1>9

LEMMA ServingKeeps ==
  ASSUME MigrationAssumption, MigrationInv, BeginServing \/ StopServing
  PROVE  MigrationInv'
  <1> USE DEF MigrationInv
  <1>1. /\ served' \in BOOLEAN
        /\ UNCHANGED <<move, local, started, upgraded, target, checkpoint, records, program, backups, finished, direct>>
    BY DEF BeginServing, StopServing
  <1>2. program # None /\ program \in Fills => ~served'
    <2>1. program # None /\ program \in Fills => program.kind = "brain" /\ ~served
      BY ProgramKinds DEF ProgramInv
    <2> QED
      BY <2>1 DEF BeginServing, StopServing
  <1>3. MoveTypes'
    BY <1>1 DEF MoveTypes
  <1>4. LocalInv' /\ MovedInv' /\ FinishedInv'
    BY <1>1, LocalFrame, MovedFrame, FinishedFrame
  <1>5. ProgramInv'
    BY <1>1, <1>2, ProgramStays DEF Unspoiled
  <1> QED
    BY <1>3, <1>4, <1>5

LEMMA AddRowKeeps ==
  ASSUME MigrationAssumption, MigrationInv, NEW n \in move.fresh, AddRow(n)
  PROVE  MigrationInv' /\ checkpoint' >= checkpoint
  <1> USE DEF MigrationInv
  <1> DEFINE unknown == [id |-> <<"own", n>>, cost |-> None, origin |-> "model"]
             row == IF n \in move.sampled THEN PresentRow(n) ELSE unknown
  <1>1. n \in Nat
    BY DEF MigrationAssumption, MoveTypes
  <1>2. row \in UsageRows /\ SoundRow(row) /\ row.origin # "historical_estimate" /\ row.id[1] = "own"
    <2>1. unknown \in UsageRows /\ SoundRow(unknown) /\ unknown.origin # "historical_estimate" /\ unknown.id[1] = "own"
      BY <1>1 DEF UsageRows, Namespaces, SoundRow
    <2> QED
      BY <1>1, <2>1, PresentIsSound
  <1>3. /\ RecordUsage(row) /\ target' = WithRow(target, row) /\ served
        /\ UNCHANGED <<move, local, started, upgraded, records, served, program, backups, finished, direct>>
    BY DEF AddRow, RecordUsage
  <1> HIDE DEF row
  <1>4. checkpoint' \in Nat /\ checkpoint' >= checkpoint
    BY <1>2, <1>3, RecordedCheckpoint
  <1>5. target' \subseteq UsageRows /\ RowIds(target) \subseteq RowIds(target')
    BY <1>2, <1>3, RowInserted DEF MoveTypes
  <1>6. MovedInv'
    BY <1>2, <1>3, MovedByInsertion
  <1>7. MoveTypes'
    BY <1>3, <1>4, <1>5 DEF MoveTypes
  <1>8. LocalInv' /\ FinishedInv'
    BY <1>3, <1>5, LocalFrame, FinishedFrame
  <1>9. program # None /\ program \in Fills => FALSE
    BY <1>3 DEF ProgramInv
  <1>11. Unspoiled
    BY <1>2, <1>3, RowInserted DEF MoveTypes, Unspoiled
  <1>10. ProgramInv'
    BY <1>3, <1>5, <1>9, <1>11, ProgramStays
  <1> QED
    BY <1>4, <1>6, <1>7, <1>8, <1>10

LEMMA CorrectRowKeeps ==
  ASSUME MigrationAssumption, MigrationInv, NEW row \in target, CorrectRow(row)
  PROVE  MigrationInv'
  <1> USE DEF MigrationInv
  <1> DEFINE revised == RevisedRow(row, 2, "model")
             new == [r \in target |-> IF r = row THEN revised ELSE r]
  <1>1. /\ target' = (target \ {row}) \cup {revised} /\ served
        /\ UNCHANGED <<move, local, started, upgraded, checkpoint, records, served, program, backups, finished, direct>>
    BY DEF CorrectRow
  <1>2. row \in UsageRows /\ SoundRow(row)
    BY DEF MoveTypes, MovedInv
  <1>3. /\ revised \in UsageRows /\ revised.id = row.id /\ SoundRow(revised)
        /\ revised.origin = "historical_estimate" => row.origin = "historical_estimate"
        /\ revised.origin # "measured"
    <2>1. row.origin \in {"model", "historical_estimate"}
      BY <1>2, RowParts DEF CorrectRow
    <2>2. revised = [row EXCEPT !.cost = 2, !.origin = "model"]
      BY <2>1 DEF RevisedRow
    <2>3. 2 \in Nat \cup {None}
      OBVIOUS
    <2>4. [row EXCEPT !.cost = 2, !.origin = "model"].origin = "model"
      BY <1>2, <2>1, <2>3, RowChange
    <2>5. revised.origin = "model"
      BY <2>2, <2>4
    <2> QED
      BY <1>2, <2>3, <2>5, RevisedIsSound
  <1> HIDE DEF revised
  <1>4. new \in [target -> UsageRows] /\ \A r \in target : new[r] = IF r = row THEN revised ELSE r
    BY <1>3 DEF MoveTypes
  <1>5. \A r \in target : /\ new[r].id = r.id /\ SoundRow(new[r])
                          /\ new[r].origin = "historical_estimate" => \E f \in BackupFiles : r.id \in backups[f]
    BY <1>3, <1>4 DEF MovedInv, BackfilledIsKept
  <1> HIDE DEF new
  <1>6. target' = {new[r] : r \in target}
    BY <1>1, <1>4
  <1>7. MovedInv' /\ RowIds(target') = RowIds(target)
    BY <1>1, <1>4, <1>5, <1>6, MovedByRevision
  <1>8. MoveTypes'
    BY <1>1, <1>3 DEF MoveTypes
  <1>9. LocalInv' /\ FinishedInv'
    BY <1>1, <1>7, LocalFrame, FinishedFrame
  <1>10. program # None /\ program \in Fills => FALSE
    BY <1>1 DEF ProgramInv
  <1>12. Unspoiled
    BY <1>1, <1>3 DEF Unspoiled
  <1>11. ProgramInv'
    BY <1>1, <1>7, <1>10, <1>12, ProgramStays
  <1> QED
    BY <1>7, <1>8, <1>9, <1>11

LEMMA SaveRecordKeeps ==
  ASSUME MigrationAssumption, MigrationInv, NEW r \in BrainRecords, SaveRecord(r)
  PROVE  MigrationInv' /\ ~(program # None /\ program \in Fills)
  <1> USE DEF MigrationInv
  <1>1. /\ records' = [records EXCEPT ![r] = @ + 10] /\ served
        /\ UNCHANGED <<move, local, started, upgraded, target, checkpoint, served, program, backups, finished, direct>>
    BY DEF SaveRecord
  <1>2. program # None /\ program \in Fills => FALSE
    BY <1>1 DEF ProgramInv
  <1>3. records' \in [BrainRecords -> Nat]
    BY <1>1 DEF MoveTypes
  <1>4. MoveTypes'
    BY <1>1, <1>3 DEF MoveTypes
  <1>5. LocalInv' /\ MovedInv' /\ FinishedInv'
    BY <1>1, LocalFrame, MovedFrame, FinishedFrame
  <1>6. ProgramInv'
    BY <1>1, <1>2, ProgramStays DEF Unspoiled
  <1> QED
    BY <1>2, <1>4, <1>5, <1>6

LEMMA StartRecordsKeeps ==
  ASSUME MigrationAssumption, MigrationInv, StartRecords
  PROVE  MigrationInv'
  <1> USE DEF MigrationInv
  <1> DEFINE p == [kind |-> "brain", todo |-> BrainRecords, staged |-> records]
  <1>1. p \in Fills /\ p.todo = BrainRecords /\ p.staged = records
    BY DEF MoveTypes, Fills
  <1>2. /\ program' = p /\ ~served
        /\ UNCHANGED <<move, local, started, upgraded, target, checkpoint, records, served, backups, finished, direct>>
    BY DEF StartRecords
  <1> HIDE DEF p
  <1>3. MoveTypes'
    BY <1>1, <1>2 DEF MoveTypes
  <1>4. LocalInv' /\ MovedInv' /\ FinishedInv'
    BY <1>2, LocalFrame, MovedFrame, FinishedFrame
  <1>5. ProgramInv'
    BY <1>1, <1>2, KindsDiffer DEF ProgramInv
  <1> QED
    BY <1>3, <1>4, <1>5

LEMMA InsertRecordKeeps ==
  ASSUME MigrationAssumption, MigrationInv, NEW r \in BrainRecords, InsertRecord(r)
  PROVE  MigrationInv'
  <1> USE DEF MigrationInv
  <1> DEFINE st == InsertedRecord(program.staged, r)
  <1>1. program # None /\ program \in Fills /\ r \in program.todo
    BY ProgramKinds DEF InsertRecord
  <1>2. /\ program' = [program EXCEPT !.todo = @ \ {r}, !.staged = st]
        /\ UNCHANGED <<move, local, started, upgraded, target, checkpoint, records, served, backups, finished, direct>>
    BY DEF InsertRecord
  <1>3. program.staged \in [BrainRecords -> Nat]
    BY <1>1 DEF Fills
  <1>4. st \in [BrainRecords -> Nat]
    BY <1>3 DEF InsertedRecord
  <1>5. \A q \in BrainRecords : /\ st[q] = program.staged[q] \/ (q = r /\ program.staged[q] = 0)
                                /\ st[r] # 0
    BY <1>3 DEF InsertedRecord
  <1>6. records \in [BrainRecords -> Nat]
    BY DEF MoveTypes
  <1> HIDE DEF st
  <1>7. program' \in Fills /\ program'.todo = program.todo \ {r} /\ program'.staged = st
    <2>1. PICK old, s : old = program /\ s = st
      OBVIOUS
    <2> DEFINE q == [old EXCEPT !.todo = @ \ {r}, !.staged = s]
               q1 == [old EXCEPT !.todo = old.todo \ {r}]
               q2 == [q1 EXCEPT !.staged = s]
    <2>2. program' = q
      BY <1>2, <2>1
    <2>3. q = q2
      OBVIOUS
    <2>4. q1 \in Fills /\ q1.todo = old.todo \ {r}
      BY <1>1, <2>1 DEF Fills
    <2> HIDE DEF q1
    <2>5. q2 \in Fills /\ q2.todo = old.todo \ {r} /\ q2.staged = s
      BY <1>4, <2>1, <2>4 DEF Fills
    <2> HIDE DEF q2, q
    <2> QED
      BY <2>1, <2>2, <2>3, <2>5
  <1>8. MoveTypes'
    BY <1>2, <1>7 DEF MoveTypes
  <1>9. LocalInv' /\ MovedInv' /\ FinishedInv'
    BY <1>2, LocalFrame, MovedFrame, FinishedFrame
  <1>10. ProgramInv'
    <2>1. /\ ~served
          /\ \A q \in BrainRecords : /\ records[q] # 0 => program.staged[q] = records[q]
                                     /\ q \notin program.todo => program.staged[q] # 0
      BY <1>1 DEF ProgramInv
    <2>2. \A q \in BrainRecords : /\ records[q] # 0 => st[q] = records[q]
                                  /\ q \notin program.todo \ {r} => st[q] # 0
      BY <1>5, <2>1
    <2> QED
      BY <1>2, <1>7, <2>1, <2>2, KindsDiffer DEF ProgramInv
  <1> QED
    BY <1>8, <1>9, <1>10

LEMMA EndRecordsKeeps ==
  ASSUME MigrationAssumption, MigrationInv, EndRecords
  PROVE  /\ MigrationInv'
         /\ \A r \in BrainRecords : records'[r] # 0 /\ (records[r] # 0 => records'[r] = records[r])
  <1> USE DEF MigrationInv
  <1>1. program # None /\ program \in Fills /\ program.todo = {}
    BY ProgramKinds DEF EndRecords
  <1>2. /\ records' = program.staged /\ program' = None
        /\ UNCHANGED <<move, local, started, upgraded, target, checkpoint, served, backups, finished, direct>>
    BY DEF EndRecords
  <1>3. records' \in [BrainRecords -> Nat]
    BY <1>1, <1>2 DEF Fills
  <1>4. \A r \in BrainRecords : records'[r] # 0 /\ (records[r] # 0 => records'[r] = records[r])
    BY <1>1, <1>2 DEF ProgramInv
  <1>5. MoveTypes'
    BY <1>2, <1>3 DEF MoveTypes
  <1>6. LocalInv' /\ MovedInv' /\ FinishedInv' /\ ProgramInv'
    BY <1>2, LocalFrame, MovedFrame, FinishedFrame DEF ProgramInv
  <1> QED
    BY <1>4, <1>5, <1>6

LEMMA StartBackfillKeeps ==
  ASSUME MigrationAssumption, MigrationInv, NEW f \in BackupFiles, StartBackfill(f)
  PROVE  MigrationInv'
  <1> USE DEF MigrationInv
  <1> DEFINE candidates == {r.id : r \in {x \in target : x.cost = None}}
             p == [kind |-> "backfill", ids |-> candidates, file |-> f, backed |-> FALSE]
  <1>1. candidates \in SUBSET IdSet /\ \A id \in candidates : id[1] = "own"
    <2>1. \A r \in target : r.id \in IdSet /\ (r.cost = None => r.id[1] = "own")
      BY RowParts DEF MoveTypes, MovedInv, SoundRow
    <2> QED
      BY <2>1
  <1>2. /\ program' = p
        /\ UNCHANGED <<move, local, started, upgraded, target, checkpoint, records, served, backups, finished, direct>>
    BY DEF StartBackfill
  <1>7. candidates \subseteq RowIds(target) /\ \A r \in target : r.id \in candidates => r.origin # "measured"
    <2>1. \A r \in target : r.cost = None => r.origin # "measured"
      BY DEF MovedInv, SoundRow
    <2> QED
      BY <2>1 DEF MovedInv, RowIds
  <1> HIDE DEF candidates
  <1>3. p \in Backfills /\ p.ids = candidates /\ ~p.backed
    BY <1>1 DEF Backfills
  <1> HIDE DEF p
  <1>4. MoveTypes'
    BY <1>2, <1>3 DEF MoveTypes
  <1>5. LocalInv' /\ MovedInv' /\ FinishedInv'
    BY <1>2, LocalFrame, MovedFrame, FinishedFrame
  <1>6. ProgramInv'
    BY <1>1, <1>2, <1>3, <1>7, KindsDiffer DEF ProgramInv, RowIds
  <1> QED
    BY <1>4, <1>5, <1>6

LEMMA WriteBackupKeeps ==
  ASSUME MigrationAssumption, MigrationInv, WriteBackup
  PROVE  MigrationInv'
  <1> USE DEF MigrationInv
  <1>1. program # None /\ program \in Backfills
    BY ProgramKinds DEF WriteBackup
  <1>2. UNCHANGED <<move, local, started, upgraded, target, checkpoint, records, served, finished, direct>>
    BY DEF WriteBackup
  <1>3. LocalInv' /\ FinishedInv'
    BY <1>2, LocalFrame, FinishedFrame
  <1>4. program.file \in BackupFiles /\ program.ids \in SUBSET IdSet /\ \A id \in program.ids : id[1] = "own"
    BY <1>1 DEF Backfills, ProgramInv
  <1>5. CASE backups[program.file] = {}
    <2>1. /\ backups' = [backups EXCEPT ![program.file] = program.ids]
          /\ program' = [program EXCEPT !.backed = TRUE]
      BY <1>5 DEF WriteBackup, MayCreate
    <2>2. program' \in Backfills /\ program'.ids = program.ids /\ program'.file = program.file
      <3>1. PICK old : old = program
        OBVIOUS
      <3>2. old \in [kind : {"backfill"}, ids : SUBSET IdSet, file : BackupFiles, backed : BOOLEAN]
        BY <1>1, <3>1 DEF Backfills
      <3>3. program' = [old EXCEPT !.backed = TRUE]
        BY <2>1, <3>1
      <3>4. /\ program' \in [kind : {"backfill"}, ids : SUBSET IdSet, file : BackupFiles, backed : BOOLEAN]
            /\ program'.ids = old.ids /\ program'.file = old.file
        BY <3>2, <3>3, BackfillGoesOn
      <3> QED
        BY <3>1, <3>4 DEF Backfills
    <2>3. /\ backups' \in [BackupFiles -> SUBSET IdSet] /\ backups'[program.file] = program.ids
          /\ \A f \in BackupFiles : f # program.file => backups'[f] = backups[f]
      BY <1>4, <2>1 DEF MoveTypes
    <2>4. \A f \in BackupFiles : backups[f] \subseteq backups'[f] /\ \A id \in backups'[f] : id[1] = "own"
      BY <1>4, <1>5, <2>3 DEF MovedInv
    <2>5. MoveTypes'
      BY <1>2, <2>2, <2>3 DEF MoveTypes
    <2>6. MovedInv'
      BY <1>2, <2>4 DEF MovedInv, BackfilledIsKept
    <2>7. ProgramInv'
      <3>1. /\ program.ids \subseteq RowIds(target)
            /\ \A r \in target : r.id \in program.ids => r.origin # "measured"
        BY <1>1 DEF ProgramInv
      <3>2. target' = target /\ RowIds(target') = RowIds(target)
        BY <1>2
      <3> QED
        BY <1>4, <2>2, <2>3, <3>1, <3>2, KindsDiffer DEF ProgramInv
    <2> QED
      BY <1>3, <2>5, <2>6, <2>7
  <1>6. CASE backups[program.file] # {}
    <2>1. program' = None /\ backups' = backups
      BY <1>6 DEF WriteBackup, MayCreate
    <2>2. MoveTypes'
      BY <1>2, <2>1 DEF MoveTypes
    <2>3. MovedInv'
      BY <1>2, <2>1, MovedFrame
    <2> QED
      BY <1>3, <2>1, <2>2, <2>3 DEF ProgramInv
  <1> QED
    BY <1>5, <1>6

LEMMA EndBackfillKeeps ==
  ASSUME MigrationAssumption, MigrationInv, EndBackfill
  PROVE  MigrationInv'
  <1> USE DEF MigrationInv
  <1> DEFINE New(r) == IF r.id \in program.ids THEN [r EXCEPT !.cost = 3, !.origin = "historical_estimate"] ELSE r
             new == [r \in target |-> New(r)]
  <1>1. program # None /\ program \in Backfills
    BY ProgramKinds DEF EndBackfill
  <1>2. /\ target' = {New(r) : r \in target} /\ program' = None
        /\ UNCHANGED <<move, local, started, upgraded, checkpoint, records, served, backups, finished, direct>>
    BY DEF EndBackfill
  <1>3. /\ program.file \in BackupFiles /\ \A id \in program.ids : id[1] = "own"
        /\ program.ids # {} => backups[program.file] = program.ids
    BY <1>1 DEF EndBackfill, Backfills, ProgramInv
  <1>4. \A r \in target : /\ New(r) \in UsageRows /\ New(r).id = r.id /\ SoundRow(New(r))
                          /\ New(r).origin = "historical_estimate" =>
                               r.id \in program.ids \/ r.origin = "historical_estimate"
    <2> SUFFICES ASSUME NEW r \in target
                 PROVE  /\ New(r) \in UsageRows /\ New(r).id = r.id /\ SoundRow(New(r))
                        /\ New(r).origin = "historical_estimate" =>
                             r.id \in program.ids \/ r.origin = "historical_estimate"
      OBVIOUS
    <2>1. r \in UsageRows /\ SoundRow(r)
      BY DEF MoveTypes, MovedInv
    <2>2. CASE r.id \in program.ids
      <3>1. r.origin # "measured"
        BY <1>1, <2>2 DEF ProgramInv
      <3> DEFINE q == [r EXCEPT !.cost = 3, !.origin = "historical_estimate"]
      <3>2. New(r) = q
        BY <2>2
      <3>3. 3 \in Nat \cup {None}
        OBVIOUS
      <3>4. q \in UsageRows /\ q.id = r.id /\ SoundRow(q)
        <4>1. q = [[r EXCEPT !.cost = 3] EXCEPT !.origin = "historical_estimate"]
          OBVIOUS
        <4>2. r = [id |-> r.id, cost |-> r.cost, origin |-> r.origin]
          BY <2>1 DEF UsageRows
        <4>3. [r EXCEPT !.cost = 3] = [id |-> r.id, cost |-> 3, origin |-> r.origin]
          BY <4>2
        <4>4. [[id |-> r.id, cost |-> 3, origin |-> r.origin] EXCEPT !.origin = "historical_estimate"]
                = [id |-> r.id, cost |-> 3, origin |-> "historical_estimate"]
          OBVIOUS
        <4>5. q = [id |-> r.id, cost |-> 3, origin |-> "historical_estimate"]
          BY <4>1, <4>3, <4>4, Zenon
        <4> HIDE DEF q
        <4> QED
          BY <2>1, <3>1, <3>3, <4>5, RewrittenIsSound
      <3> HIDE DEF New, q
      <3> QED
        BY <2>2, <3>2, <3>4
    <2>3. CASE r.id \notin program.ids
      BY <2>1, <2>3
    <2> QED
      BY <2>2, <2>3
  <1> HIDE DEF New
  <1>5. MovedInv' /\ RowIds(target') = RowIds(target)
    <2>1. new \in [target -> UsageRows] /\ target' = {new[r] : r \in target}
      BY <1>2, <1>4
    <2>2. \A r \in target : /\ new[r].id = r.id /\ SoundRow(new[r])
                            /\ new[r].origin = "historical_estimate" => \E f \in BackupFiles : r.id \in backups[f]
      BY <1>3, <1>4 DEF MovedInv, BackfilledIsKept
    <2> HIDE DEF new
    <2> QED
      BY <1>2, <2>1, <2>2, MovedByRevision
  <1>6. MoveTypes'
    BY <1>2, <1>4 DEF MoveTypes
  <1>7. LocalInv' /\ FinishedInv' /\ ProgramInv'
    BY <1>2, <1>5, LocalFrame, FinishedFrame DEF ProgramInv
  <1> QED
    BY <1>5, <1>6, <1>7

LEMMA InterruptKeeps ==
  ASSUME MigrationAssumption, MigrationInv, Interrupt
  PROVE  MigrationInv'
  <1> USE DEF MigrationInv
  <1>1. /\ program' = None
        /\ UNCHANGED <<move, local, started, upgraded, target, checkpoint, records, served, backups, finished, direct>>
    BY DEF Interrupt
  <1>2. MoveTypes'
    BY <1>1 DEF MoveTypes
  <1>3. LocalInv' /\ MovedInv' /\ FinishedInv' /\ ProgramInv'
    BY <1>1, LocalFrame, MovedFrame, FinishedFrame DEF ProgramInv
  <1> QED
    BY <1>2, <1>3

-----------------------------------------------------------------------------
(* What holds in every state, and what no step does.                       *)

LEMMA MigrationKeeps ==
  ASSUME MigrationAssumption, MigrationInv, [MigrationNext]_moveVars
  PROVE  MigrationInv'
  <1>1. CASE UNCHANGED moveVars
    <2>1. UNCHANGED <<move, local, started, upgraded, target, checkpoint, records, served, program, backups, finished, direct>>
      BY <1>1 DEF moveVars
    <2>2. MoveTypes' /\ LocalInv' /\ MovedInv' /\ FinishedInv'
      BY <2>1, LocalFrame, MovedFrame, FinishedFrame DEF MigrationInv, MoveTypes
    <2>3. ProgramInv'
      BY <2>1, ProgramStays DEF MigrationInv, ProgramInv, Unspoiled
    <2> QED
      BY <2>2, <2>3 DEF MigrationInv
  <1>2. ASSUME NEW s \in Sources, StartLocal(s) \/ StartImport(s) PROVE MigrationInv'
    BY <1>2, StartLocalKeeps, StartImportKeeps
  <1>3. CASE UpgradeRow \/ EndUpgrade \/ ImportRow \/ ImportAliases \/ EndImport
    BY <1>3, UpgradeRowKeeps, EndUpgradeKeeps, ImportRowKeeps, ImportAliasesKeeps, EndImportKeeps
  <1>4. CASE BeginServing \/ StopServing
    BY <1>4, ServingKeeps
  <1>5. ASSUME NEW n \in move.fresh, AddRow(n) PROVE MigrationInv'
    BY <1>5, AddRowKeeps
  <1>6. ASSUME NEW row \in target, CorrectRow(row) PROVE MigrationInv'
    BY <1>6, CorrectRowKeeps
  <1>7. ASSUME NEW r \in BrainRecords, SaveRecord(r) \/ InsertRecord(r) PROVE MigrationInv'
    BY <1>7, SaveRecordKeeps, InsertRecordKeeps
  <1>8. CASE StartRecords \/ EndRecords
    BY <1>8, StartRecordsKeeps, EndRecordsKeeps
  <1>9. ASSUME NEW f \in BackupFiles, StartBackfill(f) PROVE MigrationInv'
    BY <1>9, StartBackfillKeeps
  <1>10. CASE WriteBackup \/ EndBackfill \/ Interrupt
    BY <1>10, WriteBackupKeeps, EndBackfillKeeps, InterruptKeeps
  <1> QED
    BY <1>1, <1>2, <1>3, <1>4, <1>5, <1>6, <1>7, <1>8, <1>9, <1>10 DEF MigrationNext

LEMMA CheckpointsStay ==
  ASSUME MigrationAssumption, MigrationInv, [MigrationNext]_moveVars
  PROVE  checkpoint' >= checkpoint
  <1>1. checkpoint \in Nat
    BY DEF MigrationInv, MoveTypes
  <1>2. CASE EndImport
    BY <1>2, EndImportKeeps
  <1>3. ASSUME NEW n \in move.fresh, AddRow(n) PROVE checkpoint' >= checkpoint
    BY <1>3, AddRowKeeps
  <1>5. CASE ImportRow
    BY <1>5, ImportRowKeeps
  <1>4. CASE ~EndImport /\ ~ImportRow /\ ~(\E n \in move.fresh : AddRow(n))
    <2>1. checkpoint' = checkpoint
      BY <1>4 DEF MigrationNext, moveVars, StartLocal, StartImport, UpgradeRow, EndUpgrade, ImportAliases,
                  BeginServing, StopServing, CorrectRow, SaveRecord, InsertRecord, StartRecords, EndRecords,
                  StartBackfill, WriteBackup, EndBackfill, Interrupt
    <2> QED
      BY <1>1, <2>1
  <1> QED
    BY <1>2, <1>3, <1>4, <1>5

LEMMA RecordsAreKept ==
  ASSUME MigrationAssumption, MigrationInv, [MigrationNext]_moveVars,
         program # None, program.kind = "brain", records' # records
  PROVE  \A r \in BrainRecords : records'[r] # 0 /\ (records[r] # 0 => records'[r] = records[r])
  <1>1. program \in Fills
    BY ProgramKinds DEF MigrationInv
  <1>2. ~(\E r \in BrainRecords : SaveRecord(r))
    BY <1>1, SaveRecordKeeps
  <1>3. EndRecords
    BY <1>2 DEF MigrationNext, moveVars, StartLocal, StartImport, UpgradeRow, EndUpgrade, ImportRow, ImportAliases,
                EndImport, BeginServing, StopServing, AddRow, CorrectRow, InsertRecord, StartRecords,
                StartBackfill, WriteBackup, EndBackfill, Interrupt
  <1> QED
    BY <1>3, EndRecordsKeeps

LEMMA MovedIsRight ==
  ASSUME MigrationAssumption, MigrationInv
  PROVE  MigrationTypeOK /\ ImportedOnce /\ BackfilledIsKept
  <1> USE DEF MigrationInv
  <1>1. MigrationTypeOK
    BY DEF MigrationTypeOK, MoveTypes, MovedInv
  <1>2. ASSUME NEW f \in finished
        PROVE  /\ f.source \in Sources /\ f.ids \subseteq RowIds(target)
               /\ f.ids = UpgradedIds(f.source) \/ (f.source \in direct /\ f.ids = DirectIds(f.source))
    BY DEF MoveTypes, FinishedInv, Imported
  <1>3. ASSUME NEW f \in finished, f.source \notin direct, NEW n \in LegacyRows(f.source),
               OlderRow(f.source, n).id \in RowIds(target)
        PROVE  FALSE
    <2>1. f.source \in Sources /\ n \in Nat
      BY <1>2, PlanParts
    <2>2. OlderRow(f.source, n).id[1] = f.source
      BY <2>1, OlderIsSound
    <2>3. f.source \in direct \cup {"legacy-sqlite-local", "own"}
      BY <1>3, <2>2 DEF MovedInv, RowIds
    <2> QED
      BY <1>3, <2>1, <2>3 DEF MigrationAssumption
  <1>4. ASSUME NEW f \in finished, NEW g \in finished, f.source # g.source, NEW id \in f.ids \cap g.ids
        PROVE  id[1] \in {"legacy-sqlite-local", "own"}
    BY <1>2, <1>4, SourceIds
  <1>5. ImportedOnce
    BY <1>2, <1>3, <1>4 DEF ImportedOnce, MovedInv
  <1> QED
    BY <1>1, <1>5 DEF MovedInv

\* In every state the tables of a source hold its rows of today and, after the upgrade, its
\* older ones; PostgreSQL holds each row once, with the namespaces of what was imported; an
\* import that runs has its rows either there or still before it; and a backup that a backfill
\* relies on is there.
THEOREM MigrationInvariant == MigrationSpec => []MigrationInv
  <1>1. MigrationInit => MigrationInv
    BY MigrationStarts, MigrationHypothesis
  <1>2. MigrationInv /\ [MigrationNext]_moveVars => MigrationInv'
    BY MigrationKeeps, MigrationHypothesis
  <1> QED
    BY <1>1, <1>2, PTL DEF MigrationSpec

\* Migration: an import that ended has every row of its source in PostgreSQL, once and under
\* its name; the original of a backfilled cost is in a backup; no import takes a checkpoint
\* back; and the import of Brain changes no record that is there and brings all of them.
THEOREM MovesAreSafe == MigrationSpec => MovesKeep
  <1>1. MigrationInv => ImportedOnce /\ BackfilledIsKept
    BY MovedIsRight, MigrationHypothesis
  <1>2. MigrationInv /\ [MigrationNext]_moveVars => [checkpoint' >= checkpoint]_moveVars
    BY CheckpointsStay, MigrationHypothesis
  <1>3. MigrationInv /\ [MigrationNext]_moveVars =>
          [program # None /\ program.kind = "brain" /\ records' # records =>
             \A r \in BrainRecords : records'[r] # 0 /\ (records[r] # 0 => records'[r] = records[r])]_moveVars
    BY RecordsAreKept, MigrationHypothesis
  <1> QED
    BY <1>1, <1>2, <1>3, MigrationInvariant, PTL DEF MovesKeep, CheckpointsAdvance, RecordsStay, MigrationSpec
=============================================================================
