------------------------------ MODULE Migration ------------------------------
(***************************************************************************)
(* The programs that move or rewrite what is stored: the upgrade of an     *)
(* older SQLite history at startup (server/src/db.ts), its import into     *)
(* PostgreSQL (server/src/persistence/migrate-history.ts), the import of   *)
(* Brain (server/src/brain/migrate.ts) and the backfill of costs           *)
(* (scripts/backfill-usage-costs.mjs).  Each may be interrupted between    *)
(* two statements and run again, and the history programs do not know      *)
(* whether a server works on the same database.                            *)
(*                                                                         *)
(* Abstractions: rows of usage stand for events and archived counters too, *)
(* which are inserted in the same way; one counter has a checkpoint; a row *)
(* is its identifier and its cost.  Bounds: runs, crashes, the rows,       *)
(* corrections and checkpoints of a server.                                *)
(***************************************************************************)
EXTENDS Integers, FiniteSets, FiniteSetsExt, Absence

CONSTANTS
  Sources,        \* SQLite files
  BrainRecords,   \* Brain records
  BackupFiles,
  MovePlans       \* records: the older and the present rows of each source, checkpoints, brain, and budgets

\* A row of usage in one of the databases.
Namespaces == Sources \cup {"legacy-sqlite-local", "own"}
UsageRows == [id : Namespaces \X Nat, cost : Nat \cup {None}, origin : {"measured", "model", "historical_estimate"}]

\* The older rows of an upgrade and the rows of today have namespaces of their own.
MigrationAssumption ==
  /\ "legacy-sqlite-local" \notin Sources /\ "own" \notin Sources
  /\ \A p \in MovePlans :
       /\ \A s \in Sources : p.legacy[s] \subseteq Nat /\ p.modern[s] \subseteq Nat /\ p.checkpoint[s] \in Nat
       /\ p.fresh \subseteq Nat
  /\ None \notin Nat
ASSUME MigrationHypothesis == MigrationAssumption

VARIABLES
  move,           \* the element of MovePlans
  local,          \* local[s]: the rows in the tables of today's release
  started,        \* the sources that have these tables: today's release has started on them
  upgraded,       \* the sources whose upgrade is complete
  target,         \* the usage in PostgreSQL: sets of [id, cost, origin]
  checkpoint,     \* the time of the checkpoint in PostgreSQL
  records,        \* records[r]: 0 or the version in PostgreSQL
  served,         \* a server works on PostgreSQL
  program,        \* None or the program that runs
  backups,        \* backups[f]: the ids whose original the file holds, none if there is no file
  finished,       \* the imports that ended: [source, ids]
  direct,         \* sources that were imported before they were upgraded
  moveBudget

moveVars == <<move, local, started, upgraded, target, checkpoint, records, served, program, backups, finished, direct, moveBudget>>

MoveSpend(what) == moveBudget[what] > 0 /\ moveBudget' = [moveBudget EXCEPT ![what] = @ - 1]

LegacyRows(s) == move.legacy[s]
ModernRows(s) == move.modern[s]
RowIds(rows) == {r.id : r \in rows}

\* Mutant: the numbers of the older rows alone.
NamedByNumber(namespace, n) == <<"row", n>>

\* Row identifiers are namespaced.
Namespaced(namespace, n) == <<namespace, n>>

\* An older row, whose cost is known; a present one, whose cost may be unknown.
OlderRow(namespace, n) == [id |-> Namespaced(namespace, n), cost |-> 1, origin |-> "measured"]
PresentRow(n) ==
  [id |-> <<"own", n>>,
   cost |-> IF n \in move.unknown \ move.sampled THEN None ELSE 1,
   origin |-> IF n \in move.sampled THEN "measured" ELSE "model"]

\* The identity of a sample of the counter holds its time; other rows bring no checkpoint.
SampleTime(row) == IF row.id[1] = "own" /\ row.id[2] \in move.sampled THEN row.id[2] ELSE 0

MigrationInit ==
  /\ move \in MovePlans /\ local = [s \in Sources |-> {PresentRow(n) : n \in ModernRows(s)}]
  /\ started = {s \in Sources : ModernRows(s) # {}}
  /\ upgraded = {s \in Sources : LegacyRows(s) = {}}
  /\ target = {} /\ checkpoint = 0 /\ records = [r \in BrainRecords |-> 0]
  /\ served = FALSE /\ program = None /\ backups = [f \in BackupFiles |-> {}]
  /\ finished = {} /\ direct = {} /\ moveBudget = move.budget

-----------------------------------------------------------------------------
(* Startup on SQLite: upgradeLegacySqlite.                                 *)

\* ON CONFLICT DO NOTHING
WithRow(rows, row) == IF row.id \in RowIds(rows) THEN rows ELSE rows \cup {row}

StartLocal(s) ==
  /\ program = None /\ MoveSpend("runs")
  /\ started' = started \cup {s}
  /\ program' = IF s \in upgraded THEN None ELSE [kind |-> "upgrade", source |-> s, todo |-> LegacyRows(s)]
  /\ UNCHANGED <<move, local, upgraded, target, checkpoint, records, served, backups, finished, direct>>

UpgradeRow ==
  /\ program # None /\ program.kind = "upgrade" /\ program.todo # {}
  /\ LET n == Min(program.todo)
     IN /\ local' = [local EXCEPT ![program.source] = WithRow(@, OlderRow("legacy-sqlite-local", n))]
        /\ program' = [program EXCEPT !.todo = @ \ {n}]
  /\ UNCHANGED <<move, started, upgraded, target, checkpoint, records, served, backups, finished, direct, moveBudget>>

EndUpgrade ==
  /\ program # None /\ program.kind = "upgrade" /\ program.todo = {}
  /\ upgraded' = upgraded \cup {program.source} /\ program' = None
  /\ UNCHANGED <<move, local, started, target, checkpoint, records, served, backups, finished, direct, moveBudget>>

-----------------------------------------------------------------------------
(* The import into PostgreSQL: migrateSqliteHistory.                       *)

\* Mutant: a file whose upgrade was interrupted is imported as it is.
MayImportAny(s) == TRUE

MayImport(s) == s \in started => s \in upgraded

\* The rows of the source, read in one transaction, and its checkpoint.
StartImport(s) ==
  /\ program = None /\ MoveSpend("runs") /\ MayImport(s)
  /\ LET rows == IF s \in started THEN local[s] ELSE {OlderRow(s, n) : n \in LegacyRows(s)}
     IN program' = [kind |-> "history", source |-> s, at |-> "row", row |-> None, rows |-> rows, ids |-> RowIds(rows),
                 checkpoint |-> IF s \in started THEN move.checkpoint[s] ELSE 0]
  /\ direct' = IF s \in started THEN direct ELSE direct \cup {s}
  /\ UNCHANGED <<move, local, started, upgraded, target, checkpoint, records, served, backups, finished>>

\* Mutant: the imported checkpoint replaces the stored one.
ReplacedCheckpoint(imported) == IF imported = 0 THEN checkpoint ELSE imported

AdvancedTo(imported) == Max({checkpoint, imported})

\* recordUsage: a row that is inserted brings its checkpoint in the same transaction.
RecordUsage(row) ==
  /\ target' = WithRow(target, row)
  /\ checkpoint' = IF row.id \in RowIds(target) THEN checkpoint ELSE AdvancedTo(SampleTime(row))

ImportRow ==
  /\ program # None /\ program.kind = "history" /\ program.at = "row" /\ program.rows # {}
  /\ LET row == CHOOSE r \in program.rows : TRUE
     IN /\ RecordUsage(row)
        /\ program' = [program EXCEPT !.rows = @ \ {row}, !.row = row,
                                      !.at = IF row.origin = "model" THEN "aliases" ELSE "row"]
  /\ UNCHANGED <<move, local, started, upgraded, records, served, backups, finished, direct, moveBudget>>

RevisedRow(stored, cost, origin) ==
  IF stored.cost = None \/ stored.origin \in {"model", "historical_estimate"}
  THEN [stored EXCEPT !.cost = cost, !.origin = origin] ELSE stored

\* recordUsageAliases: the measurements of the imported row complete or revise the stored one.
ImportAliases ==
  /\ program # None /\ program.kind = "history" /\ program.at = "aliases"
  /\ target' = {IF r.id = program.row.id THEN RevisedRow(r, program.row.cost, program.row.origin) ELSE r : r \in target}
  /\ program' = [program EXCEPT !.at = "row"]
  /\ UNCHANGED <<move, local, started, upgraded, checkpoint, records, served, backups, finished, direct, moveBudget>>

\* The checkpoints follow the rows.
EndImport ==
  /\ program # None /\ program.kind = "history" /\ program.at = "row" /\ program.rows = {}
  /\ checkpoint' = AdvancedTo(program.checkpoint)
  /\ finished' = finished \cup {[source |-> program.source, ids |-> program.ids]} /\ program' = None
  /\ UNCHANGED <<move, local, started, upgraded, target, records, served, backups, direct, moveBudget>>

-----------------------------------------------------------------------------
(* A server on PostgreSQL, which holds the locks of Brain.                 *)

BeginServing ==
  /\ ~served /\ (program # None => program.kind # "brain") /\ served' = TRUE
  /\ UNCHANGED <<move, local, started, upgraded, target, checkpoint, records, program, backups, finished, direct, moveBudget>>
StopServing ==
  /\ served /\ MoveSpend("stops") /\ served' = FALSE
  /\ UNCHANGED <<move, local, started, upgraded, target, checkpoint, records, program, backups, finished, direct>>

AddRow(n) ==
  /\ served /\ MoveSpend("usage")
  /\ RecordUsage(IF n \in move.sampled THEN PresentRow(n)
                 ELSE [id |-> <<"own", n>>, cost |-> None, origin |-> "model"])
  /\ UNCHANGED <<move, local, started, upgraded, records, served, program, backups, finished, direct>>

\* A row that a backfill has selected for update is locked.
LockedRows == IF program # None /\ program.kind = "backfill" THEN program.ids ELSE {}

CorrectRow(row) ==
  /\ served /\ MoveSpend("corrections") /\ row.id \notin LockedRows /\ row.origin # "measured"
  /\ target' = (target \ {row}) \cup {RevisedRow(row, 2, "model")}
  /\ UNCHANGED <<move, local, started, upgraded, checkpoint, records, served, program, backups, finished, direct>>

SaveRecord(r) ==
  /\ served /\ MoveSpend("saves") /\ records' = [records EXCEPT ![r] = @ + 10]
  /\ UNCHANGED <<move, local, started, upgraded, target, checkpoint, served, program, backups, finished, direct>>

-----------------------------------------------------------------------------
(* The import of Brain: migrateSqliteBrain.                                *)

StartRecords ==
  /\ program = None /\ MoveSpend("runs") /\ ~served
  /\ program' = [kind |-> "brain", todo |-> BrainRecords, staged |-> records]
  /\ UNCHANGED <<move, local, started, upgraded, target, checkpoint, records, served, backups, finished, direct>>

\* Mutant: the import writes over the record.
Overwritten(staged, r) == [staged EXCEPT ![r] = 1]

InsertedRecord(staged, r) == IF staged[r] # 0 THEN staged ELSE [staged EXCEPT ![r] = 1]

\* Inside the transaction.
InsertRecord(r) ==
  /\ program # None /\ program.kind = "brain" /\ r \in program.todo
  /\ program' = [program EXCEPT !.todo = @ \ {r}, !.staged = InsertedRecord(@, r)]
  /\ UNCHANGED <<move, local, started, upgraded, target, checkpoint, records, served, backups, finished, direct, moveBudget>>

EndRecords ==
  /\ program # None /\ program.kind = "brain" /\ program.todo = {}
  /\ records' = program.staged /\ program' = None
  /\ UNCHANGED <<move, local, started, upgraded, target, checkpoint, served, backups, finished, direct, moveBudget>>

-----------------------------------------------------------------------------
(* The backfill of costs.                                                  *)

StartBackfill(f) ==
  /\ program = None /\ MoveSpend("runs")
  /\ LET candidates == {r.id : r \in {x \in target : x.cost = None}}
     IN program' = [kind |-> "backfill", ids |-> candidates, file |-> f, backed |-> FALSE]
  /\ UNCHANGED <<move, local, started, upgraded, target, checkpoint, records, served, backups, finished, direct>>

\* Mutant: the backup may replace an older one.
MayReplace(f) == TRUE

\* Exclusive creation.
MayCreate(f) == backups[f] = {}

WriteBackup ==
  /\ program # None /\ program.kind = "backfill" /\ ~program.backed /\ program.ids # {}
  /\ IF MayCreate(program.file)
     THEN /\ backups' = [backups EXCEPT ![program.file] = program.ids]
          /\ program' = [program EXCEPT !.backed = TRUE]
     ELSE /\ program' = None /\ UNCHANGED backups
  /\ UNCHANGED <<move, local, started, upgraded, target, checkpoint, records, served, finished, direct, moveBudget>>

\* The updates commit together.
EndBackfill ==
  /\ program # None /\ program.kind = "backfill" /\ (program.backed \/ program.ids = {})
  /\ target' = {IF r.id \in program.ids THEN [r EXCEPT !.cost = 3, !.origin = "historical_estimate"] ELSE r : r \in target}
  /\ program' = None
  /\ UNCHANGED <<move, local, started, upgraded, checkpoint, records, served, backups, finished, direct, moveBudget>>

-----------------------------------------------------------------------------
\* A program is interrupted: its open transaction is rolled back.
Interrupt ==
  /\ program # None /\ MoveSpend("crashes") /\ program' = None
  /\ UNCHANGED <<move, local, started, upgraded, target, checkpoint, records, served, backups, finished, direct>>

MigrationNext ==
  \/ \E s \in Sources : StartLocal(s) \/ StartImport(s)
  \/ UpgradeRow \/ EndUpgrade \/ ImportRow \/ ImportAliases \/ EndImport
  \/ BeginServing \/ StopServing \/ \E n \in move.fresh : AddRow(n)
  \/ \E row \in target : CorrectRow(row)
  \/ \E r \in BrainRecords : SaveRecord(r) \/ InsertRecord(r)
  \/ StartRecords \/ EndRecords
  \/ \E f \in BackupFiles : StartBackfill(f)
  \/ WriteBackup \/ EndBackfill \/ Interrupt

MigrationSpec == MigrationInit /\ [][MigrationNext]_moveVars

-----------------------------------------------------------------------------
MigrationTypeOK ==
  /\ {f.source : f \in finished} \subseteq Sources /\ upgraded \subseteq Sources /\ checkpoint \in Nat
  /\ \A f \in BackupFiles : \A id \in backups[f] : id[1] = "own"

\* The names under which a source is imported: before its upgrade, and after.
DirectIds(s) == {Namespaced(s, n) : n \in LegacyRows(s)}
UpgradedIds(s) ==
  {Namespaced("legacy-sqlite-local", n) : n \in LegacyRows(s)} \cup {PresentRow(n).id : n \in ModernRows(s)}

\* What an import that ended found in its source is in PostgreSQL, each row under its name
\* once, however often upgrades and imports were interrupted and repeated: so a rerun that
\* finds the same adds nothing.  The names are those of the upgrade, or those of the source
\* if it was imported before its upgrade, and those of two sources are never the same.
\* (A name is no more than that: a source that is upgraded between two imports has rows
\* under both names, and the upgraded rows of two sources are named alike, so that the
\* second finds its names taken.)
ImportedOnce ==
  /\ \A r, q \in target : r.id = q.id => r = q
  /\ \A f \in finished :
       /\ f.ids \subseteq RowIds(target)
       /\ f.ids = UpgradedIds(f.source) \/ (f.source \in direct /\ f.ids = DirectIds(f.source))
       /\ f.source \notin direct => \A n \in LegacyRows(f.source) : OlderRow(f.source, n).id \notin RowIds(target)
  /\ \A f, g \in finished : f.source # g.source =>
       \A id \in f.ids \cap g.ids : id[1] \in {"legacy-sqlite-local", "own"}

\* POSTGRES.md: both imports can be rerun without duplicate rows.  No older row of a source
\* that was imported is in PostgreSQL under two names (of a single source, whose names no
\* other has taken).
RerunsAddNoDuplicate ==
  \A f \in finished : \A n \in LegacyRows(f.source) :
    ~({Namespaced(f.source, n), Namespaced("legacy-sqlite-local", n)} \subseteq RowIds(target))

\* The original of every cost that was backfilled is in a backup, whatever was interrupted,
\* repeated or corrected in between.
BackfilledIsKept ==
  \A r \in target : r.origin = "historical_estimate" => \E f \in BackupFiles : r.id \in backups[f]

\* No import takes a counter back behind what the server has accounted for since
\* (writeCheckpoint): the server would charge the difference again.
CheckpointsAdvance == [][checkpoint' >= checkpoint]_moveVars

\* The import of Brain changes no record that is there, and brings all records or none,
\* wherever it is interrupted.
RecordsStay ==
  [][program # None /\ program.kind = "brain" /\ records' # records =>
       \A r \in BrainRecords : records'[r] # 0 /\ (records[r] # 0 => records'[r] = records[r])]_moveVars

\* Migration: imports repeat without duplicates and take no checkpoint back, a backfill keeps
\* the originals, and no record of Brain is overwritten.
MovesKeep == [](ImportedOnce /\ BackfilledIsKept) /\ CheckpointsAdvance /\ RecordsStay
=============================================================================
