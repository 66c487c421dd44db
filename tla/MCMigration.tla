----------------------------- MODULE MCMigration -----------------------------
(* A small instance of Migration for TLC: an older SQLite history that is  *)
(* imported, taken back into service and imported again.                   *)
EXTENDS Migration, TLC

CONSTANTS desk

NoneUsed == [runs |-> 3, stops |-> 0, crashes |-> 0, usage |-> 0, corrections |-> 0, saves |-> 0]
Preserved ==
  {[legacy |-> desk :> {1}, modern |-> desk :> {}, unknown |-> {}, sampled |-> {}, fresh |-> {},
    checkpoint |-> desk :> 0, budget |-> NoneUsed]}
=============================================================================
