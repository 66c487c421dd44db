------------------------------ MODULE MCNotion ------------------------------
(* Two reads of a connected workspace whose access token expires once;     *)
(* nothing fails and the server runs.                                      *)
EXTENDS Notion

ReadsOnly == {[moves |-> 0, connects |-> 1, callbacks |-> 1, disconnects |-> 0, pages |-> 2,
               expiries |-> 1, failures |-> 0, failingWrites |-> 0, crashes |-> 0]}
=============================================================================
