-------------------------------- MODULE Setup --------------------------------
(***************************************************************************)
(* The installer of a workstation (fleet/setup.mjs): it merges its own     *)
(* part into the settings of the coding clients, which the clients, their  *)
(* users and a second installer edit meanwhile, and replaces the files one *)
(* after the other.  A file is its managed part and the settings of others *)
(* found in it; what a merge keeps is exactly those.                       *)
(***************************************************************************)
EXTENDS Integers, Sequences, FiniteSets, Absence

CONSTANTS
  Files,       \* the files of an installation, in the order they are written
  Edits,       \* settings others add
  Unmanaged,   \* the edits setup refuses to merge (OTel settings of the user)
  Options,     \* what the managed part says: port, dashboard, clients
  Installers,  \* calls of setup --apply
  MaxSettings, \* bound on the edits of others
  MaxKills     \* bound on the installers killed half-way

\* There is a file to write, and what an edit leaves in one is never nothing.
SetupAssumption ==
  /\ Len(Files) \in Nat \ {0} /\ DOMAIN Files = 1..Len(Files)
  /\ \A f \in [ours : Options \union {None}, others : SUBSET Edits] : f # None
ASSUME SetupHypothesis == SetupAssumption

VARIABLES
  settings, \* each file: its managed part and the settings of others
  calls,    \* each installer: its phase, the file it is at, plan and readings
  backups,  \* copies made before a replacement
  hasty,    \* edits made after the last look at their file and before its replacement
  killed    \* installers killed so far

settingsVars == <<settings, calls, backups, hasty, killed>>

Place == DOMAIN Files
NoCall == [phase |-> "idle", at |-> 1, option |-> None,
           planned |-> [i \in Place |-> None], previous |-> [i \in Place |-> None]]

\* A file that is absent, or empty, reads as the empty text.
Nothing == [ours |-> None, others |-> {}]

\* Nothing of its file is looked at or copied any more: the copy is made, or
\* there was no file to copy when it was compared for the last time.
Exposed(call) ==
  call.phase = "copied" \/ (call.phase = "checked" /\ call.previous[call.at] = Nothing)

\* The managed part is replaced, every other setting is preserved.
Merged(i, option) == [settings[i] EXCEPT !.ours = option]

Added == UNION {settings[i].others : i \in Place} \union UNION {b.others : b \in backups} \union hasty

(* Clients and users.                                                      *)

Edit ==
  /\ Cardinality(Added) < MaxSettings
  /\ \E i \in Place, e \in Edits \ Added :
       /\ settings' = [settings EXCEPT ![i].others = @ \union {e}]
       /\ hasty' = IF \E c \in Installers : Exposed(calls[c]) /\ calls[c].at = i
                   THEN hasty \union {e} ELSE hasty
  /\ UNCHANGED <<calls, backups, killed>>

(* One call of setup.                                                      *)

Begin(c) ==
  /\ calls[c].phase = "idle"
  /\ \E option \in Options : calls' = [calls EXCEPT ![c].phase = "planning", ![c].option = option]
  /\ UNCHANGED <<settings, backups, hasty, killed>>

\* The file is read and its next content worked out; nothing is written before
\* every file is planned, and settings that cannot be merged end the call.
Plan(c) ==
  LET i    == calls[c].at
      call == calls[c]
  IN  /\ call.phase = "planning"
      /\ calls' = [calls EXCEPT ![c] =
           IF settings[i].others \intersect Unmanaged # {} THEN [call EXCEPT !.phase = "refused"]
           ELSE [call EXCEPT
                          !.planned[i] = Merged(i, call.option),
                          !.at = IF i = Len(Files) THEN 1 ELSE i + 1,
                          !.phase = IF i = Len(Files) THEN "comparing" ELSE "planning"]]
      /\ UNCHANGED <<settings, backups, hasty, killed>>

\* The file is read again to see whether it differs from the plan.
Compare(c) ==
  LET i == calls[c].at
  IN  /\ calls[c].phase = "comparing"
      /\ calls' = [calls EXCEPT ![c] =
           [@ EXCEPT !.previous[i] = settings[i],
                     !.at = IF i = Len(Files) THEN 1 ELSE i + 1,
                     !.phase = IF i = Len(Files) THEN "checking" ELSE "comparing"]]
      /\ UNCHANGED <<settings, backups, hasty, killed>>

\* The next file that has to change, after file i; done when there is none.
After(call, i) ==
  IF i = Len(Files) THEN [call EXCEPT !.phase = "done"]
  ELSE [call EXCEPT !.phase = "checking", !.at = i + 1]

Unchanged(call) == call.planned[call.at] = call.previous[call.at]

Skip(c) ==
  /\ calls[c].phase = "checking" /\ Unchanged(calls[c])
  /\ calls' = [calls EXCEPT ![c] = After(@, @.at)]
  /\ UNCHANGED <<settings, backups, hasty, killed>>

\* Settings edited since the second reading end the call.
Check(c) ==
  LET i == calls[c].at
  IN  /\ calls[c].phase = "checking" /\ ~Unchanged(calls[c])
      /\ calls' = [calls EXCEPT ![c].phase = IF settings[i] = calls[c].previous[i] THEN "checked" ELSE "refused"]
      /\ UNCHANGED <<settings, backups, hasty, killed>>

\* Mutant: the copy is what was planned from, not what is there.
CopyOfThePlan(c) ==
  /\ calls[c].phase = "checked"
  /\ backups' = backups \union {calls[c].planned[calls[c].at]}
  /\ calls' = [calls EXCEPT ![c].phase = "copied"]
  /\ UNCHANGED <<settings, hasty, killed>>

\* What is there is copied, if there was something at the last reading.
Copy(c) ==
  /\ calls[c].phase = "checked"
  /\ backups' = IF calls[c].previous[calls[c].at] = Nothing THEN backups
                ELSE backups \union {settings[calls[c].at]}
  /\ calls' = [calls EXCEPT ![c].phase = "copied"]
  /\ UNCHANGED <<settings, hasty, killed>>

Replace(c) ==
  LET i == calls[c].at
  IN  /\ calls[c].phase = "copied"
      /\ settings' = [settings EXCEPT ![i] = calls[c].planned[i]]
      /\ calls' = [calls EXCEPT ![c] = After(@, i)]
      /\ UNCHANGED <<backups, hasty, killed>>

\* Killed: the files replaced so far stay, a repeated call finds them done.
Kill(c) ==
  /\ killed < MaxKills
  /\ calls[c].phase \notin {"idle", "done", "refused"}
  /\ killed' = killed + 1
  /\ calls' = [calls EXCEPT ![c] = NoCall]
  /\ UNCHANGED <<settings, backups, hasty>>

SetupInit ==
  /\ settings = [i \in Place |-> Nothing]
  /\ calls = [c \in Installers |-> NoCall]
  /\ backups = {}
  /\ hasty = {}
  /\ killed = 0

Step(c) == Begin(c) \/ Plan(c) \/ Compare(c) \/ Skip(c) \/ Check(c) \/ Copy(c) \/ Replace(c)

SetupNext == Edit \/ \E c \in Installers : Step(c) \/ Kill(c)

SetupSpec == SetupInit /\ [][SetupNext]_settingsVars

(* Properties.                                                             *)

SetupTypeOK ==
  /\ settings \in [Place -> [ours : Options \union {None}, others : SUBSET Edits]]
  /\ \A c \in Installers :
       /\ calls[c].at \in Place
       /\ calls[c].phase \in {"idle", "planning", "comparing", "checking", "checked", "copied", "done", "refused"}

\* A setting someone else made is never gone: it is in its file or in a backup
\* of it, whatever the order of edits, of two installers and of a kill.  The
\* exception is the code's own: what is added after the copy of its file, or
\* to a file that did not exist after the last comparison, and before the
\* replacement, goes without a trace.
EditsAreKept ==
  [][\A i \in Place :
       \A e \in settings[i].others \ hasty :
         e \in settings'[i].others \/ \E b \in backups' : e \in b.others]_settingsVars
==============================================================================
