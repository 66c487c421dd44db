----------------------------- MODULE Submission -----------------------------
(***************************************************************************)
(* The capture of a local change by an agent's helper while the working    *)
(* copy may still be edited (scripts/brain-submit.mjs), and the submission *)
(* of its payload to Brain, whose project scope may have been edited since *)
(* (server/src/brain/analysis: service.ts, submissions.ts, projects.ts).   *)
(*                                                                         *)
(* Abstractions: paths are numbers in the order of git's sorted list; a    *)
(* content is a member of a small set, of which some are refused (binary,  *)
(* not UTF-8, with a credential, a symbolic link); a read is one step,     *)
(* since a file that changes while it is read is refused.  Ignored files   *)
(* are no part of a change, and commits leave the index as it is.          *)
(***************************************************************************)
EXTENDS Integers, FiniteSetsExt

CONSTANTS
  Paths, Contents, Refused,
  Minimized,       \* what minimizeSourceContent makes of a content
  Absent,          \* no file
  MaxFiles,        \* submission.maxFiles
  SubmissionPlans  \* records: baseline, disk, index, flagged, scopes, budget

\* Paths are numbers, so that a set of them has a first one, and the plans are working copies.
SubmissionAssumption ==
  /\ Paths \subseteq Nat
  /\ \A plan \in SubmissionPlans :
       /\ {plan.baseline, plan.disk} \subseteq [Paths -> Contents \cup {Absent}]
       /\ {plan.index, plan.flagged, plan.scope} \cup plan.scopes \subseteq SUBSET Paths
ASSUME SubmissionHypothesis == SubmissionAssumption

VARIABLES
  copy,        \* the working copy: its baseline, and its flagged paths (skip-worktree and the like)
  disk, index, \* the files, and the paths that git tracks
  scope,       \* the code paths of the registered project, without its specifications
  capture,     \* the helper
  reviewed,    \* the files that Brain overlays on the baseline, as it was given them
  moments,     \* the working copies since the capture began
  returned,    \* a content came back, or a file was added between the two halves of a list
  budget       \* edits, additions to the index, scopes and captures left

submissionVars == <<copy, disk, index, scope, capture, reviewed, moments, returned, budget>>

Spend(what) == budget[what] > 0 /\ budget' = [budget EXCEPT ![what] = @ - 1]
NoFiles == [p \in {} |-> Absent]
Idle == [stage |-> "idle", scope |-> {}, allowed |-> FALSE, tracked |-> {}, paths |-> {},
         files |-> NoFiles, compared |-> {}]

SubmissionInit ==
  /\ \E plan \in SubmissionPlans :
       /\ copy = [baseline |-> plan.baseline, flagged |-> plan.flagged, scopes |-> plan.scopes]
       /\ disk = plan.disk /\ index = plan.index /\ scope = plan.scope /\ budget = plan.budget
  /\ capture = Idle /\ reviewed = NoFiles /\ moments = {} /\ returned = FALSE

-----------------------------------------------------------------------------
(* Meanwhile: a file is written, added to the index or removed; the scope  *)
(* of the project is edited on the server.                                 *)

Running == capture.stage \notin {"idle", "refused", "payload", "reviewed"}   \* the helper

\* Edits before the first capture are its initial files, those after the last do not reach it.
Edit(p, content) ==
  /\ content # disk[p] /\ (Running \/ capture.stage = "refused") /\ Spend("edits")
  /\ disk' = [disk EXCEPT ![p] = content]
  /\ moments' = IF Running THEN moments \cup {disk'} ELSE moments
  /\ returned' = (returned \/ (Running /\ \E d \in moments : d[p] = content))
  /\ UNCHANGED <<copy, index, scope, capture, reviewed>>

\* git add of a file or of its deletion.
Add(p) ==
  /\ (p \in index) # (disk[p] # Absent) /\ Running /\ Spend("adds")
  /\ index' = IF disk[p] = Absent THEN index \ {p} ELSE index \cup {p}
  /\ returned' = (returned \/ capture.stage \in {"listing", "relisting"})
  /\ UNCHANGED <<copy, disk, scope, capture, reviewed, moments>>

EditScope(s) ==
  /\ s # scope /\ Spend("scopes") /\ scope' = s
  /\ UNCHANGED <<copy, disk, index, capture, reviewed, moments, returned>>

-----------------------------------------------------------------------------
(* The two git commands of changedPaths.                                   *)

\* git diff: tracked paths that differ from the baseline, and paths of the baseline that are
\* not tracked any more; it does not look at flagged paths.
Tracked == {p \in Paths \ copy.flagged :
              IF p \in index THEN disk[p] # copy.baseline[p] ELSE copy.baseline[p] # Absent}
\* git ls-files --others.
Untracked == {p \in Paths \ index : disk[p] # Absent}

\* captureChange: no index entry is hidden; the project is the one that brain_list_projects has
\* just returned.
Begin(allowed) ==
  /\ capture.stage \in {"idle", "refused"} /\ Spend("captures")
  /\ capture' = [Idle EXCEPT !.stage = IF copy.flagged = {} THEN "start" ELSE "refused",
                             !.scope = scope, !.allowed = allowed]
  /\ moments' = {disk} /\ returned' = FALSE
  /\ UNCHANGED <<copy, disk, index, scope, reviewed>>

ListTracked(from, to) ==
  /\ capture.stage = from
  /\ capture' = [capture EXCEPT !.stage = to, !.tracked = Tracked]
  /\ UNCHANGED <<copy, disk, index, scope, reviewed, moments, returned, budget>>

Listed == capture.tracked \cup Untracked

\* The first list: nothing may be excluded unless that was acknowledged, and something must
\* remain, within the limit; it is never truncated.
Selected(paths) == paths \cap capture.scope
FirstList ==
  /\ capture.stage = "listing"
  /\ capture' = [capture EXCEPT
       !.paths = Listed,
       !.stage = IF /\ Listed \subseteq capture.scope \/ capture.allowed
                    /\ Selected(Listed) # {} /\ Cardinality(Selected(Listed)) <= MaxFiles
                 THEN "reading" ELSE "refused"]
  /\ UNCHANGED <<copy, disk, index, scope, reviewed, moments, returned, budget>>

\* readWorkingFile: the content, or null for a deleted file.
Remaining == Selected(capture.paths) \ DOMAIN capture.files
ReadFile ==
  /\ capture.stage = "reading" /\ Remaining # {}
  /\ LET p == Min(Remaining) IN
     capture' = IF disk[p] \in Refused THEN [capture EXCEPT !.stage = "refused"]
                ELSE [capture EXCEPT !.files = [q \in DOMAIN @ \cup {p} |-> IF q = p THEN disk[p] ELSE @[q]]]
  /\ UNCHANGED <<copy, disk, index, scope, reviewed, moments, returned, budget>>

\* The second list.
Relist ==
  /\ capture.stage = "reading" /\ Remaining = {}
  /\ capture' = [capture EXCEPT !.stage = "relist"]
  /\ UNCHANGED <<copy, disk, index, scope, reviewed, moments, returned, budget>>

\* (mutant) only the files that were read have to be listed again.
StillChanged == DOMAIN capture.files \subseteq Listed
SameList == capture.paths = Listed
SecondList ==
  /\ capture.stage = "relisting"
  /\ capture' = [capture EXCEPT !.stage = IF SameList THEN "comparing" ELSE "refused"]
  /\ UNCHANGED <<copy, disk, index, scope, reviewed, moments, returned, budget>>

\* Each file is read once more.
CompareFile ==
  /\ capture.stage = "comparing" /\ capture.compared # DOMAIN capture.files
  /\ LET p == Min(DOMAIN capture.files \ capture.compared) IN
     capture' = IF disk[p] = capture.files[p] THEN [capture EXCEPT !.compared = @ \cup {p}]
                ELSE [capture EXCEPT !.stage = "refused"]
  /\ UNCHANGED <<copy, disk, index, scope, reviewed, moments, returned, budget>>

\* The payload is written for the agent, to the output or to a new file outside the repository,
\* never into the working copy.
Write ==
  /\ capture.stage = "comparing" /\ capture.compared = DOMAIN capture.files
  /\ capture' = [capture EXCEPT !.stage = "payload"]
  /\ UNCHANGED <<copy, disk, index, scope, reviewed, moments, returned, budget>>

-----------------------------------------------------------------------------
(* brain_submit_change, at some later time.                                *)

\* validateSubmittedFiles: every path is in the scope of today.
Valid(files) == DOMAIN files # {} /\ Cardinality(DOMAIN files) <= MaxFiles /\ DOMAIN files \subseteq scope
Submit ==
  /\ capture.stage = "payload"
  /\ IF Valid(capture.files)
     THEN /\ reviewed' = [p \in DOMAIN capture.files |-> Minimized[capture.files[p]]]
          /\ capture' = [capture EXCEPT !.stage = "reviewed"]
     ELSE capture' = [capture EXCEPT !.stage = "refused"] /\ UNCHANGED reviewed
  /\ UNCHANGED <<copy, disk, index, scope, moments, returned, budget>>

SubmissionNext ==
  \/ \E p \in Paths, content \in (Contents \ Refused) \cup {Absent} : Edit(p, content)
  \/ \E p \in Paths : Add(p)
  \/ \E s \in copy.scopes : EditScope(s)
  \/ \E allowed \in BOOLEAN : Begin(allowed)
  \/ ListTracked("start", "listing") \/ FirstList \/ ReadFile
  \/ Relist \/ ListTracked("relist", "relisting") \/ SecondList \/ CompareFile \/ Write
  \/ Submit

SubmissionSpec == SubmissionInit /\ [][SubmissionNext]_submissionVars

-----------------------------------------------------------------------------
(* Properties.                                                             *)

SubmissionTypeOK ==
  /\ disk \in [Paths -> Contents \cup {Absent}] /\ index \subseteq Paths /\ scope \subseteq Paths
  /\ DOMAIN capture.files \subseteq Paths /\ DOMAIN reviewed \subseteq capture.scope

\* What Brain reads of a path: the submitted file, or the one of the baseline.
Read(p) == IF p \in DOMAIN reviewed THEN reviewed[p] ELSE Minimized[copy.baseline[p]]

\* What is reviewed is the whole working copy as it was at one moment of the capture, never a
\* mixture of several and never without a changed file, however it was edited meanwhile; unless
\* a content came back, or a file was added to the index between the commands of one list.
\* Only excluded paths may be missing, if that was acknowledged.
ReviewedIsTheMoment ==
  capture.stage = "reviewed" /\ ~returned =>
    \E d \in moments : \A p \in Paths :
      Read(p) = Minimized[d[p]] \/ (capture.allowed /\ p \notin capture.scope)
=============================================================================
