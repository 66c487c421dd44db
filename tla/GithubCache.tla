---------------------------- MODULE GithubCache -----------------------------
(***************************************************************************)
(* The managed clone of a GitHub repository that analyses read commits     *)
(* from (server/src/brain/analysis/github.ts): requests for a revision     *)
(* queue up per directory, take ownership of it with a marker before Git   *)
(* writes anything, fetch what is missing, and may stop at any point.      *)
(*                                                                         *)
(* Abstractions: one directory; the repository of a request is its url; a  *)
(* Git command either does what it says or fails.                          *)
(***************************************************************************)
EXTENDS Integers, FiniteSets, Absence

CONSTANTS
  Callers,       \* requests for a revision
  Urls,          \* repositories
  Revisions,     \* commits of every repository; the request for None is the default branch
  Directories,   \* what the directory may be at first
  CacheBudgets,  \* how often Git fails and the process stops
  Partial        \* a marker that was created and not written yet

\* Commits that are there at first are those of the repository the directory belongs to.
CacheAssumption ==
  /\ None \notin Callers \cup Urls /\ Partial \notin Urls \cup {None}
  /\ \A d \in Directories :
       /\ d \in [kind : {"absent", "directory", "symlink", "file"}, marker : Urls \cup {None, Partial},
                empty : BOOLEAN, checkout : BOOLEAN, bare : BOOLEAN, origin : Urls \cup {None}, commits : SUBSET (Urls \X Revisions),
                head : (Urls \X Revisions) \cup {None}]
       /\ \A wanted \in d.commits :
            IF d.marker = None THEN wanted[1] = d.origin /\ d.kind # "absent" /\ ~d.empty
            ELSE d.marker \in {wanted[1], Partial}
ASSUME CacheHypothesis == CacheAssumption

VARIABLES
  directory,   \* [kind, marker, bare, origin, commits]
  tail,        \* pending: the operation the next one waits for, or None
  prepare,     \* per caller: its place, what it asks for and what it waits for
  head,        \* the commit of each repository's default branch
  touched,     \* the url of the last write by Git or by the marker, or None
  cacheBudget

cacheVars == <<directory, tail, prepare, head, touched, cacheBudget>>

AtRest == [at |-> "idle", url |-> None, asked |-> None, commit |-> None, after |-> None]
Stands(c, place) == prepare[c].at = place
Place(c, place) == prepare' = [prepare EXCEPT ![c].at = place]

\* The operation of c has settled once it is past its last step.
Settled(c) == prepare[c].at \in {"idle", "settled"}
Inside == {c \in Callers : prepare[c].at \notin {"idle", "waiting", "settled"}}

-----------------------------------------------------------------------------
\* prepare(): the request waits for the operation before it, whether that fails or not.
Prepare(c, url, asked) ==
  /\ Stands(c, "idle")
  /\ cacheBudget.requests > 0
  /\ cacheBudget' = [cacheBudget EXCEPT !.requests = @ - 1]
  /\ prepare' = [prepare EXCEPT ![c] = [at |-> "waiting", url |-> url, asked |-> asked, commit |-> None, after |-> tail]]
  /\ tail' = c
  /\ UNCHANGED <<directory, head, touched>>

Turn(c) == Stands(c, "waiting") /\ (prepare[c].after # None => Settled(prepare[c].after))

\* (mutant) only a marker tells whose directory it is.
OursByMarker(url) ==
  /\ directory.kind \in {"absent", "directory"}
  /\ directory.marker # None => directory.marker = url
  /\ ~directory.checkout

\* ensureCache: what is in the directory decides whether it may be used.
Ours(url) ==
  /\ directory.kind \in {"absent", "directory"}
  /\ IF directory.marker # None THEN directory.marker = url
     ELSE directory.kind = "absent" \/ directory.empty \/ (directory.bare /\ directory.origin = url)
  /\ ~directory.empty => ~directory.checkout
  /\ directory.origin \in {None, url}

Inspect(c) ==
  /\ Turn(c)
  /\ IF Ours(prepare[c].url)
     THEN Place(c, IF directory.marker = None THEN "claim" ELSE "init")
     ELSE Place(c, "settled")
  /\ directory' = IF directory.kind = "absent" THEN [directory EXCEPT !.kind = "directory"] ELSE directory
  /\ UNCHANGED <<tail, head, touched, cacheBudget>>

\* The marker is created, which fails if there is one, and then written.
CreateMarker(c) ==
  /\ Stands(c, "claim")
  /\ IF directory.marker = None
     THEN directory' = [directory EXCEPT !.marker = Partial, !.empty = FALSE] /\ Place(c, "mark")
     ELSE UNCHANGED directory /\ Place(c, "settled")
  /\ UNCHANGED <<tail, head, touched, cacheBudget>>

WriteMarker(c) ==
  /\ Stands(c, "mark")
  /\ directory' = [directory EXCEPT !.marker = prepare[c].url]
  /\ touched' = prepare[c].url
  /\ Place(c, "init")
  /\ UNCHANGED <<tail, head, cacheBudget>>

\* git init repairs the metadata and leaves objects alone; then the origin is set.
InitRepository(c) ==
  /\ Stands(c, "init")
  /\ directory' = [directory EXCEPT !.bare = TRUE, !.origin = prepare[c].url]
  /\ touched' = prepare[c].url
  /\ Place(c, "resolve")
  /\ UNCHANGED <<tail, head, cacheBudget>>

\* The default branch is looked up when no commit was asked for.
Resolve(c) ==
  /\ Stands(c, "resolve")
  /\ prepare' = [prepare EXCEPT ![c].at = "fetch", ![c].commit = IF @ # None THEN @
       ELSE IF prepare[c].asked # None THEN prepare[c].asked ELSE head[prepare[c].url]]
  /\ UNCHANGED <<directory, tail, head, touched, cacheBudget>>

\* Only what is missing is fetched; HEAD follows a request for the default branch.
Fetch(c) ==
  /\ Stands(c, "fetch")
  /\ LET wanted == <<prepare[c].url, prepare[c].commit>> IN
       directory' = [directory EXCEPT !.commits = @ \cup {wanted},
                                      !.head = IF prepare[c].asked = None THEN wanted ELSE @]
  /\ touched' = prepare[c].url
  /\ Place(c, "settled")
  /\ UNCHANGED <<tail, head, cacheBudget>>

\* Any of Git's commands fails.
GitFails(c) ==
  /\ \/ prepare[c].at \in {"init", "resolve", "fetch"}
     \/ Turn(c) /\ directory.kind = "directory" /\ ~directory.empty
  /\ cacheBudget.failures > 0
  /\ cacheBudget' = [cacheBudget EXCEPT !.failures = @ - 1]
  /\ Place(c, "settled")
  /\ UNCHANGED <<directory, tail, head, touched>>

\* (mutant) the caller removes whatever operation is the last of the queue.
ReturnAndForget(c) ==
  /\ Stands(c, "settled")
  /\ tail' = None
  /\ prepare' = [x \in Callers |-> IF x = c THEN AtRest
                  ELSE IF prepare[x].after = c THEN [prepare[x] EXCEPT !.after = None] ELSE prepare[x]]
  /\ UNCHANGED <<directory, head, touched, cacheBudget>>

\* The caller goes on and removes the operation if nothing was queued behind it.
Return(c) ==
  /\ Stands(c, "settled")
  /\ tail' = IF tail = c THEN None ELSE tail
  /\ prepare' = [x \in Callers |-> IF x = c THEN AtRest
                  ELSE IF prepare[x].after = c THEN [prepare[x] EXCEPT !.after = None] ELSE prepare[x]]
  /\ UNCHANGED <<directory, head, touched, cacheBudget>>

\* The process stops; the directory stays as it is.
Stop ==
  /\ cacheBudget.crashes > 0
  /\ cacheBudget' = [cacheBudget EXCEPT !.crashes = @ - 1]
  /\ prepare' = [c \in Callers |-> AtRest]
  /\ tail' = None
  /\ UNCHANGED <<directory, head, touched>>

BranchMoves(url, commit) ==
  /\ cacheBudget.moves > 0
  /\ cacheBudget' = [cacheBudget EXCEPT !.moves = @ - 1]
  /\ head' = [head EXCEPT ![url] = commit]
  /\ UNCHANGED <<directory, tail, prepare, touched>>

-----------------------------------------------------------------------------
CacheInit ==
  /\ directory \in Directories
  /\ cacheBudget \in CacheBudgets
  /\ tail = None /\ touched = None
  /\ prepare = [c \in Callers |-> AtRest]
  /\ head \in {[u \in Urls |-> r] : r \in Revisions}

CacheSteps(c) == \/ Inspect(c) \/ CreateMarker(c) \/ WriteMarker(c) \/ InitRepository(c)
                 \/ Resolve(c) \/ Fetch(c) \/ Return(c)

CacheNext ==
  \/ \E c \in Callers : \/ CacheSteps(c) \/ GitFails(c)
                        \/ \E url \in Urls, asked \in Revisions \cup {None} : Prepare(c, url, asked)
  \/ Stop
  \/ \E url \in Urls, commit \in Revisions : BranchMoves(url, commit)

CacheSpec == CacheInit /\ [][CacheNext]_cacheVars

-----------------------------------------------------------------------------
(* Properties.                                                             *)

\* One operation at a time works on the directory, however requests queue up, fail and
\* remove themselves from the queue.
OneAtATime == Cardinality(Inside) <= 1

\* Nothing is written into a directory that belongs to another repository, to a working
\* checkout or to no repository that is known: its commits are those of its owner.
OwnCommitsOnly ==
  /\ touched # None => directory.marker = touched /\ directory.origin \in {None, touched}
  /\ \A wanted \in directory.commits : directory.marker \notin {None, Partial} => wanted[1] = directory.marker

\* (both)
CloneIsOwned == OneAtATime /\ OwnCommitsOnly
=============================================================================
