----------------------------- MODULE CodeReader -----------------------------
(***************************************************************************)
(* The evidence of one analysis: the snapshot of a commit with a submitted *)
(* overlay, what the comparison role reads of it on demand, and the        *)
(* citations that are accepted (server/src/brain/analysis: projects.ts,    *)
(* submissions.ts, code-reader.ts, validation.ts).                         *)
(*                                                                         *)
(* Abstractions: paths are numbers in the order of their source ids; a     *)
(* line counts as one byte; one query is searched for, and a file is the   *)
(* number of its lines, with those the query occurs in before (`raw') and  *)
(* after (`clean') secrets are removed.                                    *)
(***************************************************************************)
EXTENDS Integers, FiniteSetsExt, SequencesExt

CONSTANTS
  Commits,      \* snapshots: functions from paths to files
  Overlays,     \* submitted files: functions from paths to files, or Deleted; or the empty one
  Deleted,
  MaxSources, MaxBytes, MaxLinesPerRead, MaxRequests, MaxSearchMatches, InitialFiles, ReadRounds

VARIABLES
  commit, overlay,   \* what is analyzed
  captured,          \* run.sources: the code captured, <<path, origin>>
  excerpts,          \* run.codeRetrieval.excerpts
  asked,             \* the lines the model asked for successfully
  searched,          \* the last search: its matches and whether it was truncated
  shown,             \* the lines of the last comparison call
  cited,             \* the lines of accepted citations
  stage, rounds

readerVars == <<commit, overlay, captured, excerpts, asked, searched, shown, cited, stage, rounds>>

-----------------------------------------------------------------------------
(* Paths of a snapshot.                                                    *)

\* isAllowedCodePath and requireRepoPath: in the scope, neither sensitive nor a specification.
Allowed(file) == file.scope /\ ~file.sensitive /\ ~file.specification

\* validateSubmittedFiles: at least one file, all of them allowed and small enough.
ValidOverlay(files) ==
  /\ DOMAIN files # {}
  /\ \A p \in DOMAIN files : IF files[p] = Deleted THEN p \in DOMAIN commit => Allowed(commit[p])
                            ELSE Allowed(files[p]) /\ ~files[p].binary

\* captureProjectSources: the regular files in the tree of the commit that are allowed.
CodeFiles == {p \in DOMAIN commit : commit[p].regular /\ Allowed(commit[p])}

\* The constructor: what may be read is in the tree or the overlay, allowed and not deleted.
Files == {p \in CodeFiles \cup DOMAIN overlay : p \in DOMAIN overlay => overlay[p] # Deleted}

Origin(p) == IF p \in DOMAIN overlay THEN "submitted" ELSE "commit"
File(p) == IF p \in DOMAIN overlay THEN overlay[p] ELSE commit[p]

\* The published sources of the run: its Git specifications.
Specifications == {p \in DOMAIN commit : commit[p].specification}

-----------------------------------------------------------------------------
(* Reading.                                                                *)

Excerpt(p, first, last) == [path |-> p, first |-> first, last |-> last]
LinesOf(list) == UNION {{x.path} \X (x.first..x.last) : x \in Range(list)}

Before(x, y) == x.path < y.path \/ (x.path = y.path /\ x.first <= y.first)

\* (mutant) the later excerpt decides where a merged one ends.
ExtendToTheLast(merged, x) ==
  IF merged # <<>> /\ Last(merged).path = x.path /\ x.first <= Last(merged).last + 1
  THEN [merged EXCEPT ![Len(merged)].last = x.last]
  ELSE Append(merged, x)

\* Repeated and overlapping excerpts are merged.
Extend(merged, x) ==
  IF /\ merged # <<>> /\ Last(merged).path = x.path
     /\ x.first <= Last(merged).last + 1
  THEN [merged EXCEPT ![Len(merged)].last = Max({@, x.last})]
  ELSE Append(merged, x)
Merge(set) == FoldLeft(Extend, <<>>, SetToSortSeq(set, Before))

ValidRange(first, last) == first >= 1 /\ last >= first /\ last - first + 1 <= MaxLinesPerRead

\* capture() keeps the overlay's source, or adds the file of the commit.
Capture(list, p) == IF \E s \in list : s[1] = p THEN list ELSE list \cup {<<p, "commit">>}

\* read(): a state [sources, excerpts, asked, ok] after one more read.
Read(state, p, first, last) ==
  IF ~(ValidRange(first, last) /\ p \in Files) THEN [state EXCEPT !.ok = FALSE]
  ELSE LET file == File(p)
           sources == Capture(state.sources, p)
           merged == Merge(Range(state.excerpts) \cup {Excerpt(p, first, Min({last, file.lines}))})
           evidence == Specifications \cup {x.path : x \in Range(merged)}
       IN IF \/ (Origin(p) = "commit" /\ file.binary) \/ first > file.lines
             \/ Cardinality(evidence) > MaxSources
             \/ Cardinality(LinesOf(merged)) > MaxBytes
          THEN [state EXCEPT !.ok = FALSE]
          ELSE [sources |-> sources, excerpts |-> merged, ok |-> TRUE,
                asked |-> state.asked \cup ({p} \X (first..last))]

Reading == [sources |-> captured, excerpts |-> excerpts, asked |-> asked, ok |-> TRUE]
ReadAll(state, requests) ==
  FoldLeft(LAMBDA s, q : IF s.ok THEN Read(s, q.path, q.first, q.last) ELSE s, state, requests)

\* A failed request ends the analysis.
Apply(state) ==
  /\ captured' = state.sources /\ excerpts' = state.excerpts /\ asked' = state.asked

-----------------------------------------------------------------------------
(* Searching.                                                              *)

\* git grep -m reports the first lines of each file of the commit that is not overlaid; a
\* line counts if its text still has the query once secrets are removed.
Grepped(p) == LET lines == SetToSortSeq(commit[p].raw, <) IN
  SubSeq(lines, 1, Min({Len(lines), MaxSearchMatches}))
Baseline == SetToSortSeq({p \in Files : Origin(p) = "commit" /\ ~commit[p].binary}, <)
Overlaid == SetToSortSeq({p \in Files : Origin(p) = "submitted"}, <)

MatchesIn(p) ==
  IF Origin(p) = "commit"
  THEN [n \in DOMAIN SelectSeq(Grepped(p), LAMBDA l : l \in commit[p].clean) |->
          <<p, SelectSeq(Grepped(p), LAMBDA l : l \in commit[p].clean)[n]>>]
  ELSE LET lines == SetToSortSeq(overlay[p].clean, <) IN [n \in DOMAIN lines |-> <<p, lines[n]>>]

AllMatches == FlattenSeq([n \in DOMAIN (Baseline \o Overlaid) |-> MatchesIn((Baseline \o Overlaid)[n])])
\* (mutant) the limit of git grep on each file is forgotten.
NeverCapped == FALSE
Capped == \E p \in Range(Baseline) : Len(Grepped(p)) >= MaxSearchMatches

SearchResult ==
  [matches |-> Range(SubSeq(AllMatches, 1, Min({Len(AllMatches), MaxSearchMatches}))),
   truncated |-> Capped \/ Len(AllMatches) > MaxSearchMatches]

-----------------------------------------------------------------------------
(* Citations.                                                              *)

Citation(p, first, last, exact) == [path |-> p, first |-> first, last |-> last, exact |-> exact]

\* (mutant) a citation only has to quote a captured source.
AcceptedFromTheFile(c) ==
  /\ \E x \in Range(excerpts) : x.path = c.path
  /\ c.first >= 1 /\ c.last >= c.first /\ c.last <= File(c.path).lines
  /\ c.exact

\* parseCitation: a captured source, a range in it, the exact text, and every line in an excerpt.
Accepted(c) ==
  /\ \E x \in Range(excerpts) : x.path = c.path
  /\ c.first >= 1 /\ c.last >= c.first /\ c.last <= File(c.path).lines
  /\ c.exact
  /\ \A l \in c.first..c.last : \E x \in Range(excerpts) :
       x.path = c.path /\ l >= x.first /\ l <= x.last

-----------------------------------------------------------------------------
(* The steps of one comparison.                                            *)

ReaderInit ==
  /\ commit \in Commits
  /\ overlay \in Overlays /\ (DOMAIN overlay # {} => ValidOverlay(overlay))
  /\ captured = {<<p, "submitted">> : p \in {q \in DOMAIN overlay : overlay[q] # Deleted}}
  /\ excerpts = <<>> /\ asked = {} /\ shown = {} /\ cited = {}
  /\ searched = [matches |-> {}, truncated |-> TRUE]
  /\ stage = "prime" /\ rounds = 0

\* prime(): the first files, or the first changed files of a submission.
FirstFiles == LET all == SetToSortSeq(IF DOMAIN overlay # {} THEN Files \cap DOMAIN overlay ELSE Files, <)
              IN SubSeq(all, 1, Min({Len(all), InitialFiles}))
Prime ==
  /\ stage = "prime"
  /\ LET result == ReadAll(Reading, [n \in DOMAIN FirstFiles |-> Excerpt(FirstFiles[n], 1, MaxLinesPerRead)])
     IN Apply(result) /\ stage' = IF result.ok THEN "call" ELSE "failed"
  /\ UNCHANGED <<commit, overlay, searched, shown, cited, rounds>>

\* The model is shown the excerpts, ...
CallComparison ==
  /\ stage = "call"
  /\ shown' = LinesOf(excerpts)
  /\ stage' = "answer"
  /\ UNCHANGED <<commit, overlay, captured, excerpts, asked, searched, cited, rounds>>

\* ... asks for more of the code, in a batch that may fail in the middle, ...
Requests(batch, search) ==
  /\ stage = "answer" /\ rounds < ReadRounds
  /\ LET result == ReadAll(Reading, batch)
         ok == result.ok /\ Len(batch) + search <= MaxRequests
     IN /\ IF Len(batch) + search <= MaxRequests THEN Apply(result) ELSE UNCHANGED <<captured, excerpts, asked>>
        /\ searched' = IF ok /\ search = 1 THEN SearchResult ELSE searched
        /\ stage' = IF ok THEN "call" ELSE "failed"
  /\ rounds' = rounds + 1
  /\ UNCHANGED <<commit, overlay, shown, cited>>

\* ... or cites its evidence.
Cite(c) ==
  /\ stage = "answer"
  /\ IF Accepted(c) THEN /\ cited' = {c.path} \X (c.first..c.last)
                         /\ stage' = "done"
     ELSE stage' = "failed" /\ UNCHANGED cited
  /\ UNCHANGED <<commit, overlay, captured, excerpts, asked, searched, shown, rounds>>

AllPaths == DOMAIN commit \cup DOMAIN overlay
Ranges == {<<first, last>> \in (0..4) \X (0..5) : first <= last + 1}
OneRead == {Excerpt(p, r[1], r[2]) : p \in AllPaths, r \in Ranges}

ReaderNext ==
  \/ Prime \/ CallComparison
  \/ \E q \in OneRead, search \in {0, 1} :
       Requests(<<q>>, search) \/ Requests(<<q, Excerpt(q.path, 1, 1)>>, search)
  \/ \E q \in OneRead, exact \in BOOLEAN : Cite(Citation(q.path, q.first, q.last, exact))

ReaderSpec == ReaderInit /\ [][ReaderNext]_readerVars

-----------------------------------------------------------------------------
(* Properties.                                                             *)

\* The excerpts are exactly the existing lines that were asked for, in disjoint ranges that
\* do not touch, however the reads overlap: merging neither loses a line nor admits one.
ExcerptsAreExact ==
  /\ LinesOf(excerpts) = {l \in asked : l[2] <= File(l[1]).lines}
  /\ \A i, j \in DOMAIN excerpts :
       (i < j /\ excerpts[i].path = excerpts[j].path) => excerpts[j].first > excerpts[i].last + 1

\* An accepted citation quotes lines of the snapshot the model was shown: never a line it
\* has not seen, a deleted file, or the version that a submitted file replaces.
CitedWasShown ==
  /\ cited \subseteq shown
  /\ \A l \in cited : l[1] \in Files /\ <<l[1], Origin(l[1])>> \in captured
                      /\ ~File(l[1]).sensitive /\ ~File(l[1]).specification

\* A search that does not say it was truncated found every line of the snapshot that may be
\* read and has the query, in the version the submission gives it.
SearchIsComplete ==
  searched.truncated \/ searched.matches = {<<p, l>> \in AllPaths \X (1..5) :
                                              p \in Files /\ ~File(p).binary /\ l \in File(p).clean}
=============================================================================
