---------------------------- MODULE ClientProofs ----------------------------
(***************************************************************************)
(* The clients of the server: a proof for every value of their constants   *)
(* and any number of their steps.                                          *)
(*                                                                         *)
(* What is reviewed of a local change is the whole working copy as it was  *)
(* at one moment of the capture.  The board shows the events of the server *)
(* without a gap.  What a page of the user interface shows never goes back *)
(* and answers what is selected, and its own writes, the analyses started  *)
(* on it and the document asked for last are shown, in whatever order the  *)
(* answers come.                                                           *)
(***************************************************************************)
EXTENDS Submission, Pages, NaturalsInduction, WellFoundedInduction, TLAPS

-----------------------------------------------------------------------------
(* The submission of a local change.                                       *)
(*                                                                         *)
(* The argument.  While no content comes back, a path that has left a      *)
(* content of the capture never has it again: "it held v at the moment d,  *)
(* or it does not hold v any more" is stable (the two invariants of the    *)
(* second pass below).  The moment that is reviewed is the one of the      *)
(* second git diff: what a path holds when it is compared, and held when   *)
(* it was read, it also held at that moment in between.                    *)
(* The inductive invariant has one conjunct for each stage of the helper.  *)

Values == Contents \cup {Absent}
Stages == {"idle", "start", "listing", "reading", "relist", "relisting", "comparing", "payload",
           "reviewed", "refused"}
Copies == [Paths -> Values]
Captures == [stage : Stages, scope : SUBSET Paths, allowed : BOOLEAN, tracked : SUBSET Paths, paths : SUBSET Paths,
             files : UNION {[some -> Values] : some \in SUBSET Paths}, compared : SUBSET Paths]

\* The state has its types; before a review nothing is reviewed.
ShapeInv ==
  /\ disk \in Copies /\ copy.baseline \in Copies /\ moments \subseteq Copies
  /\ copy.flagged \subseteq Paths /\ copy.scopes \subseteq SUBSET Paths
  /\ index \subseteq Paths /\ scope \subseteq Paths
  /\ capture \in Captures /\ returned \in BOOLEAN
  /\ capture.stage # "reviewed" => reviewed = NoFiles
  /\ capture.stage = "reviewed" =>
       reviewed = [p \in DOMAIN capture.files |-> Minimized[capture.files[p]]]

\* The helper runs: what is on disk is one of the moments, and no path is hidden.
NowInv == Running => disk \in moments /\ copy.flagged = {}

Held(p) == {d[p] : d \in moments}      \* what a path has held since the capture began

\* The first list leaves out a path only if it held the baseline at some moment.
Steps(stages) == capture.stage \in stages /\ ~returned
FirstPassInv ==
  Steps({"listing"}) =>
    \A p \in Paths \ capture.tracked :
      IF p \in index THEN copy.baseline[p] \in Held(p) ELSE copy.baseline[p] = Absent

AfterFirstList == {"reading", "relist", "relisting", "comparing", "payload", "reviewed"}
LeftOutInv ==
  Steps(AfterFirstList) => \A p \in Paths \ capture.paths : copy.baseline[p] \in Held(p)

\* The files that are read are the selected ones; each has held the content that was read.
FilesInv ==
  capture.stage \in AfterFirstList =>
    /\ capture.paths \subseteq capture.scope \/ capture.allowed
    /\ DOMAIN capture.files \subseteq Selected(capture.paths)
    /\ capture.stage # "reading" => DOMAIN capture.files = Selected(capture.paths)
    /\ \A p \in DOMAIN capture.files : capture.files[p] \in Held(p)
    /\ capture.compared \subseteq DOMAIN capture.files
    /\ capture.stage \in {"reading", "relist", "relisting"} => capture.compared = {}
    /\ capture.stage \in {"payload", "reviewed"} => capture.compared = DOMAIN capture.files
NoFilesYet == capture.stage \in {"start", "listing"} => capture.files = NoFiles /\ capture.compared = {}

\* The moment d agrees with the content that was read of a path, or the path has it no more.
ReadAt(d) == \A p \in DOMAIN capture.files : d[p] = capture.files[p] \/ disk[p] # capture.files[p]

\* Between the two halves of the second list: the moment of its git diff.
SecondPassInv ==
  Steps({"relisting"}) =>
    \E d \in moments :
      /\ \A p \in Paths \ capture.tracked :
           IF p \in index THEN d[p] = copy.baseline[p]
           ELSE copy.baseline[p] = Absent /\ (p \in capture.paths \/ d[p] = Absent \/ disk[p] # Absent)
      /\ ReadAt(d)

\* After it: that moment has the baseline at all other paths, and what was compared.
ComparedInv ==
  Steps({"comparing", "payload", "reviewed"}) =>
    \E d \in moments :
      /\ \A p \in Paths \ capture.paths : d[p] = copy.baseline[p]
      /\ ReadAt(d)
      /\ \A p \in capture.compared : d[p] = capture.files[p]

MomentInv ==
  /\ ShapeInv /\ NowInv /\ NoFilesYet /\ FilesInv
  /\ FirstPassInv /\ LeftOutInv /\ SecondPassInv /\ ComparedInv

-----------------------------------------------------------------------------
(* Lemmas on the operators of the model.                                   *)

\* A set of numbers that is not empty has a first one: "the next file" is one of the set.
LEMMA MinIsIn == ASSUME NEW S \in SUBSET Nat, S # {} PROVE Min(S) \in S
<1> DEFINE R == {ss \in Nat \X Nat : ss[1] < ss[2]}
<1>1. IsWellFoundedOn(R, Nat)
  BY NatLessThanWellFounded DEF OpToRel
<1>2. PICK x \in S : \A y \in S : <<y, x>> \notin R
  <2> HIDE DEF R
  <2> QED BY <1>1, WFMin
<1>3. \A y \in S : y < x => <<y, x>> \in R
  OBVIOUS
<1>4. \A y \in S : ~(y < x)
  <2> HIDE DEF R
  <2> QED BY <1>2, <1>3
<1>5. \A y \in S : x =< y
  BY <1>4
<1> QED BY <1>5 DEF Min

LEMMA NoFilesType == NoFiles \in UNION {[some -> Values] : some \in SUBSET Paths} /\ DOMAIN NoFiles = {}
<1>1. NoFiles \in [{} -> Values] /\ {} \in SUBSET Paths
  BY DEF NoFiles
<1> QED BY <1>1 DEF NoFiles

\* The fields of a capture have their types.
LEMMA CaptureFields ==
  ASSUME capture \in Captures
  PROVE  /\ capture.stage \in Stages /\ capture.scope \subseteq Paths /\ capture.allowed \in BOOLEAN
         /\ capture.tracked \subseteq Paths /\ capture.paths \subseteq Paths /\ capture.compared \subseteq Paths
         /\ DOMAIN capture.files \subseteq Paths
         /\ capture.files \in UNION {[some -> Values] : some \in SUBSET Paths}
         /\ \A p \in DOMAIN capture.files : capture.files[p] \in Values
  BY DEF Captures

\* A step of the helper that moves it from one stage to another and does nothing else.
LEMMA StageMoves ==
  ASSUME capture \in Captures, NEW x \in Stages, capture' = [capture EXCEPT !.stage = x]
  PROVE  /\ capture' \in Captures /\ capture'.stage = x
         /\ capture'.scope = capture.scope /\ capture'.allowed = capture.allowed
         /\ capture'.tracked = capture.tracked /\ capture'.paths = capture.paths
         /\ capture'.files = capture.files /\ capture'.compared = capture.compared
  BY DEF Captures

-----------------------------------------------------------------------------
(* Each step preserves the invariant.                                      *)

\* Somebody else: nothing happens to the helper, which sees a content that was never there.
LEMMA EditStep ==
  ASSUME MomentInv, NEW p \in Paths, NEW content \in Values, Edit(p, content)
  PROVE  MomentInv'
<1> USE DEF Edit
<1>1. UNCHANGED <<copy, index, scope, capture, reviewed>> /\ disk' = [disk EXCEPT ![p] = content]
  OBVIOUS
<1>2. disk \in Copies /\ disk' \in Copies
  BY <1>1 DEF MomentInv, ShapeInv, Copies
<1>3. moments \subseteq moments' /\ moments' \subseteq moments \cup {disk'} /\ (Running => disk' \in moments')
  OBVIOUS
<1>4. \A q : Held(q) \subseteq Held(q)'
  BY <1>3 DEF Held
<1>5. ASSUME Running, ~returned' PROVE ~returned /\ content \notin Held(p)
  BY <1>5 DEF Held
<1>6. returned' \in BOOLEAN
  BY DEF MomentInv, ShapeInv
<1>7. \A q \in Paths : disk'[q] = IF q = p THEN content ELSE disk[q]
  BY <1>1, <1>2 DEF Copies
<1> HIDE DEF Edit
<1>8. Running' = Running
  BY <1>1 DEF Running
<1>9. capture \in Captures
  BY DEF MomentInv, ShapeInv
<1>a. ShapeInv'
  BY <1>1, <1>2, <1>3, <1>6 DEF MomentInv, ShapeInv
<1>b. NowInv' /\ NoFilesYet'
  BY <1>1, <1>3, <1>8 DEF MomentInv, NowInv, NoFilesYet
<1>c. FilesInv'
  <2>1. Selected(capture.paths)' = Selected(capture.paths)
    BY <1>1 DEF Selected
  <2> QED BY <2>1, <1>1, <1>4 DEF MomentInv, FilesInv
<1>d. FirstPassInv'
  <2>1. Steps({"listing"})' => Steps({"listing"})
    BY <1>1, <1>5 DEF Steps, Running
  <2> QED BY <2>1, <1>1, <1>4 DEF MomentInv, FirstPassInv
<1>e. LeftOutInv'
  <2>1. Steps(AfterFirstList)' => Steps(AfterFirstList)
    <3>1. Running \/ capture.stage = "refused"
      BY DEF Edit
    <3> QED BY <3>1, <1>1, <1>5 DEF Steps, AfterFirstList
  <2> QED BY <2>1, <1>1, <1>4 DEF MomentInv, LeftOutInv
<1>f. ASSUME Running, ~returned', NEW d, ReadAt(d), capture.stage \in AfterFirstList
      PROVE  ReadAt(d)'
  <2>1. SUFFICES ASSUME NEW q \in DOMAIN capture.files, d[q] # capture.files[q]
                 PROVE  disk'[q] # capture.files[q]
    BY <1>1 DEF ReadAt
  <2>2. disk[q] # capture.files[q] /\ q \in Paths /\ capture.files[q] \in Held(q)
    BY <1>9, <1>f, <2>1, CaptureFields DEF MomentInv, FilesInv, ReadAt
  <2> QED BY <2>2, <1>5, <1>7, <1>f
<1>g. SecondPassInv'
  <2> SUFFICES ASSUME Steps({"relisting"})' PROVE SecondPassInv'
    BY DEF SecondPassInv
  <2>1. capture.stage = "relisting" /\ Running /\ ~returned' /\ ~returned
    BY <1>1, <1>5 DEF Steps, Running
  <2>2. capture.stage \in AfterFirstList /\ Steps({"relisting"}) /\ Steps(AfterFirstList)
    BY <2>1 DEF AfterFirstList, Steps
  <2>3. PICK d \in moments :
          /\ \A q \in Paths \ capture.tracked :
               IF q \in index THEN d[q] = copy.baseline[q]
               ELSE copy.baseline[q] = Absent /\ (q \in capture.paths \/ d[q] = Absent \/ disk[q] # Absent)
          /\ ReadAt(d)
    BY <2>2 DEF MomentInv, SecondPassInv
  <2>4. ReadAt(d)'
    BY <1>f, <2>1, <2>2, <2>3
  <2>5. ASSUME NEW q \in Paths \ capture.tracked, q \notin index, q \notin capture.paths, d[q] # Absent
        PROVE  disk'[q] # Absent
    <3>1. disk[q] # Absent /\ copy.baseline[q] = Absent
      BY <2>3, <2>5
    <3>2. Absent \in Held(q)
      BY <2>2, <2>5, <3>1 DEF MomentInv, LeftOutInv
    <3> QED BY <3>1, <3>2, <2>1, <1>5, <1>7
  <2>6. \A q \in Paths \ capture.tracked :
           IF q \in index THEN d[q] = copy.baseline[q]
           ELSE copy.baseline[q] = Absent /\ (q \in capture.paths \/ d[q] = Absent \/ disk'[q] # Absent)
    BY <2>3, <2>5
  <2>7. d \in moments'
    BY <1>3
  <2> QED BY <2>4, <2>6, <2>7, <1>1 DEF SecondPassInv
<1>h. ComparedInv'
  <2> SUFFICES ASSUME Steps({"comparing", "payload", "reviewed"})' PROVE ComparedInv'
    BY DEF ComparedInv
  <2>1. Running /\ ~returned' /\ ~returned /\ capture.stage = "comparing"
    <3>1. Running \/ capture.stage = "refused"
      BY DEF Edit
    <3> QED BY <3>1, <1>1, <1>5 DEF Steps, Running
  <2>2. capture.stage \in AfterFirstList /\ Steps({"comparing", "payload", "reviewed"})
    BY <2>1 DEF AfterFirstList, Steps
  <2>3. PICK d \in moments :
          /\ \A q \in Paths \ capture.paths : d[q] = copy.baseline[q]
          /\ ReadAt(d)
          /\ \A q \in capture.compared : d[q] = capture.files[q]
    BY <2>2 DEF MomentInv, ComparedInv
  <2>4. ReadAt(d)' /\ d \in moments'
    BY <1>f, <1>3, <2>1, <2>2, <2>3
  <2> QED BY <2>3, <2>4, <1>1 DEF ComparedInv
<1> QED BY <1>a, <1>b, <1>c, <1>d, <1>e, <1>g, <1>h DEF MomentInv

LEMMA AddStep ==
  ASSUME MomentInv, NEW p \in Paths, Add(p)
  PROVE  MomentInv'
<1>1. /\ UNCHANGED <<copy, disk, scope, capture, reviewed, moments>>
      /\ returned' = (returned \/ capture.stage \in {"listing", "relisting"})
  BY DEF Add
<1>2. index' \subseteq Paths
  BY DEF Add, MomentInv, ShapeInv
<1>3. ShapeInv' /\ NowInv' /\ NoFilesYet'
  BY <1>1, <1>2 DEF MomentInv, ShapeInv, NowInv, Running, NoFilesYet
<1>4. \A q : Held(q)' = Held(q)
  BY <1>1 DEF Held
<1>5. FilesInv' /\ LeftOutInv'
  BY <1>1, <1>4 DEF MomentInv, FilesInv, LeftOutInv, Steps, Selected
<1>6. FirstPassInv' /\ SecondPassInv'
  BY <1>1 DEF FirstPassInv, SecondPassInv, Steps
<1>7. ComparedInv'
  BY <1>1 DEF MomentInv, ComparedInv, ReadAt, Steps
<1> QED BY <1>3, <1>5, <1>6, <1>7 DEF MomentInv

LEMMA ScopeStep ==
  ASSUME MomentInv, NEW s \in copy.scopes, EditScope(s)
  PROVE  MomentInv'
<1>1. UNCHANGED <<copy, disk, index, capture, reviewed, moments, returned>> /\ scope' = s
  BY DEF EditScope
<1>2. ShapeInv' /\ NowInv' /\ NoFilesYet'
  BY <1>1 DEF MomentInv, ShapeInv, NowInv, Running, NoFilesYet
<1>3. \A q : Held(q)' = Held(q)
  BY <1>1 DEF Held
<1>4. FilesInv' /\ LeftOutInv' /\ FirstPassInv'
  BY <1>1, <1>3 DEF MomentInv, FilesInv, LeftOutInv, FirstPassInv, Steps, Selected
<1>5. SecondPassInv' /\ ComparedInv'
  BY <1>1 DEF MomentInv, SecondPassInv, ComparedInv, ReadAt, Steps
<1> QED BY <1>2, <1>4, <1>5 DEF MomentInv

LEMMA BeginStep ==
  ASSUME MomentInv, NEW allow \in BOOLEAN, Begin(allow)
  PROVE  MomentInv'
<1> DEFINE first == IF copy.flagged = {} THEN "start" ELSE "refused"
<1>1. /\ UNCHANGED <<copy, disk, index, scope, reviewed>>
      /\ capture' = [Idle EXCEPT !.stage = first, !.scope = scope, !.allowed = allow]
      /\ moments' = {disk} /\ returned' = FALSE /\ capture.stage # "reviewed"
  BY DEF Begin
<1>2. capture' = [stage |-> first, scope |-> scope, allowed |-> allow, tracked |-> {}, paths |-> {},
                  files |-> NoFiles, compared |-> {}]
  BY <1>1 DEF Idle
<1>3. capture' \in Captures
  BY <1>2, NoFilesType DEF Captures, Stages, MomentInv, ShapeInv
<1>4. capture'.stage = first /\ capture'.files = NoFiles /\ capture'.compared = {}
  BY <1>2
<1>5. ShapeInv'
  <2>1. capture'.stage # "reviewed"
    BY <1>4
  <2>2. reviewed' = NoFiles /\ moments' \subseteq Copies
    BY <1>1 DEF MomentInv, ShapeInv
  <2> QED BY <1>1, <1>3, <2>1, <2>2 DEF MomentInv, ShapeInv
<1>6. NowInv' /\ NoFilesYet'
  BY <1>1, <1>4 DEF NowInv, Running, NoFilesYet
<1>7. FilesInv' /\ LeftOutInv' /\ FirstPassInv' /\ SecondPassInv' /\ ComparedInv'
  BY <1>4 DEF FilesInv, LeftOutInv, FirstPassInv, SecondPassInv, ComparedInv, Steps, AfterFirstList
<1> QED BY <1>5, <1>6, <1>7 DEF MomentInv

\* The first git diff leaves out what has the baseline now; the second one makes now the moment.
LEMMA ListTrackedStep ==
  ASSUME MomentInv, ListTracked("start", "listing") \/ ListTracked("relist", "relisting")
  PROVE  MomentInv'
<1>1. PICK from \in {"start", "relist"}, to \in {"listing", "relisting"} :
        /\ from = "start" <=> to = "listing"
        /\ ListTracked(from, to)
  OBVIOUS
<1>2. /\ UNCHANGED <<copy, disk, index, scope, reviewed, moments, returned>>
      /\ capture.stage = from /\ capture' = [capture EXCEPT !.stage = to, !.tracked = Tracked]
  BY <1>1 DEF ListTracked
<1>3. capture \in Captures /\ disk \in moments /\ copy.flagged = {}
  BY <1>2 DEF MomentInv, ShapeInv, NowInv, Running
<1>4. Tracked \subseteq Paths
  BY DEF Tracked
<1>5. /\ capture' \in Captures /\ capture'.stage = to /\ capture'.tracked = Tracked
      /\ capture'.scope = capture.scope /\ capture'.allowed = capture.allowed
      /\ capture'.paths = capture.paths /\ capture'.files = capture.files /\ capture'.compared = capture.compared
  BY <1>2, <1>3, <1>4 DEF Captures, Stages
<1>6. ShapeInv'
  BY <1>2, <1>5 DEF MomentInv, ShapeInv
<1>7. NowInv' /\ NoFilesYet'
  BY <1>1, <1>2, <1>3, <1>5 DEF MomentInv, NowInv, NoFilesYet
<1>8. \A q : Held(q)' = Held(q)
  BY <1>2 DEF Held
<1>9. FilesInv'
  BY <1>1, <1>2, <1>5, <1>8 DEF MomentInv, FilesInv, AfterFirstList, Selected
<1>a. LeftOutInv'
  <2>1. Steps(AfterFirstList)' => Steps(AfterFirstList)
    BY <1>1, <1>2, <1>5 DEF Steps, AfterFirstList
  <2> QED BY <2>1, <1>2, <1>5, <1>8 DEF MomentInv, LeftOutInv
<1>b. \A q \in Paths \ Tracked : IF q \in index THEN disk[q] = copy.baseline[q] ELSE copy.baseline[q] = Absent
  BY <1>3 DEF Tracked
<1>c. FirstPassInv'
  BY <1>2, <1>3, <1>5, <1>b DEF FirstPassInv, Held
<1>d. SecondPassInv'
  <2>1. ReadAt(disk)'
    BY <1>2 DEF ReadAt
  <2>2. \A q \in Paths \ Tracked :
           IF q \in index THEN disk[q] = copy.baseline[q]
           ELSE copy.baseline[q] = Absent /\ (q \in capture.paths \/ disk[q] = Absent \/ disk[q] # Absent)
    BY <1>b
  <2> QED BY <1>2, <1>3, <1>5, <2>1, <2>2 DEF SecondPassInv
<1>e. ComparedInv'
  BY <1>5, <1>1 DEF ComparedInv, Steps
<1> QED BY <1>6, <1>7, <1>9, <1>a, <1>c, <1>d, <1>e DEF MomentInv

LEMMA FirstListStep ==
  ASSUME MomentInv, FirstList
  PROVE  MomentInv'
<1> DEFINE fits == /\ Listed \subseteq capture.scope \/ capture.allowed
                   /\ Selected(Listed) # {} /\ Cardinality(Selected(Listed)) <= MaxFiles
           next == IF fits THEN "reading" ELSE "refused"
<1>1. /\ UNCHANGED <<copy, disk, index, scope, reviewed, moments, returned>> /\ capture.stage = "listing"
      /\ capture' = [capture EXCEPT !.paths = Listed, !.stage = next]
  BY DEF FirstList
<1>2. capture \in Captures /\ disk \in moments /\ copy.flagged = {} /\ capture.files = NoFiles /\ capture.compared = {}
  BY <1>1 DEF MomentInv, ShapeInv, NowInv, NoFilesYet, Running
<1>3. Listed \subseteq Paths
  BY <1>2, CaptureFields DEF Listed, Untracked
<1>4. next \in {"reading", "refused"} /\ (next = "reading" => Listed \subseteq capture.scope \/ capture.allowed)
  OBVIOUS
<1> HIDE DEF next
<1>5. /\ capture' \in Captures /\ capture'.stage = next /\ capture'.paths = Listed
      /\ capture'.scope = capture.scope /\ capture'.allowed = capture.allowed
      /\ capture'.files = NoFiles /\ capture'.compared = {}
  BY <1>1, <1>2, <1>3, <1>4 DEF Captures, Stages
<1>6. ShapeInv'
  BY <1>1, <1>4, <1>5 DEF MomentInv, ShapeInv
<1>7. NowInv' /\ NoFilesYet'
  BY <1>1, <1>2, <1>5 DEF NowInv, NoFilesYet
<1>8. FilesInv'
  BY <1>4, <1>5, NoFilesType DEF FilesInv, AfterFirstList
<1>9. LeftOutInv'
  <2> SUFFICES ASSUME Steps(AfterFirstList)', NEW q \in Paths \ Listed
               PROVE  copy.baseline[q] \in Held(q)
    BY <1>1, <1>5 DEF LeftOutInv, Held
  <2>1. Steps({"listing"})
    BY <1>1 DEF Steps
  <2>2. q \notin capture.tracked /\ (q \in index \/ disk[q] = Absent)
    BY DEF Listed, Untracked
  <2>3. IF q \in index THEN copy.baseline[q] \in Held(q) ELSE copy.baseline[q] = Absent
    BY <2>1, <2>2 DEF MomentInv, FirstPassInv
  <2>4. disk[q] \in Held(q)
    BY <1>2 DEF Held
  <2> QED BY <2>2, <2>3, <2>4
<1>a. FirstPassInv' /\ SecondPassInv' /\ ComparedInv'
  BY <1>4, <1>5 DEF FirstPassInv, SecondPassInv, ComparedInv, Steps
<1> QED BY <1>6, <1>7, <1>8, <1>9, <1>a DEF MomentInv

LEMMA ReadFileStep ==
  ASSUME SubmissionAssumption, MomentInv, ReadFile
  PROVE  MomentInv'
<1> DEFINE p == Min(Remaining)
           others == UNCHANGED <<copy, disk, index, scope, reviewed, moments, returned>>
<1>1. others /\ capture.stage = "reading" /\ Remaining # {}
  BY DEF ReadFile
<1>2. /\ capture \in Captures /\ disk \in moments /\ copy.flagged = {} /\ disk \in Copies
      /\ capture.compared = {} /\ DOMAIN capture.files \subseteq Selected(capture.paths)
      /\ \A q \in DOMAIN capture.files : capture.files[q] \in Held(q)
  BY <1>1 DEF MomentInv, ShapeInv, NowInv, FilesInv, AfterFirstList, Running
<1>3. p \in Remaining
  <2>1. Remaining \in SUBSET Nat
    BY <1>2, CaptureFields DEF Remaining, Selected, SubmissionAssumption
  <2> QED BY <1>1, <2>1, MinIsIn
<1>4. p \in Selected(capture.paths) /\ p \in Paths /\ p \notin DOMAIN capture.files
  BY <1>2, <1>3, CaptureFields DEF Remaining, Selected
<1>5. \A q : Held(q)' = Held(q)
  BY <1>1 DEF Held
<1>6. CASE disk[p] \in Refused
  <2>1. capture' = [capture EXCEPT !.stage = "refused"] /\ "refused" \in Stages
    BY <1>6 DEF ReadFile, Stages
  <2>2. capture' \in Captures /\ capture'.stage = "refused"
    BY <1>2, <2>1, StageMoves
  <2>3. ShapeInv' /\ NowInv' /\ NoFilesYet'
    BY <1>1, <1>2, <2>2 DEF MomentInv, ShapeInv, NowInv, NoFilesYet, Running
  <2>4. FilesInv' /\ LeftOutInv' /\ FirstPassInv' /\ SecondPassInv' /\ ComparedInv'
    BY <2>2 DEF FilesInv, LeftOutInv, FirstPassInv, SecondPassInv, ComparedInv, Steps, AfterFirstList
  <2> QED BY <2>3, <2>4 DEF MomentInv
<1>7. CASE disk[p] \notin Refused
  <2> DEFINE more == [q \in DOMAIN capture.files \cup {p} |-> IF q = p THEN disk[p] ELSE capture.files[q]]
  <2>1. capture' = [capture EXCEPT !.files = more]
    BY <1>7 DEF ReadFile
  <2> HIDE DEF p
  <2>2. disk[p] \in Values
    BY <1>2, <1>4 DEF Copies
  <2>3. more \in [DOMAIN capture.files \cup {p} -> Values] /\ DOMAIN capture.files \cup {p} \in SUBSET Paths
    BY <1>2, <1>4, <2>2, CaptureFields
  <2>4. more \in UNION {[some -> Values] : some \in SUBSET Paths}
    BY <2>3
  <2>5. DOMAIN more = DOMAIN capture.files \cup {p} /\ \A q \in DOMAIN more : more[q] \in Held(q)
    BY <1>2 DEF Held
  <2> HIDE DEF more
  <2>6. /\ capture' \in Captures /\ capture'.stage = "reading" /\ capture'.paths = capture.paths
        /\ capture'.scope = capture.scope /\ capture'.allowed = capture.allowed
        /\ capture'.files = more /\ capture'.compared = {}
    BY <1>1, <1>2, <2>1, <2>4 DEF Captures
  <2>7. ShapeInv' /\ NowInv' /\ NoFilesYet'
    BY <1>1, <1>2, <2>6 DEF MomentInv, ShapeInv, NowInv, NoFilesYet
  <2>8. FilesInv'
    <3>1. DOMAIN more \subseteq Selected(capture.paths)
      BY <1>2, <1>4, <2>5
    <3>2. capture.paths \subseteq capture.scope \/ capture.allowed
      BY <1>1 DEF MomentInv, FilesInv, AfterFirstList
    <3>3. Selected(capture.paths)' = Selected(capture.paths)
      BY <2>6 DEF Selected
    <3> QED BY <1>5, <2>5, <2>6, <3>1, <3>2, <3>3 DEF FilesInv
  <2>9. LeftOutInv'
    BY <1>1, <1>5, <2>6 DEF MomentInv, LeftOutInv, Steps, AfterFirstList
  <2>a. FirstPassInv' /\ SecondPassInv' /\ ComparedInv'
    BY <2>6 DEF FirstPassInv, SecondPassInv, ComparedInv, Steps
  <2> QED BY <2>7, <2>8, <2>9, <2>a DEF MomentInv
<1> QED BY <1>6, <1>7

LEMMA RelistStep ==
  ASSUME MomentInv, Relist
  PROVE  MomentInv'
<1>1. /\ UNCHANGED <<copy, disk, index, scope, reviewed, moments, returned>>
      /\ capture.stage = "reading" /\ Remaining = {}
      /\ capture' = [capture EXCEPT !.stage = "relist"]
  BY DEF Relist
<1>2. capture \in Captures /\ disk \in moments /\ copy.flagged = {}
  BY <1>1 DEF MomentInv, ShapeInv, NowInv, Running
<1>3. "relist" \in Stages
  BY DEF Stages
<1>4. /\ capture' \in Captures /\ capture'.stage = "relist"
      /\ capture'.scope = capture.scope /\ capture'.allowed = capture.allowed /\ capture'.paths = capture.paths
      /\ capture'.files = capture.files /\ capture'.compared = capture.compared
  BY <1>1, <1>2, <1>3, StageMoves
<1>5. ShapeInv' /\ NowInv' /\ NoFilesYet'
  BY <1>1, <1>2, <1>4 DEF MomentInv, ShapeInv, NowInv, NoFilesYet
<1>6. \A q : Held(q)' = Held(q)
  BY <1>1 DEF Held
<1>7. FilesInv'
  <2>1. DOMAIN capture.files = Selected(capture.paths)
    BY <1>1 DEF MomentInv, FilesInv, AfterFirstList, Remaining
  <2> QED BY <1>1, <1>4, <1>6, <2>1 DEF MomentInv, FilesInv, AfterFirstList, Selected
<1>8. LeftOutInv'
  BY <1>1, <1>4, <1>6 DEF MomentInv, LeftOutInv, Steps, AfterFirstList
<1>9. FirstPassInv' /\ SecondPassInv' /\ ComparedInv'
  BY <1>4 DEF FirstPassInv, SecondPassInv, ComparedInv, Steps
<1> QED BY <1>5, <1>7, <1>8, <1>9 DEF MomentInv

\* The second list is the first one: the moment of its git diff has the baseline elsewhere.
LEMMA SecondListStep ==
  ASSUME MomentInv, SecondList
  PROVE  MomentInv'
<1> DEFINE next == IF SameList THEN "comparing" ELSE "refused"
<1>1. /\ UNCHANGED <<copy, disk, index, scope, reviewed, moments, returned>> /\ capture.stage = "relisting"
      /\ capture' = [capture EXCEPT !.stage = next] /\ next \in {"comparing", "refused"}
      /\ next = "comparing" => SameList
  BY DEF SecondList
<1> HIDE DEF next
<1>2. capture \in Captures /\ disk \in moments /\ copy.flagged = {}
  BY <1>1 DEF MomentInv, ShapeInv, NowInv, Running
<1>3. next \in Stages
  BY <1>1 DEF Stages
<1>4. /\ capture' \in Captures /\ capture'.stage = next
      /\ capture'.scope = capture.scope /\ capture'.allowed = capture.allowed /\ capture'.paths = capture.paths
      /\ capture'.files = capture.files /\ capture'.compared = capture.compared
  BY <1>1, <1>2, <1>3, StageMoves
<1>5. ShapeInv' /\ NowInv' /\ NoFilesYet'
  BY <1>1, <1>2, <1>4 DEF MomentInv, ShapeInv, NowInv, NoFilesYet
<1>6. \A q : Held(q)' = Held(q)
  BY <1>1 DEF Held
<1>7. FilesInv'
  BY <1>1, <1>4, <1>6 DEF MomentInv, FilesInv, AfterFirstList, Selected
<1>8. LeftOutInv'
  BY <1>1, <1>4, <1>6 DEF MomentInv, LeftOutInv, Steps, AfterFirstList
<1>9. FirstPassInv' /\ SecondPassInv'
  BY <1>1, <1>4 DEF FirstPassInv, SecondPassInv, Steps
<1>a. ComparedInv'
  <2> SUFFICES ASSUME Steps({"comparing", "payload", "reviewed"})' PROVE ComparedInv'
    BY DEF ComparedInv
  <2>1. Steps({"relisting"}) /\ SameList /\ capture.compared = {}
    BY <1>1, <1>4 DEF Steps, MomentInv, FilesInv, AfterFirstList
  <2>2. PICK d \in moments :
          /\ \A q \in Paths \ capture.tracked :
               IF q \in index THEN d[q] = copy.baseline[q]
               ELSE copy.baseline[q] = Absent /\ (q \in capture.paths \/ d[q] = Absent \/ disk[q] # Absent)
          /\ ReadAt(d)
    BY <2>1 DEF MomentInv, SecondPassInv
  <2>3. ASSUME NEW q \in Paths \ capture.paths PROVE d[q] = copy.baseline[q]
    <3>1. q \notin capture.tracked /\ (q \in index \/ disk[q] = Absent)
      BY <2>1, <2>3 DEF SameList, Listed, Untracked
    <3> QED BY <2>2, <2>3, <3>1
  <2>4. ReadAt(d)'
    BY <1>1, <1>4, <2>2 DEF ReadAt
  <2>5. \A q \in capture'.compared : d[q] = capture'.files[q]
    BY <1>4, <2>1
  <2> QED BY <1>1, <1>4, <2>3, <2>4, <2>5 DEF ComparedInv
<1> QED BY <1>5, <1>7, <1>8, <1>9, <1>a DEF MomentInv

\* A file that has what was read of it had it at that moment, too.
LEMMA CompareFileStep ==
  ASSUME SubmissionAssumption, MomentInv, CompareFile
  PROVE  MomentInv'
<1> DEFINE p == Min(DOMAIN capture.files \ capture.compared)
<1>1. /\ UNCHANGED <<copy, disk, index, scope, reviewed, moments, returned>> /\ capture.stage = "comparing"
      /\ capture.compared # DOMAIN capture.files
  BY DEF CompareFile
<1>2. /\ capture \in Captures /\ disk \in moments /\ copy.flagged = {}
      /\ capture.compared \subseteq DOMAIN capture.files /\ DOMAIN capture.files \subseteq Paths
  BY <1>1, CaptureFields DEF MomentInv, ShapeInv, NowInv, FilesInv, AfterFirstList, Running
<1>3. p \in DOMAIN capture.files
  <2>1. DOMAIN capture.files \ capture.compared \in SUBSET Nat /\ DOMAIN capture.files \ capture.compared # {}
    BY <1>1, <1>2 DEF SubmissionAssumption
  <2> QED BY <2>1, MinIsIn
<1>4. \A q : Held(q)' = Held(q)
  BY <1>1 DEF Held
<1>5. CASE disk[p] # capture.files[p]
  <2>1. capture' = [capture EXCEPT !.stage = "refused"] /\ "refused" \in Stages
    BY <1>5 DEF CompareFile, Stages
  <2>2. capture' \in Captures /\ capture'.stage = "refused"
    BY <1>2, <2>1, StageMoves
  <2>3. ShapeInv' /\ NowInv' /\ NoFilesYet'
    BY <1>1, <1>2, <2>2 DEF MomentInv, ShapeInv, NowInv, NoFilesYet, Running
  <2>4. FilesInv' /\ LeftOutInv' /\ FirstPassInv' /\ SecondPassInv' /\ ComparedInv'
    BY <2>2 DEF FilesInv, LeftOutInv, FirstPassInv, SecondPassInv, ComparedInv, Steps, AfterFirstList
  <2> QED BY <2>3, <2>4 DEF MomentInv
<1>6. CASE disk[p] = capture.files[p]
  <2>1. capture' = [capture EXCEPT !.compared = @ \cup {p}]
    BY <1>6 DEF CompareFile
  <2> HIDE DEF p
  <2>2. /\ capture' \in Captures /\ capture'.stage = "comparing" /\ capture'.paths = capture.paths
        /\ capture'.scope = capture.scope /\ capture'.allowed = capture.allowed
        /\ capture'.files = capture.files /\ capture'.compared = capture.compared \cup {p}
    BY <1>1, <1>2, <1>3, <2>1 DEF Captures
  <2>3. ShapeInv' /\ NowInv' /\ NoFilesYet'
    BY <1>1, <1>2, <2>2 DEF MomentInv, ShapeInv, NowInv, NoFilesYet
  <2>4. FilesInv'
    BY <1>1, <1>2, <1>3, <1>4, <2>2 DEF MomentInv, FilesInv, AfterFirstList, Selected
  <2>5. LeftOutInv'
    BY <1>1, <1>4, <2>2 DEF MomentInv, LeftOutInv, Steps, AfterFirstList
  <2>6. FirstPassInv' /\ SecondPassInv'
    BY <2>2 DEF FirstPassInv, SecondPassInv, Steps
  <2>7. ComparedInv'
    <3> SUFFICES ASSUME ~returned PROVE ComparedInv'
      BY <1>1 DEF ComparedInv, Steps
    <3>1. PICK d \in moments :
            /\ \A q \in Paths \ capture.paths : d[q] = copy.baseline[q]
            /\ ReadAt(d)
            /\ \A q \in capture.compared : d[q] = capture.files[q]
      BY <1>1 DEF MomentInv, ComparedInv, Steps
    <3>2. d[p] = capture.files[p]
      BY <1>3, <1>6, <3>1 DEF ReadAt
    <3>3. ReadAt(d)'
      BY <1>1, <2>2, <3>1 DEF ReadAt
    <3> QED BY <1>1, <2>2, <3>1, <3>2, <3>3 DEF ComparedInv
  <2> QED BY <2>3, <2>4, <2>5, <2>6, <2>7 DEF MomentInv
<1> QED BY <1>5, <1>6

LEMMA WriteStep ==
  ASSUME MomentInv, Write
  PROVE  MomentInv'
<1>1. /\ UNCHANGED <<copy, disk, index, scope, reviewed, moments, returned>>
      /\ capture.stage = "comparing" /\ capture.compared = DOMAIN capture.files
      /\ capture' = [capture EXCEPT !.stage = "payload"]
  BY DEF Write
<1>2. capture \in Captures /\ "payload" \in Stages
  BY DEF MomentInv, ShapeInv, Stages
<1>3. /\ capture' \in Captures /\ capture'.stage = "payload"
      /\ capture'.scope = capture.scope /\ capture'.allowed = capture.allowed /\ capture'.paths = capture.paths
      /\ capture'.files = capture.files /\ capture'.compared = capture.compared
  BY <1>1, <1>2, StageMoves
<1>4. ShapeInv' /\ NowInv' /\ NoFilesYet'
  BY <1>1, <1>3 DEF MomentInv, ShapeInv, NowInv, NoFilesYet, Running
<1>5. \A q : Held(q)' = Held(q)
  BY <1>1 DEF Held
<1>6. FilesInv' /\ LeftOutInv'
  BY <1>1, <1>3, <1>5 DEF MomentInv, FilesInv, LeftOutInv, Steps, AfterFirstList, Selected
<1>7. FirstPassInv' /\ SecondPassInv'
  BY <1>3 DEF FirstPassInv, SecondPassInv, Steps
<1>8. ComparedInv'
  BY <1>1, <1>3 DEF MomentInv, ComparedInv, ReadAt, Steps
<1> QED BY <1>4, <1>6, <1>7, <1>8 DEF MomentInv

LEMMA SubmitStep ==
  ASSUME MomentInv, Submit
  PROVE  MomentInv'
<1>1. UNCHANGED <<copy, disk, index, scope, moments, returned>> /\ capture.stage = "payload"
  BY DEF Submit
<1>2. capture \in Captures /\ {"reviewed", "refused"} \subseteq Stages
  BY DEF MomentInv, ShapeInv, Stages
<1>3. PICK next \in {"reviewed", "refused"} :
        /\ capture' = [capture EXCEPT !.stage = next]
        /\ IF next = "reviewed"
           THEN reviewed' = [p \in DOMAIN capture.files |-> Minimized[capture.files[p]]]
           ELSE reviewed' = reviewed
  BY DEF Submit
<1>4. /\ capture' \in Captures /\ capture'.stage = next
      /\ capture'.scope = capture.scope /\ capture'.allowed = capture.allowed /\ capture'.paths = capture.paths
      /\ capture'.files = capture.files /\ capture'.compared = capture.compared
  BY <1>2, <1>3, StageMoves
<1>5. ShapeInv' /\ NowInv' /\ NoFilesYet'
  BY <1>1, <1>3, <1>4 DEF MomentInv, ShapeInv, NowInv, NoFilesYet, Running
<1>6. \A q : Held(q)' = Held(q)
  BY <1>1 DEF Held
<1>7. FilesInv' /\ LeftOutInv'
  BY <1>1, <1>4, <1>6 DEF MomentInv, FilesInv, LeftOutInv, Steps, AfterFirstList, Selected
<1>8. FirstPassInv' /\ SecondPassInv'
  BY <1>4 DEF FirstPassInv, SecondPassInv, Steps
<1>9. ComparedInv'
  BY <1>1, <1>4 DEF MomentInv, ComparedInv, ReadAt, Steps
<1> QED BY <1>5, <1>7, <1>8, <1>9 DEF MomentInv

-----------------------------------------------------------------------------
(* The theorems.                                                           *)

LEMMA MomentInit == ASSUME SubmissionAssumption, SubmissionInit PROVE MomentInv
<1>1. PICK plan \in SubmissionPlans :
        /\ copy = [baseline |-> plan.baseline, flagged |-> plan.flagged, scopes |-> plan.scopes]
        /\ disk = plan.disk /\ index = plan.index /\ scope = plan.scope
  BY DEF SubmissionInit
<1>2. capture = Idle /\ reviewed = NoFiles /\ moments = {} /\ returned = FALSE
  BY DEF SubmissionInit
<1>3. Idle \in Captures /\ Idle.stage = "idle"
  BY NoFilesType DEF Idle, Captures, Stages
<1>4. /\ plan.baseline \in Copies /\ plan.disk \in Copies /\ plan.index \subseteq Paths
      /\ plan.flagged \subseteq Paths /\ plan.scope \subseteq Paths /\ plan.scopes \subseteq SUBSET Paths
  BY <1>1 DEF SubmissionAssumption, Copies, Values
<1>5. ShapeInv
  BY <1>1, <1>2, <1>3, <1>4 DEF ShapeInv
<1>6. NowInv /\ NoFilesYet /\ FilesInv /\ FirstPassInv /\ LeftOutInv /\ SecondPassInv /\ ComparedInv
  BY <1>2, <1>3 DEF NowInv, Running, NoFilesYet, FilesInv, FirstPassInv, LeftOutInv, SecondPassInv, ComparedInv,
                    Steps, AfterFirstList
<1> QED BY <1>5, <1>6 DEF MomentInv

\* The invariant of the capture holds always, however the working copy is edited.
THEOREM CaptureInvariant == SubmissionSpec => []MomentInv
<1> USE SubmissionHypothesis
<1>1. SubmissionInit => MomentInv
  BY MomentInit
<1>2. MomentInv /\ [SubmissionNext]_submissionVars => MomentInv'
  <2> SUFFICES ASSUME MomentInv, [SubmissionNext]_submissionVars PROVE MomentInv'
    OBVIOUS
  <2>1. CASE \E p \in Paths, content \in (Contents \ Refused) \cup {Absent} : Edit(p, content)
    BY <2>1, EditStep DEF Values
  <2>2. CASE \E p \in Paths : Add(p)
    BY <2>2, AddStep
  <2>3. CASE \E s \in copy.scopes : EditScope(s)
    BY <2>3, ScopeStep
  <2>4. CASE \E allowed \in BOOLEAN : Begin(allowed)
    BY <2>4, BeginStep
  <2>5. CASE ListTracked("start", "listing") \/ ListTracked("relist", "relisting")
    BY <2>5, ListTrackedStep
  <2>6. CASE FirstList \/ ReadFile \/ Relist \/ SecondList
    BY <2>6, FirstListStep, ReadFileStep, RelistStep, SecondListStep
  <2>7. CASE CompareFile \/ Write \/ Submit
    BY <2>7, CompareFileStep, WriteStep, SubmitStep
  <2>8. CASE UNCHANGED submissionVars
    BY <2>8 DEF submissionVars, MomentInv, ShapeInv, NowInv, Running, NoFilesYet, FilesInv, Selected, Held,
                FirstPassInv, LeftOutInv, SecondPassInv, ComparedInv, ReadAt, Steps
  <2> QED BY <2>1, <2>2, <2>3, <2>4, <2>5, <2>6, <2>7, <2>8 DEF SubmissionNext
<1> QED BY <1>1, <1>2, PTL DEF SubmissionSpec

\* The working copy, the lists and what is reviewed have their types.
THEOREM SubmissionTypes == SubmissionSpec => []SubmissionTypeOK
<1> USE SubmissionHypothesis
<1>1. MomentInv => SubmissionTypeOK
  <2> SUFFICES ASSUME MomentInv PROVE SubmissionTypeOK
    OBVIOUS
  <2>1. /\ disk \in [Paths -> Contents \cup {Absent}] /\ index \subseteq Paths /\ scope \subseteq Paths
        /\ capture \in Captures
    BY DEF MomentInv, ShapeInv, Copies, Values
  <2>2. DOMAIN reviewed \subseteq capture.scope
    <3>1. CASE capture.stage = "reviewed"
      BY <3>1 DEF MomentInv, ShapeInv, FilesInv, AfterFirstList, Selected
    <3>2. CASE capture.stage # "reviewed"
      BY <3>2, NoFilesType DEF MomentInv, ShapeInv
    <3> QED BY <3>1, <3>2
  <2> QED BY <2>1, <2>2, CaptureFields DEF SubmissionTypeOK
<1> QED BY <1>1, CaptureInvariant, PTL

\* What is reviewed is the whole working copy as it was at one moment of the capture, unless a
\* content came back or a file was added to the index between the commands of one list.
THEOREM ReviewIsOneMoment == SubmissionSpec => []ReviewedIsTheMoment
<1> USE SubmissionHypothesis
<1>1. MomentInv => ReviewedIsTheMoment
  <2> SUFFICES ASSUME MomentInv, capture.stage = "reviewed", ~returned
               PROVE  \E d \in moments : \A p \in Paths :
                        Read(p) = Minimized[d[p]] \/ (capture.allowed /\ p \notin capture.scope)
    BY DEF ReviewedIsTheMoment
  <2>1. PICK d \in moments :
          /\ \A q \in Paths \ capture.paths : d[q] = copy.baseline[q]
          /\ \A q \in capture.compared : d[q] = capture.files[q]
    BY DEF MomentInv, ComparedInv, Steps
  <2>2. /\ reviewed = [p \in DOMAIN capture.files |-> Minimized[capture.files[p]]]
        /\ capture.compared = DOMAIN capture.files /\ DOMAIN capture.files = Selected(capture.paths)
        /\ capture.paths \subseteq capture.scope \/ capture.allowed
    BY DEF MomentInv, ShapeInv, FilesInv, AfterFirstList
  <2>3. ASSUME NEW p \in Paths PROVE Read(p) = Minimized[d[p]] \/ (capture.allowed /\ p \notin capture.scope)
    <3>1. CASE p \in DOMAIN capture.files
      BY <2>1, <2>2, <3>1 DEF Read
    <3>2. CASE p \notin capture.paths
      BY <2>1, <2>2, <2>3, <3>2 DEF Read, Selected
    <3>3. CASE p \in capture.paths /\ p \notin DOMAIN capture.files
      BY <2>2, <3>3 DEF Selected
    <3> QED BY <3>1, <3>2, <3>3
  <2> QED BY <2>3
<1> QED BY <1>1, CaptureInvariant, PTL

-----------------------------------------------------------------------------
(* The pages that poll a state and write to it.  The argument: a request   *)
(* whose answer may be shown has a generation of its own, and the newest   *)
(* one was sent, and so handled, after what is shown was answered.  On the *)
(* prices no request is newer than the write that is under way; on the     *)
(* memory page the read that follows a write, or one that is newer still,  *)
(* is what it shows in the end.                                            *)

StateRequests == [type : {"read", "write", "reread"}, generation : Nat, answer : Nat \cup {None}]

\* Its answer may be shown.
Shows(r) == r.type # "write" \/ statePage = "prices"

StatesTypes ==
  /\ statePage \in {"prices", "memory"} /\ stateNow \in Nat /\ generation \in Nat
  /\ stateRequests \subseteq StateRequests /\ writing \in BOOLEAN
  /\ shownState \in Nat \cup {None} /\ wrote \in Nat /\ unread \in BOOLEAN

NewestInv ==
  /\ wrote <= stateNow
  /\ shownState # None => shownState <= stateNow
  /\ \A r \in stateRequests :
       /\ r.generation <= generation
       /\ r.answer # None => r.answer <= stateNow
       /\ Shows(r) /\ r.generation = generation /\ r.answer # None /\ shownState # None => r.answer >= shownState
  /\ \A r, q \in stateRequests :
       Shows(r) /\ Shows(q) /\ r.generation = generation /\ q.generation = generation => r = q

\* The write of the prices page is its newest request; nothing is read after it.
PricesInv == statePage = "prices" =>
  /\ \A r \in stateRequests : r.type # "reread" /\ (r.type = "write" => writing /\ r.generation = generation)
  /\ wrote > 0 => shownState # None /\ shownState >= wrote

Follows(r) == r.type # "write" /\ r.generation = generation /\ (r.answer # None => r.answer >= wrote)
MemoryInv == statePage = "memory" /\ wrote > 0 /\ ~unread =>
  \/ \E r \in stateRequests : Follows(r)
  \/ shownState # None /\ shownState >= wrote

StatesInv == StatesTypes /\ NewestInv /\ PricesInv /\ MemoryInv

LEMMA StatesStart == ASSUME StatesInit PROVE StatesInv
  <1>1. StatesTypes
    BY DEF StatesInit, StatesTypes
  <1>2. NewestInv
    BY DEF StatesInit, NewestInv
  <1>3. PricesInv /\ MemoryInv
    BY DEF StatesInit, PricesInv, MemoryInv
  <1> QED
    BY <1>1, <1>2, <1>3 DEF StatesInv

\* The other requests of a page stay as they are when one is handled.
LEMMA RequestHandled ==
  ASSUME NEW r \in StateRequests, NEW n \in Nat, NEW q, q = [r EXCEPT !.answer = n]
  PROVE  q \in StateRequests /\ q.type = r.type /\ q.generation = r.generation /\ q.answer = n
  BY DEF StateRequests

LEMMA RequestSent ==
  ASSUME NEW type \in {"read", "write", "reread"}, NEW n \in Nat
  PROVE  LET q == StateRequest(type, n) IN
           q \in StateRequests /\ q.type = type /\ q.generation = n /\ q.answer = None
  BY DEF StateRequests, StateRequest

LEMMA ChangeStateKeeps == ASSUME StatesAssumption, StatesInv, ChangeState PROVE StatesInv'
  <1>1. /\ stateNow' = stateNow + 1
        /\ UNCHANGED <<statePage, stateRequests, generation, writing, shownState, wrote, unread>>
    BY DEF ChangeState
  <1>2. stateNow \in Nat /\ stateRequests \subseteq StateRequests /\ shownState \in Nat \cup {None} /\ wrote \in Nat
    BY DEF StatesInv, StatesTypes
  <1>3. \A r \in stateRequests : r.answer # None => r.answer <= stateNow'
    BY <1>1, <1>2 DEF StatesInv, NewestInv, StateRequests
  <1>4. StatesTypes' /\ PricesInv' /\ MemoryInv'
    BY <1>1, <1>2 DEF StatesInv, StatesTypes, PricesInv, MemoryInv, Follows
  <1>5. NewestInv'
    BY <1>1, <1>2, <1>3 DEF StatesInv, NewestInv, Shows
  <1> QED
    BY <1>4, <1>5 DEF StatesInv

LEMMA HandleStateKeeps ==
  ASSUME StatesAssumption, StatesInv, NEW r \in stateRequests, HandleState(r)
  PROVE  StatesInv'
  <1> DEFINE q == [r EXCEPT !.answer = stateNow']
  <1>1. /\ r.answer = None /\ stateNow' \in {stateNow, stateNow + 1}
        /\ stateRequests' = (stateRequests \ {r}) \cup {q}
        /\ UNCHANGED <<statePage, generation, writing, shownState, wrote, unread>>
    BY DEF HandleState
  <1>2. stateNow \in Nat /\ stateRequests \subseteq StateRequests /\ shownState \in Nat \cup {None} /\ wrote \in Nat
        /\ generation \in Nat /\ wrote <= stateNow
    BY DEF StatesInv, StatesTypes, NewestInv
  <1>3. stateNow' \in Nat /\ stateNow <= stateNow' /\ wrote <= stateNow'
    BY <1>1, <1>2
  <1>4. q \in StateRequests /\ q.type = r.type /\ q.generation = r.generation /\ q.answer = stateNow'
    BY <1>2, <1>3, RequestHandled
  <1> HIDE DEF q
  <1>5. \A x \in stateRequests' : x = q \/ (x \in stateRequests /\ x # r)
    BY <1>1
  <1>6. StatesTypes'
    BY <1>1, <1>2, <1>3, <1>4 DEF StatesInv, StatesTypes
  <1>7. NewestInv'
    <2>1. \A x \in stateRequests : x.answer # None => x.answer <= stateNow'
      BY <1>2, <1>3 DEF StatesInv, NewestInv, StateRequests
    <2>2. shownState # None => shownState <= stateNow'
      BY <1>2, <1>3 DEF StatesInv, NewestInv
    <2>3. \A x \in stateRequests' :
            /\ x.generation <= generation
            /\ x.answer # None => x.answer <= stateNow'
            /\ Shows(x) /\ x.generation = generation /\ x.answer # None /\ shownState # None => x.answer >= shownState
      BY <1>2, <1>3, <1>4, <1>5, <2>1, <2>2 DEF StatesInv, NewestInv, Shows
    <2>4. \A x, y \in stateRequests' :
            Shows(x) /\ Shows(y) /\ x.generation = generation /\ y.generation = generation => x = y
      BY <1>4, <1>5 DEF StatesInv, NewestInv, Shows
    <2> QED
      BY <1>1, <1>3, <2>2, <2>3, <2>4 DEF NewestInv, Shows
  <1>8. PricesInv'
    BY <1>1, <1>4, <1>5 DEF StatesInv, PricesInv
  <1>9. MemoryInv'
    <2>1. \A x \in stateRequests : Follows(x) => \E y \in stateRequests' : Follows(y)
      BY <1>1, <1>2, <1>3, <1>4 DEF Follows
    <2> QED
      BY <1>1, <2>1 DEF StatesInv, MemoryInv, Follows
  <1> QED
    BY <1>6, <1>7, <1>8, <1>9 DEF StatesInv

LEMMA RefreshStateKeeps == ASSUME StatesAssumption, StatesInv, RefreshState PROVE StatesInv'
  <1> DEFINE q == StateRequest("read", generation + 1)
  <1>1. /\ statePage = "prices" => ~writing
        /\ generation' = generation + 1 /\ stateRequests' = stateRequests \cup {q}
        /\ UNCHANGED <<statePage, stateNow, writing, shownState, wrote, unread>>
    BY DEF RefreshState, MayRefresh
  <1>2. stateNow \in Nat /\ stateRequests \subseteq StateRequests /\ generation \in Nat
    BY DEF StatesInv, StatesTypes
  <1>3. q \in StateRequests /\ q.type = "read" /\ q.generation = generation + 1 /\ q.answer = None
    BY <1>2, RequestSent
  <1> HIDE DEF q
  <1>4. \A x \in stateRequests : x.generation \in Nat /\ x.generation <= generation
    BY <1>2 DEF StatesInv, NewestInv, StateRequests
  <1>5. StatesTypes'
    BY <1>1, <1>2, <1>3 DEF StatesInv, StatesTypes
  <1>6. \A x \in stateRequests : x.generation # generation' /\ x.generation <= generation'
    BY <1>1, <1>2, <1>4
  <1>7. NewestInv'
    BY <1>1, <1>2, <1>3, <1>6 DEF StatesInv, NewestInv, Shows
  <1>8. PricesInv'
    BY <1>1, <1>3 DEF StatesInv, PricesInv
  <1>9. MemoryInv'
    BY <1>1, <1>3 DEF StatesInv, MemoryInv, Follows
  <1> QED
    BY <1>5, <1>7, <1>8, <1>9 DEF StatesInv

LEMMA WriteStateKeeps == ASSUME StatesAssumption, StatesInv, WriteState PROVE StatesInv'
  <1> DEFINE q == StateRequest("write", generation')
  <1>1. /\ ~writing /\ writing' = TRUE
        /\ generation' = IF statePage = "prices" THEN generation + 1 ELSE generation
        /\ stateRequests' = stateRequests \cup {q}
        /\ UNCHANGED <<statePage, stateNow, shownState, wrote, unread>>
    BY DEF WriteState
  <1>2. stateNow \in Nat /\ stateRequests \subseteq StateRequests /\ generation \in Nat /\ generation' \in Nat
    BY <1>1 DEF StatesInv, StatesTypes
  <1>3. q \in StateRequests /\ q.type = "write" /\ q.generation = generation' /\ q.answer = None
    BY <1>2, RequestSent
  <1> HIDE DEF q
  <1>4. \A x \in stateRequests : x.generation \in Nat /\ x.generation <= generation
    BY <1>2 DEF StatesInv, NewestInv, StateRequests
  <1>5. StatesTypes'
    BY <1>1, <1>2, <1>3 DEF StatesInv, StatesTypes
  <1>6. CASE statePage = "prices"
    <2>1. \A x \in stateRequests : x.generation # generation' /\ x.generation <= generation'
      BY <1>1, <1>2, <1>4, <1>6
    <2>2. NewestInv'
      BY <1>1, <1>2, <1>3, <1>6, <2>1 DEF StatesInv, NewestInv, Shows
    <2>3. PricesInv' /\ MemoryInv'
      BY <1>1, <1>3, <1>6 DEF StatesInv, StatesTypes, PricesInv, MemoryInv
    <2> QED
      BY <1>5, <2>2, <2>3 DEF StatesInv
  <1>7. CASE statePage = "memory"
    <2>1. generation' = generation /\ ~Shows(q)
      BY <1>1, <1>3, <1>7 DEF Shows
    <2>2. NewestInv'
      BY <1>1, <1>2, <1>3, <1>7, <2>1 DEF StatesInv, NewestInv, Shows
    <2>3. PricesInv' /\ MemoryInv'
      BY <1>1, <1>7, <2>1 DEF StatesInv, PricesInv, MemoryInv, Follows
    <2> QED
      BY <1>5, <2>2, <2>3 DEF StatesInv
  <1> QED
    BY <1>6, <1>7 DEF StatesInv, StatesTypes

LEMMA TakeStateKeeps ==
  ASSUME StatesAssumption, StatesInv, NEW r \in stateRequests, TakeState(r)
  PROVE  StatesInv' /\ (shownState # None => shownState' # None /\ shownState' >= shownState)
  <1>1. /\ r.type # "write" /\ r.answer # None /\ stateRequests' = stateRequests \ {r}
        /\ shownState' = IF r.generation = generation THEN r.answer ELSE shownState
        /\ writing' \in {FALSE, writing} /\ (r.type = "read" => writing' = writing)
        /\ UNCHANGED <<statePage, stateNow, generation, wrote, unread>>
    BY DEF TakeState, IsNewest
  <1>2. /\ stateNow \in Nat /\ stateRequests \subseteq StateRequests /\ shownState \in Nat \cup {None}
        /\ wrote \in Nat /\ generation \in Nat /\ r.answer \in Nat /\ writing \in BOOLEAN
    BY <1>1 DEF StatesInv, StatesTypes, StateRequests
  <1>3. Shows(r) /\ r.answer <= stateNow /\ (r.generation = generation /\ shownState # None => r.answer >= shownState)
    BY <1>1 DEF StatesInv, NewestInv, Shows
  <1>4. shownState # None => shownState' # None /\ shownState' >= shownState
    BY <1>1, <1>2, <1>3
  <1>5. StatesTypes'
    BY <1>1, <1>2 DEF StatesInv, StatesTypes
  <1>6. NewestInv'
    <2>1. CASE r.generation = generation
      <3>1. \A x \in stateRequests' : ~(Shows(x) /\ x.generation = generation)
        BY <1>1, <1>3, <2>1 DEF StatesInv, NewestInv
      <3> QED
        BY <1>1, <1>3, <2>1, <3>1 DEF StatesInv, NewestInv, Shows
    <2>2. CASE r.generation # generation
      BY <1>1, <2>2 DEF StatesInv, NewestInv, Shows
    <2> QED
      BY <2>1, <2>2
  <1>7. PricesInv'
    <2>1. statePage = "prices" /\ wrote > 0 => shownState' # None /\ shownState' >= wrote
      BY <1>1, <1>2, <1>4 DEF StatesInv, PricesInv
    <2>2. ASSUME statePage = "prices", NEW x \in stateRequests, x.type = "write"
          PROVE  writing' /\ x.generation = generation
      <3>1. r.type = "read"
        BY <1>1, <1>2, <2>2 DEF StatesInv, PricesInv, StateRequests
      <3> QED
        BY <1>1, <2>2, <3>1 DEF StatesInv, PricesInv
    <2> QED
      BY <1>1, <2>1, <2>2 DEF StatesInv, PricesInv
  <1>8. MemoryInv'
    <2>1. CASE r.generation = generation
      BY <1>1, <1>2, <1>3, <1>4, <2>1 DEF StatesInv, NewestInv, MemoryInv, Follows, Shows
    <2>2. CASE r.generation # generation
      BY <1>1, <2>2 DEF StatesInv, MemoryInv, Follows
    <2> QED
      BY <2>1, <2>2
  <1> QED
    BY <1>4, <1>5, <1>6, <1>7, <1>8 DEF StatesInv

LEMMA TakeWriteKeeps ==
  ASSUME StatesAssumption, StatesInv, NEW r \in stateRequests, TakeWrite(r)
  PROVE  StatesInv' /\ (shownState # None => shownState' # None /\ shownState' >= shownState)
  <1>1. /\ r.type = "write" /\ r.answer # None /\ wrote' = r.answer /\ unread' = FALSE
        /\ UNCHANGED <<statePage, stateNow>>
    BY DEF TakeWrite
  <1>2. /\ stateNow \in Nat /\ stateRequests \subseteq StateRequests /\ shownState \in Nat \cup {None}
        /\ wrote \in Nat /\ generation \in Nat /\ r.answer \in Nat /\ writing \in BOOLEAN
    BY <1>1 DEF StatesInv, StatesTypes, StateRequests
  <1>3. r.answer <= stateNow
    BY <1>1 DEF StatesInv, NewestInv
  <1>4. CASE statePage = "prices"
    <2>1. writing /\ r.generation = generation
      BY <1>1, <1>4 DEF StatesInv, PricesInv
    <2>2. /\ shownState' = r.answer /\ writing' = FALSE /\ stateRequests' = stateRequests \ {r}
          /\ generation' = generation
      BY <1>4, <2>1 DEF TakeWrite, IsNewest
    <2>3. Shows(r) /\ (shownState # None => r.answer >= shownState)
      BY <1>1, <1>4, <2>1 DEF StatesInv, NewestInv, Shows
    <2>4. \A x \in stateRequests' : ~(Shows(x) /\ x.generation = generation) /\ x.type = "read"
      <3>1. ASSUME NEW x \in stateRequests'
            PROVE  ~(Shows(x) /\ x.generation = generation)
        BY <2>1, <2>2, <2>3 DEF StatesInv, NewestInv
      <3>2. ASSUME NEW x \in stateRequests'
            PROVE  x.type = "read"
        BY <1>2, <1>4, <2>2, <3>1 DEF StatesInv, PricesInv, Shows, StateRequests
      <3> QED
        BY <3>1, <3>2
    <2>5. StatesTypes'
      BY <1>1, <1>2, <2>2 DEF StatesInv, StatesTypes
    <2>6. NewestInv'
      BY <1>1, <1>3, <2>2, <2>4 DEF StatesInv, NewestInv, Shows
    <2>7. PricesInv' /\ MemoryInv'
      BY <1>1, <1>2, <1>4, <2>2, <2>4 DEF PricesInv, MemoryInv, StatesAssumption
    <2> QED
      BY <1>1, <1>2, <2>2, <2>3, <2>5, <2>6, <2>7 DEF StatesInv, StatesAssumption
  <1>5. CASE statePage = "memory"
    <2> DEFINE q == StateRequest("reread", generation + 1)
    <2>1. /\ generation' = generation + 1 /\ stateRequests' = (stateRequests \ {r}) \cup {q}
          /\ UNCHANGED <<writing, shownState>>
      BY <1>5 DEF TakeWrite
    <2>2. q \in StateRequests /\ q.type = "reread" /\ q.generation = generation + 1 /\ q.answer = None
      BY <1>2, RequestSent
    <2> HIDE DEF q
    <2>3. \A x \in stateRequests : x.generation # generation' /\ x.generation <= generation'
      BY <1>2, <2>1 DEF StatesInv, NewestInv, StateRequests
    <2>4. StatesTypes'
      <3>1. generation' \in Nat /\ stateRequests' \subseteq StateRequests
        BY <1>2, <2>1, <2>2
      <3>2. wrote' \in Nat /\ writing' \in BOOLEAN /\ shownState' \in Nat \cup {None} /\ unread' \in BOOLEAN
        BY <1>1, <1>2, <2>1
      <3> QED
        BY <1>1, <3>1, <3>2 DEF StatesInv, StatesTypes
    <2>5. NewestInv'
      BY <1>1, <1>2, <1>3, <2>1, <2>2, <2>3 DEF StatesInv, NewestInv, Shows
    <2>6. PricesInv'
      BY <1>1, <1>5 DEF PricesInv
    <2>7. MemoryInv'
      BY <2>1, <2>2 DEF MemoryInv, Follows
    <2> QED
      BY <1>2, <2>1, <2>4, <2>5, <2>6, <2>7 DEF StatesInv
  <1> QED
    BY <1>4, <1>5 DEF StatesInv, StatesTypes

LEMMA FailStateKeeps ==
  ASSUME StatesAssumption, StatesInv, NEW r \in stateRequests, FailState(r)
  PROVE  StatesInv'
  <1>1. /\ stateRequests' = stateRequests \ {r}
        /\ writing' = IF r.type = "read" THEN writing ELSE FALSE
        /\ unread' = (unread \/ (r.type # "write" /\ r.generation = generation))
        /\ UNCHANGED <<statePage, stateNow, generation, shownState, wrote>>
    BY DEF FailState, IsNewest
  <1>2. StatesTypes'
    BY <1>1 DEF StatesInv, StatesTypes
  <1>3. NewestInv'
    BY <1>1 DEF StatesInv, NewestInv, Shows
  <1>4. PricesInv'
    <2>1. ASSUME statePage = "prices", NEW x \in stateRequests', x.type = "write"
          PROVE  writing' /\ x.generation = generation
      <3>1. x # r /\ x \in stateRequests /\ writing /\ x.generation = generation /\ r.type # "reread"
        BY <1>1, <2>1 DEF StatesInv, PricesInv
      <3>2. r.type # "write"
        BY <2>1, <3>1 DEF StatesInv, PricesInv, NewestInv, Shows
      <3>3. r.type = "read"
        BY <3>1, <3>2 DEF StatesInv, StatesTypes, StateRequests
      <3> QED
        BY <1>1, <3>1, <3>3
    <2> QED
      BY <1>1, <2>1 DEF StatesInv, PricesInv
  <1>5. MemoryInv'
    BY <1>1 DEF StatesInv, MemoryInv, Follows
  <1> QED
    BY <1>2, <1>3, <1>4, <1>5 DEF StatesInv

LEMMA StatesKeep ==
  ASSUME StatesAssumption, StatesInv, [StatesNext]_statesVars
  PROVE  StatesInv'
  <1>1. CASE UNCHANGED statesVars
    BY <1>1 DEF statesVars, StatesInv, StatesTypes, NewestInv, PricesInv, MemoryInv, Shows, Follows
  <1>2. CASE ChangeState \/ RefreshState \/ WriteState
    BY <1>2, ChangeStateKeeps, RefreshStateKeeps, WriteStateKeeps
  <1>3. ASSUME NEW r \in stateRequests, HandleState(r) \/ TakeState(r) \/ TakeWrite(r) \/ FailState(r)
        PROVE  StatesInv'
    BY <1>3, HandleStateKeeps, TakeStateKeeps, TakeWriteKeeps, FailStateKeeps
  <1> QED
    BY <1>1, <1>2, <1>3 DEF StatesNext

LEMMA ShownStateAdvances ==
  ASSUME StatesAssumption, StatesInv, [StatesNext]_statesVars, shownState # None
  PROVE  shownState' # None /\ shownState' >= shownState
  <1>1. shownState \in Nat
    BY DEF StatesInv, StatesTypes
  <1>2. ASSUME NEW r \in stateRequests, TakeState(r) \/ TakeWrite(r)
        PROVE  shownState' # None /\ shownState' >= shownState
    BY <1>2, TakeStateKeeps, TakeWriteKeeps
  <1>3. CASE ~(\E r \in stateRequests : TakeState(r) \/ TakeWrite(r))
    <2>1. shownState' = shownState
      BY <1>3 DEF StatesNext, statesVars, ChangeState, RefreshState, WriteState, HandleState, FailState
    <2> QED
      BY <1>1, <2>1
  <1> QED
    BY <1>2, <1>3

LEMMA WriteIsShown == ASSUME StatesInv PROVE OwnWriteShown
  BY DEF StatesInv, StatesTypes, PricesInv, MemoryInv, OwnWriteShown

\* The pages that poll a state: every request is of a generation, the newest one that may be
\* shown is newer than what is shown, and after a write the newest one will bring it.
THEOREM StatesInvariant == StatesSpec => []StatesInv
  <1>1. StatesInit => StatesInv
    BY StatesStart
  <1>2. StatesInv /\ [StatesNext]_statesVars => StatesInv'
    BY StatesKeep, StatesHypothesis
  <1> QED
    BY <1>1, <1>2, PTL DEF StatesSpec

-----------------------------------------------------------------------------
(* The pages that read what the reader selects.  The argument: only one    *)
(* read belongs to the effect that runs, it was sent for what is selected  *)
(* and handled after what is shown was; and the opening of the newest      *)
(* version is that of the document that is wanted.                         *)

PageReads == [key : {"knowledge", "analysis"}, effect : Nat, answer : Nat]
Shown == [key : {"knowledge", "analysis"}, version : Nat]
Openings == [source : Documents, run : Nat \cup {None}, version : Nat]

QueriesTypes ==
  /\ query \in {"graph", "trends", "activity"} /\ latest \in Nat /\ key \in {"knowledge", "analysis"} /\ effect \in Nat
  /\ pageReads \subseteq PageReads /\ openings \subseteq Openings
  /\ shownAnswer # None => shownAnswer \in Shown
  /\ sourceVersion \in Nat /\ analysisId \in Nat \cup {None}
  /\ document # None => document \in [source : Documents, run : Nat \cup {None}]

ReadsInv ==
  /\ shownAnswer # None => shownAnswer.key = key /\ shownAnswer.version <= latest
  /\ \A r \in pageReads :
       /\ r.effect <= effect /\ r.answer <= latest
       /\ r.effect = effect => r.key = key
       /\ r.effect = effect /\ r.answer # 0 /\ shownAnswer # None => r.answer >= shownAnswer.version
  /\ \A r, q \in pageReads : r.effect = effect /\ q.effect = effect => r = q

DocumentInv ==
  /\ \A o \in openings :
       /\ o.version <= sourceVersion
       /\ o.version = sourceVersion => wanted = [source |-> o.source, run |-> o.run]
  /\ \A o, p \in openings : o.version = sourceVersion /\ p.version = sourceVersion => o = p
  /\ document # None => wanted # None
  /\ document # None /\ ~failed /\ (\A o \in openings : o.version # sourceVersion) =>
       document = wanted /\ analysisId = document.run

QueriesInv == QueriesTypes /\ ReadsInv /\ DocumentInv

LEMMA QueriesStart == ASSUME QueriesInit PROVE QueriesInv
  <1>1. key = "knowledge" /\ effect = 1 /\ pageReads = {[key |-> "knowledge", effect |-> 1, answer |-> 0]}
    BY DEF QueriesInit, PageRead
  <1>2. QueriesTypes
    BY <1>1 DEF QueriesInit, QueriesTypes, PageReads
  <1>3. ReadsInv
    BY <1>1 DEF QueriesInit, ReadsInv
  <1>4. DocumentInv
    BY DEF QueriesInit, DocumentInv
  <1> QED
    BY <1>2, <1>3, <1>4 DEF QueriesInv

\* A read is sent for the effect that runs from now on.
LEMMA ReadSent ==
  ASSUME NEW k \in {"knowledge", "analysis"}, NEW n \in Nat
  PROVE  PageRead(k, n) \in PageReads /\ PageRead(k, n).key = k /\ PageRead(k, n).effect = n /\ PageRead(k, n).answer = 0
  BY DEF PageReads, PageRead

\* Steps that leave the documents alone, and steps that leave the reads alone.
LEMMA DocumentsStay == ASSUME DocumentInv, UNCHANGED documentState PROVE DocumentInv'
  BY DEF DocumentInv, documentState

LEMMA ReadsStay == ASSUME ReadsInv, UNCHANGED <<latest, readingState>> PROVE ReadsInv'
  BY DEF ReadsInv, readingState

LEMMA ChangeAnswerKeeps == ASSUME QueriesInv, ChangeAnswer PROVE QueriesInv'
  <1>1. latest' = latest + 1 /\ UNCHANGED <<query, readingState, documentState>>
    BY DEF ChangeAnswer
  <1>2. latest \in Nat /\ pageReads \subseteq PageReads /\ (shownAnswer # None => shownAnswer.version \in Nat)
    BY DEF QueriesInv, QueriesTypes, Shown
  <1>3. QueriesTypes'
    BY <1>1, <1>2 DEF QueriesInv, QueriesTypes, readingState, documentState
  <1>4. \A r \in pageReads : r.answer <= latest'
    BY <1>1, <1>2 DEF QueriesInv, ReadsInv, PageReads
  <1>5. ReadsInv'
    BY <1>1, <1>2, <1>4 DEF QueriesInv, ReadsInv, readingState
  <1> QED
    BY <1>1, <1>3, <1>5, DocumentsStay DEF QueriesInv

LEMMA HandleQueryKeeps == ASSUME QueriesInv, NEW r \in pageReads, HandleQuery(r) PROVE QueriesInv'
  <1> DEFINE q == [r EXCEPT !.answer = latest]
  <1>1. /\ r.answer = 0 /\ pageReads' = (pageReads \ {r}) \cup {q}
        /\ UNCHANGED <<query, latest, key, effect, shownAnswer, documentState>>
    BY DEF HandleQuery
  <1>2. latest \in Nat /\ pageReads \subseteq PageReads
    BY DEF QueriesInv, QueriesTypes
  <1>3. q \in PageReads /\ q.key = r.key /\ q.effect = r.effect /\ q.answer = latest
    BY <1>2 DEF PageReads
  <1> HIDE DEF q
  <1>4. QueriesTypes'
    BY <1>1, <1>2, <1>3 DEF QueriesInv, QueriesTypes, documentState
  <1>5. ReadsInv'
    <2>1. \A x \in pageReads' : x = q \/ (x \in pageReads /\ x # r)
      BY <1>1
    <2>2. \A x \in pageReads' :
            /\ x.effect <= effect /\ x.answer <= latest
            /\ x.effect = effect => x.key = key
            /\ x.effect = effect /\ x.answer # 0 /\ shownAnswer # None => x.answer >= shownAnswer.version
      <3>1. shownAnswer # None => shownAnswer.version <= latest /\ shownAnswer.version \in Nat
        BY DEF QueriesInv, QueriesTypes, ReadsInv, Shown
      <3> QED
        BY <1>2, <1>3, <2>1, <3>1 DEF QueriesInv, ReadsInv
    <2>3. \A x, y \in pageReads' : x.effect = effect /\ y.effect = effect => x = y
      BY <1>3, <2>1 DEF QueriesInv, ReadsInv
    <2> QED
      BY <1>1, <2>2, <2>3 DEF QueriesInv, ReadsInv
  <1> QED
    BY <1>1, <1>4, <1>5, DocumentsStay DEF QueriesInv

\* A read that is sent in a new effect is the only one of it.
LEMMA NewEffectKeeps ==
  ASSUME QueriesInv, NEW k \in {"knowledge", "analysis"}, effect' = effect + 1, key' = k, latest' = latest,
         pageReads' = pageReads \cup {PageRead(k, effect + 1)},
         shownAnswer' = None \/ (shownAnswer' = shownAnswer /\ k = key)
  PROVE  ReadsInv' /\ pageReads' \subseteq PageReads /\ effect' \in Nat
  <1> DEFINE q == PageRead(k, effect + 1)
  <1>1. effect \in Nat /\ latest \in Nat /\ pageReads \subseteq PageReads
    BY DEF QueriesInv, QueriesTypes
  <1>2. q \in PageReads /\ q.key = k /\ q.effect = effect + 1 /\ q.answer = 0
    BY <1>1, ReadSent
  <1>3. pageReads' = pageReads \cup {q}
    OBVIOUS
  <1> HIDE DEF q
  <1>4. \A x \in pageReads : x.effect # effect' /\ x.effect <= effect' /\ x.answer <= latest
    BY <1>1 DEF QueriesInv, ReadsInv, PageReads
  <1>5. ReadsInv'
    BY <1>1, <1>2, <1>3, <1>4 DEF QueriesInv, ReadsInv
  <1> QED
    BY <1>1, <1>2, <1>3, <1>5

LEMMA SelectViewKeeps ==
  ASSUME QueriesInv, NEW k \in {"knowledge", "analysis"}, SelectView(k)
  PROVE  QueriesInv'
  <1>1. /\ key' = k /\ effect' = effect + 1 /\ pageReads' = pageReads \cup {PageRead(k, effect + 1)}
        /\ shownAnswer' = None /\ document' = None /\ sourceVersion' = sourceVersion + 1
        /\ analysisId' = None /\ wanted' = None /\ UNCHANGED <<query, latest, openings, failed>>
    BY DEF SelectView
  <1>2. ReadsInv' /\ pageReads' \subseteq PageReads /\ effect' \in Nat
    BY <1>1, NewEffectKeeps
  <1>3. QueriesTypes'
    BY <1>1, <1>2 DEF QueriesInv, QueriesTypes
  <1>4. sourceVersion \in Nat /\ openings \subseteq Openings
    BY DEF QueriesInv, QueriesTypes
  <1>5. \A o \in openings : o.version <= sourceVersion' /\ o.version # sourceVersion'
    BY <1>1, <1>4 DEF QueriesInv, DocumentInv, Openings
  <1>6. DocumentInv'
    BY <1>1, <1>5 DEF DocumentInv
  <1> QED
    BY <1>2, <1>3, <1>6 DEF QueriesInv

LEMMA RefreshViewKeeps == ASSUME QueriesInv, RefreshView PROVE QueriesInv'
  <1>1. /\ effect' = effect + 1 /\ pageReads' = pageReads \cup {PageRead(key, effect + 1)}
        /\ UNCHANGED <<query, latest, key, shownAnswer, documentState>>
    BY DEF RefreshView
  <1>2. key \in {"knowledge", "analysis"}
    BY DEF QueriesInv, QueriesTypes
  <1>3. ReadsInv' /\ pageReads' \subseteq PageReads /\ effect' \in Nat
    BY <1>1, <1>2, NewEffectKeeps
  <1>4. QueriesTypes'
    BY <1>1, <1>3 DEF QueriesInv, QueriesTypes, documentState
  <1> QED
    BY <1>1, <1>3, <1>4, DocumentsStay DEF QueriesInv

LEMMA PollViewKeeps == ASSUME QueriesInv, PollView PROVE QueriesInv'
  <1> DEFINE q == PageRead(key, effect)
  <1>1. /\ \A r \in pageReads : r.effect # effect
        /\ pageReads' = pageReads \cup {q}
        /\ UNCHANGED <<query, latest, key, effect, shownAnswer, documentState>>
    BY DEF PollView, MayPoll
  <1>2. effect \in Nat /\ latest \in Nat /\ key \in {"knowledge", "analysis"} /\ pageReads \subseteq PageReads
    BY DEF QueriesInv, QueriesTypes
  <1>3. q \in PageReads /\ q.key = key /\ q.effect = effect /\ q.answer = 0
    BY <1>2, ReadSent
  <1> HIDE DEF q
  <1>4. QueriesTypes'
    BY <1>1, <1>2, <1>3 DEF QueriesInv, QueriesTypes, documentState
  <1>5. ReadsInv'
    BY <1>1, <1>2, <1>3 DEF QueriesInv, ReadsInv
  <1> QED
    BY <1>1, <1>4, <1>5, DocumentsStay DEF QueriesInv

\* What is taken answers what is selected and is no older than what was shown.
Advanced ==
  shownAnswer' # None =>
    /\ shownAnswer'.key = key'
    /\ shownAnswer # None /\ key' = key => shownAnswer'.version >= shownAnswer.version

LEMMA TakeAnswerKeeps ==
  ASSUME QueriesInv, NEW r \in pageReads, TakeAnswer(r)
  PROVE  QueriesInv' /\ Advanced
  <1>1. /\ r.answer # 0 /\ pageReads' = pageReads \ {r}
        /\ shownAnswer' = IF r.effect = effect THEN [key |-> r.key, version |-> r.answer] ELSE shownAnswer
        /\ UNCHANGED <<query, latest, key, effect, documentState>>
    BY DEF TakeAnswer, IsCurrent
  <1>2. r \in PageReads /\ latest \in Nat /\ pageReads \subseteq PageReads /\ (shownAnswer # None => shownAnswer \in Shown)
    BY DEF QueriesInv, QueriesTypes
  <1>3. CASE r.effect = effect
    <2>1. shownAnswer' = [key |-> r.key, version |-> r.answer]
      BY <1>1, <1>3
    <2>2. shownAnswer' \in Shown /\ shownAnswer'.key = r.key /\ shownAnswer'.version = r.answer
      BY <1>2, <2>1 DEF Shown, PageReads
    <2>3. QueriesTypes'
      BY <1>1, <1>2, <2>2 DEF QueriesInv, QueriesTypes, documentState
    <2>4. \A x \in pageReads' : x.effect # effect
      BY <1>1, <1>3 DEF QueriesInv, ReadsInv
    <2>5. r.key = key /\ r.answer <= latest /\ (shownAnswer # None => r.answer >= shownAnswer.version)
      BY <1>1, <1>3 DEF QueriesInv, ReadsInv
    <2>6. ReadsInv'
      BY <1>1, <2>2, <2>4, <2>5 DEF QueriesInv, ReadsInv
    <2> QED
      BY <1>1, <2>2, <2>3, <2>5, <2>6, DocumentsStay DEF QueriesInv, Advanced
  <1>4. CASE r.effect # effect
    <2>1. shownAnswer' = shownAnswer
      BY <1>1, <1>4
    <2>2. QueriesTypes' /\ ReadsInv'
      BY <1>1, <1>2, <2>1 DEF QueriesInv, QueriesTypes, ReadsInv, documentState
    <2>3. Advanced
      BY <1>1, <1>2, <2>1 DEF QueriesInv, ReadsInv, Advanced, Shown
    <2> QED
      BY <1>1, <2>2, <2>3, DocumentsStay DEF QueriesInv
  <1> QED
    BY <1>3, <1>4

LEMMA FailAnswerKeeps == ASSUME QueriesInv, NEW r \in pageReads, FailAnswer(r) PROVE QueriesInv'
  <1>1. pageReads' = pageReads \ {r} /\ UNCHANGED <<query, latest, key, effect, shownAnswer, documentState>>
    BY DEF FailAnswer
  <1>2. QueriesTypes' /\ ReadsInv'
    BY <1>1 DEF QueriesInv, QueriesTypes, ReadsInv, documentState
  <1> QED
    BY <1>1, <1>2, DocumentsStay DEF QueriesInv

\* What was asked for last is the only opening of the newest version.
LEMMA OpenKeeps ==
  ASSUME QueriesAssumption, QueriesInv, NEW source \in Documents, NEW run \in Nat \cup {None}, Open(source, run),
         analysisId' \in Nat \cup {None}
  PROVE  QueriesInv'
  <1> DEFINE n == sourceVersion + 1
             p == [source |-> source, run |-> run, version |-> n]
             w == [source |-> source, run |-> run]
  <1>1. /\ sourceVersion' = n /\ openings' = openings \cup {p} /\ wanted' = w /\ failed' = FALSE
        /\ UNCHANGED <<query, latest, readingState, document>>
    BY DEF Open
  <1>2. sourceVersion \in Nat /\ openings \subseteq Openings /\ n \in Nat
    BY DEF QueriesInv, QueriesTypes
  <1>3. p \in Openings /\ p.version = n /\ w = [source |-> p.source, run |-> p.run] /\ w # None
    BY <1>2 DEF Openings, QueriesAssumption
  <1>4. \A o \in openings : o.version <= n /\ o.version # n
    BY <1>2 DEF QueriesInv, DocumentInv, Openings
  <1> HIDE DEF n, p, w
  <1>5. QueriesTypes'
    BY <1>1, <1>2, <1>3 DEF QueriesInv, QueriesTypes, readingState
  <1>6. DocumentInv'
    <2>1. p \in openings' /\ \A o \in openings' : o = p \/ o \in openings
      BY <1>1
    <2>2. \A o \in openings' : o.version <= n /\ (o.version = n => o = p)
      BY <1>2, <1>3, <1>4, <2>1
    <2> QED
      BY <1>1, <1>3, <2>1, <2>2 DEF DocumentInv
  <1> QED
    BY <1>1, <1>5, <1>6, ReadsStay DEF QueriesInv

LEMMA OpenNodeKeeps ==
  ASSUME QueriesAssumption, QueriesInv, NEW source \in Documents, OpenNode(source)
  PROVE  QueriesInv'
  <1>1. /\ shownAnswer # None /\ Open(source, analysisId')
        /\ analysisId' = IF shownAnswer.key = "analysis" THEN shownAnswer.version ELSE None
    BY DEF OpenNode
  <1>2. analysisId' \in Nat \cup {None}
    BY <1>1 DEF QueriesInv, QueriesTypes, Shown
  <1> QED
    BY <1>1, <1>2, OpenKeeps

LEMMA OpenLinkKeeps ==
  ASSUME QueriesAssumption, QueriesInv, NEW source \in Documents, OpenLink(source)
  PROVE  QueriesInv'
  <1>1. Open(source, analysisId) /\ analysisId' = analysisId /\ analysisId \in Nat \cup {None}
    BY DEF OpenLink, QueriesInv, QueriesTypes
  <1> QED
    BY <1>1, OpenKeeps

LEMMA OpenedKeeps ==
  ASSUME QueriesAssumption, QueriesInv, NEW o \in openings, Opened(o)
  PROVE  QueriesInv'
  <1> DEFINE w == [source |-> o.source, run |-> o.run]
  <1>1. openings' = openings \ {o} /\ UNCHANGED <<query, latest, readingState, sourceVersion, wanted, failed>>
    BY DEF Opened
  <1>2. o \in Openings /\ w \in [source : Documents, run : Nat \cup {None}] /\ w.run = o.run /\ w # None
    BY DEF QueriesInv, QueriesTypes, Openings, QueriesAssumption
  <1>3. CASE o.version = sourceVersion
    <2>1. analysisId' = o.run /\ document' = w
      BY <1>3 DEF Opened, IsLatest
    <2>2. wanted = w /\ \A x \in openings' : x.version # sourceVersion
      BY <1>1, <1>3 DEF QueriesInv, DocumentInv
    <2>3. o.run \in Nat \cup {None}
      BY <1>2 DEF Openings
    <2> HIDE DEF w
    <2>4. QueriesTypes'
      BY <1>1, <1>2, <2>1, <2>3 DEF QueriesInv, QueriesTypes, readingState
    <2>5. DocumentInv'
      BY <1>1, <1>2, <2>1, <2>2 DEF QueriesInv, DocumentInv
    <2> QED
      BY <1>1, <2>4, <2>5, ReadsStay DEF QueriesInv
  <1>4. CASE o.version # sourceVersion
    <2>1. UNCHANGED <<analysisId, document>>
      BY <1>4 DEF Opened, IsLatest
    <2>2. QueriesTypes' /\ DocumentInv'
      BY <1>1, <1>4, <2>1 DEF QueriesInv, QueriesTypes, DocumentInv, readingState
    <2> QED
      BY <1>1, <2>2, ReadsStay DEF QueriesInv
  <1> QED
    BY <1>3, <1>4

LEMMA OpenFailsKeeps == ASSUME QueriesInv, NEW o \in openings, OpenFails(o) PROVE QueriesInv'
  <1>1. /\ openings' = openings \ {o} /\ failed' = (failed \/ o.version = sourceVersion)
        /\ UNCHANGED <<query, latest, readingState, document, sourceVersion, analysisId, wanted>>
    BY DEF OpenFails, IsLatest
  <1>2. QueriesTypes'
    BY <1>1 DEF QueriesInv, QueriesTypes, readingState
  <1>3. DocumentInv'
    BY <1>1 DEF QueriesInv, DocumentInv
  <1> QED
    BY <1>1, <1>2, <1>3, ReadsStay DEF QueriesInv

LEMMA CloseDocumentKeeps == ASSUME QueriesInv, CloseDocument PROVE QueriesInv'
  <1>1. /\ document' = None /\ sourceVersion' = sourceVersion + 1 /\ wanted' = None
        /\ UNCHANGED <<query, latest, readingState, openings, analysisId, failed>>
    BY DEF CloseDocument
  <1>2. sourceVersion \in Nat /\ openings \subseteq Openings
    BY DEF QueriesInv, QueriesTypes
  <1>3. \A o \in openings : o.version <= sourceVersion' /\ o.version # sourceVersion'
    BY <1>1, <1>2 DEF QueriesInv, DocumentInv, Openings
  <1>4. QueriesTypes' /\ DocumentInv'
    BY <1>1, <1>3 DEF QueriesInv, QueriesTypes, DocumentInv, readingState
  <1> QED
    BY <1>1, <1>4, ReadsStay DEF QueriesInv

LEMMA QueriesKeep ==
  ASSUME QueriesAssumption, QueriesInv, [QueriesNext]_queryVars
  PROVE  QueriesInv'
  <1>1. CASE UNCHANGED queryVars
    BY <1>1 DEF queryVars, QueriesInv, QueriesTypes, ReadsInv, DocumentInv
  <1>2. CASE ChangeAnswer \/ RefreshView \/ PollView \/ CloseDocument
    BY <1>2, ChangeAnswerKeeps, RefreshViewKeeps, PollViewKeeps, CloseDocumentKeeps
  <1>3. ASSUME NEW k \in {"knowledge", "analysis"}, SelectView(k)
        PROVE  QueriesInv'
    BY <1>3, SelectViewKeeps
  <1>4. ASSUME NEW r \in pageReads, HandleQuery(r) \/ TakeAnswer(r) \/ FailAnswer(r)
        PROVE  QueriesInv'
    BY <1>4, HandleQueryKeeps, TakeAnswerKeeps, FailAnswerKeeps
  <1>5. ASSUME NEW source \in Documents, OpenNode(source) \/ OpenLink(source)
        PROVE  QueriesInv'
    BY <1>5, OpenNodeKeeps, OpenLinkKeeps
  <1>6. ASSUME NEW o \in openings, Opened(o) \/ OpenFails(o)
        PROVE  QueriesInv'
    BY <1>6, OpenedKeeps, OpenFailsKeeps
  <1> QED
    BY <1>1, <1>2, <1>3, <1>4, <1>5, <1>6 DEF QueriesNext

LEMMA AnswersAdvanceStep ==
  ASSUME QueriesInv, [QueriesNext]_queryVars
  PROVE  Advanced
  <1>1. shownAnswer # None => shownAnswer.key = key /\ shownAnswer.version \in Nat
    BY DEF QueriesInv, QueriesTypes, ReadsInv, Shown
  <1>2. ASSUME NEW r \in pageReads, TakeAnswer(r)
        PROVE  Advanced
    BY <1>2, TakeAnswerKeeps
  <1>3. ASSUME NEW k \in {"knowledge", "analysis"}, SelectView(k)
        PROVE  Advanced
    BY <1>3 DEF SelectView, Advanced
  <1>4. CASE UNCHANGED <<key, shownAnswer>>
    BY <1>1, <1>4 DEF Advanced
  <1>5. CASE UNCHANGED queryVars
    BY <1>4, <1>5 DEF queryVars
  <1>6. CASE ChangeAnswer \/ RefreshView \/ PollView \/ CloseDocument
    BY <1>4, <1>6 DEF ChangeAnswer, RefreshView, PollView, CloseDocument, readingState
  <1>7. ASSUME NEW r \in pageReads, HandleQuery(r) \/ FailAnswer(r)
        PROVE  Advanced
    BY <1>4, <1>7 DEF HandleQuery, FailAnswer
  <1>8. ASSUME NEW source \in Documents, OpenNode(source) \/ OpenLink(source)
        PROVE  Advanced
    BY <1>4, <1>8 DEF OpenNode, OpenLink, Open, readingState
  <1>9. ASSUME NEW o \in openings, Opened(o) \/ OpenFails(o)
        PROVE  Advanced
    BY <1>4, <1>9 DEF Opened, OpenFails, readingState
  <1> QED
    BY <1>2, <1>3, <1>5, <1>6, <1>7, <1>8, <1>9 DEF QueriesNext

LEMMA LatestIsShown == ASSUME QueriesInv PROVE DocumentIsLatest
  BY DEF QueriesInv, DocumentInv, DocumentIsLatest

\* The pages that read what is selected: one read belongs to the effect that runs, and the
\* newest opening is that of the document that is wanted.
THEOREM QueriesInvariant == QueriesSpec => []QueriesInv
  <1>1. QueriesInit => QueriesInv
    BY QueriesStart
  <1>2. QueriesInv /\ [QueriesNext]_queryVars => QueriesInv'
    BY QueriesKeep, QueriesHypothesis
  <1> QED
    BY <1>1, <1>2, PTL DEF QueriesSpec

-----------------------------------------------------------------------------
(* The page of the analyses.  The argument: a list that is still taken was *)
(* asked for after the last answer of a start, so the server had every     *)
(* analysis that was started here when it was read; only one request for   *)
(* details is the newest, and it was sent, and so handled, after what is   *)
(* shown was answered.                                                     *)

Runs == Analyses \cup {None}
Lists == [Analyses -> Nat]
Calls == [kind : {"list", "detail", "start", "review"}, run : Runs, version : Nat, answer : {None} \cup Nat \cup Lists,
          last : BOOLEAN]
Exist == {r \in Analyses : saved[r] > 0}

AnalysesTypes ==
  /\ saved \in Lists /\ calls \subseteq Calls /\ list \in {None} \cup Lists
  /\ stateVersion \in Nat /\ detailVersion \in Nat /\ mine \subseteq Analyses
  /\ selected \in Runs /\ detailError \in Runs
  /\ loaded # None => loaded \in [run : Analyses, version : Nat]

ListSound(c) ==
  /\ c.version <= stateVersion
  /\ c.answer # None =>
       /\ c.answer \in Lists /\ InList(c.answer) \subseteq Exist
       /\ c.version = stateVersion => mine \subseteq InList(c.answer)

DetailSound(c) ==
  /\ c.run \in Exist /\ c.version <= detailVersion
  /\ c.answer # None =>
       /\ c.answer \in Nat /\ c.answer <= saved[c.run]
       /\ c.version = detailVersion /\ loaded # None /\ loaded.run = c.run => c.answer >= loaded.version

StartSound(c) ==
  /\ list # None
  /\ c.answer = None => \E r \in Analyses : saved[r] = 0
  /\ c.answer # None => c.answer \in Exist

CallSound(c) ==
  /\ c.kind = "list" => ListSound(c)
  /\ c.kind = "detail" => DetailSound(c)
  /\ c.kind = "start" => StartSound(c)
  /\ c.kind = "review" => c.run \in Exist

\* One request for details is the newest, one request ends the action.
CallsInv ==
  /\ \A c, d \in calls :
       c.kind = "detail" /\ d.kind = "detail" /\ c.version = detailVersion /\ d.version = detailVersion => c = d
  /\ \A c, d \in calls : c.last /\ d.last => c = d
  /\ \A c \in calls : (c.kind \in {"start", "review"} => c.last) /\ (c.last => action # None)

PageInv ==
  /\ mine \subseteq InList(list) /\ InList(list) \subseteq Exist
  /\ loaded # None => loaded.run \in Exist /\ loaded.version <= saved[loaded.run]

AnalysesInv == AnalysesTypes /\ (\A c \in calls : CallSound(c)) /\ CallsInv /\ PageInv

LEMMA AnalysesAreNumbers == ASSUME AnalysesAssumption PROVE Analyses \subseteq Nat /\ Analyses # {} /\ None \notin Analyses
  BY DEF AnalysesAssumption

\* Some number of a set is the largest.
LEMMA NewestIsIn == ASSUME AnalysesAssumption, NEW S \in SUBSET Analyses, S # {} PROVE Max(S) \in S
  <1>1. PICK n \in Nat : Analyses = 1..n
    BY DEF AnalysesAssumption
  <1> DEFINE R == {pair \in Nat \X Nat : pair[1] < pair[2]}
             T == {n - x : x \in S}
  <1>2. IsWellFoundedOn(R, Nat)
    BY NatLessThanWellFounded DEF OpToRel
  <1>3. T \in SUBSET Nat /\ T # {}
    <2>1. \A x \in S : n - x \in Nat
      BY <1>1
    <2> QED
      BY <2>1
  <1> HIDE DEF R, T
  <1>4. PICK t \in T : \A u \in T : <<u, t>> \notin R
    BY <1>2, <1>3, WFMin
  <1>5. PICK x \in S : t = n - x
    BY <1>4 DEF T
  <1>6. ASSUME NEW y \in S
        PROVE  x >= y
    <2>1. n - y \in T /\ n - y \in Nat /\ t \in Nat
      BY <1>1, <1>3 DEF T
    <2>2. ~(n - y < t)
      BY <1>4, <2>1 DEF R
    <2> QED
      BY <1>1, <1>5, <2>2
  <1> QED
    BY <1>6 DEF Max

LEMMA OldestIsIn == ASSUME AnalysesAssumption, NEW S \in SUBSET Analyses, S # {} PROVE Min(S) \in S
  <1> DEFINE R == {pair \in Nat \X Nat : pair[1] < pair[2]}
  <1>1. IsWellFoundedOn(R, Nat)
    BY NatLessThanWellFounded DEF OpToRel
  <1>2. S \subseteq Nat
    BY AnalysesAreNumbers
  <1> HIDE DEF R
  <1>3. PICK x \in S : \A y \in S : <<y, x>> \notin R
    BY <1>1, <1>2, WFMin
  <1>4. \A y \in S : y < x => <<y, x>> \in R
    BY <1>2 DEF R
  <1>5. \A y \in S : ~(y < x)
    BY <1>3, <1>4
  <1>6. \A y \in S : x <= y
    BY <1>2, <1>5
  <1> QED
    BY <1>6 DEF Min

\* What is selected is in the list.
LEMMA SelectionIsListed ==
  ASSUME AnalysesAssumption, NEW known, NEW choice, SelectedRun(known, choice) # None
  PROVE  SelectedRun(known, choice) \in InList(known)
  <1>1. InList(known) \in SUBSET Analyses
    BY DEF InList
  <1> QED
    BY <1>1, NewestIsIn DEF SelectedRun

LEMMA AnalysesStart == ASSUME AnalysesAssumption, AnalysesInit PROVE AnalysesInv
  <1>1. AnalysesTypes
    BY AnalysesAreNumbers DEF AnalysesInit, AnalysesTypes, Lists, Runs
  <1>2. CallsInv /\ PageInv
    BY DEF AnalysesInit, CallsInv, PageInv, InList
  <1> QED
    BY <1>1, <1>2 DEF AnalysesInit, AnalysesInv

\* A request keeps everything but its answer.
LEMMA AnswerGiven ==
  ASSUME NEW K, NEW R, NEW V, NEW A, NEW L,
         NEW c \in [kind : K, run : R, version : V, answer : A, last : L], NEW a \in A
  PROVE  LET q == [c EXCEPT !.answer = a] IN
           /\ q \in [kind : K, run : R, version : V, answer : A, last : L]
           /\ q.kind = c.kind /\ q.run = c.run /\ q.version = c.version /\ q.answer = a /\ q.last = c.last
  OBVIOUS

LEMMA CallAnswered ==
  ASSUME NEW c \in Calls, NEW a \in {None} \cup Nat \cup Lists
  PROVE  LET q == [c EXCEPT !.answer = a] IN
           /\ q \in Calls
           /\ q.kind = c.kind /\ q.run = c.run /\ q.version = c.version /\ q.answer = a /\ q.last = c.last
  BY AnswerGiven DEF Calls

LEMMA CallMade ==
  ASSUME NEW kind \in {"list", "detail", "start", "review"}, NEW run \in Runs, NEW n \in Nat, NEW last \in BOOLEAN
  PROVE  [kind |-> kind, run |-> run, version |-> n, answer |-> None, last |-> last] \in Calls
  BY DEF Calls

LEMMA CallSent ==
  ASSUME NEW kind \in {"list", "detail", "start", "review"}, NEW run \in Runs, NEW n \in Nat
  PROVE  LET q == Call(kind, run, n) IN
           /\ q \in Calls /\ q.kind = kind /\ q.run = run /\ q.version = n /\ q.answer = None
           /\ q.last <=> kind \in {"start", "review"}
  <1> DEFINE q == Call(kind, run, n)
  <1>1. (kind \in {"start", "review"}) \in BOOLEAN
    OBVIOUS
  <1>2. q = [kind |-> kind, run |-> run, version |-> n, answer |-> None, last |-> kind \in {"start", "review"}]
    BY DEF Call
  <1>3. q.kind = kind /\ q.run = run /\ q.version = n /\ q.answer = None /\ q.last = (kind \in {"start", "review"})
    BY <1>2
  <1>4. q \in Calls
    BY <1>1, <1>2, CallMade
  <1> QED
    BY <1>3, <1>4

\* A request under way stays sound while the server and the page go on.
LEMMA CallStays ==
  ASSUME AnalysesAssumption, AnalysesTypes, NEW c \in calls, CallSound(c),
         saved' \in Lists, \A r \in Analyses : saved'[r] >= saved[r],
         c.kind = "start" /\ c.answer = None => \A r \in Analyses : saved[r] = 0 => saved'[r] = 0,
         list # None => list' # None,
         stateVersion' \in Nat, stateVersion' >= stateVersion, mine' = mine \/ stateVersion' > stateVersion,
         detailVersion' \in Nat, detailVersion' >= detailVersion,
         \/ loaded' \in {loaded, None} \/ detailVersion' > detailVersion
         \/ c.kind = "detail" => c.version # detailVersion
  PROVE  CallSound(c)'
  <1>1. c.version \in Nat /\ stateVersion \in Nat /\ detailVersion \in Nat /\ saved \in Lists /\ c \in Calls
    BY DEF AnalysesTypes, Calls
  <1>2. Exist \subseteq Exist'
    BY <1>1, AnalysesAreNumbers DEF Exist, Lists
  <1>3. CASE c.kind = "list"
    <2>1. c.version <= stateVersion' /\ (c.version = stateVersion' => c.version = stateVersion /\ mine' = mine)
      BY <1>1, <1>3 DEF CallSound, ListSound
    <2>2. ListSound(c)'
      BY <1>2, <1>3, <2>1 DEF CallSound, ListSound, InList
    <2> QED
      BY <1>3, <2>2 DEF CallSound
  <1>4. CASE c.kind = "detail"
    <2>1. c.run \in Exist' /\ c.version <= detailVersion'
      BY <1>1, <1>2, <1>4 DEF CallSound, DetailSound
    <2>2. c.answer # None => c.answer \in Nat /\ c.answer <= saved'[c.run]
      BY <1>1, <1>4 DEF CallSound, DetailSound, Exist, Lists
    <2>3. c.answer # None /\ c.version = detailVersion' /\ loaded' # None /\ loaded'.run = c.run
            => c.answer >= loaded'.version
      <3>1. c.version = detailVersion' => detailVersion' = detailVersion
        BY <1>1, <1>4 DEF CallSound, DetailSound
      <3>2. c.version = detailVersion' => loaded' \in {loaded, None}
        BY <1>1, <1>4, <3>1
      <3> QED
        BY <1>4, <3>1, <3>2 DEF CallSound, DetailSound
    <2> QED
      BY <1>4, <2>1, <2>2, <2>3 DEF CallSound, DetailSound
  <1>5. CASE c.kind = "start"
    BY <1>2, <1>5 DEF CallSound, StartSound
  <1>6. CASE c.kind = "review"
    BY <1>2, <1>6 DEF CallSound
  <1> QED
    BY <1>1, <1>3, <1>4, <1>5, <1>6 DEF Calls

\* What the server saves stays and grows.
LEMMA SavedGrows ==
  ASSUME AnalysesAssumption, saved \in Lists, NEW r \in Analyses, saved' = [saved EXCEPT ![r] = @ + 1]
  PROVE  /\ saved' \in Lists /\ saved'[r] = saved[r] + 1 /\ r \in Exist' /\ Exist \subseteq Exist'
         /\ \A x \in Analyses : saved'[x] >= saved[x] /\ (x # r => saved'[x] = saved[x])
  <1>1. saved' \in Lists /\ saved'[r] = saved[r] + 1 /\ \A x \in Analyses : x # r => saved'[x] = saved[x]
    BY DEF Lists
  <1>2. \A x \in Analyses : saved[x] \in Nat /\ saved'[x] \in Nat
    BY <1>1 DEF Lists
  <1> QED
    BY <1>1, <1>2 DEF Exist

LEMMA PageStaysSound ==
  ASSUME AnalysesTypes, PageInv, saved' \in Lists, \A r \in Analyses : saved'[r] >= saved[r],
         UNCHANGED <<mine, list>>, loaded' \in {loaded, None}
  PROVE  PageInv'
  <1>1. \A r \in Analyses : saved[r] \in Nat /\ saved'[r] \in Nat
    BY DEF AnalysesTypes, Lists
  <1>2. Exist \subseteq Exist'
    BY <1>1 DEF Exist
  <1>3. mine' \subseteq InList(list)' /\ InList(list)' \subseteq Exist'
    BY <1>2 DEF PageInv, InList
  <1>4. loaded' # None => loaded'.run \in Exist' /\ loaded'.version <= saved'[loaded'.run]
    BY <1>1, <1>2 DEF PageInv, AnalysesTypes, Exist
  <1> QED
    BY <1>3, <1>4 DEF PageInv

LEMMA ChangeAnalysisKeeps ==
  ASSUME AnalysesAssumption, AnalysesInv, NEW r \in Analyses, ChangeAnalysis(r)
  PROVE  AnalysesInv'
  <1>1. saved[r] > 0 /\ saved' = [saved EXCEPT ![r] = @ + 1] /\ calls' = calls
        /\ UNCHANGED <<list, stateVersion, detailVersion, selected, loaded, detailError, action, mine>>
    BY DEF ChangeAnalysis, analysesState
  <1>2. AnalysesTypes /\ saved \in Lists /\ stateVersion \in Nat /\ detailVersion \in Nat
    BY DEF AnalysesInv, AnalysesTypes
  <1>3. /\ saved' \in Lists
        /\ \A x \in Analyses : saved'[x] >= saved[x] /\ (x # r => saved'[x] = saved[x])
    BY <1>1, <1>2, SavedGrows
  <1>4. AnalysesTypes'
    BY <1>1, <1>2, <1>3 DEF AnalysesTypes
  <1>5. ASSUME NEW c \in calls
        PROVE  CallSound(c)'
    <2>1. \A x \in Analyses : saved[x] = 0 => saved'[x] = 0
      BY <1>1, <1>3
    <2>2. \A x \in Analyses : saved'[x] >= saved[x]
      BY <1>3
    <2>3. CallSound(c) /\ stateVersion' = stateVersion /\ stateVersion' >= stateVersion /\ stateVersion' \in Nat
      BY <1>1, <1>2 DEF AnalysesInv
    <2>4. detailVersion' >= detailVersion /\ detailVersion' \in Nat /\ (list # None => list' # None)
      BY <1>1, <1>2
    <2>5. mine' = mine /\ loaded' \in {loaded, None} /\ saved' \in Lists
      BY <1>1, <1>3
    <2> HIDE DEF CallSound
    <2> QED
      BY <1>2, <2>1, <2>2, <2>3, <2>4, <2>5, CallStays
  <1>6. CallsInv' /\ PageInv'
    BY <1>1, <1>2, <1>3, PageStaysSound DEF AnalysesInv, CallsInv
  <1> QED
    BY <1>1, <1>4, <1>5, <1>6 DEF AnalysesInv

\* The requests that stay when one is dropped, and when a new one is sent.
LEMMA CallsStay ==
  ASSUME AnalysesInv, NEW rest \in SUBSET calls, calls' = rest,
         detailVersion' \in Nat, detailVersion' >= detailVersion,
         action' = action \/ \A c \in rest : ~c.last
  PROVE  CallsInv'
  <1>1. \A c \in calls : c.kind = "detail" => c.version \in Nat /\ c.version <= detailVersion
    BY DEF AnalysesInv, AnalysesTypes, Calls, CallSound, DetailSound
  <1>2. \A c \in calls : c.kind = "detail" /\ c.version = detailVersion' => c.version = detailVersion
    BY <1>1 DEF AnalysesInv, AnalysesTypes
  <1>3. \A c, d \in calls' :
          c.kind = "detail" /\ d.kind = "detail" /\ c.version = detailVersion' /\ d.version = detailVersion' => c = d
    BY <1>2 DEF AnalysesInv, CallsInv
  <1>4. /\ \A c, d \in calls' : c.last /\ d.last => c = d
        /\ \A c \in calls' : (c.kind \in {"start", "review"} => c.last) /\ (c.last => action' # None)
    BY DEF AnalysesInv, CallsInv
  <1> QED
    BY <1>3, <1>4 DEF CallsInv

LEMMA CallsGrow ==
  ASSUME AnalysesInv, NEW rest \in SUBSET calls, NEW q, calls' = rest \cup {q},
         detailVersion' \in Nat, detailVersion' >= detailVersion, q.kind = "detail" => detailVersion' > detailVersion,
         action' = action \/ \A c \in rest : ~c.last,
         q.kind \in {"start", "review"} => q.last, q.last => action' # None /\ \A c \in rest : ~c.last
  PROVE  CallsInv'
  <1>1. \A c \in calls : c.kind = "detail" => c.version \in Nat /\ c.version <= detailVersion
    BY DEF AnalysesInv, AnalysesTypes, Calls, CallSound, DetailSound
  <1>2. \A c \in calls : c.kind = "detail" /\ c.version = detailVersion' => c.version = detailVersion /\ q.kind # "detail"
    BY <1>1 DEF AnalysesInv, AnalysesTypes
  <1>3. \A c, d \in calls' :
          c.kind = "detail" /\ d.kind = "detail" /\ c.version = detailVersion' /\ d.version = detailVersion' => c = d
    BY <1>2 DEF AnalysesInv, CallsInv
  <1>4. \A c, d \in calls' : c.last /\ d.last => c = d
    BY DEF AnalysesInv, CallsInv
  <1>5. \A c \in calls' : (c.kind \in {"start", "review"} => c.last) /\ (c.last => action' # None)
    BY DEF AnalysesInv, CallsInv
  <1> QED
    BY <1>3, <1>4, <1>5 DEF CallsInv

LEMMA CallsSame ==
  ASSUME CallsInv, NEW c \in calls, NEW q, calls' = (calls \ {c}) \cup {q},
         q.kind = c.kind, q.version = c.version, q.last = c.last, UNCHANGED <<detailVersion, action>>
  PROVE  CallsInv'
  <1>1. \A x \in calls' : x = q \/ (x \in calls /\ x # c)
    OBVIOUS
  <1>2. \A x, y \in calls' :
          x.kind = "detail" /\ y.kind = "detail" /\ x.version = detailVersion /\ y.version = detailVersion => x = y
    BY <1>1 DEF CallsInv
  <1>3. \A x, y \in calls' : x.last /\ y.last => x = y
    BY <1>1 DEF CallsInv
  <1>4. \A x \in calls' : (x.kind \in {"start", "review"} => x.last) /\ (x.last => action # None)
    BY <1>1 DEF CallsInv
  <1> QED
    BY <1>2, <1>3, <1>4 DEF CallsInv

\* A request while the server goes on, and while the page does.
LEMMA ServerGoesOn ==
  ASSUME AnalysesAssumption, AnalysesTypes, NEW c \in calls, CallSound(c),
         saved' \in Lists, \A r \in Analyses : saved'[r] >= saved[r],
         c.kind = "start" /\ c.answer = None => \A r \in Analyses : saved[r] = 0 => saved'[r] = 0,
         UNCHANGED <<list, stateVersion, detailVersion, loaded, mine>>
  PROVE  CallSound(c)'
  <1>1. stateVersion \in Nat /\ detailVersion \in Nat
    BY DEF AnalysesTypes
  <1>2. (list # None => list' # None) /\ loaded' \in {loaded, None}
    OBVIOUS
  <1>3. stateVersion' >= stateVersion /\ detailVersion' >= detailVersion
    BY <1>1
  <1> HIDE DEF CallSound
  <1> QED
    BY <1>1, <1>2, <1>3, CallStays

LEMMA PageGoesOn ==
  ASSUME AnalysesAssumption, AnalysesTypes, NEW c \in calls, CallSound(c), UNCHANGED saved, list # None => list' # None,
         stateVersion' \in Nat, stateVersion' >= stateVersion, mine' = mine \/ stateVersion' > stateVersion,
         detailVersion' \in Nat, detailVersion' >= detailVersion,
         \/ loaded' \in {loaded, None} \/ detailVersion' > detailVersion
         \/ c.kind = "detail" => c.version # detailVersion
  PROVE  CallSound(c)'
  <1>1. saved' \in Lists /\ \A r \in Analyses : saved'[r] >= saved[r]
    BY DEF AnalysesTypes, Lists
  <1>2. c.kind = "start" /\ c.answer = None => \A r \in Analyses : saved[r] = 0 => saved'[r] = 0
    OBVIOUS
  <1> HIDE DEF CallSound
  <1> QED
    BY <1>1, <1>2, CallStays

LEMMA HandleReadKeeps ==
  ASSUME AnalysesAssumption, AnalysesInv, NEW c \in calls, HandleRead(c)
  PROVE  AnalysesInv'
  <1>0. PICK a, q : a = (IF c.kind = "list" THEN saved ELSE saved[c.run]) /\ q = [c EXCEPT !.answer = a]
    OBVIOUS
  <1>1. /\ c.answer = None /\ c.kind \in {"list", "detail"} /\ calls' = (calls \ {c}) \cup {q}
        /\ UNCHANGED <<saved, list, stateVersion, detailVersion, selected, loaded, detailError, action, mine>>
    BY <1>0 DEF HandleRead, Answered, analysesState
  <1>2. c \in Calls /\ calls \subseteq Calls /\ saved \in Lists /\ CallSound(c) /\ AnalysesTypes
    BY DEF AnalysesInv, AnalysesTypes
  <1>3. a \in {None} \cup Nat \cup Lists
    BY <1>0, <1>1, <1>2 DEF CallSound, DetailSound, Exist, Lists
  <1>4. q \in Calls /\ q.kind = c.kind /\ q.run = c.run /\ q.version = c.version /\ q.answer = a /\ q.last = c.last
    BY <1>0, <1>2, <1>3, CallAnswered
  <1>5. c.kind = "list" => q.answer = saved
    BY <1>0, <1>4
  <1>6. c.kind = "detail" => q.answer = saved[c.run]
    BY <1>0, <1>1, <1>4
  <1>7. AnalysesTypes'
    BY <1>1, <1>2, <1>4 DEF AnalysesTypes
  <1>8. CallsInv'
    BY <1>1, <1>4, CallsSame DEF AnalysesInv
  <1>9. CallSound(q)'
    <2>1. CASE c.kind = "list"
      <3>1. saved # None /\ mine \subseteq Exist
        BY <1>2 DEF AnalysesInv, PageInv, AnalysesAssumption, Lists
      <3>2. ListSound(q)'
        BY <1>1, <1>2, <1>4, <1>5, <2>1, <3>1 DEF CallSound, ListSound, InList, Exist
      <3> QED
        BY <1>4, <2>1, <3>2 DEF CallSound
    <2>2. CASE c.kind = "detail"
      <3>1. c.run \in Exist /\ c.version <= detailVersion /\ saved[c.run] \in Nat
        BY <1>2, <2>2 DEF CallSound, DetailSound, Exist, Lists
      <3>2. loaded # None /\ loaded.run = c.run => saved[c.run] >= loaded.version
        BY <1>2, <3>1 DEF AnalysesInv, PageInv, AnalysesTypes
      <3>3. DetailSound(q)'
        BY <1>1, <1>4, <1>6, <2>2, <3>1, <3>2 DEF DetailSound, Exist
      <3> QED
        BY <1>4, <2>2, <3>3 DEF CallSound
    <2> QED
      BY <1>1, <2>1, <2>2
  <1>10. ASSUME NEW d \in calls
         PROVE  CallSound(d)'
    BY <1>1, <1>10 DEF AnalysesInv, CallSound, ListSound, DetailSound, StartSound, Exist, InList
  <1>11. PageInv'
    BY <1>1 DEF AnalysesInv, PageInv, InList, Exist
  <1> QED
    BY <1>1, <1>7, <1>8, <1>9, <1>10, <1>11 DEF AnalysesInv

LEMMA HandleWriteKeeps ==
  ASSUME AnalysesAssumption, AnalysesInv, NEW c \in calls, HandleWrite(c)
  PROVE  AnalysesInv'
  <1>0. PICK r, q : /\ r = (IF c.kind = "review" THEN c.run ELSE Min({x \in Analyses : saved[x] = 0}))
                    /\ q = [c EXCEPT !.answer = r]
    OBVIOUS
  <1>1. /\ c.answer = None /\ c.kind \in {"start", "review"} /\ calls' = (calls \ {c}) \cup {q}
        /\ saved' = [saved EXCEPT ![r] = @ + 1]
        /\ UNCHANGED <<list, stateVersion, detailVersion, selected, loaded, detailError, action, mine>>
    BY <1>0 DEF HandleWrite, Answered, analysesState
  <1>2. c \in Calls /\ calls \subseteq Calls /\ saved \in Lists /\ CallSound(c) /\ AnalysesTypes /\ c.last
    BY <1>1 DEF AnalysesInv, AnalysesTypes, CallsInv
  <1>3. r \in Analyses
    <2>1. CASE c.kind = "review"
      BY <1>0, <1>2, <2>1 DEF CallSound, Exist
    <2>2. CASE c.kind = "start"
      <3>1. {x \in Analyses : saved[x] = 0} \in SUBSET Analyses /\ {x \in Analyses : saved[x] = 0} # {}
        BY <1>1, <1>2, <2>2 DEF CallSound, StartSound
      <3>2. Min({x \in Analyses : saved[x] = 0}) \in {x \in Analyses : saved[x] = 0}
        BY <3>1, OldestIsIn
      <3> QED
        BY <1>0, <2>2, <3>2
    <2> QED
      BY <1>1, <2>1, <2>2
  <1>4. c.kind = "review" => c.run = r
    BY <1>0
  <1>5. q \in Calls /\ q.kind = c.kind /\ q.run = c.run /\ q.version = c.version /\ q.answer = r /\ q.last = c.last
    <2>1. r \in {None} \cup Nat \cup Lists
      BY <1>3, AnalysesAreNumbers
    <2> QED
      BY <1>0, <1>2, <2>1, CallAnswered
  <1>6. /\ saved' \in Lists /\ r \in Exist' /\ Exist \subseteq Exist'
        /\ \A x \in Analyses : saved'[x] >= saved[x] /\ (x # r => saved'[x] = saved[x])
    BY <1>1, <1>2, <1>3, SavedGrows
  <1>7. AnalysesTypes'
    BY <1>1, <1>2, <1>5, <1>6 DEF AnalysesTypes
  <1>8. CallsInv'
    BY <1>1, <1>5, CallsSame DEF AnalysesInv
  <1>9. CallSound(q)'
    BY <1>1, <1>2, <1>3, <1>4, <1>5, <1>6, AnalysesAreNumbers DEF CallSound, StartSound
  <1>10. ASSUME NEW d \in calls, d # c
         PROVE  CallSound(d)'
    <2>1. ~d.last
      BY <1>2, <1>10 DEF AnalysesInv, CallsInv
    <2>2. d.kind \notin {"start", "review"} /\ CallSound(d)
      BY <2>1 DEF AnalysesInv, CallsInv
    <2>3. \A x \in Analyses : saved'[x] >= saved[x]
      BY <1>6
    <2>4. d.kind = "start" /\ d.answer = None => \A x \in Analyses : saved[x] = 0 => saved'[x] = 0
      BY <2>2
    <2> HIDE DEF CallSound
    <2> QED
      BY <1>1, <1>2, <1>6, <2>2, <2>3, <2>4, ServerGoesOn
  <1>11. PageInv'
    <2>1. \A x \in Analyses : saved'[x] >= saved[x]
      BY <1>6
    <2> QED
      BY <1>1, <1>2, <1>6, <2>1, PageStaysSound DEF AnalysesInv
  <1> QED
    BY <1>1, <1>7, <1>8, <1>9, <1>10, <1>11 DEF AnalysesInv

\* The steps of the page that send a request of their own.
LEMMA PollListKeeps == ASSUME AnalysesAssumption, AnalysesInv, PollList PROVE AnalysesInv'
  <1>0. PICK q : q = Call("list", None, stateVersion + 1)
    OBVIOUS
  <1>1. /\ stateVersion' = stateVersion + 1 /\ calls' = calls \cup {q}
        /\ UNCHANGED <<saved, list, detailVersion, selected, loaded, detailError, action, mine>>
    BY <1>0 DEF PollList
  <1>2. stateVersion \in Nat /\ detailVersion \in Nat /\ AnalysesTypes /\ calls \subseteq Calls
    BY DEF AnalysesInv, AnalysesTypes
  <1>3. q \in Calls /\ q.kind = "list" /\ q.version = stateVersion + 1 /\ q.answer = None /\ ~q.last
    BY <1>0, <1>2, CallSent DEF Runs
  <1>4. AnalysesTypes'
    BY <1>1, <1>2, <1>3 DEF AnalysesTypes
  <1>5. CallsInv'
    BY <1>1, <1>2, <1>3, CallsGrow
  <1>6. CallSound(q)'
    BY <1>1, <1>2, <1>3 DEF CallSound, ListSound
  <1>7. ASSUME NEW d \in calls
        PROVE  CallSound(d)'
    <2>1. CallSound(d)
      BY DEF AnalysesInv
    <2>2. stateVersion' \in Nat /\ stateVersion' >= stateVersion /\ detailVersion' \in Nat /\ detailVersion' >= detailVersion
      BY <1>1, <1>2
    <2> HIDE DEF CallSound
    <2> QED
      BY <1>1, <1>2, <2>1, <2>2, PageGoesOn
  <1>8. PageInv'
    BY <1>1 DEF AnalysesInv, PageInv, InList, Exist
  <1> QED
    BY <1>1, <1>4, <1>5, <1>6, <1>7, <1>8 DEF AnalysesInv

LEMMA StartAnalysisKeeps == ASSUME AnalysesAssumption, AnalysesInv, StartAnalysis PROVE AnalysesInv'
  <1>0. PICK q : q = Call("start", None, 0)
    OBVIOUS
  <1>1. /\ action = None /\ InList(list) # {} /\ saved[Max(Analyses)] = 0 /\ action' = "analysis"
        /\ calls' = calls \cup {q}
        /\ UNCHANGED <<saved, list, stateVersion, detailVersion, selected, loaded, detailError, mine>>
    BY <1>0 DEF StartAnalysis
  <1>2. stateVersion \in Nat /\ detailVersion \in Nat /\ AnalysesTypes /\ calls \subseteq Calls
    BY DEF AnalysesInv, AnalysesTypes
  <1>3. q \in Calls /\ q.kind = "start" /\ q.answer = None /\ q.last
    BY <1>0, <1>2, CallSent DEF Runs
  <1>4. AnalysesTypes'
    BY <1>1, <1>2, <1>3 DEF AnalysesTypes
  <1>5. Max(Analyses) \in Analyses
    BY AnalysesAreNumbers, NewestIsIn
  <1>6. CallSound(q)'
    BY <1>1, <1>3, <1>5 DEF CallSound, StartSound, InList
  <1>7. \A d \in calls : ~d.last
    BY <1>1 DEF AnalysesInv, CallsInv
  <1>8. CallsInv'
    <2>1. action' # None /\ detailVersion' \in Nat /\ detailVersion' >= detailVersion /\ q.kind # "detail" /\ q.last
      BY <1>1, <1>2, <1>3 DEF AnalysesAssumption
    <2> QED
      BY <1>1, <1>7, <2>1, CallsGrow
  <1>9. ASSUME NEW d \in calls
        PROVE  CallSound(d)'
    BY <1>1, <1>9 DEF AnalysesInv, CallSound, ListSound, DetailSound, StartSound, Exist, InList
  <1>10. PageInv'
    BY <1>1 DEF AnalysesInv, PageInv, InList, Exist
  <1> QED
    BY <1>1, <1>4, <1>6, <1>8, <1>9, <1>10 DEF AnalysesInv

LEMMA SaveReviewKeeps == ASSUME AnalysesAssumption, AnalysesInv, SaveReview PROVE AnalysesInv'
  <1>0. PICK q : q = Call("review", Detail.run, 0)
    OBVIOUS
  <1>1. /\ action = None /\ Detail # None /\ action' = "review" /\ calls' = calls \cup {q}
        /\ UNCHANGED <<saved, list, stateVersion, detailVersion, selected, loaded, detailError, mine>>
    BY <1>0 DEF SaveReview
  <1>2. stateVersion \in Nat /\ detailVersion \in Nat /\ AnalysesTypes /\ calls \subseteq Calls
    BY DEF AnalysesInv, AnalysesTypes
  <1>3. Detail = loaded /\ loaded.run \in Exist /\ loaded.run \in Analyses
    BY <1>1 DEF Detail, AnalysesInv, PageInv, Exist
  <1>4. q \in Calls /\ q.kind = "review" /\ q.run = loaded.run /\ q.answer = None /\ q.last
    BY <1>0, <1>3, CallSent DEF Runs
  <1>5. AnalysesTypes'
    BY <1>1, <1>2, <1>4 DEF AnalysesTypes
  <1>6. CallSound(q)'
    BY <1>1, <1>3, <1>4 DEF CallSound, Exist
  <1>7. \A d \in calls : ~d.last
    BY <1>1 DEF AnalysesInv, CallsInv
  <1>8. CallsInv'
    <2>1. action' # None /\ detailVersion' \in Nat /\ detailVersion' >= detailVersion /\ q.kind # "detail" /\ q.last
      BY <1>1, <1>2, <1>4 DEF AnalysesAssumption
    <2> QED
      BY <1>1, <1>7, <2>1, CallsGrow
  <1>9. ASSUME NEW d \in calls
        PROVE  CallSound(d)'
    BY <1>1, <1>9 DEF AnalysesInv, CallSound, ListSound, DetailSound, StartSound, Exist, InList
  <1>10. PageInv'
    BY <1>1 DEF AnalysesInv, PageInv, InList, Exist
  <1> QED
    BY <1>1, <1>5, <1>6, <1>8, <1>9, <1>10 DEF AnalysesInv

\* A request for details that is the newest from now on.
LEMMA DetailSent ==
  ASSUME AnalysesAssumption, AnalysesInv, NEW q \in Calls, NEW rest \in SUBSET calls, calls' = rest \cup {q},
         q.kind = "detail", q.run \in Exist, q.version = detailVersion + 1, q.answer = None,
         detailVersion' = detailVersion + 1, action' = action \/ \A c \in rest : ~c.last,
         q.last => action' # None /\ \A c \in rest : ~c.last, UNCHANGED saved
  PROVE  CallSound(q)' /\ CallsInv' /\ calls' \subseteq Calls /\ detailVersion' \in Nat
  <1>1. detailVersion \in Nat /\ calls \subseteq Calls
    BY DEF AnalysesInv, AnalysesTypes
  <1>2. detailVersion' \in Nat /\ detailVersion' >= detailVersion /\ detailVersion' > detailVersion
    BY <1>1
  <1>3. CallsInv'
    BY <1>2, CallsGrow
  <1>4. CallSound(q)'
    BY <1>1 DEF CallSound, DetailSound, Exist
  <1> QED
    BY <1>1, <1>2, <1>3, <1>4

LEMMA RetryDetailKeeps == ASSUME AnalysesAssumption, AnalysesInv, RetryDetail PROVE AnalysesInv'
  <1>0. PICK q : q = Call("detail", detailError, detailVersion + 1)
    OBVIOUS
  <1>1. /\ detailError # None /\ detailError = SelectedRun(list, selected)
        /\ detailVersion' = detailVersion + 1 /\ calls' = calls \cup {q}
        /\ UNCHANGED <<saved, list, stateVersion, selected, loaded, detailError, action, mine>>
    BY <1>0 DEF RetryDetail
  <1>2. stateVersion \in Nat /\ detailVersion \in Nat /\ AnalysesTypes /\ calls \subseteq Calls
    BY DEF AnalysesInv, AnalysesTypes
  <1>3. detailError \in Exist
    BY <1>1, SelectionIsListed DEF AnalysesInv, PageInv
  <1>4. /\ q \in Calls /\ q.kind = "detail" /\ q.run = detailError /\ q.version = detailVersion + 1
        /\ q.answer = None /\ ~q.last
    <2>1. detailVersion + 1 \in Nat /\ detailError \in Runs
      BY <1>2, <1>3 DEF Exist, Runs
    <2> QED
      BY <1>0, <2>1, CallSent
  <1>5. CallSound(q)' /\ CallsInv' /\ calls' \subseteq Calls /\ detailVersion' \in Nat
    BY <1>1, <1>3, <1>4, DetailSent
  <1>6. AnalysesTypes'
    BY <1>1, <1>2, <1>5 DEF AnalysesTypes
  <1>7. ASSUME NEW d \in calls
        PROVE  CallSound(d)'
    <2>1. CallSound(d)
      BY DEF AnalysesInv
    <2>2. stateVersion' \in Nat /\ stateVersion' >= stateVersion /\ detailVersion' \in Nat /\ detailVersion' >= detailVersion
      BY <1>1, <1>2
    <2> HIDE DEF CallSound
    <2> QED
      BY <1>1, <1>2, <2>1, <2>2, PageGoesOn
  <1>8. PageInv'
    BY <1>1 DEF AnalysesInv, PageInv, InList, Exist
  <1> QED
    BY <1>1, <1>5, <1>6, <1>7, <1>8 DEF AnalysesInv

LEMMA LastGiven ==
  ASSUME NEW K, NEW R, NEW V, NEW A, NEW c \in [kind : K, run : R, version : V, answer : A, last : BOOLEAN]
  PROVE  LET q == [c EXCEPT !.last = TRUE] IN
           /\ q \in [kind : K, run : R, version : V, answer : A, last : BOOLEAN]
           /\ q.kind = c.kind /\ q.run = c.run /\ q.version = c.version /\ q.answer = c.answer
  OBVIOUS

LEMMA ReviewedKeeps ==
  ASSUME AnalysesAssumption, AnalysesInv, NEW c \in calls, Reviewed(c)
  PROVE  AnalysesInv'
  <1>0. PICK p, q : p = Call("detail", c.run, detailVersion + 1) /\ q = [p EXCEPT !.last = TRUE]
    OBVIOUS
  <1>1. /\ c.kind = "review" /\ detailVersion' = detailVersion + 1 /\ calls' = (calls \ {c}) \cup {q}
        /\ UNCHANGED <<saved, list, stateVersion, selected, loaded, detailError, action, mine>>
    BY <1>0 DEF Reviewed
  <1>2. stateVersion \in Nat /\ detailVersion \in Nat /\ AnalysesTypes /\ calls \subseteq Calls
    BY DEF AnalysesInv, AnalysesTypes
  <1>3. c.run \in Exist /\ c.last /\ action # None /\ \A d \in calls \ {c} : ~d.last
    BY <1>1 DEF AnalysesInv, CallSound, CallsInv
  <1>4. p \in Calls /\ p.kind = "detail" /\ p.run = c.run /\ p.version = detailVersion + 1 /\ p.answer = None
    <2>1. detailVersion + 1 \in Nat /\ c.run \in Runs
      BY <1>2, <1>3 DEF Exist, Runs
    <2> QED
      BY <1>0, <2>1, CallSent
  <1>5. q \in Calls /\ q.kind = "detail" /\ q.run = c.run /\ q.version = detailVersion + 1 /\ q.answer = None
    BY <1>0, <1>4, LastGiven DEF Calls
  <1>6. CallSound(q)' /\ CallsInv' /\ calls' \subseteq Calls /\ detailVersion' \in Nat
    BY <1>1, <1>3, <1>5, DetailSent
  <1>7. AnalysesTypes'
    BY <1>1, <1>2, <1>6 DEF AnalysesTypes
  <1>8. ASSUME NEW d \in calls
        PROVE  CallSound(d)'
    <2>1. CallSound(d)
      BY DEF AnalysesInv
    <2>2. stateVersion' \in Nat /\ stateVersion' >= stateVersion /\ detailVersion' \in Nat /\ detailVersion' >= detailVersion
      BY <1>1, <1>2
    <2> HIDE DEF CallSound
    <2> QED
      BY <1>1, <1>2, <2>1, <2>2, PageGoesOn
  <1>9. PageInv'
    BY <1>1 DEF AnalysesInv, PageInv, InList, Exist
  <1> QED
    BY <1>1, <1>6, <1>7, <1>8, <1>9 DEF AnalysesInv

\* An answer that is not taken, or a request that failed, only goes away.
LEMMA OneIsGone ==
  ASSUME AnalysesAssumption, AnalysesInv, NEW c \in calls, calls' = calls \ {c}, detailError' \in Runs,
         action' = action \/ \A d \in calls \ {c} : ~d.last,
         UNCHANGED <<saved, list, stateVersion, detailVersion, selected, loaded, mine>>
  PROVE  AnalysesInv'
  <1>1. AnalysesTypes /\ detailVersion \in Nat
    BY DEF AnalysesInv, AnalysesTypes
  <1>2. AnalysesTypes'
    BY <1>1 DEF AnalysesTypes
  <1>3. CallsInv'
    BY <1>1, CallsStay
  <1>4. \A d \in calls : CallSound(d)'
    BY DEF AnalysesInv, CallSound, ListSound, DetailSound, StartSound, Exist, InList
  <1>5. PageInv'
    BY DEF AnalysesInv, PageInv, InList, Exist
  <1> QED
    BY <1>2, <1>3, <1>4, <1>5 DEF AnalysesInv

LEMMA FailCallKeeps ==
  ASSUME AnalysesAssumption, AnalysesInv, NEW c \in calls, FailCall(c)
  PROVE  AnalysesInv'
  <1>1. /\ calls' = calls \ {c} /\ action' = IF c.last THEN None ELSE action
        /\ detailError' = IF c.kind = "detail" /\ IsNewestDetail(c) THEN c.run ELSE detailError
        /\ UNCHANGED <<saved, list, stateVersion, detailVersion, selected, loaded, mine>>
    BY DEF FailCall
  <1>2. detailError' \in Runs
    BY <1>1 DEF AnalysesInv, AnalysesTypes, Calls
  <1>3. action' = action \/ \A d \in calls \ {c} : ~d.last
    BY <1>1 DEF AnalysesInv, CallsInv
  <1> QED
    BY <1>1, <1>2, <1>3, OneIsGone

\* The details that are shown are those of the newest request, and no older than what was shown.
LEMMA TakeDetailKeeps ==
  ASSUME AnalysesAssumption, AnalysesInv, NEW c \in calls, TakeDetail(c)
  PROVE  /\ AnalysesInv'
         /\ \/ loaded' = loaded
            \/ loaded # None /\ loaded'.run = loaded.run => loaded'.version >= loaded.version
  <1>1. /\ c.kind = "detail" /\ c.answer # None /\ calls' = calls \ {c}
        /\ action' = IF c.last THEN None ELSE action
        /\ UNCHANGED <<saved, list, stateVersion, detailVersion, selected, mine>>
    BY DEF TakeDetail
  <1>2. AnalysesTypes /\ detailVersion \in Nat /\ stateVersion \in Nat /\ calls \subseteq Calls /\ saved \in Lists
    BY DEF AnalysesInv, AnalysesTypes
  <1>3. c.run \in Exist /\ c.answer \in Nat /\ c.answer <= saved[c.run] /\ c.run \in Analyses
    BY <1>1 DEF AnalysesInv, CallSound, DetailSound, Exist
  <1>4. CASE c.version = detailVersion
    <2>1. loaded' = [run |-> c.run, version |-> c.answer] /\ detailError' = None
      BY <1>4 DEF TakeDetail, IsNewestDetail
    <2>2. loaded' \in [run : Analyses, version : Nat] /\ loaded'.run = c.run /\ loaded'.version = c.answer
      BY <1>3, <2>1
    <2>3. loaded # None /\ loaded.run = c.run => c.answer >= loaded.version
      BY <1>1, <1>4 DEF AnalysesInv, CallSound, DetailSound
    <2>4. AnalysesTypes'
      BY <1>1, <1>2, <2>1, <2>2 DEF AnalysesTypes, Runs
    <2>5. action' = action \/ \A d \in calls \ {c} : ~d.last
      BY <1>1 DEF AnalysesInv, CallsInv
    <2>6. CallsInv'
      BY <1>1, <1>2, <2>5, CallsStay
    <2>7. ASSUME NEW d \in calls, d # c
          PROVE  CallSound(d)'
      <3>1. d.kind = "detail" => d.version # detailVersion
        BY <1>1, <1>4, <2>7 DEF AnalysesInv, CallsInv
      <3>2. CallSound(d)
        BY DEF AnalysesInv
      <3>3. /\ stateVersion' >= stateVersion /\ detailVersion' >= detailVersion
            /\ stateVersion' \in Nat /\ detailVersion' \in Nat
        BY <1>1, <1>2
      <3> HIDE DEF CallSound
      <3> QED
        BY <1>1, <1>2, <3>1, <3>2, <3>3, PageGoesOn
    <2>8. PageInv'
      BY <1>1, <1>3, <2>2 DEF AnalysesInv, PageInv, InList, Exist
    <2> QED
      BY <1>1, <2>2, <2>3, <2>4, <2>6, <2>7, <2>8 DEF AnalysesInv
  <1>5. CASE c.version # detailVersion
    <2>1. UNCHANGED <<loaded, detailError>> /\ detailError \in Runs
      BY <1>2, <1>5 DEF TakeDetail, IsNewestDetail, AnalysesTypes
    <2>2. action' = action \/ \A d \in calls \ {c} : ~d.last
      BY <1>1 DEF AnalysesInv, CallsInv
    <2> QED
      BY <1>1, <2>1, <2>2, OneIsGone
  <1> QED
    BY <1>4, <1>5

\* The effect of the page: it drops requests and asks for the details of a listed analysis, or does not.
LEMMA Rendered ==
  ASSUME AnalysesAssumption, AnalysesInv, NEW known, NEW choice, NEW rest \in SUBSET calls, Render(known, choice, rest)
  PROVE  /\ list' = known /\ selected' = choice /\ loaded' \in {loaded, None}
         /\ detailVersion' \in Nat /\ detailVersion' >= detailVersion
         /\ \/ calls' = rest
            \/ /\ detailVersion' = detailVersion + 1
               /\ \E q \in Calls : /\ calls' = rest \cup {q} /\ q.kind = "detail" /\ q.run \in InList(known)
                                   /\ q.version = detailVersion + 1 /\ q.answer = None /\ ~q.last
  <1>0. PICK r : r = SelectedRun(known, choice)
    OBVIOUS
  <1>1. detailVersion \in Nat
    BY DEF AnalysesInv, AnalysesTypes
  <1>2. /\ list' = known /\ selected' = choice /\ loaded' \in {loaded, None}
        /\ detailVersion' \in {detailVersion, detailVersion + 1}
        /\ \/ calls' = rest
           \/ /\ r # None /\ detailVersion' = detailVersion + 1
              /\ calls' = rest \cup {Call("detail", r, detailVersion + 1)}
    BY <1>0 DEF Render
  <1>3. detailVersion' \in Nat /\ detailVersion' >= detailVersion /\ detailVersion + 1 \in Nat
    BY <1>1, <1>2
  <1>4. CASE calls' = rest
    BY <1>2, <1>3, <1>4
  <1>5. CASE r # None /\ detailVersion' = detailVersion + 1 /\ calls' = rest \cup {Call("detail", r, detailVersion + 1)}
    <2>0. PICK q : q = Call("detail", r, detailVersion + 1)
      OBVIOUS
    <2>1. r \in InList(known) /\ r \in Runs
      BY <1>0, <1>5, SelectionIsListed DEF InList, Runs
    <2>2. q \in Calls /\ q.kind = "detail" /\ q.run = r /\ q.version = detailVersion + 1 /\ q.answer = None /\ ~q.last
      BY <1>3, <2>0, <2>1, CallSent
    <2> QED
      BY <1>2, <1>3, <1>5, <2>0, <2>1, <2>2
  <1> QED
    BY <1>2, <1>4, <1>5

LEMMA RenderKeeps ==
  ASSUME AnalysesAssumption, AnalysesInv, NEW known \in Lists, NEW choice \in Runs, NEW rest \in SUBSET calls,
         Render(known, choice, rest), UNCHANGED <<saved, detailError>>,
         InList(known) \subseteq Exist, mine' \subseteq InList(known), mine' = mine \/ stateVersion' > stateVersion,
         stateVersion' \in Nat, stateVersion' >= stateVersion, action' = action \/ \A c \in rest : ~c.last
  PROVE  AnalysesInv'
  <1>1. /\ list' = known /\ selected' = choice /\ loaded' \in {loaded, None}
        /\ detailVersion' \in Nat /\ detailVersion' >= detailVersion
        /\ \/ calls' = rest
           \/ /\ detailVersion' = detailVersion + 1
              /\ \E q \in Calls : /\ calls' = rest \cup {q} /\ q.kind = "detail" /\ q.run \in InList(known)
                                  /\ q.version = detailVersion + 1 /\ q.answer = None /\ ~q.last
    BY Rendered
  <1>2. AnalysesTypes /\ calls \subseteq Calls /\ saved' \in Lists /\ known # None
    BY DEF AnalysesInv, AnalysesTypes, AnalysesAssumption, Lists
  <1>3. /\ calls' \subseteq Calls /\ CallsInv'
        /\ \A q \in calls' : q \in rest \/ CallSound(q)'
    <2>1. CASE calls' = rest
      BY <1>1, <1>2, <2>1, CallsStay
    <2>2. CASE calls' # rest
      <3>1. PICK q \in Calls : /\ calls' = rest \cup {q} /\ q.kind = "detail" /\ q.run \in InList(known)
                               /\ q.version = detailVersion + 1 /\ q.answer = None /\ ~q.last
        BY <1>1, <2>2
      <3>2. detailVersion' = detailVersion + 1 /\ q.run \in Exist
        BY <1>1, <2>2, <3>1
      <3>3. CallSound(q)' /\ CallsInv' /\ calls' \subseteq Calls
        BY <3>1, <3>2, DetailSent
      <3> QED
        BY <3>1, <3>3
    <2> QED
      BY <2>1, <2>2
  <1>4. ASSUME NEW d \in calls
        PROVE  CallSound(d)'
    <2>1. CallSound(d) /\ (list # None => list' # None)
      BY <1>1, <1>2 DEF AnalysesInv
    <2> HIDE DEF CallSound
    <2> QED
      BY <1>1, <1>2, <2>1, PageGoesOn
  <1>5. AnalysesTypes'
    <2>1. mine' \subseteq Analyses
      BY DEF InList
    <2>2. loaded' # None => loaded' \in [run : Analyses, version : Nat]
      BY <1>1, <1>2 DEF AnalysesTypes
    <2> QED
      BY <1>1, <1>2, <1>3, <2>1, <2>2 DEF AnalysesTypes
  <1>6. PageInv'
    <2>1. mine' \subseteq InList(list)' /\ InList(list)' \subseteq Exist'
      BY <1>1 DEF InList, Exist
    <2>2. loaded' # None => loaded'.run \in Exist' /\ loaded'.version <= saved'[loaded'.run]
      BY <1>1 DEF AnalysesInv, PageInv, Exist
    <2> QED
      BY <2>1, <2>2 DEF PageInv
  <1> QED
    BY <1>3, <1>4, <1>5, <1>6 DEF AnalysesInv

LEMMA TakeListKeeps ==
  ASSUME AnalysesAssumption, AnalysesInv, NEW c \in calls, TakeList(c)
  PROVE  AnalysesInv'
  <1>1. /\ c.kind = "list" /\ c.answer # None
        /\ UNCHANGED <<saved, stateVersion, detailError, action, mine>>
    BY DEF TakeList
  <1>2. AnalysesTypes /\ stateVersion \in Nat /\ detailVersion \in Nat /\ calls \subseteq Calls /\ selected \in Runs
    BY DEF AnalysesInv, AnalysesTypes
  <1>3. CASE c.version = stateVersion
    <2>1. Render(c.answer, selected, calls \ {c})
      BY <1>3 DEF TakeList, IsNewestList
    <2>2. c.answer \in Lists /\ InList(c.answer) \subseteq Exist /\ mine \subseteq InList(c.answer)
      BY <1>1, <1>3 DEF AnalysesInv, CallSound, ListSound
    <2> QED
      BY <1>1, <1>2, <2>1, <2>2, RenderKeeps
  <1>4. CASE c.version # stateVersion
    <2>1. calls' = calls \ {c} /\ UNCHANGED <<list, selected, detailVersion, loaded>>
      BY <1>4 DEF TakeList, IsNewestList
    <2>2. detailError' \in Runs
      BY <1>1, <1>2 DEF AnalysesTypes
    <2> QED
      BY <1>1, <2>1, <2>2, OneIsGone
  <1> QED
    BY <1>3, <1>4

LEMMA SelectAnalysisKeeps ==
  ASSUME AnalysesAssumption, AnalysesInv, NEW r \in Analyses, SelectAnalysis(r)
  PROVE  AnalysesInv'
  <1>1. /\ r \in InList(list) /\ Render(list, r, calls) /\ UNCHANGED <<saved, stateVersion, detailError, action, mine>>
    BY DEF SelectAnalysis
  <1>2. list \in Lists /\ r \in Runs /\ stateVersion \in Nat
    BY <1>1 DEF AnalysesInv, AnalysesTypes, InList, Runs
  <1>3. InList(list) \subseteq Exist /\ mine \subseteq InList(list)
    BY DEF AnalysesInv, PageInv
  <1> QED
    BY <1>1, <1>2, <1>3, RenderKeeps

LEMMA StartedKeeps ==
  ASSUME AnalysesAssumption, AnalysesInv, NEW c \in calls, Started(c)
  PROVE  AnalysesInv'
  <1>0. PICK r, known : r = c.answer /\ known = [list EXCEPT ![r] = 1]
    OBVIOUS
  <1>1. /\ c.kind = "start" /\ c.answer # None /\ stateVersion' = stateVersion + 1
        /\ Render(known, r, calls \ {c}) /\ mine' = mine \cup {r} /\ action' = None
        /\ UNCHANGED <<saved, detailError>>
    BY <1>0 DEF Started, AfterStart
  <1>2. r \in Exist /\ r \in Analyses /\ list # None
    BY <1>0, <1>1 DEF AnalysesInv, CallSound, StartSound, Exist
  <1>3. list \in Lists /\ stateVersion \in Nat
    BY <1>2 DEF AnalysesInv, AnalysesTypes
  <1>4. known \in Lists /\ known[r] = 1 /\ \A x \in Analyses : x # r => known[x] = list[x]
    BY <1>0, <1>2, <1>3 DEF Lists
  <1>5. known # None
    BY <1>4 DEF Lists, AnalysesAssumption
  <1>6. InList(known) = InList(list) \cup {r}
    BY <1>2, <1>4, <1>5 DEF InList
  <1>7. InList(known) \subseteq Exist /\ mine' \subseteq InList(known)
    BY <1>1, <1>2, <1>6 DEF AnalysesInv, PageInv
  <1>8. \A d \in calls \ {c} : ~d.last
    BY <1>1 DEF AnalysesInv, CallsInv
  <1>9. stateVersion' \in Nat /\ stateVersion' >= stateVersion /\ stateVersion' > stateVersion /\ r \in Runs
    BY <1>1, <1>2, <1>3 DEF Runs
  <1> QED
    BY <1>1, <1>4, <1>7, <1>8, <1>9, RenderKeeps

LEMMA AnalysesKeep ==
  ASSUME AnalysesAssumption, AnalysesInv, [AnalysesNext]_analysesVars
  PROVE  AnalysesInv'
  <1>1. CASE UNCHANGED analysesVars
    BY <1>1 DEF analysesVars, analysesState, AnalysesInv, AnalysesTypes, CallsInv, PageInv, CallSound, ListSound,
                DetailSound, StartSound, Exist, InList
  <1>2. CASE PollList \/ RetryDetail \/ StartAnalysis \/ SaveReview
    BY <1>2, PollListKeeps, RetryDetailKeeps, StartAnalysisKeeps, SaveReviewKeeps
  <1>3. ASSUME NEW r \in Analyses, ChangeAnalysis(r) \/ SelectAnalysis(r)
        PROVE  AnalysesInv'
    BY <1>3, ChangeAnalysisKeeps, SelectAnalysisKeeps
  <1>4. ASSUME NEW c \in calls, \/ HandleRead(c) \/ HandleWrite(c) \/ TakeList(c) \/ TakeDetail(c)
                                \/ FailCall(c) \/ Started(c) \/ Reviewed(c)
        PROVE  AnalysesInv'
    BY <1>4, HandleReadKeeps, HandleWriteKeeps, TakeListKeeps, TakeDetailKeeps, FailCallKeeps, StartedKeeps, ReviewedKeeps
  <1> QED
    BY <1>1, <1>2, <1>3, <1>4 DEF AnalysesNext

\* What is loaded is dropped, stays, or is replaced by what is newer.
LEMMA LoadedAdvances ==
  ASSUME AnalysesAssumption, AnalysesInv, [AnalysesNext]_analysesVars
  PROVE  \/ loaded' \in {loaded, None}
         \/ loaded # None /\ loaded'.run = loaded.run => loaded'.version >= loaded.version
  <1>1. ASSUME NEW c \in calls, TakeDetail(c)
        PROVE  \/ loaded' = loaded
               \/ loaded # None /\ loaded'.run = loaded.run => loaded'.version >= loaded.version
    BY <1>1, TakeDetailKeeps
  <1>2. ASSUME NEW known, NEW choice, NEW rest, Render(known, choice, rest)
        PROVE  loaded' \in {loaded, None}
    BY <1>2 DEF Render
  <1>3. CASE UNCHANGED analysesVars \/ PollList \/ RetryDetail \/ StartAnalysis \/ SaveReview
    BY <1>3 DEF analysesVars, analysesState, PollList, RetryDetail, StartAnalysis, SaveReview
  <1>4. ASSUME NEW r \in Analyses, ChangeAnalysis(r) \/ SelectAnalysis(r)
        PROVE  loaded' \in {loaded, None}
    BY <1>2, <1>4 DEF ChangeAnalysis, SelectAnalysis, analysesState
  <1>5. ASSUME NEW c \in calls, HandleRead(c) \/ HandleWrite(c) \/ FailCall(c) \/ Reviewed(c)
        PROVE  loaded' \in {loaded, None}
    BY <1>5 DEF HandleRead, HandleWrite, FailCall, Reviewed, analysesState
  <1>6. ASSUME NEW c \in calls, TakeList(c) \/ Started(c)
        PROVE  loaded' \in {loaded, None}
    BY <1>2, <1>6 DEF TakeList, Started
  <1> QED
    BY <1>1, <1>3, <1>4, <1>5, <1>6 DEF AnalysesNext

LEMMA DetailAdvances ==
  ASSUME AnalysesAssumption, AnalysesInv, [AnalysesNext]_analysesVars,
         Detail # None, Detail' # None, Detail.run = Detail'.run
  PROVE  Detail'.version >= Detail.version
  <1>1. Detail = loaded /\ Detail' = loaded' /\ loaded # None /\ loaded' # None
    BY DEF Detail
  <1>2. loaded.version \in Nat
    BY <1>1 DEF AnalysesInv, AnalysesTypes
  <1>3. loaded'.run = loaded.run
    BY <1>1
  <1>4. loaded'.version >= loaded.version
    BY <1>1, <1>2, <1>3, LoadedAdvances
  <1> QED
    BY <1>1, <1>4

LEMMA StartedAreListed == ASSUME AnalysesInv PROVE OwnRunStays
  BY DEF AnalysesInv, PageInv, OwnRunStays

\* The page of the analyses: a list that is still taken has every analysis that was started here, and one
\* request for details is the newest and no older than what is shown.
THEOREM AnalysesInvariant == AnalysesSpec => []AnalysesInv
  <1>1. AnalysesInit => AnalysesInv
    BY AnalysesStart, AnalysesHypothesis
  <1>2. AnalysesInv /\ [AnalysesNext]_analysesVars => AnalysesInv'
    BY AnalysesKeep, AnalysesHypothesis
  <1> QED
    BY <1>1, <1>2, PTL DEF AnalysesSpec

-----------------------------------------------------------------------------
(* The live feed.                                                          *)
(*                                                                         *)
(* The argument.  At most one connection is live: made for the token that  *)
(* is entered now and not known to be closed.  What it has under way       *)
(* continues what the page shows: its snapshot comes first and every event *)
(* follows the one before it, wherever the queue was cut off.              *)

Run(s) == \A i \in 1..(Len(s) - 1) : s[i + 1] = s[i] + 1
LastEvent(s) == IF s = <<>> THEN 0 ELSE s[Len(s)]
UpTo(t, s) == \A i \in 1..Len(s) : s[i] \in 1..t

PageTypes == [effect : Nat, current : Connections \cup {None}, connected : BOOLEAN, events : Seq(Nat),
              sessions : Nat \cup {None}, retry : BOOLEAN]

\* The state has its types; the sessions have changed at most once with each event.
FeedTypes ==
  /\ taken \in 0..MaxChanges /\ version \in Nat /\ version <= MaxChanges + taken
  /\ link \in [Connections -> Links \cup {None}] /\ clients \subseteq Made
  /\ page \in PageTypes /\ page.effect <= MaxTokens /\ Len(page.events) <= MaxEvents

Live(c) == c \in Made /\ link[c].effect = page.effect /\ ~link[c].closed

\* One connection is live, none when the page is about to connect.
OneLiveInv ==
  /\ \A c \in Made : link[c].effect <= page.effect
  /\ \A c, d \in Connections : Live(c) /\ Live(d) => c = d
  /\ page.retry => \A c \in Connections : ~Live(c)

\* The server broadcasts to every connection it has accepted and to no other.
ToldInv ==
  \A c \in Made :
    /\ ~link[c].accepted => link[c].queue = <<>> /\ c \notin clients
    /\ link[c].accepted /\ link[c].up => c \in clients

\* The message i of a queue is an event, or holds a state of the sessions.
EventAt(q, i) == i \in 1..Len(q) /\ q[i].type = "event"
SessionsAt(q, i) == i \in 1..Len(q) /\ q[i].type # "event"

\* A snapshot comes first; its events, t of them taken, are a run.
SnapshotFirst(q, t) ==
  \A i \in 1..Len(q) : q[i].type = "snapshot" =>
    i = 1 /\ Run(q[i].events) /\ UpTo(t, q[i].events) /\ Len(q[i].events) <= MaxEvents

\* The last event that is shown before the first event of a queue, if s is shown now.
Base(q, s) == LastEvent(IF q # <<>> /\ q[1].type = "snapshot" THEN q[1].events ELSE s)

\* Every event of a queue is one later than what is shown or than another one before it.
Continued(q, i, s) ==
  q[i].event = Base(q, s) + 1 \/ \E j \in 1..(i - 1) : EventAt(q, j) /\ q[i].event = q[j].event + 1
EventsContinue(q, s, t) ==
  /\ \A i \in 1..Len(q) : EventAt(q, i) => q[i].event \in 1..t /\ Continued(q, i, s)
  /\ \A i, j \in 1..Len(q) : EventAt(q, i) /\ EventAt(q, j) /\ i < j => q[i].event < q[j].event

\* The sessions of a queue do not go back behind v, which is shown, or beyond w.
SessionsContinue(q, v, w) ==
  /\ \A i \in 1..Len(q) : SessionsAt(q, i) => q[i].sessions <= w /\ (v # None => v <= q[i].sessions)
  /\ \A i, j \in 1..Len(q) : SessionsAt(q, i) /\ SessionsAt(q, j) /\ i < j => q[i].sessions <= q[j].sessions

\* All of it, after t events and w changes of the sessions, if the page is p.
Continues(q, p, t, w) ==
  SnapshotFirst(q, t) /\ EventsContinue(q, p.events, t) /\ SessionsContinue(q, p.sessions, w)

\* The queue leads to the newest event.
Complete(q, s, t) == t = Base(q, s) \/ \E i \in 1..Len(q) : EventAt(q, i) /\ q[i].event = t

LiveInv ==
  \A c \in Connections : Live(c) =>
    /\ Continues(link[c].queue, page, taken, version)
    /\ link[c].accepted /\ link[c].up => Complete(link[c].queue, page.events, taken)

\* What the page shows is a run, and nothing the server does not have.
ShownInv ==
  /\ Run(page.events) /\ UpTo(taken, page.events)
  /\ page.sessions # None => page.sessions <= version

FeedInv == FeedTypes /\ OneLiveInv /\ ToldInv /\ LiveInv /\ ShownInv

-----------------------------------------------------------------------------
(* Lemmas about the queues.                                                *)

LEMMA FeedHypothesis == FeedAssumption
  BY FeedAssumption

LEMMA TailOf ==
  ASSUME NEW S, NEW q \in Seq(S), q # <<>>
  PROVE  /\ Tail(q) \in Seq(S) /\ Len(q) \in Nat \ {0} /\ Len(Tail(q)) = Len(q) - 1 /\ Head(q) = q[1] /\ q[1] \in S
         /\ \A i \in 1..Len(Tail(q)) : Tail(q)[i] = q[i + 1]
  OBVIOUS

LEMMA AppendOf ==
  ASSUME NEW S, NEW q \in Seq(S), NEW m \in S
  PROVE  /\ Append(q, m) \in Seq(S) /\ Append(q, m) # <<>> /\ Len(q) \in Nat
         /\ Len(Append(q, m)) = Len(q) + 1 /\ Append(q, m)[Len(q) + 1] = m
         /\ \A i \in 1..Len(q) : Append(q, m)[i] = q[i] /\ q[i] \in S
  OBVIOUS

LEMMA CutOf ==
  ASSUME NEW S, NEW q \in Seq(S), NEW n \in 0..Len(q)
  PROVE  /\ SubSeq(q, 1, n) \in Seq(S) /\ Len(SubSeq(q, 1, n)) = n /\ Len(q) \in Nat
         /\ \A i \in 1..n : SubSeq(q, 1, n)[i] = q[i]
  OBVIOUS

LEMMA MessageKinds ==
  ASSUME NEW m \in Messages
  PROVE  /\ m.type \in {"snapshot", "event", "sessions"}
         /\ m.type = "event" => m.event \in Nat
         /\ m.type # "event" => m.sessions \in Nat
         /\ m.type = "snapshot" => m.events \in Seq(Nat)
  BY DEF Messages

LEMMA LastEventOf == ASSUME NEW s \in Seq(Nat) PROVE LastEvent(s) \in Nat
  BY DEF LastEvent

LEMMA BaseOf == ASSUME NEW q \in Seq(Messages), NEW s \in Seq(Nat) PROVE Base(q, s) \in Nat
  <1>1. q # <<>> /\ q[1].type = "snapshot" => q[1].events \in Seq(Nat)
    <2>1. q # <<>> => q[1] \in Messages
      OBVIOUS
    <2> QED
      BY <2>1, MessageKinds
  <1> QED
    BY <1>1, LastEventOf DEF Base

LEMMA FirstQueue ==
  ASSUME NEW m \in Messages, NEW t \in Nat, NEW w \in Nat, NEW p \in PageTypes,
         m.type = "snapshot", Run(m.events), UpTo(t, m.events), Len(m.events) <= MaxEvents, LastEvent(m.events) = t,
         m.sessions = w, p.sessions # None => p.sessions <= w
  PROVE  /\ <<m>> \in Seq(Messages) /\ Continues(<<m>>, p, t, w) /\ Complete(<<m>>, p.events, t)
  <1>1. <<m>> \in Seq(Messages) /\ Len(<<m>>) = 1 /\ <<m>>[1] = m /\ <<m>> # <<>>
    OBVIOUS
  <1>2. SnapshotFirst(<<m>>, t)
    BY <1>1 DEF SnapshotFirst
  <1>3. EventsContinue(<<m>>, p.events, t)
    BY <1>1 DEF EventsContinue, EventAt
  <1>4. SessionsContinue(<<m>>, p.sessions, w)
    BY <1>1 DEF SessionsContinue, SessionsAt, PageTypes
  <1>5. Complete(<<m>>, p.events, t)
    BY <1>1 DEF Complete, Base
  <1> QED
    BY <1>1, <1>2, <1>3, <1>4, <1>5 DEF Continues

LEMMA EmptyQueue ==
  ASSUME NEW p, NEW t, NEW w
  PROVE  Continues(<<>>, p, t, w)
  BY DEF Continues, SnapshotFirst, EventsContinue, SessionsContinue

\* More is taken, or a change is made, which this queue is not told of.
LEMMA QueueStays ==
  ASSUME NEW q \in Seq(Messages), NEW p \in PageTypes, NEW t \in Nat, NEW w \in Nat, NEW u \in Nat, NEW x \in Nat,
         t <= u, w <= x, Continues(q, p, t, w)
  PROVE  Continues(q, p, u, x)
  <1>1. SnapshotFirst(q, u)
    BY DEF Continues, SnapshotFirst, UpTo
  <1>2. EventsContinue(q, p.events, u)
    BY DEF Continues, EventsContinue
  <1>3. SessionsContinue(q, p.sessions, x)
    <2>1. \A i \in 1..Len(q) : SessionsAt(q, i) => q[i].sessions \in Nat
      BY MessageKinds DEF SessionsAt
    <2> QED
      BY <2>1 DEF Continues, SessionsContinue
  <1> QED
    BY <1>1, <1>2, <1>3 DEF Continues

\* The connection is lost: a part of what is under way still arrives.
LEMMA QueueIsCut ==
  ASSUME NEW q \in Seq(Messages), NEW p \in PageTypes, NEW t \in Nat, NEW w \in Nat, NEW n \in 0..Len(q),
         Continues(q, p, t, w)
  PROVE  SubSeq(q, 1, n) \in Seq(Messages) /\ Continues(SubSeq(q, 1, n), p, t, w)
  <1> DEFINE r == SubSeq(q, 1, n)
  <1>1. r \in Seq(Messages) /\ Len(r) = n /\ Len(q) \in Nat /\ \A i \in 1..n : r[i] = q[i]
    BY CutOf
  <1> HIDE DEF r
  <1>2. SnapshotFirst(r, t)
    BY <1>1 DEF Continues, SnapshotFirst
  <1>3. r # <<>> => q # <<>> /\ r[1] = q[1]
    BY <1>1
  <1>4. r # <<>> => Base(r, p.events) = Base(q, p.events)
    BY <1>3 DEF Base
  <1>5. EventsContinue(r, p.events, t)
    <2>1. \A i \in 1..n : EventAt(r, i) <=> EventAt(q, i)
      BY <1>1 DEF EventAt
    <2>2. ASSUME NEW i \in 1..n, EventAt(r, i) PROVE r[i].event \in 1..t /\ Continued(r, i, p.events)
      <3>1. q[i].event \in 1..t /\ Continued(q, i, p.events) /\ r # <<>> /\ r[i] = q[i] /\ EventAt(q, i)
        BY <1>1, <2>1, <2>2 DEF Continues, EventsContinue
      <3>2. \A j \in 1..(i - 1) : j \in 1..n /\ r[j] = q[j] /\ (EventAt(r, j) <=> EventAt(q, j))
        BY <1>1, <2>1
      <3> QED
        BY <1>4, <3>1, <3>2 DEF Continued
    <2>3. ASSUME NEW i \in 1..n, NEW j \in 1..n, EventAt(r, i), EventAt(r, j), i < j PROVE r[i].event < r[j].event
      BY <1>1, <2>1, <2>3 DEF Continues, EventsContinue
    <2> QED
      BY <1>1, <2>2, <2>3 DEF EventsContinue
  <1>6. SessionsContinue(r, p.sessions, w)
    BY <1>1 DEF Continues, SessionsContinue, SessionsAt
  <1> QED
    BY <1>1, <1>2, <1>5, <1>6 DEF Continues, r

\* The server has told of the event after the newest one.
LEMMA EventIsSent ==
  ASSUME NEW q \in Seq(Messages), NEW p \in PageTypes, NEW t \in Nat, NEW w \in Nat,
         Continues(q, p, t, w), Complete(q, p.events, t)
  PROVE  /\ Append(q, EventMessage(t + 1)) \in Seq(Messages)
         /\ Continues(Append(q, EventMessage(t + 1)), p, t + 1, w)
         /\ Complete(Append(q, EventMessage(t + 1)), p.events, t + 1)
  <1> DEFINE m == EventMessage(t + 1)
             r == Append(q, m)
  <1>1. m \in Messages /\ m.type = "event" /\ m.event = t + 1
    BY DEF EventMessage, Messages
  <1>2. /\ r \in Seq(Messages) /\ r # <<>> /\ Len(q) \in Nat /\ Len(r) = Len(q) + 1 /\ r[Len(q) + 1] = m
        /\ \A i \in 1..Len(q) : r[i] = q[i] /\ q[i] \in Messages
    BY <1>1, AppendOf
  <1> HIDE DEF r, m
  <1>3. Base(r, p.events) = Base(q, p.events)
    <2>1. CASE q = <<>>
      BY <1>1, <1>2, <2>1 DEF Base
    <2>2. CASE q # <<>>
      <3>1. 1 \in 1..Len(q)
        BY <2>2, <1>2
      <3> QED
        BY <1>2, <2>2, <3>1 DEF Base
    <2> QED
      BY <2>1, <2>2
  <1>4. SnapshotFirst(r, t + 1)
    <2>1. ASSUME NEW i \in 1..Len(r), r[i].type = "snapshot" PROVE i \in 1..Len(q) /\ r[i] = q[i]
      BY <1>1, <1>2, <2>1
    <2>2. \A s : UpTo(t, s) => UpTo(t + 1, s)
      BY DEF UpTo
    <2> QED
      BY <2>1, <2>2 DEF Continues, SnapshotFirst
  <1>5. \A i \in 1..Len(q) : EventAt(r, i) <=> EventAt(q, i)
    BY <1>2 DEF EventAt
  <1>6. EventAt(r, Len(q) + 1) /\ r[Len(q) + 1].event = t + 1
    BY <1>1, <1>2 DEF EventAt
  <1>7. EventsContinue(r, p.events, t + 1)
    <2>1. ASSUME NEW i \in 1..Len(q), EventAt(r, i) PROVE r[i].event \in 1..t /\ Continued(r, i, p.events)
      <3>1. q[i].event \in 1..t /\ Continued(q, i, p.events) /\ r[i] = q[i]
        BY <1>2, <1>5, <2>1 DEF Continues, EventsContinue
      <3>2. \A j \in 1..(i - 1) : r[j] = q[j] /\ (EventAt(r, j) <=> EventAt(q, j))
        BY <1>2, <1>5
      <3> QED
        BY <1>3, <3>1, <3>2 DEF Continued
    <2>2. Continued(r, Len(q) + 1, p.events)
      <3>1. CASE t = Base(q, p.events)
        BY <1>3, <1>6, <3>1 DEF Continued
      <3>2. ASSUME NEW i \in 1..Len(q), EventAt(q, i), q[i].event = t PROVE Continued(r, Len(q) + 1, p.events)
        <4>1. i \in 1..((Len(q) + 1) - 1) /\ EventAt(r, i) /\ r[i].event = t
          BY <1>2, <1>5, <3>2
        <4> QED
          BY <1>6, <4>1 DEF Continued
      <3> QED
        BY <3>1, <3>2 DEF Complete
    <2>3. ASSUME NEW i \in 1..Len(r), EventAt(r, i) PROVE r[i].event \in 1..(t + 1) /\ Continued(r, i, p.events)
      <3>1. CASE i = Len(q) + 1
        BY <1>6, <2>2, <3>1
      <3>2. CASE i \in 1..Len(q)
        BY <2>1, <2>3, <3>2
      <3> QED
        BY <1>2, <3>1, <3>2
    <2>4. ASSUME NEW i \in 1..Len(r), NEW j \in 1..Len(r), EventAt(r, i), EventAt(r, j), i < j
          PROVE  r[i].event < r[j].event
      <3>1. i \in 1..Len(q) /\ r[i].event \in 1..t /\ r[i] = q[i] /\ EventAt(q, i)
        BY <1>2, <1>5, <2>1, <2>4
      <3>2. CASE j = Len(q) + 1
        BY <1>6, <3>1, <3>2
      <3>3. CASE j \in 1..Len(q)
        <4>1. r[j] = q[j] /\ EventAt(q, j)
          BY <1>2, <1>5, <2>4, <3>3
        <4> QED
          BY <2>4, <3>1, <3>3, <4>1 DEF Continues, EventsContinue
      <3> QED
        BY <1>2, <3>2, <3>3
    <2> QED
      BY <2>3, <2>4 DEF EventsContinue
  <1>8. SessionsContinue(r, p.sessions, w)
    <2>1. ASSUME NEW i \in 1..Len(r), SessionsAt(r, i) PROVE i \in 1..Len(q) /\ r[i] = q[i] /\ SessionsAt(q, i)
      BY <1>1, <1>2, <2>1 DEF SessionsAt
    <2> QED
      BY <2>1 DEF Continues, SessionsContinue
  <1>9. Complete(r, p.events, t + 1)
    <2>1. Len(q) + 1 \in 1..Len(r)
      BY <1>2
    <2> QED
      BY <1>6, <2>1 DEF Complete
  <1> QED
    BY <1>2, <1>4, <1>7, <1>8, <1>9 DEF Continues, r, m

\* The server has told of the newest sessions.
LEMMA SessionsAreSent ==
  ASSUME NEW q \in Seq(Messages), NEW p \in PageTypes, NEW t \in Nat, NEW w \in Nat,
         Continues(q, p, t, w), Complete(q, p.events, t), p.sessions # None => p.sessions <= w
  PROVE  /\ Append(q, SessionsMessage(w + 1)) \in Seq(Messages)
         /\ Continues(Append(q, SessionsMessage(w + 1)), p, t, w + 1)
         /\ Complete(Append(q, SessionsMessage(w + 1)), p.events, t)
  <1> DEFINE m == SessionsMessage(w + 1)
             r == Append(q, m)
  <1>1. m \in Messages /\ m.type = "sessions" /\ m.sessions = w + 1
    BY DEF SessionsMessage, Messages
  <1>2. /\ r \in Seq(Messages) /\ r # <<>> /\ Len(q) \in Nat /\ Len(r) = Len(q) + 1 /\ r[Len(q) + 1] = m
        /\ \A i \in 1..Len(q) : r[i] = q[i] /\ q[i] \in Messages
    BY <1>1, AppendOf
  <1> HIDE DEF r, m
  <1>3. Base(r, p.events) = Base(q, p.events)
    <2>1. CASE q = <<>>
      BY <1>1, <1>2, <2>1 DEF Base
    <2>2. CASE q # <<>>
      <3>1. 1 \in 1..Len(q)
        BY <2>2, <1>2
      <3> QED
        BY <1>2, <2>2, <3>1 DEF Base
    <2> QED
      BY <2>1, <2>2
  <1>4. SnapshotFirst(r, t)
    <2>1. ASSUME NEW i \in 1..Len(r), r[i].type = "snapshot" PROVE i \in 1..Len(q) /\ r[i] = q[i]
      BY <1>1, <1>2, <2>1
    <2> QED
      BY <2>1 DEF Continues, SnapshotFirst
  <1>5. \A i \in 1..Len(r) : EventAt(r, i) => i \in 1..Len(q) /\ r[i] = q[i] /\ EventAt(q, i)
    BY <1>1, <1>2 DEF EventAt
  <1>6. \A i \in 1..Len(q) : EventAt(q, i) => i \in 1..Len(r) /\ r[i] = q[i] /\ EventAt(r, i)
    BY <1>2 DEF EventAt
  <1>7. EventsContinue(r, p.events, t)
    <2>1. ASSUME NEW i \in 1..Len(r), EventAt(r, i) PROVE r[i].event \in 1..t /\ Continued(r, i, p.events)
      <3>1. i \in 1..Len(q) /\ q[i].event \in 1..t /\ Continued(q, i, p.events) /\ r[i] = q[i]
        BY <1>5, <2>1 DEF Continues, EventsContinue
      <3>2. \A j \in 1..(i - 1) : j \in 1..Len(q)
        BY <1>2, <3>1
      <3> QED
        BY <1>3, <1>6, <3>1, <3>2 DEF Continued
    <2> QED
      BY <1>5, <2>1 DEF Continues, EventsContinue
  <1>8. SessionsContinue(r, p.sessions, w + 1)
    <2>1. \A i \in 1..Len(q) : SessionsAt(q, i) => q[i].sessions \in Nat /\ q[i].sessions <= w
      BY <1>2, MessageKinds DEF Continues, SessionsContinue, SessionsAt
    <2>2. \A i \in 1..Len(q) : r[i] = q[i] /\ (SessionsAt(r, i) <=> SessionsAt(q, i))
      BY <1>2 DEF SessionsAt
    <2>3. r[Len(q) + 1].sessions = w + 1
      BY <1>1, <1>2
    <2>4. ASSUME NEW i \in 1..Len(r), SessionsAt(r, i)
          PROVE  r[i].sessions <= w + 1 /\ (p.sessions # None => p.sessions <= r[i].sessions)
      <3>1. CASE i = Len(q) + 1
        BY <2>3, <3>1 DEF PageTypes
      <3>2. CASE i \in 1..Len(q)
        BY <2>1, <2>2, <2>4, <3>2 DEF Continues, SessionsContinue
      <3> QED
        BY <1>2, <3>1, <3>2
    <2>5. ASSUME NEW i \in 1..Len(r), NEW j \in 1..Len(r), SessionsAt(r, i), SessionsAt(r, j), i < j
          PROVE  r[i].sessions <= r[j].sessions
      <3>1. i \in 1..Len(q)
        BY <1>2, <2>5
      <3>2. CASE j = Len(q) + 1
        BY <2>1, <2>2, <2>3, <2>5, <3>1, <3>2
      <3>3. CASE j \in 1..Len(q)
        BY <2>2, <2>5, <3>1, <3>3 DEF Continues, SessionsContinue
      <3> QED
        BY <1>2, <3>2, <3>3
    <2> QED
      BY <2>4, <2>5 DEF SessionsContinue
  <1>9. Complete(r, p.events, t)
    BY <1>3, <1>6 DEF Complete
  <1> QED
    BY <1>2, <1>4, <1>7, <1>8, <1>9 DEF Continues, r, m

\* The first message is taken off the queue, and s2 is shown after it.
LEMMA EventsGoOn ==
  ASSUME NEW q \in Seq(Messages), q # <<>>, NEW t \in Nat, NEW s \in Seq(Nat), NEW s2 \in Seq(Nat),
         EventsContinue(q, s, t),
         IF q[1].type = "event" THEN Base(Tail(q), s2) = q[1].event ELSE Base(Tail(q), s2) = Base(q, s)
  PROVE  EventsContinue(Tail(q), s2, t) /\ (Complete(q, s, t) => Complete(Tail(q), s2, t))
  <1> DEFINE r == Tail(q)
  <1>1. /\ r \in Seq(Messages) /\ Len(q) \in Nat \ {0} /\ Len(r) = Len(q) - 1 /\ q[1] \in Messages
        /\ \A i \in 1..Len(r) : r[i] = q[i + 1]
    BY TailOf
  <1> HIDE DEF r
  <1>2. \A i \in 1..Len(r) : i + 1 \in 1..Len(q) /\ r[i] = q[i + 1] /\ (EventAt(r, i) <=> EventAt(q, i + 1))
    <2>1. ASSUME NEW i \in 1..Len(r) PROVE i + 1 \in 1..Len(q) /\ r[i] = q[i + 1]
      BY <1>1
    <2> QED
      BY <2>1 DEF EventAt
  <1>3. \A i \in 1..Len(q) : EventAt(q, i) => q[i].event \in 1..t /\ Continued(q, i, s)
    BY DEF EventsContinue
  <1>4. \A i, j \in 1..Len(q) : EventAt(q, i) /\ EventAt(q, j) /\ i < j => q[i].event < q[j].event
    BY DEF EventsContinue
  <1>5. 1 \in 1..Len(q) /\ Base(q, s) \in Nat
    BY <1>1, BaseOf
  <1>6. EventAt(q, 1) => q[1].event = Base(q, s) + 1 /\ Base(r, s2) = q[1].event
    BY <1>3, <1>5 DEF Continued, EventAt, r
  <1>7. ~EventAt(q, 1) => Base(r, s2) = Base(q, s)
    BY <1>5 DEF EventAt, r
  <1>8. ASSUME NEW i \in 1..Len(r), EventAt(r, i) PROVE r[i].event \in 1..t /\ Continued(r, i, s2)
    <2>1. i + 1 \in 1..Len(q) /\ r[i] = q[i + 1] /\ EventAt(q, i + 1) /\ q[i + 1].event \in 1..t /\ Continued(q, i + 1, s)
      BY <1>2, <1>3, <1>8
    <2>2. CASE q[i + 1].event = Base(q, s) + 1
      <3>1. ~EventAt(q, 1)
        <4>1. EventAt(q, 1) => q[1].event < q[i + 1].event
          BY <1>4, <1>5, <2>1
        <4> QED
          BY <1>5, <1>6, <2>1, <2>2, <4>1
      <3> QED
        BY <1>7, <2>1, <2>2, <3>1 DEF Continued
    <2>3. ASSUME NEW j \in 1..((i + 1) - 1), EventAt(q, j), q[i + 1].event = q[j].event + 1 PROVE Continued(r, i, s2)
      <3>1. CASE j = 1
        BY <1>6, <2>1, <2>3, <3>1 DEF Continued
      <3>2. CASE j > 1
        <4>1. j - 1 \in 1..(i - 1) /\ j - 1 \in 1..Len(r) /\ (j - 1) + 1 = j
          BY <1>1, <3>2
        <4>2. r[j - 1] = q[j] /\ EventAt(r, j - 1)
          BY <1>2, <2>3, <4>1
        <4> QED
          BY <2>1, <2>3, <4>1, <4>2 DEF Continued
      <3> QED
        BY <3>1, <3>2
    <2> QED
      BY <2>1, <2>2, <2>3 DEF Continued
  <1>9. ASSUME NEW i \in 1..Len(r), NEW j \in 1..Len(r), EventAt(r, i), EventAt(r, j), i < j
        PROVE  r[i].event < r[j].event
    <2>1. i + 1 < j + 1
      BY <1>9
    <2> QED
      BY <1>2, <1>4, <1>9, <2>1
  <1>10. EventsContinue(r, s2, t)
    BY <1>8, <1>9 DEF EventsContinue
  <1>11. ASSUME Complete(q, s, t) PROVE Complete(r, s2, t)
    <2>1. CASE t = Base(q, s)
      <3>1. ~EventAt(q, 1)
        BY <1>3, <1>5, <1>6, <2>1
      <3> QED
        BY <1>7, <2>1, <3>1 DEF Complete
    <2>2. ASSUME NEW i \in 1..Len(q), EventAt(q, i), q[i].event = t PROVE Complete(r, s2, t)
      <3>1. CASE i = 1
        BY <1>6, <2>2, <3>1 DEF Complete
      <3>2. CASE i > 1
        <4>1. i - 1 \in 1..Len(r) /\ (i - 1) + 1 = i
          BY <1>1, <3>2
        <4>2. r[i - 1] = q[i] /\ EventAt(r, i - 1)
          BY <1>2, <2>2, <4>1
        <4> QED
          BY <2>2, <4>1, <4>2 DEF Complete
      <3> QED
        BY <3>1, <3>2
    <2> QED
      BY <1>11, <2>1, <2>2 DEF Complete
  <1> QED
    BY <1>1, <1>10, <1>11 DEF r

\* The rest of a queue has no snapshot, and its sessions are the later ones.
LEMMA RestOfQueue ==
  ASSUME NEW q \in Seq(Messages), q # <<>>, NEW p \in PageTypes, NEW t \in Nat, NEW w \in Nat, Continues(q, p, t, w),
         NEW v \in Nat \cup {None}, IF q[1].type = "event" THEN v = p.sessions ELSE v = q[1].sessions
  PROVE  /\ SnapshotFirst(Tail(q), t) /\ (\A s : Base(Tail(q), s) = LastEvent(s)) /\ SessionsContinue(Tail(q), v, w)
         /\ Base(q, p.events) = LastEvent(IF q[1].type = "snapshot" THEN q[1].events ELSE p.events)
  <1> DEFINE r == Tail(q)
  <1>1. /\ r \in Seq(Messages) /\ Len(q) \in Nat \ {0} /\ Len(r) = Len(q) - 1 /\ q[1] \in Messages
        /\ \A i \in 1..Len(r) : r[i] = q[i + 1]
    BY TailOf
  <1> HIDE DEF r
  <1>2. \A i \in 1..Len(r) : i + 1 \in 1..Len(q) /\ r[i].type # "snapshot"
    BY <1>1 DEF Continues, SnapshotFirst
  <1>3. SnapshotFirst(r, t)
    BY <1>2 DEF SnapshotFirst
  <1>4. \A s : Base(r, s) = LastEvent(s)
    <2>1. r # <<>> => 1 \in 1..Len(r)
      BY <1>1
    <2> QED
      BY <1>2, <2>1 DEF Base
  <1>5. SessionsContinue(r, v, w)
    <2>1. \A i \in 1..Len(r) : i + 1 \in 1..Len(q) /\ r[i] = q[i + 1] /\ (SessionsAt(r, i) <=> SessionsAt(q, i + 1))
      <3>1. ASSUME NEW i \in 1..Len(r) PROVE i + 1 \in 1..Len(q) /\ r[i] = q[i + 1]
        BY <1>1
      <3> QED
        BY <3>1 DEF SessionsAt
    <2>2. 1 \in 1..Len(q) /\ (q[1].type # "event" => SessionsAt(q, 1))
      BY <1>1 DEF SessionsAt
    <2>3. \A i \in 1..Len(q) : SessionsAt(q, i) => q[i].sessions <= w /\ (p.sessions # None => p.sessions <= q[i].sessions)
      BY DEF Continues, SessionsContinue
    <2>4. \A i, j \in 1..Len(q) : SessionsAt(q, i) /\ SessionsAt(q, j) /\ i < j => q[i].sessions <= q[j].sessions
      BY DEF Continues, SessionsContinue
    <2>5. ASSUME NEW i \in 1..Len(r), SessionsAt(r, i) PROVE r[i].sessions <= w /\ (v # None => v <= r[i].sessions)
      <3>1. 1 < i + 1
        OBVIOUS
      <3>2. SessionsAt(q, 1) => q[1].sessions <= q[i + 1].sessions
        BY <2>1, <2>2, <2>4, <2>5, <3>1
      <3> QED
        BY <2>1, <2>2, <2>3, <2>5, <3>2
    <2>6. ASSUME NEW i \in 1..Len(r), NEW j \in 1..Len(r), SessionsAt(r, i), SessionsAt(r, j), i < j
          PROVE  r[i].sessions <= r[j].sessions
      <3>1. i + 1 < j + 1
        BY <2>6
      <3> QED
        BY <2>1, <2>4, <2>6, <3>1
    <2> QED
      BY <2>5, <2>6 DEF SessionsContinue
  <1>6. Base(q, p.events) = LastEvent(IF q[1].type = "snapshot" THEN q[1].events ELSE p.events)
    BY DEF Base
  <1> QED
    BY <1>3, <1>4, <1>5, <1>6 DEF r

\* A run that the next event is added to, and the oldest one dropped if there are too many.
Longer(s, n) == LET all == Append(s, n) IN IF Len(all) > MaxEvents THEN Tail(all) ELSE all

LEMMA RestOfRun ==
  ASSUME NEW t \in Nat, NEW s \in Seq(Nat), Run(s), UpTo(t, s), Len(s) > 1
  PROVE  /\ Tail(s) \in Seq(Nat) /\ Run(Tail(s)) /\ UpTo(t, Tail(s)) /\ Len(Tail(s)) = Len(s) - 1
         /\ LastEvent(Tail(s)) = LastEvent(s)
  <1> DEFINE r == Tail(s)
  <1>1. /\ r \in Seq(Nat) /\ Len(r) = Len(s) - 1 /\ Len(s) \in Nat /\ s # <<>> /\ r # <<>>
        /\ \A i \in 1..Len(r) : r[i] = s[i + 1]
    <2>1. s # <<>>
      OBVIOUS
    <2>2. r \in Seq(Nat) /\ Len(s) \in Nat /\ Len(r) = Len(s) - 1 /\ \A i \in 1..Len(r) : r[i] = s[i + 1]
      BY <2>1, TailOf
    <2> HIDE DEF r
    <2>3. r # <<>>
      BY <2>2
    <2> QED
      BY <2>1, <2>2, <2>3
  <1> HIDE DEF r
  <1>2. UpTo(t, r)
    <2>1. ASSUME NEW i \in 1..Len(r) PROVE r[i] \in 1..t
      <3>1. i + 1 \in 1..Len(s)
        BY <1>1
      <3> QED
        BY <1>1, <3>1 DEF UpTo
    <2> QED
      BY <2>1 DEF UpTo
  <1>3. Run(r)
    <2>1. ASSUME NEW i \in 1..(Len(r) - 1) PROVE r[i + 1] = r[i] + 1
      <3>1. i + 1 \in 1..(Len(s) - 1) /\ i \in 1..Len(r) /\ i + 1 \in 1..Len(r)
        BY <1>1
      <3>2. s[(i + 1) + 1] = s[i + 1] + 1
        BY <3>1 DEF Run
      <3> QED
        BY <1>1, <3>1, <3>2
    <2> QED
      BY <2>1 DEF Run
  <1>4. LastEvent(r) = LastEvent(s)
    <2>1. Len(r) \in 1..Len(r) /\ Len(r) + 1 = Len(s)
      BY <1>1
    <2>2. r[Len(r)] = s[Len(s)]
      BY <1>1, <2>1
    <2> QED
      BY <1>1, <2>2 DEF LastEvent
  <1>5. r \in Seq(Nat) /\ Run(r) /\ UpTo(t, r) /\ Len(r) = Len(s) - 1 /\ LastEvent(r) = LastEvent(s)
    BY <1>1, <1>2, <1>3, <1>4
  <1> QED
    BY <1>5, Zenon DEF r

LEMMA LongerRun ==
  ASSUME NEW t \in Nat, NEW s \in Seq(Nat), Run(s), UpTo(t, s), Len(s) <= MaxEvents,
         NEW n \in 1..t, n = LastEvent(s) + 1
  PROVE  /\ Longer(s, n) \in Seq(Nat) /\ Run(Longer(s, n)) /\ UpTo(t, Longer(s, n)) /\ Len(Longer(s, n)) <= MaxEvents
         /\ LastEvent(Longer(s, n)) = n
  <1> DEFINE all == Append(s, n)
  <1>1. /\ all \in Seq(Nat) /\ all # <<>> /\ Len(s) \in Nat /\ Len(all) = Len(s) + 1 /\ all[Len(s) + 1] = n
        /\ \A i \in 1..Len(s) : all[i] = s[i] /\ s[i] \in Nat
    BY AppendOf
  <1>2. MaxEvents \in Nat \ {0} /\ Longer(s, n) = IF Len(all) > MaxEvents THEN Tail(all) ELSE all
    BY FeedHypothesis DEF FeedAssumption, Longer
  <1> HIDE DEF all
  <1>3. UpTo(t, all)
    <2>1. ASSUME NEW i \in 1..Len(all) PROVE all[i] \in 1..t
      <3>1. i = Len(s) + 1 \/ i \in 1..Len(s)
        BY <1>1
      <3> QED
        BY <1>1, <3>1 DEF UpTo
    <2> QED
      BY <2>1 DEF UpTo
  <1>4. Run(all)
    <2>1. ASSUME NEW i \in 1..(Len(all) - 1) PROVE all[i + 1] = all[i] + 1
      <3>1. CASE i = Len(s)
        <4>1. s # <<>> /\ LastEvent(s) = s[Len(s)]
          BY <1>1, <2>1, <3>1 DEF LastEvent
        <4> QED
          BY <1>1, <2>1, <3>1, <4>1
      <3>2. CASE i < Len(s)
        <4>1. i \in 1..(Len(s) - 1) /\ i + 1 \in 1..Len(s) /\ i \in 1..Len(s)
          BY <1>1, <3>2
        <4>2. s[i + 1] = s[i] + 1
          BY <4>1 DEF Run
        <4> QED
          BY <1>1, <4>1, <4>2
      <3> QED
        BY <1>1, <3>1, <3>2
    <2> QED
      BY <2>1 DEF Run
  <1>5. LastEvent(all) = n
    BY <1>1 DEF LastEvent
  <1>6. CASE Len(all) > MaxEvents
    <2>1. Len(all) > 1
      BY <1>1, <1>2, <1>6
    <2>2. /\ Tail(all) \in Seq(Nat) /\ Run(Tail(all)) /\ UpTo(t, Tail(all)) /\ Len(Tail(all)) = Len(all) - 1
          /\ LastEvent(Tail(all)) = n
      BY <1>1, <1>3, <1>4, <1>5, <2>1, RestOfRun
    <2>3. Len(Tail(all)) <= MaxEvents /\ Longer(s, n) = Tail(all)
      BY <1>1, <1>2, <1>6, <2>2
    <2> QED
      BY <2>2, <2>3
  <1>7. CASE ~(Len(all) > MaxEvents)
    <2>1. Longer(s, n) = all /\ Len(all) <= MaxEvents
      BY <1>1, <1>2, <1>7
    <2> QED
      BY <1>1, <1>3, <1>4, <1>5, <2>1
  <1> QED
    BY <1>6, <1>7

\* The page shows the first message of a queue that continues what it shows.
LEMMA MessageIsShown ==
  ASSUME NEW q \in Seq(Messages), q # <<>>, NEW t \in Nat, NEW w \in Nat,
         page \in PageTypes, Continues(q, page, t, w), Len(page.events) <= MaxEvents,
         Run(page.events), UpTo(t, page.events), page.sessions # None => page.sessions <= w,
         NEW x, x = Displayed(Head(q))
  PROVE  /\ x \in PageTypes /\ x.effect = page.effect /\ x.retry = page.retry
         /\ Run(x.events) /\ UpTo(t, x.events) /\ Len(x.events) <= MaxEvents
         /\ x.sessions # None => x.sessions <= w
         /\ page.sessions # None => x.sessions >= page.sessions
         /\ Continues(Tail(q), x, t, w) /\ (Complete(q, page.events, t) => Complete(Tail(q), x.events, t))
  <1> DEFINE m == q[1]
  <1>1. /\ Tail(q) \in Seq(Messages) /\ Head(q) = m /\ m \in Messages /\ 1 \in 1..Len(q)
    BY TailOf
  <1>2. /\ m.type \in {"snapshot", "event", "sessions"} /\ (m.type = "event" => m.event \in Nat)
        /\ m.type # "event" => m.sessions \in Nat
        /\ m.type = "snapshot" => m.events \in Seq(Nat)
    BY <1>1, MessageKinds
  <1>3. m.type # "event" => m.sessions <= w /\ (page.sessions # None => page.sessions <= m.sessions)
    BY <1>1 DEF Continues, SessionsContinue, SessionsAt
  <1>4. SnapshotFirst(q, t) /\ EventsContinue(q, page.events, t) /\ page.events \in Seq(Nat)
        /\ page.sessions \in Nat \cup {None}
    BY DEF Continues, PageTypes
  <1>5. CASE m.type = "event"
    <2> DEFINE r == Longer(page.events, m.event)
    <2>1. x = [page EXCEPT !.events = r]
      BY <1>1, <1>5 DEF Displayed, Longer
    <2>2. /\ SnapshotFirst(Tail(q), t) /\ (\A s : Base(Tail(q), s) = LastEvent(s))
          /\ SessionsContinue(Tail(q), page.sessions, w) /\ Base(q, page.events) = LastEvent(page.events)
      BY <1>4, <1>5, RestOfQueue
    <2>3. EventAt(q, 1)
      BY <1>1, <1>5 DEF EventAt
    <2>4. m.event \in 1..t /\ m.event = LastEvent(page.events) + 1
      BY <1>1, <1>4, <2>2, <2>3 DEF EventsContinue, Continued
    <2>5. r \in Seq(Nat) /\ Run(r) /\ UpTo(t, r) /\ Len(r) <= MaxEvents /\ LastEvent(r) = m.event
      BY <1>4, <2>4, LongerRun
    <2>6. /\ x \in PageTypes /\ x.events = r /\ x.sessions = page.sessions
          /\ x.effect = page.effect /\ x.retry = page.retry
      BY <2>1, <2>5 DEF PageTypes
    <2>7. EventsContinue(Tail(q), r, t) /\ (Complete(q, page.events, t) => Complete(Tail(q), r, t))
      BY <1>4, <1>5, <2>2, <2>5, EventsGoOn
    <2>8. page.sessions # None => x.sessions >= page.sessions
      BY <1>4, <2>6
    <2> QED
      BY <2>2, <2>5, <2>6, <2>7, <2>8 DEF Continues
  <1>6. CASE m.type = "sessions"
    <2>1. x = [page EXCEPT !.sessions = m.sessions]
      BY <1>1, <1>6 DEF Displayed
    <2>2. /\ SnapshotFirst(Tail(q), t) /\ (\A s : Base(Tail(q), s) = LastEvent(s))
          /\ SessionsContinue(Tail(q), m.sessions, w) /\ Base(q, page.events) = LastEvent(page.events)
      BY <1>2, <1>6, RestOfQueue
    <2>3. /\ x \in PageTypes /\ x.events = page.events /\ x.sessions = m.sessions
          /\ x.effect = page.effect /\ x.retry = page.retry
      BY <1>2, <1>6, <2>1 DEF PageTypes
    <2>4. EventsContinue(Tail(q), page.events, t) /\ (Complete(q, page.events, t) => Complete(Tail(q), page.events, t))
      BY <1>4, <1>6, <2>2, EventsGoOn
    <2> QED
      BY <1>2, <1>3, <1>4, <1>6, <2>2, <2>3, <2>4 DEF Continues
  <1>7. CASE m.type = "snapshot"
    <2>1. x = [page EXCEPT !.sessions = m.sessions, !.events = m.events]
      BY <1>1, <1>7 DEF Displayed
    <2>2. /\ SnapshotFirst(Tail(q), t) /\ (\A s : Base(Tail(q), s) = LastEvent(s))
          /\ SessionsContinue(Tail(q), m.sessions, w) /\ Base(q, page.events) = LastEvent(m.events)
      BY <1>2, <1>7, RestOfQueue
    <2>3. /\ x \in PageTypes /\ x.events = m.events /\ x.sessions = m.sessions
          /\ x.effect = page.effect /\ x.retry = page.retry
      BY <1>2, <1>7, <2>1 DEF PageTypes
    <2>4. EventsContinue(Tail(q), m.events, t) /\ (Complete(q, page.events, t) => Complete(Tail(q), m.events, t))
      BY <1>2, <1>4, <1>7, <2>2, EventsGoOn
    <2>5. Run(m.events) /\ UpTo(t, m.events) /\ Len(m.events) <= MaxEvents
      BY <1>1, <1>4, <1>7 DEF SnapshotFirst
    <2> QED
      BY <1>2, <1>3, <1>4, <1>7, <2>2, <2>3, <2>4, <2>5 DEF Continues
  <1> QED
    BY <1>2, <1>5, <1>6, <1>7

-----------------------------------------------------------------------------
(* The steps.                                                              *)

LEMMA MadeHere ==
  ASSUME FeedTypes, NEW c \in Connections
  PROVE  /\ c \in Made => link[c] \in Links
         /\ link[c] \in Links => c \in Made
         /\ c \in Made <=> link[c] # None
  BY FeedHypothesis DEF FeedTypes, Made, FeedAssumption

LEMMA LinkFields ==
  ASSUME NEW l \in Links
  PROVE  /\ l.effect \in Nat /\ l.queue \in Seq(Messages) /\ l.up \in BOOLEAN /\ l.accepted \in BOOLEAN /\ l.closed \in BOOLEAN
         /\ \A q \in Seq(Messages) : [l EXCEPT !.queue = q] \in Links
  BY DEF Links

\* The connections are those that were there, for the effects they were made for.
SameLinks ==
  /\ link' \in [Connections -> Links \cup {None}] /\ Made' = Made
  /\ \A c \in Made : link'[c].effect = link[c].effect /\ link'[c].closed = link[c].closed

LEMMA LiveStays ==
  ASSUME FeedInv, SameLinks, page'.effect = page.effect, page'.retry = page.retry
  PROVE  OneLiveInv' /\ \A c \in Connections : Live(c)' <=> Live(c)
  <1>1. \A c \in Connections : Live(c)' <=> Live(c)
    BY DEF SameLinks, Live
  <1> QED
    BY <1>1 DEF SameLinks, FeedInv, OneLiveInv

LEMMA FeedStarts == ASSUME FeedInit PROVE FeedInv
  <1>1. Made = {} /\ \A c \in Connections : ~Live(c)
    BY DEF FeedInit, Made, Live
  <1>2. page = Blank(0) /\ page \in PageTypes /\ page.events = <<>> /\ page.sessions = None /\ page.effect = 0
    BY DEF FeedInit, Blank, PageTypes
  <1>3. FeedTypes
    BY <1>1, <1>2, FeedHypothesis DEF FeedInit, FeedTypes, FeedAssumption
  <1>4. OneLiveInv /\ ToldInv /\ LiveInv
    BY <1>1 DEF OneLiveInv, ToldInv, LiveInv
  <1>5. ShownInv
    BY <1>2 DEF ShownInv, Run, UpTo
  <1> QED
    BY <1>3, <1>4, <1>5 DEF FeedInv

\* The server tells the connections it has accepted and that are up.
Told(c) == c \in clients /\ link[c].up

LEMMA ToldAreAccepted ==
  ASSUME FeedInv, NEW c \in Connections, Told(c)
  PROVE  c \in Made /\ link[c] \in Links /\ link[c].accepted /\ link[c].up /\ link[c].queue \in Seq(Messages)
  BY MadeHere, LinkFields DEF FeedInv, FeedTypes, ToldInv, Told

LEMMA BroadcastKeeps ==
  ASSUME FeedInv, UNCHANGED <<clients, page>>, taken' \in 0..MaxChanges, version' \in Nat,
         taken <= taken', version <= version', version' <= MaxChanges + taken',
         link' = [c \in Connections |-> link'[c]],
         \A c \in Connections : ~Told(c) => link'[c] = link[c],
         \A c \in Connections : Told(c) =>
           link'[c] = [link[c] EXCEPT !.queue = link'[c].queue] /\ link'[c].queue \in Seq(Messages),
         \A c \in Connections : Told(c) /\ Live(c) =>
           Continues(link'[c].queue, page, taken', version') /\ Complete(link'[c].queue, page.events, taken')
  PROVE  FeedInv'
  <1> USE FeedHypothesis DEF FeedInv
  <1>1. /\ taken \in Nat /\ taken' \in Nat /\ version \in Nat /\ MaxChanges \in Nat
        /\ page \in PageTypes /\ page.events \in Seq(Nat)
    BY DEF FeedTypes, PageTypes, FeedAssumption
  <1>2. SameLinks /\ \A c \in Made : link'[c].accepted = link[c].accepted /\ link'[c].up = link[c].up
    <2>1. \A c \in Connections : link'[c] \in Links \cup {None} /\ (link'[c] \in Links <=> link[c] \in Links)
      BY ToldAreAccepted, LinkFields, MadeHere DEF FeedTypes, FeedAssumption
    <2>2. link' \in [Connections -> Links \cup {None}]
      BY <2>1
    <2>3. \A c \in Connections : c \in Made' <=> c \in Made
      BY <2>1, <2>2, MadeHere DEF Made, FeedTypes, FeedAssumption
    <2>4. Made' = Made
      BY <2>3 DEF Made
    <2>5. ASSUME NEW c \in Made
          PROVE  /\ link'[c].effect = link[c].effect /\ link'[c].closed = link[c].closed
                 /\ link'[c].accepted = link[c].accepted /\ link'[c].up = link[c].up
      <3>1. c \in Connections /\ link[c] \in Links
        BY MadeHere DEF Made
      <3>2. CASE Told(c)
        BY <3>1, <3>2 DEF Links
      <3>3. CASE ~Told(c)
        BY <3>1, <3>3
      <3> QED
        BY <3>2, <3>3
    <2> QED
      BY <2>2, <2>4, <2>5 DEF SameLinks
  <1>3. OneLiveInv' /\ \A c \in Connections : Live(c)' <=> Live(c)
    BY <1>2, LiveStays
  <1>4. FeedTypes'
    <2>1. /\ link' \in [Connections -> Links \cup {None}] /\ Made' = Made /\ clients \subseteq Made
          /\ page.effect <= MaxTokens /\ Len(page.events) <= MaxEvents
      BY <1>2 DEF FeedTypes, SameLinks
    <2> QED
      BY <1>1, <2>1 DEF FeedTypes
  <1>5. ToldInv'
    <2>1. \A c \in Made : c \in Connections
      BY DEF Made
    <2>2. ASSUME NEW c \in Made
          PROVE  /\ ~link'[c].accepted => link'[c].queue = <<>> /\ c \notin clients'
                 /\ link'[c].accepted /\ link'[c].up => c \in clients'
      <3>1. c \in clients => Told(c) \/ ~link[c].up
        BY DEF Told
      <3>2. ~link[c].accepted => ~Told(c)
        BY <2>1, ToldAreAccepted
      <3> QED
        BY <1>2, <2>1, <3>1, <3>2 DEF ToldInv
    <2>3. Made' = Made
      BY <1>2 DEF SameLinks
    <2> QED
      BY <2>2, <2>3 DEF ToldInv
  <1>6. ShownInv'
    <2>1. UpTo(taken', page.events)
      <3>1. \A n \in 1..taken : n \in 1..taken'
        BY <1>1
      <3>2. UpTo(taken, page.events)
        BY DEF ShownInv
      <3> QED
        BY <3>1, <3>2 DEF UpTo
    <2>2. page.sessions # None => page.sessions <= version'
      BY <1>1 DEF ShownInv, PageTypes
    <2> QED
      BY <2>1, <2>2 DEF ShownInv
  <1>7. ASSUME NEW c \in Connections, Live(c)
        PROVE  /\ Continues(link'[c].queue, page, taken', version')
               /\ link'[c].accepted /\ link'[c].up => Complete(link'[c].queue, page.events, taken')
    <2>1. c \in Made /\ link[c] \in Links /\ link[c].queue \in Seq(Messages) /\ Continues(link[c].queue, page, taken, version)
      BY <1>7, MadeHere, LinkFields DEF LiveInv, Live
    <2>2. CASE Told(c)
      BY <1>7, <2>2
    <2>3. CASE ~Told(c)
      <3>1. link'[c] = link[c] /\ ~(link[c].accepted /\ link[c].up)
        BY <2>1, <2>3 DEF ToldInv, Told
      <3>2. Continues(link[c].queue, page, taken', version')
        BY <1>1, <2>1, QueueStays
      <3> QED
        BY <3>1, <3>2
    <2> QED
      BY <2>2, <2>3
  <1>8. LiveInv'
    BY <1>3, <1>7 DEF LiveInv
  <1> QED
    BY <1>3, <1>4, <1>5, <1>6, <1>8

\* A queue after what it had when the connection is told.
LEMMA ToldContinue ==
  ASSUME FeedInv, NEW c \in Connections, Told(c), Live(c)
  PROVE  /\ link[c].queue \in Seq(Messages) /\ Continues(link[c].queue, page, taken, version)
         /\ Complete(link[c].queue, page.events, taken)
  BY ToldAreAccepted DEF FeedInv, LiveInv

LEMMA TakeEventKeeps ==
  ASSUME FeedInv, NEW changes \in BOOLEAN, TakeEvent(changes)
  PROVE  FeedInv'
  <1>1. /\ taken \in Nat /\ version \in Nat /\ taken' = taken + 1 /\ taken < MaxChanges /\ MaxChanges \in Nat
        /\ version' = (IF changes THEN version + 1 ELSE version) /\ clients' = clients /\ page' = page
        /\ version <= MaxChanges + taken /\ page \in PageTypes /\ (page.sessions # None => page.sessions <= version)
    BY FeedHypothesis DEF TakeEvent, FeedInv, FeedTypes, ShownInv, FeedAssumption
  <1> DEFINE First(c) == Append(link[c].queue, EventMessage(taken + 1))
             Then(c) == Append(First(c), SessionsMessage(version + 1))
             Both(c) == IF changes THEN Then(c) ELSE First(c)
  <1>2. \A c \in Connections : link'[c] = IF Told(c) THEN [link[c] EXCEPT !.queue = Both(c)] ELSE link[c]
    <2>1. \A c \in Connections : Told(c) => link[c] \in Links
      BY ToldAreAccepted
    <2> QED
      BY <2>1 DEF TakeEvent, Send, Links, Told
  <1>3. link' = [c \in Connections |-> link'[c]]
    BY DEF TakeEvent, Send
  <1>4. EventMessage(taken + 1) \in Messages /\ SessionsMessage(version + 1) \in Messages
    BY <1>1 DEF EventMessage, SessionsMessage, Messages
  <1>5. ASSUME NEW c \in Connections, Told(c)
        PROVE  link'[c] = [link[c] EXCEPT !.queue = Both(c)] /\ link'[c].queue = Both(c) /\ Both(c) \in Seq(Messages)
    <2>1. link[c] \in Links /\ link[c].queue \in Seq(Messages)
      BY <1>5, ToldAreAccepted
    <2>2. First(c) \in Seq(Messages)
      BY <1>4, <2>1, AppendOf
    <2> HIDE DEF First
    <2>3. Then(c) \in Seq(Messages)
      BY <1>4, <2>2, AppendOf
    <2> HIDE DEF Then
    <2> QED
      BY <1>2, <1>5, <2>1, <2>2, <2>3 DEF Links
  <1>6. ASSUME NEW c \in Connections, Told(c), Live(c)
        PROVE  Continues(Both(c), page, taken', version') /\ Complete(Both(c), page.events, taken')
    <2>1. /\ link[c].queue \in Seq(Messages) /\ Continues(link[c].queue, page, taken, version)
          /\ Complete(link[c].queue, page.events, taken)
      BY <1>6, ToldContinue
    <2>2. /\ taken \in Nat /\ taken + 1 \in Nat /\ version \in Nat /\ page \in PageTypes
          /\ page.sessions # None => page.sessions <= version
      BY <1>1
    <2>3. /\ First(c) \in Seq(Messages) /\ Continues(First(c), page, taken + 1, version)
          /\ Complete(First(c), page.events, taken + 1)
      BY <2>1, <2>2, EventIsSent
    <2> HIDE DEF First
    <2>4. Continues(Then(c), page, taken + 1, version + 1) /\ Complete(Then(c), page.events, taken + 1)
      BY <2>2, <2>3, SessionsAreSent
    <2> HIDE DEF Then
    <2>5. taken' = taken + 1 /\ version' = (IF changes THEN version + 1 ELSE version)
      BY <1>1
    <2>6. CASE changes
      BY <2>4, <2>5, <2>6, Zenon
    <2>7. CASE ~changes
      BY <2>3, <2>5, <2>7, Zenon
    <2> QED
      BY <2>6, <2>7
  <1> HIDE DEF Both
  <1>7. /\ UNCHANGED <<clients, page>> /\ taken' \in 0..MaxChanges /\ version' \in Nat
        /\ taken <= taken' /\ version <= version' /\ version' <= MaxChanges + taken'
    <2>1. version' = version + 1 \/ version' = version
      BY <1>1, Zenon
    <2>2. /\ taken \in Nat /\ version \in Nat /\ taken' = taken + 1 /\ taken < MaxChanges /\ MaxChanges \in Nat
          /\ clients' = clients /\ page' = page /\ version <= MaxChanges + taken
      BY <1>1
    <2> QED
      BY <2>1, <2>2
  <1>8. \A c \in Connections : ~Told(c) => link'[c] = link[c]
    BY <1>2
  <1>9. \A c \in Connections : Told(c) =>
          link'[c] = [link[c] EXCEPT !.queue = link'[c].queue] /\ link'[c].queue \in Seq(Messages)
    BY <1>5
  <1>10. \A c \in Connections : Told(c) /\ Live(c) =>
           Continues(link'[c].queue, page, taken', version') /\ Complete(link'[c].queue, page.events, taken')
    BY <1>5, <1>6
  <1> QED
    BY <1>3, <1>7, <1>8, <1>9, <1>10, BroadcastKeeps

LEMMA ChangeSessionsKeeps == ASSUME FeedInv, ChangeSessions PROVE FeedInv'
  <1>1. /\ taken \in 0..MaxChanges /\ version \in Nat /\ version' = version + 1 /\ version < MaxChanges /\ MaxChanges \in Nat
        /\ taken' = taken /\ clients' = clients /\ page' = page
        /\ page \in PageTypes /\ (page.sessions # None => page.sessions <= version)
    BY FeedHypothesis DEF ChangeSessions, FeedInv, FeedTypes, ShownInv, FeedAssumption
  <1> DEFINE Then(c) == Append(link[c].queue, SessionsMessage(version + 1))
  <1>2. \A c \in Connections : link'[c] = IF Told(c) THEN [link[c] EXCEPT !.queue = Then(c)] ELSE link[c]
    <2>1. \A c \in Connections : Told(c) => link[c] \in Links
      BY ToldAreAccepted
    <2> QED
      BY <2>1 DEF ChangeSessions, Send, Links, Told
  <1>3. link' = [c \in Connections |-> link'[c]]
    BY DEF ChangeSessions, Send
  <1>4. ASSUME NEW c \in Connections, Told(c)
        PROVE  link'[c] = [link[c] EXCEPT !.queue = Then(c)] /\ link'[c].queue = Then(c) /\ Then(c) \in Seq(Messages)
    <2>1. link[c] \in Links /\ link[c].queue \in Seq(Messages) /\ SessionsMessage(version + 1) \in Messages
      BY <1>1, <1>4, ToldAreAccepted DEF SessionsMessage, Messages
    <2>2. Then(c) \in Seq(Messages)
      BY <2>1, AppendOf
    <2> HIDE DEF Then
    <2> QED
      BY <1>2, <1>4, <2>1, <2>2 DEF Links
  <1>5. ASSUME NEW c \in Connections, Told(c), Live(c)
        PROVE  Continues(Then(c), page, taken', version') /\ Complete(Then(c), page.events, taken')
    <2>1. /\ link[c].queue \in Seq(Messages) /\ Continues(link[c].queue, page, taken, version)
          /\ Complete(link[c].queue, page.events, taken)
      BY <1>5, ToldContinue
    <2>2. taken \in Nat /\ version \in Nat /\ page \in PageTypes /\ (page.sessions # None => page.sessions <= version)
      BY <1>1
    <2>3. Continues(Then(c), page, taken, version + 1) /\ Complete(Then(c), page.events, taken)
      BY <2>1, <2>2, SessionsAreSent
    <2> HIDE DEF Then
    <2> QED
      BY <1>1, <2>3
  <1> HIDE DEF Then
  <1> QED
    BY <1>1, <1>2, <1>3, <1>4, <1>5, BroadcastKeeps

\* One connection changes: it stays where it was made, and the others as they are.
LEMMA OneLinkChanges ==
  ASSUME FeedInv, NEW c \in Made, NEW l \in Links, link' = [link EXCEPT ![c] = l]
  PROVE  /\ c \in Connections /\ link[c] \in Links /\ Made' = Made /\ link' \in [Connections -> Links \cup {None}]
         /\ link'[c] = l /\ \A d \in Connections : d # c => link'[d] = link[d]
  BY FeedHypothesis, MadeHere DEF FeedInv, FeedTypes, FeedAssumption, Made

LEMMA NewestEvents ==
  ASSUME taken \in Nat
  PROVE  LET s == LastOf(taken, Recent) IN
         s \in Seq(Nat) /\ Run(s) /\ UpTo(taken, s) /\ Len(s) <= MaxEvents /\ LastEvent(s) = taken
  <1> DEFINE s == LastOf(taken, Recent)
             k == IF taken < Recent THEN taken ELSE Recent
  <1>1. Recent \in Nat \ {0} /\ MaxEvents \in Nat /\ Recent <= MaxEvents
    BY FeedHypothesis DEF FeedAssumption
  <1>2. k \in Nat /\ k <= Recent /\ k <= taken /\ (taken > 0 => k > 0)
    BY <1>1
  <1>3. s = [i \in 1..k |-> (taken - k) + i]
    BY <1>1 DEF LastOf
  <1> HIDE DEF s, k
  <1>4. s \in Seq(Nat) /\ Len(s) = k /\ \A i \in 1..k : s[i] = (taken - k) + i
    BY <1>2, <1>3
  <1>5. Run(s) /\ UpTo(taken, s) /\ Len(s) <= MaxEvents
    BY <1>1, <1>2, <1>4 DEF Run, UpTo
  <1>6. LastEvent(s) = taken
    <2>1. CASE k = 0
      BY <1>2, <1>4, <2>1 DEF LastEvent
    <2>2. CASE k > 0
      BY <1>2, <1>4, <2>2 DEF LastEvent
    <2> QED
      BY <1>2, <2>1, <2>2
  <1> QED
    BY <1>4, <1>5, <1>6 DEF s

LEMMA AcceptKeeps == ASSUME FeedInv, NEW c \in Connections, Accept(c) PROVE FeedInv'
  <1> USE FeedHypothesis DEF FeedInv
  <1> DEFINE l == [link[c] EXCEPT !.queue = <<Snapshot>>, !.accepted = TRUE]
  <1>1. /\ c \in Made /\ link[c] \in Links /\ link[c].up /\ ~link[c].accepted /\ clients' = clients \cup {c}
        /\ taken' = taken /\ version' = version /\ page' = page
    BY MadeHere DEF Accept
  <1>2. link' = [link EXCEPT ![c] = l]
    BY DEF Accept
  <1>3. taken \in Nat /\ version \in Nat /\ page \in PageTypes /\ (page.sessions # None => page.sessions <= version)
    BY DEF FeedTypes, ShownInv
  <1>4. /\ Snapshot \in Messages /\ Snapshot.type = "snapshot" /\ Snapshot.sessions = version
        /\ Run(Snapshot.events) /\ UpTo(taken, Snapshot.events) /\ Len(Snapshot.events) <= MaxEvents
        /\ LastEvent(Snapshot.events) = taken
    <2>1. LET s == LastOf(taken, Recent) IN
          s \in Seq(Nat) /\ Run(s) /\ UpTo(taken, s) /\ Len(s) <= MaxEvents /\ LastEvent(s) = taken
      BY <1>3, NewestEvents
    <2> QED
      BY <1>3, <2>1 DEF Snapshot, Messages
  <1>5. /\ <<Snapshot>> \in Seq(Messages) /\ Continues(<<Snapshot>>, page, taken, version)
        /\ Complete(<<Snapshot>>, page.events, taken)
    BY <1>3, <1>4, FirstQueue
  <1>6. /\ l \in Links /\ l.queue = <<Snapshot>> /\ l.accepted /\ l.up
        /\ l.effect = link[c].effect /\ l.closed = link[c].closed
    BY <1>1, <1>5 DEF Links
  <1> HIDE DEF l
  <1>7. /\ Made' = Made /\ link' \in [Connections -> Links \cup {None}]
        /\ link'[c] = l /\ \A d \in Connections : d # c => link'[d] = link[d]
    BY <1>1, <1>2, <1>6, OneLinkChanges
  <1>8. SameLinks
    BY <1>6, <1>7 DEF SameLinks, Made
  <1>9. OneLiveInv' /\ \A d \in Connections : Live(d)' <=> Live(d)
    BY <1>1, <1>8, LiveStays
  <1>10. FeedTypes'
    BY <1>1, <1>7 DEF FeedTypes
  <1>11. ToldInv'
    BY <1>1, <1>6, <1>7 DEF ToldInv, Made
  <1>12. LiveInv'
    <2>1. ASSUME NEW d \in Connections, Live(d)
          PROVE  /\ Continues(link'[d].queue, page, taken, version)
                 /\ link'[d].accepted /\ link'[d].up => Complete(link'[d].queue, page.events, taken)
      BY <1>5, <1>6, <1>7, <2>1 DEF LiveInv
    <2> QED
      BY <1>1, <1>9, <2>1 DEF LiveInv
  <1>13. ShownInv'
    BY <1>1 DEF ShownInv
  <1> QED
    BY <1>9, <1>10, <1>11, <1>12, <1>13

LEMMA ForgetKeeps == ASSUME FeedInv, NEW c \in Connections, Forget(c) PROVE FeedInv'
  <1>1. /\ clients' = clients \ {c} /\ ~link[c].up
        /\ taken' = taken /\ version' = version /\ page' = page /\ link' = link
    BY DEF Forget
  <1>2. Made' = Made
    BY <1>1 DEF Made
  <1>3. \A d \in Connections : Live(d)' <=> Live(d)
    BY <1>1, <1>2 DEF Live
  <1> QED
    BY <1>1, <1>2, <1>3 DEF FeedInv, FeedTypes, OneLiveInv, ToldInv, LiveInv, ShownInv

LEMMA OnOpenKeeps == ASSUME FeedInv, NEW c \in Connections, OnOpen(c) PROVE FeedInv'
  <1>1. /\ page' = [page EXCEPT !.connected = TRUE]
        /\ taken' = taken /\ version' = version /\ clients' = clients /\ link' = link /\ page \in PageTypes
    BY DEF OnOpen, FeedInv, FeedTypes
  <1>2. /\ page' \in PageTypes /\ page'.effect = page.effect /\ page'.retry = page.retry
        /\ page'.events = page.events /\ page'.sessions = page.sessions
    BY <1>1 DEF PageTypes
  <1>3. Made' = Made
    BY <1>1 DEF Made
  <1>4. \A d \in Connections : Live(d)' <=> Live(d)
    BY <1>1, <1>2, <1>3 DEF Live
  <1>5. OneLiveInv' /\ ToldInv'
    BY <1>1, <1>2, <1>3, <1>4 DEF FeedInv, OneLiveInv, ToldInv
  <1>6. FeedTypes'
    BY <1>1, <1>2, <1>3 DEF FeedInv, FeedTypes
  <1>7. LiveInv' /\ ShownInv'
    BY <1>1, <1>2, <1>4 DEF FeedInv, LiveInv, ShownInv, Continues
  <1> QED
    BY <1>5, <1>6, <1>7 DEF FeedInv

LEMMA ConnectKeeps == ASSUME FeedInv, Connect PROVE FeedInv'
  <1> USE FeedHypothesis DEF FeedInv
  <1> DEFINE l == [effect |-> page.effect, queue |-> <<>>, up |-> TRUE, accepted |-> FALSE, closed |-> FALSE]
  <1>1. PICK c \in Connections \ Made :
          link' = [link EXCEPT ![c] = l] /\ page' = [page EXCEPT !.retry = FALSE, !.current = c]
    BY DEF Connect
  <1>2. /\ page.retry /\ taken' = taken /\ version' = version /\ clients' = clients /\ page \in PageTypes
        /\ clients \subseteq Made /\ link \in [Connections -> Links \cup {None}] /\ None \notin Links
    BY DEF Connect, FeedTypes, FeedAssumption
  <1>3. /\ page' \in PageTypes /\ page'.effect = page.effect /\ ~page'.retry
        /\ page'.events = page.events /\ page'.sessions = page.sessions
    BY <1>1, <1>2 DEF PageTypes
  <1>4. l \in Links /\ l.effect = page.effect /\ l.queue = <<>> /\ ~l.accepted /\ ~l.closed
    BY <1>2 DEF Links, PageTypes
  <1> HIDE DEF l
  <1>5. link' \in [Connections -> Links \cup {None}] /\ link'[c] = l /\ \A d \in Connections : d # c => link'[d] = link[d]
    BY <1>1, <1>2, <1>4
  <1>6. Made' = Made \cup {c}
    BY <1>1, <1>2, <1>4, <1>5 DEF Made
  <1>7. \A d \in Connections : Live(d)' => d = c
    BY <1>2, <1>3, <1>5, <1>6 DEF OneLiveInv, Live
  <1>8. FeedTypes'
    BY <1>2, <1>3, <1>5, <1>6 DEF FeedTypes
  <1>9. OneLiveInv'
    <2>1. page.effect \in Nat
      BY <1>2 DEF PageTypes
    <2>2. \A d \in Made' : link'[d].effect <= page'.effect
      BY <1>3, <1>4, <1>5, <1>6, <2>1 DEF OneLiveInv, Made
    <2> QED
      BY <1>3, <1>7, <2>2 DEF OneLiveInv
  <1>10. ToldInv'
    BY <1>1, <1>2, <1>4, <1>5, <1>6 DEF ToldInv, Made
  <1>11. LiveInv'
    <2>1. Continues(link'[c].queue, page', taken', version') /\ ~link'[c].accepted
      BY <1>4, <1>5, EmptyQueue
    <2> QED
      BY <1>7, <2>1 DEF LiveInv
  <1>12. ShownInv'
    BY <1>2, <1>3 DEF ShownInv
  <1> QED
    BY <1>8, <1>9, <1>10, <1>11, <1>12

LEMMA NewTokenKeeps == ASSUME FeedInv, NewToken PROVE FeedInv'
  <1> USE FeedHypothesis DEF FeedInv
  <1>1. /\ page.effect < MaxTokens /\ page' = Blank(page.effect + 1) /\ page \in PageTypes /\ MaxTokens \in Nat
        /\ taken' = taken /\ version' = version /\ clients' = clients /\ link' = link
        /\ link \in [Connections -> Links \cup {None}] /\ MaxEvents \in Nat
    BY DEF NewToken, FeedTypes, FeedAssumption
  <1>2. page.effect \in Nat
    BY <1>1 DEF PageTypes
  <1>3. /\ page' \in PageTypes /\ page'.effect = page.effect + 1 /\ page'.events = <<>> /\ page'.sessions = None
    BY <1>1, <1>2 DEF Blank, PageTypes
  <1>4. Made' = Made
    BY <1>1 DEF Made
  <1>5. \A c \in Made : link[c].effect <= page.effect /\ link[c].effect \in Nat
    BY MadeHere, LinkFields DEF OneLiveInv, Made
  <1>6. \A c \in Connections : ~Live(c)'
    BY <1>1, <1>2, <1>3, <1>4, <1>5 DEF Live
  <1>7. FeedTypes'
    BY <1>1, <1>2, <1>3, <1>4 DEF FeedTypes
  <1>8. OneLiveInv'
    BY <1>1, <1>2, <1>3, <1>4, <1>5, <1>6 DEF OneLiveInv
  <1>9. ToldInv' /\ LiveInv'
    BY <1>1, <1>4, <1>6 DEF ToldInv, LiveInv
  <1>10. ShownInv'
    BY <1>3 DEF ShownInv, Run, UpTo
  <1> QED
    BY <1>7, <1>8, <1>9, <1>10

LEMMA LoseKeeps == ASSUME FeedInv, NEW c \in Connections, Lose(c) PROVE FeedInv'
  <1> USE FeedHypothesis DEF FeedInv
  <1>1. PICK n \in 0..Len(link[c].queue) :
          link' = [link EXCEPT ![c].up = FALSE, ![c].queue = SubSeq(@, 1, n)]
    BY DEF Lose
  <1> DEFINE l == [link[c] EXCEPT !.up = FALSE, !.queue = SubSeq(link[c].queue, 1, n)]
  <1>2. /\ c \in Made /\ link[c] \in Links /\ link[c].queue \in Seq(Messages)
        /\ taken' = taken /\ version' = version /\ clients' = clients /\ page' = page
        /\ taken \in Nat /\ version \in Nat /\ page \in PageTypes
    BY MadeHere, LinkFields DEF Lose, FeedTypes
  <1>3. link' = [link EXCEPT ![c] = l]
    BY <1>1, <1>2 DEF FeedTypes, Links
  <1>4. SubSeq(link[c].queue, 1, n) \in Seq(Messages) /\ (link[c].queue = <<>> => SubSeq(link[c].queue, 1, n) = <<>>)
    BY <1>2
  <1>5. /\ l \in Links /\ l.queue = SubSeq(link[c].queue, 1, n) /\ l.accepted = link[c].accepted /\ ~l.up
        /\ l.effect = link[c].effect /\ l.closed = link[c].closed
    BY <1>2, <1>4 DEF Links
  <1> HIDE DEF l
  <1>6. /\ Made' = Made /\ link' \in [Connections -> Links \cup {None}]
        /\ link'[c] = l /\ \A d \in Connections : d # c => link'[d] = link[d]
    BY <1>2, <1>3, <1>5, OneLinkChanges
  <1>7. SameLinks
    BY <1>5, <1>6 DEF SameLinks, Made
  <1>8. OneLiveInv' /\ \A d \in Connections : Live(d)' <=> Live(d)
    BY <1>2, <1>7, LiveStays
  <1>9. FeedTypes'
    BY <1>2, <1>6 DEF FeedTypes
  <1>10. ToldInv'
    BY <1>2, <1>4, <1>5, <1>6 DEF ToldInv, Made
  <1>11. LiveInv'
    <2>1. ASSUME Live(c) PROVE Continues(link'[c].queue, page, taken, version)
      <3>1. Continues(link[c].queue, page, taken, version)
        BY <2>1 DEF LiveInv
      <3>2. Continues(SubSeq(link[c].queue, 1, n), page, taken, version)
        BY <1>2, <3>1, QueueIsCut
      <3> QED
        BY <1>5, <1>6, <3>2
    <2>2. ASSUME NEW d \in Connections, Live(d)
          PROVE  /\ Continues(link'[d].queue, page, taken, version)
                 /\ link'[d].accepted /\ link'[d].up => Complete(link'[d].queue, page.events, taken)
      BY <1>5, <1>6, <2>1, <2>2 DEF LiveInv
    <2> QED
      BY <1>2, <1>8, <2>2 DEF LiveInv
  <1>12. ShownInv'
    BY <1>2 DEF ShownInv
  <1> QED
    BY <1>8, <1>9, <1>10, <1>11, <1>12

LEMMA OnCloseKeeps == ASSUME FeedInv, NEW c \in Connections, OnClose(c) PROVE FeedInv'
  <1> USE FeedHypothesis DEF FeedInv
  <1> DEFINE l == [link[c] EXCEPT !.closed = TRUE]
  <1>1. /\ c \in Made /\ link[c] \in Links /\ link' = [link EXCEPT ![c] = l] /\ ~link[c].closed
        /\ taken' = taken /\ version' = version /\ clients' = clients
        /\ page' = (IF Superseded(c) THEN page ELSE [page EXCEPT !.connected = FALSE, !.retry = TRUE])
        /\ page \in PageTypes
    BY MadeHere DEF OnClose, FeedTypes
  <1>2. /\ l \in Links /\ l.queue = link[c].queue /\ l.accepted = link[c].accepted /\ l.up = link[c].up
        /\ l.effect = link[c].effect /\ l.closed
    BY <1>1 DEF Links
  <1> HIDE DEF l
  <1>3. /\ Made' = Made /\ link' \in [Connections -> Links \cup {None}]
        /\ link'[c] = l /\ \A d \in Connections : d # c => link'[d] = link[d]
    BY <1>1, <1>2, OneLinkChanges
  <1>4. /\ page' \in PageTypes /\ page'.effect = page.effect /\ page'.events = page.events
        /\ page'.sessions = page.sessions /\ (page'.retry => page.retry \/ ~Superseded(c))
    BY <1>1 DEF PageTypes
  <1>5. \A d \in Connections : Live(d)' <=> Live(d) /\ d # c
    BY <1>2, <1>3, <1>4 DEF Live
  <1>6. FeedTypes'
    BY <1>1, <1>3, <1>4 DEF FeedTypes
  <1>7. ~Superseded(c) => Live(c)
    BY <1>1 DEF Live, Superseded
  <1>8. OneLiveInv'
    <2>1. \A d \in Made' : link'[d].effect <= page'.effect
      BY <1>2, <1>3, <1>4 DEF OneLiveInv, Made
    <2> QED
      BY <1>4, <1>5, <1>7, <2>1 DEF OneLiveInv
  <1>9. ToldInv'
    BY <1>1, <1>2, <1>3 DEF ToldInv, Made
  <1>10. LiveInv'
    BY <1>1, <1>3, <1>4, <1>5 DEF LiveInv, Continues
  <1>11. ShownInv'
    BY <1>1, <1>4 DEF ShownInv
  <1> QED
    BY <1>6, <1>8, <1>9, <1>10, <1>11

LEMMA OnMessageKeeps ==
  ASSUME FeedInv, NEW c \in Connections, OnMessage(c)
  PROVE  FeedInv' /\ (page.sessions # None => page'.sessions >= page.sessions)
  <1> USE FeedHypothesis DEF FeedInv
  <1> DEFINE q == link[c].queue
             l == [link[c] EXCEPT !.queue = Tail(q)]
  <1>1. /\ c \in Made /\ link[c] \in Links /\ q \in Seq(Messages) /\ q # <<>> /\ ~link[c].closed
        /\ link' = [link EXCEPT ![c] = l] /\ taken' = taken /\ version' = version /\ clients' = clients
        /\ page' = (IF Superseded(c) THEN page ELSE Displayed(Head(q)))
        /\ taken \in Nat /\ version \in Nat /\ page \in PageTypes /\ Len(page.events) <= MaxEvents
    BY MadeHere, LinkFields DEF OnMessage, FeedTypes
  <1>2. Tail(q) \in Seq(Messages)
    BY <1>1, TailOf
  <1>3. /\ l \in Links /\ l.queue = Tail(q) /\ l.accepted = link[c].accepted /\ l.up = link[c].up
        /\ l.effect = link[c].effect /\ l.closed = link[c].closed
    BY <1>1, <1>2 DEF Links
  <1> HIDE DEF l
  <1>4. /\ Made' = Made /\ link' \in [Connections -> Links \cup {None}]
        /\ link'[c] = l /\ \A d \in Connections : d # c => link'[d] = link[d]
    BY <1>1, <1>3, OneLinkChanges
  <1>5. SameLinks
    BY <1>3, <1>4 DEF SameLinks, Made
  <1>6. ToldInv'
    BY <1>1, <1>3, <1>4 DEF ToldInv, Made
  <1>7. CASE Superseded(c)
    <2>1. page' = page /\ ~Live(c)
      BY <1>1, <1>7 DEF Superseded, Live
    <2>2. OneLiveInv' /\ \A d \in Connections : Live(d)' <=> Live(d)
      BY <1>5, <2>1, LiveStays
    <2>3. FeedTypes' /\ ShownInv'
      BY <1>1, <1>4, <2>1 DEF FeedTypes, ShownInv
    <2>4. LiveInv'
      BY <1>1, <1>4, <2>1, <2>2 DEF LiveInv
    <2>5. page.sessions # None => page'.sessions >= page.sessions
      BY <1>1, <2>1 DEF PageTypes
    <2> QED
      BY <1>6, <2>2, <2>3, <2>4, <2>5
  <1>8. CASE ~Superseded(c)
    <2>1. page' = Displayed(Head(q)) /\ Live(c)
      BY <1>1, <1>8 DEF Superseded, Live
    <2>2. /\ Continues(q, page, taken, version) /\ Run(page.events) /\ UpTo(taken, page.events)
          /\ (page.sessions # None => page.sessions <= version)
          /\ (link[c].accepted /\ link[c].up => Complete(q, page.events, taken))
      BY <2>1 DEF LiveInv, ShownInv
    <2> HIDE DEF q
    <2>3. /\ page' \in PageTypes /\ page'.effect = page.effect /\ page'.retry = page.retry
          /\ Run(page'.events) /\ UpTo(taken, page'.events) /\ Len(page'.events) <= MaxEvents
          /\ (page'.sessions # None => page'.sessions <= version)
          /\ (page.sessions # None => page'.sessions >= page.sessions)
          /\ Continues(Tail(q), page', taken, version)
          /\ (Complete(q, page.events, taken) => Complete(Tail(q), page'.events, taken))
      BY <1>1, <2>1, <2>2, MessageIsShown
    <2>5. OneLiveInv' /\ \A d \in Connections : Live(d)' <=> Live(d)
      BY <1>5, <2>3, LiveStays
    <2>6. FeedTypes' /\ ShownInv'
      BY <1>1, <1>4, <2>3 DEF FeedTypes, ShownInv
    <2>7. LiveInv'
      <3>1. \A d \in Connections : Live(d) => d = c
        BY <1>1, <2>1 DEF OneLiveInv
      <3>2. /\ Continues(link'[c].queue, page', taken', version')
            /\ link'[c].accepted /\ link'[c].up => Complete(link'[c].queue, page'.events, taken')
        BY <1>1, <1>3, <1>4, <2>2, <2>3
      <3> QED
        BY <2>5, <3>1, <3>2 DEF LiveInv
    <2> QED
      BY <1>6, <2>3, <2>5, <2>6, <2>7
  <1> QED
    BY <1>7, <1>8

LEMMA FeedKeeps == ASSUME FeedInv, [FeedNext]_feedVars PROVE FeedInv'
  <1>1. CASE UNCHANGED feedVars
    <2>1. Made' = Made /\ \A c \in Connections : Live(c)' <=> Live(c)
      BY <1>1 DEF feedVars, Made, Live
    <2> QED
      BY <1>1, <2>1 DEF feedVars, FeedInv, FeedTypes, OneLiveInv, ToldInv, LiveInv, ShownInv
  <1>2. CASE ChangeSessions
    BY <1>2, ChangeSessionsKeeps
  <1>3. CASE Connect
    BY <1>3, ConnectKeeps
  <1>4. CASE NewToken
    BY <1>4, NewTokenKeeps
  <1>5. ASSUME NEW changes \in BOOLEAN, TakeEvent(changes) PROVE FeedInv'
    BY <1>5, TakeEventKeeps
  <1>6. ASSUME NEW c \in Connections,
               Accept(c) \/ Forget(c) \/ OnOpen(c) \/ OnMessage(c) \/ Lose(c) \/ OnClose(c)
        PROVE  FeedInv'
    BY <1>6, AcceptKeeps, ForgetKeeps, OnOpenKeeps, OnMessageKeeps, LoseKeeps, OnCloseKeeps
  <1> QED
    BY <1>1, <1>2, <1>3, <1>4, <1>5, <1>6 DEF FeedNext

LEMMA ShownSessionsAdvance ==
  ASSUME FeedInv, [FeedNext]_feedVars, page'.effect = page.effect, page.sessions # None
  PROVE  page'.sessions >= page.sessions
  <1>1. page \in PageTypes /\ page.sessions \in Nat /\ page.effect \in Nat
    BY DEF FeedInv, FeedTypes, PageTypes
  <1>2. CASE page'.sessions = page.sessions
    BY <1>1, <1>2
  <1>3. ASSUME NEW c \in Connections, OnMessage(c) PROVE page'.sessions >= page.sessions
    BY <1>3, OnMessageKeeps
  <1>4. CASE NewToken
    BY <1>1, <1>4 DEF NewToken, Blank
  <1>5. CASE UNCHANGED feedVars \/ ChangeSessions \/ \E changes \in BOOLEAN : TakeEvent(changes)
    BY <1>2, <1>5 DEF feedVars, ChangeSessions, TakeEvent
  <1>6. CASE Connect
    BY <1>1, <1>2, <1>6 DEF Connect, PageTypes
  <1>7. ASSUME NEW c \in Connections, Accept(c) \/ Forget(c) \/ OnOpen(c) \/ Lose(c) \/ OnClose(c)
        PROVE  page'.sessions = page.sessions
    BY <1>1, <1>7 DEF Accept, Forget, OnOpen, Lose, OnClose, PageTypes
  <1> QED
    BY <1>2, <1>3, <1>4, <1>5, <1>6, <1>7 DEF FeedNext

LEMMA FeedTyped == ASSUME FeedInv PROVE FeedTypeOK
  <1>1. /\ taken \in 0..MaxChanges /\ version \in 0..(2 * MaxChanges) /\ MaxChanges \in Nat /\ MaxTokens \in Nat
        /\ page \in PageTypes /\ page.effect \in 0..MaxTokens
    BY FeedHypothesis DEF FeedInv, FeedTypes, FeedAssumption, PageTypes
  <1>2. page.sessions \in (0..(2 * MaxChanges)) \cup {None}
    BY <1>1 DEF FeedInv, ShownInv, PageTypes
  <1>3. page.events \in Seq(1..MaxChanges)
    <2> DEFINE s == page.events
    <2>1. s \in Seq(Nat) /\ \A i \in 1..Len(s) : s[i] \in 1..MaxChanges
      BY <1>1 DEF FeedInv, ShownInv, UpTo, PageTypes
    <2> HIDE DEF s
    <2>2. s = [i \in 1..Len(s) |-> s[i]] /\ Len(s) \in Nat
      BY <2>1
    <2>3. [i \in 1..Len(s) |-> s[i]] \in Seq(1..MaxChanges)
      BY <2>1, <2>2
    <2> QED
      BY <2>2, <2>3, Zenon DEF s
  <1>4. page \in [effect : 0..MaxTokens, current : Connections \cup {None}, connected : BOOLEAN,
                  events : Seq(1..MaxChanges), sessions : (0..(2 * MaxChanges)) \cup {None}, retry : BOOLEAN]
    BY <1>1, <1>2, <1>3 DEF PageTypes
  <1> QED
    BY <1>1, <1>4 DEF FeedInv, FeedTypes, FeedTypeOK

\* The live board: one connection is live, and what it has under way continues what is shown,
\* its snapshot first and every event after the one before it.
THEOREM FeedInvariant == FeedSpec => []FeedInv
  <1>1. FeedInit => FeedInv
    BY FeedStarts
  <1>2. FeedInv /\ [FeedNext]_feedVars => FeedInv'
    BY FeedKeeps
  <1> QED
    BY <1>1, <1>2, PTL DEF FeedSpec

\* The board shows a run of the events of the server, without a gap and without a repetition,
\* and the sessions it shows never go back, whatever connections are lost or left (useDashboard).
LEMMA FeedIsARun == FeedSpec => []EventsAreARun /\ SessionsAdvance
  <1>1. FeedInv => EventsAreARun
    BY DEF FeedInv, ShownInv, Run, EventsAreARun
  <1>2. FeedInv /\ [FeedNext]_feedVars =>
          [page'.effect = page.effect /\ page.sessions # None => page'.sessions >= page.sessions]_feedVars
    BY ShownSessionsAdvance
  <1> QED
    BY <1>1, <1>2, FeedInvariant, PTL DEF FeedSpec, SessionsAdvance

-----------------------------------------------------------------------------
(* The pages together.                                                     *)

\* The board shows consecutive events; what a page shows never goes back and answers what is
\* selected; it shows its own writes, the analyses started on it and the document asked for last,
\* in whatever order the answers come and whatever connections are lost.
THEOREM PagesAreCurrent == FeedSpec /\ AnalysesSpec /\ StatesSpec /\ QueriesSpec => PagesAdvance
  <1>1. AnalysesInv => OwnRunStays
    BY StartedAreListed
  <1>2. StatesInv => OwnWriteShown
    BY WriteIsShown
  <1>3. QueriesInv => DocumentIsLatest
    BY LatestIsShown
  <1>4. AnalysesInv /\ [AnalysesNext]_analysesVars =>
          [Detail # None /\ Detail' # None /\ Detail.run = Detail'.run => Detail'.version >= Detail.version]_analysesVars
    BY DetailAdvances, AnalysesHypothesis
  <1>5. StatesInv /\ [StatesNext]_statesVars =>
          [shownState # None => shownState' # None /\ shownState' >= shownState]_statesVars
    BY ShownStateAdvances, StatesHypothesis
  <1>6. QueriesInv /\ [QueriesNext]_queryVars =>
          [shownAnswer' # None =>
             /\ shownAnswer'.key = key'
             /\ shownAnswer # None /\ key' = key => shownAnswer'.version >= shownAnswer.version]_queryVars
    BY AnswersAdvanceStep DEF Advanced
  <1>7. AnalysesSpec => []OwnRunStays /\ DetailsAdvance
    BY <1>1, <1>4, AnalysesInvariant, PTL DEF AnalysesSpec, DetailsAdvance
  <1>8. StatesSpec => []OwnWriteShown /\ PageAdvances
    BY <1>2, <1>5, StatesInvariant, PTL DEF StatesSpec, PageAdvances
  <1>9. QueriesSpec => []DocumentIsLatest /\ AnswersAdvance
    BY <1>3, <1>6, QueriesInvariant, PTL DEF QueriesSpec, AnswersAdvance
  <1> QED
    BY <1>7, <1>8, <1>9, FeedIsARun, PTL DEF PagesAdvance
=============================================================================
