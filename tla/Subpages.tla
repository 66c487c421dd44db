------------------------------ MODULE Subpages ------------------------------
(***************************************************************************)
(* The rules by which a registered Notion page passes its policy to the    *)
(* pages below it (server/src/brain/memory/subpages.ts), and what counts   *)
(* as the policy of a source (memory/service.ts).  Pure operators on the   *)
(* registrations: a function that maps every source to its record, or to   *)
(* None when it is not registered.                                         *)
(*                                                                         *)
(* A registration is a record with the fields parent, approval, before     *)
(* (approvalBeforeRemoval), scope (the projects it applies to), include    *)
(* and auto (subpages are discovered, approved), status, capture, dataset  *)
(* (None, or what was indexed), generation (indexVersion) and text (the    *)
(* content of a review).  Titles, urls and the mandatory flag are left out. *)
(***************************************************************************)
EXTENDS Naturals, FiniteSets

CONSTANTS None, Sources, MaxSources

Registered(src) == {s \in Sources : src[s] # None}
Active(src, s) == src[s] # None /\ src[s].approval # "withdrawn"

\* policyVersion: what must not change while a source is synchronized.
PolicyVersion(r) == <<r.scope, r.approval, r.include, r.auto, r.parent, r.before>>

StatusFor(approval) == IF approval = "withdrawn" THEN "withdrawn" ELSE "pending"

\* With a page, everything registered below it.
Closed(src, set) == \A s \in Registered(src) : src[s].parent \in set => s \in set

\* subpagesOf: the registrations below p, however deep.
SubpagesOf(src, p) ==
  LET branches == {set \in SUBSET (Registered(src) \cup {p}) : p \in set /\ Closed(src, set)}
  IN {s \in Registered(src) : \A set \in branches : s \in set} \ {p}

\* The parent of p, its parent, and so on, with p itself.
AncestorsOf(src, p) == {p} \cup {a \in Registered(src) : p \in SubpagesOf(src, a)}

\* A page that is out of the branch is withdrawn and remembers what it was.
Excluded(r) ==
  IF r.approval = "withdrawn" THEN r
  ELSE [r EXCEPT !.before = r.approval, !.approval = "withdrawn", !.status = "withdrawn"]

Exclude(src, set) == [s \in Sources |-> IF s \in set THEN Excluded(src[s]) ELSE src[s]]

\* removeSubpages
RemoveSubpages(src, p) == Exclude(src, SubpagesOf(src, p))

\* What a page takes over from the page above it.
Inherited(r, parent, approval) ==
  [r EXCEPT !.scope = parent.scope, !.include = TRUE, !.auto = parent.auto,
            !.approval = approval, !.status = StatusFor(approval)]

\* (mutant) only the direct children inherit
InheritDirectly(src, p) ==
  IF ~src[p].include \/ src[p].approval = "withdrawn" THEN RemoveSubpages(src, p)
  ELSE [s \in Sources |->
         IF s \notin Registered(src) \/ src[s].parent # p THEN src[s]
         ELSE Inherited(src[s], src[p],
                IF src[p].auto /\ src[s].approval = "draft" THEN "approved" ELSE src[s].approval)]

\* inheritSubpagePolicy: an edited page passes its settings on.
InheritSubpagePolicy(src, p) ==
  IF ~src[p].include \/ src[p].approval = "withdrawn" THEN RemoveSubpages(src, p)
  ELSE [s \in Sources |->
         IF s \notin SubpagesOf(src, p) THEN src[s]
         ELSE Inherited(src[s], src[p],
                IF src[p].auto /\ src[s].approval = "draft" THEN "approved" ELSE src[s].approval)]

-----------------------------------------------------------------------------
(* Discovery of the pages `found' below p *)

SameScope(src, s, p) == src[s].scope = src[p].scope

\* Pages known under another parent: adopted if their scope is the same.
Elsewhere(src, p, found) == {s \in found \cap Registered(src) : src[s].parent # p}

\* The discovery is refused: a cycle, or a page of another scope.
Refused(src, p, found) ==
  \/ found \cap AncestorsOf(src, p) # {}
  \/ \E s \in Elsewhere(src, p, found) : ~SameScope(src, s, p)

\* Pages that had another parent: Notion is asked where they are now.
Moved(src, p, found) == {s \in Elsewhere(src, p, found) : src[s].parent # None}

TooMany(src, found) == Cardinality(Registered(src) \cup found) > MaxSources

NewPage == [parent |-> None, approval |-> "draft", before |-> None, scope |-> {}, include |-> TRUE,
            auto |-> FALSE, status |-> "pending", capture |-> None, dataset |-> None,
            generation |-> None, text |-> 0]

\* (mutant) a page that is found again is approved like a new one
RestoreAll(r, auto) ==
  LET previous == IF r.before # None THEN r.before
                  ELSE IF r.approval = "withdrawn" THEN "draft" ELSE r.approval
  IN IF auto THEN "approved" ELSE previous

\* The approval of a page that is found: what it was, or approved.
Restore(r, auto) ==
  LET previous == IF r.before # None THEN r.before ELSE r.approval
  IN IF previous # "withdrawn" /\ auto THEN "approved" ELSE previous

Adopted(r, parentId, parent) ==
  [Inherited(r, parent, Restore(r, parent.auto)) EXCEPT !.parent = parentId, !.before = None]

\* reconcileSubpages: children no longer found are excluded with what is
\* below them, then every page found is registered below p.
Reconciled(src, p, found) ==
  LET gone == {s \in Registered(src) : src[s].parent = p /\ s \notin found}
      kept == Exclude(src, gone \cup UNION {SubpagesOf(src, s) : s \in gone})
  IN [s \in Sources |->
       IF s \notin found THEN kept[s]
       ELSE Adopted(IF kept[s] = None THEN NewPage ELSE kept[s], p, kept[p])]
=============================================================================
