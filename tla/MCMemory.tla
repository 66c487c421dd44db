------------------------------ MODULE MCMemory ------------------------------
(* Small instances of MemorySync for TLC. *)
EXTENDS MemorySync, TLC

CONSTANTS p, q, r, o, g, w, here, there

Policy(approval, scope, include, auto) ==
  [approval |-> approval, scope |-> scope, include |-> include, auto |-> auto]

Approved == Policy("approved", {here}, FALSE, FALSE)
Draft == Policy("draft", {here}, FALSE, FALSE)
Withdrawn == Policy("withdrawn", {here}, FALSE, FALSE)
Branch == Policy("approved", {here}, TRUE, TRUE)
OutBranch == Policy("withdrawn", {here}, TRUE, TRUE)
OtherBranch == Policy("approved", {there}, TRUE, TRUE)

HomeScope == {here}
AllPolicies == {Approved, Draft, Withdrawn, Branch, OutBranch, OtherBranch}

\* Registrations and page trees.
Page(parent, policy) == [Apply(NewPage, policy) EXCEPT !.parent = parent]

Registering(known) == [s \in Sources |-> IF s \in DOMAIN known THEN known[s] ELSE None]
Above(parents) == [s \in Sources |-> IF s \in DOMAIN parents THEN parents[s] ELSE None]

One == Registering(p :> Page(None, Approved))
Root == Registering(p :> Page(None, Branch))
Two == Registering((p :> Page(None, Branch)) @@ (q :> Page(p, Branch)))
Three == Registering((p :> Page(None, Branch)) @@ (q :> Page(p, Branch)) @@ (r :> Page(q, Branch)))
TwoRoots == Registering((p :> Page(None, Branch)) @@ (q :> Page(None, Branch)) @@ (r :> Page(p, Branch)))

Flat == Above(<<>>)
Chain == Above((q :> p) @@ (r :> q))
Fan == Above((q :> p) @@ (r :> p))
UnderP == Above(r :> p)

Plan(first, above, edited, changed, failing, restarted) ==
  [known |-> first, tree |-> above, projects |-> {}, edits |-> edited, changes |-> changed,
   faults |-> failing, restarts |-> restarted, retrievals |-> 0]

Asked(plan) == [plan EXCEPT !.retrievals = 1]

\* One page: two edits, a change, a failing call, a restart at any moment.
PageEdits == {p} \X {Approved, Draft, Withdrawn}
OnePage == Plan(One, Flat, <<PageEdits, PageEdits>>, 1, 1, 1)

\* A branch of three levels that is edited at any level.
BranchEdits == {p, q, r} \X {OutBranch, OtherBranch}
BranchEdited == Plan(Three, Chain, <<BranchEdits, BranchEdits>>, 0, 0, 0)

\* A page that moves from one branch to another while it is withdrawn.
PageMoves == Plan(TwoRoots, UnderP, <<{<<r, OutBranch>>}>>, 1, 0, 0)

\* A branch with two pages to discover, and a page registered meanwhile.
Limit == Plan(Root, Fan, <<{<<o, Branch>>, <<p, OutBranch>>}>>, 0, 1, 0)

\* A page and a specification that are asked for.
PageAndSpec == [Plan(One, Flat, <<{p, g} \X {Approved, Withdrawn}>>, 1, 0, 0) EXCEPT !.projects = {g}]

\* The same, not edited, when a call fails or the server restarts.
Interrupted(failing, restarted) ==
  [PageAndSpec EXCEPT !.edits = <<>>, !.changes = 0, !.faults = failing, !.restarts = restarted]

\* Reviews, and their withdrawal.
ReviewEdits == {<<w, Withdrawn>>}
ReviewEdited == Plan(Registering(<<>>), Flat, <<ReviewEdits, ReviewEdits, ReviewEdits>>, 0, 1, 1)

SafetyPlans == {OnePage, BranchEdited, PageMoves, Limit, ReviewEdited}
               \cup {Asked(PageAndSpec), Asked(Interrupted(1, 0)), Asked(Interrupted(0, 1))}

IndexPlans == {[Asked(PageAndSpec) EXCEPT !.changes = 0]}
OutsideEdits == {p, q} \X {Branch, OutBranch}
OutsidePlans == {Plan(Two, Fan, <<OutsideEdits, OutsideEdits, OutsideEdits>>, 0, 0, 0)}
=============================================================================
