\* Edits, changes, failures and restarts of six kinds of references.
SPECIFICATION Spec
CONSTANTS
  p = p  q = q  r = r  o = o  g = g  w = w  here = here  there = there  None = None
  Project = here
  Home <- HomeScope
  Sources = {p, q, r, o, g, w}
  Pages = {p, q, r, o}
  Specs = {g}
  Reviews = {w}
  Policies <- AllPolicies
  MaxSources = 3
  Plans <- SafetyPlans
INVARIANTS TypeOK SourcesHold
PROPERTIES EvidenceHolds
CHECK_DEADLOCK FALSE
