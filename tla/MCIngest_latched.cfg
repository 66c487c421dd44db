\* An alias of a request whose row expired closes the queue.
SPECIFICATION Spec
CONSTANTS
  req = req  resp = resp  plain = plain  o1 = o1  o2 = o2  o3 = o3  o4 = o4  o5 = o5  o6 = o6  o7 = o7  call = call
  s1 = s1  s2 = s2  s3 = s3  b1 = b1  b2 = b2  b3 = b3  b4 = b4  b5 = b5  b6 = b6  c1 = c1  c2 = c2  c3 = c3
  e1 = e1  e2 = e2  l1 = l1  l2 = l2  l3 = l3  l4 = l4  None = None
  Keys <- RequestKeys
  Series = {}
  Price <- Prices
  SavedPrice <- OldPrices
  Retention = 2
  DayLength = 1
  Batches = {b4, l1, l2}
  Body <- Exports
  Calls <- BrainCalls
  SeenLimit = 2
  Plans <- LatchedPlans
INVARIANTS CanonicalBeforeAliases
CHECK_DEADLOCK FALSE
