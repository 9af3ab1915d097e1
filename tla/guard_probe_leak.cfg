SPECIFICATION Spec
CONSTANTS
  Calls = {c1, c2, c3}
  Keys = {"CreateOrder"}
  NoKey = NoKey
  PersistFirst = {"CreateOrder"}
  RuleOf <- MCRule
  FollowUp <- MCFollowUp
INVARIANTS ProbeAlwaysReleased
