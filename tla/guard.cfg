SPECIFICATION FairSpec
CONSTANTS
  Calls = {c1, c2}
  Keys = {"CreateOrder", "CancelOrder", "GetOrder"}
  NoKey = NoKey
  PersistFirst = {"CreateOrder"}
  RuleOf <- MCRule
  FollowUp <- MCFollowUp
INVARIANTS TypeOK StateCoherent CooldownScaled NoBurst ProbeHasOwner
PROPERTIES KeyRecovers
