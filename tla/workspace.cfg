SPECIFICATION Spec
CONSTANTS
  small = small
  large = large
  Plans <- MCPlans
  Free = small
  LinkLimit <- MCLinkLimit
  DomainLimit <- MCDomainLimit
  Governing = {large}
  CustomHosts = {a}
  ManagedHosts = {m, n}
  NoHost = NoHost
  Codes = {c1, c2}
  Requests = {q1, q2}
  None = None
  MaxTokens = 2
SYMMETRY Symmetry
INVARIANTS
  TypeOK
  VerifiedByItsToken
PROPERTIES
  LinkLimitHolds
  NoDomainLost
CHECK_DEADLOCK FALSE
