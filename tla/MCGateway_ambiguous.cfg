\* Two policies of one priority that cover one path.
SPECIFICATION Spec
CONSTANTS
  r1 = r1
  none = none
  Null = none
  Name <- Names
  Empty = "empty"
  Bad = "bad"
  Requests = {r1}
  Inputs <- SentByClients
  NewPolicies <- Created
  FirstPolicies <- First
  NewAssignments <- Assignable
  Sessions <- SessionIds
  Owner <- OwnerOf
  Tokens <- TokenIds
  Use <- UseOf
  SessionOf <- TokenSession
  Reserved = "_pubauth"
INVARIANT AmbiguousRulesDeny
CONSTRAINT Ongoing
CHECK_DEADLOCK FALSE
