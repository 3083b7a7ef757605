SPECIFICATION Spec
CONSTANTS
  owner = owner
  person = person
  People = {owner, person}
  Nobody = Nobody
  Role <- MCRole
  Demo <- MCDemo
  Asked <- MCAsked
  Logins <- MCLogins
  MaxChanges = 1
INVARIANTS TypeOK CodeIsOfSignIn ScreenFitsPerson OnePerson SignedOutStays
PROPERTIES SavedIsShown SignInEnds
CONSTRAINT FewCalls
CHECK_DEADLOCK FALSE
