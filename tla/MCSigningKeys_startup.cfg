\* The api and the gateway start, stop and start again on one state file.
SPECIFICATION StartSpec
CONSTANTS
  api = api
  gateway = gateway
  gateway2 = gateway2
  collections = collections
  missing = missing
  torn = torn
  none = none
  Missing <- MissingFile
  Torn <- TornFile
  NoResult <- NoAnswer
  Procs <- Runs
  Program <- ProgramOf
  Changes <- TwoChanges
  Calls <- StoreCalls
  ProcOf <- RunOf
  Kind <- KindOf
  Defaults <- DefaultState
INVARIANTS StartTypeOK TurnOrder WholeStates Agree NothingLost
CONSTRAINT FewEvents
CHECK_DEADLOCK FALSE
