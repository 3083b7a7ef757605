\* One process owns the state file: the store is linearizable and live.
SPECIFICATION FairSpec
CONSTANTS
  api = api
  u1 = u1
  u2 = u2
  r1 = r1
  w1 = w1
  collections = collections
  missing = missing
  torn = torn
  none = none
  Missing <- MissingFile
  Torn <- TornFile
  NoResult <- NoAnswer
  Procs <- OneProc
  Calls <- OneCalls
  ProcOf <- OneProcOf
  Kind <- OneKind
  Defaults <- DefaultState
INVARIANT TypeOK
PROPERTIES Linearizable EveryCallSettles
CHECK_DEADLOCK FALSE
