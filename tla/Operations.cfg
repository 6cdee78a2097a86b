SPECIFICATION Spec
CONSTANTS
  NoType = NoType
  g1 = g1
  g2 = g2
  EsErrors <- MCEsErrors
  MinioErrors <- MCMinioErrors
  RedisErrors <- MCRedisErrors
  CqlErrors <- MCCqlErrors
  Statuses = {200, 404, 503}
  Goroutines = {g1, g2}
  MaxAttempts = 3
  MaxItems = 2
  MaxOptions = 2
  MaxCmds = 3
  MaxDials = 1
  MaxStmts = 3
  MaxClients = 3
  MaxCalls = 4
  MaxInstruments = 2
  MaxRequests = 3
CHECK_DEADLOCK FALSE
INVARIANTS
  FailureAsSeen
  OutlivesCleanly
  PipelineHonest
  NothingMislabelled
  HookedOnce
  CommandsCorrelate
PROPERTIES
  CallsEnd
  OperationsReport
