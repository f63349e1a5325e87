SPECIFICATION Spec
CONSTANTS
  Pools <- MCPools
  Requests <- MCRequests
  Readings <- MCReadings
  Prices <- MCPrices
INVARIANTS
  TypeOK
  CostNeverRemoves
  AskingLessNeverHurts
  LosersDoNotMatter
  CheapestAnswer
  IdleIsNotFastest
