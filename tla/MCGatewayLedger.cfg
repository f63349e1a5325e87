SPECIFICATION Spec
CONSTANTS
  ask = ask
  paraphrase = paraphrase
  c1 = c1
  c2 = c2
  hr = hr
  contracts = contracts
  NoTenant = NoTenant
  Prompts <- MCPrompts
  Scopes <- MCScopes
  Similarity <- MCSimilarity
  Numbers <- MCNumbers
  Threshold = 93
  MaxEntries = 1
  TTL = 0
  Callers <- MCCallers
  Tenants <- MCTenants
  Asks <- MCAsks
  Pool <- MCPool
  MaxCalls = 3
SYMMETRY Symmetry
INVARIANTS
  EveryCallRecorded
CHECK_DEADLOCK FALSE
