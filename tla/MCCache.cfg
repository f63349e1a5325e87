SPECIFICATION Spec
CONSTANTS
  ask = ask
  paraphrase = paraphrase
  twin = twin
  wordless = wordless
  s1 = s1
  s2 = s2
  Prompts <- MCPrompts
  Scopes <- MCScopes
  Similarity <- MCSimilarity
  Numbers <- MCNumbers
  Threshold = 93
  MaxEntries = 2
  TTL = 1
  MaxPuts = 4
  MaxGets = 2
  MaxTime = 2
SYMMETRY Symmetry
INVARIANTS
  TypeOK
  IndexesAgree
  
  ServedAnswersFit
  RepeatsMissOnlyATwin
PROPERTIES
  LeastRecentlyUsedGoesFirst
CHECK_DEADLOCK FALSE
