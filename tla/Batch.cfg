SPECIFICATION Spec
CONSTANTS
  Calls = {1, 2}
  Candidates = {c1, c2}
  Urls = 2
  Mirrors = 2
  Attempts = 2
INVARIANTS
  TypeOK
  HitWins
  ExitAccounts
PROPERTIES
  Ends
