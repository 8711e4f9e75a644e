SPECIFICATION Spec
CONSTANTS
  chk = chk
  sav = sav
  Accounts = {chk, sav}
  AcctType <- MCType
  BatchLines <- MCBatch
  Callers = {c1, c2}
  SeedBalance <- MCSeed
  Calls <- MCCalls
  MaxCalls = 3
  MaxKills = 1
INVARIANTS NeverOverdrawn FileDatabaseAndChainAgree NumbersIdentifyPostings
