SPECIFICATION Spec
CONSTANTS
  chk = chk
  sav = sav
  Accounts = {chk, sav}
  AcctType <- MCType
  BatchLines <- MCBatch
  Callers = {c1, c2}
  SeedBalance <- MCSeed
  Calls <- MCTransfers
  MaxCalls = 2
  MaxKills = 0
INVARIANT TransferMoves
