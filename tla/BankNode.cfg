SPECIFICATION Spec
CONSTANTS
  chk = chk
  sav = sav
  Accounts = {chk, sav}
  NoTarget = NoTarget
  AcctType <- MCType
  SeedBalance <- MCSeed
  Amounts = {4500}
  TxTypes = {"D", "W", "T"}
  Statuses = {"F"}
  Batches = {"I", "F"}
  TamperValues <- NegativeOrLess
  Reseeds = TRUE
  MaxTxs = 3
  MaxChain = 3
  MaxCrashes = 1
INVARIANTS TypeOK NoOverdraft LedgerChained IdsDense OneAccountPerCrash
PROPERTIES LedgerAppendOnly TransferConserves
