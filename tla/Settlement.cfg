SPECIFICATION Spec
CONSTANTS
  A = A
  B = B
  CH = CH
  ann = ann
  bob = bob
  nstA = nstA
  nstB = nstB
  c1 = c1
  c2 = c2
  nobody = nobody
  nowhere = nowhere
  Banks = {A, B}
  Clearing = CH
  Accounts = {ann, bob, nstA, nstB}
  NodeOf <- MCNodeOf
  Nostro <- MCNostro
  Opening <- MCOpening
  NodeRank <- MCRank
  Coordinators = {c1, c2}
  Batches <- OneByOne
  Freezable = {bob}
  MaxTransfers = 2
  MaxErrors = 1
  MaxRestarts = 1
  MaxToggles = 1
INVARIANTS NoCreditWithoutDebit ResultsAreRecorded
CHECK_DEADLOCK FALSE
