CONSTANTS
  c1 = c1
  c2 = c2
  Calls = {c1, c2}
  MaxTransactions = 2
  MaxNonce = 4
  MaxQuoteAge = 2
  ConfirmationTimeout = 1
  Submitters = {"node", "elsewhere"}
SPECIFICATION FairSpec
INVARIANTS
  EveryBroadcastRecorded
  OutcomeMatchesChain
PROPERTIES
  EarlierNotOverwritten
  KeepsPromise
  Termination
