CONSTANTS
  c1 = c1
  c2 = c2
  Calls = {c1, c2}
  Costs = {3, 7}
  Rates = {1, 5}
  LamportsPerSol = 2
  MaxCost = 5
  Ceiling = 8
  ServiceFee = 1
  MaxPriceAge = 1
  Deadline = 1
SPECIFICATION FairSpec
INVARIANTS
  SignersAgree
  CostsRecovered
  ReportedIsEncoded
  StatusMatchesChain
  ReceivedCountsOwn
PROPERTIES
  KeepsPromise
  EstimateIsBounded
  Termination
