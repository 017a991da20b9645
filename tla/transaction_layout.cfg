CONSTANTS
  Responses <- Lists
  Configs <- ConfigSet
  SdkFees = {0, 2, 3}
  Ceiling = 3
  Charges = {1, 3, 4}
  Units <- SimulatedUnits
  CuMax = 20
  DefaultCu = 6
  LoadedMax = 9
  PriorityFees = {0, 7}
  MicroPerLamport = 10
SPECIFICATION Spec
INVARIANTS
  ReplacesReimbursement
  BudgetCarried
  SponsorPaysSol
CHECK_DEADLOCK FALSE
