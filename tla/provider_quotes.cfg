CONSTANTS
  MaxAmount = 5
  BasisPoints = 3
  FeeRates = {0, 1}
  Sources = {"PumpFun", "Jupiter", "DFlow", "Bloxroute", "Relay"}
  Amounts = {0, 5}
  Limits = {0, 3}
  DefaultCeiling = 2
  DefaultService = 1
  Slippages = {0, 1}
  RelayerFees = {0, 1}
SPECIFICATION MCSpec
INVARIANTS
  TypeOK
  NeverOverspent
  NeverBelowQuote
  ChargedOnce
  SlippageKept
PROPERTIES
  ImplementsSettlement
  HonestAccepted
CHECK_DEADLOCK FALSE
