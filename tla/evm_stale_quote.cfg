CONSTANTS
  c1 = c1
  Calls = {c1}
  MaxTransactions = 2
  MaxNonce = 2
  MaxQuoteAge = 2
  ConfirmationTimeout = 1
  Submitters = {"node"}
SPECIFICATION Spec
PROPERTIES
  FreshWhenSubmitted
