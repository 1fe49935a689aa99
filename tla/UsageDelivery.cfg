SPECIFICATION LiveWalSpec
CONSTANTS
  Calls = {u1}
  Batch = 1
  MaxRuns = 1
  MaxErrors = 1
  MaxRestarts = 1
CHECK_DEADLOCK FALSE
PROPERTIES
  DeliveryGuaranteed
