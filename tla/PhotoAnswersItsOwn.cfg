SPECIFICATION SpecComms
CONSTANTS
  None = None
  DownlinkOf <- MC_DownlinkOf
  Statuses <- MC_Statuses
  Interval <- MC_Interval
  Lines <- Photographs
  Table <- MC_Table
  Queries = {"ping"}
  MaxPending = 2
  AckDelay = 1
  Limits <- Brief
INVARIANTS
  PhotoAnswersItsOwn
CHECK_DEADLOCK FALSE
