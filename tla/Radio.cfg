SPECIFICATION SpecComms
CONSTANTS
  None = None
  DownlinkOf <- MC_DownlinkOf
  Statuses <- MC_Statuses
  Interval <- MC_Interval
  Lines <- MC_Lines
  Table <- MC_Table
  Queries = {"ping"}
  MaxPending = 2
  AckDelay = 1
  Limits <- Talk
INVARIANTS
  CommsTypeOK
  AirtimeIsRationed
  StatusIsTrue
  RepliesAreTried
PROPERTIES
  RepliesAreOwed
CHECK_DEADLOCK FALSE
