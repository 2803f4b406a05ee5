SPECIFICATION SpecPayload
CONSTANTS
  None = None
  AllStates = {"STANDBY", "DEPLOY", "NOMINAL"}
  CameraAllowed = {"NOMINAL"}
  MaxFailures = 2
  GivesBack = TRUE
  DefaultRoot = "comms"
  RunIds = {r1, r2}
  States = {"DEPLOY", "NOMINAL"}
  Pairs <- MC_Pairs
  Limits <- Heard
INVARIANTS
  MissionsDoNotMix
CHECK_DEADLOCK FALSE
