SPECIFICATION SpecDhs
CONSTANTS
  None = None
  Profiles <- MC_Profiles
  DefaultProfile = "EXPO"
  ActiveProfiles <- MC_Profiles
  Services = {}
  ServicesOf <- Nothing
  TtlOf <- NoTtl
  GovernorOf <- Ondemand
  Governors = {"ondemand"}
  Resumable = {"FLIGHT"}
  Dbs = {"comms.db", "diag.db"}
  MaxMissions = 2
  MaxRows = 1
  PersistenceOf <- MC_PersistenceOf
  MissionDb = "comms.db"
  DeleteForbiddenIn = {"EXPO"}
  Capacity <- One
  States = {"STANDBY", "NOMINAL"}
  Mishaps = {"attitude"}
  Flown = "FLIGHT"
  Limits <- Evening
INVARIANT
  SamplesBelong
CHECK_DEADLOCK FALSE
