SPECIFICATION SpecDhs
CONSTANTS
  None = None
  Profiles <- MC_Profiles
  DefaultProfile = "EXPO"
  ActiveProfiles <- MC_Profiles
  Services = {}
  ServicesOf <- Nothing
  TtlOf <- NoTtl
  GovernorOf <- Ondemand
  Governors = {"ondemand"}
  Resumable = {"FLIGHT"}
  Dbs = {"comms.db", "diag.db"}
  MaxMissions = 2
  MaxRows = 1
  PersistenceOf <- MC_PersistenceOf
  MissionDb = "comms.db"
  DeleteForbiddenIn = {"EXPO"}
  Capacity <- One
  States = {"STANDBY", "NOMINAL"}
  Mishaps = {"photos", "connect", "close"}
  Flown = "FLIGHT"
  Limits <- Evening
INVARIANTS
  DhsTypeOK
  OpenIsOnCard
  OneMissionIsOpen
  SummaryAgrees
  SamplesBelong
  NothingIsHeldBack
PROPERTIES
  EndsOnce
  BeginsEmpty
  PhotosAreFenced
CHECK_DEADLOCK FALSE
