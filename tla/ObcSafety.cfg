SPECIFICATION Spec
CONSTANTS
  None = None
  Profiles <- MC_Profiles
  DefaultProfile = "HOSTED"
  ActiveProfiles <- MC_Active
  Services = {"dhs"}
  ServicesOf <- MC_ServicesOf
  TtlOf <- MC_TtlOf
  GovernorOf <- MC_GovernorOf
  Governors = {"ondemand", "powersave"}
  Resumable = {"FLIGHT"}
  LossGrace = 1
  SettleGrace = 1
  Minutes <- NoMinutes
  DeployTimeout = 1
  Reporters = {"dhs"}
  MaxConsecutive = 1
  EvidenceTimeout = 1
  ResumeSettle = 1
  FlushGrace = 1
  Readings <- PowerReadings
  Beating = {}
  Commands = {"safe_mode", "recover", "set_profile"}
  HostReports <- PlainReports
INVARIANTS
  TypeOK
  LatchedIsDescended
  DeployIsTested
  LoweredIsDescended
  WatchesNoStranger
  PoweroffIsCritical
  ReadingSettles
PROPERTIES
  LatchHolds
  SwitchStartsFromStandby
  ImplementsPromise
