SPECIFICATION FairObcHostd
CONSTANTS
  None = None
  Profiles <- Two
  DefaultProfile = "HOSTED"
  ActiveProfiles <- MC_Active
  Services = {}
  ServicesOf <- MC_ServicesOf
  TtlOf <- MC_TtlOf
  GovernorOf <- MC_GovernorOf
  Governors = {"ondemand", "powersave"}
  Resumable = {"FLIGHT"}
  LossGrace = 1
  SettleGrace = 1
  Minutes <- NoMinutes
  DeployTimeout = 1
  Reporters = {}
  MaxConsecutive = 1
  EvidenceTimeout = 1
  ResumeSettle = 1
  FlushGrace = 0
  Readings <- NoMains
  Beating = {}
  Commands = {"set_profile"}
  HostReports = {}
  Units = {"bot"}
  WantedOf <- MC_WantedOf
  NetworkOf <- MC_NetworkOf
  HostActions = {}
  MaxResumes = 0
  Mishaps = {"unit"}
  MaxQueue = 3
  MaxAsks = 1
  MaxCrashes = 0
  MaxBounces = 0
  MaxResets = 0
  MaxEarly = 0
  MaxTogether = 0
PROPERTIES
  TtlHonoured
