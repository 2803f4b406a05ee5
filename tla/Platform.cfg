SPECIFICATION FairObcHostd
CONSTANTS
  None = None
  Profiles <- Two
  DefaultProfile = "HOSTED"
  ActiveProfiles <- MC_Active
  Services = {}
  ServicesOf <- MC_ServicesOf
  TtlOf <- MC_TtlOf
  GovernorOf <- MC_GovernorOf
  Governors = {"ondemand", "powersave"}
  Resumable = {"FLIGHT"}
  LossGrace = 1
  SettleGrace = 1
  Minutes <- NoMinutes
  DeployTimeout = 1
  Reporters = {}
  MaxConsecutive = 2
  EvidenceTimeout = 1
  ResumeSettle = 1
  FlushGrace = 0
  Readings <- NoMains
  Beating = {}
  Commands = {"set_profile", "recover"}
  HostReports = {}
  Units = {"bot"}
  WantedOf <- MC_WantedOf
  NetworkOf <- MC_NetworkOf
  HostActions = {}
  MaxResumes = 0
  Mishaps = {}
  MaxQueue = 3
  MaxAsks = 1
  MaxCrashes = 1
  MaxBounces = 1
  MaxResets = 3
  MaxEarly = 1
  MaxTogether = 1
INVARIANTS
  KnowsTheProfile
  FenceHolds
PROPERTIES
  ResumeAskedOnce
  TtlHonoured
  ResumeIsAnswered
