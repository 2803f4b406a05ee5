SPECIFICATION HostSpec
CONSTANTS
  None = None
  Profiles <- MC_Profiles
  DefaultProfile = "HOSTED"
  ActiveProfiles <- MC_Active
  Services = {"dhs"}
  ServicesOf <- MC_ServicesOf
  TtlOf <- MC_TtlOf
  GovernorOf <- MC_GovernorOf
  Governors = {"ondemand", "powersave"}
  Resumable = {"FLIGHT"}
  Units = {"dhs", "bot"}
  WantedOf <- MC_WantedOf
  NetworkOf <- MC_NetworkOf
  HostActions <- AllActions
  MaxResumes = 1
  Mishaps = {"unit", "network", "governor"}
INVARIANTS
  HostTypeOK RecordAgrees
PROPERTIES
  NamesOnlyWhole
