SPECIFICATION IOSpec
CONSTANTS
  Writers = {"a", "b", "c"}
  ProcOf <- Publishers
  MaxTemp = 2
  MaxRemoved = 1
  MaxFaults = 1
  Loggers = {"a1", "a2", "b1"}
  LoggerOf <- Tasks
  Limits = {0, 3}
  Retention = 1
  MaxEvents = 5
  MaxDeaths = 1
  Requests = {"a", "b", "c"}
  Entries = {"e", "f"}
  Pages = {"x", "y"}
  ServerOf <- Publishers
  Starts <- Beginnings
  PageOf <- Asked
  Replies <- DocsRs
  Fallback <- Policy
  MaxUnlinked = 1
INVARIANTS
  ArtifactIsWhole LogKeepsTheLatest GenerationIsSound SourcesAreBound
  OutputIsHonest FramesAreWhole ClientAgrees IdentityBindsInputs
CHECK_DEADLOCK FALSE
