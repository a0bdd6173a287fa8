SPECIFICATION Spec
CONSTANTS
  a1 = a1  a2 = a2  w1 = w1  w2 = w2  r1 = r1  r2 = r2
  Assets = {a1}
  NoAsset = NoAsset
  Type <- AllVideos
  Content <- AllDifferent
  Corrupt = {}
  Backfilled = {}
  Schema = "worker"
  ImageRoles <- OneRole
  VideoRoles <- TwoVideoRoles
  MaxStreamLength = 1
  GroupExists = FALSE
  FaultKinds = {"crash", "db", "redis", "storage"}
  MaxFaults = 1
  Requests = {r1, r2}
  MaxEnqueue = 1
  Workers = {w1, w2}
  MaxRetries = 2
  StreamCap = 2
  Foreign <- ForeignAsset
SYMMETRY Symmetry
INVARIANTS TypeOK JobIffUploaded MessagesHaveJobs ReadyIsComplete DoneIsComplete RowsAreStored OutcomesAreCounted
PROPERTIES SharedLifecycleSpec
