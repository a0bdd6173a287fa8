SPECIFICATION FairSpec
CONSTANTS
  a1 = a1  a2 = a2  w1 = w1  w2 = w2  r1 = r1  r2 = r2
  Assets = {a1}
  NoAsset = NoAsset
  Type <- AllImages
  Content <- AllDifferent
  Corrupt = {}
  Backfilled = {}
  Schema = "embedded"
  ImageRoles <- OneRole
  VideoRoles <- AllVideoRoles
  MaxStreamLength = 10
  GroupExists = TRUE
  FaultKinds = {}
  MaxFaults = 0
  Requests = {r1}
  MaxEnqueue = 1
  Workers = {w1}
  MaxRetries = 2
  StreamCap = 2
  Foreign = {}
PROPERTIES CommittedIsProcessed
