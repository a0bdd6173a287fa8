SPECIFICATION Spec
CONSTANTS
  a1 = a1  a2 = a2  w1 = w1  w2 = w2  r1 = r1  r2 = r2
  Assets = {a1, a2}
  NoAsset = NoAsset
  Type <- AllImages
  Content <- AllSame
  Corrupt = {a1, a2}
  Backfilled = {a1}
  Schema = "seed"
  ImageRoles <- OneRole
  VideoRoles <- AllVideoRoles
  MaxStreamLength = 10
  GroupExists = TRUE
  FaultKinds = {"crash", "db"}
  MaxFaults = 1
  Requests = {r1}
  MaxEnqueue = 1
  Workers = {w1, w2}
  MaxRetries = 2
  StreamCap = 1
  Foreign <- ForeignMalformed
SYMMETRY Symmetry
PROPERTIES RetriesAreUsedUp SharedLifecycleSpec
