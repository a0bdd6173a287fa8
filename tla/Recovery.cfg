SPECIFICATION FairSpec
CONSTANTS
  a1 = a1  a2 = a2  w1 = w1  w2 = w2  r1 = r1  r2 = r2
  Assets = {a1, a2, a3}
  NoAsset = NoAsset
  Type <- ImagesAndVideo
  Content <- TwoSame
  Corrupt = {}
  Backfilled = {a1}
  Schema = "seed"
  ImageRoles <- OneRole
  VideoRoles <- AllVideoRoles
  MaxStreamLength = 10
  GroupExists = TRUE
  FaultKinds = {"crash", "db", "redis", "storage"}
  MaxFaults = 2
  Requests = {r1}
  MaxEnqueue = 1
  Workers = {w1}
  MaxRetries = 2
  StreamCap = 2
  Foreign = {}
INVARIANTS StrandedByFaults
PROPERTIES ClaimedSettles CommittedSettles LifecycleSpec AssetFailsWithJob
