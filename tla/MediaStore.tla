----------------------------- MODULE MediaStore -----------------------------
(***************************************************************************)
(* The state that the API server and the workers share: the rows of the    *)
(* PostgreSQL tables assets, jobs, variants.* and asset_*_variants, the    *)
(* objects in storage, and the Redis stream media:jobs.                    *)
(*                                                                         *)
(* A job is named by its asset: the unique index on jobs (asset_id, type)  *)
(* and the single type 'process_asset' leave at most one per asset.  A     *)
(* variant is named by the content of the raw file and its role, which is  *)
(* what variant_hash is a hash of.                                         *)
(***************************************************************************)
EXTENDS Naturals, Sequences, FiniteSets, SqlSchema

CONSTANTS
  Assets,           \* the asset ids that may be created
  NoAsset,          \* "no asset in hand"
  Type,             \* Type[a]: the category of a's MIME type; "other" stands
                    \* for every type that the upload handler does not list
  Content,          \* Content[a]: the content of the raw file a client uploads
  Corrupt,          \* assets whose raw file does not decode as its type
  Backfilled,       \* assets whose content_hash column is set from outside:
                    \* the code reads the column and never writes it
  Schema,           \* the schema of the database, one of Schemas
  ImageRoles,       \* the roles of IMAGE_VARIANTS, in order
  VideoRoles,       \* the roles process_video_file makes, in order
  MaxStreamLength,  \* MAXLEN of the API's XADD
  GroupExists,      \* the consumer group exists at the start
  FaultKinds,       \* which of "crash", "db", "redis", "storage" may occur
  MaxFaults         \* bound: how many faults a behaviour may contain

ASSUME AssetsAssumption == NoAsset \notin Assets
ASSUME TypeAssumption == Type \in [Assets -> {"image", "video", "other"}]
ASSUME CorruptAssumption ==
  \A a, b \in Assets : Content[a] = Content[b] /\ Type[a] = Type[b]
                        => (a \in Corrupt <=> b \in Corrupt)
ASSUME RolesAssumption == /\ ImageRoles \in Seq(STRING) \ {<<>>}
                          /\ VideoRoles \in Seq(STRING) \ {<<>>}
ASSUME StreamAssumption == MaxStreamLength \in Nat /\ GroupExists \in BOOLEAN
ASSUME FaultAssumption == MaxFaults \in Nat

VARIABLES
  asset,      \* asset[a]: assets.status, or "none" before the row exists
  job,        \* job[a]: jobs.status, or "none" before the row exists
  attempts,   \* attempts[a]: jobs.attempts, counted up to a cap
  stale,      \* the jobs whose updated_at is more than two minutes old
  rows,       \* the variant rows: pairs <<content, role>>
  links,      \* the asset-to-variant rows: pairs <<asset, role>>
  raw,        \* the assets whose raw object is in storage
  objects,    \* the variant objects in storage: pairs <<content, role>>
  stream,     \* the messages not yet delivered to the consumer group
  group,      \* the consumer group exists
  faults      \* how many faults have occurred

dbVars      == <<asset, job, attempts, stale, rows, links>>
storageVars == <<raw, objects>>
redisVars   == <<stream, group>>
storeVars   == <<asset, job, attempts, stale, rows, links, raw, objects,
                 stream, group, faults>>

AssetStatus == {"none", "uploading", "uploaded", "processing", "ready", "failed"}

(* 'processing' is what the API inserts; the rest is the worker's vocabulary. *)
JobStatus == {"none", "processing", "pending", "in_progress", "done", "failed"}

(* What a stream entry carries: a job id, an asset id, or neither. *)
Message == [kind : {"job", "asset", "malformed"}, asset : Assets]

JobMessage(a) == [kind |-> "job", asset |-> a]

(* The categories of the MIME types that may be uploaded and processed. *)
Supported == {"image", "video"}

Roles(a) == IF Type[a] = "image" THEN ImageRoles ELSE VideoRoles

Variant(a, i) == <<Content[a], Roles(a)[i]>>
Link(a, i)    == <<a, Roles(a)[i]>>

StoreInit ==
  /\ asset = [a \in Assets |-> "none"]
  /\ job = [a \in Assets |-> "none"]
  /\ attempts = [a \in Assets |-> 0]
  /\ stale = {}
  /\ rows = {}
  /\ links = {}
  /\ raw = {}
  /\ objects = {}
  /\ stream = <<>>
  /\ group = GroupExists
  /\ faults = 0

(* A fault of kind k happens in this step. *)
Fault(k) == /\ k \in FaultKinds
            /\ faults < MaxFaults
            /\ faults' = faults + 1

NoFault == UNCHANGED faults

(* XADD.  The group is created at "$", so an entry added before it exists is *)
(* never delivered.                                                          *)
Xadd(m) == stream' = IF group THEN Append(stream, m) ELSE stream

(* XADD with MAXLEN ~: Redis may evict the oldest entries beyond the limit,  *)
(* whether or not they were delivered, and is free to evict fewer.           *)
Excess(s) == IF Len(s) > MaxStreamLength THEN Len(s) - MaxStreamLength ELSE 0

XaddMaxLen(m) ==
  IF group
  THEN LET s == Append(stream, m)
       IN  \E k \in 0 .. Excess(s) : stream' = SubSeq(s, k + 1, Len(s))
  ELSE stream' = stream

(* Two minutes pass without an update of the job's row. *)
Age(a) ==
  /\ job[a] # "none"
  /\ a \notin stale
  /\ stale' = stale \cup {a}
  /\ UNCHANGED <<asset, job, attempts, rows, links, storageVars, redisVars, faults>>

-----------------------------------------------------------------------------
(* The roles the code lists, in its order. *)
AllImageRoles == <<"thumbnail", "display_small", "display_large">>
AllVideoRoles == <<"poster", "transcoded", "preview">>
=============================================================================
