------------------------------ MODULE EnvConfig ------------------------------
(***************************************************************************)
(* What the environment variables of the API decide: internal/config/env.go *)
(* and the constructors that read the result (the storage factory and the   *)
(* Redis client).  A variable is abstracted to a class of values:           *)
(*   unset   missing or empty: what os.Getenv reports as ""                 *)
(*   bad     set to a value that the code using it rejects: a key that has  *)
(*           not 32 bytes, a URL that redis.ParseURL refuses, an unknown    *)
(*           provider, a file that is no service account, not "true"        *)
(*   good    set to a usable value; for BUCKET_PROVIDER, "s3" or "minio"    *)
(* The optional variables left out (HOST, PORT, DB_PORT, LOG_LEVEL, ...)    *)
(* have defaults for every value that cannot be used.                       *)
(***************************************************************************)

CONSTANT NoConfig    \* the singleton before config.Init

Required == {"ENV", "DB_USER", "DB_PASSWORD", "DB_NAME",
             "REDIS_CONNECTION_STRING", "ENCRYPTION_KEY"}
EnvVars == Required \cup {"BUCKET_PROVIDER", "GCS_SA_PATH", "AUTO_MIGRATE"}
Values == {"unset", "bad", "good"}
Environments == [EnvVars -> Values]

Configs == [redis : Values, provider : Values \cup {"gcs"}, sa : Values,
            autoMigrate : BOOLEAN]

envOr(e, key, def) == IF e[key] # "unset" THEN e[key] ELSE def

\* The first missing variable, or a key of the wrong length, is an error.
GetEnvConfig(e) ==
  IF (\E v \in Required : e[v] = "unset") \/ e["ENCRYPTION_KEY"] = "bad"
  THEN NoConfig
  ELSE [redis       |-> e["REDIS_CONNECTION_STRING"],
        provider    |-> envOr(e, "BUCKET_PROVIDER", "gcs"),
        sa          |-> e["GCS_SA_PATH"],
        autoMigrate |-> e["AUTO_MIGRATE"] = "good"]

\* The client, the file and its two fields must all be there.
NewGCSStorageFromServiceAccountJSON(c) == c.sa = "good"

\* The settings with which storagex.New can succeed; an S3 client has a
\* default for everything that may be missing.
StorageNew(c) ==
  \/ c.provider = "gcs" /\ NewGCSStorageFromServiceAccountJSON(c)
  \/ c.provider = "good"

\* The constructor fails without a client on a URL it cannot parse and does
\* not connect otherwise.
MustGetRedisClient(c) == IF c.redis = "bad" THEN "nil" ELSE "client"
=============================================================================
