----------------------------- MODULE MCApiServer -----------------------------
(* Values of the constants of ApiServer for model checking. *)
EXTENDS ApiServer, TLC

AllGood == [v \in EnvVars |-> "good"]

Minimal == [AllGood EXCEPT !["BUCKET_PROVIDER"] = "unset", !["AUTO_MIGRATE"] = "unset"]

BadRedis == [Minimal EXCEPT !["REDIS_CONNECTION_STRING"] = "bad"]

\* S3 with migrations, GCS without them and with a Redis URL that cannot be
\* parsed, and every environment that must not come up for one variable.
Environments1 ==
  {AllGood, BadRedis}
  \cup {[AllGood EXCEPT ![v] = "unset"] : v \in Required}
  \cup {[AllGood EXCEPT ![v] = "bad"] : v \in {"ENCRYPTION_KEY", "BUCKET_PROVIDER"}}
  \cup {[Minimal EXCEPT !["GCS_SA_PATH"] = x] : x \in {"unset", "bad"}}
=============================================================================
