------------------------------ MODULE SqlSchema ------------------------------
(***************************************************************************)
(* The tables the repository creates and the statements the worker runs    *)
(* against them.  The repository holds two complete schemas:               *)
(*                                                                         *)
(*   "seed"      db/migrations/001_seed.sql, applied by hand with psql;    *)
(*   "embedded"  internal/database/migrations/000001_init_schema.up.sql,   *)
(*               applied at start-up when AUTO_MIGRATE is true.            *)
(*                                                                         *)
(* "worker" stands for a database that has every column, table and         *)
(* nullable field the worker's statements use: what the statements were    *)
(* written for.  A statement is abstracted to the table it names, the      *)
(* columns it names, those it sets to NULL, and its conflict target.       *)
(***************************************************************************)

Schemas == {"seed", "embedded", "worker"}

(* Columns of the tables of 001_seed.sql. *)
SeedColumns ==
  [assets |-> {"asset_id", "original_url", "type", "status", "mime_type",
               "size_bytes", "width", "height", "duration_seconds",
               "error_reason", "content_hash", "created_at", "updated_at"},
   image  |-> {"variant_hash", "content_hash", "role", "format", "width",
               "height", "size_bytes", "url", "params", "created_at"},
   video  |-> {"variant_hash", "content_hash", "role", "codec", "container",
               "resolution", "bitrate_kbps", "size_bytes", "url",
               "manifest_url", "duration_seconds", "params", "created_at"},
   asset_image_variants |-> {"asset_id", "role", "variant_hash", "created_at"},
   asset_video_variants |-> {"asset_id", "role", "variant_hash", "created_at"}]

(* The columns of 001_seed.sql that are NOT NULL and have no default. *)
SeedRequired ==
  [assets |-> {"original_url", "type", "status", "mime_type", "size_bytes"},
   image  |-> SeedColumns.image \ {"created_at"},
   video  |-> SeedColumns.video \ {"bitrate_kbps", "manifest_url",
                                   "duration_seconds", "created_at"},
   asset_image_variants |-> {"asset_id", "role", "variant_hash"},
   asset_video_variants |-> {"asset_id", "role", "variant_hash"}]

(* The unique keys of 001_seed.sql. *)
SeedKey ==
  [assets |-> {"asset_id"}, image |-> {"variant_hash"}, video |-> {"variant_hash"},
   asset_image_variants |-> {"asset_id", "role"},
   asset_video_variants |-> {"asset_id", "role"}]

(* The same for 000001_init_schema.up.sql, which has no link tables. *)
EmbeddedColumns ==
  [assets |-> {"asset_id", "original_url", "type", "status", "mime_type",
               "size_bytes", "content_hash", "canonical_asset_id",
               "error_reason", "processed_at", "created_at", "updated_at"},
   image  |-> {"asset_id", "url", "role", "width", "height", "size_bytes",
               "format", "created_at"},
   video  |-> {"asset_id", "url", "role", "codec", "container", "resolution",
               "bitrate_kbps", "size_bytes", "manifest_url",
               "duration_seconds", "created_at"}]

EmbeddedRequired ==
  [assets |-> {"original_url", "type", "status", "mime_type", "size_bytes"},
   image  |-> {"asset_id", "url", "role"},
   video  |-> {"asset_id", "url", "role"}]

EmbeddedKey ==
  [assets |-> {"asset_id"}, image |-> {"asset_id", "role"},
   video |-> {"asset_id", "role"}]

-----------------------------------------------------------------------------
Update(t, cols) ==
  [table |-> t, insert |-> FALSE, cols |-> cols, nulls |-> {}, target |-> {}]

Insert(t, cols, nulls, target) ==
  [table |-> t, insert |-> TRUE, cols |-> cols, nulls |-> nulls, target |-> target]

(* The UPDATE that stores the probed metadata of an asset. *)
MetadataUpdate(type) ==
  IF type = "image"
  THEN Update("assets", {"width", "height", "mime_type", "updated_at"})
  ELSE Update("assets", {"width", "height", "duration_seconds", "updated_at"})

(* The UPDATE that marks an asset ready once its variants are made. *)
ReadyUpdate(type) ==
  IF type = "image"
  THEN Update("assets", {"status", "updated_at"})
  ELSE Update("assets", {"status", "processed_at", "updated_at"})

(* The INSERT of a variant row.  A poster has no height, a preview names no *)
(* container in its parameters, and no video variant has a manifest.        *)
VariantInsert(role) ==
  IF role \in {"transcoded", "preview"}
  THEN Insert("video",
              {"variant_hash", "content_hash", "role", "codec", "container",
               "resolution", "bitrate_kbps", "size_bytes", "duration_seconds",
               "manifest_url", "url", "params"},
              {"manifest_url"} \cup (IF role = "preview" THEN {"container"}
                                     ELSE {"duration_seconds"}),
              {"variant_hash"})
  ELSE Insert("image",
              {"variant_hash", "content_hash", "role", "format", "width",
               "height", "size_bytes", "url", "params"},
              IF role = "poster" THEN {"height"} ELSE {},
              {"variant_hash"})

(* The upsert that links an asset to a variant. *)
LinkInsert(role) ==
  Insert(IF role \in {"transcoded", "preview"} THEN "asset_video_variants"
         ELSE "asset_image_variants",
         {"asset_id", "role", "variant_hash"}, {}, {"asset_id", "role"})

(* PostgreSQL accepts a statement when its table and columns exist, no NOT  *)
(* NULL column is given NULL or, on INSERT, left out, and the conflict       *)
(* target is a unique key.                                                   *)
Accepts(columns, required, key, st) ==
  /\ st.table \in DOMAIN columns
  /\ st.cols \subseteq columns[st.table]
  /\ st.nulls \cap required[st.table] = {}
  /\ st.insert => /\ required[st.table] \subseteq st.cols
                  /\ st.target = key[st.table]

Executes(schema, st) ==
  \/ schema = "worker"
  \/ schema = "seed" /\ Accepts(SeedColumns, SeedRequired, SeedKey, st)
  \/ schema = "embedded"
     /\ Accepts(EmbeddedColumns, EmbeddedRequired, EmbeddedKey, st)
=============================================================================
