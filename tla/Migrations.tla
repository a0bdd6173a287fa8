----------------------------- MODULE Migrations -----------------------------
(***************************************************************************)
(* The start of the services when AUTO_MIGRATE is true.  The Go server     *)
(* calls RunMigrations (golang-migrate), the worker its own run_migrations;*)
(* both read the same *.up.sql files, numbered 1 .. Versions, and both     *)
(* keep their records in a table called schema_migrations:                 *)
(*                                                                         *)
(*   golang-migrate  (version bigint, dirty boolean NOT NULL), one row:    *)
(*                   the version reached, dirty while it is being applied; *)
(*   run_migrations  (version text, applied_at), one row per version.      *)
(*                                                                         *)
(* Whoever comes first creates it.  The SQL of a migration is idempotent   *)
(* and runs in one transaction.                                            *)
(***************************************************************************)
EXTENDS Naturals

CONSTANTS
  Servers, Workers,  \* the processes of the two services
  Versions,          \* the number of migrations; the repository has two
  NoLock,            \* "nobody holds the advisory lock"
  MaxCrashes         \* bound: how many crashes a behaviour may contain

ASSUME ProcessAssumption == Servers \cap Workers = {} /\ NoLock \notin Servers
ASSUME VersionsAssumption == Versions \in Nat
ASSUME CrashAssumption == MaxCrashes \in Nat

VARIABLES
  table,    \* schema_migrations: "none", or "go" or "py" by who created it
  version,  \* the row of a "go" table, 0 if it is empty ...
  dirty,    \* ... and its dirty flag
  rows,     \* the rows of a "py" table
  schema,   \* the migrations that have been applied to the database
  lock,     \* the server that holds golang-migrate's advisory lock
  at,       \* where process p is
  next,     \* next[p]: the migration p looks at
  crashes

vars == <<table, version, dirty, rows, schema, lock, at, next, crashes>>
dbVars == <<table, version, dirty, rows, schema>>

Processes == Servers \cup Workers
Files == 1 .. Versions

Init ==
  /\ table = "none"
  /\ version = 0
  /\ dirty = FALSE
  /\ rows = {}
  /\ schema = {}
  /\ lock = NoLock
  /\ at = [p \in Processes |-> "down"]
  /\ next = [p \in Processes |-> 1]
  /\ crashes = 0

Goto(p, to) == at' = [at EXCEPT ![p] = to]

(* A mutant: the files are taken in the wrong order. *)
StartUnsorted(p, kind) ==
  /\ at[p] = "down"
  /\ table' = IF table = "none" THEN kind ELSE table
  /\ Goto(p, "check")
  /\ next' = [next EXCEPT ![p] = Versions]
  /\ UNCHANGED <<version, dirty, rows, schema, lock, crashes>>

(* The process starts and makes sure that the table exists. *)
Start(p, kind) ==
  /\ at[p] = "down"
  /\ table' = IF table = "none" THEN kind ELSE table
  /\ Goto(p, "check")
  /\ next' = [next EXCEPT ![p] = 1]
  /\ UNCHANGED <<version, dirty, rows, schema, lock, crashes>>

-----------------------------------------------------------------------------
(* The server: golang-migrate as RunMigrations uses it *)

StartServer(s) == Start(s, "go")

(* Up takes the lock and reads the row.  A table without a dirty column and a *)
(* dirty row are errors, and main exits on an error.                          *)
Up(s) ==
  /\ at[s] = "check"
  /\ lock = NoLock
  /\ IF table = "py" \/ dirty
     THEN Goto(s, "down") /\ UNCHANGED lock
     ELSE Goto(s, "mark") /\ lock' = s
  /\ UNCHANGED <<dbVars, next, crashes>>

(* A mutant: the end of the files is noticed one too late. *)
MarkPast(s) ==
  /\ at[s] = "mark"
  /\ IF version > Versions
     THEN Goto(s, "up") /\ lock' = NoLock /\ UNCHANGED <<version, dirty>>
     ELSE Goto(s, "run") /\ version' = version + 1 /\ dirty' = TRUE /\ UNCHANGED lock
  /\ UNCHANGED <<table, rows, schema, next, crashes>>

(* Record the next version as dirty, or finish. *)
MarkDirty(s) ==
  /\ at[s] = "mark"
  /\ IF version = Versions
     THEN Goto(s, "up") /\ lock' = NoLock /\ UNCHANGED <<version, dirty>>
     ELSE Goto(s, "run") /\ version' = version + 1 /\ dirty' = TRUE /\ UNCHANGED lock
  /\ UNCHANGED <<table, rows, schema, next, crashes>>

RunFile(s) ==
  /\ at[s] = "run"
  /\ schema' = schema \cup {version}
  /\ Goto(s, "clean")
  /\ UNCHANGED <<table, version, dirty, rows, lock, next, crashes>>

MarkClean(s) ==
  /\ at[s] = "clean"
  /\ dirty' = FALSE
  /\ Goto(s, "mark")
  /\ UNCHANGED <<table, version, rows, schema, lock, next, crashes>>

-----------------------------------------------------------------------------
(* The worker: run_migrations *)

StartWorker(w) == Start(w, "py")

(* SELECT 1 FROM schema_migrations WHERE version = ...: text compares with    *)
(* the bigint column too.                                                     *)
Recorded(v) == IF table = "py" THEN v \in rows ELSE version = v

(* Skip what is recorded; after the last file the worker is up. *)
Select(w) ==
  /\ at[w] = "check"
  /\ IF next[w] > Versions
     THEN Goto(w, "up") /\ UNCHANGED next
     ELSE IF Recorded(next[w])
          THEN next' = [next EXCEPT ![w] = @ + 1] /\ UNCHANGED at
          ELSE Goto(w, "apply") /\ UNCHANGED next
  /\ UNCHANGED <<dbVars, lock, crashes>>

(* A mutant: the record is made although the file was not run. *)
RecordOnly(v) == rows' = rows \cup {v} /\ UNCHANGED schema

ApplyFile(v) == rows' = rows \cup {v} /\ schema' = schema \cup {v}

(* The exception leaves main: the worker exits. *)
Raise(w) == Goto(w, "down") /\ UNCHANGED next

(* The file and its record in one transaction.  The INSERT is refused when a  *)
(* second worker was faster, and by a "go" table, whose dirty column is NOT   *)
(* NULL and has no default.                                                   *)
Apply(w) ==
  /\ at[w] = "apply"
  /\ IF table = "py" /\ next[w] \notin rows
     THEN /\ ApplyFile(next[w])
          /\ Goto(w, "check")
          /\ next' = [next EXCEPT ![w] = @ + 1]
     ELSE /\ Raise(w)
          /\ UNCHANGED <<rows, schema>>
  /\ UNCHANGED <<table, version, dirty, lock, crashes>>

-----------------------------------------------------------------------------
(* A process dies during its start; its session's advisory lock is released. *)
Crash(p) ==
  /\ at[p] \notin {"down", "up"}
  /\ crashes < MaxCrashes
  /\ crashes' = crashes + 1
  /\ Goto(p, "down")
  /\ lock' = IF lock = p THEN NoLock ELSE lock
  /\ UNCHANGED <<dbVars, next>>

ServerStep(s) == StartServer(s) \/ Up(s) \/ MarkDirty(s) \/ RunFile(s) \/ MarkClean(s)

WorkerStep(w) == StartWorker(w) \/ Select(w) \/ Apply(w)

Next ==
  \/ \E s \in Servers : ServerStep(s)
  \/ \E w \in Workers : WorkerStep(w)
  \/ \E p \in Processes : Crash(p)

Spec == Init /\ [][Next]_vars

(* Processes keep running and are restarted when they exit. *)
Fairness == /\ \A s \in Servers : WF_vars(ServerStep(s))
            /\ \A w \in Workers : WF_vars(WorkerStep(w))

FairSpec == Spec /\ Fairness

-----------------------------------------------------------------------------
(* Every variable has its type. *)
TypeOK ==
  /\ table \in {"none", "go", "py"}
  /\ version \in 0 .. Versions
  /\ dirty \in BOOLEAN
  /\ rows \subseteq Files
  /\ schema \subseteq Files
  /\ lock \in Servers \cup {NoLock}
  /\ at \in [Processes -> {"down", "check", "mark", "run", "clean", "apply", "up"}]
  /\ next \in [Processes -> Nat \ {0}]
  /\ crashes \in 0 .. MaxCrashes

(* The table is the one process p expects. *)
OwnTable(p) == table = IF p \in Servers THEN "go" ELSE "py"

(* A process that finds its own table serves only when every migration has    *)
(* been applied, however many processes of both services start together and   *)
(* wherever one of them crashes.                                              *)
UpIsMigrated == \A p \in Processes : at[p] = "up" /\ OwnTable(p) => schema = Files

(* Migrations are applied in the order of their numbers: the database is      *)
(* never at a version whose predecessor is missing.                           *)
InOrder == \A v \in schema : \A u \in Files : u < v => u \in schema

(* Every process comes up: RunMigrations is "safe to call on every startup".  *)
AllUp == <>(\A p \in Processes : at[p] = "up")

-----------------------------------------------------------------------------
(* What makes UpIsMigrated and InOrder inductive *)

(* Whoever has started has seen to it that there is a table. *)
TableExists == \A p \in Processes : at[p] # "down" => table # "none"

(* The rows are the migrations applied; the version row is ahead of them only *)
(* while it is dirty.                                                         *)
RecordsAreTrue ==
  /\ rows \subseteq schema
  /\ table # "py" => rows = {}
  /\ table # "go" => version = 0 /\ ~dirty
  /\ table # "py" /\ ~dirty => schema = 1 .. version

(* A worker with its own table has seen the migrations before next[w]         *)
(* recorded; a server between its look at the row and its end has its own     *)
(* table and holds the lock.                                                  *)
InHand ==
  /\ \A w \in Workers : at[w] \in {"check", "apply"} /\ table = "py"
       => \A v \in 1 .. next[w] - 1 : v \in rows
  /\ \A w \in Workers : at[w] = "apply" => next[w] \in Files
  /\ \A s \in Servers :
       /\ at[s] \in {"mark", "run", "clean"} => lock = s /\ table = "go"
       /\ at[s] = "mark" => ~dirty
       /\ at[s] = "run" => version > 0 /\ schema = 1 .. version - 1
       /\ at[s] = "clean" => schema = 1 .. version

MigrationInv ==
  TypeOK /\ UpIsMigrated /\ InOrder /\ TableExists /\ RecordsAreTrue /\ InHand
=============================================================================
