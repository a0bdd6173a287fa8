--------------------------- MODULE MigrationProofs ---------------------------
(***************************************************************************)
(* Both migration runners apply the migrations in order, and a process     *)
(* that finds its own table serves only a fully migrated database, for any *)
(* number of processes, migrations and crashes.                            *)
(***************************************************************************)
EXTENDS Migrations, TLAPS

(* Nothing is recorded and nobody has started. *)
LEMMA MigrationInit == Init => MigrationInv
<1> SUFFICES ASSUME Init PROVE MigrationInv
  OBVIOUS
<1> USE VersionsAssumption, CrashAssumption DEF Init
<1>1. TypeOK
  <2>1. version \in 0 .. Versions /\ crashes \in 0 .. MaxCrashes /\ 1 \in Nat \ {0}
    OBVIOUS
  <2> QED BY <2>1, Zenon DEF TypeOK
<1>2. UpIsMigrated /\ InOrder /\ TableExists /\ InHand
  BY DEF UpIsMigrated, InOrder, TableExists, InHand, Processes
<1>3. RecordsAreTrue
  BY DEF RecordsAreTrue
<1> QED BY <1>1, <1>2, <1>3 DEF MigrationInv

(* A start changes no record, and makes the table only when nobody is up. *)
LEMMA StartStep ==
  ASSUME MigrationInv, NEW p \in Processes, NEW kind \in {"go", "py"}, Start(p, kind)
  PROVE  MigrationInv'
<1> USE VersionsAssumption DEF MigrationInv
<1>1. TypeOK'
  BY DEF TypeOK, Start, Goto
<1>2. \A q \in Processes : at'[q] # "check" => at'[q] = at[q] /\ next'[q] = next[q]
  BY DEF Start, Goto, TypeOK
<1>3. \A q \in Processes : at[q] # "down" => table' = table
  BY DEF Start, TableExists
<1>4. UpIsMigrated' /\ InOrder'
  BY <1>2, <1>3 DEF UpIsMigrated, InOrder, OwnTable, Start
<1>5. TableExists'
  BY DEF TableExists, Start, Goto, TypeOK
<1>6. RecordsAreTrue'
  BY DEF RecordsAreTrue, Start, TypeOK
<1>7. InHand'
  <2>1. ASSUME NEW w \in Workers, at'[w] \in {"check", "apply"}, table' = "py",
               NEW v \in 1 .. next'[w] - 1
        PROVE  v \in rows'
    <3>1. CASE w = p
      BY <2>1, <3>1 DEF Start, TypeOK
    <3>2. CASE w # p
      <4>1. at'[w] = at[w] /\ next'[w] = next[w] /\ rows' = rows /\ table' = table
        BY <1>3, <2>1, <3>2 DEF Start, Goto, TypeOK, Processes
      <4> QED BY <2>1, <4>1 DEF InHand
    <3> QED BY <3>1, <3>2
  <2>2. \A w \in Workers : at'[w] = "apply" => next'[w] \in Files
    BY <1>2 DEF InHand, Processes
  <2>3. \A s \in Servers :
          at'[s] \in {"mark", "run", "clean"} => at'[s] = at[s] /\ table' = table
    BY <1>2, <1>3 DEF Processes
  <2> QED BY <2>1, <2>2, <2>3 DEF InHand, Start
<1> QED BY <1>1, <1>4, <1>5, <1>6, <1>7

(* A step of a server that changes neither the rows nor the table keeps what  *)
(* the workers know.                                                          *)
LEMMA WorkersKeep ==
  ASSUME MigrationInv, NEW s \in Servers, NEW to, Goto(s, to),
         UNCHANGED <<table, rows, next>>
  PROVE  /\ \A w \in Workers : at'[w] \in {"check", "apply"} /\ table' = "py"
              => \A v \in 1 .. next'[w] - 1 : v \in rows'
         /\ \A w \in Workers : at'[w] = "apply" => next'[w] \in Files
<1>1. \A w \in Workers : at'[w] = at[w]
  BY ProcessAssumption DEF Goto, MigrationInv, TypeOK, Processes
<1> QED BY <1>1 DEF MigrationInv, InHand

(* A server moves the version row and the schema together, under the lock. *)
LEMMA ServerStepInv ==
  ASSUME MigrationInv, NEW s \in Servers,
         Up(s) \/ MarkDirty(s) \/ RunFile(s) \/ MarkClean(s)
  PROVE  MigrationInv'
<1> USE VersionsAssumption, ProcessAssumption DEF MigrationInv
<1>1. s \in Processes /\ version \in 0 .. Versions /\ s # NoLock
  BY DEF TypeOK, Processes
<1>2. table # "none"
  BY <1>1 DEF TableExists, Up, MarkDirty, RunFile, MarkClean
<1>3. CASE Up(s)
  <2>1. TypeOK'
    BY <1>1, <1>3 DEF Up, Goto, TypeOK, dbVars
  <2>2. InOrder' /\ TableExists' /\ RecordsAreTrue'
    BY <1>1, <1>2, <1>3 DEF Up, Goto, TypeOK, dbVars, InOrder, TableExists, RecordsAreTrue
  <2>3. UpIsMigrated'
    BY <1>1, <1>3 DEF Up, Goto, TypeOK, dbVars, UpIsMigrated, OwnTable
  <2>4. InHand'
    <3>1. \A t \in Servers : t # s => at'[t] = at[t]
      BY <1>1, <1>3 DEF Up, Goto, TypeOK, Processes
    <3>2. at'[s] \in {"mark", "down"} /\ (at'[s] = "mark" => lock' = s /\ table = "go" /\ ~dirty)
      BY <1>1, <1>2, <1>3 DEF Up, Goto, TypeOK
    <3>3. \A t \in Servers : at[t] \notin {"mark", "run", "clean"}
      BY <1>3 DEF Up, InHand
    <3>4. UNCHANGED <<table, rows, next>> /\ \E to : Goto(s, to)
      BY <1>3 DEF Up, dbVars
    <3> QED BY <1>3, <3>1, <3>2, <3>3, <3>4, WorkersKeep DEF Up, dbVars, InHand
  <2> QED BY <2>1, <2>2, <2>3, <2>4
<1>4. CASE ~Up(s)
  <2>1. table = "go" /\ lock = s /\ at[s] \in {"mark", "run", "clean"}
    BY <1>4 DEF MarkDirty, RunFile, MarkClean, InHand
  <2>2. \A t \in Servers : t # s => at[t] \notin {"mark", "run", "clean"}
    BY <2>1 DEF InHand
  <2>3. \A w \in Workers : w # s
    OBVIOUS
  <2>4. CASE MarkDirty(s)
    <3>1. ~dirty /\ schema = 1 .. version
      BY <2>1, <2>4 DEF MarkDirty, InHand, RecordsAreTrue
    <3>2. CASE version = Versions
      <4>1. TypeOK'
        BY <1>1, <2>4, <3>2 DEF MarkDirty, Goto, TypeOK
      <4>2. UpIsMigrated' /\ InOrder' /\ TableExists' /\ RecordsAreTrue'
        BY <1>1, <2>4, <3>1, <3>2, <2>1
           DEF MarkDirty, Goto, TypeOK, UpIsMigrated, OwnTable, InOrder, TableExists,
               RecordsAreTrue, Files
      <4>3. InHand'
        BY <1>1, <2>4, <2>2, <3>2, WorkersKeep DEF MarkDirty, Goto, TypeOK, InHand, Processes
      <4> QED BY <4>1, <4>2, <4>3
    <3>3. CASE version # Versions
      <4>1. TypeOK'
        BY <1>1, <2>4, <3>3 DEF MarkDirty, Goto, TypeOK
      <4>2. UpIsMigrated' /\ InOrder' /\ TableExists' /\ RecordsAreTrue'
        BY <1>1, <2>4, <2>1, <3>3
           DEF MarkDirty, Goto, TypeOK, UpIsMigrated, OwnTable, InOrder, TableExists,
               RecordsAreTrue
      <4>3. version' - 1 = version /\ version' > 0
        BY <1>1, <2>4, <3>3 DEF MarkDirty
      <4>4. InHand'
        BY <1>1, <2>4, <2>1, <2>2, <3>1, <3>3, <4>3, WorkersKeep
           DEF MarkDirty, Goto, TypeOK, InHand, Processes
      <4> QED BY <4>1, <4>2, <4>4
    <3> QED BY <3>2, <3>3
  <2>5. CASE RunFile(s)
    <3>1. schema = 1 .. version - 1 /\ version \in Files
      BY <1>1, <2>5 DEF RunFile, InHand, Files
    <3>2. schema' = 1 .. version
      BY <1>1, <2>5, <3>1 DEF RunFile, Files
    <3>3. TypeOK'
      BY <1>1, <2>5, <3>2 DEF RunFile, Goto, TypeOK, Files
    <3>4. UpIsMigrated' /\ InOrder' /\ TableExists'
      BY <1>1, <2>1, <2>5, <3>1, <3>2
         DEF RunFile, Goto, TypeOK, UpIsMigrated, OwnTable, InOrder, TableExists, Files
    <3>5. RecordsAreTrue'
      BY <2>1, <2>5, <3>2 DEF RunFile, RecordsAreTrue
    <3>6. InHand'
      BY <1>1, <2>1, <2>2, <2>5, <3>2, WorkersKeep
         DEF RunFile, Goto, TypeOK, InHand, Processes
    <3> QED BY <3>3, <3>4, <3>5, <3>6
  <2>6. CASE MarkClean(s)
    <3>1. schema = 1 .. version
      BY <2>6 DEF MarkClean, InHand
    <3>2. TypeOK'
      BY <1>1, <2>6 DEF MarkClean, Goto, TypeOK
    <3>3. UpIsMigrated' /\ InOrder' /\ TableExists' /\ RecordsAreTrue'
      BY <1>1, <2>6, <2>1, <3>1
         DEF MarkClean, Goto, TypeOK, UpIsMigrated, OwnTable, InOrder, TableExists,
             RecordsAreTrue
    <3>4. InHand'
      BY <1>1, <2>6, <2>1, <2>2, <3>1, WorkersKeep
         DEF MarkClean, Goto, TypeOK, InHand, Processes
    <3> QED BY <3>2, <3>3, <3>4
  <2> QED BY <1>4, <2>4, <2>5, <2>6
<1> QED BY <1>3, <1>4

(* A worker records a migration in the transaction that applies it. *)
LEMMA WorkerStepInv ==
  ASSUME MigrationInv, NEW w \in Workers, Select(w) \/ Apply(w)
  PROVE  MigrationInv'
<1> USE VersionsAssumption, ProcessAssumption DEF MigrationInv
<1>1. w \in Processes /\ w \notin Servers
  BY DEF Processes
<1>2. at[w] \in {"check", "apply"} /\ next[w] \in Nat \ {0}
  BY <1>1 DEF Select, Apply, TypeOK
<1>3. table = "py" => \A v \in 1 .. next[w] - 1 : v \in rows
  BY <1>2 DEF InHand
<1>4. table # "none"
  BY <1>1, <1>2 DEF TableExists
<1>5. \A x \in Processes : x # w => at'[x] = at[x] /\ next'[x] = next[x]
  BY <1>1 DEF Select, Apply, Raise, Goto, TypeOK
<1>6. CASE Select(w)
  <2>1. TypeOK'
    BY <1>1, <1>2, <1>6 DEF Select, Goto, TypeOK, dbVars
  <2>2. InOrder' /\ TableExists' /\ RecordsAreTrue'
    BY <1>4, <1>6 DEF Select, dbVars, InOrder, TableExists, RecordsAreTrue
  <2>3. UpIsMigrated'
    <3>1. next[w] > Versions /\ table = "py" => Files \subseteq schema
      BY <1>2, <1>3 DEF RecordsAreTrue, Files
    <3>2. next[w] > Versions /\ table = "py" => schema = Files
      BY <3>1 DEF TypeOK
    <3> QED BY <1>1, <1>6, <3>2
          DEF Select, Goto, TypeOK, dbVars, UpIsMigrated, OwnTable
  <2>4. \A x \in Workers : at'[x] = "apply" => next'[x] \in Files
    BY <1>1, <1>2, <1>6 DEF Select, Goto, TypeOK, InHand, Processes, Files
  <2>5. ASSUME NEW x \in Workers, at'[x] \in {"check", "apply"}, table' = "py",
               NEW v \in 1 .. next'[x] - 1
        PROVE  v \in rows'
    <3>1. at[x] \in {"check", "apply"} /\ rows' = rows /\ table = "py" /\ x \in Processes
      BY <1>2, <1>5, <1>6, <2>5 DEF Select, dbVars, Processes
    <3>2. CASE next'[x] = next[x]
      BY <2>5, <3>1, <3>2 DEF InHand
    <3>3. CASE next'[x] # next[x]
      <4>1. x = w /\ next'[w] = next[w] + 1 /\ next[w] \in rows
        BY <1>5, <1>6, <3>1, <3>3 DEF Select, TypeOK, Recorded
      <4> QED BY <1>2, <1>3, <2>5, <3>1, <4>1
    <3> QED BY <3>2, <3>3
  <2>6. \A s \in Servers : at'[s] = at[s]
    BY <1>1, <1>5 DEF Processes
  <2>7. InHand'
    BY <1>6, <2>4, <2>5, <2>6 DEF InHand, Select, dbVars
  <2> QED BY <2>1, <2>2, <2>3, <2>7
<1>7. CASE Apply(w)
  <2>1. CASE table = "py" /\ next[w] \notin rows
    <3>1. /\ rows' = rows \cup {next[w]} /\ schema' = schema \cup {next[w]}
          /\ at' = [at EXCEPT ![w] = "check"] /\ next' = [next EXCEPT ![w] = @ + 1]
          /\ UNCHANGED <<table, version, dirty, lock, crashes>>
      BY <1>7, <2>1 DEF Apply, ApplyFile, Goto
    <3>2. at[w] = "apply"
      BY <1>7 DEF Apply
    <3>3. next[w] \in Files
      BY <1>2, <3>2 DEF InHand
    <3>4. TypeOK'
      BY <1>1, <1>2, <3>1, <3>3 DEF TypeOK
    <3>5. UpIsMigrated' /\ TableExists' /\ RecordsAreTrue'
      BY <1>1, <2>1, <3>1, <3>3
         DEF TypeOK, UpIsMigrated, OwnTable, TableExists, RecordsAreTrue
    <3>6. InOrder'
      BY <1>2, <1>3, <2>1, <3>1 DEF InOrder, RecordsAreTrue, TypeOK, Files
    <3>7. InHand'
      <4>1. \A x \in Workers : at'[x] = "apply" => next'[x] \in Files
        BY <1>1, <3>1 DEF TypeOK, InHand, Processes
      <4>2. ASSUME NEW x \in Workers, at'[x] \in {"check", "apply"},
                   NEW v \in 1 .. next'[x] - 1
            PROVE  v \in rows'
        <5>1. CASE x = w
          <6>1. next'[x] - 1 = next[w]
            BY <1>1, <1>2, <3>1, <5>1 DEF TypeOK
          <6> QED BY <1>2, <1>3, <2>1, <3>1, <4>2, <6>1
        <5>2. CASE x # w
          <6>1. at'[x] = at[x] /\ next'[x] = next[x]
            BY <1>5, <5>2 DEF Processes
          <6> QED BY <2>1, <3>1, <4>2, <6>1 DEF InHand
        <5> QED BY <5>1, <5>2
      <4>3. \A s \in Servers : at'[s] = at[s] /\ at'[s] \notin {"mark", "run", "clean"}
        BY <1>1, <1>5, <2>1 DEF Processes, InHand
      <4> QED BY <4>1, <4>2, <4>3 DEF InHand
    <3> QED BY <3>4, <3>5, <3>6, <3>7
  <2>2. CASE ~(table = "py" /\ next[w] \notin rows)
    <3>1. at' = [at EXCEPT ![w] = "down"] /\ UNCHANGED <<dbVars, lock, next, crashes>>
      BY <1>7, <2>2 DEF Apply, Raise, Goto, dbVars
    <3>2. TypeOK'
      BY <1>1, <3>1 DEF TypeOK, dbVars
    <3>3. UpIsMigrated' /\ InOrder' /\ TableExists' /\ RecordsAreTrue'
      BY <1>1, <3>1
         DEF TypeOK, dbVars, UpIsMigrated, OwnTable, InOrder, TableExists, RecordsAreTrue
    <3>4. InHand'
      BY <1>1, <3>1 DEF TypeOK, dbVars, InHand, Processes
    <3> QED BY <3>2, <3>3, <3>4
  <2> QED BY <2>1, <2>2
<1> QED BY <1>6, <1>7

(* A crash loses the process, not its records. *)
LEMMA CrashStep ==
  ASSUME MigrationInv, NEW p \in Processes, Crash(p)
  PROVE  MigrationInv'
<1> USE CrashAssumption, ProcessAssumption DEF MigrationInv
<1>1. TypeOK'
  BY DEF Crash, Goto, TypeOK, dbVars
<1>2. UpIsMigrated' /\ InOrder' /\ TableExists' /\ RecordsAreTrue'
  BY DEF Crash, Goto, TypeOK, dbVars, UpIsMigrated, OwnTable, InOrder, TableExists,
         RecordsAreTrue
<1>3. InHand'
  BY DEF Crash, Goto, TypeOK, dbVars, InHand, Processes
<1> QED BY <1>1, <1>2, <1>3

(* Every step of either service keeps the invariant. *)
LEMMA MigrationStep == MigrationInv /\ [Next]_vars => MigrationInv'
<1> SUFFICES ASSUME MigrationInv, [Next]_vars PROVE MigrationInv'
  OBVIOUS
<1>1. ASSUME NEW s \in Servers, ServerStep(s) PROVE MigrationInv'
  BY <1>1, StartStep, ServerStepInv DEF ServerStep, StartServer, Processes
<1>2. ASSUME NEW w \in Workers, WorkerStep(w) PROVE MigrationInv'
  BY <1>2, StartStep, WorkerStepInv DEF WorkerStep, StartWorker, Processes
<1>3. CASE UNCHANGED vars
  BY <1>3 DEF vars, MigrationInv, TypeOK, UpIsMigrated, OwnTable, InOrder, TableExists,
              RecordsAreTrue, InHand
<1> QED BY <1>1, <1>2, <1>3, CrashStep DEF Next

(* A process with its own table does not serve before every migration has     *)
(* been applied.                                                              *)
THEOREM UpIsMigratedHolds == Spec => []UpIsMigrated
<1>1. MigrationInv => UpIsMigrated
  BY DEF MigrationInv
<1> QED BY MigrationInit, MigrationStep, <1>1, PTL DEF Spec

(* The database never has a migration without its predecessors, although      *)
(* nothing keeps a server and a worker from migrating at the same time.       *)
THEOREM InOrderHolds == Spec => []InOrder
<1>1. MigrationInv => InOrder
  BY DEF MigrationInv
<1> QED BY MigrationInit, MigrationStep, <1>1, PTL DEF Spec

(* Every variable has its type, for any numbers of processes and migrations.  *)
THEOREM MigrationTypes == Spec => []TypeOK
<1>1. MigrationInv => TypeOK
  BY DEF MigrationInv
<1> QED BY MigrationInit, MigrationStep, <1>1, PTL DEF Spec
=============================================================================
