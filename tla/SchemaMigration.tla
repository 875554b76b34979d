-------------------------- MODULE SchemaMigration --------------------------
(***************************************************************************)
(* A deployment that changes the schema, and its rollback.                 *)
(*                                                                         *)
(*   internal/store/migrate.go              what a starting service does   *)
(*   deploy/lxc-deploy.sh                   swap, restart, check, rollback *)
(*   deploy/systemd/oddinvestd.service      Restart=on-failure             *)
(*                                                                         *)
(* The service copies the database before the first pending migration,     *)
(* applies the migrations one transaction each, and only then serves.  The *)
(* script waits for the new build to answer; when it does not, it brings   *)
(* the previous build back and, if a new copy has appeared, the database   *)
(* of that copy.  There are no down-migrations.                            *)
(*                                                                         *)
(* A schema is the number of migrations applied, the contents of the       *)
(* database are the set of changes users made.                             *)
(***************************************************************************)
EXTENDS Integers, FiniteSets, FiniteSetsExt, Functions

CONSTANTS
  LastMigration,  \* migrations are 1..LastMigration, in the order of names
  FirstSchema,    \* those applied when the story begins
  Keep,           \* migrateBackupKeep
  NoCopy,         \* "no such file"
  MaxDeploys,     \* bounds on what the environment does
  MaxWrites,
  MaxCrashes

Migrations == 1..LastMigration
Schemas == 0..LastMigration

\* A build knows the migrations up to a number; one of them may fail (0 for
\* none), and after them it may fail to come up.
Builds == [knows : Schemas, breaks : Schemas, sick : BOOLEAN]

ASSUME BoundsAssumption ==
  /\ {LastMigration, Keep, MaxDeploys, MaxWrites, MaxCrashes} \subseteq Nat
  /\ FirstSchema \in Schemas

ASSUME NoCopyAssumption ==
  NoCopy \notin [schema : Nat, data : SUBSET Nat, whole : BOOLEAN]

\* What is deployed here brings no more migrations than copies are kept; with
\* more, a deployment that starts again and again could prune its own first one.
ASSUME KeepAssumption == LastMigration - FirstSchema <= Keep

VARIABLES
  db,        \* the database: [schema, data]
  copies,    \* <db>.pre-<m> for each migration m: [schema, data, whole] or NoCopy
  bin,       \* the build at $BIN
  prev,      \* the build at $BIN.prev
  proc,      \* the service's process: where it is and the build it runs
  script,    \* where lxc-deploy.sh is
  preBefore, \* $pre_before: the copies there before the restart
  preNew,    \* $pre_new: the copy to restore, 0 for none
  held,      \* what users had entered before the new build took over
  excuses,   \* why this deployment cannot be undone
  writes, deploys, crashes  \* counters of the environment's moves

copyVars   == <<db, copies>>
scriptVars == <<bin, prev, script, preBefore, preNew, held>>
countVars  == <<writes, deploys, crashes>>
vars == <<copyVars, proc, scriptVars, excuses, countVars>>

First == [knows |-> FirstSchema, breaks |-> 0, sick |-> FALSE]

\* A copy under its final name need not be whole: before copyAtomic a service
\* that died while copying left half of one there.
OldCopies ==
  [m \in Migrations |->
     IF m <= FirstSchema THEN {[schema |-> m - 1, data |-> {}, whole |-> TRUE]}
     ELSE IF m = FirstSchema + 1
       THEN {NoCopy, [schema |-> FirstSchema, data |-> {}, whole |-> FALSE]}
       ELSE {NoCopy}]

Init ==
  /\ db = [schema |-> FirstSchema, data |-> {}]
  /\ copies \in {c \in [Migrations -> UNION Range(OldCopies)] :
                   \A m \in Migrations : c[m] \in OldCopies[m]}
  /\ bin = First /\ prev = First
  /\ proc = [at |-> "serve", build |-> First]
  /\ script = "idle" /\ preBefore = {} /\ preNew = 0 /\ held = {}
  /\ excuses = {}
  /\ writes = 0 /\ deploys = 0 /\ crashes = 0

Present == {m \in Migrations : copies[m] # NoCopy}

-----------------------------------------------------------------------------
(* The service.                                                            *)

\* [mutant] A database newer than the build is served all the same.
MigrateAnything ==
  /\ proc.at = "start"
  /\ proc' = [proc EXCEPT !.at =
       IF db.schema < proc.build.knows THEN "copy" ELSE "up"]
  /\ UNCHANGED <<copyVars, scriptVars, excuses, countVars>>

\* migrate: refuseNewerSchema, then pendingMigrations.
migrate ==
  /\ proc.at = "start"
  /\ \/ db.schema > proc.build.knows /\ proc' = [proc EXCEPT !.at = "down"]
     \/ db.schema < proc.build.knows /\ proc' = [proc EXCEPT !.at = "copy"]
     \/ db.schema = proc.build.knows /\ proc' = [proc EXCEPT !.at = "up"]
  /\ UNCHANGED <<copyVars, scriptVars, excuses, countVars>>

Pending == db.schema + 1

\* quickCheck.
Usable(m) == copies[m] # NoCopy /\ copies[m].whole

\* A good copy is never written again.
CopyIsThere ==
  /\ Usable(Pending)
  /\ UNCHANGED copies
  /\ excuses' = IF Pending \in preBefore THEN excuses \cup {"reused"} ELSE excuses

\* [mutant] The copy is named after the last pending migration.
CopyNamedAfterLast ==
  /\ ~Usable(Pending)
  /\ copies' = [copies EXCEPT ![proc.build.knows] =
                  [schema |-> db.schema, data |-> db.data, whole |-> TRUE]]
  /\ UNCHANGED excuses

\* prunePreMigrate: the last Keep names stay.
Pruned(names) ==
  {m \in names : Cardinality({n \in names : n > m}) >= Keep}

\* copyAtomic: VACUUM INTO a temporary file, quick_check, rename.
MakeCopy ==
  /\ ~Usable(Pending)
  /\ LET made == [copies EXCEPT ![Pending] =
                     [schema |-> db.schema, data |-> db.data, whole |-> TRUE]]
         gone == Pruned(Present \cup {Pending})
     IN  copies' = [m \in Migrations |-> IF m \in gone THEN NoCopy ELSE made[m]]
  /\ excuses' = IF Pending \in preBefore THEN excuses \cup {"reused"} ELSE excuses

snapshotBeforeMigrate ==
  /\ proc.at = "copy"
  /\ proc' = [proc EXCEPT !.at = "apply"]
  /\ CopyIsThere \/ MakeCopy
  /\ UNCHANGED <<db, scriptVars, countVars>>

\* The script has already looked for new copies.
Looked == script \in {"stop", "restore", "again"} /\ preNew = 0

\* One migration, one transaction.
applyMigration ==
  /\ proc.at = "apply" /\ Pending # proc.build.breaks
  /\ db' = [db EXCEPT !.schema = Pending]
  /\ proc' = [proc EXCEPT !.at = IF Pending = proc.build.knows THEN "up" ELSE "apply"]
  /\ excuses' = IF Looked THEN excuses \cup {"late"} ELSE excuses
  /\ UNCHANGED <<copies, scriptVars, countVars>>

MigrationFails ==
  /\ proc.at = "apply" /\ Pending = proc.build.breaks
  /\ proc' = [proc EXCEPT !.at = "down"]
  /\ UNCHANGED <<copyVars, scriptVars, excuses, countVars>>

\* The rest of main: the service listens, or fails to come up.
ComesUp ==
  /\ proc.at = "up"
  /\ proc' = [proc EXCEPT !.at = IF proc.build.sick THEN "down" ELSE "serve"]
  /\ UNCHANGED <<copyVars, scriptVars, excuses, countVars>>

\* A user's change, answered after its transaction.
Write ==
  /\ proc.at = "serve" /\ writes < MaxWrites
  /\ writes' = writes + 1
  /\ db' = [db EXCEPT !.data = @ \cup {writes + 1}]
  /\ held' = IF script = "restart" /\ proc.build # bin THEN db'.data ELSE held
  /\ UNCHANGED <<copies, proc, bin, prev, script, preBefore, preNew, excuses,
                 deploys, crashes>>

\* The disk is full, the container restarts, the process is killed.
Crash ==
  /\ proc.at \notin {"stopped", "down"} /\ crashes < MaxCrashes
  /\ crashes' = crashes + 1
  /\ proc' = [proc EXCEPT !.at = "down"]
  /\ UNCHANGED <<copyVars, scriptVars, excuses, writes, deploys>>

\* Restart=on-failure: five seconds later, with the build that is there then.
Respawn ==
  /\ proc.at = "down"
  /\ proc' = [at |-> "start", build |-> bin]
  /\ UNCHANGED <<copyVars, scriptVars, excuses, countVars>>

-----------------------------------------------------------------------------
(* lxc-deploy.sh.                                                          *)

\* The branch moves forward: a release knows what earlier releases knew.
Build ==
  /\ script = "idle" /\ deploys < MaxDeploys
  /\ deploys' = deploys + 1
  /\ \E b \in Builds :
       /\ b.knows >= db.schema /\ b.knows >= bin.knows /\ b.knows >= prev.knows
       /\ b.breaks <= b.knows
       /\ prev' = bin
       /\ bin' = b
  /\ preBefore' = Present
  /\ preNew' = 0
  /\ held' = db.data
  /\ excuses' = IF db.schema > bin.knows THEN {"newer"} ELSE {}
  /\ script' = "restart"
  /\ UNCHANGED <<copyVars, proc, writes, crashes>>

\* systemctl restart: the running process ends first.
Restart ==
  /\ script = "restart"
  /\ proc' = [at |-> "start", build |-> bin]
  /\ script' = "check"
  /\ UNCHANGED <<copyVars, bin, prev, preBefore, preNew, held, excuses, countVars>>

Healthy == proc.at = "serve" /\ proc.build = bin

healthy_new ==
  /\ script = "check" /\ Healthy
  /\ script' = "idle"
  /\ UNCHANGED <<copyVars, proc, bin, prev, preBefore, preNew, held, excuses,
                 countVars>>

\* Fifteen seconds have passed: the previous build is put back.
Unhealthy ==
  /\ script = "check" /\ ~Healthy
  /\ bin' = prev
  /\ script' = "look"
  /\ UNCHANGED <<copyVars, proc, prev, preBefore, preNew, held, excuses, countVars>>

\* [mutant] Any copy will do, not only one that this deployment made.
LookForAnyCopy ==
  /\ script = "look"
  /\ preNew' = IF Present = {} THEN 0 ELSE Min(Present)
  /\ script' = IF Present = {} THEN "again" ELSE "stop"
  /\ UNCHANGED <<copyVars, proc, bin, prev, preBefore, held, excuses, countVars>>

\* [mutant] The last of them is restored.
LookForLastCopy ==
  /\ script = "look"
  /\ LET new == Present \ preBefore IN
       /\ preNew' = IF new = {} THEN 0 ELSE Max(new)
       /\ script' = IF new = {} THEN "again" ELSE "stop"
  /\ UNCHANGED <<copyVars, proc, bin, prev, preBefore, held, excuses, countVars>>

\* $pre_new: the first of the copies that were not there before.
Look ==
  /\ script = "look"
  /\ LET new == Present \ preBefore IN
       /\ preNew' = IF new = {} THEN 0 ELSE Min(new)
       /\ script' = IF new = {} THEN "again" ELSE "stop"
  /\ UNCHANGED <<copyVars, proc, bin, prev, preBefore, held, excuses, countVars>>

StopService ==
  /\ script = "stop"
  /\ proc' = [proc EXCEPT !.at = "stopped"]
  /\ script' = "restore"
  /\ UNCHANGED <<copyVars, bin, prev, preBefore, preNew, held, excuses, countVars>>

\* The database is set aside, the copy takes its place.
Restore ==
  /\ script = "restore"
  /\ db' = [schema |-> copies[preNew].schema, data |-> copies[preNew].data]
  /\ script' = "again"
  /\ UNCHANGED <<copies, proc, bin, prev, preBefore, preNew, held, excuses,
                 countVars>>

\* [mutant] The service is left stopped after its database came back.
LeaveStopped ==
  /\ script = "again"
  /\ proc' = IF preNew # 0 THEN proc ELSE [at |-> "start", build |-> bin]
  /\ script' = "idle"
  /\ UNCHANGED <<copyVars, bin, prev, preBefore, preNew, held, excuses, countVars>>

\* The previous build is started; whatever it says, the script ends.
RestartPrevious ==
  /\ script = "again"
  /\ proc' = [at |-> "start", build |-> bin]
  /\ script' = "idle"
  /\ UNCHANGED <<copyVars, bin, prev, preBefore, preNew, held, excuses, countVars>>

-----------------------------------------------------------------------------
Service ==
  \/ migrate \/ snapshotBeforeMigrate \/ applyMigration \/ MigrationFails
  \/ ComesUp \/ Respawn

Deploy ==
  \/ Restart \/ healthy_new \/ Unhealthy
  \/ Look \/ StopService \/ Restore \/ RestartPrevious

Next == Service \/ Write \/ Crash \/ Build \/ Deploy

\* The service starts and is started again, and the script runs to its end.
Fairness == WF_vars(Service) /\ WF_vars(Deploy)

Spec == Init /\ [][Next]_vars
FairSpec == Spec /\ Fairness

-----------------------------------------------------------------------------
(* Properties.                                                             *)

Copies == [schema : Schemas, data : SUBSET (1..writes), whole : BOOLEAN]

(* The type invariant; in particular a whole copy named after a migration  *)
(* is a database to which that migration has not been applied (the name is *)
(* the first pending one).                                                 *)
TypeOK ==
  /\ db \in [schema : Schemas, data : SUBSET (1..writes)]
  /\ copies \in [Migrations -> Copies \cup {NoCopy}]
  /\ \A m \in Present : copies[m].whole => copies[m].schema = m - 1
  /\ {bin, prev} \subseteq Builds
  /\ proc \in [at : {"start", "copy", "apply", "up", "serve", "down", "stopped"},
               build : Builds]
  /\ script \in {"idle", "restart", "check", "look", "stop", "restore", "again"}
  /\ preBefore \subseteq Migrations
  /\ preNew \in Schemas
  /\ held \subseteq 1..writes /\ writes \in Nat

(* No build ever serves users over a schema other than its own, whatever   *)
(* crashes, half-applied migrations and rollbacks lie behind               *)
(* (refuseNewerSchema: "to work somehow over a foreign schema means to     *)
(* spoil data in silence").                                                *)
ServesItsOwnSchema == proc.at = "serve" => db.schema = proc.build.knows

(* A rollback restores a whole copy, and loses nothing users entered before *)
(* the new build took over.                                                 *)
RollbackKeepsOldChanges ==
  [][script = "restore" /\ script' = "again" =>
       copies[preNew].whole /\ held \subseteq db'.data]_vars

(* When the script has ended without success, the previous build finds a   *)
(* database it can serve.  Exceptions: it could not serve it before, the   *)
(* copy was there before this deployment, or the migration ended after the *)
(* script had looked for copies.                                           *)
RolledBack == script = "idle" /\ deploys > 0 /\ bin = prev

PreviousCanServe == RolledBack /\ excuses = {} => db.schema <= bin.knows

(* Once deployments and crashes cease, the service answers, or it refuses  *)
(* a database newer than itself.                                           *)
ServiceComesBack ==
  <>[](script = "idle" /\ (proc.at = "serve" \/ db.schema > bin.knows))

(* What makes the last properties inductive.  Where the process stands     *)
(* agrees with the schema; no build is deployed over a schema older than   *)
(* that of its predecessor; each copy this deployment made holds what      *)
(* users had entered; and, without an excuse, the first of those copies is *)
(* the one of the predecessor's schema.                                    *)
New == Present \ preBefore

Undoing == {"look", "stop", "restore", "again"}
Undoable == {"restart", "check", "look", "stop", "restore"}

AtWork ==
  /\ proc.at \in {"copy", "apply"} => db.schema < proc.build.knows
  /\ proc.at \in {"up", "serve"} => db.schema = proc.build.knows
  /\ script = "restore" => proc.at = "stopped"
  /\ script = "again" /\ preNew # 0 => proc.at = "stopped"

InTurn ==
  /\ FirstSchema <= prev.knows /\ prev.knows <= bin.knows
  /\ prev.knows <= db.schema
  /\ script = "idle" => proc.build = bin /\ bin.knows <= db.schema
  /\ script = "restart" /\ proc.build # bin => proc.build = prev /\ New = {}
  /\ script \in Undoing => bin = prev

CopiesHold ==
  script \in Undoable =>
    /\ held \subseteq db.data
    /\ \A m \in New : /\ copies[m].whole /\ held \subseteq copies[m].data
                     /\ prev.knows <= copies[m].schema
    /\ script \in {"stop", "restore"} => preNew \in New

FirstOfThem ==
  excuses = {} =>
    /\ script \in Undoable =>
         /\ New # {} => prev.knows + 1 \in New
         /\ db.schema > prev.knows \/ proc.at = "apply" => New # {}
         /\ script \in {"stop", "restore"} => preNew = prev.knows + 1
    /\ script \in {"again", "idle"} => db.schema <= bin.knows

RollbackInv == AtWork /\ InTurn /\ CopiesHold /\ FirstOfThem

(* The comment of snapshotBeforeMigrate: taking an existing copy is safe,  *)
(* "the version in the name is the first one NOT applied, that is, the     *)
(* database is still in the state before it": so the copy a start relies   *)
(* on holds all that the database holds.                                   *)
CopyHoldsEverything ==
  [][proc.at = "copy" /\ proc'.at = "apply" => copies'[Pending].data = db.data]_vars
=============================================================================
