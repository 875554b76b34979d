----------------------- MODULE SchemaMigrationProofs -----------------------
(***************************************************************************)
(* Proofs about SchemaMigration, for any number of migrations, deployments *)
(* of any builds, users' changes and crashes.                              *)
(***************************************************************************)
EXTENDS SchemaMigration, FiniteSetTheorems, TLAPS

USE DEF copyVars, scriptVars, countVars

-----------------------------------------------------------------------------
(* Helpers.                                                                *)

LEMMA Numbers ==
  /\ LastMigration \in Nat /\ Keep \in Nat
  /\ FirstSchema \in Schemas
  /\ Schemas \subseteq Nat /\ Migrations \subseteq Schemas
BY BoundsAssumption DEF Schemas, Migrations

(* A set of numbers that is not empty has a smallest element: below which  *)
(* the part of the set is smallest too, and finite sets shrink no further  *)
(* than to the empty one.                                                  *)
LEMMA MinIsInTheSet ==
  ASSUME NEW S \in SUBSET Nat, S # {}
  PROVE  Min(S) \in S /\ \A y \in S : Min(S) <= y
<1> DEFINE UpTo(x) == S \cap (0..x)
           T == {UpTo(x) : x \in S}
<1>1. ASSUME NEW x \in S
      PROVE  UpTo(x) \in FiniteSubsetsOf(Nat)
  <2>1. IsFiniteSet(0..x)
    BY FS_Interval
  <2> QED
    BY <2>1, FS_Subset DEF FiniteSubsetsOf
<1>2. T \subseteq FiniteSubsetsOf(Nat) /\ T # {}
  BY <1>1
<1>3. PICK t \in T : \A u \in T : <<u, t>> \notin StrictSubsetOrdering(Nat)
  <2> HIDE DEF T
  <2> QED
    BY <1>2, WFMin, FS_StrictSubsetOrderingWellFounded
<1>4. PICK x \in S : t = UpTo(x)
  OBVIOUS
<1>5. ASSUME NEW y \in S, y < x
      PROVE  FALSE
  <2>1. UpTo(y) \subseteq UpTo(x) /\ x \in UpTo(x) /\ x \notin UpTo(y)
    BY <1>5
  <2>2. UpTo(y) \in SUBSET Nat /\ UpTo(x) \in SUBSET Nat /\ UpTo(y) \in T
    OBVIOUS
  <2> QED
    BY ONLY <2>1, <2>2, <1>3, <1>4 DEF StrictSubsetOrdering
<1>6. x \in S /\ \A y \in S : x <= y
  BY <1>5
<1> QED
  BY ONLY <1>6 DEF Min

(* prunePreMigrate keeps every copy of a migration that was not applied    *)
(* when the story began: there are at most Keep of those.                  *)
LEMMA NeverPruned ==
  ASSUME NEW names \in SUBSET Migrations, NEW m \in names, m > FirstSchema
  PROVE  m \notin Pruned(names)
<1> DEFINE later == {n \in names : n > m}
<1>0. /\ m \in Nat /\ m <= LastMigration /\ LastMigration \in Nat /\ Keep \in Nat
      /\ FirstSchema \in Nat /\ LastMigration - FirstSchema <= Keep
  BY Numbers, KeepAssumption DEF Migrations, Schemas
<1>1. /\ IsFiniteSet((m + 1)..LastMigration)
      /\ Cardinality((m + 1)..LastMigration) = LastMigration - m
  <2>1. m + 1 \in Int /\ LastMigration \in Int
    BY <1>0
  <2>2. /\ IsFiniteSet((m + 1)..LastMigration)
        /\ Cardinality((m + 1)..LastMigration)
             = IF m + 1 > LastMigration THEN 0 ELSE LastMigration - (m + 1) + 1
    BY <2>1, FS_Interval
  <2> QED
    BY ONLY <1>0, <2>2
<1>2. later \in SUBSET ((m + 1)..LastMigration)
  <2>1. \A n \in later : n \in 1..LastMigration /\ n > m
    BY DEF Migrations
  <2>2. \A n \in later : n \in (m + 1)..LastMigration
    <3> HIDE DEF later
    <3> QED
      BY <1>0, <2>1
  <2> QED
    BY <2>2
<1>3. /\ Cardinality(later) <= Cardinality((m + 1)..LastMigration)
      /\ Cardinality(later) \in Nat
  <2> HIDE DEF later
  <2> QED
    BY <1>1, <1>2, FS_Subset, FS_CardinalityType
<1>4. ~(Cardinality(later) >= Keep)
  <2> HIDE DEF later
  <2> QED
    BY ONLY <1>0, <1>1, <1>3, m > FirstSchema
<1> QED
  BY <1>4 DEF Pruned

-----------------------------------------------------------------------------
(* The inductive invariant.                                                *)

IInv == TypeOK /\ RollbackInv

(* What making the copy of the next migration leaves of the copies: that   *)
(* one is new and whole, and those a rollback may need stay as they are.   *)
LEMMA MakeCopyEffect ==
  ASSUME TypeOK, FirstSchema <= db.schema, Pending \in Migrations, MakeCopy
  PROVE  /\ copies' \in [Migrations -> Copies \cup {NoCopy}]
         /\ copies'[Pending] = [schema |-> db.schema, data |-> db.data,
                                whole |-> TRUE]
         /\ copies'[Pending] # NoCopy
         /\ \A m \in Migrations : m # Pending =>
              /\ copies'[m] \in {copies[m], NoCopy}
              /\ m > FirstSchema => copies'[m] = copies[m]
<1> DEFINE fresh == [schema |-> db.schema, data |-> db.data, whole |-> TRUE]
           gone == Pruned(Present \cup {Pending})
<1>1. /\ db.schema \in Schemas /\ db.data \in SUBSET (1..writes)
      /\ writes \in Nat
  BY DEF TypeOK
<1>2. fresh \in Copies
  BY <1>1 DEF Copies
<1>3. fresh # NoCopy
  <2>1. db.schema \in Nat /\ db.data \in SUBSET Nat
    BY <1>1, Numbers
  <2>2. fresh \in [schema : Nat, data : SUBSET Nat, whole : BOOLEAN]
    BY <2>1
  <2> QED
    BY <2>2, NoCopyAssumption
<1>4. \A m \in Migrations : m > FirstSchema => m \notin gone
  <2>1. Present \cup {Pending} \in SUBSET Migrations
    BY DEF Present
  <2>2. gone \subseteq Present \cup {Pending}
    BY DEF Pruned
  <2> QED
    BY <2>1, <2>2, NeverPruned
<1>5. Pending > FirstSchema
  BY <1>1, Numbers DEF Pending, Schemas
<1>6. copies' = [m \in Migrations |->
                   IF m \in gone THEN NoCopy
                   ELSE [copies EXCEPT ![Pending] = fresh][m]]
  BY DEF MakeCopy
<1>7. copies \in [Migrations -> Copies \cup {NoCopy}]
  BY DEF TypeOK
<1> HIDE DEF fresh, gone
<1>8. /\ copies'[Pending] = fresh
      /\ \A m \in Migrations : m # Pending =>
           copies'[m] = IF m \in gone THEN NoCopy ELSE copies[m]
  BY <1>4, <1>5, <1>6, <1>7
<1>9. copies' \in [Migrations -> Copies \cup {NoCopy}]
  BY <1>2, <1>6, <1>7
<1> QED
  BY <1>3, <1>4, <1>8, <1>9 DEF fresh

-----------------------------------------------------------------------------
(* The invariant holds at first.                                           *)

LEMMA InitIInv == Init => IInv
<1> SUFFICES ASSUME Init
             PROVE  IInv
  OBVIOUS
<1>1. /\ First \in Builds /\ First.knows = FirstSchema
      /\ FirstSchema \in Nat
  BY Numbers DEF First, Builds, Schemas
<1>2. \A m \in Migrations :
        /\ copies[m] \in Copies \cup {NoCopy}
        /\ m > FirstSchema => copies[m] = NoCopy \/ ~copies[m].whole
        /\ copies[m] # NoCopy => copies[m].schema = m - 1
  <2> TAKE m \in Migrations
  <2>1. /\ m - 1 \in Schemas /\ m \in Nat /\ m >= 1
        /\ m = FirstSchema + 1 => m - 1 = FirstSchema
    BY <1>1, Numbers DEF Migrations, Schemas
  <2>2. copies[m] \in OldCopies[m]
    BY DEF Init
  <2>3. {} \in SUBSET (1..writes)
    OBVIOUS
  <2>4. /\ [schema |-> m - 1, data |-> {}, whole |-> TRUE] \in Copies
        /\ [schema |-> FirstSchema, data |-> {}, whole |-> FALSE] \in Copies
    BY <2>1, <2>3, Numbers DEF Copies
  <2>5. CASE m <= FirstSchema
    <3>1. copies[m] = [schema |-> m - 1, data |-> {}, whole |-> TRUE]
      BY <2>2, <2>5 DEF OldCopies
    <3> QED
      BY <3>1, <2>1, <2>4, <2>5, <1>1
  <2>6. CASE m = FirstSchema + 1
    <3>1. ~(m <= FirstSchema)
      BY <2>6, <1>1
    <3>2. copies[m] \in
            {NoCopy, [schema |-> FirstSchema, data |-> {}, whole |-> FALSE]}
      BY <2>2, <2>6, <3>1, Zenon DEF OldCopies
    <3> QED
      BY <3>2, <2>1, <2>4, <2>6
  <2>7. CASE ~(m <= FirstSchema) /\ m # FirstSchema + 1
    <3>1. copies[m] = NoCopy
      BY <2>2, <2>7 DEF OldCopies
    <3> QED
      BY <3>1
  <2> QED
    BY <2>5, <2>6, <2>7
<1>3. TypeOK
  <2>1. copies \in [Migrations -> UNION Range(OldCopies)]
    BY DEF Init
  <2>2. copies \in [Migrations -> Copies \cup {NoCopy}]
    BY <2>1, <1>2
  <2>3. writes = 0 /\ db = [schema |-> FirstSchema, data |-> {}]
    BY DEF Init
  <2> QED
    BY <1>1, <1>2, <2>2, <2>3, Numbers DEF Init, TypeOK, Present, Schemas
<1>4. RollbackInv
  <2>1. AtWork
    BY <1>1 DEF Init, AtWork
  <2>2. InTurn
    BY <1>1 DEF Init, InTurn, Undoing
  <2>3. CopiesHold
    BY DEF Init, CopiesHold, Undoable
  <2>4. FirstOfThem
    BY <1>1 DEF Init, FirstOfThem, Undoable
  <2> QED
    BY <2>1, <2>2, <2>3, <2>4 DEF RollbackInv
<1> QED
  BY <1>3, <1>4 DEF IInv

-----------------------------------------------------------------------------
(* What the invariant says of a process about to copy, and of the copies   *)
(* this deployment made.                                                   *)

LEMMA Typed ==
  ASSUME TypeOK
  PROVE  /\ db.schema \in Schemas /\ db.schema \in Nat
         /\ db.data \in SUBSET (1..writes)
         /\ bin \in Builds /\ prev \in Builds /\ proc.build \in Builds
         /\ bin.knows \in Nat /\ prev.knows \in Nat /\ proc.build.knows \in Nat
         /\ proc.build.knows <= LastMigration
         /\ Pending \in Nat
BY Numbers DEF TypeOK, Builds, Schemas, Pending

LEMMA PendingIsAMigration ==
  ASSUME IInv, proc.at \in {"copy", "apply"}
  PROVE  /\ Pending \in Migrations /\ FirstSchema <= db.schema
         /\ Pending <= proc.build.knows
<1>1. TypeOK /\ AtWork /\ InTurn
  BY DEF IInv, RollbackInv
<1>2. FirstSchema <= prev.knows /\ prev.knows <= db.schema
  BY <1>1 DEF InTurn
<1>3. db.schema < proc.build.knows
  BY <1>1 DEF AtWork
<1> QED
  BY <1>1, <1>2, <1>3, Typed, Numbers DEF Pending, Migrations, Schemas

LEMMA NewCopies ==
  ASSUME IInv, script \in Undoable, NEW m \in New
  PROVE  /\ m \in Migrations /\ copies[m] # NoCopy
         /\ copies[m] \in Copies /\ copies[m].whole
         /\ held \subseteq copies[m].data
         /\ copies[m].schema = m - 1 /\ prev.knows <= m - 1 /\ FirstSchema < m
<1>1. TypeOK /\ InTurn /\ CopiesHold
  BY DEF IInv, RollbackInv
<1>2. m \in Migrations /\ m \in Present /\ copies[m] # NoCopy
  BY DEF New, Present
<1>3. copies[m] \in Copies
  BY <1>1, <1>2 DEF TypeOK
<1>4. /\ copies[m].whole /\ held \subseteq copies[m].data
      /\ prev.knows <= copies[m].schema
  BY <1>1 DEF CopiesHold
<1>5. copies[m].schema = m - 1
  BY <1>1, <1>2, <1>4 DEF TypeOK
<1>6. FirstSchema <= prev.knows
  BY <1>1 DEF InTurn
<1> QED
  BY <1>1, <1>2, <1>3, <1>4, <1>5, <1>6, Typed, Numbers DEF Migrations

(* A copy of the next migration is there or is made: those a rollback may  *)
(* need stay as they are, the one of the next migration holds the database *)
(* unless it had been there.                                               *)
LEMMA SnapshotEffect ==
  ASSUME IInv, snapshotBeforeMigrate
  PROVE  /\ copies' \in [Migrations -> Copies \cup {NoCopy}]
         /\ Pending \in Migrations /\ copies'[Pending] # NoCopy
         /\ copies'[Pending].whole /\ copies'[Pending].schema = db.schema
         /\ \/ copies'[Pending] = copies[Pending]
            \/ copies'[Pending].data = db.data
         /\ \A m \in Migrations : m # Pending =>
              /\ copies'[m] \in {copies[m], NoCopy}
              /\ m > FirstSchema => copies'[m] = copies[m]
         /\ excuses' = IF Pending \in preBefore THEN excuses \cup {"reused"}
                                                ELSE excuses
<1>1. TypeOK
  BY DEF IInv
<1>2. /\ Pending \in Migrations /\ FirstSchema <= db.schema
  BY PendingIsAMigration DEF snapshotBeforeMigrate
<1>3. CASE CopyIsThere
  <2>1. copies' = copies /\ copies[Pending] # NoCopy /\ copies[Pending].whole
    BY <1>3 DEF CopyIsThere, Usable
  <2>2. copies[Pending].schema = Pending - 1
    BY <1>1, <1>2, <2>1 DEF TypeOK, Present
  <2>3. Pending - 1 = db.schema
    BY <1>1, Typed DEF Pending
  <2> QED
    BY <1>1, <1>2, <1>3, <2>1, <2>2, <2>3 DEF TypeOK, CopyIsThere
<1>4. CASE MakeCopy
  <2>1. excuses' = IF Pending \in preBefore THEN excuses \cup {"reused"}
                                            ELSE excuses
    BY <1>4 DEF MakeCopy
  <2> QED
    BY <1>1, <1>2, <1>4, <2>1, MakeCopyEffect
<1> QED
  BY <1>3, <1>4 DEF snapshotBeforeMigrate

-----------------------------------------------------------------------------
(* Every step keeps the types.                                             *)

LEMMA NextTypeOK == IInv /\ [Next]_vars => TypeOK'
<1> SUFFICES ASSUME IInv, [Next]_vars
             PROVE  TypeOK'
  OBVIOUS
<1>0. TypeOK /\ AtWork /\ InTurn /\ CopiesHold
  BY DEF IInv, RollbackInv
<1>1. CASE migrate \/ MigrationFails \/ ComesUp \/ Respawn \/ Crash
  BY <1>0, <1>1
  DEF TypeOK, migrate, MigrationFails, ComesUp, Respawn, Crash, Present, Copies
<1>2. CASE snapshotBeforeMigrate
  <2>1. /\ copies' \in [Migrations -> Copies \cup {NoCopy}]
        /\ Pending \in Migrations /\ copies'[Pending].schema = db.schema
        /\ \A m \in Migrations : m # Pending => copies'[m] \in {copies[m], NoCopy}
    BY <1>2, SnapshotEffect
  <2>2. \A m \in Present' : copies'[m].whole => copies'[m].schema = m - 1
    <3> SUFFICES ASSUME NEW m \in Migrations, copies'[m] # NoCopy,
                        copies'[m].whole
                 PROVE  copies'[m].schema = m - 1
      BY DEF Present
    <3>1. CASE m = Pending
      BY <1>0, <2>1, <3>1, Typed DEF Pending
    <3>2. CASE m # Pending
      BY <1>0, <2>1, <3>2 DEF TypeOK, Present
    <3> QED
      BY <3>1, <3>2
  <2> QED
    BY <1>0, <1>2, <2>1, <2>2 DEF TypeOK, snapshotBeforeMigrate, Copies
<1>3. CASE applyMigration
  <2>1. Pending \in Schemas
    BY <1>0, <1>3, PendingIsAMigration, Numbers DEF applyMigration
  <2> QED
    BY <1>0, <1>3, <2>1 DEF TypeOK, applyMigration, Present, Copies
<1>4. CASE Write
  <2>1. /\ writes' \in Nat /\ 1..writes \subseteq 1..writes'
        /\ writes' \in 1..writes'
    BY <1>0, <1>4 DEF TypeOK, Write
  <2>2. Copies \subseteq Copies'
    BY <2>1 DEF Copies
  <2>3. db' \in [schema : Schemas, data : SUBSET (1..writes')]
    BY <1>0, <1>4, <2>1 DEF TypeOK, Write
  <2>4. held' \subseteq 1..writes'
    BY <1>0, <1>4, <2>1, <2>3 DEF TypeOK, Write
  <2>5. copies' \in [Migrations -> Copies' \cup {NoCopy}]
    BY <1>0, <1>4, <2>2 DEF TypeOK, Write
  <2> QED
    BY <1>0, <1>4, <2>1, <2>3, <2>4, <2>5 DEF TypeOK, Write, Present
<1>5. CASE Build
  <2>1. /\ bin' \in Builds /\ prev' = bin /\ script' = "restart"
        /\ preBefore' = Present /\ preNew' = 0 /\ held' = db.data
        /\ UNCHANGED <<db, copies, proc, writes>>
    BY <1>5 DEF Build
  <2> QED
    BY <1>0, <2>1, Numbers DEF TypeOK, Present, Copies, Schemas
<1>6. CASE Restart \/ healthy_new \/ Unhealthy \/ StopService \/ RestartPrevious
  BY <1>0, <1>6
  DEF TypeOK, Restart, healthy_new, Unhealthy, StopService, RestartPrevious,
      Present, Copies
<1>7. CASE Look
  <2>1. preNew' \in Schemas /\ script' \in {"again", "stop"}
    <3>1. New \subseteq Migrations /\ New \in SUBSET Nat
      BY Numbers DEF New, Present
    <3>2. New # {} => Min(New) \in New
      BY <3>1, MinIsInTheSet
    <3>3. 0 \in Schemas
      BY Numbers DEF Schemas
    <3> QED
      BY <1>7, <3>1, <3>2, <3>3, Numbers DEF Look, New
  <2> QED
    BY <1>0, <1>7, <2>1 DEF TypeOK, Look, Present, Copies
<1>8. CASE Restore
  <2>1. preNew \in New /\ script \in Undoable
    BY <1>0, <1>8 DEF CopiesHold, Restore, Undoable
  <2>2. copies[preNew] \in Copies
    BY <2>1, NewCopies
  <2>3. db' \in [schema : Schemas, data : SUBSET (1..writes)]
    BY <1>8, <2>2 DEF Restore, Copies
  <2> QED
    BY <1>0, <1>8, <2>3 DEF TypeOK, Restore, Present, Copies
<1>9. CASE UNCHANGED vars
  BY <1>0, <1>9 DEF TypeOK, vars, Present, Copies
<1> QED
  BY <1>1, <1>2, <1>3, <1>4, <1>5, <1>6, <1>7, <1>8, <1>9
  DEF Next, Service, Deploy

-----------------------------------------------------------------------------
(* The process stands where the schema says.                               *)

LEMMA NextAtWork == IInv /\ [Next]_vars => AtWork'
<1> SUFFICES ASSUME IInv, [Next]_vars
             PROVE  AtWork'
  OBVIOUS
<1>0. TypeOK /\ AtWork
  BY DEF IInv, RollbackInv
<1>0a. /\ db.schema \in Nat /\ proc.build.knows \in Nat
       /\ proc \in [at : {"start", "copy", "apply", "up", "serve", "down",
                          "stopped"},
                    build : Builds]
  BY <1>0, Typed DEF TypeOK
<1> USE DEF AtWork
<1>1. CASE migrate \/ snapshotBeforeMigrate \/ MigrationFails
  BY <1>0, <1>0a, <1>1 DEF migrate, snapshotBeforeMigrate, MigrationFails
<1>2. CASE applyMigration
  BY <1>0, <1>0a, <1>2, PendingIsAMigration DEF applyMigration, Pending, TypeOK
<1>3. CASE ComesUp \/ Respawn \/ Crash
  BY <1>0, <1>0a, <1>3 DEF ComesUp, Respawn, Crash
<1>4. CASE Write
  BY <1>0, <1>4 DEF Write, TypeOK
<1>5. CASE Build
  BY <1>0, <1>5 DEF Build
<1>6. CASE Restart \/ healthy_new \/ Unhealthy
  BY <1>0, <1>6 DEF Restart, healthy_new, Unhealthy
<1>7. CASE Look
  BY <1>0, <1>7 DEF Look
<1>8. CASE StopService \/ Restore \/ RestartPrevious
  BY <1>0, <1>0a, <1>8 DEF StopService, Restore, RestartPrevious
<1>9. CASE UNCHANGED vars
  BY <1>0, <1>9 DEF vars
<1> QED
  BY <1>1, <1>2, <1>3, <1>4, <1>5, <1>6, <1>7, <1>8, <1>9
  DEF Next, Service, Deploy

-----------------------------------------------------------------------------
(* No build is deployed over a schema older than that of the one before.   *)

LEMMA NextInTurn == IInv /\ [Next]_vars => InTurn'
<1> SUFFICES ASSUME IInv, [Next]_vars
             PROVE  InTurn'
  OBVIOUS
<1>0. TypeOK /\ AtWork /\ InTurn /\ CopiesHold
  BY DEF IInv, RollbackInv
<1>0a. /\ db.schema \in Nat /\ FirstSchema \in Nat
       /\ bin.knows \in Nat /\ prev.knows \in Nat /\ proc.build.knows \in Nat
       /\ proc \in [at : {"start", "copy", "apply", "up", "serve", "down",
                          "stopped"},
                    build : Builds]
  BY <1>0, Typed, Numbers DEF TypeOK, Schemas
<1> USE DEF InTurn, Undoing
<1>1. CASE migrate \/ MigrationFails \/ ComesUp \/ Crash
  BY <1>0, <1>0a, <1>1
  DEF migrate, MigrationFails, ComesUp, Crash, New, Present
<1>2. CASE snapshotBeforeMigrate
  <2>1. ~(script = "restart" /\ proc.build # bin)
    BY <1>0, <1>0a, <1>2 DEF snapshotBeforeMigrate, AtWork
  <2> QED
    BY <1>0, <1>0a, <1>2, <2>1 DEF snapshotBeforeMigrate
<1>3. CASE applyMigration
  <2>1. db'.schema = db.schema + 1 /\ proc'.build = proc.build
    BY <1>0, <1>0a, <1>3 DEF applyMigration, Pending, TypeOK
  <2> QED
    BY <1>0, <1>0a, <1>3, <2>1 DEF applyMigration, New, Present
<1>4. CASE Respawn
  BY <1>0, <1>0a, <1>4 DEF Respawn, New, Present
<1>5. CASE Write
  BY <1>0, <1>0a, <1>5 DEF Write, TypeOK, New, Present
<1>6. CASE Build
  <2>1. /\ bin'.knows >= bin.knows /\ prev' = bin /\ script' = "restart"
        /\ preBefore' = Present /\ UNCHANGED <<db, copies, proc>>
        /\ script = "idle" /\ bin' \in Builds
    BY <1>6 DEF Build
  <2>2. bin'.knows \in Nat
    BY <2>1, Numbers DEF Builds
  <2>3. New' = {}
    BY <2>1 DEF New, Present
  <2> QED
    BY <1>0, <1>0a, <2>1, <2>2, <2>3
<1>7. CASE Restart \/ Unhealthy \/ Look \/ StopService \/ RestartPrevious
  BY <1>0, <1>0a, <1>7
  DEF Restart, Unhealthy, Look, StopService, RestartPrevious
<1>8. CASE healthy_new
  BY <1>0, <1>0a, <1>8 DEF healthy_new, Healthy, AtWork
<1>9. CASE Restore
  <2>1. prev.knows <= db'.schema
    <3>1. preNew \in New /\ script \in Undoable
      BY <1>0, <1>9 DEF CopiesHold, Restore, Undoable
    <3>2. prev.knows <= copies[preNew].schema
      BY <3>1, NewCopies
    <3> QED
      BY <1>9, <3>2 DEF Restore
  <2> QED
    BY <1>0, <1>0a, <1>9, <2>1 DEF Restore
<1>10. CASE UNCHANGED vars
  BY <1>0, <1>10 DEF vars, New, Present
<1> QED
  BY <1>1, <1>2, <1>3, <1>4, <1>5, <1>6, <1>7, <1>8, <1>9, <1>10
  DEF Next, Service, Deploy

-----------------------------------------------------------------------------
(* Each copy this deployment made holds what users had entered before it.  *)

(* Making a copy adds at most the one of the next migration, and takes     *)
(* none of the others away.                                                *)
LEMMA SnapshotKeepsNewCopies ==
  ASSUME IInv, snapshotBeforeMigrate, script \in Undoable
  PROVE  /\ New \subseteq New' /\ New' \subseteq New \cup {Pending}
         /\ \A m \in New : m # Pending => copies'[m] = copies[m]
         /\ Pending \notin preBefore => Pending \in New'
<1>1. preBefore' = preBefore
  BY DEF snapshotBeforeMigrate
<1>2. /\ copies'[Pending] # NoCopy /\ Pending \in Migrations
      /\ \A m \in Migrations : m # Pending =>
           /\ copies'[m] \in {copies[m], NoCopy}
           /\ m > FirstSchema => copies'[m] = copies[m]
  BY SnapshotEffect
<1>3. \A m \in New : m \in Migrations /\ copies[m] # NoCopy /\ FirstSchema < m
  BY NewCopies
<1>4. \A m \in New : FirstSchema < m => m > FirstSchema
  BY <1>3, Numbers
<1> QED
  BY <1>1, <1>2, <1>3, <1>4 DEF New, Present

LEMMA NextCopiesHold == IInv /\ [Next]_vars => CopiesHold'
<1> SUFFICES ASSUME IInv, [Next]_vars, (script \in Undoable)'
             PROVE  /\ held' \subseteq db'.data
                    /\ \A m \in New' : /\ copies'[m].whole
                                       /\ held' \subseteq copies'[m].data
                                       /\ prev'.knows <= copies'[m].schema
                    /\ script' \in {"stop", "restore"} => preNew' \in New'
  BY DEF CopiesHold
<1>0. TypeOK /\ AtWork /\ InTurn /\ CopiesHold
  BY DEF IInv, RollbackInv
<1>0a. /\ db \in [schema : Schemas, data : SUBSET (1..writes)]
       /\ db.schema \in Nat
       /\ bin.knows \in Nat /\ prev.knows \in Nat /\ proc.build.knows \in Nat
  BY <1>0, Typed DEF TypeOK
<1>0b. script \in Undoable =>
         /\ held \subseteq db.data
         /\ \A m \in New : /\ copies[m].whole /\ held \subseteq copies[m].data
                          /\ prev.knows <= copies[m].schema
         /\ script \in {"stop", "restore"} => preNew \in New
  BY <1>0 DEF CopiesHold
<1> USE DEF Undoable
<1>1. CASE migrate \/ MigrationFails \/ ComesUp \/ Respawn \/ Crash
  BY <1>0b, <1>1
  DEF migrate, MigrationFails, ComesUp, Respawn, Crash, New, Present
<1>2. CASE snapshotBeforeMigrate
  <2>1. UNCHANGED <<script, db, held, prev, preNew, preBefore>>
    BY <1>2 DEF snapshotBeforeMigrate
  <2>2. /\ New \subseteq New' /\ New' \subseteq New \cup {Pending}
        /\ \A m \in New : m # Pending => copies'[m] = copies[m]
    BY <1>2, <2>1, SnapshotKeepsNewCopies
  <2>3. ASSUME NEW m \in New'
        PROVE  /\ copies'[m].whole /\ held \subseteq copies'[m].data
               /\ prev.knows <= copies'[m].schema
    <3>1. CASE m = Pending
      <4>1. /\ copies'[m].whole /\ copies'[m].schema = db.schema
            /\ copies'[m] = copies[m] \/ copies'[m].data = db.data
            /\ copies'[m] # NoCopy /\ m \in Migrations
        BY <1>2, <3>1, SnapshotEffect
      <4>2. copies'[m] = copies[m] => m \in New
        BY <2>1, <4>1 DEF New, Present
      <4>3. prev.knows <= db.schema
        BY <1>0 DEF InTurn
      <4> QED
        BY <1>0b, <2>1, <4>1, <4>2, <4>3
    <3>2. CASE m # Pending
      BY <1>0b, <2>1, <2>2, <3>2
    <3> QED
      BY <3>1, <3>2
  <2> QED
    BY <1>0b, <2>1, <2>2, <2>3
<1>3. CASE applyMigration
  BY <1>0a, <1>0b, <1>3 DEF applyMigration, New, Present
<1>4. CASE Write
  <2>1. /\ db'.data = db.data \cup {writes + 1}
        /\ UNCHANGED <<copies, preBefore, preNew, prev, script>>
    BY <1>0a, <1>4 DEF Write
  <2>2. held' \subseteq db'.data
    BY <1>0b, <1>4, <2>1 DEF Write
  <2>3. held' # held => New = {}
    BY <1>0, <1>4 DEF Write, InTurn
  <2> QED
    BY <1>0b, <2>1, <2>2, <2>3 DEF New, Present
<1>5. CASE Build
  BY <1>5 DEF Build, New, Present
<1>6. CASE Restart \/ Unhealthy \/ StopService
  BY <1>0b, <1>6 DEF Restart, Unhealthy, StopService, New, Present
<1>7. CASE Look
  <2>1. New \in SUBSET Nat
    BY Numbers DEF New, Present
  <2>2. New # {} => Min(New) \in New
    BY <2>1, MinIsInTheSet
  <2>3. /\ preNew' = IF New = {} THEN 0 ELSE Min(New)
        /\ script' = IF New = {} THEN "again" ELSE "stop"
        /\ script = "look" /\ UNCHANGED <<copies, db, preBefore, held, prev>>
    BY <1>7 DEF Look, New
  <2> QED
    BY <1>0b, <2>2, <2>3 DEF New, Present
<1>8. CASE healthy_new \/ Restore \/ RestartPrevious
  BY <1>8 DEF healthy_new, Restore, RestartPrevious
<1>9. CASE UNCHANGED vars
  BY <1>0b, <1>9 DEF vars, New, Present
<1> QED
  BY <1>1, <1>2, <1>3, <1>4, <1>5, <1>6, <1>7, <1>8, <1>9
  DEF Next, Service, Deploy

-----------------------------------------------------------------------------
(* Without an excuse, the first of these copies is the one of the          *)
(* predecessor's schema.                                                   *)

LEMMA NextFirstOfThem == IInv /\ [Next]_vars => FirstOfThem'
<1> SUFFICES ASSUME IInv, [Next]_vars, excuses' = {}
             PROVE  /\ (script \in Undoable)' =>
                         /\ New' # {} => prev'.knows + 1 \in New'
                         /\ db'.schema > prev'.knows \/ proc'.at = "apply"
                              => New' # {}
                         /\ script' \in {"stop", "restore"}
                              => preNew' = prev'.knows + 1
                    /\ script' \in {"again", "idle"} => db'.schema <= bin'.knows
  BY DEF FirstOfThem
<1>0. TypeOK /\ AtWork /\ InTurn /\ CopiesHold /\ FirstOfThem
  BY DEF IInv, RollbackInv
<1>0a. /\ db \in [schema : Schemas, data : SUBSET (1..writes)]
       /\ db.schema \in Nat
       /\ bin.knows \in Nat /\ prev.knows \in Nat /\ proc.build.knows \in Nat
       /\ proc \in [at : {"start", "copy", "apply", "up", "serve", "down",
                          "stopped"},
                    build : Builds]
  BY <1>0, Typed DEF TypeOK
<1>0b. excuses = {} =>
         /\ script \in Undoable =>
              /\ New # {} => prev.knows + 1 \in New
              /\ db.schema > prev.knows \/ proc.at = "apply" => New # {}
              /\ script \in {"stop", "restore"} => preNew = prev.knows + 1
         /\ script \in {"again", "idle"} => db.schema <= bin.knows
  BY <1>0 DEF FirstOfThem
<1> USE DEF Undoable
<1>1. CASE migrate \/ MigrationFails \/ ComesUp \/ Respawn \/ Crash
  BY <1>0a, <1>0b, <1>1
  DEF migrate, MigrationFails, ComesUp, Respawn, Crash, New, Present
<1>2. CASE snapshotBeforeMigrate
  <2>1. UNCHANGED <<script, db, bin, prev, preNew>>
    BY <1>2 DEF snapshotBeforeMigrate
  <2>2. excuses = {} /\ Pending \notin preBefore
    BY <1>2, SnapshotEffect
  <2>3. ASSUME script \in Undoable
        PROVE  prev.knows + 1 \in New'
    <3>1. New \subseteq New' /\ Pending \in New'
      BY <1>2, <2>2, <2>3, SnapshotKeepsNewCopies
    <3>2. New = {} => Pending = prev.knows + 1
      BY <1>0, <1>0a, <1>0b, <2>2, <2>3 DEF InTurn, Pending
    <3> QED
      BY <1>0b, <2>2, <2>3, <3>1, <3>2
  <2> QED
    BY <1>0b, <2>1, <2>2, <2>3
<1>3. CASE applyMigration
  <2>1. excuses = {} /\ ~Looked
    BY <1>3 DEF applyMigration
  <2>2. /\ db'.schema = db.schema + 1
        /\ UNCHANGED <<script, bin, prev, preNew, copies, preBefore>>
    BY <1>0a, <1>3 DEF applyMigration, Pending
  <2>3. ASSUME script \in {"again", "idle"}
        PROVE  db'.schema <= bin.knows
    <3>1. script = "idle"
      BY <1>0, <1>3, <2>1, <2>3 DEF applyMigration, Looked, AtWork
    <3>2. proc.build = bin
      BY <1>0, <3>1 DEF InTurn
    <3> QED
      BY <1>0, <1>0a, <1>3, <2>2, <3>2 DEF applyMigration, AtWork
  <2> QED
    BY <1>0b, <1>3, <2>1, <2>2, <2>3 DEF applyMigration, New, Present
<1>4. CASE Write
  BY <1>0a, <1>0b, <1>4 DEF Write, New, Present
<1>5. CASE Build
  <2>1. /\ prev' = bin /\ script' = "restart" /\ New' = {}
        /\ UNCHANGED <<db, proc>> /\ script = "idle"
    BY <1>5 DEF Build, New, Present
  <2>2. ~(db.schema > bin.knows)
    BY <1>5 DEF Build
  <2>3. proc.at # "apply"
    BY <1>0, <1>0a, <2>1 DEF AtWork, InTurn
  <2> QED
    BY <2>1, <2>2, <2>3
<1>6. CASE Restart \/ Unhealthy \/ StopService
  BY <1>0a, <1>0b, <1>6 DEF Restart, Unhealthy, StopService, New, Present
<1>7. CASE healthy_new
  BY <1>0, <1>0a, <1>7 DEF healthy_new, Healthy, AtWork
<1>8. CASE Look
  <2>1. /\ preNew' = IF New = {} THEN 0 ELSE Min(New)
        /\ script' = IF New = {} THEN "again" ELSE "stop"
        /\ script = "look" /\ excuses = {}
        /\ UNCHANGED <<copies, db, preBefore, bin, prev, proc>>
    BY <1>8 DEF Look, New
  <2>2. CASE New = {}
    <3>1. ~(db.schema > prev.knows) /\ bin = prev
      BY <1>0, <1>0b, <2>1, <2>2 DEF InTurn, Undoing
    <3> QED
      BY <1>0a, <2>1, <2>2, <3>1
  <2>3. CASE New # {}
    <3>1. prev.knows + 1 \in New
      BY <1>0b, <2>1, <2>3
    <3>2. New \in SUBSET Nat
      BY Numbers DEF New, Present
    <3>3. Min(New) \in New /\ Min(New) \in Nat /\ Min(New) <= prev.knows + 1
      BY <2>3, <3>1, <3>2, MinIsInTheSet
    <3>4. prev.knows <= Min(New) - 1
      BY <2>1, <3>3, NewCopies
    <3>5. Min(New) = prev.knows + 1
      BY ONLY <1>0a, <3>3, <3>4
    <3>6. New' = New
      BY <2>1 DEF New, Present
    <3> QED
      BY <2>1, <2>3, <3>1, <3>5, <3>6
  <2> QED
    BY <2>2, <2>3
<1>9. CASE Restore
  <2>1. preNew \in New /\ script \in Undoable /\ excuses = {}
        /\ preNew = prev.knows + 1 /\ bin' = bin /\ script' = "again"
    BY <1>0, <1>0b, <1>9 DEF CopiesHold, Restore
  <2>2. copies[preNew].schema = preNew - 1
    BY <2>1, NewCopies
  <2>3. db'.schema = prev.knows /\ bin = prev
    BY <1>0, <1>0a, <1>9, <2>1, <2>2 DEF Restore, InTurn, Undoing
  <2> QED
    BY <1>0a, <2>1, <2>3
<1>10. CASE RestartPrevious
  BY <1>0b, <1>10 DEF RestartPrevious
<1>11. CASE UNCHANGED vars
  BY <1>0b, <1>11 DEF vars, New, Present
<1> QED
  BY <1>1, <1>2, <1>3, <1>4, <1>5, <1>6, <1>7, <1>8, <1>9, <1>10, <1>11
  DEF Next, Service, Deploy

LEMMA NextIInv == IInv /\ [Next]_vars => IInv'
BY NextTypeOK, NextAtWork, NextInTurn, NextCopiesHold, NextFirstOfThem
DEF IInv, RollbackInv

LEMMA SpecIInv == Spec => []IInv
<1> QED
  BY InitIInv, NextIInv, PTL DEF Spec

-----------------------------------------------------------------------------
(* The types are kept; in particular a whole copy named after a migration  *)
(* is a database to which that migration has not been applied.             *)
THEOREM MigrationTypeOK == Spec => []TypeOK
<1>1. IInv => TypeOK
  BY DEF IInv
<1> QED
  BY <1>1, SpecIInv, PTL

(* What makes a rollback work: see RollbackInv.                            *)
THEOREM MigrationRollbackInv == Spec => []RollbackInv
<1>1. IInv => RollbackInv
  BY DEF IInv
<1> QED
  BY <1>1, SpecIInv, PTL

(* No build ever serves users over a schema other than its own.            *)
THEOREM MigrationServesItsOwnSchema == Spec => []ServesItsOwnSchema
<1>1. IInv => ServesItsOwnSchema
  BY DEF IInv, RollbackInv, AtWork, ServesItsOwnSchema
<1> QED
  BY <1>1, SpecIInv, PTL

(* When the script has ended without success, the previous build finds a   *)
(* database it can serve, unless there is one of the three excuses.        *)
THEOREM MigrationPreviousCanServe == Spec => []PreviousCanServe
<1>1. IInv => PreviousCanServe
  BY DEF IInv, RollbackInv, FirstOfThem, PreviousCanServe, RolledBack
<1> QED
  BY <1>1, SpecIInv, PTL

(* A rollback restores a whole copy, and loses nothing users entered before *)
(* the new build took over.                                                *)
THEOREM MigrationRollbackKeepsOldChanges == Spec => RollbackKeepsOldChanges
<1> DEFINE Keeps == script = "restore" /\ script' = "again" =>
                      copies[preNew].whole /\ held \subseteq db'.data
<1>1. IInv /\ [Next]_vars => [Keeps]_vars
  <2> SUFFICES ASSUME IInv, Next, script = "restore", script' = "again"
               PROVE  copies[preNew].whole /\ held \subseteq db'.data
    OBVIOUS
  <2>1. Restore
    <3>1. ~(Service \/ Write \/ Crash \/ Build)
      BY DEF Service, Write, Crash, Build, migrate, snapshotBeforeMigrate,
             applyMigration, MigrationFails, ComesUp, Respawn
    <3>2. ~(Restart \/ healthy_new \/ Unhealthy \/ Look \/ StopService
              \/ RestartPrevious)
      BY DEF Restart, healthy_new, Unhealthy, Look, StopService, RestartPrevious
    <3> QED
      BY <3>1, <3>2 DEF Next, Deploy
  <2>2. preNew \in New /\ script \in Undoable
    BY DEF IInv, RollbackInv, CopiesHold, Undoable
  <2>3. copies[preNew].whole /\ held \subseteq copies[preNew].data
    BY <2>2, NewCopies
  <2> QED
    BY <2>1, <2>3 DEF Restore
<1> HIDE DEF Keeps
<1>2. Spec => [][Keeps]_vars
  BY <1>1, SpecIInv, PTL DEF Spec
<1> QED
  BY <1>2 DEF RollbackKeepsOldChanges, Keeps
=============================================================================
