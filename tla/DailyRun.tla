------------------------------ MODULE DailyRun ------------------------------
(***************************************************************************)
(* The daily run (internal/jobs/fleet.go, jobs.go): every day at a fixed   *)
(* hour the common data are refreshed, and each portfolio gets its         *)
(* snapshot, its backup and the mark of the backup; a run whose refresh    *)
(* has failed is repeated every hour a few times, and a service that       *)
(* starts on a day without a snapshot catches up at once.                  *)
(*                                                                         *)
(* Time goes by in hours, also during a run, so a run may cross midnight.  *)
(* A snapshot is a row for a day; a backup is two files: a generation with *)
(* the day in its name and a copy under a name that does not change.  What *)
(* a file holds is the version of the portfolio's books it was taken from. *)
(* What the run publishes is in PortfolioLifecycle and StatePublication.   *)
(***************************************************************************)
EXTENDS Integers, Sequences, FiniteSets

CONSTANTS
  Portfolios,
  Order,           \* the runners in the order of a run
  DayHours,        \* hours of a day
  RunHour,         \* the hour of the daily run
  RefreshRetries,  \* refreshRetries
  BackupKeep,      \* backupKeep
  Horizon,         \* bound: the last hour
  Limits           \* bounds: failed steps, crashes, changes, hours a run may take

ASSUME ScheduleAssumption ==
  /\ DayHours \in Nat \ {0} /\ RunHour \in 1..(DayHours - 1)
  /\ RefreshRetries \in Nat /\ BackupKeep \in Nat \ {0} /\ Horizon \in Nat
  /\ Order \in Seq(Portfolios)
  /\ Portfolios # {} /\ \A p \in Portfolios : \E i \in DOMAIN Order : Order[i] = p
  /\ Limits \subseteq [faults : Nat, crashes : Nat, changes : Nat, slow : 0..RunHour]

VARIABLES
  now, limits,
  proc,        \* what RunDaily is at: the place, the hours the run has taken,
               \* the runner it is at, what it exported; when it will wake
  retries, failed,
  snapshots,   \* days with a snapshot, by portfolio
  gens,        \* by portfolio: version held, by day of the generation
  stable,      \* by portfolio: version held by the file without a date
  mark,        \* backup_at: a day, -1 for none
  books,       \* version of the books (one counter for all portfolios)
  booksAt,     \* version at the beginning of each day so far
  missed,      \* <<portfolio, day>>: the snapshot failed or was not looked for
  lost,        \* <<portfolio, day>>: the backup failed, or the process died first
  runs, starts, faults, crashes

history == <<booksAt, missed, lost, runs, starts>>
files == <<snapshots, gens, stable, mark>>
vars == <<now, limits, proc, retries, failed, files, books, history, faults, crashes>>

Day(t) == t \div DayHours
Hour(t) == t % DayHours
Today == Day(now)

Down == [at |-> "down", slow |-> 0, i |-> 0, data |-> 0, wake |-> 0, retry |-> FALSE]
AllToday == {<<p, Today>> : p \in Portfolios}

----------------------------------------------------------------------------
(* The schedule. *)

NextDaily(t) ==
  IF Hour(t) < RunHour THEN Day(t) * DayHours + RunHour
                       ELSE (Day(t) + 1) * DayHours + RunHour

(* [mutant] a run that fails is repeated without end *)
WaitForEver(hasFailed, n) ==
  IF hasFailed /\ now + 1 < NextDaily(now)
    THEN [Down EXCEPT !.at = "waiting", !.wake = now + 1, !.retry = TRUE]
    ELSE [Down EXCEPT !.at = "waiting", !.wake = NextDaily(now)]
Wait(hasFailed, n) ==
  IF hasFailed /\ n < RefreshRetries /\ now + 1 < NextDaily(now)
    THEN [Down EXCEPT !.at = "waiting", !.wake = now + 1, !.retry = TRUE]
    ELSE [Down EXCEPT !.at = "waiting", !.wake = NextDaily(now)]

BeginRun ==
  /\ proc' = [Down EXCEPT !.at = "refresh"]
  /\ runs' = runs + 1

Start ==
  /\ proc.at = "down"
  /\ proc' = [Down EXCEPT !.at = "check"]
  /\ retries' = 0 /\ failed' = FALSE /\ starts' = starts + 1
  /\ UNCHANGED <<now, limits, files, books, booksAt, missed, lost, runs, faults, crashes>>

(* [mutant] a start never catches up *)
NeedsCatchUpNever == FALSE

(* needsCatchUp: some portfolio has no snapshot of today. *)
NeedsCatchUp == \E p \in Portfolios : Today \notin snapshots[p]

CheckAtStart ==
  /\ proc.at = "check"
  /\ \/ /\ NeedsCatchUp /\ BeginRun /\ UNCHANGED <<missed, lost, faults>>
     \/ /\ ~NeedsCatchUp /\ proc' = Wait(failed, retries)
        /\ UNCHANGED <<runs, missed, lost, faults>>
     \/ /\ faults < limits.faults /\ faults' = faults + 1
        /\ proc' = Wait(failed, retries)
        /\ missed' = missed \cup AllToday /\ lost' = lost \cup AllToday
        /\ UNCHANGED runs
  /\ UNCHANGED <<now, limits, retries, failed, files, books, booksAt, starts, crashes>>

Wake ==
  /\ proc.at = "waiting" /\ now = proc.wake
  /\ BeginRun
  /\ retries' = IF proc.retry THEN retries + 1 ELSE 0
  /\ UNCHANGED <<now, limits, failed, files, books, booksAt, missed, lost, starts,
                 faults, crashes>>

----------------------------------------------------------------------------
(* The run. *)

At(where, i) == [Down EXCEPT !.at = where, !.slow = proc.slow, !.i = i]
P == Order[proc.i]
GoTo(where) == proc' = [proc EXCEPT !.at = where]

(* RefreshAll: its error is kept and breaks nothing off. *)
Refresh ==
  /\ proc.at = "refresh"
  /\ failed' \in BOOLEAN
  /\ proc' = At("snapshot", 1)
  /\ UNCHANGED <<now, limits, retries, files, books, history, faults, crashes>>

Fails == faults < limits.faults /\ faults' = faults + 1

(* [mutant] without a snapshot there is no dump either *)
SnapshotOrNothing ==
  /\ proc.at = "snapshot"
  /\ \/ /\ GoTo("export") /\ snapshots' = [snapshots EXCEPT ![P] = @ \cup {Today}]
        /\ UNCHANGED <<missed, faults>>
     \/ /\ GoTo("next") /\ Fails /\ missed' = missed \cup {<<P, Today>>}
        /\ UNCHANGED snapshots
  /\ UNCHANGED <<now, limits, retries, failed, gens, stable, mark, books, booksAt, lost,
                 runs, starts, crashes>>

(* Snapshot: a failure does not keep the dump from being made. *)
Snapshot ==
  /\ proc.at = "snapshot" /\ GoTo("export")
  /\ \/ /\ snapshots' = [snapshots EXCEPT ![P] = @ \cup {Today}]
        /\ UNCHANGED <<missed, faults>>
     \/ /\ Fails /\ missed' = missed \cup {<<P, Today>>}
        /\ UNCHANGED snapshots
  /\ UNCHANGED <<now, limits, retries, failed, gens, stable, mark, books, booksAt, lost,
                 runs, starts, crashes>>

(* What a step of the dump may fail at ends the dump. *)
DumpFails ==
  /\ proc.at \in {"export", "dated", "stable", "mark"} /\ Fails
  /\ GoTo("next")
  /\ lost' = lost \cup {<<P, Today>>}
  /\ UNCHANGED <<now, limits, retries, failed, files, books, booksAt, missed, runs,
                 starts, crashes>>

Export ==
  /\ proc.at = "export"
  /\ proc' = [proc EXCEPT !.at = "dated", !.data = books]
  /\ UNCHANGED <<now, limits, retries, failed, files, books, history, faults, crashes>>

WriteDated ==
  /\ proc.at = "dated" /\ GoTo("stable")
  /\ gens' = [gens EXCEPT ![P] =
       [d \in DOMAIN @ \cup {Today} |-> IF d = Today THEN proc.data ELSE @[d]]]
  /\ UNCHANGED <<now, limits, retries, failed, snapshots, stable, mark, books, history,
                 faults, crashes>>

(* [mutant] the newest generations are removed *)
PrunedFromTheTop(g) ==
  [d \in {x \in DOMAIN g : Cardinality({y \in DOMAIN g : y < x}) < BackupKeep} |-> g[d]]

(* pruneBackups: names sort as their days do. *)
Pruned(g) ==
  [d \in {x \in DOMAIN g : Cardinality({y \in DOMAIN g : y > x}) < BackupKeep} |-> g[d]]

WriteStable ==
  /\ proc.at = "stable" /\ GoTo("mark")
  /\ stable' = [stable EXCEPT ![P] = proc.data]
  /\ gens' = [gens EXCEPT ![P] = Pruned(@)]
  /\ UNCHANGED <<now, limits, retries, failed, snapshots, mark, books, history, faults,
                 crashes>>

(* [mutant] the mark is made whether or not the files were written *)
MarkAnyway ==
  /\ proc.at \in {"dated", "mark"} /\ GoTo("next")
  /\ mark' = [mark EXCEPT ![P] = Today]
  /\ UNCHANGED <<now, limits, retries, failed, snapshots, gens, stable, books, history,
                 faults, crashes>>
Mark ==
  /\ proc.at = "mark" /\ GoTo("next")
  /\ mark' = [mark EXCEPT ![P] = Today]
  /\ UNCHANGED <<now, limits, retries, failed, snapshots, gens, stable, books, history,
                 faults, crashes>>

NextPortfolio ==
  /\ proc.at = "next"
  /\ proc' = IF proc.i < Len(Order) THEN At("snapshot", proc.i + 1)
                                    ELSE Wait(failed, retries)
  /\ UNCHANGED <<now, limits, retries, failed, files, books, history, faults, crashes>>

Running == proc.at \notin {"down", "check", "waiting"}

----------------------------------------------------------------------------
(* Time, people and the machine. *)

Tick ==
  /\ now < Horizon
  /\ proc.at = "waiting" => now < proc.wake
  /\ proc.at # "check"
  /\ Running => proc.slow < limits.slow
  /\ proc' = IF Running THEN [proc EXCEPT !.slow = @ + 1] ELSE proc
  /\ now' = now + 1
  /\ booksAt' = IF Hour(now') = 0 THEN Append(booksAt, books) ELSE booksAt
  /\ runs' = IF Hour(now') = 0 THEN 0 ELSE runs
  /\ starts' = IF Hour(now') = 0 THEN 0 ELSE starts
  /\ UNCHANGED <<limits, retries, failed, files, books, missed, lost, faults, crashes>>

Change ==
  /\ books < limits.changes /\ books' = books + 1
  /\ UNCHANGED <<now, limits, proc, retries, failed, files, history, faults, crashes>>

Crash ==
  /\ proc.at # "down"
  /\ crashes < limits.crashes /\ crashes' = crashes + 1
  /\ proc' = Down
  /\ lost' = IF Running THEN lost \cup {<<p, Day(now - proc.slow)>> : p \in Portfolios}
                                   \cup AllToday
                        ELSE lost
  /\ UNCHANGED <<now, limits, retries, failed, files, books, booksAt, missed, runs,
                 starts, faults>>

Init ==
  /\ limits \in Limits
  /\ now \in 0..(DayHours - 1)
  /\ proc = Down /\ retries = 0 /\ failed = FALSE
  /\ snapshots = [p \in Portfolios |-> {}]
  /\ gens = [p \in Portfolios |-> <<>>]
  /\ stable = [p \in Portfolios |-> -1] /\ mark = [p \in Portfolios |-> -1]
  /\ books = 0 /\ booksAt = <<0>>
  /\ missed = {} /\ lost = {} /\ runs = 0 /\ starts = 0 /\ faults = 0 /\ crashes = 0

dailyRun ==
  \/ Refresh \/ Snapshot \/ Export \/ WriteDated \/ WriteStable \/ Mark \/ DumpFails
  \/ NextPortfolio
RunDaily == Start \/ CheckAtStart \/ Wake

Next == RunDaily \/ dailyRun \/ Tick \/ Change \/ Crash

Spec == Init /\ [][Next]_vars

----------------------------------------------------------------------------
(* Properties. *)

(* Once the hour of the run is past and the service waits for the next     *)
(* one, today is on the curve of every portfolio, whenever the service was *)
(* started, however long the run took and whatever the National Bank       *)
(* answered -- unless the snapshot itself failed.                          *)
DayIsSnapshotted ==
  proc.at = "waiting" /\ Hour(now) > RunHour =>
    \A p \in Portfolios : Today \in snapshots[p] \/ <<p, Today>> \in missed

(* The same for the backup, but for days on which the process died in the  *)
(* middle of a run: the next start looks at the snapshots only.            *)
DayIsBackedUp ==
  proc.at = "waiting" /\ Hour(now) > RunHour =>
    \A p \in Portfolios : Today \in DOMAIN gens[p] \/ <<p, Today>> \in lost

(* Both: no day on which the service lives is missing from the curve and   *)
(* from the backups.                                                       *)
DayIsKept == DayIsSnapshotted /\ DayIsBackedUp

(* The comment at persistDaily, "that which must happen in any case": with *)
(* the snapshot of a day there is its backup, unless a step of it failed.  *)
BackupWithTheSnapshot ==
  proc.at = "waiting" /\ Hour(now) > RunHour /\ faults = 0 =>
    \A p \in Portfolios : Today \in snapshots[p] => Today \in DOMAIN gens[p]

(* The mark, by which a missing backup is noticed, never claims more than  *)
(* the files hold: everything entered before the day before it.            *)
MarkTellsTheTruth ==
  \A p \in Portfolios : mark[p] > 0 =>
    /\ stable[p] >= booksAt[mark[p]]
    /\ \E d \in DOMAIN gens[p] : d + 1 >= mark[p] /\ gens[p][d] >= booksAt[mark[p]]

(* A generation is removed only when enough younger ones are there, and    *)
(* none is written over by an older state of the books.                    *)
GenerationsKept ==
  [][\A p \in Portfolios : \A d \in DOMAIN gens[p] :
       IF d \in DOMAIN gens'[p]
         THEN gens'[p][d] >= gens[p][d]
         ELSE Cardinality({e \in DOMAIN gens'[p] : e > d}) >= BackupKeep]_vars

(* However often the National Bank fails and the service starts anew, it   *)
(* is asked a bounded number of times a day: each start and the daily hour *)
(* bring one run with its retries, and some may be left of yesterday.      *)
NotTooOften == runs <= (1 + RefreshRetries) * (1 + starts) + RefreshRetries
=============================================================================
